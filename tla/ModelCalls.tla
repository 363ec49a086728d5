----------------------------- MODULE ModelCalls -----------------------------
(***************************************************************************)
(* One call of a service by a node of the pipeline, as the node sees it:   *)
(* what goes into the prompt, what becomes of the answer, how often an     *)
(* embedding is asked for and what a search returns (validators/,          *)
(* scorers/, drafters/, retrievers/, llm/).  No call raises: whatever goes *)
(* wrong is "none", which is what ClausePipeline makes its choices from.   *)
(***************************************************************************)
EXTENDS Naturals, Sequences, FiniteSets

-----------------------------------------------------------------------------
(* Prompts.  Of a text only its length in characters counts.               *)

(* text[:limit]                                                            *)
Clipped(text, limit) == IF text <= limit THEN text ELSE limit
(* max(0, limit - used)                                                    *)
Room(limit, used) == IF used <= limit THEN limit - used ELSE 0

(* check_isrel, check_issup, check_combined, score_risk: the evidence has  *)
(* what room the clause leaves.                                            *)
JudgePrompt(clause, evidence, limit) ==
  LET c == Clipped(clause, limit)
  IN  [clause |-> c, evidence |-> Clipped(evidence, Room(limit, c))]

(* draft_rewrite: room is kept for the rationale before the clause.        *)
DraftPrompt(clause, rationale, evidence, limit, reserve) ==
  LET c == Clipped(clause, Room(limit, Clipped(rationale, reserve)))
      r == Clipped(rationale, Room(limit, c))
  IN  [clause |-> c, rationale |-> r,
       evidence |-> Clipped(evidence, Room(Room(limit, c), r))]

-----------------------------------------------------------------------------
(* Answers.  "late" is a call beyond its timeout, "failed" one that raises,*)
(* "garbled" an answer that is not JSON or no JSON object.  The value of a *)
(* key is a boolean, a string (of a level in any case, blank, or another), *)
(* nothing (a missing key, null, zero, an empty list) or something else.   *)

Booleans == {"true", "false"}
Levels   == {"low", "medium", "high"}
Value    == Booleans \cup Levels \cup {"words", "blank", "nothing", "else"}
Key      == {"verdict", "relevance", "isrel", "issup", "risk_level",
             "rationale", "suggested_rewrite"}
Answer   == [form : {"late", "failed", "garbled", "object"}, at : [Key -> Value]]

Flag(value) == IF value \in Booleans THEN value ELSE "none"

(* _run_judgment, _parse_verdict                                           *)
Judged(a) == IF a.form = "object" THEN Flag(a.at["verdict"]) ELSE "none"

(* check_combined, _parse_combined: a key that is no boolean is not a      *)
(* failed call.                                                            *)
JudgedAtOnce(a) ==
  IF a.form = "object"
  THEN [call |-> "answered", relevance |-> Flag(a.at["relevance"]),
        isrel |-> Flag(a.at["isrel"]), issup |-> Flag(a.at["issup"])]
  ELSE [call |-> "none", relevance |-> "none", isrel |-> "none", issup |-> "none"]

(* _run_scoring, _parse_score: a level without a rationale is of no use.   *)
(* A rationale that is no string is written out, unless it is nothing.     *)
Scored(a) ==
  IF /\ a.form = "object" /\ a.at["risk_level"] \in Levels
     /\ a.at["rationale"] \notin {"blank", "nothing", "false"}
  THEN a.at["risk_level"] ELSE "none"

(* _run_drafting, _parse_rewrite                                           *)
Drafted(a) ==
  IF a.form = "object" /\ a.at["suggested_rewrite"] \in Levels \cup {"words"}
  THEN "drafted" ELSE "none"

-----------------------------------------------------------------------------
(* Embeddings.  tried is what becomes of the attempts a client would make, *)
(* one after another: a vector, a vector of length zero, an answer of      *)
(* another shape, no connection, "busy" (429 or 503) or another status.    *)

Attempt == {"vector", "zero", "misshapen", "unreachable", "busy", "refused"}

(* HFEmbedClient and CloudflareEmbedClient                                 *)
RetriedByHF         == {"unreachable", "busy"}
RetriedByCloudflare == {"unreachable"}

Made(tried, retried, retries) ==
  {i \in 1 .. retries + 1 : \A j \in 1 .. i - 1 : tried[j] \in retried}

(* embed_query: a vector, unless it has no length or the call is late.     *)
Embedded(tried, retried, retries, late) ==
  ~late /\ \E i \in Made(tried, retried, retries) : tried[i] = "vector"

-----------------------------------------------------------------------------
(* Searches *)

(* load_kb: what was loaded once stays; the index and its sidecar must be  *)
(* there, be readable and agree in the number of their rows.               *)
Loaded(cached, index, sidecar) ==
  IF cached.is = "loaded" THEN cached
  ELSE IF index.is = "readable" /\ sidecar.is = "readable" /\ index.rows = sidecar.rows
       THEN [is |-> "loaded", rows |-> index.rows]
       ELSE [is |-> "missing", rows |-> 0]

(* search_kb: how many snippets                                            *)
FromIndex(kb, top) == Clipped(kb.rows, top)

(* web_search, _run_search: the usable of the first results, also of those *)
(* that came before the search failed; none when it is late.               *)
FromWebSearch(usable, limit, late) == IF late THEN 0 ELSE Clipped(usable, limit)
=============================================================================
