--------------------------- MODULE ClausePipeline ---------------------------
(***************************************************************************)
(* One run of the LangGraph pipeline over the clauses of a contract:       *)
(*   ingest -> clause splitter -> CRAG retrieval -> Self-RAG validation -> *)
(*   risk score -> route_on_risk -> redline | skip_redline -> report       *)
(* (graph/builder.py and graph/nodes).  Each node loops over the clauses   *)
(* in document order, makes its LLM, embedding or web calls, any of which  *)
(* may fail, behind a circuit breaker of its own, and returns an update    *)
(* the graph merges into ContractState.  The checkpointer saves the state  *)
(* after a node, in the background; a crash loses the running node and     *)
(* what was not saved yet, and the run resumes from the last checkpoint.   *)
(* The report files are written by the last node and survive the crash.    *)
(*                                                                         *)
(* One action is what a node does up to its next external call.            *)
(***************************************************************************)
EXTENDS Naturals, Sequences, FiniteSets

CONSTANTS
  MaxClauses,        (* MAX_CLAUSES_LIMIT: bound on the clauses of a document  *)
  EmbedThreshold,    (* CRAG_EMBED_CIRCUIT_BREAKER_THRESHOLD                   *)
  JudgeThreshold,    (* SELF_RAG_LLM_CIRCUIT_BREAKER_THRESHOLD                 *)
  RiskThreshold,     (* RISK_SCORE_LLM_CIRCUIT_BREAKER_THRESHOLD               *)
  RewriteThreshold,  (* REDLINE_LLM_CIRCUIT_BREAKER_THRESHOLD                  *)
  MaxAttempts,       (* SELF_RAG_MAX_ATTEMPTS                                  *)
  JudgmentModes,     (* the values SELF_RAG_MERGE_JUDGMENTS may have           *)
  RedlineLevels,     (* REDLINE_RISK_THRESHOLD                                 *)
  DefaultLevel,      (* RISK_SCORE_DEFAULT_LEVEL_ON_FAILURE                    *)
  DegradedPercent,   (* ANALYSIS_DEGRADED_FAILSAFE_FRACTION, in percent        *)
  Turso,             (* are the report files blobs of the Turso database?      *)
  MaxCrashes         (* bound: crashes of the process                          *)

Level == {"low", "medium", "high"}

ASSUME LimitsAssumption ==
  /\ {MaxClauses, DegradedPercent, MaxCrashes} \subseteq Nat
  /\ {EmbedThreshold, JudgeThreshold, RiskThreshold, RewriteThreshold,
      MaxAttempts} \subseteq Nat \ {0}
  /\ Turso \in BOOLEAN /\ JudgmentModes \subseteq BOOLEAN
  /\ RedlineLevels \subseteq Level /\ DefaultLevel \in Level

-----------------------------------------------------------------------------
(* Data *)

(* An answer of a judge; "none" is a call that failed (None in the code).  *)
Verdict == {"true", "false", "none"}

(* A clause record.  Of its text only whether it is blank counts, of its   *)
(* type whether it is one of SELF_RAG_RECALL_FLOOR_TYPES, of its evidence  *)
(* whether there is any.  "none" is a field that is None or absent; the    *)
(* rewrite distinguishes the absent key ("absent") from None.              *)
Clause == [text : {"text", "blank"}, type : {"floor", "other"},
           evidence : {"some", "none"},
           relevance : Verdict, isrel : Verdict, issup : Verdict,
           final : {"none", "validated", "discarded"},
           risk : Level \cup {"none"}, failsafe : {"yes", "no", "none"},
           rewrite : {"absent", "none", "drafted"}]

Segment(text, type) ==
  [text |-> text, type |-> type, evidence |-> "none", relevance |-> "none",
   isrel |-> "none", issup |-> "none", final |-> "none", risk |-> "none",
   failsafe |-> "none", rewrite |-> "absent"]

(* The node the graph runs next; "end" is END.                             *)
Node == {"ingest_agent", "clause_splitter", "crag_retrieval", "self_rag_validation",
         "risk_score", "redline", "skip_redline", "report", "end"}

ContractState ==
  [next : Node, clauses : Seq(Clause), error_count : Nat,
   ingest_error : BOOLEAN, report_path : BOOLEAN]

Fresh == [next |-> "ingest_agent", clauses |-> << >>, error_count |-> 0,
          ingest_error |-> FALSE, report_path |-> FALSE]

(* The files at the report's .json and .md keys.                           *)
NoFile  == [is |-> "absent", findings |-> << >>, degraded |-> FALSE]
Partial == [NoFile EXCEPT !.is = "partial"]

VARIABLES
  graph,    (* ContractState, as the graph holds it in memory                *)
  saved,    (* durable: the last checkpoint                                  *)
  work,     (* the clauses, with the updates of the running node so far      *)
  at,       (* the clause the running node is at                             *)
  stage,    (* the call the running node makes next for that clause          *)
  attempt,  (* the attempt of _issup_loop                                    *)
  cb,       (* the circuit breaker of the running node                       *)
  json, md, (* durable: the report files                                     *)
  merged,   (* SELF_RAG_MERGE_JUDGMENTS, as the process read it              *)
  crashes   (* how often the process has crashed so far                      *)

local == <<work, at, stage, attempt, cb>>
files == <<json, md>>
vars  == <<graph, saved, local, files, merged, crashes>>

-----------------------------------------------------------------------------
(* The circuit breaker of a node: {"consecutive_failures", "open"}; the    *)
(* code's third field, "tripped", is always equal to "open".               *)

Closed == [failures |-> 0, open |-> FALSE]

(* Mutant: opens one failure too late.                                     *)
AccountLate(ok, threshold) ==
  cb' = IF ok THEN [cb EXCEPT !.failures = 0]
        ELSE [failures |-> cb.failures + 1,
              open     |-> cb.open \/ cb.failures + 1 > threshold]

(* _account: a failed call counts and opens the breaker at the threshold,  *)
(* an answer resets the count.                                             *)
Account(ok, threshold) ==
  cb' = IF ok THEN [cb EXCEPT !.failures = 0]
        ELSE [failures |-> cb.failures + 1,
              open     |-> cb.open \/ cb.failures + 1 >= threshold]

(* The health signal a node adds to error_count.                           *)
Tripped == IF cb.open THEN 1 ELSE 0

-----------------------------------------------------------------------------
(* The loop over the clauses *)

Here == work[at]
Visiting(node) == graph.next = node /\ at <= Len(work)
Finished(node) == graph.next = node /\ at > Len(work)

Enter(g) ==
  /\ work' = g.clauses /\ at' = 1 /\ stage' = "start" /\ attempt' = 1
  /\ cb' = Closed

(* A node returns: its update is merged and the graph moves on.            *)
Return(g) ==
  /\ graph' = g
  /\ Enter(g)
  /\ UNCHANGED <<saved, merged, crashes>>

NextClause(c) ==
  /\ work' = [work EXCEPT ![at] = c]
  /\ at' = at + 1 /\ stage' = "start" /\ attempt' = 1
  /\ UNCHANGED <<graph, saved, files, merged, crashes>>

(* The same clause, one more call.                                         *)
NextCall(c, s, n) ==
  /\ work' = [work EXCEPT ![at] = c]
  /\ stage' = s /\ attempt' = n
  /\ UNCHANGED <<graph, saved, at, files, merged, crashes>>

Init ==
  /\ graph = Fresh /\ saved = Fresh
  /\ work = << >> /\ at = 1 /\ stage = "start" /\ attempt = 1 /\ cb = Closed
  /\ json = NoFile /\ md = NoFile
  /\ merged \in JudgmentModes
  /\ crashes = 0

-----------------------------------------------------------------------------
(* Nodes 1 and 2: ingest and clause splitter.  Parsing and splitting are   *)
(* any outcome they may have.                                              *)

Ingest ==
  /\ graph.next = "ingest_agent"
  /\ \/ Return([graph EXCEPT !.next = "clause_splitter"])
     \/ Return([graph EXCEPT !.next = "end", !.ingest_error = TRUE,
                             !.error_count = @ + 1])
  /\ UNCHANGED files

SplitClauses ==
  /\ graph.next = "clause_splitter"
  /\ \E n \in 0 .. MaxClauses :
       \E seg \in [1 .. n -> {"text", "blank"} \X {"floor", "other"}] :
         Return([graph EXCEPT !.next = "crag_retrieval",
                   !.clauses = [i \in 1 .. n |-> Segment(seg[i][1], seg[i][2])]])
  /\ UNCHANGED files

-----------------------------------------------------------------------------
(* Node 3: CRAG retrieval.  The breaker counts failed embeddings; it adds  *)
(* nothing to error_count.                                                 *)

PassBlank ==
  /\ Visiting("crag_retrieval") /\ Here.text = "blank"
  /\ NextClause(Here)
  /\ UNCHANGED cb

(* A knowledge base that reaches the threshold has snippets; a web search  *)
(* finds some or none, and finds none when it fails.                       *)
FromKb  == NextClause([Here EXCEPT !.evidence = "some"])
FromWeb == \E found \in {"some", "none"} : NextClause([Here EXCEPT !.evidence = found])

(* Embed the clause, then take the knowledge bases' snippets when their    *)
(* best score reaches the threshold, else search the web.                  *)
Retrieve ==
  /\ Visiting("crag_retrieval") /\ Here.text = "text"
  /\ ~cb.open
  /\ \E embedded \in BOOLEAN :
       /\ Account(embedded, EmbedThreshold)
       /\ (embedded /\ FromKb) \/ FromWeb

RetrieveUnembedded ==
  /\ Visiting("crag_retrieval") /\ Here.text = "text"
  /\ cb.open
  /\ FromWeb
  /\ UNCHANGED cb

CragReturn ==
  /\ Finished("crag_retrieval")
  /\ Return([graph EXCEPT !.next = "self_rag_validation", !.clauses = work])
  /\ UNCHANGED files

-----------------------------------------------------------------------------
(* Node 4: Self-RAG validation *)

Floor(c) == c.type = "floor"

(* Mutant: without branch A.                                               *)
JudgedOnEvidence(c) == c.text = "text" /\ c.evidence = "some"

(* _process_clause: which clauses a judge sees.  A clause without evidence *)
(* is judged only if its type is a recall-floor type (branch A).           *)
Judged(c) == c.text = "text" /\ (c.evidence = "some" \/ Floor(c))

Verified(c) == [c EXCEPT !.final = "validated"]
Dropped(c)  == [c EXCEPT !.final = "discarded"]

(* _all_none_discard: no call is made.                                     *)
DiscardUnjudged ==
  /\ Visiting("self_rag_validation") /\ ~Judged(Here)
  /\ NextClause(Dropped(Here))
  /\ UNCHANGED cb

(* The breaker is open: fail open, with the verdicts there are.            *)
FailOpen ==
  /\ Visiting("self_rag_validation") /\ Judged(Here)
  /\ cb.open
  /\ NextClause(Verified(Here))
  /\ UNCHANGED cb

Judging(s) ==
  /\ Visiting("self_rag_validation") /\ Judged(Here) /\ stage = s
  /\ ~cb.open

(* check_relevance, on branch A and at the start of branch C.              *)
CheckRelevance ==
  /\ Judging("start")
  /\ ~(merged /\ Here.evidence = "some")
  /\ \E v \in Verdict :
       /\ Account(v # "none", JudgeThreshold)
       /\ LET c == [Here EXCEPT !.relevance = v]
          IN  \/ v = "none"  /\ NextClause(Verified(c))
              \/ v = "false" /\ NextClause(Dropped(c))
              \/ v = "true"  /\ Floor(c) /\ NextClause(Verified(c))
              \/ v = "true"  /\ ~Floor(c) /\ NextCall(c, "isrel", 1)

CheckIsrel ==
  /\ Judging("isrel")
  /\ \E v \in Verdict :
       /\ Account(v # "none", JudgeThreshold)
       /\ LET c == [Here EXCEPT !.isrel = v]
          IN  \/ v = "none"  /\ NextClause(Verified(c))
              \/ v = "false" /\ NextClause(Dropped(c))
              \/ v = "true"  /\ NextCall(c, "issup", 1)

(* Mutant: a "false" has the clause judged from the start, uncounted.      *)
CheckIssupAnew ==
  /\ Judging("issup")
  /\ \E v \in Verdict :
       /\ Account(v # "none", JudgeThreshold)
       /\ \/ v # "false" /\ NextClause(Verified([Here EXCEPT !.issup = v]))
          \/ v = "false" /\ NextCall(Here, "start", 1)

(* One turn of _issup_loop: only a "false" is asked again, MaxAttempts     *)
(* times in all.                                                           *)
CheckIssup ==
  /\ Judging("issup")
  /\ \E v \in Verdict :
       /\ Account(v # "none", JudgeThreshold)
       /\ \/ v # "false" /\ NextClause(Verified([Here EXCEPT !.issup = v]))
          \/ v = "false" /\ attempt < MaxAttempts /\ NextCall(Here, "issup", attempt + 1)
          \/ v = "false" /\ attempt = MaxAttempts
               /\ NextClause(Dropped([Here EXCEPT !.issup = "false"]))

(* The record a merged judgment leads to: the first question that is not   *)
(* answered "true" decides, a floor type needs the first only.             *)
Combined(c, v) ==
  LET rel == [c EXCEPT !.relevance = v.relevance]
      isr == [rel EXCEPT !.isrel = v.isrel]
      sup == [isr EXCEPT !.issup = v.issup]
      First(d, answer) == IF answer = "false" THEN Dropped(d) ELSE Verified(d)
  IN  IF v.relevance # "true" \/ Floor(c) THEN First(rel, v.relevance)
      ELSE IF v.isrel # "true"            THEN First(isr, v.isrel)
      ELSE                                     First(sup, v.issup)

(* check_combined: one call for the three questions; the breaker counts a  *)
(* call that fails as a whole, not a key that is missing from its answer.  *)
CheckCombined ==
  /\ Judging("start")
  /\ merged /\ Here.evidence = "some"
  /\ \/ Account(FALSE, JudgeThreshold) /\ NextClause(Verified(Here))
     \/ /\ Account(TRUE, JudgeThreshold)
        /\ \E v \in [relevance : Verdict, isrel : Verdict, issup : Verdict] :
             NextClause(Combined(Here, v))

SelfRagReturn ==
  /\ Finished("self_rag_validation")
  /\ Return([graph EXCEPT !.next = "risk_score", !.clauses = work,
                          !.error_count = @ + Tripped])
  /\ UNCHANGED files

-----------------------------------------------------------------------------
(* Node 5: risk score, and the edge after it *)

PassUnvalidated ==
  /\ Visiting("risk_score") /\ Here.final # "validated"
  /\ NextClause(Here)
  /\ UNCHANGED cb

Failsafe(c)    == [c EXCEPT !.risk = DefaultLevel, !.failsafe = "yes"]
Scored(c, lvl) == [c EXCEPT !.risk = lvl, !.failsafe = "no"]

(* A blank clause, and every clause once the breaker is open.              *)
ScoreByDefault ==
  /\ Visiting("risk_score") /\ Here.final = "validated"
  /\ Here.text = "blank" \/ cb.open
  /\ NextClause(Failsafe(Here))
  /\ UNCHANGED cb

ScoreRisk ==
  /\ Visiting("risk_score") /\ Here.final = "validated"
  /\ Here.text = "text" /\ ~cb.open
  /\ \/ Account(FALSE, RiskThreshold) /\ NextClause(Failsafe(Here))
     \/ \E lvl \in Level : Account(TRUE, RiskThreshold) /\ NextClause(Scored(Here, lvl))

is_redline_eligible(c) == c.final = "validated" /\ c.risk \in RedlineLevels

(* Mutant: only a high risk is worth a redline.                            *)
RoutedOnHigh(clauses) ==
  IF \E i \in 1 .. Len(clauses) : clauses[i].final = "validated" /\ clauses[i].risk = "high"
  THEN "redline" ELSE "skip_redline"

(* route_on_risk, over the merged state.                                   *)
Routed(clauses) ==
  IF \E i \in 1 .. Len(clauses) : is_redline_eligible(clauses[i])
  THEN "redline" ELSE "skip_redline"

(* Mutant: the tripped breaker is not counted.                             *)
RiskReturnSilent ==
  /\ Finished("risk_score")
  /\ Return([graph EXCEPT !.next = Routed(work), !.clauses = work])
  /\ UNCHANGED files

RiskReturn ==
  /\ Finished("risk_score")
  /\ Return([graph EXCEPT !.next = Routed(work), !.clauses = work,
                          !.error_count = @ + Tripped])
  /\ UNCHANGED files

-----------------------------------------------------------------------------
(* Node 6: redline, or skip_redline *)

PassIneligible ==
  /\ Visiting("redline") /\ ~is_redline_eligible(Here)
  /\ NextClause(Here)
  /\ UNCHANGED cb

NoRewrite(c) == [c EXCEPT !.rewrite = "none"]

RedlineByDefault ==
  /\ Visiting("redline") /\ is_redline_eligible(Here)
  /\ Here.text = "blank" \/ cb.open
  /\ NextClause(NoRewrite(Here))
  /\ UNCHANGED cb

DraftRewrite ==
  /\ Visiting("redline") /\ is_redline_eligible(Here)
  /\ Here.text = "text" /\ ~cb.open
  /\ \/ Account(FALSE, RewriteThreshold) /\ NextClause(NoRewrite(Here))
     \/ Account(TRUE, RewriteThreshold) /\ NextClause([Here EXCEPT !.rewrite = "drafted"])

RedlineReturn ==
  /\ Finished("redline")
  /\ Return([graph EXCEPT !.next = "report", !.clauses = work,
                          !.error_count = @ + Tripped])
  /\ UNCHANGED files

SkipRedline ==
  /\ graph.next = "skip_redline"
  /\ Return([graph EXCEPT !.next = "report"])
  /\ UNCHANGED files

-----------------------------------------------------------------------------
(* Node 7: report *)

IsFinding(c) == c.final = "validated"

(* ReportFinding: the rewrite key that is absent, None or a text.          *)
Finding(c) ==
  [risk     |-> c.risk,
   failsafe |-> c.failsafe = "yes",
   rewrite_state |-> [absent |-> "not_eligible", none |-> "unavailable",
                      drafted |-> "rewritten"][c.rewrite]]

(* The findings by the place of their clause, which each of them shows     *)
(* (position) and by which they are sorted.                                *)
Findings(clauses) ==
  [i \in {i \in 1 .. Len(clauses) : IsFinding(clauses[i])} |-> Finding(clauses[i])]

Failsafes(findings) == {i \in DOMAIN findings : findings[i].failsafe}

(* The fail-safe findings are at least the configured share.               *)
MostlyFailsafe(findings) ==
  /\ DOMAIN findings # {}
  /\ 100 * Cardinality(Failsafes(findings)) >= DegradedPercent * Cardinality(DOMAIN findings)

(* analysis_degraded                                                       *)
Degraded(findings, error_count) ==
  /\ Failsafes(findings) # {}
  /\ error_count >= 1 \/ MostlyFailsafe(findings)

(* assemble_report                                                         *)
Report(g) ==
  [is |-> "report", findings |-> Findings(g.clauses),
   degraded |-> Degraded(Findings(g.clauses), g.error_count)]

(* blob_store.write raises: the database applied the write or did not, the *)
(* disk keeps the old file or a truncated one.                             *)
Unwritten(file) == IF Turso THEN {file, Report(graph)} ELSE {file, Partial}

(* _cleanup_orphan looks at the local disk only, and only tries.           *)
Cleaned(j, m) ==
  IF ~Turso /\ j.is # "absent" /\ m.is = "absent" THEN {NoFile, j} ELSE {j}

ReportFails(j, m) ==
  /\ json' \in Cleaned(j, m) /\ md' = m
  /\ Return([graph EXCEPT !.next = "end", !.report_path = FALSE,
                          !.error_count = @ + 1])

WriteJson ==
  /\ graph.next = "report" /\ stage = "start"
  /\ \/ /\ json' = Report(graph)
        /\ stage' = "markdown"
        /\ UNCHANGED <<graph, saved, work, at, attempt, cb, md, merged, crashes>>
     \/ \E j \in Unwritten(json) : ReportFails(j, md)

(* Mutant: the path is set as soon as the JSON is written.                 *)
WriteMarkdownUnchecked ==
  /\ graph.next = "report" /\ stage = "markdown"
  /\ md' \in {Report(graph)} \cup Unwritten(md)
  /\ Return([graph EXCEPT !.next = "end", !.report_path = TRUE])
  /\ UNCHANGED json

WriteMarkdown ==
  /\ graph.next = "report" /\ stage = "markdown"
  /\ \/ /\ md' = Report(graph)
        /\ Return([graph EXCEPT !.next = "end", !.report_path = TRUE])
        /\ UNCHANGED json
     \/ \E m \in Unwritten(md) : ReportFails(json, m)

-----------------------------------------------------------------------------
(* Checkpoints, and a crash followed by the resume of the run *)

(* Bound: a checkpoint that no crash is left to need is not saved.         *)
Checkpoint ==
  /\ saved # graph /\ crashes < MaxCrashes
  /\ saved' = graph
  /\ UNCHANGED <<graph, local, files, merged, crashes>>

(* Mutant: the run is given its input again on the thread it left.         *)
ResumeFromInput ==
  /\ crashes < MaxCrashes /\ crashes' = crashes + 1
  /\ LET g == [saved EXCEPT !.next = "ingest_agent"] IN graph' = g /\ Enter(g)
  /\ merged' \in JudgmentModes
  /\ UNCHANGED <<saved, files>>

(* stream(None): the graph goes on from the last checkpoint.  A crash in   *)
(* the middle of a file's write leaves part of it on the disk; the new     *)
(* process may read another setting.                                       *)
Resume ==
  /\ crashes < MaxCrashes /\ crashes' = crashes + 1
  /\ graph' = saved /\ Enter(saved)
  /\ \/ UNCHANGED files
     \/ /\ ~Turso /\ graph.next = "report"
        /\ \/ stage = "start" /\ json' = Partial /\ UNCHANGED md
           \/ stage = "markdown" /\ md' = Partial /\ UNCHANGED json
  /\ merged' \in JudgmentModes
  /\ UNCHANGED saved

Done == graph.next = "end" /\ UNCHANGED vars

Crag     == PassBlank \/ Retrieve \/ RetrieveUnembedded \/ CragReturn
SelfRag  == \/ DiscardUnjudged \/ FailOpen \/ CheckRelevance \/ CheckIsrel
            \/ CheckIssup \/ CheckCombined \/ SelfRagReturn
Risk     == PassUnvalidated \/ ScoreByDefault \/ ScoreRisk \/ RiskReturn
Redline  == PassIneligible \/ RedlineByDefault \/ DraftRewrite \/ RedlineReturn

Run == \/ Ingest \/ SplitClauses \/ Crag \/ SelfRag \/ Risk \/ Redline
       \/ SkipRedline \/ WriteJson \/ WriteMarkdown

Next == Run \/ Checkpoint \/ Resume \/ Done

Spec == Init /\ [][Next]_vars

(* The worker thread that runs the graph is scheduled, and every external  *)
(* call returns or times out; crashes are bounded.                         *)
FairSpec == Spec /\ WF_vars(Run)

-----------------------------------------------------------------------------
(* Properties *)

(* Type invariant: the graph's state, the checkpoint and the working copy  *)
(* of the clauses are well-formed, and a node never walks past its last    *)
(* clause by more than one.                                                *)
TypeOK ==
  /\ {graph, saved} \subseteq ContractState
  /\ work \in Seq(Clause) /\ at \in 1 .. Len(work) + 1
  /\ stage \in {"start", "isrel", "issup", "markdown"}
  /\ attempt \in 1 .. MaxAttempts
  /\ cb \in [failures : Nat, open : BOOLEAN]
  /\ {json.is, md.is} \subseteq {"absent", "partial", "report"}
  /\ merged \in JudgmentModes
  /\ crashes \in 0 .. MaxCrashes

(* A judge that fails never removes a finding: a clause is discarded only  *)
(* because it is blank, because it has neither evidence nor a recall-floor *)
(* type (retrieval found none, or failed), or because a judge said         *)
(* "false"; and neither an outage of retrieval nor the ISREL and ISSUP     *)
(* judges ever discard a clause of a recall-floor type (_process_clause    *)
(* and its branches).                                                      *)
DiscardJustified ==
  \A i \in 1 .. Len(work) : LET c == work[i] IN
    c.final = "discarded" =>
      \/ c.text = "blank"
      \/ c.relevance = "false"
      \/ c.type # "floor" /\ (c.evidence = "none" \/ "false" \in {c.isrel, c.issup})

Threshold == [n \in Node |->
  CASE n = "crag_retrieval" -> EmbedThreshold
    [] n = "self_rag_validation" -> JudgeThreshold
    [] n = "risk_score" -> RiskThreshold
    [] n = "redline" -> RewriteThreshold
    [] OTHER -> 0]

(* Nodes wait for at most "threshold" failing calls in a row: each one may *)
(* take the whole timeout (the breakers of the four nodes).                *)
OutageBounded == cb.failures <= Threshold[graph.next]

(* What the risk node scored is what the redline node rewrites: when the   *)
(* report is assembled every finding has a level, and has a rewrite key    *)
(* exactly if its level asks for one, whichever way route_on_risk went     *)
(* and however often the run was resumed.                                  *)
RewriteCoversRisk ==
  graph.next = "report" =>
    \A i \in 1 .. Len(graph.clauses) : LET c == graph.clauses[i] IN
      /\ IsFinding(c) <=> c.risk # "none"
      /\ is_redline_eligible(c) <=> c.rewrite # "absent"

(* Some RiskThreshold findings in a row have a fail-safe severity: the     *)
(* risk-score breaker must have opened.                                    *)
RiskOutage(findings) ==
  \E first, last \in DOMAIN findings :
    LET row == DOMAIN findings \cap (first .. last)
    IN  row \subseteq Failsafes(findings) /\ Cardinality(row) >= RiskThreshold

(* A risk-score outage is surfaced: the report a completed run points at   *)
(* says the analysis is degraded (error_count of RiskReturn, through the   *)
(* checkpoint, to assemble_report).                                        *)
OutageSurfaced ==
  graph.report_path /\ RiskOutage(md.findings) => md.degraded

(* The report a run points at is whole: both files are there, and both     *)
(* show the final state of this run, not that of an attempt that crashed   *)
(* (report_agent's order of writes, blob_store).                           *)
ReportPairAgrees ==
  graph.report_path => json = Report(graph) /\ md = Report(graph)

(* The nodes that have run by then and may have added to error_count.      *)
Signals == [n \in Node |->
  CASE n \in {"risk_score"} -> 1
    [] n \in {"redline", "skip_redline"} -> 2
    [] n = "report" -> 3
    [] n = "end" -> 4
    [] OTHER -> 0]

(* Each node counts its health signal at most once in a run, the resumes   *)
(* after a crash included (operator.add on error_count).                   *)
ErrorsCountedOnce == graph.error_count <= Signals[graph.next]

(* The run ends, however the judges answer and whichever calls fail (the   *)
(* loops over the clauses and _issup_loop).                                *)
PipelineEnds == <>(graph.next = "end")
=============================================================================
