------------------------ MODULE ClausePipelineProofs ------------------------
(***************************************************************************)
(* Theorems about ClausePipeline, for any number of clauses and crashes    *)
(* and any thresholds: a failing judge never discards a finding            *)
(* (DiscardJustified), no node waits for more failing calls in a row than  *)
(* its threshold (OutageBounded), health signals count once                *)
(* (ErrorsCountedOnce), the report files agree (ReportPairAgrees), what    *)
(* was scored is what is rewritten (RewriteCoversRisk), and an outage of   *)
(* the risk-score judge shows in the report (OutageSurfaced).  At the end: *)
(* what goes into a call of ModelCalls and what comes of it, for texts of  *)
(* every length and every answer.                                          *)
(***************************************************************************)
EXTENDS ClausePipeline, FiniteSetTheorems, TLAPS

(* One call of a service; its Judged and Scored are those of an answer.    *)
Calls == INSTANCE ModelCalls

(* The part of the state the loop over the clauses works on.               *)
Shape ==
  /\ graph \in ContractState /\ saved \in ContractState
  /\ work \in Seq(Clause) /\ at \in Nat \ {0}

(* DiscardJustified for one clause; and only a text can be a finding.      *)
Justified(c) ==
  /\ c.final = "discarded" =>
       \/ c.text = "blank"
       \/ c.relevance = "false"
       \/ c.type # "floor" /\ (c.evidence = "none" \/ "false" \in {c.isrel, c.issup})
  /\ c.final = "validated" => c.text = "text"

AllJustified(clauses) == \A i \in 1 .. Len(clauses) : Justified(clauses[i])
Undecided(clauses)    == \A i \in 1 .. Len(clauses) : clauses[i].final = "none"

(* The nodes that read or write clauses no judge has seen.                 *)
Early == {"ingest_agent", "clause_splitter", "crag_retrieval", "self_rag_validation"}

Sound(g) == AllJustified(g.clauses) /\ (g.next \in Early => Undecided(g.clauses))

(* What the loop relies on: before Self-RAG nothing is decided, in it      *)
(* nothing from the current clause on; and only a clause without a floor   *)
(* type gets to the ISREL and ISSUP judges.                                *)
Looking ==
  /\ AllJustified(work)
  /\ graph.next \in Early \ {"self_rag_validation"} => Undecided(work)
  /\ graph.next = "self_rag_validation" =>
       \A i \in 1 .. Len(work) : i >= at => work[i].final = "none"
  /\ stage \in {"isrel", "issup"} => at <= Len(work) /\ work[at].type # "floor"

DiscardInv == Shape /\ Sound(graph) /\ Sound(saved) /\ Looking

-----------------------------------------------------------------------------
(* What the three ways to go on do *)

LEMMA ReturnKeeps ==
  ASSUME DiscardInv, NEW g \in ContractState, Return(g), Sound(g)
  PROVE  DiscardInv'
<1>1. graph' = g /\ saved' = saved /\ work' = g.clauses /\ at' = 1 /\ stage' = "start"
  BY DEF Return, Enter
<1>2. Shape'
  BY <1>1 DEF DiscardInv, Shape, ContractState
<1>3. Sound(graph)' /\ Sound(saved)'
  BY <1>1 DEF DiscardInv, Sound, AllJustified, Undecided
<1>4. Looking'
  BY <1>1 DEF Looking, Sound, AllJustified, Undecided, Early
<1> QED
  BY <1>2, <1>3, <1>4 DEF DiscardInv

LEMMA PutClause ==
  ASSUME Shape, NEW c \in Clause, at <= Len(work), work' = [work EXCEPT ![at] = c]
  PROVE  /\ work' \in Seq(Clause) /\ Len(work') = Len(work)
         /\ \A i \in 1 .. Len(work) : work'[i] = IF i = at THEN c ELSE work[i]
  BY DEF Shape

LEMMA NextClauseKeeps ==
  ASSUME DiscardInv, NEW c \in Clause, NextClause(c), at <= Len(work), Justified(c),
         graph.next \in Early \ {"self_rag_validation"} => c.final = "none"
  PROVE  DiscardInv'
<1>1. /\ graph' = graph /\ saved' = saved /\ at' = at + 1 /\ stage' = "start"
      /\ work' = [work EXCEPT ![at] = c]
  BY DEF NextClause
<1>2. /\ work' \in Seq(Clause) /\ Len(work') = Len(work)
      /\ \A i \in 1 .. Len(work) : work'[i] = IF i = at THEN c ELSE work[i]
  BY <1>1, PutClause DEF DiscardInv
<1>3. Shape'
  BY <1>1, <1>2 DEF DiscardInv, Shape
<1>4. Sound(graph)' /\ Sound(saved)'
  BY <1>1 DEF DiscardInv, Sound, AllJustified, Undecided
<1>5. AllJustified(work)'
  BY <1>2 DEF DiscardInv, Looking, AllJustified
<1>6. Looking'
  BY <1>1, <1>2, <1>5 DEF DiscardInv, Looking, Shape, Undecided
<1> QED
  BY <1>3, <1>4, <1>6 DEF DiscardInv

LEMMA NextCallKeeps ==
  ASSUME DiscardInv, NEW c \in Clause, NEW s, NEW n, NextCall(c, s, n), at <= Len(work),
         graph.next = "self_rag_validation", c.final = "none", c.type # "floor"
  PROVE  DiscardInv'
<1>1. /\ graph' = graph /\ saved' = saved /\ at' = at /\ stage' = s
      /\ work' = [work EXCEPT ![at] = c]
  BY DEF NextCall
<1>2. /\ work' \in Seq(Clause) /\ Len(work') = Len(work)
      /\ \A i \in 1 .. Len(work) : work'[i] = IF i = at THEN c ELSE work[i]
  BY <1>1, PutClause DEF DiscardInv
<1>3. Shape'
  BY <1>1, <1>2 DEF DiscardInv, Shape
<1>4. Sound(graph)' /\ Sound(saved)'
  BY <1>1 DEF DiscardInv, Sound, AllJustified, Undecided
<1>5. AllJustified(work)'
  BY <1>2 DEF DiscardInv, Looking, AllJustified, Justified
<1>6. Looking'
  BY <1>1, <1>2, <1>5 DEF DiscardInv, Looking, Shape, Early
<1> QED
  BY <1>3, <1>4, <1>6 DEF DiscardInv

-----------------------------------------------------------------------------
(* Every step keeps DiscardInv *)

LEMMA HereClause ==
  ASSUME Shape, at <= Len(work)
  PROVE  Here \in Clause
  BY DEF Shape, Here

LEMMA DiscardInit == Init => DiscardInv
<1> SUFFICES ASSUME Init PROVE DiscardInv
  OBVIOUS
<1>1. Fresh \in ContractState
  BY DEF Fresh, ContractState, Node
<1>2. Shape
  BY <1>1 DEF Init, Shape
<1>3. Sound(Fresh)
  BY DEF Sound, AllJustified, Undecided, Fresh
<1>4. Looking
  BY DEF Init, Looking, AllJustified, Undecided, Fresh, Early
<1> QED
  BY <1>2, <1>3, <1>4 DEF Init, DiscardInv

(* The updates the nodes return. *)
LEMMA FieldType ==
  ASSUME NEW g \in ContractState, NEW n \in Node, NEW cs \in Seq(Clause), NEW m \in Nat,
         NEW b \in BOOLEAN
  PROVE  /\ [g EXCEPT !.next = n] \in ContractState
         /\ [g EXCEPT !.clauses = cs] \in ContractState
         /\ [g EXCEPT !.error_count = m] \in ContractState
         /\ [g EXCEPT !.ingest_error = b] \in ContractState
         /\ [g EXCEPT !.report_path = b] \in ContractState
<1>1. [g EXCEPT !.next = n] \in ContractState
  BY DEF ContractState
<1>2. [g EXCEPT !.clauses = cs] \in ContractState
  BY DEF ContractState
<1>3. [g EXCEPT !.error_count = m] \in ContractState
  BY DEF ContractState
<1>4. [g EXCEPT !.ingest_error = b] \in ContractState
  BY DEF ContractState
<1>5. [g EXCEPT !.report_path = b] \in ContractState
  BY DEF ContractState
<1> QED
  BY <1>1, <1>2, <1>3, <1>4, <1>5

LEMMA UpdateType ==
  ASSUME NEW g \in ContractState, NEW cs \in Seq(Clause), NEW n \in Node, NEW k \in Nat,
         NEW b \in BOOLEAN
  PROVE  /\ [g EXCEPT !.next = n] \in ContractState
         /\ [g EXCEPT !.next = n, !.clauses = cs] \in ContractState
         /\ [g EXCEPT !.next = n, !.clauses = cs, !.error_count = @ + k] \in ContractState
         /\ [g EXCEPT !.next = n, !.ingest_error = b, !.error_count = @ + 1] \in ContractState
         /\ [g EXCEPT !.next = n, !.report_path = b] \in ContractState
         /\ [g EXCEPT !.next = n, !.report_path = b, !.error_count = @ + 1] \in ContractState
<1>0. g.error_count + k \in Nat /\ g.error_count + 1 \in Nat
  BY DEF ContractState
<1>1. [g EXCEPT !.next = n] \in ContractState
  BY DEF ContractState
<1>2. [g EXCEPT !.next = n, !.clauses = cs] \in ContractState
  BY DEF ContractState
<1>3. [g EXCEPT !.next = n, !.clauses = cs, !.error_count = @ + k] \in ContractState
  <2> DEFINE h == [g EXCEPT !.next = n, !.clauses = cs]
  <2>1. h \in ContractState
    BY DEF ContractState
  <2> HIDE DEF h
  <2>2. [h EXCEPT !.error_count = g.error_count + k] \in ContractState
    BY <1>0, <2>1, FieldType
  <2> QED
    BY <2>2 DEF h
<1>4. [g EXCEPT !.next = n, !.ingest_error = b, !.error_count = @ + 1] \in ContractState
  <2> DEFINE h == [g EXCEPT !.next = n, !.ingest_error = b]
  <2>1. h \in ContractState
    BY DEF ContractState
  <2> HIDE DEF h
  <2>2. [h EXCEPT !.error_count = g.error_count + 1] \in ContractState
    BY <1>0, <2>1, FieldType
  <2> QED
    BY <2>2 DEF h
<1>5. [g EXCEPT !.next = n, !.report_path = b] \in ContractState
  BY DEF ContractState
<1>6. [g EXCEPT !.next = n, !.report_path = b, !.error_count = @ + 1] \in ContractState
  <2> DEFINE h == [g EXCEPT !.next = n, !.report_path = b]
  <2>1. h \in ContractState
    BY DEF ContractState
  <2> HIDE DEF h
  <2>2. [h EXCEPT !.error_count = g.error_count + 1] \in ContractState
    BY <1>0, <2>1, FieldType
  <2> QED
    BY <2>2 DEF h
<1> QED
  BY <1>1, <1>2, <1>3, <1>4, <1>5, <1>6

LEMMA SplitSound ==
  ASSUME NEW n \in Nat, NEW seg \in [1 .. n -> {"text", "blank"} \X {"floor", "other"}]
  PROVE  /\ [i \in 1 .. n |-> Segment(seg[i][1], seg[i][2])] \in Seq(Clause)
         /\ AllJustified([i \in 1 .. n |-> Segment(seg[i][1], seg[i][2])])
         /\ Undecided([i \in 1 .. n |-> Segment(seg[i][1], seg[i][2])])
<1> DEFINE cs == [i \in 1 .. n |-> Segment(seg[i][1], seg[i][2])]
<1>1. \A i \in 1 .. n : /\ Segment(seg[i][1], seg[i][2]) \in Clause
                        /\ Segment(seg[i][1], seg[i][2]).final = "none"
  BY DEF Segment, Clause, Verdict
<1>2. cs \in Seq(Clause) /\ Len(cs) = n
  BY <1>1
<1>3. Undecided(cs)
  BY <1>1, <1>2 DEF Undecided
<1>4. AllJustified(cs)
  BY <1>3 DEF AllJustified, Undecided, Justified
<1> QED
  BY <1>2, <1>3, <1>4

LEMMA DiscardSplit ==
  ASSUME DiscardInv, Ingest \/ SplitClauses
  PROVE  DiscardInv'
<1>1. CASE Ingest
  <2>1. /\ [graph EXCEPT !.next = "clause_splitter"] \in ContractState
        /\ [graph EXCEPT !.next = "end", !.ingest_error = TRUE, !.error_count = @ + 1]
             \in ContractState
    BY UpdateType DEF DiscardInv, Shape, Node
  <2>2. Sound(graph) /\ graph.next = "ingest_agent" /\ graph \in ContractState
    BY <1>1 DEF DiscardInv, Shape, Ingest
  <2>3. /\ Sound([graph EXCEPT !.next = "clause_splitter"])
        /\ Sound([graph EXCEPT !.next = "end", !.ingest_error = TRUE, !.error_count = @ + 1])
    BY <2>2 DEF Sound, Early, ContractState
  <2> QED
    BY <1>1, <2>1, <2>3, ReturnKeeps DEF Ingest
<1>2. CASE SplitClauses
  <2>1. PICK n \in 0 .. MaxClauses :
          \E seg \in [1 .. n -> {"text", "blank"} \X {"floor", "other"}] :
            Return([graph EXCEPT !.next = "crag_retrieval",
                      !.clauses = [i \in 1 .. n |-> Segment(seg[i][1], seg[i][2])]])
    BY <1>2 DEF SplitClauses
  <2>2. PICK seg \in [1 .. n -> {"text", "blank"} \X {"floor", "other"}] :
          Return([graph EXCEPT !.next = "crag_retrieval",
                    !.clauses = [i \in 1 .. n |-> Segment(seg[i][1], seg[i][2])]])
    BY <2>1
  <2> DEFINE cs == [i \in 1 .. n |-> Segment(seg[i][1], seg[i][2])]
             g  == [graph EXCEPT !.next = "crag_retrieval", !.clauses = cs]
  <2>3. n \in Nat
    BY <2>1, LimitsAssumption
  <2>4. cs \in Seq(Clause) /\ AllJustified(cs) /\ Undecided(cs)
    BY <2>3, SplitSound
  <2>5. g \in ContractState /\ g.clauses = cs
    <3>1. graph \in ContractState
      BY DEF DiscardInv, Shape
    <3> HIDE DEF cs
    <3>2. g \in ContractState
      BY <2>4, <3>1, UpdateType DEF Node
    <3> QED
      BY <3>1, <3>2 DEF ContractState
  <2>6. Sound(g)
    <3> HIDE DEF g, cs
    <3> QED
      BY <2>4, <2>5 DEF Sound
  <2> QED
    BY <2>2, <2>5, <2>6, ReturnKeeps
<1> QED
  BY <1>1, <1>2

(* A node that returns the clauses it worked on, for a node n that is not  *)
(* early unless nothing is decided yet.                                    *)
LEMMA ReturnWork ==
  ASSUME DiscardInv, NEW g \in ContractState, Return(g), g.clauses = work,
         g.next \in Early => graph.next \in Early \ {"self_rag_validation"}
  PROVE  DiscardInv'
  BY ReturnKeeps DEF DiscardInv, Looking, Sound

(* A node that returns the clauses as they were, for a node that is not    *)
(* early.                                                                  *)
LEMMA ReturnSame ==
  ASSUME DiscardInv, NEW g \in ContractState, Return(g), g.clauses = graph.clauses,
         g.next \notin Early
  PROVE  DiscardInv'
  BY ReturnKeeps DEF DiscardInv, Sound

(* A clause with one field set. *)
LEMMA ClauseField ==
  ASSUME NEW c \in Clause, NEW v \in Verdict, NEW lvl \in Level
  PROVE  /\ \A e \in {"some", "none"} : [c EXCEPT !.evidence = e] \in Clause
         /\ [c EXCEPT !.relevance = v] \in Clause
         /\ [c EXCEPT !.isrel = v] \in Clause
         /\ [c EXCEPT !.issup = v] \in Clause
         /\ Verified(c) \in Clause /\ Dropped(c) \in Clause
         /\ Failsafe(c) \in Clause /\ Scored(c, lvl) \in Clause
         /\ \A r \in {"none", "drafted"} : [c EXCEPT !.rewrite = r] \in Clause
<1>1. DefaultLevel \in Level
  BY LimitsAssumption
<1>2. \A e \in {"some", "none"} : [c EXCEPT !.evidence = e] \in Clause
  BY DEF Clause
<1>3. [c EXCEPT !.relevance = v] \in Clause
  BY DEF Clause
<1>4. [c EXCEPT !.isrel = v] \in Clause
  BY DEF Clause
<1>5. [c EXCEPT !.issup = v] \in Clause
  BY DEF Clause
<1>6. Verified(c) \in Clause /\ Dropped(c) \in Clause
  BY DEF Clause, Verified, Dropped
<1>7. Failsafe(c) \in Clause /\ Scored(c, lvl) \in Clause
  BY <1>1 DEF Clause, Failsafe, Scored
<1>8. \A r \in {"none", "drafted"} : [c EXCEPT !.rewrite = r] \in Clause
  BY DEF Clause
<1> QED
  BY <1>2, <1>3, <1>4, <1>5, <1>6, <1>7, <1>8

LEMMA DiscardCrag ==
  ASSUME DiscardInv, Crag
  PROVE  DiscardInv'
<1>1. CASE PassBlank \/ Retrieve \/ RetrieveUnembedded
  <2>1. graph.next = "crag_retrieval" /\ at <= Len(work)
    BY <1>1 DEF PassBlank, Retrieve, RetrieveUnembedded, Visiting
  <2>2. Here \in Clause /\ Here.final = "none"
    BY <2>1, HereClause DEF DiscardInv, Shape, Looking, Undecided, Early, Here
  <2>3. PICK c : NextClause(c)
                 /\ (c = Here \/ \E e \in {"some", "none"} : c = [Here EXCEPT !.evidence = e])
    BY <1>1 DEF PassBlank, Retrieve, RetrieveUnembedded, FromKb, FromWeb
  <2>4. c \in Clause
    BY <2>2, <2>3, ClauseField DEF Verdict, Level
  <2>5. c.final = "none"
    BY <2>2, <2>3 DEF Clause
  <2> QED
    BY <2>1, <2>3, <2>4, <2>5, NextClauseKeeps DEF Justified
<1>2. CASE CragReturn
  <2> DEFINE g == [graph EXCEPT !.next = "self_rag_validation", !.clauses = work]
  <2>1. graph \in ContractState /\ work \in Seq(Clause) /\ graph.next = "crag_retrieval"
    BY <1>2 DEF CragReturn, Finished, DiscardInv, Shape
  <2>2. g \in ContractState
    BY <2>1, UpdateType DEF Node
  <2>3. g.clauses = work
    BY <2>1 DEF ContractState
  <2>4. Return(g)
    BY <1>2 DEF CragReturn
  <2> HIDE DEF g
  <2> QED
    BY <2>1, <2>2, <2>3, <2>4, ReturnWork DEF Early
<1> QED
  BY <1>1, <1>2 DEF Crag

LEMMA VerifyKeeps ==
  ASSUME DiscardInv, NEW c \in Clause, NextClause(Verified(c)), at <= Len(work),
         graph.next = "self_rag_validation", c.text = "text"
  PROVE  DiscardInv'
<1>1. Verified(c) \in Clause
  BY ClauseField DEF Verdict, Level
<1>2. Verified(c).final = "validated" /\ Verified(c).text = "text"
  BY DEF Verified, Clause
<1> QED
  BY <1>1, <1>2, NextClauseKeeps DEF Justified

LEMMA DropKeeps ==
  ASSUME DiscardInv, NEW c \in Clause, NextClause(Dropped(c)), at <= Len(work),
         graph.next = "self_rag_validation",
         \/ c.text = "blank"
         \/ c.relevance = "false"
         \/ c.type # "floor" /\ (c.evidence = "none" \/ "false" \in {c.isrel, c.issup})
  PROVE  DiscardInv'
<1>1. Dropped(c) \in Clause
  BY ClauseField DEF Verdict, Level
<1>2. /\ Dropped(c).text = c.text /\ Dropped(c).relevance = c.relevance
      /\ Dropped(c).type = c.type /\ Dropped(c).evidence = c.evidence
      /\ Dropped(c).isrel = c.isrel /\ Dropped(c).issup = c.issup
      /\ Dropped(c).final = "discarded"
  BY DEF Dropped, Clause
<1>3. Justified(Dropped(c))
  BY <1>2 DEF Justified
<1> QED
  BY <1>1, <1>3, NextClauseKeeps

(* The clause Self-RAG is at is not decided yet. *)
LEMMA HereOpen ==
  ASSUME DiscardInv, Visiting("self_rag_validation")
  PROVE  /\ graph.next = "self_rag_validation" /\ at <= Len(work)
         /\ Here \in Clause /\ Here.final = "none"
         /\ stage \in {"isrel", "issup"} => Here.type # "floor"
<1>1. graph.next = "self_rag_validation" /\ at <= Len(work)
  BY DEF Visiting
<1> QED
  BY <1>1, HereClause DEF DiscardInv, Shape, Looking, Here

(* A record of a merged judgment: the questions that decided it.           *)
LEMMA CombinedKeeps ==
  ASSUME DiscardInv, NEW c \in Clause, at <= Len(work), graph.next = "self_rag_validation",
         NEW v \in [relevance : Verdict, isrel : Verdict, issup : Verdict],
         NextClause(Combined(c, v)), c.text = "text"
  PROVE  DiscardInv'
<1> DEFINE rel == [c EXCEPT !.relevance = v.relevance]
           isr == [rel EXCEPT !.isrel = v.isrel]
           sup == [isr EXCEPT !.issup = v.issup]
<1>1. v.relevance \in Verdict /\ v.isrel \in Verdict /\ v.issup \in Verdict
  OBVIOUS
<1>2. rel \in Clause /\ rel.type = c.type /\ rel.text = c.text /\ rel.relevance = v.relevance
  BY <1>1, ClauseField DEF Clause
<1> HIDE DEF rel
<1>3. isr \in Clause /\ isr.type = c.type /\ isr.text = c.text /\ isr.isrel = v.isrel
  <2>1. isr \in Clause
    BY <1>1, <1>2, ClauseField DEF Level
  <2>2. isr.type = rel.type /\ isr.text = rel.text /\ isr.isrel = v.isrel
    BY <1>2 DEF Clause
  <2> QED
    BY <1>2, <2>1, <2>2
<1> HIDE DEF isr
<1>4. sup \in Clause /\ sup.type = c.type /\ sup.text = c.text /\ sup.issup = v.issup
  <2>1. sup \in Clause
    BY <1>1, <1>3, ClauseField DEF Level
  <2>2. sup.type = isr.type /\ sup.text = isr.text /\ sup.issup = v.issup
    BY <1>3 DEF Clause
  <2> QED
    BY <1>3, <2>1, <2>2
<1> HIDE DEF sup
<1>5. CASE v.relevance # "true" \/ Floor(c)
  <2>1. Combined(c, v) = IF v.relevance = "false" THEN Dropped(rel) ELSE Verified(rel)
    BY <1>5 DEF Combined, rel
  <2> QED
    BY <1>2, <2>1, DropKeeps, VerifyKeeps
<1>6. CASE v.relevance = "true" /\ ~Floor(c) /\ v.isrel # "true"
  <2>1. Combined(c, v) = IF v.isrel = "false" THEN Dropped(isr) ELSE Verified(isr)
    BY <1>6 DEF Combined, rel, isr
  <2> QED
    BY <1>3, <1>6, <2>1, DropKeeps, VerifyKeeps DEF Floor
<1>7. CASE v.relevance = "true" /\ ~Floor(c) /\ v.isrel = "true"
  <2>1. Combined(c, v) = IF v.issup = "false" THEN Dropped(sup) ELSE Verified(sup)
    BY <1>7 DEF Combined, rel, isr, sup
  <2> QED
    BY <1>4, <1>7, <2>1, DropKeeps, VerifyKeeps DEF Floor
<1> QED
  BY <1>5, <1>6, <1>7

LEMMA DiscardSelfRag ==
  ASSUME DiscardInv, SelfRag
  PROVE  DiscardInv'
<1>1. CASE DiscardUnjudged
  <2>1. /\ graph.next = "self_rag_validation" /\ at <= Len(work) /\ Here \in Clause
        /\ NextClause(Dropped(Here)) /\ ~Judged(Here)
    BY <1>1, HereOpen DEF DiscardUnjudged
  <2>2. Here.text = "blank" \/ (Here.type # "floor" /\ Here.evidence = "none")
    BY <2>1 DEF Judged, Floor, Clause
  <2> QED
    BY <2>1, <2>2, DropKeeps
<1>2. CASE FailOpen
  <2>1. /\ graph.next = "self_rag_validation" /\ at <= Len(work) /\ Here \in Clause
        /\ NextClause(Verified(Here)) /\ Here.text = "text"
    BY <1>2, HereOpen DEF FailOpen, Judged
  <2> QED
    BY <2>1, VerifyKeeps
<1>3. CASE CheckRelevance
  <2>1. /\ graph.next = "self_rag_validation" /\ at <= Len(work) /\ Here \in Clause
        /\ Here.final = "none" /\ Here.text = "text"
    BY <1>3, HereOpen DEF CheckRelevance, Judging, Judged
  <2>2. PICK v \in Verdict : LET c == [Here EXCEPT !.relevance = v]
          IN  \/ v = "none"  /\ NextClause(Verified(c))
              \/ v = "false" /\ NextClause(Dropped(c))
              \/ v = "true"  /\ Floor(c) /\ NextClause(Verified(c))
              \/ v = "true"  /\ ~Floor(c) /\ NextCall(c, "isrel", 1)
    BY <1>3 DEF CheckRelevance
  <2> DEFINE c == [Here EXCEPT !.relevance = v]
  <2>3. c \in Clause
    BY <2>1, ClauseField DEF Level
  <2>4. c.relevance = v /\ c.final = "none" /\ c.text = "text"
    BY <2>1 DEF Clause
  <2>5. \/ NextClause(Verified(c))
        \/ v = "false" /\ NextClause(Dropped(c))
        \/ c.type # "floor" /\ NextCall(c, "isrel", 1)
    BY <2>2 DEF Floor
  <2> HIDE DEF c
  <2> QED
    BY <2>1, <2>3, <2>4, <2>5, VerifyKeeps, DropKeeps, NextCallKeeps
<1>4. CASE CheckIsrel
  <2>1. /\ graph.next = "self_rag_validation" /\ at <= Len(work) /\ Here \in Clause
        /\ Here.final = "none" /\ Here.type # "floor" /\ Here.text = "text"
    BY <1>4, HereOpen DEF CheckIsrel, Judging, Judged
  <2>2. PICK v \in Verdict : LET c == [Here EXCEPT !.isrel = v]
          IN  \/ v = "none"  /\ NextClause(Verified(c))
              \/ v = "false" /\ NextClause(Dropped(c))
              \/ v = "true"  /\ NextCall(c, "issup", 1)
    BY <1>4 DEF CheckIsrel
  <2> DEFINE c == [Here EXCEPT !.isrel = v]
  <2>3. c \in Clause
    BY <2>1, ClauseField DEF Level
  <2>4. c.isrel = v /\ c.final = "none" /\ c.type # "floor" /\ c.text = "text"
    BY <2>1 DEF Clause
  <2>5. \/ NextClause(Verified(c))
        \/ v = "false" /\ NextClause(Dropped(c))
        \/ NextCall(c, "issup", 1)
    BY <2>2
  <2> HIDE DEF c
  <2> QED
    BY <2>1, <2>3, <2>4, <2>5, VerifyKeeps, DropKeeps, NextCallKeeps
<1>5. CASE CheckIssup
  <2>1. /\ graph.next = "self_rag_validation" /\ at <= Len(work) /\ Here \in Clause
        /\ Here.final = "none" /\ Here.type # "floor" /\ Here.text = "text"
    BY <1>5, HereOpen DEF CheckIssup, Judging, Judged
  <2>2. PICK v \in Verdict :
          \/ NextClause(Verified([Here EXCEPT !.issup = v]))
          \/ NextCall(Here, "issup", attempt + 1)
          \/ NextClause(Dropped([Here EXCEPT !.issup = "false"]))
    BY <1>5 DEF CheckIssup
  <2> DEFINE c(w) == [Here EXCEPT !.issup = w]
  <2>3. c(v) \in Clause /\ c("false") \in Clause
    BY <2>1, ClauseField DEF Level, Verdict
  <2>4. c("false").issup = "false" /\ c("false").type # "floor" /\ c(v).text = "text"
    BY <2>1 DEF Clause
  <2>5. \/ NextClause(Verified(c(v)))
        \/ NextCall(Here, "issup", attempt + 1)
        \/ NextClause(Dropped(c("false")))
    BY <2>2
  <2> HIDE DEF c
  <2> QED
    BY <2>1, <2>3, <2>4, <2>5, VerifyKeeps, DropKeeps, NextCallKeeps
<1>6. CASE CheckCombined
  <2>1. /\ graph.next = "self_rag_validation" /\ at <= Len(work) /\ Here \in Clause
        /\ Here.text = "text"
    BY <1>6, HereOpen DEF CheckCombined, Judging, Judged
  <2>2. \/ NextClause(Verified(Here))
        \/ \E v \in [relevance : Verdict, isrel : Verdict, issup : Verdict] :
             NextClause(Combined(Here, v))
    BY <1>6 DEF CheckCombined
  <2> QED
    BY <2>1, <2>2, VerifyKeeps, CombinedKeeps
<1>7. CASE SelfRagReturn
  <2> DEFINE k == Tripped
             g == [graph EXCEPT !.next = "risk_score", !.clauses = work, !.error_count = @ + k]
  <2>1. graph \in ContractState /\ work \in Seq(Clause) /\ k \in Nat
    BY DEF DiscardInv, Shape, Tripped
  <2>2. Return(g)
    BY <1>7 DEF SelfRagReturn
  <2> HIDE DEF k
  <2>3. g \in ContractState
    BY <2>1, UpdateType DEF Node
  <2>4. g.clauses = work /\ g.next = "risk_score"
    BY <2>1 DEF ContractState
  <2> HIDE DEF g
  <2> QED
    BY <2>2, <2>3, <2>4, ReturnWork DEF Early
<1> QED
  BY <1>1, <1>2, <1>3, <1>4, <1>5, <1>6, <1>7 DEF SelfRag

(* The later nodes leave the verdicts alone. *)
LEMMA SameVerdict ==
  ASSUME DiscardInv, NEW c \in Clause, NextClause(c), at <= Len(work),
         graph.next \notin Early,
         c.final = Here.final, c.text = Here.text, c.type = Here.type,
         c.evidence = Here.evidence, c.relevance = Here.relevance,
         c.isrel = Here.isrel, c.issup = Here.issup
  PROVE  DiscardInv'
<1>1. Justified(Here)
  BY DEF DiscardInv, Shape, Looking, AllJustified, Here
<1>2. Justified(c)
  BY <1>1 DEF Justified
<1> QED
  BY <1>2, NextClauseKeeps

LEMMA ScoreKeepsVerdict ==
  ASSUME NEW c \in Clause, NEW d \in {c, Failsafe(c)}
                             \cup {Scored(c, lvl) : lvl \in Level}
                             \cup {[c EXCEPT !.rewrite = r] : r \in {"none", "drafted"}}
  PROVE  /\ d \in Clause
         /\ d.final = c.final /\ d.text = c.text /\ d.type = c.type
         /\ d.evidence = c.evidence /\ d.relevance = c.relevance
         /\ d.isrel = c.isrel /\ d.issup = c.issup
<1>1. CASE d = c
  BY <1>1
<1>2. CASE d = Failsafe(c)
  <2>1. d \in Clause
    BY <1>2, ClauseField DEF Verdict, Level
  <2> QED
    BY <1>2, <2>1 DEF Failsafe, Clause
<1>3. ASSUME NEW lvl \in Level, d = Scored(c, lvl)
      PROVE  /\ d \in Clause
             /\ d.final = c.final /\ d.text = c.text /\ d.type = c.type
             /\ d.evidence = c.evidence /\ d.relevance = c.relevance
             /\ d.isrel = c.isrel /\ d.issup = c.issup
  <2> DEFINE e == [c EXCEPT !.risk = lvl]
  <2>1. d \in Clause
    BY <1>3, ClauseField DEF Verdict
  <2>2. d = [e EXCEPT !.failsafe = "no"]
    BY <1>3 DEF Scored
  <2>3. /\ e \in Clause
        /\ e.final = c.final /\ e.text = c.text /\ e.type = c.type
        /\ e.evidence = c.evidence /\ e.relevance = c.relevance
        /\ e.isrel = c.isrel /\ e.issup = c.issup
    BY DEF Clause
  <2> HIDE DEF e
  <2> QED
    BY <2>1, <2>2, <2>3 DEF Clause
<1>4. ASSUME NEW r \in {"none", "drafted"}, d = [c EXCEPT !.rewrite = r]
      PROVE  /\ d \in Clause
             /\ d.final = c.final /\ d.text = c.text /\ d.type = c.type
             /\ d.evidence = c.evidence /\ d.relevance = c.relevance
             /\ d.isrel = c.isrel /\ d.issup = c.issup
  <2>1. d \in Clause
    BY <1>4, ClauseField DEF Verdict, Level
  <2> QED
    BY <1>4, <2>1 DEF Clause
<1> QED
  BY <1>1, <1>2, <1>3, <1>4

LEMMA DiscardLater ==
  ASSUME DiscardInv, Risk \/ Redline
  PROVE  DiscardInv'
<1>1. CASE \/ PassUnvalidated \/ ScoreByDefault \/ ScoreRisk
           \/ PassIneligible \/ RedlineByDefault \/ DraftRewrite
  <2>1. graph.next \in {"risk_score", "redline"} /\ at <= Len(work)
    BY <1>1 DEF PassUnvalidated, ScoreByDefault, ScoreRisk, PassIneligible,
                RedlineByDefault, DraftRewrite, Visiting
  <2>2. Here \in Clause
    BY <2>1, HereClause DEF DiscardInv
  <2>3. PICK d \in {Here, Failsafe(Here)}
                     \cup {Scored(Here, lvl) : lvl \in Level}
                     \cup {[Here EXCEPT !.rewrite = r] : r \in {"none", "drafted"}} :
          NextClause(d)
    BY <1>1 DEF PassUnvalidated, ScoreByDefault, ScoreRisk, PassIneligible,
                RedlineByDefault, DraftRewrite, NoRewrite
  <2> QED
    BY <2>1, <2>2, <2>3, ScoreKeepsVerdict, SameVerdict DEF Early
<1>2. CASE RiskReturn \/ RedlineReturn
  <2> DEFINE k == Tripped
             g(n) == [graph EXCEPT !.next = n, !.clauses = work, !.error_count = @ + k]
  <2>1. graph \in ContractState /\ work \in Seq(Clause) /\ k \in Nat
    BY DEF DiscardInv, Shape, Tripped
  <2>2. PICK n \in {"redline", "skip_redline", "report"} : Return(g(n))
    BY <1>2 DEF RiskReturn, RedlineReturn, Routed
  <2> HIDE DEF k
  <2>3. g(n) \in ContractState
    BY <2>1, <2>2, UpdateType DEF Node
  <2>4. g(n).clauses = work /\ g(n).next = n
    BY <2>1 DEF ContractState
  <2> HIDE DEF g
  <2> QED
    BY <2>2, <2>3, <2>4, ReturnWork DEF Early
<1> QED
  BY <1>1, <1>2 DEF Risk, Redline

LEMMA DiscardReport ==
  ASSUME DiscardInv, SkipRedline \/ WriteJson \/ WriteMarkdown
  PROVE  DiscardInv'
<1>1. graph \in ContractState /\ work \in Seq(Clause)
  BY DEF DiscardInv, Shape
<1>2. CASE SkipRedline
  <2> DEFINE g == [graph EXCEPT !.next = "report"]
  <2>1. g \in ContractState
    BY <1>1, UpdateType DEF Node
  <2>2. g.clauses = graph.clauses /\ g.next = "report"
    BY <1>1 DEF ContractState
  <2>3. Return(g)
    BY <1>2 DEF SkipRedline
  <2> HIDE DEF g
  <2> QED
    BY <2>1, <2>2, <2>3, ReturnSame DEF Early
<1>3. ASSUME NEW j, NEW m, ReportFails(j, m)
      PROVE  DiscardInv'
  <2> DEFINE g == [graph EXCEPT !.next = "end", !.report_path = FALSE, !.error_count = @ + 1]
  <2>1. g \in ContractState
    BY <1>1, UpdateType DEF Node
  <2>2. g.clauses = graph.clauses /\ g.next = "end"
    BY <1>1 DEF ContractState
  <2>3. Return(g)
    BY <1>3 DEF ReportFails
  <2> HIDE DEF g
  <2> QED
    BY <2>1, <2>2, <2>3, ReturnSame DEF Early
<1>4. CASE /\ graph.next = "report" /\ stage' = "markdown"
           /\ UNCHANGED <<graph, saved, work, at>>
  <2>1. Shape' /\ Sound(graph)' /\ Sound(saved)'
    BY <1>4 DEF DiscardInv, Shape, Sound, AllJustified, Undecided
  <2>2. Looking'
    BY <1>4 DEF DiscardInv, Looking, AllJustified, Undecided, Early
  <2> QED
    BY <2>1, <2>2 DEF DiscardInv
<1>5. CASE Return([graph EXCEPT !.next = "end", !.report_path = TRUE])
  <2> DEFINE g == [graph EXCEPT !.next = "end", !.report_path = TRUE]
  <2>1. g \in ContractState
    BY <1>1, UpdateType DEF Node
  <2>2. g.clauses = graph.clauses /\ g.next = "end"
    BY <1>1 DEF ContractState
  <2>3. Return(g)
    BY <1>5
  <2> HIDE DEF g
  <2> QED
    BY <2>1, <2>2, <2>3, ReturnSame DEF Early
<1>6. CASE WriteJson
  BY <1>3, <1>4, <1>6 DEF WriteJson
<1>7. CASE WriteMarkdown
  BY <1>3, <1>5, <1>7 DEF WriteMarkdown
<1> QED
  BY <1>2, <1>6, <1>7

LEMMA DiscardNext ==
  ASSUME DiscardInv, [Next]_vars
  PROVE  DiscardInv'
<1>1. CASE Run
  BY <1>1, DiscardSplit, DiscardCrag, DiscardSelfRag, DiscardLater, DiscardReport DEF Run
<1>2. CASE Checkpoint
  <2>1. saved' = graph /\ UNCHANGED <<graph, work, at, stage>>
    BY <1>2 DEF Checkpoint, local
  <2>2. Shape' /\ Sound(graph)' /\ Sound(saved)'
    BY <2>1 DEF DiscardInv, Shape, Sound, AllJustified, Undecided
  <2>3. Looking'
    BY <2>1 DEF DiscardInv, Looking, AllJustified, Undecided
  <2> QED
    BY <2>2, <2>3 DEF DiscardInv
<1>3. CASE Resume
  <2>1. /\ graph' = saved /\ saved' = saved
        /\ work' = saved.clauses /\ at' = 1 /\ stage' = "start"
    BY <1>3 DEF Resume, Enter
  <2>2. Shape'
    BY <2>1 DEF DiscardInv, Shape, ContractState
  <2>3. Sound(graph)' /\ Sound(saved)'
    BY <2>1 DEF DiscardInv, Sound, AllJustified, Undecided
  <2>4. Looking'
    BY <2>1 DEF DiscardInv, Sound, Looking, AllJustified, Undecided, Early
  <2> QED
    BY <2>2, <2>3, <2>4 DEF DiscardInv
<1>4. CASE UNCHANGED vars
  <2>1. UNCHANGED <<graph, saved, work, at, stage>>
    BY <1>4 DEF vars, local
  <2>2. Shape' /\ Sound(graph)' /\ Sound(saved)'
    BY <2>1 DEF DiscardInv, Shape, Sound, AllJustified, Undecided
  <2>3. Looking'
    BY <2>1 DEF DiscardInv, Looking, AllJustified, Undecided
  <2> QED
    BY <2>2, <2>3 DEF DiscardInv
<1> QED
  BY <1>1, <1>2, <1>3, <1>4 DEF Next, Done

(* Whichever calls of retrieval and of the judges fail, and wherever the   *)
(* run is cut short and resumed, a clause is discarded only for one of the *)
(* reasons _process_clause has.                                            *)
THEOREM DiscardsAreJustified == Spec => []DiscardJustified
<1>1. DiscardInv => DiscardJustified
  BY DEF DiscardInv, Looking, AllJustified, Justified, DiscardJustified
<1> QED
  BY <1>1, DiscardInit, DiscardNext, PTL DEF Spec

-----------------------------------------------------------------------------
(* The circuit breakers *)

Looping == {"crag_retrieval", "self_rag_validation", "risk_score", "redline"}

(* A breaker that is still closed has seen fewer failures in a row than    *)
(* the threshold; a node without one has seen none.                        *)
Counted ==
  /\ cb \in [failures : Nat, open : BOOLEAN]
  /\ cb.failures <= Threshold[graph.next]
  /\ ~cb.open /\ graph.next \in Looping => cb.failures < Threshold[graph.next]

LEMMA ThresholdValue ==
  /\ \A n \in Node : Threshold[n] \in Nat
  /\ \A n \in Looping : Threshold[n] \in Nat \ {0}
  /\ Threshold["crag_retrieval"] = EmbedThreshold
  /\ Threshold["self_rag_validation"] = JudgeThreshold
  /\ Threshold["risk_score"] = RiskThreshold
  /\ Threshold["redline"] = RewriteThreshold
<1>1. /\ Threshold["crag_retrieval"] = EmbedThreshold
      /\ Threshold["self_rag_validation"] = JudgeThreshold
      /\ Threshold["risk_score"] = RiskThreshold
      /\ Threshold["redline"] = RewriteThreshold
  BY DEF Threshold, Node
<1>2. \A n \in Node \ Looping : Threshold[n] = 0
  BY DEF Threshold, Node, Looping
<1> QED
  BY <1>1, <1>2, LimitsAssumption DEF Looping, Node

(* What a step does to the breaker: a node is entered with a closed one, a *)
(* call is accounted for by the running node, or nothing happens to it.    *)
Counting ==
  /\ graph.next \in Looping /\ ~cb.open /\ graph' = graph
  /\ \E ok \in BOOLEAN : Account(ok, Threshold[graph.next])

LEMMA BreakerStep ==
  ASSUME [Next]_vars
  PROVE  cb' = Closed \/ UNCHANGED <<cb, graph>> \/ Counting
<1>1. CASE Ingest \/ SplitClauses \/ SkipRedline \/ CragReturn \/ SelfRagReturn
           \/ RiskReturn \/ RedlineReturn \/ Resume
  BY <1>1 DEF Ingest, SplitClauses, SkipRedline, CragReturn, SelfRagReturn,
              RiskReturn, RedlineReturn, Resume, Return, Enter
<1>2. CASE WriteJson \/ WriteMarkdown
  BY <1>2 DEF WriteJson, WriteMarkdown, ReportFails, Return, Enter
<1>3. CASE PassBlank \/ RetrieveUnembedded \/ DiscardUnjudged \/ FailOpen
           \/ PassUnvalidated \/ ScoreByDefault \/ PassIneligible \/ RedlineByDefault
  BY <1>3 DEF PassBlank, RetrieveUnembedded, DiscardUnjudged, FailOpen,
              PassUnvalidated, ScoreByDefault, PassIneligible, RedlineByDefault,
              FromWeb, NextClause
<1>4. CASE Retrieve
  BY <1>4, ThresholdValue DEF Retrieve, Visiting, FromKb, FromWeb, NextClause, Counting, Looping
<1>5. CASE CheckRelevance \/ CheckIsrel \/ CheckIssup \/ CheckCombined
  <2>1. graph.next = "self_rag_validation" /\ ~cb.open
    BY <1>5 DEF CheckRelevance, CheckIsrel, CheckIssup, CheckCombined, Judging, Visiting
  <2>2. graph' = graph
    BY <1>5 DEF CheckRelevance, CheckIsrel, CheckIssup, CheckCombined, NextClause, NextCall
  <2>3. \E ok \in BOOLEAN : Account(ok, JudgeThreshold)
    BY <1>5 DEF CheckRelevance, CheckIsrel, CheckIssup, CheckCombined
  <2> QED
    BY <2>1, <2>2, <2>3, ThresholdValue DEF Counting, Looping
<1>6. CASE ScoreRisk
  BY <1>6, ThresholdValue DEF ScoreRisk, Visiting, NextClause, Counting, Looping
<1>7. CASE DraftRewrite
  BY <1>7, ThresholdValue DEF DraftRewrite, Visiting, NextClause, Counting, Looping
<1>8. CASE Checkpoint \/ UNCHANGED vars
  BY <1>8 DEF Checkpoint, vars, local
<1> QED
  BY <1>1, <1>2, <1>3, <1>4, <1>5, <1>6, <1>7, <1>8
     DEF Next, Run, Crag, SelfRag, Risk, Redline, Done

LEMMA CountedNext ==
  ASSUME DiscardInv, DiscardInv', Counted, [Next]_vars
  PROVE  Counted'
<1>1. graph.next \in Node /\ graph'.next \in Node
  BY DEF DiscardInv, Shape, ContractState
<1>2. CASE cb' = Closed
  <2>1. cb' \in [failures : Nat, open : BOOLEAN] /\ cb'.failures = 0
    BY <1>2 DEF Closed
  <2>2. /\ cb'.failures <= Threshold[graph'.next]
        /\ graph'.next \in Looping => cb'.failures < Threshold[graph'.next]
    BY <1>1, <2>1, ThresholdValue
  <2>3. Threshold' = Threshold
    BY DEF Threshold
  <2> QED
    BY <2>1, <2>2, <2>3 DEF Counted
<1>3. CASE UNCHANGED <<cb, graph>>
  BY <1>3 DEF Counted, Threshold
<1>4. CASE Counting
  <2> DEFINE t == Threshold[graph.next]
  <2>1. t \in Nat \ {0} /\ cb \in [failures : Nat, open : BOOLEAN] /\ cb.failures < t
    BY <1>4, ThresholdValue DEF Counting, Counted
  <2>2. PICK ok \in BOOLEAN : Account(ok, t)
    BY <1>4 DEF Counting
  <2> HIDE DEF t
  <2>3. CASE ok
    <3>1. cb' = [cb EXCEPT !.failures = 0]
      BY <2>2, <2>3 DEF Account
    <3>2. cb' \in [failures : Nat, open : BOOLEAN] /\ cb'.failures = 0
      BY <2>1, <3>1
    <3> QED
      BY <1>4, <2>1, <3>2 DEF Counting, Counted, t, Threshold
  <2>4. CASE ~ok
    <3>1. cb' = [failures |-> cb.failures + 1, open |-> cb.open \/ cb.failures + 1 >= t]
      BY <2>2, <2>4 DEF Account
    <3> DEFINE o == cb.open \/ cb.failures + 1 >= t
    <3>2. o \in BOOLEAN /\ (~o => ~(cb.failures + 1 >= t))
      OBVIOUS
    <3>3. cb.failures + 1 \in Nat /\ cb.failures + 1 <= t
      BY <2>1
    <3>4. ~(cb.failures + 1 >= t) => cb.failures + 1 < t
      BY <2>1
    <3> HIDE DEF o
    <3>5. cb' = [failures |-> cb.failures + 1, open |-> o]
      BY <3>1 DEF o
    <3>6. cb' \in [failures : Nat, open : BOOLEAN] /\ cb'.failures = cb.failures + 1
          /\ (~cb'.open => ~o)
      BY <3>2, <3>3, <3>5
    <3>7. cb'.failures <= t /\ (~cb'.open => cb'.failures < t)
      BY <3>2, <3>3, <3>4, <3>6
    <3> QED
      BY <1>4, <3>6, <3>7 DEF Counting, Counted, t, Threshold
  <2> QED
    BY <2>3, <2>4
<1> QED
  BY <1>2, <1>3, <1>4, BreakerStep

LEMMA CountedInit == Init => Counted
<1>1. Closed \in [failures : Nat, open : BOOLEAN] /\ Closed.failures = 0
  BY DEF Closed
<1>2. Threshold["ingest_agent"] \in Nat /\ "ingest_agent" \notin Looping
  BY ThresholdValue DEF Node, Looping
<1> QED
  BY <1>1, <1>2 DEF Init, Counted, Fresh

(* However long an outage lasts, a node waits for no more failing calls in *)
(* a row than its threshold (_account and the checks of the breaker).      *)
THEOREM OutagesAreBounded == Spec => []OutageBounded
<1>1. Counted => OutageBounded
  BY DEF Counted, OutageBounded
<1> QED
  BY <1>1, CountedInit, DiscardInit, DiscardNext, CountedNext, PTL DEF Spec

-----------------------------------------------------------------------------
(* The type invariant: DiscardInv types the graph and the clauses, Counted *)
(* the breaker; Within is the rest of it.                                  *)

Within ==
  /\ at <= Len(work) + 1
  /\ stage \in {"start", "isrel", "issup", "markdown"}
  /\ attempt \in 1 .. MaxAttempts
  /\ json.is \in {"absent", "partial", "report"}
  /\ md.is \in {"absent", "partial", "report"}
  /\ merged \in JudgmentModes
  /\ crashes \in 0 .. MaxCrashes

LEMMA EnterWithin ==
  ASSUME Shape', NEW g, Enter(g)
  PROVE  at' <= Len(work') + 1 /\ stage' = "start" /\ attempt' \in 1 .. MaxAttempts
<1>1. at' = 1 /\ stage' = "start" /\ attempt' = 1
  BY DEF Enter
<1>2. Len(work') \in Nat
  BY DEF Shape
<1> QED
  BY <1>1, <1>2, LimitsAssumption

LEMMA ReturnWithin ==
  ASSUME Shape', Within, NEW g, Return(g), UNCHANGED files
  PROVE  Within'
<1>1. /\ at' <= Len(work') + 1 /\ stage' = "start" /\ attempt' \in 1 .. MaxAttempts
      /\ UNCHANGED <<merged, crashes, json, md>>
  BY EnterWithin DEF Return, files
<1> QED
  BY <1>1 DEF Within

LEMMA SameLength ==
  ASSUME Shape, Shape', NEW c, work' = [work EXCEPT ![at] = c]
  PROVE  Len(work') = Len(work) /\ Len(work) \in Nat
  BY DEF Shape

LEMMA NextClauseWithin ==
  ASSUME Shape, Shape', Within, at <= Len(work), NEW c, NextClause(c)
  PROVE  Within'
<1>1. /\ work' = [work EXCEPT ![at] = c] /\ at' = at + 1 /\ stage' = "start" /\ attempt' = 1
      /\ UNCHANGED <<merged, crashes, json, md>>
  BY DEF NextClause, files
<1>2. Len(work') = Len(work) /\ Len(work) \in Nat
  BY <1>1, SameLength
<1>3. at' <= Len(work') + 1
  BY <1>1, <1>2 DEF Shape
<1>4. attempt' \in 1 .. MaxAttempts
  BY <1>1, LimitsAssumption
<1> QED
  BY <1>1, <1>3, <1>4 DEF Within

LEMMA NextCallWithin ==
  ASSUME Shape, Shape', Within, NEW c, NEW s \in {"isrel", "issup"},
         NEW n \in 1 .. MaxAttempts, NextCall(c, s, n)
  PROVE  Within'
<1>1. /\ work' = [work EXCEPT ![at] = c] /\ at' = at /\ stage' = s /\ attempt' = n
      /\ UNCHANGED <<merged, crashes, json, md>>
  BY DEF NextCall, files
<1>2. Len(work') = Len(work)
  BY <1>1, SameLength
<1> QED
  BY <1>1, <1>2 DEF Within

LEMMA WithinJudges ==
  ASSUME Shape, Shape', Within, SelfRag
  PROVE  Within'
<1>1. at <= Len(work) \/ SelfRagReturn
  BY DEF SelfRag, DiscardUnjudged, FailOpen, CheckRelevance, CheckIsrel, CheckIssup,
         CheckCombined, Judging, Visiting
<1>2. CASE at <= Len(work) /\ ~SelfRagReturn
  <2>1. 1 \in 1 .. MaxAttempts
    BY LimitsAssumption
  <2>2. attempt < MaxAttempts => attempt + 1 \in 1 .. MaxAttempts
    BY LimitsAssumption DEF Within
  <2>3. CASE DiscardUnjudged \/ FailOpen
    BY <1>2, <2>3, NextClauseWithin DEF DiscardUnjudged, FailOpen
  <2>4. CASE CheckRelevance
    <3>1. PICK v \in Verdict : LET c == [Here EXCEPT !.relevance = v] IN
             \/ NextClause(Verified(c)) \/ NextClause(Dropped(c)) \/ NextCall(c, "isrel", 1)
      BY <2>4 DEF CheckRelevance
    <3> QED
      BY <1>2, <2>1, <3>1, NextClauseWithin, NextCallWithin
  <2>5. CASE CheckIsrel
    <3>1. PICK v \in Verdict : LET c == [Here EXCEPT !.isrel = v] IN
             \/ NextClause(Verified(c)) \/ NextClause(Dropped(c)) \/ NextCall(c, "issup", 1)
      BY <2>5 DEF CheckIsrel
    <3> QED
      BY <1>2, <2>1, <3>1, NextClauseWithin, NextCallWithin
  <2>6. CASE CheckIssup
    <3>1. PICK v \in Verdict :
             \/ NextClause(Verified([Here EXCEPT !.issup = v]))
             \/ attempt < MaxAttempts /\ NextCall(Here, "issup", attempt + 1)
             \/ NextClause(Dropped([Here EXCEPT !.issup = "false"]))
      BY <2>6 DEF CheckIssup
    <3> QED
      BY <1>2, <2>2, <3>1, NextClauseWithin, NextCallWithin
  <2>7. CASE CheckCombined
    <3>1. \/ NextClause(Verified(Here))
          \/ \E v \in [relevance : Verdict, isrel : Verdict, issup : Verdict] :
               NextClause(Combined(Here, v))
      BY <2>7 DEF CheckCombined
    <3> QED
      BY <1>2, <3>1, NextClauseWithin
  <2> QED
    BY <1>2, <2>3, <2>4, <2>5, <2>6, <2>7 DEF SelfRag
<1>3. CASE SelfRagReturn
  BY <1>3, ReturnWithin DEF SelfRagReturn
<1> QED
  BY <1>1, <1>2, <1>3

LEMMA WithinNodes ==
  ASSUME Shape, Shape', Within, Ingest \/ SplitClauses \/ Crag \/ Risk \/ Redline \/ SkipRedline
  PROVE  Within'
<1>1. CASE Ingest \/ SplitClauses \/ CragReturn \/ RiskReturn \/ RedlineReturn \/ SkipRedline
  BY <1>1, ReturnWithin
     DEF Ingest, SplitClauses, CragReturn, RiskReturn, RedlineReturn, SkipRedline
<1>2. CASE PassBlank \/ Retrieve \/ RetrieveUnembedded
  BY <1>2, NextClauseWithin
     DEF PassBlank, Retrieve, RetrieveUnembedded, FromKb, FromWeb, Visiting
<1>3. CASE PassUnvalidated \/ ScoreByDefault \/ ScoreRisk
  BY <1>3, NextClauseWithin DEF PassUnvalidated, ScoreByDefault, ScoreRisk, Visiting
<1>4. CASE PassIneligible \/ RedlineByDefault \/ DraftRewrite
  BY <1>4, NextClauseWithin DEF PassIneligible, RedlineByDefault, DraftRewrite, Visiting
<1> QED
  BY <1>1, <1>2, <1>3, <1>4 DEF Crag, Risk, Redline

LEMMA WithinReport ==
  ASSUME Shape, Shape', Within, WriteJson \/ WriteMarkdown
  PROVE  Within'
<1> DEFINE Is == {"absent", "partial", "report"}
<1>1. \A file : file.is \in Is => \A j \in Unwritten(file) : j.is \in Is
  BY DEF Unwritten, Report, Partial, NoFile
<1>2. \A j, m : j.is \in Is => \A k \in Cleaned(j, m) : k.is \in Is
  BY DEF Cleaned, NoFile
<1>3. Report(graph).is \in Is
  BY DEF Report
<1>4. ASSUME NEW g, Return(g), json'.is \in Is, md'.is \in Is
      PROVE  Within'
  <2>1. /\ at' <= Len(work') + 1 /\ stage' = "start" /\ attempt' \in 1 .. MaxAttempts
        /\ UNCHANGED <<merged, crashes>>
    BY <1>4, EnterWithin DEF Return
  <2> QED
    BY <1>4, <2>1 DEF Within
<1>5. ASSUME NEW j, NEW m, j.is \in Is, m.is \in Is, ReportFails(j, m)
      PROVE  Within'
  <2>1. json'.is \in Is /\ md'.is \in Is
    BY <1>2, <1>5 DEF ReportFails
  <2> QED
    BY <1>4, <1>5, <2>1 DEF ReportFails
<1>6. CASE WriteJson
  <2>1. CASE \E j \in Unwritten(json) : ReportFails(j, md)
    BY <1>1, <1>5, <2>1 DEF Within
  <2>2. CASE /\ json' = Report(graph) /\ stage' = "markdown"
             /\ UNCHANGED <<graph, saved, work, at, attempt, cb, md, merged, crashes>>
    BY <1>3, <2>2 DEF Within
  <2> QED
    BY <1>6, <2>1, <2>2 DEF WriteJson
<1>7. CASE WriteMarkdown
  <2>1. CASE \E m \in Unwritten(md) : ReportFails(json, m)
    BY <1>1, <1>5, <2>1 DEF Within
  <2>2. CASE /\ md' = Report(graph) /\ UNCHANGED json
             /\ Return([graph EXCEPT !.next = "end", !.report_path = TRUE])
    BY <1>3, <1>4, <2>2 DEF Within
  <2> QED
    BY <1>7, <2>1, <2>2 DEF WriteMarkdown
<1> QED
  BY <1>6, <1>7

LEMMA WithinNext ==
  ASSUME Shape, Shape', Within, [Next]_vars
  PROVE  Within'
<1>1. CASE Run
  BY <1>1, WithinNodes, WithinJudges, WithinReport DEF Run
<1>2. CASE Checkpoint
  BY <1>2 DEF Checkpoint, Within, local, files
<1>3. CASE Resume
  <2>1. at' <= Len(work') + 1 /\ stage' = "start" /\ attempt' \in 1 .. MaxAttempts
    BY <1>3, EnterWithin DEF Resume
  <2>2. crashes' \in 0 .. MaxCrashes /\ merged' \in JudgmentModes
    BY <1>3, LimitsAssumption DEF Resume, Within
  <2>3. /\ json'.is \in {"absent", "partial", "report"}
        /\ md'.is \in {"absent", "partial", "report"}
    BY <1>3 DEF Resume, Within, files, Partial, NoFile
  <2> QED
    BY <2>1, <2>2, <2>3 DEF Within
<1>4. CASE UNCHANGED vars
  BY <1>4 DEF Within, vars, local, files
<1> QED
  BY <1>1, <1>2, <1>3, <1>4 DEF Next, Done

(* Types: the state stays well-formed, no node walks past its clauses, and *)
(* _issup_loop asks at most MaxAttempts times (the nodes' loops).          *)
THEOREM TypeCorrect == Spec => []TypeOK
<1>1. Init => DiscardInv /\ Counted /\ Within
  <2>1. Init => Within
    BY LimitsAssumption DEF Init, Within, NoFile
  <2> QED
    BY <2>1, CountedInit, DiscardInit
<1>2. DiscardInv /\ Counted /\ Within /\ [Next]_vars => (DiscardInv /\ Counted /\ Within)'
  <2> SUFFICES ASSUME DiscardInv, Counted, Within, [Next]_vars
               PROVE  (DiscardInv /\ Counted /\ Within)'
    OBVIOUS
  <2>1. DiscardInv'
    BY DiscardNext
  <2>2. Counted'
    BY <2>1, CountedNext
  <2>3. Within'
    BY <2>1, WithinNext DEF DiscardInv
  <2> QED
    BY <2>1, <2>2, <2>3
<1>3. DiscardInv /\ Counted /\ Within => TypeOK
  BY DEF DiscardInv, Shape, Counted, Within, TypeOK
<1> QED
  BY <1>1, <1>2, <1>3, PTL DEF Spec

-----------------------------------------------------------------------------
(* What a step of the nodes does to the graph, whatever the clauses are:   *)
(* it leaves it alone, or moves on to a node that may have counted k more  *)
(* signals, or ends the run.                                               *)

Moved(k, n) ==
  /\ graph'.error_count = graph.error_count + k /\ graph'.next = n
  /\ graph'.report_path = graph.report_path

LEMMA GraphStep ==
  ASSUME Shape, Run, ~WriteJson, ~WriteMarkdown
  PROVE  /\ saved' = saved /\ stage' \in {"start", "isrel", "issup"}
         /\ \/ graph' = graph
            \/ graph.next = "ingest_agent" /\ Moved(0, "clause_splitter")
            \/ graph.next = "ingest_agent" /\ Moved(1, "end")
            \/ graph.next = "clause_splitter" /\ Moved(0, "crag_retrieval")
            \/ graph.next = "crag_retrieval" /\ Moved(0, "self_rag_validation")
            \/ /\ graph.next = "self_rag_validation"
               /\ \E k \in {0, 1} : Moved(k, "risk_score")
            \/ /\ graph.next = "risk_score"
               /\ \E k \in {0, 1}, n \in {"redline", "skip_redline"} : Moved(k, n)
            \/ graph.next = "redline" /\ \E k \in {0, 1} : Moved(k, "report")
            \/ graph.next = "skip_redline" /\ Moved(0, "report")
<1>1. graph \in ContractState /\ graph.error_count \in Nat
  BY DEF Shape, ContractState
<1>2. Tripped \in {0, 1}
  BY DEF Tripped
<1>3. CASE graph' = graph /\ saved' = saved /\ stage' \in {"start", "isrel", "issup"}
  BY <1>3
<1>4. ASSUME NEW g, Return(g)
      PROVE  graph' = g /\ saved' = saved /\ stage' = "start"
  BY <1>4 DEF Return, Enter
<1>5. CASE Ingest
  <2> DEFINE g == [graph EXCEPT !.next = "clause_splitter"]
             h == [graph EXCEPT !.next = "end", !.ingest_error = TRUE, !.error_count = @ + 1]
  <2>1. /\ graph.next = "ingest_agent"
        /\ Return(g) \/ Return(h)
    BY <1>5 DEF Ingest
  <2>2. /\ g.next = "clause_splitter" /\ g.error_count = graph.error_count
        /\ g.report_path = graph.report_path
    BY <1>1 DEF ContractState
  <2>3. /\ h.next = "end" /\ h.error_count = graph.error_count + 1
        /\ h.report_path = graph.report_path
    BY <1>1 DEF ContractState
  <2> HIDE DEF g, h
  <2> QED
    BY <1>1, <1>4, <2>1, <2>2, <2>3 DEF Moved
<1>6. CASE SplitClauses
  <2>1. PICK cs : Return([graph EXCEPT !.next = "crag_retrieval", !.clauses = cs])
    BY <1>6 DEF SplitClauses
  <2> DEFINE g == [graph EXCEPT !.next = "crag_retrieval", !.clauses = cs]
  <2>2. /\ g.next = "crag_retrieval" /\ g.error_count = graph.error_count
        /\ g.report_path = graph.report_path
    BY <1>1 DEF ContractState
  <2>3. graph.next = "clause_splitter" /\ Return(g)
    BY <1>6, <2>1 DEF SplitClauses
  <2> HIDE DEF g
  <2> QED
    BY <1>1, <1>4, <2>2, <2>3 DEF Moved
<1>7. CASE CragReturn
  <2> DEFINE g == [graph EXCEPT !.next = "self_rag_validation", !.clauses = work]
  <2>1. /\ g.next = "self_rag_validation" /\ g.error_count = graph.error_count
        /\ g.report_path = graph.report_path
    BY <1>1 DEF ContractState
  <2>2. graph.next = "crag_retrieval" /\ Return(g)
    BY <1>7 DEF CragReturn, Finished
  <2> HIDE DEF g
  <2> QED
    BY <1>1, <1>4, <2>1, <2>2 DEF Moved
<1>8. ASSUME NEW n, Return([graph EXCEPT !.next = n, !.clauses = work, !.error_count = @ + Tripped])
      PROVE  saved' = saved /\ stage' = "start" /\ \E k \in {0, 1} : Moved(k, n)
  <2> DEFINE k == Tripped
             g == [graph EXCEPT !.next = n, !.clauses = work, !.error_count = @ + k]
  <2>1. k \in {0, 1} /\ Return(g)
    BY <1>2, <1>8
  <2> HIDE DEF k
  <2>2. /\ g.next = n /\ g.error_count = graph.error_count + k
        /\ g.report_path = graph.report_path
    BY <1>1 DEF ContractState
  <2> HIDE DEF g
  <2>3. graph' = g /\ saved' = saved /\ stage' = "start"
    BY <1>4, <2>1
  <2>4. Moved(k, n)
    BY <2>2, <2>3 DEF Moved
  <2> QED
    BY <2>1, <2>3, <2>4
<1>9. CASE SelfRagReturn
  BY <1>8, <1>9 DEF SelfRagReturn, Finished
<1>10. CASE RiskReturn \/ RedlineReturn
  <2>1. Routed(work) \in {"redline", "skip_redline"}
    BY DEF Routed
  <2> QED
    BY <1>8, <1>10, <2>1 DEF RiskReturn, RedlineReturn, Finished
<1>11. CASE SkipRedline
  <2> DEFINE g == [graph EXCEPT !.next = "report"]
  <2>1. /\ g.next = "report" /\ g.error_count = graph.error_count
        /\ g.report_path = graph.report_path
    BY <1>1 DEF ContractState
  <2>2. graph.next = "skip_redline" /\ Return(g)
    BY <1>11 DEF SkipRedline
  <2> HIDE DEF g
  <2> QED
    BY <1>1, <1>4, <2>1, <2>2 DEF Moved
<1>12. ASSUME NEW c, NextClause(c)
       PROVE  graph' = graph /\ saved' = saved /\ stage' = "start"
  BY <1>12 DEF NextClause
<1>13. ASSUME NEW c, NEW s, NEW n, NextCall(c, s, n)
       PROVE  graph' = graph /\ saved' = saved /\ stage' = s
  BY <1>13 DEF NextCall
<1>14. CASE PassBlank \/ Retrieve \/ RetrieveUnembedded
  BY <1>3, <1>12, <1>14 DEF PassBlank, Retrieve, RetrieveUnembedded, FromKb, FromWeb
<1>15. CASE DiscardUnjudged \/ FailOpen
  BY <1>3, <1>12, <1>15 DEF DiscardUnjudged, FailOpen
<1>16. CASE CheckRelevance
  BY <1>3, <1>12, <1>13, <1>16 DEF CheckRelevance
<1>17. CASE CheckIsrel
  BY <1>3, <1>12, <1>13, <1>17 DEF CheckIsrel
<1>18. CASE CheckIssup
  BY <1>3, <1>12, <1>13, <1>18 DEF CheckIssup
<1>19. CASE CheckCombined
  BY <1>3, <1>12, <1>19 DEF CheckCombined
<1>20. CASE PassUnvalidated \/ ScoreByDefault \/ ScoreRisk
  BY <1>3, <1>12, <1>20 DEF PassUnvalidated, ScoreByDefault, ScoreRisk
<1>21. CASE PassIneligible \/ RedlineByDefault \/ DraftRewrite
  BY <1>3, <1>12, <1>21 DEF PassIneligible, RedlineByDefault, DraftRewrite
<1> QED
  BY <1>5, <1>6, <1>7, <1>9, <1>10, <1>11, <1>14, <1>15, <1>16, <1>17, <1>18,
     <1>19, <1>20, <1>21 DEF Run, Crag, SelfRag, Risk, Redline

(* The last node: the JSON is written, or the run ends with both files, or *)
(* it ends with one more signal and no path.                               *)
LEMMA ReportStep ==
  ASSUME Shape, WriteJson \/ WriteMarkdown
  PROVE  /\ graph.next = "report" /\ saved' = saved
         /\ \/ /\ WriteJson /\ graph' = graph /\ json' = Report(graph)
               /\ stage' = "markdown"
            \/ /\ WriteMarkdown /\ json' = json /\ md' = Report(graph)
               /\ graph' = [graph EXCEPT !.next = "end", !.report_path = TRUE]
               /\ stage' = "start"
            \/ /\ graph' = [graph EXCEPT !.next = "end", !.report_path = FALSE,
                                         !.error_count = @ + 1]
               /\ stage' = "start"
<1>1. ASSUME NEW j, NEW m, ReportFails(j, m)
      PROVE  /\ graph' = [graph EXCEPT !.next = "end", !.report_path = FALSE,
                                       !.error_count = @ + 1]
             /\ saved' = saved /\ stage' = "start"
  BY <1>1 DEF ReportFails, Return, Enter
<1>2. CASE WriteJson
  BY <1>1, <1>2 DEF WriteJson
<1>3. CASE WriteMarkdown
  BY <1>1, <1>3 DEF WriteMarkdown, Return, Enter
<1> QED
  BY <1>2, <1>3

-----------------------------------------------------------------------------
(* The health signals *)

(* A checkpoint counts as little as the graph does: a resume starts from   *)
(* it.                                                                     *)
SignalsBounded ==
  /\ graph.error_count <= Signals[graph.next]
  /\ saved.error_count <= Signals[saved.next]

LEMMA SignalValue ==
  /\ \A n \in Node : Signals[n] \in Nat
  /\ Signals["ingest_agent"] = 0 /\ Signals["clause_splitter"] = 0
  /\ Signals["crag_retrieval"] = 0 /\ Signals["self_rag_validation"] = 0
  /\ Signals["risk_score"] = 1 /\ Signals["redline"] = 2 /\ Signals["skip_redline"] = 2
  /\ Signals["report"] = 3 /\ Signals["end"] = 4
  BY DEF Signals, Node

LEMMA SignalsNext ==
  ASSUME Shape, SignalsBounded, [Next]_vars
  PROVE  SignalsBounded'
<1>1. graph.error_count \in Nat /\ graph.next \in Node /\ graph \in ContractState
  BY DEF Shape, ContractState
<1>2. graph.error_count <= Signals[graph.next]
  BY DEF SignalsBounded
<1>3. ASSUME graph'.error_count <= Signals[graph'.next], saved' = saved
      PROVE  SignalsBounded'
  BY <1>3 DEF SignalsBounded
<1>4. CASE Run /\ ~WriteJson /\ ~WriteMarkdown
  <2>1. graph'.error_count <= Signals[graph'.next]
    BY <1>1, <1>2, <1>4, GraphStep, SignalValue DEF Moved
  <2> QED
    BY <1>3, <1>4, <2>1, GraphStep
<1>5. CASE WriteJson \/ WriteMarkdown
  <2>1. \/ graph' = graph
        \/ graph'.next = "end" /\ graph'.error_count = graph.error_count
        \/ graph'.next = "end" /\ graph'.error_count = graph.error_count + 1
    BY <1>1, <1>5, ReportStep DEF ContractState
  <2>2. graph.next = "report"
    BY <1>5, ReportStep
  <2>3. graph'.error_count <= Signals[graph'.next]
    BY <1>1, <1>2, <2>1, <2>2, SignalValue
  <2> QED
    BY <1>3, <1>5, <2>3, ReportStep
<1>6. CASE Checkpoint
  BY <1>6 DEF Checkpoint, SignalsBounded
<1>7. CASE Resume
  BY <1>7 DEF Resume, SignalsBounded
<1>8. CASE UNCHANGED vars
  BY <1>8 DEF vars, SignalsBounded
<1> QED
  BY <1>4, <1>5, <1>6, <1>7, <1>8 DEF Next, Done

(* Wherever a run is cut short and resumed, no node's health signal is     *)
(* counted twice, and none is counted before the node ran.                 *)
THEOREM SignalsCountOnce == Spec => []ErrorsCountedOnce
<1>1. Init => SignalsBounded
  BY SignalValue DEF Init, Fresh, SignalsBounded
<1>2. DiscardInv => Shape
  BY DEF DiscardInv
<1>3. SignalsBounded => ErrorsCountedOnce
  BY DEF SignalsBounded, ErrorsCountedOnce
<1> QED
  BY <1>1, <1>2, <1>3, DiscardInit, DiscardNext, SignalsNext, PTL DEF Spec

-----------------------------------------------------------------------------
(* The pair of report files *)

(* A path is set by the last step only, when both files are of the final   *)
(* state; the JSON of this run is there before the Markdown is begun; and  *)
(* a checkpoint with a path is the end of this run.                        *)
PairInv ==
  /\ graph.report_path => graph.next = "end" /\ json = Report(graph) /\ md = Report(graph)
  /\ saved.report_path => graph = saved
  /\ stage = "markdown" => graph.next = "report" /\ json = Report(graph)

LEMMA ReportOf ==
  ASSUME NEW g, NEW h, g.clauses = h.clauses, g.error_count = h.error_count
  PROVE  Report(g) = Report(h)
  BY DEF Report

LEMMA PairNext ==
  ASSUME Shape, PairInv, [Next]_vars
  PROVE  PairInv'
<1>1. graph \in ContractState /\ saved \in ContractState
  BY DEF Shape
<1>2. Run => graph.next # "end"
  BY DEF Run, Ingest, SplitClauses, Crag, PassBlank, Retrieve, RetrieveUnembedded, CragReturn,
         SelfRag, DiscardUnjudged, FailOpen, CheckRelevance, CheckIsrel, CheckIssup,
         CheckCombined, Judging, SelfRagReturn, Risk, PassUnvalidated, ScoreByDefault,
         ScoreRisk, RiskReturn, Redline, PassIneligible, RedlineByDefault, DraftRewrite,
         RedlineReturn, SkipRedline, WriteJson, WriteMarkdown, Visiting, Finished
<1>3. Run => ~graph.report_path /\ ~saved.report_path
  BY <1>2 DEF PairInv
<1>4. CASE Run /\ ~WriteJson /\ ~WriteMarkdown
  <2>1. saved' = saved /\ stage' # "markdown" /\ graph'.report_path = graph.report_path
    BY <1>4, GraphStep DEF Moved
  <2> QED
    BY <1>3, <1>4, <2>1 DEF PairInv
<1>5. CASE WriteJson \/ WriteMarkdown
  <2>1. ~graph.report_path /\ ~saved.report_path /\ saved' = saved
    BY <1>3, <1>5, ReportStep DEF Run
  <2>2. CASE /\ WriteJson /\ graph' = graph /\ json' = Report(graph)
             /\ stage' = "markdown"
    BY <1>5, <2>1, <2>2, ReportStep DEF PairInv
  <2>3. CASE /\ WriteMarkdown /\ json' = json /\ md' = Report(graph)
             /\ graph' = [graph EXCEPT !.next = "end", !.report_path = TRUE]
             /\ stage' = "start"
    <3>1. json = Report(graph)
      BY <2>3 DEF WriteMarkdown, PairInv
    <3>2. /\ graph'.clauses = graph.clauses /\ graph'.error_count = graph.error_count
          /\ graph'.next = "end"
      BY <1>1, <2>3 DEF ContractState
    <3>3. Report(graph') = Report(graph)
      BY <3>2, ReportOf
    <3>4. Report(graph)' = Report(graph')
      BY DEF Report
    <3> QED
      BY <2>1, <2>3, <3>1, <3>2, <3>3, <3>4 DEF PairInv
  <2>4. CASE /\ graph' = [graph EXCEPT !.next = "end", !.report_path = FALSE,
                                       !.error_count = @ + 1]
             /\ stage' = "start"
    <3>1. graph'.report_path = FALSE
      BY <1>1, <2>4 DEF ContractState
    <3> QED
      BY <2>1, <2>4, <3>1 DEF PairInv
  <2> QED
    BY <1>5, <2>2, <2>3, <2>4, ReportStep
<1>6. CASE Checkpoint
  <2>1. saved' = graph /\ UNCHANGED <<graph, stage, json, md>>
    BY <1>6 DEF Checkpoint, local, files
  <2>2. Report(graph)' = Report(graph)
    BY <2>1 DEF Report
  <2> QED
    BY <2>1, <2>2 DEF PairInv
<1>7. CASE Resume
  <2>1. graph' = saved /\ saved' = saved /\ stage' = "start"
    BY <1>7 DEF Resume, Enter
  <2>2. CASE ~saved.report_path
    BY <2>1, <2>2 DEF PairInv
  <2>3. CASE saved.report_path
    <3>1. graph' = graph /\ graph.next = "end" /\ graph.report_path
      BY <2>1, <2>3 DEF PairInv
    <3>2. json' = json /\ md' = md
      BY <1>7, <3>1 DEF Resume, files
    <3>3. Report(graph)' = Report(graph)
      BY <3>1 DEF Report
    <3> QED
      BY <2>1, <3>1, <3>2, <3>3 DEF PairInv
  <2> QED
    BY <2>2, <2>3
<1>8. CASE UNCHANGED vars
  <2>1. UNCHANGED <<graph, saved, stage, json, md>>
    BY <1>8 DEF vars, local, files
  <2>2. Report(graph)' = Report(graph)
    BY <2>1 DEF Report
  <2> QED
    BY <2>1, <2>2 DEF PairInv
<1> QED
  BY <1>4, <1>5, <1>6, <1>7, <1>8 DEF Next, Done

(* A run that points at a report points at two whole files of its final    *)
(* state, whichever write failed and whatever an attempt that crashed left *)
(* behind.                                                                 *)
THEOREM PairAgrees == Spec => []ReportPairAgrees
<1>1. Init => PairInv
  BY DEF Init, Fresh, PairInv
<1>2. DiscardInv => Shape
  BY DEF DiscardInv
<1>3. PairInv => ReportPairAgrees
  BY DEF PairInv, ReportPairAgrees
<1> QED
  BY <1>1, <1>2, <1>3, DiscardInit, DiscardNext, PairNext, PTL DEF Spec

-----------------------------------------------------------------------------
(* Risk, routing and rewriting *)

Bare(c)    == c.risk = "none" /\ c.rewrite = "absent"
Rated(c)   == (IsFinding(c) <=> c.risk # "none") /\ c.rewrite = "absent"
Covered(c) == /\ IsFinding(c) <=> c.risk # "none"
              /\ is_redline_eligible(c) <=> c.rewrite # "absent"

(* What node n finds in a clause it has not visited yet, and what it       *)
(* leaves of it.                                                           *)
Ready(n, c) ==
  /\ n \in Early \cup {"risk_score"} => Bare(c)
  /\ n \in {"redline", "skip_redline"} => Rated(c)
  /\ n = "skip_redline" => ~is_redline_eligible(c)
  /\ n = "report" => Covered(c)

Left(n, c) ==
  /\ n \in Early => Bare(c)
  /\ n = "risk_score" => Rated(c)
  /\ n = "redline" => Covered(c)

AllReady(g) == \A i \in 1 .. Len(g.clauses) : Ready(g.next, g.clauses[i])

(* A checkpoint is as good a start as the graph; and the clauses before    *)
(* the current one are done.                                               *)
RewriteInv ==
  /\ AllReady(graph) /\ AllReady(saved)
  /\ \A i \in 1 .. Len(work) :
       IF i < at THEN Left(graph.next, work[i]) ELSE Ready(graph.next, work[i])

LEMMA RewriteReturn ==
  ASSUME RewriteInv, NEW g \in ContractState, Return(g), AllReady(g)
  PROVE  RewriteInv'
<1>1. graph' = g /\ saved' = saved /\ work' = g.clauses /\ at' = 1
  BY DEF Return, Enter
<1>2. AllReady(graph)' /\ AllReady(saved)'
  BY <1>1 DEF RewriteInv, AllReady
<1>3. \A i \in 1 .. Len(g.clauses) : ~(i < 1) /\ Ready(g.next, g.clauses[i])
  BY DEF AllReady
<1> QED
  BY <1>1, <1>2, <1>3 DEF RewriteInv

LEMMA RewriteClause ==
  ASSUME Shape, RewriteInv, at <= Len(work), NEW c \in Clause, NextClause(c),
         Left(graph.next, c)
  PROVE  RewriteInv'
<1>1. /\ graph' = graph /\ saved' = saved /\ at' = at + 1
      /\ work' = [work EXCEPT ![at] = c]
  BY DEF NextClause
<1>2. /\ Len(work') = Len(work)
      /\ \A i \in 1 .. Len(work) : work'[i] = IF i = at THEN c ELSE work[i]
  BY <1>1, PutClause
<1>3. AllReady(graph)' /\ AllReady(saved)'
  BY <1>1 DEF RewriteInv, AllReady
<1>4. ASSUME NEW i \in 1 .. Len(work)
      PROVE  IF i < at + 1 THEN Left(graph.next, work'[i]) ELSE Ready(graph.next, work'[i])
  <2>1. i \in Nat /\ at \in Nat
    BY DEF Shape
  <2>2. CASE i = at
    BY <1>2, <2>1, <2>2
  <2>3. CASE i # at
    <3>1. work'[i] = work[i]
      BY <1>2, <2>3
    <3>2. i < at + 1 <=> i < at
      BY <2>1, <2>3
    <3> QED
      BY <3>1, <3>2 DEF RewriteInv
  <2> QED
    BY <2>2, <2>3
<1> QED
  BY <1>1, <1>2, <1>3, <1>4 DEF RewriteInv

LEMMA RewriteCall ==
  ASSUME Shape, RewriteInv, at <= Len(work), NEW c \in Clause, NEW s, NEW n,
         NextCall(c, s, n), Ready(graph.next, c)
  PROVE  RewriteInv'
<1>1. /\ graph' = graph /\ saved' = saved /\ at' = at
      /\ work' = [work EXCEPT ![at] = c]
  BY DEF NextCall
<1>2. /\ Len(work') = Len(work)
      /\ \A i \in 1 .. Len(work) : work'[i] = IF i = at THEN c ELSE work[i]
  BY <1>1, PutClause
<1>3. AllReady(graph)' /\ AllReady(saved)'
  BY <1>1 DEF RewriteInv, AllReady
<1>4. ASSUME NEW i \in 1 .. Len(work)
      PROVE  IF i < at THEN Left(graph.next, work'[i]) ELSE Ready(graph.next, work'[i])
  <2>1. i \in Nat /\ at \in Nat
    BY DEF Shape
  <2>2. CASE i = at
    BY <1>2, <2>1, <2>2
  <2>3. CASE i # at
    BY <1>2, <2>3 DEF RewriteInv
  <2> QED
    BY <2>2, <2>3
<1> QED
  BY <1>1, <1>2, <1>3, <1>4 DEF RewriteInv

(* The clause a node is at has not been visited yet. *)
LEMMA HereReady ==
  ASSUME Shape, RewriteInv, at <= Len(work)
  PROVE  Here \in Clause /\ Ready(graph.next, Here)
<1>1. at \in 1 .. Len(work) /\ ~(at < at)
  BY DEF Shape
<1>2. Ready(graph.next, work[at])
  BY <1>1 DEF RewriteInv
<1> QED
  BY <1>2, HereClause DEF Here

(* The fields the risk and redline nodes do not set. *)
LEMMA BareField ==
  ASSUME NEW c \in Clause, Bare(c), NEW v \in Verdict
  PROVE  /\ \A e \in {"some", "none"} : /\ [c EXCEPT !.evidence = e] \in Clause
                                        /\ Bare([c EXCEPT !.evidence = e])
         /\ [c EXCEPT !.relevance = v] \in Clause /\ Bare([c EXCEPT !.relevance = v])
         /\ [c EXCEPT !.isrel = v] \in Clause /\ Bare([c EXCEPT !.isrel = v])
         /\ [c EXCEPT !.issup = v] \in Clause /\ Bare([c EXCEPT !.issup = v])
         /\ Verified(c) \in Clause /\ Bare(Verified(c))
         /\ Dropped(c) \in Clause /\ Bare(Dropped(c))
<1>1. /\ \A e \in {"some", "none"} : [c EXCEPT !.evidence = e] \in Clause
      /\ [c EXCEPT !.relevance = v] \in Clause /\ [c EXCEPT !.isrel = v] \in Clause
      /\ [c EXCEPT !.issup = v] \in Clause
      /\ Verified(c) \in Clause /\ Dropped(c) \in Clause
  BY ClauseField DEF Level
<1>2. \A e \in {"some", "none"} : Bare([c EXCEPT !.evidence = e])
  BY DEF Bare, Clause
<1>3. Bare([c EXCEPT !.relevance = v])
  BY DEF Bare, Clause
<1>4. Bare([c EXCEPT !.isrel = v])
  BY DEF Bare, Clause
<1>5. Bare([c EXCEPT !.issup = v])
  BY DEF Bare, Clause
<1>6. Bare(Verified(c)) /\ Bare(Dropped(c))
  BY DEF Bare, Clause, Verified, Dropped
<1> QED
  BY <1>1, <1>2, <1>3, <1>4, <1>5, <1>6

(* A node before the risk node goes on with a clause that is still bare.   *)
LEMMA BareClause ==
  ASSUME Shape, RewriteInv, at <= Len(work), graph.next \in Early,
         NEW c \in Clause, Bare(c), NextClause(c)
  PROVE  RewriteInv'
  BY RewriteClause DEF Left, Early

LEMMA BareCall ==
  ASSUME Shape, RewriteInv, at <= Len(work), graph.next \in Early,
         NEW c \in Clause, Bare(c), NEW s, NEW n, NextCall(c, s, n)
  PROVE  RewriteInv'
  BY RewriteCall DEF Ready, Early

LEMMA HereBare ==
  ASSUME Shape, RewriteInv, at <= Len(work), graph.next \in Early
  PROVE  Here \in Clause /\ Bare(Here)
  BY HereReady DEF Ready

LEMMA RewriteCrag ==
  ASSUME Shape, RewriteInv, PassBlank \/ Retrieve \/ RetrieveUnembedded
  PROVE  RewriteInv'
<1>1. graph.next = "crag_retrieval" /\ at <= Len(work)
  BY DEF PassBlank, Retrieve, RetrieveUnembedded, Visiting
<1>2. Here \in Clause /\ Bare(Here)
  BY <1>1, HereBare DEF Early
<1>3. PICK c : NextClause(c)
               /\ (c = Here \/ \E e \in {"some", "none"} : c = [Here EXCEPT !.evidence = e])
  BY DEF PassBlank, Retrieve, RetrieveUnembedded, FromKb, FromWeb
<1>4. c \in Clause /\ Bare(c)
  BY <1>2, <1>3, BareField DEF Verdict
<1> QED
  BY <1>1, <1>3, <1>4, BareClause DEF Early

LEMMA RewriteSelfRag ==
  ASSUME Shape, RewriteInv, SelfRag, ~SelfRagReturn
  PROVE  RewriteInv'
<1>1. graph.next = "self_rag_validation" /\ at <= Len(work) /\ graph.next \in Early
  BY DEF SelfRag, DiscardUnjudged, FailOpen, CheckRelevance, CheckIsrel, CheckIssup,
         CheckCombined, Judging, Visiting, Early
<1>2. Here \in Clause /\ Bare(Here)
  BY <1>1, HereBare
<1>3. ASSUME NEW c \in Clause, Bare(c),
             NextClause(c) \/ NextClause(Verified(c)) \/ NextClause(Dropped(c))
      PROVE  RewriteInv'
  <2>1. /\ Verified(c) \in Clause /\ Bare(Verified(c))
        /\ Dropped(c) \in Clause /\ Bare(Dropped(c))
    BY <1>3, BareField DEF Verdict
  <2> QED
    BY <1>1, <1>3, <2>1, BareClause
<1>4. CASE DiscardUnjudged \/ FailOpen
  BY <1>2, <1>3, <1>4 DEF DiscardUnjudged, FailOpen
<1>5. CASE CheckRelevance
  <2>1. PICK v \in Verdict : LET c == [Here EXCEPT !.relevance = v] IN
           \/ NextClause(Verified(c)) \/ NextClause(Dropped(c)) \/ NextCall(c, "isrel", 1)
    BY <1>5 DEF CheckRelevance
  <2> DEFINE c == [Here EXCEPT !.relevance = v]
  <2>2. c \in Clause /\ Bare(c)
    BY <1>2, BareField
  <2>3. NextClause(Verified(c)) \/ NextClause(Dropped(c)) \/ NextCall(c, "isrel", 1)
    BY <2>1
  <2> HIDE DEF c
  <2> QED
    BY <1>1, <1>3, <2>2, <2>3, BareCall
<1>6. CASE CheckIsrel
  <2>1. PICK v \in Verdict : LET c == [Here EXCEPT !.isrel = v] IN
           \/ NextClause(Verified(c)) \/ NextClause(Dropped(c)) \/ NextCall(c, "issup", 1)
    BY <1>6 DEF CheckIsrel
  <2> DEFINE c == [Here EXCEPT !.isrel = v]
  <2>2. c \in Clause /\ Bare(c)
    BY <1>2, BareField
  <2>3. NextClause(Verified(c)) \/ NextClause(Dropped(c)) \/ NextCall(c, "issup", 1)
    BY <2>1
  <2> HIDE DEF c
  <2> QED
    BY <1>1, <1>3, <2>2, <2>3, BareCall
<1>7. CASE CheckIssup
  <2>1. PICK v \in Verdict :
           \/ NextClause(Verified([Here EXCEPT !.issup = v]))
           \/ NextCall(Here, "issup", attempt + 1)
           \/ NextClause(Dropped([Here EXCEPT !.issup = "false"]))
    BY <1>7 DEF CheckIssup
  <2> DEFINE c == [Here EXCEPT !.issup = v]
             d == [Here EXCEPT !.issup = "false"]
  <2>2. c \in Clause /\ Bare(c)
    BY <1>2, BareField
  <2>3. d \in Clause /\ Bare(d)
    BY <1>2, BareField DEF Verdict
  <2>4. \/ NextClause(Verified(c)) \/ NextCall(Here, "issup", attempt + 1)
        \/ NextClause(Dropped(d))
    BY <2>1
  <2> HIDE DEF c, d
  <2> QED
    BY <1>1, <1>2, <1>3, <2>2, <2>3, <2>4, BareCall
<1>8. CASE CheckCombined
  <2>1. CASE NextClause(Verified(Here))
    BY <1>2, <1>3, <2>1
  <2>2. ASSUME NEW v \in [relevance : Verdict, isrel : Verdict, issup : Verdict],
               NextClause(Combined(Here, v))
        PROVE  RewriteInv'
    <3> DEFINE rel == [Here EXCEPT !.relevance = v.relevance]
               isr == [rel EXCEPT !.isrel = v.isrel]
               sup == [isr EXCEPT !.issup = v.issup]
    <3>1. v.relevance \in Verdict /\ v.isrel \in Verdict /\ v.issup \in Verdict
      OBVIOUS
    <3>2. PICK d \in {rel, isr, sup} : Combined(Here, v) \in {Dropped(d), Verified(d)}
      BY DEF Combined
    <3>3. rel \in Clause /\ Bare(rel)
      BY <1>2, <3>1, BareField
    <3> HIDE DEF rel
    <3>4. isr \in Clause /\ Bare(isr)
      BY <3>1, <3>3, BareField
    <3> HIDE DEF isr
    <3>5. sup \in Clause /\ Bare(sup)
      BY <3>1, <3>4, BareField
    <3> HIDE DEF sup
    <3>6. d \in Clause /\ Bare(d)
      BY <3>2, <3>3, <3>4, <3>5
    <3>7. NextClause(Verified(d)) \/ NextClause(Dropped(d))
      BY <2>2, <3>2
    <3> QED
      BY <1>3, <3>6, <3>7
  <2> QED
    BY <1>8, <2>1, <2>2 DEF CheckCombined
<1> QED
  BY <1>4, <1>5, <1>6, <1>7, <1>8 DEF SelfRag

LEMMA RewriteRisk ==
  ASSUME Shape, RewriteInv, PassUnvalidated \/ ScoreByDefault \/ ScoreRisk
  PROVE  RewriteInv'
<1>1. graph.next = "risk_score" /\ at <= Len(work)
  BY DEF PassUnvalidated, ScoreByDefault, ScoreRisk, Visiting
<1>2. Here \in Clause /\ Bare(Here)
  BY <1>1, HereReady DEF Ready
<1>3. DefaultLevel \in Level /\ "none" \notin Level
  BY LimitsAssumption DEF Level
<1>4. ASSUME NEW c \in Clause, Rated(c), NextClause(c)
      PROVE  RewriteInv'
  BY <1>1, <1>4, RewriteClause DEF Left, Early
<1>5. CASE PassUnvalidated
  BY <1>2, <1>4, <1>5 DEF PassUnvalidated, Rated, Bare, IsFinding
<1>6. ASSUME NEW lvl \in Level, NEW f \in {"yes", "no"}, Here.final = "validated",
             NextClause([Here EXCEPT !.risk = lvl, !.failsafe = f])
      PROVE  RewriteInv'
  <2> DEFINE c == [Here EXCEPT !.risk = lvl, !.failsafe = f]
  <2>1. c \in Clause
    BY <1>2 DEF Clause
  <2>2. c.risk = lvl /\ c.final = Here.final /\ c.rewrite = Here.rewrite
    BY <1>2 DEF Clause
  <2> HIDE DEF c
  <2>3. Rated(c)
    BY <1>2, <1>3, <1>6, <2>2 DEF Rated, Bare, IsFinding
  <2> QED
    BY <1>4, <1>6, <2>1, <2>3 DEF c
<1>7. CASE ScoreByDefault
  BY <1>3, <1>6, <1>7 DEF ScoreByDefault, Failsafe
<1>8. CASE ScoreRisk
  BY <1>3, <1>6, <1>8 DEF ScoreRisk, Failsafe, Scored
<1> QED
  BY <1>5, <1>7, <1>8

LEMMA RewriteRedline ==
  ASSUME Shape, RewriteInv, PassIneligible \/ RedlineByDefault \/ DraftRewrite
  PROVE  RewriteInv'
<1>1. graph.next = "redline" /\ at <= Len(work)
  BY DEF PassIneligible, RedlineByDefault, DraftRewrite, Visiting
<1>2. Here \in Clause /\ Rated(Here)
  BY <1>1, HereReady DEF Ready
<1>3. ASSUME NEW c \in Clause, Covered(c), NextClause(c)
      PROVE  RewriteInv'
  BY <1>1, <1>3, RewriteClause DEF Left, Early
<1>4. CASE PassIneligible
  BY <1>2, <1>3, <1>4 DEF PassIneligible, Rated, Covered
<1>5. ASSUME NEW r \in {"none", "drafted"}, is_redline_eligible(Here),
             NextClause([Here EXCEPT !.rewrite = r])
      PROVE  RewriteInv'
  <2> DEFINE c == [Here EXCEPT !.rewrite = r]
  <2>1. c \in Clause
    BY <1>2 DEF Clause
  <2>2. c.risk = Here.risk /\ c.final = Here.final /\ c.rewrite = r
    BY <1>2 DEF Clause
  <2> HIDE DEF c
  <2>3. Covered(c)
    BY <1>2, <1>5, <2>2 DEF Rated, Covered, IsFinding, is_redline_eligible
  <2> QED
    BY <1>3, <1>5, <2>1, <2>3 DEF c
<1>6. CASE RedlineByDefault
  BY <1>5, <1>6 DEF RedlineByDefault, NoRewrite
<1>7. CASE DraftRewrite
  BY <1>5, <1>7 DEF DraftRewrite, NoRewrite
<1> QED
  BY <1>4, <1>6, <1>7

(* A node that has visited all clauses returns what it left of them. *)
LEMMA AllLeft ==
  ASSUME Shape, RewriteInv, at > Len(work)
  PROVE  \A i \in 1 .. Len(work) : Left(graph.next, work[i])
<1> SUFFICES ASSUME NEW i \in 1 .. Len(work) PROVE Left(graph.next, work[i])
  OBVIOUS
<1>1. i < at
  BY DEF Shape
<1> QED
  BY <1>1 DEF RewriteInv

LEMMA RewriteReturns ==
  ASSUME Shape, RewriteInv, CragReturn \/ SelfRagReturn \/ RiskReturn \/ RedlineReturn
  PROVE  RewriteInv'
<1>1. graph \in ContractState /\ work \in Seq(Clause)
  BY DEF Shape
<1>2. \A i \in 1 .. Len(work) : Left(graph.next, work[i])
  BY AllLeft DEF CragReturn, SelfRagReturn, RiskReturn, RedlineReturn, Finished
<1>3. ASSUME NEW n \in Node, NEW k \in {0, 1},
             Return([graph EXCEPT !.next = n, !.clauses = work, !.error_count = @ + k]),
             \A i \in 1 .. Len(work) : Ready(n, work[i])
      PROVE  RewriteInv'
  <2> DEFINE g == [graph EXCEPT !.next = n, !.clauses = work, !.error_count = @ + k]
  <2>1. k \in Nat
    BY <1>3
  <2>2. g \in ContractState
    BY <1>1, <2>1, UpdateType
  <2>3. g.clauses = work /\ g.next = n
    BY <1>1 DEF ContractState
  <2>4. Return(g)
    BY <1>3
  <2> HIDE DEF g
  <2>5. AllReady(g)
    BY <1>3, <2>3 DEF AllReady
  <2> QED
    BY <2>2, <2>4, <2>5, RewriteReturn
<1>4. Tripped \in {0, 1}
  BY DEF Tripped
<1>5. CASE CragReturn
  <2> DEFINE g == [graph EXCEPT !.next = "self_rag_validation", !.clauses = work]
  <2>1. graph.next = "crag_retrieval" /\ Return(g)
    BY <1>5 DEF CragReturn, Finished
  <2>2. g \in ContractState
    BY <1>1, UpdateType DEF Node
  <2>3. g.clauses = work /\ g.next = "self_rag_validation"
    BY <1>1 DEF ContractState
  <2> HIDE DEF g
  <2>4. AllReady(g)
    BY <1>2, <2>1, <2>3 DEF AllReady, Left, Ready, Early
  <2> QED
    BY <2>1, <2>2, <2>4, RewriteReturn
<1>6. CASE SelfRagReturn
  <2>1. \A i \in 1 .. Len(work) : Ready("risk_score", work[i])
    BY <1>2, <1>6 DEF SelfRagReturn, Finished, Left, Ready, Early
  <2> QED
    BY <1>3, <1>4, <1>6, <2>1 DEF SelfRagReturn, Node
<1>7. CASE RiskReturn
  <2>1. \A i \in 1 .. Len(work) : Rated(work[i])
    BY <1>2, <1>7 DEF RiskReturn, Finished, Left
  <2>2. \A i \in 1 .. Len(work) : Ready(Routed(work), work[i])
    BY <2>1 DEF Routed, Ready, Early
  <2>3. Routed(work) \in Node
    BY DEF Routed, Node
  <2>4. Return([graph EXCEPT !.next = Routed(work), !.clauses = work,
                             !.error_count = @ + Tripped])
    BY <1>7 DEF RiskReturn
  <2> QED
    BY <1>3, <1>4, <2>2, <2>3, <2>4
<1>8. CASE RedlineReturn
  <2>1. \A i \in 1 .. Len(work) : Ready("report", work[i])
    BY <1>2, <1>8 DEF RedlineReturn, Finished, Left, Ready, Early
  <2> QED
    BY <1>3, <1>4, <1>8, <2>1 DEF RedlineReturn, Node
<1> QED
  BY <1>5, <1>6, <1>7, <1>8

LEMMA RewriteFirst ==
  ASSUME Shape, RewriteInv, Ingest \/ SplitClauses \/ SkipRedline
  PROVE  RewriteInv'
<1>1. graph \in ContractState /\ work \in Seq(Clause) /\ AllReady(graph)
  BY DEF Shape, RewriteInv
<1>2. CASE Ingest
  <2> DEFINE g == [graph EXCEPT !.next = "clause_splitter"]
             h == [graph EXCEPT !.next = "end", !.ingest_error = TRUE, !.error_count = @ + 1]
  <2>1. graph.next = "ingest_agent" /\ (Return(g) \/ Return(h))
    BY <1>2 DEF Ingest
  <2>2. g \in ContractState /\ h \in ContractState
    BY <1>1, UpdateType DEF Node
  <2>3. /\ g.clauses = graph.clauses /\ g.next = "clause_splitter"
        /\ h.clauses = graph.clauses /\ h.next = "end"
    BY <1>1 DEF ContractState
  <2> HIDE DEF g, h
  <2>4. AllReady(g) /\ AllReady(h)
    BY <1>1, <2>1, <2>3 DEF AllReady, Ready, Early
  <2> QED
    BY <2>1, <2>2, <2>4, RewriteReturn
<1>3. CASE SplitClauses
  <2>1. PICK n \in 0 .. MaxClauses :
          \E seg \in [1 .. n -> {"text", "blank"} \X {"floor", "other"}] :
            Return([graph EXCEPT !.next = "crag_retrieval",
                      !.clauses = [i \in 1 .. n |-> Segment(seg[i][1], seg[i][2])]])
    BY <1>3 DEF SplitClauses
  <2>2. PICK seg \in [1 .. n -> {"text", "blank"} \X {"floor", "other"}] :
          Return([graph EXCEPT !.next = "crag_retrieval",
                    !.clauses = [i \in 1 .. n |-> Segment(seg[i][1], seg[i][2])]])
    BY <2>1
  <2> DEFINE cs == [i \in 1 .. n |-> Segment(seg[i][1], seg[i][2])]
             g  == [graph EXCEPT !.next = "crag_retrieval", !.clauses = cs]
  <2>3. n \in Nat
    BY <2>1, LimitsAssumption
  <2>4. cs \in Seq(Clause) /\ Len(cs) = n
    <3>1. cs \in Seq(Clause)
      BY <2>3, SplitSound
    <3>2. Len(cs) = n
      BY <2>3
    <3> QED
      BY <3>1, <3>2
  <2>5. \A i \in 1 .. n : Bare(cs[i])
    BY DEF Segment, Bare
  <2> HIDE DEF cs
  <2>6. g \in ContractState
    BY <1>1, <2>4, UpdateType DEF Node
  <2>7. g.clauses = cs /\ g.next = "crag_retrieval"
    BY <1>1 DEF ContractState
  <2>8. Return(g)
    BY <2>2 DEF cs
  <2> HIDE DEF g
  <2>9. AllReady(g)
    BY <2>4, <2>5, <2>7 DEF AllReady, Ready
  <2> QED
    BY <2>6, <2>8, <2>9, RewriteReturn
<1>4. CASE SkipRedline
  <2> DEFINE g == [graph EXCEPT !.next = "report"]
  <2>1. graph.next = "skip_redline" /\ Return(g)
    BY <1>4 DEF SkipRedline
  <2>2. g \in ContractState
    BY <1>1, UpdateType DEF Node
  <2>3. g.clauses = graph.clauses /\ g.next = "report"
    BY <1>1 DEF ContractState
  <2> HIDE DEF g
  <2>4. AllReady(g)
    BY <1>1, <2>1, <2>3 DEF AllReady, Ready, Rated, Covered, Early
  <2> QED
    BY <2>1, <2>2, <2>4, RewriteReturn
<1> QED
  BY <1>2, <1>3, <1>4

LEMMA RewriteReport ==
  ASSUME Shape, RewriteInv, WriteJson \/ WriteMarkdown
  PROVE  RewriteInv'
<1>1. graph \in ContractState /\ work \in Seq(Clause)
  BY DEF Shape
<1>2. ASSUME NEW g \in ContractState, Return(g), g.next = "end"
      PROVE  RewriteInv'
  BY <1>2, RewriteReturn DEF AllReady, Ready, Early
<1>3. ASSUME NEW j, NEW m, ReportFails(j, m)
      PROVE  RewriteInv'
  <2> DEFINE g == [graph EXCEPT !.next = "end", !.report_path = FALSE, !.error_count = @ + 1]
  <2>1. g \in ContractState
    BY <1>1, UpdateType DEF Node
  <2>2. g.next = "end"
    BY <1>1 DEF ContractState
  <2>3. Return(g)
    BY <1>3 DEF ReportFails
  <2> HIDE DEF g
  <2> QED
    BY <1>2, <2>1, <2>2, <2>3
<1>4. CASE UNCHANGED <<graph, saved, work, at>>
  BY <1>4 DEF RewriteInv, AllReady
<1>5. CASE Return([graph EXCEPT !.next = "end", !.report_path = TRUE])
  <2> DEFINE g == [graph EXCEPT !.next = "end", !.report_path = TRUE]
  <2>1. g \in ContractState
    BY <1>1, UpdateType DEF Node
  <2>2. g.next = "end"
    BY <1>1 DEF ContractState
  <2>3. Return(g)
    BY <1>5
  <2> HIDE DEF g
  <2> QED
    BY <1>2, <2>1, <2>2, <2>3
<1> QED
  BY <1>3, <1>4, <1>5 DEF WriteJson, WriteMarkdown

LEMMA RewriteNext ==
  ASSUME Shape, RewriteInv, [Next]_vars
  PROVE  RewriteInv'
<1>1. CASE Run
  BY <1>1, RewriteFirst, RewriteCrag, RewriteSelfRag, RewriteRisk, RewriteRedline,
     RewriteReturns, RewriteReport DEF Run, Crag, SelfRag, Risk, Redline
<1>2. CASE Checkpoint
  BY <1>2 DEF Checkpoint, local, RewriteInv, AllReady
<1>3. CASE Resume
  <2>1. graph' = saved /\ saved' = saved /\ work' = saved.clauses /\ at' = 1
    BY <1>3 DEF Resume, Enter
  <2>2. \A i \in 1 .. Len(saved.clauses) : ~(i < 1) /\ Ready(saved.next, saved.clauses[i])
    BY DEF RewriteInv, AllReady
  <2> QED
    BY <2>1, <2>2 DEF RewriteInv, AllReady
<1>4. CASE UNCHANGED vars
  BY <1>4 DEF vars, local, RewriteInv, AllReady
<1> QED
  BY <1>1, <1>2, <1>3, <1>4 DEF Next, Done

(* What the risk node scored is what the redline node rewrites, whichever  *)
(* way route_on_risk went and however often the run was resumed.           *)
THEOREM RewritesCoverRisk == Spec => []RewriteCoversRisk
<1>1. Init => RewriteInv
  BY DEF Init, Fresh, RewriteInv, AllReady
<1>2. DiscardInv => Shape
  BY DEF DiscardInv
<1>3. RewriteInv => RewriteCoversRisk
  BY DEF RewriteInv, AllReady, Ready, Covered, RewriteCoversRisk
<1> QED
  BY <1>1, <1>2, <1>3, DiscardInit, DiscardNext, RewriteNext, PTL DEF Spec

-----------------------------------------------------------------------------
(* An outage of the risk-score judge *)

(* The findings among the clauses from place a to place b, and whether all *)
(* of them have a fail-safe severity.                                      *)
Stretch(cs, a, b)   == {i \in a .. b : IsFinding(cs[i])}
Defaulted(cs, a, b) == \A i \in Stretch(cs, a, b) : cs[i].failsafe = "yes"

(* RiskThreshold of them in a row, among the first n clauses.              *)
Outage(cs, n) ==
  \E a, b \in 1 .. n : Defaulted(cs, a, b) /\ Cardinality(Stretch(cs, a, b)) >= RiskThreshold

(* The breaker is closed after n clauses and f failures in a row: as many  *)
(* fail-safe findings at most are the last of them.                        *)
Scanned(cs, n, f) ==
  /\ f \in Nat /\ f < RiskThreshold
  /\ \A a \in 1 .. n + 1 : Defaulted(cs, a, n) => Cardinality(Stretch(cs, a, n)) <= f
  /\ ~Outage(cs, n)

(* Once the risk node is left an outage has been counted.                  *)
Late == {"redline", "skip_redline", "report", "end"}

Signalled(g) ==
  g.next \in Late => g.error_count >= 1 \/ ~Outage(g.clauses, Len(g.clauses))

(* What the running node knows: the risk node of the clauses it scanned,   *)
(* the redline node of all of them.                                        *)
Watched(g, cs, i, breaker) ==
  /\ g.next = "risk_score" => breaker.open \/ Scanned(cs, i - 1, breaker.failures)
  /\ g.next = "redline" => g.error_count >= 1 \/ ~Outage(cs, Len(cs))

OutageInv == Signalled(graph) /\ Signalled(saved) /\ Watched(graph, work, at, cb)

LEMMA OutagePrimed ==
  ASSUME NEW g, NEW s, NEW cs, NEW i, NEW breaker,
         graph' = g, saved' = s, work' = cs, at' = i, cb' = breaker,
         Signalled(g), Signalled(s), Watched(g, cs, i, breaker)
  PROVE  OutageInv'
  BY DEF OutageInv

LEMMA StretchFinite ==
  ASSUME NEW cs, NEW a \in Nat, NEW b \in Nat
  PROVE  IsFiniteSet(Stretch(cs, a, b)) /\ Cardinality(Stretch(cs, a, b)) \in Nat
<1>1. IsFiniteSet(a .. b)
  BY FS_Interval
<1>2. Stretch(cs, a, b) \subseteq a .. b
  BY DEF Stretch
<1>3. IsFiniteSet(Stretch(cs, a, b))
  BY <1>1, <1>2, FS_Subset
<1> QED
  BY <1>3, FS_CardinalityType

LEMMA NothingScanned == ASSUME NEW cs PROVE Scanned(cs, 0, 0)
<1>1. RiskThreshold \in Nat /\ RiskThreshold > 0
  BY LimitsAssumption
<1>2. \A a \in 1 .. 0 + 1 : Stretch(cs, a, 0) = {}
  BY DEF Stretch
<1>3. \A a \in 1 .. 0 + 1 : Cardinality(Stretch(cs, a, 0)) = 0
  BY <1>2, FS_EmptySet
<1>4. ~Outage(cs, 0)
  BY DEF Outage
<1> QED
  BY <1>1, <1>3, <1>4 DEF Scanned

(* Outages are seen in the verdicts and the fail-safe marks alone.         *)
Alike(cs, ds, n) ==
  \A i \in 1 .. n : (IsFinding(cs[i]) <=> IsFinding(ds[i])) /\ cs[i].failsafe = ds[i].failsafe

LEMMA StretchAlike ==
  ASSUME NEW cs, NEW ds, NEW n \in Nat, Alike(cs, ds, n), NEW a \in 1 .. n + 1, NEW b \in 0 .. n
  PROVE  /\ Stretch(ds, a, b) = Stretch(cs, a, b)
         /\ Defaulted(ds, a, b) <=> Defaulted(cs, a, b)
<1>1. \A i \in a .. b : i \in 1 .. n
  OBVIOUS
<1>2. Stretch(ds, a, b) = Stretch(cs, a, b)
  BY <1>1 DEF Stretch, Alike
<1>3. \A i \in Stretch(cs, a, b) : ds[i].failsafe = cs[i].failsafe
  BY <1>1 DEF Stretch, Alike
<1> QED
  BY <1>2, <1>3 DEF Defaulted

LEMMA OutageAlike ==
  ASSUME NEW cs, NEW ds, NEW n \in Nat, Alike(cs, ds, n)
  PROVE  Outage(ds, n) <=> Outage(cs, n)
<1>1. ASSUME NEW a \in 1 .. n, NEW b \in 1 .. n
      PROVE  /\ Stretch(ds, a, b) = Stretch(cs, a, b)
             /\ Defaulted(ds, a, b) <=> Defaulted(cs, a, b)
  <2>1. a \in 1 .. n + 1 /\ b \in 0 .. n
    OBVIOUS
  <2> QED
    BY <2>1, StretchAlike
<1> QED
  BY <1>1 DEF Outage

(* What the risk node makes of one more clause: no finding, a fail-safe    *)
(* one that brings the breaker one nearer, or one with a severity of its   *)
(* own.                                                                    *)
LEMMA ScanOne ==
  ASSUME NEW cs, NEW ds, NEW n \in Nat, NEW f, Scanned(cs, n, f), Alike(cs, ds, n),
         NEW g \in Nat, g < RiskThreshold,
         \/ ~IsFinding(ds[n + 1]) /\ g = f
         \/ IsFinding(ds[n + 1]) /\ g = f + 1
         \/ IsFinding(ds[n + 1]) /\ ds[n + 1].failsafe # "yes"
  PROVE  Scanned(ds, n + 1, g)
<1>0. RiskThreshold \in Nat /\ f \in Nat
  BY LimitsAssumption DEF Scanned
<1>1. ASSUME NEW a \in 1 .. n + 1
      PROVE  /\ Stretch(ds, a, n) = Stretch(cs, a, n)
             /\ Defaulted(ds, a, n) <=> Defaulted(cs, a, n)
             /\ IsFiniteSet(Stretch(cs, a, n)) /\ Cardinality(Stretch(cs, a, n)) \in Nat
  <2>1. n \in 0 .. n /\ a \in Nat
    OBVIOUS
  <2> QED
    BY <2>1, StretchAlike, StretchFinite
<1>2. ASSUME NEW a \in 1 .. n + 1, Defaulted(ds, a, n + 1)
      PROVE  Cardinality(Stretch(ds, a, n + 1)) <= g
  <2>1. \A i \in a .. n + 1 : i = n + 1 \/ i \in a .. n
    OBVIOUS
  <2>2. n + 1 \in a .. n + 1 /\ n + 1 \notin a .. n /\ \A i \in a .. n : i \in a .. n + 1
    OBVIOUS
  <2>3. Defaulted(ds, a, n)
    BY <1>2, <2>2 DEF Defaulted, Stretch
  <2>4. Cardinality(Stretch(cs, a, n)) <= f
    BY <1>1, <2>3 DEF Scanned
  <2>5. CASE ~IsFinding(ds[n + 1]) /\ g = f
    <3>1. Stretch(ds, a, n + 1) = Stretch(ds, a, n)
      BY <2>1, <2>2, <2>5 DEF Stretch
    <3> QED
      BY <1>1, <2>4, <2>5, <3>1
  <2>6. CASE IsFinding(ds[n + 1]) /\ g = f + 1
    <3>1. Stretch(ds, a, n + 1) = Stretch(ds, a, n) \cup {n + 1} /\ n + 1 \notin Stretch(ds, a, n)
      BY <2>1, <2>2, <2>6 DEF Stretch
    <3>2. PICK S : S = Stretch(cs, a, n)
      OBVIOUS
    <3>3. Stretch(ds, a, n + 1) = S \cup {n + 1} /\ n + 1 \notin S /\ IsFiniteSet(S)
      BY <1>1, <3>1, <3>2
    <3>4. Cardinality(S \cup {n + 1}) = Cardinality(S) + 1
      BY <3>3, FS_AddElement
    <3>5. PICK m \in Nat : m = Cardinality(S)
      BY <1>1, <3>2
    <3>6. m <= f /\ Cardinality(Stretch(ds, a, n + 1)) = m + 1
      BY <2>4, <3>2, <3>3, <3>4, <3>5
    <3> QED
      BY <1>0, <2>6, <3>6
  <2>7. CASE IsFinding(ds[n + 1]) /\ ds[n + 1].failsafe # "yes"
    BY <1>2, <2>2, <2>7 DEF Defaulted, Stretch
  <2> QED
    BY <2>5, <2>6, <2>7
<1>3. ASSUME NEW a \in 1 .. (n + 1) + 1, Defaulted(ds, a, n + 1)
      PROVE  Cardinality(Stretch(ds, a, n + 1)) <= g
  <2>1. CASE a = n + 2
    <3>1. Stretch(ds, a, n + 1) = {}
      BY <2>1 DEF Stretch
    <3> QED
      BY <3>1, FS_EmptySet
  <2>2. CASE a # n + 2
    <3>1. a \in 1 .. n + 1
      BY <2>2
    <3> QED
      BY <1>2, <1>3, <3>1
  <2> QED
    BY <2>1, <2>2
<1>4. ~Outage(ds, n + 1)
  <2> SUFFICES ASSUME NEW a \in 1 .. n + 1, NEW b \in 1 .. n + 1, Defaulted(ds, a, b),
                      Cardinality(Stretch(ds, a, b)) >= RiskThreshold
               PROVE  FALSE
    BY DEF Outage
  <2>1. CASE b = n + 1
    <3>1. Cardinality(Stretch(ds, a, n + 1)) <= g
      BY <1>2, <2>1
    <3>2. PICK m \in Nat : m = Cardinality(Stretch(ds, a, b))
      <4>1. a \in Nat /\ b \in Nat
        OBVIOUS
      <4> QED
        BY <4>1, StretchFinite
    <3>3. m <= g /\ m >= RiskThreshold
      BY <2>1, <3>1, <3>2
    <3> QED
      BY <1>0, <3>3
  <2>2. CASE b # n + 1 /\ a # n + 1
    <3>1. a \in 1 .. n /\ b \in 1 .. n
      BY <2>2
    <3>2. Outage(ds, n)
      BY <3>1 DEF Outage
    <3> QED
      BY <3>2, OutageAlike DEF Scanned
  <2>3. CASE b # n + 1 /\ a = n + 1
    <3>1. Stretch(ds, a, b) = {}
      BY <2>3 DEF Stretch
    <3>2. Cardinality(Stretch(ds, a, b)) = 0
      BY <3>1, FS_EmptySet
    <3> QED
      BY <3>2, LimitsAssumption
  <2> QED
    BY <2>1, <2>2, <2>3
<1> QED
  BY <1>3, <1>4 DEF Scanned

LEMMA OutageReturn ==
  ASSUME OutageInv, NEW g, Return(g), Signalled(g)
  PROVE  OutageInv'
<1>1. /\ graph' = g /\ saved' = saved /\ work' = g.clauses /\ at' = 1 /\ cb' = Closed
  BY DEF Return, Enter
<1>2. Scanned(g.clauses, 1 - 1, Closed.failures)
  BY NothingScanned DEF Closed
<1>3. Watched(g, g.clauses, 1, Closed)
  BY <1>2 DEF Signalled, Late, Watched
<1>4. PICK s : s = saved
  OBVIOUS
<1> QED
  BY <1>1, <1>3, <1>4, OutagePrimed DEF OutageInv

(* A step that stays at a node other than the risk and the redline node.   *)
LEMMA OutageElsewhere ==
  ASSUME OutageInv, UNCHANGED <<graph, saved>>, graph.next \notin {"risk_score", "redline"}
  PROVE  OutageInv'
<1>1. PICK g, s : g = graph /\ s = saved
  OBVIOUS
<1>2. PICK cs, i, breaker : cs = work' /\ i = at' /\ breaker = cb'
  OBVIOUS
<1>3. graph' = g /\ saved' = s /\ Signalled(g) /\ Signalled(s)
  BY <1>1 DEF OutageInv
<1>4. Watched(g, cs, i, breaker)
  BY <1>1 DEF Watched
<1> QED
  BY <1>2, <1>3, <1>4, OutagePrimed

(* The redline node leaves the verdicts and the fail-safe marks alone.     *)
LEMMA OutageRedline ==
  ASSUME Shape, OutageInv, PassIneligible \/ RedlineByDefault \/ DraftRewrite
  PROVE  OutageInv'
<1>1. graph.next = "redline" /\ at <= Len(work) /\ at \in Nat \ {0} /\ Here \in Clause
  BY HereClause DEF PassIneligible, RedlineByDefault, DraftRewrite, Visiting, Shape
<1>2. PICK c : NextClause(c)
               /\ (c = Here \/ \E r \in {"none", "drafted"} : c = [Here EXCEPT !.rewrite = r])
  BY DEF PassIneligible, RedlineByDefault, DraftRewrite, NoRewrite
<1>3. c \in Clause /\ c.final = Here.final /\ c.failsafe = Here.failsafe
  BY <1>1, <1>2 DEF Clause
<1>4. graph' = graph /\ saved' = saved /\ work' = [work EXCEPT ![at] = c]
  BY <1>2 DEF NextClause
<1>5. /\ Len(work') = Len(work) /\ Len(work) \in Nat
      /\ \A i \in 1 .. Len(work) : work'[i] = IF i = at THEN c ELSE work[i]
  BY <1>1, <1>3, <1>4, PutClause DEF Shape
<1>6. PICK g, s : g = graph /\ s = saved
  OBVIOUS
<1>7. PICK cs, i, breaker : cs = work' /\ i = at' /\ breaker = cb'
  OBVIOUS
<1>8. Len(cs) = Len(work) /\ Alike(work, cs, Len(work))
  BY <1>3, <1>5, <1>7 DEF Alike, IsFinding, Here
<1>9. Outage(cs, Len(cs)) <=> Outage(work, Len(work))
  BY <1>5, <1>8, OutageAlike
<1>10. g.next = "redline" /\ Signalled(g) /\ Signalled(s)
       /\ (g.error_count >= 1 \/ ~Outage(work, Len(work)))
  BY <1>1, <1>6 DEF OutageInv, Watched
<1>11. Watched(g, cs, i, breaker)
  BY <1>9, <1>10 DEF Watched
<1> QED
  BY <1>4, <1>6, <1>7, <1>10, <1>11, OutagePrimed

(* A step of the risk node: the clause is a finding scored while the       *)
(* breaker stays closed, or no finding, or the breaker is open after it.   *)
RiskStep(c, f, breaker) ==
  \/ breaker.open
  \/ /\ breaker.failures \in Nat /\ breaker.failures < RiskThreshold
     /\ \/ ~IsFinding(c) /\ breaker.failures = f
        \/ IsFinding(c) /\ breaker.failures = f + 1
        \/ IsFinding(c) /\ c.failsafe # "yes"

LEMMA OutageScan ==
  ASSUME Shape, OutageInv, graph.next = "risk_score", at <= Len(work),
         NEW c \in Clause, NextClause(c), NEW breaker, breaker = cb',
         breaker.open \/ ~cb.open, RiskStep(c, cb.failures, breaker)
  PROVE  OutageInv'
<1>1. at \in Nat \ {0} /\ Len(work) \in Nat
  BY DEF Shape
<1>2. graph' = graph /\ saved' = saved /\ at' = at + 1 /\ work' = [work EXCEPT ![at] = c]
  BY DEF NextClause
<1>3. \A i \in 1 .. Len(work) : work'[i] = IF i = at THEN c ELSE work[i]
  BY <1>1, <1>2, PutClause
<1>4. PICK n \in Nat : n = at - 1
  BY <1>1
<1>5. at = n + 1 /\ at' = n + 2 /\ n + 1 \in 1 .. Len(work)
      /\ \A i \in 1 .. n : i \in 1 .. Len(work) /\ i # at
  BY <1>1, <1>2, <1>4
<1>6. PICK cs, g, s : cs = work' /\ g = graph /\ s = saved
  OBVIOUS
<1>7. Alike(work, cs, n) /\ cs[n + 1] = c
  BY <1>3, <1>5, <1>6 DEF Alike
<1>8. ASSUME ~breaker.open PROVE Scanned(cs, n + 1, breaker.failures)
  <2>1. Scanned(work, n, cb.failures)
    BY <1>4, <1>8 DEF OutageInv, Watched
  <2>2. PICK f, h : f = cb.failures /\ h = breaker.failures
    OBVIOUS
  <2>3. /\ h \in Nat /\ h < RiskThreshold
        /\ \/ ~IsFinding(c) /\ h = f
           \/ IsFinding(c) /\ h = f + 1
           \/ IsFinding(c) /\ c.failsafe # "yes"
    BY <1>8, <2>2 DEF RiskStep
  <2>4. Scanned(cs, n + 1, h)
    BY <1>7, <2>1, <2>2, <2>3, ScanOne
  <2> QED
    BY <2>2, <2>4
<1>9. (n + 2) - 1 = n + 1
  OBVIOUS
<1>10. g.next = "risk_score" /\ Signalled(g) /\ Signalled(s)
  BY <1>6 DEF OutageInv
<1>11. Watched(g, cs, n + 2, breaker)
  BY <1>8, <1>9, <1>10 DEF Watched
<1> QED
  BY <1>2, <1>5, <1>6, <1>10, <1>11, OutagePrimed

(* The breaker of the risk node opens before an outage is complete.        *)
LEMMA OutageRisk ==
  ASSUME Shape, Looking, Counted, OutageInv, PassUnvalidated \/ ScoreByDefault \/ ScoreRisk
  PROVE  OutageInv'
<1>1. /\ graph.next = "risk_score" /\ at <= Len(work) /\ at \in Nat \ {0} /\ Len(work) \in Nat
      /\ Here \in Clause
  <2>1. graph.next = "risk_score" /\ at <= Len(work)
    BY DEF PassUnvalidated, ScoreByDefault, ScoreRisk, Visiting
  <2> QED
    BY <2>1, HereClause DEF Shape
<1>2. PICK breaker, f : breaker = cb' /\ f = cb.failures
  OBVIOUS
<1>3. ~cb.open => f \in Nat /\ f < RiskThreshold
  BY <1>1, <1>2 DEF OutageInv, Watched, Scanned
<1>4. Failsafe(Here) \in Clause /\ (IsFinding(Failsafe(Here)) <=> IsFinding(Here))
  BY <1>1, LimitsAssumption DEF Clause, Failsafe, IsFinding
<1>5. ASSUME NEW lvl \in Level
      PROVE  /\ Scored(Here, lvl) \in Clause /\ (IsFinding(Scored(Here, lvl)) <=> IsFinding(Here))
             /\ Scored(Here, lvl).failsafe = "no"
  BY <1>1 DEF Clause, Scored, IsFinding
<1>6. CASE PassUnvalidated
  <2>1. NextClause(Here) /\ ~IsFinding(Here) /\ breaker = cb
    BY <1>2, <1>6 DEF PassUnvalidated, IsFinding
  <2>2. RiskStep(Here, f, breaker)
    BY <1>2, <1>3, <2>1 DEF RiskStep
  <2> QED
    BY <1>1, <1>2, <2>1, <2>2, OutageScan
<1>7. CASE ScoreByDefault
  <2>1. at \in 1 .. Len(work)
    BY <1>1
  <2>2. Justified(work[at])
    BY <2>1 DEF Looking, AllJustified
  <2>3. NextClause(Failsafe(Here)) /\ cb.open
    BY <1>7, <2>2 DEF ScoreByDefault, Justified, Here
  <2>4. breaker.open
    BY <1>2, <1>7, <2>3 DEF ScoreByDefault
  <2> QED
    BY <1>1, <1>2, <1>4, <2>3, <2>4, OutageScan DEF RiskStep
<1>8. CASE ScoreRisk
  <2>1. IsFinding(Here) /\ ~cb.open
    BY <1>8 DEF ScoreRisk, IsFinding
  <2>2. CASE Account(FALSE, RiskThreshold) /\ NextClause(Failsafe(Here))
    <3>1. breaker = [failures |-> f + 1, open |-> cb.open \/ f + 1 >= RiskThreshold]
      BY <1>2, <2>2 DEF Account
    <3>2. breaker.failures = f + 1 /\ (breaker.open \/ ~(f + 1 >= RiskThreshold))
      BY <3>1
    <3>3. f + 1 \in Nat /\ RiskThreshold \in Nat
      BY <1>3, <2>1, LimitsAssumption
    <3>4. breaker.open \/ (breaker.failures \in Nat /\ breaker.failures < RiskThreshold)
      BY <3>2, <3>3
    <3>5. RiskStep(Failsafe(Here), f, breaker)
      BY <1>4, <2>1, <3>2, <3>4 DEF RiskStep
    <3> QED
      BY <1>1, <1>2, <1>4, <2>1, <2>2, <3>5, OutageScan
  <2>3. ASSUME NEW lvl \in Level, Account(TRUE, RiskThreshold), NextClause(Scored(Here, lvl))
        PROVE  OutageInv'
    <3>1. breaker = [cb EXCEPT !.failures = 0]
      BY <1>2, <2>3 DEF Account
    <3>2. cb \in [failures : Nat, open : BOOLEAN]
      BY DEF Counted
    <3>3. breaker.failures = 0
      BY <3>1, <3>2
    <3>4. RiskStep(Scored(Here, lvl), f, breaker)
      BY <1>5, <2>1, <3>3, LimitsAssumption DEF RiskStep
    <3> QED
      BY <1>1, <1>2, <1>5, <2>1, <2>3, <3>4, OutageScan
  <2> QED
    BY <1>8, <2>2, <2>3 DEF ScoreRisk
<1> QED
  BY <1>6, <1>7, <1>8

(* A node returns: the risk node counts the outage it met, the nodes after *)
(* it pass the count on with the clauses.                                  *)
LEMMA OutageReturns ==
  ASSUME Shape, OutageInv,
         Ingest \/ SplitClauses \/ CragReturn \/ SelfRagReturn \/ RiskReturn
                \/ RedlineReturn \/ SkipRedline
  PROVE  OutageInv'
<1>1. graph \in ContractState /\ graph.error_count \in Nat /\ Len(work) \in Nat /\ at \in Nat \ {0}
  BY DEF Shape, ContractState
<1>2. ASSUME NEW n, n \notin Late, NEW cs, NEW k,
             Return([graph EXCEPT !.next = n, !.clauses = cs, !.error_count = k])
      PROVE  OutageInv'
  <2> DEFINE g == [graph EXCEPT !.next = n, !.clauses = cs, !.error_count = k]
  <2>1. g.next = n /\ Return(g)
    BY <1>1, <1>2 DEF ContractState
  <2> HIDE DEF g
  <2> QED
    BY <1>2, <2>1, OutageReturn DEF Signalled
<1>3. ASSUME NEW n, NEW cs, NEW k \in {0, 1}, NEW g, Return(g),
             g.clauses = cs, g.error_count = graph.error_count + k,
             k = 1 \/ graph.error_count >= 1 \/ ~Outage(cs, Len(cs))
      PROVE  OutageInv'
  <2>1. k = 1 => g.error_count >= 1
    BY <1>1, <1>3
  <2>2. graph.error_count >= 1 => g.error_count >= 1
    <3>1. PICK e \in Nat : e = graph.error_count
      BY <1>1
    <3>2. e >= 1 => e + k >= 1
      BY <3>1
    <3> QED
      BY <1>3, <3>1, <3>2
  <2>3. Signalled(g)
    BY <1>3, <2>1, <2>2 DEF Signalled
  <2> QED
    BY <1>3, <2>3, OutageReturn
<1>4. Tripped \in {0, 1} /\ (cb.open => Tripped = 1)
  BY DEF Tripped
<1>5. CASE Ingest
  <2> DEFINE g == [graph EXCEPT !.next = "clause_splitter"]
             h == [graph EXCEPT !.next = "end", !.ingest_error = TRUE, !.error_count = @ + 1]
  <2>1. Return(g) \/ Return(h)
    BY <1>5 DEF Ingest
  <2>2. g.next = "clause_splitter" /\ h.error_count = graph.error_count + 1
    BY <1>1 DEF ContractState
  <2> HIDE DEF g, h
  <2>3. h.error_count >= 1
    BY <1>1, <2>2
  <2>4. Signalled(g) /\ Signalled(h)
    BY <2>2, <2>3 DEF Signalled, Late
  <2> QED
    BY <2>1, <2>4, OutageReturn
<1>6. CASE SplitClauses
  <2>1. PICK cs : Return([graph EXCEPT !.next = "crag_retrieval", !.clauses = cs])
    BY <1>6 DEF SplitClauses
  <2> DEFINE g == [graph EXCEPT !.next = "crag_retrieval", !.clauses = cs]
  <2>2. g.next = "crag_retrieval" /\ Return(g)
    BY <1>1, <2>1 DEF ContractState
  <2> HIDE DEF g
  <2> QED
    BY <2>2, OutageReturn DEF Signalled, Late
<1>7. CASE CragReturn
  <2> DEFINE g == [graph EXCEPT !.next = "self_rag_validation", !.clauses = work]
  <2>1. g.next = "self_rag_validation" /\ Return(g)
    BY <1>1, <1>7 DEF CragReturn, ContractState
  <2> HIDE DEF g
  <2> QED
    BY <2>1, OutageReturn DEF Signalled, Late
<1>8. CASE SelfRagReturn
  BY <1>2, <1>8 DEF SelfRagReturn, Late
<1>9. CASE RiskReturn
  <2> DEFINE g == [graph EXCEPT !.next = Routed(work), !.clauses = work,
                                !.error_count = @ + Tripped]
  <2>1. g.clauses = work /\ g.error_count = graph.error_count + Tripped /\ Return(g)
    BY <1>1, <1>9 DEF RiskReturn, ContractState
  <2> HIDE DEF g
  <2>2. graph.next = "risk_score" /\ at > Len(work)
    BY <1>9 DEF RiskReturn, Finished
  <2>3. cb.open \/ ~Outage(work, at - 1)
    BY <2>2 DEF OutageInv, Watched, Scanned
  <2>4. 1 .. Len(work) \subseteq 1 .. at - 1
    BY <1>1, <2>2
  <2>5. Outage(work, Len(work)) => Outage(work, at - 1)
    BY <2>4 DEF Outage
  <2> QED
    BY <1>3, <1>4, <2>1, <2>3, <2>5
<1>10. CASE RedlineReturn
  <2> DEFINE g == [graph EXCEPT !.next = "report", !.clauses = work, !.error_count = @ + Tripped]
  <2>1. g.clauses = work /\ g.error_count = graph.error_count + Tripped /\ Return(g)
    BY <1>1, <1>10 DEF RedlineReturn, ContractState
  <2> HIDE DEF g
  <2>2. graph.error_count >= 1 \/ ~Outage(work, Len(work))
    BY <1>10 DEF RedlineReturn, Finished, OutageInv, Watched
  <2> QED
    BY <1>3, <1>4, <2>1, <2>2
<1>11. CASE SkipRedline
  <2> DEFINE g == [graph EXCEPT !.next = "report"]
  <2>1. g.clauses = graph.clauses /\ g.error_count = graph.error_count /\ Return(g)
    BY <1>1, <1>11 DEF SkipRedline, ContractState
  <2> HIDE DEF g
  <2>2. graph.error_count >= 1 \/ ~Outage(graph.clauses, Len(graph.clauses))
    BY <1>11 DEF SkipRedline, OutageInv, Signalled, Late
  <2>3. graph.error_count = graph.error_count + 0
    BY <1>1
  <2> QED
    BY <1>3, <2>1, <2>2, <2>3
<1> QED
  BY <1>5, <1>6, <1>7, <1>8, <1>9, <1>10, <1>11

LEMMA OutageReport ==
  ASSUME Shape, OutageInv, WriteJson \/ WriteMarkdown
  PROVE  OutageInv'
<1>1. graph \in ContractState /\ graph.error_count \in Nat /\ graph.next = "report"
  BY DEF Shape, ContractState, WriteJson, WriteMarkdown
<1>2. graph.error_count >= 1 \/ ~Outage(graph.clauses, Len(graph.clauses))
  BY <1>1 DEF OutageInv, Signalled, Late
<1>3. ASSUME NEW j, NEW m, ReportFails(j, m)
      PROVE  OutageInv'
  <2> DEFINE g == [graph EXCEPT !.next = "end", !.report_path = FALSE, !.error_count = @ + 1]
  <2>1. g.error_count = graph.error_count + 1
    BY <1>1 DEF ContractState
  <2>2. Return(g)
    BY <1>3 DEF ReportFails
  <2> HIDE DEF g
  <2>3. g.error_count >= 1
    BY <1>1, <2>1
  <2> QED
    BY <2>2, <2>3, OutageReturn DEF Signalled
<1>4. CASE Return([graph EXCEPT !.next = "end", !.report_path = TRUE])
  <2> DEFINE g == [graph EXCEPT !.next = "end", !.report_path = TRUE]
  <2>1. g.clauses = graph.clauses /\ g.error_count = graph.error_count
    BY <1>1 DEF ContractState
  <2>2. Return(g)
    BY <1>4
  <2> HIDE DEF g
  <2> QED
    BY <1>2, <2>1, <2>2, OutageReturn DEF Signalled
<1>5. CASE UNCHANGED <<graph, saved>>
  BY <1>1, <1>5, OutageElsewhere
<1> QED
  BY <1>3, <1>4, <1>5 DEF WriteJson, WriteMarkdown

LEMMA OutageNext ==
  ASSUME DiscardInv, Counted, OutageInv, [Next]_vars
  PROVE  OutageInv'
<1>1. Shape /\ Looking
  BY DEF DiscardInv
<1>2. CASE \/ PassBlank \/ Retrieve \/ RetrieveUnembedded
           \/ DiscardUnjudged \/ FailOpen \/ CheckRelevance \/ CheckIsrel
           \/ CheckIssup \/ CheckCombined
  <2>1. graph.next \in {"crag_retrieval", "self_rag_validation"}
    BY <1>2 DEF PassBlank, Retrieve, RetrieveUnembedded, DiscardUnjudged, FailOpen, CheckRelevance,
                CheckIsrel, CheckIssup, CheckCombined, Judging, Visiting
  <2>2. UNCHANGED <<graph, saved>>
    BY <1>2 DEF PassBlank, Retrieve, RetrieveUnembedded, FromKb, FromWeb, DiscardUnjudged, FailOpen,
                CheckRelevance, CheckIsrel, CheckIssup, CheckCombined, NextClause, NextCall
  <2> QED
    BY <2>1, <2>2, OutageElsewhere
<1>3. CASE Run /\ ~(\/ PassBlank \/ Retrieve \/ RetrieveUnembedded
                    \/ DiscardUnjudged \/ FailOpen \/ CheckRelevance \/ CheckIsrel
                    \/ CheckIssup \/ CheckCombined)
  BY <1>1, <1>3, OutageReturns, OutageRisk, OutageRedline, OutageReport
     DEF Run, Crag, SelfRag, Risk, Redline
<1>4. CASE Checkpoint
  <2>1. PICK g, cs, i, breaker : g = graph /\ cs = work /\ i = at /\ breaker = cb
    OBVIOUS
  <2>2. graph' = g /\ saved' = g /\ work' = cs /\ at' = i /\ cb' = breaker
    BY <1>4, <2>1 DEF Checkpoint, local
  <2> QED
    BY <2>1, <2>2, OutagePrimed DEF OutageInv
<1>5. CASE Resume
  <2>1. PICK s : s = saved
    OBVIOUS
  <2>2. graph' = s /\ saved' = s /\ work' = s.clauses /\ at' = 1 /\ cb' = Closed
    BY <1>5, <2>1 DEF Resume, Enter
  <2>3. Scanned(s.clauses, 1 - 1, Closed.failures)
    BY NothingScanned DEF Closed
  <2>4. Signalled(s)
    BY <2>1 DEF OutageInv
  <2>5. Watched(s, s.clauses, 1, Closed)
    BY <2>3, <2>4 DEF Signalled, Late, Watched
  <2> QED
    BY <2>2, <2>4, <2>5, OutagePrimed
<1>6. CASE UNCHANGED vars
  <2>1. PICK g, s, cs, i, breaker :
          g = graph /\ s = saved /\ cs = work /\ i = at /\ breaker = cb
    OBVIOUS
  <2>2. graph' = g /\ saved' = s /\ work' = cs /\ at' = i /\ cb' = breaker
    BY <1>6, <2>1 DEF vars, local
  <2> QED
    BY <2>1, <2>2, OutagePrimed DEF OutageInv
<1> QED
  BY <1>2, <1>3, <1>4, <1>5, <1>6 DEF Next, Done

LEMMA OutageInit == Init => OutageInv
  BY DEF Init, Fresh, OutageInv, Signalled, Late, Watched

(* The outages a report shows are those of its clauses.                    *)
LEMMA OutageShown ==
  ASSUME NEW cs, Len(cs) \in Nat, RiskOutage(Findings(cs))
  PROVE  Outage(cs, Len(cs)) /\ Failsafes(Findings(cs)) # {}
<1>1. PICK findings : findings = Findings(cs)
  OBVIOUS
<1>2. DOMAIN findings = {i \in 1 .. Len(cs) : IsFinding(cs[i])}
      /\ \A i \in DOMAIN findings : findings[i].failsafe <=> cs[i].failsafe = "yes"
  BY <1>1 DEF Findings, Finding
<1>3. PICK a, b \in DOMAIN findings :
        LET row == DOMAIN findings \cap (a .. b)
        IN  row \subseteq Failsafes(findings) /\ Cardinality(row) >= RiskThreshold
  BY <1>1 DEF RiskOutage
<1>4. a \in 1 .. Len(cs) /\ b \in 1 .. Len(cs)
  BY <1>2
<1>5. DOMAIN findings \cap (a .. b) = Stretch(cs, a, b)
  BY <1>2, <1>4 DEF Stretch
<1>6. /\ Stretch(cs, a, b) \subseteq Failsafes(findings)
      /\ Cardinality(Stretch(cs, a, b)) >= RiskThreshold
  BY <1>3, <1>5
<1>7. \A i \in Failsafes(findings) : cs[i].failsafe = "yes"
  BY <1>2 DEF Failsafes
<1>8. Defaulted(cs, a, b)
  BY <1>6, <1>7 DEF Defaulted
<1>9. Stretch(cs, a, b) # {}
  <2>1. Cardinality({}) = 0 /\ ~(0 >= RiskThreshold)
    BY LimitsAssumption, FS_EmptySet
  <2> QED
    BY <1>6, <2>1
<1> QED
  BY <1>1, <1>4, <1>6, <1>8, <1>9 DEF Outage

(* An outage of the risk-score judge shows in the report of the run: the   *)
(* breaker's signal, counted by the risk node, survives the nodes, the     *)
(* checkpoints and the resumes between it and the report (RiskReturn,      *)
(* assemble_report).                                                       *)
THEOREM OutagesSurface == Spec => []OutageSurfaced
<1>1. DiscardInv /\ PairInv /\ OutageInv => OutageSurfaced
  <2> SUFFICES ASSUME DiscardInv, PairInv, OutageInv, graph.report_path, RiskOutage(md.findings)
               PROVE  md.degraded
    BY DEF OutageSurfaced
  <2>1. graph.next = "end" /\ md = Report(graph)
    BY DEF PairInv
  <2>2. md.findings = Findings(graph.clauses)
        /\ md.degraded = Degraded(Findings(graph.clauses), graph.error_count)
    BY <2>1 DEF Report
  <2>3. Len(graph.clauses) \in Nat
    BY DEF DiscardInv, Shape, ContractState
  <2>4. Outage(graph.clauses, Len(graph.clauses)) /\ Failsafes(Findings(graph.clauses)) # {}
    BY <2>2, <2>3, OutageShown
  <2>5. graph.error_count >= 1
    BY <2>1, <2>4 DEF OutageInv, Signalled, Late
  <2>6. Degraded(Findings(graph.clauses), graph.error_count)
    BY <2>4, <2>5 DEF Degraded
  <2> QED
    BY <2>2, <2>6
<1>2. DiscardInv => Shape
  BY DEF DiscardInv
<1>3. Init => PairInv
  BY DEF Init, Fresh, PairInv
<1> QED
  BY <1>1, <1>2, <1>3, DiscardInit, DiscardNext, CountedInit, CountedNext, PairNext,
     OutageInit, OutageNext, PTL DEF Spec


-----------------------------------------------------------------------------
(* Prompts *)

(* Whatever goes into the prompt of a judge or of the scorer, it is within *)
(* the limit (006, edge case 9; format_evidence, check_isrel, score_risk). *)
THEOREM JudgePromptFits ==
  ASSUME NEW clause \in Nat, NEW evidence \in Nat, NEW limit \in Nat
  PROVE  Calls!JudgePrompt(clause, evidence, limit).clause
           + Calls!JudgePrompt(clause, evidence, limit).evidence <= limit
  BY DEF Calls!JudgePrompt, Calls!Clipped, Calls!Room

(* A clause as long as the limit leaves no room for evidence: the judge is *)
(* asked about evidence that it is not shown (check_isrel, check_combined).*)
THEOREM EvidenceCrowdedOut ==
  ASSUME NEW clause \in Nat, NEW evidence \in Nat, NEW limit \in Nat, clause >= limit
  PROVE  Calls!JudgePrompt(clause, evidence, limit).evidence = 0
  BY DEF Calls!JudgePrompt, Calls!Clipped, Calls!Room

(* The prompt of the drafter is within the limit, its rationale is there   *)
(* up to the reserve however long the clause is, and the clause gives way  *)
(* to it by no more than the reserve (draft_rewrite).                      *)
THEOREM DraftPromptFits ==
  ASSUME NEW clause \in Nat, NEW rationale \in Nat, NEW evidence \in Nat,
         NEW limit \in Nat, NEW reserve \in Nat
  PROVE  LET p == Calls!DraftPrompt(clause, rationale, evidence, limit, reserve)
         IN  /\ p.clause + p.rationale + p.evidence <= limit
             /\ p.rationale >= Calls!Clipped(Calls!Clipped(rationale, reserve), limit)
             /\ p.clause >= Calls!Clipped(clause, Calls!Room(limit, reserve))
<1> DEFINE kept == Calls!Clipped(rationale, reserve)
           c == Calls!Clipped(clause, Calls!Room(limit, kept))
           r == Calls!Clipped(rationale, Calls!Room(limit, c))
           e == Calls!Clipped(evidence, Calls!Room(Calls!Room(limit, c), r))
<1>1. kept \in Nat /\ kept <= reserve /\ kept <= rationale
  BY DEF Calls!Clipped
<1> HIDE DEF kept
<1>2. c \in Nat /\ c <= clause /\ c <= limit /\ (kept <= limit => c + kept <= limit)
      /\ c >= Calls!Clipped(clause, Calls!Room(limit, reserve))
  BY <1>1 DEF Calls!Clipped, Calls!Room
<1>3. kept > limit => c = 0
  BY <1>1 DEF Calls!Clipped, Calls!Room
<1> HIDE DEF c
<1>4. r \in Nat /\ c + r <= limit /\ r >= Calls!Clipped(kept, limit)
  BY <1>1, <1>2, <1>3 DEF Calls!Clipped, Calls!Room
<1> HIDE DEF r
<1>5. c + r + e <= limit
  BY <1>2, <1>4 DEF Calls!Clipped, Calls!Room
<1>6. Calls!DraftPrompt(clause, rationale, evidence, limit, reserve)
        = [clause |-> c, rationale |-> r, evidence |-> e]
  BY DEF Calls!DraftPrompt, kept, c, r
<1>7. QED
  BY <1>2, <1>4, <1>5, <1>6 DEF kept

-----------------------------------------------------------------------------
(* Answers *)

(* An answer that says v at every key.                                     *)
Saying(v) == [form |-> "object", at |-> [k \in Calls!Key |-> v]]
Broken    == [form |-> "garbled", at |-> [k \in Calls!Key |-> "nothing"]]

LEMMA Sayable ==
  /\ Broken \in Calls!Answer
  /\ \A v \in Calls!Value : Saying(v) \in Calls!Answer
  BY DEF Saying, Broken, Calls!Answer, Calls!Value

(* What ClausePipeline may choose for a judge is what a call may come to:  *)
(* its Verdict, with nothing left out and nothing added (_parse_verdict).  *)
THEOREM JudgedIsVerdict == {Calls!Judged(a) : a \in Calls!Answer} = Verdict
<1>1. \A a \in Calls!Answer : Calls!Judged(a) \in Verdict
  BY DEF Verdict, Calls!Judged, Calls!Flag, Calls!Booleans
<1>2. \A v \in {"true", "false"} : Calls!Judged(Saying(v)) = v
  BY DEF Calls!Judged, Saying, Calls!Key, Calls!Flag, Calls!Booleans
<1>3. Calls!Judged(Broken) = "none"
  BY DEF Calls!Judged, Broken
<1>4. {Saying("true"), Saying("false"), Broken} \subseteq Calls!Answer
  BY Sayable DEF Calls!Value, Calls!Booleans
<1>5. QED
  BY <1>1, <1>2, <1>3, <1>4 DEF Verdict

(* The merged call fails as a whole, or answers each question with one of  *)
(* the three verdicts, in every combination (_parse_combined).             *)
THEOREM JudgedAtOnceIsVerdicts ==
  \A r, i, s \in Verdict :
    \E a \in Calls!Answer :
      Calls!JudgedAtOnce(a) =
        [call |-> "answered", relevance |-> r, isrel |-> i, issup |-> s]
<1> TAKE r, i, s \in Verdict
<1> DEFINE word(v) == IF v = "none" THEN "else" ELSE v
           says == [k \in Calls!Key |-> IF k = "relevance" THEN word(r)
                                  ELSE IF k = "isrel" THEN word(i) ELSE word(s)]
           a == [form |-> "object", at |-> says]
<1>1. a \in Calls!Answer
  <2>1. says \in [Calls!Key -> Calls!Value]
    BY DEF Verdict, Calls!Value, Calls!Booleans
  <2>2. QED
    BY <2>1 DEF Calls!Answer
<1>2. says["relevance"] = word(r) /\ says["isrel"] = word(i) /\ says["issup"] = word(s)
  BY DEF Calls!Key
<1>3. \A v \in Verdict : Calls!Flag(word(v)) = v
  BY DEF Verdict, Calls!Flag, Calls!Booleans
<1>4. Calls!JudgedAtOnce(a) =
        [call |-> "answered", relevance |-> r, isrel |-> i, issup |-> s]
  BY <1>2, <1>3 DEF Calls!JudgedAtOnce
<1>5. QED
  BY <1>1, <1>4

(* A score is a level or a failed call, and never a level that came        *)
(* without a rationale (007 AC-1; _parse_score).                           *)
THEOREM ScoredIsLevel ==
  /\ {Calls!Scored(a) : a \in Calls!Answer} = Level \cup {"none"}
  /\ \A a \in Calls!Answer :
       Calls!Scored(a) # "none" => a.at["rationale"] \notin {"blank", "nothing"}
<1>1. \A a \in Calls!Answer : Calls!Scored(a) \in Calls!Levels \cup {"none"}
  BY DEF Calls!Scored
<1>2. \A v \in Calls!Levels : Calls!Scored(Saying(v)) = v
  BY DEF Calls!Scored, Saying, Calls!Key, Calls!Levels
<1>3. Calls!Scored(Broken) = "none"
  BY DEF Calls!Scored, Broken
<1>4. Broken \in Calls!Answer /\ \A v \in Calls!Levels : Saying(v) \in Calls!Answer
  BY Sayable DEF Calls!Value
<1>5. \A a \in Calls!Answer :
        Calls!Scored(a) # "none" => a.at["rationale"] \notin {"blank", "nothing"}
  BY DEF Calls!Scored
<1>6. QED
  BY <1>1, <1>2, <1>3, <1>4, <1>5 DEF Level, Calls!Levels

-----------------------------------------------------------------------------
(* Embeddings *)

(* With more retries, or with more that is retried, no embedding is lost:  *)
(* where Cloudflare's client comes to a vector, HuggingFace's would, too.  *)
THEOREM RetryingHelps ==
  ASSUME NEW few \in Nat, NEW many \in Nat, few <= many,
         NEW tried \in [1 .. many + 1 -> Calls!Attempt], NEW late \in BOOLEAN,
         Calls!Embedded(tried, Calls!RetriedByCloudflare, few, late)
  PROVE  Calls!Embedded(tried, Calls!RetriedByHF, many, late)
<1>1. PICK i \in Calls!Made(tried, Calls!RetriedByCloudflare, few) : tried[i] = "vector"
  BY DEF Calls!Embedded
<1>2. i \in Calls!Made(tried, Calls!RetriedByHF, many)
  <2>1. i \in 1 .. many + 1
    BY DEF Calls!Made
  <2>2. \A j \in 1 .. i - 1 : tried[j] \in Calls!RetriedByHF
    BY DEF Calls!Made, Calls!RetriedByCloudflare, Calls!RetriedByHF
  <2>3. QED
    BY <2>1, <2>2 DEF Calls!Made
<1>3. ~late
  BY DEF Calls!Embedded
<1>4. QED
  BY <1>1, <1>2, <1>3 DEF Calls!Embedded
=============================================================================
