-------------------------- MODULE JobRunnerProofs --------------------------
(***************************************************************************)
(* Machine-checked proofs about JobRunner, for any number of jobs, worker  *)
(* threads, stages, crashes and raising calls and any retention cap.       *)
(*                                                                         *)
(* The inductive invariants build on one another:                          *)
(*   TypeInv <- OwnerInv <- FinalInv <- PruneInv;                          *)
(*   PairInv, SweepInv and LifeInv stand on PruneInv, MannedInv on PairInv *)
(*   and SweepInv, RowsGrow on FinalInv, CountInv on OwnerInv, and         *)
(*   ExactInv on PruneInv and RowsGrow.                                    *)
(***************************************************************************)
EXTENDS JobRunner, FiniteSetTheorems, TLAPS

(* What TypeOK leaves out of the shape of the threads and checkpoints: a   *)
(* busy thread has a job, and a graph that is still pending has a node     *)
(* left to run.                                                            *)
Shape ==
  /\ \A w \in Workers :
       /\ run[w].pc # "idle" => run[w].job \in Jobs
       /\ run[w].g.out = "pending" => run[w].g.pos < NumNodes
       /\ run[w].pc = "node" => run[w].g.out = "pending"
  /\ api.pc # "idle" => api.job \in Jobs
  /\ \A j \in Jobs :
       /\ ckpt[j].out = "pending" => ckpt[j].pos < NumNodes
       /\ ckpt[j].pos = -1 => ckpt[j].out = "pending"

TypeInv == TypeOK /\ Shape

-----------------------------------------------------------------------------
(* Lemmas about the helpers *)

LEMMA StampNat ==
  ASSUME NEW S \in SUBSET Jobs
  PROVE  Cardinality(S) \in Nat
BY JobsAssumption, FS_Subset, FS_CardinalityType

LEMMA MutateType ==
  ASSUME TypeOK, NEW j \in Jobs, NEW new \in Row, Mutate(j, new)
  PROVE  rows' \in [Jobs -> Row] /\ rec' \in [Jobs -> Row]
BY DEF TypeOK, Mutate

LEMMA WriteType ==
  ASSUME TypeInv, NEW w \in Workers, run[w].pc # "idle", NEW new \in Row, Write(w, new)
  PROVE  rows' \in [Jobs -> Row] /\ rec' \in [Jobs -> Row]
BY MutateType DEF TypeInv, TypeOK, Shape, Write

LEMMA WriteRaisesType ==
  ASSUME TypeInv, NEW w \in Workers, run[w].pc # "idle", NEW new \in Row,
         WriteRaises(w, new)
  PROVE  rows' \in [Jobs -> Row] /\ rec' \in [Jobs -> Row] /\ faults' \in Nat
BY DEF TypeInv, TypeOK, Shape, WriteRaises, Raise

LEMMA NoRowType == NoRow \in Row /\ Queued \in Row
<1>1. << >> \in Seq(Nodes)
  OBVIOUS
<1>2. NoRow \in Row
  BY <1>1 DEF NoRow, Row, Status, Error, Terminal
<1>3. Queued \in Row
  BY <1>2 DEF Queued, Row, Status
<1> QED
  BY <1>2, <1>3

LEMMA NoRunType == NoRun \in Run
BY BoundsAssumption DEF NoRun, Run, WorkerPC, GraphInit, GraphState, Outcome, Nodes

(* The rows that the worker writes. *)
LEMMA NewRowType ==
  ASSUME TypeInv, NEW w \in Workers, run[w].pc # "idle"
  PROVE  /\ [rec[run[w].job] EXCEPT !.status = "running"] \in Row
         /\ IsNew(w) => Progressed(w) \in Row
         /\ Completed(w) \in Row
         /\ Failed(w) \in Row
<1> DEFINE r == rec[run[w].job]
<1>1. r \in Row
  BY DEF TypeInv, TypeOK, Shape
<1>2. r.done \in Seq(Nodes) /\ r.status \in Status /\ r.report \in BOOLEAN
  BY <1>1 DEF Row
<1>3. IsNew(w) => Append(r.done, run[w].g.pos) \in Seq(Nodes)
  BY <1>2 DEF IsNew
<1> QED
  BY <1>1, <1>2, <1>3 DEF Row, Progressed, Completed, Failed, Status, Terminal, Error

(* A thread that only moves its program counter keeps its type. *)
LEMMA GotoType ==
  ASSUME TypeInv, NEW w \in Workers, NEW pc \in WorkerPC, Goto(w, pc)
  PROVE  /\ run' \in [Workers -> Run]
         /\ \A v \in Workers :
             /\ run'[v].job = run[v].job /\ run'[v].g = run[v].g
             /\ run'[v].pc = IF v = w THEN pc ELSE run[v].pc
<1>1. run \in [Workers -> Run] /\ run' = [run EXCEPT ![w].pc = pc]
  BY DEF TypeInv, TypeOK, Goto
<1>2. /\ [run[w] EXCEPT !.pc = pc] \in Run
      /\ [run[w] EXCEPT !.pc = pc].job = run[w].job
      /\ [run[w] EXCEPT !.pc = pc].g = run[w].g
      /\ [run[w] EXCEPT !.pc = pc].pc = pc
  BY <1>1 DEF Run
<1> DEFINE r == [run[w] EXCEPT !.pc = pc]
<1>3. run' = [run EXCEPT ![w] = r]
  BY <1>1
<1> HIDE DEF r
<1> QED
  BY <1>1, <1>2, <1>3 DEF r

LEMMA SplitType ==
  ASSUME NEW r \in Run, NEW b \in BOOLEAN
  PROVE  LET t == [r EXCEPT !.split = b]
         IN  t \in Run /\ t.pc = r.pc /\ t.job = r.job /\ t.g = r.g /\ t.split = b
BY DEF Run

(* A read endpoint leaves the threads alone, but for the split flag.       *)
LEMMA GetJobRuns ==
  ASSUME TypeInv, NEW j \in Jobs, GetJob(j)
  PROVE  /\ run' \in [Workers -> Run]
         /\ \A w \in Workers : run'[w].pc = run[w].pc /\ run'[w].job = run[w].job
                                /\ run'[w].g = run[w].g
<1> DEFINE B(w) == run[w].split \/ (run[w].pc \notin {"idle", "lookup"} /\ run[w].job = j)
           r(w) == [run[w] EXCEPT !.split = B(w)]
<1>1. \A w \in Workers : B(w) \in BOOLEAN
  OBVIOUS
<1>2. run' = [w \in Workers |-> r(w)]
  BY DEF GetJob
<1> HIDE DEF B
<1>3. ASSUME NEW w \in Workers
      PROVE  r(w) \in Run /\ r(w).pc = run[w].pc /\ r(w).job = run[w].job /\ r(w).g = run[w].g
  <2>1. run[w] \in Run
    BY DEF TypeInv, TypeOK
  <2> QED
    BY <1>1, <2>1, SplitType
<1> HIDE DEF r
<1> QED
  BY <1>2, <1>3

(* The threads that it does not split held another job.                    *)
LEMMA GetJobSplits ==
  ASSUME TypeInv, NEW j \in Jobs, GetJob(j), NEW w \in Workers,
         run[w].pc \in {"yield", "node", "deliver"}, ~run'[w].split
  PROVE  run[w].job # j /\ ~run[w].split
<1> DEFINE b == run[w].split \/ (run[w].pc \notin {"idle", "lookup"} /\ run[w].job = j)
<1>1. run'[w] = [run[w] EXCEPT !.split = b]
  BY DEF GetJob
<1>2. run[w] \in Run /\ b \in BOOLEAN
  BY DEF TypeInv, TypeOK
<1>3. run'[w].split = b
  BY <1>1, <1>2, SplitType
<1> QED
  BY <1>3

-----------------------------------------------------------------------------
(* Type correctness *)

LEMMA TypeInit == Init => TypeInv
<1> SUFFICES ASSUME Init PROVE TypeInv
  OBVIOUS
<1>1. TypeOK
  BY NoRowType, NoRunType, BoundsAssumption
  DEF Init, TypeOK, NoCkpt, Checkpoints, Outcome, NoApi, ApiPC, Item
<1>2. Shape
  BY BoundsAssumption DEF Init, Shape, NoRun, NoApi, NoCkpt, GraphInit
<1> QED
  BY <1>1, <1>2 DEF TypeInv

(* The event-loop thread: submission, add() and the read endpoints.        *)
LEMMA TypeApi ==
  ASSUME TypeInv,
         (\E j \in Jobs : Submit(j) \/ GetJob(j)) \/ Add \/ AddRaises
  PROVE  TypeInv'
<1> USE DEF durable, records, process, counters
<1>1. ASSUME NEW j \in Jobs, Submit(j) PROVE TypeInv'
  <2>1. 1 + Cardinality({k \in Jobs : stamp[k] > 0}) \in Nat
    BY StampNat
  <2>2. Queued \in Row
    BY NoRowType
  <2>3. api' \in [pc : ApiPC, job : Jobs \cup {NoJob}, victims : SUBSET Jobs, todo : SUBSET Jobs]
        /\ api'.job = j
    BY <1>1 DEF Submit, NoApi, ApiPC
  <2>4. TypeOK'
    BY <1>1, <2>1, <2>2, <2>3 DEF TypeInv, TypeOK, Submit
  <2>5. Shape'
    BY <1>1, <2>1, <2>2, <2>3 DEF TypeInv, Shape, Submit
  <2> QED
    BY <2>4, <2>5 DEF TypeInv
<1>2. ASSUME NEW j \in Jobs, GetJob(j) PROVE TypeInv'
  <2>1. rec' = [rec EXCEPT ![j] = rows[j]] /\ live' = live \cup {j}
        /\ attached' = attached \cup {j}
    BY <1>2 DEF GetJob, Rehydrate
  <2>2. rec' \in [Jobs -> Row] /\ live' \subseteq Jobs /\ attached' \subseteq Jobs
    BY <2>1 DEF TypeInv, TypeOK
  <2>3. /\ run' \in [Workers -> Run]
        /\ \A w \in Workers : run'[w].pc = run[w].pc /\ run'[w].job = run[w].job
                               /\ run'[w].g = run[w].g
    BY <1>2, GetJobRuns
  <2>4. UNCHANGED <<rows, stamp, ckpt, source, delivered, queue, api, server, recq,
                    crashes, faults>>
    BY <1>2 DEF GetJob
  <2>5. TypeOK'
    BY <2>2, <2>3, <2>4 DEF TypeInv, TypeOK
  <2>6. Shape'
    BY <2>2, <2>3, <2>4 DEF TypeInv, Shape
  <2> QED
    BY <2>5, <2>6 DEF TypeInv
<1>3. CASE PersistInitial
  <2>1. api.job \in Jobs /\ rec[api.job] \in Row
    BY <1>3 DEF TypeInv, TypeOK, Shape, PersistInitial
  <2>2. rows' \in [Jobs -> Row] /\ rec' \in [Jobs -> Row]
    BY <1>3, <2>1, MutateType DEF TypeInv, PersistInitial
  <2>3. TypeOK'
    BY <1>3, <2>1, <2>2 DEF TypeInv, TypeOK, PersistInitial, ApiPC
  <2>4. Shape'
    BY <1>3, <2>1, <2>2 DEF TypeInv, Shape, PersistInitial, ApiPC
  <2> QED
    BY <2>3, <2>4 DEF TypeInv
<1>4. CASE FirstPrune
  <2>1. Beyond(RetentionMax) \subseteq Jobs
    BY DEF Beyond, Stored
  <2>2. TypeOK'
    BY <1>4, <2>1, NoRowType DEF TypeInv, TypeOK, FirstPrune, ApiPC
  <2>3. Shape'
    BY <1>4, <2>1, NoRowType DEF TypeInv, Shape, FirstPrune, ApiPC
  <2> QED
    BY <2>2, <2>3 DEF TypeInv
<1>5. CASE Evict
  BY <1>5 DEF TypeInv, TypeOK, Shape, Evict, ApiPC
<1>6. CASE Detach
  <2>1. /\ attached' \subseteq attached /\ api'.pc = api.pc /\ api'.job = api.job
        /\ api' \in [pc : ApiPC, job : Jobs \cup {NoJob}, victims : SUBSET Jobs,
                     todo : SUBSET Jobs]
    <3>1. PICK j \in api.todo : /\ attached' = attached \ {j}
                               /\ api' = [api EXCEPT !.todo = @ \ {j}]
      BY <1>6 DEF Detach
    <3>2. api \in [pc : ApiPC, job : Jobs \cup {NoJob}, victims : SUBSET Jobs,
                   todo : SUBSET Jobs]
      BY DEF TypeInv, TypeOK
    <3> QED
      BY <3>1, <3>2
  <2>2. UNCHANGED <<durable, live, rec, queue, run, process, counters>>
    BY <1>6 DEF Detach
  <2>3. TypeOK'
    BY <2>1, <2>2 DEF TypeInv, TypeOK, durable, process, counters
  <2>4. Shape'
    BY <2>1, <2>2 DEF TypeInv, Shape, durable
  <2> QED
    BY <2>3, <2>4 DEF TypeInv
<1>7. CASE SecondPrune
  <2>1. Beyond(RetentionMax) \subseteq Jobs
    BY DEF Beyond, Stored
  <2>2. TypeOK'
    BY <1>7, <2>1, NoRowType DEF TypeInv, TypeOK, SecondPrune, ApiPC
  <2>3. Shape'
    BY <1>7, <2>1, NoRowType DEF TypeInv, Shape, SecondPrune, ApiPC
  <2> QED
    BY <2>2, <2>3 DEF TypeInv
<1>8. CASE DeleteThreads
  <2>1. NoCkpt \in Checkpoints /\ NoCkpt.pos < NumNodes /\ NoCkpt.out = "pending"
    BY BoundsAssumption DEF NoCkpt, Checkpoints, Outcome
  <2>2. TypeOK'
    BY <1>8, <2>1 DEF TypeInv, TypeOK, DeleteThreads, ApiPC
  <2>3. Shape'
    BY <1>8, <2>1 DEF TypeInv, Shape, DeleteThreads, ApiPC
  <2> QED
    BY <2>2, <2>3 DEF TypeInv
<1>9. CASE Enqueue
  <2>1. [job |-> api.job, resume |-> FALSE] \in Item
    BY <1>9 DEF TypeInv, Shape, Enqueue, Item
  <2>2. queue' \in Seq(Item)
    BY <1>9, <2>1 DEF TypeInv, TypeOK, Enqueue
  <2>3. TypeOK'
    BY <1>9, <2>2 DEF TypeInv, TypeOK, Enqueue, NoApi, ApiPC
  <2>4. Shape'
    BY <1>9, <2>2 DEF TypeInv, Shape, Enqueue, NoApi, ApiPC
  <2> QED
    BY <2>3, <2>4 DEF TypeInv
<1>10. CASE AddRaises
  BY <1>10 DEF TypeInv, TypeOK, Shape, AddRaises, Raise, NoApi, ApiPC
<1> QED
  BY <1>1, <1>2, <1>3, <1>4, <1>5, <1>6, <1>7, <1>8, <1>9, <1>10 DEF Add

(* The worker threads.                                                     *)
LEMMA TypeWork ==
  ASSUME TypeInv, NEW w \in Workers, Work(w)
  PROVE  TypeInv'
<1> USE DEF durable, records, process, counters
<1>0. run \in [Workers -> Run] /\ run[w] \in Run
  BY DEF TypeInv, TypeOK
<1>1. CASE Dequeue(w)
  <2>1. Head(queue) \in Item /\ Tail(queue) \in Seq(Item)
    BY <1>1 DEF TypeInv, TypeOK, Dequeue
  <2> DEFINE r == [NoRun EXCEPT !.pc = "lookup", !.job = Head(queue).job,
                                !.resume = Head(queue).resume]
  <2>2. r \in Run /\ r.job \in Jobs /\ r.pc = "lookup" /\ r.g = GraphInit
    BY <2>1, NoRunType DEF Run, WorkerPC, Item, NoRun
  <2>3. run' = [run EXCEPT ![w] = r] /\ queue' = Tail(queue)
    BY <1>1 DEF Dequeue
  <2> HIDE DEF r
  <2>4. run' \in [Workers -> Run] /\ run'[w] = r /\ \A v \in Workers \ {w} : run'[v] = run[v]
    BY <1>0, <2>2, <2>3
  <2>5. UNCHANGED <<durable, records, api, process, counters>>
    BY <1>1 DEF Dequeue
  <2>6. r.g.out = "pending" /\ r.g.pos < NumNodes
    BY <2>2, BoundsAssumption DEF GraphInit
  <2>7. TypeOK'
    BY <2>1, <2>2, <2>3, <2>4, <2>5, <2>6 DEF TypeInv, TypeOK
  <2>8. Shape'
    BY <2>1, <2>2, <2>3, <2>4, <2>5, <2>6 DEF TypeInv, Shape
  <2> QED
    BY <2>7, <2>8 DEF TypeInv
<1>2. CASE Lookup(w)
  <2>1. rec' \in [Jobs -> Row] /\ live' \subseteq Jobs /\ attached' \subseteq Jobs
    <3>1. /\ run[w].job \in Jobs /\ rec \in [Jobs -> Row] /\ rows \in [Jobs -> Row]
          /\ live \subseteq Jobs /\ attached \subseteq Jobs
      BY <1>2 DEF TypeInv, TypeOK, Shape, Lookup, At
    <3>2. Rehydrate(run[w].job)
      BY <1>2 DEF Lookup
    <3> QED
      BY <3>1, <3>2 DEF Rehydrate
  <2>2. CASE Goto(w, "mark")
    <3>1. /\ run' \in [Workers -> Run]
          /\ \A v \in Workers :
               /\ run'[v].job = run[v].job /\ run'[v].g = run[v].g
               /\ run'[v].pc = IF v = w THEN "mark" ELSE run[v].pc
      BY <2>2, GotoType DEF WorkerPC
    <3>2. TypeOK'
      BY <1>2, <2>1, <3>1 DEF TypeInv, TypeOK, Lookup, At
    <3>3. Shape'
      BY <1>2, <2>1, <3>1 DEF TypeInv, Shape, Lookup, At
    <3> QED
      BY <3>2, <3>3 DEF TypeInv
  <2>3. CASE Release(w)
    BY <1>2, <2>1, <2>3, NoRunType, BoundsAssumption
    DEF TypeInv, TypeOK, Shape, Lookup, At, Release, NoRun, GraphInit
  <2> QED
    BY <1>2, <2>2, <2>3 DEF Lookup
<1>3. CASE MarkRunning(w)
  <2> DEFINE j == run[w].job
             pc == IF run[w].resume /\ ckpt[j] = NoCkpt THEN "fail" ELSE "yield"
             seen == IF run[w].resume THEN AlreadyCompleted(j) ELSE {}
             g == IF run[w].resume /\ ckpt[j] # NoCkpt THEN ckpt[j] ELSE GraphInit
             saved == IF run[w].resume THEN ckpt[j].pos ELSE -1
  <2>1. j \in Jobs
    BY <1>3 DEF MarkRunning, At, TypeInv, Shape
  <2>2. ckpt[j] \in Checkpoints /\ rec[j].done \in Seq(Nodes)
    BY <2>1 DEF TypeInv, TypeOK, Row
  <2>3. ckpt[j] # NoCkpt => ckpt[j] \in GraphState
    BY <2>1, <2>2, BoundsAssumption
    DEF TypeInv, Shape, Checkpoints, GraphState, NoCkpt
  <2>4. g \in GraphState /\ (g.out = "pending" => g.pos < NumNodes)
    BY <2>1, <2>3, BoundsAssumption DEF GraphInit, GraphState, Outcome, TypeInv, Shape
  <2>5. seen \in SUBSET Nodes /\ saved \in -1 .. NumNodes /\ pc \in WorkerPC
    BY <2>2, BoundsAssumption DEF AlreadyCompleted, Checkpoints, WorkerPC
  <2>6. run' = [run EXCEPT ![w] = [run[w] EXCEPT !.pc = pc, !.seen = seen, !.g = g,
                                                 !.saved = saved]]
    BY <1>0, <1>3 DEF MarkRunning, StartRun
  <2>7. pc # "idle" /\ pc # "node"
    OBVIOUS
  <2> HIDE DEF pc, seen, g, saved
  <2>8. /\ run' \in [Workers -> Run]
        /\ run'[w].job = j /\ run'[w].g = g /\ run'[w].pc = pc
        /\ \A v \in Workers \ {w} : run'[v] = run[v]
    BY <1>0, <2>4, <2>5, <2>6 DEF Run
  <2>9. rows' \in [Jobs -> Row] /\ rec' \in [Jobs -> Row]
    BY <1>3, WriteType, NewRowType DEF MarkRunning, At
  <2>10. TypeOK'
    BY <1>3, <2>1, <2>4, <2>7, <2>8, <2>9 DEF TypeInv, TypeOK, MarkRunning
  <2>11. Shape'
    BY <1>3, <2>1, <2>4, <2>7, <2>8, <2>9 DEF TypeInv, Shape, MarkRunning
  <2> QED
    BY <2>10, <2>11 DEF TypeInv
<1>4. CASE Yield(w)
  <2> DEFINE pc == IF GraphDone(run[w].g) THEN "deliver" ELSE "node"
             seen == IF IsNew(w) THEN run[w].seen \cup {run[w].g.pos} ELSE run[w].seen
  <2>1. run' = [run EXCEPT ![w] = [run[w] EXCEPT !.pc = pc, !.seen = seen]]
    BY <1>0, <1>4 DEF Yield
  <2>2. pc \in WorkerPC /\ pc # "idle" /\ (pc = "node" => run[w].g.out = "pending")
    BY DEF WorkerPC, GraphDone
  <2>3. seen \in SUBSET Nodes
    BY <1>0 DEF IsNew, Run
  <2> HIDE DEF pc, seen
  <2>4. /\ run' \in [Workers -> Run]
        /\ run'[w].job = run[w].job /\ run'[w].g = run[w].g /\ run'[w].pc = pc
        /\ \A v \in Workers \ {w} : run'[v] = run[v]
    BY <1>0, <2>1, <2>2, <2>3 DEF Run
  <2>5. rows' \in [Jobs -> Row] /\ rec' \in [Jobs -> Row]
    BY <1>4, WriteType, NewRowType DEF Yield, At, TypeInv, TypeOK
  <2>6. TypeOK'
    BY <1>4, <2>2, <2>4, <2>5 DEF TypeInv, TypeOK, Yield, At
  <2>7. Shape'
    <3>1. UNCHANGED <<ckpt, api>> /\ run[w].pc # "idle"
      BY <1>4 DEF Yield, At
    <3> QED
      BY <2>2, <2>4, <3>1 DEF TypeInv, Shape
  <2> QED
    BY <2>6, <2>7 DEF TypeInv
<1>5. CASE RunNode(w)
  <2>1. PICK o \in Outcomes(run[w].g.pos + 1, run[w].job) :
          run' = [run EXCEPT ![w].pc = "yield", ![w].g = [pos |-> run[w].g.pos + 1, out |-> o]]
    BY <1>5 DEF RunNode
  <2>2. run[w].g.pos \in 0 .. NumNodes /\ run[w].g.pos < NumNodes
    BY <1>0, <1>5 DEF RunNode, At, TypeInv, Shape, Run, GraphState
  <2>3. o \in Outcome /\ (o = "pending" => run[w].g.pos + 1 # NumNodes)
    BY <2>1, <2>2, BoundsAssumption DEF Outcomes, Outcome
  <2> DEFINE g == [pos |-> run[w].g.pos + 1, out |-> o]
  <2>4. g \in GraphState /\ (g.out = "pending" => g.pos < NumNodes)
    BY <2>2, <2>3, BoundsAssumption DEF GraphState
  <2>5. run' = [run EXCEPT ![w] = [run[w] EXCEPT !.pc = "yield", !.g = g]]
    BY <1>0, <2>1
  <2> HIDE DEF g
  <2>6. /\ run' \in [Workers -> Run]
        /\ run'[w].job = run[w].job /\ run'[w].g = g /\ run'[w].pc = "yield"
        /\ \A v \in Workers \ {w} : run'[v] = run[v]
    BY <1>0, <2>4, <2>5 DEF Run, WorkerPC
  <2>7. TypeOK'
    BY <1>5, <2>4, <2>6 DEF TypeInv, TypeOK, RunNode, At
  <2>8. Shape'
    BY <1>5, <2>4, <2>6 DEF TypeInv, Shape, RunNode, At
  <2> QED
    BY <2>7, <2>8 DEF TypeInv
<1>6. CASE NodeRaises(w)
  <2>1. /\ run' \in [Workers -> Run]
        /\ \A v \in Workers :
             /\ run'[v].job = run[v].job /\ run'[v].g = run[v].g
             /\ run'[v].pc = IF v = w THEN "fail" ELSE run[v].pc
    BY <1>6, GotoType DEF WorkerPC, NodeRaises
  <2>2. TypeOK'
    BY <1>6, <2>1 DEF TypeInv, TypeOK, NodeRaises, At
  <2>3. Shape'
    BY <1>6, <2>1 DEF TypeInv, Shape, NodeRaises, At
  <2> QED
    BY <2>2, <2>3 DEF TypeInv
<1>7. CASE Deliver(w)
  <2>1. delivered' \in [Jobs -> Nat]
    BY <1>7 DEF TypeInv, TypeOK, Shape, Deliver, At
  <2>2. /\ run' \in [Workers -> Run]
        /\ \A v \in Workers :
             /\ run'[v].job = run[v].job /\ run'[v].g = run[v].g
             /\ run'[v].pc = IF v = w THEN "finish" ELSE run[v].pc
    BY <1>7, GotoType DEF WorkerPC, Deliver
  <2>3. TypeOK'
    BY <1>7, <2>1, <2>2 DEF TypeInv, TypeOK, Deliver, At
  <2>4. Shape'
    BY <1>7, <2>1, <2>2 DEF TypeInv, Shape, Deliver, At
  <2> QED
    BY <2>3, <2>4 DEF TypeInv
<1>8. CASE Finish(w)
  <2>1. rows' \in [Jobs -> Row] /\ rec' \in [Jobs -> Row]
    BY <1>8, WriteType, NewRowType DEF Finish, At
  <2>2. source' \in [Jobs -> BOOLEAN]
    BY <1>8 DEF TypeInv, TypeOK, Finish, MayDropSource
  <2>3. /\ run' \in [Workers -> Run]
        /\ \A v \in Workers :
             /\ run'[v].job = run[v].job /\ run'[v].g = run[v].g
             /\ run'[v].pc = IF v = w THEN "publish" ELSE run[v].pc
    BY <1>8, GotoType DEF WorkerPC, Finish
  <2>4. TypeOK'
    BY <1>8, <2>1, <2>2, <2>3 DEF TypeInv, TypeOK, Finish, At
  <2>5. Shape'
    BY <1>8, <2>1, <2>2, <2>3 DEF TypeInv, Shape, Finish, At
  <2> QED
    BY <2>4, <2>5 DEF TypeInv
<1>9. CASE Publish(w)
  BY <1>9, NoRunType, BoundsAssumption
  DEF TypeInv, TypeOK, Shape, Publish, Release, NoRun, GraphInit
<1>10. CASE Fail(w)
  <2>1. rows' \in [Jobs -> Row] /\ rec' \in [Jobs -> Row]
    BY <1>10, WriteType, NewRowType DEF Fail, At
  <2>2. source' \in [Jobs -> BOOLEAN]
    BY <1>10 DEF TypeInv, TypeOK, Fail, MayDropSource
  <2>3. TypeOK'
    BY <1>10, <2>1, <2>2, NoRunType, BoundsAssumption
    DEF TypeInv, TypeOK, Fail, Release, NoRun, GraphInit
  <2>4. Shape'
    BY <1>10, <2>1, <2>2, NoRunType, BoundsAssumption
    DEF TypeInv, Shape, Fail, Release, NoRun, GraphInit
  <2> QED
    BY <2>3, <2>4 DEF TypeInv
<1> QED
  BY <1>1, <1>2, <1>3, <1>4, <1>5, <1>6, <1>7, <1>8, <1>9, <1>10 DEF Work

(* The worker threads, when a call raises.                                 *)
LEMMA TypeWorkRaises ==
  ASSUME TypeInv, NEW w \in Workers, WorkRaises(w)
  PROVE  TypeInv'
<1> USE DEF durable, records, process, counters
<1>1. CASE MarkRaises(w)
  <2>1. /\ run' \in [Workers -> Run]
        /\ \A v \in Workers :
             /\ run'[v].job = run[v].job /\ run'[v].g = run[v].g
             /\ run'[v].pc = IF v = w THEN "dead" ELSE run[v].pc
    BY <1>1, GotoType DEF MarkRaises, WorkerPC
  <2>2. rows' \in [Jobs -> Row] /\ rec' \in [Jobs -> Row] /\ faults' \in Nat
    BY <1>1, WriteRaisesType, NewRowType DEF MarkRaises, At
  <2>3. TypeOK'
    BY <1>1, <2>1, <2>2 DEF TypeInv, TypeOK, MarkRaises, At
  <2>4. Shape'
    BY <1>1, <2>1, <2>2 DEF TypeInv, Shape, MarkRaises, At
  <2> QED
    BY <2>3, <2>4 DEF TypeInv
<1>2. CASE CredentialsRaise(w)
  <2>1. /\ run' \in [Workers -> Run]
        /\ \A v \in Workers :
             /\ run'[v].job = run[v].job /\ run'[v].g = run[v].g
             /\ run'[v].pc = IF v = w THEN "dead" ELSE run[v].pc
    BY <1>2, GotoType DEF CredentialsRaise, WorkerPC
  <2>2. rows' \in [Jobs -> Row] /\ rec' \in [Jobs -> Row]
    BY <1>2, WriteType, NewRowType DEF CredentialsRaise, At
  <2>3. faults' \in Nat
    BY <1>2 DEF CredentialsRaise, Raise, TypeInv, TypeOK
  <2>4. TypeOK'
    BY <1>2, <2>1, <2>2, <2>3 DEF TypeInv, TypeOK, CredentialsRaise, At
  <2>5. Shape'
    BY <1>2, <2>1, <2>2, <2>3 DEF TypeInv, Shape, CredentialsRaise, At
  <2> QED
    BY <2>4, <2>5 DEF TypeInv
<1>3. CASE YieldRaises(w)
  <2>1. /\ run' \in [Workers -> Run]
        /\ \A v \in Workers :
             /\ run'[v].job = run[v].job /\ run'[v].g = run[v].g
             /\ run'[v].pc = IF v = w THEN "fail" ELSE run[v].pc
    BY <1>3, GotoType DEF YieldRaises, WorkerPC
  <2>2. rows' \in [Jobs -> Row] /\ rec' \in [Jobs -> Row] /\ faults' \in Nat
    BY <1>3, WriteRaisesType, NewRowType DEF YieldRaises, At
  <2>3. TypeOK'
    BY <1>3, <2>1, <2>2 DEF TypeInv, TypeOK, YieldRaises, At
  <2>4. Shape'
    BY <1>3, <2>1, <2>2 DEF TypeInv, Shape, YieldRaises, At
  <2> QED
    BY <2>3, <2>4 DEF TypeInv
<1>4. CASE DeliverRaises(w)
  <2>1. /\ run' \in [Workers -> Run]
        /\ \A v \in Workers :
             /\ run'[v].job = run[v].job /\ run'[v].g = run[v].g
             /\ run'[v].pc = IF v = w THEN "fail" ELSE run[v].pc
    BY <1>4, GotoType DEF DeliverRaises, WorkerPC
  <2>2. faults' \in Nat
    BY <1>4 DEF DeliverRaises, Raise, TypeInv, TypeOK
  <2>3. TypeOK'
    BY <1>4, <2>1, <2>2 DEF TypeInv, TypeOK, DeliverRaises, At
  <2>4. Shape'
    BY <1>4, <2>1, <2>2 DEF TypeInv, Shape, DeliverRaises, At
  <2> QED
    BY <2>3, <2>4 DEF TypeInv
<1>5. CASE FinishRaises(w)
  <2>1. /\ run' \in [Workers -> Run]
        /\ \A v \in Workers :
             /\ run'[v].job = run[v].job /\ run'[v].g = run[v].g
             /\ run'[v].pc = IF v = w THEN "fail" ELSE run[v].pc
    BY <1>5, GotoType DEF FinishRaises, WorkerPC
  <2>2. rows' \in [Jobs -> Row] /\ rec' \in [Jobs -> Row] /\ faults' \in Nat
    BY <1>5, WriteRaisesType, NewRowType DEF FinishRaises, At
  <2>3. TypeOK'
    BY <1>5, <2>1, <2>2 DEF TypeInv, TypeOK, FinishRaises, At
  <2>4. Shape'
    BY <1>5, <2>1, <2>2 DEF TypeInv, Shape, FinishRaises, At
  <2> QED
    BY <2>3, <2>4 DEF TypeInv
<1>6. CASE PublishRaises(w)
  <2>1. /\ run' \in [Workers -> Run]
        /\ \A v \in Workers :
             /\ run'[v].job = run[v].job /\ run'[v].g = run[v].g
             /\ run'[v].pc = IF v = w THEN "fail" ELSE run[v].pc
    BY <1>6, GotoType DEF PublishRaises, WorkerPC
  <2>2. faults' \in Nat
    BY <1>6 DEF PublishRaises, Raise, TypeInv, TypeOK
  <2>3. TypeOK'
    BY <1>6, <2>1, <2>2 DEF TypeInv, TypeOK, PublishRaises, At
  <2>4. Shape'
    BY <1>6, <2>1, <2>2 DEF TypeInv, Shape, PublishRaises, At
  <2> QED
    BY <2>3, <2>4 DEF TypeInv
<1>7. CASE FailRaises(w)
  <2>1. /\ run' \in [Workers -> Run]
        /\ \A v \in Workers :
             /\ run'[v].job = run[v].job /\ run'[v].g = run[v].g
             /\ run'[v].pc = IF v = w THEN "dead" ELSE run[v].pc
    BY <1>7, GotoType DEF FailRaises, WorkerPC
  <2>2. rows' \in [Jobs -> Row] /\ rec' \in [Jobs -> Row] /\ faults' \in Nat
    BY <1>7, WriteRaisesType, NewRowType DEF FailRaises, At
  <2>3. TypeOK'
    BY <1>7, <2>1, <2>2 DEF TypeInv, TypeOK, FailRaises, At
  <2>4. Shape'
    BY <1>7, <2>1 DEF TypeInv, Shape, FailRaises, At
  <2> QED
    BY <2>3, <2>4 DEF TypeInv
<1> QED
  BY <1>1, <1>2, <1>3, <1>4, <1>5, <1>6, <1>7 DEF WorkRaises

LEMMA TypeCheckpoint ==
  ASSUME TypeInv, NEW w \in Workers, Checkpoint(w)
  PROVE  TypeInv'
<1>1. run \in [Workers -> Run] /\ run[w] \in Run /\ run[w].job \in Jobs
  BY DEF TypeInv, TypeOK, Shape, Checkpoint
<1>2. PICK p \in run[w].saved + 1 .. run[w].g.pos :
        /\ run' = [run EXCEPT ![w].saved = p]
        /\ ckpt' = [ckpt EXCEPT ![run[w].job] =
                      IF p = run[w].g.pos THEN run[w].g ELSE [pos |-> p, out |-> "pending"]]
  BY DEF Checkpoint
<1>3. p \in 0 .. NumNodes /\ (p # run[w].g.pos => p < NumNodes)
  <2>1. run[w].saved \in -1 .. NumNodes /\ run[w].g.pos \in 0 .. NumNodes
    BY <1>1 DEF Run, GraphState
  <2>2. NumNodes \in Nat
    BY BoundsAssumption
  <2> QED
    BY <2>1, <2>2
<1> DEFINE c == IF p = run[w].g.pos THEN run[w].g ELSE [pos |-> p, out |-> "pending"]
<1>4. c \in Checkpoints /\ c.pos # -1 /\ (c.out = "pending" => c.pos < NumNodes)
  BY <1>1, <1>3, BoundsAssumption
  DEF Run, GraphState, Checkpoints, Outcome, TypeInv, Shape
<1>5. ckpt' = [ckpt EXCEPT ![run[w].job] = c]
  BY <1>2
<1> HIDE DEF c
<1>6. /\ run' \in [Workers -> Run]
      /\ \A v \in Workers :
           run'[v].job = run[v].job /\ run'[v].g = run[v].g /\ run'[v].pc = run[v].pc
  BY <1>1, <1>2, <1>3 DEF Run
<1>7. UNCHANGED <<rows, stamp, source, delivered, records, queue, api, process, counters>>
  BY DEF Checkpoint
<1>8. TypeOK'
  BY <1>1, <1>4, <1>5, <1>6, <1>7 DEF TypeInv, TypeOK, records, process, counters
<1>9. Shape'
  BY <1>1, <1>4, <1>5, <1>6, <1>7 DEF TypeInv, Shape, records, process, counters
<1> QED
  BY <1>8, <1>9 DEF TypeInv

(* Crash, restart and recovery.                                            *)
LEMMA TypeDie ==
  ASSUME TypeInv, Die, crashes' \in Nat, faults' \in Nat
  PROVE  TypeInv'
<1>1. NoCkpt \in Checkpoints /\ NoCkpt.pos < NumNodes /\ NoCkpt.out = "pending"
  BY BoundsAssumption DEF NoCkpt, Checkpoints, Outcome
<1>2. ckpt' \in [Jobs -> Checkpoints]
      /\ \A j \in Jobs : ckpt'[j] = ckpt[j] \/ ckpt'[j] = NoCkpt
  BY <1>1 DEF Die, TypeInv, TypeOK
<1>3. \A w \in Workers : run'[w] = NoRun
  BY DEF Die
<1>4. NoRun.pc = "idle" /\ NoRun.g.pos < NumNodes
  BY BoundsAssumption DEF NoRun, GraphInit
<1>5. api' \in [pc : ApiPC, job : Jobs \cup {NoJob}, victims : SUBSET Jobs, todo : SUBSET Jobs]
      /\ api'.pc = "idle"
  BY DEF Die, NoApi, ApiPC
<1>6. TypeOK'
  BY <1>2, <1>5, NoRowType, NoRunType DEF Die, TypeInv, TypeOK
<1>7. Shape'
  BY <1>1, <1>2, <1>3, <1>4, <1>5 DEF TypeInv, Shape
<1> QED
  BY <1>6, <1>7 DEF TypeInv

LEMMA TypeStartup ==
  ASSUME TypeInv, Startup \/ Crash \/ \E j \in Jobs : RecoverRaises(j)
  PROVE  TypeInv'
<1> USE DEF durable, records, process, counters
<1>1. CASE Restart
  BY <1>1 DEF TypeInv, TypeOK, Shape, Restart, Nonterminal, Stored
<1>2. CASE Serve
  BY <1>2 DEF TypeInv, TypeOK, Shape, Serve
<1>3. ASSUME NEW j \in Jobs, Recover(j) PROVE TypeInv'
  <2> DEFINE row == IF Resumable(j) THEN rows[j] ELSE Reset(j)
             item == [job |-> j, resume |-> Resumable(j)]
  <2>1. row \in Row
    <3>1. rows[j] \in Row
      BY DEF TypeInv, TypeOK
    <3>2. << >> \in Seq(Nodes)
      OBVIOUS
    <3>3. Reset(j) \in Row
      BY <3>1, <3>2 DEF Row, Reset, Status, Error
    <3> QED
      BY <3>1, <3>3
  <2>2. item \in Item
    BY DEF Item, Resumable
  <2>3. /\ rec' = [rec EXCEPT ![j] = row] /\ rows' = [rows EXCEPT ![j] = row]
        /\ queue' = Append(queue, item)
        /\ live' = live \cup {j} /\ attached' = attached \cup {j}
        /\ recq' = recq \ {j}
        /\ UNCHANGED <<stamp, ckpt, source, delivered, run, api, server, counters>>
    BY <1>3 DEF Recover
  <2> HIDE DEF row, item
  <2>4. TypeOK'
    BY <2>1, <2>2, <2>3 DEF TypeInv, TypeOK
  <2>5. Shape'
    BY <2>1, <2>2, <2>3 DEF TypeInv, Shape
  <2> QED
    BY <2>4, <2>5 DEF TypeInv
<1>4. CASE Crash
  <2>1. crashes' \in Nat /\ faults' \in Nat
    BY <1>4 DEF Crash, TypeInv, TypeOK
  <2> QED
    BY <1>4, <2>1, TypeDie DEF Crash
<1>5. ASSUME NEW j \in Jobs, RecoverRaises(j) PROVE TypeInv'
  <2>1. crashes' \in Nat /\ faults' \in Nat
    BY <1>5 DEF RecoverRaises, Raise, TypeInv, TypeOK
  <2> QED
    BY <1>5, <2>1, TypeDie DEF RecoverRaises
<1> QED
  BY <1>1, <1>2, <1>3, <1>4, <1>5 DEF Startup

LEMMA TypeNext == TypeInv /\ [Next]_vars => TypeInv'
<1> SUFFICES ASSUME TypeInv, [Next]_vars PROVE TypeInv'
  OBVIOUS
<1>1. CASE UNCHANGED vars
  BY <1>1 DEF TypeInv, TypeOK, Shape, vars
<1>2. CASE Next
  BY <1>2, TypeApi, TypeWork, TypeWorkRaises, TypeCheckpoint, TypeStartup DEF Next
<1> QED
  BY <1>1, <1>2

(* The variables keep their types: no program counter, graph position or   *)
(* checkpoint leaves its range, no row gets a stage the graph has not.     *)
THEOREM TypeCorrect == Spec => []TypeOK
<1>1. TypeInv => TypeOK
  BY DEF TypeInv
<1> QED
  BY TypeInit, TypeNext, <1>1, PTL DEF Spec

-----------------------------------------------------------------------------
(* One owner per job *)

(* A job that was not submitted yet has no row and no owner, which is why  *)
(* the submission of a job cannot make a second owner.                     *)
Stamped ==
  \A j \in Jobs :
    stamp[j] = 0 => /\ rows[j].status = "absent"
                    /\ ~InQueue(j) /\ j \notin recq /\ ~Adding(j)
                    /\ \A w \in Workers : ~Holds(w, j)

(* A dead process holds nothing, which is why the recovery of a row cannot *)
(* make a second owner.                                                    *)
Quiet ==
  server = "down" => /\ queue = << >> /\ recq = {} /\ api.pc = "idle"
                     /\ \A w \in Workers : run[w].pc = "idle"

OwnerInv == TypeInv /\ SingleOwner /\ Stamped /\ Quiet

(* No thread takes up a job: those it holds afterwards it held before.     *)
NoNewHolder ==
  \A w \in Workers :
    run'[w].pc # "idle" => run[w].pc # "idle" /\ run'[w].job = run[w].job

LEMMA AppendItem ==
  ASSUME NEW q \in Seq(Item), NEW x \in Item
  PROVE  /\ DOMAIN q = 1 .. Len(q) /\ Len(q) \in Nat
         /\ DOMAIN Append(q, x) = 1 .. Len(q) + 1
         /\ \A i \in 1 .. Len(q) : Append(q, x)[i] = q[i]
         /\ Append(q, x)[Len(q) + 1] = x
OBVIOUS

LEMMA TailItem ==
  ASSUME NEW q \in Seq(Item), q # << >>
  PROVE  /\ DOMAIN q = 1 .. Len(q) /\ Len(q) \in Nat \ {0}
         /\ DOMAIN Tail(q) = 1 .. Len(q) - 1
         /\ \A i \in 1 .. Len(q) - 1 : Tail(q)[i] = q[i + 1]
         /\ Head(q) = q[1]
OBVIOUS

(* A step that gives no job to anybody keeps the ownership invariant.      *)
LEMMA OwnersShrink ==
  ASSUME OwnerInv, NoNewHolder, queue' = queue, recq' \subseteq recq, stamp' = stamp,
         api'.pc # "idle" => api.pc # "idle" /\ api'.job = api.job,
         \A j \in Jobs : stamp[j] = 0 => rows'[j].status = "absent"
  PROVE  SingleOwner' /\ Stamped'
<1>1. \A w \in Workers, j \in Jobs : Holds(w, j)' => Holds(w, j)
  BY DEF NoNewHolder, Holds
<1>2. \A j \in Jobs : (InQueue(j)' <=> InQueue(j)) /\ (Adding(j)' => Adding(j))
  BY DEF InQueue, Adding
<1>3. SingleOwner'
  BY <1>1, <1>2 DEF OwnerInv, SingleOwner
<1>4. Stamped'
  BY <1>1, <1>2 DEF OwnerInv, Stamped
<1> QED
  BY <1>3, <1>4

(* Every step of a thread that has a job. *)
Busy(w) ==
  \/ Lookup(w) \/ MarkRunning(w) \/ Yield(w) \/ RunNode(w) \/ NodeRaises(w)
  \/ Deliver(w) \/ Finish(w) \/ Publish(w) \/ Fail(w)
  \/ WorkRaises(w) \/ Checkpoint(w)

(* Such a step works on the thread's own job and on no queue. *)
LEMMA BusyEffect ==
  ASSUME TypeInv, NEW w \in Workers, Busy(w)
  PROVE  /\ NoNewHolder
         /\ run[w].pc # "idle" /\ run[w].job \in Jobs
         /\ UNCHANGED <<queue, api, recq, server, stamp>>
         /\ \A j \in Jobs \ {run[w].job} : rows'[j] = rows[j]
<1> USE DEF durable, records, process, counters, NoNewHolder, At, Goto, Release
<1>0. run \in [Workers -> Run] /\ rows \in [Jobs -> Row]
  BY DEF TypeInv, TypeOK
<1>1. run[w].pc # "idle"
  BY DEF Busy, Lookup, MarkRunning, Yield, RunNode, NodeRaises, Deliver, Finish, Publish,
         Fail, WorkRaises, Checkpoint, MarkRaises, CredentialsRaise, YieldRaises,
         DeliverRaises, FinishRaises, PublishRaises, FailRaises
<1>2. run[w].job \in Jobs
  BY <1>1 DEF TypeInv, Shape
<1>3. ASSUME NEW new, Write(w, new) \/ WriteRaises(w, new)
      PROVE  \A j \in Jobs \ {run[w].job} : rows'[j] = rows[j]
  BY <1>0, <1>3 DEF Write, WriteRaises, Mutate
<1>4. CASE Lookup(w)
  <2>1. \/ run' = [run EXCEPT ![w].pc = "mark"]
        \/ run' = [run EXCEPT ![w] = NoRun]
    BY <1>4 DEF Lookup
  <2>2. NoNewHolder
    BY <1>0, <1>1, <2>1 DEF NoRun, Run
  <2>3. UNCHANGED <<queue, api, recq, server, stamp, rows>>
    BY <1>4 DEF Lookup
  <2> QED
    BY <1>1, <1>2, <2>2, <2>3
<1>5. CASE MarkRunning(w)
  <2>1. \A j \in Jobs \ {run[w].job} : rows'[j] = rows[j]
    BY <1>3, <1>5 DEF MarkRunning
  <2>2. \A v \in Workers : run'[v].job = run[v].job /\ (v # w => run'[v] = run[v])
    <3>1. PICK pc, seen, g, saved :
            run' = [run EXCEPT ![w].pc = pc, ![w].seen = seen, ![w].g = g, ![w].saved = saved]
      BY <1>5 DEF MarkRunning, StartRun
    <3> QED
      BY <1>0, <3>1 DEF Run
  <2> QED
    BY <1>1, <1>2, <1>5, <2>1, <2>2 DEF MarkRunning
<1>6. CASE Yield(w)
  <2>1. \A j \in Jobs \ {run[w].job} : rows'[j] = rows[j]
    BY <1>3, <1>6 DEF Yield
  <2>2. \A v \in Workers : run'[v].job = run[v].job /\ (v # w => run'[v] = run[v])
    BY <1>0, <1>6 DEF Yield, Run
  <2> QED
    BY <1>1, <1>2, <1>6, <2>1, <2>2 DEF Yield
<1>7. CASE RunNode(w)
  <2>1. \A v \in Workers : run'[v].job = run[v].job /\ (v # w => run'[v] = run[v])
    BY <1>0, <1>7 DEF RunNode, Run
  <2> QED
    BY <1>1, <1>2, <1>7, <2>1 DEF RunNode
<1>8. CASE Checkpoint(w)
  <2>1. \A v \in Workers : run'[v].job = run[v].job /\ (v # w => run'[v] = run[v])
    BY <1>0, <1>8 DEF Checkpoint, Run
  <2> QED
    BY <1>1, <1>2, <1>8, <2>1 DEF Checkpoint
<1>9. CASE NodeRaises(w) \/ Deliver(w) \/ Publish(w) \/ DeliverRaises(w) \/ PublishRaises(w)
  BY <1>0, <1>1, <1>2, <1>9
  DEF NodeRaises, Deliver, Publish, DeliverRaises, PublishRaises, NoRun, Run
<1>10. CASE Finish(w) \/ Fail(w)
  <2>1. \A j \in Jobs \ {run[w].job} : rows'[j] = rows[j]
    BY <1>3, <1>10 DEF Finish, Fail
  <2> QED
    BY <1>0, <1>1, <1>2, <1>10, <2>1 DEF Finish, Fail, NoRun, Run
<1>11. CASE \/ MarkRaises(w) \/ CredentialsRaise(w) \/ YieldRaises(w)
            \/ FinishRaises(w) \/ FailRaises(w)
  <2>1. \A j \in Jobs \ {run[w].job} : rows'[j] = rows[j]
    BY <1>3, <1>11
    DEF MarkRaises, CredentialsRaise, YieldRaises, FinishRaises, FailRaises
  <2> QED
    BY <1>0, <1>1, <1>2, <1>11, <2>1
    DEF MarkRaises, CredentialsRaise, YieldRaises, FinishRaises, FailRaises, Run
<1> QED
  BY <1>4, <1>5, <1>6, <1>7, <1>8, <1>9, <1>10, <1>11 DEF Busy, WorkRaises

LEMMA OwnerInit == Init => OwnerInv
<1> SUFFICES ASSUME Init PROVE OwnerInv
  OBVIOUS
<1>1. queue = << >> /\ recq = {} /\ api.pc = "idle" /\ \A w \in Workers : run[w].pc = "idle"
  BY DEF Init, NoApi, NoRun
<1>2. \A j \in Jobs : ~InQueue(j) /\ ~Adding(j) /\ \A w \in Workers : ~Holds(w, j)
  BY <1>1 DEF InQueue, Adding, Holds
<1>3. SingleOwner
  BY <1>1, <1>2 DEF SingleOwner
<1>4. Stamped /\ Quiet
  BY <1>1, <1>2 DEF Init, Stamped, Quiet, NoRow
<1> QED
  BY <1>3, <1>4, TypeInit DEF OwnerInv

LEMMA OwnerWork ==
  ASSUME OwnerInv, NEW w \in Workers, Work(w) \/ WorkRaises(w) \/ Checkpoint(w), TypeInv'
  PROVE  OwnerInv'
<1>1. CASE Dequeue(w)
  <2>0. TypeInv /\ queue \in Seq(Item) /\ queue # << >> /\ run \in [Workers -> Run]
    BY <1>1 DEF OwnerInv, TypeInv, TypeOK, Dequeue
  <2> DEFINE j == queue[1].job
  <2>1. j \in Jobs /\ InQueue(j) /\ run[w].pc = "idle"
    <3>1. 1 \in DOMAIN queue /\ queue[1] \in Item
      BY <2>0, TailItem
    <3> QED
      BY <1>1, <3>1 DEF Item, InQueue, Dequeue, At
  <2>2. /\ \A v \in Workers \ {w} : run'[v] = run[v]
        /\ run'[w].job = j /\ run'[w].pc = "lookup"
        /\ queue' = Tail(queue)
        /\ UNCHANGED <<rows, stamp, api, recq, server>> /\ server # "down"
    BY <1>1, <2>0, TailItem DEF Dequeue, NoRun, durable, process
  <2>3. \A i, k \in DOMAIN queue : queue[i].job = queue[k].job => i = k
    BY DEF OwnerInv, SingleOwner
  <2>4. \A k \in Jobs : InQueue(k)' => InQueue(k) /\ k # j
    BY <2>0, <2>2, <2>3, TailItem DEF InQueue
  <2>5. \A i, k \in DOMAIN queue' : queue'[i].job = queue'[k].job => i = k
    BY <2>0, <2>2, <2>3, TailItem
  <2>6. \A v \in Workers, k \in Jobs : Holds(v, k)' => Holds(v, k) \/ (v = w /\ k = j)
    BY <2>2 DEF Holds
  <2>7. \A k \in Jobs : Adding(k)' => Adding(k)
    BY <2>2 DEF Adding
  <2>8. SingleOwner'
    BY <2>1, <2>2, <2>4, <2>5, <2>6, <2>7 DEF OwnerInv, SingleOwner
  <2>9. Stamped'
    BY <2>1, <2>2, <2>4, <2>6, <2>7 DEF OwnerInv, Stamped
  <2> QED
    BY <2>2, <2>8, <2>9 DEF OwnerInv, Quiet
<1>2. CASE Busy(w)
  <2>1. /\ NoNewHolder /\ run[w].pc # "idle" /\ run[w].job \in Jobs
        /\ UNCHANGED <<queue, api, recq, server, stamp>>
        /\ \A j \in Jobs \ {run[w].job} : rows'[j] = rows[j]
    BY <1>2, BusyEffect DEF OwnerInv
  <2>2. \A j \in Jobs : stamp[j] = 0 => j # run[w].job /\ rows'[j].status = "absent"
    BY <2>1 DEF OwnerInv, Stamped, Holds
  <2>3. SingleOwner' /\ Stamped'
    BY <2>1, <2>2, OwnersShrink
  <2> QED
    BY <2>1, <2>3 DEF OwnerInv, Quiet
<1> QED
  BY <1>1, <1>2 DEF Work, Busy

LEMMA OwnerApi ==
  ASSUME OwnerInv, TypeInv',
         (\E j \in Jobs : Submit(j) \/ GetJob(j)) \/ Add \/ AddRaises
  PROVE  OwnerInv'
<1> USE DEF durable, records, process, counters
<1>0. TypeInv /\ queue \in Seq(Item) /\ rows \in [Jobs -> Row] /\ stamp \in [Jobs -> Nat]
  BY DEF OwnerInv, TypeInv, TypeOK
<1>1. ASSUME NEW j \in Jobs, Submit(j) PROVE OwnerInv'
  <2>1. /\ stamp[j] = 0 /\ api.pc = "idle" /\ server = "up"
        /\ api'.job = j /\ api'.pc = "persist"
        /\ UNCHANGED <<rows, queue, run, server, recq>>
    BY <1>1 DEF Submit, NoApi
  <2>2. \A k \in Jobs : stamp'[k] = 0 => stamp[k] = 0 /\ k # j
    <3>1. 1 + Cardinality({k \in Jobs : stamp[k] > 0}) # 0
      BY StampNat
    <3> QED
      BY <1>0, <1>1, <3>1 DEF Submit
  <2>3. /\ \A k \in Jobs : InQueue(k)' => InQueue(k)
        /\ \A k \in Jobs : Adding(k)' => k = j
        /\ \A w \in Workers, k \in Jobs : Holds(w, k)' => Holds(w, k)
    BY <2>1 DEF InQueue, Adding, Holds
  <2>4. ~InQueue(j) /\ j \notin recq /\ \A w \in Workers : ~Holds(w, j)
    BY <2>1 DEF OwnerInv, Stamped
  <2>5. SingleOwner'
    BY <2>1, <2>3, <2>4 DEF OwnerInv, SingleOwner
  <2>6. Stamped'
    BY <2>1, <2>2, <2>3 DEF OwnerInv, Stamped
  <2> QED
    BY <2>1, <2>5, <2>6 DEF OwnerInv, Quiet
<1>2. ASSUME NEW j \in Jobs, GetJob(j) PROVE OwnerInv'
  <2>1. \A w \in Workers : run'[w].pc = run[w].pc /\ run'[w].job = run[w].job
    BY <1>0, <1>2, GetJobRuns
  <2>2. UNCHANGED <<queue, recq, stamp, api, rows, server>>
    BY <1>2 DEF GetJob
  <2>3. SingleOwner' /\ Stamped'
    BY <2>1, <2>2, OwnersShrink DEF NoNewHolder, OwnerInv, Stamped
  <2> QED
    BY <2>1, <2>2, <2>3 DEF OwnerInv, Quiet
<1>3. CASE Enqueue
  <2> DEFINE j == api.job
             item == [job |-> j, resume |-> FALSE]
  <2>1. j \in Jobs /\ Adding(j) /\ item \in Item /\ server # "down"
    BY <1>0, <1>3 DEF Enqueue, TypeInv, Shape, Item, Adding, OwnerInv, Quiet
  <2>2. ~InQueue(j) /\ j \notin recq /\ \A w \in Workers : ~Holds(w, j)
    BY <2>1 DEF OwnerInv, SingleOwner
  <2>3. queue' = Append(queue, item) /\ api'.pc = "idle"
        /\ UNCHANGED <<rows, stamp, run, server, recq>>
    BY <1>3 DEF Enqueue, NoApi
  <2>4. item.job = j
    OBVIOUS
  <2> HIDE DEF item
  <2>5. /\ \A k \in Jobs : InQueue(k)' => InQueue(k) \/ k = j
        /\ \A k \in Jobs : ~Adding(k)'
        /\ \A w \in Workers, k \in Jobs : Holds(w, k)' => Holds(w, k)
    BY <1>0, <2>1, <2>3, <2>4, AppendItem DEF InQueue, Adding, Holds
  <2>6. \A i, k \in DOMAIN queue' : queue'[i].job = queue'[k].job => i = k
    BY <1>0, <2>1, <2>2, <2>3, <2>4, AppendItem DEF InQueue, OwnerInv, SingleOwner
  <2>7. SingleOwner'
    BY <2>2, <2>3, <2>5, <2>6 DEF OwnerInv, SingleOwner
  <2>8. stamp[j] # 0
    BY <2>1 DEF OwnerInv, Stamped
  <2>9. Stamped'
    BY <2>3, <2>5, <2>8 DEF OwnerInv, Stamped
  <2> QED
    BY <2>1, <2>3, <2>7, <2>9 DEF OwnerInv, Quiet
<1>4. CASE PersistInitial \/ FirstPrune \/ Evict \/ Detach \/ SecondPrune
           \/ DeleteThreads \/ AddRaises
  <2>0. api \in [pc : ApiPC, job : Jobs \cup {NoJob}, victims : SUBSET Jobs, todo : SUBSET Jobs]
    BY <1>0 DEF TypeInv, TypeOK
  <2>1. /\ UNCHANGED <<queue, recq, stamp, run, server>> /\ api.pc # "idle"
        /\ api'.pc # "idle" => api'.job = api.job
    <3>1. CASE PersistInitial \/ FirstPrune \/ Evict
      BY <2>0, <3>1 DEF PersistInitial, FirstPrune, Evict
    <3>2. CASE Detach
      BY <2>0, <3>2 DEF Detach
    <3>3. CASE SecondPrune \/ DeleteThreads
      BY <2>0, <3>3 DEF SecondPrune, DeleteThreads
    <3>4. CASE AddRaises
      BY <3>4 DEF AddRaises, NoApi
    <3> QED
      BY <1>4, <3>1, <3>2, <3>3, <3>4
  <2>2. \A j \in Jobs : stamp[j] = 0 => rows'[j].status = "absent"
    <3>1. ASSUME NEW j \in Jobs, stamp[j] = 0 PROVE rows'[j].status = "absent"
      <4>1. rows[j].status = "absent" /\ j # api.job
        BY <2>1, <3>1 DEF OwnerInv, Stamped, Adding
      <4> QED
        BY <1>0, <1>4, <4>1
        DEF PersistInitial, Mutate, FirstPrune, Evict, Detach, SecondPrune, DeleteThreads,
            AddRaises, NoRow
    <3> QED
      BY <3>1
  <2>3. NoNewHolder
    BY <2>1 DEF NoNewHolder
  <2>4. SingleOwner' /\ Stamped'
    BY <2>1, <2>2, <2>3, OwnersShrink
  <2> QED
    BY <2>1, <2>4 DEF OwnerInv, Quiet
<1> QED
  BY <1>1, <1>2, <1>3, <1>4 DEF Add

LEMMA OwnerStartup ==
  ASSUME OwnerInv, TypeInv', Startup \/ Crash \/ \E j \in Jobs : RecoverRaises(j)
  PROVE  OwnerInv'
<1> USE DEF durable, records, process, counters
<1>0. TypeInv /\ queue \in Seq(Item) /\ rows \in [Jobs -> Row] /\ stamp \in [Jobs -> Nat]
  BY DEF OwnerInv, TypeInv, TypeOK
<1>1. CASE Restart
  <2>1. \A j \in Jobs : ~InQueue(j) /\ ~Adding(j) /\ \A w \in Workers : ~Holds(w, j)
    BY <1>1 DEF Restart, OwnerInv, Quiet, InQueue, Adding, Holds
  <2>2. UNCHANGED <<rows, stamp, queue, run, api>> /\ queue = << >> /\ recq' = Nonterminal
        /\ server' = "starting"
    BY <1>1 DEF Restart, OwnerInv, Quiet
  <2>3. \A j \in Jobs : ~InQueue(j)' /\ ~Adding(j)' /\ \A w \in Workers : ~Holds(w, j)'
    BY <2>1, <2>2 DEF InQueue, Adding, Holds
  <2>4. SingleOwner'
    BY <2>2, <2>3 DEF SingleOwner
  <2>5. Stamped'
    BY <2>2, <2>3 DEF OwnerInv, Stamped, Nonterminal, Stored
  <2> QED
    BY <2>2, <2>4, <2>5 DEF OwnerInv, Quiet
<1>2. CASE Serve
  <2>1. UNCHANGED <<queue, recq, stamp, api, rows, run>> /\ server' = "up"
    BY <1>2 DEF Serve
  <2>2. NoNewHolder
    BY <2>1 DEF NoNewHolder
  <2>3. SingleOwner' /\ Stamped'
    BY <2>1, <2>2, OwnersShrink DEF OwnerInv, Stamped
  <2> QED
    BY <2>1, <2>3 DEF OwnerInv, Quiet
<1>3. ASSUME NEW j \in Jobs, Recover(j) PROVE OwnerInv'
  <2> DEFINE item == [job |-> j, resume |-> Resumable(j)]
  <2>1. j \in recq /\ server = "starting" /\ item \in Item
    BY <1>3 DEF Recover, IsNext, Item, Resumable
  <2>2. ~InQueue(j) /\ ~Adding(j) /\ stamp[j] # 0 /\ \A w \in Workers : ~Holds(w, j)
    BY <2>1 DEF OwnerInv, SingleOwner, Stamped
  <2>3. queue' = Append(queue, item) /\ recq' = recq \ {j}
        /\ UNCHANGED <<stamp, run, api, server>>
        /\ \A k \in Jobs \ {j} : rows'[k] = rows[k]
    BY <1>0, <1>3 DEF Recover
  <2>4. item.job = j
    OBVIOUS
  <2> HIDE DEF item
  <2>5. /\ \A k \in Jobs : InQueue(k)' => InQueue(k) \/ k = j
        /\ \A k \in Jobs : Adding(k)' => Adding(k)
        /\ \A w \in Workers, k \in Jobs : Holds(w, k)' => Holds(w, k)
    BY <1>0, <2>1, <2>3, <2>4, AppendItem DEF InQueue, Adding, Holds
  <2>6. \A i, k \in DOMAIN queue' : queue'[i].job = queue'[k].job => i = k
    BY <1>0, <2>1, <2>2, <2>3, <2>4, AppendItem DEF InQueue, OwnerInv, SingleOwner
  <2>7. SingleOwner'
    BY <2>2, <2>3, <2>5, <2>6 DEF OwnerInv, SingleOwner
  <2>8. Stamped'
    BY <2>2, <2>3, <2>5 DEF OwnerInv, Stamped
  <2> QED
    BY <2>1, <2>3, <2>7, <2>8 DEF OwnerInv, Quiet
<1>4. CASE Die
  <2>1. /\ queue' = << >> /\ recq' = {} /\ api'.pc = "idle"
        /\ \A w \in Workers : run'[w].pc = "idle"
        /\ UNCHANGED <<rows, stamp>>
    BY <1>4 DEF Die, NoApi, NoRun
  <2>2. \A j \in Jobs : ~InQueue(j)' /\ ~Adding(j)' /\ \A w \in Workers : ~Holds(w, j)'
    BY <2>1 DEF InQueue, Adding, Holds
  <2>3. SingleOwner' /\ Stamped' /\ Quiet'
    BY <2>1, <2>2 DEF OwnerInv, SingleOwner, Stamped, Quiet
  <2> QED
    BY <2>3 DEF OwnerInv
<1> QED
  BY <1>1, <1>2, <1>3, <1>4 DEF Startup, Crash, RecoverRaises

LEMMA OwnerNext == OwnerInv /\ [Next]_vars => OwnerInv'
<1> SUFFICES ASSUME OwnerInv, [Next]_vars PROVE OwnerInv'
  OBVIOUS
<1>1. TypeInv'
  BY TypeNext DEF OwnerInv
<1>2. CASE UNCHANGED vars
  BY <1>1, <1>2
  DEF OwnerInv, SingleOwner, Stamped, Quiet, InQueue, Adding, Holds, vars
<1>3. CASE Next
  BY <1>1, <1>3, OwnerApi, OwnerWork, OwnerStartup DEF Next
<1> QED
  BY <1>2, <1>3

(* However uploads, worker threads, crashes and recoveries interleave, a   *)
(* job is queued, held by a thread, being added or waiting to be recovered *)
(* in one place only.                                                      *)
THEOREM OneOwner == Spec => []SingleOwner
<1>1. OwnerInv => SingleOwner
  BY DEF OwnerInv
<1> QED
  BY OwnerInit, OwnerNext, <1>1, PTL DEF Spec

-----------------------------------------------------------------------------
(* A terminal job stays terminal *)

(* Before a thread has decided the outcome of its job. *)
Undecided == {"lookup", "mark", "yield", "node", "deliver", "finish"}

(* Whoever owns a job that is not decided owns one whose row is not        *)
(* terminal: the table never says completed or failed of a job that will   *)
(* be written again.                                                       *)
Unfinished ==
  /\ \A j \in Jobs : InQueue(j) \/ j \in recq \/ Adding(j) => rows[j].status \notin Terminal
  /\ \A w \in Workers : run[w].pc \in Undecided => rows[run[w].job].status \notin Terminal

(* The record that a thread writes through says running while its graph    *)
(* runs, and the record being added says queued.                           *)
RecordOpen ==
  /\ \A w \in Workers :
       run[w].pc \in {"yield", "node", "deliver"} /\ ~run[w].split =>
         rec[run[w].job].status = "running"
  /\ api.pc = "persist" => rec[api.job].status = "queued"

FinalInv == OwnerInv /\ Unfinished /\ RecordOpen

(* What one step may do to a terminal row. *)
Final == \A j \in Jobs :
           rows[j].status \in Terminal => rows'[j].status \in Terminal \cup {"absent"}

LEMMA FinalInit == Init => FinalInv
<1> SUFFICES ASSUME Init PROVE FinalInv
  OBVIOUS
<1>1. OwnerInv
  BY OwnerInit
<1>2. Unfinished /\ RecordOpen
  BY DEF Init, Unfinished, RecordOpen, NoRow, NoRun, NoApi, Terminal, Undecided
<1> QED
  BY <1>1, <1>2 DEF FinalInv

(* A thread's write of its own record, and the row that it leaves. *)
LEMMA WriteEffect ==
  ASSUME TypeInv, NEW w \in Workers, run[w].pc # "idle", NEW new \in Row,
         Write(w, new) \/ WriteRaises(w, new)
  PROVE  LET j == run[w].job
         IN  /\ rows'[j] = rows[j] \/ rows'[j] = new
             /\ WriteRaises(w, new) => rows' = rows
             /\ ~run[w].split => rec'[j] = new
             /\ \A k \in Jobs \ {j} : rec'[k] = rec[k]
BY DEF TypeInv, TypeOK, Shape, Write, WriteRaises, Mutate

(* What a busy thread does to the row and the record of its job. *)
OwnRow(w) ==
  LET j == run[w].job
  IN  /\ \A v \in Workers \ {w} : run'[v] = run[v]
      /\ \A k \in Jobs \ {j} : rec'[k] = rec[k]
      /\ run'[w].pc \in Undecided => run[w].pc \in Undecided
      /\ run'[w].pc \in Undecided => rows'[j].status \notin Terminal
      /\ rows[j].status \in Terminal => rows'[j].status \in Terminal
      /\ run'[w].pc \in {"yield", "node", "deliver"} /\ ~run'[w].split =>
           rec'[j].status = "running"

LEMMA BusyOwnRow ==
  ASSUME FinalInv, NEW w \in Workers, Busy(w)
  PROVE  OwnRow(w)
<1> DEFINE j == run[w].job
<1> USE DEF OwnRow, At, Undecided, Terminal
<1>0. TypeInv /\ run \in [Workers -> Run] /\ rows \in [Jobs -> Row] /\ rec \in [Jobs -> Row]
  BY DEF FinalInv, OwnerInv, TypeInv, TypeOK
<1>1. run[w].pc # "idle" /\ j \in Jobs
  BY <1>0, BusyEffect
<1>2. run[w].pc \in Undecided => rows[j].status \notin Terminal
  BY DEF FinalInv, Unfinished
<1>3. run[w].pc \in {"yield", "node", "deliver"} /\ ~run[w].split => rec[j].status = "running"
  BY DEF FinalInv, RecordOpen
<1>4. /\ [rec[j] EXCEPT !.status = "running"] \in Row
      /\ IsNew(w) => Progressed(w) \in Row
      /\ Completed(w) \in Row /\ Failed(w) \in Row
  BY <1>0, <1>1, NewRowType
<1>5. CASE Lookup(w)
  <2>1. /\ \A v \in Workers \ {w} : run'[v] = run[v]
        /\ run'[w].pc \in {"mark", "idle"} /\ run[w].pc = "lookup"
    BY <1>0, <1>5 DEF Lookup, Goto, Release, NoRun, Run
  <2>2. /\ rows' = rows
        /\ \A k \in Jobs \ {j} : rec'[k] = rec[k]
    BY <1>0, <1>5 DEF Lookup, Rehydrate, durable, records
  <2> QED
    BY <1>2, <2>1, <2>2
<1>6. CASE MarkRunning(w)
  <2> DEFINE new == [rec[j] EXCEPT !.status = "running"]
  <2>1. /\ \A v \in Workers \ {w} : run'[v] = run[v]
        /\ run'[w].pc \in {"fail", "yield"} /\ run[w].pc = "mark"
        /\ run'[w].split = run[w].split
    BY <1>0, <1>6 DEF MarkRunning, StartRun, Run
  <2>2. Write(w, new)
    BY <1>6 DEF MarkRunning
  <2>3. new.status = "running"
    BY <1>0, <1>1 DEF Row
  <2> HIDE DEF new
  <2>4. /\ rows'[j] = rows[j] \/ rows'[j] = new
        /\ ~run[w].split => rec'[j] = new
        /\ \A k \in Jobs \ {j} : rec'[k] = rec[k]
    BY <1>0, <1>1, <1>4, <2>2, WriteEffect DEF new
  <2> QED
    BY <1>2, <2>1, <2>3, <2>4
<1>7. CASE Yield(w)
  <2>1. /\ \A v \in Workers \ {w} : run'[v] = run[v]
        /\ run'[w].pc \in {"deliver", "node"} /\ run[w].pc = "yield"
        /\ run'[w].split = run[w].split
    BY <1>0, <1>7 DEF Yield, Run
  <2>2. CASE IsNew(w)
    <3>1. Write(w, Progressed(w))
      BY <1>7, <2>2 DEF Yield
    <3>2. Progressed(w).status = rec[j].status
      BY <1>0, <1>1 DEF Row, Progressed
    <3>3. /\ rows'[j] = rows[j] \/ rows'[j] = Progressed(w)
          /\ ~run[w].split => rec'[j] = Progressed(w)
          /\ \A k \in Jobs \ {j} : rec'[k] = rec[k]
      BY <1>0, <1>1, <1>4, <2>2, <3>1, WriteEffect
    <3>4. run[w].split => rows' = rows
      BY <3>1 DEF Write
    <3> QED
      BY <1>2, <1>3, <2>1, <3>2, <3>3, <3>4
  <2>3. CASE ~IsNew(w)
    BY <1>2, <1>3, <1>7, <2>1, <2>3 DEF Yield
  <2> QED
    BY <2>2, <2>3
<1>8. CASE RunNode(w) \/ NodeRaises(w) \/ Deliver(w) \/ DeliverRaises(w)
           \/ Publish(w) \/ PublishRaises(w) \/ Checkpoint(w)
  <2>1. rows' = rows /\ rec' = rec
    BY <1>8 DEF RunNode, NodeRaises, Deliver, DeliverRaises, Publish, PublishRaises,
                Checkpoint, durable, records
  <2>2. /\ \A v \in Workers \ {w} : run'[v] = run[v]
        /\ run'[w].pc \in Undecided => run'[w].split = run[w].split /\ run[w].pc \in Undecided
        /\ run'[w].pc \in {"yield", "node", "deliver"} => run[w].pc \in {"yield", "node", "deliver"}
    <3>1. CASE RunNode(w)
      BY <1>0, <3>1 DEF RunNode, Run
    <3>2. CASE Checkpoint(w)
      BY <1>0, <3>2 DEF Checkpoint, Run
    <3>3. CASE NodeRaises(w) \/ Deliver(w) \/ DeliverRaises(w) \/ Publish(w) \/ PublishRaises(w)
      BY <1>0, <3>3
      DEF NodeRaises, Deliver, DeliverRaises, Publish, PublishRaises, Goto, Release, NoRun, Run
    <3> QED
      BY <1>8, <3>1, <3>2, <3>3
  <2> QED
    BY <1>2, <1>3, <2>1, <2>2
<1>9. CASE Finish(w) \/ Fail(w)
  <2>1. /\ \A v \in Workers \ {w} : run'[v] = run[v]
        /\ run'[w].pc \notin Undecided
    BY <1>0, <1>9 DEF Finish, Fail, Goto, Release, NoRun, Run
  <2>2. Completed(w).status = "completed" /\ Failed(w).status = "failed"
    BY <1>0, <1>1 DEF Row, Completed, Failed
  <2>3. /\ rows'[j] = rows[j] \/ rows'[j] = Completed(w) \/ rows'[j] = Failed(w)
        /\ \A k \in Jobs \ {j} : rec'[k] = rec[k]
    BY <1>0, <1>1, <1>4, <1>9, WriteEffect DEF Finish, Fail
  <2> QED
    BY <2>1, <2>2, <2>3
<1>10. CASE MarkRaises(w) \/ YieldRaises(w) \/ FinishRaises(w) \/ FailRaises(w)
  <2>1. /\ \A v \in Workers \ {w} : run'[v] = run[v]
        /\ run'[w].pc \notin Undecided
    BY <1>0, <1>10 DEF MarkRaises, YieldRaises, FinishRaises, FailRaises, Goto, Run
  <2>2. rows' = rows /\ \A k \in Jobs \ {j} : rec'[k] = rec[k]
    BY <1>0, <1>10 DEF MarkRaises, YieldRaises, FinishRaises, FailRaises, WriteRaises
  <2> QED
    BY <2>1, <2>2
<1>11. CASE CredentialsRaise(w)
  <2>1. /\ \A v \in Workers \ {w} : run'[v] = run[v]
        /\ run'[w].pc \notin Undecided /\ run[w].pc \in Undecided
    BY <1>0, <1>11 DEF CredentialsRaise, Goto, Run
  <2>2. \A k \in Jobs \ {j} : rec'[k] = rec[k]
    BY <1>0, <1>1, <1>4, <1>11, WriteEffect DEF CredentialsRaise
  <2> QED
    BY <1>2, <2>1, <2>2
<1> QED
  BY <1>5, <1>6, <1>7, <1>8, <1>9, <1>10, <1>11 DEF Busy, WorkRaises

LEMMA FinalBusy ==
  ASSUME FinalInv, OwnerInv', NEW w \in Workers, Busy(w)
  PROVE  FinalInv' /\ Final
<1> DEFINE j == run[w].job
<1>1. OwnRow(w)
  BY BusyOwnRow
<1>2. /\ NoNewHolder /\ run[w].pc # "idle" /\ j \in Jobs
      /\ UNCHANGED <<queue, api, recq, server, stamp>>
      /\ \A k \in Jobs \ {j} : rows'[k] = rows[k]
  BY BusyEffect DEF FinalInv, OwnerInv
<1>3. Holds(w, j)
  BY <1>2 DEF Holds
<1>4. /\ ~InQueue(j) /\ j \notin recq /\ ~Adding(j)
      /\ \A v \in Workers \ {w} : run[v].pc # "idle" => run[v].job # j /\ run[v].job \in Jobs
  BY <1>2, <1>3 DEF FinalInv, OwnerInv, SingleOwner, TypeInv, Shape, Holds
<1>5. \A k \in Jobs : (InQueue(k)' => InQueue(k)) /\ (Adding(k)' => Adding(k))
  BY <1>2 DEF InQueue, Adding
<1>6. Unfinished'
  <2>1. ASSUME NEW k \in Jobs, InQueue(k)' \/ k \in recq' \/ Adding(k)'
        PROVE  rows'[k].status \notin Terminal
    BY <1>2, <1>4, <1>5, <2>1 DEF FinalInv, Unfinished
  <2>2. ASSUME NEW v \in Workers, run'[v].pc \in Undecided
        PROVE  rows'[run'[v].job].status \notin Terminal
    BY <1>1, <1>2, <1>4, <2>2 DEF FinalInv, Unfinished, OwnRow, NoNewHolder, Undecided
  <2> QED
    BY <2>1, <2>2 DEF Unfinished
<1>7. RecordOpen'
  <2>1. api'.pc = "persist" => rec'[api'.job].status = "queued"
    BY <1>1, <1>2, <1>4 DEF FinalInv, OwnerInv, TypeInv, Shape, RecordOpen, OwnRow, Adding
  <2>2. ASSUME NEW v \in Workers,
               run'[v].pc \in {"yield", "node", "deliver"}, ~run'[v].split
        PROVE  rec'[run'[v].job].status = "running"
    BY <1>1, <1>2, <1>4, <2>2 DEF FinalInv, RecordOpen, OwnRow, NoNewHolder
  <2> QED
    BY <2>1, <2>2 DEF RecordOpen
<1>8. Final
  BY <1>1, <1>2 DEF Final, OwnRow
<1> QED
  BY <1>6, <1>7, <1>8 DEF FinalInv

LEMMA FinalDequeue ==
  ASSUME FinalInv, OwnerInv', NEW w \in Workers, Dequeue(w)
  PROVE  FinalInv' /\ Final
<1>0. queue \in Seq(Item) /\ queue # << >> /\ run \in [Workers -> Run]
  BY DEF FinalInv, OwnerInv, TypeInv, TypeOK, Dequeue
<1> DEFINE j == queue[1].job
<1>1. j \in Jobs /\ InQueue(j)
  <2>1. 1 \in DOMAIN queue /\ queue[1] \in Item
    BY <1>0, TailItem
  <2> QED
    BY <2>1 DEF Item, InQueue
<1>2. /\ \A v \in Workers \ {w} : run'[v] = run[v]
      /\ run'[w].job = j /\ run'[w].pc = "lookup"
      /\ queue' = Tail(queue)
      /\ UNCHANGED <<rows, rec, api, recq>>
  BY <1>0, TailItem DEF Dequeue, NoRun, durable, records, process
<1>3. /\ \A k \in Jobs : InQueue(k)' => InQueue(k)
      /\ \A k \in Jobs : Adding(k)' => Adding(k)
  BY <1>0, <1>2, TailItem DEF InQueue, Adding
<1>4. Unfinished'
  BY <1>1, <1>2, <1>3 DEF FinalInv, Unfinished
<1>5. RecordOpen'
  BY <1>2 DEF FinalInv, RecordOpen
<1>6. Final
  BY <1>2 DEF Final
<1> QED
  BY <1>4, <1>5, <1>6 DEF FinalInv

LEMMA FinalApi ==
  ASSUME FinalInv, OwnerInv',
         (\E j \in Jobs : Submit(j) \/ GetJob(j)) \/ Add \/ AddRaises
  PROVE  FinalInv' /\ Final
<1> USE DEF durable, records, process, counters, Terminal
<1>0. /\ TypeInv /\ queue \in Seq(Item) /\ rows \in [Jobs -> Row] /\ rec \in [Jobs -> Row]
      /\ api \in [pc : ApiPC, job : Jobs \cup {NoJob}, victims : SUBSET Jobs, todo : SUBSET Jobs]
  BY DEF FinalInv, OwnerInv, TypeInv, TypeOK
<1>1. ASSUME NEW j \in Jobs, Submit(j) PROVE FinalInv' /\ Final
  <2>1. /\ rec' = [rec EXCEPT ![j] = Queued]
        /\ api'.job = j /\ api'.pc = "persist" /\ stamp[j] = 0
        /\ UNCHANGED <<rows, queue, run, recq>>
    BY <1>1 DEF Submit, NoApi
  <2>2. rows[j].status = "absent" /\ \A w \in Workers : ~Holds(w, j)
    BY <2>1 DEF FinalInv, OwnerInv, Stamped
  <2>3. Queued.status = "queued" /\ "absent" \notin Terminal
    BY DEF Queued, NoRow
  <2>4. /\ \A k \in Jobs : InQueue(k)' => InQueue(k)
        /\ \A k \in Jobs : Adding(k)' => k = j
    BY <2>1 DEF InQueue, Adding
  <2>5. Unfinished'
    BY <2>1, <2>2, <2>3, <2>4 DEF FinalInv, Unfinished
  <2>6. ASSUME NEW w \in Workers, run[w].pc \in {"yield", "node", "deliver"}
        PROVE  rec'[run[w].job] = rec[run[w].job]
    BY <1>0, <2>1, <2>2, <2>6 DEF Holds, TypeInv, Shape
  <2>7. RecordOpen'
    BY <1>0, <2>1, <2>3, <2>6 DEF FinalInv, RecordOpen
  <2> QED
    BY <2>1, <2>5, <2>7 DEF FinalInv, Final
<1>2. ASSUME NEW j \in Jobs, GetJob(j) PROVE FinalInv' /\ Final
  <2>1. \A w \in Workers : run'[w].pc = run[w].pc /\ run'[w].job = run[w].job
    BY <1>0, <1>2, GetJobRuns
  <2>2. UNCHANGED <<queue, recq, api, rows>> /\ api.pc = "idle"
        /\ \A k \in Jobs \ {j} : rec'[k] = rec[k]
    BY <1>0, <1>2 DEF GetJob, Rehydrate
  <2>3. ASSUME NEW w \in Workers,
               run[w].pc \in {"yield", "node", "deliver"}, ~run'[w].split
        PROVE  run[w].job # j /\ ~run[w].split
    BY <1>0, <1>2, <2>3, GetJobSplits
  <2>4. /\ \A k \in Jobs : InQueue(k)' => InQueue(k)
        /\ \A k \in Jobs : Adding(k)' => Adding(k)
    BY <2>2 DEF InQueue, Adding
  <2>5. Unfinished'
    BY <2>1, <2>2, <2>4 DEF FinalInv, Unfinished
  <2>6. RecordOpen'
    BY <1>0, <2>1, <2>2, <2>3 DEF FinalInv, RecordOpen, TypeInv, Shape
  <2> QED
    BY <2>2, <2>5, <2>6 DEF FinalInv, Final
<1>3. CASE Enqueue
  <2> DEFINE j == api.job
             item == [job |-> j, resume |-> FALSE]
  <2>1. j \in Jobs /\ Adding(j) /\ item \in Item /\ item.job = j
    BY <1>0, <1>3 DEF Enqueue, TypeInv, Shape, Item, Adding
  <2>2. queue' = Append(queue, item) /\ api'.pc = "idle"
        /\ UNCHANGED <<rows, rec, run, recq>>
    BY <1>3 DEF Enqueue, NoApi
  <2> HIDE DEF item
  <2>3. /\ \A k \in Jobs : InQueue(k)' => InQueue(k) \/ k = j
        /\ \A k \in Jobs : ~Adding(k)'
    BY <1>0, <2>1, <2>2, AppendItem DEF InQueue, Adding
  <2>4. Unfinished'
    BY <2>1, <2>2, <2>3 DEF FinalInv, Unfinished
  <2> QED
    BY <2>2, <2>4 DEF FinalInv, RecordOpen, Final
<1>4. CASE PersistInitial
  <2> DEFINE j == api.job
  <2>1. j \in Jobs /\ Adding(j) /\ rec[j].status = "queued" /\ rows[j].status \notin Terminal
    BY <1>0, <1>4 DEF PersistInitial, FinalInv, Unfinished, RecordOpen, TypeInv, Shape, Adding
  <2>2. /\ rec' = rec /\ UNCHANGED <<queue, run, recq>>
        /\ rows'[j] = rows[j] \/ rows'[j] = rec[j]
        /\ \A k \in Jobs \ {j} : rows'[k] = rows[k]
        /\ api'.pc = "prune" /\ api'.job = j
    BY <1>0, <1>4 DEF PersistInitial, Mutate
  <2>3. /\ \A k \in Jobs : InQueue(k)' => InQueue(k)
        /\ \A k \in Jobs : Adding(k)' => Adding(k)
    BY <1>4, <2>2 DEF InQueue, Adding, PersistInitial
  <2>4. Unfinished'
    <3>1. \A k \in Jobs : rows[k].status \notin Terminal => rows'[k].status \notin Terminal
      BY <2>1, <2>2
    <3>2. \A w \in Workers : run[w].pc \in Undecided => run[w].job \in Jobs
      BY <1>0 DEF TypeInv, Shape, Undecided
    <3> QED
      BY <2>2, <2>3, <3>1, <3>2 DEF FinalInv, Unfinished
  <2>5. Final
    BY <2>1, <2>2 DEF Final
  <2> QED
    BY <2>2, <2>4, <2>5 DEF FinalInv, RecordOpen
<1>5. CASE FirstPrune \/ Evict \/ Detach \/ SecondPrune \/ DeleteThreads \/ AddRaises
  <2>1. UNCHANGED <<rec, queue, run, recq>>
    BY <1>5 DEF FirstPrune, Evict, Detach, SecondPrune, DeleteThreads, AddRaises
  <2>2. api.pc # "idle" /\ api'.pc # "persist" /\ (api'.pc # "idle" => api'.job = api.job)
    <3>1. CASE FirstPrune \/ Evict
      BY <1>0, <3>1 DEF FirstPrune, Evict
    <3>2. CASE Detach
      BY <1>0, <3>2 DEF Detach
    <3>3. CASE SecondPrune \/ DeleteThreads
      BY <1>0, <3>3 DEF SecondPrune, DeleteThreads
    <3>4. CASE AddRaises
      BY <3>4 DEF AddRaises, NoApi
    <3> QED
      BY <1>5, <3>1, <3>2, <3>3, <3>4
  <2>3. \A k \in Jobs : rows'[k] = rows[k] \/ rows'[k].status = "absent"
    BY <1>0, <1>5 DEF FirstPrune, Evict, Detach, SecondPrune, DeleteThreads, AddRaises, NoRow
  <2>4. /\ \A k \in Jobs : InQueue(k)' => InQueue(k)
        /\ \A k \in Jobs : Adding(k)' => Adding(k)
    BY <2>1, <2>2 DEF InQueue, Adding
  <2>5. ASSUME NEW w \in Workers, run'[w].pc \in Undecided
        PROVE  rows'[run'[w].job].status \notin Terminal
    BY <1>0, <2>1, <2>3, <2>5 DEF FinalInv, Unfinished, Undecided, TypeInv, Shape
  <2>6. Unfinished'
    BY <2>1, <2>3, <2>4, <2>5 DEF FinalInv, Unfinished
  <2>7. RecordOpen'
    BY <2>1, <2>2 DEF FinalInv, RecordOpen
  <2> QED
    BY <2>3, <2>6, <2>7 DEF FinalInv, Final
<1> QED
  BY <1>1, <1>2, <1>3, <1>4, <1>5 DEF Add

LEMMA FinalStartup ==
  ASSUME FinalInv, OwnerInv', Startup \/ Crash \/ \E j \in Jobs : RecoverRaises(j)
  PROVE  FinalInv' /\ Final
<1> USE DEF durable, records, process, counters, Terminal
<1>0. /\ TypeInv /\ queue \in Seq(Item) /\ rows \in [Jobs -> Row] /\ rec \in [Jobs -> Row]
  BY DEF FinalInv, OwnerInv, TypeInv, TypeOK
<1>1. CASE Restart
  <2>1. /\ UNCHANGED <<rows, rec, queue, run, api>> /\ queue = << >> /\ recq' = Nonterminal
        /\ api.pc = "idle" /\ \A w \in Workers : run[w].pc = "idle"
    BY <1>1 DEF Restart, FinalInv, OwnerInv, Quiet
  <2>2. \A j \in Jobs : ~InQueue(j)' /\ ~Adding(j)'
    BY <2>1 DEF InQueue, Adding
  <2>3. Unfinished'
    BY <2>1, <2>2 DEF Unfinished, Nonterminal, Undecided
  <2> QED
    BY <2>1, <2>3 DEF FinalInv, RecordOpen, Final
<1>2. CASE Serve
  <2>1. UNCHANGED <<rows, rec, queue, run, api, recq>>
    BY <1>2 DEF Serve
  <2>2. \A j \in Jobs : (InQueue(j)' => InQueue(j)) /\ (Adding(j)' => Adding(j))
    BY <2>1 DEF InQueue, Adding
  <2>3. Unfinished'
    BY <2>1, <2>2 DEF FinalInv, Unfinished
  <2> QED
    BY <2>1, <2>3 DEF FinalInv, RecordOpen, Final
<1>3. ASSUME NEW j \in Jobs, Recover(j) PROVE FinalInv' /\ Final
  <2> DEFINE row == IF Resumable(j) THEN rows[j] ELSE Reset(j)
             item == [job |-> j, resume |-> Resumable(j)]
  <2>1. j \in recq /\ item \in Item /\ item.job = j
    BY <1>3 DEF Recover, IsNext, Item, Resumable
  <2>2. /\ rec' = [rec EXCEPT ![j] = row] /\ rows' = [rows EXCEPT ![j] = row]
        /\ queue' = Append(queue, item) /\ recq' = recq \ {j}
        /\ UNCHANGED <<run, api>>
    BY <1>3 DEF Recover
  <2>3. rows[j].status \notin Terminal /\ row.status \notin Terminal
    <3>1. rows[j].status \notin Terminal
      BY <2>1 DEF FinalInv, Unfinished
    <3>2. Reset(j).status = "queued"
      BY <1>0 DEF Reset, Row
    <3> QED
      BY <3>1, <3>2
  <2>4. ~Adding(j) /\ \A w \in Workers : ~Holds(w, j)
    BY <2>1 DEF FinalInv, OwnerInv, SingleOwner
  <2> HIDE DEF item, row
  <2>5. /\ \A k \in Jobs : InQueue(k)' => InQueue(k) \/ k = j
        /\ \A k \in Jobs : Adding(k)' => Adding(k)
    BY <1>0, <2>1, <2>2, AppendItem DEF InQueue, Adding
  <2>6. \A w \in Workers : run[w].pc # "idle" => run[w].job # j /\ run[w].job \in Jobs
    BY <1>0, <2>4 DEF Holds, TypeInv, Shape
  <2>7. \A k \in Jobs : k # j => rows'[k] = rows[k] /\ rec'[k] = rec[k]
    BY <1>0, <2>2
  <2>8. rows'[j] = row
    BY <1>0, <2>2
  <2>9. Unfinished'
    <3>1. ASSUME NEW k \in Jobs, InQueue(k)' \/ k \in recq' \/ Adding(k)'
          PROVE  rows'[k].status \notin Terminal
      BY <2>2, <2>3, <2>5, <2>7, <2>8, <3>1 DEF FinalInv, Unfinished
    <3>2. ASSUME NEW w \in Workers, run'[w].pc \in Undecided
          PROVE  rows'[run'[w].job].status \notin Terminal
      BY <2>2, <2>6, <2>7, <3>2 DEF FinalInv, Unfinished, Undecided
    <3> QED
      BY <3>1, <3>2 DEF Unfinished
  <2>10. RecordOpen'
    BY <1>0, <2>2, <2>4, <2>6, <2>7
    DEF FinalInv, RecordOpen, Adding, TypeInv, Shape
  <2>11. Final
    BY <2>3, <2>7 DEF Final
  <2> QED
    BY <2>9, <2>10, <2>11 DEF FinalInv
<1>4. CASE Die
  <2>1. /\ queue' = << >> /\ recq' = {} /\ api'.pc = "idle" /\ rows' = rows
        /\ \A w \in Workers : run'[w].pc = "idle"
    BY <1>4 DEF Die, NoApi, NoRun
  <2>2. \A j \in Jobs : ~InQueue(j)' /\ ~Adding(j)'
    BY <2>1 DEF InQueue, Adding
  <2>3. Unfinished' /\ RecordOpen' /\ Final
    BY <2>1, <2>2 DEF Unfinished, RecordOpen, Final, Undecided
  <2> QED
    BY <2>3 DEF FinalInv
<1> QED
  BY <1>1, <1>2, <1>3, <1>4 DEF Startup, Crash, RecoverRaises

LEMMA FinalNext == FinalInv /\ [Next]_vars => FinalInv' /\ Final
<1> SUFFICES ASSUME FinalInv, [Next]_vars PROVE FinalInv' /\ Final
  OBVIOUS
<1>1. OwnerInv'
  BY OwnerNext DEF FinalInv
<1>2. CASE UNCHANGED vars
  BY <1>1, <1>2 DEF FinalInv, Unfinished, RecordOpen, Final, InQueue, Adding, vars
<1>3. CASE Next
  BY <1>1, <1>3, FinalApi, FinalBusy, FinalDequeue, FinalStartup DEF Next, Work, Busy
<1> QED
  BY <1>2, <1>3

(* No interleaving of threads, crash, recovery or raising call takes a job *)
(* out of a terminal state, other than the retention prune.                *)
THEOREM TerminalStays == Spec => TerminalIsFinal
<1>1. FinalInv /\ [Next]_vars => [Final]_vars
  BY FinalNext
<1>2. [Final]_vars => [\A j \in Jobs :
       rows[j].status \in Terminal => rows'[j].status \in Terminal \cup {"absent"}]_vars
  BY DEF Final
<1> QED
  BY FinalInit, FinalNext, <1>1, <1>2, PTL DEF Spec, TerminalIsFinal

-----------------------------------------------------------------------------
(* What a busy thread writes *)

(* What a thread's write makes of the record it holds: which status at     *)
(* which point of the run, never less progress, and a report only at the   *)
(* end of a run that reached one.                                          *)
Advances(w, new) ==
  LET old == rec[run[w].job]
  IN  /\ Len(old.done) <= Len(new.done)
      /\ new.report => old.report \/ (At(w, "finish") /\ run[w].g.out = "report")
      /\ \/ At(w, "mark") /\ new.status = "running"
         \/ At(w, "yield") /\ new.status = old.status
         \/ At(w, "finish") /\ new.status = "completed"
         \/ At(w, "fail") /\ new.status = "failed"

(* A busy thread leaves rows and records alone, looks its job up, or makes *)
(* one such write, which may raise.                                        *)
BusyWrite(w) ==
  \/ UNCHANGED <<rows, records>>
  \/ Lookup(w)
  \/ \E new \in Row :
       /\ Advances(w, new)
       /\ Write(w, new) \/ WriteRaises(w, new)
       /\ UNCHANGED <<live, attached>>

LEMMA AppendLen ==
  ASSUME NEW s \in Seq(Nodes), NEW x \in Nodes
  PROVE  Len(s) \in Nat /\ Len(Append(s, x)) = Len(s) + 1
OBVIOUS

LEMMA BusyWrites ==
  ASSUME TypeInv, NEW w \in Workers, Busy(w)
  PROVE  BusyWrite(w)
<1> DEFINE old == rec[run[w].job]
<1>0. run[w].pc # "idle" /\ old \in Row
  BY BusyEffect DEF TypeInv, TypeOK
<1>1. old.done \in Seq(Nodes) /\ Len(old.done) \in Nat
  BY <1>0 DEF Row
<1> DEFINE marked == [old EXCEPT !.status = "running"]
<1>2. /\ marked \in Row
      /\ IsNew(w) => Progressed(w) \in Row
      /\ Completed(w) \in Row /\ Failed(w) \in Row
  BY <1>0, NewRowType
<1>3. marked.status = "running" /\ marked.done = old.done /\ marked.report = old.report
  BY <1>0 DEF Row
<1>4. /\ Completed(w).status = "completed" /\ Completed(w).done = old.done
      /\ Completed(w).report => run[w].g.out = "report"
  BY <1>0 DEF Row, Completed
<1>5. /\ Failed(w).status = "failed" /\ Failed(w).done = old.done /\ ~Failed(w).report
  BY <1>0 DEF Row, Failed
<1>6. IsNew(w) => /\ Len(Progressed(w).done) = Len(old.done) + 1
                  /\ Progressed(w).status = old.status /\ Progressed(w).report = old.report
  <2>1. SUFFICES ASSUME IsNew(w) PROVE /\ Len(Progressed(w).done) = Len(old.done) + 1
                  /\ Progressed(w).status = old.status /\ Progressed(w).report = old.report
    OBVIOUS
  <2>2. run[w].g.pos \in Nodes
    BY <2>1 DEF IsNew
  <2>3. /\ Progressed(w).done = Append(old.done, run[w].g.pos)
        /\ Progressed(w).status = old.status /\ Progressed(w).report = old.report
    BY <1>0 DEF Row, Progressed
  <2> QED
    BY <1>1, <2>2, <2>3, AppendLen
<1>7. CASE MarkRunning(w) \/ MarkRaises(w) \/ CredentialsRaise(w)
  <2>1. Advances(w, marked)
    BY <1>1, <1>3, <1>7 DEF Advances, MarkRunning, MarkRaises, CredentialsRaise
  <2> QED
    BY <1>2, <1>7, <2>1 DEF BusyWrite, MarkRunning, MarkRaises, CredentialsRaise
<1>8. CASE (Yield(w) /\ IsNew(w)) \/ YieldRaises(w)
  <2>1. IsNew(w) /\ At(w, "yield")
    BY <1>8 DEF Yield, YieldRaises
  <2>2. Advances(w, Progressed(w))
    BY <1>1, <1>6, <2>1 DEF Advances
  <2> QED
    BY <1>2, <1>8, <2>1, <2>2 DEF BusyWrite, Yield, YieldRaises
<1>9. CASE Finish(w) \/ FinishRaises(w)
  <2>1. Advances(w, Completed(w))
    BY <1>1, <1>4, <1>9 DEF Advances, Finish, FinishRaises
  <2> QED
    BY <1>2, <1>9, <2>1 DEF BusyWrite, Finish, FinishRaises
<1>10. CASE Fail(w) \/ FailRaises(w)
  <2>1. Advances(w, Failed(w))
    BY <1>1, <1>5, <1>10 DEF Advances, Fail, FailRaises
  <2> QED
    BY <1>2, <1>10, <2>1 DEF BusyWrite, Fail, FailRaises
<1>11. CASE Yield(w) /\ ~IsNew(w)
  BY <1>11 DEF BusyWrite, Yield, records
<1>12. CASE RunNode(w) \/ NodeRaises(w) \/ Deliver(w) \/ DeliverRaises(w)
            \/ Publish(w) \/ PublishRaises(w) \/ Checkpoint(w)
  BY <1>12 DEF BusyWrite, RunNode, NodeRaises, Deliver, DeliverRaises, Publish,
               PublishRaises, Checkpoint, durable, records
<1> QED
  BY <1>7, <1>8, <1>9, <1>10, <1>11, <1>12 DEF Busy, WorkRaises, BusyWrite

(* The same for a thread's effect on the jobs it does not hold.            *)
LEMMA BusyOthers ==
  ASSUME TypeInv, NEW w \in Workers, Busy(w)
  PROVE  \A j \in Jobs \ {run[w].job} :
           /\ rows'[j] = rows[j] /\ rec'[j] = rec[j]
           /\ (j \in live' <=> j \in live) /\ (j \in attached' <=> j \in attached)
<1>1. BusyWrite(w) /\ run[w].pc # "idle" /\ \A j \in Jobs \ {run[w].job} : rows'[j] = rows[j]
  BY BusyWrites, BusyEffect
<1>2. CASE UNCHANGED <<rows, records>>
  BY <1>2 DEF records
<1>3. CASE Lookup(w)
  BY <1>1, <1>3 DEF Lookup, Rehydrate, records, TypeInv, TypeOK
<1>4. ASSUME NEW new \in Row, Write(w, new) \/ WriteRaises(w, new), UNCHANGED <<live, attached>>
      PROVE  \A j \in Jobs \ {run[w].job} : rec'[j] = rec[j]
  BY <1>1, <1>4, WriteEffect
<1> QED
  BY <1>1, <1>2, <1>3, <1>4 DEF BusyWrite

-----------------------------------------------------------------------------
(* Recorded progress is kept *)

(* A row that is queued records no progress, a record with a store handle  *)
(* is never behind its row, and the record being added has none.           *)
RowsGrow ==
  /\ \A j \in Jobs : rows[j].status \in {"absent", "queued"} => rows[j].done = << >>
  /\ \A j \in attached : Len(rows[j].done) <= Len(rec[j].done)
  /\ api.pc = "persist" => rec[api.job].done = << >>

(* What one step may do to the recorded progress. *)
Kept ==
  \A j \in Jobs :
    Len(rows'[j].done) < Len(rows[j].done) => j \notin Stored' \/ ckpt[j] = NoCkpt

LEMMA Lengths ==
  ASSUME TypeInv
  PROVE  /\ \A j \in Jobs : Len(rows[j].done) \in Nat /\ Len(rec[j].done) \in Nat
         /\ Len(<< >>) = 0
<1>1. \A j \in Jobs : rows[j].done \in Seq(Nodes) /\ rec[j].done \in Seq(Nodes)
  BY DEF TypeInv, TypeOK, Row
<1> QED
  BY <1>1

LEMMA KeptInit == Init => RowsGrow
BY DEF Init, RowsGrow, NoRow, NoApi

(* A step that leaves rows and records alone and attaches none. *)
LEMMA KeptStill ==
  ASSUME FinalInv, RowsGrow, UNCHANGED <<rows, rec>>, attached' \subseteq attached,
         api'.pc = "persist" => api.pc = "persist" /\ api'.job = api.job
  PROVE  RowsGrow' /\ Kept
<1>1. \A j \in Jobs : Len(rows[j].done) \in Nat
  BY Lengths DEF FinalInv, OwnerInv
<1> QED
  BY <1>1 DEF RowsGrow, Kept

(* A step that prunes the table. *)
LEMMA KeptPrune ==
  ASSUME FinalInv, RowsGrow, UNCHANGED <<rec, attached>>, api'.pc # "persist",
         \A j \in Jobs : rows'[j] \in {rows[j], NoRow}
  PROVE  RowsGrow' /\ Kept
<1>1. TypeInv /\ attached \subseteq Jobs
  BY DEF FinalInv, OwnerInv, TypeInv, TypeOK
<1>2. /\ \A j \in Jobs : Len(rows[j].done) \in Nat /\ Len(rec[j].done) \in Nat
      /\ Len(NoRow.done) = 0 /\ NoRow.done = << >> /\ NoRow.status = "absent"
  BY <1>1, Lengths DEF NoRow
<1> QED
  BY <1>1, <1>2 DEF RowsGrow, Kept, Stored

(* A step that stores a record under its job with the row it already has,  *)
(* or one that is not behind it, or with the row's progress reset.         *)
LEMMA KeptSet ==
  ASSUME FinalInv, RowsGrow, NEW j \in Jobs, NEW new \in Row,
         rec' = [rec EXCEPT ![j] = new], rows' \in {rows, [rows EXCEPT ![j] = new]},
         attached' \subseteq attached \cup {j},
         Len(rows'[j].done) <= Len(new.done),
         rows' # rows /\ new.status \in {"absent", "queued"} => new.done = << >>,
         \/ Len(rows[j].done) <= Len(rows'[j].done)
         \/ ckpt[j] = NoCkpt,
         api'.pc = "persist" =>
           \/ api'.job = j /\ new.done = << >>
           \/ api.pc = "persist" /\ api'.job = api.job /\ api.job # j
  PROVE  RowsGrow' /\ Kept
<1>1. TypeInv /\ rows \in [Jobs -> Row] /\ rec \in [Jobs -> Row] /\ attached \subseteq Jobs
  BY DEF FinalInv, OwnerInv, TypeInv, TypeOK
<1>2. \A k \in Jobs : Len(rows[k].done) \in Nat /\ Len(rec[k].done) \in Nat
  BY <1>1, Lengths
<1>3. \A k \in Jobs \ {j} : rows'[k] = rows[k] /\ rec'[k] = rec[k]
  BY <1>1
<1>4. rec'[j] = new /\ (rows'[j] = rows[j] \/ (rows' # rows /\ rows'[j] = new))
  BY <1>1
<1>5. \A k \in Jobs : rows'[k].status \in {"absent", "queued"} => rows'[k].done = << >>
  BY <1>3, <1>4 DEF RowsGrow
<1>6. \A k \in attached' : Len(rows'[k].done) <= Len(rec'[k].done)
  BY <1>1, <1>3, <1>4 DEF RowsGrow
<1>7. api'.pc = "persist" => rec'[api'.job].done = << >>
  <2>1. api.pc = "persist" => api.job \in Jobs
    BY <1>1 DEF TypeInv, Shape
  <2> QED
    BY <1>3, <1>4, <2>1 DEF RowsGrow
<1>8. Kept
  <2>1. new.done \in Seq(Nodes) /\ Len(new.done) \in Nat
    BY DEF Row
  <2>2. Len(rows'[j].done) \in Nat
    BY <1>2, <1>4, <2>1
  <2>3. Len(rows'[j].done) < Len(rows[j].done) => ckpt[j] = NoCkpt
    BY <1>2, <2>2
  <2> QED
    BY <1>2, <1>3, <2>3 DEF Kept
<1> QED
  BY <1>5, <1>6, <1>7, <1>8 DEF RowsGrow

LEMMA KeptBusy ==
  ASSUME FinalInv, RowsGrow, NEW w \in Workers, Busy(w)
  PROVE  RowsGrow' /\ Kept
<1> DEFINE j == run[w].job
<1>1. TypeInv /\ rows \in [Jobs -> Row] /\ rec \in [Jobs -> Row] /\ attached \subseteq Jobs
  BY DEF FinalInv, OwnerInv, TypeInv, TypeOK
<1>2. BusyWrite(w) /\ run[w].pc # "idle" /\ j \in Jobs /\ api' = api
  BY <1>1, BusyWrites, BusyEffect
<1>3. ~Adding(j)
  BY <1>2 DEF FinalInv, OwnerInv, SingleOwner, Holds
<1>4. api.pc = "persist" => api.job # j
  BY <1>3 DEF Adding
<1>5. CASE UNCHANGED <<rows, records>>
  BY <1>2, <1>5, KeptStill DEF records
<1>6. Len(rows[j].done) \in Nat /\ Len(rec[j].done) \in Nat
  BY <1>1, <1>2, Lengths
<1>7. CASE Lookup(w)
  <2>1. rows' = rows
    BY <1>7 DEF Lookup, durable
  <2>2. CASE j \in live \/ j \notin Stored
    BY <1>2, <1>7, <2>1, <2>2, KeptStill DEF Lookup, Rehydrate, records
  <2>3. CASE ~(j \in live \/ j \notin Stored)
    <3>1. rec' = [rec EXCEPT ![j] = rows[j]] /\ attached' = attached \cup {j}
      BY <1>7, <2>3 DEF Lookup, Rehydrate
    <3>2. rows[j] \in Row
      BY <1>1, <1>2
    <3>3. Len(rows'[j].done) <= Len(rows[j].done) /\ Len(rows[j].done) <= Len(rows'[j].done)
      BY <1>6, <2>1
    <3>4. rows' \in {rows, [rows EXCEPT ![j] = rows[j]]} /\ ~(rows' # rows)
      BY <2>1
    <3>5. api'.pc = "persist" => api.pc = "persist" /\ api'.job = api.job /\ api.job # j
      BY <1>2, <1>4
    <3> QED
      BY <1>2, <3>1, <3>2, <3>3, <3>4, <3>5, KeptSet
  <2> QED
    BY <2>2, <2>3
<1>8. ASSUME NEW new \in Row, Advances(w, new), Write(w, new) \/ WriteRaises(w, new),
             UNCHANGED <<live, attached>>
      PROVE  RowsGrow' /\ Kept
  <2>1. CASE UNCHANGED <<rows, rec>>
    BY <1>2, <1>8, <2>1, KeptStill
  <2>2. CASE ~UNCHANGED <<rows, rec>>
    <3>1. /\ ~run[w].split
          /\ rec' = [rec EXCEPT ![j] = new]
          /\ rows' = rows \/ (j \in attached /\ rows' = [rows EXCEPT ![j] = new])
      BY <1>8, <2>2 DEF Write, WriteRaises, Mutate
    <3>2. Len(rec[j].done) <= Len(new.done) /\ Len(new.done) \in Nat
      BY <1>8 DEF Advances, Row
    <3>3. rows' # rows => new.status \notin {"absent", "queued"}
      <4>1. At(w, "yield") => rec[j].status = "running"
        BY <3>1 DEF FinalInv, RecordOpen, At
      <4> QED
        BY <1>8, <4>1 DEF Advances
    <3>4. CASE rows' = rows /\ j \notin attached
      <4>1. \A k \in Jobs \ {j} : rec'[k] = rec[k]
        BY <1>1, <3>1
      <4> QED
        BY <1>1, <1>2, <1>4, <1>8, <3>4, <4>1, Lengths DEF RowsGrow, Kept, TypeInv, Shape
    <3>5. CASE j \in attached
      <4>1. Len(rows[j].done) <= Len(rec[j].done)
        BY <3>5 DEF RowsGrow
      <4>2. \A a, b, c \in Nat : a <= b /\ b <= c => a <= c
        OBVIOUS
      <4>7. Len(rows[j].done) <= Len(new.done)
        BY <1>6, <3>2, <4>1, <4>2
      <4>3. rows'[j] = rows[j] \/ rows'[j] = new
        BY <1>1, <1>2, <3>1
      <4>4. Len(rows'[j].done) <= Len(new.done) /\ Len(rows[j].done) <= Len(rows'[j].done)
        BY <1>6, <3>2, <4>7, <4>3
      <4>5. rows' \in {rows, [rows EXCEPT ![j] = new]} /\ attached' \subseteq attached \cup {j}
        BY <1>8, <3>1
      <4> QED
        BY <1>2, <1>4, <3>1, <3>3, <4>4, <4>5, KeptSet
    <3> QED
      BY <3>1, <3>4, <3>5
  <2> QED
    BY <2>1, <2>2
<1> QED
  BY <1>2, <1>5, <1>7, <1>8 DEF BusyWrite

LEMMA KeptApi ==
  ASSUME FinalInv, RowsGrow,
         (\E j \in Jobs : Submit(j) \/ GetJob(j)) \/ Add \/ AddRaises
  PROVE  RowsGrow' /\ Kept
<1>0. TypeInv /\ rows \in [Jobs -> Row] /\ rec \in [Jobs -> Row] /\ attached \subseteq Jobs
  BY DEF FinalInv, OwnerInv, TypeInv, TypeOK
<1>L. \A j \in Jobs : Len(rows[j].done) \in Nat /\ Len(rec[j].done) \in Nat
  BY <1>0, Lengths
<1>1. ASSUME NEW j \in Jobs, Submit(j) PROVE RowsGrow' /\ Kept
  <2>1. /\ rec' = [rec EXCEPT ![j] = Queued] /\ rows' = rows
        /\ attached' = attached \cup {j} /\ api'.job = j
    BY <1>1 DEF Submit, NoApi
  <2>2. rows[j].status = "absent"
    BY <1>1 DEF FinalInv, OwnerInv, Stamped, Submit
  <2>3. rows[j].done = << >> /\ Queued.done = << >>
    BY <2>2 DEF RowsGrow, Queued, NoRow
  <2>4. Len(rows[j].done) <= Len(Queued.done) /\ Len(rows[j].done) <= Len(rows'[j].done)
    BY <1>0, <1>L, <2>1, <2>3, Lengths
  <2>5. Queued \in Row
    BY NoRowType
  <2>6. Len(rows'[j].done) <= Len(Queued.done)
    BY <2>1, <2>4
  <2>7. rows' \in {rows, [rows EXCEPT ![j] = Queued]} /\ ~(rows' # rows)
    BY <2>1
  <2>8. attached' \subseteq attached \cup {j}
    BY <2>1
  <2> QED
    BY <2>1, <2>3, <2>4, <2>5, <2>6, <2>7, <2>8, KeptSet
<1>2. ASSUME NEW j \in Jobs, GetJob(j) PROVE RowsGrow' /\ Kept
  <2>1. rec' = [rec EXCEPT ![j] = rows[j]] /\ attached' = attached \cup {j} /\ rows' = rows
        /\ api' = api /\ api.pc = "idle"
    BY <1>2 DEF GetJob, Rehydrate, durable
  <2>2. rows[j] \in Row
    BY <1>0
  <2>3. Len(rows'[j].done) <= Len(rows[j].done) /\ Len(rows[j].done) <= Len(rows'[j].done)
    BY <1>L, <2>1
  <2>4. rows' \in {rows, [rows EXCEPT ![j] = rows[j]]} /\ ~(rows' # rows)
    BY <2>1
  <2> QED
    BY <2>1, <2>2, <2>3, <2>4, KeptSet
<1>3. CASE PersistInitial
  <2> DEFINE j == api.job
  <2>1. /\ rows' = IF j \in attached THEN [rows EXCEPT ![j] = rec[j]] ELSE rows
        /\ rec' = [rec EXCEPT ![j] = rec[j]]
        /\ attached' = attached /\ api'.pc # "persist" /\ j \in Jobs
        /\ rec[j].done = << >> /\ rec[j] \in Row
    BY <1>0, <1>3 DEF PersistInitial, Mutate, RowsGrow, TypeInv, Shape, TypeOK
  <2>2. CASE j \in attached
    <3>1. Len(rows[j].done) <= Len(rec[j].done)
      BY <2>2 DEF RowsGrow
    <3>2. rows'[j] = rec[j] /\ rows' \in {rows, [rows EXCEPT ![j] = rec[j]]}
      BY <1>0, <2>1, <2>2
    <3>3. Len(rows'[j].done) <= Len(rec[j].done) /\ Len(rows[j].done) <= Len(rows'[j].done)
      BY <1>L, <2>1, <3>1, <3>2
    <3>4. attached' \subseteq attached \cup {j}
      BY <2>1
    <3> HIDE DEF j
    <3> QED
      BY <2>1, <3>2, <3>3, <3>4, KeptSet
  <2>3. CASE j \notin attached
    <3>1. rec' = rec /\ rows' = rows
      BY <1>0, <2>1, <2>3
    <3> QED
      BY <2>1, <3>1, KeptStill
  <2> QED
    BY <2>2, <2>3
<1>4. CASE FirstPrune
  <2>1. \A j \in Jobs : rows'[j] \in {rows[j], NoRow}
    BY <1>4 DEF FirstPrune
  <2> QED
    BY <1>4, <2>1, KeptPrune DEF FirstPrune, records, TypeInv, TypeOK
<1>5. CASE SecondPrune
  <2>1. \A j \in Jobs : rows'[j] \in {rows[j], NoRow}
    BY <1>5 DEF SecondPrune
  <2> QED
    BY <1>5, <2>1, KeptPrune DEF SecondPrune, records
<1>6. CASE Evict \/ Detach \/ DeleteThreads \/ Enqueue \/ AddRaises
  <2>1. UNCHANGED <<rows, rec>> /\ attached' \subseteq attached
    BY <1>6 DEF Evict, Detach, DeleteThreads, Enqueue, AddRaises, durable, records
  <2>2. api'.pc # "persist"
    <3>1. api \in [pc : ApiPC, job : Jobs \cup {NoJob}, victims : SUBSET Jobs, todo : SUBSET Jobs]
      BY <1>0 DEF TypeInv, TypeOK
    <3>2. CASE Evict \/ DeleteThreads
      BY <3>1, <3>2 DEF Evict, DeleteThreads
    <3>3. CASE Detach
      BY <3>1, <3>3 DEF Detach
    <3>4. CASE Enqueue \/ AddRaises
      BY <3>4 DEF Enqueue, AddRaises, NoApi
    <3> QED
      BY <1>6, <3>2, <3>3, <3>4
  <2> QED
    BY <2>1, <2>2, KeptStill
<1> QED
  BY <1>1, <1>2, <1>3, <1>4, <1>5, <1>6 DEF Add

LEMMA KeptStartup ==
  ASSUME FinalInv, RowsGrow,
         Startup \/ Crash \/ \E j \in Jobs : RecoverRaises(j)
  PROVE  RowsGrow' /\ Kept
<1>0. TypeInv /\ rows \in [Jobs -> Row] /\ rec \in [Jobs -> Row] /\ attached \subseteq Jobs
  BY DEF FinalInv, OwnerInv, TypeInv, TypeOK
<1>L. \A j \in Jobs : Len(rows[j].done) \in Nat /\ Len(rec[j].done) \in Nat
  BY <1>0, Lengths
<1>1. CASE Restart \/ Serve
  BY <1>1, KeptStill DEF Restart, Serve, durable, records
<1>2. CASE Die
  <2>1. rows' = rows /\ attached' = {} /\ api'.pc = "idle"
    BY <1>2 DEF Die, NoApi
  <2> QED
    BY <1>L, <2>1 DEF RowsGrow, Kept
<1>3. ASSUME NEW j \in Jobs, Recover(j) PROVE RowsGrow' /\ Kept
  <2> DEFINE row == IF Resumable(j) THEN rows[j] ELSE Reset(j)
  <2>1. /\ rec' = [rec EXCEPT ![j] = row] /\ rows' = [rows EXCEPT ![j] = row]
        /\ attached' = attached \cup {j} /\ api' = api /\ j \in recq
    BY <1>3 DEF Recover, IsNext
  <2>2. Reset(j) \in Row /\ Reset(j).done = << >> /\ rows[j] \in Row
    <3>1. << >> \in Seq(Nodes)
      OBVIOUS
    <3> QED
      BY <1>0, <3>1 DEF Reset, Row, Status, Error
  <2>3. rows[j].status \notin Terminal /\ ~Adding(j)
    BY <2>1 DEF FinalInv, Unfinished, OwnerInv, SingleOwner
  <2>4. row \in Row /\ rows'[j] = row
    BY <1>0, <2>1, <2>2
  <2>5. \/ row = rows[j]
        \/ row.done = << >> /\ (rows[j].status # "running" \/ ckpt[j] = NoCkpt)
    BY <2>2 DEF Resumable
  <2>6. rows[j].status \in {"absent", "queued", "running"}
    BY <1>0, <2>3 DEF Row, Status
  <2>7. rows[j].status # "running" => rows[j].done = << >>
    BY <2>6 DEF RowsGrow
  <2>8. Len(rows[j].done) <= Len(row.done) \/ ckpt[j] = NoCkpt
    BY <1>L, <2>5, <2>7
  <2>9. row.status \in {"absent", "queued"} => row.done = << >>
    BY <2>5 DEF RowsGrow
  <2>10. Len(row.done) \in Nat
    BY <2>4 DEF Row
  <2>11. api'.pc = "persist" => api.pc = "persist" /\ api'.job = api.job /\ api.job # j
    BY <2>1, <2>3 DEF Adding
  <2> HIDE DEF row
  <2>12. Len(rows'[j].done) <= Len(row.done)
    BY <2>4, <2>10
  <2>13. Len(rows[j].done) <= Len(rows'[j].done) \/ ckpt[j] = NoCkpt
    BY <2>4, <2>8
  <2>14. rows' \in {rows, [rows EXCEPT ![j] = row]} /\ attached' \subseteq attached \cup {j}
    BY <2>1
  <2> QED
    BY <2>1, <2>4, <2>9, <2>11, <2>12, <2>13, <2>14, KeptSet
<1> QED
  BY <1>1, <1>2, <1>3 DEF Startup, Crash, RecoverRaises

LEMMA KeptNext == FinalInv /\ RowsGrow /\ [Next]_vars => RowsGrow' /\ Kept
<1> SUFFICES ASSUME FinalInv, RowsGrow, [Next]_vars PROVE RowsGrow' /\ Kept
  OBVIOUS
<1>1. CASE UNCHANGED vars
  BY <1>1, KeptStill DEF vars
<1>2. ASSUME NEW w \in Workers, Dequeue(w) PROVE RowsGrow' /\ Kept
  BY <1>2, KeptStill DEF Dequeue, durable, records
<1>3. CASE Next
  BY <1>2, <1>3, KeptApi, KeptBusy, KeptStartup DEF Next, Work, Busy
<1> QED
  BY <1>1, <1>3

(* The progress recorded in a row never shrinks unless the row is pruned   *)
(* or its checkpoint is gone, so that the job has to run again from the    *)
(* start.                                                                  *)
THEOREM ProgressIsKept == Spec => ProgressKept
<1>1. FinalInv /\ RowsGrow /\ [Next]_vars => [Kept]_vars
  BY KeptNext
<1>2. [Kept]_vars => [\A j \in Jobs :
       Len(rows'[j].done) < Len(rows[j].done) => j \notin Stored' \/ ckpt[j] = NoCkpt]_vars
  BY DEF Kept
<1> QED
  BY FinalInit, FinalNext, KeptInit, KeptNext, <1>1, <1>2, PTL DEF Spec, ProgressKept

-----------------------------------------------------------------------------
(* Reports are delivered, and delivered again only after a crash *)

(* Before a run has delivered. *)
Undelivered == {"lookup", "mark", "yield", "node", "deliver"}

(* A job that is still to be run was delivered at most once per crash, one *)
(* that was not submitted never; and a run that ends with a report has     *)
(* delivered it.                                                           *)
Counted ==
  /\ \A j \in Jobs :
       /\ rows[j].report \/ rec[j].report => delivered[j] >= 1
       /\ delivered[j] <= 1 + crashes
       /\ InQueue(j) \/ j \in recq \/ Adding(j) => delivered[j] <= crashes
       /\ server = "down" => delivered[j] <= crashes
       /\ stamp[j] = 0 => delivered[j] = 0
  /\ \A w \in Workers :
       /\ run[w].pc \in Undelivered => delivered[run[w].job] <= crashes
       /\ run[w].pc = "finish" /\ run[w].g.out = "report" => delivered[run[w].job] >= 1

CountInv == OwnerInv /\ Counted

LEMMA CountInit == Init => CountInv
<1> SUFFICES ASSUME Init PROVE CountInv
  OBVIOUS
<1>1. OwnerInv
  BY OwnerInit
<1>2. \A j \in Jobs : ~rows[j].report /\ ~rec[j].report
  BY DEF Init, NoRow
<1>3. Counted
  BY <1>2 DEF Init, Counted, Undelivered, NoRun
<1> QED
  BY <1>1, <1>3 DEF CountInv

(* A step outside the threads that delivers nothing, submits nothing and   *)
(* takes its reports from the rows and records there were.                 *)
LEMMA CountStill ==
  ASSUME CountInv, UNCHANGED <<delivered, stamp, crashes>>,
         \A j \in Jobs : rows'[j].report \/ rec'[j].report => rows[j].report \/ rec[j].report,
         \A j \in Jobs : InQueue(j)' \/ j \in recq' \/ Adding(j)' =>
                           InQueue(j) \/ j \in recq \/ Adding(j) \/ server = "down",
         server' = "down" => server = "down",
         \A w \in Workers : /\ run'[w].pc = run[w].pc /\ run'[w].job = run[w].job
                            /\ run'[w].g = run[w].g
  PROVE  Counted'
<1>1. delivered \in [Jobs -> Nat] /\ crashes \in Nat
  BY DEF CountInv, OwnerInv, TypeInv, TypeOK
<1> QED
  BY <1>1 DEF CountInv, Counted

(* What a busy thread does to its place in the run and to the deliveries.  *)
LEMMA BusyDelivers ==
  ASSUME TypeInv, NEW w \in Workers, Busy(w)
  PROVE  /\ \A v \in Workers \ {w} : run'[v] = run[v]
         /\ run'[w].pc # "lookup"
         /\ crashes' = crashes
         /\ \/ /\ delivered' = delivered
               /\ run'[w].pc \in Undelivered => run[w].pc \in Undelivered
               /\ run'[w].pc # "finish"
            \/ /\ run[w].pc = "deliver" /\ run'[w].pc = "finish"
               /\ run'[w].g = run[w].g
               /\ delivered' = IF run[w].g.out = "report"
                               THEN [delivered EXCEPT ![run[w].job] = @ + 1] ELSE delivered
<1> USE DEF Undelivered, durable, counters, At
<1>0. run \in [Workers -> Run] /\ run[w] \in Run
  BY DEF TypeInv, TypeOK
<1>1. CASE Lookup(w)
  BY <1>0, <1>1 DEF Lookup, Goto, Release, NoRun, Run
<1>2. CASE MarkRunning(w)
  BY <1>0, <1>2 DEF MarkRunning, StartRun, Run
<1>3. CASE Yield(w)
  BY <1>0, <1>3 DEF Yield, Run
<1>4. CASE RunNode(w)
  BY <1>0, <1>4 DEF RunNode, Run
<1>5. CASE Checkpoint(w)
  BY <1>0, <1>5 DEF Checkpoint, Run
<1>6. CASE Deliver(w)
  BY <1>0, <1>6 DEF Deliver, Goto, Run
<1>7. CASE NodeRaises(w) \/ Publish(w)
  BY <1>0, <1>7 DEF NodeRaises, Publish, Goto, Release, NoRun, Run
<1>8. CASE Finish(w) \/ Fail(w)
  BY <1>0, <1>8 DEF Finish, Fail, Goto, Release, NoRun, Run
<1>9. CASE DeliverRaises(w) \/ PublishRaises(w) \/ MarkRaises(w) \/ CredentialsRaise(w)
  BY <1>0, <1>9 DEF DeliverRaises, PublishRaises, MarkRaises, CredentialsRaise, Goto, Run
<1>10. CASE YieldRaises(w) \/ FinishRaises(w) \/ FailRaises(w)
  BY <1>0, <1>10 DEF YieldRaises, FinishRaises, FailRaises, Goto, Run
<1> QED
  BY <1>1, <1>2, <1>3, <1>4, <1>5, <1>6, <1>7, <1>8, <1>9, <1>10 DEF Busy, WorkRaises

(* The reports on record after the step of a busy thread. *)
LEMMA BusyReports ==
  ASSUME TypeInv, NEW w \in Workers, Busy(w), NEW j \in Jobs,
         rows'[j].report \/ rec'[j].report
  PROVE  \/ rows[j].report \/ rec[j].report
         \/ j = run[w].job /\ run[w].pc = "finish" /\ run[w].g.out = "report"
<1>0. rows \in [Jobs -> Row] /\ rec \in [Jobs -> Row]
  BY DEF TypeInv, TypeOK
<1>1. BusyWrite(w) /\ run[w].pc # "idle" /\ run[w].job \in Jobs
  BY BusyWrites, BusyEffect
<1>2. CASE j # run[w].job
  BY <1>2, BusyOthers
<1>3. CASE j = run[w].job
  <2>1. CASE UNCHANGED <<rows, records>>
    BY <2>1 DEF records
  <2>2. CASE Lookup(w)
    BY <1>0, <1>3, <2>2 DEF Lookup, Rehydrate, durable, records
  <2>3. ASSUME NEW new \in Row, Advances(w, new), Write(w, new) \/ WriteRaises(w, new)
        PROVE  \/ rows[j].report \/ rec[j].report
               \/ j = run[w].job /\ run[w].pc = "finish" /\ run[w].g.out = "report"
    <3>1. rows'[j] \in {rows[j], new} /\ rec'[j] \in {rec[j], new}
      BY <1>0, <1>3, <2>3 DEF Write, WriteRaises, Mutate
    <3>2. new.report => rec[j].report \/ (run[w].pc = "finish" /\ run[w].g.out = "report")
      BY <1>3, <2>3 DEF Advances, At
    <3>3. CASE rows'[j].report
      BY <1>3, <3>1, <3>2, <3>3
    <3>4. CASE rec'[j].report
      BY <1>3, <3>1, <3>2, <3>4
    <3> QED
      BY <3>3, <3>4
  <2> QED
    BY <1>1, <2>1, <2>2, <2>3 DEF BusyWrite
<1> QED
  BY <1>2, <1>3

LEMMA CountBusy ==
  ASSUME CountInv, NEW w \in Workers, Busy(w)
  PROVE  Counted'
<1> DEFINE j == run[w].job
<1>0. /\ TypeInv /\ delivered \in [Jobs -> Nat] /\ crashes \in Nat
      /\ run \in [Workers -> Run]
  BY DEF CountInv, OwnerInv, TypeInv, TypeOK
<1>1. /\ NoNewHolder /\ run[w].pc # "idle" /\ j \in Jobs
      /\ UNCHANGED <<queue, api, recq, server, stamp>>
  BY <1>0, BusyEffect
<1>2. Holds(w, j)
  BY <1>1 DEF Holds
<1>3. /\ ~InQueue(j) /\ j \notin recq /\ ~Adding(j) /\ stamp[j] # 0
      /\ \A v \in Workers \ {w} : run[v].pc # "idle" => run[v].job # j /\ run[v].job \in Jobs
  BY <1>0, <1>1, <1>2 DEF CountInv, OwnerInv, SingleOwner, Stamped, TypeInv, Shape, Holds
<1>4. \A k \in Jobs : (InQueue(k)' <=> InQueue(k)) /\ (Adding(k)' <=> Adding(k))
  BY <1>1 DEF InQueue, Adding
<1>5. server # "down"
  BY <1>1 DEF CountInv, OwnerInv, Quiet
<1>6. \A v \in Workers \ {w} : run'[v] = run[v]
  BY <1>0, BusyDelivers
<1>7. crashes' = crashes
  BY <1>0, BusyDelivers
<1>8. \A k \in Jobs \ {j} : delivered'[k] = delivered[k]
  BY <1>0, BusyDelivers
<1>9. /\ delivered'[j] >= delivered[j] /\ delivered'[j] <= 1 + crashes
      /\ run'[w].pc \in Undelivered => delivered'[j] <= crashes
      /\ run'[w].pc = "finish" /\ run'[w].g.out = "report" => delivered'[j] >= 1
  <2>1. CASE /\ delivered' = delivered
             /\ run'[w].pc \in Undelivered => run[w].pc \in Undelivered
             /\ run'[w].pc # "finish"
    BY <1>0, <1>1, <2>1 DEF CountInv, Counted
  <2>2. CASE /\ run[w].pc = "deliver" /\ run'[w].pc = "finish"
             /\ run'[w].g = run[w].g
             /\ delivered' = IF run[w].g.out = "report"
                             THEN [delivered EXCEPT ![run[w].job] = @ + 1] ELSE delivered
    <3>1. delivered[j] <= crashes /\ delivered[j] \in Nat
      BY <1>0, <1>1, <2>2 DEF CountInv, Counted, Undelivered
    <3>2. CASE run[w].g.out = "report"
      BY <1>0, <1>1, <2>2, <3>1, <3>2 DEF Undelivered
    <3>3. CASE run[w].g.out # "report"
      BY <1>0, <1>1, <2>2, <3>1, <3>3 DEF Undelivered
    <3> QED
      BY <3>2, <3>3
  <2> QED
    BY <1>0, <2>1, <2>2, BusyDelivers
<1>10. \A k \in Jobs : delivered'[k] \in Nat /\ delivered'[k] >= delivered[k]
  <2>1. delivered' \in [Jobs -> Nat]
    BY <1>0, <1>1, BusyDelivers
  <2> QED
    BY <1>0, <1>1, <1>8, <1>9, <2>1
<1>11. ASSUME NEW k \in Jobs
       PROVE  /\ rows'[k].report \/ rec'[k].report => delivered'[k] >= 1
              /\ delivered'[k] <= 1 + crashes'
              /\ InQueue(k)' \/ k \in recq' \/ Adding(k)' => delivered'[k] <= crashes'
              /\ server' = "down" => delivered'[k] <= crashes'
              /\ stamp'[k] = 0 => delivered'[k] = 0
  <2>1. rows[k].report \/ rec[k].report => delivered[k] >= 1
    BY DEF CountInv, Counted
  <2>2. rows'[k].report \/ rec'[k].report => delivered'[k] >= 1
    <3>1. CASE k = j /\ run[w].pc = "finish" /\ run[w].g.out = "report"
      <4>1. delivered[k] >= 1
        BY <3>1 DEF CountInv, Counted
      <4> QED
        BY <1>0, <1>10, <4>1
    <3>2. CASE ~(k = j /\ run[w].pc = "finish" /\ run[w].g.out = "report")
      <4>1. rows'[k].report \/ rec'[k].report => rows[k].report \/ rec[k].report
        BY <1>0, <3>2, BusyReports
      <4>2. delivered[k] \in Nat /\ delivered'[k] \in Nat /\ delivered'[k] >= delivered[k]
        BY <1>0, <1>10
      <4>3. delivered[k] >= 1 => delivered'[k] >= 1
        BY <4>2
      <4> QED
        BY <2>1, <4>1, <4>3
    <3> QED
      BY <3>1, <3>2
  <2> QED
    BY <1>1, <1>3, <1>4, <1>5, <1>7, <1>8, <1>9, <2>2 DEF CountInv, Counted
<1>12. ASSUME NEW v \in Workers
       PROVE  /\ run'[v].pc \in Undelivered => delivered'[run'[v].job] <= crashes'
              /\ run'[v].pc = "finish" /\ run'[v].g.out = "report" =>
                   delivered'[run'[v].job] >= 1
  <2>1. run'[w].pc # "idle" => run'[w].job = j
    BY <1>1 DEF NoNewHolder
  <2>2. CASE v = w
    BY <1>7, <1>9, <2>1, <2>2 DEF Undelivered
  <2>3. CASE v # w
    <3>1. run[v].pc # "idle" => delivered'[run[v].job] = delivered[run[v].job]
      BY <1>3, <1>8, <2>3
    <3> QED
      BY <1>6, <1>7, <2>3, <3>1 DEF CountInv, Counted, Undelivered
  <2> QED
    BY <2>2, <2>3
<1> QED
  BY <1>11, <1>12 DEF Counted

LEMMA CountDequeue ==
  ASSUME CountInv, NEW w \in Workers, Dequeue(w)
  PROVE  Counted'
<1>0. /\ queue \in Seq(Item) /\ queue # << >> /\ run \in [Workers -> Run]
  BY DEF CountInv, OwnerInv, TypeInv, TypeOK, Dequeue
<1> DEFINE j == queue[1].job
<1>1. j \in Jobs /\ InQueue(j)
  <2>1. 1 \in DOMAIN queue /\ queue[1] \in Item
    BY <1>0, TailItem
  <2> QED
    BY <2>1 DEF Item, InQueue
<1>2. /\ \A v \in Workers \ {w} : run'[v] = run[v]
      /\ run'[w].job = j /\ run'[w].pc = "lookup"
      /\ queue' = Tail(queue)
      /\ UNCHANGED <<rows, rec, api, recq, server, stamp, delivered, crashes>>
  BY <1>0, TailItem DEF Dequeue, NoRun, durable, records, process, counters
<1>3. /\ \A k \in Jobs : InQueue(k)' => InQueue(k)
      /\ \A k \in Jobs : Adding(k)' => Adding(k)
  BY <1>0, <1>2, TailItem DEF InQueue, Adding
<1> QED
  BY <1>1, <1>2, <1>3 DEF CountInv, Counted

LEMMA CountApi ==
  ASSUME CountInv,
         (\E j \in Jobs : Submit(j) \/ GetJob(j)) \/ Add \/ AddRaises
  PROVE  Counted'
<1>0. /\ TypeInv /\ rows \in [Jobs -> Row] /\ rec \in [Jobs -> Row]
      /\ delivered \in [Jobs -> Nat] /\ crashes \in Nat /\ queue \in Seq(Item)
      /\ stamp \in [Jobs -> Nat]
      /\ api \in [pc : ApiPC, job : Jobs \cup {NoJob}, victims : SUBSET Jobs, todo : SUBSET Jobs]
  BY DEF CountInv, OwnerInv, TypeInv, TypeOK
<1>1. ASSUME NEW j \in Jobs, Submit(j) PROVE Counted'
  <2>1. /\ UNCHANGED <<rows, delivered, queue, run, recq, server, crashes>>
        /\ rec' = [rec EXCEPT ![j] = Queued]
        /\ api'.job = j /\ stamp[j] = 0
        /\ \A k \in Jobs \ {j} : stamp'[k] = stamp[k]
    BY <1>0, <1>1 DEF Submit, process, counters, NoApi
  <2>2. stamp'[j] # 0
    <3> DEFINE c == Cardinality({k \in Jobs : stamp[k] > 0})
    <3>1. c \in Nat
      BY StampNat
    <3>2. stamp' = [stamp EXCEPT ![j] = 1 + c]
      BY <1>1 DEF Submit
    <3> HIDE DEF c
    <3> QED
      BY <1>0, <3>1, <3>2
  <2>3. \A k \in Jobs : rec'[k].report => rec[k].report
    BY <1>0, <2>1 DEF Queued, NoRow
  <2>4. \A k \in Jobs : /\ InQueue(k)' => InQueue(k)
                        /\ Adding(k)' => k = j
    BY <2>1 DEF InQueue, Adding
  <2>5. delivered[j] = 0 /\ delivered[j] <= crashes
    BY <1>0, <2>1 DEF CountInv, Counted
  <2> QED
    BY <2>1, <2>2, <2>3, <2>4, <2>5 DEF CountInv, Counted
<1>2. ASSUME NEW j \in Jobs, GetJob(j) PROVE Counted'
  <2>1. /\ UNCHANGED <<rows, delivered, queue, recq, server, crashes, stamp, api>>
        /\ rec' = [rec EXCEPT ![j] = rows[j]]
    BY <1>2 DEF GetJob, Rehydrate, durable, process, counters
  <2>2. \A w \in Workers : /\ run'[w].pc = run[w].pc /\ run'[w].job = run[w].job
                           /\ run'[w].g = run[w].g
    BY <1>0, <1>2, GetJobRuns
  <2>3. \A k \in Jobs : rows'[k].report \/ rec'[k].report => rows[k].report \/ rec[k].report
    BY <1>0, <2>1
  <2>4. \A k \in Jobs : (InQueue(k)' => InQueue(k)) /\ (Adding(k)' => Adding(k))
    BY <2>1 DEF InQueue, Adding
  <2> QED
    BY <2>1, <2>2, <2>3, <2>4, CountStill
<1>3. CASE PersistInitial \/ FirstPrune \/ Evict \/ Detach \/ SecondPrune \/ DeleteThreads
  <2>1. /\ UNCHANGED <<delivered, queue, run, recq, server, crashes, stamp>>
        /\ api'.job = api.job /\ api.pc # "idle"
    BY <1>0, <1>3
    DEF PersistInitial, FirstPrune, Evict, Detach, SecondPrune, DeleteThreads,
        durable, process, counters
  <2>2. \A k \in Jobs : rows'[k].report \/ rec'[k].report => rows[k].report \/ rec[k].report
    <3>1. CASE PersistInitial
      BY <1>0, <3>1 DEF PersistInitial, Mutate
    <3>2. CASE FirstPrune \/ SecondPrune
      BY <1>0, <3>2 DEF FirstPrune, SecondPrune, NoRow, records
    <3>3. CASE Evict \/ Detach \/ DeleteThreads
      BY <3>3 DEF Evict, Detach, DeleteThreads, durable, records
    <3> QED
      BY <1>3, <3>1, <3>2, <3>3
  <2>3. \A k \in Jobs : (InQueue(k)' => InQueue(k)) /\ (Adding(k)' => Adding(k))
    BY <2>1 DEF InQueue, Adding
  <2> QED
    BY <2>1, <2>2, <2>3, CountStill
<1>4. CASE Enqueue
  <2>1. /\ UNCHANGED <<rows, rec, delivered, run, recq, server, crashes, stamp>>
        /\ queue' = Append(queue, [job |-> api.job, resume |-> FALSE])
        /\ api'.pc = "idle" /\ api.job \in Jobs /\ Adding(api.job)
    BY <1>0, <1>4 DEF Enqueue, durable, records, process, counters, NoApi, TypeInv, Shape, Adding
  <2>2. [job |-> api.job, resume |-> FALSE] \in Item
    BY <2>1 DEF Item
  <2>3. \A k \in Jobs : InQueue(k)' => InQueue(k) \/ k = api.job
    BY <1>0, <2>1, <2>2, AppendItem DEF InQueue
  <2>4. \A k \in Jobs : ~Adding(k)'
    BY <2>1 DEF Adding
  <2> QED
    BY <2>1, <2>3, <2>4, CountStill
<1>5. CASE AddRaises
  <2>1. /\ UNCHANGED <<rows, rec, delivered, queue, run, recq, server, crashes, stamp>>
        /\ api'.pc = "idle"
    BY <1>5 DEF AddRaises, durable, records, process, NoApi
  <2>2. \A k \in Jobs : (InQueue(k)' => InQueue(k)) /\ ~Adding(k)'
    BY <2>1 DEF InQueue, Adding
  <2> QED
    BY <2>1, <2>2, CountStill
<1> QED
  BY <1>1, <1>2, <1>3, <1>4, <1>5 DEF Add

LEMMA CountStartup ==
  ASSUME CountInv,
         Startup \/ Crash \/ \E j \in Jobs : RecoverRaises(j)
  PROVE  Counted'
<1>0. /\ TypeInv /\ rows \in [Jobs -> Row] /\ rec \in [Jobs -> Row]
      /\ delivered \in [Jobs -> Nat] /\ crashes \in Nat /\ queue \in Seq(Item)
  BY DEF CountInv, OwnerInv, TypeInv, TypeOK
<1>1. CASE Restart \/ Serve
  <2>1. /\ UNCHANGED <<rows, rec, delivered, queue, run, crashes, stamp, api>>
        /\ server' # "down"
        /\ recq' = recq \/ server = "down"
    BY <1>1 DEF Restart, Serve, durable, records, counters
  <2>2. \A k \in Jobs : (InQueue(k)' => InQueue(k)) /\ (Adding(k)' => Adding(k))
    BY <2>1 DEF InQueue, Adding
  <2> QED
    BY <2>1, <2>2, CountStill
<1>2. ASSUME NEW j \in Jobs, Recover(j) PROVE Counted'
  <2>1. /\ UNCHANGED <<delivered, run, crashes, stamp, api, server>>
        /\ queue' = Append(queue, [job |-> j, resume |-> Resumable(j)])
        /\ recq' = recq \ {j} /\ j \in recq
    BY <1>2 DEF Recover, IsNext, counters
  <2>2. [job |-> j, resume |-> Resumable(j)] \in Item
    BY DEF Item, Resumable
  <2>3. \A k \in Jobs : InQueue(k)' => InQueue(k) \/ k = j
    BY <1>0, <2>1, <2>2, AppendItem DEF InQueue
  <2>4. \A k \in Jobs : Adding(k)' => Adding(k)
    BY <2>1 DEF Adding
  <2>5. \A k \in Jobs : rows'[k].report \/ rec'[k].report => rows[k].report \/ rec[k].report
    <3> DEFINE row == IF Resumable(j) THEN rows[j] ELSE Reset(j)
    <3>1. rec' = [rec EXCEPT ![j] = row] /\ rows' = [rows EXCEPT ![j] = row]
      BY <1>2 DEF Recover
    <3>2. row.report = rows[j].report
      BY <1>0 DEF Reset, Row
    <3> HIDE DEF row
    <3> QED
      BY <1>0, <3>1, <3>2
  <2> QED
    BY <2>1, <2>3, <2>4, <2>5, CountStill
<1>3. ASSUME Die, crashes' = crashes + 1 PROVE Counted'
  <2>1. /\ queue' = << >> /\ recq' = {} /\ api'.pc = "idle"
        /\ \A w \in Workers : run'[w].pc = "idle"
        /\ UNCHANGED <<rows, stamp, delivered>>
        /\ rec' = [k \in Jobs |-> NoRow]
    BY <1>3 DEF Die, NoApi, NoRun
  <2>2. \A k \in Jobs : ~InQueue(k)' /\ ~Adding(k)' /\ ~rec'[k].report
    BY <2>1 DEF InQueue, Adding, NoRow
  <2>3. \A k \in Jobs : delivered[k] <= 1 + crashes /\ delivered[k] \in Nat
    BY <1>0 DEF CountInv, Counted
  <2>4. \A k \in Jobs : delivered'[k] <= crashes' /\ delivered'[k] <= 1 + crashes'
    BY <1>0, <1>3, <2>1, <2>3
  <2>5. \A w \in Workers : run'[w].pc \notin Undelivered /\ run'[w].pc # "finish"
    BY <2>1 DEF Undelivered
  <2> QED
    BY <2>1, <2>2, <2>4, <2>5 DEF CountInv, Counted
<1> QED
  BY <1>1, <1>2, <1>3 DEF Startup, Crash, RecoverRaises

LEMMA CountNext == CountInv /\ [Next]_vars => CountInv'
<1> SUFFICES ASSUME CountInv, [Next]_vars PROVE CountInv'
  OBVIOUS
<1>1. OwnerInv'
  BY OwnerNext DEF CountInv
<1>2. CASE UNCHANGED vars
  <2>1. \A k \in Jobs : (InQueue(k)' => InQueue(k)) /\ (Adding(k)' => Adding(k))
    BY <1>2 DEF InQueue, Adding, vars
  <2>2. Counted'
    BY <1>2, <2>1, CountStill DEF vars
  <2> QED
    BY <1>1, <2>2 DEF CountInv
<1>3. CASE Next
  <2>1. Counted'
    BY <1>3, CountApi, CountBusy, CountDequeue, CountStartup DEF Next, Work, Busy
  <2> QED
    BY <1>1, <2>1 DEF CountInv
<1> QED
  BY <1>2, <1>3

(* A report that is on record was delivered, and a report is delivered     *)
(* again only by a run that a crash started over.                          *)
THEOREM DeliveredOncePerCrash == Spec => []DeliveredAtLeastOnce
<1>1. CountInv => DeliveredAtLeastOnce
  BY DEF CountInv, Counted, DeliveredAtLeastOnce
<1> QED
  BY CountInit, CountNext, <1>1, PTL DEF Spec

-----------------------------------------------------------------------------
(* A pruned row stays gone *)

(* A job somebody will still run, and one nobody has looked up yet.        *)
InHands(j) ==
  \/ InQueue(j) \/ j \in recq \/ (Adding(j) /\ api.pc # "persist")
  \/ \E w \in Workers : Holds(w, j)

Waiting(j) ==
  InQueue(j) \/ j \in recq \/ \E w \in Workers : Holds(w, j) /\ At(w, "lookup")

Newer(j) == {k \in Stored : stamp[k] > stamp[j]}

(* A record whose writes reach the table belongs to a job that is there,   *)
(* or that the prune under way will remove again.                          *)
Reaches == \A j \in attached : InHands(j) => j \in Stored \/ j \in api.victims

(* The store handles go before the second prune: a victim that still has   *)
(* one is among those to detach, and every handle is a live record's.      *)
Cut ==
  /\ api.pc = "detach" => attached \cap api.victims \subseteq api.todo
  /\ api.pc = "threads" => attached \cap api.victims = {}
  /\ attached \subseteq live \cup (IF api.pc = "detach" THEN api.todo ELSE {})

(* A victim that no thread has looked up yet is not stored again.          *)
NotBack == \A j \in api.victims : Waiting(j) => j \notin Stored

(* Recovery has its rows, and is over before the first upload.             *)
Calm ==
  /\ recq \subseteq Stored
  /\ server = "up" => recq = {}
  /\ server # "up" => api.pc = "idle"

(* There are victims from the first prune to the deletion of their         *)
(* checkpoint threads only, and the job being inserted is not stored yet.  *)
Pruning ==
  /\ api.pc \in {"idle", "persist", "prune", "submit"} => api.victims = {}
  /\ \A j \in api.victims : stamp[j] # 0
  /\ api.pc = "persist" => api.job \notin Stored

(* Between the two prunes what is stored and no victim is among the newest *)
(* RetentionMax and no older than a victim: the second finds no new one.   *)
Oldest ==
  api.pc \in {"evict", "detach"} =>
    \A j \in Stored \ api.victims :
      /\ ~(Cardinality(Newer(j)) >= RetentionMax)
      /\ \A v \in api.victims : stamp[v] <= stamp[j]

PruneInv == FinalInv /\ Reaches /\ Cut /\ NotBack /\ Calm /\ Pruning /\ Oldest

LEMMA PruneInit == Init => PruneInv
<1> SUFFICES ASSUME Init PROVE PruneInv
  OBVIOUS
<1>1. FinalInv
  BY FinalInit
<1>2. api.pc = "idle" /\ api.victims = {} /\ attached = {} /\ recq = {} /\ server = "up"
  BY DEF Init, NoApi
<1> QED
  BY <1>1, <1>2 DEF PruneInv, Reaches, Cut, NotBack, Calm, Pruning, Oldest

LEMMA BeyondVictims ==
  ASSUME PruneInv, api.pc = "detach"
  PROVE  Beyond(RetentionMax) \subseteq api.victims
BY DEF PruneInv, Oldest, Beyond, Newer

(* What a busy thread does to the set of stored jobs and to the handles.   *)
LEMMA BusyStored ==
  ASSUME FinalInv, NEW w \in Workers, Busy(w)
  PROVE  LET j == run[w].job
         IN  /\ \A k \in Jobs \ {j} : k \in Stored' <=> k \in Stored
             /\ j \in Stored => j \in Stored'
             /\ j \in Stored' => j \in Stored \/ j \in attached
             /\ \/ UNCHANGED <<live, attached>>
                \/ /\ At(w, "lookup") /\ j \in Stored \ live
                   /\ live' = live \cup {j} /\ attached' = attached \cup {j}
<1> DEFINE j == run[w].job
<1>0. TypeInv /\ rows \in [Jobs -> Row] /\ rec \in [Jobs -> Row]
  BY DEF FinalInv, OwnerInv, TypeInv, TypeOK
<1>1. /\ BusyWrite(w) /\ run[w].pc # "idle" /\ j \in Jobs
      /\ \A k \in Jobs \ {j} : rows'[k] = rows[k]
  BY <1>0, BusyWrites, BusyEffect
<1>2. CASE UNCHANGED <<rows, records>>
  BY <1>2 DEF records, Stored
<1>3. CASE Lookup(w)
  BY <1>1, <1>3 DEF Lookup, Rehydrate, durable, records, Stored, At
<1>4. ASSUME NEW new \in Row, Advances(w, new), Write(w, new) \/ WriteRaises(w, new),
             UNCHANGED <<live, attached>>
      PROVE  /\ rows'[j] = rows[j] \/ (rows'[j].status # "absent" /\ j \in attached)
             /\ UNCHANGED <<live, attached>>
  <2>1. rows' = rows \/ (j \in attached /\ ~run[w].split /\ rows' = [rows EXCEPT ![j] = new])
    BY <1>4 DEF Write, WriteRaises, Mutate
  <2>2. ~run[w].split /\ At(w, "yield") => rec[j].status = "running"
    BY DEF FinalInv, RecordOpen, At
  <2>3. ~run[w].split => new.status # "absent"
    BY <1>4, <2>2 DEF Advances
  <2> QED
    BY <1>0, <1>1, <1>4, <2>1, <2>3
<1> QED
  BY <1>1, <1>2, <1>3, <1>4 DEF BusyWrite, Stored

LEMMA PruneBusy ==
  ASSUME PruneInv, FinalInv', NEW w \in Workers, Busy(w)
  PROVE  PruneInv'
<1> DEFINE j == run[w].job
<1>0. /\ FinalInv /\ TypeInv /\ Stored \subseteq Jobs /\ api.victims \subseteq Jobs
      /\ stamp \in [Jobs -> Nat]
  BY DEF PruneInv, FinalInv, OwnerInv, TypeInv, TypeOK, Stored
<1>1. /\ NoNewHolder /\ run[w].pc # "idle" /\ j \in Jobs
      /\ UNCHANGED <<queue, api, recq, server, stamp>>
  BY <1>0, BusyEffect
<1>2. /\ \A k \in Jobs \ {j} : k \in Stored' <=> k \in Stored
      /\ j \in Stored => j \in Stored'
      /\ j \in Stored' => j \in Stored \/ j \in attached
      /\ \/ UNCHANGED <<live, attached>>
         \/ /\ At(w, "lookup") /\ j \in Stored \ live
            /\ live' = live \cup {j} /\ attached' = attached \cup {j}
  BY <1>0, BusyStored
<1>3. Holds(w, j) /\ InHands(j)
  BY <1>1 DEF Holds, InHands
<1>4. /\ ~InQueue(j) /\ j \notin recq /\ ~Adding(j)
      /\ \A v \in Workers \ {w} : ~Holds(v, j)
  BY <1>0, <1>1, <1>3 DEF FinalInv, OwnerInv, SingleOwner
<1>5. j \in Stored' \ Stored => j \in api.victims
  BY <1>2, <1>3 DEF PruneInv, Reaches
<1>6. \A v \in Workers, k \in Jobs : Holds(v, k)' => Holds(v, k)
  BY <1>1 DEF NoNewHolder, Holds
<1>7. \A k \in Jobs : (InQueue(k)' <=> InQueue(k)) /\ (Adding(k)' <=> Adding(k))
  BY <1>1 DEF InQueue, Adding
<1>8. \A k \in Jobs : InHands(k)' => InHands(k)
  BY <1>1, <1>6, <1>7 DEF InHands
<1>9. (\A v \in Workers \ {w} : run'[v] = run[v]) /\ run'[w].pc # "lookup"
  BY <1>0, BusyDelivers
<1>10. \A k \in Jobs : Waiting(k)' => Waiting(k) /\ k # j
  <2>1. SUFFICES ASSUME NEW k \in Jobs, Waiting(k)' PROVE Waiting(k) /\ k # j
    OBVIOUS
  <2>2. CASE InQueue(k)' \/ k \in recq'
    BY <1>1, <1>4, <1>7, <2>2 DEF Waiting
  <2>3. ASSUME NEW v \in Workers, Holds(v, k)', At(v, "lookup")'
        PROVE  Waiting(k) /\ k # j
    <3>1. v # w
      BY <1>9, <2>3 DEF At
    <3>2. Holds(v, k) /\ At(v, "lookup")
      BY <1>6, <1>9, <2>3, <3>1 DEF At
    <3> QED
      BY <1>4, <3>1, <3>2 DEF Waiting
  <2> QED
    BY <2>1, <2>2, <2>3 DEF Waiting
<1>11. attached' \subseteq Jobs
  BY DEF FinalInv, OwnerInv, TypeInv, TypeOK
<1>12. Reaches'
  <2>1. SUFFICES ASSUME NEW k \in attached', InHands(k)' PROVE k \in Stored' \/ k \in api'.victims
    BY DEF Reaches
  <2>2. k \in Stored \/ k \in api.victims
    BY <1>2, <1>8, <1>11, <2>1 DEF PruneInv, Reaches
  <2> QED
    BY <1>1, <1>2, <1>11, <2>1, <2>2
<1>13. Cut'
  <2>1. CASE UNCHANGED <<live, attached>>
    BY <1>1, <2>1 DEF PruneInv, Cut
  <2>2. CASE /\ At(w, "lookup") /\ j \in Stored \ live
             /\ live' = live \cup {j} /\ attached' = attached \cup {j}
    <3>1. Waiting(j)
      BY <1>3, <2>2 DEF Waiting
    <3>2. j \notin api.victims
      BY <2>2, <3>1 DEF PruneInv, NotBack
    <3> QED
      BY <1>1, <2>2, <3>2 DEF PruneInv, Cut
  <2> QED
    BY <1>2, <2>1, <2>2
<1>14. NotBack'
  BY <1>0, <1>1, <1>2, <1>10 DEF PruneInv, NotBack
<1>15. Calm'
  <2>1. recq \subseteq Jobs
    BY <1>0 DEF PruneInv, Calm
  <2> QED
    BY <1>1, <1>2, <2>1 DEF PruneInv, Calm
<1>16. Pruning'
  <2>1. api.pc = "persist" => api.job \in Jobs /\ api.job # j
    BY <1>0, <1>4 DEF TypeInv, Shape, Adding
  <2> QED
    BY <1>1, <1>2, <2>1 DEF PruneInv, Pruning
<1>17. Oldest'
  <2>1. SUFFICES ASSUME api'.pc \in {"evict", "detach"}, NEW k \in Stored' \ api'.victims
                 PROVE  /\ ~(Cardinality(Newer(k)') >= RetentionMax)
                        /\ \A v \in api'.victims : stamp'[v] <= stamp'[k]
    BY DEF Oldest
  <2>2. k \in Jobs
    BY <2>1 DEF Stored
  <2>3. k \in Stored \ api.victims
    BY <1>1, <1>2, <1>5, <2>1, <2>2
  <2>4. /\ ~(Cardinality(Newer(k)) >= RetentionMax)
        /\ \A v \in api.victims : stamp[v] <= stamp[k]
    BY <1>1, <2>1, <2>3 DEF PruneInv, Oldest
  <2>5. Newer(k)' = Newer(k)
    <3>1. \A m \in Stored' : stamp[m] > stamp[k] => m \in Stored
      <4>1. SUFFICES ASSUME NEW m \in Stored', stamp[m] > stamp[k] PROVE m \in Stored
        OBVIOUS
      <4>2. m \in Jobs
        BY DEF Stored
      <4>3. stamp[m] \in Nat /\ stamp[k] \in Nat
        BY <1>0, <2>2, <4>2
      <4>4. ~(stamp[m] <= stamp[k])
        BY <4>1, <4>3
      <4>5. m \notin api.victims
        BY <2>4, <4>4
      <4> QED
        BY <1>2, <1>5, <4>2, <4>5
    <3>2. \A m \in Stored : m \in Stored'
      BY <1>0, <1>2
    <3> QED
      BY <1>1, <3>1, <3>2 DEF Newer
  <2> QED
    BY <1>1, <2>4, <2>5
<1> QED
  BY <1>12, <1>13, <1>14, <1>15, <1>16, <1>17 DEF PruneInv

LEMMA PruneDequeue ==
  ASSUME PruneInv, FinalInv', NEW w \in Workers, Dequeue(w)
  PROVE  PruneInv'
<1>0. /\ queue \in Seq(Item) /\ queue # << >> /\ run \in [Workers -> Run]
  BY DEF PruneInv, FinalInv, OwnerInv, TypeInv, TypeOK, Dequeue
<1> DEFINE j == queue[1].job
<1>1. j \in Jobs /\ InQueue(j)
  <2>1. 1 \in DOMAIN queue /\ queue[1] \in Item
    BY <1>0, TailItem
  <2> QED
    BY <2>1 DEF Item, InQueue
<1>2. /\ \A v \in Workers \ {w} : run'[v] = run[v]
      /\ run'[w].job = j /\ queue' = Tail(queue)
      /\ UNCHANGED <<rows, live, attached, api, recq, server, stamp>>
  BY <1>0, TailItem DEF Dequeue, NoRun, durable, records, process
<1>3. /\ \A k \in Jobs : InQueue(k)' => InQueue(k)
      /\ \A k \in Jobs : Adding(k)' <=> Adding(k)
  BY <1>0, <1>2, TailItem DEF InQueue, Adding
<1>4. \A k \in Jobs : (InHands(k)' => InHands(k)) /\ (Waiting(k)' => Waiting(k))
  BY <1>1, <1>2, <1>3 DEF InHands, Waiting, Holds, At
<1>5. attached \subseteq Jobs /\ api.victims \subseteq Jobs /\ Stored' = Stored
  BY <1>2 DEF PruneInv, FinalInv, OwnerInv, TypeInv, TypeOK, Stored
<1>6. Reaches' /\ NotBack'
  BY <1>2, <1>4, <1>5 DEF PruneInv, Reaches, NotBack
<1>7. Cut' /\ Calm' /\ Pruning'
  BY <1>2, <1>5 DEF PruneInv, Cut, Calm, Pruning
<1>8. Oldest'
  BY <1>2, <1>5 DEF PruneInv, Oldest, Newer
<1> QED
  BY <1>6, <1>7, <1>8 DEF PruneInv

(* A prune leaves in the table what is not beyond the cap, and nothing     *)
(* that is older than a pruned row.                                        *)
LEMMA NewerFinite ==
  ASSUME NEW j \in Jobs
  PROVE  IsFiniteSet(Newer(j)) /\ Cardinality(Newer(j)) \in Nat
BY JobsAssumption, FS_Subset, FS_CardinalityType DEF Newer, Stored

LEMMA PruneOldest ==
  ASSUME TypeInv, NEW j \in Stored \ Beyond(RetentionMax)
  PROVE  /\ ~(Cardinality({k \in Stored \ Beyond(RetentionMax) : stamp[k] > stamp[j]}) >= RetentionMax)
         /\ \A v \in Beyond(RetentionMax) : stamp[v] <= stamp[j]
<1>0. j \in Jobs /\ stamp \in [Jobs -> Nat] /\ RetentionMax \in Nat
  BY BoundsAssumption DEF TypeInv, TypeOK, Stored
<1>1. ~(Cardinality(Newer(j)) >= RetentionMax) /\ Cardinality(Newer(j)) \in Nat
  BY <1>0, NewerFinite DEF Beyond, Newer
<1>2. ASSUME NEW T \in SUBSET Newer(j)
      PROVE  ~(Cardinality(T) >= RetentionMax)
  <2>1. Cardinality(T) <= Cardinality(Newer(j)) /\ Cardinality(T) \in Nat
    BY <1>0, NewerFinite, FS_Subset, FS_CardinalityType
  <2> QED
    BY <1>0, <1>1, <2>1
<1>3. ~(Cardinality({k \in Stored \ Beyond(RetentionMax) : stamp[k] > stamp[j]}) >= RetentionMax)
  <2>1. {k \in Stored \ Beyond(RetentionMax) : stamp[k] > stamp[j]} \in SUBSET Newer(j)
    BY DEF Newer
  <2> QED
    BY <1>2, <2>1
<1>4. ASSUME NEW v \in Beyond(RetentionMax)
      PROVE  stamp[v] <= stamp[j]
  <2>0. v \in Jobs /\ v \in Stored /\ Cardinality(Newer(v)) >= RetentionMax
    BY DEF Beyond, Newer, Stored
  <2>1. SUFFICES ASSUME ~(stamp[v] <= stamp[j]) PROVE FALSE
    OBVIOUS
  <2>2. \A m \in Jobs : stamp[m] > stamp[v] => stamp[m] > stamp[j]
    <3>1. stamp[v] \in Nat /\ stamp[j] \in Nat /\ \A m \in Jobs : stamp[m] \in Nat
      BY <1>0, <2>0
    <3> QED
      BY <2>1, <3>1
  <2>3. Newer(v) \in SUBSET Newer(j)
    BY <2>2 DEF Newer, Stored
  <2> QED
    BY <1>2, <2>0, <2>3
<1> QED
  BY <1>3, <1>4

LEMMA PruneApi ==
  ASSUME PruneInv, FinalInv',
         (\E j \in Jobs : Submit(j) \/ GetJob(j)) \/ Add \/ AddRaises
  PROVE  PruneInv'
<1>0. /\ FinalInv /\ TypeInv /\ rows \in [Jobs -> Row] /\ rec \in [Jobs -> Row]
      /\ stamp \in [Jobs -> Nat] /\ queue \in Seq(Item)
      /\ attached \subseteq Jobs /\ live \subseteq Jobs /\ recq \subseteq Jobs
      /\ api \in [pc : ApiPC, job : Jobs \cup {NoJob}, victims : SUBSET Jobs, todo : SUBSET Jobs]
  BY DEF PruneInv, FinalInv, OwnerInv, TypeInv, TypeOK
<1>1. ASSUME NEW j \in Jobs, Submit(j) PROVE PruneInv'
  <2>1. /\ UNCHANGED <<rows, queue, run, recq, server>>
        /\ live' = live \cup {j} /\ attached' = attached \cup {j}
        /\ api'.pc = "persist" /\ api'.job = j /\ api'.victims = {}
        /\ api.pc = "idle" /\ stamp[j] = 0 /\ server = "up"
    BY <1>1 DEF Submit, process, NoApi
  <2>2. /\ j \notin Stored /\ ~InQueue(j) /\ j \notin recq
        /\ \A w \in Workers : ~Holds(w, j)
    BY <2>1 DEF PruneInv, FinalInv, OwnerInv, Stamped, Stored
  <2>3. \A k \in Jobs : InHands(k)' => InHands(k) /\ k # j
    <3>1. \A k \in Jobs : /\ InQueue(k)' <=> InQueue(k)
                          /\ \A w \in Workers : Holds(w, k)' <=> Holds(w, k)
      BY <2>1 DEF InQueue, Holds
    <3> QED
      BY <2>1, <2>2, <3>1 DEF InHands
  <2>4. Stored' = Stored /\ api.victims = {}
    BY <2>1 DEF Stored, PruneInv, Pruning
  <2>5. Reaches'
    BY <1>0, <2>1, <2>3, <2>4 DEF PruneInv, Reaches
  <2>6. Cut' /\ NotBack' /\ Calm' /\ Pruning' /\ Oldest'
    BY <2>1, <2>2, <2>4 DEF PruneInv, Cut, NotBack, Calm, Pruning, Oldest
  <2> QED
    BY <2>5, <2>6 DEF PruneInv
<1>2. ASSUME NEW j \in Jobs, GetJob(j) PROVE PruneInv'
  <2>1. /\ UNCHANGED <<rows, queue, recq, server, stamp, api>>
        /\ live' = live \cup {j} /\ attached' = attached \cup {j}
        /\ api.pc = "idle" /\ server = "up" /\ j \in Stored
    BY <1>2 DEF GetJob, Rehydrate, durable, process
  <2>2. \A w \in Workers : run'[w].pc = run[w].pc /\ run'[w].job = run[w].job
    BY <1>0, <1>2, GetJobRuns
  <2>3. \A k \in Jobs : InHands(k)' => InHands(k)
    BY <2>1, <2>2 DEF InHands, InQueue, Adding, Holds
  <2>4. Stored' = Stored /\ api.victims = {}
    BY <2>1 DEF Stored, PruneInv, Pruning
  <2>5. Reaches'
    BY <1>0, <2>1, <2>3, <2>4 DEF PruneInv, Reaches
  <2>6. Cut' /\ NotBack' /\ Calm' /\ Pruning' /\ Oldest'
    BY <2>1, <2>4 DEF PruneInv, Cut, NotBack, Calm, Pruning, Oldest
  <2> QED
    BY <2>5, <2>6 DEF PruneInv
<1>3. CASE PersistInitial
  <2> DEFINE j == api.job
  <2>1. /\ UNCHANGED <<live, attached, queue, run, recq, server, stamp>>
        /\ api'.pc = "prune" /\ api'.job = j /\ api'.victims = api.victims
        /\ api.pc = "persist" /\ j \in Jobs
        /\ rows' = IF j \in attached THEN [rows EXCEPT ![j] = rec[j]] ELSE rows
    BY <1>0, <1>3 DEF PersistInitial, Mutate, process, TypeInv, Shape
  <2>2. rec[j].status = "queued"
    BY <2>1 DEF PruneInv, FinalInv, RecordOpen
  <2>3. /\ \A k \in Jobs \ {j} : k \in Stored' <=> k \in Stored
        /\ j \in attached => j \in Stored'
    BY <1>0, <2>1, <2>2 DEF Stored
  <2>4. api.victims = {} /\ recq = {}
    BY <2>1 DEF PruneInv, Pruning, Calm
  <2>5. \A k \in Jobs : InHands(k)' => InHands(k) \/ k = j
    BY <2>1 DEF InHands, InQueue, Adding, Holds
  <2>6. Reaches'
    BY <1>0, <2>1, <2>3, <2>4, <2>5 DEF PruneInv, Reaches
  <2>7. Cut' /\ NotBack' /\ Calm' /\ Pruning' /\ Oldest'
    BY <2>1, <2>4 DEF PruneInv, Cut, NotBack, Calm, Pruning, Oldest
  <2> QED
    BY <2>6, <2>7 DEF PruneInv
<1>4. CASE FirstPrune
  <2>1. /\ UNCHANGED <<live, attached, queue, run, recq, server, stamp>>
        /\ api'.pc = "evict" /\ api'.job = api.job /\ api'.victims = Beyond(RetentionMax)
        /\ api.pc = "prune"
        /\ rows' = [k \in Jobs |-> IF k \in Beyond(RetentionMax) THEN NoRow ELSE rows[k]]
    BY <1>0, <1>4 DEF FirstPrune, records, process
  <2>2. Stored' = Stored \ Beyond(RetentionMax)
    BY <2>1 DEF Stored, NoRow
  <2>3. api.victims = {} /\ recq = {} /\ server = "up"
    BY <2>1 DEF PruneInv, Pruning, Calm
  <2>4. \A k \in Jobs : InHands(k)' => InHands(k)
    BY <2>1 DEF InHands, InQueue, Adding, Holds
  <2>5. Reaches'
    BY <1>0, <2>1, <2>2, <2>3, <2>4 DEF PruneInv, Reaches
  <2>6. Cut' /\ NotBack' /\ Calm'
    BY <2>1, <2>2, <2>3 DEF PruneInv, Cut, NotBack, Calm
  <2>7. Pruning'
    <3>1. \A v \in Beyond(RetentionMax) : stamp[v] # 0
      BY DEF Beyond, Stored, PruneInv, FinalInv, OwnerInv, Stamped
    <3> QED
      BY <2>1, <3>1 DEF Pruning
  <2>8. Oldest'
    <3>1. SUFFICES ASSUME NEW k \in Stored' \ api'.victims
                   PROVE  /\ ~(Cardinality(Newer(k)') >= RetentionMax)
                          /\ \A v \in api'.victims : stamp'[v] <= stamp'[k]
      BY DEF Oldest
    <3>2. k \in Stored \ Beyond(RetentionMax)
      BY <2>1, <2>2, <3>1
    <3>3. Newer(k)' = {m \in Stored \ Beyond(RetentionMax) : stamp[m] > stamp[k]}
      BY <2>1, <2>2 DEF Newer
    <3> QED
      BY <1>0, <2>1, <3>2, <3>3, PruneOldest
  <2> QED
    BY <2>5, <2>6, <2>7, <2>8 DEF PruneInv
<1>5. CASE Evict
  <2>1. /\ UNCHANGED <<rows, attached, queue, run, recq, server, stamp>>
        /\ api'.pc = "detach" /\ api'.job = api.job /\ api'.victims = api.victims
        /\ api'.todo = api.victims \cap live /\ live' = live \ api.victims
        /\ api.pc = "evict"
    BY <1>0, <1>5 DEF Evict, durable, process
  <2>2. Stored' = Stored
    BY <2>1 DEF Stored
  <2>3. \A k \in Jobs : (InHands(k)' => InHands(k)) /\ (Waiting(k)' => Waiting(k))
    BY <2>1 DEF InHands, Waiting, InQueue, Adding, Holds, At
  <2>4. Reaches' /\ NotBack'
    BY <1>0, <2>1, <2>2, <2>3 DEF PruneInv, Reaches, NotBack
  <2>5. Cut'
    BY <2>1 DEF PruneInv, Cut
  <2>6. Calm' /\ Pruning' /\ Oldest'
    BY <2>1, <2>2 DEF PruneInv, Calm, Pruning, Oldest, Newer
  <2> QED
    BY <2>4, <2>5, <2>6 DEF PruneInv
<1>6. CASE Detach
  <2>1. PICK j \in api.todo : attached' = attached \ {j} /\ api' = [api EXCEPT !.todo = @ \ {j}]
    BY <1>6 DEF Detach
  <2>2. /\ UNCHANGED <<rows, live, queue, run, recq, server, stamp>>
        /\ api'.pc = "detach" /\ api'.job = api.job /\ api'.victims = api.victims
        /\ api'.todo = api.todo \ {j} /\ api.pc = "detach"
    BY <1>0, <1>6, <2>1 DEF Detach, durable, process
  <2>3. Stored' = Stored
    BY <2>2 DEF Stored
  <2>4. \A k \in Jobs : (InHands(k)' => InHands(k)) /\ (Waiting(k)' => Waiting(k))
    BY <2>2 DEF InHands, Waiting, InQueue, Adding, Holds, At
  <2>5. Reaches' /\ NotBack'
    BY <1>0, <2>1, <2>2, <2>3, <2>4 DEF PruneInv, Reaches, NotBack
  <2>6. Cut'
    BY <2>1, <2>2 DEF PruneInv, Cut
  <2>7. Calm' /\ Pruning' /\ Oldest'
    BY <2>2, <2>3 DEF PruneInv, Calm, Pruning, Oldest, Newer
  <2> QED
    BY <2>5, <2>6, <2>7 DEF PruneInv
<1>7. CASE SecondPrune
  <2>1. /\ UNCHANGED <<live, attached, queue, run, recq, server, stamp>>
        /\ api'.pc = "threads" /\ api'.job = api.job
        /\ api'.victims = api.victims \cup Beyond(RetentionMax)
        /\ api.pc = "detach" /\ api.todo = {}
        /\ rows' = [k \in Jobs |-> IF k \in Beyond(RetentionMax) THEN NoRow ELSE rows[k]]
    BY <1>0, <1>7 DEF SecondPrune, records, process
  <2>2. Stored' = Stored \ Beyond(RetentionMax)
    BY <2>1 DEF Stored, NoRow
  <2>3. api'.victims = api.victims /\ recq = {} /\ server = "up"
    BY <2>1, BeyondVictims DEF PruneInv, Calm
  <2>4. \A k \in Jobs : (InHands(k)' => InHands(k)) /\ (Waiting(k)' => Waiting(k))
    BY <2>1 DEF InHands, Waiting, InQueue, Adding, Holds, At
  <2>5. Reaches' /\ NotBack'
    BY <1>0, <2>1, <2>2, <2>3, <2>4 DEF PruneInv, Reaches, NotBack
  <2>6. Cut'
    BY <2>1, <2>3 DEF PruneInv, Cut
  <2>7. Calm' /\ Pruning' /\ Oldest'
    BY <2>1, <2>2, <2>3 DEF PruneInv, Calm, Pruning, Oldest
  <2> QED
    BY <2>5, <2>6, <2>7 DEF PruneInv
<1>8. CASE DeleteThreads \/ Enqueue \/ AddRaises
  <2>1. /\ UNCHANGED <<rows, live, attached, run, recq, server, stamp>>
        /\ api'.pc \in {"idle", "submit"} /\ api'.victims = {}
        /\ api'.pc = "submit" => api.pc = "threads" /\ api'.job = api.job
        /\ api.pc \in {"persist", "prune", "detach", "threads", "submit"}
        /\ api.pc = "detach" => api.todo = {}
    <3>1. CASE DeleteThreads
      BY <1>0, <3>1 DEF DeleteThreads, durable, records, process
    <3>2. CASE Enqueue
      BY <1>0, <3>2 DEF Enqueue, durable, records, process, NoApi, PruneInv, Pruning
    <3>3. CASE AddRaises
      BY <1>0, <3>3 DEF AddRaises, durable, records, process, NoApi
    <3> QED
      BY <1>8, <3>1, <3>2, <3>3
  <2>2. \A k \in Jobs : InQueue(k)' => InQueue(k) \/ (Adding(k) /\ api.pc # "persist")
    <3>1. CASE DeleteThreads \/ AddRaises
      BY <3>1 DEF DeleteThreads, AddRaises, InQueue
    <3>2. CASE Enqueue
      <4>1. queue' = Append(queue, [job |-> api.job, resume |-> FALSE]) /\ api.pc = "submit"
        BY <3>2 DEF Enqueue
      <4>2. [job |-> api.job, resume |-> FALSE] \in Item
        BY <1>0, <4>1 DEF Item, TypeInv, Shape
      <4> QED
        BY <1>0, <4>1, <4>2, AppendItem DEF InQueue, Adding
    <3> QED
      BY <1>8, <3>1, <3>2
  <2>3. \A k \in Jobs : InHands(k)' => InHands(k)
    BY <2>1, <2>2 DEF InHands, Adding, Holds
  <2>4. attached \cap api.victims = {}
    BY <2>1 DEF PruneInv, Cut, Pruning
  <2>5. Stored' = Stored /\ server = "up" /\ recq = {}
    BY <2>1 DEF Stored, PruneInv, Calm
  <2>6. Reaches'
    BY <1>0, <2>1, <2>3, <2>4, <2>5 DEF PruneInv, Reaches
  <2>7. Cut'
    BY <2>1 DEF PruneInv, Cut
  <2>8. NotBack' /\ Calm' /\ Pruning' /\ Oldest'
    BY <2>1, <2>5 DEF NotBack, Calm, Pruning, Oldest
  <2> QED
    BY <2>6, <2>7, <2>8 DEF PruneInv
<1> QED
  BY <1>1, <1>2, <1>3, <1>4, <1>5, <1>6, <1>7, <1>8 DEF Add

LEMMA PruneStartup ==
  ASSUME PruneInv, FinalInv',
         Startup \/ Crash \/ \E j \in Jobs : RecoverRaises(j)
  PROVE  PruneInv'
<1>0. /\ FinalInv /\ TypeInv /\ rows \in [Jobs -> Row] /\ queue \in Seq(Item)
      /\ attached \subseteq Jobs /\ live \subseteq Jobs /\ recq \subseteq Jobs
  BY DEF PruneInv, FinalInv, OwnerInv, TypeInv, TypeOK
<1>1. CASE Restart \/ Serve
  <2>1. /\ UNCHANGED <<rows, live, attached, queue, run, stamp, api>>
        /\ server # "up" /\ server' \in {"starting", "up"}
        /\ server' = "up" => recq' = {}
        /\ recq' = recq \/ recq' = Nonterminal
    BY <1>1 DEF Restart, Serve, durable, records
  <2>2. api.pc = "idle" /\ api.victims = {} /\ Stored' = Stored
    BY <2>1 DEF PruneInv, Calm, Pruning, Stored
  <2>3. \A k \in Jobs : InHands(k)' => InHands(k) \/ k \in Stored
    BY <2>1 DEF InHands, InQueue, Adding, Holds, Nonterminal
  <2>4. Reaches'
    BY <1>0, <2>1, <2>2, <2>3 DEF PruneInv, Reaches
  <2>5. Cut' /\ NotBack' /\ Calm' /\ Pruning' /\ Oldest'
    BY <2>1, <2>2 DEF PruneInv, Cut, NotBack, Calm, Pruning, Oldest, Nonterminal
  <2> QED
    BY <2>4, <2>5 DEF PruneInv
<1>2. ASSUME NEW j \in Jobs, Recover(j) PROVE PruneInv'
  <2> DEFINE row == IF Resumable(j) THEN rows[j] ELSE Reset(j)
  <2>1. /\ UNCHANGED <<run, stamp, api, server>>
        /\ queue' = Append(queue, [job |-> j, resume |-> Resumable(j)])
        /\ recq' = recq \ {j} /\ j \in recq /\ server = "starting"
        /\ live' = live \cup {j} /\ attached' = attached \cup {j}
        /\ rows' = [rows EXCEPT ![j] = row]
    BY <1>2 DEF Recover, IsNext
  <2>2. [job |-> j, resume |-> Resumable(j)] \in Item
    BY DEF Item, Resumable
  <2>3. \A k \in Jobs : InQueue(k)' => InQueue(k) \/ k = j
    BY <1>0, <2>1, <2>2, AppendItem DEF InQueue
  <2>4. api.pc = "idle" /\ api.victims = {} /\ j \in Stored
    BY <2>1 DEF PruneInv, Calm, Pruning
  <2>5. row.status # "absent"
    BY <1>0, <2>4 DEF Reset, Row, Stored
  <2> HIDE DEF row
  <2>6. Stored' = Stored
    BY <1>0, <2>1, <2>4, <2>5 DEF Stored
  <2>7. \A k \in Jobs : InHands(k)' => InHands(k)
    BY <2>1, <2>3 DEF InHands, Adding, Holds
  <2>8. Reaches'
    BY <1>0, <2>1, <2>4, <2>6, <2>7 DEF PruneInv, Reaches
  <2>9. Cut' /\ NotBack' /\ Calm' /\ Pruning' /\ Oldest'
    BY <2>1, <2>4, <2>6 DEF PruneInv, Cut, NotBack, Calm, Pruning, Oldest
  <2> QED
    BY <2>8, <2>9 DEF PruneInv
<1>3. CASE Die
  <2>1. /\ attached' = {} /\ recq' = {} /\ server' = "down"
        /\ api'.pc = "idle" /\ api'.victims = {}
    BY <1>3 DEF Die, NoApi
  <2> QED
    BY <2>1 DEF PruneInv, Reaches, Cut, NotBack, Calm, Pruning, Oldest
<1> QED
  BY <1>1, <1>2, <1>3 DEF Startup, Crash, RecoverRaises

LEMMA PruneNext == PruneInv /\ [Next]_vars => PruneInv'
<1> SUFFICES ASSUME PruneInv, [Next]_vars PROVE PruneInv'
  OBVIOUS
<1>1. FinalInv'
  BY FinalNext DEF PruneInv
<1>2. CASE UNCHANGED vars
  <2>1. /\ Reaches /\ Cut /\ NotBack /\ Calm /\ Pruning /\ Oldest
        /\ UNCHANGED <<rows, stamp, live, rec, attached, queue, run, api, server, recq>>
    BY <1>2 DEF PruneInv, vars
  <2>2. Reaches' /\ NotBack'
    BY <2>1 DEF Reaches, NotBack, InHands, Waiting, InQueue, Adding, Holds, At, Stored
  <2>3. Cut' /\ Calm'
    BY <2>1 DEF Cut, Calm, InHands, Waiting, InQueue, Adding, Holds, At, Stored, Newer
  <2>4. Pruning' /\ Oldest'
    BY <2>1 DEF Pruning, Oldest, InHands, Waiting, InQueue, Adding, Holds, At, Stored, Newer
  <2> QED
    BY <1>1, <2>2, <2>3, <2>4 DEF PruneInv
<1>3. CASE Next
  BY <1>1, <1>3, PruneApi, PruneBusy, PruneDequeue, PruneStartup DEF Next, Work, Busy
<1> QED
  BY <1>2, <1>3

(* What one step may do, outside add(), to a row that is gone. *)
StaysGone ==
  \A j \in Jobs : stamp[j] > 0 /\ api.pc = "idle" /\ j \notin Stored => j \notin Stored'

LEMMA GoneStep == PruneInv /\ [Next]_vars => StaysGone
<1> SUFFICES ASSUME PruneInv, [Next]_vars, NEW j \in Jobs, api.pc = "idle", j \notin Stored
             PROVE  j \notin Stored'
  BY DEF StaysGone
<1>0. TypeInv /\ FinalInv /\ api.victims = {}
  BY DEF PruneInv, FinalInv, OwnerInv, Pruning
<1>1. ASSUME NEW w \in Workers, Busy(w) PROVE j \notin Stored'
  <2>1. run[w].pc # "idle" /\ run[w].job \in Jobs
    BY <1>0, <1>1, BusyEffect
  <2>2. CASE j # run[w].job
    BY <1>0, <1>1, <2>2, BusyStored
  <2>3. CASE j = run[w].job
    <3>1. InHands(j)
      BY <2>1, <2>3 DEF InHands, Holds
    <3>2. j \notin attached
      BY <1>0, <3>1 DEF PruneInv, Reaches
    <3> QED
      BY <1>0, <1>1, <2>3, <3>2, BusyStored
  <2> QED
    BY <2>2, <2>3
<1>2. ASSUME NEW k \in Jobs, Recover(k) PROVE j \notin Stored'
  <2>1. k # j
    BY <1>2 DEF Recover, IsNext, PruneInv, Calm
  <2>2. rows'[j] = rows[j]
    BY <1>0, <1>2, <2>1 DEF Recover, TypeInv, TypeOK
  <2> QED
    BY <2>2 DEF Stored
<1>3. ASSUME rows' = rows PROVE j \notin Stored'
  BY <1>3 DEF Stored
<1>4. CASE (\E k \in Jobs : Submit(k) \/ GetJob(k) \/ RecoverRaises(k)) \/ Add \/ AddRaises
           \/ Crash \/ Restart \/ Serve \/ UNCHANGED vars \/ \E w \in Workers : Dequeue(w)
  <2>1. rows' = rows
    BY <1>4
    DEF Submit, GetJob, RecoverRaises, Add, AddRaises, Crash, Restart, Serve, Dequeue, Die,
        PersistInitial, FirstPrune, Evict, Detach, SecondPrune, DeleteThreads, Enqueue,
        durable, vars
  <2> QED
    BY <1>3, <2>1
<1> QED
  BY <1>1, <1>2, <1>4 DEF Next, Startup, Work, Busy

(* Once the add() that pruned a job is over its row never comes back,      *)
(* whatever the worker that still runs it, a reader or recovery does.      *)
THEOREM PrunedRowStaysGone == Spec => PrunedStaysGone
<1>1. PruneInv /\ [Next]_vars => [StaysGone]_vars
  BY GoneStep
<1>2. [StaysGone]_vars => [\A j \in Jobs :
       stamp[j] > 0 /\ api.pc = "idle" /\ j \notin Stored => j \notin Stored']_vars
  BY DEF StaysGone
<1> QED
  BY PruneInit, PruneNext, <1>1, <1>2, PTL DEF Spec, PrunedStaysGone

-----------------------------------------------------------------------------
(* Write-through *)

(* Every live record has its store handle (the prune evicts a record       *)
(* before it detaches it); and while no call has raised it agrees with its *)
(* row, but for the record being inserted and the victims not yet evicted. *)
Paired ==
  /\ live \subseteq attached
  /\ api.pc = "detach" => live \cap api.victims = {} /\ api.todo \subseteq api.victims
  /\ faults = 0 =>
       \A j \in live :
         \/ rec[j] = rows[j]
         \/ api.pc = "persist" /\ j = api.job
         \/ api.pc = "evict" /\ j \in api.victims

PairInv == PruneInv /\ Paired

LEMMA PairInit == Init => PairInv
<1> SUFFICES ASSUME Init PROVE PairInv
  OBVIOUS
<1>1. PruneInv
  BY PruneInit
<1>2. api.pc = "idle" /\ live = {}
  BY DEF Init, NoApi
<1> QED
  BY <1>1, <1>2 DEF PairInv, Paired

(* A step that leaves rows, records, handles and the prune alone.          *)
LEMMA PairStill ==
  ASSUME PairInv, UNCHANGED <<rows, rec, live, attached, api>>,
         faults' = 0 => faults = 0
  PROVE  Paired'
BY DEF PairInv, Paired

(* Only a call that raises counts as a fault.                              *)
LEMMA BusyFaults ==
  ASSUME TypeInv, NEW w \in Workers, Busy(w), faults' = 0
  PROVE  faults = 0
<1>1. faults \in Nat
  BY DEF TypeInv, TypeOK
<1>2. CASE WorkRaises(w)
  <2>1. faults' = faults + 1
    BY <1>2 DEF WorkRaises, MarkRaises, CredentialsRaise, YieldRaises, DeliverRaises,
           FinishRaises, PublishRaises, FailRaises, WriteRaises, Raise
  <2> QED
    BY <1>1, <2>1
<1>3. CASE ~WorkRaises(w)
  BY <1>3 DEF Busy, Lookup, MarkRunning, Yield, RunNode, NodeRaises, Deliver, Finish,
         Publish, Fail, Checkpoint, counters
<1> QED
  BY <1>2, <1>3

LEMMA PairBusy ==
  ASSUME PairInv, NEW w \in Workers, Busy(w)
  PROVE  Paired'
<1>0. /\ TypeInv /\ FinalInv /\ rows \in [Jobs -> Row] /\ rec \in [Jobs -> Row]
      /\ attached \subseteq Jobs /\ live \subseteq Jobs /\ faults \in Nat
  BY DEF PairInv, PruneInv, FinalInv, OwnerInv, TypeInv, TypeOK
<1>j. PICK j \in Jobs : j = run[w].job
  BY <1>0, BusyEffect
<1>1. /\ BusyWrite(w) /\ run[w].pc # "idle" /\ api' = api
      /\ \A k \in Jobs \ {j} : rows'[k] = rows[k] /\ rec'[k] = rec[k]
  BY <1>0, <1>j, BusyWrites, BusyEffect, BusyOthers
<1>2. faults' = 0 => faults = 0
  BY <1>0, BusyFaults
<1>3. CASE UNCHANGED <<rows, records>>
  BY <1>1, <1>2, <1>3, PairStill DEF records
<1>4. CASE Lookup(w)
  <2>1. CASE UNCHANGED records
    BY <1>1, <1>2, <1>4, <2>1, PairStill DEF Lookup, records, durable
  <2>2. CASE ~UNCHANGED records
    <3>1. /\ rows' = rows /\ rec' = [rec EXCEPT ![j] = rows[j]]
          /\ live' = live \cup {j} /\ attached' = attached \cup {j}
          /\ j \in Stored /\ At(w, "lookup")
      BY <1>4, <1>j, <2>2 DEF Lookup, Rehydrate, durable
    <3>2. Waiting(j)
      BY <1>1, <1>j, <3>1 DEF Waiting, Holds
    <3>3. j \notin api.victims
      BY <3>1, <3>2 DEF PairInv, PruneInv, NotBack
    <3>4. rec'[j] = rows'[j]
      BY <1>0, <3>1
    <3> QED
      BY <1>0, <1>1, <1>2, <3>1, <3>3, <3>4 DEF PairInv, Paired
  <2> QED
    BY <2>1, <2>2
<1>5. ASSUME NEW new \in Row, Write(w, new) \/ WriteRaises(w, new), UNCHANGED <<live, attached>>
      PROVE  Paired'
  <2>1. CASE UNCHANGED <<rows, rec>>
    BY <1>1, <1>2, <1>5, <2>1, PairStill
  <2>2. CASE ~UNCHANGED <<rows, rec>> /\ Write(w, new)
    <3>1. rec' = [rec EXCEPT ![j] = new] /\ (j \in attached => rows' = [rows EXCEPT ![j] = new])
      BY <1>j, <2>2 DEF Write, Mutate
    <3>2. j \in live => rec'[j] = rows'[j]
      BY <1>0, <3>1 DEF PairInv, Paired
    <3> QED
      BY <1>0, <1>1, <1>2, <1>5, <3>2 DEF PairInv, Paired
  <2>3. CASE WriteRaises(w, new)
    <3>1. faults' = faults + 1
      BY <2>3 DEF WriteRaises, Raise
    <3>2. faults' # 0
      BY <1>0, <3>1
    <3> QED
      BY <1>1, <1>5, <3>2 DEF PairInv, Paired
  <2> QED
    BY <1>5, <2>1, <2>2, <2>3
<1> QED
  BY <1>1, <1>3, <1>4, <1>5 DEF BusyWrite

LEMMA PairApi ==
  ASSUME PairInv,
         (\E j \in Jobs : Submit(j) \/ GetJob(j)) \/ Add \/ AddRaises
  PROVE  Paired'
<1>0. /\ TypeInv /\ FinalInv /\ rows \in [Jobs -> Row] /\ rec \in [Jobs -> Row]
      /\ attached \subseteq Jobs /\ live \subseteq Jobs /\ faults \in Nat
      /\ api \in [pc : ApiPC, job : Jobs \cup {NoJob}, victims : SUBSET Jobs, todo : SUBSET Jobs]
  BY DEF PairInv, PruneInv, FinalInv, OwnerInv, TypeInv, TypeOK
<1>1. ASSUME NEW j \in Jobs, Submit(j) PROVE Paired'
  <2>1. /\ UNCHANGED <<rows, faults>> /\ rec' = [rec EXCEPT ![j] = Queued]
        /\ live' = live \cup {j} /\ attached' = attached \cup {j}
        /\ api'.pc = "persist" /\ api'.job = j /\ api.pc = "idle"
    BY <1>1 DEF Submit, NoApi, counters
  <2>2. \A k \in Jobs \ {j} : rec'[k] = rec[k]
    BY <1>0, <2>1
  <2> QED
    BY <1>0, <2>1, <2>2 DEF PairInv, Paired
<1>2. ASSUME NEW j \in Jobs, GetJob(j) PROVE Paired'
  <2>1. /\ UNCHANGED <<rows, faults, api>> /\ rec' = [rec EXCEPT ![j] = rows[j]]
        /\ live' = live \cup {j} /\ attached' = attached \cup {j}
        /\ api.pc = "idle"
    BY <1>2 DEF GetJob, Rehydrate, durable, counters
  <2>2. rec'[j] = rows'[j] /\ \A k \in Jobs \ {j} : rec'[k] = rec[k]
    BY <1>0, <2>1
  <2> QED
    BY <1>0, <2>1, <2>2 DEF PairInv, Paired
<1>3. CASE PersistInitial
  <2>0. PICK j \in Jobs : j = api.job
    BY <1>0, <1>3 DEF PersistInitial, TypeInv, Shape
  <2>1. /\ UNCHANGED <<live, attached, faults>> /\ api'.pc = "prune" /\ api.pc = "persist"
        /\ rec' = [rec EXCEPT ![j] = rec[j]]
        /\ rows' = IF j \in attached THEN [rows EXCEPT ![j] = rec[j]] ELSE rows
    BY <1>0, <1>3, <2>0 DEF PersistInitial, Mutate, counters
  <2>2. j \in live => rec'[j] = rows'[j]
    BY <1>0, <2>1 DEF PairInv, Paired
  <2>3. \A k \in Jobs \ {j} : rec'[k] = rec[k] /\ rows'[k] = rows[k]
    BY <1>0, <2>1
  <2> QED
    BY <1>0, <2>0, <2>1, <2>2, <2>3 DEF PairInv, Paired
<1>4. CASE FirstPrune
  <2>1. /\ UNCHANGED <<rec, live, attached, faults>>
        /\ api'.pc = "evict" /\ api'.victims = Beyond(RetentionMax) /\ api.pc = "prune"
        /\ \A k \in Jobs \ Beyond(RetentionMax) : rows'[k] = rows[k]
    BY <1>0, <1>4 DEF FirstPrune, records, counters
  <2>2. api.pc # "persist" /\ api.pc # "evict" /\ api'.pc # "detach"
    BY <2>1
  <2>3. faults = 0 => \A k \in live : rec[k] = rows[k]
    BY <2>2 DEF PairInv, Paired
  <2>4. faults' = 0 => \A k \in live' : rec'[k] = rows'[k] \/ k \in api'.victims
    BY <1>0, <2>1, <2>3
  <2>5. live' \subseteq attached'
    BY <2>1 DEF PairInv, Paired
  <2> QED
    BY <2>1, <2>2, <2>4, <2>5 DEF Paired
<1>5. CASE Evict
  <2>1. /\ UNCHANGED <<rows, rec, attached, faults>>
        /\ api'.pc = "detach" /\ api'.victims = api.victims
        /\ api'.todo = api.victims \cap live /\ live' = live \ api.victims
        /\ api.pc = "evict"
    BY <1>0, <1>5 DEF Evict, durable, counters
  <2> QED
    BY <1>0, <2>1 DEF PairInv, Paired
<1>6. CASE Detach
  <2>1. PICK j \in api.todo : attached' = attached \ {j} /\ api' = [api EXCEPT !.todo = @ \ {j}]
    BY <1>6 DEF Detach
  <2>2. /\ UNCHANGED <<rows, rec, live, faults>>
        /\ api'.pc = "detach" /\ api'.victims = api.victims
        /\ api'.todo = api.todo \ {j} /\ api.pc = "detach"
    BY <1>0, <1>6, <2>1 DEF Detach, durable, counters
  <2> QED
    BY <1>0, <2>1, <2>2 DEF PairInv, Paired
<1>7. CASE SecondPrune
  <2>1. /\ UNCHANGED <<rec, live, attached, faults>>
        /\ api'.pc = "threads" /\ api.pc = "detach"
        /\ \A k \in Jobs \ Beyond(RetentionMax) : rows'[k] = rows[k]
    BY <1>0, <1>7 DEF SecondPrune, records, counters
  <2>2. Beyond(RetentionMax) \subseteq api.victims
    BY <2>1, BeyondVictims DEF PairInv
  <2>3. live \subseteq attached /\ live \cap api.victims = {}
    BY <2>1 DEF PairInv, Paired
  <2>4. faults = 0 => \A k \in live : rec[k] = rows[k]
    BY <2>1 DEF PairInv, Paired
  <2>5. \A k \in live : rows'[k] = rows[k] /\ rec'[k] = rec[k]
    BY <1>0, <2>1, <2>2, <2>3
  <2>6. faults' = 0 => \A k \in live' : rec'[k] = rows'[k]
    <3>1. SUFFICES ASSUME faults' = 0, NEW k \in live' PROVE rec'[k] = rows'[k]
      OBVIOUS
    <3>2. k \in live /\ faults = 0
      BY <2>1, <3>1
    <3> QED
      BY <2>4, <2>5, <3>2
  <2>7. live' \subseteq attached' /\ api'.pc # "detach"
    BY <2>1, <2>3
  <2> QED
    BY <2>6, <2>7 DEF Paired
<1>8. CASE DeleteThreads \/ Enqueue
  <2>1. /\ UNCHANGED <<rows, rec, live, attached, faults>>
        /\ api.pc \in {"threads", "submit"} /\ api'.pc \in {"submit", "idle"}
    <3>1. CASE DeleteThreads
      BY <1>0, <3>1 DEF DeleteThreads, records, counters
    <3>2. CASE Enqueue
      BY <3>2 DEF Enqueue, durable, records, counters, NoApi
    <3> QED
      BY <1>8, <3>1, <3>2
  <2> QED
    BY <2>1 DEF PairInv, Paired
<1>9. CASE AddRaises
  <2>1. /\ UNCHANGED <<live, attached>> /\ api'.pc = "idle" /\ faults' = faults + 1
    BY <1>9 DEF AddRaises, Raise, records, NoApi
  <2>2. faults' # 0
    BY <1>0, <2>1
  <2> QED
    BY <2>1, <2>2 DEF PairInv, Paired
<1> QED
  BY <1>1, <1>2, <1>3, <1>4, <1>5, <1>6, <1>7, <1>8, <1>9 DEF Add

LEMMA PairStartup ==
  ASSUME PairInv,
         Startup \/ Crash \/ \E j \in Jobs : RecoverRaises(j)
  PROVE  Paired'
<1>0. /\ TypeInv /\ rows \in [Jobs -> Row] /\ rec \in [Jobs -> Row]
      /\ attached \subseteq Jobs /\ live \subseteq Jobs
  BY DEF PairInv, PruneInv, FinalInv, OwnerInv, TypeInv, TypeOK
<1>1. CASE Restart \/ Serve
  BY <1>1, PairStill DEF Restart, Serve, durable, records, counters
<1>2. CASE Die
  <2>1. live' = {} /\ api'.pc = "idle"
    BY <1>2 DEF Die, NoApi
  <2> QED
    BY <2>1 DEF Paired
<1>3. ASSUME NEW j \in Jobs, Recover(j) PROVE Paired'
  <2> DEFINE row == IF Resumable(j) THEN rows[j] ELSE Reset(j)
  <2>1. /\ UNCHANGED <<api, faults>> /\ server = "starting"
        /\ rec' = [rec EXCEPT ![j] = row] /\ rows' = [rows EXCEPT ![j] = row]
        /\ live' = live \cup {j} /\ attached' = attached \cup {j}
    BY <1>3 DEF Recover, counters
  <2> HIDE DEF row
  <2>2. api.pc = "idle"
    BY <2>1 DEF PairInv, PruneInv, Calm
  <2>3. rec'[j] = rows'[j] /\ \A k \in Jobs \ {j} : rec'[k] = rec[k] /\ rows'[k] = rows[k]
    BY <1>0, <2>1
  <2> QED
    BY <1>0, <2>1, <2>2, <2>3 DEF PairInv, Paired
<1> QED
  BY <1>1, <1>2, <1>3 DEF Startup, Crash, RecoverRaises

LEMMA PairNext == PairInv /\ [Next]_vars => PairInv'
<1> SUFFICES ASSUME PairInv, [Next]_vars PROVE PairInv'
  OBVIOUS
<1>1. PruneInv'
  BY PruneNext DEF PairInv
<1>2. CASE UNCHANGED vars
  BY <1>1, <1>2, PairStill DEF PairInv, vars
<1>3. ASSUME NEW w \in Workers, Dequeue(w) PROVE Paired'
  BY <1>3, PairStill DEF Dequeue, durable, records, counters
<1>4. CASE Next
  <2>1. Paired'
    BY <1>3, <1>4, PairApi, PairBusy, PairStartup DEF Next, Work, Busy
  <2> QED
    BY <1>1, <2>1 DEF PairInv
<1> QED
  BY <1>2, <1>4

(* While no call has raised, a live record and its row agree whenever no   *)
(* insertion and no eviction is under way.                                 *)
THEOREM RecordsWriteThrough == Spec => []WriteThrough
<1>1. PairInv => WriteThrough
  BY DEF PairInv, Paired, WriteThrough
<1> QED
  BY PairInit, PairNext, <1>1, PTL DEF Spec

-----------------------------------------------------------------------------
(* The second prune is definitive *)

Known == {k \in Jobs : stamp[k] > 0}

(* The stamps number the submissions, so no two jobs have the same one.    *)
Ranked ==
  /\ \A j \in Jobs : stamp[j] <= Cardinality(Known)
  /\ \A j, k \in Jobs : stamp[j] = stamp[k] /\ stamp[j] # 0 => j = k

(* The rows that are not being pruned and are newer than v.                *)
Survivors(v) == {k \in Stored \ api.victims : stamp[k] > stamp[v]}

(* From the first prune to the second a victim has RetentionMax survivors  *)
(* above it, so the second removes it if a worker has stored it again;     *)
(* after the second the table is within its cap and has no victim left.    *)
Swept ==
  /\ api.pc \in {"evict", "detach"} =>
       \A v \in api.victims : Cardinality(Survivors(v)) >= RetentionMax
  /\ api.pc \in {"threads", "submit"} => Cardinality(Stored) <= RetentionMax
  /\ api.pc = "threads" => api.victims \cap Stored = {}

SweepInv == PruneInv /\ Ranked /\ Swept

LEMMA SubsetCard ==
  ASSUME NEW S \in SUBSET Jobs, NEW T \in SUBSET S
  PROVE  /\ IsFiniteSet(S) /\ IsFiniteSet(T)
         /\ Cardinality(S) \in Nat /\ Cardinality(T) \in Nat
         /\ Cardinality(T) <= Cardinality(S)
<1>1. IsFiniteSet(S)
  BY JobsAssumption, FS_Subset
<1>2. IsFiniteSet(T) /\ Cardinality(T) <= Cardinality(S)
  BY <1>1, FS_Subset
<1> QED
  BY <1>1, <1>2, FS_CardinalityType

LEMMA LeastNat ==
  ASSUME NEW T \in SUBSET Nat, T # {}
  PROVE  \E x \in T : \A y \in T : x <= y
<1>1. PICK x \in T : \A y \in T : ~ (<<y, x>> \in OpToRel(<, Nat))
  BY NatLessThanWellFounded, WFMin, Zenon
<1>2. \A y \in T : ~ (y < x)
  BY <1>1 DEF OpToRel
<1> QED
  BY <1>2

LEMMA RankInit == Init => Ranked
<1> SUFFICES ASSUME Init PROVE Ranked
  OBVIOUS
<1>1. Cardinality(Known) \in Nat
  BY SubsetCard DEF Known
<1> QED
  BY <1>1 DEF Init, Ranked

(* A submission takes the next stamp.                                      *)
LEMMA RankSubmit ==
  ASSUME TypeInv, Ranked, NEW j \in Jobs, Submit(j)
  PROVE  Ranked'
<1>0. stamp \in [Jobs -> Nat]
  BY DEF TypeInv, TypeOK
<1>1. stamp' = [stamp EXCEPT ![j] = 1 + Cardinality(Known)] /\ stamp[j] = 0
  BY DEF Submit, Known
<1>2. IsFiniteSet(Known) /\ Cardinality(Known) \in Nat
  BY SubsetCard DEF Known
<1>3. Known' = Known \cup {j} /\ j \notin Known
  BY <1>0, <1>1, <1>2 DEF Known
<1>4. Cardinality(Known') = Cardinality(Known) + 1
  BY <1>2, <1>3, FS_AddElement
<1>5. stamp'[j] = Cardinality(Known) + 1 /\ \A k \in Jobs \ {j} : stamp'[k] = stamp[k]
  BY <1>0, <1>1, <1>2
<1>6. \A k \in Jobs : stamp[k] \in Nat /\ stamp[k] <= Cardinality(Known)
  BY <1>0 DEF Ranked
<1>7. \A k \in Jobs : stamp'[k] <= Cardinality(Known')
  BY <1>2, <1>4, <1>5, <1>6
<1>8. \A k \in Jobs \ {j} : stamp'[k] # stamp'[j]
  BY <1>2, <1>5, <1>6
<1>9. \A k, m \in Jobs : stamp'[k] = stamp'[m] /\ stamp'[k] # 0 => k = m
  BY <1>5, <1>8 DEF Ranked
<1> QED
  BY <1>7, <1>9 DEF Ranked

(* Nothing else stamps a job.                                              *)
LEMMA StampStays ==
  ASSUME TypeInv, [Next]_vars, ~ \E j \in Jobs : Submit(j)
  PROVE  stamp' = stamp
<1>1. ASSUME NEW w \in Workers, Busy(w) PROVE stamp' = stamp
  BY <1>1, BusyEffect
<1>2. ASSUME NEW w \in Workers, Dequeue(w) PROVE stamp' = stamp
  BY <1>2 DEF Dequeue, durable
<1>3. CASE \E j \in Jobs : GetJob(j)
  BY <1>3 DEF GetJob, durable
<1>4. CASE Add \/ AddRaises
  BY <1>4
  DEF Add, AddRaises, PersistInitial, FirstPrune, Evict, Detach, SecondPrune,
      DeleteThreads, Enqueue, durable
<1>5. CASE Startup \/ Crash \/ \E j \in Jobs : RecoverRaises(j)
  BY <1>5 DEF Startup, Restart, Serve, Recover, Crash, RecoverRaises, Die, durable
<1>6. CASE UNCHANGED vars
  BY <1>6 DEF vars
<1> QED
  BY <1>1, <1>2, <1>3, <1>4, <1>5, <1>6 DEF Next, Work, Busy

LEMMA RankNext ==
  ASSUME TypeInv, Ranked, [Next]_vars
  PROVE  Ranked'
<1>1. CASE \E j \in Jobs : Submit(j)
  BY <1>1, RankSubmit
<1>2. CASE ~ \E j \in Jobs : Submit(j)
  <2>1. stamp' = stamp
    BY <1>2, StampStays
  <2> QED
    BY <2>1 DEF Ranked, Known
<1> QED
  BY <1>1, <1>2

(* The newest victim of a prune has nothing but survivors above it, and    *)
(* every other victim has at least those.                                  *)
LEMMA PruneCovers ==
  ASSUME TypeInv, Ranked, NEW v \in Beyond(RetentionMax)
  PROVE  Cardinality({k \in Stored \ Beyond(RetentionMax) : stamp[k] > stamp[v]}) >= RetentionMax
<1> DEFINE B == Beyond(RetentionMax)
           Above(u) == {k \in Stored \ B : stamp[k] > stamp[u]}
           N == Cardinality(Known)
           T == {N - stamp[u] : u \in B}
<1>0. /\ stamp \in [Jobs -> Nat] /\ Stored \subseteq Jobs /\ B \subseteq Jobs /\ RetentionMax \in Nat
      /\ N \in Nat /\ v \in B
  BY SubsetCard, BoundsAssumption DEF TypeInv, TypeOK, Stored, Beyond, Known
<1>1. \A u \in B : stamp[u] \in Nat /\ stamp[u] <= N
  BY <1>0 DEF Ranked
<1>2. PICK u \in B : \A t \in B : stamp[t] <= stamp[u]
  <2> HIDE DEF B, N
  <2>1. T \in SUBSET Nat /\ T # {}
    BY <1>0, <1>1
  <2>2. PICK x \in T : \A y \in T : x <= y
    BY <2>1, LeastNat
  <2>3. PICK u \in B : x = N - stamp[u]
    BY <2>2
  <2>4. \A t \in B : N - stamp[u] <= N - stamp[t]
    BY <2>2, <2>3
  <2>5. \A t \in B : stamp[t] <= stamp[u]
    BY <1>0, <1>1, <2>3, <2>4
  <2> QED
    BY <2>5
<1>3. Cardinality(Newer(u)) >= RetentionMax
  BY DEF Beyond, Newer
<1>4. Newer(u) \in SUBSET Above(v)
  <2> HIDE DEF B
  <2>1. ASSUME NEW k \in Newer(u) PROVE k \in Above(v)
    <3>1. k \in Stored /\ stamp[k] > stamp[u]
      BY <2>1 DEF Newer
    <3>2. stamp[k] \in Nat /\ stamp[u] \in Nat /\ stamp[v] \in Nat /\ stamp[v] <= stamp[u]
      BY <1>0, <1>1, <1>2, <3>1
    <3>3. k \notin B
      BY <1>2, <3>1, <3>2
    <3> QED
      BY <3>1, <3>2, <3>3
  <2> QED
    BY <2>1
<1>5. Above(v) \in SUBSET Jobs
  BY <1>0
<1> HIDE DEF B, Above
<1>6. /\ Cardinality(Newer(u)) <= Cardinality(Above(v))
      /\ Cardinality(Newer(u)) \in Nat /\ Cardinality(Above(v)) \in Nat
  BY <1>4, <1>5, SubsetCard
<1>7. Cardinality(Above(v)) >= RetentionMax
  BY <1>0, <1>3, <1>6
<1> QED
  BY <1>7 DEF Above, B

(* The oldest survivor of a prune has fewer than RetentionMax others above *)
(* it, and they are all there are.                                         *)
LEMMA PruneFits ==
  ASSUME TypeInv, OwnerInv, Ranked
  PROVE  Cardinality(Stored \ Beyond(RetentionMax)) <= RetentionMax
<1> DEFINE S == Stored \ Beyond(RetentionMax)
           T == {stamp[u] : u \in S}
<1>0. /\ stamp \in [Jobs -> Nat] /\ Stored \subseteq Jobs /\ S \subseteq Jobs
      /\ RetentionMax \in Nat \ {0}
  BY BoundsAssumption DEF TypeInv, TypeOK, Stored
<1>1. CASE S = {}
  BY <1>0, <1>1, FS_EmptySet
<1>2. CASE S # {}
  <2>1. PICK u \in S : \A t \in S : stamp[u] <= stamp[t]
    <3> HIDE DEF S
    <3>1. T \in SUBSET Nat /\ T # {}
      BY <1>0, <1>2
    <3>2. PICK x \in T : \A y \in T : x <= y
      BY <3>1, LeastNat
    <3> QED
      BY <3>2
  <2>2. ~(Cardinality(Newer(u)) >= RetentionMax)
    BY <2>1 DEF Beyond, Newer
  <2>3. ASSUME NEW t \in S \ {u} PROVE t \in Newer(u)
    <3>1. t \in Jobs /\ u \in Jobs /\ stamp[t] \in Nat /\ stamp[u] \in Nat /\ t \in Stored
      BY <1>0, <2>1
    <3>2. stamp[t] # 0
      BY <3>1 DEF OwnerInv, Stamped, Stored
    <3>3. stamp[t] # stamp[u]
      BY <3>1, <3>2 DEF Ranked
    <3>4. stamp[u] <= stamp[t]
      BY <2>1
    <3> QED
      BY <3>1, <3>3, <3>4 DEF Newer
  <2>4. Newer(u) \in SUBSET Jobs
    BY <1>0 DEF Newer
  <2>5. S \ {u} \in SUBSET Newer(u)
    BY <2>3
  <2> HIDE DEF S
  <2>6. /\ Cardinality(S \ {u}) <= Cardinality(Newer(u))
        /\ Cardinality(Newer(u)) \in Nat /\ Cardinality(S \ {u}) \in Nat
    BY <2>4, <2>5, SubsetCard
  <2>7. IsFiniteSet(S) /\ Cardinality(S) \in Nat
    BY <1>0, SubsetCard
  <2>8. Cardinality(S \ {u}) = Cardinality(S) - 1
    BY <2>1, <2>7, FS_RemoveElement
  <2> QED
    BY <1>0, <2>2, <2>6, <2>7, <2>8 DEF S
<1> QED
  BY <1>1, <1>2

(* A busy thread stores no job again but a victim that has its handle.     *)
LEMMA BusySurvivors ==
  ASSUME PruneInv, NEW w \in Workers, Busy(w)
  PROVE  /\ Stored' \ api.victims = Stored \ api.victims
         /\ attached \cap api.victims = {} => Stored' = Stored
         /\ UNCHANGED <<api, stamp>>
<1>0. TypeInv /\ FinalInv
  BY DEF PruneInv, FinalInv, OwnerInv
<1>j. PICK j \in Jobs : j = run[w].job
  BY <1>0, BusyEffect
<1>1. run[w].pc # "idle" /\ UNCHANGED <<api, stamp>>
  BY <1>0, BusyEffect
<1>2. /\ \A k \in Jobs \ {j} : k \in Stored' <=> k \in Stored
      /\ j \in Stored => j \in Stored'
      /\ j \in Stored' => j \in Stored \/ j \in attached
  BY <1>0, <1>j, BusyStored
<1>3. InHands(j)
  BY <1>j, <1>1 DEF InHands, Holds
<1>4. j \in attached => j \in Stored \/ j \in api.victims
  BY <1>3 DEF PruneInv, Reaches
<1>5. Stored \subseteq Jobs /\ Stored' \subseteq Jobs
  BY DEF Stored
<1> QED
  BY <1>1, <1>2, <1>4, <1>5

(* A step that leaves the rows and stamps alone and stays where add() is.  *)
LEMMA SweptStill ==
  ASSUME Swept, UNCHANGED <<rows, stamp, api>>
  PROVE  Swept'
BY DEF Swept, Survivors, Stored

LEMMA SweptBusy ==
  ASSUME SweepInv, NEW w \in Workers, Busy(w)
  PROVE  Swept'
<1>1. /\ Stored' \ api.victims = Stored \ api.victims
      /\ attached \cap api.victims = {} => Stored' = Stored
      /\ UNCHANGED <<api, stamp>>
  BY BusySurvivors DEF SweepInv
<1>2. \A v : Survivors(v)' = Survivors(v)
  BY <1>1 DEF Survivors
<1>3. api.pc \in {"threads", "submit"} => Stored' = Stored
  BY <1>1 DEF SweepInv, PruneInv, Cut, Pruning
<1> QED
  BY <1>1, <1>2, <1>3 DEF SweepInv, Swept

LEMMA SweptApi ==
  ASSUME SweepInv, (\E j \in Jobs : Submit(j) \/ GetJob(j)) \/ Add \/ AddRaises
  PROVE  Swept'
<1>0. /\ TypeInv /\ OwnerInv /\ PruneInv /\ Ranked /\ rows \in [Jobs -> Row] /\ Stored \subseteq Jobs
      /\ api \in [pc : ApiPC, job : Jobs \cup {NoJob}, victims : SUBSET Jobs, todo : SUBSET Jobs]
  BY DEF SweepInv, PruneInv, FinalInv, OwnerInv, TypeInv, TypeOK, Stored
<1>1. CASE (\E j \in Jobs : Submit(j)) \/ PersistInitial \/ Enqueue \/ AddRaises
  <2>1. api'.pc \in {"idle", "persist", "prune"}
    <3>1. CASE \E j \in Jobs : Submit(j)
      BY <3>1 DEF Submit, NoApi
    <3>2. CASE PersistInitial
      BY <1>0, <3>2 DEF PersistInitial
    <3>3. CASE Enqueue \/ AddRaises
      BY <3>3 DEF Enqueue, AddRaises, NoApi
    <3> QED
      BY <1>1, <3>1, <3>2, <3>3
  <2> QED
    BY <2>1 DEF Swept
<1>2. CASE \E j \in Jobs : GetJob(j)
  BY <1>2, SweptStill DEF GetJob, durable, SweepInv
<1>3. CASE FirstPrune
  <2>1. /\ stamp' = stamp /\ api'.pc = "evict" /\ api'.victims = Beyond(RetentionMax)
        /\ rows' = [k \in Jobs |-> IF k \in Beyond(RetentionMax) THEN NoRow ELSE rows[k]]
    BY <1>0, <1>3 DEF FirstPrune
  <2>2. Stored' = Stored \ Beyond(RetentionMax)
    BY <2>1 DEF Stored, NoRow
  <2>3. ASSUME NEW v \in Beyond(RetentionMax)
        PROVE  Cardinality(Survivors(v)') >= RetentionMax
    <3>1. Survivors(v)' = {k \in Stored \ Beyond(RetentionMax) : stamp[k] > stamp[v]}
      BY <2>1, <2>2 DEF Survivors
    <3> QED
      BY <1>0, <3>1, PruneCovers
  <2> QED
    BY <2>1, <2>3 DEF Swept
<1>4. CASE Evict
  <2>1. /\ UNCHANGED <<rows, stamp>> /\ api.pc = "evict" /\ api'.pc = "detach"
        /\ api'.victims = api.victims
    BY <1>0, <1>4 DEF Evict, durable
  <2> QED
    BY <2>1 DEF SweepInv, Swept, Survivors, Stored
<1>5. CASE Detach
  <2>1. /\ UNCHANGED <<rows, stamp>> /\ api.pc = "detach" /\ api'.pc = "detach"
        /\ api'.victims = api.victims
    BY <1>0, <1>5 DEF Detach, durable
  <2> QED
    BY <2>1 DEF SweepInv, Swept, Survivors, Stored
<1>6. CASE SecondPrune
  <2>1. /\ api'.pc = "threads" /\ api.pc = "detach"
        /\ api'.victims = api.victims \cup Beyond(RetentionMax)
        /\ rows' = [k \in Jobs |-> IF k \in Beyond(RetentionMax) THEN NoRow ELSE rows[k]]
    BY <1>0, <1>6 DEF SecondPrune
  <2>2. Stored' = Stored \ Beyond(RetentionMax)
    BY <2>1 DEF Stored, NoRow
  <2>3. ASSUME NEW v \in api.victims, v \in Stored PROVE v \in Beyond(RetentionMax)
    <3>1. Cardinality(Survivors(v)) >= RetentionMax
      BY <2>1 DEF SweepInv, Swept
    <3>2. Survivors(v) \in SUBSET Newer(v) /\ Newer(v) \in SUBSET Jobs
      BY <1>0 DEF Survivors, Newer
    <3>3. /\ Cardinality(Survivors(v)) <= Cardinality(Newer(v))
          /\ Cardinality(Survivors(v)) \in Nat /\ Cardinality(Newer(v)) \in Nat
      BY <3>2, SubsetCard
    <3>4. Cardinality(Newer(v)) >= RetentionMax
      BY <3>1, <3>3, BoundsAssumption
    <3> QED
      BY <2>3, <3>4 DEF Beyond, Newer
  <2>4. api'.victims \cap Stored' = {}
    BY <2>1, <2>2, <2>3
  <2>5. Cardinality(Stored') <= RetentionMax
    BY <1>0, <2>2, PruneFits
  <2> QED
    BY <2>1, <2>4, <2>5 DEF Swept
<1>7. CASE DeleteThreads
  <2>1. rows' = rows /\ api.pc = "threads" /\ api'.pc = "submit"
    BY <1>0, <1>7 DEF DeleteThreads
  <2> QED
    BY <2>1 DEF SweepInv, Swept, Stored
<1> QED
  BY <1>1, <1>2, <1>3, <1>4, <1>5, <1>6, <1>7 DEF Add

LEMMA SweptStartup ==
  ASSUME SweepInv, Startup \/ Crash \/ \E j \in Jobs : RecoverRaises(j)
  PROVE  Swept'
<1>1. CASE Die
  <2>1. api'.pc = "idle"
    BY <1>1 DEF Die, NoApi
  <2> QED
    BY <2>1 DEF Swept
<1>2. CASE Startup
  <2>1. server # "up" /\ api' = api
    BY <1>2 DEF Startup, Restart, Recover, Serve
  <2>2. api'.pc = "idle"
    BY <2>1 DEF SweepInv, PruneInv, Calm
  <2> QED
    BY <2>2 DEF Swept
<1> QED
  BY <1>1, <1>2 DEF Crash, RecoverRaises

LEMMA SweepNext == SweepInv /\ [Next]_vars => SweepInv'
<1> SUFFICES ASSUME SweepInv, [Next]_vars PROVE SweepInv'
  OBVIOUS
<1>1. PruneInv'
  BY PruneNext DEF SweepInv
<1>2. Ranked'
  BY RankNext DEF SweepInv, PruneInv, FinalInv, OwnerInv
<1>3. ASSUME NEW w \in Workers, Dequeue(w) PROVE Swept'
  BY <1>3, SweptStill DEF Dequeue, durable, SweepInv
<1>4. ASSUME Next PROVE Swept'
  BY <1>3, <1>4, SweptApi, SweptBusy, SweptStartup DEF Next, Work, Busy
<1>5. ASSUME UNCHANGED vars PROVE Swept'
  BY <1>5, SweptStill DEF SweepInv, vars
<1>6. Swept'
  BY <1>4, <1>5
<1> QED
  BY <1>1, <1>2, <1>6 DEF SweepInv

LEMMA SweepInit == Init => SweepInv
<1> SUFFICES ASSUME Init PROVE SweepInv
  OBVIOUS
<1>1. api.pc = "idle"
  BY DEF Init, NoApi
<1> QED
  BY <1>1, PruneInit, RankInit DEF SweepInv, Swept

-----------------------------------------------------------------------------
(* Nothing is stranded *)

Owned(j) == InQueue(j) \/ Adding(j) \/ \E w \in Workers : Holds(w, j)

(* While no call has raised, a job that is stored for good (or about to    *)
(* be) and has an owner is live, and nobody holds a record other than the  *)
(* live one: what its owner writes is what the table says.                 *)
Attended ==
  faults = 0 =>
    /\ \A j \in Jobs :
         /\ Owned(j)
         /\ j \in Stored \ api.victims \/ (api.pc = "persist" /\ j = api.job)
         => j \in live
    /\ \A w \in Workers : ~run[w].split

(* NothingStranded, and what keeps it when a thread lets go of its job: by *)
(* then the row is terminal.                                               *)
Manned ==
  faults = 0 =>
    /\ server # "down" =>
         \A j \in Stored \ api.victims :
           rows[j].status \in Terminal \/ j \in recq \/ Owned(j)
    /\ \A w \in Workers :
         At(w, "publish") /\ run[w].job \in Stored \ api.victims =>
           rows[run[w].job].status \in Terminal

MannedInv == PairInv /\ SweepInv /\ Attended /\ Manned

LEMMA MannedInit == Init => MannedInv
<1> SUFFICES ASSUME Init PROVE MannedInv
  OBVIOUS
<1>1. PairInv /\ SweepInv
  BY PairInit, SweepInit
<1>2. /\ queue = << >> /\ api.pc = "idle" /\ Stored = {}
      /\ \A w \in Workers : run[w].pc = "idle" /\ ~run[w].split
  BY DEF Init, NoApi, NoRun, Stored, NoRow
<1> QED
  BY <1>1, <1>2 DEF MannedInv, Attended, Manned, At

(* Only a reader splits a record.                                          *)
LEMMA BusySplit ==
  ASSUME TypeInv, NEW w \in Workers, Busy(w), run'[w].split
  PROVE  run[w].split
<1>0. run \in [Workers -> Run] /\ run[w] \in Run
  BY DEF TypeInv, TypeOK
<1>1. CASE Lookup(w)
  BY <1>0, <1>1 DEF Lookup, Goto, Release, NoRun, Run
<1>2. CASE MarkRunning(w)
  BY <1>0, <1>2 DEF MarkRunning, StartRun, Run
<1>3. CASE Yield(w)
  BY <1>0, <1>3 DEF Yield, Run
<1>4. CASE RunNode(w)
  BY <1>0, <1>4 DEF RunNode, Run
<1>5. CASE Checkpoint(w)
  BY <1>0, <1>5 DEF Checkpoint, Run
<1>6. CASE Deliver(w) \/ NodeRaises(w)
  BY <1>0, <1>6 DEF Deliver, NodeRaises, Goto, Run
<1>7. CASE Finish(w) \/ Fail(w) \/ Publish(w)
  BY <1>0, <1>7 DEF Finish, Fail, Publish, Goto, Release, NoRun, Run
<1>8. CASE DeliverRaises(w) \/ PublishRaises(w) \/ MarkRaises(w) \/ CredentialsRaise(w)
  BY <1>0, <1>8 DEF DeliverRaises, PublishRaises, MarkRaises, CredentialsRaise, Goto, Run
<1>9. CASE YieldRaises(w) \/ FinishRaises(w) \/ FailRaises(w)
  BY <1>0, <1>9 DEF YieldRaises, FinishRaises, FailRaises, Goto, Run
<1> QED
  BY <1>1, <1>2, <1>3, <1>4, <1>5, <1>6, <1>7, <1>8, <1>9 DEF Busy, WorkRaises

(* A thread that lets go of its job, or is about to, found it gone or has  *)
(* written its end, if the job has its store handle.                       *)
LEMMA BusyEnds ==
  ASSUME TypeInv, NEW w \in Workers, Busy(w), ~run[w].split,
         run'[w].pc \in {"idle", "publish"}
  PROVE  \/ rows' = rows /\ (run[w].job \notin Stored \/ At(w, "publish"))
         \/ rows'[run[w].job].status \in Terminal
         \/ run[w].job \notin attached
<1>0. run \in [Workers -> Run] /\ run[w] \in Run /\ rows \in [Jobs -> Row] /\ rec \in [Jobs -> Row]
  BY DEF TypeInv, TypeOK
<1>j. PICK j \in Jobs : j = run[w].job
  BY BusyEffect
<1>1. CASE Lookup(w)
  <2>1. ~(j \in live \cup Stored)
    BY <1>0, <1>1, <1>j DEF Lookup, Goto, Run
  <2> QED
    BY <1>1, <1>j, <2>1 DEF Lookup, durable
<1>2. CASE MarkRunning(w)
  BY <1>0, <1>2 DEF MarkRunning, StartRun, Run
<1>3. CASE Yield(w)
  BY <1>0, <1>3 DEF Yield, Run
<1>4. CASE RunNode(w)
  BY <1>0, <1>4 DEF RunNode, Run
<1>5. CASE Checkpoint(w)
  BY <1>0, <1>5 DEF Checkpoint, Run
<1>6. CASE Deliver(w) \/ NodeRaises(w)
  BY <1>0, <1>6 DEF Deliver, NodeRaises, Goto, Run
<1>7. CASE Finish(w)
  <2>1. Write(w, Completed(w)) /\ Completed(w).status = "completed"
    BY <1>0, <1>7, <1>j DEF Finish, Completed, Row
  <2> QED
    BY <1>0, <1>j, <2>1 DEF Write, Mutate, Terminal
<1>8. CASE Fail(w)
  <2>1. Write(w, Failed(w)) /\ Failed(w).status = "failed"
    BY <1>0, <1>8, <1>j DEF Fail, Failed, Row
  <2> QED
    BY <1>0, <1>j, <2>1 DEF Write, Mutate, Terminal
<1>9. CASE Publish(w)
  BY <1>9 DEF Publish, durable
<1>10. CASE DeliverRaises(w) \/ PublishRaises(w) \/ MarkRaises(w) \/ CredentialsRaise(w)
  BY <1>0, <1>10 DEF DeliverRaises, PublishRaises, MarkRaises, CredentialsRaise, Goto, Run
<1>11. CASE YieldRaises(w) \/ FinishRaises(w) \/ FailRaises(w)
  BY <1>0, <1>11 DEF YieldRaises, FinishRaises, FailRaises, Goto, Run
<1> QED
  BY <1>1, <1>2, <1>3, <1>4, <1>5, <1>6, <1>7, <1>8, <1>9, <1>10, <1>11 DEF Busy, WorkRaises

LEMMA MannedBusy ==
  ASSUME MannedInv, NEW w \in Workers, Busy(w), faults' = 0
  PROVE  Attended' /\ Manned'
<1>0. TypeInv /\ FinalInv /\ PruneInv
  BY DEF MannedInv, PairInv, PruneInv, FinalInv, OwnerInv
<1>j. PICK j \in Jobs : j = run[w].job
  BY <1>0, BusyEffect
<1>f. faults = 0
  BY <1>0, BusyFaults
<1>1. /\ NoNewHolder /\ run[w].pc # "idle" /\ UNCHANGED <<queue, api, recq, server>>
      /\ \A k \in Jobs \ {j} : rows'[k] = rows[k]
  BY <1>0, <1>j, BusyEffect
<1>2. Stored' \ api.victims = Stored \ api.victims
  BY <1>0, BusySurvivors
<1>3. live \subseteq live'
  BY <1>0, BusyStored
<1>4. \A v \in Workers \ {w} : run'[v] = run[v]
  BY <1>0, BusyDelivers
<1>5. Holds(w, j) /\ \A v \in Workers \ {w} : run[v].pc # "idle" => run[v].job \in Jobs \ {j}
  BY <1>0, <1>1, <1>j DEF FinalInv, OwnerInv, SingleOwner, TypeInv, Shape, Holds
<1>6. \A k \in Jobs : /\ InQueue(k)' <=> InQueue(k)
                      /\ Adding(k)' <=> Adding(k)
                      /\ Owned(k)' => Owned(k)
  BY <1>1 DEF Owned, InQueue, Adding, Holds, NoNewHolder
<1>7. \A v \in Workers : ~run[v].split /\ ~run'[v].split
  BY <1>0, <1>4, <1>f, BusySplit DEF MannedInv, Attended
<1>8. Attended'
  BY <1>1, <1>2, <1>3, <1>6, <1>7, <1>f DEF MannedInv, Attended
<1>9. run'[w].pc \in {"idle", "publish"} /\ j \in Stored \ api.victims =>
        rows'[j].status \in Terminal
  <2>1. SUFFICES ASSUME run'[w].pc \in {"idle", "publish"}, j \in Stored \ api.victims
                 PROVE  rows'[j].status \in Terminal
    OBVIOUS
  <2>2. Owned(j)
    BY <1>5 DEF Owned
  <2>3. j \in attached
    BY <1>f, <2>1, <2>2 DEF MannedInv, Attended, PairInv, Paired
  <2>4. At(w, "publish") => rows[j].status \in Terminal
    BY <1>f, <1>j, <2>1 DEF MannedInv, Manned
  <2>5. \/ rows' = rows /\ (run[w].job \notin Stored \/ At(w, "publish"))
        \/ rows'[run[w].job].status \in Terminal
        \/ run[w].job \notin attached
    BY <1>0, <1>7, <2>1, BusyEnds
  <2> QED
    BY <1>j, <2>1, <2>3, <2>4, <2>5
<1>10. server' # "down" => \A k \in Stored' \ api'.victims :
         rows'[k].status \in Terminal \/ k \in recq' \/ Owned(k)'
  <2>1. SUFFICES ASSUME server' # "down", NEW k \in Stored' \ api'.victims
                 PROVE  rows'[k].status \in Terminal \/ k \in recq' \/ Owned(k)'
    OBVIOUS
  <2>2. k \in Jobs /\ k \in Stored \ api.victims
    BY <1>1, <1>2, <2>1 DEF Stored
  <2>3. CASE k = j
    <3>1. CASE run'[w].pc \in {"idle", "publish"}
      BY <1>9, <2>2, <2>3, <3>1
    <3>2. CASE run'[w].pc # "idle"
      <4>1. Holds(w, k)'
        BY <1>1, <1>j, <2>3, <3>2 DEF Holds, NoNewHolder
      <4> QED
        BY <4>1 DEF Owned
    <3> QED
      BY <3>1, <3>2
  <2>4. CASE k # j
    <3>1. rows[k].status \in Terminal \/ k \in recq \/ Owned(k)
      BY <1>1, <1>f, <2>1, <2>2 DEF MannedInv, Manned
    <3>2. \A v \in Workers : Holds(v, k) => Holds(v, k)'
      BY <1>4, <1>j, <2>4 DEF Holds
    <3>3. Owned(k) => Owned(k)'
      BY <1>6, <2>2, <3>2 DEF Owned
    <3> QED
      BY <1>1, <2>2, <2>4, <3>1, <3>3
  <2> QED
    BY <2>3, <2>4
<1>11. ASSUME NEW v \in Workers, At(v, "publish")', run'[v].job \in Stored' \ api'.victims
       PROVE  rows'[run'[v].job].status \in Terminal
  <2>1. run'[v].job \in Stored \ api.victims
    BY <1>1, <1>2, <1>11
  <2>2. CASE v = w
    <3>1. run'[w].job = j
      BY <1>1, <1>11, <1>j, <2>2 DEF NoNewHolder, At
    <3> QED
      BY <1>9, <1>11, <2>1, <2>2, <3>1 DEF At
  <2>3. CASE v # w
    <3>1. run'[v] = run[v] /\ At(v, "publish") /\ run[v].job \in Jobs \ {j}
      BY <1>4, <1>5, <1>11, <2>3 DEF At
    <3> QED
      BY <1>1, <1>f, <2>1, <3>1 DEF MannedInv, Manned
  <2> QED
    BY <2>2, <2>3
<1>12. Manned'
  BY <1>10, <1>11 DEF Manned
<1> QED
  BY <1>8, <1>12

(* A step outside the threads that changes no owner, stores nothing, lets  *)
(* no survivor go from the live dict and splits nobody's record.           *)
LEMMA MannedStill ==
  ASSUME MannedInv, faults' = faults, recq' = recq,
         server' # "down" => server # "down", api'.pc # "persist",
         Stored' \ api'.victims \subseteq Stored \ api.victims,
         \A j \in Stored' \ api'.victims : rows'[j] = rows[j],
         \A j \in Jobs : Owned(j)' <=> Owned(j),
         live \subseteq live' \cup api'.victims,
         \A w \in Workers : /\ run'[w].pc = run[w].pc /\ run'[w].job = run[w].job
                            /\ faults = 0 => ~run'[w].split
  PROVE  Attended' /\ Manned'
<1>1. Stored \subseteq Jobs
  BY DEF Stored
<1>2. Attended'
  BY <1>1 DEF MannedInv, Attended
<1>3. Manned'
  <2>1. ASSUME faults' = 0, server' # "down", NEW j \in Stored' \ api'.victims
        PROVE  rows'[j].status \in Terminal \/ j \in recq' \/ Owned(j)'
    BY <1>1, <2>1 DEF MannedInv, Manned
  <2>2. ASSUME faults' = 0, NEW w \in Workers, At(w, "publish")',
               run'[w].job \in Stored' \ api'.victims
        PROVE  rows'[run'[w].job].status \in Terminal
    <3>1. run'[w].job = run[w].job /\ At(w, "publish")
      BY <2>2 DEF At
    <3> QED
      BY <2>2, <3>1 DEF MannedInv, Manned
  <2> QED
    BY <2>1, <2>2 DEF Manned
<1> QED
  BY <1>2, <1>3

LEMMA MannedApi ==
  ASSUME MannedInv, (\E j \in Jobs : Submit(j) \/ GetJob(j)) \/ Add \/ AddRaises
  PROVE  Attended' /\ Manned'
<1>0. /\ TypeInv /\ FinalInv /\ PruneInv /\ rows \in [Jobs -> Row] /\ Stored \subseteq Jobs
      /\ queue \in Seq(Item) /\ live \subseteq Jobs /\ faults \in Nat /\ run \in [Workers -> Run]
      /\ api \in [pc : ApiPC, job : Jobs \cup {NoJob}, victims : SUBSET Jobs, todo : SUBSET Jobs]
  BY DEF MannedInv, PairInv, PruneInv, FinalInv, OwnerInv, TypeInv, TypeOK, Stored
<1>s. faults = 0 => \A w \in Workers : ~run[w].split
  BY DEF MannedInv, Attended
<1>1. ASSUME NEW j \in Jobs, Submit(j) PROVE Attended' /\ Manned'
  <2>1. /\ UNCHANGED <<rows, queue, run, recq, server, faults>>
        /\ live' = live \cup {j} /\ api.pc = "idle"
        /\ api'.pc = "persist" /\ api'.job = j /\ api'.victims = {}
    BY <1>1 DEF Submit, NoApi, process, counters
  <2>2. Stored' = Stored /\ api.victims = {}
    BY <1>0, <2>1 DEF PruneInv, Pruning, Stored
  <2>3. \A k \in Jobs : (Owned(k)' => Owned(k) \/ k = j) /\ (Owned(k) => Owned(k)')
    BY <2>1 DEF Owned, InQueue, Adding, Holds
  <2>4. Attended'
    BY <1>s, <2>1, <2>2, <2>3 DEF MannedInv, Attended
  <2>5. Manned'
    BY <1>0, <2>1, <2>2, <2>3 DEF MannedInv, Manned, At
  <2> QED
    BY <2>4, <2>5
<1>2. ASSUME NEW j \in Jobs, GetJob(j) PROVE Attended' /\ Manned'
  <2>1. /\ UNCHANGED <<rows, queue, recq, server, api, faults>>
        /\ live' = live \cup {j} /\ api.pc = "idle" /\ j \in Stored \ live
    BY <1>2 DEF GetJob, Rehydrate, durable, process, counters
  <2>2. Stored' = Stored /\ api.victims = {}
    BY <1>0, <2>1 DEF PruneInv, Pruning, Stored
  <2>3. \A w \in Workers : run'[w].pc = run[w].pc /\ run'[w].job = run[w].job
    BY <1>0, <1>2, GetJobRuns
  <2>4. \A k \in Jobs : Owned(k)' <=> Owned(k)
    BY <2>1, <2>3 DEF Owned, InQueue, Adding, Holds
  <2>5. ASSUME NEW w \in Workers, faults = 0 PROVE ~run'[w].split
    <3> DEFINE b == run[w].split \/ (run[w].pc \notin {"idle", "lookup"} /\ run[w].job = j)
    <3>1. run'[w] = [run[w] EXCEPT !.split = b]
      BY <1>2 DEF GetJob
    <3>2. run[w] \in Run /\ b \in BOOLEAN
      BY <1>0
    <3>3. run'[w].split = b
      BY <3>1, <3>2, SplitType
    <3>4. ~Holds(w, j)
      BY <2>1, <2>2, <2>5 DEF MannedInv, Attended, Owned
    <3> QED
      BY <1>s, <2>5, <3>3, <3>4 DEF Holds
  <2>6. /\ server' # "down" => server # "down"
        /\ api'.pc # "persist" /\ faults' = faults /\ recq' = recq
        /\ live \subseteq live' \cup api'.victims
        /\ Stored' \ api'.victims \subseteq Stored \ api.victims
        /\ \A k \in Stored' \ api'.victims : rows'[k] = rows[k]
    BY <2>1, <2>2
  <2> QED
    BY <2>3, <2>4, <2>5, <2>6, MannedStill
<1>3. CASE PersistInitial
  <2>j. PICK j \in Jobs : j = api.job
    BY <1>0, <1>3 DEF PersistInitial, TypeInv, Shape
  <2>1. /\ UNCHANGED <<live, queue, run, recq, server, faults>>
        /\ api.pc = "persist" /\ api'.pc = "prune" /\ api'.job = j /\ api'.victims = api.victims
        /\ \A k \in Jobs \ {j} : rows'[k] = rows[k]
    BY <1>0, <1>3, <2>j DEF PersistInitial, Mutate, process, counters
  <2>2. api.victims = {} /\ Stored' \subseteq Stored \cup {j} /\ Stored' \subseteq Jobs
    BY <1>0, <2>1 DEF PruneInv, Pruning, Stored
  <2>3. \A k \in Jobs : Owned(k)' <=> Owned(k)
    BY <2>1, <2>j DEF Owned, InQueue, Adding, Holds
  <2>4. Adding(j)' /\ Adding(j) /\ Owned(j)'
    BY <2>1, <2>j DEF Adding, Owned
  <2>5. Attended'
    BY <1>s, <2>1, <2>2, <2>3, <2>j DEF MannedInv, Attended
  <2>6. \A w \in Workers : ~Holds(w, j)
    BY <1>0, <2>4 DEF FinalInv, OwnerInv, SingleOwner
  <2>7. ASSUME faults' = 0, server' # "down", NEW k \in Stored' \ api'.victims
        PROVE  rows'[k].status \in Terminal \/ k \in recq' \/ Owned(k)'
    <3>1. CASE k = j
      BY <2>4, <3>1
    <3>2. CASE k # j
      <4>1. k \in Stored \ api.victims /\ rows'[k] = rows[k] /\ k \in Jobs
        BY <2>1, <2>2, <2>7, <3>2
      <4> QED
        BY <2>1, <2>3, <2>7, <4>1 DEF MannedInv, Manned
    <3> QED
      BY <3>1, <3>2
  <2>8. ASSUME faults' = 0, NEW w \in Workers, At(w, "publish")',
               run'[w].job \in Stored' \ api'.victims
        PROVE  rows'[run'[w].job].status \in Terminal
    <3>1. run'[w] = run[w] /\ At(w, "publish") /\ run[w].job # j
      BY <2>1, <2>6, <2>8 DEF At, Holds
    <3>2. run[w].job \in Stored \ api.victims /\ rows'[run[w].job] = rows[run[w].job]
      BY <2>1, <2>2, <2>8, <3>1
    <3> QED
      BY <2>1, <2>8, <3>1, <3>2 DEF MannedInv, Manned
  <2>9. Manned'
    BY <2>7, <2>8 DEF Manned
  <2> QED
    BY <2>5, <2>9
<1>4. CASE FirstPrune \/ SecondPrune
  <2>1. /\ UNCHANGED <<live, queue, run, recq, server, faults>>
        /\ api'.pc \in {"evict", "threads"} /\ api'.job = api.job /\ api.pc # "idle"
        /\ Beyond(RetentionMax) \subseteq api'.victims
        /\ rows' = [k \in Jobs |-> IF k \in Beyond(RetentionMax) THEN NoRow ELSE rows[k]]
        /\ api.victims \subseteq api'.victims
    <3>1. CASE FirstPrune
      <4>1. api.victims = {}
        BY <1>0, <3>1 DEF FirstPrune, PruneInv, Pruning
      <4> QED
        BY <1>0, <3>1, <4>1 DEF FirstPrune, records, process, counters
    <3>2. CASE SecondPrune
      BY <1>0, <3>2 DEF SecondPrune, records, process, counters
    <3> QED
      BY <1>4, <3>1, <3>2
  <2>2. Stored' = Stored \ Beyond(RetentionMax)
    BY <2>1 DEF Stored, NoRow
  <2>3. /\ Stored' \ api'.victims \subseteq Stored \ api.victims
        /\ \A k \in Stored' \ api'.victims : rows'[k] = rows[k]
    BY <1>0, <2>1, <2>2
  <2>4. \A k \in Jobs : Owned(k)' <=> Owned(k)
    BY <2>1 DEF Owned, InQueue, Adding, Holds
  <2>5. /\ server' # "down" => server # "down"
        /\ api'.pc # "persist" /\ faults' = faults /\ recq' = recq
        /\ live \subseteq live' \cup api'.victims
    BY <2>1
  <2>6. \A w \in Workers : /\ run'[w].pc = run[w].pc /\ run'[w].job = run[w].job
                           /\ faults = 0 => ~run'[w].split
    BY <1>s, <2>1
  <2> QED
    BY <2>3, <2>4, <2>5, <2>6, MannedStill
<1>5. CASE Evict \/ Detach \/ DeleteThreads \/ Enqueue
  <2>1. /\ UNCHANGED <<rows, run, recq, server, faults>>
        /\ api'.pc \in {"detach", "submit", "idle"} /\ api.pc # "idle"
        /\ api'.pc # "idle" => api'.job = api.job
        /\ live \subseteq live' \cup api'.victims
    <3>1. CASE Evict
      BY <1>0, <3>1 DEF Evict, durable, process, counters
    <3>2. CASE Detach
      BY <1>0, <3>2 DEF Detach, durable, process, counters
    <3>3. CASE DeleteThreads
      BY <1>0, <3>3 DEF DeleteThreads, records, process, counters
    <3>4. CASE Enqueue
      BY <3>4 DEF Enqueue, durable, records, process, counters, NoApi
    <3> QED
      BY <1>5, <3>1, <3>2, <3>3, <3>4
  <2>2. Stored' = Stored
    BY <2>1 DEF Stored
  <2>3. Stored' \ api'.victims \subseteq Stored \ api.victims
    <3>1. CASE Evict \/ Detach
      BY <1>0, <2>2, <3>1 DEF Evict, Detach
    <3>2. CASE DeleteThreads
      BY <1>0, <2>2, <3>2 DEF DeleteThreads, MannedInv, SweepInv, Swept
    <3>3. CASE Enqueue
      <4>1. api.victims = {}
        BY <1>0, <3>3 DEF Enqueue, PruneInv, Pruning
      <4> QED
        BY <2>2, <4>1
    <3> QED
      BY <1>5, <3>1, <3>2, <3>3
  <2>4. \A k \in Jobs : Owned(k)' <=> Owned(k)
    <3>1. CASE Evict \/ Detach \/ DeleteThreads
      <4>1. queue' = queue /\ api'.pc # "idle"
        BY <1>0, <3>1 DEF Evict, Detach, DeleteThreads
      <4> QED
        BY <2>1, <4>1 DEF Owned, InQueue, Adding, Holds
    <3>2. CASE Enqueue
      <4>j. PICK j \in Jobs : j = api.job
        BY <1>0, <3>2 DEF Enqueue, TypeInv, Shape
      <4>1. queue' = Append(queue, [job |-> j, resume |-> FALSE]) /\ api'.pc = "idle"
        BY <3>2, <4>j DEF Enqueue, NoApi
      <4>2. [job |-> j, resume |-> FALSE] \in Item /\ [job |-> j, resume |-> FALSE].job = j
        BY DEF Item
      <4>3. \A k \in Jobs : InQueue(k)' <=> InQueue(k) \/ k = j
        <5> DEFINE x == [job |-> j, resume |-> FALSE]
        <5>1. queue \in Seq(Item) /\ x \in Item /\ x.job = j /\ queue' = Append(queue, x)
          BY <1>0, <4>1, <4>2
        <5> HIDE DEF x
        <5>2. /\ DOMAIN queue = 1 .. Len(queue) /\ Len(queue) \in Nat
              /\ DOMAIN queue' = 1 .. Len(queue) + 1
              /\ \A i \in 1 .. Len(queue) : queue'[i] = queue[i]
              /\ queue'[Len(queue) + 1] = x
          BY <5>1, AppendItem
        <5> DEFINE n == Len(queue)
        <5> HIDE DEF n
        <5>3. n \in Nat /\ DOMAIN queue' = 1 .. n + 1 /\ DOMAIN queue = 1 .. n
          BY <5>2 DEF n
        <5>4. \A i \in 1 .. n + 1 : i \in 1 .. n \/ i = n + 1
          BY <5>3
        <5>5. n + 1 \in 1 .. n + 1 /\ \A i \in 1 .. n : i \in 1 .. n + 1
          BY <5>3
        <5> QED
          BY <5>1, <5>2, <5>3, <5>4, <5>5 DEF InQueue, n
      <4>4. \A k \in Jobs : (Adding(k) <=> k = j) /\ ~Adding(k)'
        BY <2>1, <4>1, <4>j DEF Adding
      <4>5. \A k \in Jobs, w \in Workers : Holds(w, k)' <=> Holds(w, k)
        BY <2>1 DEF Holds
      <4> QED
        BY <4>3, <4>4, <4>5 DEF Owned
    <3> QED
      BY <1>5, <3>1, <3>2
  <2>5. /\ server' # "down" => server # "down"
        /\ api'.pc # "persist" /\ faults' = faults /\ recq' = recq
        /\ \A k \in Stored' \ api'.victims : rows'[k] = rows[k]
    BY <2>1
  <2>6. \A w \in Workers : /\ run'[w].pc = run[w].pc /\ run'[w].job = run[w].job
                           /\ faults = 0 => ~run'[w].split
    BY <1>s, <2>1
  <2> QED
    BY <2>1, <2>3, <2>4, <2>5, <2>6, MannedStill
<1>6. CASE AddRaises
  <2>1. faults' # 0
    BY <1>0, <1>6 DEF AddRaises, Raise
  <2> QED
    BY <2>1 DEF Attended, Manned
<1> QED
  BY <1>1, <1>2, <1>3, <1>4, <1>5, <1>6 DEF Add

LEMMA MannedDequeue ==
  ASSUME MannedInv, NEW w \in Workers, Dequeue(w)
  PROVE  Attended' /\ Manned'
<1>0. /\ queue \in Seq(Item) /\ queue # << >> /\ run \in [Workers -> Run] /\ Stored \subseteq Jobs
  BY DEF MannedInv, PairInv, PruneInv, FinalInv, OwnerInv, TypeInv, TypeOK, Dequeue, Stored
<1>1. /\ 1 \in DOMAIN queue /\ queue[1] \in Item
      /\ \A i \in DOMAIN queue : i = 1 \/ (i - 1 \in DOMAIN Tail(queue) /\ Tail(queue)[i - 1] = queue[i])
  BY <1>0, TailItem
<1>j. PICK j \in Jobs : j = queue[1].job
  BY <1>1 DEF Item
<1>2. /\ \A v \in Workers \ {w} : run'[v] = run[v]
      /\ run'[w].job = j /\ run'[w].pc = "lookup" /\ ~run'[w].split /\ run[w].pc = "idle"
      /\ queue' = Tail(queue)
      /\ UNCHANGED <<rows, live, api, recq, server, faults>>
  BY <1>0, <1>j, TailItem DEF Dequeue, NoRun, At, durable, records, process, counters
<1>3. \A k \in Jobs : (InQueue(k)' => InQueue(k)) /\ (InQueue(k) => InQueue(k)' \/ k = j)
  <2>1. ASSUME NEW k \in Jobs, InQueue(k)' PROVE InQueue(k)
    BY <1>0, <1>2, <2>1, TailItem DEF InQueue
  <2>2. ASSUME NEW k \in Jobs, InQueue(k) PROVE InQueue(k)' \/ k = j
    <3>1. PICK i \in DOMAIN queue : queue[i].job = k
      BY <2>2 DEF InQueue
    <3>2. CASE i = 1
      BY <1>j, <3>1, <3>2
    <3>3. CASE i # 1
      <4>1. i - 1 \in DOMAIN Tail(queue) /\ Tail(queue)[i - 1] = queue[i]
        BY <1>1, <3>3
      <4> QED
        BY <1>2, <3>1, <4>1 DEF InQueue
    <3> QED
      BY <3>2, <3>3
  <2> QED
    BY <2>1, <2>2
<1>4. InQueue(j)
  BY <1>1, <1>j DEF InQueue
<1>5. \A k \in Jobs : Adding(k)' <=> Adding(k)
  BY <1>2 DEF Adding
<1>6. \A k \in Jobs : /\ (\E v \in Workers : Holds(v, k)') <=> k = j \/ \E v \in Workers : Holds(v, k)
  BY <1>2 DEF Holds
<1>7. \A k \in Jobs : Owned(k)' <=> Owned(k)
  BY <1>3, <1>4, <1>5, <1>6 DEF Owned
<1>8. Stored' = Stored
  BY <1>2 DEF Stored
<1>9. Attended'
  BY <1>2, <1>7, <1>8 DEF MannedInv, Attended
<1>10. \A v \in Workers : At(v, "publish")' => v # w /\ run'[v] = run[v] /\ At(v, "publish")
  BY <1>2 DEF At
<1>11. Manned'
  BY <1>0, <1>2, <1>7, <1>8, <1>10 DEF MannedInv, Manned
<1> QED
  BY <1>9, <1>11

LEMMA MannedStartup ==
  ASSUME MannedInv, Startup \/ Crash \/ \E j \in Jobs : RecoverRaises(j)
  PROVE  Attended' /\ Manned'
<1>0. /\ TypeInv /\ FinalInv /\ PruneInv /\ rows \in [Jobs -> Row] /\ Stored \subseteq Jobs
      /\ queue \in Seq(Item) /\ recq \subseteq Jobs
  BY DEF MannedInv, PairInv, PruneInv, FinalInv, OwnerInv, TypeInv, TypeOK, Stored
<1>s. faults = 0 => \A w \in Workers : ~run[w].split
  BY DEF MannedInv, Attended
<1>1. CASE Die
  <2>1. /\ queue' = << >> /\ api'.pc = "idle" /\ server' = "down"
        /\ \A w \in Workers : run'[w].pc = "idle" /\ ~run'[w].split
    BY <1>1 DEF Die, NoApi, NoRun
  <2>2. \A j \in Jobs : ~Owned(j)'
    BY <2>1 DEF Owned, InQueue, Adding, Holds
  <2> QED
    BY <2>1, <2>2 DEF Attended, Manned, At
<1>2. CASE Restart
  <2>1. /\ UNCHANGED <<rows, queue, run, api, faults>> /\ recq' = Nonterminal
        /\ queue = << >> /\ api.pc = "idle" /\ \A w \in Workers : run[w].pc = "idle"
    BY <1>0, <1>2 DEF Restart, durable, records, counters, FinalInv, OwnerInv, Quiet
  <2>2. \A j \in Jobs : ~Owned(j)'
    BY <2>1 DEF Owned, InQueue, Adding, Holds
  <2>3. Attended'
    BY <1>s, <2>1, <2>2 DEF Attended
  <2>4. Manned'
    BY <2>1 DEF Manned, At, Nonterminal, Stored
  <2> QED
    BY <2>3, <2>4
<1>3. CASE Serve
  <2>1. UNCHANGED <<rows, live, queue, run, api, recq, faults>> /\ server # "down"
    BY <1>3 DEF Serve, durable, records, counters
  <2>2. Stored' = Stored /\ \A j \in Jobs : Owned(j)' <=> Owned(j)
    BY <2>1 DEF Stored, Owned, InQueue, Adding, Holds
  <2>3. api.pc = "idle"
    BY <1>0, <1>3 DEF Serve, PruneInv, Calm
  <2> QED
    BY <1>s, <2>1, <2>2, <2>3, MannedStill
<1>4. ASSUME NEW j \in Jobs, Recover(j) PROVE Attended' /\ Manned'
  <2> DEFINE row == IF Resumable(j) THEN rows[j] ELSE Reset(j)
  <2>1. /\ UNCHANGED <<run, api, server, faults>>
        /\ queue' = Append(queue, [job |-> j, resume |-> Resumable(j)])
        /\ recq' = recq \ {j} /\ j \in recq /\ server = "starting"
        /\ live' = live \cup {j}
        /\ rows' = [rows EXCEPT ![j] = row]
    BY <1>4 DEF Recover, IsNext, counters
  <2> HIDE DEF row
  <2>2. [job |-> j, resume |-> Resumable(j)] \in Item
    BY DEF Item, Resumable
  <2>3. \A k \in Jobs : InQueue(k)' <=> InQueue(k) \/ k = j
    BY <1>0, <2>1, <2>2, AppendItem DEF InQueue
  <2>4. /\ api.pc = "idle" /\ api.victims = {} /\ j \in Stored
        /\ \A w \in Workers : ~Holds(w, j)
    BY <1>0, <2>1 DEF PruneInv, Calm, Pruning, FinalInv, OwnerInv, SingleOwner
  <2>5. \A k \in Jobs \ {j} : rows'[k] = rows[k]
    BY <1>0, <2>1
  <2>6. Stored' \subseteq Stored /\ Stored' \subseteq Jobs
    BY <1>0, <2>4, <2>5 DEF Stored
  <2>7. \A k \in Jobs : Owned(k)' <=> Owned(k) \/ k = j
    BY <2>1, <2>3 DEF Owned, Adding, Holds
  <2>8. Attended'
    BY <1>s, <2>1, <2>4, <2>6, <2>7 DEF MannedInv, Attended
  <2>9. ASSUME faults' = 0, server' # "down", NEW k \in Stored' \ api'.victims
        PROVE  rows'[k].status \in Terminal \/ k \in recq' \/ Owned(k)'
    <3>1. k \in Jobs /\ k \in Stored \ api.victims
      BY <2>1, <2>4, <2>6, <2>9
    <3>2. rows[k].status \in Terminal \/ k \in recq \/ Owned(k)
      BY <2>1, <2>9, <3>1 DEF MannedInv, Manned
    <3>3. k # j => rows'[k] = rows[k]
      BY <2>5, <3>1
    <3> QED
      BY <2>1, <2>7, <3>1, <3>2, <3>3
  <2>10. ASSUME faults' = 0, NEW w \in Workers, At(w, "publish")',
                run'[w].job \in Stored' \ api'.victims
         PROVE  rows'[run'[w].job].status \in Terminal
    <3>1. run'[w] = run[w] /\ At(w, "publish") /\ run[w].job # j
      BY <2>1, <2>4, <2>10 DEF At, Holds
    <3>2. run[w].job \in Stored \ api.victims /\ rows'[run[w].job] = rows[run[w].job]
      BY <2>1, <2>5, <2>6, <2>10, <3>1
    <3> QED
      BY <2>1, <2>10, <3>1, <3>2 DEF MannedInv, Manned
  <2>11. Manned'
    BY <2>9, <2>10 DEF Manned
  <2> QED
    BY <2>8, <2>11
<1> QED
  BY <1>1, <1>2, <1>3, <1>4 DEF Startup, Crash, RecoverRaises

LEMMA MannedNext == MannedInv /\ [Next]_vars => MannedInv'
<1> SUFFICES ASSUME MannedInv, [Next]_vars PROVE MannedInv'
  OBVIOUS
<1>1. PairInv' /\ SweepInv'
  BY PairNext, SweepNext DEF MannedInv
<1>2. ASSUME UNCHANGED vars PROVE Attended' /\ Manned'
  <2>1. Stored' = Stored /\ \A j : Owned(j)' <=> Owned(j)
    BY <1>2 DEF vars, Stored, Owned, InQueue, Adding, Holds
  <2> QED
    BY <1>2, <2>1 DEF vars, MannedInv, Attended, Manned, At
<1>3. ASSUME NEW w \in Workers, Busy(w) PROVE Attended' /\ Manned'
  <2>1. CASE faults' = 0
    BY <1>3, <2>1, MannedBusy
  <2>2. CASE faults' # 0
    BY <2>2 DEF Attended, Manned
  <2> QED
    BY <2>1, <2>2
<1>4. ASSUME Next PROVE Attended' /\ Manned'
  BY <1>3, <1>4, MannedApi, MannedDequeue, MannedStartup DEF Next, Work, Busy
<1> QED
  BY <1>1, <1>2, <1>4 DEF MannedInv

(* While no store call has raised, a stored unfinished job is always in    *)
(* somebody's hands while the process is up.                               *)
THEOREM NothingIsStranded == Spec => []NothingStranded
<1>1. MannedInv => NothingStranded
  BY DEF MannedInv, Manned, Owned, NothingStranded
<1> QED
  BY MannedInit, MannedNext, <1>1, PTL DEF Spec

(* After the second prune the table is within its cap, whatever the        *)
(* workers wrote meanwhile; and while no store call has raised, a job that *)
(* a worker runs and whose row exists is live and writes to its row.       *)
THEOREM PruneIsDefinitive == Spec => []PruneDefinitive
<1>1. MannedInv => PruneDefinitive
  <2> SUFFICES ASSUME MannedInv PROVE PruneDefinitive
    OBVIOUS
  <2>1. api.pc \in {"threads", "submit"} => Cardinality(Stored) <= RetentionMax
    BY DEF MannedInv, SweepInv, Swept
  <2>2. ASSUME faults = 0, api.pc = "idle", NEW w \in Workers, NEW j \in Jobs,
               Holds(w, j), j \in Stored
        PROVE  j \in live \cap attached
    <3>1. api.victims = {} /\ live \subseteq attached
      BY <2>2 DEF MannedInv, PairInv, PruneInv, Pruning, Paired
    <3> QED
      BY <2>2, <3>1 DEF MannedInv, Attended, Owned
  <2> QED
    BY <2>1, <2>2 DEF PruneDefinitive
<1> QED
  BY MannedInit, MannedNext, <1>1, PTL DEF Spec

-----------------------------------------------------------------------------
(* The jobs table implements JobLifecycle.                                 *)
(* The proof needs the blob store not to raise: a raising read of it while *)
(* the completed event is published makes the except block overwrite the   *)
(* completed row with failed, a move the abstract specification has not.   *)

LifeState == [j \in Jobs |-> JobState(j)]

(* Where a thread has marked its job running and not yet written its end.  *)
Open == {"yield", "node", "deliver", "finish", "fail"}

(* The row that a thread writes to says running while its graph runs and   *)
(* until it has decided.                                                   *)
RowRunning ==
  \A w \in Workers :
    run[w].pc \in Open /\ ~run[w].split /\ run[w].job \in attached \cap Stored =>
      rows[run[w].job].status = "running"

LifeInv == PruneInv /\ RowRunning

LEMMA LifeStates ==
  ASSUME TypeInv, NEW j \in Jobs
  PROVE  /\ j \in Stored => rows[j].status \in Lifecycle!Live
         /\ JobState(j) \in Lifecycle!States
<1>1. rows[j].status \in Status
  BY DEF TypeInv, TypeOK, Row
<1> QED
  BY <1>1 DEF Stored, Status, Terminal, Lifecycle!Live, Lifecycle!States, JobState

LEMMA LifeInit == Init => Lifecycle!Init
<1> SUFFICES ASSUME Init PROVE Lifecycle!Init
  OBVIOUS
<1>1. \A j \in Jobs : JobState(j) = "none"
  BY DEF Init, JobState, NoApi, NoRow, Stored
<1> QED
  BY <1>1 DEF Lifecycle!Init

(* The step of one job, and of the jobs that leave.                        *)
LEMMA LifeMove ==
  ASSUME NEW j \in Jobs, \A k \in Jobs \ {j} : JobState(k)' = JobState(k),
         \/ JobState(j)' = JobState(j)
         \/ JobState(j) = "none" /\ JobState(j)' \in {"queued", "gone"}
         \/ JobState(j) = "queued" /\ JobState(j)' = "running"
         \/ JobState(j) = "running" /\ JobState(j)' \in {"queued", "completed", "failed"}
  PROVE  [Lifecycle!Next]_LifeState
<1>1. LifeState' = [LifeState EXCEPT ![j] = JobState(j)'] /\ LifeState[j] = JobState(j)
  BY DEF LifeState
<1>2. CASE JobState(j)' = JobState(j)
  <2>1. LifeState' = LifeState
    BY <1>2 DEF LifeState
  <2> QED
    BY <2>1
<1>3. CASE JobState(j) = "none" /\ JobState(j)' \in {"queued", "gone"}
  BY <1>1, <1>3 DEF LifeState, Lifecycle!Next, Lifecycle!Accept, Lifecycle!Refuse, Lifecycle!Move
<1>4. CASE JobState(j) = "queued" /\ JobState(j)' = "running"
  BY <1>1, <1>4 DEF LifeState, Lifecycle!Next, Lifecycle!Start, Lifecycle!Move
<1>5. CASE JobState(j) = "running" /\ JobState(j)' \in {"queued", "completed", "failed"}
  BY <1>1, <1>5 DEF LifeState, Lifecycle!Next, Lifecycle!Requeue, Lifecycle!Finish, Lifecycle!Move
<1> QED
  BY <1>2, <1>3, <1>4, <1>5

LEMMA LifeSame ==
  ASSUME \A k \in Jobs : JobState(k)' = JobState(k)
  PROVE  [Lifecycle!Next]_LifeState
<1>1. LifeState' = LifeState
  BY DEF LifeState
<1> QED
  BY <1>1

LEMMA LifeDepart ==
  ASSUME \A k \in Jobs : IF JobState(k) = "leaving"
                         THEN JobState(k)' \in {"gone"} \cup Lifecycle!Live
                         ELSE JobState(k)' = JobState(k)
  PROVE  [Lifecycle!Next]_LifeState
<1>1. CASE \E k \in Jobs : JobState(k) = "leaving"
  <2> DEFINE L == {k \in Jobs : JobState(k) = "leaving"}
             f == [k \in L |-> JobState(k)']
  <2>1. f \in [L -> {"gone"} \cup Lifecycle!Live]
    OBVIOUS
  <2>2. LifeState' = [k \in Jobs |-> IF LifeState[k] = "leaving" THEN f[k] ELSE LifeState[k]]
    BY DEF LifeState
  <2>3. L = {k \in Jobs : LifeState[k] = "leaving"}
    BY DEF LifeState
  <2> HIDE DEF f, L
  <2>4. Lifecycle!Depart
    BY <1>1, <2>1, <2>2, <2>3 DEF LifeState, Lifecycle!Depart
  <2> QED
    BY <2>4 DEF Lifecycle!Next
<1>2. CASE ~\E k \in Jobs : JobState(k) = "leaving"
  BY <1>2, LifeSame
<1> QED
  BY <1>1, <1>2

LEMMA LifePrune ==
  ASSUME NEW S \in SUBSET Jobs,
         \A k \in S : JobState(k) \in Lifecycle!Live /\ JobState(k)' = "leaving",
         \A k \in Jobs \ S : JobState(k)' = JobState(k)
  PROVE  [Lifecycle!Next]_LifeState
<1>1. Lifecycle!Prune(S)
  BY DEF LifeState, Lifecycle!Prune
<1> QED
  BY <1>1 DEF Lifecycle!Next

(* How a busy thread can come to, or stay in, an open state with its       *)
(* record whole.                                                           *)
LEMMA OpenStep ==
  ASSUME TypeInv, "blobs" \notin Faulty, NEW w \in Workers, Busy(w),
         run'[w].pc \in Open, ~run'[w].split
  PROVE  /\ ~run[w].split
         /\ \/ run[w].pc \in {"yield", "node", "deliver"}
            \/ /\ run[w].pc = "mark"
               /\ Write(w, [rec[run[w].job] EXCEPT !.status = "running"])
            \/ run[w].pc = "finish" /\ rows' = rows
<1> USE DEF Open, At
<1>0. run \in [Workers -> Run] /\ run[w] \in Run
  BY DEF TypeInv, TypeOK
<1>1. CASE Lookup(w)
  BY <1>0, <1>1 DEF Lookup, Goto, Release, NoRun, Run
<1>2. CASE MarkRunning(w)
  BY <1>0, <1>2 DEF MarkRunning, StartRun, Run
<1>3. CASE Yield(w)
  BY <1>0, <1>3 DEF Yield, Run
<1>4. CASE RunNode(w)
  BY <1>0, <1>4 DEF RunNode, Run
<1>5. CASE Checkpoint(w)
  BY <1>0, <1>5 DEF Checkpoint, Run
<1>6. CASE Deliver(w) \/ NodeRaises(w)
  BY <1>0, <1>6 DEF Deliver, NodeRaises, Goto, Run
<1>7. CASE Finish(w) \/ Fail(w) \/ Publish(w)
  BY <1>0, <1>7 DEF Finish, Fail, Publish, Goto, Release, NoRun, Run
<1>8. CASE DeliverRaises(w) \/ PublishRaises(w)
  BY <1>8 DEF DeliverRaises, PublishRaises, Raise
<1>9. CASE MarkRaises(w) \/ CredentialsRaise(w) \/ FailRaises(w)
  BY <1>0, <1>9 DEF MarkRaises, CredentialsRaise, FailRaises, Goto, Run
<1>10. CASE YieldRaises(w) \/ FinishRaises(w)
  BY <1>0, <1>10 DEF YieldRaises, FinishRaises, WriteRaises, Goto, Run
<1> QED
  BY <1>1, <1>2, <1>3, <1>4, <1>5, <1>6, <1>7, <1>8, <1>9, <1>10 DEF Busy, WorkRaises

LEMMA GetJobSplitsOpen ==
  ASSUME TypeInv, NEW j \in Jobs, GetJob(j), NEW w \in Workers,
         run[w].pc \in Open, ~run'[w].split
  PROVE  run[w].job # j /\ ~run[w].split
<1> DEFINE b == run[w].split \/ (run[w].pc \notin {"idle", "lookup"} /\ run[w].job = j)
<1>1. run'[w] = [run[w] EXCEPT !.split = b]
  BY DEF GetJob
<1>2. run[w] \in Run /\ b \in BOOLEAN
  BY DEF TypeInv, TypeOK
<1>3. run'[w].split = b
  BY <1>1, <1>2, SplitType
<1> QED
  BY <1>3 DEF Open

LEMMA RunningBusy ==
  ASSUME LifeInv, "blobs" \notin Faulty, NEW w \in Workers, Busy(w)
  PROVE  RowRunning'
<1> DEFINE j == run[w].job
<1>0. /\ FinalInv /\ TypeInv /\ rows \in [Jobs -> Row] /\ rec \in [Jobs -> Row]
  BY DEF LifeInv, PruneInv, FinalInv, OwnerInv, TypeInv, TypeOK
<1>1. /\ NoNewHolder /\ run[w].pc # "idle" /\ j \in Jobs
      /\ \A k \in Jobs \ {j} : rows'[k] = rows[k]
  BY <1>0, BusyEffect
<1>2. /\ \A k \in Jobs \ {j} : k \in Stored' <=> k \in Stored
      /\ \/ UNCHANGED <<live, attached>>
         \/ At(w, "lookup") /\ attached' = attached \cup {j}
  BY <1>0, BusyStored
<1>3. \A v \in Workers \ {w} : run[v].pc # "idle" => run[v].job \in Jobs \ {j}
  BY <1>0, <1>1 DEF FinalInv, OwnerInv, SingleOwner, Holds, TypeInv, Shape
<1>4. \A v \in Workers \ {w} : run'[v] = run[v]
  BY <1>0, BusyDelivers
<1>5. SUFFICES ASSUME NEW v \in Workers, run'[v].pc \in Open, ~run'[v].split,
                      run'[v].job \in attached' \cap Stored'
               PROVE  rows'[run'[v].job].status = "running"
  BY DEF RowRunning, Open
<1>6. CASE v # w
  <2>1. run'[v] = run[v] /\ run[v].job \in Jobs \ {j}
    BY <1>3, <1>4, <1>5, <1>6 DEF Open
  <2>2. run[v].job \in attached \cap Stored
    BY <1>2, <1>5, <2>1
  <2> QED
    BY <1>1, <1>5, <2>1, <2>2 DEF LifeInv, RowRunning, Open
<1>7. CASE v = w
  <2>1. run'[w].job = j
    BY <1>1, <1>5, <1>7 DEF NoNewHolder, Open
  <2>2. /\ ~run[w].split
        /\ \/ run[w].pc \in {"yield", "node", "deliver"}
           \/ /\ run[w].pc = "mark"
              /\ Write(w, [rec[run[w].job] EXCEPT !.status = "running"])
           \/ run[w].pc = "finish" /\ rows' = rows
    BY <1>0, <1>5, <1>7, OpenStep
  <2>3. attached' = attached
    BY <1>2, <2>2 DEF At
  <2>4. j \in Stored /\ run[w].pc \in Open => rows[j].status = "running"
    BY <1>5, <1>7, <2>1, <2>2, <2>3 DEF LifeInv, RowRunning, Open
  <2>5. rows'[j] = rows[j] => j \in Stored
    BY <1>5, <1>7, <2>1 DEF Stored
  <2>6. CASE run[w].pc = "mark" /\ Write(w, [rec[run[w].job] EXCEPT !.status = "running"])
    <3>1. rec[j] \in Row
      BY <1>0, <1>1
    <3>2. [rec[j] EXCEPT !.status = "running"].status = "running"
      BY <3>1 DEF Row
    <3>3. rows' = [rows EXCEPT ![j] = [rec[j] EXCEPT !.status = "running"]]
      BY <1>5, <1>7, <2>1, <2>2, <2>3, <2>6 DEF Write, Mutate
    <3> QED
      BY <1>0, <1>1, <1>7, <2>1, <3>2, <3>3
  <2>7. CASE run[w].pc = "finish" /\ rows' = rows
    BY <1>7, <2>1, <2>4, <2>5, <2>7 DEF Open
  <2>8. CASE run[w].pc \in {"yield", "node", "deliver"}
    <3>1. rec[j].status = "running"
      BY <1>0, <2>2, <2>8 DEF FinalInv, RecordOpen
    <3>2. rows'[j] = rows[j] \/ rows'[j].status = "running"
      <4>1. CASE UNCHANGED <<rows, records>> \/ Lookup(w)
        BY <4>1 DEF Lookup, durable
      <4>2. ASSUME NEW new \in Row, Advances(w, new), Write(w, new) \/ WriteRaises(w, new)
            PROVE  rows'[j] = rows[j] \/ rows'[j].status = "running"
        <5>1. new.status = "running"
          BY <2>8, <3>1, <4>2 DEF Advances, At
        <5>2. rows'[j] \in {rows[j], new}
          BY <1>0, <1>1, <4>2 DEF Write, WriteRaises, Mutate
        <5> QED
          BY <5>1, <5>2
      <4> QED
        BY <1>0, <4>1, <4>2, BusyWrites DEF BusyWrite
    <3> QED
      BY <1>7, <2>1, <2>4, <2>5, <2>8, <3>2 DEF Open
  <2> QED
    BY <2>2, <2>6, <2>7, <2>8
<1> QED
  BY <1>6, <1>7

(* A step outside the threads keeps the rows of the jobs they hold, or     *)
(* removes them, and hands no store back to a record they hold.            *)
LEMMA RunningStill ==
  ASSUME LifeInv,
         \A w \in Workers : run'[w].pc \in Open /\ ~run'[w].split =>
           /\ run[w].pc = run'[w].pc /\ run[w].job = run'[w].job /\ ~run[w].split
           /\ run[w].job \in attached' => run[w].job \in attached
           /\ \/ rows'[run[w].job] = rows[run[w].job]
              \/ run[w].job \notin Stored'
  PROVE  RowRunning'
BY DEF LifeInv, RowRunning, Open, Stored

LEMMA RunningApi ==
  ASSUME LifeInv,
         (\E j \in Jobs : Submit(j) \/ GetJob(j)) \/ Add \/ AddRaises
  PROVE  RowRunning'
<1>0. /\ FinalInv /\ OwnerInv /\ TypeInv /\ rows \in [Jobs -> Row]
  BY DEF LifeInv, PruneInv, FinalInv, OwnerInv, TypeInv, TypeOK
<1>1. \A w \in Workers : run[w].pc \in Open => run[w].job \in Jobs /\ Holds(w, run[w].job)
  BY <1>0 DEF TypeInv, Shape, Holds, Open
<1>2. ASSUME NEW j \in Jobs, Submit(j) PROVE RowRunning'
  <2>1. \A w \in Workers : ~Holds(w, j)
    BY <1>0, <1>2 DEF OwnerInv, Stamped, Submit
  <2>2. UNCHANGED <<rows, run>> /\ attached' = attached \cup {j}
    BY <1>2 DEF Submit
  <2> QED
    BY <1>1, <2>1, <2>2, RunningStill
<1>3. ASSUME NEW j \in Jobs, GetJob(j) PROVE RowRunning'
  <2>1. \A w \in Workers : run'[w].pc = run[w].pc /\ run'[w].job = run[w].job
    BY <1>0, <1>3, GetJobRuns
  <2>2. \A w \in Workers : run[w].pc \in Open /\ ~run'[w].split =>
          run[w].job # j /\ ~run[w].split
    BY <1>0, <1>3, GetJobSplitsOpen
  <2>3. rows' = rows /\ attached' = attached \cup {j}
    BY <1>3 DEF GetJob, Rehydrate, durable
  <2> QED
    BY <1>1, <2>1, <2>2, <2>3, RunningStill
<1>4. CASE PersistInitial
  <2>1. \A w \in Workers : ~Holds(w, api.job)
    BY <1>0, <1>4 DEF OwnerInv, SingleOwner, Adding, PersistInitial, TypeInv, Shape
  <2>2. /\ UNCHANGED <<run, attached>>
        /\ \A k \in Jobs \ {api.job} : rows'[k] = rows[k]
    BY <1>0, <1>4 DEF PersistInitial, Mutate
  <2> QED
    BY <1>1, <2>1, <2>2, RunningStill
<1>5. CASE FirstPrune \/ SecondPrune
  <2>1. /\ UNCHANGED <<run, attached>>
        /\ \A k \in Jobs : rows'[k] = rows[k] \/ k \notin Stored'
    BY <1>0, <1>5 DEF FirstPrune, SecondPrune, records, Stored, NoRow
  <2> QED
    BY <1>1, <2>1, RunningStill
<1>6. CASE Evict \/ Detach \/ DeleteThreads \/ Enqueue \/ AddRaises
  <2>1. /\ UNCHANGED <<run, rows>> /\ attached' \subseteq attached
    BY <1>6 DEF Evict, Detach, DeleteThreads, Enqueue, AddRaises, records, durable
  <2> QED
    BY <1>1, <2>1, RunningStill
<1> QED
  BY <1>2, <1>3, <1>4, <1>5, <1>6 DEF Add

LEMMA RunningOther ==
  ASSUME LifeInv,
         \/ Startup \/ Crash \/ \E j \in Jobs : RecoverRaises(j)
         \/ \E w \in Workers : Dequeue(w)
  PROVE  RowRunning'
<1>0. /\ FinalInv /\ OwnerInv /\ TypeInv /\ rows \in [Jobs -> Row] /\ run \in [Workers -> Run]
  BY DEF LifeInv, PruneInv, FinalInv, OwnerInv, TypeInv, TypeOK
<1>1. \A w \in Workers : run[w].pc \in Open => run[w].job \in Jobs /\ Holds(w, run[w].job)
  BY <1>0 DEF TypeInv, Shape, Holds, Open
<1>2. CASE Restart \/ Serve
  BY <1>2, RunningStill DEF Restart, Serve, durable, records
<1>3. ASSUME NEW j \in Jobs, Recover(j) PROVE RowRunning'
  <2>1. /\ run' = run /\ attached' = attached \cup {j}
        /\ \A k \in Jobs \ {j} : rows'[k] = rows[k]
        /\ j \in recq
    BY <1>0, <1>3 DEF Recover, IsNext
  <2>2. \A w \in Workers : ~Holds(w, j)
    BY <1>0, <2>1 DEF OwnerInv, SingleOwner
  <2> QED
    BY <1>1, <2>1, <2>2, RunningStill
<1>4. CASE Die
  BY <1>4 DEF Die, NoRun, RowRunning
<1>5. ASSUME NEW w \in Workers, Dequeue(w) PROVE RowRunning'
  <2>1. /\ \A v \in Workers \ {w} : run'[v] = run[v]
        /\ run'[w].pc = "lookup"
        /\ UNCHANGED <<rows, attached>>
    BY <1>0, <1>5 DEF Dequeue, NoRun, durable, records
  <2> QED
    BY <1>1, <2>1, RunningStill DEF Open
<1> QED
  BY <1>2, <1>3, <1>4, <1>5 DEF Startup, Crash, RecoverRaises

LEMMA LifeInvNext ==
  ASSUME "blobs" \notin Faulty
  PROVE  LifeInv /\ [Next]_vars => LifeInv'
<1> SUFFICES ASSUME LifeInv, [Next]_vars PROVE LifeInv'
  OBVIOUS
<1>1. PruneInv'
  BY PruneNext DEF LifeInv
<1>2. CASE UNCHANGED vars
  BY <1>1, <1>2, RunningStill DEF LifeInv, vars
<1>3. CASE Next
  <2>1. RowRunning'
    BY <1>3, RunningApi, RunningBusy, RunningOther DEF Next, Work, Busy
  <2> QED
    BY <1>1, <2>1 DEF LifeInv
<1> QED
  BY <1>2, <1>3

(* The add() that ends, or dies, at any point: the row it was inserting is *)
(* given up, the victims of its prune are gone or, where a worker had      *)
(* re-inserted them, left behind.                                          *)
LEMMA LifeDrop ==
  ASSUME LifeInv, UNCHANGED <<rows, stamp>>, api'.victims = {}, api'.pc # "persist"
  PROVE  [Lifecycle!Next]_LifeState
<1>0. TypeInv /\ OwnerInv
  BY DEF LifeInv, PruneInv, FinalInv, OwnerInv
<1>1. Stored' = Stored
  BY DEF Stored
<1>2. CASE api.pc = "persist"
  <2>0. PICK j \in Jobs : j = api.job
    BY <1>0, <1>2 DEF TypeInv, Shape
  <2>1. api.victims = {} /\ j \notin Stored
    BY <1>2, <2>0 DEF LifeInv, PruneInv, Pruning
  <2>2. Adding(j)
    BY <1>2, <2>0 DEF Adding
  <2>3. stamp[j] # 0
    BY <1>0, <2>1, <2>2 DEF OwnerInv, Stamped
  <2>4. JobState(j) = "none" /\ JobState(j)' = "gone"
    BY <1>1, <1>2, <2>0, <2>1, <2>3 DEF JobState
  <2>5. \A k \in Jobs \ {j} : JobState(k)' = JobState(k)
    BY <1>1, <2>0, <2>1 DEF JobState
  <2> QED
    BY <2>1, <2>4, <2>5, LifeMove
<1>3. CASE api.pc # "persist"
  <2>1. ASSUME NEW k \in Jobs
        PROVE  IF JobState(k) = "leaving"
               THEN JobState(k)' \in {"gone"} \cup Lifecycle!Live
               ELSE JobState(k)' = JobState(k)
    <3>1. CASE k \in api.victims
      <4>1. stamp[k] # 0
        BY <3>1 DEF LifeInv, PruneInv, Pruning
      <4>2. CASE k \in Stored
        BY <1>0, <1>1, <3>1, <4>2, LifeStates DEF JobState
      <4>3. CASE k \notin Stored
        BY <1>1, <3>1, <4>1, <4>3 DEF JobState
      <4> QED
        BY <4>2, <4>3
    <3>2. CASE k \notin api.victims
      <4>1. JobState(k)' = JobState(k)
        BY <1>1, <1>3, <3>2 DEF JobState
      <4>2. JobState(k) # "leaving"
        BY <1>0, <3>2, LifeStates DEF JobState, Lifecycle!Live
      <4> QED
        BY <4>1, <4>2
    <3> QED
      BY <3>1, <3>2
  <2> QED
    BY <2>1, LifeDepart
<1> QED
  BY <1>2, <1>3

(* A step with the same rows, stamps and victims at the same kind of point. *)
LEMMA LifeStill ==
  ASSUME UNCHANGED <<rows, stamp>>, api'.victims = api.victims,
         api'.pc = "persist" <=> api.pc = "persist",
         api.pc = "persist" => api'.job = api.job
  PROVE  [Lifecycle!Next]_LifeState
<1>1. \A k \in Jobs : JobState(k)' = JobState(k)
  BY DEF JobState, Stored
<1> QED
  BY <1>1, LifeSame

(* A step that writes the row of one stored job outside a prune.           *)
LEMMA LifeRow ==
  ASSUME LifeInv, NEW j \in Jobs, UNCHANGED <<stamp, api>>, j \in Stored,
         \A k \in Jobs \ {j} : rows'[k] = rows[k],
         rows'[j].status # "absent",
         \/ rows'[j].status = rows[j].status
         \/ rows[j].status = "queued" /\ rows'[j].status = "running"
         \/ /\ rows[j].status = "running"
            /\ rows'[j].status \in {"queued", "completed", "failed"}
  PROVE  [Lifecycle!Next]_LifeState
<1>1. \A k \in Jobs \ {j} : JobState(k)' = JobState(k)
  BY DEF JobState, Stored
<1>2. j \in Stored'
  BY DEF Stored
<1>3. CASE j \in api.victims
  <2>1. JobState(j)' = JobState(j)
    BY <1>3 DEF JobState
  <2> QED
    BY <1>1, <2>1, LifeMove
<1>4. CASE j \notin api.victims
  <2>1. JobState(j) = rows[j].status /\ JobState(j)' = rows'[j].status
    BY <1>2, <1>4 DEF JobState
  <2> QED
    BY <1>1, <2>1, LifeMove
<1> QED
  BY <1>3, <1>4

LEMMA LifeApi ==
  ASSUME LifeInv,
         (\E j \in Jobs : Submit(j) \/ GetJob(j)) \/ Add \/ AddRaises
  PROVE  [Lifecycle!Next]_LifeState
<1>0. /\ TypeInv /\ OwnerInv /\ FinalInv /\ rows \in [Jobs -> Row]
      /\ stamp \in [Jobs -> Nat]
      /\ api \in [pc : ApiPC, job : Jobs \cup {NoJob}, victims : SUBSET Jobs, todo : SUBSET Jobs]
  BY DEF LifeInv, PruneInv, FinalInv, OwnerInv, TypeInv, TypeOK
<1>1. ASSUME NEW j \in Jobs, Submit(j) PROVE [Lifecycle!Next]_LifeState
  <2>1. /\ rows' = rows /\ api'.pc = "persist" /\ api'.job = j /\ api'.victims = {}
        /\ api.pc = "idle" /\ stamp[j] = 0
        /\ \A k \in Jobs \ {j} : stamp'[k] = stamp[k]
    BY <1>0, <1>1 DEF Submit, NoApi
  <2>2. Stored' = Stored /\ api.victims = {} /\ j \notin Stored
    BY <2>1 DEF Stored, LifeInv, PruneInv, Pruning, FinalInv, OwnerInv, Stamped
  <2>3. \A k \in Jobs : JobState(k)' = JobState(k)
    BY <2>1, <2>2 DEF JobState
  <2> QED
    BY <2>3, LifeSame
<1>2. ASSUME NEW j \in Jobs, GetJob(j) PROVE [Lifecycle!Next]_LifeState
  BY <1>2, LifeStill DEF GetJob, durable
<1>3. CASE PersistInitial
  <2>0. PICK j \in Jobs : j = api.job
    BY <1>0, <1>3 DEF PersistInitial, TypeInv, Shape
  <2>1. /\ stamp' = stamp /\ api'.pc = "prune" /\ api'.victims = api.victims
        /\ api.pc = "persist" /\ api.job = j
        /\ rows' = IF j \in attached THEN [rows EXCEPT ![j] = rec[j]] ELSE rows
    BY <1>0, <1>3, <2>0 DEF PersistInitial, Mutate
  <2>2. rec[j].status = "queued"
    BY <1>0, <2>1 DEF FinalInv, RecordOpen
  <2>3. api.victims = {} /\ j \notin Stored
    BY <2>1 DEF LifeInv, PruneInv, Pruning
  <2>4. Adding(j)
    BY <2>1 DEF Adding
  <2>5. stamp[j] # 0
    BY <1>0, <2>1, <2>4 DEF OwnerInv, Stamped
  <2>6. JobState(j) = "none"
    BY <2>1, <2>3 DEF JobState
  <2>7. \A k \in Jobs \ {j} : JobState(k)' = JobState(k)
    BY <1>0, <2>1, <2>3 DEF JobState, Stored
  <2>8. CASE j \in attached
    <3>1. rows'[j].status = "queued"
      BY <1>0, <2>1, <2>2, <2>8
    <3>2. JobState(j)' = "queued"
      BY <2>1, <2>3, <3>1 DEF JobState, Stored
    <3> QED
      BY <2>1, <2>6, <2>7, <3>2, LifeMove
  <2>9. CASE j \notin attached
    <3>1. rows' = rows
      BY <2>1, <2>9
    <3>2. JobState(j)' = "gone"
      BY <2>1, <2>3, <2>5, <3>1 DEF JobState, Stored
    <3> QED
      BY <2>1, <2>6, <2>7, <3>2, LifeMove
  <2> QED
    BY <2>8, <2>9
<1>4. CASE FirstPrune
  <2> DEFINE S == Beyond(RetentionMax)
  <2>1. /\ stamp' = stamp /\ api'.pc = "evict" /\ api'.victims = S
        /\ api.pc = "prune"
        /\ \A k \in Jobs : rows'[k] = IF k \in S THEN NoRow ELSE rows[k]
    BY <1>0, <1>4 DEF FirstPrune
  <2>2. api.victims = {} /\ S \subseteq Stored /\ Stored \subseteq Jobs
    BY <2>1 DEF LifeInv, PruneInv, Pruning, Beyond, Stored
  <2> HIDE DEF S
  <2>3. \A k \in S : JobState(k) \in Lifecycle!Live /\ JobState(k)' = "leaving"
    BY <1>0, <2>1, <2>2, LifeStates DEF JobState
  <2>4. \A k \in Jobs \ S : JobState(k)' = JobState(k)
    BY <2>1, <2>2 DEF JobState, Stored
  <2>5. S \in SUBSET Jobs
    BY <2>2
  <2> QED
    BY <2>3, <2>4, <2>5, LifePrune
<1>5. CASE Evict \/ Detach
  <2>1. /\ UNCHANGED <<rows, stamp>> /\ api'.victims = api.victims
        /\ api.pc \in {"evict", "detach"} /\ api'.pc = "detach"
    BY <1>0, <1>5 DEF Evict, Detach, durable
  <2> QED
    BY <2>1, LifeStill
<1>6. CASE SecondPrune
  <2>1. /\ stamp' = stamp /\ api'.pc = "threads"
        /\ api'.victims = api.victims \cup Beyond(RetentionMax)
        /\ api.pc = "detach"
        /\ \A k \in Jobs \ Beyond(RetentionMax) : rows'[k] = rows[k]
    BY <1>0, <1>6 DEF SecondPrune
  <2>2. Beyond(RetentionMax) \subseteq api.victims
    BY <2>1, BeyondVictims DEF LifeInv
  <2>3. api'.victims = api.victims
    BY <2>1, <2>2
  <2>4. \A k \in Jobs : JobState(k)' = JobState(k)
    BY <2>1, <2>2, <2>3 DEF JobState, Stored
  <2> QED
    BY <2>4, LifeSame
<1>7. CASE DeleteThreads \/ Enqueue \/ AddRaises
  <2>1. UNCHANGED <<rows, stamp>> /\ api'.victims = {} /\ api'.pc # "persist"
    <3>1. CASE DeleteThreads
      BY <1>0, <3>1 DEF DeleteThreads
    <3>2. CASE Enqueue \/ AddRaises
      BY <3>2 DEF Enqueue, AddRaises, durable, NoApi
    <3> QED
      BY <1>7, <3>1, <3>2
  <2> QED
    BY <2>1, LifeDrop
<1> QED
  BY <1>1, <1>2, <1>3, <1>4, <1>5, <1>6, <1>7 DEF Add

LEMMA LifeBusy ==
  ASSUME LifeInv, NEW w \in Workers, Busy(w)
  PROVE  [Lifecycle!Next]_LifeState
<1>0. /\ TypeInv /\ FinalInv /\ rows \in [Jobs -> Row] /\ rec \in [Jobs -> Row]
  BY DEF LifeInv, PruneInv, FinalInv, OwnerInv, TypeInv, TypeOK
<1>j. PICK j \in Jobs : j = run[w].job
  BY <1>0, BusyEffect
<1>1. /\ BusyWrite(w) /\ run[w].pc # "idle"
      /\ UNCHANGED <<stamp, api>>
      /\ \A k \in Jobs \ {j} : rows'[k] = rows[k]
  BY <1>0, <1>j, BusyWrites, BusyEffect
<1>2. CASE rows' = rows
  BY <1>1, <1>2, LifeStill
<1>3. CASE rows' # rows
  <2>1. PICK new \in Row : /\ Advances(w, new)
                           /\ Write(w, new) \/ WriteRaises(w, new)
                           /\ UNCHANGED <<live, attached>>
    BY <1>1, <1>3 DEF BusyWrite, Lookup, durable
  <2>2. j \in attached /\ ~run[w].split /\ rows' = [rows EXCEPT ![j] = new]
    BY <1>3, <1>j, <2>1 DEF Write, WriteRaises, Mutate
  <2>3. rows'[j] = new
    BY <1>0, <1>1, <2>2
  <2>4. InHands(j)
    BY <1>1, <1>j DEF InHands, Holds
  <2>5. j \in Stored \/ j \in api.victims
    BY <2>2, <2>4 DEF LifeInv, PruneInv, Reaches
  <2>6. At(w, "yield") => rec[j].status = "running"
    BY <1>0, <1>j, <2>2 DEF FinalInv, RecordOpen, At
  <2>7. new.status # "absent"
    BY <1>j, <2>1, <2>6 DEF Advances
  <2>8. CASE j \notin Stored
    <3>1. j \in api.victims
      BY <2>5, <2>8
    <3>2. JobState(j)' = JobState(j)
      BY <1>1, <3>1 DEF JobState
    <3>3. \A k \in Jobs \ {j} : JobState(k)' = JobState(k)
      BY <1>1 DEF JobState, Stored
    <3> QED
      BY <1>1, <3>2, <3>3, LifeMove
  <2>9. CASE j \in Stored
    <3>1. run[w].pc \in {"yield", "finish", "fail"} => rows[j].status = "running"
      BY <1>j, <2>2, <2>9 DEF LifeInv, RowRunning, Open
    <3>2. At(w, "mark") => rows[j].status \in {"queued", "running"}
      <4>1. rows[j].status \in Status /\ rows[j].status # "absent"
        BY <1>0, <1>1, <2>9 DEF Row, Stored
      <4>2. At(w, "mark") => rows[j].status \notin Terminal
        BY <1>0, <1>j DEF FinalInv, Unfinished, Undecided, At
      <4> QED
        BY <4>1, <4>2 DEF Status, Terminal
    <3>3. \/ rows'[j].status = rows[j].status
          \/ rows[j].status = "queued" /\ rows'[j].status = "running"
          \/ /\ rows[j].status = "running"
             /\ rows'[j].status \in {"queued", "completed", "failed"}
      BY <1>j, <2>1, <2>3, <2>6, <3>1, <3>2 DEF Advances, At
    <3>4. rows'[j].status # "absent"
      BY <2>3, <2>7
    <3> QED
      BY <1>1, <2>9, <3>3, <3>4, LifeRow
  <2> QED
    BY <2>8, <2>9
<1> QED
  BY <1>2, <1>3

LEMMA LifeStartup ==
  ASSUME LifeInv,
         Startup \/ Crash \/ \E j \in Jobs : RecoverRaises(j)
  PROVE  [Lifecycle!Next]_LifeState
<1>0. /\ TypeInv /\ FinalInv /\ rows \in [Jobs -> Row]
  BY DEF LifeInv, PruneInv, FinalInv, OwnerInv, TypeInv, TypeOK
<1>1. CASE Restart \/ Serve
  BY <1>1, LifeStill DEF Restart, Serve, durable
<1>2. CASE Die
  BY <1>2, LifeDrop DEF Die, NoApi
<1>3. ASSUME NEW j \in Jobs, Recover(j) PROVE [Lifecycle!Next]_LifeState
  <2> DEFINE row == IF Resumable(j) THEN rows[j] ELSE Reset(j)
  <2>1. UNCHANGED <<stamp, api>> /\ rows' = [rows EXCEPT ![j] = row] /\ j \in recq
    BY <1>3 DEF Recover, IsNext
  <2>2. j \in Stored /\ rows[j].status \notin Terminal
    BY <1>0, <2>1 DEF LifeInv, PruneInv, Calm, FinalInv, Unfinished
  <2>3. rows[j].status \in {"queued", "running"}
    BY <1>0, <2>2 DEF Row, Status, Terminal, Stored
  <2>4. row.status = rows[j].status \/ row.status = "queued"
    BY <1>0 DEF Reset, Row
  <2> HIDE DEF row
  <2>5. rows'[j] = row /\ \A k \in Jobs \ {j} : rows'[k] = rows[k]
    BY <1>0, <2>1
  <2> QED
    BY <2>1, <2>2, <2>3, <2>4, <2>5, LifeRow
<1> QED
  BY <1>1, <1>2, <1>3 DEF Startup, Crash, RecoverRaises

LEMMA LifeNext == LifeInv /\ [Next]_vars => [Lifecycle!Next]_LifeState
<1> SUFFICES ASSUME LifeInv, [Next]_vars PROVE [Lifecycle!Next]_LifeState
  OBVIOUS
<1>1. CASE UNCHANGED vars
  BY <1>1, LifeStill DEF vars
<1>2. ASSUME NEW w \in Workers, Dequeue(w) PROVE [Lifecycle!Next]_LifeState
  BY <1>2, LifeStill DEF Dequeue, durable
<1>3. CASE Next
  BY <1>2, <1>3, LifeApi, LifeBusy, LifeStartup DEF Next, Work, Busy
<1> QED
  BY <1>1, <1>3

(* The jobs table implements the abstract life cycle of a job, as long as  *)
(* the blob store does not raise: across interleavings of the threads, the *)
(* retention prune, crashes, recovery and raising calls of the job store   *)
(* every step of the runner is a legal move of a job, or none.             *)
THEOREM TableImplementsLifecycle ==
  ASSUME "blobs" \notin Faulty
  PROVE  Spec => ImplementsLifecycle
<1>1. Init => LifeInv
  BY PruneInit DEF LifeInv, RowRunning, Init, NoRun
<1>2. LifeInv /\ [Next]_vars => LifeInv'
  BY LifeInvNext
<1>3. Init => Lifecycle!Init
  BY LifeInit
<1>4. LifeInv /\ [Next]_vars => [Lifecycle!Next]_LifeState
  BY LifeNext
<1>5. LifeInv /\ [Next]_vars =>
        [Lifecycle!Next]_([j \in Jobs |-> JobState(j)])
  BY <1>4 DEF LifeState
<1> QED
  BY <1>1, <1>2, <1>3, <1>5, PTL DEF Spec, ImplementsLifecycle, Lifecycle!Spec

-----------------------------------------------------------------------------
(* Progress and sources of the jobs that no prune has reached *)

(* A job that is unknown, or has fewer than RetentionMax later ones: no    *)
(* prune has reached it, so its record was live whenever it had an owner.  *)
Later(j) == {k \in Jobs : stamp[k] > stamp[j]}

Recent(j) == stamp[j] = 0 \/ ~(Cardinality(Later(j)) >= RetentionMax)

Spared(j) ==
  /\ j \notin api.victims \cup api.todo
  /\ Owned(j) => j \in live \cap attached
  /\ \A w \in Workers : Holds(w, j) => ~run[w].split

(* What CompletedNodesExact says of a row and its record, and that the     *)
(* checkpoint is at most one stage ahead of the row.                       *)
Recorded(row, r, c) ==
  /\ InOrder(row.done) /\ InOrder(r.done)
  /\ c.pos <= Len(row.done) + 1
  /\ row.status = "completed" /\ row.error = "none" => Len(row.done) = NumNodes

(* A queued run finds its record as the row has it, and empty if it is to  *)
(* start from the beginning.                                               *)
Due(resume, row, r) == r.done = row.done /\ (~resume => r.done = << >>)

(* A thread's run, stage by stage: until something has raised the row has  *)
(* the record's progress; the seen set is that progress; and the graph is  *)
(* at most one stage ahead of it when it yields.                           *)
InStep(t, row, r) ==
  LET n == Len(r.done)
  IN  /\ t.pc \notin {"fail", "dead"} => r.done = row.done
      /\ t.pc \in {"lookup", "mark"} /\ ~t.resume => r.done = << >>
      /\ t.pc \in {"yield", "node"} => t.seen = 1 .. n
      /\ t.pc = "yield" => t.g.pos <= n + 1
      /\ t.pc \in {"node", "deliver", "finish"} => t.g.pos <= n

Noted(j) == Recorded(rows[j], rec[j], ckpt[j])

Level(j) ==
  /\ Adding(j) => rec[j].done = << >> /\ rows[j].done = << >>
  /\ \A i \in DOMAIN queue :
       queue[i].job = j => Due(queue[i].resume, rows[j], rec[j])
  /\ \A w \in Workers : Holds(w, j) => InStep(run[w], rows[j], rec[j])

Sourced(j) == stamp[j] # 0 /\ ~source[j] => rows[j].status \in Terminal

Whole(j) == Spared(j) /\ Noted(j) /\ Level(j) /\ Sourced(j)

(* The report, or the failure to make one, is the last stage's.            *)
Ended(g) == g.out \in {"report", "no_report"} => g.pos = NumNodes

Ends ==
  /\ \A j \in Jobs : Ended(ckpt[j])
  /\ \A w \in Workers :
       Ended(run[w].g) /\ (run[w].pc \in {"deliver", "finish"} => GraphDone(run[w].g))

ExactInv == PruneInv /\ RowsGrow /\ Ends /\ \A j \in Jobs : Recent(j) => Whole(j)

LEMMA ExactInit == Init => ExactInv
<1> SUFFICES ASSUME Init PROVE ExactInv
  OBVIOUS
<1>1. PruneInv /\ RowsGrow
  BY PruneInit, KeptInit
<1>2. Ends
  BY DEF Init, Ends, Ended, NoCkpt, NoRun, GraphInit
<1>3. ASSUME NEW j \in Jobs PROVE Whole(j)
  <2>1. /\ rows[j] = NoRow /\ rec[j] = NoRow /\ ckpt[j] = NoCkpt /\ stamp[j] = 0
        /\ api.pc = "idle" /\ api.victims = {} /\ api.todo = {} /\ queue = << >>
        /\ \A w \in Workers : run[w].pc = "idle"
    BY DEF Init, NoApi, NoRun
  <2>2. ~InQueue(j) /\ ~Adding(j) /\ \A w \in Workers : ~Holds(w, j)
    BY <2>1 DEF InQueue, Adding, Holds
  <2>3. Noted(j)
    BY <2>1, Lengths DEF Noted, Recorded, InOrder, NoRow, NoCkpt
  <2> QED
    BY <2>1, <2>2, <2>3 DEF Whole, Spared, Level, Owned, Sourced, InQueue
<1> QED
  BY <1>1, <1>2, <1>3 DEF ExactInv

(* A job that is recent after a step was recent before it.                 *)
LEMMA RecentBack ==
  ASSUME TypeInv, [Next]_vars, NEW j \in Jobs, Recent(j)'
  PROVE  Recent(j)
<1>1. CASE stamp' = stamp
  BY <1>1 DEF Recent, Later
<1>2. ASSUME NEW k \in Jobs, Submit(k) PROVE Recent(j)
  <2>0. stamp \in [Jobs -> Nat] /\ stamp[k] = 0
    BY <1>2 DEF TypeInv, TypeOK, Submit
  <2>1. \A m \in Jobs \ {k} : stamp'[m] = stamp[m]
    BY <1>2, <2>0 DEF Submit
  <2>2. CASE stamp[j] = 0
    BY <2>2 DEF Recent
  <2>3. CASE stamp[j] # 0
    <3>1. j # k /\ stamp'[j] = stamp[j] /\ stamp[j] \in Nat
      BY <2>0, <2>1, <2>3
    <3>2. k \notin Later(j)
      BY <2>0, <3>1 DEF Later
    <3>3. Later(j) \in SUBSET Later(j)' /\ Later(j)' \in SUBSET Jobs
      BY <2>1, <3>1, <3>2 DEF Later
    <3>4. PICK S \in SUBSET Jobs : S = Later(j)'
      BY <3>3
    <3>5. /\ Cardinality(Later(j)) <= Cardinality(S)
          /\ Cardinality(Later(j)) \in Nat /\ Cardinality(S) \in Nat
      BY <3>3, <3>4, SubsetCard
    <3>6. ~(Cardinality(S) >= RetentionMax) /\ RetentionMax \in Nat
      BY <2>3, <3>1, <3>4, BoundsAssumption DEF Recent
    <3> QED
      BY <3>5, <3>6 DEF Recent
  <2> QED
    BY <2>2, <2>3
<1> QED
  BY <1>1, <1>2, StampStays

(* What a prune takes is not recent.                                       *)
LEMMA RecentStays ==
  ASSUME PruneInv, NEW j \in Jobs, Recent(j)
  PROVE  j \notin Beyond(RetentionMax)
<1>1. SUFFICES ASSUME j \in Beyond(RetentionMax) PROVE FALSE
  OBVIOUS
<1>2. j \in Stored /\ Cardinality(Newer(j)) >= RetentionMax
  BY <1>1 DEF Beyond, Newer
<1>3. stamp[j] # 0
  BY <1>2 DEF PruneInv, FinalInv, OwnerInv, Stamped, Stored
<1>4. Later(j) \in SUBSET Jobs /\ Newer(j) \in SUBSET Later(j)
  BY DEF Later, Newer, Stored
<1>5. /\ Cardinality(Newer(j)) <= Cardinality(Later(j))
      /\ Cardinality(Newer(j)) \in Nat /\ Cardinality(Later(j)) \in Nat
  BY <1>4, SubsetCard
<1> QED
  BY <1>2, <1>3, <1>5, BoundsAssumption DEF Recent

-----------------------------------------------------------------------------
(* Progress in order, and one stage more *)

LEMMA InOrderFits ==
  ASSUME NEW s \in Seq(Nodes), InOrder(s)
  PROVE  /\ Len(s) \in Nat /\ Len(s) <= NumNodes
         /\ {s[i] : i \in DOMAIN s} = 1 .. Len(s)
<1>1. Len(s) \in Nat /\ DOMAIN s = 1 .. Len(s) /\ \A i \in 1 .. Len(s) : s[i] \in Nodes
  OBVIOUS
<1>2. \A i \in 1 .. Len(s) : s[i] = i
  BY <1>1 DEF InOrder
<1>3. Len(s) <= NumNodes
  BY <1>1, <1>2, BoundsAssumption DEF Nodes
<1> QED
  BY <1>1, <1>2, <1>3

LEMMA InOrderNext ==
  ASSUME NEW s \in Seq(Nodes), InOrder(s), NEW x \in Nodes, x = Len(s) + 1
  PROVE  InOrder(Append(s, x)) /\ Len(Append(s, x)) = Len(s) + 1
<1>1. Len(s) \in Nat /\ DOMAIN s = 1 .. Len(s)
  OBVIOUS
<1>2. /\ DOMAIN Append(s, x) = 1 .. Len(s) + 1
      /\ \A i \in 1 .. Len(s) : Append(s, x)[i] = s[i]
      /\ Append(s, x)[Len(s) + 1] = x
      /\ Len(Append(s, x)) = Len(s) + 1
  OBVIOUS
<1> QED
  BY <1>1, <1>2 DEF InOrder

LEMMA InOrderNone == InOrder(<< >>) /\ Len(<< >>) = 0
BY DEF InOrder

-----------------------------------------------------------------------------
(* Steps that leave a job alone *)

(* A step that writes nothing of a job, hands it to nobody and takes       *)
(* neither its record's place nor its handle.                              *)
Apart(j) ==
  /\ UNCHANGED <<rows[j], rec[j], ckpt[j], source[j], stamp[j]>>
  /\ j \in live \cap attached => j \in live' \cap attached'
  /\ j \in api'.victims \cup api'.todo => j \in api.victims \cup api.todo
  /\ Adding(j)' => Adding(j)
  /\ \A i \in DOMAIN queue' :
       queue'[i].job = j => \E k \in DOMAIN queue : queue[k] = queue'[i]
  /\ \A w \in Workers : Holds(w, j)' => Holds(w, j) /\ run'[w] = run[w]

LEMMA WholeApart ==
  ASSUME NEW j \in Jobs, Whole(j), Apart(j)
  PROVE  Whole(j)'
<1>1. /\ InQueue(j)' => InQueue(j)
      /\ Owned(j)' => Owned(j)
  BY DEF Apart, Owned, InQueue
<1>2. Spared(j)'
  BY <1>1 DEF Whole, Spared, Apart
<1>3. Noted(j)' /\ Sourced(j)'
  BY DEF Whole, Noted, Sourced, Apart
<1>4. Level(j)'
  <2>1. Adding(j)' => rec'[j].done = << >> /\ rows'[j].done = << >>
    BY DEF Whole, Level, Apart
  <2>2. ASSUME NEW i \in DOMAIN queue', queue'[i].job = j
        PROVE  Due(queue'[i].resume, rows'[j], rec'[j])
    <3>1. PICK k \in DOMAIN queue : queue[k] = queue'[i]
      BY <2>2 DEF Apart
    <3> QED
      BY <2>2, <3>1 DEF Whole, Level, Apart
  <2>3. \A w \in Workers : Holds(w, j)' => InStep(run'[w], rows'[j], rec'[j])
    BY DEF Whole, Level, Apart
  <2> QED
    BY <2>1, <2>2, <2>3 DEF Level
<1> QED
  BY <1>2, <1>3, <1>4 DEF Whole

-----------------------------------------------------------------------------
(* The report is the last stage's *)

(* The graph that a busy thread leaves, and the checkpoint.                *)
LEMMA EndsBusy ==
  ASSUME TypeInv, Ends, NEW w \in Workers, Busy(w)
  PROVE  Ends'
<1> DEFINE j == run[w].job
<1> USE DEF durable, At, Ended, GraphDone
<1>0. /\ run \in [Workers -> Run] /\ run[w] \in Run /\ run[w].g \in GraphState
      /\ ckpt \in [Jobs -> Checkpoints]
      /\ run[w].pc # "idle" /\ j \in Jobs
  BY BusyEffect DEF TypeInv, TypeOK, Run
<1>1. \A v \in Workers \ {w} : run'[v] = run[v]
  BY <1>0, BusyDelivers DEF TypeInv
<1>2. /\ Ended(run[w].g) /\ Ended(ckpt[j])
      /\ run[w].pc \in {"deliver", "finish"} => GraphDone(run[w].g)
  BY <1>0 DEF Ends
<1>3. SUFFICES /\ Ended(run'[w].g)
               /\ run'[w].pc \in {"deliver", "finish"} => GraphDone(run'[w].g)
               /\ Ended(ckpt'[j]) /\ \A k \in Jobs \ {j} : ckpt'[k] = ckpt[k]
  BY <1>0, <1>1 DEF Ends
<1>4. CASE Lookup(w)
  BY <1>0, <1>2, <1>4 DEF Lookup, Goto, Release, NoRun, GraphInit, Run
<1>5. CASE MarkRunning(w)
  BY <1>0, <1>2, <1>5 DEF MarkRunning, StartRun, GraphInit, Run
<1>6. CASE Yield(w)
  BY <1>0, <1>2, <1>6 DEF Yield, Run
<1>7. CASE RunNode(w)
  <2>1. PICK o \in Outcomes(run[w].g.pos + 1, j) :
          run' = [run EXCEPT ![w].pc = "yield", ![w].g = [pos |-> run[w].g.pos + 1, out |-> o]]
    BY <1>7 DEF RunNode
  <2>2. o \in {"report", "no_report"} => run[w].g.pos + 1 = NumNodes
    BY <2>1 DEF Outcomes
  <2>3. run'[w].pc = "yield" /\ run'[w].g = [pos |-> run[w].g.pos + 1, out |-> o]
    BY <1>0, <2>1 DEF Run
  <2> QED
    BY <1>2, <1>7, <2>2, <2>3 DEF RunNode
<1>8. CASE Checkpoint(w)
  <2>1. PICK p \in run[w].saved + 1 .. run[w].g.pos :
       /\ run' = [run EXCEPT ![w].saved = p]
       /\ ckpt' = [ckpt EXCEPT ![run[w].job] =
                     IF p = run[w].g.pos THEN run[w].g ELSE [pos |-> p, out |-> "pending"]]
    BY <1>8 DEF Checkpoint
  <2>2. run'[w].pc = run[w].pc /\ run'[w].g = run[w].g
    BY <1>0, <2>1 DEF Run
  <2>3. ckpt'[j] = run[w].g \/ ckpt'[j] = [pos |-> p, out |-> "pending"]
    BY <1>0, <2>1
  <2>4. Ended(ckpt'[j])
    BY <1>2, <2>3
  <2> QED
    BY <1>0, <1>2, <2>1, <2>2, <2>4
<1>9. CASE Deliver(w)
  BY <1>0, <1>2, <1>9 DEF Deliver, Goto, Run
<1>10. CASE NodeRaises(w) \/ Publish(w)
  BY <1>0, <1>2, <1>10 DEF NodeRaises, Publish, Goto, Release, NoRun, GraphInit, Run
<1>11. CASE Finish(w) \/ Fail(w)
  BY <1>0, <1>2, <1>11 DEF Finish, Fail, Goto, Release, NoRun, GraphInit, Run
<1>12. CASE DeliverRaises(w) \/ PublishRaises(w) \/ MarkRaises(w) \/ CredentialsRaise(w)
  BY <1>0, <1>2, <1>12
  DEF DeliverRaises, PublishRaises, MarkRaises, CredentialsRaise, Goto, Run
<1>13. CASE YieldRaises(w) \/ FinishRaises(w) \/ FailRaises(w)
  BY <1>0, <1>2, <1>13 DEF YieldRaises, FinishRaises, FailRaises, Goto, Run
<1> QED
  BY <1>4, <1>5, <1>6, <1>7, <1>8, <1>9, <1>10, <1>11, <1>12, <1>13 DEF Busy, WorkRaises

LEMMA EndsNext ==
  ASSUME TypeInv, Ends, [Next]_vars
  PROVE  Ends'
<1> USE DEF durable, Ended, GraphDone
<1>1. ASSUME NEW w \in Workers, Busy(w) PROVE Ends'
  BY <1>1, EndsBusy
<1>2. ASSUME NEW w \in Workers, Dequeue(w) PROVE Ends'
  <2>1. run'[w].pc = "lookup" /\ run'[w].g = GraphInit /\ ckpt' = ckpt
        /\ \A v \in Workers \ {w} : run'[v] = run[v]
    BY <1>2 DEF Dequeue, NoRun, TypeInv, TypeOK
  <2> QED
    BY <2>1 DEF Ends, GraphInit
<1>3. ASSUME NEW j \in Jobs, GetJob(j) PROVE Ends'
  <2>1. /\ ckpt' = ckpt
        /\ \A w \in Workers : run'[w].pc = run[w].pc /\ run'[w].g = run[w].g
    BY <1>3, GetJobRuns DEF GetJob
  <2> QED
    BY <2>1 DEF Ends
<1>4. CASE (\E j \in Jobs : Submit(j)) \/ Add \/ AddRaises
  <2>1. run' = run /\ (ckpt' = ckpt \/ \A j \in Jobs : ckpt'[j] \in {ckpt[j], NoCkpt})
    BY <1>4
    DEF Submit, Add, AddRaises, PersistInitial, FirstPrune, Evict, Detach, SecondPrune,
        DeleteThreads, Enqueue
  <2> QED
    BY <2>1 DEF Ends, NoCkpt
<1>5. CASE Startup \/ UNCHANGED vars
  <2>1. run' = run /\ ckpt' = ckpt
    BY <1>5 DEF Startup, Restart, Serve, Recover, vars
  <2> QED
    BY <2>1 DEF Ends
<1>6. CASE Crash \/ \E j \in Jobs : RecoverRaises(j)
  <2>1. /\ ckpt' = ckpt \/ \A j \in Jobs : ckpt'[j] = NoCkpt
        /\ \A w \in Workers : run'[w].pc = "idle" /\ run'[w].g = GraphInit
    BY <1>6 DEF Crash, RecoverRaises, Die, NoRun
  <2> QED
    BY <2>1 DEF Ends, NoCkpt, GraphInit
<1> QED
  BY <1>1, <1>2, <1>3, <1>4, <1>5, <1>6 DEF Next, Work, Busy

-----------------------------------------------------------------------------
(* What a busy thread makes of its own job *)

(* What the proof of each of its steps starts from.                        *)
Own(w) ==
  LET j == run[w].job
  IN  /\ j \in Jobs /\ j \in live /\ j \in attached /\ run[w].pc # "idle" /\ ~run[w].split
      /\ run[w] \in Run /\ run[w].g \in GraphState
      /\ rows[j] \in Row /\ rec[j] \in Row /\ ckpt[j] \in Checkpoints
      /\ rows[j].done \in Seq(Nodes) /\ rec[j].done \in Seq(Nodes)
      /\ Len(rows[j].done) \in Nat /\ Len(rec[j].done) \in Nat
      /\ Len(rows[j].done) <= Len(rec[j].done) /\ Len(rec[j].done) <= NumNodes
      /\ Recorded(rows[j], rec[j], ckpt[j]) /\ InStep(run[w], rows[j], rec[j])
      /\ run[w].pc \in {"yield", "node", "deliver"} => rec[j].status = "running"

LEMMA OwnHolds ==
  ASSUME PruneInv, RowsGrow, NEW w \in Workers, Busy(w), Whole(run[w].job)
  PROVE  Own(w)
<1> DEFINE j == run[w].job
<1>1. /\ TypeInv /\ run[w] \in Run /\ rows \in [Jobs -> Row] /\ rec \in [Jobs -> Row]
      /\ ckpt \in [Jobs -> Checkpoints] /\ FinalInv
  BY DEF PruneInv, FinalInv, OwnerInv, TypeInv, TypeOK
<1>2. j \in Jobs /\ run[w].pc # "idle" /\ Holds(w, j)
  BY <1>1, BusyEffect DEF Holds
<1>3. j \in live /\ j \in attached /\ ~run[w].split
  BY <1>2 DEF Whole, Spared, Owned
<1>4. /\ rows[j] \in Row /\ rec[j] \in Row /\ run[w].g \in GraphState
      /\ rows[j].done \in Seq(Nodes) /\ rec[j].done \in Seq(Nodes)
      /\ Len(rows[j].done) \in Nat /\ Len(rec[j].done) \in Nat
  BY <1>1, <1>2 DEF Row, Run
<1>5. Len(rows[j].done) <= Len(rec[j].done)
  BY <1>3 DEF RowsGrow
<1>6. Recorded(rows[j], rec[j], ckpt[j]) /\ InStep(run[w], rows[j], rec[j])
  BY <1>2 DEF Whole, Noted, Level
<1>7. Len(rec[j].done) <= NumNodes
  BY <1>4, <1>6, InOrderFits DEF Recorded
<1>8. run[w].pc \in {"yield", "node", "deliver"} => rec[j].status = "running"
  BY <1>1, <1>3 DEF FinalInv, RecordOpen
<1> QED
  BY <1>1, <1>2, <1>3, <1>4, <1>5, <1>6, <1>7, <1>8 DEF Own

(* A write of the record reaches the row, or raises before the row.        *)
LEMMA OwnWrites ==
  ASSUME TypeInv, NEW w \in Workers, Own(w), NEW new \in Row
  PROVE  LET j == run[w].job
         IN  /\ Write(w, new) => rows'[j] = new /\ rec'[j] = new
             /\ WriteRaises(w, new) => rows'[j] = rows[j] /\ rec'[j] = new
BY DEF TypeInv, TypeOK, Own, Write, WriteRaises, Mutate

(* What each of its steps comes to.                                        *)
OwnStep(w) ==
  LET j == run[w].job
  IN  /\ Recorded(rows'[j], rec'[j], ckpt'[j])
      /\ run'[w].pc # "idle" => ~run'[w].split /\ InStep(run'[w], rows'[j], rec'[j])
      /\ source'[j] = source[j] \/ rows'[j].status \in Terminal

LEMMA OwnLookup ==
  ASSUME TypeInv, NEW w \in Workers, Own(w), Lookup(w)
  PROVE  OwnStep(w)
<1> DEFINE j == run[w].job
<1>1. UNCHANGED <<rows, rec, ckpt, source>> /\ run' = [run EXCEPT ![w].pc = "mark"]
      /\ run[w].pc = "lookup"
  BY DEF Own, Lookup, Rehydrate, Goto, At, durable, records
<1>2. /\ run'[w].pc = "mark" /\ run'[w].resume = run[w].resume /\ run'[w].split = run[w].split
  BY <1>1 DEF TypeInv, TypeOK, Run
<1> QED
  BY <1>1, <1>2 DEF Own, OwnStep, InStep

LEMMA OwnMark ==
  ASSUME TypeInv, NEW w \in Workers, Own(w),
         MarkRunning(w) \/ MarkRaises(w) \/ CredentialsRaise(w)
  PROVE  OwnStep(w)
<1> DEFINE j == run[w].job
           n == Len(rec[j].done)
<1> USE DEF Own, At
<1>1. PICK new \in Row : new = [rec[j] EXCEPT !.status = "running"]
  BY NewRowType
<1>2. new.done = rec[j].done /\ new.status = "running"
  BY <1>1 DEF Row
<1>3. UNCHANGED <<ckpt, source>> /\ run[w].pc = "mark" /\ run \in [Workers -> Run]
  BY DEF MarkRunning, MarkRaises, CredentialsRaise, TypeInv, TypeOK
<1>4. rec'[j] = new /\ (rows'[j] = rows[j] \/ rows'[j] = new)
  BY <1>1, OwnWrites DEF MarkRunning, MarkRaises, CredentialsRaise
<1>5. Recorded(rows'[j], rec'[j], ckpt'[j])
  <2>1. rows[j].done = rec[j].done
    BY <1>3 DEF InStep
  <2> QED
    BY <1>2, <1>3, <1>4, <2>1 DEF Recorded
<1>6. CASE MarkRunning(w)
  <2>1. rows'[j] = new
    BY <1>1, <1>6, OwnWrites DEF MarkRunning
  <2>2. /\ run'[w].pc = IF run[w].resume /\ ckpt[j] = NoCkpt THEN "fail" ELSE "yield"
        /\ run'[w].seen = IF run[w].resume THEN AlreadyCompleted(j) ELSE {}
        /\ run'[w].g = IF run[w].resume /\ ckpt[j] # NoCkpt THEN ckpt[j] ELSE GraphInit
        /\ run'[w].split = run[w].split
    BY <1>3, <1>6 DEF MarkRunning, StartRun, Run
  <2>3. AlreadyCompleted(j) = 1 .. n
    BY InOrderFits DEF AlreadyCompleted, Recorded
  <2>4. ~run[w].resume => n = 0
    BY <1>3, InOrderNone DEF InStep
  <2>5. ckpt[j].pos <= n + 1
    BY <1>3 DEF Recorded, InStep
  <2>6. run'[w].seen = 1 .. n
    BY <2>2, <2>3, <2>4
  <2>7. run'[w].g.pos <= n + 1
    BY <2>2, <2>4, <2>5 DEF GraphInit
  <2>8. InStep(run'[w], new, new)
    BY <1>2, <2>2, <2>6, <2>7 DEF InStep
  <2> QED
    BY <1>3, <1>4, <1>5, <2>1, <2>2, <2>8 DEF OwnStep
<1>7. CASE MarkRaises(w) \/ CredentialsRaise(w)
  <2>1. run'[w].pc = "dead" /\ run'[w].split = run[w].split
    BY <1>3, <1>7 DEF MarkRaises, CredentialsRaise, Goto, Run
  <2> QED
    BY <1>3, <1>5, <2>1 DEF OwnStep, InStep
<1> QED
  BY <1>6, <1>7

LEMMA OwnYield ==
  ASSUME TypeInv, NEW w \in Workers, Own(w), Yield(w) \/ YieldRaises(w)
  PROVE  OwnStep(w)
<1> DEFINE j == run[w].job
           n == Len(rec[j].done)
           p == run[w].g.pos
<1> USE DEF Own, At
<1>1. /\ UNCHANGED <<ckpt, source>> /\ run[w].pc = "yield" /\ run \in [Workers -> Run]
      /\ run'[w].pc \in {"deliver", "node", "fail"} /\ run'[w].split = run[w].split
      /\ run'[w].g = run[w].g
  BY DEF Yield, YieldRaises, TypeInv, TypeOK, Goto, Run
<1>2. /\ rec[j].done = rows[j].done /\ run[w].seen = 1 .. n /\ p <= n + 1 /\ p \in Nat
      /\ InOrder(rec[j].done) /\ ckpt[j].pos <= n + 1 /\ ckpt[j].pos \in Int
      /\ rec[j].status = "running" /\ n \in Nat
  <2>1. InStep(run[w], rows[j], rec[j]) /\ Recorded(rows[j], rec[j], ckpt[j]) /\ n \in Nat
        /\ rec[j].status = "running" /\ run[w].g \in GraphState /\ ckpt[j] \in Checkpoints
    BY <1>1
  <2>2. /\ rec[j].done = rows[j].done /\ run[w].seen = 1 .. n /\ p <= n + 1
    BY <1>1, <2>1 DEF InStep
  <2>3. InOrder(rec[j].done) /\ ckpt[j].pos <= n + 1
    BY <2>1, <2>2 DEF Recorded
  <2>4. p \in Nat /\ ckpt[j].pos \in Int
    BY <2>1, BoundsAssumption DEF GraphState, Checkpoints
  <2> QED
    BY <2>1, <2>2, <2>3, <2>4
<1>3. CASE Yield(w) /\ ~IsNew(w)
  <2>1. UNCHANGED <<rows, rec>> /\ run'[w].seen = run[w].seen
    BY <1>1, <1>3 DEF Yield, Run
  <2>2. p <= n
    <3>1. p \notin Nodes \/ p \in 1 .. n
      BY <1>2, <1>3 DEF IsNew
    <3>2. p \in 0 .. NumNodes /\ NumNodes \in Nat /\ n \in Nat
      BY <1>2, BoundsAssumption DEF GraphState
    <3> QED
      BY <3>1, <3>2 DEF Nodes
  <2>3. run'[w].pc # "fail"
    BY <1>1, <1>3 DEF Yield, Run
  <2>4. InStep(run'[w], rows'[j], rec'[j])
    BY <1>1, <1>2, <2>1, <2>2, <2>3 DEF InStep
  <2> QED
    BY <1>1, <2>1, <2>4 DEF OwnStep
<1>4. CASE IsNew(w)
  <2>1. p \in Nodes /\ p = n + 1
    <3>1. p \in Nodes /\ p \notin 1 .. n
      BY <1>2, <1>4 DEF IsNew
    <3> QED
      BY <1>2, <3>1 DEF Nodes
  <2>2. PICK new \in Row : new = Progressed(w)
    BY <1>4, NewRowType
  <2>3. new.done = Append(rec[j].done, p) /\ new.status = rec[j].status
    BY <2>2 DEF Progressed, Row
  <2>4. InOrder(new.done) /\ Len(new.done) = n + 1
    BY <1>2, <2>1, <2>3, InOrderNext
  <2>5. rec'[j] = new /\ (rows'[j] = rows[j] \/ rows'[j] = new)
    BY <1>4, <2>2, OwnWrites DEF Yield, YieldRaises
  <2>6. Recorded(rows'[j], rec'[j], ckpt'[j])
    <3>1. Recorded(rows[j], new, ckpt[j])
      BY <2>4 DEF Recorded
    <3>2. ckpt[j].pos <= Len(new.done) + 1
      BY <1>2, <2>4
    <3>3. Recorded(new, new, ckpt[j])
      BY <1>2, <2>3, <2>4, <3>2 DEF Recorded
    <3> QED
      BY <1>1, <2>5, <3>1, <3>3
  <2>7. CASE Yield(w)
    <3>1. rows'[j] = new
      BY <1>4, <2>2, <2>7, OwnWrites DEF Yield
    <3>2. run'[w].seen = run[w].seen \cup {p}
      BY <1>1, <1>4, <2>7 DEF Yield, Run
    <3>3. run'[w].seen = 1 .. (n + 1)
      <4>1. \A m \in Nat : 1 .. (m + 1) = 1 .. m \cup {m + 1}
        OBVIOUS
      <4> QED
        BY <1>2, <2>1, <3>2, <4>1
    <3>4. p <= Len(new.done)
      BY <1>2, <2>1, <2>4
    <3>5. run'[w].pc # "fail"
      BY <1>1, <2>7 DEF Yield, Run
    <3>6. InStep(run'[w], new, new)
      BY <1>1, <2>4, <3>3, <3>4, <3>5 DEF InStep
    <3> QED
      BY <1>1, <2>5, <2>6, <3>1, <3>6 DEF OwnStep
  <2>8. CASE YieldRaises(w)
    <3>1. run'[w].pc = "fail"
      BY <1>1, <2>8 DEF YieldRaises, Goto, Run
    <3> QED
      BY <1>1, <2>6, <3>1 DEF OwnStep, InStep
  <2> QED
    BY <2>7, <2>8
<1> QED
  BY <1>3, <1>4 DEF YieldRaises

LEMMA OwnRun ==
  ASSUME TypeInv, NEW w \in Workers, Own(w), RunNode(w) \/ Checkpoint(w)
  PROVE  OwnStep(w)
<1> DEFINE j == run[w].job
           n == Len(rec[j].done)
           p == run[w].g.pos
<1> USE DEF Own, At
<1>1. /\ UNCHANGED <<rows, rec, source>>
      /\ run \in [Workers -> Run] /\ ckpt \in [Jobs -> Checkpoints]
      /\ run[w].pc \in {"yield", "node", "deliver"}
  BY DEF RunNode, Checkpoint, TypeInv, TypeOK, durable, records
<1>2. /\ Recorded(rows[j], rec[j], ckpt[j]) /\ InStep(run[w], rows[j], rec[j]) /\ n \in Nat
      /\ run[w].g \in GraphState
  OBVIOUS
<1>3. p \in Nat
  BY <1>2, BoundsAssumption DEF GraphState
<1>4. CASE RunNode(w)
  <2>1. PICK o : run' = [run EXCEPT ![w].pc = "yield", ![w].g = [pos |-> p + 1, out |-> o]]
    BY <1>4 DEF RunNode
  <2>2. /\ run'[w].pc = "yield" /\ run'[w].g.pos = p + 1 /\ run'[w].split = run[w].split
        /\ run'[w].seen = run[w].seen
    BY <1>1, <2>1 DEF Run
  <2>3. run[w].pc = "node" /\ ckpt' = ckpt
    BY <1>4 DEF RunNode, durable
  <2>4. p <= n /\ run[w].seen = 1 .. n /\ rec[j].done = rows[j].done
    BY <1>2, <2>3 DEF InStep
  <2>5. p + 1 <= n + 1
    BY <1>2, <1>3, <2>4
  <2>6. InStep(run'[w], rows[j], rec[j])
    BY <2>2, <2>4, <2>5 DEF InStep
  <2> QED
    BY <1>1, <1>2, <2>2, <2>3, <2>6 DEF OwnStep
<1>5. CASE Checkpoint(w)
  <2>1. PICK q \in run[w].saved + 1 .. p :
       /\ run' = [run EXCEPT ![w].saved = q]
       /\ ckpt' = [ckpt EXCEPT ![j] = IF q = p THEN run[w].g ELSE [pos |-> q, out |-> "pending"]]
    BY <1>5 DEF Checkpoint
  <2>2. /\ run'[w].pc = run[w].pc /\ run'[w].g = run[w].g /\ run'[w].split = run[w].split
        /\ run'[w].seen = run[w].seen
    BY <1>1, <2>1 DEF Run
  <2>3. ckpt'[j].pos = q
    BY <1>1, <2>1
  <2>4. rec[j].done = rows[j].done /\ p <= n + 1
    <3>1. rec[j].done = rows[j].done /\ (p <= n \/ p <= n + 1)
      BY <1>1, <1>2 DEF InStep
    <3> QED
      BY <1>2, <1>3, <3>1
  <2>5. q <= n + 1
    <3>1. run[w].saved \in Int
      BY BoundsAssumption DEF Run
    <3>2. q \in Int /\ q <= p
      BY <1>3, <2>1, <3>1
    <3> QED
      BY <1>2, <1>3, <2>4, <3>2
  <2>6. Recorded(rows[j], rec[j], ckpt'[j])
    BY <1>2, <2>3, <2>4, <2>5 DEF Recorded
  <2>7. InStep(run'[w], rows[j], rec[j])
    BY <1>1, <1>2, <2>2 DEF InStep
  <2> QED
    BY <1>1, <2>2, <2>6, <2>7 DEF OwnStep
<1> QED
  BY <1>4, <1>5

(* A stage, a delivery or the final event that raises, and the two that do *)
(* not: only the program counter moves.                                    *)
LEMMA OwnMoves ==
  ASSUME TypeInv, NEW w \in Workers, Own(w),
         \/ NodeRaises(w) \/ Deliver(w) \/ DeliverRaises(w)
         \/ Publish(w) \/ PublishRaises(w)
  PROVE  OwnStep(w)
<1> DEFINE j == run[w].job
<1> USE DEF Own, At
<1>1. UNCHANGED <<rows, rec, ckpt, source>> /\ run \in [Workers -> Run]
  BY DEF NodeRaises, Deliver, DeliverRaises, Publish, PublishRaises, durable, records, TypeInv,
         TypeOK
<1>2. \/ run'[w].pc = "idle"
      \/ run'[w].pc = "fail" /\ run'[w].split = run[w].split
      \/ /\ run[w].pc = "deliver" /\ run'[w].pc = "finish"
         /\ run'[w].split = run[w].split /\ run'[w].g = run[w].g
  BY <1>1 DEF NodeRaises, Deliver, DeliverRaises, Publish, PublishRaises, Goto, Release, NoRun,
              Run
<1>3. run'[w].pc # "idle" => ~run'[w].split /\ InStep(run'[w], rows[j], rec[j])
  BY <1>2 DEF InStep
<1> QED
  BY <1>1, <1>3 DEF OwnStep

(* A run that has ended without an error has been through every stage.     *)
LEMMA OwnFinish ==
  ASSUME TypeInv, Ends, NEW w \in Workers, Own(w), Finish(w) \/ FinishRaises(w)
  PROVE  OwnStep(w)
<1> DEFINE j == run[w].job
           n == Len(rec[j].done)
<1> USE DEF Own, At
<1>1. run[w].pc = "finish" /\ ckpt' = ckpt /\ run \in [Workers -> Run]
      /\ run'[w].pc \in {"publish", "fail"} /\ run'[w].split = run[w].split
  BY DEF Finish, FinishRaises, TypeInv, TypeOK, Goto, Run
<1>2. PICK new \in Row : new = Completed(w)
  BY NewRowType
<1>3. /\ new.done = rec[j].done /\ new.status = "completed"
      /\ new.error = IF run[w].g.out = "ingest_error" THEN "ingest_error" ELSE "none"
  BY <1>2 DEF Completed, Row
<1>4. /\ Recorded(rows[j], rec[j], ckpt[j]) /\ rec[j].done = rows[j].done
      /\ run[w].g.pos <= n /\ n <= NumNodes /\ n \in Nat /\ run[w].g \in GraphState
  BY <1>1 DEF InStep
<1>5. new.error = "none" => n = NumNodes
  <2>1. SUFFICES ASSUME new.error = "none" PROVE n = NumNodes
    OBVIOUS
  <2>2. run[w].g.out # "ingest_error"
    BY <1>3, <2>1
  <2>3. run[w].g.out \in {"report", "no_report"}
    BY <1>1, <1>4, <2>2 DEF Ends, GraphDone, GraphState, Outcome
  <2>4. run[w].g.pos = NumNodes
    BY <2>3 DEF Ends, Ended
  <2> QED
    BY <1>4, <2>4, BoundsAssumption
<1>6. rec'[j] = new /\ (rows'[j] = rows[j] \/ rows'[j] = new)
  BY <1>2, OwnWrites DEF Finish, FinishRaises
<1>7. Recorded(rows'[j], rec'[j], ckpt'[j])
  BY <1>1, <1>3, <1>4, <1>5, <1>6 DEF Recorded
<1>8. CASE Finish(w)
  <2>1. rows'[j] = new
    BY <1>2, <1>8, OwnWrites DEF Finish
  <2>2. run'[w].pc = "publish"
    BY <1>1, <1>8 DEF Finish, Goto, Run
  <2>3. InStep(run'[w], new, new)
    BY <2>2 DEF InStep
  <2> QED
    BY <1>1, <1>3, <1>6, <1>7, <2>1, <2>3 DEF OwnStep, Terminal
<1>9. CASE FinishRaises(w)
  <2>1. run'[w].pc = "fail" /\ source' = source
    BY <1>1, <1>9 DEF FinishRaises, Goto, Run
  <2> QED
    BY <1>1, <1>7, <2>1 DEF OwnStep, InStep
<1> QED
  BY <1>8, <1>9

LEMMA OwnFail ==
  ASSUME TypeInv, NEW w \in Workers, Own(w), Fail(w) \/ FailRaises(w)
  PROVE  OwnStep(w)
<1> DEFINE j == run[w].job
<1> USE DEF Own, At
<1>1. ckpt' = ckpt /\ run \in [Workers -> Run] /\ ckpt[j].pos \in Int
  BY BoundsAssumption DEF Fail, FailRaises, TypeInv, TypeOK, Checkpoints
<1>2. PICK new \in Row : new = Failed(w)
  BY NewRowType
<1>3. new.done = rec[j].done /\ new.status = "failed"
  BY <1>2 DEF Failed, Row
<1>4. Recorded(rows[j], rec[j], ckpt[j])
  OBVIOUS
<1>5. ckpt[j].pos <= Len(new.done) + 1
  <2>1. ckpt[j].pos <= Len(rows[j].done) + 1
    BY <1>4 DEF Recorded
  <2>2. Len(rows[j].done) <= Len(new.done) /\ Len(rows[j].done) \in Nat /\ Len(new.done) \in Nat
    BY <1>3
  <2> QED
    BY <1>1, <2>1, <2>2
<1>6. rec'[j] = new /\ (rows'[j] = rows[j] \/ rows'[j] = new)
  BY <1>2, OwnWrites DEF Fail, FailRaises
<1>7. Recorded(rows'[j], rec'[j], ckpt'[j])
  BY <1>1, <1>3, <1>4, <1>5, <1>6 DEF Recorded
<1>8. CASE Fail(w)
  <2>1. rows'[j] = new
    BY <1>2, <1>8, OwnWrites DEF Fail
  <2>2. run'[w].pc = "idle"
    BY <1>1, <1>8 DEF Fail, Release, NoRun
  <2> QED
    BY <1>3, <1>7, <2>1, <2>2 DEF OwnStep, Terminal
<1>9. CASE FailRaises(w)
  <2>1. run'[w].pc = "dead" /\ source' = source /\ run'[w].split = run[w].split
    BY <1>1, <1>9 DEF FailRaises, Goto, Run
  <2> QED
    BY <1>7, <2>1 DEF OwnStep, InStep
<1> QED
  BY <1>8, <1>9

LEMMA OwnTaken ==
  ASSUME TypeInv, Ends, NEW w \in Workers, Own(w), Busy(w)
  PROVE  OwnStep(w)
BY OwnLookup, OwnMark, OwnYield, OwnRun, OwnMoves, OwnFinish, OwnFail DEF Busy, WorkRaises

-----------------------------------------------------------------------------
(* Every step keeps a recent job whole *)

LEMMA BusyElsewhere ==
  ASSUME TypeInv, NEW w \in Workers, Busy(w), NEW j \in Jobs, j # run[w].job
  PROVE  ckpt'[j] = ckpt[j] /\ source'[j] = source[j]
<1> USE DEF durable, TypeInv, TypeOK, MayDropSource
<1>1. CASE Lookup(w) \/ RunNode(w) \/ NodeRaises(w) \/ Deliver(w) \/ Publish(w)
  BY <1>1 DEF Lookup, RunNode, NodeRaises, Deliver, Publish
<1>2. CASE MarkRunning(w) \/ Yield(w) \/ Finish(w) \/ Fail(w)
  BY <1>2 DEF MarkRunning, Yield, Finish, Fail
<1>3. CASE Checkpoint(w)
  BY <1>3 DEF Checkpoint
<1>4. CASE WorkRaises(w)
  BY <1>4
  DEF WorkRaises, MarkRaises, CredentialsRaise, YieldRaises, DeliverRaises, FinishRaises,
      PublishRaises, FailRaises
<1> QED
  BY <1>1, <1>2, <1>3, <1>4 DEF Busy

LEMMA WholeBusy ==
  ASSUME PruneInv, RowsGrow, Ends, NEW w \in Workers, Busy(w), NEW j \in Jobs, Whole(j)
  PROVE  Whole(j)'
<1>0. /\ FinalInv /\ TypeInv /\ SingleOwner
  BY DEF PruneInv, FinalInv, OwnerInv
<1>1. /\ NoNewHolder /\ run[w].pc # "idle" /\ run[w].job \in Jobs
      /\ UNCHANGED <<queue, api, recq, server, stamp>>
      /\ \A v \in Workers \ {w} : run'[v] = run[v]
  BY <1>0, BusyEffect, BusyDelivers
<1>2. CASE j # run[w].job
  <2>1. /\ UNCHANGED <<rows[j], rec[j]>>
        /\ j \in live \cap attached => j \in live' \cap attached'
    BY <1>0, <1>2, BusyOthers
  <2>2. UNCHANGED <<ckpt[j], source[j]>>
    BY <1>0, <1>2, BusyElsewhere
  <2>3. \A v \in Workers : Holds(v, j)' => Holds(v, j) /\ run'[v] = run[v]
    BY <1>1, <1>2 DEF NoNewHolder, Holds
  <2>4. Apart(j)
    BY <1>1, <2>1, <2>2, <2>3 DEF Apart, Adding
  <2> QED
    BY <2>4, WholeApart
<1>3. CASE j = run[w].job
  <2>1. Own(w)
    BY <1>3, OwnHolds
  <2>2. OwnStep(w)
    BY <1>0, <2>1, OwnTaken
  <2>3. /\ ~InQueue(j) /\ ~Adding(j) /\ \A v \in Workers \ {w} : ~Holds(v, j)
    BY <1>0, <1>1, <1>3 DEF SingleOwner, Holds
  <2>4. /\ ~InQueue(j)' /\ ~Adding(j)' /\ \A v \in Workers \ {w} : ~Holds(v, j)'
    BY <1>1, <2>3 DEF InQueue, Adding, Holds
  <2>5. j \in live' \cap attached'
    BY <1>0, <1>3, <2>1, BusyStored DEF Own
  <2>6. Spared(j)'
    BY <1>1, <2>2, <2>4, <2>5 DEF Spared, Whole, Holds, OwnStep
  <2>7. Noted(j)'
    BY <1>3, <2>2 DEF Noted, OwnStep
  <2>8. Level(j)'
    BY <1>3, <2>2, <2>4 DEF Level, OwnStep, Holds, InQueue
  <2>9. Sourced(j)'
    <3>1. rows[j].status \in Terminal => rows'[j].status \in Terminal
      BY <1>0, <1>3, BusyOwnRow DEF OwnRow
    <3> QED
      BY <1>1, <1>3, <2>2, <3>1 DEF Sourced, Whole, OwnStep
  <2> QED
    BY <2>6, <2>7, <2>8, <2>9 DEF Whole
<1> QED
  BY <1>2, <1>3

LEMMA WholeDequeue ==
  ASSUME PruneInv, NEW w \in Workers, Dequeue(w), NEW j \in Jobs, Whole(j)
  PROVE  Whole(j)'
<1>0. /\ TypeInv /\ queue \in Seq(Item) /\ queue # << >> /\ run \in [Workers -> Run]
      /\ SingleOwner
  BY DEF PruneInv, FinalInv, OwnerInv, TypeInv, TypeOK, Dequeue
<1>1. /\ \A v \in Workers \ {w} : run'[v] = run[v]
      /\ run'[w].job = queue[1].job /\ run'[w].pc = "lookup" /\ run[w].pc = "idle"
      /\ run'[w].resume = queue[1].resume /\ ~run'[w].split
      /\ queue' = Tail(queue)
      /\ UNCHANGED <<durable, records, api, process, counters>>
  BY <1>0, TailItem DEF Dequeue, NoRun, At
<1>2. UNCHANGED <<rows, rec, ckpt, source, stamp, live, attached, api>>
  BY <1>1 DEF durable, records
<1>3. /\ DOMAIN queue = 1 .. Len(queue) /\ Len(queue) \in Nat \ {0} /\ 1 \in DOMAIN queue
      /\ DOMAIN queue' = 1 .. Len(queue) - 1
      /\ \A i \in 1 .. Len(queue) - 1 : queue'[i] = queue[i + 1]
  BY <1>0, <1>1, TailItem
<1>4. CASE j # queue[1].job
  <2>1. \A v \in Workers : Holds(v, j)' => Holds(v, j) /\ run'[v] = run[v]
    BY <1>1, <1>4 DEF Holds
  <2>2. \A i \in DOMAIN queue' : \E k \in DOMAIN queue : queue[k] = queue'[i]
    <3>1. \A i \in DOMAIN queue' : i + 1 \in DOMAIN queue /\ queue[i + 1] = queue'[i]
      BY <1>3
    <3> QED
      BY <3>1
  <2>3. Apart(j)
    BY <1>2, <2>1, <2>2 DEF Apart, Adding
  <2> QED
    BY <2>3, WholeApart
<1>5. CASE j = queue[1].job
  <2>1. InQueue(j) /\ ~Adding(j) /\ \A v \in Workers : ~Holds(v, j)
    BY <1>0, <1>3, <1>5 DEF InQueue, SingleOwner
  <2>2. ~InQueue(j)'
    <3>1. \A i \in DOMAIN queue' : i + 1 \in DOMAIN queue /\ queue[i + 1] = queue'[i] /\ i + 1 # 1
      BY <1>3
    <3> QED
      BY <1>0, <1>3, <1>5, <3>1 DEF InQueue, SingleOwner
  <2>3. ~Adding(j)' /\ \A v \in Workers \ {w} : ~Holds(v, j)'
    BY <1>1, <2>1 DEF Adding, Holds
  <2>4. j \in live \cap attached /\ j \notin api.victims \cup api.todo
    BY <2>1 DEF Whole, Spared, Owned
  <2>5. Due(queue[1].resume, rows[j], rec[j])
    BY <1>3, <1>5 DEF Whole, Level
  <2>6. Spared(j)'
    BY <1>1, <1>2, <2>3, <2>4 DEF Spared, Holds
  <2>7. InStep(run'[w], rows[j], rec[j])
    BY <1>1, <2>5 DEF InStep, Due
  <2>8. Level(j)'
    BY <1>2, <2>2, <2>3, <2>7 DEF Level, InQueue
  <2>9. Noted(j)' /\ Sourced(j)'
    BY <1>2 DEF Whole, Noted, Sourced
  <2> QED
    BY <2>6, <2>8, <2>9 DEF Whole
<1> QED
  BY <1>4, <1>5

LEMMA WholeSubmit ==
  ASSUME PruneInv, RowsGrow, NEW k \in Jobs, Submit(k), NEW j \in Jobs, Whole(j)
  PROVE  Whole(j)'
<1>0. /\ TypeInv /\ rec \in [Jobs -> Row] /\ source \in [Jobs -> BOOLEAN]
      /\ stamp \in [Jobs -> Nat] /\ rows \in [Jobs -> Row]
  BY DEF PruneInv, FinalInv, OwnerInv, TypeInv, TypeOK
<1>1. /\ UNCHANGED <<rows, ckpt, queue, run>> /\ stamp[k] = 0
      /\ rec' = [rec EXCEPT ![k] = Queued] /\ source' = [source EXCEPT ![k] = TRUE]
      /\ live' = live \cup {k} /\ attached' = attached \cup {k}
      /\ api'.job = k /\ api'.victims = {} /\ api'.todo = {}
      /\ \A m \in Jobs \ {k} : stamp'[m] = stamp[m]
  BY <1>0 DEF Submit, NoApi
<1>2. CASE j # k
  <2>1. \A w \in Workers : Holds(w, j)' => Holds(w, j) /\ run'[w] = run[w]
    BY <1>1 DEF Holds
  <2>2. Apart(j)
    BY <1>0, <1>1, <1>2, <2>1 DEF Apart, Adding
  <2> QED
    BY <2>2, WholeApart
<1>3. CASE j = k
  <2>1. /\ rows[j].status = "absent" /\ ~InQueue(j) /\ \A w \in Workers : ~Holds(w, j)
    BY <1>1, <1>3 DEF PruneInv, FinalInv, OwnerInv, Stamped
  <2>2. ~InQueue(j)' /\ \A w \in Workers : ~Holds(w, j)'
    BY <1>1, <2>1 DEF InQueue, Holds
  <2>3. rows'[j].done = << >> /\ rec'[j].done = << >> /\ rows'[j] = rows[j] /\ source'[j]
    BY <1>0, <1>1, <1>3, <2>1 DEF RowsGrow, Queued, NoRow
  <2>4. Noted(j)'
    BY <1>1, <2>3, InOrderNone DEF Whole, Noted, Recorded
  <2>5. Spared(j)'
    BY <1>1, <1>3, <2>2 DEF Spared
  <2>6. Level(j)'
    BY <2>2, <2>3 DEF Level, InQueue
  <2>7. Sourced(j)'
    BY <2>3 DEF Sourced
  <2> QED
    BY <2>4, <2>5, <2>6, <2>7 DEF Whole
<1> QED
  BY <1>2, <1>3

LEMMA WholeGetJob ==
  ASSUME PruneInv, NEW k \in Jobs, GetJob(k), NEW j \in Jobs, Whole(j)
  PROVE  Whole(j)'
<1>0. TypeInv /\ rec \in [Jobs -> Row] /\ run \in [Workers -> Run]
  BY DEF PruneInv, FinalInv, OwnerInv, TypeInv, TypeOK
<1>1. /\ UNCHANGED <<rows, ckpt, stamp, source, queue, api>> /\ k \in Stored \ live
      /\ rec' = [rec EXCEPT ![k] = rows[k]]
      /\ live' = live \cup {k} /\ attached' = attached \cup {k}
  BY DEF GetJob, Rehydrate, durable
<1>2. \A w \in Workers : run'[w].pc = run[w].pc /\ run'[w].job = run[w].job
  BY <1>0, GetJobRuns
<1>3. CASE j # k
  <2>1. ASSUME NEW w \in Workers, Holds(w, j)' PROVE Holds(w, j) /\ run'[w] = run[w]
    <3>1. Holds(w, j)
      BY <1>2, <2>1 DEF Holds
    <3>2. run[w].job # k /\ run[w] \in Run
      BY <1>0, <1>3, <3>1 DEF Holds
    <3>3. run'[w] = [run[w] EXCEPT !.split =
                       @ \/ (run[w].pc \notin {"idle", "lookup"} /\ run[w].job = k)]
      BY DEF GetJob
    <3>4. PICK b \in BOOLEAN : b = run[w].split
      BY <3>2 DEF Run
    <3>5. run'[w] = [run[w] EXCEPT !.split = b]
      BY <3>2, <3>3, <3>4
    <3> QED
      BY <3>1, <3>2, <3>4, <3>5 DEF Run
  <2>2. Apart(j)
    BY <1>0, <1>1, <1>3, <2>1 DEF Apart, Adding
  <2> QED
    BY <2>2, WholeApart
<1>4. CASE j = k
  <2>1. ~InQueue(j) /\ ~Adding(j) /\ \A w \in Workers : ~Holds(w, j)
    BY <1>1, <1>4 DEF Whole, Spared, Owned
  <2>2. ~InQueue(j)' /\ ~Adding(j)' /\ \A w \in Workers : ~Holds(w, j)'
    BY <1>1, <1>2, <2>1 DEF InQueue, Adding, Holds
  <2>3. Spared(j)' /\ Level(j)'
    BY <1>1, <2>2 DEF Whole, Spared, Level, Owned, InQueue
  <2>4. rec'[j] = rows[j]
    BY <1>0, <1>1, <1>4
  <2>5. Noted(j)' /\ Sourced(j)'
    BY <1>1, <2>4 DEF Whole, Noted, Sourced, Recorded
  <2> QED
    BY <2>3, <2>5 DEF Whole
<1> QED
  BY <1>3, <1>4

LEMMA WholeAdd ==
  ASSUME PruneInv, RowsGrow, Add \/ AddRaises, NEW j \in Jobs, Whole(j), Recent(j)
  PROVE  Whole(j)'
<1>0. /\ TypeInv /\ rows \in [Jobs -> Row] /\ rec \in [Jobs -> Row] /\ queue \in Seq(Item)
      /\ ckpt \in [Jobs -> Checkpoints] /\ SingleOwner
      /\ api \in [pc : ApiPC, job : Jobs \cup {NoJob}, victims : SUBSET Jobs, todo : SUBSET Jobs]
  BY DEF PruneInv, FinalInv, OwnerInv, TypeInv, TypeOK
<1> USE DEF durable, records
<1>1. j \notin api.victims \cup api.todo
  BY DEF Whole, Spared
<1>2. CASE FirstPrune \/ SecondPrune
  <2>1. j \notin Beyond(RetentionMax)
    BY RecentStays
  <2>2. /\ UNCHANGED <<rec, ckpt, source, stamp, live, attached, queue, run>>
        /\ rows'[j] = rows[j] /\ api.pc # "idle" /\ api'.job = api.job
        /\ api'.victims \subseteq api.victims \cup Beyond(RetentionMax) /\ api'.todo = api.todo
    BY <1>0, <1>2, <2>1 DEF FirstPrune, SecondPrune
  <2>3. Apart(j)
    BY <2>1, <2>2 DEF Apart, Adding, Holds
  <2> QED
    BY <2>3, WholeApart
<1>3. CASE Evict
  <2>1. /\ UNCHANGED <<rows, rec, ckpt, source, stamp, attached, queue, run>>
        /\ live' = live \ api.victims /\ api.pc # "idle" /\ api'.job = api.job
        /\ api'.victims = api.victims /\ api'.todo \subseteq api.victims
    BY <1>0, <1>3 DEF Evict
  <2>2. Apart(j)
    BY <1>1, <2>1 DEF Apart, Adding, Holds
  <2> QED
    BY <2>2, WholeApart
<1>4. CASE Detach
  <2>1. PICK k \in api.todo : attached' = attached \ {k} /\ api' = [api EXCEPT !.todo = @ \ {k}]
    BY <1>4 DEF Detach
  <2>2. /\ UNCHANGED <<rows, rec, ckpt, source, stamp, live, queue, run>>
        /\ api.pc # "idle" /\ api'.job = api.job
        /\ api'.victims = api.victims /\ api'.todo \subseteq api.todo
    BY <1>0, <1>4, <2>1 DEF Detach
  <2>3. Apart(j)
    BY <1>1, <2>1, <2>2 DEF Apart, Adding, Holds
  <2> QED
    BY <2>3, WholeApart
<1>5. CASE DeleteThreads
  <2>1. /\ UNCHANGED <<rows, rec, source, stamp, live, attached, queue, run>>
        /\ ckpt'[j] = ckpt[j] /\ api.pc # "idle" /\ api'.job = api.job
        /\ api'.victims = {} /\ api'.todo = api.todo
    BY <1>0, <1>1, <1>5 DEF DeleteThreads
  <2>2. Apart(j)
    BY <1>1, <2>1 DEF Apart, Adding, Holds
  <2> QED
    BY <2>2, WholeApart
<1>6. CASE AddRaises
  <2>1. /\ UNCHANGED <<rows, rec, ckpt, source, stamp, live, attached, queue, run>>
        /\ api'.pc = "idle" /\ api'.victims = {} /\ api'.todo = {}
    BY <1>6 DEF AddRaises, NoApi
  <2>2. Apart(j)
    BY <2>1 DEF Apart, Adding, Holds
  <2> QED
    BY <2>2, WholeApart
<1>7. CASE PersistInitial
  <2> DEFINE k == api.job
  <2>1. /\ UNCHANGED <<ckpt, source, stamp, live, attached, queue, run>>
        /\ rows' = IF k \in attached THEN [rows EXCEPT ![k] = rec[k]] ELSE rows
        /\ rec' = [rec EXCEPT ![k] = rec[k]]
        /\ api.pc = "persist" /\ k \in Jobs /\ api'.job = k
        /\ api'.victims = api.victims /\ api'.todo = api.todo
    BY <1>0, <1>7 DEF PersistInitial, Mutate, TypeInv, Shape
  <2>2. rec' = rec
    BY <1>0, <2>1
  <2>3. CASE j # k
    <3>1. rows'[j] = rows[j]
      BY <1>0, <2>1, <2>3
    <3>2. Apart(j)
      BY <2>1, <2>2, <2>3, <3>1 DEF Apart, Adding, Holds
    <3> QED
      BY <3>2, WholeApart
  <2>4. CASE j = k
    <3>1. /\ Adding(j) /\ rec[j].done = << >> /\ rows[j].done = << >> /\ j \in live \cap attached
          /\ rec[j].status = "queued" /\ rows[j].status \notin Terminal
      BY <2>1, <2>4
      DEF Adding, Whole, Level, Spared, Owned, PruneInv, FinalInv, RecordOpen, Unfinished
    <3>2. rows'[j] = rec[j]
      BY <1>0, <2>1, <2>4, <3>1
    <3>3. ~InQueue(j) /\ \A w \in Workers : ~Holds(w, j)
      BY <1>0, <3>1 DEF SingleOwner
    <3>4. ~InQueue(j)' /\ \A w \in Workers : ~Holds(w, j)'
      BY <2>1, <3>3 DEF InQueue, Holds
    <3>5. Spared(j)'
      BY <1>1, <2>1, <3>1, <3>4 DEF Spared
    <3>6. Noted(j)'
      BY <2>1, <2>2, <3>1, <3>2 DEF Whole, Noted, Recorded
    <3>7. Level(j)'
      BY <2>2, <3>1, <3>2, <3>4 DEF Level, InQueue
    <3>8. Sourced(j)'
      BY <2>1, <3>1 DEF Whole, Sourced
    <3> QED
      BY <3>5, <3>6, <3>7, <3>8 DEF Whole
  <2> QED
    BY <2>3, <2>4
<1>8. CASE Enqueue
  <2> DEFINE k == api.job
             item == [job |-> k, resume |-> FALSE]
  <2>1. /\ UNCHANGED <<rows, rec, ckpt, source, stamp, live, attached, run>>
        /\ queue' = Append(queue, item) /\ api.pc = "submit" /\ k \in Jobs /\ item \in Item
        /\ api'.pc = "idle" /\ api'.victims = {} /\ api'.todo = {}
    BY <1>0, <1>8 DEF Enqueue, NoApi, TypeInv, Shape, Item
  <2>2. item.job = k /\ item.resume = FALSE
    OBVIOUS
  <2> HIDE DEF item
  <2>3. /\ DOMAIN queue = 1 .. Len(queue) /\ Len(queue) \in Nat
        /\ DOMAIN queue' = 1 .. Len(queue) + 1
        /\ \A i \in 1 .. Len(queue) : queue'[i] = queue[i]
        /\ queue'[Len(queue) + 1] = item
    BY <1>0, <2>1, AppendItem
  <2>4. \A i \in DOMAIN queue' :
         (i \in DOMAIN queue /\ queue'[i] = queue[i]) \/ queue'[i] = item
    BY <2>3
  <2>5. CASE j # k
    <3>1. \A i \in DOMAIN queue' : queue'[i].job = j => \E m \in DOMAIN queue : queue[m] = queue'[i]
      BY <2>2, <2>4, <2>5
    <3>2. Apart(j)
      BY <2>1, <3>1 DEF Apart, Adding, Holds
    <3> QED
      BY <3>2, WholeApart
  <2>6. CASE j = k
    <3>1. /\ Adding(j) /\ rec[j].done = << >> /\ rows[j].done = << >> /\ j \in live \cap attached
      BY <2>1, <2>6 DEF Adding, Whole, Level, Spared, Owned
    <3>2. ~InQueue(j) /\ \A w \in Workers : ~Holds(w, j)
      BY <1>0, <3>1 DEF SingleOwner
    <3>3. ~Adding(j)' /\ \A w \in Workers : ~Holds(w, j)'
      BY <2>1, <3>2 DEF Adding, Holds
    <3>4. Spared(j)'
      BY <2>1, <3>1, <3>3 DEF Spared
    <3>5. \A i \in DOMAIN queue' : queue'[i].job = j => Due(queue'[i].resume, rows[j], rec[j])
      BY <2>2, <2>4, <3>1 DEF Whole, Level, Due
    <3>6. Level(j)'
      BY <2>1, <3>3, <3>5 DEF Level
    <3>7. Noted(j)' /\ Sourced(j)'
      BY <2>1 DEF Whole, Noted, Sourced
    <3> QED
      BY <3>4, <3>6, <3>7 DEF Whole
  <2> QED
    BY <2>5, <2>6
<1> QED
  BY <1>2, <1>3, <1>4, <1>5, <1>6, <1>7, <1>8 DEF Add

(* Recovery hands out what the row says, or an empty record whose          *)
(* checkpoint, if there is one, is of the first stage at most.             *)
LEMMA WholeRecover ==
  ASSUME PruneInv, RowsGrow, NEW k \in Jobs, Recover(k), NEW j \in Jobs, Whole(j)
  PROVE  Whole(j)'
<1>0. /\ TypeInv /\ rows \in [Jobs -> Row] /\ rec \in [Jobs -> Row] /\ queue \in Seq(Item)
      /\ SingleOwner
  BY DEF PruneInv, FinalInv, OwnerInv, TypeInv, TypeOK
<1> DEFINE row == IF Resumable(k) THEN rows[k] ELSE Reset(k)
           item == [job |-> k, resume |-> Resumable(k)]
<1>1. /\ UNCHANGED <<ckpt, source, stamp, run, api>> /\ k \in recq
      /\ rec' = [rec EXCEPT ![k] = row] /\ rows' = [rows EXCEPT ![k] = row]
      /\ live' = live \cup {k} /\ attached' = attached \cup {k}
      /\ queue' = Append(queue, item) /\ item \in Item
  BY DEF Recover, IsNext, Item, Resumable
<1>2. item.job = k /\ item.resume = Resumable(k)
  OBVIOUS
<1> HIDE DEF item
<1>3. \A i \in DOMAIN queue' :
        (i \in DOMAIN queue /\ queue'[i] = queue[i]) \/ queue'[i] = item
  BY <1>0, <1>1, AppendItem
<1>4. CASE j # k
  <2>1. \A i \in DOMAIN queue' : queue'[i].job = j => \E m \in DOMAIN queue : queue[m] = queue'[i]
    BY <1>2, <1>3, <1>4
  <2>2. UNCHANGED <<rows[j], rec[j]>>
    BY <1>0, <1>1, <1>4
  <2>3. Apart(j)
    BY <1>1, <2>1, <2>2 DEF Apart, Adding, Holds
  <2> QED
    BY <2>3, WholeApart
<1>5. CASE j = k
  <2>1. /\ ~InQueue(j) /\ ~Adding(j) /\ (\A w \in Workers : ~Holds(w, j))
        /\ rows[j].status \notin Terminal
    BY <1>0, <1>1, <1>5 DEF SingleOwner, PruneInv, FinalInv, Unfinished
  <2>2. ~Adding(j)' /\ \A w \in Workers : ~Holds(w, j)'
    BY <1>1, <2>1 DEF Adding, Holds
  <2>3. rows'[j] = row /\ rec'[j] = row
    BY <1>0, <1>1, <1>5
  <2>4. Recorded(rows[j], rec[j], ckpt[j])
    BY DEF Whole, Noted
  <2>5. Recorded(row, row, ckpt[j]) /\ (~Resumable(k) => row.done = << >>)
    <3>1. CASE Resumable(k)
      BY <1>5, <2>4, <3>1 DEF Recorded
    <3>2. CASE ~Resumable(k)
      <4>1. Reset(k).done = << >> /\ Reset(k).status = "queued"
        BY <1>0, <1>5 DEF Reset, Row
      <4>2. ckpt[j].pos <= 1
        <5>1. CASE ckpt[j] = NoCkpt
          BY <5>1 DEF NoCkpt
        <5>2. CASE rows[j].status # "running"
          <6>1. rows[j].status \in {"absent", "queued"}
            BY <1>0, <2>1, <5>2 DEF Row, Status
          <6>2. rows[j].done = << >>
            BY <6>1 DEF RowsGrow
          <6> QED
            BY <2>4, <6>2, InOrderNone DEF Recorded
        <5> QED
          BY <1>5, <3>2, <5>1, <5>2 DEF Resumable
      <4> QED
        BY <3>2, <4>1, <4>2, InOrderNone DEF Recorded
    <3> QED
      BY <3>1, <3>2
  <2> HIDE DEF row
  <2>6. Noted(j)'
    BY <1>1, <2>3, <2>5 DEF Noted
  <2>7. Spared(j)'
    BY <1>1, <1>5, <2>2 DEF Whole, Spared
  <2>8. \A i \in DOMAIN queue' : queue'[i].job = j => Due(queue'[i].resume, row, row)
    <3>1. \A i \in DOMAIN queue : queue[i].job # j
      BY <2>1 DEF InQueue
    <3> QED
      BY <1>2, <1>3, <2>5, <3>1 DEF Due
  <2>9. Level(j)'
    BY <2>2, <2>3, <2>8 DEF Level
  <2>10. Sourced(j)'
    BY <1>1, <2>1 DEF Whole, Sourced
  <2> QED
    BY <2>6, <2>7, <2>9, <2>10 DEF Whole
<1> QED
  BY <1>4, <1>5

LEMMA WholeDie ==
  ASSUME Die, NEW j \in Jobs, Whole(j)
  PROVE  Whole(j)'
<1>1. /\ UNCHANGED <<rows, source, stamp>> /\ rec'[j] = NoRow /\ queue' = << >>
      /\ api'.pc = "idle" /\ api'.victims = {} /\ api'.todo = {}
      /\ \A w \in Workers : run'[w].pc = "idle"
      /\ ckpt'[j] = ckpt[j] \/ ckpt'[j] = NoCkpt
  BY DEF Die, NoRun, NoApi
<1>2. ~InQueue(j)' /\ ~Adding(j)' /\ \A w \in Workers : ~Holds(w, j)'
  BY <1>1 DEF InQueue, Adding, Holds
<1>3. Spared(j)' /\ Level(j)' /\ Sourced(j)'
  BY <1>1, <1>2 DEF Whole, Spared, Level, Sourced, Owned, InQueue
<1>4. Noted(j)'
  BY <1>1, InOrderNone DEF Whole, Noted, Recorded, NoRow, NoCkpt
<1> QED
  BY <1>3, <1>4 DEF Whole

LEMMA ExactNext == ExactInv /\ [Next]_vars => ExactInv'
<1> SUFFICES ASSUME ExactInv, [Next]_vars PROVE ExactInv'
  OBVIOUS
<1>1. PruneInv /\ RowsGrow /\ Ends /\ FinalInv /\ TypeInv
  BY DEF ExactInv, PruneInv, FinalInv, OwnerInv
<1>2. PruneInv' /\ RowsGrow' /\ Ends'
  BY <1>1, PruneNext, KeptNext, EndsNext
<1>3. ASSUME NEW j \in Jobs, Recent(j)' PROVE Whole(j)'
  <2>1. Recent(j) /\ Whole(j)
    BY <1>1, <1>3, RecentBack DEF ExactInv
  <2>2. ASSUME NEW w \in Workers, Busy(w) \/ Dequeue(w) PROVE Whole(j)'
    BY <1>1, <2>1, <2>2, WholeBusy, WholeDequeue
  <2>3. ASSUME NEW k \in Jobs, Submit(k) \/ GetJob(k) \/ Recover(k) PROVE Whole(j)'
    BY <1>1, <2>1, <2>3, WholeSubmit, WholeGetJob, WholeRecover
  <2>4. CASE Add \/ AddRaises
    BY <1>1, <2>1, <2>4, WholeAdd
  <2>5. CASE Crash \/ \E k \in Jobs : RecoverRaises(k)
    BY <2>1, <2>5, WholeDie DEF Crash, RecoverRaises
  <2>6. CASE Restart \/ Serve \/ UNCHANGED vars
    <3>1. UNCHANGED <<rows, rec, ckpt, source, stamp, live, attached, queue, run, api>>
      BY <2>6 DEF Restart, Serve, vars, durable, records
    <3>2. Apart(j)
      BY <3>1 DEF Apart, Adding, Holds
    <3> QED
      BY <2>1, <3>2, WholeApart
  <2> QED
    BY <2>2, <2>3, <2>4, <2>5, <2>6 DEF Next, Startup, Work, Busy
<1> QED
  BY <1>2, <1>3 DEF ExactInv

(* A job that is submitted is not among the later ones.                    *)
LEMMA AllRecent ==
  ASSUME PruneInv, Cardinality(Known) <= RetentionMax, NEW j \in Jobs
  PROVE  Recent(j)
<1>1. SUFFICES ASSUME stamp[j] # 0 PROVE ~(Cardinality(Later(j)) >= RetentionMax)
  BY DEF Recent
<1>2. stamp \in [Jobs -> Nat]
  BY DEF PruneInv, FinalInv, OwnerInv, TypeInv, TypeOK
<1>3. /\ Known \in SUBSET Jobs /\ j \in Known /\ j \notin Later(j)
      /\ Later(j) \in SUBSET Known
  BY <1>1, <1>2 DEF Known, Later
<1>4. PICK S \in SUBSET Known : S = Later(j) \cup {j}
  BY <1>3
<1>5. /\ IsFiniteSet(Later(j)) /\ Cardinality(Later(j)) \in Nat
      /\ Cardinality(S) \in Nat /\ Cardinality(Known) \in Nat
      /\ Cardinality(S) <= Cardinality(Known)
  BY <1>3, <1>4, SubsetCard
<1>6. Cardinality(S) = Cardinality(Later(j)) + 1
  BY <1>3, <1>4, <1>5, FS_AddElement
<1> QED
  BY <1>5, <1>6, BoundsAssumption

LEMMA SourceOfRecent ==
  ASSUME ExactInv, NEW j \in Nonterminal, Recent(j)
  PROVE  source[j]
<1>1. j \in Jobs /\ rows[j].status # "absent" /\ rows[j].status \notin Terminal
  BY DEF Nonterminal, Stored
<1>2. stamp[j] # 0
  BY <1>1 DEF ExactInv, PruneInv, FinalInv, OwnerInv, Stamped
<1> QED
  BY <1>1, <1>2 DEF ExactInv, Whole, Sourced

(* Whatever crashes, raising calls and re-runs a job goes through, as long *)
(* as fewer than RetentionMax jobs have been submitted after it its        *)
(* completed_nodes are the stages in order, without a duplicate or a gap,  *)
(* and all of them once it is completed without an error.                  *)
THEOREM RecentNodesExact == Spec => [](\A j \in Jobs : Recent(j) => NodesExact(j))
<1>1. ExactInv => \A j \in Jobs : Recent(j) => NodesExact(j)
  BY DEF ExactInv, Whole, Noted, Recorded, NodesExact
<1> QED
  BY ExactInit, ExactNext, <1>1, PTL DEF Spec

(* So they are for every job while no more jobs have been submitted than   *)
(* the cap retains.                                                        *)
THEOREM NodesAreExact ==
  Spec => [](Cardinality(Known) <= RetentionMax => CompletedNodesExact)
<1>1. ExactInv => (Cardinality(Known) <= RetentionMax => CompletedNodesExact)
  <2>1. SUFFICES ASSUME ExactInv, Cardinality(Known) <= RetentionMax, NEW j \in Jobs
                 PROVE  NodesExact(j)
    BY DEF CompletedNodesExact
  <2>2. Recent(j)
    BY <2>1, AllRecent DEF ExactInv
  <2> QED
    BY <2>1, <2>2 DEF ExactInv, Whole, Noted, Recorded, NodesExact
<1> QED
  BY ExactInit, ExactNext, <1>1, PTL DEF Spec

(* A job that may still be run again keeps its uploaded document, as long  *)
(* as fewer than RetentionMax jobs have been submitted after it.           *)
THEOREM RecentSourceKept == Spec => [](\A j \in Nonterminal : Recent(j) => source[j])
<1>1. ExactInv => \A j \in Nonterminal : Recent(j) => source[j]
  BY SourceOfRecent
<1> QED
  BY ExactInit, ExactNext, <1>1, PTL DEF Spec

(* So does every job while no more jobs have been submitted than the cap   *)
(* retains.                                                                *)
THEOREM SourcesAreKept ==
  Spec => [](Cardinality(Known) <= RetentionMax => SourceKept)
<1>1. ExactInv => (Cardinality(Known) <= RetentionMax => SourceKept)
  <2>1. SUFFICES ASSUME ExactInv, Cardinality(Known) <= RetentionMax, NEW j \in Nonterminal
                 PROVE  source[j]
    BY DEF SourceKept
  <2>2. j \in Jobs
    BY DEF Nonterminal, Stored
  <2>3. Recent(j)
    BY <2>1, <2>2, AllRecent DEF ExactInv
  <2> QED
    BY <2>1, <2>3, SourceOfRecent
<1> QED
  BY ExactInit, ExactNext, <1>1, PTL DEF Spec
=============================================================================
