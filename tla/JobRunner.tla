----------------------------- MODULE JobRunner -----------------------------
(***************************************************************************)
(* The life of an analysis job in the ContractSentinel backend:            *)
(*   - POST /api/analyze adds it to the JobRegistry (live dict plus the    *)
(*     durable jobs table), prunes the table to its retention cap and      *)
(*     queues it (api/routes.py, runner/registry.py, runner/store.py);     *)
(*   - a PipelineWorker thread dequeues it and streams the LangGraph       *)
(*     pipeline, recording the progress of every node write-through,       *)
(*     delivers the report and marks the job terminal (runner/worker.py,   *)
(*     runner/core.py);                                                    *)
(*   - the process may crash at any point; at the next start _recover      *)
(*     resumes the running jobs that have a checkpoint and re-runs the     *)
(*     others (api/main.py).                                               *)
(*                                                                         *)
(* One action is what a thread does between two points where another       *)
(* thread, or a crash, can get in: a record lock held, a store call, a     *)
(* queue operation.  The HTTP handlers and the recovery run on the event   *)
(* loop thread, so they never interleave with each other (api, server);    *)
(* the worker threads interleave with everything (run).                    *)
(***************************************************************************)
EXTENDS Integers, Sequences, FiniteSets

CONSTANTS
  Jobs,           (* job ids, in the role of fresh uuids                        *)
  NoJob,          (* the absence of a job                                       *)
  Workers,        (* the worker threads, RUNNER_WORKER_CONCURRENCY of them      *)
  NumNodes,       (* stages of the graph; the code has 7, all alike here        *)
  RetentionMax,   (* JOB_STORE_RETENTION_MAX                                    *)
  CkptDurable,    (* does the checkpoint file survive a crash? (ephemeral disk) *)
  DropSource,     (* Turso without UPLOAD_SOURCE_RETENTION_ENABLED              *)
  Faulty,         (* the services whose calls may raise                         *)
  MaxCrashes,     (* bound: crashes of the process                              *)
  MaxFaults       (* bound: calls that raise                                    *)

ASSUME JobsAssumption == NoJob \notin Jobs /\ IsFiniteSet(Jobs)
ASSUME BoundsAssumption ==
  /\ NumNodes \in Nat \ {0} /\ RetentionMax \in Nat \ {0}
  /\ MaxCrashes \in Nat /\ MaxFaults \in Nat
  /\ {CkptDurable, DropSource} \subseteq BOOLEAN
  /\ Faulty \subseteq {"jobs", "users", "blobs"}

Nodes    == 1 .. NumNodes
Terminal == {"completed", "failed"}
Status   == {"absent", "queued", "running"} \cup Terminal
Error    == {"none", "ingest_error", "runner_exception"}

(* The fields of a JobRow that the properties tell apart; a JobRecord has  *)
(* the same fields and a handle on the store (attached).                   *)
Row    == [status : Status, done : Seq(Nodes), report : BOOLEAN, error : Error]
NoRow  == [status |-> "absent", done |-> << >>, report |-> FALSE, error |-> "none"]
Queued == [NoRow EXCEPT !.status = "queued"]

(* The graph's state: the last node that ran and what the run came to.     *)
Outcome     == {"pending", "report", "no_report", "ingest_error"}
GraphState  == [pos : 0 .. NumNodes, out : Outcome]
GraphInit   == [pos |-> 0, out |-> "pending"]
Checkpoints == [pos : -1 .. NumNodes, out : Outcome]
NoCkpt      == [pos |-> -1, out |-> "pending"]

(* What the queue holds, and the local state of a worker thread: its       *)
(* program counter, its item, the seen set of run_pipeline, the state of   *)
(* its graph, the last checkpoint saved, and whether its record is split.  *)
Item == [job : Jobs, resume : BOOLEAN]

WorkerPC == {"idle", "lookup", "mark", "yield", "node", "deliver", "finish",
             "publish", "fail", "dead"}

Run == [pc : WorkerPC, job : Jobs \cup {NoJob}, resume : BOOLEAN, seen : SUBSET Nodes,
        g : GraphState, saved : -1 .. NumNodes, split : BOOLEAN]

ApiPC    == {"idle", "persist", "prune", "evict", "detach", "threads", "submit"}

VARIABLES
  rows,       (* durable: the jobs table                                       *)
  stamp,      (* submitted_at of each job, 0 before its submission             *)
  ckpt,       (* durable: the latest checkpoint of each thread_id = job_id     *)
  source,     (* durable: is the uploaded document still stored?               *)
  delivered,  (* history: how often the report of a job was delivered          *)
  live,       (* the registry's live dict                                      *)
  rec,        (* the JobRecord objects                                         *)
  attached,   (* the records whose _store handle is set                        *)
  queue,      (* the worker's queue of (job_id, resume)                        *)
  run,        (* the worker threads' local state                               *)
  api,        (* the event-loop thread inside JobRegistry.add                  *)
  server,     (* the process: up, starting (recovering) or down                *)
  recq,       (* the rows _recover has still to handle                         *)
  crashes,    (* how often the process has ended so far                        *)
  faults      (* operations that have raised so far                            *)

durable  == <<rows, stamp, ckpt, source, delivered>>
records  == <<live, rec, attached>>
counters == <<crashes, faults>>
process  == <<server, recq>>
vars == <<rows, stamp, ckpt, source, delivered, live, rec, attached, queue, run,
          api, server, recq, crashes, faults>>

NoRun == [pc |-> "idle", job |-> NoJob, resume |-> FALSE, seen |-> {},
          g |-> GraphInit, saved |-> -1, split |-> FALSE]
NoApi == [pc |-> "idle", job |-> NoJob, victims |-> {}, todo |-> {}]

TypeOK ==
  /\ rows \in [Jobs -> Row]
  /\ stamp \in [Jobs -> Nat]
  /\ ckpt \in [Jobs -> Checkpoints]
  /\ source \in [Jobs -> BOOLEAN]
  /\ delivered \in [Jobs -> Nat]
  /\ live \subseteq Jobs
  /\ rec \in [Jobs -> Row]
  /\ attached \subseteq Jobs
  /\ queue \in Seq(Item)
  /\ run \in [Workers -> Run]
  /\ api \in [pc : ApiPC, job : Jobs \cup {NoJob}, victims : SUBSET Jobs,
              todo : SUBSET Jobs]
  /\ server \in {"up", "starting", "down"}
  /\ recq \subseteq Jobs
  /\ crashes \in Nat /\ faults \in Nat

Init ==
  /\ rows = [j \in Jobs |-> NoRow]
  /\ stamp = [j \in Jobs |-> 0]
  /\ ckpt = [j \in Jobs |-> NoCkpt]
  /\ source = [j \in Jobs |-> FALSE]
  /\ delivered = [j \in Jobs |-> 0]
  /\ live = {} /\ attached = {}
  /\ rec = [j \in Jobs |-> NoRow]
  /\ queue = << >>
  /\ run = [w \in Workers |-> NoRun]
  /\ api = NoApi
  /\ server = "up" /\ recq = {}
  /\ crashes = 0 /\ faults = 0

-----------------------------------------------------------------------------
(* Helpers *)

Stored == {j \in Jobs : rows[j].status # "absent"}

(* Mutants: recovery that reads only the running rows, or also the failed. *)
OnlyRunning == {j \in Stored : rows[j].status = "running"}
NotCompleted == {j \in Stored : rows[j].status # "completed"}

Nonterminal == {j \in Stored : rows[j].status \notin Terminal}

(* prune(keep_max): the rows beyond the newest keep_max by submitted_at.   *)
Beyond(keep) ==
  {j \in Stored : Cardinality({k \in Stored : stamp[k] > stamp[j]}) >= keep}

(* A call of the job store (and saver), the user store or the blob store   *)
(* raises.                                                                 *)
Raise(service) ==
  /\ service \in Faulty /\ faults < MaxFaults
  /\ faults' = faults + 1

(* A locked mutation of a record: memory changes first, then the row if    *)
(* the record still has its store.  It is one step: whoever reads the      *)
(* record takes its lock (to_status, report_path, ...), whoever reads      *)
(* the table sees only the row, and a crash in between loses the memory.   *)
Mutate(j, new) ==
  /\ rec' = [rec EXCEPT ![j] = new]
  /\ rows' = IF j \in attached THEN [rows EXCEPT ![j] = new] ELSE rows

(* A worker's mutation of the record it holds.  A split record is not the  *)
(* live one and has no store: nobody else sees it change.                  *)
Write(w, new) ==
  IF run[w].split THEN UNCHANGED <<rows, rec>> ELSE Mutate(run[w].job, new)

(* The same mutation when the upsert raises: memory has changed, the row   *)
(* has not.                                                                *)
WriteRaises(w, new) ==
  /\ Raise("jobs") /\ run[w].job \in attached /\ ~run[w].split
  /\ rec' = [rec EXCEPT ![run[w].job] = new]
  /\ UNCHANGED rows

(* JobRegistry.get(j): the live record, else one rebuilt from the row.     *)
Rehydrate(j) ==
  IF j \in live \/ j \notin Stored THEN UNCHANGED records
  ELSE /\ live' = live \cup {j}
       /\ rec' = [rec EXCEPT ![j] = rows[j]]
       /\ attached' = attached \cup {j}

GraphDone(g) == g.out # "pending"

At(w, pc) == run[w].pc = pc

Goto(w, pc) == run' = [run EXCEPT ![w].pc = pc]

Release(w) == run' = [run EXCEPT ![w] = NoRun]
-----------------------------------------------------------------------------
(* POST /api/analyze and JobRegistry.add, on the event-loop thread *)

(* The handler has stored the upload and built a JobRecord with a fresh id *)
(* and timestamp; add() puts it in the live dict with its store handle.    *)
(* (An upload that is refused before that leaves no trace.)                *)
Submit(j) ==
  /\ server = "up" /\ api.pc = "idle" /\ stamp[j] = 0
  /\ stamp' = [stamp EXCEPT ![j] = 1 + Cardinality({k \in Jobs : stamp[k] > 0})]
  /\ source' = [source EXCEPT ![j] = TRUE]
  /\ rec' = [rec EXCEPT ![j] = Queued]
  /\ live' = live \cup {j} /\ attached' = attached \cup {j}
  /\ api' = [NoApi EXCEPT !.pc = "persist", !.job = j]
  /\ UNCHANGED <<rows, ckpt, delivered, queue, run, process, counters>>

(* rec._persist_initial(): insert the queued row.                          *)
PersistInitial ==
  /\ api.pc = "persist"
  /\ Mutate(api.job, rec[api.job])
  /\ api' = [api EXCEPT !.pc = "prune"]
  /\ UNCHANGED <<stamp, ckpt, source, delivered, live, attached, queue, run,
                 process, counters>>

(* First prune of the table: the victims' rows are gone, their records are *)
(* still live.                                                             *)
FirstPrune ==
  /\ api.pc = "prune"
  /\ rows' = [j \in Jobs |-> IF j \in Beyond(RetentionMax) THEN NoRow ELSE rows[j]]
  /\ api' = [api EXCEPT !.pc = "evict", !.victims = Beyond(RetentionMax)]
  /\ UNCHANGED <<stamp, ckpt, source, delivered, records, queue, run, process,
                 counters>>

(* Pop the victims from the live dict under the registry lock.             *)
Evict ==
  /\ api.pc = "evict"
  /\ live' = live \ api.victims
  /\ api' = [api EXCEPT !.pc = "detach", !.todo = api.victims \cap live]
  /\ UNCHANGED <<durable, rec, attached, queue, run, process, counters>>

(* Mutant: the evicted record keeps its store handle.                      *)
NoDetach ==
  /\ api.pc = "detach"
  /\ \E j \in api.todo : api' = [api EXCEPT !.todo = @ \ {j}]
  /\ UNCHANGED <<durable, records, queue, run, process, counters>>

(* Null out the store handle of one evicted record, under its own lock.    *)
Detach ==
  /\ api.pc = "detach"
  /\ \E j \in api.todo :
       /\ attached' = attached \ {j}
       /\ api' = [api EXCEPT !.todo = @ \ {j}]
  /\ UNCHANGED <<durable, live, rec, queue, run, process, counters>>

(* Mutant: one prune only.                                                 *)
NoSecondPrune ==
  /\ api.pc = "detach" /\ api.todo = {}
  /\ api' = [api EXCEPT !.pc = "threads"]
  /\ UNCHANGED <<durable, records, queue, run, process, counters>>

(* Second prune: rows an in-flight worker re-inserted before its record    *)
(* was detached.                                                           *)
SecondPrune ==
  /\ api.pc = "detach" /\ api.todo = {}
  /\ rows' = [j \in Jobs |-> IF j \in Beyond(RetentionMax) THEN NoRow ELSE rows[j]]
  /\ api' = [api EXCEPT !.pc = "threads", !.victims = @ \cup Beyond(RetentionMax)]
  /\ UNCHANGED <<stamp, ckpt, source, delivered, records, queue, run, process,
                 counters>>

(* Delete the victims' checkpoint threads.                                 *)
DeleteThreads ==
  /\ api.pc = "threads"
  /\ ckpt' = [j \in Jobs |-> IF j \in api.victims THEN NoCkpt ELSE ckpt[j]]
  /\ api' = [api EXCEPT !.pc = "submit", !.victims = {}]
  /\ UNCHANGED <<rows, stamp, source, delivered, records, queue, run, process,
                 counters>>

(* worker.submit(job_id), after which the handler answers 202.             *)
Enqueue ==
  /\ api.pc = "submit"
  /\ queue' = Append(queue, [job |-> api.job, resume |-> FALSE])
  /\ api' = NoApi
  /\ UNCHANGED <<durable, records, run, process, counters>>

(* A store or saver call of add() raises: the handler answers 500 and      *)
(* undoes nothing.                                                         *)
AddRaises ==
  /\ api.pc \in {"persist", "prune", "detach", "threads"}
  /\ api.pc = "detach" => api.todo = {}
  /\ Raise("jobs")
  /\ api' = NoApi
  /\ UNCHANGED <<durable, records, queue, run, process, crashes>>

(* GET /api/jobs/{id} and its siblings: a job that is stored but not live  *)
(* (finished before the last restart) is rebuilt from its row.  A worker   *)
(* that still holds an evicted record of the job is left with its own.     *)
GetJob(j) ==
  /\ server = "up" /\ api.pc = "idle"
  /\ j \in Stored \ live
  /\ Rehydrate(j)
  /\ run' = [w \in Workers |->
               [run[w] EXCEPT !.split = @ \/ (run[w].pc \notin {"idle", "lookup"} /\ run[w].job = j)]]
  /\ UNCHANGED <<durable, queue, api, process, counters>>

Add == \/ PersistInitial \/ FirstPrune \/ Evict \/ Detach \/ SecondPrune
       \/ DeleteThreads \/ Enqueue
-----------------------------------------------------------------------------
(* PipelineWorker._run_one and run_pipeline, on a worker thread.  An       *)
(* exception before its try block, or inside its except block, leaves      *)
(* _loop and ends the thread (pc = "dead").                                *)

(* Mutant: the item is read and left in the queue.                         *)
Peek(w) ==
  /\ server # "down" /\ At(w, "idle") /\ queue # << >>
  /\ run' = [run EXCEPT ![w] = [NoRun EXCEPT !.pc = "lookup",
                                             !.job = Head(queue).job,
                                             !.resume = Head(queue).resume]]
  /\ UNCHANGED <<durable, records, queue, api, process, counters>>

Dequeue(w) ==
  /\ server # "down" /\ At(w, "idle") /\ queue # << >>
  /\ run' = [run EXCEPT ![w] = [NoRun EXCEPT !.pc = "lookup",
                                             !.job = Head(queue).job,
                                             !.resume = Head(queue).resume]]
  /\ queue' = Tail(queue)
  /\ UNCHANGED <<durable, records, api, process, counters>>

(* registry.get(job_id); a job evicted while it was queued is dropped.     *)
Lookup(w) ==
  /\ At(w, "lookup")
  /\ IF run[w].job \in live \cup Stored THEN Goto(w, "mark") ELSE Release(w)
  /\ Rehydrate(run[w].job)
  /\ UNCHANGED <<durable, queue, api, process, counters>>

(* Mutant: a resumed run starts with an empty seen set.                    *)
NothingCompleted(j) == {}

(* What a resumed run seeds its seen set with: completed_nodes.            *)
AlreadyCompleted(j) == {rec[j].done[i] : i \in DOMAIN rec[j].done}

(* The graph's stream starts: with a fresh input, or with None to resume   *)
(* from the latest checkpoint, which the graph refuses if there is none.   *)
StartRun(w) ==
  LET j == run[w].job
      resumed == run[w].resume
  IN run' = [run EXCEPT
       ![w].pc = IF resumed /\ ckpt[j] = NoCkpt THEN "fail" ELSE "yield",
       ![w].seen = IF resumed THEN AlreadyCompleted(j) ELSE {},
       ![w].g = IF resumed /\ ckpt[j] # NoCkpt THEN ckpt[j] ELSE GraphInit,
       ![w].saved = IF resumed THEN ckpt[j].pos ELSE -1]

(* mark_running, then the start of run_pipeline.                           *)
MarkRunning(w) ==
  /\ At(w, "mark")
  /\ Write(w, [rec[run[w].job] EXCEPT !.status = "running"])
  /\ StartRun(w)
  /\ UNCHANGED <<stamp, ckpt, source, delivered, live, attached, queue, api,
                 process, counters>>

(* mark_running raises, outside the try block.                             *)
MarkRaises(w) ==
  /\ At(w, "mark")
  /\ WriteRaises(w, [rec[run[w].job] EXCEPT !.status = "running"])
  /\ Goto(w, "dead")
  /\ UNCHANGED <<stamp, ckpt, source, delivered, live, attached, queue, api,
                 process, crashes>>

(* user_store.get_google_credentials raises, also outside the try block.   *)
CredentialsRaise(w) ==
  /\ At(w, "mark") /\ Raise("users")
  /\ Write(w, [rec[run[w].job] EXCEPT !.status = "running"])
  /\ Goto(w, "dead")
  /\ UNCHANGED <<stamp, ckpt, source, delivered, live, attached, queue, api,
                 process, crashes>>

(* A node of this run not seen yet; the initial state, pos 0, is none.     *)
IsNew(w) == run[w].g.pos \in Nodes \ run[w].seen

Progressed(w) == [rec[run[w].job] EXCEPT !.done = Append(@, run[w].g.pos)]

(* The stream yields the state after node g.pos (on a resume the first     *)
(* yield is the checkpointed state again); a new node is recorded.         *)
Yield(w) ==
  /\ At(w, "yield")
  /\ run' = [run EXCEPT
       ![w].pc = IF GraphDone(run[w].g) THEN "deliver" ELSE "node",
       ![w].seen = IF IsNew(w) THEN @ \cup {run[w].g.pos} ELSE @]
  /\ IF IsNew(w) THEN Write(w, Progressed(w)) ELSE UNCHANGED <<rows, rec>>
  /\ UNCHANGED <<stamp, ckpt, source, delivered, live, attached, queue, api,
                 process, counters>>

YieldRaises(w) ==
  /\ At(w, "yield") /\ IsNew(w)
  /\ WriteRaises(w, Progressed(w))
  /\ Goto(w, "fail")
  /\ UNCHANGED <<stamp, ckpt, source, delivered, live, attached, queue, api,
                 process, crashes>>

(* What node n can make of the run: ingest ends it when the document       *)
(* cannot be read, the last node writes the report or fails to.            *)
Outcomes(n, j) ==
  CASE n = 1 /\ ~source[j] -> {"ingest_error"}
    [] n = NumNodes -> {"report", "no_report"} \cup (IF n = 1 THEN {"ingest_error"} ELSE {})
    [] OTHER -> {"pending"} \cup (IF n = 1 THEN {"ingest_error"} ELSE {})

RunNode(w) ==
  /\ At(w, "node")
  /\ \E o \in Outcomes(run[w].g.pos + 1, run[w].job) :
       run' = [run EXCEPT ![w].pc = "yield",
                          ![w].g = [pos |-> run[w].g.pos + 1, out |-> o]]
  /\ UNCHANGED <<durable, records, queue, api, process, counters>>

NodeRaises(w) ==
  /\ At(w, "node")
  /\ Goto(w, "fail")
  /\ UNCHANGED <<durable, records, queue, api, process, counters>>

(* The saver writes the graph's checkpoints in order and in the            *)
(* background: the durable one may lag behind the node that runs.          *)
Checkpoint(w) ==
  /\ run[w].pc \in {"yield", "node", "deliver"}
  /\ \E p \in run[w].saved + 1 .. run[w].g.pos :
       /\ run' = [run EXCEPT ![w].saved = p]
       /\ ckpt' = [ckpt EXCEPT ![run[w].job] =
                     IF p = run[w].g.pos THEN run[w].g ELSE [pos |-> p, out |-> "pending"]]
  /\ UNCHANGED <<rows, stamp, source, delivered, records, queue, api, process,
                 counters>>

(* The stream has ended, its last checkpoint is written: deliver_report    *)
(* sends the report, if there is one.                                      *)
Deliver(w) ==
  /\ At(w, "deliver") /\ run[w].saved = run[w].g.pos
  /\ delivered' = IF run[w].g.out = "report"
                  THEN [delivered EXCEPT ![run[w].job] = @ + 1] ELSE delivered
  /\ Goto(w, "finish")
  /\ UNCHANGED <<rows, stamp, ckpt, source, records, queue, api, process, counters>>

(* Mutant: the error is swallowed and the job completes with its report.   *)
DeliverIgnores(w) ==
  /\ At(w, "deliver") /\ run[w].saved = run[w].g.pos /\ run[w].g.out = "report"
  /\ Raise("blobs")
  /\ Goto(w, "finish")
  /\ UNCHANGED <<durable, records, queue, api, process, crashes>>

(* blob_store.exists or materialize raises before anything is sent.        *)
DeliverRaises(w) ==
  /\ At(w, "deliver") /\ run[w].saved = run[w].g.pos /\ run[w].g.out = "report"
  /\ Raise("blobs")
  /\ Goto(w, "fail")
  /\ UNCHANGED <<durable, records, queue, api, process, crashes>>

(* The best-effort delete of the uploaded source of a terminal job.        *)
MayDropSource(j) ==
  \/ UNCHANGED source
  \/ DropSource /\ source' = [source EXCEPT ![j] = FALSE]

Completed(w) ==
  [rec[run[w].job] EXCEPT
     !.status = "completed",
     !.report = (run[w].g.out = "report"),
     !.error = IF run[w].g.out = "ingest_error" THEN "ingest_error" ELSE "none"]

Finish(w) ==
  /\ At(w, "finish")
  /\ Write(w, Completed(w))
  /\ MayDropSource(run[w].job)
  /\ Goto(w, "publish")
  /\ UNCHANGED <<stamp, ckpt, delivered, live, attached, queue, api, process,
                 counters>>

(* Mutant: the source is deleted before the terminal row is written.       *)
DropThenFinish(w) ==
  /\ At(w, "finish")
  /\ WriteRaises(w, Completed(w))
  /\ MayDropSource(run[w].job)
  /\ Goto(w, "fail")
  /\ UNCHANGED <<stamp, ckpt, delivered, live, attached, queue, api, process, crashes>>

FinishRaises(w) ==
  /\ At(w, "finish")
  /\ WriteRaises(w, Completed(w))
  /\ Goto(w, "fail")
  /\ UNCHANGED <<stamp, ckpt, source, delivered, live, attached, queue, api,
                 process, crashes>>

(* Publish the completed event with final = rec.to_status().               *)
Publish(w) ==
  /\ At(w, "publish")
  /\ Release(w)
  /\ UNCHANGED <<durable, records, queue, api, process, counters>>

(* to_status() asks the blob store whether the report exists and that      *)
(* raises: the except block now marks the completed job failed.            *)
PublishRaises(w) ==
  /\ At(w, "publish") /\ run[w].g.out = "report"
  /\ Raise("blobs")
  /\ Goto(w, "fail")
  /\ UNCHANGED <<durable, records, queue, api, process, crashes>>

Failed(w) ==
  [rec[run[w].job] EXCEPT !.status = "failed", !.report = FALSE,
                          !.error = "runner_exception"]

Fail(w) ==
  /\ At(w, "fail")
  /\ Write(w, Failed(w))
  /\ MayDropSource(run[w].job)
  /\ Release(w)
  /\ UNCHANGED <<stamp, ckpt, delivered, live, attached, queue, api, process,
                 counters>>

FailRaises(w) ==
  /\ At(w, "fail")
  /\ WriteRaises(w, Failed(w))
  /\ Goto(w, "dead")
  /\ UNCHANGED <<stamp, ckpt, source, delivered, live, attached, queue, api,
                 process, crashes>>

Work(w) ==
  \/ Dequeue(w) \/ Lookup(w) \/ MarkRunning(w) \/ Yield(w) \/ RunNode(w)
  \/ NodeRaises(w) \/ Deliver(w) \/ Finish(w) \/ Publish(w) \/ Fail(w)

WorkRaises(w) ==
  \/ MarkRaises(w) \/ CredentialsRaise(w) \/ YieldRaises(w) \/ DeliverRaises(w)
  \/ FinishRaises(w) \/ PublishRaises(w) \/ FailRaises(w)

-----------------------------------------------------------------------------
(* Crash, restart and recovery *)

(* The process ends: memory is gone, and on an ephemeral disk so is the    *)
(* checkpoint file (the jobs table is on Turso there).                     *)
Die ==
  /\ server' = "down" /\ recq' = {}
  /\ live' = {} /\ attached' = {} /\ rec' = [j \in Jobs |-> NoRow]
  /\ queue' = << >> /\ run' = [w \in Workers |-> NoRun] /\ api' = NoApi
  /\ ckpt' = IF CkptDurable THEN ckpt ELSE [j \in Jobs |-> NoCkpt]
  /\ UNCHANGED <<rows, stamp, source, delivered>>

Crash ==
  /\ server # "down" /\ crashes < MaxCrashes
  /\ crashes' = crashes + 1
  /\ Die
  /\ UNCHANGED faults

(* The lifespan starts the worker threads and reads the nonterminal rows.  *)
Restart ==
  /\ server = "down"
  /\ server' = "starting" /\ recq' = Nonterminal
  /\ UNCHANGED <<durable, records, queue, run, api, counters>>

(* One row of _recover, oldest first: resumed if it was running and has a  *)
(* checkpoint, else reset and run again from the start.                    *)
IsNext(j) == j \in recq /\ \A k \in recq : stamp[j] <= stamp[k]

(* Mutant: no checkpoint is ever used.                                     *)
NeverResumable(j) == FALSE

Resumable(j) == rows[j].status = "running" /\ ckpt[j] # NoCkpt

Reset(j) == [rows[j] EXCEPT !.status = "queued", !.done = << >>, !.error = "none"]

(* Mutants: the reset is not written through; the job is not queued.       *)
ResetInMemory(j) ==
  /\ server = "starting" /\ IsNext(j)
  /\ rec' = [rec EXCEPT ![j] = IF Resumable(j) THEN rows[j] ELSE Reset(j)]
  /\ live' = live \cup {j} /\ attached' = attached \cup {j}
  /\ queue' = Append(queue, [job |-> j, resume |-> Resumable(j)])
  /\ recq' = recq \ {j}
  /\ UNCHANGED <<durable, run, api, server, counters>>

RecoverNoSubmit(j) ==
  /\ server = "starting" /\ IsNext(j)
  /\ LET row == IF Resumable(j) THEN rows[j] ELSE Reset(j)
     IN rec' = [rec EXCEPT ![j] = row] /\ rows' = [rows EXCEPT ![j] = row]
  /\ live' = live \cup {j} /\ attached' = attached \cup {j}
  /\ recq' = recq \ {j}
  /\ UNCHANGED <<stamp, ckpt, source, delivered, queue, run, api, server, counters>>

Recover(j) ==
  /\ server = "starting" /\ IsNext(j)
  /\ LET row == IF Resumable(j) THEN rows[j] ELSE Reset(j)
     IN rec' = [rec EXCEPT ![j] = row] /\ rows' = [rows EXCEPT ![j] = row]
  /\ live' = live \cup {j} /\ attached' = attached \cup {j}
  /\ queue' = Append(queue, [job |-> j, resume |-> Resumable(j)])
  /\ recq' = recq \ {j}
  /\ UNCHANGED <<stamp, ckpt, source, delivered, run, api, server, counters>>

(* reset_for_rerun raises: the start-up fails and the process exits.       *)
RecoverRaises(j) ==
  /\ server = "starting" /\ IsNext(j) /\ ~Resumable(j)
  /\ Raise("jobs")
  /\ crashes' = crashes + 1
  /\ Die

Serve ==
  /\ server = "starting" /\ recq = {}
  /\ server' = "up"
  /\ UNCHANGED <<durable, records, queue, run, api, recq, counters>>

Startup == Restart \/ Serve \/ \E j \in Jobs : Recover(j)

Next ==
  \/ \E j \in Jobs : Submit(j) \/ GetJob(j) \/ RecoverRaises(j)
  \/ Add \/ AddRaises
  \/ \E w \in Workers : Work(w) \/ Checkpoint(w) \/ WorkRaises(w)
  \/ Startup \/ Crash

Spec == Init /\ [][Next]_vars

(* Threads that can take a step eventually do (the scheduler is fair, and  *)
(* every node call has a timeout), a handler in progress and a start-up    *)
(* finish, and the platform restarts a process that went down.  Nothing is *)
(* assumed of crashes, of raising calls or of new submissions.             *)
Fairness ==
  /\ \A w \in Workers : WF_vars(Work(w)) /\ WF_vars(Checkpoint(w))
  /\ WF_vars(Add) /\ WF_vars(Startup)

FairSpec == Spec /\ Fairness
-----------------------------------------------------------------------------
(* Properties *)

Holds(w, j) == run[w].pc # "idle" /\ run[w].job = j

InQueue(j) == \E i \in DOMAIN queue : queue[i].job = j

Adding(j) == api.pc # "idle" /\ api.job = j

(* A job has one owner at a time: it is queued once, or held by one worker *)
(* thread, or still being added or recovered, and never two of these.  It  *)
(* is what keeps two runs from writing one record and one checkpoint       *)
(* thread (012 AC-15: nothing is enqueued twice).                          *)
SingleOwner ==
  /\ \A i, k \in DOMAIN queue : queue[i].job = queue[k].job => i = k
  /\ \A w, v \in Workers, j \in Jobs : Holds(w, j) /\ Holds(v, j) => w = v
  /\ \A j \in Jobs :
       /\ InQueue(j) => j \notin recq /\ ~Adding(j) /\ \A w \in Workers : ~Holds(w, j)
       /\ j \in recq => ~Adding(j) /\ \A w \in Workers : ~Holds(w, j)
       /\ Adding(j) => \A w \in Workers : ~Holds(w, j)

InOrder(done) == \A i \in DOMAIN done : done[i] = i

(* completed_nodes lists the stages in pipeline order without a duplicate  *)
(* or a gap, in the row and in the record, however often the run was cut   *)
(* short and resumed from a checkpoint behind or ahead of the recorded     *)
(* progress; a row completed without an error lists them all (012 EC-1).   *)
NodesExact(j) ==
  /\ InOrder(rows[j].done) /\ InOrder(rec[j].done)
  /\ rows[j].status = "completed" /\ rows[j].error = "none" => Len(rows[j].done) = NumNodes

CompletedNodesExact == \A j \in Jobs : NodesExact(j)

(* Once add() has pruned for the second time the table is within its cap,  *)
(* whatever the workers wrote meanwhile ("so this is definitive").  And    *)
(* while no store call has raised, a job that a worker runs and whose row  *)
(* exists is live, with its store handle, when no add() is under way: its  *)
(* writes reach the row, and GET /api/jobs/{id} finds the worker's own     *)
(* record instead of building a second one from a row left behind.         *)
PruneDefinitive ==
  /\ api.pc \in {"threads", "submit"} => Cardinality(Stored) <= RetentionMax
  /\ faults = 0 /\ api.pc = "idle" =>
       \A w \in Workers, j \in Jobs :
         Holds(w, j) /\ j \in Stored => j \in live \cap attached

(* While no call has raised, a live record and its row agree between any   *)
(* two steps of the threads (012 AC-3 and AC-4).                           *)
WriteThrough ==
  faults = 0 /\ api.pc \notin {"persist", "evict"} =>
    \A j \in live : rec[j] = rows[j]

(* While no store call has raised, a stored unfinished job is always in    *)
(* somebody's hands while the process is up: nothing waits for a restart.  *)
(* (A row that a worker re-inserted behind the first prune has nobody, and *)
(* goes with the second.)                                                  *)
NothingStranded ==
  faults = 0 /\ server # "down" =>
    \A j \in Stored \ api.victims :
      \/ rows[j].status \in Terminal
      \/ j \in recq \/ Adding(j) \/ InQueue(j) \/ \E w \in Workers : Holds(w, j)

(* A job that may still be run again keeps its uploaded document; only a   *)
(* terminal row may have lost it (054: deleted once the job is terminal).  *)
SourceKept ==
  \A j \in Nonterminal : source[j]

(* "A terminal job is never re-run (012 resume touches only nonterminal    *)
(* rows), so its durable upload source is no longer needed": recovery      *)
(* never has a job to run whose document was deleted.                      *)
RecoveredHasSource ==
  \A j \in recq : source[j]

(* A job whose report is on record was delivered, and delivered more than  *)
(* once only if the process crashed in between (012 EC-9).                 *)
DeliveredAtLeastOnce ==
  \A j \in Jobs :
    /\ rows[j].report => delivered[j] >= 1
    /\ delivered[j] <= 1 + crashes

(* A pruned row never comes back once the add() that pruned it is over,    *)
(* although a worker may still be running the job.                         *)
PrunedStaysGone ==
  [][\A j \in Jobs :
       stamp[j] > 0 /\ api.pc = "idle" /\ j \notin Stored => j \notin Stored']_vars

(* A terminal row is never run again: it keeps a terminal status until it  *)
(* is pruned (012 AC-14, registry.py: a terminal job is never re-run).     *)
TerminalIsFinal ==
  [][\A j \in Jobs :
       rows[j].status \in Terminal => rows'[j].status \in Terminal \cup {"absent"}]_vars

(* Recovery does not forget: a restart resumes from the checkpoint when    *)
(* there is one, so the recorded progress of a job never shrinks unless    *)
(* its checkpoint is gone or the row is pruned (012 AC-11).                *)
ProgressKept ==
  [][\A j \in Jobs :
       Len(rows'[j].done) < Len(rows[j].done) => j \notin Stored' \/ ckpt[j] = NoCkpt]_vars

(* Every job that was stored and has to run comes to an end or is pruned,  *)
(* if no store call raises.                                                *)
EveryJobSettles ==
  \A j \in Jobs :
    j \in Nonterminal ~> faults > 0 \/ j \notin Nonterminal

(* 011 EC-2: "One failed job never affects other jobs in the registry."    *)
(* Another job that waits in the queue is always taken up in the end.      *)
OthersStillRun ==
  \A j \in Jobs : InQueue(j) ~> ~InQueue(j)

(* 011 EC-3: "deliver_report_sync never raises [...] The job is still      *)
(* completed (analysis succeeded)".  A job whose graph reached its report  *)
(* does not end as failed.                                                 *)
AnalysisSucceededIsCompleted ==
  \A j \in Jobs : ckpt[j].out = "report" => rows[j].status # "failed"
-----------------------------------------------------------------------------
(* The jobs table implements JobLifecycle.  A job is leaving from the      *)
(* first prune to the deletion of its checkpoint thread: a worker's        *)
(* re-inserted row in between does not count.                              *)
JobState(j) ==
  IF j \in api.victims THEN "leaving"
  ELSE IF j \in Stored THEN rows[j].status
  ELSE IF stamp[j] = 0 \/ (api.pc = "persist" /\ api.job = j) THEN "none"
  ELSE "gone"

Lifecycle == INSTANCE JobLifecycle WITH state <- [j \in Jobs |-> JobState(j)]

(* Every step of the runner on the jobs table is a step of JobLifecycle:   *)
(* no state is skipped, a completed or failed job stays what it is, a      *)
(* pruned one stays gone, across interleavings, raising calls and crashes. *)
ImplementsLifecycle == Lifecycle!Spec
=============================================================================
