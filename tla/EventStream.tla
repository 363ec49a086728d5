---------------------------- MODULE EventStream ----------------------------
(***************************************************************************)
(* The server-sent events of one job (runner/events.py, the publishing in  *)
(* runner/worker.py, GET /jobs/{id}/events in api/routes.py).              *)
(*                                                                         *)
(* The worker thread publishes into the job's JobEventBuffer: it appends   *)
(* to the backlog under the lock, then hands the event to every subscribed *)
(* queue through call_soon_threadsafe, outside the lock.  The event loop   *)
(* runs those calls in order; each connection's generator sends the        *)
(* backlog of its subscription and then its queue.  A connection may drop  *)
(* at every await; a restart drops all of them, and the job's record is    *)
(* rebuilt from its row with a new buffer.                                 *)
(***************************************************************************)
EXTENDS Naturals, Sequences, FiniteSets

CONSTANTS
  Conns,        (* the connections to the events of the job                  *)
  NumNodes,     (* stages of the graph that report progress                  *)
  MaxRestarts   (* bound: restarts of the server                             *)

ASSUME StreamAssumption == NumNodes \in Nat /\ MaxRestarts \in Nat

(* ProgressEvent: the progress of the index-th node, or a final status.    *)
Final == {"completed", "failed"}
Event == [event : {"progress"} \cup Final, index : 0 .. NumNodes]

Progress(i) == [event |-> "progress", index |-> i]
Over(s)     == [event |-> s, index |-> 0]

VARIABLES
  row,        (* durable: the job's status and the number of its done nodes  *)
  buffer,     (* JobEventBuffer: backlog, subscribers, closed                *)
  worker,     (* the worker thread: its next step, what it has to fan out    *)
  calls,      (* the calls call_soon_threadsafe has put to the event loop    *)
  conn,       (* the generators of the connections                           *)
  restarts

vars == <<row, buffer, worker, calls, conn, restarts>>

NewBuffer == [backlog |-> << >>, subscribers |-> {}, closed |-> FALSE]
Running   == [pc |-> "node", targets |-> {}, event |-> Progress(0)]
NewConn   == [st |-> "new", todo |-> << >>, queue |-> << >>, sent |-> << >>,
              ended |-> FALSE]

Status == {"running"} \cup Final

TypeOK ==
  /\ row \in [status : Status, done : 0 .. NumNodes]
  /\ buffer \in [backlog : Seq(Event), subscribers : SUBSET Conns, closed : BOOLEAN]
  /\ worker \in [pc : {"node", "progress", "terminal", "fan", "idle"},
                 targets : SUBSET Conns, event : Event]
  /\ calls \in Seq(Conns \X Event)
  /\ conn \in [Conns -> [st : {"new", "backlog", "live", "closed"},
                         todo : Seq(Event), queue : Seq(Event), sent : Seq(Event),
                         ended : BOOLEAN]]
  /\ restarts \in 0 .. MaxRestarts

Init ==
  /\ row = [status |-> "running", done |-> 0]
  /\ buffer = NewBuffer
  /\ worker = Running
  /\ calls = << >>
  /\ conn = [c \in Conns |-> NewConn]
  /\ restarts = 0

-----------------------------------------------------------------------------
(* The worker thread *)

(* The locked half of publish.                                             *)
publish(e) ==
  /\ buffer' = [buffer EXCEPT !.backlog = Append(@, e), !.closed = @ \/ e.event \in Final]
  /\ worker' = [pc |-> "fan", targets |-> buffer.subscribers, event |-> e]

(* The other half: one subscriber after the other.                         *)
FanOut ==
  /\ worker.pc = "fan"
  /\ \/ \E c \in worker.targets :
          /\ calls' = Append(calls, <<c, worker.event>>)
          /\ worker' = [worker EXCEPT !.targets = @ \ {c}]
     \/ /\ worker.targets = {}
        /\ worker' = [worker EXCEPT !.pc = IF worker.event.event \in Final THEN "idle" ELSE "node"]
        /\ UNCHANGED calls
  /\ UNCHANGED <<row, buffer, conn, restarts>>

(* A node completes: record_progress stores it, then it is published.      *)
RecordProgress ==
  /\ worker.pc = "node" /\ row.done < NumNodes
  /\ row' = [row EXCEPT !.done = @ + 1]
  /\ worker' = [worker EXCEPT !.pc = "progress"]
  /\ UNCHANGED <<buffer, calls, conn, restarts>>

PublishProgress ==
  /\ worker.pc = "progress"
  /\ publish(Progress(row.done))
  /\ UNCHANGED <<row, calls, conn, restarts>>

(* The run ends, or raises after any node: mark_terminal stores it, then   *)
(* the terminal event is published.                                        *)
MarkTerminal ==
  /\ worker.pc = "node"
  /\ \E s \in Final : /\ s = "completed" => row.done = NumNodes
                      /\ row' = [row EXCEPT !.status = s]
  /\ worker' = [worker EXCEPT !.pc = "terminal"]
  /\ UNCHANGED <<buffer, calls, conn, restarts>>

(* Mutant: a run that raises publishes nothing.                            *)
PublishCompleted ==
  /\ worker.pc = "terminal"
  /\ IF row.status = "completed" THEN publish(Over(row.status))
     ELSE worker' = [worker EXCEPT !.pc = "idle"] /\ UNCHANGED buffer
  /\ UNCHANGED <<row, calls, conn, restarts>>

PublishTerminal ==
  /\ worker.pc = "terminal"
  /\ publish(Over(row.status))
  /\ UNCHANGED <<row, calls, conn, restarts>>

-----------------------------------------------------------------------------
(* The event loop *)

(* q.put_nowait: the queue of a connection that is gone keeps what it gets *)
(* and is not read again.                                                  *)
RunCall ==
  /\ calls # << >>
  /\ LET c == Head(calls)[1] e == Head(calls)[2]
     IN  conn' = [conn EXCEPT ![c].queue = Append(@, e)]
  /\ calls' = Tail(calls)
  /\ UNCHANGED <<row, buffer, worker, restarts>>

(* Mutant: the backlog is read before the lock is taken.                   *)
SubscribeStale(c) ==
  /\ conn[c].st = "new" /\ ~buffer.closed
  /\ \E n \in 0 .. Len(buffer.backlog) :
       conn' = [conn EXCEPT ![c].st = "backlog", ![c].todo = SubSeq(buffer.backlog, 1, n)]
  /\ buffer' = [buffer EXCEPT !.subscribers = @ \cup {c}]
  /\ UNCHANGED <<row, worker, calls, restarts>>

(* subscribe: the backlog and the registration under one lock; when the    *)
(* buffer is closed there is no queue.                                     *)
Subscribe(c) ==
  /\ conn[c].st = "new"
  /\ IF buffer.closed
     THEN /\ conn' = [conn EXCEPT ![c].st = "backlog", ![c].todo = buffer.backlog,
                                  ![c].ended = TRUE]
          /\ UNCHANGED buffer
     ELSE /\ conn' = [conn EXCEPT ![c].st = "backlog", ![c].todo = buffer.backlog]
          /\ buffer' = [buffer EXCEPT !.subscribers = @ \cup {c}]
  /\ UNCHANGED <<row, worker, calls, restarts>>

SendBacklog(c) ==
  /\ conn[c].st = "backlog" /\ conn[c].todo # << >>
  /\ conn' = [conn EXCEPT ![c].sent = Append(@, Head(conn[c].todo)),
                          ![c].todo = Tail(@)]
  /\ UNCHANGED <<row, buffer, worker, calls, restarts>>

(* Mutant: a connection that ends by itself stays subscribed.              *)
CloseSubscribed(c) ==
  /\ conn' = [conn EXCEPT ![c].st = "closed"]
  /\ UNCHANGED buffer

(* The generator's finally block.                                          *)
Close(c) ==
  /\ conn' = [conn EXCEPT ![c].st = "closed"]
  /\ buffer' = [buffer EXCEPT !.subscribers = @ \ {c}]

BacklogSent(c) ==
  /\ conn[c].st = "backlog" /\ conn[c].todo = << >>
  /\ IF conn[c].ended THEN Close(c)
     ELSE /\ conn' = [conn EXCEPT ![c].st = "live"]
          /\ UNCHANGED buffer
  /\ UNCHANGED <<row, worker, calls, restarts>>

(* q.get: the event is sent, and a terminal one ends the stream.           *)
SendLive(c) ==
  /\ conn[c].st = "live" /\ conn[c].queue # << >>
  /\ LET e == Head(conn[c].queue)
         over == e.event \in Final
     IN  /\ conn' = [conn EXCEPT ![c].sent = Append(@, e), ![c].queue = Tail(@),
                                 ![c].ended = over,
                                 ![c].st = IF over THEN "closed" ELSE "live"]
         /\ buffer' = IF over THEN [buffer EXCEPT !.subscribers = @ \ {c}] ELSE buffer
  /\ UNCHANGED <<row, worker, calls, restarts>>

(* The client goes away: is_disconnected, or the generator is closed.      *)
Disconnect(c) ==
  /\ conn[c].st \in {"backlog", "live"}
  /\ Close(c)
  /\ UNCHANGED <<row, worker, calls, restarts>>

(* The process restarts: the connections are gone, the record is rebuilt   *)
(* from its row (JobRegistry.get) with a new buffer, and _recover has the  *)
(* worker resume the job, or run it again from the start, unless it is     *)
(* terminal.                                                               *)
Restart ==
  /\ restarts < MaxRestarts /\ restarts' = restarts + 1
  /\ conn' = [c \in Conns |-> IF conn[c].st \in {"backlog", "live"}
                              THEN [conn[c] EXCEPT !.st = "closed"] ELSE conn[c]]
  /\ buffer' = NewBuffer /\ calls' = << >>
  /\ \/ row.status \in Final /\ worker' = [Running EXCEPT !.pc = "idle"] /\ UNCHANGED row
     \/ row.status = "running" /\ worker' = Running /\ row' \in {row, [row EXCEPT !.done = 0]}

Worker == \/ RecordProgress \/ PublishProgress \/ MarkTerminal \/ PublishTerminal
          \/ FanOut

Serve(c) == SendBacklog(c) \/ BacklogSent(c) \/ SendLive(c)

Next == \/ Worker \/ RunCall
        \/ \E c \in Conns : Subscribe(c) \/ Serve(c) \/ Disconnect(c)
        \/ Restart

Spec == Init /\ [][Next]_vars

(* The worker thread and the event loop run; the client takes what it is   *)
(* sent.  Nothing makes a client connect or go away.                       *)
FairSpec == /\ Spec /\ WF_vars(Worker) /\ WF_vars(RunCall)
            /\ \A c \in Conns : WF_vars(Serve(c))

-----------------------------------------------------------------------------
(* Properties *)

(* Which of the loop's calls q are for c; turn has all of these, in the    *)
(* order they will run; what they will put into its queue.                 *)
CallsFor(q, c) == {k \in 1 .. Len(q) : q[k][1] = c}

InTurn(turn, S) ==
  /\ \A i, j \in DOMAIN turn : i < j => turn[i] < turn[j]
  /\ \A k \in S : \E i \in DOMAIN turn : turn[i] = k

ToPut(q, turn) == [i \in DOMAIN turn |-> q[turn[i]][2]]

ToCall(c) ==
  IF worker.pc = "fan" /\ c \in worker.targets THEN <<worker.event>> ELSE << >>

(* No lost wakeup, no duplicate, no reordering: what a subscribed          *)
(* connection was sent and what is on its way to it (its unsent backlog,   *)
(* its queue, the loop's calls and the event being fanned out) is the      *)
(* backlog, event by event, however subscribe falls between the two halves *)
(* of publish.                                                             *)
NothingLost ==
  \A c \in buffer.subscribers : \E n \in 0 .. Len(buffer.backlog) :
    \E turn \in [1 .. n -> CallsFor(calls, c)] :
      /\ InTurn(turn, CallsFor(calls, c))
      /\ conn[c].sent \o conn[c].todo \o conn[c].queue \o ToPut(calls, turn) \o ToCall(c)
           = buffer.backlog

(* A stream that the server ends shows one terminal event, the last one,   *)
(* and the job's row has that status by then: a client that asks for the   *)
(* job or its report on the terminal event is not told "not yet".          *)
EndedIsStored ==
  \A c \in Conns :
    /\ \A i \in 1 .. Len(conn[c].sent) :
         conn[c].sent[i].event \in Final =>
           i = Len(conn[c].sent) /\ conn[c].sent[i] = Over(row.status)
    /\ conn[c].ended /\ conn[c].todo = << >> =>
         \E i \in 1 .. Len(conn[c].sent) : conn[c].sent[i].event \in Final

(* Both at once: what a stream shows is what happened.                     *)
StreamsTruthful == NothingLost /\ EndedIsStored

(* The buffer holds on to no connection that is closed (the finally block  *)
(* of event_generator, whichever way the stream ends).                     *)
NoSubscriberLeak == \A c \in buffer.subscribers : conn[c].st \in {"backlog", "live"}

(* Where a connection is in the log of EventLog: done with its terminal    *)
(* event, whether or not its generator has returned.                       *)
Stage(s) ==
  IF s.ended /\ s.todo = << >> THEN "done"
  ELSE IF s.st = "closed" THEN "cut" ELSE IF s.st = "new" THEN "new" ELSE "reading"

Settled == IF row.status \in Final THEN {Over(row.status)} ELSE {}
Reader  == [c \in Conns |-> [stage |-> Stage(conn[c]), got |-> conn[c].sent]]

Log == INSTANCE EventLog
  WITH Readers   <- Conns,
       Updates   <- {Progress(i) : i \in 0 .. NumNodes},
       Ends      <- {Over(s) : s \in Final},
       settled   <- Settled,
       log       <- buffer.backlog,
       listening <- buffer.subscribers,
       reader    <- Reader

(* Buffer, calls, queues and generators together are one log: what a       *)
(* connection was sent is at each step one more event of it, from its      *)
(* beginning on; the stream ends with the terminal event, which is         *)
(* published once the row is stored; a connection that is done or gone is  *)
(* no longer subscribed (runner/events.py; event_generator).               *)
ImplementsEventLog == Log!Spec

(* A stream that is open while the job runs ends: by the terminal event,   *)
(* by its client, or by a restart.                                         *)
LiveStreamEnds ==
  \A c \in Conns : (conn[c].st = "live" /\ row.status = "running")
                     ~> conn[c].st = "closed"

(* "Opening the SSE stream for an already-finished job immediately emits   *)
(* the terminal event and closes (no hang), rather than waiting forever."  *)
FinishedStreamEnds ==
  \A c \in Conns : (conn[c].st = "backlog" /\ row.status \in Final)
                     ~> conn[c].st = "closed"
=============================================================================
