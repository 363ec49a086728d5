-------------------------- MODULE EventStreamProofs --------------------------
(***************************************************************************)
(* For any number of connections, nodes and restarts: a stream that the    *)
(* server ends shows the status of the row as its one terminal event, a    *)
(* subscribed connection gets every event once and in order                *)
(* (StreamsTruthful), and no connection that is gone stays subscribed.     *)
(* Restart is the hard step of the first, since the row outlives the       *)
(* buffer; subscribe between the two halves of publish that of the second. *)
(* Buffer, queues and generators together implement EventLog: a log from   *)
(* which each reader reads the next line (StreamImplementsLog).            *)
(***************************************************************************)
EXTENDS EventStream, SequenceTheorems, TLAPS

NoFinal(s) == \A i \in 1 .. Len(s) : s[i].event \notin Final

(* A final event is the last of s, and says what the row says.             *)
FinalLast(s) ==
  \A i \in 1 .. Len(s) :
    s[i].event \in Final => i = Len(s) /\ s[i] = Over(row.status)

FinalIsRow(e) == e.event \in Final => e = Over(row.status)

(* What the worker and the loop hold agrees with the row; the buffer is    *)
(* closed by its last event.                                               *)
Published ==
  /\ worker.pc \in {"node", "progress"} => row.status = "running"
  /\ worker.pc = "terminal" => row.status \in Final
  /\ worker.pc \in {"node", "progress", "terminal"} => ~buffer.closed
  /\ FinalIsRow(worker.event)
  /\ \A i \in 1 .. Len(calls) : FinalIsRow(calls[i][2])
  /\ FinalLast(buffer.backlog)
  /\ ~buffer.closed => NoFinal(buffer.backlog)
  /\ buffer.closed =>
       /\ buffer.backlog # << >> /\ row.status \in Final
       /\ buffer.backlog[Len(buffer.backlog)].event \in Final
  /\ worker.pc = "fan" /\ worker.event.event \notin Final =>
       ~buffer.closed /\ row.status = "running"

(* Events go to connections that have subscribed.                          *)
Addressed ==
  /\ \A c \in worker.targets : conn[c].st # "new"
  /\ \A i \in 1 .. Len(calls) : conn[calls[i][1]].st # "new"

(* A stream has shown no final event before it was told that it has ended, *)
(* and has one left, the last, when it was told at its subscription.       *)
Shown(c) ==
  LET s == conn[c] IN
  /\ \A i \in 1 .. Len(s.queue) : FinalIsRow(s.queue[i])
  /\ FinalLast(s.todo) /\ FinalLast(s.sent)
  /\ s.st = "new" => s = NewConn
  /\ s.st = "live" => ~s.ended /\ s.todo = << >>
  /\ ~s.ended => NoFinal(s.sent) /\ NoFinal(s.todo)
  /\ s.ended =>
       /\ row.status \in Final
       /\ s.todo # << >> => NoFinal(s.sent) /\ s.todo[Len(s.todo)].event \in Final
       /\ s.todo = << >> => s.sent # << >> /\ s.sent[Len(s.sent)].event \in Final

IInv ==
  /\ TypeOK /\ Published /\ Addressed /\ NoSubscriberLeak
  /\ \A c \in Conns : Shown(c)

-----------------------------------------------------------------------------
(* Types *)

LEMMA EventType ==
  /\ \A i \in 0 .. NumNodes : Progress(i) \in Event
  /\ \A st \in Final : Over(st) \in Event
  BY StreamAssumption DEF Progress, Over, Event

LEMMA TypeInit == Init => TypeOK
  BY EventType, StreamAssumption
  DEF Init, TypeOK, NewBuffer, Running, NewConn, Status

LEMMA PublishType ==
  ASSUME TypeOK, NEW e \in Event, publish(e)
  PROVE  /\ buffer' \in [backlog : Seq(Event), subscribers : SUBSET Conns, closed : BOOLEAN]
         /\ worker' \in [pc : {"node", "progress", "terminal", "fan", "idle"},
                        targets : SUBSET Conns, event : Event]
<1>1. /\ buffer' = [buffer EXCEPT !.backlog = Append(@, e), !.closed = @ \/ e.event \in Final]
      /\ worker' = [pc |-> "fan", targets |-> buffer.subscribers, event |-> e]
  BY DEF publish
<1>2. Append(buffer.backlog, e) \in Seq(Event) /\ buffer.subscribers \in SUBSET Conns
  BY DEF TypeOK
<1>3. (buffer.closed \/ e.event \in Final) \in BOOLEAN
  OBVIOUS
<1>4. QED
  BY <1>1, <1>2, <1>3 DEF TypeOK

LEMMA WorkerType == TypeOK /\ Published /\ Worker => TypeOK'
<1> SUFFICES ASSUME TypeOK, Published, Worker PROVE TypeOK'
  OBVIOUS
<1>1. CASE RecordProgress
  <2>1. row.done \in 0 .. NumNodes /\ row.done + 1 \in 0 .. NumNodes
    BY <1>1, StreamAssumption DEF RecordProgress, TypeOK
  <2>2. row' \in [status : Status, done : 0 .. NumNodes]
    BY <1>1, <2>1 DEF RecordProgress, TypeOK
  <2>3. QED
    BY <1>1, <2>2 DEF RecordProgress, TypeOK
<1>2. CASE PublishProgress
  <2>1. Progress(row.done) \in Event
    BY EventType DEF TypeOK
  <2>2. QED
    BY <1>2, <2>1, PublishType DEF PublishProgress, TypeOK
<1>3. CASE MarkTerminal
  BY <1>3 DEF MarkTerminal, TypeOK, Status
<1>4. CASE PublishTerminal
  <2>1. Over(row.status) \in Event
    BY <1>4, EventType DEF PublishTerminal, Published
  <2>2. QED
    BY <1>4, <2>1, PublishType DEF PublishTerminal, TypeOK
<1>5. CASE FanOut
  <2>1. CASE worker.targets = {}
    BY <1>5, <2>1 DEF FanOut, TypeOK
  <2>2. ASSUME NEW c \in worker.targets,
               calls' = Append(calls, <<c, worker.event>>),
               worker' = [worker EXCEPT !.targets = @ \ {c}]
        PROVE  TypeOK'
    <3>1. <<c, worker.event>> \in Conns \X Event
      BY <2>2 DEF TypeOK
    <3>2. calls' \in Seq(Conns \X Event)
      BY <2>2, <3>1 DEF TypeOK
    <3>3. QED
      BY <1>5, <2>2, <3>2 DEF FanOut, TypeOK
  <2>3. QED
    BY <1>5, <2>1, <2>2 DEF FanOut
<1>6. QED
  BY <1>1, <1>2, <1>3, <1>4, <1>5 DEF Worker

Conn == [st : {"new", "backlog", "live", "closed"},
         todo : Seq(Event), queue : Seq(Event), sent : Seq(Event), ended : BOOLEAN]

LEMMA ConnType ==
  ASSUME TypeOK, NEW c \in Conns
  PROVE  /\ conn[c] \in Conn
         /\ conn[c].todo \in Seq(Event) /\ conn[c].queue \in Seq(Event)
         /\ conn[c].sent \in Seq(Event) /\ conn[c].ended \in BOOLEAN
  BY DEF TypeOK, Conn

LEMMA ConnMoves ==
  ASSUME TypeOK, NEW c \in Conns, NEW s \in Conn, conn' = [conn EXCEPT ![c] = s]
  PROVE  /\ conn' \in [Conns -> Conn] /\ conn'[c] = s
         /\ \A d \in Conns \ {c} : conn'[d] = conn[d]
  BY DEF TypeOK, Conn

(* What each step of the loop makes of the connection it is about.         *)
Called(c, e) == [conn[c] EXCEPT !.queue = Append(@, e)]
Subscribed(c) ==
  IF buffer.closed
  THEN [conn[c] EXCEPT !.st = "backlog", !.todo = buffer.backlog, !.ended = TRUE]
  ELSE [conn[c] EXCEPT !.st = "backlog", !.todo = buffer.backlog]
Sent(c) == [conn[c] EXCEPT !.sent = Append(@, Head(conn[c].todo)), !.todo = Tail(@)]
WentLive(c) == [conn[c] EXCEPT !.st = "live"]
Closed(c) == [conn[c] EXCEPT !.st = "closed"]
Streamed(c) ==
  [conn[c] EXCEPT !.sent = Append(@, Head(conn[c].queue)), !.queue = Tail(@),
                  !.ended = (Head(conn[c].queue).event \in Final),
                  !.st = IF Head(conn[c].queue).event \in Final THEN "closed" ELSE "live"]

LEMMA RunCallIs ==
  ASSUME TypeOK, RunCall
  PROVE  \E c \in Conns, e \in Event :
           /\ Head(calls) = <<c, e>> /\ Called(c, e) \in Conn
           /\ conn' = [conn EXCEPT ![c] = Called(c, e)]
<1>1. Head(calls) \in Conns \X Event
  BY HeadTailProperties DEF RunCall, TypeOK
<1>2. PICK c \in Conns, e \in Event : Head(calls) = <<c, e>>
  BY <1>1
<1>3. conn' = [conn EXCEPT ![c].queue = Append(@, e)]
  <2>1. Head(calls)[1] = c /\ Head(calls)[2] = e
    BY <1>2
  <2>2. QED
    BY <2>1, Zenon DEF RunCall
<1>4. Append(conn[c].queue, e) \in Seq(Event)
  BY <1>2, ConnType
<1>5. Called(c, e) \in Conn
  BY <1>4, ConnType DEF Conn, Called
<1>6. conn' = [conn EXCEPT ![c] = Called(c, e)]
  BY <1>3 DEF Called
<1>7. QED
  BY <1>2, <1>5, <1>6

LEMMA SubscribeIs ==
  ASSUME TypeOK, NEW c \in Conns, Subscribe(c)
  PROVE  Subscribed(c) \in Conn /\ conn' = [conn EXCEPT ![c] = Subscribed(c)]
<1>1. buffer.backlog \in Seq(Event)
  BY DEF TypeOK
<1>2. /\ [conn[c] EXCEPT !.st = "backlog", !.todo = buffer.backlog, !.ended = TRUE] \in Conn
      /\ [conn[c] EXCEPT !.st = "backlog", !.todo = buffer.backlog] \in Conn
  BY <1>1, ConnType DEF Conn
<1>3. CASE buffer.closed
  BY <1>2, <1>3 DEF Subscribe, Subscribed
<1>4. CASE ~buffer.closed
  BY <1>2, <1>4 DEF Subscribe, Subscribed
<1>5. QED
  BY <1>3, <1>4

LEMMA SendBacklogIs ==
  ASSUME TypeOK, NEW c \in Conns, SendBacklog(c)
  PROVE  Sent(c) \in Conn /\ conn' = [conn EXCEPT ![c] = Sent(c)]
<1>1. Append(conn[c].sent, Head(conn[c].todo)) \in Seq(Event) /\ Tail(conn[c].todo) \in Seq(Event)
  BY ConnType, HeadTailProperties DEF SendBacklog
<1>2. Sent(c) \in Conn
  BY <1>1, ConnType DEF Sent, Conn
<1>3. QED
  BY <1>2 DEF SendBacklog, Sent

LEMMA CloseIs ==
  ASSUME TypeOK, NEW c \in Conns, Close(c)
  PROVE  Closed(c) \in Conn /\ conn' = [conn EXCEPT ![c] = Closed(c)]
<1>1. Closed(c) \in Conn
  BY ConnType DEF Closed, Conn
<1>2. QED
  BY <1>1 DEF Close, Closed

LEMMA BacklogSentIs ==
  ASSUME TypeOK, NEW c \in Conns, BacklogSent(c), ~conn[c].ended
  PROVE  WentLive(c) \in Conn /\ conn' = [conn EXCEPT ![c] = WentLive(c)]
<1>1. WentLive(c) \in Conn
  BY ConnType DEF WentLive, Conn
<1>2. QED
  BY <1>1 DEF BacklogSent, WentLive

LEMMA SendLiveIs ==
  ASSUME TypeOK, NEW c \in Conns, SendLive(c)
  PROVE  Streamed(c) \in Conn /\ conn' = [conn EXCEPT ![c] = Streamed(c)]
<1>1. /\ Append(conn[c].sent, Head(conn[c].queue)) \in Seq(Event)
      /\ Tail(conn[c].queue) \in Seq(Event)
  BY ConnType, HeadTailProperties DEF SendLive
<1>2. (Head(conn[c].queue).event \in Final) \in BOOLEAN
  OBVIOUS
<1>3. Streamed(c) \in Conn
  BY <1>1, <1>2, ConnType DEF Streamed, Conn
<1>4. QED
  BY <1>3 DEF SendLive, Streamed

LEMMA LoopType ==
  ASSUME TypeOK, conn' \in [Conns -> Conn], calls' \in Seq(Conns \X Event),
         \/ buffer' = buffer
         \/ \E c \in Conns : \/ buffer' = [buffer EXCEPT !.subscribers = @ \cup {c}]
                            \/ buffer' = [buffer EXCEPT !.subscribers = @ \ {c}],
         UNCHANGED <<row, worker, restarts>>
  PROVE  TypeOK'
<1>1. /\ buffer \in [backlog : Seq(Event), subscribers : SUBSET Conns, closed : BOOLEAN]
      /\ \A c \in Conns : /\ buffer.subscribers \cup {c} \in SUBSET Conns
                         /\ buffer.subscribers \ {c} \in SUBSET Conns
  BY DEF TypeOK
<1>2. buffer' \in [backlog : Seq(Event), subscribers : SUBSET Conns, closed : BOOLEAN]
  BY <1>1
<1>3. QED
  BY <1>2 DEF TypeOK, Conn

LEMMA RunCallType == TypeOK /\ RunCall => TypeOK'
<1> SUFFICES ASSUME TypeOK, RunCall PROVE TypeOK'
  OBVIOUS
<1>1. conn' \in [Conns -> Conn]
  BY RunCallIs, ConnMoves
<1>2. Tail(calls) \in Seq(Conns \X Event)
  BY HeadTailProperties DEF RunCall, TypeOK
<1>3. QED
  BY <1>1, <1>2, LoopType DEF RunCall

LEMMA SubscribeType == TypeOK /\ (\E c \in Conns : Subscribe(c)) => TypeOK'
<1> SUFFICES ASSUME TypeOK, NEW c \in Conns, Subscribe(c) PROVE TypeOK'
  OBVIOUS
<1>1. conn' \in [Conns -> Conn]
  BY SubscribeIs, ConnMoves
<1>2. \/ buffer' = buffer
      \/ buffer' = [buffer EXCEPT !.subscribers = @ \cup {c}]
  BY DEF Subscribe
<1>3. UNCHANGED <<row, worker, calls, restarts>> /\ calls \in Seq(Conns \X Event)
  BY DEF Subscribe, TypeOK
<1>4. QED
  BY <1>1, <1>2, <1>3, LoopType

LEMMA CloseType ==
  ASSUME TypeOK, NEW c \in Conns, Close(c), UNCHANGED <<row, worker, calls, restarts>>
  PROVE  TypeOK'
<1>1. conn' \in [Conns -> Conn]
  BY CloseIs, ConnMoves
<1>2. buffer' = [buffer EXCEPT !.subscribers = @ \ {c}] /\ calls \in Seq(Conns \X Event)
  BY DEF Close, TypeOK
<1>3. QED
  BY <1>1, <1>2, LoopType

LEMMA ServeType == TypeOK /\ (\E c \in Conns : Serve(c)) => TypeOK'
<1> SUFFICES ASSUME TypeOK, NEW c \in Conns, Serve(c) PROVE TypeOK'
  OBVIOUS
<1>1. calls \in Seq(Conns \X Event)
  BY DEF TypeOK
<1>2. CASE SendBacklog(c)
  <2>1. conn' \in [Conns -> Conn]
    BY <1>2, SendBacklogIs, ConnMoves
  <2>2. QED
    BY <1>1, <1>2, <2>1, LoopType DEF SendBacklog
<1>3. CASE BacklogSent(c)
  <2>1. CASE conn[c].ended
    BY <1>3, <2>1, CloseType DEF BacklogSent
  <2>2. CASE ~conn[c].ended
    <3>1. conn' \in [Conns -> Conn]
      BY <1>3, <2>2, BacklogSentIs, ConnMoves
    <3>2. QED
      BY <1>1, <1>3, <2>2, <3>1, LoopType DEF BacklogSent
  <2>3. QED
    BY <2>1, <2>2
<1>4. CASE SendLive(c)
  <2>1. conn' \in [Conns -> Conn]
    BY <1>4, SendLiveIs, ConnMoves
  <2>2. \/ buffer' = buffer
        \/ buffer' = [buffer EXCEPT !.subscribers = @ \ {c}]
    BY <1>4 DEF SendLive
  <2>3. UNCHANGED <<row, worker, calls, restarts>>
    BY <1>4 DEF SendLive
  <2>4. QED
    BY <1>1, <2>1, <2>2, <2>3, LoopType
<1>5. QED
  BY <1>2, <1>3, <1>4 DEF Serve

LEMMA RestartType == TypeOK /\ Restart => TypeOK'
<1> SUFFICES ASSUME TypeOK, Restart PROVE TypeOK'
  OBVIOUS
<1>1. NewBuffer \in [backlog : Seq(Event), subscribers : SUBSET Conns, closed : BOOLEAN]
  BY DEF NewBuffer
<1>2. Progress(0) \in Event /\ 0 \in 0 .. NumNodes
  BY EventType, StreamAssumption
<1>3. worker' \in [pc : {"node", "progress", "terminal", "fan", "idle"},
                   targets : SUBSET Conns, event : Event]
  BY <1>2 DEF Restart, Running
<1>4. row' \in [status : Status, done : 0 .. NumNodes]
  BY <1>2 DEF Restart, TypeOK
<1>5. restarts' \in 0 .. MaxRestarts /\ calls' \in Seq(Conns \X Event)
  BY StreamAssumption DEF Restart, TypeOK
<1>6. conn' \in [Conns -> Conn]
  <2>1. \A c \in Conns : Closed(c) \in Conn /\ conn[c] \in Conn
    BY ConnType DEF Closed, Conn
  <2>2. QED
    BY <2>1 DEF Restart, Closed
<1>7. QED
  BY <1>1, <1>3, <1>4, <1>5, <1>6 DEF Restart, TypeOK, Conn

LEMMA TypeStep == TypeOK /\ Published /\ [Next]_vars => TypeOK'
<1> SUFFICES ASSUME TypeOK, Published, [Next]_vars PROVE TypeOK'
  OBVIOUS
<1>1. ASSUME NEW c \in Conns, Disconnect(c) PROVE TypeOK'
  BY <1>1, CloseType DEF Disconnect
<1>2. CASE UNCHANGED vars
  BY <1>2 DEF vars, TypeOK
<1>3. QED
  BY <1>1, <1>2, WorkerType, RunCallType, SubscribeType, ServeType, RestartType DEF Next

-----------------------------------------------------------------------------
(* What appending to and taking from a sequence of events does             *)

LEMMA Appended ==
  ASSUME NEW s \in Seq(Event), NEW e \in Event
  PROVE  /\ Append(s, e) \in Seq(Event) /\ Len(Append(s, e)) = Len(s) + 1 /\ Len(s) \in Nat
         /\ Append(s, e) # << >> /\ Append(s, e)[Len(s) + 1] = e
         /\ \A i \in 1 .. Len(s) : Append(s, e)[i] = s[i]
  BY AppendProperties, LenProperties

LEMMA Taken ==
  ASSUME NEW s \in Seq(Event), s # << >>
  PROVE  /\ Len(s) \in Nat \ {0} /\ Head(s) = s[1] /\ Head(s) \in Event
         /\ Tail(s) \in Seq(Event) /\ Len(Tail(s)) = Len(s) - 1
         /\ \A i \in 1 .. Len(s) - 1 : Tail(s)[i] = s[i + 1]
  BY HeadTailProperties, LenProperties, EmptySeq

LEMMA AppendedLast ==
  ASSUME NEW s \in Seq(Event), NEW e \in Event, NoFinal(s), FinalIsRow(e)
  PROVE  FinalLast(Append(s, e)) /\ (e.event \notin Final => NoFinal(Append(s, e)))
<1> DEFINE a == Append(s, e)
<1>1. Len(a) = Len(s) + 1 /\ Len(s) \in Nat /\ a[Len(s) + 1] = e
      /\ \A i \in 1 .. Len(s) : a[i] = s[i]
  BY Appended
<1> HIDE DEF a
<1>2. ASSUME NEW i \in 1 .. Len(a) PROVE (i = Len(a) /\ a[i] = e) \/ a[i].event \notin Final
  <2>1. CASE i = Len(a)
    BY <1>1, <2>1
  <2>2. CASE i # Len(a)
    <3>1. i \in 1 .. Len(s)
      BY <1>1, <2>2
    <3>2. QED
      BY <1>1, <3>1 DEF NoFinal
  <2>3. QED
    BY <2>1, <2>2
<1>3. FinalLast(a) /\ (e.event \notin Final => NoFinal(a))
  BY <1>2 DEF FinalLast, NoFinal, FinalIsRow
<1>4. QED
  BY <1>3 DEF a

(* The events that are left after the first one was taken.                 *)
LEMMA TakenLast ==
  ASSUME NEW s \in Seq(Event), s # << >>, FinalLast(s)
  PROVE  /\ FinalIsRow(Head(s)) /\ FinalLast(Tail(s))
         /\ NoFinal(s) => Head(s).event \notin Final /\ NoFinal(Tail(s))
         /\ Head(s).event \in Final => Tail(s) = << >>
         /\ Tail(s) # << >> => /\ Head(s).event \notin Final
                               /\ Tail(s)[Len(Tail(s))] = s[Len(s)]
         /\ Tail(s) = << >> => Head(s) = s[Len(s)]
<1> DEFINE t == Tail(s)
<1>1. /\ Len(s) \in Nat \ {0} /\ Head(s) = s[1] /\ t \in Seq(Event) /\ Len(t) = Len(s) - 1
      /\ \A i \in 1 .. Len(s) - 1 : t[i] = s[i + 1]
  BY Taken
<1>2. t = << >> <=> Len(t) = 0
  BY <1>1, EmptySeq
<1> HIDE DEF t
<1>3. 1 \in 1 .. Len(s) /\ \A i \in 1 .. Len(t) : i + 1 \in 1 .. Len(s) /\ t[i] = s[i + 1]
  BY <1>1
<1>4. FinalIsRow(Head(s)) /\ (Head(s).event \in Final => Len(t) = 0)
  BY <1>1, <1>3 DEF FinalLast, FinalIsRow
<1>5. FinalLast(t)
  <2> SUFFICES ASSUME NEW i \in 1 .. Len(t), t[i].event \in Final
               PROVE  i = Len(t) /\ t[i] = Over(row.status)
    BY DEF FinalLast
  <2>1. i + 1 = Len(s) /\ s[i + 1] = Over(row.status)
    BY <1>3 DEF FinalLast
  <2>2. QED
    BY <1>1, <1>3, <2>1
<1>6. NoFinal(s) => Head(s).event \notin Final /\ NoFinal(t)
  BY <1>1, <1>3 DEF NoFinal
<1>7. t # << >> => Len(t) \in 1 .. Len(t) /\ t[Len(t)] = s[Len(s)]
  BY <1>1, <1>2
<1>8. t = << >> => Head(s) = s[Len(s)]
  <2> SUFFICES ASSUME t = << >> PROVE Head(s) = s[Len(s)]
    OBVIOUS
  <2>1. Len(t) = 0
    BY <1>2
  <2>2. Len(s) = 1
    BY <1>1, <2>1
  <2>3. QED
    BY <1>1, <2>2
<1>9. QED
  BY <1>2, <1>4, <1>5, <1>6, <1>7, <1>8 DEF t

-----------------------------------------------------------------------------
(* The connections *)

LEMMA FinalStatus ==
  ASSUME NEW e, FinalIsRow(e), e.event \in Final
  PROVE  row.status \in Final
  BY DEF FinalIsRow, Over

LEMMA NoneWhileRunning ==
  ASSUME row.status = "running"
  PROVE  /\ \A e : FinalIsRow(e) => e.event \notin Final
         /\ \A s : FinalLast(s) => NoFinal(s)
  BY DEF FinalIsRow, FinalLast, NoFinal, Over, Final

(* What a step does not touch.                                             *)
LEMMA ShownStays ==
  ASSUME NEW c \in Conns, Shown(c), conn'[c] = conn[c], row'.status = row.status
  PROVE  Shown(c)'
  BY DEF Shown, FinalLast, FinalIsRow, NoFinal, Over

LEMMA OthersStay ==
  ASSUME TypeOK, \A d \in Conns : Shown(d), NEW c \in Conns, NEW s \in Conn,
         conn' = [conn EXCEPT ![c] = s], row'.status = row.status, Shown(c)'
  PROVE  \A d \in Conns : Shown(d)'
<1> TAKE d \in Conns
<1>1. CASE d = c
  BY <1>1
<1>2. CASE d # c
  BY <1>2, ConnMoves, ShownStays
<1>3. QED
  BY <1>1, <1>2

LEMMA RunCallShown ==
  ASSUME IInv, RunCall
  PROVE  \A d \in Conns : Shown(d)'
<1>1. PICK c \in Conns, e \in Event :
        /\ Head(calls) = <<c, e>> /\ Called(c, e) \in Conn
        /\ conn' = [conn EXCEPT ![c] = Called(c, e)]
  BY RunCallIs DEF IInv
<1>2. TypeOK /\ conn'[c] = Called(c, e) /\ row' = row
  BY <1>1, ConnMoves DEF IInv, RunCall
<1>3. Len(calls) \in Nat \ {0} /\ calls[1] = <<c, e>>
  <2>1. calls \in Seq(Conns \X Event) /\ calls # << >>
    BY DEF IInv, TypeOK, RunCall
  <2>2. Len(calls) \in Nat \ {0}
    BY <2>1, EmptySeq
  <2> QED
    BY <1>1, <2>2
<1>4. FinalIsRow(e) /\ conn[c].st # "new"
  <2>1. 1 \in 1 .. Len(calls) /\ calls[1][1] = c /\ calls[1][2] = e
    BY <1>3
  <2>2. QED
    BY <2>1 DEF IInv, Published, Addressed
<1> DEFINE s == conn[c]
           q == Append(s.queue, e)
<1>5. /\ Called(c, e).queue = q /\ Called(c, e).st = s.st /\ Called(c, e).todo = s.todo
      /\ Called(c, e).sent = s.sent /\ Called(c, e).ended = s.ended
  BY <1>2, ConnType DEF Called, Conn
<1>6. Len(q) = Len(s.queue) + 1 /\ Len(s.queue) \in Nat /\ q[Len(s.queue) + 1] = e
      /\ \A i \in 1 .. Len(s.queue) : q[i] = s.queue[i]
  BY <1>2, ConnType, Appended
<1>7. Shown(c)
  BY DEF IInv
<1> HIDE DEF q
<1>8. \A i \in 1 .. Len(q) : FinalIsRow(q[i])
  <2> TAKE i \in 1 .. Len(q)
  <2>1. CASE i = Len(q)
    BY <1>4, <1>6, <2>1
  <2>2. CASE i # Len(q)
    <3>1. i \in 1 .. Len(s.queue)
      BY <1>6, <2>2
    <3>2. QED
      BY <1>6, <1>7, <3>1 DEF Shown
  <2>3. QED
    BY <2>1, <2>2
<1>9. Shown(c)'
  BY <1>2, <1>4, <1>5, <1>7, <1>8 DEF Shown, FinalLast, FinalIsRow, NoFinal
<1>10. QED
  BY <1>1, <1>2, <1>9, OthersStay DEF IInv

LEMMA BacklogShown ==
  ASSUME NEW c \in Conns, NEW q, NEW t, NEW a, NEW ended, row' = row,
         conn'[c].st = "backlog", conn'[c].queue = q, conn'[c].todo = t,
         conn'[c].sent = a, conn'[c].ended = ended,
         \A i \in 1 .. Len(q) : FinalIsRow(q[i]),
         FinalLast(t), FinalLast(a),
         ~ended => NoFinal(a) /\ NoFinal(t),
         ended => /\ row.status \in Final
                  /\ t # << >> => NoFinal(a) /\ t[Len(t)].event \in Final
                  /\ t = << >> => a # << >> /\ a[Len(a)].event \in Final
  PROVE  Shown(c)'
BY DEF Shown, FinalLast, FinalIsRow, NoFinal

LEMMA SubscribeShown ==
  ASSUME IInv, NEW c \in Conns, Subscribe(c)
  PROVE  \A d \in Conns : Shown(d)'
<1>1. /\ TypeOK /\ Subscribed(c) \in Conn /\ conn' = [conn EXCEPT ![c] = Subscribed(c)]
      /\ conn'[c] = Subscribed(c)
  BY SubscribeIs, ConnMoves DEF IInv
<1>2. row' = row /\ conn[c] = NewConn
  BY DEF Subscribe, IInv, Shown
<1>3. /\ Subscribed(c).st = "backlog" /\ Subscribed(c).todo = buffer.backlog
      /\ Subscribed(c).queue = << >> /\ Subscribed(c).sent = << >>
      /\ Subscribed(c).ended <=> buffer.closed
  <2>1. /\ NewConn.queue = << >> /\ NewConn.sent = << >> /\ ~NewConn.ended
        /\ conn[c] \in Conn
    BY <1>1, ConnType DEF NewConn
  <2>2. CASE buffer.closed
    BY <1>2, <2>1, <2>2 DEF Subscribed, Conn
  <2>3. CASE ~buffer.closed
    BY <1>2, <2>1, <2>3 DEF Subscribed, Conn
  <2>4. QED
    BY <2>2, <2>3
<1>4. /\ FinalLast(buffer.backlog) /\ (~buffer.closed => NoFinal(buffer.backlog))
      /\ buffer.closed => /\ buffer.backlog # << >> /\ row.status \in Final
                          /\ buffer.backlog[Len(buffer.backlog)].event \in Final
  BY DEF IInv, Published
<1>5. Len(<< >>) = 0
  OBVIOUS
<1>6. Shown(c)'
  <2> DEFINE t == buffer.backlog
             s == conn'[c]
  <2>1. /\ s.st = "backlog" /\ s.todo = t /\ s.queue = << >> /\ s.sent = << >>
        /\ s.ended <=> buffer.closed
    BY <1>1, <1>3
  <2>2. FinalLast(<< >>) /\ NoFinal(<< >>)
    BY <1>5 DEF FinalLast, NoFinal
  <2>3. /\ ~s.ended => NoFinal(t)
        /\ s.ended => /\ row.status \in Final /\ t # << >>
                      /\ t[Len(t)].event \in Final
    BY <1>4, <2>1
  <2> HIDE DEF t
  <2>4. FinalLast(t)
    BY <1>4 DEF t
  <2>5. QED
    BY <1>2, <1>5, <2>1, <2>2, <2>3, <2>4, BacklogShown
<1>7. QED
  BY <1>1, <1>2, <1>6, OthersStay DEF IInv

LEMMA CloseShown ==
  ASSUME IInv, NEW c \in Conns, Close(c), row' = row, conn[c].st \in {"backlog", "live"}
  PROVE  \A d \in Conns : Shown(d)'
<1>1. /\ TypeOK /\ Closed(c) \in Conn /\ conn' = [conn EXCEPT ![c] = Closed(c)]
      /\ conn'[c] = Closed(c)
  BY CloseIs, ConnMoves DEF IInv
<1>2. /\ Closed(c).st = "closed" /\ Closed(c).todo = conn[c].todo
      /\ Closed(c).queue = conn[c].queue /\ Closed(c).sent = conn[c].sent
      /\ Closed(c).ended = conn[c].ended
  BY <1>1, ConnType DEF Closed, Conn
<1>3. Shown(c)'
  BY <1>1, <1>2 DEF Shown, IInv, FinalLast, FinalIsRow, NoFinal
<1>4. QED
  BY <1>1, <1>3, OthersStay DEF IInv

LEMMA SendBacklogShown ==
  ASSUME IInv, NEW c \in Conns, SendBacklog(c)
  PROVE  \A d \in Conns : Shown(d)'
<1> DEFINE s == conn[c]
           e == Head(s.todo)
           a == Append(s.sent, e)
           t == Tail(s.todo)
<1>1. /\ TypeOK /\ Sent(c) \in Conn /\ conn' = [conn EXCEPT ![c] = Sent(c)]
      /\ conn'[c] = Sent(c) /\ row' = row
  BY SendBacklogIs, ConnMoves DEF IInv, SendBacklog
<1>2. /\ Sent(c).st = "backlog" /\ Sent(c).todo = t /\ Sent(c).queue = s.queue
      /\ Sent(c).sent = a /\ Sent(c).ended = s.ended
  BY <1>1, ConnType DEF Sent, Conn, SendBacklog
<1>3. /\ s.todo \in Seq(Event) /\ s.sent \in Seq(Event) /\ s.todo # << >> /\ e \in Event
  BY <1>1, ConnType, Taken DEF SendBacklog
<1>4. Shown(c)
  BY DEF IInv
<1>5. /\ FinalIsRow(e) /\ FinalLast(t)
      /\ NoFinal(s.todo) => e.event \notin Final /\ NoFinal(t)
      /\ t # << >> => e.event \notin Final /\ t[Len(t)] = s.todo[Len(s.todo)]
      /\ t = << >> => e = s.todo[Len(s.todo)]
  BY <1>3, <1>4, TakenLast DEF Shown
<1>6. NoFinal(s.sent)
  BY <1>3, <1>4 DEF Shown
<1>7. /\ FinalLast(a) /\ (e.event \notin Final => NoFinal(a)) /\ a # << >>
      /\ a[Len(a)] = e
  BY <1>3, <1>5, <1>6, AppendedLast, Appended
<1> HIDE DEF a, t, e
<1>8. Shown(c)'
  <2>1. \A i \in 1 .. Len(s.queue) : FinalIsRow(s.queue[i])
    BY <1>4 DEF Shown
  <2>2. ~s.ended => NoFinal(a) /\ NoFinal(t)
    BY <1>4, <1>5, <1>7 DEF Shown
  <2>3. s.ended =>
          /\ row.status \in Final
          /\ t # << >> => NoFinal(a) /\ t[Len(t)].event \in Final
          /\ t = << >> => a # << >> /\ a[Len(a)].event \in Final
    BY <1>3, <1>4, <1>5, <1>7 DEF Shown
  <2> DEFINE q == s.queue
             ended == s.ended
  <2> HIDE DEF q, ended
  <2>4. /\ conn'[c].st = "backlog" /\ conn'[c].queue = q /\ conn'[c].todo = t
        /\ conn'[c].sent = a /\ conn'[c].ended = ended
    BY <1>1, <1>2 DEF q, ended
  <2>5. /\ \A i \in 1 .. Len(q) : FinalIsRow(q[i])
        /\ ~ended => NoFinal(a) /\ NoFinal(t)
        /\ ended =>
             /\ row.status \in Final
             /\ t # << >> => NoFinal(a) /\ t[Len(t)].event \in Final
             /\ t = << >> => a # << >> /\ a[Len(a)].event \in Final
    BY <2>1, <2>2, <2>3 DEF q, ended
  <2>6. QED
    BY <1>1, <1>5, <1>7, <2>4, <2>5, BacklogShown
<1>9. QED
  BY <1>1, <1>8, OthersStay DEF IInv

LEMMA SendLiveShown ==
  ASSUME IInv, NEW c \in Conns, SendLive(c)
  PROVE  \A d \in Conns : Shown(d)'
<1> DEFINE s == conn[c]
           e == Head(s.queue)
           a == Append(s.sent, e)
           t == Tail(s.queue)
<1>1. /\ TypeOK /\ Streamed(c) \in Conn /\ conn' = [conn EXCEPT ![c] = Streamed(c)]
      /\ conn'[c] = Streamed(c) /\ row' = row
  BY SendLiveIs, ConnMoves DEF IInv, SendLive
<1>2. /\ Streamed(c).st = (IF e.event \in Final THEN "closed" ELSE "live")
      /\ Streamed(c).todo = s.todo /\ Streamed(c).queue = t /\ Streamed(c).sent = a
  BY <1>1, ConnType DEF Streamed, Conn, SendLive
<1>3. Streamed(c).ended <=> e.event \in Final
  BY <1>1, ConnType DEF Streamed, Conn, SendLive
<1>4. /\ s.queue \in Seq(Event) /\ s.sent \in Seq(Event) /\ s.queue # << >> /\ e \in Event
      /\ Len(s.queue) \in Nat \ {0} /\ e = s.queue[1] /\ Len(t) = Len(s.queue) - 1
      /\ \A i \in 1 .. Len(t) : t[i] = s.queue[i + 1]
  BY <1>1, ConnType, Taken DEF SendLive
<1>5. Shown(c) /\ s.st = "live"
  BY DEF IInv, SendLive
<1>6. /\ \A i \in 1 .. Len(s.queue) : FinalIsRow(s.queue[i])
      /\ ~s.ended /\ s.todo = << >> /\ NoFinal(s.sent) /\ NoFinal(s.todo)
  BY <1>5 DEF Shown
<1>7. FinalIsRow(e)
  BY <1>4, <1>6
<1>8. \A i \in 1 .. Len(t) : FinalIsRow(t[i])
  <2> TAKE i \in 1 .. Len(t)
  <2>1. i + 1 \in 1 .. Len(s.queue)
    BY <1>4
  <2>2. QED
    BY <1>4, <1>6, <2>1
<1>9. /\ FinalLast(a) /\ (e.event \notin Final => NoFinal(a)) /\ a # << >>
      /\ a[Len(a)] = e
  BY <1>4, <1>6, <1>7, AppendedLast, Appended
<1>10. e.event \in Final => row.status \in Final
  BY <1>7, FinalStatus
<1> HIDE DEF a, t, e
<1>11. Shown(c)'
  BY <1>1, <1>2, <1>3, <1>6, <1>8, <1>9, <1>10 DEF Shown, FinalLast, FinalIsRow, NoFinal
<1>12. QED
  BY <1>1, <1>11, OthersStay DEF IInv

LEMMA BacklogSentShown ==
  ASSUME IInv, NEW c \in Conns, BacklogSent(c)
  PROVE  \A d \in Conns : Shown(d)'
<1>1. CASE conn[c].ended
  BY <1>1, CloseShown DEF BacklogSent
<1>2. CASE ~conn[c].ended
  <2>1. /\ TypeOK /\ WentLive(c) \in Conn /\ conn' = [conn EXCEPT ![c] = WentLive(c)]
        /\ conn'[c] = WentLive(c) /\ row' = row
    BY <1>2, BacklogSentIs, ConnMoves DEF IInv, BacklogSent
  <2>2. /\ WentLive(c).st = "live" /\ WentLive(c).todo = conn[c].todo
        /\ WentLive(c).queue = conn[c].queue /\ WentLive(c).sent = conn[c].sent
        /\ WentLive(c).ended = conn[c].ended
    BY <2>1, ConnType DEF WentLive, Conn
  <2>3. Shown(c)'
    BY <1>2, <2>1, <2>2 DEF Shown, IInv, BacklogSent, FinalLast, FinalIsRow, NoFinal
  <2>4. QED
    BY <2>1, <2>3, OthersStay DEF IInv
<1>3. QED
  BY <1>1, <1>2

LEMMA RestartShown ==
  ASSUME IInv, Restart
  PROVE  \A d \in Conns : Shown(d)'
<1> TAKE c \in Conns
<1>1. row'.status = row.status
  BY DEF Restart, IInv, TypeOK
<1>2. Shown(c) /\ conn[c] \in Conn
  BY ConnType DEF IInv
<1>3. CASE conn[c].st \in {"backlog", "live"}
  <2>1. conn'[c] = [conn[c] EXCEPT !.st = "closed"]
    BY <1>3 DEF Restart
  <2>2. /\ conn'[c].st = "closed" /\ conn'[c].todo = conn[c].todo
        /\ conn'[c].queue = conn[c].queue /\ conn'[c].sent = conn[c].sent
        /\ conn'[c].ended = conn[c].ended
    BY <1>2, <2>1 DEF Conn
  <2>3. QED
    BY <1>1, <1>2, <2>2 DEF Shown, FinalLast, FinalIsRow, NoFinal, Over
<1>4. CASE conn[c].st \notin {"backlog", "live"}
  BY <1>1, <1>2, <1>4, ShownStays DEF Restart
<1>5. QED
  BY <1>3, <1>4

(* The status is stored before any stream can show it.                     *)
LEMMA MarkTerminalShown ==
  ASSUME IInv, MarkTerminal
  PROVE  \A d \in Conns : Shown(d)'
<1> TAKE c \in Conns
<1>1. row.status = "running" /\ row'.status \in Final /\ conn'[c] = conn[c]
  BY DEF MarkTerminal, IInv, Published, TypeOK
<1>2. Shown(c)
  BY DEF IInv
<1>3. /\ \A i \in 1 .. Len(conn[c].queue) : conn[c].queue[i].event \notin Final
      /\ NoFinal(conn[c].todo) /\ NoFinal(conn[c].sent) /\ ~conn[c].ended
  BY <1>1, <1>2, NoneWhileRunning DEF Shown, Final
<1>4. QED
  BY <1>1, <1>2, <1>3 DEF Shown, FinalLast, FinalIsRow, NoFinal

LEMMA ShownStep ==
  ASSUME IInv, [Next]_vars
  PROVE  \A d \in Conns : Shown(d)'
<1>1. ASSUME row'.status = row.status, conn' = conn PROVE \A d \in Conns : Shown(d)'
  BY <1>1, ShownStays DEF IInv
<1>2. CASE Worker
  <2>1. CASE RecordProgress
    <3>1. row'.status = row.status /\ conn' = conn
      BY <2>1 DEF RecordProgress, IInv, TypeOK
    <3>2. QED
      BY <1>1, <3>1
  <2>2. CASE PublishProgress \/ PublishTerminal \/ FanOut
    <3>1. row' = row /\ conn' = conn
      BY <2>2 DEF PublishProgress, PublishTerminal, FanOut
    <3>2. QED
      BY <1>1, <3>1
  <2>3. QED
    BY <1>2, <2>1, <2>2, MarkTerminalShown DEF Worker
<1>3. ASSUME NEW c \in Conns, Serve(c) PROVE \A d \in Conns : Shown(d)'
  BY <1>3, SendBacklogShown, BacklogSentShown, SendLiveShown DEF Serve
<1>4. ASSUME NEW c \in Conns, Disconnect(c) PROVE \A d \in Conns : Shown(d)'
  BY <1>4, CloseShown DEF Disconnect
<1>5. CASE UNCHANGED vars
  BY <1>1, <1>5 DEF vars
<1>6. QED
  BY <1>2, <1>3, <1>4, <1>5, RunCallShown, SubscribeShown, RestartShown DEF Next

-----------------------------------------------------------------------------
(* The worker and the buffer *)

LEMMA PublishKeeps ==
  ASSUME IInv, NEW e \in Event, publish(e), UNCHANGED <<row, calls>>, ~buffer.closed,
         FinalIsRow(e), e.event \in Final \/ row.status = "running"
  PROVE  Published'
<1> DEFINE b == Append(buffer.backlog, e)
<1>1. /\ TypeOK /\ buffer.backlog \in Seq(Event) /\ NoFinal(buffer.backlog)
      /\ \A i \in 1 .. Len(calls) : FinalIsRow(calls[i][2])
  BY DEF IInv, TypeOK, Published
<1>2. worker'.pc = "fan" /\ worker'.event = e /\ buffer'.backlog = b
  BY <1>1 DEF publish, TypeOK
<1>3. buffer'.closed <=> e.event \in Final
  BY <1>1 DEF publish, TypeOK
<1>4. FinalLast(b) /\ (e.event \notin Final => NoFinal(b)) /\ b # << >> /\ b[Len(b)] = e
  BY <1>1, AppendedLast, Appended
<1>5. e.event \in Final => row.status \in Final
  BY FinalStatus
<1> HIDE DEF b
<1>6. QED
  BY <1>1, <1>2, <1>3, <1>4, <1>5 DEF Published, FinalLast, FinalIsRow, NoFinal

LEMMA PublishedStep ==
  ASSUME IInv, [Next]_vars
  PROVE  Published'
<1>1. Published /\ TypeOK
  BY DEF IInv
<1>2. ASSUME row'.status = row.status, UNCHANGED <<worker, calls>>,
             buffer'.backlog = buffer.backlog, buffer'.closed = buffer.closed
      PROVE  Published'
  BY <1>1, <1>2 DEF Published, FinalLast, FinalIsRow, NoFinal, Over
<1>3. CASE RecordProgress
  <2>1. /\ row'.status = row.status /\ row.status = "running" /\ ~buffer.closed
        /\ worker'.pc = "progress" /\ worker'.event = worker.event
        /\ UNCHANGED <<buffer, calls>>
    BY <1>1, <1>3 DEF RecordProgress, TypeOK, Published
  <2>2. QED
    BY <1>1, <2>1 DEF Published, FinalLast, FinalIsRow, NoFinal, Over
<1>4. CASE PublishProgress
  <2>1. Progress(row.done) \in Event /\ Progress(row.done).event \notin Final
    BY <1>1, EventType DEF TypeOK, Progress, Final
  <2>2. row.status = "running" /\ ~buffer.closed
    BY <1>1, <1>4 DEF PublishProgress, Published
  <2>3. FinalIsRow(Progress(row.done))
    BY <2>1 DEF FinalIsRow
  <2>4. QED
    BY <1>4, <2>1, <2>2, <2>3, PublishKeeps DEF PublishProgress
<1>5. CASE MarkTerminal
  <2>1. /\ row.status = "running" /\ row'.status \in Final /\ ~buffer.closed
        /\ worker'.pc = "terminal" /\ worker'.event = worker.event
        /\ UNCHANGED <<buffer, calls>>
    BY <1>1, <1>5 DEF MarkTerminal, TypeOK, Published
  <2>2. /\ worker.event.event \notin Final /\ NoFinal(buffer.backlog)
        /\ \A i \in 1 .. Len(calls) : calls[i][2].event \notin Final
    BY <1>1, <2>1, NoneWhileRunning DEF Published
  <2>3. QED
    BY <2>1, <2>2 DEF Published, FinalLast, FinalIsRow, NoFinal
<1>6. CASE PublishTerminal
  <2>1. row.status \in Final /\ ~buffer.closed
    BY <1>1, <1>6 DEF PublishTerminal, Published
  <2>2. Over(row.status) \in Event /\ Over(row.status).event \in Final
    BY <2>1, EventType DEF Over
  <2>3. FinalIsRow(Over(row.status))
    BY DEF FinalIsRow
  <2>4. QED
    BY <1>6, <2>1, <2>2, <2>3, PublishKeeps DEF PublishTerminal
<1>7. CASE FanOut
  <2>1. UNCHANGED <<row, buffer>> /\ worker.pc = "fan"
    BY <1>7 DEF FanOut
  <2>2. CASE worker.targets = {}
    <3>1. /\ worker'.pc = (IF worker.event.event \in Final THEN "idle" ELSE "node")
          /\ worker'.event = worker.event /\ calls' = calls
      BY <1>1, <1>7, <2>2 DEF FanOut, TypeOK
    <3>2. QED
      BY <1>1, <2>1, <3>1 DEF Published, FinalLast, FinalIsRow, NoFinal
  <2>3. ASSUME NEW c \in worker.targets, calls' = Append(calls, <<c, worker.event>>),
               worker' = [worker EXCEPT !.targets = @ \ {c}]
        PROVE  Published'
    <3>1. worker'.pc = worker.pc /\ worker'.event = worker.event
      BY <1>1, <2>3 DEF TypeOK
    <3>2. calls \in Seq(Conns \X Event) /\ <<c, worker.event>> \in Conns \X Event
      BY <1>1 DEF TypeOK
    <3>3. /\ Len(calls') = Len(calls) + 1 /\ Len(calls) \in Nat
          /\ calls'[Len(calls) + 1] = <<c, worker.event>>
          /\ \A i \in 1 .. Len(calls) : calls'[i] = calls[i]
      BY <2>3, <3>2, AppendProperties, LenProperties
    <3>4. \A i \in 1 .. Len(calls') : FinalIsRow(calls'[i][2])
      <4> TAKE i \in 1 .. Len(calls')
      <4>1. CASE i = Len(calls')
        BY <1>1, <3>3, <4>1 DEF Published
      <4>2. CASE i # Len(calls')
        <5>1. i \in 1 .. Len(calls)
          BY <3>3, <4>2
        <5>2. QED
          BY <1>1, <3>3, <5>1 DEF Published
      <4>3. QED
        BY <4>1, <4>2
    <3>5. QED
      BY <1>1, <2>1, <3>1, <3>4 DEF Published, FinalLast, FinalIsRow, NoFinal
  <2>4. QED
    BY <1>7, <2>2, <2>3 DEF FanOut
<1>8. CASE RunCall
  <2>1. UNCHANGED <<row, buffer, worker>> /\ calls' = Tail(calls) /\ calls # << >>
    BY <1>8 DEF RunCall
  <2>2. /\ Len(calls') = Len(calls) - 1 /\ Len(calls) \in Nat \ {0}
        /\ \A i \in 1 .. Len(calls') : calls'[i] = calls[i + 1]
    BY <1>1, <2>1, HeadTailProperties, LenProperties, EmptySeq DEF TypeOK
  <2>3. \A i \in 1 .. Len(calls') : i + 1 \in 1 .. Len(calls)
    BY <2>2
  <2>4. QED
    BY <1>1, <2>1, <2>2, <2>3 DEF Published, FinalLast, FinalIsRow, NoFinal
<1>9. ASSUME NEW c \in Conns, Subscribe(c) \/ Serve(c) \/ Disconnect(c) PROVE Published'
  <2>1. UNCHANGED <<row, worker, calls>>
    BY <1>9 DEF Subscribe, Serve, SendBacklog, BacklogSent, SendLive, Disconnect
  <2>2. buffer'.backlog = buffer.backlog /\ buffer'.closed = buffer.closed
    <3>1. \/ buffer' = buffer
          \/ buffer' = [buffer EXCEPT !.subscribers = @ \cup {c}]
          \/ buffer' = [buffer EXCEPT !.subscribers = @ \ {c}]
      BY <1>9 DEF Subscribe, Serve, SendBacklog, BacklogSent, SendLive, Disconnect, Close
    <3>2. QED
      BY <1>1, <3>1 DEF TypeOK
  <2>3. QED
    BY <1>2, <2>1, <2>2
<1>10. CASE Restart
  <2>1. /\ ~buffer'.closed /\ buffer'.backlog = << >> /\ calls' = << >>
        /\ worker'.event = Progress(0) /\ worker'.pc \in {"idle", "node"}
        /\ worker'.pc = "node" => row.status = "running"
        /\ row'.status = row.status
    BY <1>1, <1>10 DEF Restart, NewBuffer, Running, TypeOK
  <2>2. Progress(0).event \notin Final /\ Len(<< >>) = 0
    BY DEF Progress, Final
  <2>3. QED
    BY <2>1, <2>2 DEF Published, FinalLast, FinalIsRow, NoFinal
<1>11. CASE UNCHANGED vars
  BY <1>2, <1>11 DEF vars
<1>12. QED
  BY <1>3, <1>4, <1>5, <1>6, <1>7, <1>8, <1>9, <1>10, <1>11 DEF Next, Worker

-----------------------------------------------------------------------------
(* Subscriptions *)

LEMMA SubscribedStep ==
  ASSUME IInv, [Next]_vars
  PROVE  Addressed' /\ NoSubscriberLeak'
<1>1. TypeOK /\ Addressed /\ NoSubscriberLeak
  BY DEF IInv
<1>2. worker.targets \subseteq Conns /\ buffer.subscribers \subseteq Conns
      /\ calls \in Seq(Conns \X Event)
  BY <1>1 DEF TypeOK
<1>3. \A i \in 1 .. Len(calls) : calls[i][1] \in Conns
  BY <1>2, ElementOfSeq
<1>4. ASSUME UNCHANGED <<conn, calls>>,
             worker'.targets \subseteq worker.targets \cup buffer.subscribers,
             buffer'.subscribers = buffer.subscribers
      PROVE  Addressed' /\ NoSubscriberLeak'
  BY <1>1, <1>4 DEF Addressed, NoSubscriberLeak
<1>5. ASSUME NEW e, publish(e), UNCHANGED <<conn, calls>>
      PROVE  Addressed' /\ NoSubscriberLeak'
  <2>1. worker'.targets = buffer.subscribers /\ buffer'.subscribers = buffer.subscribers
    BY <1>1, <1>5 DEF publish, TypeOK
  <2>2. QED
    BY <1>4, <1>5, <2>1
<1>6. CASE Worker /\ ~FanOut
  <2>1. CASE RecordProgress \/ MarkTerminal
    <3>1. UNCHANGED <<conn, calls, buffer>> /\ worker'.targets = worker.targets
      BY <1>1, <2>1 DEF RecordProgress, MarkTerminal, TypeOK
    <3>2. QED
      BY <1>4, <3>1
  <2>2. QED
    BY <1>5, <1>6, <2>1 DEF Worker, PublishProgress, PublishTerminal
<1>7. CASE FanOut
  <2>1. CASE worker.targets = {}
    <3>1. UNCHANGED <<conn, calls, buffer>> /\ worker'.targets = worker.targets
      BY <1>1, <1>7, <2>1 DEF FanOut, TypeOK
    <3>2. QED
      BY <1>4, <3>1
  <2>2. ASSUME NEW c \in worker.targets, calls' = Append(calls, <<c, worker.event>>),
               worker' = [worker EXCEPT !.targets = @ \ {c}], UNCHANGED <<conn, buffer>>
        PROVE  Addressed' /\ NoSubscriberLeak'
    <3>1. worker'.targets \subseteq worker.targets
      BY <1>1, <2>2 DEF TypeOK
    <3>2. /\ Len(calls') = Len(calls) + 1 /\ Len(calls) \in Nat
          /\ calls'[Len(calls) + 1] = <<c, worker.event>>
          /\ \A i \in 1 .. Len(calls) : calls'[i] = calls[i]
      <4>1. <<c, worker.event>> \in Conns \X Event
        BY <1>1 DEF TypeOK
      <4>2. QED
        BY <1>2, <2>2, <4>1, AppendProperties, LenProperties
    <3>3. \A i \in 1 .. Len(calls') : conn[calls'[i][1]].st # "new"
      <4> TAKE i \in 1 .. Len(calls')
      <4>1. CASE i = Len(calls')
        <5>1. calls'[i][1] = c
          BY <3>2, <4>1
        <5>2. QED
          BY <1>1, <5>1 DEF Addressed
      <4>2. CASE i # Len(calls')
        <5>1. i \in 1 .. Len(calls)
          BY <3>2, <4>2
        <5>2. QED
          BY <1>1, <3>2, <5>1 DEF Addressed
      <4>3. QED
        BY <4>1, <4>2
    <3>4. QED
      BY <1>1, <2>2, <3>1, <3>3 DEF Addressed, NoSubscriberLeak
  <2>3. QED
    BY <1>7, <2>1, <2>2 DEF FanOut
<1>8. ASSUME NEW c \in Conns, NEW s \in Conn, conn' = [conn EXCEPT ![c] = s], s.st # "new",
             worker' = worker,
             \A i \in 1 .. Len(calls') : \E j \in 1 .. Len(calls) : calls'[i] = calls[j],
             buffer'.subscribers \subseteq buffer.subscribers \cup {c},
             c \in buffer'.subscribers => s.st \in {"backlog", "live"}
      PROVE  Addressed' /\ NoSubscriberLeak'
  <2>1. conn'[c] = s /\ \A d \in Conns \ {c} : conn'[d] = conn[d]
    BY <1>1, <1>8, ConnMoves
  <2>2. \A d \in Conns : conn[d].st # "new" => conn'[d].st # "new"
    BY <1>8, <2>1
  <2>3. Addressed'
    BY <1>1, <1>2, <1>3, <1>8, <2>2 DEF Addressed
  <2>4. NoSubscriberLeak'
    BY <1>1, <1>2, <1>8, <2>1 DEF NoSubscriberLeak
  <2>5. QED
    BY <2>3, <2>4
<1>9. calls' = calls => \A i \in 1 .. Len(calls') : \E j \in 1 .. Len(calls) : calls'[i] = calls[j]
  OBVIOUS
<1>10. CASE RunCall
  <2>1. PICK c \in Conns, e \in Event :
          /\ Head(calls) = <<c, e>> /\ Called(c, e) \in Conn
          /\ conn' = [conn EXCEPT ![c] = Called(c, e)]
    BY <1>1, <1>10, RunCallIs
  <2>2. /\ calls' = Tail(calls) /\ Len(calls) \in Nat \ {0} /\ calls[1] = <<c, e>>
        /\ Len(calls') = Len(calls) - 1
        /\ \A i \in 1 .. Len(calls') : calls'[i] = calls[i + 1]
    BY <1>2, <1>10, <2>1, HeadTailProperties, LenProperties, EmptySeq DEF RunCall
  <2>3. \A i \in 1 .. Len(calls') : \E j \in 1 .. Len(calls) : calls'[i] = calls[j]
    <3> TAKE i \in 1 .. Len(calls')
    <3>1. i + 1 \in 1 .. Len(calls)
      BY <2>2
    <3>2. QED
      BY <2>2, <3>1
  <2>4. conn[c].st # "new" /\ Called(c, e).st = conn[c].st
    <3>1. 1 \in 1 .. Len(calls) /\ calls[1][1] = c
      BY <2>2
    <3>2. QED
      BY <1>1, <3>1, ConnType DEF Addressed, Called, Conn
  <2>5. UNCHANGED <<worker, buffer>>
    BY <1>10 DEF RunCall
  <2>6. c \in buffer'.subscribers => Called(c, e).st \in {"backlog", "live"}
    BY <1>1, <2>4, <2>5 DEF NoSubscriberLeak
  <2>7. buffer'.subscribers \subseteq buffer.subscribers \cup {c}
    BY <2>5
  <2>8. QED
    BY <1>8, <2>1, <2>3, <2>4, <2>5, <2>6, <2>7
<1>11. ASSUME NEW c \in Conns, Subscribe(c) PROVE Addressed' /\ NoSubscriberLeak'
  <2>1. Subscribed(c) \in Conn /\ conn' = [conn EXCEPT ![c] = Subscribed(c)]
    BY <1>1, <1>11, SubscribeIs
  <2>2. Subscribed(c).st = "backlog"
    BY <1>1, ConnType DEF Subscribed, Conn
  <2>3. buffer'.subscribers \subseteq buffer.subscribers \cup {c} /\ UNCHANGED <<worker, calls>>
    BY <1>1, <1>11 DEF Subscribe, TypeOK
  <2>4. QED
    BY <1>8, <1>9, <2>1, <2>2, <2>3
<1>12. ASSUME NEW c \in Conns, Close(c), UNCHANGED <<worker, calls>>
       PROVE  Addressed' /\ NoSubscriberLeak'
  <2>1. Closed(c) \in Conn /\ conn' = [conn EXCEPT ![c] = Closed(c)]
    BY <1>1, <1>12, CloseIs
  <2>2. Closed(c).st = "closed"
    BY <1>1, ConnType DEF Closed, Conn
  <2>3. buffer'.subscribers = buffer.subscribers \ {c}
    BY <1>1, <1>12 DEF Close, TypeOK
  <2>4. QED
    BY <1>8, <1>9, <1>12, <2>1, <2>2, <2>3
<1>13. ASSUME NEW c \in Conns, Serve(c) PROVE Addressed' /\ NoSubscriberLeak'
  <2>1. UNCHANGED <<worker, calls>>
    BY <1>13 DEF Serve, SendBacklog, BacklogSent, SendLive
  <2>2. CASE SendBacklog(c)
    <3>1. Sent(c) \in Conn /\ conn' = [conn EXCEPT ![c] = Sent(c)] /\ buffer' = buffer
      BY <1>1, <2>2, SendBacklogIs DEF SendBacklog
    <3>2. Sent(c).st = "backlog"
      BY <1>1, <2>2, ConnType DEF Sent, Conn, SendBacklog
    <3>3. QED
      BY <1>8, <1>9, <2>1, <3>1, <3>2
  <2>3. CASE BacklogSent(c) /\ ~conn[c].ended
    <3>1. WentLive(c) \in Conn /\ conn' = [conn EXCEPT ![c] = WentLive(c)] /\ buffer' = buffer
      BY <1>1, <2>3, BacklogSentIs DEF BacklogSent
    <3>2. WentLive(c).st = "live"
      BY <1>1, ConnType DEF WentLive, Conn
    <3>3. QED
      BY <1>8, <1>9, <2>1, <3>1, <3>2
  <2>4. CASE SendLive(c)
    <3>1. Streamed(c) \in Conn /\ conn' = [conn EXCEPT ![c] = Streamed(c)]
      BY <1>1, <2>4, SendLiveIs
    <3>2. Streamed(c).st = (IF Head(conn[c].queue).event \in Final THEN "closed" ELSE "live")
      BY <1>1, ConnType DEF Streamed, Conn
    <3>3. buffer'.subscribers = IF Head(conn[c].queue).event \in Final
                                THEN buffer.subscribers \ {c} ELSE buffer.subscribers
      BY <1>1, <2>4 DEF SendLive, TypeOK
    <3>4. QED
      BY <1>8, <1>9, <2>1, <3>1, <3>2, <3>3
  <2>5. QED
    BY <1>12, <1>13, <2>1, <2>2, <2>3, <2>4 DEF Serve, BacklogSent
<1>14. CASE Restart
  <2>1. worker'.targets = {} /\ calls' = << >> /\ buffer'.subscribers = {}
    BY <1>14 DEF Restart, Running, NewBuffer
  <2>2. QED
    BY <2>1 DEF Addressed, NoSubscriberLeak
<1>15. CASE UNCHANGED vars
  BY <1>4, <1>15 DEF vars
<1>16. ASSUME NEW c \in Conns, Disconnect(c) PROVE Addressed' /\ NoSubscriberLeak'
  BY <1>12, <1>16 DEF Disconnect
<1>17. QED
  BY <1>6, <1>7, <1>10, <1>11, <1>13, <1>14, <1>15, <1>16 DEF Next

-----------------------------------------------------------------------------
(* The calls for one connection among all of them *)

Pairs == Conns \X Event

(* turn has the n calls of q for c, in their order.                        *)
Ordered(q, c, n, turn) ==
  turn \in [1 .. n -> CallsFor(q, c)] /\ InTurn(turn, CallsFor(q, c))

LEMMA PairAt ==
  ASSUME NEW q \in Seq(Pairs)
  PROVE  /\ Len(q) \in Nat
         /\ \A k \in 1 .. Len(q) : q[k] \in Pairs /\ q[k][1] \in Conns /\ q[k][2] \in Event
<1>1. Len(q) \in Nat /\ \A k \in 1 .. Len(q) : q[k] \in Pairs
  BY ElementOfSeq, LenProperties
<1>2. \A x \in Pairs : x[1] \in Conns /\ x[2] \in Event
  BY DEF Pairs
<1> QED
  BY <1>1, <1>2

(* a has the events of the n calls, one by one.                            *)
Lists(a, q, n, turn) ==
  a \in Seq(Event) /\ Len(a) = n /\ \A i \in 1 .. n : a[i] = q[turn[i]][2]

LEMMA PutIs ==
  ASSUME NEW q \in Seq(Pairs), NEW c, NEW n \in Nat, NEW turn, Ordered(q, c, n, turn)
  PROVE  /\ Lists(ToPut(q, turn), q, n, turn)
         /\ \A i \in 1 .. n : turn[i] \in 1 .. Len(q) /\ turn[i] \in CallsFor(q, c)
<1>1. /\ turn \in [1 .. n -> CallsFor(q, c)] /\ DOMAIN turn = 1 .. n
      /\ \A i \in 1 .. n : turn[i] \in 1 .. Len(q) /\ turn[i] \in CallsFor(q, c)
  BY DEF Ordered, CallsFor
<1>2. \A i \in 1 .. n : q[turn[i]][2] \in Event
  BY <1>1, PairAt
<1>3. ToPut(q, turn) = [i \in 1 .. n |-> q[turn[i]][2]]
  BY <1>1 DEF ToPut
<1>4. ToPut(q, turn) \in [1 .. n -> Event]
  BY <1>2, <1>3
<1> QED
  BY <1>1, <1>2, <1>3, <1>4, LenProperties DEF Lists

(* A call for another is added.                                            *)
LEMMA AddedOther ==
  ASSUME NEW q \in Seq(Pairs), NEW x \in Pairs, NEW c, x[1] # c, NEW n \in Nat, NEW turn,
         Ordered(q, c, n, turn)
  PROVE  Ordered(Append(q, x), c, n, turn) /\ ToPut(Append(q, x), turn) = ToPut(q, turn)
<1> DEFINE p == Append(q, x)
<1>1. /\ Len(p) = Len(q) + 1 /\ Len(q) \in Nat /\ p[Len(q) + 1] = x
      /\ \A k \in 1 .. Len(q) : p[k] = q[k]
  BY AppendProperties, LenProperties
<1> HIDE DEF p
<1>2. \A k \in 1 .. Len(p) : k = Len(q) + 1 \/ k \in 1 .. Len(q)
  BY <1>1
<1>3. \A k \in 1 .. Len(q) : k \in 1 .. Len(p)
  BY <1>1
<1>4. CallsFor(p, c) = CallsFor(q, c)
  BY <1>1, <1>2, <1>3 DEF CallsFor
<1>5. Ordered(p, c, n, turn)
  BY <1>4 DEF Ordered
<1>6. DOMAIN turn = 1 .. n /\ \A i \in 1 .. n : p[turn[i]] = q[turn[i]]
  BY <1>1, PutIs DEF Ordered
<1>7. ToPut(p, turn) = ToPut(q, turn)
  BY <1>6 DEF ToPut
<1> QED
  BY <1>5, <1>7 DEF p

(* A call for c is added: it is the last of them.                          *)
LEMMA AddedMine ==
  ASSUME NEW q \in Seq(Pairs), NEW x \in Pairs, NEW n \in Nat, NEW turn,
         Ordered(q, x[1], n, turn)
  PROVE  \E t : /\ Ordered(Append(q, x), x[1], n + 1, t)
                /\ ToPut(Append(q, x), t) = Append(ToPut(q, turn), x[2])
<1> DEFINE c == x[1]
           p == Append(q, x)
<1>t. PICK t : t = [i \in 1 .. n + 1 |-> IF i = n + 1 THEN Len(q) + 1 ELSE turn[i]]
  OBVIOUS
<1>1. /\ p \in Seq(Pairs) /\ Len(p) = Len(q) + 1 /\ Len(q) \in Nat /\ p[Len(q) + 1] = x
      /\ \A k \in 1 .. Len(q) : p[k] = q[k]
  BY AppendProperties, LenProperties
<1>2. x[2] \in Event
  BY DEF Pairs
<1> HIDE DEF p, c
<1>3. \A k : k \in CallsFor(p, c) <=> k \in CallsFor(q, c) \/ k = Len(q) + 1
  <2>1. \A k \in 1 .. Len(p) : k = Len(q) + 1 \/ k \in 1 .. Len(q)
    BY <1>1
  <2>2. Len(q) + 1 \in 1 .. Len(p) /\ \A k \in 1 .. Len(q) : k \in 1 .. Len(p)
    BY <1>1
  <2> QED
    BY <1>1, <2>1, <2>2 DEF CallsFor, c
<1>4. /\ DOMAIN turn = 1 .. n
      /\ \A i, j \in 1 .. n : i < j => turn[i] < turn[j]
      /\ \A k \in CallsFor(q, c) : \E i \in 1 .. n : turn[i] = k
  BY DEF Ordered, InTurn, c
<1>5. \A i \in 1 .. n : turn[i] \in CallsFor(q, c) /\ turn[i] \in 1 .. Len(q)
  BY PutIs DEF c
<1>6. /\ DOMAIN t = 1 .. n + 1 /\ t[n + 1] = Len(q) + 1
      /\ \A i \in 1 .. n : i \in 1 .. n + 1 /\ t[i] = turn[i]
      /\ \A i \in 1 .. n + 1 : i = n + 1 \/ i \in 1 .. n
      /\ n + 1 \in 1 .. n + 1
  BY <1>t
<1>7. t \in [1 .. n + 1 -> CallsFor(p, c)]
  BY <1>t, <1>3, <1>5
<1>8. \A i, j \in 1 .. n + 1 : i < j => t[i] < t[j]
  <2> SUFFICES ASSUME NEW i \in 1 .. n + 1, NEW j \in 1 .. n + 1, i < j PROVE t[i] < t[j]
    OBVIOUS
  <2>1. i \in 1 .. n
    BY <1>6
  <2>2. CASE j \in 1 .. n
    BY <1>4, <1>6, <2>1, <2>2
  <2>3. CASE j = n + 1
    BY <1>1, <1>5, <1>6, <2>1, <2>3
  <2> QED
    BY <1>6, <2>2, <2>3
<1>9. \A k \in CallsFor(p, c) : \E i \in 1 .. n + 1 : t[i] = k
  BY <1>3, <1>4, <1>6
<1>10. Ordered(p, c, n + 1, t)
  BY <1>6, <1>7, <1>8, <1>9 DEF Ordered, InTurn
<1>11. ToPut(p, t) = Append(ToPut(q, turn), x[2])
  <2> DEFINE a == ToPut(q, turn)
             b == ToPut(p, t)
  <2>a. Lists(a, q, n, turn)
    BY PutIs
  <2>b. Lists(b, p, n + 1, t)
    <3>1. n + 1 \in Nat /\ p \in Seq(Pairs)
      BY <1>1
    <3> QED
      BY <1>10, <3>1, PutIs
  <2> HIDE DEF a, b
  <2>1. /\ a \in Seq(Event) /\ Len(a) = n
        /\ \A i \in 1 .. n : a[i] = q[turn[i]][2]
    BY <2>a DEF Lists
  <2>2. /\ b \in Seq(Event) /\ Len(b) = n + 1
        /\ \A i \in 1 .. n + 1 : b[i] = p[t[i]][2]
    BY <2>b DEF Lists
  <2>3. /\ Append(a, x[2]) \in Seq(Event) /\ Len(Append(a, x[2])) = n + 1
        /\ Append(a, x[2])[n + 1] = x[2] /\ \A i \in 1 .. n : Append(a, x[2])[i] = a[i]
    BY <1>2, <2>1, AppendProperties
  <2>4. \A i \in 1 .. n + 1 : b[i] = Append(a, x[2])[i]
    <3> TAKE i \in 1 .. n + 1
    <3>1. CASE i = n + 1
      BY <1>1, <1>6, <2>2, <2>3, <3>1
    <3>2. CASE i \in 1 .. n
      <4>1. t[i] = turn[i] /\ turn[i] \in 1 .. Len(q)
        BY <1>5, <1>6, <3>2
      <4>2. p[t[i]] = q[turn[i]]
        BY <1>1, <4>1
      <4> QED
        BY <2>1, <2>2, <2>3, <3>2, <4>2
    <3> QED
      BY <1>6, <3>1, <3>2
  <2> QED
    BY <2>2, <2>3, <2>4, SeqEqual DEF a, b
<1> QED
  BY <1>10, <1>11 DEF p, c

(* The first call is taken away.                                           *)
LEMMA TailCalls ==
  ASSUME NEW q \in Seq(Pairs), q # << >>, NEW c
  PROVE  /\ Len(q) \in Nat \ {0} /\ Tail(q) \in Seq(Pairs) /\ Len(Tail(q)) = Len(q) - 1
         /\ Head(q) = q[1]
         /\ \A k \in 1 .. Len(q) - 1 : Tail(q)[k] = q[k + 1]
         /\ \A k \in Nat : k \in CallsFor(Tail(q), c) <=> k # 0 /\ k + 1 \in CallsFor(q, c)
<1>1. /\ Len(q) \in Nat \ {0} /\ Tail(q) \in Seq(Pairs) /\ Len(Tail(q)) = Len(q) - 1
      /\ \A k \in 1 .. Len(q) - 1 : Tail(q)[k] = q[k + 1]
  BY HeadTailProperties, EmptySeq
<1>2. \A k \in Nat : k \in 1 .. Len(q) - 1 <=> k # 0 /\ k + 1 \in 1 .. Len(q)
  BY <1>1
<1>3. Head(q) = q[1]
  OBVIOUS
<1> QED
  BY <1>1, <1>2, <1>3 DEF CallsFor

LEMMA TakenOther ==
  ASSUME NEW q \in Seq(Pairs), q # << >>, NEW c, q[1][1] # c, NEW n \in Nat, NEW turn,
         Ordered(q, c, n, turn)
  PROVE  \E t : Ordered(Tail(q), c, n, t) /\ ToPut(Tail(q), t) = ToPut(q, turn)
<1> DEFINE p == Tail(q)
<1>t. PICK t : t = [i \in 1 .. n |-> turn[i] - 1]
  OBVIOUS
<1>1. /\ Len(q) \in Nat \ {0} /\ p \in Seq(Pairs) /\ Len(p) = Len(q) - 1
      /\ \A k \in 1 .. Len(q) - 1 : p[k] = q[k + 1]
      /\ \A k \in Nat : k \in CallsFor(p, c) <=> k # 0 /\ k + 1 \in CallsFor(q, c)
  BY TailCalls
<1> HIDE DEF p
<1>2. /\ DOMAIN turn = 1 .. n
      /\ \A i, j \in 1 .. n : i < j => turn[i] < turn[j]
      /\ \A k \in CallsFor(q, c) : \E i \in 1 .. n : turn[i] = k
  BY DEF Ordered, InTurn
<1>3. \A i \in 1 .. n : /\ turn[i] \in CallsFor(q, c) /\ turn[i] \in 1 .. Len(q)
                        /\ turn[i] # 1
  <2>1. 1 \notin CallsFor(q, c)
    BY DEF CallsFor
  <2> QED
    BY <2>1, PutIs
<1>4. \A i \in 1 .. n : /\ t[i] \in Nat \ {0} /\ t[i] + 1 = turn[i]
                        /\ t[i] \in 1 .. Len(q) - 1 /\ t[i] \in CallsFor(p, c)
  <2> TAKE i \in 1 .. n
  <2>1. t[i] = turn[i] - 1 /\ turn[i] \in 1 .. Len(q) /\ turn[i] # 1
    BY <1>t, <1>3
  <2>a. Len(q) \in Nat
    BY <1>1
  <2>2. t[i] \in Nat \ {0} /\ t[i] + 1 = turn[i] /\ t[i] \in 1 .. Len(q) - 1
    BY <2>a, <2>1
  <2> QED
    BY <1>1, <1>3, <2>2
<1>6. DOMAIN t = 1 .. n
  BY <1>t
<1>5. t \in [1 .. n -> CallsFor(p, c)]
  BY <1>t, <1>4
<1>7. \A i, j \in 1 .. n : i < j => t[i] < t[j]
  <2> SUFFICES ASSUME NEW i \in 1 .. n, NEW j \in 1 .. n, i < j PROVE t[i] < t[j]
    OBVIOUS
  <2>1. t[i] + 1 < t[j] + 1 /\ t[i] \in Nat /\ t[j] \in Nat
    BY <1>2, <1>4
  <2> QED
    BY <2>1
<1>8. \A k \in CallsFor(p, c) : \E i \in 1 .. n : t[i] = k
  <2> TAKE k \in CallsFor(p, c)
  <2>1. k \in Nat
    BY DEF CallsFor
  <2>2. PICK i \in 1 .. n : turn[i] = k + 1
    BY <1>1, <1>2, <2>1
  <2>3. t[i] + 1 = k + 1 /\ t[i] \in Nat
    BY <1>4, <2>2
  <2> QED
    BY <2>1, <2>3
<1>9. Ordered(p, c, n, t)
  BY <1>5, <1>6, <1>7, <1>8 DEF Ordered, InTurn
<1>10. ToPut(p, t) = ToPut(q, turn)
  <2>1. Lists(ToPut(q, turn), q, n, turn) /\ Lists(ToPut(p, t), p, n, t)
    BY <1>1, <1>9, PutIs
  <2>2. \A i \in 1 .. n : p[t[i]] = q[turn[i]]
    BY <1>1, <1>4
  <2> QED
    BY <2>1, <2>2, SeqEqual DEF Lists
<1> QED
  BY <1>9, <1>10 DEF p

(* The first of the n calls for c is taken, and brings the event e.        *)
Took(q, c, e, n, turn) ==
  \E t : /\ Ordered(Tail(q), c, n - 1, t)
         /\ ToPut(q, turn) = <<e>> \o ToPut(Tail(q), t)

LEMMA TakenMine ==
  ASSUME NEW q \in Seq(Pairs), q # << >>, NEW c, NEW e, q[1] = <<c, e>>, NEW n \in Nat,
         NEW turn, Ordered(q, c, n, turn)
  PROVE  n # 0 /\ Took(q, c, e, n, turn)
<1> DEFINE p == Tail(q)
<1>0. q[1][1] = c /\ q[1][2] = e
  OBVIOUS
<1>t. PICK t : t = [i \in 1 .. n - 1 |-> turn[i + 1] - 1]
  OBVIOUS
<1>1. /\ Len(q) \in Nat \ {0} /\ p \in Seq(Pairs) /\ Len(p) = Len(q) - 1
      /\ \A k \in 1 .. Len(q) - 1 : p[k] = q[k + 1]
      /\ \A k \in Nat : k \in CallsFor(p, c) <=> k # 0 /\ k + 1 \in CallsFor(q, c)
  BY TailCalls
<1>2. 1 \in CallsFor(q, c)
  BY <1>0, <1>1 DEF CallsFor
<1> HIDE DEF p
<1>3. /\ DOMAIN turn = 1 .. n
      /\ \A i, j \in 1 .. n : i < j => turn[i] < turn[j]
      /\ \A k \in CallsFor(q, c) : \E i \in 1 .. n : turn[i] = k
  BY DEF Ordered, InTurn
<1>4. \A i \in 1 .. n : turn[i] \in CallsFor(q, c) /\ turn[i] \in 1 .. Len(q)
  BY PutIs
<1>5. n # 0 /\ turn[1] = 1
  <2>1. PICK i \in 1 .. n : turn[i] = 1
    BY <1>2, <1>3
  <2>2. 1 \in 1 .. n
    BY <2>1
  <2>3. i = 1
    <3> SUFFICES ASSUME 1 < i PROVE FALSE
      BY <2>1
    <3>1. turn[1] < turn[i] /\ turn[1] \in 1 .. Len(q)
      BY <1>3, <1>4, <2>2
    <3> QED
      BY <2>1, <3>1
  <2> QED
    BY <2>1, <2>2, <2>3
<1>6. \A i \in 1 .. n - 1 : i + 1 \in 1 .. n /\ 1 \in 1 .. n /\ 1 < i + 1
  BY <1>5
<1>7. \A i \in 1 .. n - 1 : 1 < turn[i + 1] /\ turn[i + 1] \in 1 .. Len(q)
  BY <1>3, <1>4, <1>5, <1>6
<1>8. \A i \in 1 .. n - 1 : /\ t[i] \in Nat \ {0} /\ t[i] + 1 = turn[i + 1]
                            /\ t[i] \in 1 .. Len(q) - 1 /\ t[i] \in CallsFor(p, c)
  <2> TAKE i \in 1 .. n - 1
  <2>0. PICK k \in 1 .. Len(q) : k = turn[i + 1]
    BY <1>7
  <2>1. t[i] = k - 1 /\ k \in 1 .. Len(q) /\ 1 < k
    BY <1>t, <1>7, <2>0
  <2>a. Len(q) \in Nat
    BY <1>1
  <2>2. t[i] \in Nat \ {0} /\ t[i] + 1 = k /\ t[i] \in 1 .. Len(q) - 1
    BY <2>a, <2>1
  <2> QED
    BY <1>1, <1>4, <1>6, <2>0, <2>2
<1>9. t \in [1 .. n - 1 -> CallsFor(p, c)]
  BY <1>t, <1>8
<1>10. DOMAIN t = 1 .. n - 1
  BY <1>t
<1>11. \A i, j \in 1 .. n - 1 : i < j => t[i] < t[j]
  <2> SUFFICES ASSUME NEW i \in 1 .. n - 1, NEW j \in 1 .. n - 1, i < j PROVE t[i] < t[j]
    OBVIOUS
  <2>1. i + 1 \in 1 .. n /\ j + 1 \in 1 .. n /\ i + 1 < j + 1
    BY <1>6
  <2>2. t[i] + 1 < t[j] + 1 /\ t[i] \in Nat /\ t[j] \in Nat
    BY <1>3, <1>8, <2>1
  <2> QED
    BY <2>2
<1>12. \A k \in CallsFor(p, c) : \E i \in 1 .. n - 1 : t[i] = k
  <2> TAKE k \in CallsFor(p, c)
  <2>1. k \in Nat /\ k # 0
    BY DEF CallsFor
  <2>2. PICK i \in 1 .. n : turn[i] = k + 1
    BY <1>1, <1>3, <2>1
  <2>3. i # 1 /\ i - 1 \in 1 .. n - 1 /\ (i - 1) + 1 = i
    BY <1>5, <2>1, <2>2
  <2>4. t[i - 1] + 1 = k + 1 /\ t[i - 1] \in Nat
    BY <1>8, <2>2, <2>3
  <2>5. t[i - 1] = k
    BY <2>1, <2>4
  <2> QED
    BY <2>3, <2>5
<1>13. Ordered(p, c, n - 1, t)
  BY <1>9, <1>10, <1>11, <1>12 DEF Ordered, InTurn
<1>14. ToPut(q, turn) = <<e>> \o ToPut(p, t)
  <2> DEFINE a == ToPut(q, turn)
             b == ToPut(p, t)
  <2>a. Lists(a, q, n, turn)
    BY PutIs
  <2>2. n - 1 \in Nat
    BY <1>5
  <2>b. Lists(b, p, n - 1, t)
    BY <1>1, <1>13, <2>2, PutIs
  <2>4. e \in Event
    <3>1. 1 \in 1 .. Len(q)
      BY <1>1
    <3> QED
      BY <1>0, <3>1, PairAt
  <2> HIDE DEF a, b
  <2>1. a \in Seq(Event) /\ Len(a) = n /\ \A i \in 1 .. n : a[i] = q[turn[i]][2]
    BY <2>a DEF Lists
  <2>3. b \in Seq(Event) /\ Len(b) = n - 1 /\ \A i \in 1 .. n - 1 : b[i] = p[t[i]][2]
    BY <2>b DEF Lists
  <2>5. <<e>> \in Seq(Event) /\ Len(<<e>>) = 1 /\ <<e>>[1] = e
    BY <2>4
  <2>6. /\ <<e>> \o b \in Seq(Event) /\ Len(<<e>> \o b) = 1 + (n - 1)
        /\ \A i \in 1 .. 1 + (n - 1) :
             (<<e>> \o b)[i] = IF i <= 1 THEN <<e>>[i] ELSE b[i - 1]
    BY <2>3, <2>5, ConcatProperties
  <2>7. 1 + (n - 1) = n
    OBVIOUS
  <2>8. \A i \in 1 .. n : a[i] = (<<e>> \o b)[i]
    <3> TAKE i \in 1 .. n
    <3>1. CASE i = 1
      BY <1>5, <2>1, <2>5, <2>6, <2>7, <3>1, <1>0
    <3>2. CASE i # 1
      <4>1. i - 1 \in 1 .. n - 1 /\ (i - 1) + 1 = i /\ ~(i <= 1)
        BY <3>2
      <4>2. t[i - 1] \in 1 .. Len(q) - 1 /\ t[i - 1] + 1 = turn[i]
        BY <1>8, <4>1
      <4>3. p[t[i - 1]] = q[turn[i]]
        BY <1>1, <4>2
      <4> QED
        BY <2>1, <2>3, <2>6, <2>7, <4>1, <4>3
    <3> QED
      BY <3>1, <3>2
  <2> QED
    BY <2>1, <2>6, <2>7, <2>8, SeqEqual DEF a, b
<1> QED
  BY <1>5, <1>13, <1>14 DEF p, Took
-----------------------------------------------------------------------------
(* What is on its way to a connection *)

Line(c) == conn[c].sent \o conn[c].todo \o conn[c].queue

(* NothingLost, of one connection.                                         *)
Delivered(c) ==
  \E n \in 0 .. Len(buffer.backlog) : \E turn \in [1 .. n -> CallsFor(calls, c)] :
    /\ InTurn(turn, CallsFor(calls, c))
    /\ Line(c) \o ToPut(calls, turn) \o ToCall(c) = buffer.backlog

LEMMA LineType ==
  ASSUME TypeOK, NEW c \in Conns
  PROVE  Line(c) \in Seq(Event) /\ ToCall(c) \in Seq(Event)
<1>1. Line(c) \in Seq(Event)
  BY ConnType, ConcatProperties DEF Line
<1>2. <<worker.event>> \in Seq(Event) /\ << >> \in Seq(Event)
  BY DEF TypeOK
<1> QED
  BY <1>1, <1>2 DEF ToCall

LEMMA LineTypeNext ==
  ASSUME TypeOK', NEW c \in Conns
  PROVE  Line(c)' \in Seq(Event) /\ ToCall(c)' \in Seq(Event)
<1>1. conn'[c].sent \in Seq(Event) /\ conn'[c].todo \in Seq(Event)
      /\ conn'[c].queue \in Seq(Event)
  BY DEF TypeOK
<1>2. Line(c)' \in Seq(Event)
  BY <1>1, ConcatProperties DEF Line
<1>3. <<worker'.event>> \in Seq(Event) /\ << >> \in Seq(Event)
  BY DEF TypeOK
<1> QED
  BY <1>2, <1>3 DEF ToCall

LEMMA DeliveredIs ==
  ASSUME NEW c, Delivered(c)
  PROVE  \E n, turn :
           /\ n \in Nat
           /\ Ordered(calls, c, n, turn)
           /\ Line(c) \o ToPut(calls, turn) \o ToCall(c) = buffer.backlog
<1>1. PICK n \in 0 .. Len(buffer.backlog) :
        \E turn \in [1 .. n -> CallsFor(calls, c)] :
          /\ InTurn(turn, CallsFor(calls, c))
          /\ Line(c) \o ToPut(calls, turn) \o ToCall(c) = buffer.backlog
  BY DEF Delivered
<1>2. PICK turn \in [1 .. n -> CallsFor(calls, c)] :
        /\ InTurn(turn, CallsFor(calls, c))
        /\ Line(c) \o ToPut(calls, turn) \o ToCall(c) = buffer.backlog
  BY <1>1
<1>3. n \in Nat
  OBVIOUS
<1>4. Ordered(calls, c, n, turn)
  BY <1>2 DEF Ordered
<1> QED
  BY <1>2, <1>3, <1>4

(* There are no more of them than events in the backlog.                   *)
LEMMA Fits ==
  ASSUME NEW l \in Seq(Event), NEW p \in Seq(Event), NEW f \in Seq(Event)
  PROVE  l \o p \o f \in Seq(Event) /\ Len(p) \in 0 .. Len(l \o p \o f)
<1>1. l \o p \in Seq(Event) /\ Len(l \o p) = Len(l) + Len(p)
  BY ConcatProperties
<1>2. (l \o p) \o f \in Seq(Event) /\ Len((l \o p) \o f) = Len(l) + Len(p) + Len(f)
  BY <1>1, ConcatProperties
<1>3. Len(l) \in Nat /\ Len(p) \in Nat /\ Len(f) \in Nat
  BY LenProperties
<1> QED
  BY <1>2, <1>3

LEMMA DeliveredNext ==
  ASSUME TypeOK', NEW c \in Conns, NEW n \in Nat, NEW turn, Ordered(calls', c, n, turn),
         Line(c)' \o ToPut(calls', turn) \o ToCall(c)' = buffer'.backlog
  PROVE  Delivered(c)'
<1>1. calls' \in Seq(Pairs)
  BY DEF TypeOK, Pairs
<1>2. Lists(ToPut(calls', turn), calls', n, turn)
  BY <1>1, PutIs
<1>3. ToPut(calls', turn) \in Seq(Event) /\ Len(ToPut(calls', turn)) = n
  BY <1>2 DEF Lists
<1>4. Line(c)' \in Seq(Event) /\ ToCall(c)' \in Seq(Event)
  BY LineTypeNext
<1>5. n \in 0 .. Len(buffer'.backlog)
  BY <1>3, <1>4, Fits
<1>6. turn \in [1 .. n -> CallsFor(calls', c)] /\ InTurn(turn, CallsFor(calls', c))
  BY DEF Ordered
<1> QED
  BY <1>5, <1>6 DEF Delivered

(* A step that touches nothing of it.                                      *)
LEMMA DeliveredStays ==
  ASSUME TypeOK', NEW c \in Conns, Delivered(c), calls' = calls,
         Line(c)' = Line(c), ToCall(c)' = ToCall(c), buffer'.backlog = buffer.backlog
  PROVE  Delivered(c)'
<1>1. PICK n, turn :
        /\ n \in Nat
        /\ Ordered(calls, c, n, turn)
        /\ Line(c) \o ToPut(calls, turn) \o ToCall(c) = buffer.backlog
  BY DeliveredIs
<1>2. Ordered(calls', c, n, turn) /\ ToPut(calls', turn) = ToPut(calls, turn)
  BY <1>1
<1> QED
  BY <1>1, <1>2, DeliveredNext

LEMMA HeadMoves ==
  ASSUME NEW s \in Seq(Event), NEW t \in Seq(Event), t # << >>
  PROVE  Append(s, Head(t)) \o Tail(t) = s \o t
<1> DEFINE a == Append(s, Head(t)) \o Tail(t)
           b == s \o t
<1>1. /\ Len(t) \in Nat \ {0} /\ Head(t) = t[1] /\ Head(t) \in Event /\ Tail(t) \in Seq(Event)
      /\ Len(Tail(t)) = Len(t) - 1 /\ \A i \in 1 .. Len(t) - 1 : Tail(t)[i] = t[i + 1]
  BY Taken
<1>2. /\ Append(s, Head(t)) \in Seq(Event) /\ Len(Append(s, Head(t))) = Len(s) + 1
      /\ Len(s) \in Nat /\ Append(s, Head(t))[Len(s) + 1] = t[1]
      /\ \A i \in 1 .. Len(s) : Append(s, Head(t))[i] = s[i]
  BY <1>1, Appended
<1>3. /\ a \in Seq(Event) /\ Len(a) = (Len(s) + 1) + (Len(t) - 1)
      /\ \A i \in 1 .. (Len(s) + 1) + (Len(t) - 1) :
           a[i] = IF i <= Len(s) + 1 THEN Append(s, Head(t))[i] ELSE Tail(t)[i - (Len(s) + 1)]
  BY <1>1, <1>2, ConcatProperties
<1>4. /\ b \in Seq(Event) /\ Len(b) = Len(s) + Len(t)
      /\ \A i \in 1 .. Len(s) + Len(t) : b[i] = IF i <= Len(s) THEN s[i] ELSE t[i - Len(s)]
  BY ConcatProperties
<1> HIDE DEF a, b
<1>5. (Len(s) + 1) + (Len(t) - 1) = Len(s) + Len(t)
  BY <1>1, <1>2
<1>6. \A i \in 1 .. Len(b) : a[i] = b[i]
  <2> TAKE i \in 1 .. Len(b)
  <2>0. i \in 1 .. Len(s) + Len(t)
    BY <1>4
  <2>1. CASE i <= Len(s)
    <3>1. i \in 1 .. Len(s) /\ i <= Len(s) + 1
      BY <1>1, <1>2, <2>0, <2>1
    <3> QED
      BY <1>2, <1>3, <1>4, <1>5, <2>0, <2>1, <3>1
  <2>2. CASE i = Len(s) + 1
    <3>1. i <= Len(s) + 1 /\ ~(i <= Len(s)) /\ i - Len(s) = 1
      BY <1>2, <2>2
    <3>2. a[i] = t[1]
      BY <1>2, <1>3, <1>5, <2>0, <2>2, <3>1
    <3>3. b[i] = t[1]
      BY <1>4, <2>0, <3>1
    <3> QED
      BY <3>2, <3>3
  <2>3. CASE i > Len(s) + 1
    <3>1. /\ i - (Len(s) + 1) \in 1 .. Len(t) - 1 /\ (i - (Len(s) + 1)) + 1 = i - Len(s)
          /\ ~(i <= Len(s) + 1) /\ ~(i <= Len(s))
      BY <1>1, <1>2, <2>0, <2>3
    <3>2. a[i] = t[i - Len(s)]
      BY <1>1, <1>3, <1>5, <2>0, <3>1
    <3>3. b[i] = t[i - Len(s)]
      BY <1>4, <2>0, <3>1
    <3> QED
      BY <3>2, <3>3
  <2> QED
    BY <1>1, <1>2, <2>0, <2>1, <2>2, <2>3
<1> QED
  BY <1>3, <1>4, <1>5, <1>6, SeqEqual DEF a, b

-----------------------------------------------------------------------------
(* The steps *)

LEMMA PublishDelivers ==
  ASSUME TypeOK, TypeOK', NEW c \in buffer.subscribers, Delivered(c), worker.pc # "fan",
         NEW e \in Event, publish(e), UNCHANGED <<calls, conn>>
  PROVE  Delivered(c)'
<1>1. c \in Conns /\ buffer.backlog \in Seq(Event)
  BY DEF TypeOK
<1>2. PICK n, turn :
        /\ n \in Nat
        /\ Ordered(calls, c, n, turn)
        /\ Line(c) \o ToPut(calls, turn) \o ToCall(c) = buffer.backlog
  BY DeliveredIs
<1>3. /\ buffer'.backlog = Append(buffer.backlog, e) /\ worker'.pc = "fan"
      /\ worker'.targets = buffer.subscribers /\ worker'.event = e
  BY DEF publish, TypeOK
<1>4. ToCall(c) = << >> /\ ToCall(c)' = <<e>>
  BY <1>3 DEF ToCall
<1> DEFINE l == Line(c)
           p == ToPut(calls, turn)
<1>5. Line(c)' = l
  BY DEF Line
<1>6. p \in Seq(Event) /\ l \in Seq(Event) /\ l \o p \in Seq(Event)
  <2>1. calls \in Seq(Pairs)
    BY DEF TypeOK, Pairs
  <2>2. Lists(p, calls, n, turn)
    BY <1>2, <2>1, PutIs
  <2> QED
    BY <1>1, <2>2, LineType, ConcatProperties DEF Lists
<1> HIDE DEF l, p
<1>7. buffer.backlog = l \o p
  BY <1>2, <1>4, <1>6, ConcatEmptySeq DEF l, p
<1>8. l \o p \o <<e>> = buffer'.backlog
  BY <1>3, <1>6, <1>7, AppendIsConcat
<1> QED
  BY <1>1, <1>2, <1>4, <1>5, <1>8, DeliveredNext DEF p

(* The end of a list may be sent, or appended to what is still to come.    *)
AppendsInside(l, p, e) == (l \o p) \o <<e>> = (l \o Append(p, e)) \o << >>

(* What is sent last and what is appended to the calls to come is the     *)
(* same event, of one list.                                               *)
LEMMA AppendInside ==
  ASSUME NEW S, NEW l \in Seq(S), NEW p \in Seq(S), NEW e \in S
  PROVE  AppendsInside(l, p, e)
<1>1. <<e>> \in Seq(S)
  OBVIOUS
<1>2. PICK g \in Seq(S) : g = <<e>>
  BY <1>1
<1>3. (l \o p) \o g = l \o (p \o g)
  BY ConcatAssociative
<1>4. Append(p, e) = p \o g
  BY <1>2, AppendIsConcat
<1>5. Append(p, e) \in Seq(S)
  BY AppendProperties
<1>6. PICK a \in Seq(S) : a = Append(p, e)
  BY <1>5
<1>7. l \o a \in Seq(S)
  BY ConcatProperties
<1>8. PICK b \in Seq(S) : b = l \o a
  BY <1>7
<1>9. b \o << >> = b
  BY ConcatEmptySeq
<1> QED
  BY <1>2, <1>3, <1>4, <1>6, <1>8, <1>9 DEF AppendsInside

(* The event is handed to a subscriber, c or another.                      *)
LEMMA FanOutDelivers ==
  ASSUME TypeOK, TypeOK', NEW c \in Conns, Delivered(c), worker.pc = "fan",
         NEW d \in worker.targets, calls' = Append(calls, <<d, worker.event>>),
         worker' = [worker EXCEPT !.targets = @ \ {d}], UNCHANGED <<buffer, conn>>
  PROVE  Delivered(c)'
<1> DEFINE x == <<d, worker.event>>
<1>1. /\ calls \in Seq(Pairs) /\ worker.event \in Event /\ d \in Conns
      /\ worker'.pc = "fan" /\ worker'.event = worker.event
      /\ worker'.targets = worker.targets \ {d}
  BY DEF TypeOK, Pairs
<1>2. x \in Pairs /\ x[1] = d /\ x[2] = worker.event
  BY <1>1 DEF Pairs
<1>3. PICK n, turn :
        /\ n \in Nat
        /\ Ordered(calls, c, n, turn)
        /\ Line(c) \o ToPut(calls, turn) \o ToCall(c) = buffer.backlog
  BY DeliveredIs
<1>4. Line(c)' = Line(c) /\ buffer' = buffer
  BY DEF Line
<1> HIDE DEF x
<1>5. CASE d # c
  <2>1. Ordered(calls', c, n, turn) /\ ToPut(calls', turn) = ToPut(calls, turn)
    BY <1>1, <1>2, <1>3, <1>5, AddedOther DEF x
  <2>2. ToCall(c)' = ToCall(c)
    BY <1>1, <1>5 DEF ToCall
  <2> QED
    BY <1>3, <1>4, <2>1, <2>2, DeliveredNext
<1>6. CASE d = c
  <2>1. PICK t : /\ Ordered(calls', c, n + 1, t)
                 /\ ToPut(calls', t) = Append(ToPut(calls, turn), worker.event)
    <3>1. calls' = Append(calls, x) /\ x[1] = c
      BY <1>2, <1>6 DEF x
    <3>2. Ordered(calls, x[1], n, turn)
      BY <1>3, <3>1
    <3>3. \E t : /\ Ordered(Append(calls, x), x[1], n + 1, t)
                 /\ ToPut(Append(calls, x), t) = Append(ToPut(calls, turn), x[2])
      BY <1>1, <1>2, <1>3, <3>2, AddedMine
    <3> QED
      BY <1>2, <3>1, <3>3
  <2>2. ToCall(c) = <<worker.event>> /\ ToCall(c)' = << >>
    BY <1>1, <1>6 DEF ToCall
  <2> DEFINE l == Line(c)
             p == ToPut(calls, turn)
             e == worker.event
  <2>3. p \in Seq(Event) /\ l \in Seq(Event) /\ l \o p \in Seq(Event)
    <3>1. Lists(p, calls, n, turn)
      BY <1>1, <1>3, PutIs
    <3> QED
      BY <3>1, LineType, ConcatProperties DEF Lists
  <2>4. e \in Event /\ <<e>> \in Seq(Event)
    BY <1>1
  <2> HIDE DEF l, p, e
  <2>5. AppendsInside(l, p, e)
    BY <2>3, <2>4, AppendInside
  <2>7. (l \o Append(p, e)) \o << >> = buffer.backlog
    BY <1>3, <2>2, <2>5 DEF AppendsInside, l, p, e
  <2>8. Line(c)' \o ToPut(calls', t) \o ToCall(c)' = buffer'.backlog
    BY <1>4, <2>1, <2>2, <2>7 DEF l, p, e
  <2>9. n + 1 \in Nat
    BY <1>3
  <2> QED
    BY <2>1, <2>8, <2>9, DeliveredNext
<1> QED
  BY <1>5, <1>6

(* The loop puts an event into the queue of c, or of another.              *)
LEMMA RunCallDelivers ==
  ASSUME TypeOK, TypeOK', NEW c \in Conns, Delivered(c), RunCall
  PROVE  Delivered(c)'
<1>1. PICK d \in Conns, e \in Event :
        /\ Head(calls) = <<d, e>> /\ Called(d, e) \in Conn
        /\ conn' = [conn EXCEPT ![d] = Called(d, e)]
  BY RunCallIs
<1>2. /\ calls # << >> /\ calls' = Tail(calls) /\ UNCHANGED <<buffer, worker>>
      /\ calls \in Seq(Pairs)
  BY DEF RunCall, TypeOK, Pairs
<1>3. calls[1][1] = d /\ calls[1][2] = e
  <2>1. calls[1] = <<d, e>>
    BY <1>1, <1>2, TailCalls
  <2> QED
    BY <2>1
<1>4. PICK n, turn :
        /\ n \in Nat
        /\ Ordered(calls, c, n, turn)
        /\ Line(c) \o ToPut(calls, turn) \o ToCall(c) = buffer.backlog
  BY DeliveredIs
<1>5. ToCall(c)' = ToCall(c)
  BY <1>2 DEF ToCall
<1>6. CASE d # c
  <2>1. PICK t : Ordered(calls', c, n, t) /\ ToPut(calls', t) = ToPut(calls, turn)
    BY <1>2, <1>3, <1>4, <1>6, TakenOther
  <2>2. Line(c)' = Line(c)
    BY <1>1, <1>6, ConnMoves DEF Line
  <2> QED
    BY <1>2, <1>4, <1>5, <2>1, <2>2, DeliveredNext
<1>7. CASE d = c
  <2>1. /\ n - 1 \in Nat
        /\ \E t : /\ Ordered(calls', c, n - 1, t)
                  /\ ToPut(calls, turn) = <<e>> \o ToPut(calls', t)
    <3>1. calls[1] = <<c, e>>
      BY <1>1, <1>2, <1>7, TailCalls
    <3>2. n # 0 /\ Took(calls, c, e, n, turn)
      BY <1>2, <1>4, <3>1, TakenMine
    <3>3. n \in Nat
      BY <1>4
    <3> QED
      BY <1>2, <3>2, <3>3 DEF Took
  <2>2. PICK t : /\ Ordered(calls', c, n - 1, t)
                 /\ ToPut(calls, turn) = <<e>> \o ToPut(calls', t)
    BY <2>1
  <2> DEFINE l == Line(c)
             p == ToPut(calls', t)
             s == conn[c].sent \o conn[c].todo
             q == conn[c].queue
  <2>3. p \in Seq(Event)
    <3>1. calls' \in Seq(Pairs)
      BY DEF TypeOK, Pairs
    <3>2. Lists(p, calls', n - 1, t)
      BY <2>1, <2>2, <3>1, PutIs
    <3> QED
      BY <3>2 DEF Lists
  <2>4. s \in Seq(Event) /\ q \in Seq(Event) /\ l = s \o q /\ l \in Seq(Event)
    BY ConnType, LineType, ConcatProperties DEF Line
  <2>5. Line(c)' = s \o Append(q, e)
    <3>1. conn'[c] = Called(c, e)
      BY <1>1, <1>7, ConnMoves
    <3>2. /\ Called(c, e).sent = conn[c].sent /\ Called(c, e).todo = conn[c].todo
          /\ Called(c, e).queue = Append(conn[c].queue, e)
      BY ConnType DEF Called, Conn
    <3> QED
      BY <3>1, <3>2 DEF Line
  <2>6. <<e>> \in Seq(Event)
    BY <1>1
  <2> HIDE DEF l, p, s, q
  <2>7. s \o Append(q, e) = l \o <<e>>
    <3>1. Append(q, e) = q \o <<e>>
      BY <1>1, <2>4, AppendIsConcat
    <3> QED
      BY <2>4, <2>6, <3>1, ConcatAssociative
  <2>8. (l \o <<e>>) \o p = l \o (<<e>> \o p)
    BY <2>3, <2>4, <2>6, ConcatAssociative
  <2>9. Line(c)' \o ToPut(calls', t) \o ToCall(c)' = buffer'.backlog
    BY <1>2, <1>4, <1>5, <2>2, <2>5, <2>7, <2>8 DEF l, p
  <2> QED
    BY <2>1, <2>2, <2>9, DeliveredNext
<1> QED
  BY <1>6, <1>7

(* A subscription takes the backlog, and nothing is on its way to c yet.   *)
LEMMA SubscribeDelivers ==
  ASSUME IInv, TypeOK', NEW c \in Conns, Subscribe(c)
  PROVE  Delivered(c)'
<1>1. /\ TypeOK /\ Addressed /\ Subscribed(c) \in Conn /\ conn'[c] = Subscribed(c)
      /\ conn[c] = NewConn /\ conn[c].st = "new"
  BY SubscribeIs, ConnMoves DEF IInv, Shown, Subscribe
<1>2. buffer.backlog \in Seq(Event) /\ calls \in Seq(Pairs)
  BY <1>1 DEF TypeOK, Pairs
<1>3. UNCHANGED <<worker, calls>> /\ buffer'.backlog = buffer.backlog
  BY <1>1 DEF Subscribe, TypeOK
<1>4. /\ Subscribed(c).todo = buffer.backlog /\ Subscribed(c).queue = << >>
      /\ Subscribed(c).sent = << >>
  <2>1. NewConn.queue = << >> /\ NewConn.sent = << >> /\ conn[c] \in Conn
    BY <1>1, ConnType DEF NewConn
  <2>2. CASE buffer.closed
    BY <1>1, <2>1, <2>2 DEF Subscribed, Conn
  <2>3. CASE ~buffer.closed
    BY <1>1, <2>1, <2>3 DEF Subscribed, Conn
  <2> QED
    BY <2>2, <2>3
<1>5. Line(c)' = buffer.backlog
  BY <1>1, <1>2, <1>4, ConcatEmptySeq DEF Line
<1>6. CallsFor(calls', c) = {}
  BY <1>1, <1>3 DEF CallsFor, Addressed
<1>7. ToCall(c)' = << >>
  BY <1>1, <1>3 DEF ToCall, Addressed
<1>8. PICK turn : turn = [i \in 1 .. 0 |-> 0]
  OBVIOUS
<1>9. 1 .. 0 = {} /\ DOMAIN turn = {} /\ turn \in [1 .. 0 -> {}]
  BY <1>8
<1>10. Ordered(calls', c, 0, turn)
  BY <1>6, <1>9 DEF Ordered, InTurn
<1>11. ToPut(calls', turn) = << >>
  <2>1. Lists(ToPut(calls', turn), calls', 0, turn)
    BY <1>2, <1>3, <1>10, PutIs
  <2> QED
    BY <2>1, EmptySeq DEF Lists
<1>12. Line(c)' \o ToPut(calls', turn) \o ToCall(c)' = buffer'.backlog
  BY <1>2, <1>3, <1>5, <1>7, <1>11, ConcatEmptySeq
<1> QED
  BY <1>10, <1>12, DeliveredNext

(* Sending moves an event along the line.                                  *)
LEMMA ServeDelivers ==
  ASSUME IInv, TypeOK', NEW c \in buffer'.subscribers, c \in buffer.subscribers, Delivered(c),
         Serve(c)
  PROVE  Delivered(c)'
<1>1. TypeOK /\ Shown(c) /\ c \in Conns
  BY DEF IInv, TypeOK
<1>2. UNCHANGED <<worker, calls>> /\ buffer'.backlog = buffer.backlog
  BY <1>1 DEF Serve, SendBacklog, BacklogSent, SendLive, Close, TypeOK
<1>3. ToCall(c)' = ToCall(c)
  BY <1>2 DEF ToCall
<1>4. /\ conn[c].sent \in Seq(Event) /\ conn[c].todo \in Seq(Event)
      /\ conn[c].queue \in Seq(Event) /\ conn[c] \in Conn
  BY <1>1, ConnType
<1>5. Line(c)' = Line(c)
  <2>1. CASE SendBacklog(c)
    <3>1. conn'[c] = Sent(c) /\ conn[c].todo # << >>
      BY <1>1, <2>1, SendBacklogIs, ConnMoves DEF SendBacklog
    <3>2. /\ Sent(c).sent = Append(conn[c].sent, Head(conn[c].todo))
          /\ Sent(c).todo = Tail(conn[c].todo) /\ Sent(c).queue = conn[c].queue
      BY <1>4 DEF Sent, Conn
    <3>3. Append(conn[c].sent, Head(conn[c].todo)) \o Tail(conn[c].todo)
            = conn[c].sent \o conn[c].todo
      BY <1>4, <3>1, HeadMoves
    <3> QED
      BY <3>1, <3>2, <3>3 DEF Line
  <2>2. CASE BacklogSent(c)
    <3>1. ~conn[c].ended
      <4> SUFFICES ASSUME conn[c].ended PROVE FALSE
        OBVIOUS
      <4>1. buffer'.subscribers = buffer.subscribers \ {c}
        BY <1>1, <2>2 DEF BacklogSent, Close, TypeOK
      <4> QED
        BY <4>1
    <3>2. conn'[c] = WentLive(c)
      BY <1>1, <2>2, <3>1, BacklogSentIs, ConnMoves
    <3>3. /\ WentLive(c).sent = conn[c].sent /\ WentLive(c).todo = conn[c].todo
          /\ WentLive(c).queue = conn[c].queue
      BY <1>4 DEF WentLive, Conn
    <3> QED
      BY <3>2, <3>3 DEF Line
  <2>3. CASE SendLive(c)
    <3>1. conn'[c] = Streamed(c) /\ conn[c].queue # << >> /\ conn[c].todo = << >>
      BY <1>1, <2>3, SendLiveIs, ConnMoves DEF SendLive, Shown
    <3>2. /\ Streamed(c).sent = Append(conn[c].sent, Head(conn[c].queue))
          /\ Streamed(c).todo = << >> /\ Streamed(c).queue = Tail(conn[c].queue)
      BY <1>4, <3>1 DEF Streamed, Conn
    <3>3. /\ conn[c].sent \o << >> = conn[c].sent
          /\ Streamed(c).sent \o << >> = Streamed(c).sent
      <4>1. Streamed(c).sent \in Seq(Event)
        BY <1>4, <3>1, <3>2, Taken, Appended
      <4> QED
        BY <1>4, <4>1, ConcatEmptySeq
    <3>4. Append(conn[c].sent, Head(conn[c].queue)) \o Tail(conn[c].queue)
            = conn[c].sent \o conn[c].queue
      BY <1>4, <3>1, HeadMoves
    <3> QED
      BY <3>1, <3>2, <3>3, <3>4 DEF Line
  <2> QED
    BY <2>1, <2>2, <2>3 DEF Serve
<1> QED
  BY <1>1, <1>2, <1>3, <1>5, DeliveredStays

LEMMA SubscribersAre ==
  ASSUME TypeOK, NEW d,
         \/ buffer' = buffer
         \/ buffer' = [buffer EXCEPT !.subscribers = @ \cup {d}]
         \/ buffer' = [buffer EXCEPT !.subscribers = @ \ {d}]
  PROVE  /\ buffer'.backlog = buffer.backlog
         /\ buffer'.subscribers \subseteq buffer.subscribers \cup {d}
         /\ \/ buffer' = [buffer EXCEPT !.subscribers = @ \cup {d}]
            \/ buffer'.subscribers \subseteq buffer.subscribers
<1>1. CASE buffer' = buffer
  BY <1>1
<1>2. CASE buffer' = [buffer EXCEPT !.subscribers = @ \cup {d}]
  BY <1>2 DEF TypeOK
<1>3. CASE buffer' = [buffer EXCEPT !.subscribers = @ \ {d}]
  BY <1>3 DEF TypeOK
<1> QED
  BY <1>1, <1>2, <1>3

LEMMA NothingLostStep ==
  ASSUME IInv, NothingLost, [Next]_vars
  PROVE  NothingLost'
<1> SUFFICES ASSUME NEW c \in buffer'.subscribers PROVE Delivered(c)'
  BY DEF NothingLost, Delivered, Line
<1>1. TypeOK /\ TypeOK' /\ Published /\ c \in Conns
  <2>1. TypeOK'
    BY TypeStep DEF IInv
  <2> QED
    BY <2>1 DEF IInv, TypeOK
<1>2. c \in buffer.subscribers => Delivered(c)
  BY DEF NothingLost, Delivered, Line
<1>3. ASSUME c \in buffer.subscribers, UNCHANGED <<calls, conn>>, ToCall(c)' = ToCall(c),
             buffer'.backlog = buffer.backlog
      PROVE  Delivered(c)'
  BY <1>1, <1>2, <1>3, DeliveredStays DEF Line
<1>4. CASE Worker
  <2>1. c \in buffer.subscribers
    BY <1>1, <1>4 DEF Worker, RecordProgress, PublishProgress, MarkTerminal, PublishTerminal,
                      FanOut, publish, TypeOK
  <2>2. CASE RecordProgress \/ MarkTerminal
    <3>1. UNCHANGED <<calls, conn, buffer>> /\ worker.pc # "fan" /\ worker'.pc # "fan"
      BY <1>1, <2>2 DEF RecordProgress, MarkTerminal, TypeOK
    <3>2. ToCall(c)' = ToCall(c)
      BY <3>1 DEF ToCall
    <3> QED
      BY <1>3, <2>1, <3>1, <3>2
  <2>3. CASE PublishProgress
    <3>1. Progress(row.done) \in Event
      BY <1>1, EventType DEF TypeOK
    <3> QED
      BY <1>1, <1>2, <2>1, <2>3, <3>1, PublishDelivers DEF PublishProgress
  <2>4. CASE PublishTerminal
    <3>1. Over(row.status) \in Event
      BY <1>1, <2>4, EventType DEF PublishTerminal, Published
    <3> QED
      BY <1>1, <1>2, <2>1, <2>4, <3>1, PublishDelivers DEF PublishTerminal
  <2>5. CASE FanOut
    <3>1. worker.pc = "fan" /\ UNCHANGED <<buffer, conn>>
      BY <2>5 DEF FanOut
    <3>2. CASE worker.targets = {}
      <4>1. ToCall(c) = << >> /\ worker'.pc # "fan" /\ calls' = calls
        BY <1>1, <2>5, <3>2 DEF FanOut, ToCall, TypeOK
      <4>2. ToCall(c)' = << >>
        BY <4>1 DEF ToCall
      <4> QED
        BY <1>3, <2>1, <3>1, <4>1, <4>2
    <3>3. ASSUME NEW d \in worker.targets, calls' = Append(calls, <<d, worker.event>>),
                 worker' = [worker EXCEPT !.targets = @ \ {d}]
          PROVE  Delivered(c)'
      BY <1>1, <1>2, <2>1, <3>1, <3>3, FanOutDelivers
    <3> QED
      BY <2>5, <3>2, <3>3 DEF FanOut
  <2> QED
    BY <1>4, <2>2, <2>3, <2>4, <2>5 DEF Worker
<1>5. CASE RunCall
  BY <1>1, <1>2, <1>5, RunCallDelivers DEF RunCall
<1>6. CASE Subscribe(c)
  BY <1>1, <1>6, SubscribeDelivers
<1>7. CASE Serve(c)
  <2>1. c \in buffer.subscribers
    <3>1. CASE buffer' = buffer
      BY <3>1
    <3>2. CASE buffer' = [buffer EXCEPT !.subscribers = @ \ {c}]
      BY <1>1, <3>2 DEF TypeOK
    <3> QED
      BY <1>7, <3>1, <3>2 DEF Serve, SendBacklog, BacklogSent, SendLive, Close
  <2> QED
    BY <1>1, <1>2, <1>7, <2>1, ServeDelivers
<1>8. CASE Disconnect(c)
  <2>1. buffer'.subscribers = buffer.subscribers \ {c}
    BY <1>1, <1>8 DEF Disconnect, Close, TypeOK
  <2> QED
    BY <2>1
<1>9. ASSUME NEW d \in Conns \ {c}, Subscribe(d) \/ Serve(d) \/ Disconnect(d)
      PROVE  Delivered(c)'
  <2>1. conn'[c] = conn[c]
    <3>1. conn' = [conn EXCEPT ![d] = conn'[d]]
      BY <1>1, <1>9
      DEF Subscribe, Serve, SendBacklog, BacklogSent, SendLive, Disconnect, Close, TypeOK
    <3>2. conn \in [Conns -> Conn] /\ c # d
      BY <1>1, <1>9 DEF TypeOK, Conn
    <3> QED
      BY <1>1, <3>1, <3>2
  <2>2. UNCHANGED <<worker, calls>>
    BY <1>9 DEF Subscribe, Serve, SendBacklog, BacklogSent, SendLive, Disconnect
  <2>3. buffer'.backlog = buffer.backlog /\ c \in buffer.subscribers
    <3>1. \/ buffer' = buffer
          \/ buffer' = [buffer EXCEPT !.subscribers = @ \cup {d}]
          \/ buffer' = [buffer EXCEPT !.subscribers = @ \ {d}]
      BY <1>9 DEF Subscribe, Serve, SendBacklog, BacklogSent, SendLive, Disconnect, Close
    <3>2. /\ buffer'.backlog = buffer.backlog
          /\ buffer'.subscribers \subseteq buffer.subscribers \cup {d}
      BY <1>1, <3>1, SubscribersAre
    <3> QED
      BY <1>9, <3>2
  <2> QED
    BY <1>1, <1>2, <2>1, <2>2, <2>3, DeliveredStays DEF Line, ToCall
<1>10. CASE Restart
  BY <1>10 DEF Restart, NewBuffer
<1>11. CASE UNCHANGED vars
  BY <1>3, <1>11 DEF vars, ToCall
<1> QED
  BY <1>4, <1>5, <1>6, <1>7, <1>8, <1>9, <1>10, <1>11 DEF Next

-----------------------------------------------------------------------------
(* The inductive invariant *)

LEMMA InitHolds == Init => IInv
<1> SUFFICES ASSUME Init PROVE IInv
  OBVIOUS
<1>1. TypeOK
  BY TypeInit
<1>2. Progress(0).event \notin Final /\ Len(<< >>) = 0
  BY DEF Progress, Final
<1>3. Published
  BY <1>2 DEF Init, Published, Running, NewBuffer, FinalLast, FinalIsRow, NoFinal
<1>4. Addressed /\ NoSubscriberLeak
  BY <1>2 DEF Init, Addressed, NoSubscriberLeak, Running, NewBuffer
<1>5. \A c \in Conns : Shown(c)
  BY <1>2 DEF Init, NewConn, Shown, FinalLast, FinalIsRow, NoFinal
<1>6. QED
  BY <1>1, <1>3, <1>4, <1>5 DEF IInv

LEMMA StepKeeps == IInv /\ [Next]_vars => IInv'
<1> SUFFICES ASSUME IInv, [Next]_vars PROVE IInv'
  OBVIOUS
<1>1. TypeOK'
  BY TypeStep DEF IInv
<1>2. QED
  BY <1>1, PublishedStep, SubscribedStep, ShownStep DEF IInv

-----------------------------------------------------------------------------
(* The log *)

(* Whoever reads is either subscribed or came when the buffer was closed.  *)
Served(c) ==
  /\ conn[c].st = "live" => c \in buffer.subscribers
  /\ conn[c].ended => c \notin buffer.subscribers
  /\ conn[c].st = "backlog" =>
       \/ c \in buffer.subscribers
       \/ conn[c].ended /\ buffer.closed /\ conn[c].sent \o conn[c].todo = buffer.backlog

LogInv == IInv /\ NothingLost /\ \A c \in Conns : Served(c)

LEMMA ServedStays ==
  ASSUME NEW c, Served(c), conn'[c] = conn[c], buffer'.backlog = buffer.backlog,
         buffer'.closed = buffer.closed,
         c \in buffer'.subscribers <=> c \in buffer.subscribers
  PROVE  Served(c)'
<1>1. /\ conn'[c].st = conn[c].st /\ conn'[c].ended = conn[c].ended
      /\ conn'[c].sent \o conn'[c].todo = conn[c].sent \o conn[c].todo
  OBVIOUS
<1> QED
  BY <1>1 DEF Served

(* An event that is published comes after all who came to a closed buffer. *)
LEMMA ServedPublish ==
  ASSUME TypeOK, ~buffer.closed, NEW e, publish(e), conn' = conn, NEW c \in Conns, Served(c)
  PROVE  Served(c)'
<1>1. buffer'.subscribers = buffer.subscribers
  BY DEF publish, TypeOK
<1> QED
  BY <1>1 DEF Served

(* What a step that is about connection d makes of another one.            *)
LEMMA ServedOther ==
  ASSUME TypeOK, NEW d \in Conns, NEW c \in Conns \ {d}, Served(c),
         Subscribe(d) \/ Serve(d) \/ Disconnect(d)
  PROVE  Served(c)'
<1>1. conn'[c] = conn[c]
  <2>1. conn' = [conn EXCEPT ![d] = conn'[d]]
    BY DEF Subscribe, Serve, SendBacklog, BacklogSent, SendLive, Disconnect, Close, TypeOK
  <2>2. conn \in [Conns -> Conn] /\ c # d
    BY DEF TypeOK, Conn
  <2> QED
    BY <2>1, <2>2
<1>2. \/ buffer' = buffer
      \/ buffer' = [buffer EXCEPT !.subscribers = @ \cup {d}]
      \/ buffer' = [buffer EXCEPT !.subscribers = @ \ {d}]
  BY DEF Subscribe, Serve, SendBacklog, BacklogSent, SendLive, Disconnect, Close
<1>3. /\ buffer'.backlog = buffer.backlog /\ buffer'.closed = buffer.closed
      /\ c \in buffer'.subscribers <=> c \in buffer.subscribers
  BY <1>2 DEF TypeOK
<1> QED
  BY <1>1, <1>3, ServedStays

(* What closes a connection takes it from the subscribers.                 *)
LEMMA CloseServed ==
  ASSUME TypeOK, NEW c \in Conns, Close(c)
  PROVE  Served(c)'
<1>1. conn'[c].st = "closed" /\ buffer'.subscribers = buffer.subscribers \ {c}
  <2>1. conn'[c] = Closed(c) /\ conn[c] \in Conn
    BY CloseIs, ConnMoves, ConnType
  <2> QED
    BY <2>1 DEF Closed, Conn, Close, TypeOK
<1> QED
  BY <1>1 DEF Served

LEMMA SubscribeServed ==
  ASSUME IInv, NEW c \in Conns, Subscribe(c)
  PROVE  Served(c)'
<1>1. TypeOK /\ conn[c] = NewConn /\ conn[c] \in Conn /\ c \notin buffer.subscribers
  BY ConnType DEF IInv, Shown, Subscribe, NoSubscriberLeak
<1>2. conn'[c] = Subscribed(c)
  BY <1>1, SubscribeIs, ConnMoves
<1>3. CASE buffer.closed
  <2>1. /\ Subscribed(c).st = "backlog" /\ Subscribed(c).todo = buffer.backlog
        /\ Subscribed(c).ended /\ Subscribed(c).sent = << >>
    BY <1>1, <1>3 DEF Subscribed, Conn, NewConn
  <2>2. << >> \o buffer.backlog = buffer.backlog
    BY <1>1, ConcatEmptySeq DEF TypeOK
  <2>3. buffer' = buffer
    BY <1>3 DEF Subscribe
  <2> QED
    BY <1>1, <1>2, <1>3, <2>1, <2>2, <2>3 DEF Served
<1>4. CASE ~buffer.closed
  <2>1. Subscribed(c).st = "backlog" /\ ~Subscribed(c).ended
    BY <1>1, <1>4 DEF Subscribed, Conn, NewConn
  <2>2. c \in buffer'.subscribers
    BY <1>1, <1>4 DEF Subscribe, TypeOK
  <2> QED
    BY <1>2, <2>1, <2>2 DEF Served
<1> QED
  BY <1>3, <1>4

LEMMA ServeServed ==
  ASSUME IInv, NEW c \in Conns, Served(c), Serve(c)
  PROVE  Served(c)'
<1>1. /\ TypeOK /\ Shown(c) /\ conn[c] \in Conn
      /\ conn[c].sent \in Seq(Event) /\ conn[c].todo \in Seq(Event)
  BY ConnType DEF IInv
<1>2. CASE SendBacklog(c)
  <2>1. conn'[c] = Sent(c) /\ conn[c].todo # << >> /\ buffer' = buffer
    BY <1>1, <1>2, SendBacklogIs, ConnMoves DEF SendBacklog
  <2>2. /\ Sent(c).sent = Append(conn[c].sent, Head(conn[c].todo))
        /\ Sent(c).todo = Tail(conn[c].todo)
        /\ Sent(c).st = conn[c].st /\ Sent(c).ended = conn[c].ended
    BY <1>1 DEF Sent, Conn
  <2>3. Append(conn[c].sent, Head(conn[c].todo)) \o Tail(conn[c].todo)
          = conn[c].sent \o conn[c].todo
    BY <1>1, <2>1, HeadMoves
  <2> QED
    BY <2>1, <2>2, <2>3 DEF Served
<1>3. CASE BacklogSent(c) /\ conn[c].ended
  BY <1>1, <1>3, CloseServed DEF BacklogSent
<1>4. CASE BacklogSent(c) /\ ~conn[c].ended
  <2>1. conn'[c] = WentLive(c) /\ buffer' = buffer /\ conn[c].st = "backlog"
    BY <1>1, <1>4, BacklogSentIs, ConnMoves DEF BacklogSent
  <2>2. WentLive(c).st = "live" /\ ~WentLive(c).ended
    BY <1>1, <1>4 DEF WentLive, Conn
  <2> QED
    BY <1>4, <2>1, <2>2 DEF Served
<1>5. CASE SendLive(c)
  <2> DEFINE over == Head(conn[c].queue).event \in Final
  <2>1. /\ conn'[c] = Streamed(c) /\ conn[c].st = "live"
        /\ buffer' = IF over THEN [buffer EXCEPT !.subscribers = @ \ {c}] ELSE buffer
    BY <1>1, <1>5, SendLiveIs, ConnMoves DEF SendLive
  <2>2. Streamed(c).ended = over /\ Streamed(c).st = (IF over THEN "closed" ELSE "live")
    BY <1>1 DEF Streamed, Conn
  <2> HIDE DEF over
  <2>3. over => c \notin buffer'.subscribers
    BY <1>1, <2>1 DEF TypeOK
  <2> QED
    BY <2>1, <2>2, <2>3 DEF Served
<1> QED
  BY <1>2, <1>3, <1>4, <1>5 DEF Serve

LEMMA ServedStep ==
  ASSUME IInv, \A c \in Conns : Served(c), [Next]_vars
  PROVE  \A c \in Conns : Served(c)'
<1> SUFFICES ASSUME NEW c \in Conns PROVE Served(c)'
  OBVIOUS
<1>1. TypeOK /\ Published /\ Served(c) /\ conn \in [Conns -> Conn]
  BY DEF IInv, TypeOK, Conn
<1>2. ASSUME buffer' = buffer, conn' = conn PROVE Served(c)'
  BY <1>1, <1>2, ServedStays
<1>3. CASE Worker
  <2>1. CASE PublishProgress \/ PublishTerminal
    <3>1. ~buffer.closed /\ conn' = conn
      BY <1>1, <2>1 DEF PublishProgress, PublishTerminal, Published
    <3> QED
      BY <1>1, <2>1, <3>1, ServedPublish DEF PublishProgress, PublishTerminal
  <2> QED
    BY <1>2, <1>3, <2>1 DEF Worker, RecordProgress, MarkTerminal, FanOut
<1>4. CASE RunCall
  <2>1. PICK d \in Conns, e \in Event : /\ Called(d, e) \in Conn
                                        /\ conn' = [conn EXCEPT ![d] = Called(d, e)]
    BY <1>1, <1>4, RunCallIs
  <2>2. /\ conn'[c].st = conn[c].st /\ conn'[c].ended = conn[c].ended
        /\ conn'[c].sent = conn[c].sent /\ conn'[c].todo = conn[c].todo
    <3>1. CASE c = d
      <4>1. conn'[c] = Called(c, e) /\ conn[c] \in Conn
        BY <1>1, <2>1, <3>1, ConnMoves
      <4> QED
        BY <4>1 DEF Called, Conn
    <3>2. CASE c # d
      BY <1>1, <2>1, <3>2, ConnMoves
    <3> QED
      BY <3>1, <3>2
  <2>3. buffer' = buffer
    BY <1>4 DEF RunCall
  <2> QED
    BY <1>1, <2>2, <2>3 DEF Served
<1>5. ASSUME NEW d \in Conns, Subscribe(d) \/ Serve(d) \/ Disconnect(d)
      PROVE  Served(c)'
  <2>1. CASE c # d
    BY <1>1, <1>5, <2>1, ServedOther
  <2>2. CASE c = d
    BY <1>1, <1>5, <2>2, SubscribeServed, ServeServed, CloseServed DEF Disconnect
  <2> QED
    BY <2>1, <2>2
<1>6. CASE Restart
  <2>1. buffer'.subscribers = {}
    BY <1>6 DEF Restart, NewBuffer
  <2>2. conn'[c].st \notin {"backlog", "live"}
    <3>1. conn'[c] = IF conn[c].st \in {"backlog", "live"}
                     THEN [conn[c] EXCEPT !.st = "closed"] ELSE conn[c]
      BY <1>6 DEF Restart
    <3>2. conn[c] \in Conn
      BY <1>1
    <3> QED
      BY <3>1, <3>2 DEF Conn
  <2> QED
    BY <2>1, <2>2 DEF Served
<1>7. CASE UNCHANGED vars
  BY <1>2, <1>7 DEF vars
<1> QED
  BY <1>3, <1>4, <1>5, <1>6, <1>7 DEF Next

LEMMA LogInvNext == LogInv /\ [Next]_vars => LogInv'
<1> SUFFICES ASSUME LogInv, [Next]_vars PROVE LogInv'
  OBVIOUS
<1>1. IInv' /\ NothingLost'
  BY StepKeeps, NothingLostStep DEF LogInv
<1>2. (\A c \in Conns : Served(c))'
  BY ServedStep DEF LogInv
<1> QED
  BY <1>1, <1>2 DEF LogInv

(* A connection that is not new has to get what is next in the backlog.    *)
LEMMA NextIs ==
  ASSUME NEW s \in Seq(Event), NEW t \in Seq(Event), t # << >>, NEW r \in Seq(Event)
  PROVE  /\ Len(s) < Len((s \o t) \o r)
         /\ ((s \o t) \o r)[Len(s) + 1] = Head(t)
<1>1. /\ s \o t \in Seq(Event) /\ Len(s \o t) = Len(s) + Len(t)
      /\ (s \o t)[Len(s) + 1] = t[1]
  <2>1. Len(t) \in Nat \ {0} /\ Len(s) \in Nat
    BY EmptySeq, LenProperties
  <2>2. Len(s) + 1 \in 1 .. Len(s) + Len(t) /\ ~(Len(s) + 1 <= Len(s))
        /\ (Len(s) + 1) - Len(s) = 1
    BY <2>1
  <2> QED
    BY <2>2, ConcatProperties
<1>2. Len(s) \in Nat /\ Len(t) \in Nat \ {0} /\ Len(r) \in Nat /\ Head(t) = t[1]
  BY EmptySeq, LenProperties
<1>3. /\ Len((s \o t) \o r) = Len(s \o t) + Len(r)
      /\ \A i \in 1 .. Len(s \o t) : ((s \o t) \o r)[i] = (s \o t)[i]
  BY <1>1, ConcatProperties
<1>4. Len(s) + 1 \in 1 .. Len(s \o t)
  BY <1>1, <1>2
<1> QED
  BY <1>1, <1>2, <1>3, <1>4

StartsWith(l, whole) == \E r \in Seq(Event) : l \o r = whole

LEMMA StartOfTwo ==
  ASSUME NEW l \in Seq(Event), NEW a \in Seq(Event), NEW b \in Seq(Event)
  PROVE  StartsWith(l, (l \o a) \o b)
<1>1. (l \o a) \o b = l \o (a \o b)
  BY ConcatAssociative
<1>2. PICK r \in Seq(Event) : r = a \o b
  BY ConcatProperties
<1> QED
  BY <1>1, <1>2 DEF StartsWith

LEMMA StartOfThree ==
  ASSUME NEW l \in Seq(Event), NEW a \in Seq(Event), NEW b \in Seq(Event),
         NEW f \in Seq(Event)
  PROVE  StartsWith(l, ((l \o a) \o b) \o f)
<1>1. (l \o a) \o b = l \o (a \o b)
  BY ConcatAssociative
<1>2. PICK r \in Seq(Event) : r = a \o b
  BY ConcatProperties
<1>3. StartsWith(l, (l \o r) \o f)
  BY StartOfTwo
<1> QED
  BY <1>1, <1>2, <1>3

LEMMA LineIsNext ==
  ASSUME TypeOK, NEW c \in Conns, Delivered(c), NEW t \in Seq(Event), t # << >>,
         \/ t = conn[c].todo
         \/ t = conn[c].queue /\ conn[c].todo = << >>
  PROVE  /\ Len(conn[c].sent) < Len(buffer.backlog)
         /\ buffer.backlog[Len(conn[c].sent) + 1] = Head(t)
<1> DEFINE s == conn[c].sent
           q == conn[c].queue
<1>1. PICK n, turn :
        /\ n \in Nat
        /\ Ordered(calls, c, n, turn)
        /\ Line(c) \o ToPut(calls, turn) \o ToCall(c) = buffer.backlog
  BY DeliveredIs
<1> DEFINE p == ToPut(calls, turn)
           f == ToCall(c)
<1>2. /\ s \in Seq(Event) /\ q \in Seq(Event) /\ p \in Seq(Event) /\ f \in Seq(Event)
      /\ conn[c].todo \in Seq(Event)
  <2>1. calls \in Seq(Pairs) /\ n \in Nat
    BY <1>1 DEF TypeOK, Pairs
  <2>2. Lists(p, calls, n, turn)
    BY <1>1, <2>1, PutIs
  <2> QED
    BY <2>2, ConnType, LineType DEF Lists
<1>3. Line(c) = s \o conn[c].todo \o q
  BY DEF Line
<1> HIDE DEF s, q, p, f
<1>4. PICK r \in Seq(Event) : (s \o t) \o r = buffer.backlog
  <2>0. PICK l \in Seq(Event) : l = s \o t
    BY <1>2, ConcatProperties
  <2>1. CASE t = conn[c].todo
    <3>1. ((l \o q) \o p) \o f = buffer.backlog
      BY <1>1, <1>3, <2>0, <2>1 DEF p, f
    <3>2. StartsWith(l, ((l \o q) \o p) \o f)
      BY <1>2, StartOfThree
    <3> QED
      BY <2>0, <3>1, <3>2 DEF StartsWith
  <2>2. CASE t = conn[c].queue /\ conn[c].todo = << >>
    <3>1. s \o << >> = s
      BY <1>2, ConcatEmptySeq
    <3>2. (l \o p) \o f = buffer.backlog
      BY <1>1, <1>3, <2>0, <2>2, <3>1 DEF p, f, q
    <3>3. StartsWith(l, (l \o p) \o f)
      BY <1>2, StartOfTwo
    <3> QED
      BY <2>0, <3>2, <3>3 DEF StartsWith
  <2> QED
    BY <2>1, <2>2
<1>5. /\ Len(s) < Len((s \o t) \o r)
      /\ ((s \o t) \o r)[Len(s) + 1] = Head(t)
  BY <1>2, NextIs
<1> QED
  BY <1>4, <1>5 DEF s

(* The refinement mapping, of the connection that a step changes.          *)
LEMMA ReaderMoves ==
  ASSUME TypeOK, NEW c \in Conns, NEW s \in Conn, conn' = [conn EXCEPT ![c] = s]
  PROVE  Reader' = [Reader EXCEPT ![c] = [stage |-> Stage(s), got |-> s.sent]]
<1>1. conn'[c] = s /\ \A d \in Conns \ {c} : conn'[d] = conn[d]
  BY ConnMoves
<1>2. Reader' = [d \in Conns |-> [stage |-> Stage(conn'[d]), got |-> conn'[d].sent]]
  BY DEF Reader, Stage
<1>3. \A d \in Conns : Reader'[d] = IF d = c THEN [stage |-> Stage(s), got |-> s.sent]
                                    ELSE Reader[d]
  BY <1>1, <1>2 DEF Reader
<1>4. Reader = [d \in Conns |-> Reader[d]] /\ Reader' = [d \in Conns |-> Reader'[d]]
  BY <1>2 DEF Reader
<1> QED
  BY <1>3, <1>4

LEMMA ReaderStays ==
  ASSUME TypeOK, NEW c \in Conns, NEW s \in Conn, conn' = [conn EXCEPT ![c] = s],
         Stage(s) = Stage(conn[c]), s.sent = conn[c].sent
  PROVE  Reader' = Reader
<1>1. Reader' = [Reader EXCEPT ![c] = [stage |-> Stage(s), got |-> s.sent]]
  BY ReaderMoves
<1>2. Reader[c] = [stage |-> Stage(s), got |-> s.sent]
  BY DEF Reader
<1>3. Reader = [d \in Conns |-> Reader[d]]
  BY DEF Reader
<1> QED
  BY <1>1, <1>2, <1>3

LEMMA LogStill ==
  ASSUME row'.status = row.status, buffer'.backlog = buffer.backlog,
         buffer'.subscribers = buffer.subscribers, Reader' = Reader
  PROVE  [Log!Next]_(Log!vars)
<1>1. Settled' = Settled
  BY DEF Settled, Over
<1> QED
  BY <1>1 DEF Log!vars

(* The log is over when the buffer is closed.                              *)
LEMMA OverIsClosed ==
  ASSUME IInv
  PROVE  Log!Over <=> buffer.closed
<1>1. buffer.backlog \in Seq(Event) /\ Published /\ buffer.closed \in BOOLEAN
  BY DEF IInv, TypeOK
<1>2. \A e \in Event : e \in {Over(s) : s \in Final} => e.event \in Final
  BY DEF Over
<1>3. CASE ~buffer.closed
  <2>1. \A i \in 1 .. Len(buffer.backlog) : buffer.backlog[i] \in Event
    BY <1>1
  <2> QED
    BY <1>1, <1>2, <1>3, <2>1 DEF Log!Over, Published, NoFinal
<1>4. CASE buffer.closed
  <2>1. Len(buffer.backlog) \in 1 .. Len(buffer.backlog)
    BY <1>1, <1>4, LenProperties, EmptySeq DEF Published
  <2>2. /\ buffer.backlog[Len(buffer.backlog)] = Over(row.status)
        /\ row.status \in Final
    BY <1>1, <1>4, <2>1 DEF Published, FinalLast
  <2> QED
    BY <1>4, <2>1, <2>2 DEF Log!Over
<1> QED
  BY <1>1, <1>3, <1>4

(* The steps of the mapped log *)

LEMMA LogPublish ==
  ASSUME IInv, ~buffer.closed, NEW e, publish(e),
         e \in IF Settled = {} THEN {Progress(i) : i \in 0 .. NumNodes} ELSE Settled,
         UNCHANGED <<row, conn>>
  PROVE  Log!Publish
<1>1. /\ buffer'.backlog = Append(buffer.backlog, e)
      /\ buffer'.subscribers = buffer.subscribers
  BY DEF publish, IInv, TypeOK
<1>2. Settled' = Settled /\ Reader' = Reader
  BY DEF Settled, Over, Reader, Stage
<1>3. ~Log!Over
  BY OverIsClosed
<1> QED
  BY <1>1, <1>2, <1>3 DEF Log!Publish

(* One more event, the next in the backlog; a final one is the end.        *)
LEMMA LogRead ==
  ASSUME IInv, NEW c \in Conns, NEW s \in Conn, conn' = [conn EXCEPT ![c] = s], row' = row,
         NEW e \in Event, s.sent = Append(conn[c].sent, e),
         Stage(conn[c]) = "reading",
         Len(conn[c].sent) < Len(buffer.backlog),
         buffer.backlog[Len(conn[c].sent) + 1] = e,
         Stage(s) = IF e.event \in Final THEN "done" ELSE "reading",
         buffer'.backlog = buffer.backlog,
         buffer'.subscribers = IF e.event \in Final THEN buffer.subscribers \ {c}
                               ELSE buffer.subscribers
  PROVE  Log!Read(c)
<1>1. e \in {Over(x) : x \in Final} <=> e.event \in Final
  <2>1. e \in {Over(x) : x \in Final} => e.event \in Final
    BY DEF Over
  <2>2. ASSUME e.event \in Final PROVE e \in {Over(x) : x \in Final}
    <3>1. buffer.backlog \in Seq(Event) /\ Published
      BY DEF IInv, TypeOK
    <3>2. Len(conn[c].sent) + 1 \in 1 .. Len(buffer.backlog)
      <4>1. Len(conn[c].sent) \in Nat /\ Len(buffer.backlog) \in Nat
        BY <3>1, ConnType, LenProperties DEF IInv
      <4> QED
        BY <4>1
    <3>3. e = Over(row.status) /\ row.status \in Final
      BY <2>2, <3>1, <3>2, FinalStatus DEF Published, FinalLast, FinalIsRow
    <3> QED
      BY <3>3
  <2> QED
    BY <2>1, <2>2
<1>2. Settled' = Settled
  BY DEF Settled, Over
<1>3. Reader[c].stage = "reading" /\ Reader[c].got = conn[c].sent
  BY DEF Reader
<1>4. Reader' = [Reader EXCEPT ![c] = [stage |-> Stage(s), got |-> s.sent]]
  BY ReaderMoves DEF IInv
<1> DEFINE over == e \in {Over(x) : x \in Final}
<1> HIDE DEF over
<1>5. Stage(s) = IF over THEN "done" ELSE "reading"
  BY <1>1 DEF over
<1>6. Reader' = [Reader EXCEPT ![c] = [stage |-> IF over THEN "done" ELSE "reading",
                                       got   |-> Append(@.got, e)]]
  BY <1>3, <1>4, <1>5
<1> QED
  BY <1>1, <1>2, <1>3, <1>6 DEF Log!Read, over

(* It is cut off.                                                          *)
LEMMA LogLeave ==
  ASSUME IInv, NEW c \in Conns, Close(c), row' = row, Stage(conn[c]) = "reading"
  PROVE  Log!Leave(c)
<1>1. /\ conn' = [conn EXCEPT ![c] = Closed(c)] /\ Closed(c) \in Conn
      /\ conn[c] \in Conn /\ TypeOK
  BY CloseIs, ConnType DEF IInv
<1>2. Stage(Closed(c)) = "cut" /\ Closed(c).sent = conn[c].sent
  BY <1>1 DEF Closed, Conn, Stage
<1>3. Reader' = [Reader EXCEPT ![c] = [stage |-> "cut", got |-> conn[c].sent]]
  BY <1>1, <1>2, ReaderMoves
<1>4. Reader[c] = [stage |-> "reading", got |-> conn[c].sent]
  BY DEF Reader
<1>5. Reader' = [Reader EXCEPT ![c].stage = "cut"]
  <2>1. [Reader[c] EXCEPT !.stage = "cut"] = [stage |-> "cut", got |-> conn[c].sent]
    BY <1>4
  <2> QED
    BY <1>3, <2>1
<1>6. /\ buffer'.backlog = buffer.backlog
      /\ buffer'.subscribers = buffer.subscribers \ {c}
  BY <1>1 DEF Close, TypeOK
<1>7. Settled' = Settled
  BY DEF Settled, Over
<1> QED
  BY <1>4, <1>5, <1>6, <1>7 DEF Log!Leave

(* Closing a stream that is done changes nothing.                          *)
LEMMA LogCloseDone ==
  ASSUME LogInv, NEW c \in Conns, Close(c), row' = row, Stage(conn[c]) = "done"
  PROVE  [Log!Next]_(Log!vars)
<1>1. /\ conn' = [conn EXCEPT ![c] = Closed(c)] /\ Closed(c) \in Conn
      /\ conn[c] \in Conn /\ TypeOK /\ Served(c)
  BY CloseIs, ConnType DEF IInv, LogInv
<1>2. conn[c].ended /\ conn[c].todo = << >>
  BY DEF Stage
<1>3. Stage(Closed(c)) = "done" /\ Closed(c).sent = conn[c].sent
  BY <1>1, <1>2 DEF Closed, Conn, Stage
<1>4. Reader' = Reader
  BY <1>1, <1>3, ReaderStays
<1>5. /\ buffer'.backlog = buffer.backlog
      /\ buffer'.subscribers = buffer.subscribers
  BY <1>1, <1>2 DEF Close, TypeOK, Served
<1> QED
  BY <1>4, <1>5, LogStill

LEMMA LogJoin ==
  ASSUME IInv, NEW c \in Conns, Subscribe(c)
  PROVE  Log!Join(c)
<1>1. /\ TypeOK /\ Published /\ conn[c] = NewConn /\ conn[c] \in Conn
      /\ conn' = [conn EXCEPT ![c] = Subscribed(c)] /\ Subscribed(c) \in Conn
  BY ConnType, SubscribeIs DEF IInv, Shown, Subscribe
<1>2. Stage(Subscribed(c)) = "reading" /\ Subscribed(c).sent = << >>
  <2>1. CASE buffer.closed
    <3>1. buffer.backlog # << >>
      BY <1>1, <2>1 DEF Published
    <3>2. /\ Subscribed(c).st = "backlog" /\ Subscribed(c).todo = buffer.backlog
          /\ Subscribed(c).sent = << >>
      BY <1>1, <2>1 DEF Subscribed, Conn, NewConn
    <3> QED
      BY <3>1, <3>2 DEF Stage
  <2>2. CASE ~buffer.closed
    <3>1. /\ Subscribed(c).st = "backlog" /\ ~Subscribed(c).ended
          /\ Subscribed(c).sent = << >>
      BY <1>1, <2>2 DEF Subscribed, Conn, NewConn
    <3> QED
      BY <3>1 DEF Stage
  <2> QED
    BY <2>1, <2>2
<1>3. Reader[c] = [stage |-> "new", got |-> << >>]
  BY <1>1 DEF Reader, Stage, NewConn
<1>4. Reader' = [Reader EXCEPT ![c] = [stage |-> "reading", got |-> << >>]]
  BY <1>1, <1>2, ReaderMoves
<1>5. Reader' = [Reader EXCEPT ![c].stage = "reading"]
  <2>1. [Reader[c] EXCEPT !.stage = "reading"] = [stage |-> "reading", got |-> << >>]
    BY <1>3
  <2> QED
    BY <1>4, <2>1
<1>6. /\ buffer'.backlog = buffer.backlog
      /\ buffer'.subscribers = IF Log!Over THEN buffer.subscribers
                               ELSE buffer.subscribers \cup {c}
  BY <1>1, OverIsClosed DEF Subscribe, TypeOK
<1>7. Settled' = Settled
  BY DEF Settled, Over, Subscribe
<1> QED
  BY <1>3, <1>5, <1>6, <1>7 DEF Log!Join

LEMMA LogSettle ==
  ASSUME IInv, MarkTerminal
  PROVE  Log!Settle
<1>1. row.status = "running" /\ UNCHANGED <<buffer, conn>>
  BY DEF MarkTerminal, IInv, Published
<1>2. PICK x \in Final : row'.status = x
  BY DEF MarkTerminal, IInv, TypeOK
<1>3. Settled = {} /\ Settled' = {Over(x)}
  BY <1>1, <1>2 DEF Settled, Over, Final
<1>4. Reader' = Reader
  BY <1>1 DEF Reader, Stage
<1> QED
  BY <1>1, <1>3, <1>4 DEF Log!Settle

LEMMA LogReset ==
  ASSUME IInv, Restart
  PROVE  Log!Reset
<1>1. TypeOK /\ conn \in [Conns -> Conn]
  BY DEF IInv, TypeOK, Conn
<1>2. buffer'.backlog = << >> /\ buffer'.subscribers = {} /\ row'.status = row.status
  BY <1>1 DEF Restart, NewBuffer, TypeOK
<1>3. Settled' = Settled
  BY <1>2 DEF Settled, Over
<1>4. ASSUME NEW c \in Conns
      PROVE  [stage |-> Stage(conn'[c]), got |-> conn'[c].sent] =
               IF Reader[c].stage = "reading" THEN [Reader[c] EXCEPT !.stage = "cut"]
               ELSE Reader[c]
  <2>1. conn'[c] = IF conn[c].st \in {"backlog", "live"} THEN Closed(c) ELSE conn[c]
    BY DEF Restart, Closed
  <2>2. Reader[c] = [stage |-> Stage(conn[c]), got |-> conn[c].sent]
    BY DEF Reader
  <2>3. conn[c] \in Conn
    BY <1>1
  <2>4. CASE Stage(conn[c]) = "reading"
    <3>1. conn[c].st \in {"backlog", "live"}
      BY <2>3, <2>4 DEF Stage, Conn
    <3>2. Stage(Closed(c)) = "cut" /\ Closed(c).sent = conn[c].sent
      BY <2>3, <2>4 DEF Stage, Conn, Closed
    <3> QED
      BY <2>1, <2>2, <2>4, <3>1, <3>2
  <2>5. CASE Stage(conn[c]) # "reading" /\ conn[c].st \in {"backlog", "live"}
    <3>1. Stage(conn[c]) = "done"
      BY <2>5 DEF Stage
    <3>2. Stage(Closed(c)) = "done" /\ Closed(c).sent = conn[c].sent
      BY <2>3, <3>1 DEF Stage, Conn, Closed
    <3> QED
      BY <2>1, <2>2, <2>5, <3>1, <3>2
  <2>6. CASE Stage(conn[c]) # "reading" /\ conn[c].st \notin {"backlog", "live"}
    BY <2>1, <2>2, <2>6
  <2> QED
    BY <2>4, <2>5, <2>6
<1>5. Reader' = [c \in Conns |-> [stage |-> Stage(conn'[c]), got |-> conn'[c].sent]]
  BY DEF Reader, Stage
<1>6. Reader' = [c \in Conns |-> IF Reader[c].stage = "reading"
                                 THEN [Reader[c] EXCEPT !.stage = "cut"] ELSE Reader[c]]
  BY <1>4, <1>5
<1> QED
  BY <1>2, <1>3, <1>6 DEF Log!Reset

LEMMA LogSendBacklog ==
  ASSUME LogInv, NEW c \in Conns, SendBacklog(c)
  PROVE  Log!Read(c)
<1> DEFINE e == Head(conn[c].todo)
<1>1. /\ IInv /\ TypeOK /\ Shown(c) /\ Served(c) /\ conn[c] \in Conn
      /\ conn[c].sent \in Seq(Event) /\ conn[c].todo \in Seq(Event)
      /\ conn[c].st = "backlog" /\ conn[c].todo # << >>
  BY ConnType DEF IInv, LogInv, SendBacklog
<1>2. /\ conn' = [conn EXCEPT ![c] = Sent(c)] /\ Sent(c) \in Conn
      /\ UNCHANGED <<row, buffer>>
  BY <1>1, SendBacklogIs DEF SendBacklog
<1>3. /\ Sent(c).sent = Append(conn[c].sent, e) /\ Sent(c).todo = Tail(conn[c].todo)
      /\ Sent(c).st = "backlog" /\ Sent(c).ended = conn[c].ended
  BY <1>1 DEF Sent, Conn
<1>4. /\ e \in Event /\ e = conn[c].todo[1] /\ 1 \in 1 .. Len(conn[c].todo)
      /\ Tail(conn[c].todo) = << >> <=> Len(conn[c].todo) = 1
  <2>1. Len(conn[c].todo) \in Nat \ {0} /\ e = conn[c].todo[1] /\ e \in Event
    BY <1>1, EmptySeq, LenProperties
  <2>2. Tail(conn[c].todo) \in Seq(Event) /\ Len(Tail(conn[c].todo)) = Len(conn[c].todo) - 1
    BY <1>1, HeadTailProperties
  <2>3. Tail(conn[c].todo) = << >> <=> Len(Tail(conn[c].todo)) = 0
    BY <2>2, EmptySeq
  <2> QED
    BY <2>1, <2>2, <2>3
<1>5. Stage(conn[c]) = "reading"
  BY <1>1 DEF Stage
<1>6. e.event \in Final <=> conn[c].ended /\ Len(conn[c].todo) = 1
  <2>1. conn[c].ended => conn[c].todo[Len(conn[c].todo)].event \in Final
    BY <1>1 DEF Shown
  <2>2. e.event \in Final => 1 = Len(conn[c].todo)
    BY <1>1, <1>4 DEF Shown, FinalLast
  <2>3. ~conn[c].ended => e.event \notin Final
    BY <1>1, <1>4 DEF Shown, NoFinal
  <2> QED
    BY <1>4, <2>1, <2>2, <2>3
<1>7. Stage(Sent(c)) = IF e.event \in Final THEN "done" ELSE "reading"
  BY <1>3, <1>4, <1>6 DEF Stage
<1>8. /\ Len(conn[c].sent) < Len(buffer.backlog)
      /\ buffer.backlog[Len(conn[c].sent) + 1] = e
  <2>1. CASE c \in buffer.subscribers
    <3>1. Delivered(c)
      BY <2>1 DEF LogInv, NothingLost, Delivered, Line
    <3> QED
      BY <1>1, <3>1, LineIsNext
  <2>2. CASE c \notin buffer.subscribers
    <3>1. conn[c].sent \o conn[c].todo = buffer.backlog
      BY <1>1, <2>2 DEF Served
    <3>2. PICK b \in Seq(Event) : b = buffer.backlog
      BY <1>1 DEF TypeOK
    <3>3. << >> \in Seq(Event) /\ b \o << >> = b
      BY ConcatEmptySeq
    <3>4. PICK r \in Seq(Event) : r = << >>
      BY <3>3
    <3>5. (conn[c].sent \o conn[c].todo) \o r = buffer.backlog
      BY <3>1, <3>2, <3>3, <3>4
    <3>6. /\ Len(conn[c].sent) < Len((conn[c].sent \o conn[c].todo) \o r)
          /\ ((conn[c].sent \o conn[c].todo) \o r)[Len(conn[c].sent) + 1] = Head(conn[c].todo)
      BY <1>1, NextIs
    <3> QED
      BY <3>5, <3>6
  <2> QED
    BY <2>1, <2>2
<1>9. e.event \in Final => buffer.subscribers \ {c} = buffer.subscribers
  BY <1>1, <1>6 DEF Served
<1> HIDE DEF e
<1> QED
  BY <1>1, <1>2, <1>3, <1>4, <1>5, <1>7, <1>8, <1>9, LogRead

LEMMA LogSendLive ==
  ASSUME LogInv, NEW c \in Conns, SendLive(c)
  PROVE  Log!Read(c)
<1> DEFINE e == Head(conn[c].queue)
<1>1. /\ IInv /\ TypeOK /\ Shown(c) /\ Served(c) /\ conn[c] \in Conn
      /\ conn[c].sent \in Seq(Event) /\ conn[c].queue \in Seq(Event)
      /\ conn[c].st = "live" /\ conn[c].queue # << >>
  BY ConnType DEF IInv, LogInv, SendLive
<1>2. /\ conn' = [conn EXCEPT ![c] = Streamed(c)] /\ Streamed(c) \in Conn
      /\ row' = row
      /\ buffer' = IF e.event \in Final THEN [buffer EXCEPT !.subscribers = @ \ {c}] ELSE buffer
  BY <1>1, SendLiveIs DEF SendLive
<1>3. ~conn[c].ended /\ conn[c].todo = << >> /\ c \in buffer.subscribers
  BY <1>1 DEF Shown, Served
<1>4. /\ Streamed(c).sent = Append(conn[c].sent, e) /\ Streamed(c).todo = << >>
      /\ Streamed(c).ended = (e.event \in Final)
      /\ Streamed(c).st = IF e.event \in Final THEN "closed" ELSE "live"
  BY <1>1, <1>3 DEF Streamed, Conn
<1>5. e \in Event
  BY <1>1, HeadTailProperties
<1>6. Stage(conn[c]) = "reading"
  BY <1>1, <1>3 DEF Stage
<1>7. Stage(Streamed(c)) = IF e.event \in Final THEN "done" ELSE "reading"
  BY <1>4 DEF Stage
<1>8. Delivered(c)
  BY <1>3 DEF LogInv, NothingLost, Delivered, Line
<1>9. /\ Len(conn[c].sent) < Len(buffer.backlog)
      /\ buffer.backlog[Len(conn[c].sent) + 1] = e
  BY <1>1, <1>3, <1>8, LineIsNext
<1>10. /\ buffer'.backlog = buffer.backlog
       /\ buffer'.subscribers = IF e.event \in Final THEN buffer.subscribers \ {c}
                                ELSE buffer.subscribers
  BY <1>1, <1>2 DEF TypeOK
<1> HIDE DEF e
<1> QED
  BY <1>1, <1>2, <1>4, <1>5, <1>6, <1>7, <1>8, <1>9, <1>10, LogRead

LEMMA LogBacklogSent ==
  ASSUME LogInv, NEW c \in Conns, BacklogSent(c)
  PROVE  [Log!Next]_(Log!vars)
<1>1. /\ TypeOK /\ conn[c] \in Conn /\ conn[c].st = "backlog" /\ conn[c].todo = << >>
      /\ row' = row
  BY ConnType DEF IInv, LogInv, BacklogSent
<1>2. CASE conn[c].ended
  BY <1>1, <1>2, LogCloseDone DEF BacklogSent, Stage
<1>3. CASE ~conn[c].ended
  <2>1. /\ conn' = [conn EXCEPT ![c] = WentLive(c)] /\ WentLive(c) \in Conn
        /\ buffer' = buffer
    BY <1>1, <1>3, BacklogSentIs DEF BacklogSent
  <2>2. Stage(WentLive(c)) = Stage(conn[c]) /\ WentLive(c).sent = conn[c].sent
    BY <1>1, <1>3 DEF WentLive, Conn, Stage
  <2>3. Reader' = Reader
    BY <1>1, <2>1, <2>2, ReaderStays
  <2> QED
    BY <1>1, <2>1, <2>3, LogStill
<1> QED
  BY <1>2, <1>3

LEMMA LogDisconnect ==
  ASSUME LogInv, NEW c \in Conns, Disconnect(c)
  PROVE  [Log!Next]_(Log!vars)
<1>1. Stage(conn[c]) \in {"done", "reading"} /\ Close(c) /\ row' = row /\ IInv
  BY DEF Disconnect, Stage, LogInv
<1>2. CASE Stage(conn[c]) = "done"
  BY <1>1, <1>2, LogCloseDone
<1>3. CASE Stage(conn[c]) = "reading"
  BY <1>1, <1>3, LogLeave DEF Log!Next
<1> QED
  BY <1>1, <1>2, <1>3

LEMMA LogNext == LogInv /\ [Next]_vars => [Log!Next]_(Log!vars)
<1> SUFFICES ASSUME LogInv, [Next]_vars PROVE [Log!Next]_(Log!vars)
  OBVIOUS
<1>1. IInv /\ TypeOK /\ Published
  BY DEF LogInv, IInv
<1>2. ASSUME UNCHANGED <<row, buffer, conn>> PROVE [Log!Next]_(Log!vars)
  <2>1. Reader' = Reader
    BY <1>2 DEF Reader, Stage
  <2> QED
    BY <1>2, <2>1, LogStill
<1>3. CASE RecordProgress
  <2>1. row'.status = row.status /\ UNCHANGED <<buffer, conn>>
    BY <1>1, <1>3 DEF RecordProgress, TypeOK
  <2>2. Reader' = Reader
    BY <2>1 DEF Reader, Stage
  <2> QED
    BY <2>1, <2>2, LogStill
<1>4. CASE PublishProgress
  <2>1. /\ publish(Progress(row.done)) /\ UNCHANGED <<row, conn>>
        /\ row.status = "running" /\ ~buffer.closed /\ row.done \in 0 .. NumNodes
    BY <1>1, <1>4 DEF PublishProgress, Published, TypeOK
  <2>2. Settled = {}
    BY <2>1 DEF Settled, Final
  <2>3. Log!Publish
    BY <1>1, <2>1, <2>2, LogPublish
  <2> QED
    BY <2>3 DEF Log!Next
<1>5. CASE PublishTerminal
  <2>1. /\ publish(Over(row.status)) /\ UNCHANGED <<row, conn>>
        /\ row.status \in Final /\ ~buffer.closed
    BY <1>1, <1>5 DEF PublishTerminal, Published
  <2>2. Settled = {Over(row.status)}
    BY <2>1 DEF Settled
  <2>3. Log!Publish
    BY <1>1, <2>1, <2>2, LogPublish
  <2> QED
    BY <2>3 DEF Log!Next
<1>6. CASE MarkTerminal
  BY <1>1, <1>6, LogSettle DEF Log!Next
<1>7. CASE FanOut \/ UNCHANGED vars
  BY <1>2, <1>7 DEF FanOut, vars
<1>8. CASE RunCall
  <2>1. PICK d \in Conns, e \in Event : /\ Called(d, e) \in Conn
                                        /\ conn' = [conn EXCEPT ![d] = Called(d, e)]
    BY <1>1, <1>8, RunCallIs
  <2>2. Stage(Called(d, e)) = Stage(conn[d]) /\ Called(d, e).sent = conn[d].sent
    BY <1>1, ConnType DEF Called, Conn, Stage
  <2>3. Reader' = Reader
    BY <1>1, <2>1, <2>2, ReaderStays
  <2> QED
    BY <1>8, <2>3, LogStill DEF RunCall
<1>9. ASSUME NEW c \in Conns, Subscribe(c) \/ Serve(c) \/ Disconnect(c)
      PROVE  [Log!Next]_(Log!vars)
  <2>1. CASE Subscribe(c)
    BY <1>1, <2>1, LogJoin DEF Log!Next
  <2>2. CASE SendBacklog(c)
    BY <2>2, LogSendBacklog DEF Log!Next
  <2>3. CASE SendLive(c)
    BY <2>3, LogSendLive DEF Log!Next
  <2> QED
    BY <1>9, <2>1, <2>2, <2>3, LogBacklogSent, LogDisconnect DEF Serve
<1>10. CASE Restart
  BY <1>1, <1>10, LogReset DEF Log!Next
<1> QED
  BY <1>3, <1>4, <1>5, <1>6, <1>7, <1>8, <1>9, <1>10 DEF Next, Worker

-----------------------------------------------------------------------------
(* The theorems *)

(* The row, the buffer, the loop's calls and the connections keep their    *)
(* types.                                                                  *)
THEOREM TypeCorrect == Spec => []TypeOK
<1>1. IInv => TypeOK
  BY DEF IInv
<1>2. QED
  BY <1>1, InitHolds, StepKeeps, PTL DEF Spec

(* A stream that the server ends shows one terminal event, the last one,   *)
(* and the row has that status by then (mark_terminal before publish).     *)
THEOREM EndedIsStoredHolds == Spec => []EndedIsStored
<1>1. IInv => EndedIsStored
  <2> SUFFICES ASSUME IInv, NEW c \in Conns
               PROVE  /\ FinalLast(conn[c].sent)
                      /\ conn[c].ended /\ conn[c].todo = << >> =>
                           \E i \in 1 .. Len(conn[c].sent) : conn[c].sent[i].event \in Final
    BY DEF EndedIsStored, FinalLast
  <2>1. Shown(c) /\ conn[c].sent \in Seq(Event)
    BY ConnType DEF IInv
  <2>2. conn[c].sent # << >> => Len(conn[c].sent) \in 1 .. Len(conn[c].sent)
    BY <2>1, LenProperties, EmptySeq
  <2>3. QED
    BY <2>1, <2>2 DEF Shown
<1>2. QED
  BY <1>1, InitHolds, StepKeeps, PTL DEF Spec

(* No event is lost, doubled or out of order on its way to a subscribed    *)
(* connection, and what ends a stream is stored by then: for any number of *)
(* connections, nodes and restarts (subscribe, publish, event_generator).  *)
THEOREM StreamsTruthfulHolds == Spec => []StreamsTruthful
<1>1. Init => IInv /\ NothingLost
  BY InitHolds DEF Init, NewBuffer, NothingLost
<1>2. (IInv /\ NothingLost) /\ [Next]_vars => (IInv /\ NothingLost)'
  BY StepKeeps, NothingLostStep
<1>3. QED
  BY <1>1, <1>2, EndedIsStoredHolds, PTL DEF Spec, StreamsTruthful

(* The buffer holds on to no connection that is closed (the finally block  *)
(* of event_generator).                                                    *)
THEOREM NoSubscriberLeakHolds == Spec => []NoSubscriberLeak
<1>1. IInv => NoSubscriberLeak
  BY DEF IInv
<1>2. QED
  BY <1>1, InitHolds, StepKeeps, PTL DEF Spec

(* The event stream implements the log of EventLog, step by step: for any  *)
(* number of connections, nodes and restarts, wherever subscribe falls     *)
(* between the two halves of publish, and however streams end              *)
(* (runner/events.py, event_generator).                                    *)
THEOREM StreamImplementsLog == Spec => ImplementsEventLog
<1>1. Init => LogInv
  <2>1. Init => IInv /\ NothingLost
    BY InitHolds DEF Init, NewBuffer, NothingLost
  <2>2. Init => \A c \in Conns : Served(c)
    BY DEF Init, NewBuffer, NewConn, Served
  <2> QED
    BY <2>1, <2>2 DEF LogInv
<1>2. Init => Log!Init
  BY DEF Init, NewBuffer, NewConn, Log!Init, Settled, Reader, Stage, Final
<1>3. LogInv /\ [Next]_vars => LogInv'
  BY LogInvNext
<1>4. LogInv /\ [Next]_vars => [Log!Next]_(Log!vars)
  BY LogNext
<1> QED
  BY <1>1, <1>2, <1>3, <1>4, PTL DEF Spec, ImplementsEventLog, Log!Spec
=============================================================================
