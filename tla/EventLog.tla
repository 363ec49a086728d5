------------------------------ MODULE EventLog ------------------------------
(***************************************************************************)
(* What the events of a job promise to those who read them: the worker,    *)
(* the loop's calls, the queues and the two halves of subscribe and of     *)
(* publish are left out.  There is one log; whoever reads it reads it from *)
(* its beginning, event by event, and is done with the event that ends it, *)
(* which says what has been stored.                                        *)
(***************************************************************************)
EXTENDS Naturals, Sequences

CONSTANTS
  Readers,
  Updates,   (* the events of a job under way                                *)
  Ends       (* those that end a log                                         *)

VARIABLES
  settled,   (* what the job's row says it ended with: at most one of Ends   *)
  log,
  listening, (* the readers that are handed what is published                *)
  reader     (* of each: its stage, what it got                              *)

vars == <<settled, log, listening, reader>>

Init ==
  /\ settled = {} /\ log = << >> /\ listening = {}
  /\ reader = [c \in Readers |-> [stage |-> "new", got |-> << >>]]

Over == \E i \in 1 .. Len(log) : log[i] \in Ends

Settle ==
  /\ settled = {} /\ \E e \in Ends : settled' = {e}
  /\ UNCHANGED <<log, listening, reader>>

(* A log ends with what was stored before, and then does not grow.         *)
Publish ==
  /\ ~Over
  /\ \E e \in IF settled = {} THEN Updates ELSE settled : log' = Append(log, e)
  /\ UNCHANGED <<settled, listening, reader>>

Join(c) ==
  /\ reader[c].stage = "new"
  /\ reader' = [reader EXCEPT ![c].stage = "reading"]
  /\ listening' = IF Over THEN listening ELSE listening \cup {c}
  /\ UNCHANGED <<settled, log>>

Read(c) ==
  /\ reader[c].stage = "reading" /\ Len(reader[c].got) < Len(log)
  /\ LET e == log[Len(reader[c].got) + 1]
     IN  /\ reader' = [reader EXCEPT ![c] = [stage |-> IF e \in Ends THEN "done" ELSE "reading",
                                             got   |-> Append(@.got, e)]]
         /\ listening' = IF e \in Ends THEN listening \ {c} ELSE listening
  /\ UNCHANGED <<settled, log>>

(* Cut off, by the client or by the server's end.                          *)
Leave(c) ==
  /\ reader[c].stage = "reading"
  /\ reader' = [reader EXCEPT ![c].stage = "cut"]
  /\ listening' = listening \ {c}
  /\ UNCHANGED <<settled, log>>

(* The log is not durable; what the row says is.                           *)
Reset ==
  /\ log' = << >> /\ listening' = {}
  /\ reader' = [c \in Readers |-> IF reader[c].stage = "reading"
                                  THEN [reader[c] EXCEPT !.stage = "cut"] ELSE reader[c]]
  /\ UNCHANGED settled

Next ==
  \/ Settle \/ Publish \/ Reset
  \/ \E c \in Readers : Join(c) \/ Read(c) \/ Leave(c)

Spec == Init /\ [][Next]_vars
=============================================================================
