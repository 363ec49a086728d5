---------------------------- MODULE JobLifecycle ----------------------------
(***************************************************************************)
(* What the jobs table promises about an analysis job, with threads,       *)
(* records, checkpoints and the process left out: the JobState of          *)
(* runner/models.py and the moves between its values.                      *)
(***************************************************************************)
EXTENDS FiniteSets

CONSTANT Jobs

VARIABLE state   (* "none" before submission; "leaving" while the retention *)
                 (* prune of the job is under way, "gone" after it          *)

Live     == {"queued", "running", "completed", "failed"}
States   == {"none", "leaving", "gone"} \cup Live
TypeOK   == state \in [Jobs -> States]

Init == state = [j \in Jobs |-> "none"]

Move(j, from, to) == state[j] = from /\ state' = [state EXCEPT ![j] = to]

(* An upload is accepted, or refused after its id was drawn.               *)
Accept(j) == Move(j, "none", "queued")
Refuse(j) == Move(j, "none", "gone")

Start(j) == Move(j, "queued", "running")

(* Run again from the start after a restart.                               *)
Requeue(j) == Move(j, "running", "queued")

Finish(j) == Move(j, "running", "completed") \/ Move(j, "running", "failed")

(* Retention picks jobs of any age and state; the prune makes them         *)
(* invisible at once and is over later.                                    *)
Prune(S) ==
  /\ \A j \in S : state[j] \in Live
  /\ state' = [j \in Jobs |-> IF j \in S THEN "leaving" ELSE state[j]]

(* The prune is over: the jobs are gone, except that an interrupted one    *)
(* may leave behind the row of a job that was running.                     *)
Depart ==
  /\ \E j \in Jobs : state[j] = "leaving"
  /\ \E f \in [{j \in Jobs : state[j] = "leaving"} -> {"gone"} \cup Live] :
       state' = [j \in Jobs |-> IF state[j] = "leaving" THEN f[j] ELSE state[j]]

Next ==
  \/ \E j \in Jobs : Accept(j) \/ Refuse(j) \/ Start(j) \/ Requeue(j) \/ Finish(j)
  \/ \E S \in SUBSET Jobs : Prune(S)
  \/ Depart

Spec == Init /\ [][Next]_state
=============================================================================
