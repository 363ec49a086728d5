----------------------------- MODULE MCAccounts -----------------------------
EXTENDS Accounts, TLC

(* Two browsers and one reset link; one browser and two links issued at    *)
(* the same time; one browser and a long time.                             *)
MCScopes ==
  {[browsers |-> Browsers, tasks |-> {k},
    links |-> 1, time |-> 1, epoch |-> 2, faults |-> 1] : k \in Tasks}
  \cup {[browsers |-> {b}, tasks |-> Tasks,
         links |-> 2, time |-> 2, epoch |-> 1, faults |-> 1] : b \in Browsers}
  \cup {[browsers |-> {b}, tasks |-> {},
         links |-> 0, time |-> 4, epoch |-> 1, faults |-> 0] : b \in Browsers}

(* One browser with two tabs.                                              *)
MCTabScopes ==
  {[browsers |-> Browsers, tasks |-> {}, links |-> 0, time |-> 0,
    epoch |-> 1, faults |-> 0]}

(* Browsers and the threads that mail links are alike.                     *)
Symmetric == Permutations(Browsers) \cup Permutations(Tasks)
=============================================================================
