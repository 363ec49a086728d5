------------------------------ MODULE StoreConn ------------------------------
(***************************************************************************)
(* The connections of the stores to Turso (runner/db_backend.py) and the   *)
(* calls that write through them: store.py, user_store.py,                 *)
(* password_reset_store.py, blob_store.py.                                 *)
(*                                                                         *)
(* A writing call executes one statement and commits, under its store's    *)
(* lock, so a store has one call at a time.  Its n-th call writes n to the *)
(* store's row.  Each of the two operations is tried again over a new      *)
(* connection when the old one is found dropped.  Remote: a connection for *)
(* each store; embedded: one for all, with a lock around each operation.   *)
(***************************************************************************)
EXTENDS Naturals

CONSTANTS
  Stores,
  Blobs,       (* those of them that close the connection after each call:   *)
               (* blob_store                                                 *)
  NoStore, Shared,
  Modes,       (* "remote", "embedded": TURSO_EMBEDDED_REPLICA_ENABLED       *)
  MaxRetries,  (* TURSO_RECONNECT_MAX_RETRIES                                *)
  MaxCalls     (* bound: calls of a store                                    *)

(* What the theorems about this module assume.                             *)
StoreConnAssumption ==
  /\ Blobs \subseteq Stores /\ NoStore \notin Stores /\ Shared \notin Stores
  /\ Modes \subseteq {"remote", "embedded"}
  /\ MaxRetries \in Nat /\ MaxCalls \in Nat

VARIABLES
  mode,
  at,       (* of each store: idle, execute, commit, close                   *)
  tries,    (* the attempts of its operation that failed                     *)
  calls,    (* its calls so far                                              *)
  lock,     (* of the shared connection: the store that holds it             *)
  up,       (* of each connection: is it usable?                             *)
  pending,  (* what it has executed and not committed, by store (0: nothing) *)
  table,    (* the store's row in the database                               *)
  acked,    (* history: its last call that returned without an error         *)
  lost      (* history: a write of it went down with a connection            *)

vars == <<mode, at, tries, calls, lock, up, pending, table, acked, lost>>

Conns   == Stores \cup {Shared}
conn(s) == IF mode = "embedded" THEN Shared ELSE s
Nothing == [s \in Stores |-> 0]

Init ==
  /\ mode \in Modes
  /\ at = [s \in Stores |-> "idle"] /\ tries = Nothing /\ calls = Nothing
  /\ lock = NoStore
  /\ up = [c \in Conns |-> TRUE] /\ pending = [c \in Conns |-> Nothing]
  /\ table = Nothing /\ acked = Nothing
  /\ lost = [s \in Stores |-> FALSE]

-----------------------------------------------------------------------------

(* A blob call on a connection of its own opens a new one.                 *)
Begin(s) ==
  /\ at[s] = "idle" /\ calls[s] < MaxCalls
  /\ calls' = [calls EXCEPT ![s] = @ + 1]
  /\ at' = [at EXCEPT ![s] = "execute"]
  /\ up' = IF s \in Blobs /\ mode = "remote" THEN [up EXCEPT ![s] = TRUE] ELSE up
  /\ UNCHANGED <<mode, tries, lock, pending, table, acked, lost>>

(* The operation has the lock, where there is one, until it is over.       *)
MayRun(s) == mode = "embedded" => lock \in {NoStore, s}
Over(s, next) ==
  /\ at' = [at EXCEPT ![s] = next]
  /\ tries' = [tries EXCEPT ![s] = 0]
  /\ lock' = IF lock = s THEN NoStore ELSE lock

After(s) == IF s \in Blobs THEN "close" ELSE "idle"

Execute(s) ==
  /\ at[s] = "execute" /\ MayRun(s) /\ up[conn(s)]
  /\ pending' = [pending EXCEPT ![conn(s)][s] = calls[s]]
  /\ Over(s, "commit")
  /\ UNCHANGED <<mode, calls, up, table, acked, lost>>

(* What a connection has pending reaches the table together, whoever       *)
(* commits.                                                                *)
Landed(c) == [s \in Stores |-> IF pending[c][s] # 0 THEN pending[c][s] ELSE table[s]]

(* commit() returns, and with it the call.                                 *)
Commit(s) ==
  /\ at[s] = "commit" /\ MayRun(s) /\ up[conn(s)]
  /\ table' = Landed(conn(s))
  /\ pending' = [pending EXCEPT ![conn(s)] = Nothing]
  /\ acked' = [acked EXCEPT ![s] = calls[s]]
  /\ Over(s, After(s))
  /\ UNCHANGED <<mode, calls, up, lost>>

(* What is pending goes down with the connection, and is rolled back,      *)
(* unless it has landed.                                                   *)
GoesDown(c, landed) ==
  /\ table' = IF landed THEN Landed(c) ELSE table
  /\ lost' = [s \in Stores |-> lost[s] \/ (~landed /\ pending[c][s] # 0)]
  /\ pending' = [pending EXCEPT ![c] = Nothing]

(* An attempt finds the connection dropped, now or since; a commit may     *)
(* have been carried out.  There may be a new connection at once.          *)
Dropped(s) ==
  /\ at[s] \in {"execute", "commit"} /\ MayRun(s)
  /\ \E landed \in {FALSE, at[s] = "commit" /\ up[conn(s)]} : GoesDown(conn(s), landed)

Retry(s) ==
  /\ Dropped(s) /\ tries[s] < MaxRetries
  /\ tries' = [tries EXCEPT ![s] = @ + 1]
  /\ lock' = IF mode = "embedded" THEN s ELSE lock
  /\ \E again \in BOOLEAN : up' = [up EXCEPT ![conn(s)] = again]
  /\ UNCHANGED <<mode, at, calls, acked>>

(* The retries are used up: the call raises.                               *)
GiveUp(s) ==
  /\ Dropped(s) /\ tries[s] = MaxRetries
  /\ up' = [up EXCEPT ![conn(s)] = FALSE]
  /\ Over(s, After(s))
  /\ UNCHANGED <<mode, calls, acked>>

(* Any other error raises at once; so may the use of a connection that     *)
(* somebody closed.  What is pending stays pending.                        *)
Fail(s) ==
  /\ at[s] \in {"execute", "commit"} /\ MayRun(s)
  /\ Over(s, After(s))
  /\ UNCHANGED <<mode, calls, up, pending, table, acked, lost>>

(* close() at the end of a blob call does not take the lock, and the       *)
(* shared connection is everybody's.                                       *)
Close(s) ==
  /\ at[s] = "close"
  /\ GoesDown(conn(s), FALSE)
  /\ up' = [up EXCEPT ![conn(s)] = FALSE]
  /\ at' = [at EXCEPT ![s] = "idle"]
  /\ UNCHANGED <<mode, tries, calls, lock, acked>>

Next ==
  \E s \in Stores :
    Begin(s) \/ Execute(s) \/ Commit(s) \/ Retry(s) \/ GiveUp(s) \/ Fail(s) \/ Close(s)

Spec == Init /\ [][Next]_vars

-----------------------------------------------------------------------------
(* Properties *)

TypeOK ==
  /\ mode \in {"remote", "embedded"}
  /\ at \in [Stores -> {"idle", "execute", "commit", "close"}]
  /\ tries \in [Stores -> Nat] /\ calls \in [Stores -> Nat]
  /\ lock \in Stores \cup {NoStore}
  /\ up \in [Conns -> BOOLEAN] /\ pending \in [Conns -> [Stores -> Nat]]
  /\ table \in [Stores -> Nat] /\ acked \in [Stores -> Nat]
  /\ lost \in [Stores -> BOOLEAN]

(* A call that returned has written.  mark_used relies on it: 063 EC-6     *)
(* says that a drop found at commit() leaves the reset closed.  The code   *)
(* commits the new connection, where nothing is pending, and returns.      *)
AckedIsStored == \A s \in Stores : acked[s] <= table[s]

(* It is the only way: a call that returned has written, or its write went *)
(* down with a connection, dropped under it or closed by a blob call.      *)
AckedUnlessLost == \A s \in Stores : acked[s] <= table[s] \/ lost[s]

(* Whatever others commit or fail to on the same connection, a row only    *)
(* moves on, and never to a write that was not asked for.                  *)
RowsMoveOn == [][\A s \in Stores : table[s] <= table'[s] /\ table'[s] <= calls[s]]_vars
=============================================================================
