----------------------------- MODULE LoginGuard -----------------------------
(***************************************************************************)
(* What stands between a client and the password of an account: the limit  *)
(* on attempts per address, kept in the process, and the lockout, kept in  *)
(* the account's row (login in api/auth.py, record_login_failure and its   *)
(* neighbours in runner/user_store.py).                                    *)
(*                                                                         *)
(* The handlers have no await and run on the event loop, so each is one    *)
(* step; time passes between them, and the process may be restarted.       *)
(***************************************************************************)
EXTENDS RateLimiter

CONSTANTS
  Clients,                                    (* client addresses            *)
  RateLimitMax, RateLimitWindow,              (* AUTH_RATE_LIMIT_*           *)
  MaxFailures, LockoutWindow, LockoutDuration,(* AUTH_LOCKOUT_*              *)
  MaxTime                                     (* bound: when the clock stops *)

ASSUME GuardAssumption ==
  /\ RateLimitMax \in Nat \ {0} /\ RateLimitWindow \in Nat \ {0}
  /\ MaxFailures \in Nat \ {0}
  /\ LockoutWindow \in Nat /\ LockoutDuration \in Nat
  /\ MaxTime \in Nat

VARIABLES
  now,       (* the clock                                                    *)
  hits,      (* RateLimiter._hits, by address                                *)
  account,   (* the row's failed_login_count, first_failure_at,              *)
             (* lockout_until                                                *)
  admitted,  (* history: all attempts let through since the process started  *)
  guesses    (* history: wrong passwords since the last right one            *)

vars == <<now, hits, account, admitted, guesses>>

NoTime == -1   (* a column that is NULL                                      *)
Clear  == [count |-> 0, first |-> NoTime, until |-> NoTime]

Init ==
  /\ now = 0
  /\ hits = [c \in Clients |-> << >>] /\ admitted = hits
  /\ account = Clear /\ guesses = << >>

Locked == now < account.until

-----------------------------------------------------------------------------
(* The handlers *)

Lets(c) == Admits(hits[c], now, RateLimitMax, RateLimitWindow)

(* Mutant: an attempt is forgotten one unit of time too early.             *)
EnforceEarly(c) ==
  /\ Admits(hits[c], now, RateLimitMax, RateLimitWindow - 1)
  /\ hits' = [hits EXCEPT ![c] = Append(Pruned(@, now, RateLimitWindow - 1), now)]
  /\ admitted' = [admitted EXCEPT ![c] = Append(@, now)]

(* _enforce_ip_rate_limit, of an attempt that it lets through.             *)
Enforce(c) ==
  /\ Lets(c)
  /\ hits' = [hits EXCEPT ![c] = Checked(@, now, RateLimitMax, RateLimitWindow)]
  /\ admitted' = [admitted EXCEPT ![c] = Append(@, now)]

(* Mutant: a refused attempt is recorded like any other.                   *)
RefuseRecorded(c) ==
  /\ ~Lets(c)
  /\ hits' = [hits EXCEPT ![c] = Append(Pruned(@, now, RateLimitWindow), now)]
  /\ UNCHANGED <<now, account, admitted, guesses>>

(* 429 for the address: sign-up, log-in, forgotten, reset or changed       *)
(* password.                                                               *)
Refuse(c) ==
  /\ ~Lets(c)
  /\ hits' = [hits EXCEPT ![c] = Checked(@, now, RateLimitMax, RateLimitWindow)]
  /\ UNCHANGED <<now, account, admitted, guesses>>

(* Any of these that does not ask for this account's password, or that the *)
(* lockout answers with 429.                                               *)
Attempt(c) ==
  /\ Enforce(c)
  /\ UNCHANGED <<now, account, guesses>>

WithinWindow == account.first # NoTime /\ now - account.first <= LockoutWindow

(* Mutant: every failure opens the window anew, with a count of one.       *)
recordFailureAnew ==
  LET count == IF WithinWindow /\ account.first = now THEN account.count + 1 ELSE 1
  IN  [count |-> count, first |-> now,
       until |-> IF count >= MaxFailures THEN now + LockoutDuration ELSE NoTime]

(* record_login_failure: the window is opened by the first failure; a      *)
(* lockout that has run out leaves the count where it was.                 *)
recordFailure ==
  LET count == IF WithinWindow THEN account.count + 1 ELSE 1
  IN  [count |-> count,
       first |-> IF WithinWindow THEN account.first ELSE now,
       until |-> IF count >= MaxFailures THEN now + LockoutDuration ELSE NoTime]

WrongPassword(c) ==
  /\ ~Locked
  /\ Enforce(c)
  /\ account' = recordFailure
  /\ guesses' = Append(guesses, now)
  /\ UNCHANGED now

RightPassword(c) ==
  /\ ~Locked
  /\ Enforce(c)
  /\ account' = Clear   (* reset_login_failures *)
  /\ guesses' = << >>
  /\ UNCHANGED now

(* The limiter starts empty, the row is kept.                              *)
Restart ==
  /\ hits' = [c \in Clients |-> << >>] /\ admitted' = hits'
  /\ UNCHANGED <<now, account, guesses>>

Tick ==
  /\ now < MaxTime /\ now' = now + 1
  /\ UNCHANGED <<hits, account, admitted, guesses>>

Next ==
  \/ \E c \in Clients :
       Refuse(c) \/ Attempt(c) \/ WrongPassword(c) \/ RightPassword(c)
  \/ Restart \/ Tick

Spec == Init /\ [][Next]_vars

-----------------------------------------------------------------------------
(* Properties *)

TypeOK ==
  /\ now \in Nat
  /\ hits \in [Clients -> Seq(Nat)] /\ admitted \in [Clients -> Seq(Nat)]
  /\ account \in [count : Nat, first : Nat \cup {NoTime}, until : Nat \cup {NoTime}]
  /\ guesses \in Seq(Nat)

(* Between an attempt and the RateLimitMax-th after it a whole window      *)
(* passes: no window of the process holds more attempts of an address than *)
(* the limit, whatever was refused or forgotten in between (check).        *)
SpacedOut ==
  \A c \in Clients :
    \A i \in DOMAIN admitted[c] :
      i + RateLimitMax \in DOMAIN admitted[c] =>
        admitted[c][i] + RateLimitWindow <= admitted[c][i + RateLimitMax]

(* Who is refused has used up the limit in the last window: refused        *)
(* attempts do not keep a client out (check).                              *)
RefusedOnlyWhenFull ==
  \A c \in Clients :
    ~Lets(c) =>
      /\ Len(admitted[c]) >= RateLimitMax
      /\ admitted[c][Len(admitted[c]) - RateLimitMax + 1] > now - RateLimitWindow

(* An account is locked only after MaxFailures wrong passwords without a   *)
(* right one, all within the lockout window, and for as long as the last   *)
(* of them says (record_login_failure, reset_login_failures).              *)
LockEarned ==
  Locked =>
    LET n == Len(guesses)
    IN  /\ n >= MaxFailures
        /\ guesses[n] - guesses[n - MaxFailures + 1] <= LockoutWindow
        /\ account.until = guesses[n] + LockoutDuration

(* The window is that of the first failure, so twice the limit may come    *)
(* close together, but no more: 2 * MaxFailures wrong passwords in a row   *)
(* take longer than the window, or one of them was followed by a lockout.  *)
GuessesBounded ==
  \A i \in DOMAIN guesses :
    LET last == i + 2 * MaxFailures - 1
    IN  last \in DOMAIN guesses =>
          \/ guesses[last] - guesses[i] > LockoutWindow
          \/ \E j \in i .. last - 1 : guesses[j] + LockoutDuration <= guesses[j + 1]
=============================================================================
