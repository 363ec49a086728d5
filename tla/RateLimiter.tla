---------------------------- MODULE RateLimiter ----------------------------
(***************************************************************************)
(* RateLimiter.check (api/rate_limit.py): the attempts of one key that     *)
(* were let through lately, oldest first.  The key is the address of a     *)
(* client, or an e-mail address that asked for a reset link.               *)
(***************************************************************************)
EXTENDS Integers, Sequences

(* popleft() while the oldest attempt has left the window.                 *)
Pruned(dq, now, window) ==
  LET stays(i) == dq[i] > now - window
      from     == CHOOSE i \in 1 .. Len(dq) + 1 :
                    /\ i <= Len(dq) => stays(i)
                    /\ \A j \in 1 .. i - 1 : ~stays(j)
  IN  SubSeq(dq, from, Len(dq))

Admits(dq, now, limit, window) == Len(Pruned(dq, now, window)) < limit

(* What check leaves behind; an attempt that is refused is not recorded.   *)
Checked(dq, now, limit, window) ==
  IF Admits(dq, now, limit, window)
  THEN Append(Pruned(dq, now, window), now)
  ELSE Pruned(dq, now, window)
=============================================================================
