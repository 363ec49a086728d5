--------------------------- MODULE LoginGuardProofs ---------------------------
(***************************************************************************)
(* The limit on attempts and the lockout, for all limits, windows and      *)
(* times and any number of clients and restarts.                           *)
(***************************************************************************)
EXTENDS LoginGuard, SequenceTheorems, WellFoundedInduction, TLAPS

LEMMA LeastNat ==
  ASSUME NEW T \in SUBSET Nat, T # {}
  PROVE  \E x \in T : \A y \in T : x <= y
<1>1. PICK x \in T : \A y \in T : ~ (<<y, x>> \in OpToRel(<, Nat))
  BY NatLessThanWellFounded, WFMin, Zenon
<1>2. \A y \in T : ~ (y < x)
  BY <1>1 DEF OpToRel
<1>3. QED
  BY <1>2

-----------------------------------------------------------------------------
(* The limiter *)

(* What the loop of popleft() leaves: all that is dropped has left the     *)
(* window, and the first that stays has not.                               *)
LEMMA PrunedDrops ==
  ASSUME NEW dq \in Seq(Nat), NEW t \in Nat, NEW window \in Nat
  PROVE  \E k \in 0 .. Len(dq) :
           /\ Pruned(dq, t, window) \in Seq(Nat)
           /\ Len(Pruned(dq, t, window)) = Len(dq) - k
           /\ \A i \in 1 .. Len(dq) - k : Pruned(dq, t, window)[i] = dq[k + i]
           /\ \A i \in 1 .. k : dq[i] <= t - window
           /\ k < Len(dq) => dq[k + 1] > t - window
<1> DEFINE stays(i) == dq[i] > t - window
           Stop(i) == /\ i <= Len(dq) => stays(i)
                      /\ \A j \in 1 .. i - 1 : ~stays(j)
           T == {i \in 1 .. Len(dq) + 1 : i <= Len(dq) => stays(i)}
<1>1. Len(dq) \in Nat /\ \A i \in 1 .. Len(dq) : dq[i] \in Nat
  BY LenProperties
<1>2. \E i \in 1 .. Len(dq) + 1 : Stop(i)
  <2>1. Len(dq) + 1 \in T
    BY <1>1
  <2>2. T \in SUBSET Nat
    BY <1>1
  <2>3. PICK x \in T : \A y \in T : x <= y
    <3> HIDE DEF T
    <3>1. QED
      BY <2>1, <2>2, LeastNat
  <2>4. \A j \in 1 .. x - 1 : ~stays(j)
    BY <1>1, <2>3
  <2>5. QED
    BY <2>3, <2>4
<1> DEFINE from == CHOOSE i \in 1 .. Len(dq) + 1 : Stop(i)
<1>3. from \in 1 .. Len(dq) + 1 /\ Stop(from)
  <2> HIDE DEF Stop
  <2>1. QED
    BY <1>2
<1>4. Pruned(dq, t, window) = SubSeq(dq, from, Len(dq))
  BY DEF Pruned
<1> HIDE DEF from
<1>5. \A i \in from .. Len(dq) : dq[i] \in Nat
  BY <1>1, <1>3
<1>6. /\ SubSeq(dq, from, Len(dq)) \in Seq(Nat)
      /\ Len(SubSeq(dq, from, Len(dq))) = IF from <= Len(dq) THEN Len(dq) - from + 1 ELSE 0
      /\ \A i \in 1 .. Len(dq) - from + 1 : SubSeq(dq, from, Len(dq))[i] = dq[from + i - 1]
  BY <1>1, <1>3, <1>5, SubSeqProperties
<1> DEFINE k == from - 1
<1>7. k \in 0 .. Len(dq) /\ from = k + 1
  BY <1>1, <1>3
<1>8. Len(Pruned(dq, t, window)) = Len(dq) - k
  BY <1>1, <1>4, <1>6, <1>7
<1>9. \A i \in 1 .. Len(dq) - k : Pruned(dq, t, window)[i] = dq[k + i]
  <2> TAKE i \in 1 .. Len(dq) - k
  <2>1. Len(dq) \in Nat
    BY <1>1
  <2> HIDE DEF k
  <2>2. i \in 1 .. Len(dq) - from + 1 /\ from + i - 1 = k + i
    BY <1>3, <1>7, <2>1
  <2>3. SubSeq(dq, from, Len(dq))[i] = dq[from + i - 1]
    BY <1>6, <2>2
  <2>4. QED
    BY <1>4, <2>2, <2>3
<1>10. \A i \in 1 .. k : dq[i] <= t - window
  BY <1>1, <1>3
<1>11. k < Len(dq) => dq[k + 1] > t - window
  BY <1>1, <1>3
<1>12. QED
  BY <1>4, <1>6, <1>7, <1>8, <1>9, <1>10, <1>11

(* The limiter remembers the latest of the attempts it has let through;    *)
(* what it has forgotten has left the window.                              *)
Remembered(dq, all) ==
  /\ dq \in Seq(Nat) /\ all \in Seq(Nat)
  /\ Len(dq) <= Len(all)
  /\ \A i \in 1 .. Len(dq) : dq[i] = all[Len(all) - Len(dq) + i]
  /\ \A i, j \in 1 .. Len(all) : i <= j => all[i] <= all[j]

Ledger(dq, all, t) ==
  /\ Remembered(dq, all)
  /\ \A i \in 1 .. Len(all) - Len(dq) : all[i] <= t - RateLimitWindow
  /\ \A i \in 1 .. Len(all) : all[i] <= t

LEMMA LedgerPruned ==
  ASSUME NEW dq, NEW all, NEW t \in Nat, Ledger(dq, all, t)
  PROVE  Ledger(Pruned(dq, t, RateLimitWindow), all, t)
<1>1. PICK k \in 0 .. Len(dq) :
           /\ Pruned(dq, t, RateLimitWindow) \in Seq(Nat)
           /\ Len(Pruned(dq, t, RateLimitWindow)) = Len(dq) - k
           /\ \A i \in 1 .. Len(dq) - k : Pruned(dq, t, RateLimitWindow)[i] = dq[k + i]
           /\ \A i \in 1 .. k : dq[i] <= t - RateLimitWindow
  BY PrunedDrops, GuardAssumption DEF Ledger, Remembered
<1> DEFINE p == Pruned(dq, t, RateLimitWindow)
<1> HIDE DEF p
<1>2. Len(dq) \in Nat /\ Len(all) \in Nat /\ Len(p) = Len(dq) - k
      /\ Len(dq) <= Len(all) /\ p \in Seq(Nat)
  BY <1>1, LenProperties DEF Ledger, Remembered, p
<1>3. \A i \in 1 .. Len(dq) : dq[i] = all[Len(all) - Len(dq) + i]
  BY DEF Ledger, Remembered
<1>4. \A i \in 1 .. Len(p) : p[i] = all[Len(all) - Len(p) + i]
  <2> TAKE i \in 1 .. Len(p)
  <2>1. p[i] = dq[k + i] /\ k + i \in 1 .. Len(dq)
    BY <1>1, <1>2 DEF p
  <2>2. Len(all) - Len(dq) + (k + i) = Len(all) - Len(p) + i
    BY <1>2
  <2>3. QED
    BY <1>3, <2>1, <2>2
<1>5. \A i \in 1 .. Len(all) - Len(p) : all[i] <= t - RateLimitWindow
  <2> TAKE i \in 1 .. Len(all) - Len(p)
  <2>1. CASE i \in 1 .. Len(all) - Len(dq)
    BY <2>1 DEF Ledger, Remembered
  <2>2. CASE i \notin 1 .. Len(all) - Len(dq)
    <3> DEFINE h == i - (Len(all) - Len(dq))
    <3>1. h \in 1 .. k /\ h \in 1 .. Len(dq) /\ Len(all) - Len(dq) + h = i
      BY <1>2, <2>2
    <3>2. QED
      BY <1>1, <1>3, <3>1
  <2>3. QED
    BY <2>1, <2>2
<1>6. QED
  BY <1>2, <1>4, <1>5 DEF Ledger, Remembered, p

LEMMA LedgerAppended ==
  ASSUME NEW dq, NEW all, NEW t \in Nat, Ledger(dq, all, t)
  PROVE  Ledger(Append(dq, t), Append(all, t), t)
<1> DEFINE d == Append(dq, t)
           a == Append(all, t)
<1>1. dq \in Seq(Nat) /\ all \in Seq(Nat) /\ Len(dq) \in Nat /\ Len(all) \in Nat
      /\ Len(dq) <= Len(all)
  BY LenProperties DEF Ledger, Remembered
<1>2. /\ d \in Seq(Nat) /\ Len(d) = Len(dq) + 1 /\ d[Len(dq) + 1] = t
      /\ \A i \in 1 .. Len(dq) : d[i] = dq[i]
  BY <1>1, AppendProperties
<1>3. /\ a \in Seq(Nat) /\ Len(a) = Len(all) + 1 /\ a[Len(all) + 1] = t
      /\ \A i \in 1 .. Len(all) : a[i] = all[i]
  BY <1>1, AppendProperties
<1> HIDE DEF d, a
<1>4. \A i \in 1 .. Len(d) : d[i] = a[Len(a) - Len(d) + i]
  <2> TAKE i \in 1 .. Len(d)
  <2>1. CASE i = Len(dq) + 1
    BY <1>1, <1>2, <1>3, <2>1
  <2>2. CASE i # Len(dq) + 1
    <3>1. /\ i \in 1 .. Len(dq) /\ Len(a) - Len(d) + i = Len(all) - Len(dq) + i
          /\ Len(all) - Len(dq) + i \in 1 .. Len(all)
      <4>1. Len(d) = Len(dq) + 1 /\ Len(a) = Len(all) + 1
        BY <1>2, <1>3
      <4>2. Len(dq) \in Nat /\ Len(all) \in Nat /\ Len(dq) <= Len(all)
        BY <1>1
      <4>3. i \in 1 .. Len(dq)
        BY <2>2, <4>1, <4>2
      <4>4. QED
        BY <4>1, <4>2, <4>3
    <3>2. dq[i] = all[Len(all) - Len(dq) + i]
      BY <3>1 DEF Ledger, Remembered
    <3>3. QED
      BY <1>2, <1>3, <3>1, <3>2
  <2>3. QED
    BY <2>1, <2>2
<1>5. \A i \in 1 .. Len(a) - Len(d) : a[i] <= t - RateLimitWindow
  <2> TAKE i \in 1 .. Len(a) - Len(d)
  <2>1. i \in 1 .. Len(all) - Len(dq) /\ i \in 1 .. Len(all)
    <3>1. Len(d) = Len(dq) + 1 /\ Len(a) = Len(all) + 1
      BY <1>2, <1>3
    <3>2. Len(dq) \in Nat /\ Len(all) \in Nat
      BY <1>1
    <3>3. QED
      BY <3>1, <3>2
  <2>2. all[i] <= t - RateLimitWindow
    BY <2>1 DEF Ledger, Remembered
  <2>3. QED
    BY <1>3, <2>1, <2>2
<1>6. \A i \in 1 .. Len(a) : a[i] \in Nat /\ a[i] <= t
  <2> TAKE i \in 1 .. Len(a)
  <2>1. CASE i \in 1 .. Len(all)
    <3>1. all[i] <= t /\ all[i] \in Nat
      BY <1>1, <2>1, LenProperties DEF Ledger, Remembered
    <3>2. QED
      BY <1>3, <2>1, <3>1
  <2>2. CASE i = Len(all) + 1
    BY <1>3, <2>2
  <2>3. QED
    BY <1>1, <1>3, <2>1, <2>2
<1>7. \A i, j \in 1 .. Len(a) : i <= j => a[i] <= a[j]
  <2> TAKE i, j \in 1 .. Len(a)
  <2>1. CASE j = Len(all) + 1
    BY <1>3, <1>6, <2>1
  <2>2. CASE i <= j /\ j # Len(all) + 1
    <3>1. i \in 1 .. Len(all) /\ j \in 1 .. Len(all)
      <4>1. Len(a) = Len(all) + 1 /\ Len(all) \in Nat
        BY <1>1, <1>3
      <4>2. QED
        BY <2>2, <4>1
    <3>2. all[i] <= all[j]
      BY <2>2, <3>1 DEF Ledger, Remembered
    <3>3. QED
      BY <1>3, <3>1, <3>2
  <2>3. QED
    BY <2>1, <2>2
<1>8. Len(d) <= Len(a)
  BY <1>1, <1>2, <1>3
<1>9. QED
  BY <1>2, <1>3, <1>4, <1>5, <1>6, <1>7, <1>8 DEF Ledger, Remembered, d, a

LEMMA LedgerLater ==
  ASSUME NEW dq, NEW all, NEW t \in Nat, Ledger(dq, all, t)
  PROVE  Ledger(dq, all, t + 1)
<1>1. \A i \in 1 .. Len(all) : all[i] \in Nat
  BY LenProperties DEF Ledger, Remembered
<1>2. Len(dq) \in Nat /\ Len(all) \in Nat /\ RateLimitWindow \in Nat
  BY LenProperties, GuardAssumption DEF Ledger, Remembered
<1>3. \A i \in 1 .. Len(all) - Len(dq) : all[i] <= t + 1 - RateLimitWindow
  <2> TAKE i \in 1 .. Len(all) - Len(dq)
  <2>1. all[i] <= t - RateLimitWindow /\ i \in 1 .. Len(all)
    BY <1>2 DEF Ledger, Remembered
  <2>2. QED
    BY <1>1, <1>2, <2>1
<1>4. \A i \in 1 .. Len(all) : all[i] <= t + 1
  BY <1>1 DEF Ledger, Remembered
<1>5. Remembered(dq, all)
  BY DEF Ledger
<1>6. QED
  BY <1>2, <1>3, <1>4, <1>5 DEF Ledger

Spaced(all) ==
  \A i \in 1 .. Len(all) :
    i + RateLimitMax \in 1 .. Len(all) => all[i] + RateLimitWindow <= all[i + RateLimitMax]

(* An attempt that is let through comes a window after the one that is     *)
(* RateLimitMax before it.                                                 *)
LEMMA SpacedAppended ==
  ASSUME NEW dq, NEW all, NEW t \in Nat, Ledger(dq, all, t), Spaced(all),
         Admits(dq, t, RateLimitMax, RateLimitWindow)
  PROVE  Spaced(Append(all, t))
<1> DEFINE p == Pruned(dq, t, RateLimitWindow)
           a == Append(all, t)
<1>1. Ledger(p, all, t)
  BY LedgerPruned
<1>2. Len(p) < RateLimitMax
  BY DEF Admits
<1> HIDE DEF p
<1>3. Len(p) \in Nat /\ all \in Seq(Nat) /\ Len(all) \in Nat /\ RateLimitMax \in Nat
      /\ RateLimitWindow \in Nat /\ \A i \in 1 .. Len(all) : all[i] \in Nat
  BY <1>1, LenProperties, GuardAssumption DEF Ledger, Remembered
<1>4. /\ Len(a) = Len(all) + 1 /\ a[Len(all) + 1] = t
      /\ \A i \in 1 .. Len(all) : a[i] = all[i]
  BY <1>3, AppendProperties
<1> HIDE DEF a
<1>5. ASSUME NEW i \in 1 .. Len(a), i + RateLimitMax \in 1 .. Len(a)
      PROVE  a[i] + RateLimitWindow <= a[i + RateLimitMax]
  <2>1. RateLimitMax > 0 /\ RateLimitMax \in Nat /\ Len(p) \in Nat /\ Len(all) \in Nat
        /\ Len(a) = Len(all) + 1
    BY <1>3, <1>4, GuardAssumption
  <2>2. CASE i + RateLimitMax = Len(all) + 1
    <3>1. i \in 1 .. Len(all) - Len(p) /\ i \in 1 .. Len(all)
      BY <1>2, <2>1, <2>2
    <3>2. all[i] <= t - RateLimitWindow
      BY <1>1, <3>1 DEF Ledger, Remembered
    <3>3. a[i] = all[i] /\ a[i + RateLimitMax] = t /\ all[i] \in Nat
      BY <1>3, <1>4, <2>2, <3>1
    <3>4. QED
      BY <1>3, <3>2, <3>3
  <2>3. CASE i + RateLimitMax # Len(all) + 1
    <3>1. i \in 1 .. Len(all) /\ i + RateLimitMax \in 1 .. Len(all)
      BY <1>5, <2>1, <2>3
    <3>2. QED
      BY <1>4, <3>1 DEF Spaced
  <2>4. QED
    BY <2>2, <2>3
<1>6. QED
  BY <1>5 DEF Spaced, a

(* Who is refused has used up the limit within the window.                 *)
LEMMA RefusedIsFull ==
  ASSUME NEW dq, NEW all, NEW t \in Nat, Ledger(dq, all, t),
         ~Admits(dq, t, RateLimitMax, RateLimitWindow)
  PROVE  /\ Len(all) >= RateLimitMax
         /\ all[Len(all) - RateLimitMax + 1] > t - RateLimitWindow
<1>1. PICK k \in 0 .. Len(dq) :
           /\ Pruned(dq, t, RateLimitWindow) \in Seq(Nat)
           /\ Len(Pruned(dq, t, RateLimitWindow)) = Len(dq) - k
           /\ \A i \in 1 .. Len(dq) - k : Pruned(dq, t, RateLimitWindow)[i] = dq[k + i]
           /\ \A i \in 1 .. k : dq[i] <= t - RateLimitWindow
           /\ k < Len(dq) => dq[k + 1] > t - RateLimitWindow
  BY PrunedDrops, GuardAssumption DEF Ledger, Remembered
<1>2. Len(dq) \in Nat /\ Len(all) \in Nat /\ Len(dq) <= Len(all)
      /\ \A i \in 1 .. Len(all) : all[i] \in Nat
  BY LenProperties DEF Ledger, Remembered
<1>3. RateLimitMax \in Nat /\ RateLimitMax > 0 /\ RateLimitWindow \in Nat
  BY GuardAssumption
<1>4. Len(dq) - k >= RateLimitMax
  BY <1>1, <1>2, <1>3 DEF Admits
<1> DEFINE first == Len(all) - Len(dq) + (k + 1)
           last  == Len(all) - RateLimitMax + 1
<1>5. /\ k + 1 \in 1 .. Len(dq) /\ first \in 1 .. Len(all) /\ last \in 1 .. Len(all)
      /\ first <= last
  BY <1>2, <1>3, <1>4
<1>6. dq[k + 1] = all[first] /\ all[first] <= all[last]
  <2>1. dq[k + 1] = all[Len(all) - Len(dq) + (k + 1)]
    BY <1>5 DEF Ledger, Remembered
  <2>2. \A i, j \in 1 .. Len(all) : i <= j => all[i] <= all[j]
    BY DEF Ledger, Remembered
  <2>3. QED
    BY <1>5, <2>1, <2>2
<1>7. all[first] > t - RateLimitWindow
  BY <1>1, <1>2, <1>3, <1>4, <1>6
<1>8. all[last] > t - RateLimitWindow
  <2>1. all[first] \in Nat /\ all[last] \in Nat
    BY <1>2, <1>5
  <2> HIDE DEF first, last
  <2>2. QED
    BY <1>3, <1>6, <1>7, <2>1
<1>9. QED
  BY <1>2, <1>3, <1>4, <1>8

-----------------------------------------------------------------------------
(* The lockout *)

Sorted(all, t) ==
  /\ all \in Seq(Nat)
  /\ \A i, j \in 1 .. Len(all) : i <= j => all[i] <= all[j]
  /\ \A i \in 1 .. Len(all) : all[i] <= t

LEMMA SortedAppended ==
  ASSUME NEW all, NEW t \in Nat, Sorted(all, t)
  PROVE  /\ Sorted(Append(all, t), t)
         /\ Len(Append(all, t)) = Len(all) + 1
         /\ Append(all, t)[Len(all) + 1] = t
         /\ \A i \in 1 .. Len(all) : Append(all, t)[i] = all[i]
<1> DEFINE a == Append(all, t)
<1>1. Len(all) \in Nat /\ \A i \in 1 .. Len(all) : all[i] \in Nat /\ all[i] <= t
  BY LenProperties DEF Sorted
<1>2. /\ a \in Seq(Nat) /\ Len(a) = Len(all) + 1 /\ a[Len(all) + 1] = t
      /\ \A i \in 1 .. Len(all) : a[i] = all[i]
  BY AppendProperties DEF Sorted
<1> HIDE DEF a
<1>3. \A i \in 1 .. Len(a) : a[i] <= t
  <2> TAKE i \in 1 .. Len(a)
  <2>1. CASE i = Len(all) + 1
    BY <1>2, <2>1
  <2>2. CASE i # Len(all) + 1
    <3>1. Len(a) = Len(all) + 1 /\ Len(all) \in Nat
      BY <1>1, <1>2
    <3>2. i \in 1 .. Len(all)
      BY <2>2, <3>1
    <3>3. QED
      BY <1>1, <1>2, <3>2
  <2>3. QED
    BY <2>1, <2>2
<1>4. \A i, j \in 1 .. Len(a) : i <= j => a[i] <= a[j]
  <2> TAKE i, j \in 1 .. Len(a)
  <2>1. CASE j = Len(all) + 1
    BY <1>2, <1>3, <2>1
  <2>2. CASE i <= j /\ j # Len(all) + 1
    <3>1. i \in 1 .. Len(all) /\ j \in 1 .. Len(all)
      <4>1. Len(a) = Len(all) + 1 /\ Len(all) \in Nat
        BY <1>1, <1>2
      <4>2. QED
        BY <2>2, <4>1
    <3>2. all[i] <= all[j]
      BY <2>2, <3>1 DEF Sorted
    <3>3. QED
      BY <1>2, <3>1, <3>2
  <2>3. QED
    BY <2>1, <2>2
<1>5. QED
  BY <1>2, <1>3, <1>4 DEF Sorted, a

(* The row counts the last wrong passwords, all within the window that the *)
(* first of them opened; MaxFailures of them lock, from the last.          *)
Counted(row, all) ==
  LET n == Len(all)
  IN  /\ row.count \in 1 .. n /\ row.first = all[n - row.count + 1]
      /\ all[n] - row.first <= LockoutWindow
      /\ row.until = IF row.count >= MaxFailures THEN all[n] + LockoutDuration
                                                ELSE NoTime

Row == [count : Nat, first : Nat \cup {NoTime}, until : Nat \cup {NoTime}]

Earned(row, all) ==
  row \in Row /\ ((row = Clear /\ all = << >>) \/ Counted(row, all))

LEMMA FailureCounted ==
  ASSUME now \in Nat, Sorted(guesses, now), Earned(account, guesses)
  PROVE  Earned(recordFailure, Append(guesses, now))
<1> DEFINE a == Append(guesses, now)
           n == Len(guesses)
           row == recordFailure
<1>1. n \in Nat /\ \A i \in 1 .. n : guesses[i] \in Nat /\ guesses[i] <= now
  BY LenProperties DEF Sorted
<1>2. Len(a) = n + 1 /\ a[n + 1] = now /\ \A i \in 1 .. n : a[i] = guesses[i]
  BY SortedAppended
<1>3. MaxFailures \in Nat /\ LockoutWindow \in Nat /\ LockoutDuration \in Nat
  BY GuardAssumption
<1>4. account.count \in Nat /\ account.first \in Nat \cup {NoTime}
  BY DEF Earned, Row
<1> HIDE DEF a, n
<1>5. CASE ~WithinWindow
  <2>1. row.count = 1 /\ row.first = now
        /\ row.until = IF 1 >= MaxFailures THEN now + LockoutDuration ELSE NoTime
    BY <1>5 DEF recordFailure
  <2>2. row \in Row
    BY <1>3, <1>5 DEF recordFailure, Row
  <2>3. Counted(row, a)
    <3>1. Len(a) = n + 1 /\ a[Len(a)] = now /\ n \in Nat /\ now \in Nat
      BY <1>1, <1>2
    <3>2. now - now = 0 /\ Len(a) - 1 + 1 = Len(a) /\ 1 \in 1 .. Len(a)
      BY <3>1
    <3> HIDE DEF row
    <3>3. row.count \in 1 .. Len(a) /\ row.first = a[Len(a) - row.count + 1]
      BY <2>1, <3>1, <3>2
    <3>4. a[Len(a)] - row.first <= LockoutWindow
      BY <1>3, <2>1, <3>1, <3>2
    <3>5. row.until = IF row.count >= MaxFailures THEN a[Len(a)] + LockoutDuration
                                                  ELSE NoTime
      BY <2>1, <3>1
    <3>6. QED
      BY <3>3, <3>4, <3>5 DEF Counted
  <2>4. QED
    BY <2>2, <2>3 DEF Earned, a
<1>6. CASE WithinWindow
  <2>1. /\ row.count = account.count + 1 /\ row.first = account.first
        /\ row.until = IF account.count + 1 >= MaxFailures THEN now + LockoutDuration ELSE NoTime
    BY <1>6 DEF recordFailure
  <2>2. account.first # NoTime /\ now - account.first <= LockoutWindow
    BY <1>6 DEF WithinWindow
  <2>3. row \in Row
    BY <1>3, <1>4, <1>6 DEF recordFailure, Row
  <2>4. Counted(account, guesses)
    BY <2>2 DEF Earned, Clear
  <2>5. account.count \in 1 .. n /\ account.first = guesses[n - account.count + 1]
    BY <2>4 DEF Counted, n
  <2>6. n - account.count + 1 \in 1 .. n
        /\ (n + 1) - (account.count + 1) + 1 = n - account.count + 1
    BY <1>1, <2>5
  <2>7. row.first = a[(n + 1) - row.count + 1]
    BY <1>2, <2>1, <2>5, <2>6
  <2>8. row.count \in 1 .. n + 1
    BY <1>1, <2>1, <2>5
  <2>9. a[n + 1] - row.first <= LockoutWindow
    BY <1>2, <2>1, <2>2
  <2>10. row.until = IF row.count >= MaxFailures THEN a[n + 1] + LockoutDuration
                                                 ELSE NoTime
    BY <1>2, <2>1
  <2>11. Counted(row, a)
    <3> HIDE DEF row
    <3>1. QED
      BY <1>2, <2>7, <2>8, <2>9, <2>10 DEF Counted
  <2>12. QED
    BY <2>3, <2>11 DEF Earned, a
<1>7. QED
  BY <1>5, <1>6

-----------------------------------------------------------------------------
(* The pace of guessing *)

(* From the i-th guess to the j-th more than the window passes, or two in  *)
(* a row between them are apart by a lockout.                              *)
Apart(all, i, j) ==
  \/ all[j] - all[i] > LockoutWindow
  \/ \E k \in i .. j - 1 : all[k] + LockoutDuration <= all[k + 1]

Paced(all) ==
  \A i \in 1 .. Len(all) :
    i + 2 * MaxFailures - 1 \in 1 .. Len(all) =>
      Apart(all, i, i + 2 * MaxFailures - 1)

(* The guess that opened the row's window came more than a window after    *)
(* the MaxFailures-th before it, or a lockout after the one before it.     *)
Wide(all, s) ==
  s > MaxFailures => \/ all[s] - all[s - MaxFailures] > LockoutWindow
                     \/ all[s - 1] + LockoutDuration <= all[s]

Opened(row, all) == Wide(all, Len(all) - row.count + 1)

LEMMA ClearIsPaced == Opened(Clear, << >>) /\ Paced(<< >>)
  BY GuardAssumption DEF Opened, Wide, Clear, Paced

Agree(a, all, n) == \A i \in 1 .. n : a[i] = all[i]

(* A later guess leaves what was wide wide, and apart what was apart.      *)
LEMMA ApartLater ==
  ASSUME NEW all, NEW a, NEW n \in Nat, \A i \in 1 .. n : a[i] = all[i],
         NEW i \in 1 .. n, NEW j \in 1 .. n, Apart(all, i, j)
  PROVE  Apart(a, i, j)
<1>1. CASE all[j] - all[i] > LockoutWindow
  BY <1>1 DEF Apart
<1>2. CASE \E k \in i .. j - 1 : all[k] + LockoutDuration <= all[k + 1]
  <2>1. PICK k \in i .. j - 1 : all[k] + LockoutDuration <= all[k + 1]
    BY <1>2
  <2>2. k \in 1 .. n /\ k + 1 \in 1 .. n
    OBVIOUS
  <2>3. a[k] + LockoutDuration <= a[k + 1]
    BY <2>1, <2>2
  <2> QED
    BY <2>3 DEF Apart
<1> QED
  BY <1>1, <1>2 DEF Apart

LEMMA WideLater ==
  ASSUME NEW all, NEW a, NEW n \in Nat, Agree(a, all, n),
         NEW s \in 1 .. n, Wide(all, s)
  PROVE  Wide(a, s)
<1> SUFFICES ASSUME s > MaxFailures
             PROVE  \/ a[s] - a[s - MaxFailures] > LockoutWindow
                    \/ a[s - 1] + LockoutDuration <= a[s]
  BY DEF Wide
<1>1. MaxFailures \in Nat /\ MaxFailures > 0
  BY GuardAssumption
<1>2. s - MaxFailures \in 1 .. n /\ s - 1 \in 1 .. n
  BY <1>1
<1>3. /\ a[s] = all[s] /\ a[s - MaxFailures] = all[s - MaxFailures]
      /\ a[s - 1] = all[s - 1]
  BY <1>2 DEF Agree
<1> QED
  BY <1>3 DEF Wide

(* The last stretch of 2 * MaxFailures guesses is the only new one.        *)
LEMMA PacedAppended ==
  ASSUME NEW all, NEW a, NEW n \in Nat, Len(all) = n, Len(a) = n + 1,
         \A i \in 1 .. n : a[i] = all[i], Paced(all),
         n + 2 - 2 * MaxFailures >= 1 => Apart(a, n + 2 - 2 * MaxFailures, n + 1)
  PROVE  Paced(a)
<1>1. MaxFailures \in Nat /\ MaxFailures > 0
  BY GuardAssumption
<1>2. SUFFICES ASSUME NEW i \in 1 .. n + 1, i + 2 * MaxFailures - 1 \in 1 .. n + 1
               PROVE  Apart(a, i, i + 2 * MaxFailures - 1)
  BY DEF Paced
<1>3. CASE i + 2 * MaxFailures - 1 = n + 1
  <2>1. i = n + 2 - 2 * MaxFailures /\ i >= 1
    BY <1>1, <1>3
  <2> QED
    BY <1>3, <2>1
<1>4. CASE i + 2 * MaxFailures - 1 # n + 1
  <2>1. i \in 1 .. n /\ i + 2 * MaxFailures - 1 \in 1 .. n
    BY <1>1, <1>2, <1>4
  <2>2. Apart(all, i, i + 2 * MaxFailures - 1)
    BY <2>1 DEF Paced
  <2> QED
    BY <2>1, <2>2, ApartLater
<1> QED
  BY <1>3, <1>4

(* A wrong password that the lockout let through keeps the pace: either    *)
(* the lockout has just run out, or the window is not used up, and then    *)
(* the stretch reaches back to before it was opened.                       *)
LEMMA FailurePaced ==
  ASSUME now \in Nat, Sorted(guesses, now), Earned(account, guesses), ~Locked,
         Opened(account, guesses), Paced(guesses)
  PROVE  /\ Opened(recordFailure, Append(guesses, now))
         /\ Paced(Append(guesses, now))
<1>1. PICK a : a = Append(guesses, now)
  OBVIOUS
<1>2. PICK n \in Nat : n = Len(guesses)
  BY LenProperties DEF Sorted
<1>3. /\ Len(a) = n + 1 /\ a[n + 1] = now
      /\ \A i \in 1 .. n : a[i] = guesses[i]
  BY <1>1, <1>2, SortedAppended
<1>4. /\ \A i \in 1 .. n : a[i] \in Nat /\ a[i] <= now
      /\ \A i, j \in 1 .. n : i <= j => a[i] <= a[j]
  <2>1. \A i \in 1 .. n : guesses[i] \in Nat /\ guesses[i] <= now
    BY <1>2, LenProperties DEF Sorted
  <2> QED
    BY <1>2, <1>3, <2>1 DEF Sorted
<1>5. PICK m \in Nat, w \in Nat, d \in Nat :
        m = MaxFailures /\ w = LockoutWindow /\ d = LockoutDuration /\ m > 0
  BY GuardAssumption
<1>6. PICK row : row = recordFailure
  OBVIOUS
<1>7. /\ WithinWindow => row.count = account.count + 1
      /\ ~WithinWindow => row.count = 1
  BY <1>6 DEF recordFailure
<1>8. ASSUME ~Counted(account, guesses)
      PROVE  Opened(row, a) /\ Paced(a)
  <2>1. account = Clear /\ guesses = << >> /\ n = 0
    BY <1>2, <1>8 DEF Earned
  <2>2. row.count = 1
    BY <1>7, <2>1 DEF WithinWindow, Clear
  <2>3. Len(a) - row.count + 1 = 1 /\ n + 2 - 2 * MaxFailures < 1
    BY <1>3, <1>5, <2>1, <2>2
  <2>4. Opened(row, a)
    BY <1>5, <2>3 DEF Opened, Wide
  <2>5. n + 2 - 2 * MaxFailures >= 1 => Apart(a, n + 2 - 2 * MaxFailures, n + 1)
    BY <1>5, <2>1
  <2>6. Paced(a)
    BY <1>2, <1>3, <2>5, PacedAppended
  <2> QED
    BY <2>4, <2>6
<1>9. ASSUME Counted(account, guesses)
      PROVE  Opened(row, a) /\ Paced(a)
  <2>1. PICK c \in 1 .. n : c = account.count
    BY <1>2, <1>9 DEF Counted
  <2>2. PICK s \in 1 .. n : s = n - c + 1
    OBVIOUS
  <2>3. /\ account.first = a[s]
        /\ account.until = IF c >= m THEN a[n] + d ELSE NoTime
    <3>1. account.first = guesses[s]
      BY <1>2, <1>9, <2>1, <2>2 DEF Counted
    <3>2. account.until = IF c >= m THEN guesses[n] + d ELSE NoTime
      BY <1>2, <1>5, <1>9, <2>1 DEF Counted
    <3>3. a[s] = guesses[s] /\ a[n] = guesses[n]
      BY <1>3
    <3> QED
      BY <3>1, <3>2, <3>3
  <2>4. a[s] \in Nat /\ a[n] \in Nat
    BY <1>4
  <2>5. Wide(guesses, s)
    BY <1>2, <2>1, <2>2 DEF Opened
  <2>6. Wide(a, s)
    <3>1. Agree(a, guesses, n)
      BY <1>3 DEF Agree
    <3> QED
      BY <2>5, <3>1, WideLater
  <2>7. /\ WithinWindow => Len(a) - row.count + 1 = s
        /\ ~WithinWindow => Len(a) - row.count + 1 = n + 1 /\ now - a[s] > w
    <3>1. ASSUME WithinWindow PROVE Len(a) - row.count + 1 = s
      <4>1. row.count = c + 1 /\ Len(a) = n + 1
        BY <1>3, <1>7, <2>1, <3>1
      <4>2. (n + 1) - (c + 1) + 1 = s
        BY <2>2
      <4> QED
        BY <4>1, <4>2
    <3>2. ASSUME ~WithinWindow PROVE Len(a) - row.count + 1 = n + 1
      <4>1. row.count = 1 /\ Len(a) = n + 1
        BY <1>3, <1>7, <3>2
      <4> QED
        BY <4>1
    <3>3. ~WithinWindow => ~(now - a[s] <= w)
      BY <1>5, <2>3, <2>4 DEF WithinWindow, NoTime
    <3> QED
      BY <1>5, <2>4, <3>1, <3>2, <3>3
  <2>8. CASE c >= m
    <3>1. a[n] + d <= now
      BY <1>5, <2>3, <2>4, <2>8 DEF Locked
    <3>2. Opened(row, a)
      <4>1. n + 1 - 1 = n
        OBVIOUS
      <4>2. Wide(a, n + 1)
        BY <1>3, <1>5, <3>1, <4>1 DEF Wide
      <4> QED
        BY <2>6, <2>7, <4>2 DEF Opened
    <3>3. ASSUME n + 2 - 2 * MaxFailures >= 1
          PROVE  Apart(a, n + 2 - 2 * MaxFailures, n + 1)
      <4>1. n \in n + 2 - 2 * MaxFailures .. (n + 1) - 1
        BY <1>5
      <4> QED
        BY <1>3, <1>5, <3>1, <4>1 DEF Apart
    <3> QED
      BY <1>2, <1>3, <3>2, <3>3, PacedAppended
  <2>9. CASE ~(c >= m)
    <3>1. c < m /\ n + 2 - 2 * m <= s - m /\ n + 1 - m < s
      BY <1>5, <2>2, <2>9
    <3>2. CASE WithinWindow
      <4>1. Opened(row, a)
        BY <2>6, <2>7, <3>2 DEF Opened
      <4>2. ASSUME n + 2 - 2 * m >= 1
            PROVE  Apart(a, n + 2 - 2 * m, n + 1)
        <5>1. PICK i \in 1 .. n : i = n + 2 - 2 * m
          BY <1>5, <3>1, <4>2
        <5>2. s > m /\ s - m \in 1 .. n /\ i <= s - m /\ s - 1 \in i .. (n + 1) - 1
              /\ (s - 1) + 1 = s
          BY <1>5, <3>1, <5>1
        <5>3. \/ a[s] - a[s - m] > w
              \/ a[s - 1] + d <= a[s]
          BY <1>5, <2>6, <5>2 DEF Wide
        <5>4. CASE a[s] - a[s - m] > w
          <6>1. a[i] <= a[s - m] /\ a[s] <= now
                /\ a[i] \in Nat /\ a[s - m] \in Nat /\ a[s] \in Nat
            BY <1>4, <5>2
          <6>2. now - a[i] > w
            BY <1>5, <5>4, <6>1
          <6> QED
            BY <1>3, <1>5, <5>1, <6>2 DEF Apart
        <5>5. CASE a[s - 1] + d <= a[s]
          BY <1>5, <5>1, <5>2, <5>5 DEF Apart
        <5> QED
          BY <5>3, <5>4, <5>5
      <4> QED
        BY <1>2, <1>3, <1>5, <4>1, <4>2, PacedAppended
    <3>3. CASE ~WithinWindow
      <4>1. Wide(a, n + 1)
        <5> SUFFICES ASSUME n + 1 > m PROVE a[n + 1] - a[n + 1 - m] > w
          BY <1>5 DEF Wide
        <5>1. n + 1 - m \in 1 .. n /\ n + 1 - m <= s
          BY <1>5, <3>1
        <5>2. a[n + 1 - m] <= a[s] /\ a[n + 1 - m] \in Nat
          BY <1>4, <5>1
        <5> QED
          BY <1>3, <1>5, <2>4, <2>7, <3>3, <5>2
      <4>2. Opened(row, a)
        BY <2>7, <3>3, <4>1 DEF Opened
      <4>3. ASSUME n + 2 - 2 * m >= 1
            PROVE  Apart(a, n + 2 - 2 * m, n + 1)
        <5>1. PICK i \in 1 .. n : i = n + 2 - 2 * m
          BY <1>5, <3>1, <4>3
        <5>2. i <= s
          BY <1>5, <3>1, <5>1
        <5>3. a[i] <= a[s] /\ a[i] \in Nat
          BY <1>4, <5>2
        <5>4. now - a[i] > w
          BY <1>5, <2>4, <2>7, <3>3, <5>3
        <5> QED
          BY <1>3, <1>5, <5>1, <5>4 DEF Apart
      <4> QED
        BY <1>2, <1>3, <1>5, <4>2, <4>3, PacedAppended
    <3> QED
      BY <3>2, <3>3
  <2> QED
    BY <2>8, <2>9
<1> QED
  BY <1>1, <1>6, <1>8, <1>9

-----------------------------------------------------------------------------
(* The inductive invariant *)

Safe(c) == Ledger(hits[c], admitted[c], now) /\ Spaced(admitted[c])

IInv ==
  /\ now \in Nat
  /\ hits \in [Clients -> Seq(Nat)] /\ admitted \in [Clients -> Seq(Nat)]
  /\ \A c \in Clients : Safe(c)
  /\ Sorted(guesses, now)
  /\ Earned(account, guesses)
  /\ Opened(account, guesses) /\ Paced(guesses)

LEMMA EmptyIsSafe == ASSUME NEW t \in Nat PROVE Ledger(<< >>, << >>, t) /\ Spaced(<< >>)
  BY DEF Ledger, Remembered, Spaced

LEMMA InitHolds == Init => IInv
<1> SUFFICES ASSUME Init PROVE IInv
  OBVIOUS
<1>1. now = 0 /\ account = Clear /\ guesses = << >>
  BY DEF Init
<1>2. \A c \in Clients : hits[c] = << >> /\ admitted[c] = << >>
  BY DEF Init
<1>3. hits \in [Clients -> Seq(Nat)] /\ admitted \in [Clients -> Seq(Nat)]
  BY DEF Init
<1>4. \A c \in Clients : Safe(c)
  BY <1>1, <1>2, EmptyIsSafe DEF Safe
<1>5. Clear \in Row
  BY DEF Clear, Row
<1>6. Sorted(guesses, now)
  BY <1>1 DEF Sorted
<1>7. QED
  BY <1>1, <1>3, <1>4, <1>5, <1>6, ClearIsPaced DEF IInv, Earned

(* What an attempt of c leaves of the limiter, let through or not.         *)
LimiterKept == 
  /\ hits' \in [Clients -> Seq(Nat)] /\ admitted' \in [Clients -> Seq(Nat)]
  /\ \A c \in Clients : Ledger(hits'[c], admitted'[c], now) /\ Spaced(admitted'[c])

LEMMA EnforceKeeps ==
  ASSUME IInv, NEW c \in Clients, Enforce(c)
  PROVE  LimiterKept
<1> DEFINE p == Pruned(hits[c], now, RateLimitWindow)
<1>1. Safe(c) /\ now \in Nat
  BY DEF IInv
<1>2. Ledger(p, admitted[c], now)
  BY <1>1, LedgerPruned DEF Safe
<1>3. Ledger(Append(p, now), Append(admitted[c], now), now)
  BY <1>1, <1>2, LedgerAppended
<1>4. Spaced(Append(admitted[c], now))
  BY <1>1, SpacedAppended DEF Safe, Enforce, Lets
<1>5. /\ hits' = [hits EXCEPT ![c] = Append(p, now)]
      /\ admitted' = [admitted EXCEPT ![c] = Append(admitted[c], now)]
  BY DEF Enforce, Lets, Checked
<1> HIDE DEF p
<1>6. Append(p, now) \in Seq(Nat) /\ Append(admitted[c], now) \in Seq(Nat)
  BY <1>3 DEF Ledger, Remembered
<1>7. hits' \in [Clients -> Seq(Nat)] /\ admitted' \in [Clients -> Seq(Nat)]
  BY <1>5, <1>6 DEF IInv
<1>8. ASSUME NEW d \in Clients
      PROVE  Ledger(hits'[d], admitted'[d], now) /\ Spaced(admitted'[d])
  <2>1. CASE d = c
    BY <1>3, <1>4, <1>5, <2>1 DEF IInv
  <2>2. CASE d # c
    <3>1. hits'[d] = hits[d] /\ admitted'[d] = admitted[d]
      BY <1>5, <2>2 DEF IInv
    <3>2. QED
      BY <3>1 DEF IInv, Safe
  <2>3. QED
    BY <2>1, <2>2
<1>9. QED
  BY <1>7, <1>8 DEF LimiterKept

LEMMA RefuseKeeps ==
  ASSUME IInv, NEW c \in Clients, Refuse(c)
  PROVE  LimiterKept
<1> DEFINE p == Pruned(hits[c], now, RateLimitWindow)
<1>1. Safe(c) /\ now \in Nat
  BY DEF IInv
<1>2. Ledger(p, admitted[c], now)
  BY <1>1, LedgerPruned DEF Safe
<1>3. hits' = [hits EXCEPT ![c] = p] /\ admitted' = admitted
  BY DEF Refuse, Lets, Checked
<1> HIDE DEF p
<1>4. hits' \in [Clients -> Seq(Nat)] /\ admitted' \in [Clients -> Seq(Nat)]
  BY <1>2, <1>3 DEF IInv, Ledger, Remembered
<1>5. ASSUME NEW d \in Clients
      PROVE  Ledger(hits'[d], admitted'[d], now) /\ Spaced(admitted'[d])
  <2>1. CASE d = c
    BY <1>1, <1>2, <1>3, <2>1 DEF IInv, Safe
  <2>2. CASE d # c
    <3>1. hits'[d] = hits[d]
      BY <1>3, <2>2 DEF IInv
    <3>2. QED
      BY <1>3, <3>1 DEF IInv, Safe
  <2>3. QED
    BY <2>1, <2>2
<1>6. QED
  BY <1>4, <1>5 DEF LimiterKept

LEMMA LimiterKeeps ==
  ASSUME IInv, LimiterKept, now' = now,
         Sorted(guesses', now), Earned(account', guesses'),
         Opened(account', guesses'), Paced(guesses')
  PROVE  IInv'
  BY DEF IInv, LimiterKept, Safe

LEMMA StepKeeps == IInv /\ [Next]_vars => IInv'
<1> SUFFICES ASSUME IInv, [Next]_vars PROVE IInv'
  OBVIOUS
<1>1. /\ now \in Nat /\ Sorted(guesses, now) /\ Earned(account, guesses)
      /\ Opened(account, guesses) /\ Paced(guesses)
  BY DEF IInv
<1>2. ASSUME NEW c \in Clients, Refuse(c) PROVE IInv'
  <2>1. UNCHANGED <<now, account, guesses>>
    BY <1>2 DEF Refuse
  <2>2. QED
    BY <1>1, <1>2, <2>1, RefuseKeeps, LimiterKeeps
<1>3. ASSUME NEW c \in Clients, Attempt(c) PROVE IInv'
  <2>1. UNCHANGED <<now, account, guesses>> /\ Enforce(c)
    BY <1>3 DEF Attempt
  <2>2. QED
    BY <1>1, <2>1, EnforceKeeps, LimiterKeeps
<1>4. ASSUME NEW c \in Clients, WrongPassword(c) PROVE IInv'
  <2>1. /\ account' = recordFailure /\ guesses' = Append(guesses, now)
        /\ now' = now /\ Enforce(c) /\ ~Locked
    BY <1>4 DEF WrongPassword
  <2>2. Sorted(guesses', now)
    BY <1>1, <2>1, SortedAppended
  <2>3. Earned(account', guesses')
    BY <1>1, <2>1, FailureCounted
  <2>4. Opened(account', guesses') /\ Paced(guesses')
    BY <1>1, <2>1, FailurePaced
  <2>5. QED
    BY <2>1, <2>2, <2>3, <2>4, EnforceKeeps, LimiterKeeps
<1>5. ASSUME NEW c \in Clients, RightPassword(c) PROVE IInv'
  <2>1. account' = Clear /\ guesses' = << >> /\ now' = now /\ Enforce(c)
    BY <1>5 DEF RightPassword
  <2>2. Sorted(guesses', now)
    BY <2>1 DEF Sorted
  <2>3. Earned(account', guesses')
    BY <2>1 DEF Earned, Clear, Row
  <2>4. Opened(account', guesses') /\ Paced(guesses')
    BY <2>1, ClearIsPaced
  <2>5. QED
    BY <2>1, <2>2, <2>3, <2>4, EnforceKeeps, LimiterKeeps
<1>6. CASE Restart
  <2>1. /\ hits' = [c \in Clients |-> << >>] /\ admitted' = [c \in Clients |-> << >>]
        /\ UNCHANGED <<now, account, guesses>>
    BY <1>6 DEF Restart
  <2>2. \A c \in Clients : hits'[c] = << >> /\ admitted'[c] = << >>
    BY <2>1
  <2>3. hits' \in [Clients -> Seq(Nat)] /\ admitted' \in [Clients -> Seq(Nat)]
    BY <2>1
  <2>4. \A c \in Clients : Ledger(hits'[c], admitted'[c], now) /\ Spaced(admitted'[c])
    BY <1>1, <2>2, EmptyIsSafe
  <2>5. LimiterKept
    BY <2>3, <2>4 DEF LimiterKept
  <2>6. QED
    BY <1>1, <2>1, <2>5, LimiterKeeps
<1>7. CASE Tick
  <2>1. now' = now + 1 /\ UNCHANGED <<hits, account, admitted, guesses>>
    BY <1>7 DEF Tick
  <2>2. \A c \in Clients : Ledger(hits[c], admitted[c], now + 1)
    BY <1>1, LedgerLater DEF IInv, Safe
  <2>3. Sorted(guesses, now + 1)
    <3>1. \A i \in 1 .. Len(guesses) : guesses[i] \in Nat /\ guesses[i] <= now
      BY <1>1, LenProperties DEF Sorted
    <3>2. \A i \in 1 .. Len(guesses) : guesses[i] <= now + 1
      BY <1>1, <3>1
    <3>3. QED
      BY <1>1, <3>2 DEF Sorted
  <2>4. \A c \in Clients : Safe(c)'
    BY <2>1, <2>2 DEF IInv, Safe
  <2>5. now' \in Nat /\ Sorted(guesses', now')
    BY <1>1, <2>1, <2>3
  <2>6. QED
    BY <1>1, <2>1, <2>4, <2>5 DEF IInv
<1>8. CASE UNCHANGED vars
  BY <1>8 DEF vars, IInv, Safe
<1>9. QED
  BY <1>2, <1>3, <1>4, <1>5, <1>6, <1>7, <1>8 DEF Next

-----------------------------------------------------------------------------
(* The theorems *)

(* The limiter, the row and the histories keep their types.                *)
THEOREM TypeCorrect == Spec => []TypeOK
<1>1. IInv => TypeOK
  BY DEF IInv, TypeOK, Sorted, Earned, Row
<1>2. QED
  BY <1>1, InitHolds, StepKeeps, PTL DEF Spec

(* Between an attempt and the RateLimitMax-th after it a whole window      *)
(* passes, whatever clients do and the limiter forgets (check).            *)
THEOREM SpacedOutHolds == Spec => []SpacedOut
<1>1. IInv => SpacedOut
  <2> SUFFICES ASSUME IInv PROVE SpacedOut
    OBVIOUS
  <2>1. \A c \in Clients : DOMAIN admitted[c] = 1 .. Len(admitted[c])
    BY LenProperties DEF IInv
  <2>2. QED
    BY <2>1 DEF IInv, Safe, Spaced, SpacedOut
<1>2. QED
  BY <1>1, InitHolds, StepKeeps, PTL DEF Spec

(* A refused client has used up its limit in the last window (check).      *)
THEOREM RefusedOnlyWhenFullHolds == Spec => []RefusedOnlyWhenFull
<1>1. IInv => RefusedOnlyWhenFull
  <2> SUFFICES ASSUME IInv, NEW c \in Clients, ~Lets(c)
               PROVE  /\ Len(admitted[c]) >= RateLimitMax
                      /\ admitted[c][Len(admitted[c]) - RateLimitMax + 1] > now - RateLimitWindow
    BY DEF RefusedOnlyWhenFull
  <2>1. now \in Nat /\ Ledger(hits[c], admitted[c], now)
    BY DEF IInv, Safe
  <2>2. ~Admits(hits[c], now, RateLimitMax, RateLimitWindow)
    BY DEF Lets
  <2>3. QED
    BY <2>1, <2>2, RefusedIsFull
<1>2. QED
  BY <1>1, InitHolds, StepKeeps, PTL DEF Spec

(* A lockout is earned: MaxFailures wrong passwords without a right one,   *)
(* within the window, and it lasts from the last of them                   *)
(* (record_login_failure).                                                 *)
THEOREM LockEarnedHolds == Spec => []LockEarned
<1>1. IInv => LockEarned
  <2> SUFFICES ASSUME IInv, Locked PROVE LockEarned
    BY DEF LockEarned
  <2> DEFINE n == Len(guesses)
  <2>1. /\ now \in Nat /\ n \in Nat /\ MaxFailures \in Nat /\ MaxFailures > 0
        /\ \A i \in 1 .. n : guesses[i] \in Nat
    BY GuardAssumption, LenProperties DEF IInv, Sorted
  <2>2. account.until # NoTime
    BY <2>1 DEF Locked, NoTime
  <2>3. Counted(account, guesses)
    BY <2>2 DEF IInv, Earned, Clear
  <2>4. /\ account.count \in 1 .. n /\ account.first = guesses[n - account.count + 1]
        /\ guesses[n] - account.first <= LockoutWindow
        /\ account.count >= MaxFailures /\ account.until = guesses[n] + LockoutDuration
    BY <2>2, <2>3 DEF Counted
  <2>5. /\ n - account.count + 1 \in 1 .. n /\ n - MaxFailures + 1 \in 1 .. n
        /\ n - account.count + 1 <= n - MaxFailures + 1 /\ n \in 1 .. n /\ n >= MaxFailures
    BY <2>1, <2>4
  <2>6. \A i, j \in 1 .. Len(guesses) : i <= j => guesses[i] <= guesses[j]
    BY DEF IInv, Sorted
  <2>7. account.first <= guesses[n - MaxFailures + 1]
    BY <2>4, <2>5, <2>6
  <2>8. account.first \in Nat /\ guesses[n - MaxFailures + 1] \in Nat /\ guesses[n] \in Nat
    BY <2>1, <2>4, <2>5
  <2>9. LockoutWindow \in Nat
    BY GuardAssumption
  <2>10. guesses[n] - guesses[n - MaxFailures + 1] <= LockoutWindow
    BY <2>4, <2>7, <2>8, <2>9
  <2>11. QED
    BY <2>4, <2>5, <2>10 DEF LockEarned
<1>2. QED
  BY <1>1, InitHolds, StepKeeps, PTL DEF Spec

(* Twice MaxFailures wrong passwords in a row take longer than the lockout *)
(* window, or sat out a lockout on the way: for every limit, window and    *)
(* duration (record_login_failure, is_locked).                             *)
THEOREM GuessesBoundedHolds == Spec => []GuessesBounded
<1>1. IInv => GuessesBounded
  <2> SUFFICES ASSUME IInv PROVE GuessesBounded
    OBVIOUS
  <2>1. DOMAIN guesses = 1 .. Len(guesses)
    BY LenProperties DEF IInv, Sorted
  <2>2. Paced(guesses)
    BY DEF IInv
  <2>3. QED
    BY <2>1, <2>2 DEF GuessesBounded, Paced, Apart
<1>2. QED
  BY <1>1, InitHolds, StepKeeps, PTL DEF Spec
=============================================================================
