--------------------------- MODULE UserKbProofs ---------------------------
(***************************************************************************)
(* Proofs about UserKb: its types; index and sidecar stay in step; the     *)
(* sidecar never leads; both files only grow; loaded pairs are sound; what *)
(* a run learned is learned once.                                          *)
(***************************************************************************)
EXTENDS UserKb, FiniteSetTheorems, TLAPS

-----------------------------------------------------------------------------
(* Sequences *)

LEMMA FunctionIsSeq ==
  ASSUME NEW S, NEW n \in Nat, NEW f \in [1 .. n -> S]
  PROVE  f \in Seq(S) /\ Len(f) = n
OBVIOUS

LEMMA SeqIsFunction ==
  ASSUME NEW S, NEW s \in Seq(S)
  PROVE  s \in [1 .. Len(s) -> S] /\ Len(s) \in Nat
OBVIOUS

LEMMA BatchIsSeq ==
  ASSUME NEW k \in Batch
  PROVE  /\ k \in Seq(1 .. MaxFindings)
         /\ DOMAIN k = 1 .. Len(k)
<1>1. PICK n \in 1 .. MaxFindings : k \in [1 .. n -> 1 .. MaxFindings]
  BY DEF Batch
<1>2. n \in Nat
  BY KbAssumption DEF KbAssumption
<1>3. k \in Seq(1 .. MaxFindings) /\ Len(k) = n
  BY <1>1, <1>2, FunctionIsSeq
<1> QED
  BY <1>1, <1>3

(* The rows of the vectors of a batch are its rows, one for each.          *)
LEMMA NewInStep ==
  ASSUME NEW r \in Runs, NEW k \in Batch, model \in Models
  PROVE  /\ NewRows(r, k) \in Seq(Row)
         /\ NewVectors(r, k) \in Seq(Vector)
         /\ Len(NewRows(r, k)) = Len(k)
         /\ Len(NewVectors(r, k)) = Len(k)
         /\ RowsOf(NewVectors(r, k)) = NewRows(r, k)
<1> DEFINE rows == NewRows(r, k)
           vs   == NewVectors(r, k)
<1>1. k \in Seq(1 .. MaxFindings) /\ DOMAIN k = 1 .. Len(k) /\ Len(k) \in Nat
  BY BatchIsSeq
<1>2. \A i \in 1 .. Len(k) : [run |-> r, no |-> k[i]] \in Row
  <2>1. k \in [1 .. Len(k) -> 1 .. MaxFindings]
    BY <1>1, SeqIsFunction
  <2>2. \A i \in 1 .. Len(k) : k[i] \in 1 .. MaxFindings
    BY <2>1
  <2> QED
    BY <2>2 DEF Row
<1>3. rows \in [1 .. Len(k) -> Row]
  BY <1>1, <1>2 DEF NewRows
<1>4. rows \in Seq(Row) /\ Len(rows) = Len(k)
  BY <1>1, <1>3
<1>5. \A i \in 1 .. Len(k) : [row |-> rows[i], model |-> model] \in Vector
  BY <1>3 DEF Vector
<1>6. vs = [i \in 1 .. Len(k) |-> [row |-> rows[i], model |-> model]]
  BY <1>1 DEF NewVectors
<1> HIDE DEF rows, vs
<1>7. vs \in [1 .. Len(k) -> Vector]
  BY <1>5, <1>6
<1>8. vs \in Seq(Vector) /\ Len(vs) = Len(k) /\ DOMAIN vs = 1 .. Len(k)
  BY <1>1, <1>7
<1>9. RowsOf(vs) = [i \in 1 .. Len(k) |-> rows[i]]
  BY <1>6, <1>8 DEF RowsOf
<1>10. RowsOf(vs) = rows
  BY <1>3, <1>9
<1> QED
  BY <1>4, <1>8, <1>10 DEF rows, vs

LEMMA RowsOfIsSeq ==
  ASSUME NEW vs \in Seq(Vector)
  PROVE  RowsOf(vs) \in Seq(Row) /\ Len(RowsOf(vs)) = Len(vs)
<1>1. DOMAIN vs = 1 .. Len(vs) /\ Len(vs) \in Nat /\ vs \in [1 .. Len(vs) -> Vector]
  BY SeqIsFunction
<1>2. \A i \in 1 .. Len(vs) : vs[i].row \in Row
  BY <1>1 DEF Vector
<1>3. RowsOf(vs) \in [1 .. Len(vs) -> Row]
  BY <1>1, <1>2 DEF RowsOf
<1> QED
  BY <1>1, <1>3

LEMMA RowsOfConcat ==
  ASSUME NEW a \in Seq(Vector), NEW b \in Seq(Vector)
  PROVE  RowsOf(a \o b) = RowsOf(a) \o RowsOf(b)
<1>0. Len(a) \in Nat /\ Len(b) \in Nat
  OBVIOUS
<1> DEFINE ab == a \o b
           rs == RowsOf(a) \o RowsOf(b)
<1>1. ab \in Seq(Vector) /\ Len(ab) = Len(a) + Len(b) /\ DOMAIN ab = 1 .. Len(a) + Len(b)
  OBVIOUS
<1>2. /\ RowsOf(a) \in Seq(Row) /\ Len(RowsOf(a)) = Len(a)
      /\ RowsOf(b) \in Seq(Row) /\ Len(RowsOf(b)) = Len(b)
  BY RowsOfIsSeq
<1>3. rs \in Seq(Row) /\ Len(rs) = Len(a) + Len(b)
  <2>1. /\ rs \in Seq(Row)
        /\ Len(rs) = Len(RowsOf(a)) + Len(RowsOf(b))
    <3> DEFINE ra == RowsOf(a)
               rb == RowsOf(b)
    <3>1. ra \in Seq(Row) /\ rb \in Seq(Row)
      BY <1>2
    <3> HIDE DEF ra, rb
    <3>2. ra \o rb \in Seq(Row) /\ Len(ra \o rb) = Len(ra) + Len(rb)
      BY <3>1
    <3> QED
      BY <3>2 DEF ra, rb
  <2> QED
    BY <1>2, <2>1
<1>4. RowsOf(ab) \in Seq(Row) /\ Len(RowsOf(ab)) = Len(a) + Len(b)
  BY <1>1, RowsOfIsSeq
<1>5. ASSUME NEW i \in 1 .. Len(a) + Len(b)
      PROVE  RowsOf(ab)[i] = rs[i]
  <2>1. RowsOf(ab)[i] = ab[i].row
    BY <1>1 DEF RowsOf
  <2>2. CASE i <= Len(a)
    <3>1. ab[i] = a[i] /\ rs[i] = RowsOf(a)[i]
      BY <1>2, <2>2
    <3>2. RowsOf(a)[i] = a[i].row
      BY <2>2 DEF RowsOf
    <3> QED
      BY <2>1, <3>1, <3>2
  <2>3. CASE i > Len(a)
    <3>1. ab[i] = b[i - Len(a)] /\ rs[i] = RowsOf(b)[i - Len(a)]
      BY <1>2, <2>3
    <3>2. RowsOf(b)[i - Len(a)] = b[i - Len(a)].row
      BY <2>3 DEF RowsOf
    <3> QED
      BY <2>1, <3>1, <3>2
  <2>4. i <= Len(a) \/ i > Len(a)
    BY <1>0
  <2> HIDE DEF ab, rs
  <2> QED
    BY <2>2, <2>3, <2>4
<1> HIDE DEF ab, rs
<1>6. RowsOf(ab) = rs
  BY <1>3, <1>4, <1>5
<1> QED
  BY <1>6 DEF ab, rs

LEMMA PrefixOfConcat ==
  ASSUME NEW S, NEW a \in Seq(S), NEW b \in Seq(S)
  PROVE  IsPrefix(a, a \o b)
<1>1. a \o b \in Seq(S) /\ Len(a) <= Len(a \o b)
  OBVIOUS
<1>2. SubSeq(a, 1, Len(a)) = SubSeq(a \o b, 1, Len(a))
  OBVIOUS
<1> QED
  BY <1>1, <1>2 DEF IsPrefix

LEMMA PrefixOfItself ==
  ASSUME NEW S, NEW a \in Seq(S)
  PROVE  IsPrefix(a, a)
BY DEF IsPrefix

LEMMA PrefixOfPrefix ==
  ASSUME NEW S, NEW a \in Seq(S), NEW b \in Seq(S), NEW c \in Seq(S),
         IsPrefix(a, b), IsPrefix(b, c)
  PROVE  IsPrefix(a, c)
<1>1. Len(a) <= Len(b) /\ Len(b) <= Len(c) /\ Len(a) <= Len(c)
  BY DEF IsPrefix
<1>2. SubSeq(a, 1, Len(a)) = SubSeq(b, 1, Len(a)) /\ SubSeq(b, 1, Len(b)) = SubSeq(c, 1, Len(b))
  BY DEF IsPrefix
<1>3. b = SubSeq(c, 1, Len(b))
  BY <1>2
<1>4. \A i \in 1 .. Len(b) : b[i] = c[i]
  BY <1>1, <1>3
<1>5. SubSeq(b, 1, Len(a)) = SubSeq(c, 1, Len(a))
  BY <1>1, <1>4
<1> QED
  BY <1>1, <1>2, <1>5 DEF IsPrefix

(* Two prefixes of one sequence that are equally long are equal.           *)
LEMMA EqualPrefixes ==
  ASSUME NEW S, NEW a \in Seq(S), NEW b \in Seq(S), NEW c \in Seq(S),
         IsPrefix(a, c), IsPrefix(b, c), Len(a) = Len(b)
  PROVE  a = b
<1>1. SubSeq(a, 1, Len(a)) = SubSeq(b, 1, Len(b))
  BY DEF IsPrefix
<1> QED
  BY <1>1

(* The rows of a prefix are a prefix of the rows.                          *)
LEMMA RowsOfPrefix ==
  ASSUME NEW a \in Seq(Vector), NEW c \in Seq(Vector), IsPrefix(a, c)
  PROVE  IsPrefix(RowsOf(a), RowsOf(c))
<1>1. Len(a) <= Len(c) /\ SubSeq(a, 1, Len(a)) = SubSeq(c, 1, Len(a))
  BY DEF IsPrefix
<1>2. \A i \in 1 .. Len(a) : a[i] = c[i]
  <2>1. a = SubSeq(c, 1, Len(a))
    BY <1>1
  <2> QED
    BY <1>1, <2>1
<1>3. /\ RowsOf(a) \in Seq(Row) /\ Len(RowsOf(a)) = Len(a)
      /\ RowsOf(c) \in Seq(Row) /\ Len(RowsOf(c)) = Len(c)
  BY RowsOfIsSeq
<1>4. ASSUME NEW i \in 1 .. Len(a)
      PROVE  RowsOf(a)[i] = RowsOf(c)[i]
  <2>1. i \in DOMAIN a /\ i \in DOMAIN c
    BY <1>1
  <2>2. RowsOf(a)[i] = a[i].row /\ RowsOf(c)[i] = c[i].row
    BY <2>1 DEF RowsOf
  <2> QED
    BY <1>2, <2>2
<1>5. SubSeq(RowsOf(a), 1, Len(a)) = SubSeq(RowsOf(c), 1, Len(a))
  BY <1>1, <1>3, <1>4
<1> QED
  BY <1>1, <1>3, <1>5 DEF IsPrefix
-----------------------------------------------------------------------------
(* Types *)

Proc == [pc : Steps, kb : Pair, kept : Batch \cup {<< >>}]

TypeInv ==
  /\ TypeOK
  /\ \A r \in Runs : run[r].pc = "cache" => Len(run[r].kb.index) = Len(run[r].kb.meta)

LEMMA PairType ==
  /\ NoPair \in Pair
  /\ \A p \in Pair : p.index \in Seq(Vector) /\ p.meta \in Seq(Row)
  /\ \A vs \in Seq(Vector), rows \in Seq(Row) : [index |-> vs, meta |-> rows] \in Pair
BY DEF Pair, NoPair

LEMMA FreshType ==
  \A pc \in Steps : [Fresh EXCEPT !.pc = pc] \in Proc
BY PairType DEF Fresh, Proc, Steps, Loading

(* What goto does to the runs.                                             *)
LEMMA GotoMoves ==
  ASSUME NEW r \in Runs, NEW pc \in Steps, NEW kb \in Pair,
         run \in [Runs -> Proc], goto(r, pc, kb)
  PROVE  /\ run' \in [Runs -> Proc]
         /\ run'[r].pc = pc /\ run'[r].kb = kb /\ run'[r].kept = run[r].kept
         /\ \A q \in Runs \ {r} : run'[q] = run[q]
BY DEF goto, Proc

(* What taking the lock does.                                              *)
LEMMA BeginMoves ==
  ASSUME TypeOK, NEW r \in Runs, NEW k \in Batch,
         begin(r, k, index \o NewVectors(r, k), meta \o NewRows(r, k))
  PROVE  /\ run' \in [Runs -> Proc]
         /\ run'[r].pc = "index" /\ run'[r].kept = k
         /\ run'[r].kb.index = index \o NewVectors(r, k)
         /\ run'[r].kb.meta  = meta \o NewRows(r, k)
         /\ run'[r].kb \in Pair
         /\ \A q \in Runs \ {r} : run'[q] = run[q]
<1> DEFINE vs   == index \o NewVectors(r, k)
           rows == meta \o NewRows(r, k)
           new  == [pc |-> "index", kb |-> [index |-> vs, meta |-> rows], kept |-> k]
<1>1. vs \in Seq(Vector) /\ rows \in Seq(Row)
  <2>1. NewVectors(r, k) \in Seq(Vector) /\ NewRows(r, k) \in Seq(Row)
    BY NewInStep DEF TypeOK
  <2>2. index \in Seq(Vector) /\ meta \in Seq(Row)
    BY DEF TypeOK
  <2> QED
    BY <2>1, <2>2
<1> HIDE DEF vs, rows
<1>2. [index |-> vs, meta |-> rows] \in Pair
  BY <1>1, PairType
<1>3. new \in Proc
  BY <1>2 DEF Proc, Steps, Writing
<1>4. run' = [run EXCEPT ![r] = new]
  BY DEF begin, vs, rows
<1>5. run \in [Runs -> Proc]
  BY DEF TypeOK, Proc
<1> HIDE DEF new
<1>6. run' \in [Runs -> Proc] /\ run'[r] = new /\ \A q \in Runs \ {r} : run'[q] = run[q]
  BY <1>3, <1>4, <1>5
<1> QED
  BY <1>2, <1>6 DEF new, vs, rows

(* Types are kept by a step that moves one run with goto, and changes the  *)
(* other variables within their types.                                     *)
LEMMA TypeByGoto ==
  ASSUME TypeInv, NEW r \in Runs, NEW pc \in Steps, NEW kb \in Pair, goto(r, pc, kb),
         index' \in Seq(Vector), meta' \in Seq(Row),
         marker' \in Models \cup {NoModel}, model' \in Models,
         cache' \in Pair, Len(cache'.index) = Len(cache'.meta),
         lock' \in Runs \cup {NoRun},
         crashes' \in 0 .. MaxCrashes, faults' \in 0 .. MaxFaults, torn' \in BOOLEAN,
         pc = "cache" => Len(kb.index) = Len(kb.meta)
  PROVE  TypeInv'
<1>1. run \in [Runs -> Proc]
  BY DEF TypeInv, TypeOK, Proc
<1>2. /\ run' \in [Runs -> Proc]
      /\ run'[r].pc = pc /\ run'[r].kb = kb
      /\ \A q \in Runs \ {r} : run'[q] = run[q]
  BY <1>1, GotoMoves
<1>3. TypeOK'
  BY <1>2 DEF TypeOK, Proc
<1>4. \A q \in Runs : run'[q].pc = "cache" => Len(run'[q].kb.index) = Len(run'[q].kb.meta)
  BY <1>2 DEF TypeInv
<1> QED
  BY <1>3, <1>4 DEF TypeInv

LEMMA TypeInit == ASSUME Init PROVE TypeInv
<1>1. NoPair \in Pair /\ Fresh \in Proc
  BY PairType DEF Fresh, Proc, Steps, Loading
<1>2. run \in [Runs -> Proc] /\ \A r \in Runs : run[r].pc = "load"
  BY <1>1 DEF Init, Fresh
<1>3. index \in Seq(Vector) /\ meta \in Seq(Row)
  BY DEF Init
<1>4. crashes \in 0 .. MaxCrashes /\ faults \in 0 .. MaxFaults
  BY KbAssumption DEF Init, KbAssumption
<1>5. cache \in Pair /\ Len(cache.index) = Len(cache.meta)
  BY <1>1 DEF Init, NoPair
<1>6. TypeOK
  BY <1>2, <1>3, <1>4, <1>5 DEF Init, TypeOK, Proc
<1> QED
  BY <1>2, <1>6 DEF TypeInv

LEMMA TypeStep ==
  ASSUME TypeInv, [Next]_vars
  PROVE  TypeInv'
<1> USE DEF files
<1>0. /\ NoPair \in Pair /\ Len(NoPair.index) = Len(NoPair.meta)
      /\ run \in [Runs -> Proc]
  BY PairType DEF NoPair, TypeInv, TypeOK, Proc
<1>1. CASE UNCHANGED vars
  BY <1>1 DEF TypeInv, TypeOK, vars
<1>2. CASE Crash
  <2>1. PICK resumed \in SUBSET {r \in Runs : run[r].pc \notin Loading \cup {"done"}} :
          run' = [r \in Runs |-> IF run[r].pc = "done" THEN run[r]
                                 ELSE [Fresh EXCEPT !.pc = IF r \in resumed THEN "analysed"
                                                           ELSE "load"]]
    BY <1>2 DEF Crash
  <2>2. \A r \in Runs : (run'[r] = run[r] /\ run[r].pc = "done")
                        \/ run'[r] = [Fresh EXCEPT !.pc = "analysed"]
                        \/ run'[r] = [Fresh EXCEPT !.pc = "load"]
    BY <2>1
  <2>3. "analysed" \in Steps /\ "load" \in Steps
    BY DEF Steps, Loading
  <2>4. [Fresh EXCEPT !.pc = "analysed"] \in Proc /\ [Fresh EXCEPT !.pc = "load"] \in Proc
    BY <2>3, FreshType
  <2>5. \A r \in Runs : run'[r] \in Proc /\ run'[r].pc # "cache"
    BY <1>0, <2>2, <2>4 DEF Fresh
  <2>6. run' \in [Runs -> Proc]
    BY <2>1, <2>5
  <2>7. TypeOK'
    <3>1. crashes' \in 0 .. MaxCrashes
      BY <1>2, KbAssumption DEF Crash, KbAssumption, TypeInv, TypeOK
    <3>2. torn' \in BOOLEAN
      BY <1>2 DEF Crash
    <3>3. UNCHANGED <<index, meta, marker, faults>> /\ model' \in Models /\ cache' = NoPair
          /\ lock' = NoRun
      BY <1>2 DEF Crash
    <3> QED
      BY <1>0, <2>6, <3>1, <3>2, <3>3 DEF TypeInv, TypeOK, Proc
  <2> QED
    BY <2>5, <2>7 DEF TypeInv
<1>3. ASSUME NEW r \in Runs, Work(r) \/ WriteFails(r)
      PROVE  TypeInv'
  <2> USE DEF Steps, Loading, Writing
  <2>0. run[r].kb \in Pair /\ run[r] \in Proc
    BY <1>0 DEF Proc
  <2>1. CASE Load(r)
    <3>1. [index |-> index, meta |-> << >>] \in Pair
      <4>1. index \in Seq(Vector) /\ << >> \in Seq(Row)
        BY DEF TypeInv, TypeOK
      <4> QED
        BY <4>1, PairType
    <3>2. UNCHANGED <<index, meta, marker, model, cache, lock, crashes, faults, torn>>
      BY <2>1 DEF Load
    <3>3. \/ goto(r, "analysed", cache)
          \/ goto(r, "analysed", NoPair)
          \/ goto(r, "rows", [index |-> index, meta |-> << >>])
      BY <2>1 DEF Load
    <3> QED
      BY <1>0, <3>1, <3>2, <3>3, TypeByGoto DEF TypeInv, TypeOK
  <2>2. CASE ReadMeta(r)
    <3> DEFINE kb == [run[r].kb EXCEPT !.meta = meta]
    <3>1. kb \in Pair /\ kb.index = run[r].kb.index /\ kb.meta = meta
      BY <2>0 DEF Pair, TypeInv, TypeOK
    <3>2. UNCHANGED <<index, meta, marker, model, cache, lock, crashes, faults, torn>>
      BY <2>2 DEF ReadMeta
    <3>3. \/ Len(meta) = Len(run[r].kb.index) /\ goto(r, "cache", kb)
          \/ goto(r, "analysed", NoPair)
      BY <2>2 DEF ReadMeta
    <3> HIDE DEF kb
    <3> QED
      BY <1>0, <3>1, <3>2, <3>3, TypeByGoto DEF TypeInv, TypeOK
  <2>3. CASE StoreInCache(r)
    <3>1. /\ goto(r, "analysed", run[r].kb) /\ cache' = run[r].kb
          /\ UNCHANGED <<index, meta, marker, model, lock, crashes, faults, torn>>
      BY <2>3 DEF StoreInCache
    <3>2. Len(cache'.index) = Len(cache'.meta)
      BY <2>3, <3>1 DEF StoreInCache, TypeInv
    <3> QED
      BY <2>0, <3>1, <3>2, TypeByGoto DEF TypeInv, TypeOK
  <2>4. CASE AppendNothing(r)
    <3>1. /\ goto(r, "learned", NoPair)
          /\ UNCHANGED <<index, meta, marker, model, cache, lock, crashes, faults, torn>>
      BY <2>4 DEF AppendNothing
    <3> QED
      BY <1>0, <3>1, TypeByGoto DEF TypeInv, TypeOK
  <2>5. CASE BeginAppend(r)
    <3>1. PICK k \in Batch :
            begin(r, k, index \o NewVectors(r, k), meta \o NewRows(r, k))
      BY <2>5 DEF BeginAppend
    <3>2. /\ run' \in [Runs -> Proc] /\ run'[r].pc = "index"
          /\ \A q \in Runs \ {r} : run'[q] = run[q]
      BY <3>1, BeginMoves DEF TypeInv
    <3>3. /\ lock' = r
          /\ UNCHANGED <<index, meta, marker, model, cache, crashes, faults, torn>>
      BY <3>1 DEF begin
    <3>4. TypeOK'
      BY <3>2, <3>3 DEF TypeInv, TypeOK, Proc
    <3> QED
      BY <3>2, <3>4 DEF TypeInv
  <2>6. CASE ReplaceIndex(r)
    <3>1. /\ goto(r, "sidecar", run[r].kb) /\ index' = run[r].kb.index
          /\ UNCHANGED <<meta, marker, model, cache, lock, crashes, faults, torn>>
      BY <2>6 DEF ReplaceIndex
    <3>2. index' \in Seq(Vector)
      BY <2>0, <3>1, PairType
    <3> QED
      BY <2>0, <3>1, <3>2, TypeByGoto DEF TypeInv, TypeOK
  <2>7. CASE ReplaceSidecar(r)
    <3>1. /\ goto(r, "marker", NoPair) /\ meta' = run[r].kb.meta
          /\ UNCHANGED <<index, marker, model, cache, lock, crashes, faults, torn>>
      BY <2>7 DEF ReplaceSidecar
    <3>2. meta' \in Seq(Row)
      BY <2>0, <3>1, PairType
    <3> QED
      BY <1>0, <3>1, <3>2, TypeByGoto DEF TypeInv, TypeOK
  <2>8. CASE WriteMarker(r)
    <3>1. /\ goto(r, "pop", NoPair) /\ marker' \in {marker, model}
          /\ UNCHANGED <<index, meta, model, cache, lock, crashes, faults, torn>>
      BY <2>8 DEF WriteMarker
    <3> QED
      BY <1>0, <3>1, TypeByGoto DEF TypeInv, TypeOK
  <2>9. CASE PopCache(r)
    <3>1. /\ goto(r, "learned", NoPair) /\ cache' = NoPair /\ lock' = NoRun
          /\ UNCHANGED <<index, meta, marker, model, crashes, faults, torn>>
      BY <2>9 DEF PopCache
    <3> QED
      BY <1>0, <3>1, TypeByGoto DEF TypeInv, TypeOK
  <2>10. CASE Settle(r) \/ WriteFails(r)
    <3>1. /\ \A q \in Runs \ {r} : run'[q] = run[q]
          /\ run'[r].pc \in {"learned", "done"}
          /\ run' \in [Runs -> Proc]
      <4>1. [Fresh EXCEPT !.pc = "learned"] \in Proc
        BY FreshType
      <4>2. [run[r] EXCEPT !.pc = "done"] \in Proc
        BY <2>0 DEF Proc
      <4>3. \/ run' = [run EXCEPT ![r] = [Fresh EXCEPT !.pc = "learned"]]
            \/ run' = [run EXCEPT ![r] = [run[r] EXCEPT !.pc = "done"]]
        BY <2>10, <1>0 DEF Settle, WriteFails
      <4> QED
        BY <1>0, <2>0, <4>1, <4>2, <4>3 DEF Fresh, Proc
    <3>2. /\ UNCHANGED <<index, meta, marker, model, cache, crashes>>
          /\ lock' \in {lock, NoRun}
      BY <2>10 DEF Settle, WriteFails
    <3>3. faults' \in 0 .. MaxFaults
      BY <2>10, KbAssumption DEF Settle, WriteFails, KbAssumption, TypeInv, TypeOK
    <3>4. torn' \in BOOLEAN
      BY <2>10 DEF Settle, WriteFails, TypeInv, TypeOK
    <3>5. TypeOK'
      BY <3>1, <3>2, <3>3, <3>4 DEF TypeInv, TypeOK, Proc
    <3> QED
      BY <3>1, <3>5 DEF TypeInv
  <2> QED
    BY <1>3, <2>1, <2>2, <2>3, <2>4, <2>5, <2>6, <2>7, <2>8, <2>9, <2>10 DEF Work
<1> QED
  BY <1>1, <1>2, <1>3 DEF Next

(* Every value stays of its type; a cached pair has as many rows as        *)
(* vectors, because load_user_kb compares them before it stores the pair.  *)
THEOREM TypeCorrect == Spec => []TypeOK
<1>1. Init => TypeInv
  BY TypeInit
<1>2. TypeInv /\ [Next]_vars => TypeInv'
  BY TypeStep
<1>3. TypeInv => TypeOK
  BY DEF TypeInv
<1> QED
  BY <1>1, <1>2, <1>3, PTL DEF Spec

-----------------------------------------------------------------------------
(* Index and sidecar *)

(* Who writes holds the lock.                                              *)
Locked == \A r \in Runs : run[r].pc \in Writing => lock = r

(* The new contents extend the files by one batch.                         *)
Prepared(r) ==
  run[r].pc = "index" =>
    /\ IsPrefix(index, run[r].kb.index) /\ IsPrefix(meta, run[r].kb.meta)
    /\ Len(run[r].kb.meta) <= Len(run[r].kb.index)
    /\ ~torn => RowsOf(run[r].kb.index) = run[r].kb.meta

(* The index is the new one already.                                       *)
Replaced(r) ==
  run[r].pc = "sidecar" =>
    /\ IsPrefix(meta, run[r].kb.meta)
    /\ Len(run[r].kb.meta) <= Len(index)
    /\ ~torn => RowsOf(index) = run[r].kb.meta

AtRest == \A r \in Runs : run[r].pc # "sidecar"

FilesInv ==
  /\ Locked
  /\ \A r \in Runs : Prepared(r) /\ Replaced(r)
  /\ RowsNeverLead
  /\ ~torn /\ AtRest => RowsOf(index) = meta

LEMMA FilesInit == ASSUME Init PROVE FilesInv
<1>1. \A r \in Runs : run[r].pc = "load"
  BY DEF Init, Fresh
<1>2. RowsOf(index) = meta
  BY DEF Init, RowsOf
<1>3. RowsNeverLead
  BY DEF Init, RowsNeverLead
<1> QED
  BY <1>1, <1>2, <1>3 DEF FilesInv, Locked, Prepared, Replaced, Writing

(* A step that leaves the files, the lock and torn alone, and brings no    *)
(* run into the writing part.                                              *)
LEMMA FilesUntouched ==
  ASSUME FilesInv, NEW r \in Runs, run[r].pc \notin Writing, run'[r].pc \notin Writing,
         \A q \in Runs \ {r} : run'[q] = run[q],
         UNCHANGED <<index, meta, lock, torn>>
  PROVE  FilesInv'
<1>1. Locked'
  BY DEF FilesInv, Locked
<1>2. \A q \in Runs : Prepared(q)' /\ Replaced(q)'
  BY DEF FilesInv, Prepared, Replaced, Writing
<1>3. RowsNeverLead'
  BY DEF FilesInv, RowsNeverLead
<1>4. AtRest' => AtRest
  BY DEF AtRest, Writing
<1>5. ~torn' /\ AtRest' => RowsOf(index)' = meta'
  BY <1>4 DEF FilesInv
<1> QED
  BY <1>1, <1>2, <1>3, <1>5 DEF FilesInv

LEMMA FilesStep ==
  ASSUME TypeInv, TypeInv', FilesInv, [Next]_vars
  PROVE  FilesInv'
<1> USE DEF files
<1>0. /\ run \in [Runs -> Proc] /\ NoPair \in Pair
      /\ index \in Seq(Vector) /\ meta \in Seq(Row) /\ torn \in BOOLEAN
      /\ \A r \in Runs : run[r].kb \in Pair
  BY PairType DEF TypeInv, TypeOK, Proc
<1>1. CASE UNCHANGED vars
  BY <1>1 DEF FilesInv, Locked, Prepared, Replaced, RowsNeverLead, AtRest, RowsOf, vars
<1>2. CASE Crash
  <2>1. \A r \in Runs : run'[r].pc \in {"load", "analysed", "done"}
    BY <1>2 DEF Crash, Fresh
  <2>2. /\ UNCHANGED <<index, meta>>
        /\ ~torn' => ~torn /\ AtRest
    BY <1>2 DEF Crash, files, AtRest
  <2>3. Locked' /\ \A r \in Runs : Prepared(r)' /\ Replaced(r)'
    BY <2>1 DEF Locked, Prepared, Replaced, Writing
  <2>4. RowsNeverLead'
    BY <2>2 DEF FilesInv, RowsNeverLead
  <2>5. ~torn' => RowsOf(index)' = meta'
    BY <2>2 DEF FilesInv
  <2> QED
    BY <2>3, <2>4, <2>5 DEF FilesInv
<1>3. ASSUME NEW r \in Runs, Work(r) \/ WriteFails(r)
      PROVE  FilesInv'
  <2>0. /\ run[r].kb \in Pair
        /\ run[r].kb.index \in Seq(Vector) /\ run[r].kb.meta \in Seq(Row)
    BY <1>0, PairType
  <2>1. CASE Load(r) \/ ReadMeta(r) \/ StoreInCache(r) \/ AppendNothing(r) \/ Settle(r)
    <3>1. /\ UNCHANGED <<index, meta, lock, torn>>
          /\ run[r].pc \notin Writing
      BY <2>1 DEF Load, ReadMeta, StoreInCache, AppendNothing, Settle, Writing
    <3>2. /\ run'[r].pc \notin Writing
          /\ \A q \in Runs \ {r} : run'[q] = run[q]
      <4>1. CASE Settle(r)
        BY <1>0, <4>1 DEF Settle, Writing, Proc
      <4>2. CASE Load(r) \/ ReadMeta(r) \/ StoreInCache(r) \/ AppendNothing(r)
        <5>1. PICK pc, kb : pc \in {"rows", "cache", "analysed", "learned"} /\ goto(r, pc, kb)
          BY <4>2 DEF Load, ReadMeta, StoreInCache, AppendNothing
        <5> QED
          BY <1>0, <5>1 DEF goto, Writing, Proc
      <4> QED
        BY <2>1, <4>1, <4>2
    <3> QED
      BY <3>1, <3>2, FilesUntouched
  <2>2. CASE BeginAppend(r)
    <3>1. PICK k \in Batch :
            begin(r, k, index \o NewVectors(r, k), meta \o NewRows(r, k))
      BY <2>2 DEF BeginAppend
    <3> DEFINE vs   == NewVectors(r, k)
               rows == NewRows(r, k)
    <3>2. /\ run'[r].pc = "index"
          /\ run'[r].kb.index = index \o vs /\ run'[r].kb.meta = meta \o rows
          /\ \A q \in Runs \ {r} : run'[q] = run[q]
      BY <3>1, BeginMoves DEF TypeInv
    <3>3. lock = NoRun /\ lock' = r /\ UNCHANGED <<index, meta, torn>>
      BY <2>2, <3>1 DEF BeginAppend, begin
    <3>4. \A q \in Runs : run[q].pc \notin Writing
      BY <3>3, KbAssumption DEF KbAssumption, FilesInv, Locked
    <3>5. /\ vs \in Seq(Vector) /\ rows \in Seq(Row)
          /\ Len(vs) = Len(rows) /\ RowsOf(vs) = rows
      BY NewInStep DEF TypeInv, TypeOK
    <3>6. ~torn => RowsOf(index) = meta
      BY <3>4 DEF FilesInv, AtRest, Writing
    <3> HIDE DEF vs, rows
    <3>7. IsPrefix(index, index \o vs) /\ IsPrefix(meta, meta \o rows)
      BY <1>0, <3>5, PrefixOfConcat
    <3>8. Len(meta \o rows) <= Len(index \o vs)
      BY <1>0, <3>5 DEF FilesInv, RowsNeverLead
    <3>9. ~torn => RowsOf(index \o vs) = meta \o rows
      BY <1>0, <3>5, <3>6, RowsOfConcat
    <3>10. Prepared(r)'
      BY <3>2, <3>3, <3>7, <3>8, <3>9 DEF Prepared
    <3>11. Locked' /\ (\A q \in Runs : Prepared(q)' /\ Replaced(q)')
      BY <3>2, <3>3, <3>4, <3>10 DEF Locked, Prepared, Replaced, Writing
    <3>12. RowsNeverLead' /\ (~torn' => RowsOf(index)' = meta')
      BY <3>3, <3>6 DEF FilesInv, RowsNeverLead
    <3> QED
      BY <3>11, <3>12 DEF FilesInv
  <2>3. CASE run[r].pc \in Writing /\ ~BeginAppend(r)
    <3>1. lock = r /\ \A q \in Runs \ {r} : run[q].pc \notin Writing
      BY <2>3 DEF FilesInv, Locked
    <3>2. CASE ReplaceIndex(r)
      <4>1. /\ run[r].pc = "index" /\ run'[r].pc = "sidecar" /\ run'[r].kb = run[r].kb
            /\ \A q \in Runs \ {r} : run'[q] = run[q]
            /\ index' = run[r].kb.index /\ UNCHANGED <<meta, lock, torn>>
        BY <1>0, <3>2 DEF ReplaceIndex, goto, Proc
      <4>2. Prepared(r)
        BY DEF FilesInv
      <4>3. Replaced(r)'
        BY <4>1, <4>2 DEF Prepared, Replaced
      <4>4. Locked' /\ \A q \in Runs : Prepared(q)' /\ Replaced(q)'
        BY <3>1, <4>1, <4>3 DEF Locked, Prepared, Replaced, Writing
      <4>5. RowsNeverLead'
        <5>1. Len(meta) <= Len(run[r].kb.meta) /\ Len(run[r].kb.meta) <= Len(run[r].kb.index)
          BY <4>1, <4>2 DEF Prepared, IsPrefix
        <5> QED
          BY <1>0, <2>0, <4>1, <5>1 DEF RowsNeverLead
      <4>6. ~AtRest'
        BY <4>1 DEF AtRest
      <4> QED
        BY <4>4, <4>5, <4>6 DEF FilesInv
    <3>3. CASE ReplaceSidecar(r)
      <4>1. /\ run[r].pc = "sidecar" /\ run'[r].pc = "marker"
            /\ \A q \in Runs \ {r} : run'[q] = run[q]
            /\ meta' = run[r].kb.meta /\ UNCHANGED <<index, lock, torn>>
        BY <1>0, <3>3 DEF ReplaceSidecar, goto, Proc
      <4>2. Replaced(r)
        BY DEF FilesInv
      <4>3. Locked' /\ \A q \in Runs : Prepared(q)' /\ Replaced(q)'
        BY <3>1, <4>1 DEF Locked, Prepared, Replaced, Writing
      <4>4. RowsNeverLead' /\ (~torn' => RowsOf(index)' = meta')
        BY <4>1, <4>2 DEF Replaced, RowsNeverLead
      <4> QED
        BY <4>3, <4>4 DEF FilesInv
    <3>4. CASE WriteMarker(r) \/ PopCache(r)
      <4>1. /\ run[r].pc \in {"marker", "pop"} /\ run'[r].pc \in {"pop", "learned"}
            /\ run'[r].pc = "pop" => lock' = lock
            /\ \A q \in Runs \ {r} : run'[q] = run[q]
            /\ UNCHANGED <<index, meta, torn>>
        BY <1>0, <3>4 DEF WriteMarker, PopCache, goto, Proc
      <4>2. Locked' /\ \A q \in Runs : Prepared(q)' /\ Replaced(q)'
        BY <3>1, <4>1 DEF Locked, Prepared, Replaced, Writing
      <4>3. AtRest
        BY <3>1, <4>1 DEF AtRest, Writing
      <4>4. RowsNeverLead' /\ (~torn' => RowsOf(index)' = meta')
        BY <4>1, <4>3 DEF FilesInv, RowsNeverLead
      <4> QED
        BY <4>2, <4>4 DEF FilesInv
    <3>5. CASE WriteFails(r)
      <4>1. /\ run'[r].pc = "learned"
            /\ \A q \in Runs \ {r} : run'[q] = run[q]
            /\ UNCHANGED <<index, meta>>
            /\ ~torn' => ~torn /\ run[r].pc = "index"
        BY <1>0, <3>5 DEF WriteFails, Fresh
      <4>2. Locked' /\ \A q \in Runs : Prepared(q)' /\ Replaced(q)'
        BY <3>1, <4>1 DEF Locked, Prepared, Replaced, Writing
      <4>3. ~torn' => AtRest
        BY <3>1, <4>1 DEF AtRest, Writing
      <4>4. RowsNeverLead' /\ (~torn' => RowsOf(index)' = meta')
        BY <4>1, <4>3 DEF FilesInv, RowsNeverLead
      <4> QED
        BY <4>2, <4>4 DEF FilesInv
    <3>6. \/ ReplaceIndex(r) \/ ReplaceSidecar(r) \/ WriteMarker(r) \/ PopCache(r)
          \/ WriteFails(r)
      BY <1>3, <2>3 DEF Work, Load, ReadMeta, StoreInCache, AppendNothing, Settle, Writing
    <3> QED
      BY <3>2, <3>3, <3>4, <3>5, <3>6
  <2>4. \/ Load(r) \/ ReadMeta(r) \/ StoreInCache(r) \/ AppendNothing(r) \/ Settle(r)
        \/ BeginAppend(r)
        \/ run[r].pc \in Writing /\ ~BeginAppend(r)
    BY <1>3 DEF Work, ReplaceIndex, ReplaceSidecar, WriteMarker, PopCache, WriteFails,
                BeginAppend, begin, Writing
  <2> QED
    BY <2>1, <2>2, <2>3, <2>4
<1> QED
  BY <1>1, <1>2, <1>3 DEF Next

LEMMA FilesAlways == Spec => [](TypeInv /\ FilesInv)
<1>1. Init => TypeInv /\ FilesInv
  BY TypeInit, FilesInit
<1>2. TypeInv /\ FilesInv /\ [Next]_vars => (TypeInv /\ FilesInv)'
  BY TypeStep, FilesStep
<1> QED
  BY <1>1, <1>2, PTL DEF Spec

(* Each row of the sidecar belongs to the vector at its place, whenever    *)
(* nobody writes and no append was ever cut short.                         *)
THEOREM StaysInStep == Spec => []InStep
<1>1. TypeInv /\ FilesInv => InStep
  <2> SUFFICES ASSUME FilesInv, lock = NoRun, ~torn PROVE RowsOf(index) = meta
    BY DEF InStep
  <2>1. AtRest
    BY KbAssumption DEF KbAssumption, FilesInv, Locked, Writing, AtRest
  <2> QED
    BY <2>1 DEF FilesInv
<1> QED
  BY <1>1, FilesAlways, PTL

(* The sidecar never has more rows than the index has vectors, not even    *)
(* after crashes and failing writes.                                       *)
THEOREM SidecarNeverLeads == Spec => []RowsNeverLead
<1>1. TypeInv /\ FilesInv => RowsNeverLead
  BY DEF FilesInv
<1> QED
  BY <1>1, FilesAlways, PTL

-----------------------------------------------------------------------------
(* Both files only grow *)

LEMMA GrowStep ==
  ASSUME TypeInv, FilesInv, [Next]_vars
  PROVE  IsPrefix(index, index') /\ IsPrefix(meta, meta')
<1>1. index \in Seq(Vector) /\ meta \in Seq(Row)
  BY DEF TypeInv, TypeOK
<1>2. IsPrefix(index, index) /\ IsPrefix(meta, meta)
  BY <1>1, PrefixOfItself
<1>3. \/ UNCHANGED <<index, meta>>
      \/ \E r \in Runs : ReplaceIndex(r) \/ ReplaceSidecar(r)
  BY DEF vars, files, Next, Crash, Work, WriteFails, Load, ReadMeta, StoreInCache,
         AppendNothing, BeginAppend, begin, WriteMarker, PopCache, Settle
<1>4. CASE UNCHANGED <<index, meta>>
  BY <1>2, <1>4
<1>5. ASSUME NEW r \in Runs, ReplaceIndex(r)
      PROVE  IsPrefix(index, index') /\ IsPrefix(meta, meta')
  <2>1. run[r].pc = "index" /\ index' = run[r].kb.index /\ meta' = meta
    BY <1>5 DEF ReplaceIndex
  <2>2. Prepared(r)
    BY DEF FilesInv
  <2> QED
    BY <1>2, <2>1, <2>2 DEF Prepared
<1>6. ASSUME NEW r \in Runs, ReplaceSidecar(r)
      PROVE  IsPrefix(index, index') /\ IsPrefix(meta, meta')
  <2>1. run[r].pc = "sidecar" /\ meta' = run[r].kb.meta /\ index' = index
    BY <1>6 DEF ReplaceSidecar
  <2>2. Replaced(r)
    BY DEF FilesInv
  <2> QED
    BY <1>2, <2>1, <2>2 DEF Replaced
<1> QED
  BY <1>3, <1>4, <1>5, <1>6

(* No step of any run, no crash and no failing write takes anything out of *)
(* the index or the sidecar.                                               *)
THEOREM FilesOnlyGrow == Spec => OnlyGrows
<1>1. TypeInv /\ FilesInv /\ [Next]_vars => [IsPrefix(index, index') /\ IsPrefix(meta, meta')]_vars
  BY GrowStep
<1> QED
  BY <1>1, FilesAlways, PTL DEF Spec, OnlyGrows

-----------------------------------------------------------------------------
(* The loaded pairs *)

HandlesInv ==
  ~torn =>
    /\ InHand(cache)
    /\ \A r \in Runs :
         /\ run[r].pc \in {"cache", "analysed"} => InHand(run[r].kb)
         /\ run[r].pc = "rows" => IsPrefix(run[r].kb.index, index)

LEMMA NothingInHand == TypeInv => InHand(NoPair)
<1> SUFFICES ASSUME TypeInv PROVE InHand(NoPair)
  OBVIOUS
<1>1. index \in Seq(Vector)
  BY DEF TypeInv, TypeOK
<1>2. IsPrefix(<< >>, index)
  BY <1>1 DEF IsPrefix
<1>3. RowsOf(<< >>) = << >>
  BY DEF RowsOf
<1> QED
  BY <1>2, <1>3 DEF InHand, NoPair

LEMMA InHandStays ==
  ASSUME TypeInv, TypeInv', FilesInv, [Next]_vars, NEW p \in Pair, InHand(p)
  PROVE  RowsOf(p.index) = p.meta /\ IsPrefix(p.index, index')
<1>1. p.index \in Seq(Vector) /\ index \in Seq(Vector) /\ index' \in Seq(Vector)
  BY PairType DEF TypeInv, TypeOK
<1>2. IsPrefix(p.index, index) /\ IsPrefix(index, index') /\ RowsOf(p.index) = p.meta
  BY GrowStep DEF InHand
<1> QED
  BY <1>1, <1>2, PrefixOfPrefix

(* As long as nothing was torn, the sidecar holds the rows of the first    *)
(* vectors, also in the middle of an append.                               *)
LEMMA SidecarIsPrefix ==
  ASSUME TypeInv, FilesInv, ~torn
  PROVE  IsPrefix(meta, RowsOf(index))
<1>1. index \in Seq(Vector) /\ meta \in Seq(Row)
  BY DEF TypeInv, TypeOK
<1>2. CASE AtRest
  <2>1. RowsOf(index) = meta
    BY <1>2 DEF FilesInv
  <2> QED
    BY <1>1, <2>1, PrefixOfItself
<1>3. CASE ~AtRest
  <2>1. PICK r \in Runs : run[r].pc = "sidecar"
    BY <1>3 DEF AtRest
  <2>2. Replaced(r)
    BY DEF FilesInv
  <2> QED
    BY <2>1, <2>2 DEF Replaced
<1> QED
  BY <1>2, <1>3

LEMMA HandlesStep ==
  ASSUME TypeInv, TypeInv', FilesInv, HandlesInv, [Next]_vars
  PROVE  HandlesInv'
<1> SUFFICES ASSUME ~torn'
             PROVE  /\ InHand(cache)'
                    /\ \A q \in Runs :
                         /\ run'[q].pc \in {"cache", "analysed"} => InHand(run[q].kb)'
                         /\ run'[q].pc = "rows" => IsPrefix(run'[q].kb.index, index')
  BY DEF HandlesInv
<1>0. /\ run \in [Runs -> Proc] /\ cache \in Pair /\ NoPair \in Pair
      /\ index \in Seq(Vector) /\ index' \in Seq(Vector) /\ meta \in Seq(Row)
      /\ \A q \in Runs : run[q].kb \in Pair
  BY PairType DEF TypeInv, TypeOK, Proc
<1>1. ~torn
  BY DEF vars, Next, Crash, Work, WriteFails, Load, ReadMeta, StoreInCache, AppendNothing,
         BeginAppend, begin, ReplaceIndex, ReplaceSidecar, WriteMarker, PopCache, Settle
<1>2. /\ InHand(cache)
      /\ \A q \in Runs : run[q].pc \in {"cache", "analysed"} => InHand(run[q].kb)
      /\ \A q \in Runs : run[q].pc = "rows" => IsPrefix(run[q].kb.index, index)
  BY <1>1 DEF HandlesInv
<1> DEFINE Good(p) == RowsOf(p.index) = p.meta /\ IsPrefix(p.index, index')
<1>3. /\ \A p \in Pair : InHand(p) => Good(p)
      /\ Good(NoPair)
  BY <1>0, NothingInHand, InHandStays
<1>4. ASSUME NEW q \in Runs, run[q].pc = "rows"
      PROVE  IsPrefix(run[q].kb.index, index')
  <2>1. run[q].kb.index \in Seq(Vector)
    BY <1>0, PairType
  <2> QED
    BY <1>0, <1>2, <1>4, <2>1, GrowStep, PrefixOfPrefix
(* The pairs of the runs that a step does not move.                        *)
<1>5. ASSUME NEW q \in Runs, run'[q] = run[q]
      PROVE  /\ run'[q].pc \in {"cache", "analysed"} => Good(run'[q].kb)
             /\ run'[q].pc = "rows" => IsPrefix(run'[q].kb.index, index')
  BY <1>0, <1>2, <1>3, <1>4, <1>5
<1>6. Good(cache')
  <2>1. \/ cache' = cache
        \/ cache' = NoPair
        \/ \E r \in Runs : run[r].pc = "cache" /\ cache' = run[r].kb
    BY DEF vars, files, Next, Crash, Work, WriteFails, Load, ReadMeta, StoreInCache,
           AppendNothing, BeginAppend, begin, ReplaceIndex, ReplaceSidecar, WriteMarker,
           PopCache, Settle
  <2> QED
    BY <1>0, <1>2, <1>3, <2>1
<1>7. ASSUME NEW q \in Runs, run'[q] # run[q]
      PROVE  /\ run'[q].pc \in {"cache", "analysed"} => Good(run'[q].kb)
             /\ run'[q].pc = "rows" => IsPrefix(run'[q].kb.index, index')
  <2>1. CASE Crash
    <3>1. \/ run'[q] = run[q]
          \/ run'[q].pc \in {"load", "analysed"} /\ run'[q].kb = NoPair
      BY <2>1 DEF Crash, Fresh
    <3> QED
      BY <1>3, <1>7, <3>1
  <2>2. ASSUME NEW r \in Runs, Work(r) \/ WriteFails(r), r # q
        PROVE  run'[q] = run[q]
    BY <1>0, <2>2 DEF Work, WriteFails, Load, ReadMeta, StoreInCache, AppendNothing,
           BeginAppend, begin, ReplaceIndex, ReplaceSidecar, WriteMarker, PopCache, Settle,
           goto
  <2>3. CASE Load(q)
    <3>1. IsPrefix(index, index')
      BY GrowStep
    <3>2. \/ run'[q].pc = "analysed" /\ run'[q].kb \in {cache, NoPair}
          \/ run'[q].pc = "rows" /\ run'[q].kb.index = index
      BY <1>0, <2>3 DEF Load, goto, Proc
    <3>3. Good(cache) /\ Good(NoPair)
      BY <1>0, <1>2, <1>3
    <3> HIDE DEF Good
    <3>4. run'[q].pc \in {"cache", "analysed"} => Good(run'[q].kb)
      BY <3>2, <3>3
    <3>5. run'[q].pc = "rows" => IsPrefix(run'[q].kb.index, index')
      BY <3>1, <3>2
    <3> QED
      BY <3>4, <3>5 DEF Good
  <2>4. CASE ReadMeta(q)
    <3>1. \/ /\ Len(meta) = Len(run[q].kb.index)
             /\ run'[q].kb = [run[q].kb EXCEPT !.meta = meta] /\ run'[q].pc = "cache"
          \/ run'[q].pc = "analysed" /\ run'[q].kb = NoPair
      <4>1. CASE goto(q, "analysed", NoPair)
        BY <1>0, <4>1 DEF goto, Proc
      <4>2. CASE /\ Len(meta) = Len(run[q].kb.index)
                 /\ goto(q, "cache", [run[q].kb EXCEPT !.meta = meta])
        BY <1>0, <4>2 DEF goto, Proc
      <4> QED
        BY <2>4, <4>1, <4>2 DEF ReadMeta
    <3>2. CASE run'[q].pc = "analysed" /\ run'[q].kb = NoPair
      BY <1>3, <3>2
    <3>3. CASE /\ Len(meta) = Len(run[q].kb.index)
               /\ run'[q].kb = [run[q].kb EXCEPT !.meta = meta] /\ run'[q].pc = "cache"
      <4> DEFINE vs == run[q].kb.index
      <4>1. run'[q].kb.index = vs /\ run'[q].kb.meta = meta
        BY <1>0, <3>3 DEF Pair
      <4>2. vs \in Seq(Vector) /\ Len(meta) = Len(vs)
        BY <1>0, <3>3, PairType
      <4>3. IsPrefix(vs, index) /\ IsPrefix(vs, index')
        BY <1>2, <1>4, <2>4 DEF ReadMeta
      <4> HIDE DEF vs
      <4>4. IsPrefix(RowsOf(vs), RowsOf(index))
        BY <1>0, <4>2, <4>3, RowsOfPrefix
      <4>5. IsPrefix(meta, RowsOf(index))
        BY <1>1, SidecarIsPrefix
      <4>6. /\ RowsOf(vs) \in Seq(Row) /\ Len(RowsOf(vs)) = Len(meta)
            /\ RowsOf(index) \in Seq(Row)
        BY <1>0, <4>2, RowsOfIsSeq
      <4>7. RowsOf(vs) = meta
        BY <1>0, <4>4, <4>5, <4>6, EqualPrefixes
      <4> QED
        BY <3>3, <4>1, <4>3, <4>7
    <3> QED
      BY <3>1, <3>2, <3>3
  <2>5. CASE StoreInCache(q)
    <3>1. run[q].pc = "cache" /\ run'[q].pc = "analysed" /\ run'[q].kb = run[q].kb
      BY <1>0, <2>5 DEF StoreInCache, goto, Proc
    <3> QED
      BY <1>0, <1>2, <1>3, <3>1
  <2>6. CASE \/ AppendNothing(q) \/ BeginAppend(q) \/ ReplaceIndex(q) \/ ReplaceSidecar(q)
             \/ WriteMarker(q) \/ PopCache(q) \/ Settle(q) \/ WriteFails(q)
    <3>1. run'[q].pc \in Writing \cup {"learned", "done"}
      BY <1>0, <2>6 DEF AppendNothing, BeginAppend, begin, ReplaceIndex, ReplaceSidecar,
             WriteMarker, PopCache, Settle, WriteFails, goto, Proc, Writing, Fresh
    <3> QED
      BY <3>1 DEF Writing
  <2>7. \/ UNCHANGED vars \/ Crash \/ \E r \in Runs : Work(r) \/ WriteFails(r)
    BY DEF Next
  <2>8. ~ UNCHANGED vars
    BY <1>7 DEF vars
  <2>9. CASE Work(q) \/ WriteFails(q)
    BY <2>3, <2>4, <2>5, <2>6, <2>9 DEF Work
  <2> QED
    BY <1>7, <2>1, <2>2, <2>7, <2>8, <2>9
<1> QED
  BY <1>5, <1>6, <1>7 DEF InHand

(* A pair the search gets, and the cached one, has for each vector its own *)
(* row, though the load takes no lock: the two files were read at any two  *)
(* moments, and equal lengths tell that they belong together.              *)
THEOREM HandlesAreSound == Spec => []HandlesInStep
<1> DEFINE Inv == TypeInv /\ FilesInv /\ HandlesInv
<1>1. Init => Inv
  <2> SUFFICES ASSUME Init PROVE HandlesInv
    BY TypeInit, FilesInit
  <2>1. InHand(NoPair)
    BY TypeInit, NothingInHand
  <2>2. cache = NoPair /\ \A r \in Runs : run[r].pc = "load"
    BY DEF Init, Fresh
  <2> QED
    BY <2>1, <2>2 DEF HandlesInv
<1>2. Inv /\ [Next]_vars => Inv'
  BY TypeStep, FilesStep, HandlesStep
<1>3. Inv => HandlesInStep
  BY DEF HandlesInv, HandlesInStep
<1> QED
  BY <1>1, <1>2, <1>3, PTL DEF Spec

-----------------------------------------------------------------------------
(* What is learned is learned once *)

(* The n-th finding of q is among the vectors.                             *)
Has(vs, q, n) == \E i \in DOMAIN vs : vs[i].row = [run |-> q, no |-> n]

NoTwice(vs) == \A i, j \in DOMAIN vs : vs[i].row = vs[j].row => i = j

HasNone(vs, q) == \A n \in 1 .. MaxFindings : ~Has(vs, q, n)
HasKept(vs, q) == \A n \in 1 .. MaxFindings : Has(vs, q, n) <=> n \in ToSet(run[q].kept)

(* A run that has not reached its append has kept nothing.  The index has  *)
(* what the runs have kept; the append that is prepared is the one that is *)
(* not in it yet.                                                          *)
Unlearned == \A q \in Runs : run[q].pc \in Loading \cup {"analysed"} => run[q].kept = << >>

Complete(vs) == NoTwice(vs) /\ \A q \in Runs : HasKept(vs, q)

OnceInv ==
  /\ Unlearned
  /\ crashes = 0 /\ ~torn =>
       /\ NoTwice(index)
       /\ \A q \in Runs : run[q].pc # "index" => HasKept(index, q)
       /\ \A q \in Runs : run[q].pc = "index" =>
            HasNone(index, q) /\ Complete(run[q].kb.index)

(* A batch adds its own findings, each of them once.                       *)
LEMMA AppendedOnce ==
  ASSUME NEW vs \in Seq(Vector), NEW r \in Runs, NEW k \in Batch, model \in Models,
         NoTwice(vs), HasNone(vs, r)
  PROVE  /\ NoTwice(vs \o NewVectors(r, k))
         /\ \A q \in Runs, n \in 1 .. MaxFindings :
              Has(vs \o NewVectors(r, k), q, n) <=>
                (Has(vs, q, n) \/ (q = r /\ n \in ToSet(k)))
<1>1. PICK nv \in Seq(Vector) : nv = NewVectors(r, k) /\ Len(nv) = Len(k)
  BY NewInStep
<1>2. PICK a \in Nat, b \in Nat : a = Len(vs) /\ b = Len(k)
  <2>1. Len(vs) \in Nat /\ Len(k) \in Nat
    BY BatchIsSeq, SeqIsFunction
  <2> QED
    BY <2>1
<1>3. /\ DOMAIN k = 1 .. b
      /\ \A i \in 1 .. b : k[i] \in 1 .. MaxFindings
      /\ \A i, j \in 1 .. b : i < j => k[i] < k[j]
  <2>1. DOMAIN k = 1 .. b /\ k \in [1 .. b -> 1 .. MaxFindings]
    BY <1>2, BatchIsSeq, SeqIsFunction
  <2> QED
    BY <2>1 DEF Batch
<1>4. \A i \in 1 .. b : nv[i].row = [run |-> r, no |-> k[i]]
  BY <1>1, <1>3 DEF NewVectors, NewRows
<1>5. PICK all : all = vs \o nv
  OBVIOUS
<1>6. /\ DOMAIN all = 1 .. a + b /\ DOMAIN vs = 1 .. a
      /\ \A i \in 1 .. a : all[i] = vs[i]
      /\ \A i \in 1 .. b : all[a + i] = nv[i]
  <2>1. Len(nv) = b /\ Len(vs) = a
    BY <1>1, <1>2
  <2>2. all \in Seq(Vector) /\ Len(all) = a + b
    <3>1. vs \o nv \in Seq(Vector)
      OBVIOUS
    <3>2. Len(vs \o nv) = Len(vs) + Len(nv)
      OBVIOUS
    <3> QED
      BY <1>5, <2>1, <3>1, <3>2
  <2>3. \A i \in 1 .. a : all[i] = vs[i]
    BY <1>5, <2>1
  <2>4. \A i \in 1 .. b : all[a + i] = nv[i]
    <3> TAKE i \in 1 .. b
    <3>1. a + i \in 1 .. a + b /\ a + i > a /\ (a + i) - a = i
      OBVIOUS
    <3> QED
      BY <1>5, <2>1, <3>1
  <2> QED
    BY <2>1, <2>2, <2>3, <2>4
<1>7. \A i \in 1 .. b : all[a + i].row = [run |-> r, no |-> k[i]]
  BY <1>4, <1>6
<1>8. \A i \in 1 .. a + b : i \in 1 .. a \/ \E h \in 1 .. b : i = a + h
  <2> TAKE i \in 1 .. a + b
  <2>1. i \in 1 .. a \/ (i - a \in 1 .. b /\ i = a + (i - a))
    OBVIOUS
  <2> QED
    BY <2>1
<1>9. \A i \in 1 .. a, h \in 1 .. b : all[i].row # all[a + h].row
  <2> SUFFICES ASSUME NEW i \in 1 .. a, NEW h \in 1 .. b, all[i].row = all[a + h].row
               PROVE  FALSE
    OBVIOUS
  <2>1. vs[i].row = [run |-> r, no |-> k[h]] /\ i \in DOMAIN vs
    BY <1>6, <1>7
  <2>2. Has(vs, r, k[h]) /\ k[h] \in 1 .. MaxFindings
    BY <1>3, <2>1 DEF Has
  <2> QED
    BY <2>2 DEF HasNone
<1>10. NoTwice(all)
  <2> SUFFICES ASSUME NEW i \in 1 .. a + b, NEW j \in 1 .. a + b, all[i].row = all[j].row
               PROVE  i = j
    BY <1>6 DEF NoTwice
  <2>1. CASE i \in 1 .. a /\ j \in 1 .. a
    BY <1>6, <2>1 DEF NoTwice
  <2>2. ASSUME NEW g \in 1 .. b, i = a + g, NEW h \in 1 .. b, j = a + h
        PROVE  i = j
    <3>1. k[g] = k[h]
      <4>1. /\ all[a + g].row = [run |-> r, no |-> k[g]]
            /\ all[a + h].row = [run |-> r, no |-> k[h]]
        BY <1>7
      <4>2. [run |-> r, no |-> k[g]] = [run |-> r, no |-> k[h]]
        BY <2>2, <4>1
      <4> QED
        BY <4>2
    <3>2. k[g] \in Nat /\ k[h] \in Nat
      BY <1>3
    <3>3. ~(g < h) /\ ~(h < g)
      BY <1>3, <3>1, <3>2
    <3> QED
      BY <2>2, <3>3
  <2> QED
    BY <1>8, <1>9, <2>1, <2>2
<1>11. ASSUME NEW q \in Runs, NEW n \in 1 .. MaxFindings
       PROVE  Has(all, q, n) <=> (Has(vs, q, n) \/ (q = r /\ n \in ToSet(k)))
  <2>1. ASSUME Has(all, q, n) PROVE Has(vs, q, n) \/ (q = r /\ n \in ToSet(k))
    <3>1. PICK i \in 1 .. a + b : all[i].row = [run |-> q, no |-> n]
      BY <1>6, <2>1 DEF Has
    <3>2. CASE i \in 1 .. a
      BY <1>6, <3>1, <3>2 DEF Has
    <3>3. ASSUME NEW h \in 1 .. b, i = a + h PROVE q = r /\ n \in ToSet(k)
      <4>1. [run |-> q, no |-> n] = [run |-> r, no |-> k[h]]
        BY <1>7, <3>1, <3>3
      <4>2. q = r /\ n = k[h]
        BY <4>1
      <4> QED
        BY <1>3, <4>2 DEF ToSet
    <3> QED
      BY <1>8, <3>2, <3>3
  <2>2. ASSUME Has(vs, q, n) PROVE Has(all, q, n)
    <3>1. PICK i \in 1 .. a : vs[i].row = [run |-> q, no |-> n]
      BY <1>6, <2>2 DEF Has
    <3>2. i \in 1 .. a + b
      OBVIOUS
    <3> QED
      BY <1>6, <3>1, <3>2 DEF Has
  <2>3. ASSUME q = r, n \in ToSet(k) PROVE Has(all, q, n)
    <3>1. PICK h \in 1 .. b : n = k[h]
      BY <1>3, <2>3 DEF ToSet
    <3>2. a + h \in 1 .. a + b
      OBVIOUS
    <3> QED
      BY <1>6, <1>7, <2>3, <3>1, <3>2 DEF Has
  <2> QED
    BY <2>1, <2>2, <2>3
<1> QED
  BY <1>1, <1>5, <1>10, <1>11

LEMMA OnceInit == ASSUME Init PROVE OnceInv
<1>1. \A q \in Runs : run[q].pc = "load" /\ run[q].kept = << >>
  BY DEF Init, Fresh
<1>2. index = << >> /\ DOMAIN index = {}
  BY DEF Init
<1>3. ToSet(<< >>) = {}
  BY DEF ToSet
<1> QED
  BY <1>1, <1>2, <1>3 DEF OnceInv, Unlearned, NoTwice, HasKept, Has

(* A step of r that leaves the index alone, and what r has kept.           *)
LEMMA OnceUntouched ==
  ASSUME OnceInv, NEW r \in Runs, \A q \in Runs \ {r} : run'[q] = run[q],
         run'[r].kept = run[r].kept, run[r].pc # "index", run'[r].pc # "index",
         run'[r].pc \in Loading \cup {"analysed"} => run[r].pc \in Loading \cup {"analysed"},
         UNCHANGED <<index, crashes, torn>>
  PROVE  OnceInv'
<1>1. \A q \in Runs : /\ run'[q].kept = run[q].kept
                      /\ run'[q].pc = "index" <=> run[q].pc = "index"
                      /\ run[q].pc = "index" => run'[q].kb = run[q].kb
  OBVIOUS
<1>2. Unlearned'
  BY DEF OnceInv, Unlearned
<1>3. \A vs : \A q \in Runs : HasKept(vs, q)' <=> HasKept(vs, q)
  BY <1>1 DEF HasKept
<1> QED
  BY <1>1, <1>2 DEF OnceInv, Complete, HasKept, HasNone, Has, NoTwice

LEMMA OnceStep ==
  ASSUME TypeInv, TypeInv', FilesInv, OnceInv, [Next]_vars
  PROVE  OnceInv'
<1> USE DEF files
<1>0. /\ run \in [Runs -> Proc] /\ NoPair \in Pair /\ index \in Seq(Vector)
      /\ model \in Models /\ \A r \in Runs : run[r].kb \in Pair
  BY PairType DEF TypeInv, TypeOK, Proc
<1>1. CASE UNCHANGED vars
  BY <1>1 DEF vars, OnceInv, Unlearned, Complete, HasKept, HasNone, Has, NoTwice
<1>2. CASE Crash
  <2>1. \A q \in Runs : \/ run'[q] = run[q] /\ run[q].pc = "done"
                        \/ run'[q].kept = << >>
    BY <1>2 DEF Crash, Fresh
  <2>2. Unlearned'
    BY <2>1 DEF Unlearned, Loading
  <2>3. crashes' # 0
    BY <1>2 DEF Crash, TypeInv, TypeOK
  <2> QED
    BY <2>2, <2>3 DEF OnceInv
<1>3. ASSUME NEW r \in Runs, Work(r) \/ WriteFails(r)
      PROVE  OnceInv'
  <2>1. CASE \/ Load(r) \/ ReadMeta(r) \/ StoreInCache(r) \/ AppendNothing(r) \/ Settle(r)
             \/ ReplaceSidecar(r) \/ WriteMarker(r) \/ PopCache(r)
    <3>1. /\ UNCHANGED <<index, crashes, torn>>
          /\ run[r].pc # "index"
      BY <2>1 DEF Load, ReadMeta, StoreInCache, AppendNothing, Settle, ReplaceSidecar,
                  WriteMarker, PopCache
    <3>2. /\ run'[r].pc # "index" /\ run'[r].kept = run[r].kept
          /\ run'[r].pc \in Loading \cup {"analysed"} => run[r].pc \in Loading \cup {"analysed"}
          /\ \A q \in Runs \ {r} : run'[q] = run[q]
      <4>1. CASE Settle(r)
        BY <1>0, <4>1 DEF Settle, Proc, Loading
      <4>2. CASE Load(r) \/ ReadMeta(r) \/ StoreInCache(r)
        <5>1. PICK pc, kb : pc \in {"rows", "cache", "analysed"} /\ goto(r, pc, kb)
          BY <4>2 DEF Load, ReadMeta, StoreInCache
        <5>2. run[r].pc \in Loading
          BY <4>2 DEF Load, ReadMeta, StoreInCache, Loading
        <5> QED
          BY <1>0, <5>1, <5>2 DEF goto, Proc
      <4>3. CASE AppendNothing(r) \/ ReplaceSidecar(r) \/ WriteMarker(r) \/ PopCache(r)
        <5>1. PICK pc, kb : pc \in {"learned", "marker", "pop"} /\ goto(r, pc, kb)
          BY <4>3 DEF AppendNothing, ReplaceSidecar, WriteMarker, PopCache
        <5> QED
          BY <1>0, <5>1 DEF goto, Proc, Loading
      <4> QED
        BY <2>1, <4>1, <4>2, <4>3
    <3> QED
      BY <3>1, <3>2, OnceUntouched
  <2>2. CASE BeginAppend(r)
    <3>1. PICK k \in Batch :
            begin(r, k, index \o NewVectors(r, k), meta \o NewRows(r, k))
      BY <2>2 DEF BeginAppend
    <3>2. /\ run'[r].pc = "index" /\ run'[r].kept = k
          /\ run'[r].kb.index = index \o NewVectors(r, k)
          /\ \A q \in Runs \ {r} : run'[q] = run[q]
      BY <3>1, BeginMoves DEF TypeInv
    <3>3. /\ run[r].pc = "analysed" /\ lock = NoRun
          /\ UNCHANGED <<index, crashes, torn>>
      BY <2>2, <3>1 DEF BeginAppend, begin
    <3>4. \A q \in Runs : run[q].pc # "index"
      BY <3>3, KbAssumption DEF KbAssumption, FilesInv, Locked, Writing
    <3>5. Unlearned'
      BY <3>2 DEF OnceInv, Unlearned, Loading
    <3>6. SUFFICES ASSUME crashes = 0, ~torn
                   PROVE  /\ NoTwice(index)'
                          /\ \A q \in Runs : run'[q].pc # "index" => HasKept(index, q)'
                          /\ \A q \in Runs : run'[q].pc = "index" =>
                               HasNone(index, q)' /\ Complete(run[q].kb.index)'
      BY <3>3, <3>5 DEF OnceInv
    <3>7. /\ NoTwice(index)
          /\ \A q \in Runs : HasKept(index, q)
      BY <3>4, <3>6 DEF OnceInv
    <3>8. run[r].kept = << >> /\ ToSet(run[r].kept) = {}
      <4>1. run[r].kept = << >>
        BY <3>3 DEF OnceInv, Unlearned
      <4> QED
        BY <4>1 DEF ToSet
    <3>9. HasNone(index, r)
      BY <3>7, <3>8 DEF HasKept, HasNone
    <3>10. PICK vs : vs = index \o NewVectors(r, k)
      OBVIOUS
    <3>11. /\ NoTwice(vs)
           /\ \A q \in Runs, n \in 1 .. MaxFindings :
                Has(vs, q, n) <=> (Has(index, q, n) \/ (q = r /\ n \in ToSet(k)))
      BY <1>0, <3>7, <3>9, <3>10, AppendedOnce
    <3>12. \A q \in Runs \ {r} : HasKept(index, q)' /\ run'[q].pc # "index"
      BY <3>2, <3>3, <3>4, <3>7 DEF HasKept, Has
    <3>13. NoTwice(index)' /\ HasNone(index, r)'
      BY <3>3, <3>7, <3>9 DEF NoTwice, HasNone, Has
    <3>14. ASSUME NEW q \in Runs, NEW n \in 1 .. MaxFindings
           PROVE  Has(vs, q, n) <=> n \in ToSet(run'[q].kept)
      <4>1. Has(index, q, n) <=> n \in ToSet(run[q].kept)
        BY <3>7 DEF HasKept
      <4>2. CASE q = r
        BY <3>2, <3>8, <3>11, <4>1, <4>2
      <4>3. CASE q # r
        BY <3>2, <3>11, <4>1, <4>3
      <4> QED
        BY <4>2, <4>3
    <3>15. run'[r].kb.index = vs
      BY <3>2, <3>10
    <3>16. Complete(run[r].kb.index)'
      BY <3>11, <3>14, <3>15 DEF Complete, HasKept, Has, NoTwice
    <3> QED
      BY <3>2, <3>12, <3>13, <3>16
  <2>3. CASE ReplaceIndex(r)
    <3>1. /\ run[r].pc = "index" /\ run'[r].pc = "sidecar" /\ run'[r].kept = run[r].kept
          /\ \A q \in Runs \ {r} : run'[q] = run[q]
          /\ index' = run[r].kb.index /\ UNCHANGED <<crashes, torn>>
      BY <1>0, <2>3 DEF ReplaceIndex, goto, Proc
    <3>2. \A q \in Runs : run'[q].pc # "index" /\ run'[q].kept = run[q].kept
      BY <3>1 DEF FilesInv, Locked, Writing
    <3>3. Unlearned'
      BY <3>1 DEF OnceInv, Unlearned, Loading
    <3>4. ASSUME crashes = 0, ~torn
          PROVE  NoTwice(index)' /\ \A q \in Runs : HasKept(index, q)'
      <4>1. Complete(run[r].kb.index)
        BY <3>1, <3>4 DEF OnceInv
      <4>2. PICK vs : vs = run[r].kb.index
        OBVIOUS
      <4>3. NoTwice(vs) /\ \A q \in Runs : HasKept(vs, q)
        BY <4>1, <4>2 DEF Complete
      <4>4. index' = vs
        BY <3>1, <4>2
      <4> QED
        BY <3>2, <4>3, <4>4 DEF NoTwice, HasKept, Has
    <3> QED
      BY <3>1, <3>2, <3>3, <3>4 DEF OnceInv
  <2>4. CASE WriteFails(r)
    <3>1. /\ run'[r].pc = "learned" /\ run'[r].kept = << >>
          /\ \A q \in Runs \ {r} : run'[q] = run[q]
          /\ UNCHANGED <<index, crashes>>
          /\ ~torn' => ~torn /\ run[r].pc = "index"
      BY <1>0, <2>4 DEF WriteFails, Fresh
    <3>2. Unlearned'
      BY <3>1 DEF OnceInv, Unlearned, Loading
    <3>3. ASSUME crashes = 0, ~torn'
          PROVE  /\ NoTwice(index)'
                 /\ \A q \in Runs : run'[q].pc # "index" /\ HasKept(index, q)'
      <4>1. run[r].pc = "index" /\ ~torn
        BY <3>1, <3>3
      <4>2. \A q \in Runs \ {r} : run[q].pc # "index"
        BY <4>1 DEF FilesInv, Locked, Writing
      <4>3. /\ NoTwice(index) /\ HasNone(index, r)
            /\ \A q \in Runs \ {r} : HasKept(index, q)
        BY <3>3, <4>1, <4>2 DEF OnceInv
      <4>4. ToSet(run'[r].kept) = {}
        BY <3>1 DEF ToSet
      <4>5. HasKept(index, r)'
        BY <3>1, <4>3, <4>4 DEF HasKept, HasNone, Has
      <4>6. \A q \in Runs \ {r} : HasKept(index, q)'
        BY <3>1, <4>3 DEF HasKept, Has
      <4>7. NoTwice(index)'
        BY <3>1, <4>3 DEF NoTwice
      <4> QED
        BY <3>1, <4>2, <4>5, <4>6, <4>7
    <3> QED
      BY <3>1, <3>2, <3>3 DEF OnceInv
  <2> QED
    BY <1>3, <2>1, <2>2, <2>3, <2>4 DEF Work
<1> QED
  BY <1>1, <1>2, <1>3 DEF Next

(* As long as the process lives and no write fails, a run past its append  *)
(* is in the index with each finding it could embed once and with no       *)
(* other, for any number of runs of the user (append_clauses, _lock_for).  *)
THEOREM LearnedOnceHolds == Spec => []LearnedOnce
<1> DEFINE Inv == TypeInv /\ FilesInv /\ OnceInv
<1>1. Init => Inv
  BY TypeInit, FilesInit, OnceInit
<1>2. Inv /\ [Next]_vars => Inv'
  BY TypeStep, FilesStep, OnceStep
<1>3. Inv => LearnedOnce
  <2> SUFFICES ASSUME OnceInv, crashes = 0, ~torn, NEW r \in Runs,
                      run[r].pc \in {"pop", "learned", "done"}, NEW n \in 1 .. MaxFindings
               PROVE  Times([run |-> r, no |-> n]) = IF n \in ToSet(run[r].kept) THEN 1 ELSE 0
    BY DEF LearnedOnce
  <2>1. NoTwice(index) /\ (Has(index, r, n) <=> n \in ToSet(run[r].kept))
    BY DEF OnceInv, HasKept
  <2>2. PICK row : row = [run |-> r, no |-> n]
    OBVIOUS
  <2>3. PICK S : S = {i \in DOMAIN index : index[i].row = row}
    OBVIOUS
  <2>4. Times(row) = Cardinality(S)
    BY <2>3 DEF Times
  <2>5. CASE Has(index, r, n)
    <3>1. PICK i \in DOMAIN index : index[i].row = row
      BY <2>2, <2>5 DEF Has
    <3>2. S = {i}
      BY <2>1, <2>3, <3>1 DEF NoTwice
    <3>3. Cardinality(S) = 1
      BY <3>2, FS_Singleton
    <3> QED
      BY <2>1, <2>2, <2>4, <2>5, <3>3
  <2>6. CASE ~Has(index, r, n)
    <3>1. S = {}
      BY <2>2, <2>3, <2>6 DEF Has
    <3>2. Cardinality(S) = 0
      BY <3>1, FS_EmptySet
    <3> QED
      BY <2>1, <2>2, <2>4, <2>6, <3>2
  <2> QED
    BY <2>5, <2>6
<1> QED
  BY <1>1, <1>2, <1>3, PTL DEF Spec
=============================================================================
