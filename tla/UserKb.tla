------------------------------ MODULE UserKb ------------------------------
(***************************************************************************)
(* The learned clauses of one user (rag/user_kb.py, written by             *)
(* _maybe_write_user_kb in runner/core.py, read by the CRAG node).         *)
(*                                                                         *)
(* A FAISS index and a sidecar with one row per vector lie in the user's   *)
(* own directory, beside a marker that names the embedding model.  A run   *)
(* of the pipeline loads the pair, without the user's lock, through a      *)
(* cache of the process; at its end it appends its validated findings      *)
(* under the lock: the index is replaced first, the sidecar second, then   *)
(* the marker is written and the cache entry dropped.  An append that      *)
(* fails is given up; a run cut short by a crash is run again, maybe by a  *)
(* process that embeds with another model.                                 *)
(***************************************************************************)
EXTENDS Naturals, SequencesExt

CONSTANTS
  Runs,         (* the runs of this user, each on a thread of its own        *)
  NoRun,        (* nobody: the lock is free                                  *)
  MaxFindings,  (* validated findings of a run                               *)
  Models,       (* embedding models a process may be configured with         *)
  Wide,         (* those whose vectors have another dimension than the rest  *)
  NoModel,      (* there is no marker file                                   *)
  MaxCrashes, MaxFaults   (* bounds: ends of the process, failing writes     *)

ASSUME KbAssumption ==
  /\ NoRun \notin Runs /\ NoModel \notin Models /\ Wide \subseteq Models
  /\ MaxFindings \in Nat /\ MaxCrashes \in Nat /\ MaxFaults \in Nat

(* A clause a run has learned is its sidecar row; its vector also depends  *)
(* on the model.  An absent file is the empty sequence: neither file is    *)
(* ever written empty.                                                     *)
Row    == [run : Runs, no : 1 .. MaxFindings]
Vector == [row : Row, model : Models]
Pair   == [index : Seq(Vector), meta : Seq(Row)]

(* The findings of a run that could be embedded, in their order.           *)
Batch == {s \in UNION {[1 .. n -> 1 .. MaxFindings] : n \in 1 .. MaxFindings} :
            \A i, j \in DOMAIN s : i < j => s[i] < s[j]}

NoPair         == [index |-> << >>, meta |-> << >>]
RowsOf(vs)     == [i \in DOMAIN vs |-> vs[i].row]
SameDim(m, n)  == m \in Wide <=> n \in Wide

VARIABLES
  index, meta, marker,   (* the three files                                  *)
  model,                 (* the model the process is configured with         *)
  cache,                 (* _USER_KB_CACHE, the user's entry                 *)
  lock,                  (* _lock_for(slug): the run that holds it           *)
  run,                   (* each run: next step, the pair in hand, the       *)
                         (* findings it could embed                          *)
  crashes, faults,
  torn                   (* history: an append was cut short after it had    *)
                         (* replaced the index                               *)

files == <<index, meta, marker>>
vars  == <<index, meta, marker, model, cache, lock, run, crashes, faults, torn>>

Loading == {"load", "rows", "cache"}
Writing == {"index", "sidecar", "marker", "pop"}
Steps   == Loading \cup {"analysed"} \cup Writing \cup {"learned", "done"}

TypeOK ==
  /\ index \in Seq(Vector) /\ meta \in Seq(Row)
  /\ marker \in Models \cup {NoModel} /\ model \in Models
  /\ cache \in Pair /\ Len(cache.index) = Len(cache.meta)
  /\ lock \in Runs \cup {NoRun}
  /\ run \in [Runs -> [pc : Steps, kb : Pair, kept : Batch \cup {<< >>}]]
  /\ crashes \in 0 .. MaxCrashes /\ faults \in 0 .. MaxFaults /\ torn \in BOOLEAN

Fresh == [pc |-> "load", kb |-> NoPair, kept |-> << >>]

Init ==
  /\ index = << >> /\ meta = << >> /\ marker = NoModel
  /\ model \in Models
  /\ cache = NoPair /\ lock = NoRun
  /\ run = [r \in Runs |-> Fresh]
  /\ crashes = 0 /\ faults = 0 /\ torn = FALSE

goto(r, pc, kb) == run' = [run EXCEPT ![r].pc = pc, ![r].kb = kb]

-----------------------------------------------------------------------------
(* load_user_kb, called once by the CRAG node; without the lock            *)

(* The cached pair, or none as long as a file is missing or cannot be      *)
(* read, or the index is read.                                             *)
Load(r) ==
  /\ run[r].pc = "load"
  /\ \/ cache # NoPair /\ goto(r, "analysed", cache)
     \/ cache = NoPair /\ goto(r, "analysed", NoPair)
     \/ /\ cache = NoPair /\ index # << >> /\ meta # << >>
        /\ goto(r, "rows", [index |-> index, meta |-> << >>])
  /\ UNCHANGED <<files, model, cache, lock, crashes, faults, torn>>

(* Mutant: more rows than vectors are let through.                         *)
ReadMetaLoosely(r) ==
  /\ run[r].pc = "rows"
  /\ IF Len(meta) >= Len(run[r].kb.index)
     THEN goto(r, "cache", [run[r].kb EXCEPT !.meta = meta])
     ELSE goto(r, "analysed", NoPair)
  /\ UNCHANGED <<files, model, cache, lock, crashes, faults, torn>>

(* The sidecar is read; a pair of different lengths, or an unreadable      *)
(* sidecar, counts as no knowledge base.                                   *)
ReadMeta(r) ==
  /\ run[r].pc = "rows"
  /\ \/ /\ Len(meta) = Len(run[r].kb.index)
        /\ goto(r, "cache", [run[r].kb EXCEPT !.meta = meta])
     \/ goto(r, "analysed", NoPair)
  /\ UNCHANGED <<files, model, cache, lock, crashes, faults, torn>>

StoreInCache(r) ==
  /\ run[r].pc = "cache"
  /\ cache' = run[r].kb
  /\ goto(r, "analysed", run[r].kb)
  /\ UNCHANGED <<files, model, lock, crashes, faults, torn>>

-----------------------------------------------------------------------------
(* append_clauses, at the end of run_pipeline; under the lock              *)

(* No finding can be embedded, their dimension does not fit, or the files  *)
(* cannot be read.  Stands also for a run that has no findings.            *)
AppendNothing(r) ==
  /\ run[r].pc = "analysed" /\ lock = NoRun
  /\ goto(r, "learned", NoPair)
  /\ UNCHANGED <<files, model, cache, lock, crashes, faults, torn>>

NewRows(r, kept)    == [i \in DOMAIN kept |-> [run |-> r, no |-> kept[i]]]
NewVectors(r, kept) == [i \in DOMAIN kept |->
                          [row |-> NewRows(r, kept)[i], model |-> model]]

(* The lock is taken, the findings are embedded, the files are read and    *)
(* the new contents put together.  A finding that cannot be embedded gives *)
(* neither a vector nor a row.                                             *)
begin(r, kept, vs, rows) ==
  /\ run[r].pc = "analysed"
  /\ lock' = r
  /\ run' = [run EXCEPT ![r] = [pc   |-> "index",
                                kb   |-> [index |-> vs, meta |-> rows],
                                kept |-> kept]]
  /\ UNCHANGED <<files, model, cache, crashes, faults, torn>>

(* Mutant: a finding that cannot be embedded still gets its row.           *)
BeginAppendAllRows(r) ==
  /\ lock = NoRun
  /\ index # << >> => SameDim(index[1].model, model)
  /\ \E kept \in Batch :
       begin(r, kept, index \o NewVectors(r, kept), meta \o NewRows(r, [n \in 1 .. MaxFindings |-> n]))

(* Mutant: nobody waits for the lock.                                      *)
BeginAppendUnlocked(r) ==
  /\ index # << >> => SameDim(index[1].model, model)
  /\ \E kept \in Batch :
       begin(r, kept, index \o NewVectors(r, kept), meta \o NewRows(r, kept))

BeginAppend(r) ==
  /\ lock = NoRun
  /\ index # << >> => SameDim(index[1].model, model)
  /\ \E kept \in Batch :
       begin(r, kept, index \o NewVectors(r, kept), meta \o NewRows(r, kept))

(* Mutant: the sidecar is replaced before the index.                       *)
ReplaceSidecarFirst(r) ==
  /\ run[r].pc = "index"
  /\ meta' = run[r].kb.meta
  /\ goto(r, "sidecar", run[r].kb)
  /\ UNCHANGED <<index, marker, model, cache, lock, crashes, faults, torn>>

(* faiss.write_index to a temporary file, os.replace.                      *)
ReplaceIndex(r) ==
  /\ run[r].pc = "index"
  /\ index' = run[r].kb.index
  /\ goto(r, "sidecar", run[r].kb)
  /\ UNCHANGED <<meta, marker, model, cache, lock, crashes, faults, torn>>

(* The rows to a temporary file, os.replace.                               *)
ReplaceSidecar(r) ==
  /\ run[r].pc = "sidecar"
  /\ meta' = run[r].kb.meta
  /\ goto(r, "marker", NoPair)
  /\ UNCHANGED <<index, marker, model, cache, lock, crashes, faults, torn>>

(* The marker is written only when there is none.                          *)
WriteMarker(r) ==
  /\ run[r].pc = "marker"
  /\ marker' = IF marker = NoModel THEN model ELSE marker
  /\ goto(r, "pop", NoPair)
  /\ UNCHANGED <<index, meta, model, cache, lock, crashes, faults, torn>>

(* The cache entry is dropped and the lock released.                       *)
PopCache(r) ==
  /\ run[r].pc = "pop"
  /\ cache' = NoPair /\ lock' = NoRun
  /\ goto(r, "learned", NoPair)
  /\ UNCHANGED <<files, model, crashes, faults, torn>>

(* Mutant: a write that fails leaves the lock taken.                       *)
WriteFailsLocked(r) ==
  /\ run[r].pc \in Writing \ {"pop"} /\ faults < MaxFaults
  /\ faults' = faults + 1
  /\ torn' = (torn \/ run[r].pc # "index")
  /\ goto(r, "learned", NoPair)
  /\ UNCHANGED <<files, model, cache, lock, crashes>>

(* A write raises: `with` releases the lock, _maybe_write_user_kb swallows *)
(* the exception; the cache entry stays.                                   *)
WriteFails(r) ==
  /\ run[r].pc \in Writing \ {"pop"} /\ faults < MaxFaults
  /\ faults' = faults + 1
  /\ torn' = (torn \/ run[r].pc # "index")
  /\ lock' = NoRun
  /\ run' = [run EXCEPT ![r] = [Fresh EXCEPT !.pc = "learned"]]
  /\ UNCHANGED <<files, model, cache, crashes>>

-----------------------------------------------------------------------------
(* The run around them *)

(* mark_terminal: the run will not be repeated.                            *)
Settle(r) ==
  /\ run[r].pc = "learned"
  /\ run' = [run EXCEPT ![r].pc = "done"]
  /\ UNCHANGED <<files, model, cache, lock, crashes, faults, torn>>

(* The process ends; recovery runs the unsettled runs again, from their    *)
(* start or, if a checkpoint after the CRAG node is left, from there.      *)
Crash ==
  /\ crashes < MaxCrashes
  /\ crashes' = crashes + 1
  /\ model' \in Models
  /\ \E resumed \in SUBSET {r \in Runs : run[r].pc \notin Loading \cup {"done"}} :
       run' = [r \in Runs |-> IF run[r].pc = "done" THEN run[r]
                              ELSE [Fresh EXCEPT !.pc = IF r \in resumed THEN "analysed"
                                                        ELSE "load"]]
  /\ torn' = (torn \/ \E r \in Runs : run[r].pc \in {"sidecar", "marker"})
  /\ cache' = NoPair /\ lock' = NoRun
  /\ UNCHANGED <<files, faults>>

Work(r) ==
  \/ Load(r) \/ ReadMeta(r) \/ StoreInCache(r)
  \/ AppendNothing(r) \/ BeginAppend(r)
  \/ ReplaceIndex(r) \/ ReplaceSidecar(r) \/ WriteMarker(r) \/ PopCache(r)
  \/ Settle(r)

Next == Crash \/ \E r \in Runs : Work(r) \/ WriteFails(r)

Spec     == Init /\ [][Next]_vars
FairSpec == Spec /\ \A r \in Runs : WF_vars(Work(r))

-----------------------------------------------------------------------------
(* Properties *)

(* Whenever nobody is writing, and no append was ever cut short, each row  *)
(* of the sidecar belongs to the vector at its place: two runs of a user   *)
(* that end together never mix their batches, whatever was not embedded.   *)
InStep == lock = NoRun /\ ~torn => RowsOf(index) = meta

(* A pair that a load hands to the search has for each vector its own row, *)
(* though it was read without the lock in the middle of other appends, and *)
(* so has the cached pair, however old it is.                              *)
InHand(p) == RowsOf(p.index) = p.meta /\ IsPrefix(p.index, index)
HandlesInStep ==
  ~torn => /\ InHand(cache)
           /\ \A r \in Runs : run[r].pc \in {"cache", "analysed"} => InHand(run[r].kb)

Times(row) == Cardinality({i \in DOMAIN index : index[i].row = row})

(* As long as the process lives and no write fails, a run that is past its *)
(* append is in the index with each finding it could embed exactly once,   *)
(* and with no other: no append of the user's other runs overwrites it.    *)
LearnedOnce ==
  crashes = 0 /\ ~torn =>
    \A r \in Runs : run[r].pc \in {"pop", "learned", "done"} =>
      \A n \in 1 .. MaxFindings :
        Times([run |-> r, no |-> n]) = IF n \in ToSet(run[r].kept) THEN 1 ELSE 0

(* Even after crashes and failing writes the sidecar has no more rows than *)
(* the index has vectors, at every moment.                                 *)
RowsNeverLead == Len(meta) <= Len(index)

(* Nothing learned is ever lost again: both files only grow at their ends, *)
(* over crashes, failing writes and changes of the model.                  *)
OnlyGrows == [][IsPrefix(index, index') /\ IsPrefix(meta, meta')]_vars

(* No run waits for ever on the user's lock: each one settles.             *)
EveryRunSettles == \A r \in Runs : <>(run[r].pc = "done")

(* What user_kb.py:164 says: written to temporary files and replaced, the  *)
(* number of vectors and the sidecar never differ after a crash.           *)
NeverDesynced == lock = NoRun => Len(meta) = Len(index)
=============================================================================
