--------------------------- MODULE ClauseSplitting ---------------------------
(***************************************************************************)
(* From a document to its clauses: the ingest node and the clause splitter *)
(* with its call of the model (ingest_agent.py, clause_splitter_agent.py,  *)
(* splitters/).                                                            *)
(*                                                                         *)
(* The regex pre-pass makes segments.  The model answers with groups of    *)
(* segment numbers (or, in the older mode, with texts of its own); each    *)
(* entry of its answer is one step.  Whatever it answers, or if it does    *)
(* not, the node goes on.                                                  *)
(***************************************************************************)
EXTENDS SourceText

CONSTANTS
  Texts,       (* documents: text, cuts and page2 (see PageSpans)            *)
  Modes,       (* emit: CLAUSE_SPLITTER_LLM_EMIT_TEXT; tolerant: ..._TOLERANT*)
               (* _GROUPING; sublist: ..._SPLIT_SUBLIST_MARKERS; map: the    *)
               (* text has a map to its pages                                *)
  MinLength,   (* MIN_CLAUSE_LENGTH                                          *)
  MaxClauses,  (* MAX_CLAUSES_LIMIT                                          *)
  LlmMax,      (* CLAUSE_SPLITTER_LLM_MAX_CLAUSES                            *)
  MaxEmitted   (* bound: texts in an answer                                  *)

ASSUME SplittingAssumption ==
  /\ MinLength \in Nat /\ MaxClauses \in Nat \ {0} /\ LlmMax \in Nat
  /\ MaxEmitted \in Nat /\ \A d \in Texts : d.text \in Seq(Letters) /\ d.cuts \subseteq Nat
  /\ Modes \subseteq [emit : BOOLEAN, tolerant : BOOLEAN, sublist : BOOLEAN, map : BOOLEAN]

VARIABLES
  doc, mode,
  at,       (* ingest, split, refine, build, done                            *)
  text,     (* extracted_text                                                *)
  spans,    (* page_spans                                                    *)
  segs,     (* the segments, as ranges of the text                           *)
  claimed,  (* tolerant: the segments in some group                          *)
  flat,     (* strict: the numbers of the answer so far, in its order        *)
  groups,   (* what becomes a clause: the segments it joins, the size of a   *)
            (* text of the model's own, its type                             *)
  clauses   (* the clauses of the state, with the spans they are found at    *)

vars == <<doc, mode, at, text, spans, segs, claimed, flat, groups, clauses>>

(* The parser that makes the map ends every line; the others only separate *)
(* them (_extract_text_with_spans, parse_docx).                            *)
Ended(t) == t # << >> => t[Len(t)] = "/"

Init ==
  /\ doc \in Texts /\ mode \in Modes /\ at = "ingest"
  /\ mode.map => Ended(doc.text)
  /\ text = << >> /\ spans = {} /\ segs = << >>
  /\ claimed = {} /\ flat = << >> /\ groups = << >> /\ clauses = << >>

Group(idx, size, type) == [idx |-> idx, size |-> size, type |-> type]
Alone(n) == [k \in 1 .. n |-> Group({k}, 0, "none")]

-----------------------------------------------------------------------------
(* Up to the segments *)

(* A format that is not accepted, or a document that cannot be read or     *)
(* parsed in time: ingest_error, and no clauses.                           *)
Refuse ==
  /\ at = "ingest" /\ at' = "done"
  /\ UNCHANGED <<doc, mode, text, spans, segs, claimed, flat, groups, clauses>>

Ingest ==
  /\ at = "ingest" /\ at' = "split"
  /\ text' = Cleaned(doc.text)
  /\ spans' = IF mode.map
              THEN Remap(PageSpans(doc.text, doc.cuts, doc.page2), Deletions(doc.text))
              ELSE {}
  /\ UNCHANGED <<doc, mode, segs, claimed, flat, groups, clauses>>

Empty ==
  /\ at = "split" /\ text = << >> /\ at' = "done"
  /\ UNCHANGED <<doc, mode, text, spans, segs, claimed, flat, groups, clauses>>

(* A short text is one segment.                                            *)
Short ==
  /\ at = "split" /\ text # << >> /\ Len(text) < MinLength
  /\ segs' = << <<1, Len(text) + 1>> >> /\ at' = "refine"
  /\ UNCHANGED <<doc, mode, text, spans, claimed, flat, groups, clauses>>

FirstOf(s, n) == IF Len(s) > n THEN SubSeq(s, 1, n) ELSE s

Split ==
  /\ at = "split" /\ text # << >> /\ Len(text) >= MinLength
  /\ segs' = FirstOf(Segments(text, mode.sublist), MaxClauses)
  /\ \/ Len(segs') <= LlmMax /\ at' = "refine" /\ UNCHANGED groups
     \/ Len(segs') > LlmMax /\ at' = "build" /\ groups' = Alone(Len(segs'))
  /\ UNCHANGED <<doc, mode, text, spans, claimed, flat, clauses>>

-----------------------------------------------------------------------------
(* refine_with_llm *)

N == Len(segs)

(* The call fails or takes too long, or the answer is of no use.           *)
Fallback ==
  /\ at = "refine" /\ at' = "build"
  /\ groups' = Alone(N) /\ claimed' = {} /\ flat' = << >>
  /\ UNCHANGED <<doc, mode, text, spans, segs, clauses>>

Types == {"typed", "none"}

(* Mutant: a segment may be claimed again.                                 *)
ClaimAgain ==
  /\ at = "refine" /\ ~mode.emit /\ mode.tolerant
  /\ \E numbers \in SUBSET (0 .. N + 1), type \in Types :
       LET keep == numbers \cap 1 .. N
       IN  /\ keep # {} /\ Len(groups) < N
           /\ claimed' = claimed \cup keep
           /\ groups' = Append(groups, Group(keep, 0, type))
  /\ UNCHANGED <<doc, mode, at, text, spans, segs, flat, clauses>>

(* Tolerant: an entry keeps the segments that exist and that no earlier    *)
(* entry claimed; what else it names is ignored.                           *)
Claim ==
  /\ at = "refine" /\ ~mode.emit /\ mode.tolerant
  /\ \E numbers \in SUBSET (0 .. N + 1), type \in Types :
       LET keep == (numbers \cap 1 .. N) \ claimed
       IN  /\ keep # {}
           /\ claimed' = claimed \cup keep
           /\ groups' = Append(groups, Group(keep, 0, type))
  /\ UNCHANGED <<doc, mode, at, text, spans, segs, flat, clauses>>

Before(g, h) == \E i \in g.idx : \A j \in h.idx : i < j

(* The segments no entry claimed stand alone; document order is that of    *)
(* the first segments.                                                     *)
Complete ==
  /\ at = "refine" /\ ~mode.emit /\ mode.tolerant /\ at' = "build"
  /\ LET all == {groups[k] : k \in DOMAIN groups}
                  \cup {Group({i}, 0, "none") : i \in 1 .. N \ claimed}
     IN  /\ all # {}
         /\ \E s \in [1 .. Cardinality(all) -> all] :
              /\ \A j, k \in DOMAIN s : j < k => Before(s[j], s[k])
              /\ groups' = s
  /\ claimed' = {}
  /\ UNCHANGED <<doc, mode, text, spans, segs, flat, clauses>>

(* Strict: the numbers are taken as they come (0: none of 1 .. N).  Longer *)
(* answers end like others that do not fit.                                *)
Entry ==
  /\ at = "refine" /\ ~mode.emit /\ ~mode.tolerant
  /\ \E len \in 1 .. N - Len(flat), type \in Types : \E numbers \in [1 .. len -> 0 .. N] :
       /\ flat' = flat \o numbers
       /\ groups' = Append(groups, Group({numbers[k] : k \in 1 .. len}, 0, type))
  /\ UNCHANGED <<doc, mode, at, text, spans, segs, claimed, clauses>>

Fits == N > 0 /\ flat = [k \in 1 .. N |-> k]

Partition ==
  /\ at = "refine" /\ ~mode.emit /\ ~mode.tolerant /\ Fits
  /\ at' = "build" /\ flat' = << >>
  /\ UNCHANGED <<doc, mode, text, spans, segs, claimed, groups, clauses>>

(* The older mode: the model writes the clauses (bound: of sizes 1 and 2).  *)
(* Their type is of no matter here.                                        *)
Emit ==
  /\ at = "refine" /\ mode.emit /\ Len(groups) < MaxEmitted
  /\ \E size \in 1 .. 2 : groups' = Append(groups, Group({}, size, "any"))
  /\ UNCHANGED <<doc, mode, at, text, spans, segs, claimed, flat, clauses>>

sizes(gs) == SumOf(DOMAIN gs, LAMBDA k : gs[k].size)
given == SumOf(DOMAIN segs, LAMBDA k : Cardinality(Ink(text, segs[k])))

Enough == 2 * sizes(groups) >= given

Emitted ==
  /\ at = "refine" /\ mode.emit /\ groups # << >> /\ Enough /\ at' = "build"
  /\ UNCHANGED <<doc, mode, text, spans, segs, claimed, flat, groups, clauses>>

-----------------------------------------------------------------------------
(* The end of clause_splitter_agent and _build_return.  The clauses of a   *)
(* short text are not limited. *)

(* _build_grouped_clause: from the first start to the last end of the      *)
(* group's segments; a text of the model's own has no range.               *)
RangeOf(g) ==
  LET lo(i) == \A j \in g.idx : segs[i][1] <= segs[j][1]
      hi(i) == \A j \in g.idx : segs[j][2] <= segs[i][2]
  IN  <<segs[CHOOSE i \in g.idx : lo(i)][1], segs[CHOOSE i \in g.idx : hi(i)][2]>>

(* infer_clause_type, for a clause that has no type.                       *)
TypeOf(g) ==
  IF g.type = "none" /\ \E i \in g.idx : \E q \in Ink(text, segs[i]) : text[q] = "k"
  THEN "inferred" ELSE g.type

Clause(g) ==
  [idx |-> g.idx, size |-> g.size, type |-> TypeOf(g),
   locator |-> IF g.idx = {} THEN {}
               ELSE {<<s.id, s.page>> : s \in Located(RangeOf(g), spans)}]

Build ==
  /\ at = "build" /\ at' = "done"
  /\ LET refined == IF Len(text) < MinLength THEN groups ELSE FirstOf(groups, MaxClauses)
     IN  clauses' = [k \in DOMAIN refined |-> Clause(refined[k])]
  /\ groups' = << >>
  /\ UNCHANGED <<doc, mode, text, spans, segs, claimed, flat>>

Next ==
  \/ Refuse \/ Ingest \/ Empty \/ Short \/ Split \/ Fallback
  \/ Claim \/ Complete \/ Entry \/ Partition \/ Emit \/ Emitted \/ Build

Spec == Init /\ [][Next]_vars

-----------------------------------------------------------------------------
(* Properties *)

Grouped == at = "done" /\ clauses # << >> /\ \E k \in DOMAIN clauses : clauses[k].idx # {}

(* Whatever the model answers, no text of a segment is lost or doubled:    *)
(* every segment is in one clause, the clauses are in the order of their   *)
(* first segments, and the segments hold all the text but what is before   *)
(* the first marker or beyond the limit (047's index coverage;             *)
(* _parse_grouping_response, split_by_regex).  The strict mode joins       *)
(* neighbours only: the clauses one after another are the segments one     *)
(* after another (029 AC-12, _parse_grouping_strict).                      *)
SegmentsOnce ==
  Grouped =>
    /\ \A i \in 1 .. N : Cardinality({k \in DOMAIN clauses : i \in clauses[k].idx}) = 1
    /\ \A j, k \in DOMAIN clauses : j < k =>
         /\ Before(clauses[j], clauses[k])
         /\ ~mode.tolerant => \A a \in clauses[j].idx, b \in clauses[k].idx : a < b
    /\ \A q \in Ink(text, <<1, Len(text) + 1>>) :
         \/ Cardinality({i \in 1 .. N : q \in Ink(text, segs[i])}) = 1
         \/ q < segs[1][1] /\ \E p \in LineStarts(text) : p > q /\ Marker(text, p, mode.sublist)
         \/ q >= segs[N][2] /\ N = MaxClauses

(* The cleaned text is the document without the ranges that the cleaner    *)
(* reports, which its map to the pages relies on                           *)
(* (strip_document_chrome_tracked).  Without a map nobody reads the ranges,*)
(* and one line break may be in none of them: where the last lines are     *)
(* dropped and the text does not end with a break.                         *)
CleanedIsCut ==
  at = "split" /\ mode.map =>
    LET kept == Sorted({q \in 1 .. Len(doc.text) :
                          \A d \in Deletions(doc.text) : ~(d[1] <= q /\ q < d[2])})
    IN  text = [k \in DOMAIN kept |-> doc.text[kept[k]]]

held(q) == CHOOSE s \in PageSpans(doc.text, doc.cuts, doc.page2) :
             s.at[1] <= Kept(doc.text)[q] /\ Kept(doc.text)[q] < s.at[2]
glued == \E p \in LineStarts(doc.text) : Footers(doc.text, p) # {} /\ ~Dropped(doc.text, p)

(* No span of a document begins inside a footer.                           *)
FootersWhole(d) ==
  \A p \in LineStarts(d.text) :
    \A q \in Footers(d.text, p), c \in d.cuts : ~(q < c /\ c < q + 3)

(* A clause is located at every place its text was taken from and, unless  *)
(* a footer was cut out of the middle of a line or the clause joins        *)
(* segments that are not neighbours, nowhere else (055 AC-6; remap_spans,  *)
(* locator_from_range, _build_grouped_clause).  That is so of documents in *)
(* which no span begins inside a footer: such a span is moved by the       *)
(* ranges that end before it, without the part of the footer that stands   *)
(* before it, and lands too far to the right.                              *)
LocatorsCover ==
  Grouped /\ mode.map /\ FootersWhole(doc) =>
    \A k \in DOMAIN clauses :
      LET c == clauses[k]
          own == {<<held(q).id, held(q).page>> : q \in UNION {Ink(text, segs[i]) : i \in c.idx}}
      IN  /\ own \subseteq c.locator
          /\ ~glued /\ (\A i, j \in c.idx, m \in 1 .. N : i < m /\ m < j => m \in c.idx)
               => c.locator = own
=============================================================================
