----------------------------- MODULE SourceText -----------------------------
(***************************************************************************)
(* The text of a document on its way into clauses: cleaning and the map    *)
(* back to the page (nodes/ingest/text_cleaner.py, pdf_parser.py), the     *)
(* segments of the regex pre-pass (regex_splitter.py), and the places a    *)
(* range of the text stands for (clause_splitter_agent.py).                *)
(*                                                                         *)
(* A text is a sequence of letters: "/" ends a line; "m" at the start of a *)
(* line is a clause marker, "s" one of a sub-list; "9" alone on a line is  *)
(* a page number; "f" and two "g" are a page footer (three letters, so     *)
(* that a range may begin well inside one); "k" is a phrase that tells a   *)
(* clause's type; "w" is anything else.  A range is a pair of positions,   *)
(* its end excluded; the code counts from 0.                               *)
(***************************************************************************)
EXTENDS Naturals, Sequences, FiniteSets

Letters == {"/", "m", "s", "9", "f", "g", "k", "w"}

Sorted(S) == [k \in 1 .. Cardinality(S) |->
                CHOOSE x \in S : Cardinality({y \in S : y <= x}) = k]
SumOf(S, f(_)) ==
  LET all == UNION {{<<x, n>> : n \in 1 .. f(x)} : x \in S} IN Cardinality(all)

Meet(a, b) == a[1] < b[2] /\ b[1] < a[2]
Within(a, b) == b[1] <= a[1] /\ a[2] <= b[2]

-----------------------------------------------------------------------------
(* Lines *)

LineStarts(t) == {p \in 1 .. Len(t) + 1 : p = 1 \/ t[p - 1] = "/"}
LineEnd(t, p) == CHOOSE e \in p .. Len(t) + 1 :
                   (e = Len(t) + 1 \/ t[e] = "/") /\ \A q \in p .. e - 1 : t[q] # "/"
Line(t, p)  == <<p, LineEnd(t, p)>>
Blank(t, p) == LineEnd(t, p) = p
(* Letters of a range that are not white space *)
Ink(t, r) == {q \in r[1] .. r[2] - 1 : t[q] # "/"}

-----------------------------------------------------------------------------
(* strip_document_chrome_tracked and remap_spans *)

Footers(t, p) ==
  {q \in p .. LineEnd(t, p) - 3 : t[q] = "f" /\ t[q + 1] = "g" /\ t[q + 2] = "g"}

NextTo(t, p, q) == q = LineEnd(t, p) + 1 \/ p = LineEnd(t, q) + 1

Dropped(t, p) ==
  \/ Footers(t, p) # {} /\ LineEnd(t, p) - p = 3 * Cardinality(Footers(t, p))
  \/ /\ LineEnd(t, p) = p + 1 /\ t[p] = "9"
     /\ \E q \in LineStarts(t) : NextTo(t, p, q) /\ Footers(t, q) # {}

(* Mutant: the line break of a dropped line stays.                         *)
DeletionsOfLines(t) ==
  LET dropped == {p \in LineStarts(t) : Dropped(t, p)}
  IN  {Line(t, p) : p \in dropped}
        \cup UNION {{<<q, q + 3>> : q \in Footers(t, p)} : p \in LineStarts(t) \ dropped}

Deletions(t) ==
  LET dropped == {p \in LineStarts(t) : Dropped(t, p)}
      whole(p) == IF LineEnd(t, p) <= Len(t) THEN <<p, LineEnd(t, p) + 1>>
                  ELSE <<IF p = 1 THEN 1 ELSE p - 1, LineEnd(t, p)>>
  IN  {whole(p) : p \in dropped}
        \cup UNION {{<<q, q + 3>> : q \in Footers(t, p)} : p \in LineStarts(t) \ dropped}

(* Where the letters of the cleaned text stood: those of the lines that    *)
(* are kept, without footers, and a line break between two of these.       *)
Kept(t) ==
  LET lines == {p \in LineStarts(t) : ~Dropped(t, p)}
      cut   == UNION {Footers(t, p) : p \in lines}
      ink   == UNION {{q \in p .. LineEnd(t, p) - 1 :
                         q \notin cut /\ q - 1 \notin cut /\ q - 2 \notin cut} : p \in lines}
  IN  Sorted(ink \cup {LineEnd(t, p) : p \in {l \in lines : \E m \in lines : m > l}})

Cleaned(t) == [k \in DOMAIN Kept(t) |-> t[Kept(t)[k]]]

(* Mutant: a deletion that ends where the span starts is not counted.      *)
RemapMissing(spans, deleted) ==
  LET shift(s) == SumOf({d \in deleted : d[2] < s.at[1]}, LAMBDA d : d[2] - d[1])
  IN  {[s EXCEPT !.at = <<@[1] - shift(s), @[2] - shift(s)>>] :
         s \in {s \in spans : \A d \in deleted : ~Within(s.at, d)}}

(* A span within a deletion goes; another one moves by what was deleted    *)
(* before its start.                                                       *)
Remap(spans, deleted) ==
  LET shift(s) == SumOf({d \in deleted : d[2] <= s.at[1]}, LAMBDA d : d[2] - d[1])
  IN  {[s EXCEPT !.at = <<@[1] - shift(s), @[2] - shift(s)>>] :
         s \in {s \in spans : \A d \in deleted : ~Within(s.at, d)}}

(* _extract_text_with_spans: the spans lie between the breaks of lines and *)
(* the cuts where the type face changes; from page break on it is page 2.  *)
PageSpans(t, cuts, page2) ==
  LET ends(p)  == {LineEnd(t, p)} \cup {c \in cuts : p < c /\ c < LineEnd(t, p)}
      first(p) == {p} \cup (ends(p) \ {LineEnd(t, p)})
      stop(p, s) == CHOOSE e \in ends(p) : s < e /\ \A x \in ends(p) : x > s => e <= x
  IN  UNION {{[id |-> s, at |-> <<s, stop(p, s)>>, page |-> IF s < page2 THEN 1 ELSE 2] :
                s \in first(p)} : p \in {l \in LineStarts(t) : ~Blank(t, l)}}

-----------------------------------------------------------------------------
(* split_by_regex *)

(* A number is a marker, too, when anything comes after it.                *)
Marker(t, p, sublist) ==
  /\ p <= Len(t)
  /\ t[p] = "m" \/ (sublist /\ t[p] = "s") \/ (t[p] = "9" /\ p < Len(t))

(* Where segments start: at the markers, what is before the first one is   *)
(* not in any; without markers, at the paragraphs.                         *)
Starts(t, sublist) ==
  LET marks == {p \in LineStarts(t) : Marker(t, p, sublist)}
      paras == {p \in LineStarts(t) : ~Blank(t, p) /\ p > 2 /\ t[p - 2] = "/"}
  IN  IF marks # {} THEN marks ELSE {1} \cup paras

Segments(t, sublist) ==
  LET starts == Starts(t, sublist)
      stop(s) == CHOOSE e \in starts \cup {Len(t) + 1} :
                   s < e /\ \A x \in starts : x > s => e <= x
      seg == {s \in starts : s <= Len(t) /\ Ink(t, <<s, stop(s)>>) # {}}
  IN  [k \in 1 .. Cardinality(seg) |-> <<Sorted(seg)[k], stop(Sorted(seg)[k])>>]

(* locator_from_range *)
Located(r, spans) == {s \in spans : Meet(s.at, r)}
=============================================================================
