-------------------------- MODULE MCClauseSplitting --------------------------
EXTENDS ClauseSplitting

Shapes == {<<"m", "w">>, <<"w">>, << >>, <<"f", "g", "g">>, <<"w", "f", "g", "g">>,
           <<"f", "g", "g", "k">>, <<"9">>, <<"s", "k">>}

(* Three lines, the last one on another page; spans end with the lines, or *)
(* also where a footer begins, or within the footers (the documents that   *)
(* the condition of LocatorsCover is there for).  One text has more        *)
(* markers than the limit.  Without a map the last line may also end with  *)
(* the text.                                                               *)
Joined(a, b, c) == a \o <<"/">> \o b \o <<"/">> \o c \o <<"/">>
Unended(a, b, c) == a \o <<"/">> \o b \o <<"/">> \o c
MCTexts ==
  {[text |-> Joined(a, b, c), page2 |-> Len(a) + Len(b) + 3, cuts |-> {}] :
     a \in Shapes, b \in Shapes, c \in Shapes}
  \cup {[text |-> Unended(a, b, c), page2 |-> Len(a) + Len(b) + 3, cuts |-> {}] :
           a \in Shapes, b \in Shapes, c \in Shapes}
  \cup {LET t == Joined(<<a, "f", "g", "g">>, b, c)
            begins == {q \in DOMAIN t : t[q] = "f"}
            within == {q + 2 : q \in begins}
        IN  [text |-> t, page2 |-> Len(b) + 7, cuts |-> IF inside THEN within ELSE begins] :
          a \in {"m", "w"}, b \in Shapes, c \in Shapes, inside \in BOOLEAN}
  \cup {[text |-> <<"m", "/", "m", "/", "m", "/", "m", "/", "m", "/">>, page2 |-> 5, cuts |-> {}]}

MCModes ==
  [emit : {FALSE}, tolerant : BOOLEAN, sublist : BOOLEAN, map : BOOLEAN]
    \cup [emit : {TRUE}, tolerant : {TRUE}, sublist : {FALSE}, map : {FALSE}]
=============================================================================
