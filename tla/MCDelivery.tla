----------------------------- MODULE MCDelivery -----------------------------
EXTENDS Delivery, TLC

MCFormats == <<"pdf", "json">>
One(S) == {{x} : x \in S}
LateFiles == {NewFolder, <<"pdf", 1>>, <<"json", 1>>}
(* Two runs into one Drive; one run of a user who connects, and connects   *)
(* again; one run with a channel off, and calls that are carried out late. *)
MCConfigs ==
       [drive : {TRUE}, gmail : {FALSE}, perUser : {FALSE}, runs : {Runs}, flows : {{}},
        late : {{}}]
  \cup [drive : {TRUE}, gmail : {TRUE}, perUser : {TRUE}, runs : One(Runs), flows : {Flows},
        late : {{}}]
  \cup [drive : BOOLEAN, gmail : BOOLEAN, perUser : {FALSE}, runs : One(Runs), flows : {{}},
        late : {LateFiles, {NewFolder, NewMail}}]
CentralOnly ==
  [drive : {TRUE}, gmail : {TRUE}, perUser : {FALSE}, runs : One(Runs), flows : One(Flows),
   late : {{}}]

Symmetric == Permutations(Runs) \cup Permutations(Flows)
=============================================================================
