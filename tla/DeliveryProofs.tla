--------------------------- MODULE DeliveryProofs ---------------------------
(***************************************************************************)
(* Theorems about Delivery, for any number of runs, flows, formats,        *)
(* retries and folders: what the status says is so (StatusTruthful),       *)
(* retries multiply nothing (NotMultiplied), no token file outlives its    *)
(* delivery (TokenFilesGone), and a state connects once (StateOnce).       *)
(***************************************************************************)
EXTENDS Delivery, SequenceTheorems, TLAPS

Tokens    == Flows \cup {NoToken}
Outcome   == {"none", "failed", "success"}
Uploading == {"resolve", "folder", "look", "create", "update"}
Before    == {"start", "deliver", "open"}
After     == {"clear", "done", "raised"}

RunState ==
  [at : Before \cup Uploading \cup {"mail"} \cup After, token : Tokens, pdf : BOOLEAN,
   todo : Seq(Exts), tries : Nat, folder : Nat, failed : BOOLEAN, grant : BOOLEAN,
   link : Exts \cup {"none"}, drive : Outcome, gmail : Outcome]

TypeOK ==
  /\ config \in Configs
  /\ run \in [Runs -> RunState]
  /\ tmp \subseteq Runs \X (Tokens \cup {Central})
  /\ folders \in 0 .. MaxFolders
  /\ copies \in [Runs -> [Exts -> [Folders -> Nat]]]
  /\ late \in [Runs -> [Exts -> [Folders -> Nat]]]
  /\ air \in [Runs -> [Calls -> Nat]]
  /\ mails \in [Runs -> Seq(Exts \cup {"none"})]
  /\ lost \in [Runs -> Nat]
  /\ stored \in Tokens /\ pending \in Tokens
  /\ flow \in [Flows -> {"idle", "asked", "exchange", "done"}]
  /\ connects \in [Flows -> Nat]

(* A state that is pending belongs to a flow that was asked for and has    *)
(* not come back; a flow whose code is exchanged has stored no token yet.  *)
Flowing ==
  \A f \in Flows :
    /\ pending = f => flow[f] = "asked"
    /\ flow[f] # "done" => connects[f] = 0
    /\ connects[f] <= 1

(* Whose tokens are in the files of a run.                                 *)
Holds(r, S) == \A t \in tmp : t[1] = r => t[2] \in S

Held(r) ==
  /\ run[r].at \in {"start", "deliver"} \cup After => Holds(r, {})
  /\ run[r].at \in {"open", "mail"} => Holds(r, {Central})
  /\ run[r].at \in Uploading => Holds(r, {Central, run[r].token})

(* The formats that are left are the last of them, and those before are    *)
(* there, unless an upload has failed.                                     *)
Left(r) ==
  LET s == run[r]
      F == formats(s.pdf)
  IN  /\ Len(s.todo) \in 1 .. Len(UploadFormats)
      /\ \A i \in 1 .. Len(s.todo) : s.todo[i] = F[Len(UploadFormats) - Len(s.todo) + i]
      /\ ~s.failed => \A i \in 1 .. Len(UploadFormats) - Len(s.todo) : Uploaded(r, F[i])

(* Where a file is created, those that are there came late.                *)
Progress(r) ==
  LET s == run[r]
      e == Head(s.todo)
  IN  /\ s.at \in Before => s.link = "none" /\ ~s.failed
      /\ s.at \in Before \cup Uploading =>
           s.drive = "none" /\ mails[r] = << >> /\ air[r][NewMail] = 0
      /\ s.at \in Before \cup Uploading \cup {"mail"} => s.gmail = "none"
      /\ s.at \in Uploading => Left(r) /\ (s.link # "none" => Uploaded(r, s.link))
      /\ s.at \in {"look", "create", "update"} => s.folder \in 1 .. folders
      /\ s.at = "create" => copies[r][e][s.folder] = late[r][e][s.folder]
      /\ s.at = "update" => copies[r][e][s.folder] > 0
      /\ s.at \in {"mail"} \cup After =>
           (s.link # "none" => s.drive = "success" /\ Uploaded(r, s.link))

(* StatusTruthful and the first part of NotMultiplied, of one run, with    *)
(* the mails that are still to be sent.                                    *)
Truthful(r) ==
  /\ run[r].drive = "success" =>
       \A i \in DOMAIN UploadFormats : Uploaded(r, formats(run[r].pdf)[i])
  /\ \A i \in DOMAIN mails[r] :
       mails[r][i] # "none" => run[r].drive = "success" /\ Uploaded(r, mails[r][i])
  /\ run[r].gmail = "success" => mails[r] # << >>
  /\ Len(mails[r]) + air[r][NewMail]
       <= lost[r] + (IF run[r].gmail = "success" THEN 1 ELSE 0)

(* There are no files in a folder that does not exist, nor will there be;  *)
(* of those in one, at most one did not come late.                         *)
Housed(r) ==
  \A e \in Exts, f \in Folders :
    /\ copies[r][e][f] > 0 \/ air[r][<<e, f>>] > 0 => f <= folders
    /\ late[r][e][f] <= copies[r][e][f] /\ copies[r][e][f] <= late[r][e][f] + 1

RunInv(r) == Held(r) /\ Progress(r) /\ Truthful(r) /\ Housed(r)

IInv == TypeOK /\ Flowing /\ \A r \in Runs : RunInv(r)

-----------------------------------------------------------------------------
(* Formats, and what is left of them *)

LEMMA FormatsAre ==
  ASSUME NEW pdf \in BOOLEAN
  PROVE  /\ formats(pdf) \in Seq(Exts) /\ Len(formats(pdf)) = Len(UploadFormats)
         /\ Len(UploadFormats) \in Nat \ {0} /\ DOMAIN UploadFormats = 1 .. Len(UploadFormats)
         /\ \A i \in 1 .. Len(UploadFormats) : formats(pdf)[i] \in Exts
<1>1. /\ UploadFormats \in Seq(Exts) /\ UploadFormats # << >>
      /\ Len(UploadFormats) \in Nat
      /\ DOMAIN UploadFormats = 1 .. Len(UploadFormats)
  BY DeliveryAssumption, LenProperties DEF Exts
<1>2. Len(UploadFormats) # 0
  BY <1>1, EmptySeq
<1>3. \A i \in 1 .. Len(UploadFormats) : UploadFormats[i] \in Exts
  BY <1>1, ElementOfSeq
<1>4. formats(pdf) \in [1 .. Len(UploadFormats) -> Exts]
  BY <1>1, <1>3 DEF formats, Exts
<1>5. formats(pdf) \in Seq(Exts) /\ Len(formats(pdf)) = Len(UploadFormats)
  BY <1>1, <1>4, LenProperties
<1> QED
  BY <1>1, <1>2, <1>4, <1>5

LEMMA TodoTaken ==
  ASSUME NEW todo \in Seq(Exts), todo # << >>
  PROVE  /\ Head(todo) = todo[1] /\ Head(todo) \in Exts /\ Tail(todo) \in Seq(Exts)
         /\ Len(todo) \in Nat \ {0} /\ Len(Tail(todo)) = Len(todo) - 1
         /\ \A i \in 1 .. Len(todo) - 1 : Tail(todo)[i] = todo[i + 1]
         /\ Tail(todo) = << >> <=> Len(todo) = 1
<1>1. /\ Head(todo) = todo[1] /\ Head(todo) \in Exts /\ Tail(todo) \in Seq(Exts)
      /\ Len(Tail(todo)) = Len(todo) - 1
      /\ \A i \in 1 .. Len(Tail(todo)) : Tail(todo)[i] = todo[i + 1]
  BY HeadTailProperties
<1>2. Len(todo) \in Nat /\ Len(todo) # 0
  BY EmptySeq, LenProperties
<1>3. Tail(todo) = << >> <=> Len(Tail(todo)) = 0
  BY <1>1, EmptySeq
<1> QED
  BY <1>1, <1>2, <1>3

-----------------------------------------------------------------------------
(* Calls *)

LEMMA CallsAre ==
  /\ NewFolder \in Calls /\ NewMail \in Calls /\ NewFolder # NewMail
  /\ \A e \in Exts, f \in Folders :
       <<e, f>> \in Calls /\ <<e, f>> # NewMail /\ <<e, f>> # NewFolder
<1>1. 0 \notin Folders
  BY DeliveryAssumption DEF Folders
<1>2. NewFolder # NewMail
  BY DEF NewFolder, NewMail
<1> QED
  BY <1>1, <1>2 DEF Calls, NewFolder, NewMail

(* The empty list, which the provers do not count unasked.                 *)
LEMMA NoMails == Len(<< >>) = 0 /\ DOMAIN << >> = {}
OBVIOUS

-----------------------------------------------------------------------------
(* A step of one run *)

(* What a step of r leaves as it is: the other runs, their files and mails;*)
(* no folder and no copy goes away.                                        *)
Alone(r) ==
  /\ \A q \in Runs \ {r} : /\ run'[q] = run[q] /\ copies'[q] = copies[q]
                           /\ air'[q] = air[q] /\ late'[q] = late[q]
                           /\ mails'[q] = mails[q] /\ lost'[q] = lost[q]
  /\ \A t \in tmp' : t \in tmp \/ t[1] = r
  /\ folders <= folders'

(* More folders house what was housed.                                     *)
LEMMA HousedStays ==
  ASSUME TypeOK, folders' \in Nat, folders <= folders', NEW r \in Runs, Housed(r),
         copies'[r] = copies[r], late'[r] = late[r],
         \A e \in Exts, f \in Folders : air'[r][<<e, f>>] = air[r][<<e, f>>]
  PROVE  Housed(r)'
<1> SUFFICES ASSUME NEW e \in Exts, NEW f \in Folders
             PROVE  /\ copies'[r][e][f] > 0 \/ air'[r][<<e, f>>] > 0 => f <= folders'
                    /\ late'[r][e][f] <= copies'[r][e][f]
                    /\ copies'[r][e][f] <= late'[r][e][f] + 1
  BY DEF Housed
<1>1. f \in Nat /\ folders \in Nat
  BY DeliveryAssumption DEF Folders, TypeOK
<1>2. f <= folders => f <= folders'
  BY <1>1
<1> QED
  BY <1>2 DEF Housed

LEMMA OthersKeep ==
  ASSUME TypeOK, folders' \in Nat, NEW r \in Runs, Alone(r), NEW q \in Runs \ {r}, RunInv(q)
  PROVE  RunInv(q)'
<1>1. /\ run'[q] = run[q] /\ copies'[q] = copies[q] /\ mails'[q] = mails[q]
      /\ air'[q] = air[q] /\ late'[q] = late[q]
      /\ lost'[q] = lost[q] /\ folders <= folders' /\ folders \in Nat
  BY DEF Alone, TypeOK
<1>2. \A t \in tmp' : t[1] = q => t \in tmp
  BY DEF Alone
<1>3. Held(q)'
  <2>1. Held(q) /\ run'[q] = run[q]
    BY <1>1 DEF RunInv
  <2>2. /\ Holds(q, {}) => Holds(q, {})'
        /\ Holds(q, {Central}) => Holds(q, {Central})'
        /\ \A t : Holds(q, {Central, t}) => (\A u \in tmp' : u[1] = q => u[2] \in {Central, t})
    BY <1>2 DEF Holds
  <2>3. run[q].at \in Uploading => Holds(q, {Central, run[q].token})'
    BY <2>1, <2>2 DEF Held, Holds
  <2> QED
    BY <2>1, <2>2, <2>3 DEF Held
<1>4. \A e : Uploaded(q, e)' <=> Uploaded(q, e)
  BY <1>1 DEF Uploaded
<1>5. Left(q) => Left(q)'
  BY <1>1, <1>4 DEF Left
<1>6. \A n \in 1 .. folders : n \in 1 .. folders'
  BY <1>1
<1>7. Progress(q)'
  BY <1>1, <1>4, <1>5, <1>6 DEF RunInv, Progress
<1>8. Truthful(q)'
  BY <1>1, <1>4 DEF RunInv, Truthful
<1>9. Housed(q)'
  <2>1. Housed(q) /\ q \in Runs
    BY DEF RunInv
  <2> QED
    BY <1>1, <2>1, HousedStays
<1> QED
  BY <1>3, <1>7, <1>8, <1>9 DEF RunInv

(* A call of the Drive server is over, with s the run and its result:      *)
(* there may be another format.                                            *)
LEMMA UploadedKeeps ==
  ASSUME TypeOK, NEW r \in Runs, RunInv(r), run[r].at \in Uploading,
         NEW s \in RunState,
         s.token = run[r].token, s.pdf = run[r].pdf, s.todo = run[r].todo,
         s.drive = run[r].drive, s.gmail = run[r].gmail,
         uploaded(r, s), mails' = mails, lost'[r] \in Nat, Housed(r)',
         air'[r][NewMail] = air[r][NewMail],
         \A e \in Exts : Uploaded(r, e) => Uploaded(r, e)',
         s.link # "none" => Uploaded(r, s.link)',
         ~s.failed => ~run[r].failed /\ Uploaded(r, Head(s.todo))'
  PROVE  run' \in [Runs -> RunState] /\ tmp' \subseteq tmp /\ RunInv(r)'
         /\ \A q \in Runs \ {r} : run'[q] = run[q]
<1> DEFINE n == Len(UploadFormats)
           F == formats(s.pdf)
           left == Tail(s.todo)
<1>1. /\ run \in [Runs -> RunState] /\ mails[r] = << >> /\ s.drive = "none" /\ s.gmail = "none"
      /\ air'[r][NewMail] = 0
      /\ s.todo \in Seq(Exts) /\ s.pdf \in BOOLEAN /\ Held(r) /\ Left(r)
  BY DEF TypeOK, RunInv, Progress, RunState
<1>2. n \in Nat /\ Len(F) = n /\ DOMAIN UploadFormats = 1 .. n /\ \A i \in 1 .. n : F[i] \in Exts
  BY <1>1, FormatsAre
<1>3. /\ Len(s.todo) \in 1 .. n
      /\ \A i \in 1 .. Len(s.todo) : s.todo[i] = F[n - Len(s.todo) + i]
      /\ ~s.failed => \A i \in 1 .. n - Len(s.todo) : Uploaded(r, F[i])
  BY <1>1 DEF Left
<1>4. s.todo # << >>
  BY <1>1, <1>3, EmptySeq
<1>5. /\ Head(s.todo) = s.todo[1] /\ left \in Seq(Exts) /\ Len(left) = Len(s.todo) - 1
      /\ \A i \in 1 .. Len(s.todo) - 1 : left[i] = s.todo[i + 1]
      /\ (left = << >> <=> Len(s.todo) = 1)
  BY <1>1, <1>4, TodoTaken
<1> DEFINE m == Len(s.todo)
           k == n - m
<1>6. m \in 1 .. n /\ k \in Nat /\ k + 1 \in 1 .. n
  BY <1>2, <1>3
<1>7. ~s.failed => \A i \in 1 .. k + 1 : Uploaded(r, F[i])'
  <2> SUFFICES ASSUME ~s.failed, NEW i \in 1 .. k + 1 PROVE Uploaded(r, F[i])'
    OBVIOUS
  <2>1. CASE i = k + 1
    <3>1. F[i] = Head(s.todo)
      <4>1. n - m + 1 = i /\ 1 \in 1 .. m
        BY <1>2, <1>6, <2>1
      <4> QED
        BY <1>3, <1>5, <4>1
    <3> QED
      BY <3>1
  <2>2. CASE i # k + 1
    <3>1. i \in 1 .. k /\ i \in 1 .. n
      <4>1. i \in 1 .. k + 1 /\ i # k + 1 /\ k \in Nat /\ k + 1 \in 1 .. n /\ n \in Nat
        BY <1>2, <1>6, <2>2
      <4> HIDE DEF k, n
      <4> QED
        BY <4>1
    <3>2. F[i] \in Exts /\ Uploaded(r, F[i])
      BY <1>2, <1>3, <3>1
    <3> QED
      BY <3>2
  <2> QED
    BY <2>1, <2>2
<1> HIDE DEF n, F, left, m, k
<1>8. CASE left # << >>
  <2> DEFINE next == [s EXCEPT !.todo = left, !.tries = 0, !.folder = 0, !.at = "resolve"]
  <2>1. run' = [run EXCEPT ![r] = next] /\ tmp' = tmp
    BY <1>8 DEF uploaded, set, left
  <2>2. /\ next \in RunState /\ next.at = "resolve" /\ next.todo = left
        /\ next.pdf = s.pdf /\ next.token = s.token /\ next.failed = s.failed
        /\ next.link = s.link /\ next.drive = "none" /\ next.gmail = "none"
    <3>1. next \in RunState
      BY <1>5 DEF RunState, Uploading
    <3>2. next.at = "resolve" /\ next.todo = left
      BY DEF RunState
    <3> QED
      BY <1>1, <3>1, <3>2 DEF RunState
  <2> HIDE DEF next
  <2>3. run' \in [Runs -> RunState] /\ run'[r] = next /\ \A q \in Runs \ {r} : run'[q] = run[q]
    BY <1>1, <2>1, <2>2
  <2>4. Left(r)'
    <3>1. /\ Len(left) \in 1 .. n
          /\ \A i \in 1 .. Len(left) : left[i] = F[n - Len(left) + i]
          /\ ~s.failed => \A i \in 1 .. n - Len(left) : Uploaded(r, F[i])'
      <4>1. Len(left) = m - 1 /\ m # 1 /\ n - Len(left) = k + 1
        BY <1>2, <1>5, <1>6, <1>8 DEF m, k
      <4>2. Len(left) \in 1 .. n
        BY <1>2, <1>6, <4>1
      <4>3. ASSUME NEW i \in 1 .. Len(left) PROVE left[i] = F[n - Len(left) + i]
        <5>1. i \in 1 .. m - 1 /\ i + 1 \in 1 .. m /\ n - m + (i + 1) = n - Len(left) + i
          BY <1>2, <1>6, <4>1
        <5> QED
          BY <1>3, <1>5, <5>1 DEF m
      <4> QED
        BY <1>7, <4>1, <4>2, <4>3
    <3> QED
      BY <2>2, <2>3, <3>1 DEF Left, n, F
  <2>5. Held(r)'
    BY <1>1, <2>1, <2>2, <2>3 DEF Held, Holds, Uploading, Before, After
  <2>6. Progress(r)'
    BY <1>1, <2>2, <2>3, <2>4 DEF Progress, Uploading, Before, After
  <2>7. Truthful(r)'
    BY <1>1, <2>2, <2>3, NoMails DEF Truthful
  <2> QED
    BY <2>1, <2>3, <2>5, <2>6, <2>7 DEF RunInv
<1>9. CASE left = << >>
  <2> DEFINE next == [s EXCEPT !.todo = left, !.tries = 0, !.folder = 0, !.at = "mail",
                        !.drive = IF s.failed THEN "failed" ELSE "success",
                        !.link  = IF s.failed THEN "none" ELSE s.link]
  <2>1. run' = [run EXCEPT ![r] = next] /\ tmp' = tmp \ {<<r, s.token>>}
    BY <1>9 DEF uploaded, set, left
  <2>2. /\ next \in RunState /\ next.at = "mail" /\ next.pdf = s.pdf
        /\ next.link = (IF s.failed THEN "none" ELSE s.link)
        /\ next.drive = (IF s.failed THEN "failed" ELSE "success") /\ next.gmail = "none"
    BY <1>1, <1>5 DEF RunState, Outcome
  <2> HIDE DEF next
  <2>3. run' \in [Runs -> RunState] /\ run'[r] = next /\ \A q \in Runs \ {r} : run'[q] = run[q]
    BY <1>1, <2>1, <2>2
  <2>4. Held(r)'
    <3>1. Holds(r, {Central, s.token}) /\ tmp \subseteq Runs \X (Tokens \cup {Central})
      BY <1>1 DEF Held, TypeOK
    <3>2. Holds(r, {Central})'
      BY <2>1, <3>1 DEF Holds
    <3> QED
      BY <2>2, <2>3, <3>2 DEF Held, Holds, Uploading, Before, After
  <2>5. Progress(r)'
    BY <2>2, <2>3 DEF Progress, Uploading, Before, After
  <2>6. Truthful(r)'
    <3>1. ~s.failed => \A i \in 1 .. n : Uploaded(r, F[i])'
      <4>1. m = 1
        BY <1>5, <1>9 DEF m
      <4>2. k + 1 = n
        BY <1>2, <4>1 DEF k
      <4> QED
        BY <1>7, <4>2
    <3>2. mails'[r] = << >>
      BY <1>1
    <3> QED
      BY <1>1, <1>2, <2>2, <2>3, <3>1, <3>2, NoMails DEF Truthful, F
  <2> QED
    BY <2>1, <2>3, <2>4, <2>5, <2>6 DEF RunInv
<1> QED
  BY <1>8, <1>9

(* A call of the Drive server that is tried again, or was the last.        *)
LEMMA AgainKeeps ==
  ASSUME TypeOK, NEW r \in Runs, RunInv(r), run[r].at \in Uploading,
         again(r), mails' = mails, lost'[r] \in Nat, Housed(r)',
         air'[r][NewMail] = air[r][NewMail],
         \A e \in Exts : Uploaded(r, e) => Uploaded(r, e)'
  PROVE  run' \in [Runs -> RunState] /\ tmp' \subseteq tmp /\ RunInv(r)'
         /\ \A q \in Runs \ {r} : run'[q] = run[q]
<1>1. run \in [Runs -> RunState] /\ run[r] \in RunState
  BY DEF TypeOK
<1>2. run[r].link # "none" => run[r].link \in Exts /\ Uploaded(r, run[r].link)
  BY <1>1 DEF RunInv, Progress, RunState
<1>3. CASE run[r].tries < MaxRetries
  <2> DEFINE next == [run[r] EXCEPT !.at = "resolve", !.folder = 0, !.tries = @ + 1]
  <2>1. run' = [run EXCEPT ![r] = next] /\ tmp' = tmp
    BY <1>3 DEF again, set
  <2>2. /\ next \in RunState /\ next.at = "resolve" /\ next.todo = run[r].todo
        /\ next.pdf = run[r].pdf /\ next.token = run[r].token /\ next.failed = run[r].failed
        /\ next.link = run[r].link /\ next.drive = run[r].drive /\ next.gmail = run[r].gmail
    <3>1. next \in RunState
      <4>1. run[r].tries + 1 \in Nat /\ "resolve" \in Uploading
        BY <1>1 DEF RunState, Uploading
      <4> QED
        BY <1>1, <4>1 DEF RunState
    <3> QED
      BY <1>1, <3>1 DEF RunState
  <2> HIDE DEF next
  <2>3. run' \in [Runs -> RunState] /\ run'[r] = next /\ \A q \in Runs \ {r} : run'[q] = run[q]
    BY <1>1, <2>1, <2>2
  <2>4. Left(r)'
    <3>1. Left(r)
      BY DEF RunInv, Progress
    <3>2. PICK F : F = formats(run[r].pdf)
      OBVIOUS
    <3>3. \A i \in 1 .. Len(UploadFormats) : F[i] \in Exts
      <4>1. run[r].pdf \in BOOLEAN
        BY <1>1 DEF RunState
      <4> QED
        BY <3>2, <4>1, FormatsAre
    <3>4. \A i \in 1 .. Len(UploadFormats) - Len(run[r].todo) : i \in 1 .. Len(UploadFormats)
      <4>1. Len(run[r].todo) \in 1 .. Len(UploadFormats)
        BY <3>1 DEF Left
      <4>2. Len(run[r].todo) \in Nat
        BY <1>1 DEF RunState
      <4>3. Len(UploadFormats) \in Nat
        BY FormatsAre
      <4> QED
        BY <4>1, <4>2, <4>3
    <3>5. ~run[r].failed =>
            \A i \in 1 .. Len(UploadFormats) - Len(run[r].todo) : Uploaded(r, F[i])
      BY <3>1, <3>2 DEF Left
    <3>6. ~next.failed =>
            \A i \in 1 .. Len(UploadFormats) - Len(next.todo) : Uploaded(r, F[i])'
      BY <2>2, <3>3, <3>4, <3>5
    <3> QED
      BY <2>2, <2>3, <3>1, <3>2, <3>6 DEF Left
  <2>5. Held(r)'
    BY <2>1, <2>2, <2>3 DEF RunInv, Held, Holds, Uploading, Before, After
  <2>6. Progress(r)'
    BY <1>2, <2>2, <2>3, <2>4 DEF RunInv, Progress, Uploading, Before, After
  <2>7. Truthful(r)'
    <3>1. run[r].drive = "none" /\ run[r].gmail = "none" /\ mails[r] = << >>
          /\ air'[r][NewMail] = 0
      BY DEF RunInv, Progress
    <3> QED
      BY <2>2, <2>3, <3>1, NoMails DEF Truthful
  <2> QED
    BY <2>1, <2>3, <2>5, <2>6, <2>7 DEF RunInv
<1>4. CASE ~(run[r].tries < MaxRetries)
  <2>s. PICK s : s = [run[r] EXCEPT !.failed = TRUE]
    OBVIOUS
  <2>1. uploaded(r, s)
    BY <1>4, <2>s DEF again
  <2>2. /\ s \in RunState /\ s.token = run[r].token /\ s.pdf = run[r].pdf
        /\ s.todo = run[r].todo /\ s.drive = run[r].drive /\ s.gmail = run[r].gmail
        /\ s.link = run[r].link /\ s.failed
    BY <1>1, <2>s DEF RunState
  <2>3. s.link # "none" => Uploaded(r, s.link)'
    BY <1>2, <2>2
  <2> QED
    BY <2>1, <2>2, <2>3, UploadedKeeps
<1> QED
  BY <1>3, <1>4

(* A step that changes the state of one run and its files only.            *)
LEMMA Moved ==
  ASSUME TypeOK, NEW r \in Runs, NEW n \in RunState, set(r, n),
         \A t \in tmp' : t \in tmp \/ t \in {r} \X (Tokens \cup {Central}),
         UNCHANGED <<config, drive, mails, lost, pending, flow, connects>>,
         stored' \in Tokens
  PROVE  /\ TypeOK' /\ Alone(r) /\ run'[r] = n
         /\ \A e : Uploaded(r, e)' <=> Uploaded(r, e)
         /\ Housed(r) => Housed(r)'
         /\ UNCHANGED <<folders, copies, air, late, mails, lost>>
<1>1. run' = [run EXCEPT ![r] = n] /\ run \in [Runs -> RunState]
  BY DEF set, TypeOK
<1>2. run' \in [Runs -> RunState] /\ run'[r] = n /\ \A q \in Runs \ {r} : run'[q] = run[q]
  BY <1>1
<1>3. tmp' \subseteq Runs \X (Tokens \cup {Central})
  BY DEF TypeOK
<1>4. UNCHANGED <<config, folders, copies, air, late, mails, lost, pending, flow, connects>>
  BY DEF drive
<1>5. TypeOK'
  BY <1>2, <1>3, <1>4 DEF TypeOK
<1>6. folders <= folders'
  BY <1>4, DeliveryAssumption DEF TypeOK
<1>7. Alone(r)
  BY <1>2, <1>4, <1>6 DEF Alone
<1> QED
  BY <1>2, <1>4, <1>5, <1>7 DEF Uploaded, Housed

(* What one step of a run is to keep.                                      *)
Kept(r) == TypeOK' /\ Alone(r) /\ RunInv(r)'

LEMMA TakeTokenKeeps ==
  ASSUME IInv, NEW r \in Runs, TakeToken(r) PROVE Kept(r)
<1> DEFINE n == [run[r] EXCEPT !.at = "deliver", !.token = stored]
<1>1. TypeOK /\ RunInv(r) /\ run[r] \in RunState /\ stored \in Tokens
  BY DEF IInv, TypeOK
<1>2. /\ run[r].at = "start" /\ set(r, n)
      /\ UNCHANGED <<config, tmp, drive, mails, lost, stored, pending, flow, connects>>
  BY DEF TakeToken, google
<1>3. /\ n \in RunState /\ n.at = "deliver" /\ n.link = run[r].link
      /\ n.failed = run[r].failed /\ n.drive = run[r].drive /\ n.gmail = run[r].gmail
  BY <1>1 DEF RunState, Before
<1> HIDE DEF n
<1>4. /\ TypeOK' /\ Alone(r) /\ run'[r] = n /\ Housed(r)'
      /\ UNCHANGED <<folders, copies, air, late, mails, lost>>
      /\ \A e : Uploaded(r, e)' <=> Uploaded(r, e)
  BY <1>1, <1>2, <1>3, Moved DEF RunInv
<1>5. Held(r)'
  BY <1>1, <1>2, <1>3, <1>4 DEF RunInv, Held, Holds, Uploading, After
<1>6. Progress(r)'
  BY <1>1, <1>2, <1>3, <1>4 DEF RunInv, Progress, Uploading, Before, After
<1>7. Truthful(r)'
  BY <1>1, <1>2, <1>3, <1>4, NoMails DEF RunInv, Progress, Truthful, Before
<1> QED
  BY <1>4, <1>5, <1>6, <1>7 DEF Kept, RunInv

LEMMA DeliverNothingKeeps ==
  ASSUME IInv, NEW r \in Runs, DeliverNothing(r) PROVE Kept(r)
<1>1. TypeOK /\ RunInv(r) /\ run[r] \in RunState
  BY DEF IInv, TypeOK
<1>2. PICK d \in {"failed", "none"}, g \in {"failed", "none"} :
        set(r, [run[r] EXCEPT !.at = "clear", !.drive = d, !.gmail = g])
  BY DEF DeliverNothing
<1> DEFINE n == [run[r] EXCEPT !.at = "clear", !.drive = d, !.gmail = g]
<1>3. /\ run[r].at = "deliver" /\ set(r, n)
      /\ UNCHANGED <<config, tmp, drive, mails, lost, stored, pending, flow, connects>>
  BY <1>2 DEF DeliverNothing, google
<1>4. /\ n \in RunState /\ n.at = "clear" /\ n.drive = d /\ n.gmail = g /\ n.link = run[r].link
  BY <1>1 DEF RunState, After, Outcome
<1> HIDE DEF n
<1>5. /\ TypeOK' /\ Alone(r) /\ run'[r] = n /\ Housed(r)'
      /\ UNCHANGED <<folders, copies, air, late, mails, lost>>
  BY <1>1, <1>3, <1>4, Moved DEF RunInv, TypeOK
<1>6. Held(r)'
  BY <1>1, <1>3, <1>4, <1>5 DEF RunInv, Held, Holds, Uploading
<1>7. Progress(r)'
  BY <1>1, <1>3, <1>4, <1>5 DEF RunInv, Progress, Uploading, Before
<1>8. Truthful(r)'
  <2>1. mails'[r] = << >> /\ lost'[r] \in Nat /\ air'[r][NewMail] = 0
    BY <1>1, <1>3, <1>5 DEF RunInv, Progress, Before, TypeOK
  <2> QED
    BY <1>4, <1>5, <2>1, NoMails DEF Truthful
<1> QED
  BY <1>5, <1>6, <1>7, <1>8 DEF Kept, RunInv

(* A run that raises or goes on to the mail leaves its statuses.           *)
LEMMA MaterializeKeeps ==
  ASSUME IInv, NEW r \in Runs, Materialize(r) PROVE Kept(r)
<1>1. TypeOK /\ RunInv(r) /\ run[r] \in RunState
  BY DEF IInv, TypeOK
<1>2. PICK pdf \in BOOLEAN : set(r, [run[r] EXCEPT !.at = "open", !.pdf = pdf])
  BY DEF Materialize
<1> DEFINE n == [run[r] EXCEPT !.at = "open", !.pdf = pdf]
<1>3. /\ run[r].at = "deliver" /\ set(r, n)
      /\ tmp' \in {tmp, tmp \cup {<<r, Central>>}}
      /\ UNCHANGED <<config, drive, mails, lost, stored, pending, flow, connects>>
  BY <1>2 DEF Materialize, google
<1>4. /\ n \in RunState /\ n.at = "open" /\ n.link = run[r].link
      /\ n.failed = run[r].failed /\ n.drive = run[r].drive /\ n.gmail = run[r].gmail
  BY <1>1 DEF RunState, Before
<1> HIDE DEF n
<1>5. /\ TypeOK' /\ Alone(r) /\ run'[r] = n /\ Housed(r)'
      /\ UNCHANGED <<folders, copies, air, late, mails, lost>>
  BY <1>1, <1>3, <1>4, Moved DEF RunInv, TypeOK
<1>6. Held(r)'
  <2>1. Holds(r, {})
    BY <1>1, <1>3 DEF RunInv, Held
  <2>2. Holds(r, {Central})'
    BY <1>3, <2>1 DEF Holds
  <2> QED
    BY <1>4, <1>5, <2>2 DEF Held, Uploading, After
<1>7. mails' = mails /\ lost' = lost
  BY <1>3
<1>8. Progress(r)'
  BY <1>1, <1>3, <1>4, <1>5, <1>7 DEF RunInv, Progress, Uploading, Before, After
<1>9. Truthful(r)'
  BY <1>1, <1>3, <1>4, <1>5, <1>7, NoMails DEF RunInv, Progress, Truthful, Before
<1> QED
  BY <1>5, <1>6, <1>8, <1>9 DEF Kept, RunInv

LEMMA RaisesKeeps ==
  ASSUME IInv, NEW r \in Runs, MaterializeRaises(r) \/ OpenRaises(r) PROVE Kept(r)
<1> DEFINE n == [run[r] EXCEPT !.at = "raised"]
<1>1. TypeOK /\ RunInv(r) /\ run[r] \in RunState
  BY DEF IInv, TypeOK
<1>2. /\ run[r].at \in {"deliver", "open", "mail"} /\ set(r, n)
      /\ UNCHANGED <<config, drive, mails, lost, stored, pending, flow, connects>>
  BY DEF MaterializeRaises, OpenRaises, goto, set, google
<1>3. /\ n \in RunState /\ n.at = "raised" /\ n.pdf = run[r].pdf /\ n.link = run[r].link
      /\ n.drive = run[r].drive /\ n.gmail = run[r].gmail
  BY <1>1 DEF RunState, After
<1> HIDE DEF n
<1>4. tmp' \subseteq tmp /\ Holds(r, {})'
  <2>1. CASE MaterializeRaises(r)
    BY <1>1, <2>1 DEF MaterializeRaises, RunInv, Held, Holds
  <2>2. CASE OpenRaises(r)
    <3>1. Holds(r, {Central}) /\ tmp' = tmp \ {<<r, Central>>}
      BY <1>1, <2>2 DEF OpenRaises, RunInv, Held
    <3>2. tmp \subseteq Runs \X (Tokens \cup {Central})
      BY <1>1 DEF TypeOK
    <3> QED
      BY <3>1, <3>2 DEF Holds
  <2> QED
    BY <2>1, <2>2
<1>5. /\ TypeOK' /\ Alone(r) /\ run'[r] = n /\ Housed(r)'
      /\ UNCHANGED <<folders, copies, air, late, mails, lost>>
      /\ \A e : Uploaded(r, e)' <=> Uploaded(r, e)
  BY <1>1, <1>2, <1>3, <1>4, Moved DEF RunInv, TypeOK
<1>6. Held(r)'
  BY <1>3, <1>4, <1>5 DEF Held, Uploading
<1>7. Progress(r)'
  BY <1>1, <1>2, <1>3, <1>5 DEF RunInv, Progress, Uploading, Before
<1>8. Truthful(r)'
  BY <1>1, <1>2, <1>3, <1>5 DEF RunInv, Truthful
<1> QED
  BY <1>5, <1>6, <1>7, <1>8 DEF Kept, RunInv

LEMMA OpenKeeps ==
  ASSUME IInv, NEW r \in Runs, Open(r) PROVE Kept(r)
<1>1. /\ TypeOK /\ RunInv(r) /\ run[r] \in RunState /\ run[r].pdf \in BOOLEAN
      /\ run[r].token \in Tokens
  BY DEF IInv, TypeOK, RunState
<1>2. /\ run[r].at = "open"
      /\ UNCHANGED <<config, drive, mails, lost, stored, pending, flow, connects>>
  BY DEF Open, google
<1>3. /\ run[r].link = "none" /\ ~run[r].failed /\ run[r].drive = "none"
      /\ run[r].gmail = "none" /\ mails[r] = << >> /\ Holds(r, {Central})
      /\ mails'[r] = << >> /\ lost'[r] \in Nat /\ stored' \in Tokens
      /\ air'[r][NewMail] = 0
  BY <1>1, <1>2 DEF RunInv, Progress, Held, Before, TypeOK, drive
<1>4. Len(<< >>) = 0 /\ DOMAIN << >> = {}
  BY NoMails
<1> DEFINE F == formats(run[r].pdf)
           upload == [run[r] EXCEPT !.at = "resolve", !.todo = F]
<1>5. CASE /\ set(r, upload)
           /\ \/ UNCHANGED tmp
              \/ tmp' = tmp \cup {<<r, run[r].token>>}
  <2>1. /\ F \in Seq(Exts) /\ Len(F) = Len(UploadFormats) /\ Len(UploadFormats) \in Nat \ {0}
    BY <1>1, FormatsAre
  <2> DEFINE n == upload
  <2>2. /\ n \in RunState /\ n.at = "resolve" /\ n.todo = F /\ n.pdf = run[r].pdf
        /\ n.link = "none" /\ ~n.failed /\ n.drive = "none" /\ n.gmail = "none"
        /\ n.token = run[r].token
    <3>1. n \in RunState
      BY <1>1, <2>1 DEF RunState, Uploading
    <3> QED
      BY <1>1, <1>3, <3>1 DEF RunState
  <2> HIDE DEF upload
  <2>3. /\ TypeOK' /\ Alone(r) /\ run'[r] = n /\ Housed(r)'
      /\ UNCHANGED <<folders, copies, air, late, mails, lost>>
    BY <1>1, <1>2, <1>3, <1>5, <2>2, Moved DEF RunInv
  <2>4. Left(r)'
    <3> HIDE DEF F
    <3>1. /\ Len(F) \in 1 .. Len(UploadFormats)
          /\ \A i \in 1 .. Len(F) : F[i] = F[Len(UploadFormats) - Len(F) + i]
          /\ 1 .. Len(UploadFormats) - Len(F) = {}
      BY <2>1
    <3> QED
      BY <2>2, <2>3, <3>1 DEF Left, F
  <2>5. Held(r)'
    BY <1>3, <1>5, <2>2, <2>3 DEF Held, Holds, Uploading, After
  <2>6. Progress(r)'
    BY <1>3, <2>2, <2>3, <2>4 DEF Progress, Uploading, Before
  <2>7. Truthful(r)'
    BY <1>3, <1>4, <2>2, <2>3 DEF Truthful
  <2> QED
    BY <2>3, <2>5, <2>6, <2>7 DEF Kept, RunInv
<1>6. CASE /\ UNCHANGED tmp
           /\ \E d \in {"none", "failed"} :
                set(r, [run[r] EXCEPT !.at = "mail", !.drive = d])
  <2>1. PICK d \in {"none", "failed"} : set(r, [run[r] EXCEPT !.at = "mail", !.drive = d])
    BY <1>6
  <2> DEFINE n == [run[r] EXCEPT !.at = "mail", !.drive = d]
  <2>2. /\ n \in RunState /\ n.at = "mail" /\ n.link = "none" /\ n.drive = d
        /\ n.gmail = "none"
    BY <1>1, <1>3 DEF RunState, Outcome
  <2>3. set(r, n)
    BY <2>1
  <2> HIDE DEF n
  <2>4. /\ TypeOK' /\ Alone(r) /\ run'[r] = n /\ Housed(r)'
      /\ UNCHANGED <<folders, copies, air, late, mails, lost>>
    BY <1>1, <1>2, <1>3, <1>6, <2>2, <2>3, Moved DEF RunInv
  <2>5. Held(r)'
    BY <1>3, <1>6, <2>2, <2>4 DEF Held, Holds, Uploading, After
  <2>6. Progress(r)'
    BY <1>3, <1>4, <2>2, <2>4 DEF Progress, Uploading, Before
  <2>7. Truthful(r)'
    BY <1>3, <1>4, <2>2, <2>4 DEF Truthful
  <2> QED
    BY <2>4, <2>5, <2>6, <2>7 DEF Kept, RunInv
<1>7. \/ /\ set(r, upload)
         /\ \/ UNCHANGED tmp
            \/ tmp' = tmp \cup {<<r, run[r].token>>}
      \/ /\ UNCHANGED tmp
         /\ \E d \in {"none", "failed"} :
              set(r, [run[r] EXCEPT !.at = "mail", !.drive = d])
  <2>1. CASE goto(r, "mail") /\ UNCHANGED tmp
    <3>1. [run[r] EXCEPT !.at = "mail"] = [run[r] EXCEPT !.at = "mail", !.drive = "none"]
      BY <1>1, <1>3 DEF RunState
    <3>2. set(r, [run[r] EXCEPT !.at = "mail"])
      BY <2>1 DEF goto, set
    <3> QED
      BY <2>1, <3>1, <3>2
  <2>2. CASE set(r, [run[r] EXCEPT !.at = "mail", !.drive = "failed"]) /\ UNCHANGED tmp
    BY <2>2
  <2> QED
    BY <2>1, <2>2 DEF Open
<1> QED
  BY <1>5, <1>6, <1>7

(* What a step of a run in its uploads keeps, if it leaves the mails and   *)
(* its run is as one of the lemmas above says.                             *)
LEMMA UploadStep ==
  ASSUME TypeOK, NEW r \in Runs, run' \in [Runs -> RunState], tmp' \subseteq tmp,
         RunInv(r)', \A q \in Runs \ {r} : run'[q] = run[q],
         folders' \in 0 .. MaxFolders, folders <= folders',
         copies' \in [Runs -> [Exts -> [Folders -> Nat]]], air' \in [Runs -> [Calls -> Nat]],
         \A q \in Runs \ {r} : copies'[q] = copies[q] /\ air'[q] = air[q],
         UNCHANGED <<config, late, mails, lost, stored, pending, flow, connects>>
  PROVE  Kept(r)
<1>1. TypeOK'
  BY DEF TypeOK
<1>2. Alone(r)
  BY DEF Alone
<1> QED
  BY <1>1, <1>2 DEF Kept

(* What an upload that fails, or comes to nothing, leaves as it was.       *)
LEMMA NothingUploaded ==
  ASSUME TypeOK, NEW r \in Runs, RunInv(r), UNCHANGED <<config, drive, mails, lost, google>>
  PROVE  /\ Housed(r)' /\ lost'[r] \in Nat /\ mails' = mails
         /\ air'[r][NewMail] = air[r][NewMail]
         /\ \A e \in Exts : Uploaded(r, e) => Uploaded(r, e)'
         /\ folders' \in 0 .. MaxFolders /\ folders <= folders'
         /\ copies' \in [Runs -> [Exts -> [Folders -> Nat]]] /\ air' \in [Runs -> [Calls -> Nat]]
         /\ \A q \in Runs \ {r} : copies'[q] = copies[q] /\ air'[q] = air[q]
         /\ UNCHANGED <<config, late, mails, lost, stored, pending, flow, connects>>
<1>1. UNCHANGED <<config, folders, copies, air, late, mails, lost, stored, pending, flow, connects>>
  BY DEF drive, google
<1>2. folders <= folders' /\ folders' \in 0 .. MaxFolders
  BY <1>1, DeliveryAssumption DEF TypeOK
<1> QED
  BY <1>1, <1>2 DEF TypeOK, RunInv, Housed, Uploaded

(* The run of an upload that has failed.                                   *)
LEMMA FailedIs ==
  ASSUME NEW s \in RunState, NEW g \in BOOLEAN
  PROVE  LET t == [s EXCEPT !.failed = TRUE, !.grant = g]
         IN  /\ t \in RunState /\ t.token = s.token /\ t.pdf = s.pdf /\ t.todo = s.todo
             /\ t.drive = s.drive /\ t.gmail = s.gmail /\ t.link = s.link /\ t.failed
BY DEF RunState

LEMMA GrantRefusedKeeps ==
  ASSUME IInv, NEW r \in Runs, GrantRefused(r) PROVE Kept(r)
<1>s. PICK s : s = [run[r] EXCEPT !.failed = TRUE, !.grant = TRUE]
  OBVIOUS
<1>1. TypeOK /\ RunInv(r) /\ run[r] \in RunState /\ run[r].link \in Exts \cup {"none"}
  BY DEF IInv, TypeOK, RunState
<1>2. /\ run[r].at \in Uploading /\ uploaded(r, s)
      /\ UNCHANGED <<config, drive, mails, lost, google>>
  BY <1>s DEF GrantRefused, Uploading
<1>3. /\ s \in RunState /\ s.token = run[r].token /\ s.pdf = run[r].pdf /\ s.todo = run[r].todo
      /\ s.drive = run[r].drive /\ s.gmail = run[r].gmail /\ s.link = run[r].link /\ s.failed
  BY <1>s, <1>1, FailedIs
<1>4. /\ Housed(r)' /\ lost'[r] \in Nat /\ mails' = mails
      /\ air'[r][NewMail] = air[r][NewMail]
      /\ \A e \in Exts : Uploaded(r, e) => Uploaded(r, e)'
  BY <1>1, <1>2, NothingUploaded
<1>5. s.link # "none" => Uploaded(r, s.link)'
  <2>1. run[r].link # "none" => Uploaded(r, run[r].link)
    BY <1>1, <1>2 DEF RunInv, Progress
  <2> QED
    BY <1>1, <1>3, <1>4, <2>1
<1>6. run' \in [Runs -> RunState] /\ tmp' \subseteq tmp /\ RunInv(r)'
      /\ \A q \in Runs \ {r} : run'[q] = run[q]
  <2>1. mails' = mails /\ TypeOK /\ RunInv(r) /\ run[r].at \in Uploading /\ uploaded(r, s)
    BY <1>1, <1>2, <1>4
  <2> QED
    BY <1>3, <1>4, <1>5, <2>1, UploadedKeeps
<1> QED
  BY <1>1, <1>2, <1>6, NothingUploaded, UploadStep

LEMMA UploadFailsKeeps ==
  ASSUME IInv, NEW r \in Runs, UploadFails(r) PROVE Kept(r)
<1>s. PICK s : s = [run[r] EXCEPT !.failed = TRUE]
  OBVIOUS
<1>1. TypeOK /\ RunInv(r) /\ run[r] \in RunState /\ run[r].link \in Exts \cup {"none"}
  BY DEF IInv, TypeOK, RunState
<1>2. /\ run[r].at \in Uploading /\ (again(r) \/ uploaded(r, s))
      /\ UNCHANGED <<config, drive, mails, lost, google>>
  BY <1>s DEF UploadFails, Uploading
<1>3. /\ Housed(r)' /\ lost'[r] \in Nat /\ mails' = mails
      /\ air'[r][NewMail] = air[r][NewMail]
      /\ \A e \in Exts : Uploaded(r, e) => Uploaded(r, e)'
  BY <1>1, <1>2, NothingUploaded
<1>4. run' \in [Runs -> RunState] /\ tmp' \subseteq tmp /\ RunInv(r)'
      /\ \A q \in Runs \ {r} : run'[q] = run[q]
  <2>1. CASE again(r)
    BY <1>1, <1>2, <1>3, <2>1, AgainKeeps
  <2>2. CASE uploaded(r, s)
    <3>1. /\ s \in RunState /\ s.token = run[r].token /\ s.pdf = run[r].pdf
          /\ s.todo = run[r].todo /\ s.drive = run[r].drive /\ s.gmail = run[r].gmail
          /\ s.link = run[r].link /\ s.failed
      BY <1>s, <1>1 DEF RunState
    <3>2. s.link # "none" => Uploaded(r, s.link)'
      <4>1. run[r].link # "none" => Uploaded(r, run[r].link)
        BY <1>1, <1>2 DEF RunInv, Progress
      <4> QED
        BY <1>1, <1>3, <3>1, <4>1
    <3> QED
      BY <1>1, <1>2, <1>3, <2>2, <3>1, <3>2, UploadedKeeps
  <2> QED
    BY <1>2, <2>1, <2>2
<1> QED
  BY <1>1, <1>2, <1>4, NothingUploaded, UploadStep

(* The format and the folder at hand.                                      *)
LEMMA AtHand ==
  ASSUME TypeOK, NEW r \in Runs, RunInv(r), run[r].at \in {"look", "create", "update"}
  PROVE  /\ Head(run[r].todo) \in Exts
         /\ run[r].folder \in Folders /\ run[r].folder <= folders
<1>1. /\ run[r].todo \in Seq(Exts) /\ folders \in 0 .. MaxFolders /\ MaxFolders \in Nat
  BY DeliveryAssumption DEF TypeOK, RunState
<1>2. run[r].folder \in 1 .. folders /\ Left(r)
  BY DEF RunInv, Progress, Uploading
<1>3. run[r].todo # << >>
  BY <1>2, FormatsAre DEF Left
<1> QED
  BY <1>1, <1>2, <1>3, TodoTaken DEF Folders

LEMMA ResolveKeeps ==
  ASSUME IInv, NEW r \in Runs, Resolve(r) PROVE Kept(r)
<1> DEFINE n == IF folders = 0 THEN [run[r] EXCEPT !.at = "folder"]
                ELSE [run[r] EXCEPT !.at = "look", !.folder = 1]
<1>1. TypeOK /\ RunInv(r) /\ run[r] \in RunState /\ folders \in Nat
  BY DEF IInv, TypeOK
<1>2. /\ run[r].at \in Uploading /\ set(r, n) /\ tmp' = tmp
      /\ UNCHANGED <<config, drive, mails, lost, google>>
      /\ UNCHANGED <<config, drive, mails, lost, stored, pending, flow, connects>>
  BY DEF Resolve, Uploading, google
<1>3. /\ n \in RunState /\ n.at \in {"folder", "look"} /\ n.todo = run[r].todo
      /\ n.pdf = run[r].pdf /\ n.token = run[r].token /\ n.failed = run[r].failed
      /\ n.link = run[r].link /\ n.drive = run[r].drive /\ n.gmail = run[r].gmail
  BY <1>1 DEF RunState, Uploading
<1>4. n.at = "look" => n.folder = 1 /\ 1 \in 1 .. folders
  <2>1. CASE folders = 0
    BY <1>1, <2>1 DEF RunState
  <2>2. CASE folders # 0
    BY <1>1, <2>2 DEF RunState
  <2> QED
    BY <2>1, <2>2
<1> HIDE DEF n
<1>5. /\ TypeOK' /\ Alone(r) /\ run'[r] = n /\ Housed(r)'
      /\ UNCHANGED <<folders, copies, air, late, mails, lost>>
      /\ \A e : Uploaded(r, e)' <=> Uploaded(r, e)
  BY <1>1, <1>2, <1>3, Moved DEF RunInv, TypeOK
<1>6. Left(r)'
  BY <1>1, <1>2, <1>3, <1>5 DEF RunInv, Progress, Left
<1>7. Held(r)'
  BY <1>1, <1>2, <1>3, <1>5 DEF RunInv, Held, Holds, Uploading, Before, After
<1>8. folders' = folders
  BY <1>2 DEF drive
<1>9. Progress(r)'
  BY <1>1, <1>2, <1>3, <1>4, <1>5, <1>6, <1>8 DEF RunInv, Progress, Uploading, Before, After
<1>10. Truthful(r)'
  BY <1>1, <1>2, <1>3, <1>5 DEF RunInv, Truthful
<1> QED
  BY <1>5, <1>7, <1>9, <1>10 DEF Kept, RunInv

(* A file is created where none has been found.                            *)
LEMMA LookKeeps ==
  ASSUME IInv, NEW r \in Runs, Look(r) PROVE Kept(r)
<1>p. PICK x, f : x = Head(run[r].todo) /\ f = run[r].folder
  OBVIOUS
<1> DEFINE n == [run[r] EXCEPT !.at = IF copies[r][x][f] = 0 THEN "create" ELSE "update"]
<1>1. TypeOK /\ RunInv(r) /\ run[r] \in RunState
  BY DEF IInv, TypeOK
<1>2. /\ run[r].at = "look" /\ run[r].at \in Uploading /\ set(r, n)
      /\ UNCHANGED <<config, tmp, drive, mails, lost, stored, pending, flow, connects>>
  BY <1>p DEF Look, goto, set, Uploading, google
<1>3. /\ n \in RunState /\ n.at \in {"create", "update"} /\ n.todo = run[r].todo
      /\ n.pdf = run[r].pdf /\ n.token = run[r].token /\ n.failed = run[r].failed
      /\ n.link = run[r].link /\ n.drive = run[r].drive /\ n.gmail = run[r].gmail
      /\ n.folder = f /\ (n.at = "create" <=> copies[r][x][f] = 0)
  BY <1>1, <1>p DEF RunState, Uploading
<1>4. x \in Exts /\ f \in Folders
  BY <1>1, <1>2, <1>p, AtHand
<1>5. /\ n.at = "create" => copies[r][x][f] = late[r][x][f]
      /\ n.at = "update" => copies[r][x][f] > 0
  <2>1. copies[r][x][f] \in Nat /\ late[r][x][f] \in Nat
    BY <1>1, <1>4 DEF TypeOK
  <2>2. late[r][x][f] <= copies[r][x][f]
    BY <1>1, <1>4 DEF RunInv, Housed
  <2> QED
    BY <1>3, <2>1, <2>2
<1> HIDE DEF n
<1>6. /\ TypeOK' /\ Alone(r) /\ run'[r] = n /\ Housed(r)'
      /\ UNCHANGED <<folders, copies, air, late, mails, lost>>
      /\ \A e : Uploaded(r, e)' <=> Uploaded(r, e)
  BY <1>1, <1>2, <1>3, Moved DEF RunInv, TypeOK
<1>7. Left(r)'
  BY <1>1, <1>2, <1>3, <1>6 DEF RunInv, Progress, Left
<1>8. Held(r)'
  BY <1>1, <1>2, <1>3, <1>6 DEF RunInv, Held, Holds, Uploading, Before, After
<1>9. Progress(r)'
  <2>1. f \in 1 .. folders
    BY <1>1, <1>2, <1>p DEF RunInv, Progress
  <2>2. x = Head(n.todo) /\ f = n.folder
    BY <1>3, <1>p
  <2> QED
    BY <1>1, <1>2, <1>3, <1>5, <1>6, <1>7, <2>1, <2>2 DEF RunInv, Progress, Uploading, Before, After
<1>10. Truthful(r)'
  BY <1>1, <1>2, <1>3, <1>6 DEF RunInv, Truthful
<1> QED
  BY <1>6, <1>8, <1>9, <1>10 DEF Kept, RunInv

LEMMA CreateFolderKeeps ==
  ASSUME IInv, NEW r \in Runs, CreateFolder(r) PROVE Kept(r)
<1>1. TypeOK /\ RunInv(r) /\ run[r] \in RunState /\ folders \in Nat /\ MaxFolders \in Nat
  BY DeliveryAssumption DEF IInv, TypeOK
<1>2. /\ run[r].at \in Uploading /\ folders' = folders + 1 /\ folders < MaxFolders
      /\ UNCHANGED <<config, copies, air, late, mails, lost, stored, pending, flow, connects>>
  BY DEF CreateFolder, Uploading, google
<1>3. /\ folders' \in 0 .. MaxFolders /\ folders' \in Nat /\ folders <= folders'
      /\ folders' \in 1 .. folders'
  BY <1>1, <1>2
<1>4. /\ copies' = copies /\ lost' = lost /\ mails' = mails /\ lost'[r] \in Nat
      /\ air' = air /\ late' = late
      /\ \A e : Uploaded(r, e)' <=> Uploaded(r, e)
  BY <1>1, <1>2 DEF Uploaded, TypeOK
<1>5. Housed(r)'
  <2>1. Housed(r)
    BY <1>1 DEF RunInv
  <2> QED
    BY <1>1, <1>3, <1>4, <2>1, HousedStays
<1>6. run' \in [Runs -> RunState] /\ tmp' \subseteq tmp /\ RunInv(r)'
      /\ \A q \in Runs \ {r} : run'[q] = run[q]
  <2>1. CASE again(r)
    BY <1>1, <1>2, <1>4, <1>5, <2>1, AgainKeeps
  <2> DEFINE n == [run[r] EXCEPT !.at = "look", !.folder = folders']
  <2>2. CASE set(r, n) /\ tmp' = tmp
    <3>1. /\ n \in RunState /\ n.at = "look" /\ n.todo = run[r].todo
          /\ n.pdf = run[r].pdf /\ n.token = run[r].token /\ n.failed = run[r].failed
          /\ n.link = run[r].link /\ n.drive = run[r].drive /\ n.gmail = run[r].gmail
          /\ n.folder = folders'
      BY <1>1, <1>3 DEF RunState, Uploading
    <3>2. run' = [run EXCEPT ![r] = n] /\ run \in [Runs -> RunState]
      BY <1>1, <2>2 DEF set, TypeOK
    <3> HIDE DEF n
    <3>3. /\ run' \in [Runs -> RunState] /\ run'[r] = n
          /\ \A q \in Runs \ {r} : run'[q] = run[q]
      BY <3>1, <3>2
    <3>4. Left(r)'
      BY <1>1, <1>2, <1>4, <3>1, <3>3 DEF RunInv, Progress, Left
    <3>5. Held(r)'
      BY <1>1, <1>2, <2>2, <3>1, <3>3 DEF RunInv, Held, Holds, Uploading, Before, After
    <3>6. Progress(r)'
      BY <1>1, <1>2, <1>3, <1>4, <3>1, <3>3, <3>4 DEF RunInv, Progress, Uploading, Before, After
    <3>7. Truthful(r)'
      BY <1>1, <1>4, <3>1, <3>3 DEF RunInv, Truthful
    <3> QED
      BY <1>5, <2>2, <3>3, <3>5, <3>6, <3>7 DEF RunInv
  <2> QED
    BY <2>1, <2>2 DEF CreateFolder
<1> QED
  BY <1>1, <1>2, <1>3, <1>4, <1>6, UploadStep DEF TypeOK

(* A call that is given up for later.                                      *)
LEMMA Lingering ==
  ASSUME TypeOK, NEW r \in Runs, NEW call \in Calls, lingers(r, call)
  PROVE  /\ air' \in [Runs -> [Calls -> Nat]] /\ \A q \in Runs \ {r} : air'[q] = air[q]
         /\ air'[r][call] = air[r][call] + 1
         /\ \A c \in Calls \ {call} : air'[r][c] = air[r][c]
<1>1. air \in [Runs -> [Calls -> Nat]] /\ air' = [air EXCEPT ![r][call] = @ + 1]
  BY DEF TypeOK, lingers
<1>2. air[r][call] + 1 \in Nat
  BY <1>1
<1> QED
  BY <1>1, <1>2

LEMMA FolderLingersKeeps ==
  ASSUME IInv, NEW r \in Runs, FolderLingers(r) PROVE Kept(r)
<1>1. TypeOK /\ RunInv(r)
  BY DEF IInv
<1>2. /\ run[r].at \in Uploading /\ lingers(r, NewFolder) /\ again(r)
      /\ UNCHANGED <<config, folders, copies, late, mails, lost, stored, pending, flow, connects>>
  BY DEF FolderLingers, Uploading, google
<1>3. /\ air' \in [Runs -> [Calls -> Nat]] /\ \A q \in Runs \ {r} : air'[q] = air[q]
      /\ \A c \in Calls \ {NewFolder} : air'[r][c] = air[r][c]
  BY <1>1, <1>2, CallsAre, Lingering
<1>4. /\ air'[r][NewMail] = air[r][NewMail]
      /\ \A e \in Exts, f \in Folders : air'[r][<<e, f>>] = air[r][<<e, f>>]
  BY <1>3, CallsAre
<1>5. /\ Housed(r)' /\ lost'[r] \in Nat
      /\ \A e \in Exts : Uploaded(r, e) => Uploaded(r, e)'
  BY <1>1, <1>2, <1>4 DEF RunInv, Housed, Uploaded, TypeOK
<1>6. run' \in [Runs -> RunState] /\ tmp' \subseteq tmp /\ RunInv(r)'
      /\ \A q \in Runs \ {r} : run'[q] = run[q]
  BY <1>1, <1>2, <1>4, <1>5, AgainKeeps
<1>7. /\ folders' \in 0 .. MaxFolders /\ folders <= folders'
      /\ copies' \in [Runs -> [Exts -> [Folders -> Nat]]]
      /\ \A q \in Runs \ {r} : copies'[q] = copies[q]
  BY <1>1, <1>2, DeliveryAssumption DEF TypeOK
<1> QED
  BY <1>1, <1>2, <1>3, <1>6, <1>7, UploadStep

(* A file is written: where there was one there still is, and there is one *)
(* of the format at hand.                                                  *)
LEMMA Written ==
  ASSUME TypeOK, NEW r \in Runs, RunInv(r), write(r), UNCHANGED <<folders, air, late>>
  PROVE  /\ copies' \in [Runs -> [Exts -> [Folders -> Nat]]]
         /\ \A q \in Runs \ {r} : copies'[q] = copies[q]
         /\ \A e \in Exts : Uploaded(r, e) => Uploaded(r, e)'
         /\ Head(run[r].todo) \in Exts
         /\ \A e : e = Head(run[r].todo) => Uploaded(r, e)'
         /\ Housed(r)'
<1>1. /\ copies \in [Runs -> [Exts -> [Folders -> Nat]]] /\ run[r].at \in {"create", "update"}
      /\ late \in [Runs -> [Exts -> [Folders -> Nat]]] /\ Housed(r)
  BY DEF TypeOK, write, RunInv
<1>p. PICK ext, fd : ext = Head(run[r].todo) /\ fd = run[r].folder
  OBVIOUS
<1>2. ext \in Exts /\ fd \in Folders /\ fd <= folders
  BY <1>1, <1>p, AtHand
<1>3. /\ copies' \in [Runs -> [Exts -> [Folders -> Nat]]]
      /\ \A q \in Runs \ {r} : copies'[q] = copies[q]
      /\ \A e \in Exts, d \in Folders : copies'[r][e][d] = copies[r][e][d] \/ (e = ext /\ d = fd)
      /\ copies'[r][ext][fd] > 0 /\ copies[r][ext][fd] <= copies'[r][ext][fd]
      /\ late[r][ext][fd] <= copies'[r][ext][fd] /\ copies'[r][ext][fd] <= late[r][ext][fd] + 1
  <2>1. /\ copies[r][ext][fd] \in Nat /\ late[r][ext][fd] \in Nat
        /\ late[r][ext][fd] <= copies[r][ext][fd] /\ copies[r][ext][fd] <= late[r][ext][fd] + 1
    <3>1. copies[r][ext][fd] \in Nat /\ late[r][ext][fd] \in Nat
      BY <1>1, <1>2
    <3>2. /\ late[r][ext][fd] <= copies[r][ext][fd]
          /\ copies[r][ext][fd] <= late[r][ext][fd] + 1
      BY <1>1, <1>2 DEF Housed
    <3> QED
      BY <3>1, <3>2
  <2>2. CASE run[r].at = "update"
    <3>1. copies' = copies
      BY <2>2 DEF write
    <3>2. copies[r][ext][fd] > 0
      BY <1>p, <2>2 DEF RunInv, Progress
    <3> QED
      BY <1>1, <1>2, <2>1, <3>1, <3>2
  <2>3. CASE run[r].at = "create"
    <3>1. copies' = [copies EXCEPT ![r][ext][fd] = @ + 1]
      BY <1>p, <2>3 DEF write
    <3>2. copies[r][ext][fd] = late[r][ext][fd]
      BY <1>p, <2>3 DEF RunInv, Progress
    <3>3. copies[r][ext][fd] + 1 \in Nat
      BY <2>1
    <3>4. /\ copies' \in [Runs -> [Exts -> [Folders -> Nat]]]
          /\ \A q \in Runs \ {r} : copies'[q] = copies[q]
          /\ \A e \in Exts, d \in Folders :
               copies'[r][e][d] = copies[r][e][d] \/ (e = ext /\ d = fd)
          /\ copies'[r][ext][fd] = copies[r][ext][fd] + 1
      BY <1>1, <1>2, <3>1, <3>3
    <3> QED
      BY <2>1, <3>2, <3>4
  <2> QED
    BY <1>1, <2>2, <2>3
<1>4. \A e \in Exts : Uploaded(r, e) => Uploaded(r, e)'
  <2> SUFFICES ASSUME NEW e \in Exts, Uploaded(r, e) PROVE Uploaded(r, e)'
    OBVIOUS
  <2>1. PICK d \in Folders : copies[r][e][d] > 0
    BY DEF Uploaded
  <2>2. copies'[r][e][d] > 0
    BY <1>3, <2>1
  <2> QED
    BY <2>2 DEF Uploaded
<1>5. \A e : e = ext => Uploaded(r, e)'
  BY <1>2, <1>3 DEF Uploaded
<1>6. Housed(r)'
  <2> SUFFICES ASSUME NEW e \in Exts, NEW d \in Folders
               PROVE  /\ copies'[r][e][d] > 0 \/ air'[r][<<e, d>>] > 0 => d <= folders'
                      /\ late'[r][e][d] <= copies'[r][e][d]
                      /\ copies'[r][e][d] <= late'[r][e][d] + 1
    BY DEF Housed
  <2>1. CASE e = ext /\ d = fd
    BY <1>2, <1>3, <2>1
  <2>2. CASE ~(e = ext /\ d = fd)
    BY <1>1, <1>3, <2>2 DEF Housed
  <2> QED
    BY <2>1, <2>2
<1> QED
  BY <1>2, <1>3, <1>4, <1>5, <1>6, <1>p

LEMMA WriteKeeps ==
  ASSUME IInv, NEW r \in Runs, Write(r) PROVE Kept(r)
<1> DEFINE x == Head(run[r].todo)
           first == x = "pdf" \/ (x = "md" /\ run[r].link = "none")
<1>1. TypeOK /\ RunInv(r) /\ run[r] \in RunState /\ run[r].link \in Exts \cup {"none"}
  BY DEF IInv, TypeOK, RunState
<1>2. /\ run[r].at \in Uploading /\ write(r) /\ succeeded(r)
      /\ UNCHANGED <<config, folders, air, late, mails, lost, stored, pending, flow, connects>>
  BY DEF Write, write, Uploading, google
<1>3. /\ copies' \in [Runs -> [Exts -> [Folders -> Nat]]]
      /\ \A q \in Runs \ {r} : copies'[q] = copies[q]
      /\ \A e \in Exts : Uploaded(r, e) => Uploaded(r, e)'
      /\ x \in Exts /\ Housed(r)'
      /\ \A e : e = x => Uploaded(r, e)'
  BY <1>1, <1>2, Written
<1>s. PICK s : s = [run[r] EXCEPT !.link = IF first THEN x ELSE @]
  OBVIOUS
<1>4. uploaded(r, s)
  BY <1>2, <1>s DEF succeeded
<1> HIDE DEF x
<1>5. /\ s \in RunState /\ s.token = run[r].token /\ s.pdf = run[r].pdf
      /\ s.todo = run[r].todo /\ s.drive = run[r].drive /\ s.gmail = run[r].gmail
      /\ s.failed = run[r].failed /\ s.link \in {x, run[r].link}
  BY <1>s, <1>1, <1>3 DEF RunState
<1>6. s.link # "none" => Uploaded(r, s.link)'
  <2>1. run[r].link # "none" => Uploaded(r, run[r].link)
    BY <1>1, <1>2 DEF RunInv, Progress
  <2> QED
    BY <1>1, <1>3, <1>5, <2>1
<1>7. ~s.failed => ~run[r].failed /\ Uploaded(r, Head(s.todo))'
  <2>1. Head(s.todo) = x
    BY <1>5 DEF x
  <2> QED
    BY <1>3, <1>5, <2>1
<1>8. mails' = mails /\ air' = air /\ air'[r][NewMail] = air[r][NewMail] /\ lost'[r] \in Nat
  BY <1>1, <1>2 DEF TypeOK
<1>9. run' \in [Runs -> RunState] /\ tmp' \subseteq tmp /\ RunInv(r)'
      /\ \A q \in Runs \ {r} : run'[q] = run[q]
  BY <1>1, <1>2, <1>3, <1>4, <1>5, <1>6, <1>7, <1>8, UploadedKeeps
<1>10. folders' \in 0 .. MaxFolders /\ folders <= folders' /\ air' \in [Runs -> [Calls -> Nat]]
  BY <1>1, <1>2, DeliveryAssumption DEF TypeOK
<1> QED
  BY <1>1, <1>2, <1>3, <1>8, <1>9, <1>10, UploadStep

LEMMA WriteUnansweredKeeps ==
  ASSUME IInv, NEW r \in Runs, WriteUnanswered(r) PROVE Kept(r)
<1>1. TypeOK /\ RunInv(r)
  BY DEF IInv
<1>2. /\ run[r].at \in Uploading /\ write(r) /\ again(r)
      /\ UNCHANGED <<config, folders, air, late, mails, lost, stored, pending, flow, connects>>
  BY DEF WriteUnanswered, write, Uploading, google
<1>3. /\ copies' \in [Runs -> [Exts -> [Folders -> Nat]]]
      /\ \A q \in Runs \ {r} : copies'[q] = copies[q]
      /\ \A e \in Exts : Uploaded(r, e) => Uploaded(r, e)'
      /\ Housed(r)'
  BY <1>1, <1>2, Written
<1>4. mails' = mails /\ air' = air /\ air'[r][NewMail] = air[r][NewMail] /\ lost'[r] \in Nat
  BY <1>1, <1>2 DEF TypeOK
<1>5. run' \in [Runs -> RunState] /\ tmp' \subseteq tmp /\ RunInv(r)'
      /\ \A q \in Runs \ {r} : run'[q] = run[q]
  BY <1>1, <1>2, <1>3, <1>4, AgainKeeps
<1>6. folders' \in 0 .. MaxFolders /\ folders <= folders' /\ air' \in [Runs -> [Calls -> Nat]]
  BY <1>1, <1>2, DeliveryAssumption DEF TypeOK
<1> QED
  BY <1>1, <1>2, <1>3, <1>4, <1>5, <1>6, UploadStep

LEMMA FileLingersKeeps ==
  ASSUME IInv, NEW r \in Runs, FileLingers(r) PROVE Kept(r)
<1>1. TypeOK /\ RunInv(r)
  BY DEF IInv
<1>p. PICK ext, fd : ext = Head(run[r].todo) /\ fd = run[r].folder
  OBVIOUS
<1>2. /\ run[r].at = "create" /\ run[r].at \in Uploading /\ lingers(r, <<ext, fd>>) /\ again(r)
      /\ UNCHANGED <<config, folders, copies, late, mails, lost, stored, pending, flow, connects>>
  BY <1>p DEF FileLingers, Uploading, google
<1>3. ext \in Exts /\ fd \in Folders /\ fd <= folders
  BY <1>1, <1>2, <1>p, AtHand
<1>4. /\ air' \in [Runs -> [Calls -> Nat]] /\ \A q \in Runs \ {r} : air'[q] = air[q]
      /\ \A c \in Calls \ {<<ext, fd>>} : air'[r][c] = air[r][c]
  BY <1>1, <1>2, <1>3, CallsAre, Lingering
<1>5. air'[r][NewMail] = air[r][NewMail]
  BY <1>3, <1>4, CallsAre
<1>6. Housed(r)'
  <2> SUFFICES ASSUME NEW e \in Exts, NEW d \in Folders, ~(d <= folders')
               PROVE  air'[r][<<e, d>>] = air[r][<<e, d>>]
    BY <1>1, <1>2 DEF RunInv, Housed
  <2>1. <<e, d>> # <<ext, fd>> /\ <<e, d>> \in Calls
    BY <1>2, <1>3, CallsAre
  <2> QED
    BY <1>4, <2>1
<1>7. lost'[r] \in Nat /\ \A e \in Exts : Uploaded(r, e) => Uploaded(r, e)'
  BY <1>1, <1>2 DEF Uploaded, TypeOK
<1>8. run' \in [Runs -> RunState] /\ tmp' \subseteq tmp /\ RunInv(r)'
      /\ \A q \in Runs \ {r} : run'[q] = run[q]
  BY <1>1, <1>2, <1>5, <1>6, <1>7, AgainKeeps
<1>9. /\ folders' \in 0 .. MaxFolders /\ folders <= folders'
      /\ copies' \in [Runs -> [Exts -> [Folders -> Nat]]]
      /\ \A q \in Runs \ {r} : copies'[q] = copies[q]
  BY <1>1, <1>2, DeliveryAssumption DEF TypeOK
<1> QED
  BY <1>1, <1>2, <1>4, <1>8, <1>9, UploadStep

-----------------------------------------------------------------------------
(* The mail *)

(* After the mail, sent or not, the central file is removed.               *)
LEMMA Mailed ==
  ASSUME TypeOK, NEW r \in Runs, RunInv(r), run[r].at = "mail",
         NEW n \in RunState, n.at \in {"mail", "clear"}, set(r, n),
         n.link = run[r].link, n.drive = run[r].drive, n.pdf = run[r].pdf,
         tmp' = (IF n.at = "clear" THEN tmp \ {<<r, Central>>} ELSE tmp),
         UNCHANGED <<config, folders, copies, late, google>>,
         air' \in [Runs -> [Calls -> Nat]],
         \A c \in Calls \ {NewMail} : air'[r][c] = air[r][c],
         mails' \in [Runs -> Seq(Exts \cup {"none"})], lost' \in [Runs -> Nat],
         \A q \in Runs \ {r} : air'[q] = air[q] /\ mails'[q] = mails[q] /\ lost'[q] = lost[q],
         \A i \in DOMAIN mails'[r] : mails'[r][i] = run[r].link
                      \/ (i \in DOMAIN mails[r] /\ mails'[r][i] = mails[r][i]),
         n.at = "mail" => n.gmail = "none",
         n.gmail = "success" => mails'[r] # << >>,
         Len(mails'[r]) + air'[r][NewMail] <= lost'[r] + (IF n.gmail = "success" THEN 1 ELSE 0)
  PROVE  Kept(r)
<1>1. /\ run' = [run EXCEPT ![r] = n] /\ run \in [Runs -> RunState]
      /\ tmp \subseteq Runs \X (Tokens \cup {Central})
  BY DEF set, TypeOK
<1>2. run' \in [Runs -> RunState] /\ run'[r] = n /\ \A q \in Runs \ {r} : run'[q] = run[q]
  BY <1>1
<1>3. UNCHANGED <<config, folders, copies, late, stored, pending, flow, connects>>
  BY DEF google
<1>4. tmp' \subseteq tmp
  OBVIOUS
<1>5. TypeOK'
  BY <1>1, <1>2, <1>3, <1>4 DEF TypeOK
<1>6. folders <= folders'
  BY <1>3, DeliveryAssumption DEF TypeOK
<1>7. Alone(r)
  BY <1>2, <1>3, <1>4, <1>6 DEF Alone
<1>8. \A e : Uploaded(r, e)' <=> Uploaded(r, e)
  BY <1>3 DEF Uploaded
<1>9. /\ Holds(r, {Central}) /\ Truthful(r) /\ Housed(r)
      /\ run[r].link # "none" => run[r].drive = "success" /\ Uploaded(r, run[r].link)
  BY DEF RunInv, Held, Progress
<1>10. Held(r)'
  <2>1. CASE n.at = "mail"
    BY <1>2, <1>9, <2>1 DEF Held, Holds, Uploading, After
  <2>2. CASE n.at = "clear"
    <3>1. Holds(r, {})'
      BY <1>1, <1>9, <2>2 DEF Holds
    <3> QED
      BY <1>2, <2>2, <3>1 DEF Held, Uploading
  <2> QED
    BY <2>1, <2>2
<1>11. Progress(r)'
  BY <1>2, <1>8, <1>9 DEF Progress, Uploading, Before
<1>12. Truthful(r)'
  <2>1. n.drive = "success" =>
          \A i \in DOMAIN UploadFormats : Uploaded(r, formats(n.pdf)[i])
    BY <1>9 DEF Truthful
  <2>2. \A i \in DOMAIN mails'[r] :
          mails'[r][i] # "none" => n.drive = "success" /\ Uploaded(r, mails'[r][i])
    BY <1>9 DEF Truthful
  <2> QED
    BY <1>2, <1>8, <2>1, <2>2 DEF Truthful
<1>13. Housed(r)'
  <2>1. \A e \in Exts, f \in Folders : air'[r][<<e, f>>] = air[r][<<e, f>>]
    BY CallsAre
  <2> QED
    BY <1>3, <1>9, <2>1 DEF Housed
<1> QED
  BY <1>5, <1>7, <1>10, <1>11, <1>12, <1>13 DEF Kept, RunInv

(* What becomes of the list of mails when one more is sent.                *)
LEMMA Sent ==
  ASSUME TypeOK, NEW r \in Runs
  PROVE  /\ run[r].link \in Exts \cup {"none"} /\ lost[r] \in Nat /\ air[r][NewMail] \in Nat
         /\ mails[r] \in Seq(Exts \cup {"none"}) /\ Len(mails[r]) \in Nat
         /\ send(r) => /\ mails' \in [Runs -> Seq(Exts \cup {"none"})]
                       /\ \A q \in Runs \ {r} : mails'[q] = mails[q]
                       /\ mails'[r] # << >> /\ Len(mails'[r]) = Len(mails[r]) + 1
                       /\ \A i \in DOMAIN mails'[r] :
                            mails'[r][i] = run[r].link
                            \/ (i \in DOMAIN mails[r] /\ mails'[r][i] = mails[r][i])
<1> DEFINE E == Exts \cup {"none"}
           ms == mails[r]
           x  == run[r].link
<1>1. x \in E /\ ms \in Seq(E) /\ lost[r] \in Nat /\ mails \in [Runs -> Seq(E)]
  BY DEF TypeOK, RunState
<1>2. air[r][NewMail] \in Nat
  BY CallsAre DEF TypeOK
<1> HIDE DEF E
<1>3. Len(ms) \in Nat /\ DOMAIN ms = 1 .. Len(ms)
  BY <1>1, LenProperties
<1>5. ASSUME send(r)
      PROVE  /\ mails' \in [Runs -> Seq(E)]
             /\ \A q \in Runs \ {r} : mails'[q] = mails[q]
             /\ mails'[r] # << >> /\ Len(mails'[r]) = Len(ms) + 1
             /\ \A i \in DOMAIN mails'[r] :
                  mails'[r][i] = x \/ (i \in DOMAIN ms /\ mails'[r][i] = ms[i])
  <2>1. mails' = [mails EXCEPT ![r] = Append(ms, x)]
    BY <1>5 DEF send
  <2>2. /\ Append(ms, x) \in Seq(E) /\ Len(Append(ms, x)) = Len(ms) + 1
        /\ Append(ms, x)[Len(ms) + 1] = x
        /\ \A i \in 1 .. Len(ms) : Append(ms, x)[i] = ms[i]
    BY <1>1, AppendProperties
  <2> DEFINE a == Append(ms, x)
  <2> HIDE DEF a, ms, x
  <2>3. mails' \in [Runs -> Seq(E)] /\ mails'[r] = a /\ \A q \in Runs \ {r} : mails'[q] = mails[q]
    BY <1>1, <2>1, <2>2 DEF a
  <2>4. a # << >> /\ DOMAIN a = 1 .. Len(ms) + 1
    <3>1. a \in Seq(E) /\ Len(a) = Len(ms) + 1 /\ Len(ms) \in Nat
      BY <1>3, <2>2 DEF a
    <3>2. Len(a) # 0
      BY <3>1
    <3> QED
      BY <3>1, <3>2, EmptySeq, LenProperties
  <2>5. \A i \in DOMAIN a : i = Len(ms) + 1 \/ i \in 1 .. Len(ms)
    BY <1>3, <2>4
  <2>6. \A i \in DOMAIN a : a[i] = x \/ (i \in DOMAIN ms /\ a[i] = ms[i])
    BY <1>3, <2>2, <2>5 DEF a
  <2>7. Len(a) = Len(ms) + 1
    BY <2>2 DEF a
  <2>8. mails'[r] # << >> /\ Len(mails'[r]) = Len(ms) + 1
    BY <2>3, <2>4, <2>7
  <2>9. \A i \in DOMAIN mails'[r] :
          mails'[r][i] = x \/ (i \in DOMAIN ms /\ mails'[r][i] = ms[i])
    BY <2>3, <2>6
  <2> QED
    BY <2>3, <2>8, <2>9
<1>6. Len(ms) \in Nat
  BY <1>3
<1>7. /\ run[r].link \in Exts \cup {"none"} /\ lost[r] \in Nat /\ air[r][NewMail] \in Nat
      /\ mails[r] \in Seq(Exts \cup {"none"}) /\ Len(mails[r]) \in Nat
  BY <1>1, <1>2, <1>6 DEF E
<1>8. send(r) => /\ mails' \in [Runs -> Seq(Exts \cup {"none"})]
                 /\ \A q \in Runs \ {r} : mails'[q] = mails[q]
                 /\ mails'[r] # << >> /\ Len(mails'[r]) = Len(mails[r]) + 1
                 /\ \A i \in DOMAIN mails'[r] :
                      mails'[r][i] = run[r].link
                      \/ (i \in DOMAIN mails[r] /\ mails'[r][i] = mails[r][i])
  <2> HAVE send(r)
  <2> QED
    BY <1>5 DEF E
<1> QED
  BY <1>7, <1>8

(* Before the mail is settled, each that was or will be sent is one whose  *)
(* answer was lost.                                                        *)
LEMMA Sending ==
  ASSUME TypeOK, NEW r \in Runs, RunInv(r), run[r].at = "mail"
  PROVE  run[r].gmail = "none" /\ Len(mails[r]) + air[r][NewMail] <= lost[r]
<1>1. run[r].gmail = "none"
  BY DEF RunInv, Progress
<1>2. Len(mails[r]) \in Nat /\ air[r][NewMail] \in Nat /\ lost[r] \in Nat
  BY Sent
<1> QED
  BY <1>1, <1>2 DEF RunInv, Truthful

(* The run of a mail that was the last, and of one that is tried again.    *)
LEMMA MailedIs ==
  ASSUME NEW s \in RunState, NEW g \in Outcome
  PROVE  /\ LET n == [s EXCEPT !.gmail = g, !.at = "clear", !.tries = 0]
            IN  n \in RunState /\ n.at = "clear" /\ n.gmail = g
                /\ n.link = s.link /\ n.drive = s.drive /\ n.pdf = s.pdf
         /\ LET n == [s EXCEPT !.at = "clear", !.tries = 0]
            IN  n \in RunState /\ n.at = "clear" /\ n.gmail = s.gmail
                /\ n.link = s.link /\ n.drive = s.drive /\ n.pdf = s.pdf
         /\ LET n == [s EXCEPT !.tries = @ + 1]
            IN  n \in RunState /\ n.at = s.at /\ n.gmail = s.gmail
                /\ n.link = s.link /\ n.drive = s.drive /\ n.pdf = s.pdf
<1>1. "clear" \in After /\ s.tries + 1 \in Nat
  BY DEF RunState, After
<1> QED
  BY <1>1 DEF RunState

(* The ways closed(), and mailAgain(), may leave the run.                  *)
LEMMA MailEnds ==
  ASSUME NEW r \in Runs, run[r] \in RunState, run[r].at = "mail"
  PROVE  /\ closed(r, run[r]) =>
              \E n \in RunState :
                /\ n.at = "clear" /\ set(r, n) /\ tmp' = tmp \ {<<r, Central>>}
                /\ n.gmail = run[r].gmail
                /\ n.link = run[r].link /\ n.drive = run[r].drive /\ n.pdf = run[r].pdf
         /\ \A g \in Outcome : closed(r, [run[r] EXCEPT !.gmail = g]) =>
              \E n \in RunState :
                /\ n.at = "clear" /\ set(r, n) /\ tmp' = tmp \ {<<r, Central>>}
                /\ n.gmail = g
                /\ n.link = run[r].link /\ n.drive = run[r].drive /\ n.pdf = run[r].pdf
         /\ mailAgain(r) =>
              \E n \in RunState :
                /\ n.at \in {"mail", "clear"} /\ set(r, n)
                /\ tmp' = IF n.at = "clear" THEN tmp \ {<<r, Central>>} ELSE tmp
                /\ n.gmail = IF n.at = "clear" THEN "failed" ELSE run[r].gmail
                /\ n.link = run[r].link /\ n.drive = run[r].drive /\ n.pdf = run[r].pdf
<1>1. ASSUME closed(r, run[r])
      PROVE  \E n \in RunState :
                /\ n.at = "clear" /\ set(r, n) /\ tmp' = tmp \ {<<r, Central>>}
                /\ n.gmail = run[r].gmail
                /\ n.link = run[r].link /\ n.drive = run[r].drive /\ n.pdf = run[r].pdf
  <2> DEFINE n == [run[r] EXCEPT !.at = "clear", !.tries = 0]
  <2>1. set(r, n) /\ tmp' = tmp \ {<<r, Central>>}
    BY <1>1 DEF closed
  <2>2. /\ n \in RunState /\ n.at = "clear" /\ n.gmail = run[r].gmail
        /\ n.link = run[r].link /\ n.drive = run[r].drive /\ n.pdf = run[r].pdf
    BY MailedIs DEF Outcome
  <2> HIDE DEF n
  <2> QED
    BY <2>1, <2>2
<1>2. ASSUME NEW g \in Outcome, closed(r, [run[r] EXCEPT !.gmail = g])
      PROVE  \E n \in RunState :
                /\ n.at = "clear" /\ set(r, n) /\ tmp' = tmp \ {<<r, Central>>}
                /\ n.gmail = g
                /\ n.link = run[r].link /\ n.drive = run[r].drive /\ n.pdf = run[r].pdf
  <2> DEFINE n == [run[r] EXCEPT !.gmail = g, !.at = "clear", !.tries = 0]
  <2>1. set(r, n) /\ tmp' = tmp \ {<<r, Central>>}
    BY <1>2 DEF closed
  <2>2. /\ n \in RunState /\ n.at = "clear" /\ n.gmail = g
        /\ n.link = run[r].link /\ n.drive = run[r].drive /\ n.pdf = run[r].pdf
    BY MailedIs
  <2> HIDE DEF n
  <2> QED
    BY <2>1, <2>2
<1>3. ASSUME mailAgain(r)
      PROVE  \E n \in RunState :
                /\ n.at \in {"mail", "clear"} /\ set(r, n)
                /\ tmp' = IF n.at = "clear" THEN tmp \ {<<r, Central>>} ELSE tmp
                /\ n.gmail = IF n.at = "clear" THEN "failed" ELSE run[r].gmail
                /\ n.link = run[r].link /\ n.drive = run[r].drive /\ n.pdf = run[r].pdf
  <2>1. CASE run[r].tries < MaxRetries
    <3> DEFINE n == [run[r] EXCEPT !.tries = @ + 1]
    <3>1. set(r, n) /\ tmp' = tmp
      BY <1>3, <2>1 DEF mailAgain
    <3>2. /\ n \in RunState /\ n.at = "mail" /\ n.gmail = run[r].gmail
          /\ n.link = run[r].link /\ n.drive = run[r].drive /\ n.pdf = run[r].pdf
      BY MailedIs DEF Outcome
    <3> HIDE DEF n
    <3> QED
      BY <3>1, <3>2
  <2>2. CASE ~(run[r].tries < MaxRetries)
    <3>1. "failed" \in Outcome /\ closed(r, [run[r] EXCEPT !.gmail = "failed"])
      BY <1>3, <2>2 DEF mailAgain, Outcome
    <3>2. PICK n \in RunState :
                /\ n.at = "clear" /\ set(r, n) /\ tmp' = tmp \ {<<r, Central>>}
                /\ n.gmail = "failed"
                /\ n.link = run[r].link /\ n.drive = run[r].drive /\ n.pdf = run[r].pdf
      BY <1>2, <3>1
    <3> QED
      BY <3>2
  <2> QED
    BY <2>1, <2>2
<1> QED
  BY <1>1, <1>2, <1>3

LEMMA NoMailKeeps ==
  ASSUME IInv, NEW r \in Runs, NoMail(r) \/ SendFails(r) PROVE Kept(r)
<1>1. TypeOK /\ RunInv(r) /\ run[r] \in RunState
  BY DEF IInv, TypeOK
<1>2. /\ run[r].at = "mail"
      /\ UNCHANGED <<config, drive, mails, lost, google>>
      /\ \/ closed(r, run[r])
         \/ closed(r, [run[r] EXCEPT !.gmail = "failed"])
         \/ mailAgain(r)
  BY DEF NoMail, SendFails
<1>3. PICK n \in RunState :
        /\ n.at \in {"mail", "clear"} /\ set(r, n)
        /\ tmp' = IF n.at = "clear" THEN tmp \ {<<r, Central>>} ELSE tmp
        /\ n.gmail \in {"failed", run[r].gmail} /\ (n.at = "mail" => n.gmail = run[r].gmail)
        /\ n.link = run[r].link /\ n.drive = run[r].drive /\ n.pdf = run[r].pdf
  <2>1. CASE closed(r, run[r])
    <3>1. PICK n \in RunState :
            /\ n.at = "clear" /\ set(r, n) /\ tmp' = tmp \ {<<r, Central>>}
            /\ n.gmail = run[r].gmail
            /\ n.link = run[r].link /\ n.drive = run[r].drive /\ n.pdf = run[r].pdf
      BY <1>1, <1>2, <2>1, MailEnds
    <3> QED
      BY <3>1
  <2>2. CASE closed(r, [run[r] EXCEPT !.gmail = "failed"])
    <3>1. PICK n \in RunState :
            /\ n.at = "clear" /\ set(r, n) /\ tmp' = tmp \ {<<r, Central>>}
            /\ n.gmail = "failed"
            /\ n.link = run[r].link /\ n.drive = run[r].drive /\ n.pdf = run[r].pdf
      BY <1>1, <1>2, <2>2, MailEnds DEF Outcome
    <3> QED
      BY <3>1
  <2>3. CASE mailAgain(r)
    <3>1. PICK n \in RunState :
            /\ n.at \in {"mail", "clear"} /\ set(r, n)
            /\ tmp' = IF n.at = "clear" THEN tmp \ {<<r, Central>>} ELSE tmp
            /\ n.gmail = IF n.at = "clear" THEN "failed" ELSE run[r].gmail
            /\ n.link = run[r].link /\ n.drive = run[r].drive /\ n.pdf = run[r].pdf
      BY <1>1, <1>2, <2>3, MailEnds
    <3> QED
      BY <3>1
  <2> QED
    BY <1>2, <2>1, <2>2, <2>3
<1>4. run[r].gmail = "none" /\ Len(mails[r]) + air[r][NewMail] <= lost[r] /\ lost[r] \in Nat
  BY <1>1, <1>2, Sending, Sent
<1>5. /\ UNCHANGED <<config, folders, copies, late, google>>
      /\ mails' = mails /\ lost' = lost /\ air' = air
      /\ mails' \in [Runs -> Seq(Exts \cup {"none"})]
      /\ lost' \in [Runs -> Nat] /\ air' \in [Runs -> [Calls -> Nat]]
      /\ n.gmail # "success" /\ Len(mails'[r]) + air'[r][NewMail] <= lost'[r] + 0
  BY <1>1, <1>2, <1>3, <1>4 DEF TypeOK, drive
<1> QED
  BY <1>1, <1>2, <1>3, <1>4, <1>5, Mailed

LEMMA SendKeeps ==
  ASSUME IInv, NEW r \in Runs, Send(r) PROVE Kept(r)
<1>1. /\ TypeOK /\ RunInv(r) /\ run[r] \in RunState /\ lost \in [Runs -> Nat]
      /\ air \in [Runs -> [Calls -> Nat]]
  BY DEF IInv, TypeOK
<1>2. /\ run[r].at = "mail" /\ send(r) /\ closed(r, [run[r] EXCEPT !.gmail = "success"])
      /\ UNCHANGED <<config, folders, copies, air, late, lost, google>>
  BY DEF Send, drive
<1>3. PICK n \in RunState :
        /\ n.at = "clear" /\ set(r, n) /\ tmp' = tmp \ {<<r, Central>>}
        /\ n.gmail = "success"
        /\ n.link = run[r].link /\ n.drive = run[r].drive /\ n.pdf = run[r].pdf
  BY <1>1, <1>2, MailEnds DEF Outcome
<1>4. /\ mails' \in [Runs -> Seq(Exts \cup {"none"})]
      /\ \A q \in Runs \ {r} : mails'[q] = mails[q]
      /\ mails'[r] # << >>
      /\ \A i \in DOMAIN mails'[r] :
           mails'[r][i] = run[r].link
           \/ (i \in DOMAIN mails[r] /\ mails'[r][i] = mails[r][i])
  BY <1>1, <1>2, Sent
<1>5. Len(mails'[r]) + air'[r][NewMail] <= lost'[r] + 1
  <2>1. /\ lost[r] \in Nat /\ Len(mails[r]) \in Nat /\ air[r][NewMail] \in Nat
        /\ Len(mails[r]) + air[r][NewMail] <= lost[r] /\ Len(mails'[r]) = Len(mails[r]) + 1
    BY <1>1, <1>2, Sent, Sending
  <2> QED
    BY <1>2, <2>1
<1> QED
  BY <1>1, <1>2, <1>3, <1>4, <1>5, Mailed

LEMMA SendUnansweredKeeps ==
  ASSUME IInv, NEW r \in Runs, SendUnanswered(r) \/ MailLingers(r) PROVE Kept(r)
<1>1. /\ TypeOK /\ RunInv(r) /\ run[r] \in RunState /\ lost \in [Runs -> Nat]
      /\ mails \in [Runs -> Seq(Exts \cup {"none"})] /\ air \in [Runs -> [Calls -> Nat]]
  BY DEF IInv, TypeOK
<1>2. /\ run[r].at = "mail" /\ mailAgain(r)
      /\ lost' = [lost EXCEPT ![r] = @ + 1]
      /\ UNCHANGED <<config, folders, copies, late, google>>
      /\ \/ send(r) /\ air' = air
         \/ mails' = mails /\ lingers(r, NewMail)
  BY DEF SendUnanswered, MailLingers, drive
<1>3. PICK n \in RunState :
        /\ n.at \in {"mail", "clear"} /\ set(r, n)
        /\ tmp' = IF n.at = "clear" THEN tmp \ {<<r, Central>>} ELSE tmp
        /\ n.gmail = IF n.at = "clear" THEN "failed" ELSE run[r].gmail
        /\ n.link = run[r].link /\ n.drive = run[r].drive /\ n.pdf = run[r].pdf
  BY <1>1, <1>2, MailEnds
<1>4. run[r].gmail = "none" /\ n.gmail # "success" /\ (n.at = "mail" => n.gmail = "none")
  BY <1>1, <1>2, <1>3, Sending
<1>5. /\ mails' \in [Runs -> Seq(Exts \cup {"none"})] /\ air' \in [Runs -> [Calls -> Nat]]
      /\ \A q \in Runs \ {r} : air'[q] = air[q] /\ mails'[q] = mails[q]
      /\ \A c \in Calls \ {NewMail} : air'[r][c] = air[r][c]
      /\ \A i \in DOMAIN mails'[r] :
           mails'[r][i] = run[r].link
           \/ (i \in DOMAIN mails[r] /\ mails'[r][i] = mails[r][i])
      /\ Len(mails'[r]) + air'[r][NewMail] = Len(mails[r]) + air[r][NewMail] + 1
  <2>0. Len(mails[r]) \in Nat /\ air[r][NewMail] \in Nat
    BY <1>1, Sent
  <2>1. CASE send(r) /\ air' = air
    <3>1. /\ mails' \in [Runs -> Seq(Exts \cup {"none"})]
          /\ \A q \in Runs \ {r} : mails'[q] = mails[q]
          /\ Len(mails'[r]) = Len(mails[r]) + 1
          /\ \A i \in DOMAIN mails'[r] :
               mails'[r][i] = run[r].link
               \/ (i \in DOMAIN mails[r] /\ mails'[r][i] = mails[r][i])
      BY <1>1, <2>1, Sent
    <3>2. Len(mails'[r]) + air'[r][NewMail] = Len(mails[r]) + air[r][NewMail] + 1
      BY <2>0, <2>1, <3>1
    <3> QED
      BY <1>1, <2>1, <3>1, <3>2
  <2>2. CASE mails' = mails /\ lingers(r, NewMail)
    <3>1. /\ air' \in [Runs -> [Calls -> Nat]] /\ \A q \in Runs \ {r} : air'[q] = air[q]
          /\ air'[r][NewMail] = air[r][NewMail] + 1
          /\ \A c \in Calls \ {NewMail} : air'[r][c] = air[r][c]
      BY <1>1, <2>2, CallsAre, Lingering
    <3>2. Len(mails'[r]) + air'[r][NewMail] = Len(mails[r]) + air[r][NewMail] + 1
      BY <2>0, <2>2, <3>1
    <3> QED
      BY <1>1, <2>2, <3>1, <3>2
  <2> QED
    BY <1>2, <2>1, <2>2
<1>6. /\ lost' \in [Runs -> Nat] /\ \A q \in Runs \ {r} : lost'[q] = lost[q]
      /\ Len(mails'[r]) + air'[r][NewMail] <= lost'[r] + 0
  <2>1. /\ lost[r] \in Nat /\ Len(mails[r]) \in Nat /\ air[r][NewMail] \in Nat
        /\ Len(mails[r]) + air[r][NewMail] <= lost[r]
    BY <1>1, <1>2, Sent, Sending
  <2>2. /\ lost' \in [Runs -> Nat] /\ lost'[r] = lost[r] + 1
        /\ \A q \in Runs \ {r} : lost'[q] = lost[q]
    BY <1>1, <1>2
  <2> QED
    BY <1>5, <2>1, <2>2
<1> QED
  BY <1>1, <1>2, <1>3, <1>4, <1>5, <1>6, Mailed

LEMMA ClearRevokedKeeps ==
  ASSUME IInv, NEW r \in Runs, ClearRevoked(r) PROVE Kept(r)
<1> DEFINE n == [run[r] EXCEPT !.at = "done"]
<1>1. TypeOK /\ RunInv(r) /\ run[r] \in RunState /\ stored \in Tokens
  BY DEF IInv, TypeOK
<1>2. /\ run[r].at = "clear" /\ set(r, n) /\ stored' \in Tokens
      /\ UNCHANGED <<config, tmp, drive, mails, lost, pending, flow, connects>>
  BY <1>1 DEF ClearRevoked, goto, set, Tokens
<1>3. /\ n \in RunState /\ n.at = "done" /\ n.pdf = run[r].pdf /\ n.link = run[r].link
      /\ n.drive = run[r].drive /\ n.gmail = run[r].gmail
  BY <1>1 DEF RunState, After
<1> HIDE DEF n
<1>4. /\ TypeOK' /\ Alone(r) /\ run'[r] = n /\ Housed(r)'
      /\ UNCHANGED <<folders, copies, air, late, mails, lost>>
      /\ \A e : Uploaded(r, e)' <=> Uploaded(r, e)
  BY <1>1, <1>2, <1>3, Moved DEF RunInv
<1>5. Held(r)'
  BY <1>1, <1>2, <1>3, <1>4 DEF RunInv, Held, Holds, Uploading, After
<1>6. Progress(r)'
  BY <1>1, <1>2, <1>3, <1>4 DEF RunInv, Progress, Uploading, Before, After
<1>7. Truthful(r)'
  BY <1>1, <1>2, <1>3, <1>4 DEF RunInv, Truthful
<1> QED
  BY <1>4, <1>5, <1>6, <1>7 DEF Kept, RunInv

-----------------------------------------------------------------------------
(* What is carried out late *)

LEMMA Landed ==
  ASSUME TypeOK, NEW r \in Runs, NEW call \in Calls, landed(r, call)
  PROVE  /\ air' \in [Runs -> [Calls -> Nat]] /\ \A q \in Runs \ {r} : air'[q] = air[q]
         /\ air[r][call] \in Nat /\ air[r][call] > 0 /\ air'[r][call] = air[r][call] - 1
         /\ \A c \in Calls \ {call} : air'[r][c] = air[r][c]
<1>1. /\ air \in [Runs -> [Calls -> Nat]] /\ air' = [air EXCEPT ![r][call] = @ - 1]
      /\ air[r][call] > 0 /\ air[r][call] \in Nat
  BY DEF TypeOK, landed
<1>2. air[r][call] - 1 \in Nat
  BY <1>1
<1> QED
  BY <1>1, <1>2

(* A folder or a file that comes late: the run stays where it is.          *)
LEMMA DriveLands ==
  ASSUME TypeOK, NEW r \in Runs, RunInv(r),
         UNCHANGED <<config, run, tmp, mails, lost, google>>,
         folders' \in 0 .. MaxFolders, folders <= folders',
         copies' \in [Runs -> [Exts -> [Folders -> Nat]]],
         late' \in [Runs -> [Exts -> [Folders -> Nat]]],
         air' \in [Runs -> [Calls -> Nat]],
         \A q \in Runs \ {r} : copies'[q] = copies[q] /\ late'[q] = late[q] /\ air'[q] = air[q],
         air'[r][NewMail] = air[r][NewMail], Housed(r)',
         \A e \in Exts, f \in Folders :
           /\ copies[r][e][f] > 0 => copies'[r][e][f] > 0
           /\ copies[r][e][f] = late[r][e][f] => copies'[r][e][f] = late'[r][e][f]
  PROVE  Kept(r)
<1>1. UNCHANGED <<config, run, tmp, mails, lost, stored, pending, flow, connects>>
  BY DEF google
<1>2. TypeOK'
  BY <1>1 DEF TypeOK
<1>3. Alone(r)
  BY <1>1 DEF Alone
<1>4. \A e \in Exts : Uploaded(r, e) => Uploaded(r, e)'
  BY DEF Uploaded
<1>5. /\ run[r] \in RunState /\ run[r].pdf \in BOOLEAN /\ run[r].link \in Exts \cup {"none"}
      /\ run[r].todo \in Seq(Exts) /\ mails[r] \in Seq(Exts \cup {"none"})
  BY DEF TypeOK, RunState
<1>p. PICK F : F = formats(run[r].pdf)
  OBVIOUS
<1>6. /\ Len(UploadFormats) \in Nat /\ DOMAIN UploadFormats = 1 .. Len(UploadFormats)
      /\ \A i \in 1 .. Len(UploadFormats) : F[i] \in Exts
  BY <1>5, <1>p, FormatsAre
<1>7. Held(r)'
  BY <1>1 DEF RunInv, Held, Holds
<1>8. Left(r) => Left(r)'
  <2> SUFFICES ASSUME Left(r) PROVE Left(r)'
    OBVIOUS
  <2>1. Len(run[r].todo) \in 1 .. Len(UploadFormats)
    BY DEF Left
  <2>2. \A i \in 1 .. Len(UploadFormats) - Len(run[r].todo) : i \in 1 .. Len(UploadFormats)
    BY <1>6, <2>1
  <2>3. ~run[r].failed => \A i \in 1 .. Len(UploadFormats) - Len(run[r].todo) : Uploaded(r, F[i])
    BY <1>p DEF Left
  <2>4. ~run[r].failed => \A i \in 1 .. Len(UploadFormats) - Len(run[r].todo) : Uploaded(r, F[i])'
    BY <1>4, <1>6, <2>2, <2>3
  <2> QED
    BY <1>1, <1>p, <2>4 DEF Left
<1>9. Progress(r)'
  <2>1. /\ run[r].at \in {"look", "create", "update"} => run[r].folder \in 1 .. folders'
        /\ run[r].at \in Uploading => Left(r)'
        /\ run[r].link # "none" /\ Uploaded(r, run[r].link) => Uploaded(r, run[r].link)'
    <3>1. folders \in Nat /\ folders' \in Nat
      BY DeliveryAssumption DEF TypeOK
    <3> QED
      BY <1>4, <1>5, <1>8, <3>1 DEF RunInv, Progress
  <2>p. PICK e, f : e = Head(run[r].todo) /\ f = run[r].folder
    OBVIOUS
  <2>2. /\ run[r].at = "create" => copies'[r][e][f] = late'[r][e][f]
        /\ run[r].at = "update" => copies'[r][e][f] > 0
    <3> SUFFICES ASSUME run[r].at \in {"create", "update"}
                 PROVE  /\ run[r].at = "create" => copies'[r][e][f] = late'[r][e][f]
                        /\ run[r].at = "update" => copies'[r][e][f] > 0
      OBVIOUS
    <3>1. e \in Exts /\ f \in Folders
      BY <2>p, AtHand
    <3>2. /\ run[r].at = "create" => copies[r][e][f] = late[r][e][f]
          /\ run[r].at = "update" => copies[r][e][f] > 0
      BY <2>p DEF RunInv, Progress
    <3> QED
      BY <3>1, <3>2
  <2> QED
    BY <1>1, <2>1, <2>2, <2>p DEF RunInv, Progress
<1>10. Truthful(r)'
  <2>1. run[r].drive = "success" => \A i \in DOMAIN UploadFormats : Uploaded(r, F[i])'
    BY <1>4, <1>6, <1>p DEF RunInv, Truthful
  <2>2. \A i \in DOMAIN mails[r] :
          mails[r][i] # "none" => run[r].drive = "success" /\ Uploaded(r, mails[r][i])'
    <3>1. \A i \in DOMAIN mails[r] : mails[r][i] \in Exts \cup {"none"}
      BY <1>5, ElementOfSeq, LenProperties
    <3> QED
      BY <1>4, <3>1 DEF RunInv, Truthful
  <2> QED
    BY <1>1, <1>p, <2>1, <2>2 DEF RunInv, Truthful
<1> QED
  BY <1>2, <1>3, <1>7, <1>9, <1>10 DEF Kept, RunInv

LEMMA FolderLandsKeeps ==
  ASSUME IInv, NEW r \in Runs, FolderLands(r) PROVE Kept(r)
<1>1. TypeOK /\ RunInv(r) /\ folders \in Nat /\ MaxFolders \in Nat
  BY DeliveryAssumption DEF IInv, TypeOK
<1>2. /\ folders < MaxFolders /\ landed(r, NewFolder) /\ folders' = folders + 1
      /\ UNCHANGED <<config, run, tmp, copies, late, mails, lost, google>>
  BY DEF FolderLands
<1>3. /\ air' \in [Runs -> [Calls -> Nat]] /\ \A q \in Runs \ {r} : air'[q] = air[q]
      /\ \A c \in Calls \ {NewFolder} : air'[r][c] = air[r][c]
  BY <1>1, <1>2, CallsAre, Landed
<1>4. /\ air'[r][NewMail] = air[r][NewMail]
      /\ \A e \in Exts, f \in Folders : air'[r][<<e, f>>] = air[r][<<e, f>>]
  BY <1>3, CallsAre
<1>5. folders' \in 0 .. MaxFolders /\ folders <= folders'
  BY <1>1, <1>2
<1>6. Housed(r)'
  <2>1. Housed(r) /\ folders' \in Nat /\ copies'[r] = copies[r] /\ late'[r] = late[r]
    BY <1>1, <1>2 DEF RunInv
  <2> QED
    BY <1>1, <1>4, <1>5, <2>1, HousedStays
<1>7. /\ copies' \in [Runs -> [Exts -> [Folders -> Nat]]]
      /\ late' \in [Runs -> [Exts -> [Folders -> Nat]]]
  BY <1>1, <1>2 DEF TypeOK
<1> QED
  BY <1>1, <1>2, <1>3, <1>4, <1>5, <1>6, <1>7, DriveLands

LEMMA FileLandsKeeps ==
  ASSUME IInv, NEW r \in Runs, NEW x \in Exts, NEW d \in Folders, FileLands(r, x, d)
  PROVE  Kept(r)
<1>1. TypeOK /\ RunInv(r) /\ Housed(r)
      /\ copies \in [Runs -> [Exts -> [Folders -> Nat]]]
      /\ late \in [Runs -> [Exts -> [Folders -> Nat]]]
  BY DEF IInv, TypeOK, RunInv
<1>2. /\ landed(r, <<x, d>>)
      /\ copies' = [copies EXCEPT ![r][x][d] = @ + 1]
      /\ late' = [late EXCEPT ![r][x][d] = @ + 1]
      /\ UNCHANGED <<config, run, tmp, folders, mails, lost, google>>
  BY DEF FileLands
<1>3. /\ air' \in [Runs -> [Calls -> Nat]] /\ \A q \in Runs \ {r} : air'[q] = air[q]
      /\ air[r][<<x, d>>] > 0
      /\ \A c \in Calls \ {<<x, d>>} : air'[r][c] = air[r][c]
  BY <1>1, <1>2, CallsAre, Landed
<1>4. air'[r][NewMail] = air[r][NewMail] /\ d <= folders
  <2>1. NewMail \in Calls \ {<<x, d>>}
    BY CallsAre
  <2> QED
    BY <1>1, <1>3, <2>1 DEF Housed
<1>5. /\ copies' \in [Runs -> [Exts -> [Folders -> Nat]]]
      /\ late' \in [Runs -> [Exts -> [Folders -> Nat]]]
      /\ \A q \in Runs \ {r} : copies'[q] = copies[q] /\ late'[q] = late[q]
      /\ copies'[r][x][d] = copies[r][x][d] + 1 /\ late'[r][x][d] = late[r][x][d] + 1
      /\ \A e \in Exts, f \in Folders :
           ~(e = x /\ f = d) => copies'[r][e][f] = copies[r][e][f] /\ late'[r][e][f] = late[r][e][f]
  <2>1. copies[r][x][d] + 1 \in Nat /\ late[r][x][d] + 1 \in Nat
    BY <1>1
  <2> QED
    BY <1>1, <1>2, <2>1
<1>6. Housed(r)'
  <2> SUFFICES ASSUME NEW e \in Exts, NEW f \in Folders
               PROVE  /\ copies'[r][e][f] > 0 \/ air'[r][<<e, f>>] > 0 => f <= folders'
                      /\ late'[r][e][f] <= copies'[r][e][f]
                      /\ copies'[r][e][f] <= late'[r][e][f] + 1
    BY DEF Housed
  <2>1. copies[r][e][f] \in Nat /\ late[r][e][f] \in Nat
    BY <1>1
  <2>2. CASE e = x /\ f = d
    <3>1. late[r][e][f] <= copies[r][e][f] /\ copies[r][e][f] <= late[r][e][f] + 1
      BY <1>1 DEF Housed
    <3> QED
      BY <1>2, <1>4, <1>5, <2>1, <2>2, <3>1
  <2>3. CASE ~(e = x /\ f = d)
    <3>1. <<e, f>> \in Calls \ {<<x, d>>}
      BY <2>3, CallsAre
    <3>2. air'[r][<<e, f>>] = air[r][<<e, f>>]
      BY <1>3, <3>1
    <3> QED
      BY <1>1, <1>2, <1>5, <2>3, <3>2 DEF Housed
  <2> QED
    BY <2>2, <2>3
<1>7. \A e \in Exts, f \in Folders :
        /\ copies[r][e][f] > 0 => copies'[r][e][f] > 0
        /\ copies[r][e][f] = late[r][e][f] => copies'[r][e][f] = late'[r][e][f]
  <2> SUFFICES ASSUME NEW e \in Exts, NEW f \in Folders
               PROVE  /\ copies[r][e][f] > 0 => copies'[r][e][f] > 0
                      /\ copies[r][e][f] = late[r][e][f] => copies'[r][e][f] = late'[r][e][f]
    OBVIOUS
  <2>1. copies[r][e][f] \in Nat /\ late[r][e][f] \in Nat
    BY <1>1
  <2>2. CASE e = x /\ f = d
    BY <1>5, <2>1, <2>2
  <2>3. CASE ~(e = x /\ f = d)
    BY <1>5, <2>3
  <2> QED
    BY <2>2, <2>3
<1>8. folders' \in 0 .. MaxFolders /\ folders <= folders'
  BY <1>1, <1>2, DeliveryAssumption DEF TypeOK
<1> QED
  BY <1>1, <1>2, <1>3, <1>4, <1>5, <1>6, <1>7, <1>8, DriveLands

LEMMA MailLandsKeeps ==
  ASSUME IInv, NEW r \in Runs, MailLands(r) PROVE Kept(r)
<1>1. TypeOK /\ RunInv(r) /\ Housed(r) /\ run[r] \in RunState
  BY DEF IInv, TypeOK, RunInv
<1>2. /\ landed(r, NewMail) /\ send(r)
      /\ UNCHANGED <<config, run, tmp, folders, copies, late, lost, stored, pending, flow, connects>>
  BY DEF MailLands, google
<1>3. /\ air' \in [Runs -> [Calls -> Nat]] /\ \A q \in Runs \ {r} : air'[q] = air[q]
      /\ air[r][NewMail] > 0 /\ air'[r][NewMail] = air[r][NewMail] - 1
      /\ \A c \in Calls \ {NewMail} : air'[r][c] = air[r][c]
  BY <1>1, <1>2, CallsAre, Landed
<1>4. /\ mails' \in [Runs -> Seq(Exts \cup {"none"})]
      /\ \A q \in Runs \ {r} : mails'[q] = mails[q]
      /\ mails'[r] # << >> /\ Len(mails'[r]) = Len(mails[r]) + 1
      /\ \A i \in DOMAIN mails'[r] :
           mails'[r][i] = run[r].link
           \/ (i \in DOMAIN mails[r] /\ mails'[r][i] = mails[r][i])
  BY <1>1, <1>2, Sent
<1>5. TypeOK' /\ folders <= folders'
  BY <1>1, <1>2, <1>3, <1>4, DeliveryAssumption DEF TypeOK
<1>6. Alone(r)
  BY <1>2, <1>3, <1>4, <1>5 DEF Alone
<1>7. \A e : Uploaded(r, e)' <=> Uploaded(r, e)
  BY <1>2 DEF Uploaded
<1>8. /\ run[r].at \in {"mail"} \cup After
      /\ run[r].link # "none" => run[r].drive = "success" /\ Uploaded(r, run[r].link)
  <2>1. ~(run[r].at \in Before \cup Uploading)
    BY <1>1, <1>3 DEF RunInv, Progress
  <2>2. run[r].at \in {"mail"} \cup After
    BY <1>1, <2>1 DEF RunState
  <2> QED
    BY <1>1, <2>2 DEF RunInv, Progress
<1>9. Held(r)'
  BY <1>1, <1>2 DEF RunInv, Held, Holds
<1>10. Progress(r)'
  BY <1>1, <1>2, <1>7, <1>8 DEF RunInv, Progress, Before, Uploading, After
<1>11. Truthful(r)'
  <2>1. /\ Len(mails[r]) \in Nat /\ air[r][NewMail] \in Nat /\ lost[r] \in Nat
        /\ Len(mails'[r]) + air'[r][NewMail] = Len(mails[r]) + air[r][NewMail]
    <3>1. Len(mails[r]) \in Nat /\ air[r][NewMail] \in Nat /\ lost[r] \in Nat
      BY <1>1, Sent
    <3>2. /\ Len(mails'[r]) = Len(mails[r]) + 1
          /\ air'[r][NewMail] = air[r][NewMail] - 1
      BY <1>3, <1>4
    <3> HIDE DEF NewMail
    <3> QED
      BY <3>1, <3>2
  <2>2. \A i \in DOMAIN mails'[r] :
          mails'[r][i] # "none" => run[r].drive = "success" /\ Uploaded(r, mails'[r][i])
    BY <1>1, <1>4, <1>8 DEF RunInv, Truthful
  <2> QED
    BY <1>1, <1>2, <1>4, <1>7, <2>1, <2>2 DEF RunInv, Truthful
<1>12. Housed(r)'
  <2>1. \A e \in Exts, f \in Folders : air'[r][<<e, f>>] = air[r][<<e, f>>]
    BY <1>3, CallsAre
  <2> QED
    BY <1>1, <1>2, <2>1 DEF Housed
<1> QED
  BY <1>5, <1>6, <1>9, <1>10, <1>11, <1>12 DEF Kept, RunInv

-----------------------------------------------------------------------------
(* The connection *)

(* A step of the connection leaves every run as it is.                     *)
LEMMA RunsStay ==
  ASSUME UNCHANGED runner, NEW r \in Runs, RunInv(r) PROVE RunInv(r)'
<1>1. UNCHANGED <<run, tmp, folders, copies, air, late, mails, lost>>
  BY DEF runner, drive
<1>2. \A e : Uploaded(r, e)' <=> Uploaded(r, e)
  BY <1>1 DEF Uploaded
<1>3. Held(r)'
  BY <1>1 DEF RunInv, Held, Holds
<1>4. Left(r) => Left(r)'
  BY <1>1, <1>2 DEF Left
<1>5. Progress(r)'
  BY <1>1, <1>2, <1>4 DEF RunInv, Progress
<1>6. Truthful(r)'
  BY <1>1, <1>2 DEF RunInv, Truthful
<1>7. Housed(r)'
  BY <1>1 DEF RunInv, Housed
<1> QED
  BY <1>3, <1>5, <1>6, <1>7 DEF RunInv

(* What a step of the connection is to keep.                               *)
Connected == TypeOK' /\ Flowing'

LEMMA ConnectionType ==
  ASSUME TypeOK, UNCHANGED runner, stored' \in Tokens, pending' \in Tokens,
         flow' \in [Flows -> {"idle", "asked", "exchange", "done"}],
         connects' \in [Flows -> Nat]
  PROVE  TypeOK'
<1>1. UNCHANGED <<config, run, tmp, folders, copies, air, late, mails, lost>>
  BY DEF runner, drive
<1> QED
  BY <1>1 DEF TypeOK

LEMMA AuthorizeKeeps ==
  ASSUME IInv, NEW f \in Flows, Authorize(f) PROVE Connected
<1>1. /\ flow \in [Flows -> {"idle", "asked", "exchange", "done"}]
      /\ connects \in [Flows -> Nat] /\ stored \in Tokens /\ TypeOK /\ Flowing
  BY DEF IInv, TypeOK
<1>2. /\ flow[f] = "idle" /\ flow' = [flow EXCEPT ![f] = "asked"] /\ pending' = f
      /\ UNCHANGED runner /\ stored' = stored /\ connects' = connects
  BY DEF Authorize
<1>3. TypeOK'
  BY <1>1, <1>2, ConnectionType DEF Tokens
<1>4. Flowing'
  BY <1>1, <1>2 DEF Flowing
<1> QED
  BY <1>3, <1>4 DEF Connected

LEMMA CallbackKeeps ==
  ASSUME IInv, NEW f \in Flows, Callback(f) PROVE Connected
<1>1. /\ flow \in [Flows -> {"idle", "asked", "exchange", "done"}]
      /\ connects \in [Flows -> Nat] /\ stored \in Tokens /\ TypeOK /\ Flowing
  BY DEF IInv, TypeOK
<1>2. /\ pending' = NoToken /\ UNCHANGED runner /\ stored' = stored /\ connects' = connects
      /\ \/ pending = f /\ flow' = [flow EXCEPT ![f] = "exchange"]
         \/ flow' = [flow EXCEPT ![f] = IF @ = "asked" THEN "done" ELSE @]
  BY DEF Callback
<1>3. /\ flow' \in [Flows -> {"idle", "asked", "exchange", "done"}]
      /\ \A g \in Flows : flow'[g] # "done" => flow[g] # "done"
  <2>1. CASE pending = f /\ flow' = [flow EXCEPT ![f] = "exchange"]
    <3>1. flow[f] = "asked"
      BY <1>1, <2>1 DEF Flowing
    <3> QED
      BY <1>1, <2>1, <3>1
  <2>2. CASE flow' = [flow EXCEPT ![f] = IF @ = "asked" THEN "done" ELSE @]
    BY <1>1, <2>2
  <2> QED
    BY <1>2, <2>1, <2>2
<1>4. TypeOK'
  BY <1>1, <1>2, <1>3, ConnectionType DEF Tokens
<1>5. Flowing'
  BY <1>1, <1>2, <1>3, DeliveryAssumption DEF Flowing
<1> QED
  BY <1>4, <1>5 DEF Connected

LEMMA ExchangeKeeps ==
  ASSUME IInv, NEW f \in Flows, Exchange(f) PROVE Connected
<1>1. /\ flow \in [Flows -> {"idle", "asked", "exchange", "done"}]
      /\ connects \in [Flows -> Nat] /\ stored \in Tokens /\ pending \in Tokens
      /\ TypeOK /\ Flowing
  BY DEF IInv, TypeOK
<1>2. /\ flow[f] = "exchange" /\ flow' = [flow EXCEPT ![f] = "done"]
      /\ pending' = pending /\ UNCHANGED runner
      /\ \/ stored' = f /\ connects' = [connects EXCEPT ![f] = @ + 1]
         \/ stored' = stored /\ connects' = connects
  BY DEF Exchange
<1>3. connects[f] = 0 /\ pending # f
  BY <1>1, <1>2 DEF Flowing
<1>4. /\ connects' \in [Flows -> Nat] /\ stored' \in Tokens /\ connects'[f] <= 1
      /\ \A g \in Flows \ {f} : connects'[g] = connects[g]
  BY <1>1, <1>2, <1>3 DEF Tokens
<1>5. /\ flow' \in [Flows -> {"idle", "asked", "exchange", "done"}]
      /\ flow'[f] = "done" /\ \A g \in Flows \ {f} : flow'[g] = flow[g]
  BY <1>1, <1>2
<1>6. TypeOK'
  BY <1>1, <1>2, <1>4, <1>5, ConnectionType
<1>7. Flowing'
  BY <1>1, <1>2, <1>3, <1>4, <1>5 DEF Flowing
<1> QED
  BY <1>6, <1>7 DEF Connected

(* A disconnect, and a grant that is withdrawn.                            *)
LEMMA WithdrawKeeps ==
  ASSUME IInv, DisconnectRead \/ DisconnectRevoke \/ DisconnectClear \/ Withdraw
  PROVE  Connected
<1>1. TypeOK /\ Flowing /\ stored \in Tokens /\ pending \in Tokens
      /\ flow \in [Flows -> {"idle", "asked", "exchange", "done"}]
      /\ connects \in [Flows -> Nat]
  BY DEF IInv, TypeOK
<1>2. /\ UNCHANGED runner /\ UNCHANGED <<pending, flow, connects>>
      /\ stored' \in {stored, NoToken}
  BY DEF DisconnectRead, DisconnectRevoke, DisconnectClear, Withdraw
<1>3. TypeOK'
  BY <1>1, <1>2, ConnectionType DEF Tokens
<1>4. Flowing'
  BY <1>1, <1>2 DEF Flowing
<1> QED
  BY <1>3, <1>4 DEF Connected

-----------------------------------------------------------------------------
(* The invariant *)

LEMMA InitIInv == Init => IInv
<1> SUFFICES ASSUME Init PROVE IInv
  OBVIOUS
<1>1. Fresh \in RunState
  <2>1. << >> \in Seq(Exts)
    BY EmptySeq
  <2> QED
    BY <2>1 DEF Fresh, RunState, Tokens, Before, Outcome
<1>2. TypeOK
  <2>1. 0 \in 0 .. MaxFolders
    BY DeliveryAssumption
  <2>2. << >> \in Seq(Exts \cup {"none"})
    BY EmptySeq
  <2>3. /\ copies \in [Runs -> [Exts -> [Folders -> Nat]]]
        /\ late \in [Runs -> [Exts -> [Folders -> Nat]]] /\ air \in [Runs -> [Calls -> Nat]]
        /\ mails \in [Runs -> Seq(Exts \cup {"none"})] /\ lost \in [Runs -> Nat]
    BY <2>2 DEF Init
  <2>4. run \in [Runs -> RunState]
    BY <1>1 DEF Init
  <2> QED
    BY <2>1, <2>3, <2>4 DEF Init, TypeOK, Tokens
<1>3. Flowing
  BY DeliveryAssumption DEF Init, Flowing
<1>4. ASSUME NEW r \in Runs PROVE RunInv(r)
  <2>1. /\ run[r] = Fresh /\ tmp = {} /\ mails[r] = << >> /\ lost[r] = 0
        /\ \A e \in Exts, f \in Folders : copies[r][e][f] = 0 /\ late[r][e][f] = 0
        /\ air[r][NewMail] = 0 /\ \A e \in Exts, f \in Folders : air[r][<<e, f>>] = 0
    BY CallsAre DEF Init
  <2>2. Held(r)
    BY <2>1 DEF Held, Holds, Fresh, Uploading
  <2>3. Progress(r)
    BY <2>1 DEF Progress, Fresh, Uploading, Before, After
  <2>4. Truthful(r)
    BY <2>1, NoMails DEF Truthful, Fresh
  <2>5. Housed(r)
    <3> SUFFICES ASSUME NEW e \in Exts, NEW f \in Folders
                 PROVE  /\ copies[r][e][f] > 0 \/ air[r][<<e, f>>] > 0 => f <= folders
                        /\ late[r][e][f] <= copies[r][e][f]
                        /\ copies[r][e][f] <= late[r][e][f] + 1
      BY DEF Housed
    <3> QED
      BY <2>1
  <2> QED
    BY <2>2, <2>3, <2>4, <2>5 DEF RunInv
<1> QED
  BY <1>2, <1>3, <1>4 DEF IInv

(* A step of a run does not touch the flows.                               *)
LEMMA RunStep ==
  ASSUME NEW r \in Runs,
         \/ TakeToken(r) \/ DeliverNothing(r) \/ Materialize(r)
         \/ MaterializeRaises(r) \/ Open(r) \/ OpenRaises(r)
         \/ GrantRefused(r) \/ Resolve(r) \/ CreateFolder(r) \/ FolderLingers(r)
         \/ Look(r) \/ Write(r) \/ WriteUnanswered(r) \/ FileLingers(r) \/ UploadFails(r)
         \/ NoMail(r) \/ Send(r) \/ SendUnanswered(r) \/ MailLingers(r) \/ SendFails(r)
         \/ ClearRevoked(r)
         \/ FolderLands(r) \/ MailLands(r)
         \/ \E e \in Exts, f \in Folders : FileLands(r, e, f)
  PROVE  UNCHANGED <<pending, flow, connects>>
BY DEF TakeToken, DeliverNothing, Materialize, MaterializeRaises, Open, OpenRaises,
       GrantRefused, Resolve, CreateFolder, FolderLingers, Look, Write, WriteUnanswered,
       FileLingers, UploadFails, NoMail, Send, SendUnanswered, MailLingers, SendFails,
       ClearRevoked, FolderLands, MailLands, FileLands, google

LEMMA NextIInv == IInv /\ [Next]_vars => IInv'
<1> SUFFICES ASSUME IInv, [Next]_vars PROVE IInv'
  OBVIOUS
<1>1. config.runs \subseteq Runs /\ config.flows \subseteq Flows
  BY DeliveryAssumption DEF IInv, TypeOK
<1>2. ASSUME NEW r \in Runs, Kept(r), UNCHANGED <<pending, flow, connects>> PROVE IInv'
  <2>1. TypeOK' /\ Alone(r) /\ RunInv(r)'
    BY <1>2 DEF Kept
  <2>2. folders' \in Nat
    BY <2>1, DeliveryAssumption DEF TypeOK
  <2>3. \A q \in Runs \ {r} : RunInv(q)'
    BY <2>1, <2>2, OthersKeep DEF IInv
  <2>4. Flowing'
    BY <1>2 DEF IInv, Flowing
  <2> QED
    BY <2>1, <2>3, <2>4 DEF IInv
<1>3. ASSUME Connected, UNCHANGED runner PROVE IInv'
  <2>1. \A r \in Runs : RunInv(r)'
    BY <1>3, RunsStay DEF IInv
  <2> QED
    BY <1>3, <2>1 DEF Connected, IInv
<1>4. ASSUME NEW r \in config.runs,
             \/ TakeToken(r) \/ DeliverNothing(r) \/ Materialize(r)
             \/ MaterializeRaises(r) \/ Open(r) \/ OpenRaises(r)
             \/ GrantRefused(r) \/ Resolve(r) \/ CreateFolder(r) \/ FolderLingers(r)
             \/ Look(r) \/ Write(r) \/ WriteUnanswered(r) \/ FileLingers(r) \/ UploadFails(r)
             \/ NoMail(r) \/ Send(r) \/ SendUnanswered(r) \/ MailLingers(r) \/ SendFails(r)
             \/ ClearRevoked(r)
             \/ FolderLands(r) \/ MailLands(r)
             \/ \E e \in Exts, f \in Folders : FileLands(r, e, f)
      PROVE  IInv'
  <2>1. r \in Runs
    BY <1>1, <1>4
  <2>2. UNCHANGED <<pending, flow, connects>>
    BY <1>4, <2>1, RunStep
  <2>3. Kept(r)
    BY <1>4, <2>1, TakeTokenKeeps, DeliverNothingKeeps, MaterializeKeeps, RaisesKeeps, OpenKeeps,
       GrantRefusedKeeps, ResolveKeeps, CreateFolderKeeps, FolderLingersKeeps, LookKeeps,
       WriteKeeps, WriteUnansweredKeeps, FileLingersKeeps, UploadFailsKeeps, NoMailKeeps,
       SendKeeps, SendUnansweredKeeps, ClearRevokedKeeps, FolderLandsKeeps, FileLandsKeeps,
       MailLandsKeeps
  <2> QED
    BY <1>2, <2>1, <2>2, <2>3
<1>5. ASSUME NEW f \in config.flows, Authorize(f) \/ Callback(f) \/ Exchange(f) PROVE IInv'
  <2>1. f \in Flows
    BY <1>1, <1>5
  <2>2. UNCHANGED runner
    BY <1>5 DEF Authorize, Callback, Exchange
  <2>3. Connected
    BY <1>5, <2>1, AuthorizeKeeps, CallbackKeeps, ExchangeKeeps
  <2> QED
    BY <1>3, <2>2, <2>3
<1>6. ASSUME DisconnectRead \/ DisconnectRevoke \/ DisconnectClear \/ Withdraw PROVE IInv'
  <2>1. UNCHANGED runner
    BY <1>6 DEF DisconnectRead, DisconnectRevoke, DisconnectClear, Withdraw
  <2> QED
    BY <1>3, <1>6, <2>1, WithdrawKeeps
<1>7. CASE UNCHANGED vars
  <2>1. UNCHANGED runner /\ UNCHANGED <<stored, pending, flow, connects>>
    BY <1>7 DEF vars, runner, google
  <2>2. Connected
    <3>1. TypeOK'
      BY <2>1, ConnectionType DEF IInv, TypeOK
    <3>2. Flowing'
      BY <2>1 DEF IInv, Flowing
    <3> QED
      BY <3>1, <3>2 DEF Connected
  <2> QED
    BY <1>3, <2>1, <2>2
<1> QED
  BY <1>4, <1>5, <1>6, <1>7 DEF Next

LEMMA Invariant == Spec => []IInv
BY InitIInv, NextIInv, PTL DEF Spec

-----------------------------------------------------------------------------
(* The theorems *)

(* Every variable has its type: a run is never in two steps, and no more   *)
(* calls are carried out late than were given up (_call_once).             *)
THEOREM TypesHold == Spec => []TypeOK
<1>1. IInv => TypeOK
  BY DEF IInv
<1> QED
  BY <1>1, Invariant, PTL

(* What mcp_delivery_status reports is so, of a run with any number of     *)
(* formats and retries, whichever of its answers are lost and whichever of *)
(* its calls come late (_deliver_drive, _to_info).                         *)
THEOREM StatusesTruthful == Spec => []StatusTruthful
<1>1. ASSUME IInv PROVE StatusTruthful
  <2>1. ASSUME NEW r \in Runs, run[r].gmail = "failed", lost[r] = 0 PROVE mails[r] = << >>
    <3>1. Len(mails[r]) \in Nat /\ air[r][NewMail] \in Nat
          /\ mails[r] \in Seq(Exts \cup {"none"})
      BY <1>1, Sent DEF IInv
    <3>2. Len(mails[r]) + air[r][NewMail] <= 0
      BY <1>1, <2>1 DEF IInv, RunInv, Truthful
    <3>3. Len(mails[r]) = 0
      BY <3>1, <3>2
    <3> QED
      BY <3>1, <3>3, EmptySeq
  <2> QED
    BY <1>1, <2>1 DEF IInv, RunInv, Truthful, StatusTruthful
<1> QED
  BY <1>1, Invariant, PTL

(* A report is mailed at most once for each lost answer and once more; a   *)
(* format is uploaded once in each folder, not counting what calls that    *)
(* were given up do late, and into folders that there are                  *)
(* (call_tool_with_retry, _handle_upload), for any number of retries.      *)
THEOREM RetriesMultiplyNothing == Spec => []NotMultiplied
<1>1. ASSUME IInv PROVE NotMultiplied
  <2> SUFFICES ASSUME NEW r \in Runs
               PROVE  /\ Len(mails[r]) <= lost[r] + 1
                      /\ \A e \in Exts, f \in Folders : copies[r][e][f] <= late[r][e][f] + 1
                      /\ folders <= 1 =>
                           \A f \in Folders \ {1} : \A e \in Exts : copies[r][e][f] = 0
    BY DEF NotMultiplied
  <2>1. Housed(r) /\ Truthful(r) /\ TypeOK
    BY <1>1 DEF IInv, RunInv
  <2>2. Len(mails[r]) <= lost[r] + 1
    <3>1. Len(mails[r]) \in Nat /\ air[r][NewMail] \in Nat /\ lost[r] \in Nat
      BY <2>1, Sent
    <3>2. Len(mails[r]) + air[r][NewMail] <= lost[r] + 1
      BY <2>1, <3>1 DEF Truthful
    <3> QED
      BY <3>1, <3>2
  <2>3. ASSUME folders <= 1, NEW f \in Folders \ {1}, NEW e \in Exts
        PROVE  copies[r][e][f] = 0
    <3>1. ~(f <= folders)
      <4>1. f \in Nat /\ f > 1 /\ folders \in Nat
        BY <2>1, DeliveryAssumption DEF Folders, TypeOK
      <4> QED
        BY <2>3, <4>1
    <3>2. copies[r][e][f] \in Nat
      BY <2>1 DEF TypeOK
    <3>3. ~(copies[r][e][f] > 0)
      BY <2>1, <3>1 DEF Housed
    <3> QED
      BY <3>2, <3>3
  <2> QED
    BY <2>1, <2>2, <2>3 DEF Housed
<1> QED
  BY <1>1, Invariant, PTL

(* No token file of a run outlives its delivery, and the user's is gone    *)
(* when the mail is sent, wherever the delivery fails or raises (the       *)
(* finally blocks of deliver_report).                                      *)
THEOREM TokenFilesRemoved == Spec => []TokenFilesGone
<1>1. IInv => TokenFilesGone
  BY DEF IInv, RunInv, Held, Holds, After, TokenFilesGone
<1> QED
  BY <1>1, Invariant, PTL

(* A state connects once, for any number of flows that are begun, called   *)
(* back and repeated in any order (_pop_state).                            *)
THEOREM StatesConnectOnce == Spec => []StateOnce
<1>1. IInv => StateOnce
  BY DEF IInv, Flowing, StateOnce
<1> QED
  BY <1>1, Invariant, PTL
=============================================================================
