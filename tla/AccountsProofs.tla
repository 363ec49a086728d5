--------------------------- MODULE AccountsProofs ---------------------------
(***************************************************************************)
(* What a session and a reset link of an account may still do, for any     *)
(* number of browsers, tabs, links and threads, any times and any crashes; *)
(* and what a call of the stores it is kept in may rely on (StoreConn).    *)
(***************************************************************************)
EXTENDS Accounts, FiniteSetTheorems, TLAPS

Root   == [password : Nat, epoch : Nat, at : Nat]
Cookie == [epoch : Nat, exp : Nat, aexp : Nat, root : Root]
Row    == [password : Nat, epoch : Nat]
Link   == [row : {"none", "unused", "gone"}, expires : Nat, mailed : BOOLEAN,
           revoked : BOOLEAN, spent : Nat]

(* The parts of the state that the sessions depend on.                     *)
SessionType ==
  /\ now \in Nat /\ row \in Row
  /\ jar \in [Browsers -> Cookie \cup {NoCookie}]
  /\ req \in [Requests -> [at : {"idle", "in"}, cookie : Cookie \cup {NoCookie}]]
  /\ loop \in [at : {"free", "bump", "renew", "consume", "update"},
               link : Nat, by : SUBSET Requests]

(* A cookie keeps the absolute end that its log-in gave it.                *)
Timed(c) == c # NoCookie => c.aexp = c.root.at + SessionTtl /\ c.exp <= c.aexp

(* A cookie of the epoch of row r goes back to a log-in of that epoch, and *)
(* of that password unless a change of it is under way (at) or was torn.   *)
Rooted(c, r, at, t) ==
  c # NoCookie =>
    /\ c.epoch <= r.epoch
    /\ c.epoch = r.epoch =>
         /\ c.root.epoch = r.epoch
         /\ c.root.password = r.password \/ at = "bump" \/ t

Sound(c, r, at, t) == c \in Cookie \cup {NoCookie} /\ Timed(c) /\ Rooted(c, r, at, t)

CookiesSound ==
  /\ \A b \in Browsers : Sound(jar[b], row, loop.at, torn)
  /\ \A q \in Requests : Sound(req[q].cookie, row, loop.at, torn)

(* Before the account is there nobody has a session.                       *)
NobodyIn ==
  /\ \A b \in Browsers : jar[b] = NoCookie
  /\ \A q \in Requests : req[q] = Idle
  /\ loop.at \notin {"bump", "renew"}

SessionInv == SessionType /\ CookiesSound /\ (row.password = 0 => NobodyIn)

-----------------------------------------------------------------------------
(* Cookies over a step *)

LEMMA KeptSound ==
  ASSUME NEW c, NEW r, NEW at, NEW t, NEW at2, NEW t2,
         Sound(c, r, at, t), at = "bump" \/ t => at2 = "bump" \/ t2
  PROVE  Sound(c, r, at2, t2)
  BY DEF Sound, Rooted

LEMMA BumpedSound ==
  ASSUME NEW c, NEW r \in Row, NEW at, NEW t, NEW at2, NEW t2, Sound(c, r, at, t)
  PROVE  Sound(c, [r EXCEPT !.epoch = @ + 1], at2, t2)
  BY DEF Sound, Rooted, Row, Cookie

LEMMA ChangedSound ==
  ASSUME NEW c, NEW r \in Row, NEW at, NEW t, NEW t2, Sound(c, r, at, t)
  PROVE  Sound(c, [r EXCEPT !.password = @ + 1], "bump", t2)
  BY DEF Sound, Rooted, Row

LEMMA MadeSound ==
  ASSUME NEW r \in Row, NEW aexp \in Nat, NEW root \in Root, NEW at, NEW t,
         now \in Nat, aexp = root.at + SessionTtl, root.epoch = r.epoch,
         root.password = r.password \/ at = "bump" \/ t
  PROVE  Sound(makeSession(r, aexp, root), r, at, t)
<1>1. IdleTimeout \in Nat
  BY AccountsAssumption
<1>2. Earlier(now + IdleTimeout, aexp) \in Nat /\ Earlier(now + IdleTimeout, aexp) <= aexp
  BY <1>1 DEF Earlier
<1>3. QED
  BY <1>2 DEF Sound, Timed, Rooted, makeSession, Cookie, Row

LEMMA NewSound ==
  ASSUME NEW r \in Row, NEW at, NEW t, now \in Nat
  PROVE  Sound(newSession(r), r, at, t)
<1> DEFINE root == [password |-> r.password, epoch |-> r.epoch, at |-> now]
<1>1. SessionTtl \in Nat
  BY AccountsAssumption
<1>2. root \in Root /\ now + SessionTtl \in Nat
  BY <1>1 DEF Root, Row
<1>3. /\ now + SessionTtl = root.at + SessionTtl
      /\ root.epoch = r.epoch /\ root.password = r.password
  OBVIOUS
<1> HIDE DEF root
<1>4. Sound(makeSession(r, now + SessionTtl, root), r, at, t)
  BY <1>2, <1>3, MadeSound
<1>5. QED
  BY <1>4 DEF newSession, root

LEMMA ReissuedSound ==
  ASSUME SessionType, NEW c, Sound(c, row, loop.at, torn), Accepted(c)
  PROVE  Sound(reissue(c), row, loop.at, torn)
<1>1. c \in Cookie /\ c # NoCookie /\ c.epoch = row.epoch
  BY DEF Accepted, Sound
<1>2. /\ c.aexp \in Nat /\ c.root \in Root
      /\ c.aexp = c.root.at + SessionTtl /\ c.root.epoch = row.epoch
      /\ c.root.password = row.password \/ loop.at = "bump" \/ torn
  BY <1>1 DEF Cookie, Sound, Timed, Rooted
<1>3. Sound(makeSession(row, c.aexp, c.root), row, loop.at, torn)
  BY <1>2, MadeSound DEF SessionType
<1>4. Sound(NoCookie, row, loop.at, torn)
  BY DEF Sound, Timed, Rooted
<1>5. QED
  BY <1>3, <1>4 DEF reissue

-----------------------------------------------------------------------------
(* Answers *)

LEMMA RespondedSound ==
  ASSUME jar \in [Browsers -> Cookie \cup {NoCookie}],
         NEW b, NEW c, NEW r, NEW at, NEW t, respond(b, c),
         Sound(c, r, at, t), \A x \in Browsers : Sound(jar[x], r, at, t)
  PROVE  /\ jar' \in [Browsers -> Cookie \cup {NoCookie}]
         /\ \A x \in Browsers : Sound(jar'[x], r, at, t)
<1>1. c \in Cookie \cup {NoCookie}
  BY DEF Sound
<1>2. jar' \in [Browsers -> Cookie \cup {NoCookie}]
  BY <1>1 DEF respond
<1>3. ASSUME NEW x \in Browsers PROVE jar'[x] = c \/ jar'[x] = jar[x]
  BY DEF respond
<1>4. QED
  BY <1>2, <1>3

LEMMA NoCookieSound == ASSUME NEW r, NEW at, NEW t PROVE Sound(NoCookie, r, at, t)
  BY DEF Sound, Timed, Rooted

(* The cookies as they are, under what the row, the handler and the        *)
(* history say after a step that weakens nothing.                          *)
LEMMA CookiesKept ==
  ASSUME CookiesSound, NEW at, NEW t, loop.at = "bump" \/ torn => at = "bump" \/ t
  PROVE  /\ \A b \in Browsers : Sound(jar[b], row, at, t)
         /\ \A q \in Requests : Sound(req[q].cookie, row, at, t)
  BY KeptSound DEF CookiesSound

LEMMA CookiesBumped ==
  ASSUME CookiesSound, row \in Row, NEW at, NEW t
  PROVE  LET r == [row EXCEPT !.epoch = @ + 1]
         IN  /\ r \in Row
             /\ \A b \in Browsers : Sound(jar[b], r, at, t)
             /\ \A q \in Requests : Sound(req[q].cookie, r, at, t)
<1> DEFINE r == [row EXCEPT !.epoch = @ + 1]
<1>1. r \in Row
  BY DEF Row
<1>2. ASSUME NEW b \in Browsers PROVE Sound(jar[b], r, at, t)
  BY BumpedSound DEF CookiesSound
<1>3. ASSUME NEW q \in Requests PROVE Sound(req[q].cookie, r, at, t)
  BY BumpedSound DEF CookiesSound
<1>4. QED
  BY <1>1, <1>2, <1>3

LEMMA CookiesChanged ==
  ASSUME CookiesSound, row \in Row, NEW t
  PROVE  LET r == [row EXCEPT !.password = @ + 1]
         IN  /\ r \in Row /\ r.password # 0
             /\ \A b \in Browsers : Sound(jar[b], r, "bump", t)
             /\ \A q \in Requests : Sound(req[q].cookie, r, "bump", t)
<1> DEFINE r == [row EXCEPT !.password = @ + 1]
<1>1. r \in Row /\ r.password # 0
  BY DEF Row
<1>2. ASSUME NEW b \in Browsers PROVE Sound(jar[b], r, "bump", t)
  BY ChangedSound DEF CookiesSound
<1>3. ASSUME NEW q \in Requests PROVE Sound(req[q].cookie, r, "bump", t)
  BY ChangedSound DEF CookiesSound
<1>4. QED
  BY <1>1, <1>2, <1>3

-----------------------------------------------------------------------------
(* One step *)

LEMMA IdleIs == Idle \in [at : {"idle", "in"}, cookie : Cookie \cup {NoCookie}]
  BY DEF Idle

LEMMA SessionInit == Init => SessionInv
  BY NoCookieSound
     DEF Init, SessionInv, SessionType, CookiesSound, NobodyIn, Row, Free, Idle, Requests

(* Steps that leave all of it alone.                                       *)
LEMMA ApartKeeps ==
  ASSUME SessionInv, UNCHANGED <<row, jar, req, loop, torn>>, now' \in Nat
  PROVE  SessionInv'
  BY DEF SessionInv, SessionType, CookiesSound, NobodyIn

LEMMA SignUpKeeps == ASSUME SessionInv, NEW b \in Browsers, SignUp(b) PROVE SessionInv'
<1>1. NobodyIn /\ row' \in Row /\ row'.password = 1 /\ now \in Nat
  BY DEF SignUp, SessionInv, SessionType, Row
<1>2. \A x \in Browsers : Sound(jar[x], row', loop.at, torn)
  BY <1>1, NoCookieSound DEF NobodyIn
<1>3. \A q \in Requests : Sound(req[q].cookie, row', loop.at, torn)
  BY <1>1, NoCookieSound DEF NobodyIn, Idle
<1>4. Sound(newSession(row'), row', loop.at, torn)
  BY <1>1, NewSound
<1>5. respond(b, newSession(row')) /\ jar \in [Browsers -> Cookie \cup {NoCookie}]
  BY DEF SignUp, SessionInv, SessionType
<1>6. /\ jar' \in [Browsers -> Cookie \cup {NoCookie}]
      /\ \A x \in Browsers : Sound(jar'[x], row', loop.at, torn)
  BY <1>2, <1>4, <1>5, RespondedSound
<1>7. UNCHANGED <<now, req, loop, torn>>
  BY DEF SignUp, history
<1>8. QED
  BY <1>1, <1>3, <1>6, <1>7 DEF SessionInv, SessionType, CookiesSound

LEMMA LogInKeeps == ASSUME SessionInv, NEW b \in Browsers, LogIn(b) PROVE SessionInv'
<1>1. row \in Row /\ now \in Nat /\ row.password # 0
      /\ jar \in [Browsers -> Cookie \cup {NoCookie}]
      /\ \A x \in Browsers : Sound(jar[x], row, loop.at, torn)
  BY DEF LogIn, SessionInv, SessionType, CookiesSound
<1>2. Sound(newSession(row), row, loop.at, torn)
  BY <1>1, NewSound
<1>3. respond(b, newSession(row)) /\ UNCHANGED <<now, row, req, loop, torn>>
  BY DEF LogIn, history
<1>4. /\ jar' \in [Browsers -> Cookie \cup {NoCookie}]
      /\ \A x \in Browsers : Sound(jar'[x], row, loop.at, torn)
  BY <1>1, <1>2, <1>3, RespondedSound
<1>5. QED
  BY <1>1, <1>3, <1>4 DEF SessionInv, SessionType, CookiesSound

LEMMA LogOutKeeps == ASSUME SessionInv, NEW b \in Browsers, LogOut(b) PROVE SessionInv'
<1>1. jar' = [jar EXCEPT ![b] = NoCookie] /\ UNCHANGED <<now, row, req, loop, torn>>
  BY DEF LogOut
<1>2. \A x \in Browsers : jar'[x] = NoCookie \/ jar'[x] = jar[x]
  BY <1>1 DEF SessionInv, SessionType
<1>3. jar' \in [Browsers -> Cookie \cup {NoCookie}]
  BY <1>1 DEF SessionInv, SessionType
<1>4. \A x \in Browsers : Sound(jar'[x], row, loop.at, torn)
  BY <1>2, NoCookieSound DEF SessionInv, CookiesSound
<1>5. QED
  BY <1>1, <1>2, <1>3, <1>4 DEF SessionInv, SessionType, CookiesSound, NobodyIn

LEMMA AuthenticateKeeps ==
  ASSUME SessionInv, NEW q \in Requests, Authenticate(q) PROVE SessionInv'
<1> DEFINE c == reissue(jar[q[1]])
<1>1. q[1] \in Browsers
  BY DEF Requests
<1>2. SessionType /\ Sound(jar[q[1]], row, loop.at, torn) /\ Accepted(jar[q[1]])
  BY <1>1 DEF SessionInv, CookiesSound, Authenticate
<1>3. Sound(c, row, loop.at, torn) /\ row.password # 0
  BY <1>2, ReissuedSound DEF Accepted
<1>4. /\ req' = [req EXCEPT ![q] = [at |-> "in", cookie |-> c]]
      /\ UNCHANGED <<now, row, jar, loop, torn>>
  BY DEF Authenticate, history
<1>5. c \in Cookie \cup {NoCookie}
  BY <1>3 DEF Sound
<1> HIDE DEF c
<1>6. req' \in [Requests -> [at : {"idle", "in"}, cookie : Cookie \cup {NoCookie}]]
  BY <1>2, <1>4, <1>5 DEF SessionType
<1>7. \A x \in Requests : req'[x].cookie = c \/ req'[x].cookie = req[x].cookie
  BY <1>2, <1>4 DEF SessionType
<1>8. \A x \in Requests : Sound(req'[x].cookie, row, loop.at, torn)
  BY <1>3, <1>7 DEF SessionInv, CookiesSound
<1>9. QED
  BY <1>3, <1>4, <1>6, <1>8 DEF SessionInv, SessionType, CookiesSound
(* A request that is over, its cookie with it.                             *)
LEMMA DoneSound ==
  ASSUME SessionType, NEW Over, NEW r, NEW at, NEW t,
         \A q \in Requests : Sound(req[q].cookie, r, at, t),
         req' = [q \in Requests |-> IF q \in Over THEN Idle ELSE req[q]]
  PROVE  /\ req' \in [Requests -> [at : {"idle", "in"}, cookie : Cookie \cup {NoCookie}]]
         /\ \A q \in Requests : Sound(req'[q].cookie, r, at, t)
<1>1. Idle.cookie = NoCookie
  BY DEF Idle
<1>2. \A q \in Requests : req'[q] = Idle \/ req'[q] = req[q]
  OBVIOUS
<1>3. QED
  BY <1>1, <1>2, IdleIs, NoCookieSound DEF SessionType

LEMMA ClosedIs ==
  ASSUME SessionType, NEW q, req' = [req EXCEPT ![q] = Idle]
  PROVE  req' = [x \in Requests |-> IF x \in {q} THEN Idle ELSE req[x]]
  BY DEF SessionType

LEMMA HandleKeeps ==
  ASSUME SessionInv, NEW q \in Requests, Handle(q) PROVE SessionInv'
<1>1. PICK c \in {req[q].cookie, NoCookie} : respond(q[1], c)
  BY DEF Handle
<1>2. /\ req' = [req EXCEPT ![q] = Idle] /\ UNCHANGED <<now, row, loop, torn>>
      /\ req[q].at = "in"
  BY DEF Handle, InHandler, history
<1>3. SessionType /\ (\A x \in Requests : Sound(req[x].cookie, row, loop.at, torn))
      /\ (\A x \in Browsers : Sound(jar[x], row, loop.at, torn))
  BY DEF SessionInv, CookiesSound
<1>4. Sound(c, row, loop.at, torn)
  BY <1>3, NoCookieSound
<1>5. /\ jar' \in [Browsers -> Cookie \cup {NoCookie}]
      /\ \A x \in Browsers : Sound(jar'[x], row, loop.at, torn)
  BY <1>1, <1>3, <1>4, RespondedSound DEF SessionType
<1>6. /\ req' \in [Requests -> [at : {"idle", "in"}, cookie : Cookie \cup {NoCookie}]]
      /\ \A x \in Requests : Sound(req'[x].cookie, row, loop.at, torn)
  <2>1. req' = [x \in Requests |-> IF x \in {q} THEN Idle ELSE req[x]]
    BY <1>2, <1>3, ClosedIs
  <2>2. QED
    BY <1>3, <2>1, DoneSound
<1>7. row.password # 0
  BY <1>2 DEF SessionInv, NobodyIn, Idle
<1>8. QED
  BY <1>2, <1>3, <1>5, <1>6, <1>7 DEF SessionInv, SessionType, CookiesSound

LEMMA LogOutAllKeeps ==
  ASSUME SessionInv, NEW q \in Requests, LogOutAll(q) PROVE SessionInv'
<1> DEFINE r == [row EXCEPT !.epoch = @ + 1]
<1>1. /\ row' = r /\ torn' = FALSE /\ UNCHANGED <<now, loop>>
      /\ respond(q[1], req[q].cookie) /\ req' = [req EXCEPT ![q] = Idle]
      /\ req[q].at = "in"
  BY DEF LogOutAll, InHandler, bumpEpoch
<1>2. SessionType /\ row \in Row /\ CookiesSound
  BY DEF SessionInv, SessionType
<1>3. /\ r \in Row
      /\ \A x \in Browsers : Sound(jar[x], r, loop.at, FALSE)
      /\ \A x \in Requests : Sound(req[x].cookie, r, loop.at, FALSE)
  BY <1>2, CookiesBumped
<1>4. r.password = row.password
  BY <1>2 DEF Row
<1> HIDE DEF r
<1>5. /\ jar' \in [Browsers -> Cookie \cup {NoCookie}]
      /\ \A x \in Browsers : Sound(jar'[x], r, loop.at, FALSE)
  BY <1>1, <1>2, <1>3, RespondedSound DEF SessionType
<1>6. /\ req' \in [Requests -> [at : {"idle", "in"}, cookie : Cookie \cup {NoCookie}]]
      /\ \A x \in Requests : Sound(req'[x].cookie, r, loop.at, FALSE)
  <2>1. req' = [x \in Requests |-> IF x \in {q} THEN Idle ELSE req[x]]
    BY <1>1, <1>2, ClosedIs
  <2>2. QED
    BY <1>2, <1>3, <2>1, DoneSound
<1>7. row.password # 0
  BY <1>1 DEF SessionInv, NobodyIn, Idle
<1>8. QED
  BY <1>1, <1>2, <1>3, <1>4, <1>5, <1>6, <1>7 DEF SessionInv, SessionType, CookiesSound

LEMMA ChangePasswordKeeps ==
  ASSUME SessionInv, NEW q \in Requests, ChangePassword(q) PROVE SessionInv'
<1> DEFINE r == [row EXCEPT !.password = @ + 1]
<1>1. /\ row' = r /\ UNCHANGED <<now, jar, req, torn>>
      /\ loop' = [at |-> "bump", link |-> 0, by |-> {q}]
  BY DEF ChangePassword, setPassword, history
<1>2. SessionType /\ row \in Row /\ CookiesSound
  BY DEF SessionInv, SessionType
<1>3. /\ r \in Row /\ r.password # 0
      /\ \A x \in Browsers : Sound(jar[x], r, "bump", torn)
      /\ \A x \in Requests : Sound(req[x].cookie, r, "bump", torn)
  BY <1>2, CookiesChanged
<1> HIDE DEF r
<1>4. loop'.at = "bump" /\ SessionType'
  BY <1>1, <1>2, <1>3 DEF SessionType
<1>5. QED
  BY <1>1, <1>3, <1>4 DEF SessionInv, CookiesSound

LEMMA UpdateKeeps == ASSUME SessionInv, Update PROVE SessionInv'
<1> DEFINE r == [row EXCEPT !.password = @ + 1]
<1>1. /\ row' = r /\ UNCHANGED <<now, jar, req, torn>>
      /\ loop' = [loop EXCEPT !.at = "bump"]
  BY DEF Update, setPassword, history
<1>2. SessionType /\ row \in Row /\ CookiesSound
  BY DEF SessionInv, SessionType
<1>3. /\ r \in Row /\ r.password # 0
      /\ \A x \in Browsers : Sound(jar[x], r, "bump", torn)
      /\ \A x \in Requests : Sound(req[x].cookie, r, "bump", torn)
  BY <1>2, CookiesChanged
<1> HIDE DEF r
<1>4. loop'.at = "bump" /\ SessionType'
  BY <1>1, <1>2, <1>3 DEF SessionType
<1>5. QED
  BY <1>1, <1>3, <1>4 DEF SessionInv, CookiesSound

LEMMA FreeIs ==
  Free \in [at : {"free", "bump", "renew", "consume", "update"},
            link : Nat, by : SUBSET Requests]
  BY DEF Free

LEMMA BumpKeeps == ASSUME SessionInv, Bump PROVE SessionInv'
<1> DEFINE r == [row EXCEPT !.epoch = @ + 1]
<1>1. /\ row' = r /\ torn' = FALSE /\ UNCHANGED <<now, jar, req>> /\ loop.at = "bump"
      /\ loop' = IF loop.link # 0 THEN Free ELSE [loop EXCEPT !.at = "renew"]
  BY DEF Bump, bumpEpoch
<1>2. SessionType /\ row \in Row /\ CookiesSound
  BY DEF SessionInv, SessionType
<1>3. /\ r \in Row
      /\ \A x \in Browsers : Sound(jar[x], r, loop'.at, FALSE)
      /\ \A x \in Requests : Sound(req[x].cookie, r, loop'.at, FALSE)
  BY <1>2, CookiesBumped
<1>4. r.password = row.password
  BY <1>2 DEF Row
<1> HIDE DEF r
<1>5. SessionType'
  BY <1>1, <1>2, <1>3, FreeIs DEF SessionType
<1>6. row.password # 0
  BY <1>1 DEF SessionInv, NobodyIn
<1>7. QED
  BY <1>1, <1>3, <1>4, <1>5, <1>6 DEF SessionInv, CookiesSound

LEMMA RenewKeeps == ASSUME SessionInv, Renew PROVE SessionInv'
<1>1. PICK q \in loop.by : respond(q[1], newSession(row)) /\ req' = [req EXCEPT ![q] = Idle]
  BY DEF Renew
<1>2. /\ loop.at = "renew" /\ loop' = Free /\ UNCHANGED <<now, row, torn>>
  BY DEF Renew
<1>3. SessionType /\ CookiesSound /\ row \in Row /\ now \in Nat
      /\ jar \in [Browsers -> Cookie \cup {NoCookie}]
  BY DEF SessionInv, SessionType
<1>4. loop'.at = "free" /\ (loop.at = "bump" \/ torn => loop'.at = "bump" \/ torn)
  BY <1>2 DEF Free
<1>5. /\ \A x \in Browsers : Sound(jar[x], row, loop'.at, torn)
      /\ \A x \in Requests : Sound(req[x].cookie, row, loop'.at, torn)
  BY <1>3, <1>4, CookiesKept
<1>6. Sound(newSession(row), row, loop'.at, torn)
  BY <1>3, NewSound
<1>7. /\ jar' \in [Browsers -> Cookie \cup {NoCookie}]
      /\ \A x \in Browsers : Sound(jar'[x], row, loop'.at, torn)
  BY <1>1, <1>3, <1>5, <1>6, RespondedSound
<1>8. /\ req' \in [Requests -> [at : {"idle", "in"}, cookie : Cookie \cup {NoCookie}]]
      /\ \A x \in Requests : Sound(req'[x].cookie, row, loop'.at, torn)
  <2>1. req' = [x \in Requests |-> IF x \in {q} THEN Idle ELSE req[x]]
    BY <1>1, <1>3, ClosedIs
  <2>2. QED
    BY <1>3, <1>5, <2>1, DoneSound
<1>9. row.password # 0
  BY <1>2 DEF SessionInv, NobodyIn
<1>10. QED
  BY <1>2, <1>3, <1>7, <1>8, <1>9, FreeIs DEF SessionInv, SessionType, CookiesSound
LEMMA LookUpKeeps == ASSUME SessionInv, NEW l \in Links, LookUp(l) PROVE SessionInv'
<1>1. /\ UNCHANGED <<now, row, jar, req, torn>> /\ loop = Free
      /\ loop' = [at |-> "consume", link |-> l, by |-> {}]
  BY DEF LookUp, history
<1>2. SessionType' /\ (loop.at = "bump" \/ torn => loop'.at = "bump" \/ torn)
      /\ loop'.at = "consume"
  BY <1>1 DEF SessionInv, SessionType, Links, Free
<1>3. CookiesSound'
  <2>1. /\ \A x \in Browsers : Sound(jar[x], row, loop'.at, torn)
        /\ \A x \in Requests : Sound(req[x].cookie, row, loop'.at, torn)
    BY <1>2, CookiesKept DEF SessionInv
  <2>2. QED
    BY <1>1, <2>1 DEF CookiesSound
<1>4. QED
  BY <1>1, <1>2, <1>3 DEF SessionInv, NobodyIn

LEMMA ConsumeKeeps == ASSUME SessionInv, Consume PROVE SessionInv'
<1>1. /\ UNCHANGED <<now, row, jar, req, torn>> /\ loop.at = "consume"
      /\ loop' = [loop EXCEPT !.at = "update"] \/ loop' = Free
  BY DEF Consume, history
<1>2. SessionType' /\ (loop.at = "bump" \/ torn => loop'.at = "bump" \/ torn)
      /\ loop'.at \in {"update", "free"}
  BY <1>1, FreeIs DEF SessionInv, SessionType, Free
<1>3. CookiesSound'
  <2>1. /\ \A x \in Browsers : Sound(jar[x], row, loop'.at, torn)
        /\ \A x \in Requests : Sound(req[x].cookie, row, loop'.at, torn)
    BY <1>2, CookiesKept DEF SessionInv
  <2>2. QED
    BY <1>1, <2>1 DEF CookiesSound
<1>4. QED
  BY <1>1, <1>2, <1>3 DEF SessionInv, NobodyIn

(* A handler that is cut short, with some or all requests.                 *)
LEMMA CutShortKeeps ==
  ASSUME SessionInv, UNCHANGED <<now, row, jar>>, NEW Over,
         req' = [q \in Requests |-> IF q \in Over THEN Idle ELSE req[q]],
         loop' = Free, torn' = (torn \/ loop.at = "bump")
  PROVE  SessionInv'
<1>1. SessionType /\ CookiesSound
  BY DEF SessionInv
<1>2. loop'.at = "free" /\ (loop.at = "bump" \/ torn => loop'.at = "bump" \/ torn')
  BY DEF Free
<1>3. /\ \A x \in Browsers : Sound(jar[x], row, loop'.at, torn')
      /\ \A x \in Requests : Sound(req[x].cookie, row, loop'.at, torn')
  BY <1>1, <1>2, CookiesKept
<1>4. /\ req' \in [Requests -> [at : {"idle", "in"}, cookie : Cookie \cup {NoCookie}]]
      /\ \A q \in Requests : Sound(req'[q].cookie, row, loop'.at, torn')
  BY <1>1, <1>3, DoneSound
<1>5. SessionType'
  BY <1>1, <1>4, FreeIs DEF SessionType
<1>6. NobodyIn => NobodyIn'
  BY <1>2 DEF NobodyIn
<1>7. CookiesSound'
  BY <1>3, <1>4 DEF CookiesSound
<1>8. QED
  BY <1>5, <1>6, <1>7 DEF SessionInv

LEMMA ScopeIs ==
  ASSUME scope \in Scopes
  PROVE  scope.browsers \subseteq Browsers /\ scope.links \in 0 .. MaxLinks
  BY AccountsAssumption

LEMMA SessionNext ==
  ASSUME scope \in Scopes, SessionInv, [Next]_vars PROVE SessionInv'
<1> USE ScopeIs
<1>1. ASSUME NEW b \in scope.browsers, SignUp(b) \/ LogIn(b) \/ LogOut(b) PROVE SessionInv'
  BY <1>1, SignUpKeeps, LogInKeeps, LogOutKeeps
<1>2. ASSUME NEW q \in scope.browsers \X Tabs,
             Authenticate(q) \/ Handle(q) \/ LogOutAll(q) \/ ChangePassword(q)
      PROVE SessionInv'
  <2>1. q \in Requests
    BY DEF Requests
  <2>2. QED
    BY <1>2, <2>1, AuthenticateKeeps, HandleKeeps, LogOutAllKeeps, ChangePasswordKeeps
<1>3. CASE Bump \/ Renew \/ Consume \/ Update
  BY <1>3, BumpKeeps, RenewKeeps, ConsumeKeeps, UpdateKeeps
<1>4. ASSUME NEW k \in Tasks,
             DeleteOld(k) \/ Invalidate(k) \/ Create(k) \/ Send(k) \/ TaskFails(k)
      PROVE SessionInv'
  <2>1. UNCHANGED <<row, jar, req, loop, torn>> /\ now' = now
    BY <1>4 DEF DeleteOld, Invalidate, Create, Send, TaskFails, history
  <2>2. QED
    BY <2>1, ApartKeeps DEF SessionInv, SessionType
<1>5. CASE Forget \/ Tick \/ UNCHANGED vars
  <2>1. UNCHANGED <<row, jar, req, loop, torn>> /\ (now' = now \/ now' = now + 1)
    BY <1>5 DEF Forget, Tick, vars, history
  <2>2. QED
    BY <2>1, ApartKeeps DEF SessionInv, SessionType
<1>6. ASSUME NEW l \in Links, LookUp(l) PROVE SessionInv'
  BY <1>6, LookUpKeeps
<1>7. CASE HandlerFails
  BY <1>7, CutShortKeeps DEF HandlerFails
<1>8. CASE Crash
  <2>1. req' = [q \in Requests |-> IF q \in Requests THEN Idle ELSE req[q]]
    BY <1>8 DEF Crash
  <2>2. QED
    BY <1>8, <2>1, CutShortKeeps DEF Crash
<1>9. QED
  BY <1>1, <1>2, <1>3, <1>4, <1>5, <1>6, <1>7, <1>8 DEF Next

LEMMA ScopeStays == ASSUME [Next]_vars PROVE scope' = scope
  BY DEF Next, vars, SignUp, LogIn, LogOut, Authenticate, Handle, LogOutAll,
         ChangePassword, Bump, Renew, Forget, DeleteOld, Invalidate, Create, Send,
         TaskFails, LookUp, Consume, Update, HandlerFails, Crash, Tick

LEMMA SessionsAlways == Spec => [](scope \in Scopes /\ SessionInv)
<1>1. Init => scope \in Scopes /\ SessionInv
  BY SessionInit DEF Init
<1>2. (scope \in Scopes /\ SessionInv) /\ [Next]_vars => (scope \in Scopes /\ SessionInv)'
  BY SessionNext, ScopeStays
<1>3. QED
  BY <1>1, <1>2, PTL DEF Spec

(* require_auth accepts only a session that goes back to a log-in of this  *)
(* session_epoch and of the password of today, unless a change of it is    *)
(* between its two writes or was cut short there.                          *)
THEOREM SessionsRootedHolds == Spec => []SessionsRooted
<1>1. SessionInv => SessionsRooted
  <2> SUFFICES ASSUME SessionInv, NEW c \in Cookies, Accepted(c)
               PROVE  /\ c.root.epoch = row.epoch
                      /\ c.root.password = row.password \/ loop.at = "bump" \/ torn
    BY DEF SessionsRooted
  <2>1. Sound(c, row, loop.at, torn)
    BY DEF SessionInv, CookiesSound, Cookies
  <2>2. QED
    BY <2>1 DEF Sound, Rooted, Accepted
<1>2. QED
  BY <1>1, SessionsAlways, PTL

(* Sliding re-issues never carry a session past SessionTtl after its       *)
(* log-in, give or take the clock skew.                                    *)
THEOREM SessionsEndHolds == Spec => []SessionsEnd
<1>1. SessionInv => SessionsEnd
  <2> SUFFICES ASSUME SessionInv, NEW c \in Cookies, Accepted(c)
               PROVE  now < c.root.at + SessionTtl + Skew
    BY DEF SessionsEnd
  <2>1. Sound(c, row, loop.at, torn)
    BY DEF SessionInv, CookiesSound, Cookies
  <2>2. /\ c.aexp = c.root.at + SessionTtl /\ c.exp <= c.aexp
        /\ c.exp \in Nat /\ c.aexp \in Nat /\ now < c.exp + Skew
    BY <2>1 DEF Sound, Timed, Accepted, Cookie
  <2>3. now \in Nat /\ Skew \in Nat
    BY AccountsAssumption DEF SessionInv, SessionType
  <2>4. now < c.aexp + Skew
    BY <2>2, <2>3
  <2>5. QED
    BY <2>2, <2>4
<1>2. QED
  BY <1>1, SessionsAlways, PTL

-----------------------------------------------------------------------------
(* Reset links *)

Task == [at : {"idle", "delete", "invalidate", "create", "send"}, start : Nat, link : Nat]

(* A link that is still there has not been spent nor revoked.              *)
Spendable(l) == l.row # "gone" => l.spent = 0 /\ ~l.revoked

LinkFine(l) == Spendable(l) /\ l.spent <= 1 /\ (l.spent = 1 => ~l.revoked)

(* The link that the handler has consumed is gone and was not revoked.     *)
InHand ==
  /\ loop.at = "consume" => loop.link \in Links
  /\ loop.at = "update" => /\ loop.link \in Links
                           /\ link[loop.link].row = "gone"
                           /\ link[loop.link].spent = 0 /\ ~link[loop.link].revoked

Issuing(k) == task[k].at \in {"invalidate", "create"}

(* One thread at a time issues a link, and has invalidated the others.     *)
IssuedAlone ==
  /\ \A k, m \in Tasks : Issuing(k) /\ Issuing(m) => k = m
  /\ \A k \in Tasks : task[k].at = "create" => \A l \in Links : link[l].row # "unused"
  /\ \A l, m \in Links : link[l].row = "unused" /\ link[m].row = "unused" => l = m

LinkInv ==
  /\ link \in [Links -> Link] /\ task \in [Tasks -> Task]
  /\ \A l \in Links : LinkFine(link[l])
  /\ InHand
  /\ ~overlap => IssuedAlone

LEMMA GoneIs ==
  ASSUME NEW l \in Link
  PROVE  /\ gone(l) \in Link /\ gone(l).row = "gone"
         /\ gone(l).spent = l.spent /\ gone(l).revoked = l.revoked
  BY DEF gone, Link

LEMMA RevokedIs ==
  ASSUME NEW l \in Link
  PROVE  /\ [gone(l) EXCEPT !.revoked = TRUE] \in Link
         /\ [gone(l) EXCEPT !.revoked = TRUE].row = "gone"
         /\ [gone(l) EXCEPT !.revoked = TRUE].spent = l.spent
         /\ [gone(l) EXCEPT !.revoked = TRUE].revoked = TRUE
  BY DEF gone, Link

LEMMA AsleepIs == Asleep \in Task /\ Asleep.at = "idle"
  BY DEF Asleep, Task

LEMMA LinkInit == Init => LinkInv
<1> SUFFICES ASSUME Init PROVE LinkInv
  OBVIOUS
<1>1. Unborn \in Link /\ Unborn.row = "none" /\ Unborn.spent = 0 /\ Unborn.revoked = FALSE
  BY DEF Unborn, Link
<1>2. link \in [Links -> Link] /\ \A l \in Links : link[l] = Unborn
  BY <1>1 DEF Init
<1>3. task \in [Tasks -> Task] /\ \A k \in Tasks : task[k] = Asleep
  BY AsleepIs DEF Init
<1>4. \A l \in Links : LinkFine(link[l]) /\ link[l].row # "unused"
  BY <1>1, <1>2 DEF LinkFine, Spendable
<1>5. InHand
  BY DEF Init, InHand, Free
<1>6. IssuedAlone
  BY <1>3, <1>4, AsleepIs DEF IssuedAlone, Issuing
<1>7. QED
  BY <1>2, <1>3, <1>4, <1>5, <1>6 DEF LinkInv

(* The links are left alone, and nobody begins to issue one.               *)
LEMMA LinksApart ==
  ASSUME LinkInv, UNCHANGED <<link, overlap>>, task' \in [Tasks -> Task],
         \A k \in Tasks : task'[k] = task[k] \/ task'[k].at \in {"idle", "delete"},
         loop' = loop \/ loop'.at \notin {"consume", "update"}
  PROVE  LinkInv'
<1>1. InHand'
  BY DEF LinkInv, InHand
<1>2. ~overlap => IssuedAlone'
  BY DEF LinkInv, IssuedAlone, Issuing
<1>3. QED
  BY <1>1, <1>2 DEF LinkInv

(* Some of the links become void, revoked or not, in a step of a thread.   *)
LEMMA LinksVoid ==
  ASSUME LinkInv, NEW Gone, link' \in [Links -> Link],
         \A l \in Links \ Gone : link'[l] = link[l],
         \A l \in Links \cap Gone : /\ link[l].row = "unused" /\ link'[l].row = "gone"
                                    /\ link'[l].spent = link[l].spent,
         loop' = loop
  PROVE  (\A l \in Links : LinkFine(link'[l])) /\ InHand'
<1>1. \A l \in Links : link[l].row = "gone" => link'[l] = link[l]
  OBVIOUS
<1>2. InHand'
  BY <1>1 DEF LinkInv, InHand
<1>3. ASSUME NEW l \in Links PROVE LinkFine(link'[l])
  <2>1. CASE l \in Gone
    BY <2>1 DEF LinkInv, LinkFine, Spendable
  <2>2. CASE l \notin Gone
    BY <2>2 DEF LinkInv
  <2>3. QED
    BY <2>1, <2>2
<1>4. QED
  BY <1>2, <1>3
LEMMA DeleteOldKeeps ==
  ASSUME LinkInv, NEW k \in Tasks, DeleteOld(k), now \in Nat PROVE LinkInv'
<1> DEFINE Gone == {l \in Links : link[l].row = "unused" /\ link[l].expires < now}
<1>1. /\ task[k].at = "delete" /\ loop' = loop
      /\ task' = [task EXCEPT ![k] = [at |-> "invalidate", start |-> now, link |-> 0]]
      /\ link' = [l \in Links |-> IF l \in Gone THEN gone(link[l]) ELSE link[l]]
      /\ overlap' = (overlap \/ \E other \in Tasks : task[other].at \in {"invalidate", "create"})
  BY DEF DeleteOld
<1>2. link' \in [Links -> Link] /\ task' \in [Tasks -> Task]
  BY <1>1, GoneIs DEF LinkInv, Task
<1>3. /\ \A l \in Links \ Gone : link'[l] = link[l]
      /\ \A l \in Links \cap Gone : /\ link[l].row = "unused" /\ link'[l].row = "gone"
                                    /\ link'[l].spent = link[l].spent
  BY <1>1, GoneIs DEF LinkInv
<1> HIDE DEF Gone
<1>4. (\A l \in Links : LinkFine(link'[l])) /\ InHand'
  BY <1>1, <1>2, <1>3, LinksVoid
<1>5. ASSUME ~overlap' PROVE IssuedAlone'
  <2>1. ~overlap /\ \A m \in Tasks : ~Issuing(m)
    BY <1>1, <1>5 DEF Issuing
  <2>2. \A m \in Tasks \ {k} : task'[m] = task[m]
    BY <1>1 DEF LinkInv
  <2>3. task'[k].at = "invalidate"
    BY <1>1 DEF LinkInv
  <2>4. \A l \in Links : link'[l].row = "unused" => link[l].row = "unused"
    BY <1>3
  <2>5. \A l, m \in Links : link'[l].row = "unused" /\ link'[m].row = "unused" => l = m
    BY <2>1, <2>4 DEF LinkInv, IssuedAlone
  <2>6. QED
    BY <2>1, <2>2, <2>3, <2>5 DEF IssuedAlone, Issuing
<1>6. QED
  BY <1>2, <1>4, <1>5 DEF LinkInv

LEMMA InvalidateKeeps ==
  ASSUME LinkInv, NEW k \in Tasks, Invalidate(k) PROVE LinkInv'
<1> DEFINE Gone == {l \in Links : link[l].row = "unused"}
<1>1. /\ task[k].at = "invalidate" /\ UNCHANGED <<loop, overlap>>
      /\ task' = [task EXCEPT ![k].at = "create"]
      /\ link' = [l \in Links |-> IF l \in Gone THEN [gone(link[l]) EXCEPT !.revoked = TRUE]
                                  ELSE link[l]]
  BY DEF Invalidate, history
<1>2. link' \in [Links -> Link]
  BY <1>1, RevokedIs DEF LinkInv
<1>3. task' \in [Tasks -> Task] /\ task'[k].at = "create"
      /\ \A m \in Tasks \ {k} : task'[m] = task[m]
  BY <1>1 DEF LinkInv, Task
<1>4. /\ \A l \in Links \ Gone : link'[l] = link[l]
      /\ \A l \in Links \cap Gone : /\ link[l].row = "unused" /\ link'[l].row = "gone"
                                    /\ link'[l].spent = link[l].spent
  BY <1>1, RevokedIs DEF LinkInv
<1>5. \A l \in Links : link'[l].row # "unused"
  BY <1>4
<1> HIDE DEF Gone
<1>6. (\A l \in Links : LinkFine(link'[l])) /\ InHand'
  BY <1>1, <1>2, <1>4, LinksVoid
<1>7. ASSUME ~overlap' PROVE IssuedAlone'
  BY <1>1, <1>3, <1>5, <1>7 DEF LinkInv, IssuedAlone, Issuing
<1>8. QED
  BY <1>2, <1>3, <1>6, <1>7 DEF LinkInv

LEMMA CreateKeeps ==
  ASSUME LinkInv, scope \in Scopes, NEW k \in Tasks, Create(k) PROVE LinkInv'
<1>1. PICK l \in 1 .. scope.links :
        /\ link[l].row = "none"
        /\ link' = [link EXCEPT ![l].row = "unused", ![l].expires = task[k].start + TokenTtl]
        /\ task' = [task EXCEPT ![k] = [at |-> "send", start |-> 0, link |-> l]]
  BY DEF Create
<1>2. task[k].at = "create" /\ UNCHANGED <<loop, overlap>>
  BY DEF Create, history
<1>3. l \in Links /\ l \in Nat
  BY ScopeIs, AccountsAssumption DEF Links
<1>4. task[k].start + TokenTtl \in Nat
  BY AccountsAssumption DEF LinkInv, Task
<1> DEFINE new == [link[l] EXCEPT !.row = "unused", !.expires = task[k].start + TokenTtl]
<1>5. link' = [link EXCEPT ![l] = new]
  BY <1>1, <1>3 DEF LinkInv
<1>6. /\ new \in Link /\ new.row = "unused"
      /\ new.spent = link[l].spent /\ new.revoked = link[l].revoked
  BY <1>3, <1>4 DEF LinkInv, Link
<1> HIDE DEF new
<1>7. /\ link' \in [Links -> Link] /\ link'[l] = new
      /\ \A m \in Links \ {l} : link'[m] = link[m]
  BY <1>3, <1>5, <1>6 DEF LinkInv
<1>8. /\ task' \in [Tasks -> Task] /\ task'[k].at = "send"
      /\ \A m \in Tasks \ {k} : task'[m] = task[m]
  BY <1>1, <1>3 DEF LinkInv, Task
<1>9. LinkFine(link'[l])
  BY <1>1, <1>3, <1>6, <1>7 DEF LinkInv, LinkFine, Spendable
<1>10. InHand'
  BY <1>1, <1>2, <1>7 DEF LinkInv, InHand
<1>11. ASSUME ~overlap' PROVE IssuedAlone'
  <2>1. IssuedAlone
    BY <1>2, <1>11 DEF LinkInv
  <2>2. /\ \A m \in Links : link[m].row # "unused"
        /\ \A m \in Tasks \ {k} : ~Issuing(m)
    BY <1>2, <2>1 DEF IssuedAlone, Issuing
  <2>3. \A m \in Links : link'[m].row = "unused" => m = l
    BY <1>7, <2>2
  <2>4. \A m \in Tasks : task'[m].at \notin {"invalidate", "create"}
    BY <1>8, <2>2 DEF Issuing
  <2>5. QED
    BY <2>3, <2>4 DEF IssuedAlone, Issuing
<1>12. QED
  BY <1>7, <1>8, <1>9, <1>10, <1>11 DEF LinkInv

(* Of a link only whether it was mailed changes.                           *)
LEMMA SendKeeps == ASSUME LinkInv, NEW k \in Tasks, Send(k) PROVE LinkInv'
<1> DEFINE l == task[k].link
           new == [link[l] EXCEPT !.mailed = (link[l].row = "unused")]
<1>1. /\ link' = [link EXCEPT ![l].mailed = (link[l].row = "unused")]
      /\ task' = [task EXCEPT ![k] = Asleep] /\ UNCHANGED <<loop, overlap>>
  BY DEF Send, history
<1>2. /\ task' \in [Tasks -> Task] /\ task'[k].at = "idle"
      /\ \A m \in Tasks \ {k} : task'[m] = task[m]
  BY <1>1, AsleepIs DEF LinkInv
<1>3. link' = [link EXCEPT ![l] = new]
  BY <1>1 DEF LinkInv
<1>4. ASSUME l \in Links
      PROVE  /\ new \in Link /\ new.row = link[l].row
             /\ new.spent = link[l].spent /\ new.revoked = link[l].revoked
  BY <1>4 DEF LinkInv, Link
<1> HIDE DEF new, l
<1>5. link' \in [Links -> Link]
  BY <1>3, <1>4 DEF LinkInv
<1>6. ASSUME NEW m \in Links
      PROVE  /\ link'[m].row = link[m].row /\ link'[m].spent = link[m].spent
             /\ link'[m].revoked = link[m].revoked
  BY <1>3, <1>4 DEF LinkInv
<1>7. \A m \in Links : LinkFine(link'[m])
  BY <1>6 DEF LinkInv, LinkFine, Spendable
<1>8. InHand'
  BY <1>1, <1>6 DEF LinkInv, InHand
<1>9. ~overlap' => IssuedAlone'
  BY <1>1, <1>2, <1>6 DEF LinkInv, IssuedAlone, Issuing
<1>10. QED
  BY <1>2, <1>5, <1>7, <1>8, <1>9 DEF LinkInv

LEMMA ConsumeLinkKeeps == ASSUME LinkInv, SessionType, Consume PROVE LinkInv'
<1>1. loop.at = "consume" /\ UNCHANGED <<task, overlap>>
  BY DEF Consume, history
<1>2. CASE link[loop.link].row = "unused"
  <2> DEFINE l == loop.link
  <2>1. l \in Links
    BY <1>1 DEF LinkInv, InHand
  <2>2. link' = [link EXCEPT ![l] = gone(link[l])] /\ loop' = [loop EXCEPT !.at = "update"]
    BY <1>2 DEF Consume
  <2>3. /\ gone(link[l]) \in Link /\ gone(link[l]).row = "gone"
        /\ gone(link[l]).spent = 0 /\ ~gone(link[l]).revoked
    BY <1>2, <2>1, GoneIs DEF LinkInv, LinkFine, Spendable
  <2>4. /\ link' \in [Links -> Link] /\ link'[l] = gone(link[l])
        /\ \A m \in Links \ {l} : link'[m] = link[m]
    BY <2>1, <2>2, <2>3 DEF LinkInv
  <2>5. loop'.at = "update" /\ loop'.link = l
    BY <2>2 DEF SessionType
  <2> HIDE DEF l
  <2>6. \A m \in Links : LinkFine(link'[m])
    BY <2>3, <2>4 DEF LinkInv, LinkFine, Spendable
  <2>7. InHand'
    BY <2>1, <2>3, <2>4, <2>5 DEF InHand
  <2>8. \A m \in Links : link'[m].row = "unused" => link[m].row = "unused"
    BY <2>3, <2>4
  <2>9. ~overlap' => IssuedAlone'
    BY <1>1, <2>8 DEF LinkInv, IssuedAlone, Issuing
  <2>10. QED
    BY <1>1, <2>4, <2>6, <2>7, <2>9 DEF LinkInv
<1>3. CASE link[loop.link].row # "unused"
  <2>1. loop' = Free /\ link' = link
    BY <1>3 DEF Consume
  <2>2. loop'.at = "free"
    BY <2>1 DEF Free
  <2>3. QED
    BY <1>1, <2>1, <2>2, LinksApart DEF LinkInv
<1>4. QED
  BY <1>2, <1>3

LEMMA UpdateLinkKeeps == ASSUME LinkInv, SessionType, Update PROVE LinkInv'
<1> DEFINE l == loop.link
           new == [link[l] EXCEPT !.spent = @ + 1]
<1>1. loop.at = "update" /\ UNCHANGED <<task, overlap>> /\ loop' = [loop EXCEPT !.at = "bump"]
      /\ link' = [link EXCEPT ![l].spent = @ + 1]
  BY DEF Update, history
<1>2. l \in Links /\ link[l].row = "gone" /\ link[l].spent = 0 /\ ~link[l].revoked
  BY <1>1 DEF LinkInv, InHand
<1>3. link' = [link EXCEPT ![l] = new]
  BY <1>1, <1>2 DEF LinkInv
<1>4. new \in Link /\ new.row = "gone" /\ new.spent = 1 /\ ~new.revoked
  BY <1>2 DEF LinkInv, Link
<1> HIDE DEF new, l
<1>5. /\ link' \in [Links -> Link] /\ link'[l] = new
      /\ \A m \in Links \ {l} : link'[m] = link[m]
  BY <1>2, <1>3, <1>4 DEF LinkInv
<1>6. \A m \in Links : LinkFine(link'[m])
  BY <1>4, <1>5 DEF LinkInv, LinkFine, Spendable
<1>7. InHand'
  BY <1>1 DEF InHand, SessionType
<1>8. \A m \in Links : link'[m].row = "unused" => link[m].row = "unused"
  BY <1>4, <1>5
<1>9. ~overlap' => IssuedAlone'
  BY <1>1, <1>8 DEF LinkInv, IssuedAlone, Issuing
<1>10. QED
  BY <1>1, <1>5, <1>6, <1>7, <1>9 DEF LinkInv

LEMMA LinkNext ==
  ASSUME scope \in Scopes, SessionInv, LinkInv, [Next]_vars PROVE LinkInv'
<1>1. CASE UNCHANGED <<link, task, overlap, loop>>
  BY <1>1, LinksApart DEF LinkInv
<1>2. ASSUME UNCHANGED <<link, task, overlap>>, loop'.at \in {"free", "bump", "renew"}
      PROVE  LinkInv'
  BY <1>2, LinksApart DEF LinkInv
<1>3. ASSUME NEW b \in Browsers, SignUp(b) \/ LogIn(b) \/ LogOut(b) PROVE LinkInv'
  BY <1>1, <1>3 DEF SignUp, LogIn, LogOut, history
<1>4. ASSUME NEW q \in Requests,
             Authenticate(q) \/ Handle(q) \/ LogOutAll(q) \/ ChangePassword(q)
      PROVE  LinkInv'
  <2>1. CASE Authenticate(q) \/ Handle(q) \/ LogOutAll(q)
    BY <1>1, <2>1 DEF Authenticate, Handle, LogOutAll, history
  <2>2. CASE ChangePassword(q)
    BY <1>2, <2>2 DEF ChangePassword, history
  <2>3. QED
    BY <1>4, <2>1, <2>2
<1>5. CASE Bump
  <2>1. loop'.at \in {"free", "renew"}
    BY <1>5 DEF Bump, Free, SessionInv, SessionType
  <2>2. QED
    BY <1>2, <1>5, <2>1 DEF Bump
<1>6. CASE Renew
  <2>1. loop'.at = "free"
    BY <1>6 DEF Renew, Free
  <2>2. QED
    BY <1>2, <1>6, <2>1 DEF Renew
<1>7. CASE Forget
  <2>1. UNCHANGED <<link, loop, overlap>>
    BY <1>7 DEF Forget, history
  <2>2. \/ task' = task
        \/ \E k \in scope.tasks : task' = [task EXCEPT ![k].at = "delete"]
    BY <1>7 DEF Forget
  <2>3. /\ task' \in [Tasks -> Task]
        /\ \A k \in Tasks : task'[k] = task[k] \/ task'[k].at \in {"idle", "delete"}
    BY <2>2 DEF LinkInv, Task
  <2>4. QED
    BY <2>1, <2>3, LinksApart
<1>8. ASSUME NEW k \in Tasks, TaskFails(k) PROVE LinkInv'
  <2>1. UNCHANGED <<link, loop, overlap>> /\ task' = [task EXCEPT ![k] = Asleep]
    BY <1>8 DEF TaskFails, history
  <2>2. /\ task' \in [Tasks -> Task]
        /\ \A m \in Tasks : task'[m] = task[m] \/ task'[m].at \in {"idle", "delete"}
    BY <2>1, AsleepIs DEF LinkInv
  <2>3. QED
    BY <2>1, <2>2, LinksApart
<1>9. ASSUME NEW k \in Tasks, DeleteOld(k) \/ Invalidate(k) \/ Create(k) \/ Send(k)
      PROVE  LinkInv'
  BY <1>9, DeleteOldKeeps, InvalidateKeeps, CreateKeeps, SendKeeps DEF SessionInv, SessionType
<1>10. ASSUME NEW l \in Links, LookUp(l) PROVE LinkInv'
  <2>1. /\ UNCHANGED <<link, task, overlap>> /\ loop' = [at |-> "consume", link |-> l, by |-> {}]
    BY <1>10 DEF LookUp, history
  <2>2. InHand'
    BY <2>1 DEF InHand
  <2>3. QED
    BY <2>1, <2>2 DEF LinkInv, IssuedAlone, Issuing
<1>11. CASE Consume \/ Update
  BY <1>11, ConsumeLinkKeeps, UpdateLinkKeeps DEF SessionInv
<1>12. CASE HandlerFails
  <2>1. loop'.at = "free"
    BY <1>12 DEF HandlerFails, Free
  <2>2. QED
    BY <1>2, <1>12, <2>1 DEF HandlerFails
<1>13. CASE Crash
  <2>1. /\ UNCHANGED <<link, overlap>> /\ task' = [k \in Tasks |-> Asleep] /\ loop' = Free
    BY <1>13 DEF Crash
  <2>2. /\ task' \in [Tasks -> Task] /\ loop'.at = "free"
        /\ \A k \in Tasks : task'[k].at = "idle"
    BY <2>1, AsleepIs DEF Free
  <2>3. QED
    BY <2>1, <2>2, LinksApart
<1>14. CASE Tick \/ UNCHANGED vars
  BY <1>1, <1>14 DEF Tick, vars, history
<1>15. scope.browsers \subseteq Browsers /\ scope.browsers \X Tabs \subseteq Requests
  BY ScopeIs DEF Requests
<1>16. QED
  BY <1>3, <1>4, <1>5, <1>6, <1>7, <1>8, <1>9, <1>10, <1>11, <1>12, <1>13, <1>14, <1>15
     DEF Next

LEMMA LinksAlways == Spec => []LinkInv
<1>1. LinkInv /\ (scope \in Scopes /\ SessionInv) /\ [Next]_vars => LinkInv'
  BY LinkNext
<1>2. QED
  BY <1>1, LinkInit, SessionsAlways, PTL DEF Spec
(* A reset link sets the password at most once and never after a newer one *)
(* has revoked it, whatever crashes or raising calls come in between.      *)
THEOREM LinkOnceHolds == Spec => []LinkOnce
<1>1. LinkInv => LinkOnce
  BY DEF LinkInv, LinkFine, Spendable, LinkOnce, Link
<1>2. QED
  BY <1>1, LinksAlways, PTL

(* One link works at a time, unless two threads were issuing theirs at     *)
(* once.                                                                   *)
THEOREM NewestLinkOnlyHolds == Spec => []NewestLinkOnly
<1>1. LinkInv => NewestLinkOnly
  <2> SUFFICES ASSUME LinkInv, ~overlap
               PROVE  Cardinality({l \in Links : link[l].row = "unused"}) <= 1
    BY DEF NewestLinkOnly
  <2> DEFINE S == {l \in Links : link[l].row = "unused"}
  <2>1. \A l, m \in S : l = m
    BY DEF LinkInv, IssuedAlone
  <2>2. S = {} \/ \E l \in S : S = {l}
    BY <2>1
  <2> HIDE DEF S
  <2>3. Cardinality(S) = 0 \/ Cardinality(S) = 1
    BY <2>2, FS_EmptySet, FS_Singleton
  <2>4. QED
    BY <2>3 DEF S
<1>2. QED
  BY <1>1, LinksAlways, PTL

-----------------------------------------------------------------------------
(* The calls of the stores *)

(* What a writing call of a store, such as mark_used or update_password    *)
(* above, may rely on: StoreConn, for any number of stores, retries and    *)
(* calls, over connections of their own or a shared one.                   *)
CONSTANTS Stores, Blobs, NoStore, Shared, Modes, MaxRetries, MaxCalls
VARIABLES mode, step, tries, calls, lock, up, pending, table, acked, lost

Store == INSTANCE StoreConn WITH at <- step


(* What is pending is on the store's own connection and later than the     *)
(* row, and neither is later than the store's last call.                   *)
Ordered ==
  \A s \in Stores :
    /\ table[s] <= calls[s]
    /\ \A c \in Store!Conns :
         \/ pending[c][s] = 0
         \/ c = Store!conn(s) /\ table[s] <= pending[c][s] /\ pending[c][s] <= calls[s]

(* Of a call that has executed its statement: its write is pending, or has *)
(* landed (with somebody else's commit), or went down.                     *)
Carried(s) == pending[Store!conn(s)][s] = calls[s] \/ table[s] = calls[s] \/ lost[s]

StoreInv ==
  /\ Store!TypeOK
  /\ Ordered
  /\ \A s \in Stores : step[s] = "commit" => Carried(s)
  /\ Store!AckedUnlessLost

LEMMA ConnIsConn == ASSUME NEW s \in Stores PROVE Store!conn(s) \in Store!Conns
  BY DEF Store!conn, Store!Conns

(* What lands moves rows on, to calls that were made.                      *)
LEMMA LandedMovesOn ==
  ASSUME Store!TypeOK, Ordered, NEW c \in Store!Conns
  PROVE  /\ Store!Landed(c) \in [Stores -> Nat]
         /\ \A s \in Stores : /\ table[s] <= Store!Landed(c)[s]
                              /\ Store!Landed(c)[s] <= calls[s]
                              /\ pending[c][s] = calls[s] => Store!Landed(c)[s] = calls[s]
<1>1. \A s \in Stores : table[s] \in Nat /\ pending[c][s] \in Nat /\ calls[s] \in Nat
  BY DEF Store!TypeOK
<1>2. Store!Landed(c) \in [Stores -> Nat]
  BY <1>1 DEF Store!Landed
<1>3. ASSUME NEW s \in Stores
      PROVE  /\ table[s] <= Store!Landed(c)[s]
             /\ Store!Landed(c)[s] <= calls[s]
             /\ pending[c][s] = calls[s] => Store!Landed(c)[s] = calls[s]
  <2>1. Store!Landed(c)[s] = IF pending[c][s] # 0 THEN pending[c][s] ELSE table[s]
    BY DEF Store!Landed
  <2>2. table[s] <= calls[s]
    BY DEF Ordered
  <2>3. pending[c][s] = 0 \/ (table[s] <= pending[c][s] /\ pending[c][s] <= calls[s])
    BY DEF Ordered
  <2>4. QED
    BY <1>1, <2>1, <2>2, <2>3
<1>4. QED
  BY <1>2, <1>3

(* What a step may do to the data: rows move on, what was pending stays or *)
(* is gone, a write that was carried is carried.                           *)
Moves ==
  /\ table' \in [Stores -> Nat] /\ pending' \in [Store!Conns -> [Stores -> Nat]]
  /\ lost' \in [Stores -> BOOLEAN]
  /\ \A s \in Stores :
       /\ table[s] <= table'[s] /\ table'[s] <= calls[s]
       /\ lost[s] => lost'[s]
       /\ \A c \in Store!Conns : \/ pending'[c][s] = 0
                                 \/ pending'[c][s] = pending[c][s] /\ table'[s] <= pending[c][s]
       /\ Carried(s) => \/ pending'[Store!conn(s)][s] = calls[s]
                        \/ table'[s] = calls[s] \/ lost'[s]

(* A connection whose statements are gone: they landed, or went down.      *)
LEMMA ClearingMoves ==
  ASSUME Store!TypeOK, Ordered, NEW c \in Store!Conns, NEW landed \in BOOLEAN,
         table' = IF landed THEN Store!Landed(c) ELSE table,
         pending' = [pending EXCEPT ![c] = Store!Nothing],
         lost' \in [Stores -> BOOLEAN],
         \A s \in Stores : lost'[s] = (lost[s] \/ (~landed /\ pending[c][s] # 0))
  PROVE  Moves
<1> DEFINE moved == IF landed THEN Store!Landed(c) ELSE table
<1>1. \A s \in Stores : table[s] \in Nat /\ calls[s] \in Nat /\ lost[s] \in BOOLEAN
  BY DEF Store!TypeOK
<1>2. pending \in [Store!Conns -> [Stores -> Nat]] /\ Store!Nothing \in [Stores -> Nat]
  BY DEF Store!TypeOK, Store!Nothing
<1>3. pending' \in [Store!Conns -> [Stores -> Nat]]
  BY <1>2
<1>4. table' \in [Stores -> Nat]
  BY LandedMovesOn DEF Store!TypeOK
<1>5. ASSUME NEW s \in Stores
      PROVE  /\ table[s] <= table'[s] /\ table'[s] <= calls[s]
             /\ lost[s] => lost'[s]
  <2>1. table[s] <= calls[s]
    BY DEF Ordered
  <2>2. table[s] <= Store!Landed(c)[s] /\ Store!Landed(c)[s] <= calls[s]
    BY LandedMovesOn
  <2>3. table'[s] = Store!Landed(c)[s] \/ table'[s] = table[s]
    OBVIOUS
  <2>4. table[s] <= table'[s] /\ table'[s] <= calls[s]
    BY <1>1, <2>1, <2>2, <2>3
  <2>5. lost[s] => lost'[s]
    OBVIOUS
  <2>6. QED
    BY <2>4, <2>5
<1>6. ASSUME NEW s \in Stores, NEW d \in Store!Conns
      PROVE  \/ pending'[d][s] = 0
             \/ pending'[d][s] = pending[d][s] /\ table'[s] <= pending[d][s]
  <2>1. CASE d = c
    BY <1>2, <2>1 DEF Store!Nothing
  <2>2. CASE d # c /\ pending[d][s] # 0
    <3>1. d = Store!conn(s) /\ table[s] <= pending[d][s]
      BY <2>2 DEF Ordered
    <3>2. pending[c][s] = 0
      BY <2>2, <3>1 DEF Ordered
    <3>3. table'[s] = table[s]
      BY <3>2 DEF Store!Landed
    <3>4. pending'[d][s] = pending[d][s]
      BY <1>2, <2>2
    <3>5. QED
      BY <3>1, <3>3, <3>4
  <2>3. CASE d # c /\ pending[d][s] = 0
    BY <1>2, <2>3
  <2>4. QED
    BY <2>1, <2>2, <2>3
<1>7. ASSUME NEW s \in Stores, Carried(s)
      PROVE  \/ pending'[Store!conn(s)][s] = calls[s]
             \/ table'[s] = calls[s] \/ lost'[s]
  <2>1. CASE lost[s]
    BY <1>5, <2>1
  <2>2. CASE table[s] = calls[s]
    BY <1>1, <1>4, <1>5, <2>2
  <2>3. CASE pending[Store!conn(s)][s] = calls[s] /\ Store!conn(s) # c
    BY <1>2, <2>3, ConnIsConn
  <2>4. CASE pending[Store!conn(s)][s] = calls[s] /\ Store!conn(s) = c /\ landed
    BY <2>4, LandedMovesOn
  <2>5. CASE pending[Store!conn(s)][s] = calls[s] /\ Store!conn(s) = c /\ ~landed
    <3>1. CASE calls[s] = 0
      BY <1>1, <3>1, <2>2 DEF Ordered
    <3>2. CASE calls[s] # 0
      BY <2>5, <3>2
    <3>3. QED
      BY <3>1, <3>2
  <2>6. QED
    BY <1>7, <2>1, <2>2, <2>3, <2>4, <2>5 DEF Carried
<1>8. QED
  BY <1>3, <1>4, <1>5, <1>6, <1>7 DEF Moves

(* A step that leaves the data alone.                                      *)
LEMMA StandingMoves ==
  ASSUME Store!TypeOK, Ordered, UNCHANGED <<pending, table, lost>>
  PROVE  Moves
<1>1. \A s \in Stores : table[s] \in Nat /\ calls[s] \in Nat
  BY DEF Store!TypeOK
<1>2. \A s \in Stores : table[s] <= table'[s] /\ table'[s] <= calls[s]
  BY <1>1 DEF Ordered
<1>3. \A s \in Stores, c \in Store!Conns :
        \/ pending'[c][s] = 0
        \/ pending'[c][s] = pending[c][s] /\ table'[s] <= pending[c][s]
  BY DEF Ordered
<1>4. QED
  BY <1>2, <1>3 DEF Moves, Store!TypeOK, Carried

(* What is enough for the invariant, when no call begins, executes or      *)
(* returns.                                                                *)
LEMMA MovesKeep ==
  ASSUME StoreInv, Moves, UNCHANGED <<mode, calls>>,
         step' \in [Stores -> {"idle", "execute", "commit", "close"}],
         tries' \in [Stores -> Nat], lock' \in Stores \cup {NoStore},
         up' \in [Store!Conns -> BOOLEAN],
         acked' \in [Stores -> Nat],
         \A s \in Stores : step'[s] = "commit" => step[s] = "commit",
         \A s \in Stores : acked'[s] = acked[s] \/ acked'[s] <= table'[s] \/ lost'[s]
  PROVE  StoreInv'
<1>1. Store!TypeOK'
  BY DEF Store!TypeOK, Moves, StoreInv
<1>2. \A s \in Stores : Store!conn(s)' = Store!conn(s)
  BY DEF Store!conn
<1>3. Ordered'
  <2>1. ASSUME NEW s \in Stores, NEW c \in Store!Conns
        PROVE  \/ pending'[c][s] = 0
               \/ c = Store!conn(s) /\ table'[s] <= pending'[c][s] /\ pending'[c][s] <= calls[s]
    BY DEF Moves, StoreInv, Ordered
  <2>2. \A s \in Stores : table'[s] <= calls[s]
    BY DEF Moves
  <2>3. QED
    BY <1>2, <2>1, <2>2 DEF Ordered, Store!Conns
<1>4. ASSUME NEW s \in Stores, step'[s] = "commit" PROVE Carried(s)'
  <2>1. Carried(s)
    BY <1>4 DEF StoreInv
  <2>2. pending'[Store!conn(s)][s] = calls[s] \/ table'[s] = calls[s] \/ lost'[s]
    BY <2>1 DEF Moves
  <2>3. QED
    BY <1>2, <2>2 DEF Carried
<1>5. Store!AckedUnlessLost'
  <2>1. ASSUME NEW s \in Stores PROVE acked'[s] <= table'[s] \/ lost'[s]
    <3>1. acked[s] \in Nat /\ table[s] \in Nat /\ table'[s] \in Nat
      BY <1>1 DEF Store!TypeOK, StoreInv
    <3>2. acked[s] <= table[s] \/ lost[s]
      BY DEF StoreInv, Store!AckedUnlessLost
    <3>3. table[s] <= table'[s] /\ (lost[s] => lost'[s])
      BY DEF Moves
    <3>4. CASE acked'[s] = acked[s]
      BY <3>1, <3>2, <3>3, <3>4
    <3>5. QED
      BY <3>4
  <2>2. QED
    BY <2>1 DEF Store!AckedUnlessLost
<1>6. QED
  BY <1>1, <1>3, <1>4, <1>5 DEF StoreInv

-----------------------------------------------------------------------------

LEMMA StoreInit == ASSUME Store!StoreConnAssumption, Store!Init PROVE StoreInv
<1>1. Store!TypeOK
  BY DEF Store!StoreConnAssumption, Store!Init, Store!TypeOK, Store!Nothing
<1>2. \A s \in Stores : table[s] = 0 /\ calls[s] = 0 /\ acked[s] = 0 /\ step[s] = "idle"
  BY DEF Store!Init, Store!Nothing
<1>3. \A c \in Store!Conns, s \in Stores : pending[c][s] = 0
  BY DEF Store!Init, Store!Nothing
<1>4. Ordered
  <2>1. ASSUME NEW s \in Stores PROVE table[s] <= calls[s]
    <3>1. table[s] = 0 /\ calls[s] = 0
      BY <1>2
    <3>2. QED
      BY <3>1
  <2>2. QED
    BY <1>3, <2>1 DEF Ordered
<1>5. Store!AckedUnlessLost
  <2>1. ASSUME NEW s \in Stores PROVE acked[s] <= table[s]
    <3>1. acked[s] = 0 /\ table[s] = 0
      BY <1>2
    <3>2. QED
      BY <3>1
  <2>2. QED
    BY <2>1 DEF Store!AckedUnlessLost
<1>6. \A s \in Stores : step[s] # "commit"
  BY <1>2
<1>7. QED
  BY <1>1, <1>4, <1>5, <1>6 DEF StoreInv

LEMMA BeginKeeps ==
  ASSUME StoreInv, NEW s \in Stores, Store!Begin(s)
  PROVE  StoreInv'
<1>1. calls' = [calls EXCEPT ![s] = calls[s] + 1] /\ step[s] = "idle"
      /\ step' = [step EXCEPT ![s] = "execute"]
      /\ UNCHANGED <<mode, tries, lock, pending, table, acked, lost>>
  BY DEF Store!Begin
<1>2. Store!TypeOK'
  <2>1. up' \in [Store!Conns -> BOOLEAN]
    BY DEF Store!Begin, StoreInv, Store!TypeOK
  <2>2. calls' \in [Stores -> Nat]
    BY <1>1 DEF StoreInv, Store!TypeOK
  <2>3. step' \in [Stores -> {"idle", "execute", "commit", "close"}]
    BY <1>1 DEF StoreInv, Store!TypeOK
  <2>4. QED
    BY <1>1, <2>1, <2>2, <2>3 DEF StoreInv, Store!TypeOK
<1>3. \A r \in Stores : calls[r] \in Nat /\ calls'[r] \in Nat /\ calls[r] <= calls'[r]
                         /\ table[r] \in Nat /\ \A c \in Store!Conns : pending[c][r] \in Nat
  BY <1>1 DEF StoreInv, Store!TypeOK
<1>4. \A r \in Stores : Store!conn(r)' = Store!conn(r)
  BY <1>1 DEF Store!conn
<1>5. Ordered'
  <2>1. \A r \in Stores : table'[r] <= calls'[r]
    BY <1>1, <1>3 DEF StoreInv, Ordered
  <2>2. ASSUME NEW r \in Stores, NEW c \in Store!Conns
        PROVE  \/ pending'[c][r] = 0
               \/ c = Store!conn(r) /\ table'[r] <= pending'[c][r] /\ pending'[c][r] <= calls'[r]
    BY <1>1, <1>3 DEF StoreInv, Ordered
  <2>3. QED
    BY <1>4, <2>1, <2>2 DEF Ordered, Store!Conns
<1>6. ASSUME NEW r \in Stores, step'[r] = "commit" PROVE Carried(r)'
  <2>1. r # s /\ step[r] = "commit" /\ calls'[r] = calls[r]
    BY <1>1, <1>6 DEF StoreInv, Store!TypeOK
  <2>2. Carried(r)
    BY <2>1 DEF StoreInv
  <2>3. QED
    BY <1>1, <1>4, <2>1, <2>2 DEF Carried
<1>7. Store!AckedUnlessLost'
  BY <1>1 DEF StoreInv, Store!AckedUnlessLost
<1>8. QED
  BY <1>2, <1>5, <1>6, <1>7 DEF StoreInv

(* The end of an operation, as far as types go.                            *)
LEMMA OverTypes ==
  ASSUME StoreInv, NEW s \in Stores, NEW next \in {"idle", "execute", "commit", "close"},
         Store!Over(s, next)
  PROVE  /\ step' \in [Stores -> {"idle", "execute", "commit", "close"}]
         /\ tries' \in [Stores -> Nat] /\ lock' \in Stores \cup {NoStore}
         /\ step' = [step EXCEPT ![s] = next]
  BY DEF Store!Over, StoreInv, Store!TypeOK

LEMMA AfterIsNoCommit == ASSUME NEW s \in Stores PROVE Store!After(s) \in {"idle", "close"}
  BY DEF Store!After

LEMMA ExecuteKeeps ==
  ASSUME StoreInv, NEW s \in Stores, Store!Execute(s)
  PROVE  StoreInv'
<1>1. /\ pending' = [pending EXCEPT ![Store!conn(s)][s] = calls[s]]
      /\ UNCHANGED <<mode, calls, up, table, acked, lost>>
  BY DEF Store!Execute
<1>2. /\ step' = [step EXCEPT ![s] = "commit"]
      /\ step' \in [Stores -> {"idle", "execute", "commit", "close"}]
      /\ tries' \in [Stores -> Nat] /\ lock' \in Stores \cup {NoStore}
  BY OverTypes DEF Store!Execute
<1>3. Store!conn(s) \in Store!Conns /\ \A r \in Stores : Store!conn(r)' = Store!conn(r)
  BY <1>1, ConnIsConn DEF Store!conn
<1>4. /\ pending \in [Store!Conns -> [Stores -> Nat]] /\ calls \in [Stores -> Nat]
      /\ table \in [Stores -> Nat]
  BY DEF StoreInv, Store!TypeOK
<1>5. pending' \in [Store!Conns -> [Stores -> Nat]]
  BY <1>1, <1>3, <1>4
<1>6. Store!TypeOK'
  BY <1>1, <1>2, <1>5 DEF StoreInv, Store!TypeOK
<1>7. ASSUME NEW r \in Stores, NEW c \in Store!Conns
      PROVE  pending'[c][r] = IF c = Store!conn(s) /\ r = s THEN calls[s] ELSE pending[c][r]
  BY <1>1, <1>3, <1>4
<1>8. Ordered'
  <2>1. ASSUME NEW r \in Stores, NEW c \in Store!Conns
        PROVE  \/ pending'[c][r] = 0
               \/ c = Store!conn(r) /\ table[r] <= pending'[c][r] /\ pending'[c][r] <= calls[r]
    BY <1>4, <1>7 DEF StoreInv, Ordered
  <2>2. QED
    BY <1>1, <1>3, <2>1 DEF StoreInv, Ordered, Store!Conns
<1>9. ASSUME NEW r \in Stores, step'[r] = "commit" PROVE Carried(r)'
  <2>1. CASE r = s
    BY <1>1, <1>3, <1>7, <2>1 DEF Carried
  <2>2. CASE r # s
    <3>1. Carried(r)
      BY <1>2, <1>9, <2>2 DEF StoreInv, Store!TypeOK
    <3>2. pending'[Store!conn(r)][r] = pending[Store!conn(r)][r]
      BY <1>7, <2>2, ConnIsConn
    <3>3. QED
      BY <1>1, <1>3, <3>1, <3>2 DEF Carried
  <2>3. QED
    BY <2>1, <2>2
<1>10. Store!AckedUnlessLost'
  BY <1>1 DEF StoreInv, Store!AckedUnlessLost
<1>11. QED
  BY <1>6, <1>8, <1>9, <1>10 DEF StoreInv

LEMMA CommitKeeps ==
  ASSUME StoreInv, NEW s \in Stores, Store!Commit(s)
  PROVE  StoreInv' /\ Moves
<1>1. /\ step[s] = "commit"
      /\ table' = Store!Landed(Store!conn(s))
      /\ pending' = [pending EXCEPT ![Store!conn(s)] = Store!Nothing]
      /\ acked' = [acked EXCEPT ![s] = calls[s]]
      /\ UNCHANGED <<mode, calls, up, lost>>
  BY DEF Store!Commit
<1>2. /\ step' = [step EXCEPT ![s] = Store!After(s)]
      /\ step' \in [Stores -> {"idle", "execute", "commit", "close"}]
      /\ tries' \in [Stores -> Nat] /\ lock' \in Stores \cup {NoStore}
  BY OverTypes, AfterIsNoCommit DEF Store!Commit
<1>3. Moves
  <2>1. lost' \in [Stores -> BOOLEAN] /\ \A r \in Stores : lost'[r] = lost[r]
    BY <1>1 DEF StoreInv, Store!TypeOK
  <2>2. QED
    BY <1>1, <2>1, ConnIsConn, ClearingMoves DEF StoreInv
<1>4. table'[s] = calls[s] \/ lost'[s]
  <2>1. Carried(s)
    BY <1>1 DEF StoreInv
  <2>2. CASE pending[Store!conn(s)][s] = calls[s]
    BY <1>1, <2>2, ConnIsConn, LandedMovesOn DEF StoreInv
  <2>3. CASE table[s] = calls[s]
    <3>1. table[s] <= table'[s] /\ table'[s] <= calls[s]
          /\ table'[s] \in Nat /\ calls[s] \in Nat
      BY <1>3 DEF Moves, StoreInv, Store!TypeOK
    <3>2. QED
      BY <2>3, <3>1
  <2>4. CASE lost[s]
    BY <1>1, <2>4
  <2>5. QED
    BY <2>1, <2>2, <2>3, <2>4 DEF Carried
<1>5. acked' \in [Stores -> Nat]
  BY <1>1 DEF StoreInv, Store!TypeOK
<1>6. ASSUME NEW r \in Stores
      PROVE  acked'[r] = acked[r] \/ acked'[r] <= table'[r] \/ lost'[r]
  BY <1>1, <1>4 DEF StoreInv, Store!TypeOK
<1>7. \A r \in Stores : step'[r] = "commit" => step[r] = "commit"
  BY <1>2, AfterIsNoCommit DEF StoreInv, Store!TypeOK
<1>8. up' \in [Store!Conns -> BOOLEAN] /\ UNCHANGED <<mode, calls>>
  BY <1>1 DEF StoreInv, Store!TypeOK
<1>9. QED
  BY <1>2, <1>3, <1>5, <1>6, <1>7, <1>8, MovesKeep

(* A step that loses what a connection has pending, unless it has landed.  *)
LEMMA GoesDownMoves ==
  ASSUME StoreInv, NEW c \in Store!Conns, NEW landed \in BOOLEAN, Store!GoesDown(c, landed)
  PROVE  Moves
<1>1. lost' = [s \in Stores |-> lost[s] \/ (~landed /\ pending[c][s] # 0)]
  BY DEF Store!GoesDown
<1>2. lost' \in [Stores -> BOOLEAN]
  BY <1>1
<1>3. \A s \in Stores : lost'[s] = (lost[s] \/ (~landed /\ pending[c][s] # 0))
  BY <1>1
<1>4. QED
  BY <1>2, <1>3, ClearingMoves DEF Store!GoesDown, StoreInv

LEMMA DroppedMoves ==
  ASSUME StoreInv, NEW s \in Stores, Store!Dropped(s)
  PROVE  Moves
<1>1. PICK landed \in {FALSE, step[s] = "commit" /\ up[Store!conn(s)]} :
         Store!GoesDown(Store!conn(s), landed)
  BY DEF Store!Dropped
<1>2. landed \in BOOLEAN
  BY DEF StoreInv, Store!TypeOK
<1>3. QED
  BY <1>1, <1>2, ConnIsConn, GoesDownMoves

LEMMA RetryKeeps ==
  ASSUME StoreInv, NEW s \in Stores, Store!Retry(s)
  PROVE  StoreInv' /\ Moves
<1>1. Moves
  BY DroppedMoves DEF Store!Retry
<1>2. /\ tries' = [tries EXCEPT ![s] = tries[s] + 1] /\ UNCHANGED <<mode, step, calls, acked>>
      /\ lock' = IF mode = "embedded" THEN s ELSE lock
  BY DEF Store!Retry
<1>3. up' \in [Store!Conns -> BOOLEAN]
  BY DEF Store!Retry, StoreInv, Store!TypeOK
<1>4. tries' \in [Stores -> Nat] /\ lock' \in Stores \cup {NoStore}
  BY <1>2 DEF StoreInv, Store!TypeOK
<1>5. QED
  BY <1>1, <1>2, <1>3, <1>4, MovesKeep DEF StoreInv, Store!TypeOK

LEMMA GiveUpKeeps ==
  ASSUME StoreInv, NEW s \in Stores, Store!GiveUp(s)
  PROVE  StoreInv' /\ Moves
<1>1. Moves
  BY DroppedMoves DEF Store!GiveUp
<1>2. /\ step' = [step EXCEPT ![s] = Store!After(s)]
      /\ step' \in [Stores -> {"idle", "execute", "commit", "close"}]
      /\ tries' \in [Stores -> Nat] /\ lock' \in Stores \cup {NoStore}
  BY OverTypes, AfterIsNoCommit DEF Store!GiveUp
<1>3. up' \in [Store!Conns -> BOOLEAN] /\ UNCHANGED <<mode, calls, acked>>
  BY DEF Store!GiveUp, StoreInv, Store!TypeOK
<1>4. \A r \in Stores : step'[r] = "commit" => step[r] = "commit"
  BY <1>2, AfterIsNoCommit DEF StoreInv, Store!TypeOK
<1>5. QED
  BY <1>1, <1>2, <1>3, <1>4, MovesKeep DEF StoreInv, Store!TypeOK

LEMMA FailKeeps ==
  ASSUME StoreInv, NEW s \in Stores, Store!Fail(s)
  PROVE  StoreInv' /\ Moves
<1>1. UNCHANGED <<mode, calls, up, pending, table, acked, lost>>
  BY DEF Store!Fail
<1>2. Moves
  BY <1>1, StandingMoves DEF StoreInv
<1>3. /\ step' = [step EXCEPT ![s] = Store!After(s)]
      /\ step' \in [Stores -> {"idle", "execute", "commit", "close"}]
      /\ tries' \in [Stores -> Nat] /\ lock' \in Stores \cup {NoStore}
  BY OverTypes, AfterIsNoCommit DEF Store!Fail
<1>4. \A r \in Stores : step'[r] = "commit" => step[r] = "commit"
  BY <1>3, AfterIsNoCommit DEF StoreInv, Store!TypeOK
<1>5. QED
  BY <1>1, <1>2, <1>3, <1>4, MovesKeep DEF StoreInv, Store!TypeOK

LEMMA CloseKeeps ==
  ASSUME StoreInv, NEW s \in Stores, Store!Close(s)
  PROVE  StoreInv' /\ Moves
<1>1. Store!GoesDown(Store!conn(s), FALSE) /\ step' = [step EXCEPT ![s] = "idle"]
      /\ up' = [up EXCEPT ![Store!conn(s)] = FALSE]
      /\ UNCHANGED <<mode, tries, calls, lock, acked>>
  BY DEF Store!Close
<1>2. Moves
  BY <1>1, ConnIsConn, GoesDownMoves
<1>3. /\ step' \in [Stores -> {"idle", "execute", "commit", "close"}]
      /\ up' \in [Store!Conns -> BOOLEAN]
      /\ \A r \in Stores : step'[r] = "commit" => step[r] = "commit"
  BY <1>1 DEF StoreInv, Store!TypeOK
<1>4. QED
  BY <1>1, <1>2, <1>3, MovesKeep DEF StoreInv, Store!TypeOK

RowsMoveOnStep == \A s \in Stores : table[s] <= table'[s] /\ table'[s] <= calls[s]

LEMMA StoreNext == StoreInv /\ [Store!Next]_(Store!vars) => StoreInv' /\ RowsMoveOnStep
<1> SUFFICES ASSUME StoreInv, [Store!Next]_(Store!vars) PROVE StoreInv' /\ RowsMoveOnStep
  OBVIOUS
<1>1. Moves => RowsMoveOnStep
  BY DEF Moves, RowsMoveOnStep
<1>2. UNCHANGED <<pending, table, lost>> => RowsMoveOnStep
  BY <1>1, StandingMoves DEF StoreInv
<1>3. ASSUME NEW s \in Stores, Store!Begin(s) PROVE StoreInv' /\ RowsMoveOnStep
  BY <1>2, <1>3, BeginKeeps DEF Store!Begin
<1>4. ASSUME NEW s \in Stores, Store!Execute(s) PROVE StoreInv' /\ RowsMoveOnStep
  <2>1. \A r \in Stores : table[r] <= calls[r] /\ table[r] \in Nat /\ table'[r] = table[r]
    BY <1>4 DEF Store!Execute, StoreInv, Ordered, Store!TypeOK
  <2>2. QED
    BY <1>4, <2>1, ExecuteKeeps DEF RowsMoveOnStep
<1>5. ASSUME NEW s \in Stores, Store!Commit(s) PROVE StoreInv' /\ RowsMoveOnStep
  BY <1>1, <1>5, CommitKeeps
<1>6. ASSUME NEW s \in Stores, Store!Retry(s) PROVE StoreInv' /\ RowsMoveOnStep
  BY <1>1, <1>6, RetryKeeps
<1>7. ASSUME NEW s \in Stores, Store!GiveUp(s) PROVE StoreInv' /\ RowsMoveOnStep
  BY <1>1, <1>7, GiveUpKeeps
<1>8. ASSUME NEW s \in Stores, Store!Fail(s) PROVE StoreInv' /\ RowsMoveOnStep
  BY <1>1, <1>8, FailKeeps
<1>9. ASSUME NEW s \in Stores, Store!Close(s) PROVE StoreInv' /\ RowsMoveOnStep
  BY <1>1, <1>9, CloseKeeps
<1>10. CASE UNCHANGED Store!vars
  <2>1. RowsMoveOnStep
    BY <1>2, <1>10 DEF Store!vars
  <2>2. StoreInv'
    BY <1>10 DEF Store!vars, StoreInv, Store!TypeOK, Ordered, Carried,
                 Store!AckedUnlessLost, Store!conn, Store!Conns
  <2>3. QED
    BY <2>1, <2>2
<1>11. QED
  BY <1>3, <1>4, <1>5, <1>6, <1>7, <1>8, <1>9, <1>10 DEF Store!Next

-----------------------------------------------------------------------------

(* The types of the connections' data (db_backend.py).                     *)
THEOREM StoresTyped == ASSUME Store!StoreConnAssumption PROVE Store!Spec => []Store!TypeOK
<1>1. StoreInv => Store!TypeOK
  BY DEF StoreInv
<1>2. QED
  BY <1>1, StoreInit, StoreNext, PTL DEF Store!Spec

(* A call that returned has written, or its write went down with a         *)
(* connection: no interleaving of the stores' statements and commits on a  *)
(* shared connection, and no retry, loses a write in another way.          *)
THEOREM AckedUnlessLostHolds ==
  ASSUME Store!StoreConnAssumption PROVE Store!Spec => []Store!AckedUnlessLost
<1>1. StoreInv => Store!AckedUnlessLost
  BY DEF StoreInv
<1>2. QED
  BY <1>1, StoreInit, StoreNext, PTL DEF Store!Spec

(* Whoever commits what, a row never goes back to an earlier write, and    *)
(* never takes one that was not asked for.                                 *)
THEOREM RowsMoveOnHolds ==
  ASSUME Store!StoreConnAssumption PROVE Store!Spec => Store!RowsMoveOn
<1>1. RowsMoveOnStep =>
        [\A s \in Stores : table[s] <= table'[s] /\ table'[s] <= calls[s]]_(Store!vars)
  BY DEF RowsMoveOnStep
<1>2. QED
  BY <1>1, StoreInit, StoreNext, PTL DEF Store!Spec, Store!RowsMoveOn
=============================================================================
