------------------------------ MODULE Accounts ------------------------------
(***************************************************************************)
(* The sessions, the password and the reset links of one account           *)
(* (api/auth.py, make_session and read_session in api/security.py,         *)
(* runner/user_store.py, runner/password_reset_store.py).                  *)
(*                                                                         *)
(* The handlers are coroutines without an await: the event loop runs one   *)
(* at a time (loop), but a crash or a raising store call may cut it short  *)
(* between two calls.  require_auth is a plain function and runs on a      *)
(* thread before its handler; the task that issues a reset link and mails  *)
(* it runs on another.  Both interleave with the handlers.  Limits and     *)
(* lockouts may only refuse what is allowed here; see LoginGuard.          *)
(***************************************************************************)
EXTENDS RateLimiter, FiniteSets

CONSTANTS
  Browsers, Tabs,                  (* a tab has one request under way        *)
  NoCookie,
  IdleTimeout, SessionTtl, Skew,   (* AUTH_IDLE_TIMEOUT_SECONDS,             *)
                                   (* AUTH_SESSION_TTL_, AUTH_CLOCK_SKEW_    *)
  TokenTtl, Cooldown,              (* AUTH_RESET_TOKEN_TTL_SECONDS,          *)
                                   (* AUTH_RESET_EMAIL_COOLDOWN_SECONDS      *)
  Tasks,                           (* threads that mail reset links          *)
  MaxLinks,                        (* bound: links issued, at the most       *)
  Scopes                           (* bounds; a behaviour keeps to one of    *)
                                   (* them: the browsers and tasks that act, *)
                                   (* the links, the last values of clock and*)
                                   (* session_epoch, the crashes and raising *)
                                   (* calls                                  *)

ASSUME AccountsAssumption ==
  /\ {IdleTimeout, SessionTtl, Skew, TokenTtl, Cooldown} \subseteq Nat
  /\ MaxLinks \in Nat
  /\ Scopes \subseteq [browsers : SUBSET Browsers, tasks : SUBSET Tasks,
                       links : 0 .. MaxLinks, time : Nat, epoch : Nat, faults : Nat]

VARIABLES
  scope,    (* the bounds of this behaviour                                  *)
  now,
  row,      (* the account: password (which in a row; 0: no account yet),    *)
            (* session_epoch                                                 *)
  link,     (* password_reset_tokens and the links mailed; history: was it   *)
            (* revoked by a newer one, how often did it set the password     *)
  jar,      (* the session cookie of each browser                            *)
  req,      (* of each tab: past require_auth?  the cookie it was re-issued  *)
  loop,     (* the handler on the event loop: next step, link or request     *)
  task,     (* each thread's _reset_email_task: next step, its now, its link *)
  cool,     (* RateLimiter._hits["reset-email:..."]                          *)
  faults,
  torn,     (* history: the password was set, session_epoch was not bumped   *)
  overlap,  (* history: two tasks were issuing links at the same time        *)
  changer   (* history: the browser whose own change of the password was the *)
            (* last to end all sessions, until it logs out                   *)

vars == <<scope, now, row, link, jar, req, loop, task, cool, faults, torn, overlap, changer>>
history == <<torn, overlap, changer>>

Requests == Browsers \X Tabs
Links    == 1 .. MaxLinks
Free     == [at |-> "free", link |-> 0, by |-> {}]
Idle     == [at |-> "idle", cookie |-> NoCookie]
Unborn   == [row |-> "none", expires |-> 0, mailed |-> FALSE,
             revoked |-> FALSE, spent |-> 0]
Asleep   == [at |-> "idle", start |-> 0, link |-> 0]

Init ==
  /\ scope \in Scopes
  /\ now = 0
  /\ row = [password |-> 0, epoch |-> 0]
  /\ link = [t \in Links |-> Unborn]
  /\ jar = [b \in Browsers |-> NoCookie]
  /\ req = [q \in Requests |-> Idle]
  /\ loop = Free
  /\ task = [k \in Tasks |-> Asleep] /\ cool = << >>
  /\ faults = 0 /\ torn = FALSE /\ overlap = FALSE /\ changer = {}

-----------------------------------------------------------------------------
(* Sessions *)

Earlier(a, b) == IF a < b THEN a ELSE b

(* make_session.  A cookie carries, as history, the password, the epoch    *)
(* and the time of the log-in it goes back to.                             *)
makeSession(r, aexp, root) ==
  [epoch |-> r.epoch, exp |-> Earlier(now + IdleTimeout, aexp),
   aexp |-> aexp, root |-> root]

newSession(r) ==
  makeSession(r, now + SessionTtl,
              [password |-> r.password, epoch |-> r.epoch, at |-> now])

(* read_session and the checks of require_auth.                            *)
Accepted(c) ==
  /\ c # NoCookie
  /\ now < c.exp + Skew /\ now <= c.aexp + Skew
  /\ row.password # 0 /\ row.epoch = c.epoch

(* Mutant: the absolute end of the session slides too.                     *)
reissueSliding(c) ==
  IF now < c.aexp THEN makeSession(row, now + SessionTtl, c.root) ELSE NoCookie

(* The sliding re-issue, from the row that was read; the absolute end is   *)
(* kept.  Past that end no cookie is set.                                  *)
reissue(c) == IF now < c.aexp THEN makeSession(row, c.aexp, c.root) ELSE NoCookie

respond(b, c) == jar' = IF c = NoCookie THEN jar ELSE [jar EXCEPT ![b] = c]

SignUp(b) ==
  /\ loop = Free /\ row.password = 0
  /\ row' = [row EXCEPT !.password = 1]
  /\ respond(b, newSession(row'))
  /\ UNCHANGED <<scope, now, link, req, loop, task, cool, faults, history>>

(* A log-in that gives the right password; reads only.                     *)
LogIn(b) ==
  /\ loop = Free /\ row.password # 0
  /\ respond(b, newSession(row))
  /\ UNCHANGED <<scope, now, row, link, req, loop, task, cool, faults, history>>

LogOut(b) ==
  /\ loop = Free /\ jar' = [jar EXCEPT ![b] = NoCookie] /\ changer' = changer \ {b}
  /\ UNCHANGED <<scope, now, row, link, req, loop, task, cool, faults, torn, overlap>>

(* require_auth on its thread: the cookie is checked, the row read.        *)
Authenticate(q) ==
  /\ req[q] = Idle /\ Accepted(jar[q[1]])
  /\ req' = [req EXCEPT ![q] = [at |-> "in", cookie |-> reissue(jar[q[1]])]]
  /\ UNCHANGED <<scope, now, row, link, jar, loop, task, cool, faults, history>>

InHandler(q) == loop = Free /\ req[q].at = "in"

(* Any route behind require_auth that leaves the account alone.  An error, *)
(* and a route that returns a Response of its own, sets no cookie.         *)
Handle(q) ==
  /\ InHandler(q)
  /\ \E c \in {req[q].cookie, NoCookie} : respond(q[1], c)
  /\ req' = [req EXCEPT ![q] = Idle]
  /\ UNCHANGED <<scope, now, row, link, loop, task, cool, faults, history>>

(* bump_session_epoch *)
bumpEpoch == /\ row' = [row EXCEPT !.epoch = @ + 1]
             /\ torn' = FALSE /\ changer' = {}

LogOutAll(q) ==
  /\ InHandler(q) /\ row.epoch < scope.epoch
  /\ bumpEpoch
  /\ respond(q[1], req[q].cookie)
  /\ req' = [req EXCEPT ![q] = Idle]
  /\ UNCHANGED <<scope, now, link, loop, task, cool, faults, overlap>>

setPassword == row' = [row EXCEPT !.password = @ + 1]

(* change_password up to update_password.  Given a password that is not,   *)
(* or no longer, the current one, it answers 400 (Handle).                 *)
ChangePassword(q) ==
  /\ InHandler(q) /\ row.epoch < scope.epoch
  /\ setPassword
  /\ loop' = [at |-> "bump", link |-> 0, by |-> {q}]
  /\ UNCHANGED <<scope, now, link, jar, req, task, cool, faults, history>>

(* Mutant: a reset leaves the sessions of the account alone.               *)
BumpOwnChange ==
  /\ loop.at = "bump"
  /\ IF loop.link # 0 THEN UNCHANGED <<row, torn, changer>> ELSE bumpEpoch
  /\ loop' = IF loop.link # 0 THEN Free ELSE [loop EXCEPT !.at = "renew"]
  /\ UNCHANGED <<scope, now, link, jar, req, task, cool, faults, overlap>>

(* The second write of change_password and reset_password.                 *)
Bump ==
  /\ loop.at = "bump"
  /\ bumpEpoch
  /\ loop' = IF loop.link # 0 THEN Free ELSE [loop EXCEPT !.at = "renew"]
  /\ UNCHANGED <<scope, now, link, jar, req, task, cool, faults, overlap>>

(* The rest of change_password: the row is read again and this browser     *)
(* gets a session of the new epoch.                                        *)
Renew ==
  /\ loop.at = "renew" /\ loop' = Free
  /\ \E q \in loop.by : /\ respond(q[1], newSession(row))
                        /\ req' = [req EXCEPT ![q] = Idle]
                        /\ changer' = {q[1]}
  /\ UNCHANGED <<scope, now, row, link, task, cool, faults, torn, overlap>>

-----------------------------------------------------------------------------
(* Reset links *)

(* forgot_password for this account: at most one task in a cool-down.      *)
Forget ==
  /\ loop = Free /\ row.password # 0
  /\ cool' = Checked(cool, now, 1, Cooldown)
  /\ IF Admits(cool, now, 1, Cooldown)
     THEN \E k \in scope.tasks : /\ task[k].at = "idle"
                                 /\ task' = [task EXCEPT ![k].at = "delete"]
     ELSE UNCHANGED task
  /\ UNCHANGED <<scope, now, row, link, jar, req, loop, faults, history>>

(* A row that is marked used or deleted: neither can be redeemed.          *)
gone(l) == [l EXCEPT !.row = "gone", !.expires = 0, !.mailed = FALSE]

(* The task takes the time and removes the account's old rows.             *)
DeleteOld(k) ==
  /\ task[k].at = "delete"
  /\ task' = [task EXCEPT ![k] = [at |-> "invalidate", start |-> now, link |-> 0]]
  /\ link' = [t \in Links |->
                IF link[t].row = "unused" /\ link[t].expires < now
                THEN gone(link[t]) ELSE link[t]]
  /\ overlap' = (overlap \/ \E other \in Tasks : task[other].at \in {"invalidate", "create"})
  /\ UNCHANGED <<scope, now, row, jar, req, loop, cool, faults, torn, changer>>

(* Mutant: only links that have run out are invalidated.                   *)
InvalidateExpired(k) ==
  /\ task[k].at = "invalidate"
  /\ task' = [task EXCEPT ![k].at = "create"]
  /\ link' = [t \in Links |->
                IF link[t].row = "unused" /\ link[t].expires <= now
                THEN [gone(link[t]) EXCEPT !.revoked = TRUE] ELSE link[t]]
  /\ UNCHANGED <<scope, now, row, jar, req, loop, cool, faults, history>>

Invalidate(k) ==
  /\ task[k].at = "invalidate"
  /\ task' = [task EXCEPT ![k].at = "create"]
  /\ link' = [t \in Links |->
                IF link[t].row = "unused"
                THEN [gone(link[t]) EXCEPT !.revoked = TRUE] ELSE link[t]]
  /\ UNCHANGED <<scope, now, row, jar, req, loop, cool, faults, history>>

Create(k) ==
  /\ task[k].at = "create"
  /\ \E t \in 1 .. scope.links :
       /\ link[t].row = "none" /\ \A u \in 1 .. t - 1 : link[u].row # "none"
       /\ link' = [link EXCEPT ![t].row = "unused",
                               ![t].expires = task[k].start + TokenTtl]
       /\ task' = [task EXCEPT ![k] = [at |-> "send", start |-> 0, link |-> t]]
  /\ UNCHANGED <<scope, now, row, jar, req, loop, cool, faults, history>>

Send(k) ==
  /\ task[k].at = "send"
  /\ link' = [link EXCEPT ![task[k].link].mailed = (link[task[k].link].row = "unused")]
  /\ task' = [task EXCEPT ![k] = Asleep]
  /\ UNCHANGED <<scope, now, row, jar, req, loop, cool, faults, history>>

(* A call of the task raises, or the mail cannot be sent: swallowed.       *)
TaskFails(k) ==
  /\ task[k].at # "idle" /\ faults < scope.faults /\ faults' = faults + 1
  /\ task' = [task EXCEPT ![k] = Asleep]
  /\ UNCHANGED <<scope, now, row, link, jar, req, loop, cool, history>>

(* reset_password looks the link up.                                       *)
LookUp(t) ==
  /\ loop = Free /\ row.epoch < scope.epoch
  /\ link[t].mailed /\ link[t].row = "unused" /\ now < link[t].expires
  /\ loop' = [at |-> "consume", link |-> t, by |-> {}]
  /\ UNCHANGED <<scope, now, row, link, jar, req, task, cool, faults, history>>

(* Mutant: a link that was used in the meantime is consumed again.         *)
ConsumeAnyway ==
  /\ loop.at = "consume"
  /\ link' = [link EXCEPT ![loop.link] = gone(@)]
  /\ loop' = [loop EXCEPT !.at = "update"]
  /\ UNCHANGED <<scope, now, row, jar, req, task, cool, faults, history>>

(* mark_used: only the call that finds the row still unused goes on.       *)
Consume ==
  /\ loop.at = "consume"
  /\ IF link[loop.link].row = "unused"
     THEN /\ link' = [link EXCEPT ![loop.link] = gone(@)]
          /\ loop' = [loop EXCEPT !.at = "update"]
     ELSE loop' = Free /\ UNCHANGED link
  /\ UNCHANGED <<scope, now, row, jar, req, task, cool, faults, history>>

Update ==
  /\ loop.at = "update" /\ setPassword
  /\ link' = [link EXCEPT ![loop.link].spent = @ + 1]
  /\ loop' = [loop EXCEPT !.at = "bump"]
  /\ UNCHANGED <<scope, now, jar, req, task, cool, faults, history>>

-----------------------------------------------------------------------------
(* Failures, time *)

(* A store call of the handler on the event loop raises: 500.              *)
HandlerFails ==
  /\ loop # Free /\ faults < scope.faults /\ faults' = faults + 1
  /\ loop' = Free /\ req' = [q \in Requests |-> IF q \in loop.by THEN Idle ELSE req[q]]
  /\ torn' = (torn \/ loop.at = "bump")
  /\ UNCHANGED <<scope, now, row, link, jar, task, cool, overlap, changer>>

(* The process ends and is started again: tables and browsers keep what    *)
(* they have, the rest is gone.                                            *)
Crash ==
  /\ faults < scope.faults /\ faults' = faults + 1
  /\ loop' = Free /\ req' = [q \in Requests |-> Idle]
  /\ task' = [k \in Tasks |-> Asleep] /\ cool' = << >>
  /\ torn' = (torn \/ loop.at = "bump")
  /\ UNCHANGED <<scope, now, row, link, jar, overlap, changer>>

Tick ==
  /\ now < scope.time /\ now' = now + 1
  /\ UNCHANGED <<scope, row, link, jar, req, loop, task, cool, faults, history>>

Next ==
  \/ \E b \in scope.browsers : SignUp(b) \/ LogIn(b) \/ LogOut(b)
  \/ \E q \in scope.browsers \X Tabs :
       Authenticate(q) \/ Handle(q) \/ LogOutAll(q) \/ ChangePassword(q)
  \/ Bump \/ Renew \/ Forget
  \/ \E k \in Tasks :
       DeleteOld(k) \/ Invalidate(k) \/ Create(k) \/ Send(k) \/ TaskFails(k)
  \/ \E t \in Links : LookUp(t)
  \/ Consume \/ Update \/ HandlerFails \/ Crash \/ Tick

Spec == Init /\ [][Next]_vars

-----------------------------------------------------------------------------
(* Properties *)

Cookies == {jar[b] : b \in Browsers} \cup {req[q].cookie : q \in Requests}

(* A session that is accepted goes back to a log-in of this epoch, and to  *)
(* one with the password of today: log-out-all, a change and a reset of    *)
(* the password end all others, also those that require_auth was just      *)
(* re-issuing.  Only between the two writes of a change, or when it was    *)
(* cut short there, does an old session live on.                           *)
SessionsRooted ==
  \A c \in Cookies :
    Accepted(c) =>
      /\ c.root.epoch = row.epoch
      /\ c.root.password = row.password \/ loop.at = "bump" \/ torn

(* However often it is re-issued, a session ends SessionTtl after its      *)
(* log-in, give or take the clock skew (aexp in make_session).             *)
SessionsEnd ==
  \A c \in Cookies : Accepted(c) => now < c.root.at + SessionTtl + Skew

(* A reset link sets the password at most once, whatever crash or failing  *)
(* call comes in between, and never after a newer link has revoked it      *)
(* (mark_used, invalidate_user_tokens).                                    *)
LinkOnce ==
  \A t \in Links :
    /\ link[t].spent <= 1
    /\ link[t].spent = 1 => ~link[t].revoked /\ link[t].row = "gone"

(* Only the newest link works, unless two tasks issued theirs at the same  *)
(* time (_reset_email_task).                                               *)
NewestLinkOnly ==
  ~overlap => Cardinality({t \in Links : link[t].row = "unused"}) <= 1

(* The comment in change_password: its answer carries a cookie of the new  *)
(* epoch, so the caller is not logged out by their own change.  An answer  *)
(* of another tab, with a cookie re-issued before the change, may come     *)
(* after it.                                                               *)
NotLoggedOutByOwnChange == \A b \in changer : jar[b].epoch = row.epoch
=============================================================================
