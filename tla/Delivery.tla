------------------------------ MODULE Delivery ------------------------------
(***************************************************************************)
(* The delivery of the reports of one user (delivery/delivery_step.py, its *)
(* MCP clients and servers) and the user's Google connection               *)
(* (api/integrations.py; the worker that takes and clears the token).      *)
(*                                                                         *)
(* A run takes the stored token, uploads each format of its report to      *)
(* Drive and then sends the mail.  A call of a tool is tried again when    *)
(* its answer does not come in time or is one worth a retry; what was      *)
(* asked for may have been done all the same, or may be done later, while  *)
(* the next attempt is under way.  Runs are on worker threads, the routes  *)
(* of the connection on threads of their own; the user and Google act in   *)
(* between.                                                                *)
(***************************************************************************)
EXTENDS Naturals, Sequences, FiniteSets

CONSTANTS
  Runs,           (* runs of the pipeline that deliver a report each         *)
  Flows,          (* attempts at connecting; each may end in a token         *)
  NoToken, Central,
  UploadFormats,  (* MCP_DRIVE_UPLOAD_FORMATS                                *)
  MaxRetries,     (* MCP_DELIVERY_MAX_RETRIES                                *)
  Configs,        (* the switches MCP_DRIVE_ENABLED, MCP_GMAIL_ENABLED and   *)
                  (* PER_USER_DRIVE_ENABLED; bounds: the runs and flows that *)
                  (* take part, the calls that may be carried out late       *)
  MaxFolders      (* bound: folders of that name in the user's Drive         *)

Exts    == {"pdf", "md", "json"}
Folders == 1 .. MaxFolders

(* What a call of a tool creates: a file in a folder, a folder, a mail.    *)
NewFolder == <<"folder", 0>>
NewMail   == <<"mail", 0>>
Calls     == (Exts \X Folders) \cup {NewFolder, NewMail}

ASSUME DeliveryAssumption ==
  /\ UploadFormats \in Seq({"pdf", "md", "json"}) /\ UploadFormats # << >>
  /\ MaxRetries \in Nat /\ MaxFolders \in Nat \ {0}
  /\ Configs \subseteq [drive : BOOLEAN, gmail : BOOLEAN, perUser : BOOLEAN,
                         runs : SUBSET Runs, flows : SUBSET Flows, late : SUBSET Calls]
  /\ NoToken \notin Flows /\ Central \notin Flows /\ NoToken # Central

VARIABLES
  config,
  run,      (* each run: next step; its token; the formats left, the attempts*)
            (* at the call it makes and the folder it found; has an upload   *)
            (* failed, and because of the grant?  the link it holds; both    *)
            (* entries of mcp_delivery_status                                *)
  tmp,      (* plaintext token files in the temporary directory              *)
  folders,  (* how many folders of that name there are; 1 is the oldest      *)
  copies,   (* of each report and format, in each folder                     *)
  mails,    (* the links of the mails sent for each run, in their order      *)
  air,      (* how many of each of its calls a run has given up that Google  *)
            (* has still to carry out                                        *)
  late,     (* history: how many of the copies were made by such calls       *)
  lost,     (* history: the mails, sent or still to be, whose answer did not *)
            (* arrive                                                        *)
  stored,   (* users.google_oauth_token                                      *)
  revoked,  (* tokens Google refuses                                         *)
  pending,  (* _pending_state of the user                                    *)
  flow,     (* each flow: not begun, asked for, being exchanged, done        *)
  disc,     (* a disconnect: next step, the token it has read                *)
  connects, (* history: how often a flow has stored a token                  *)
  cleared   (* history: the tokens runs had used that removed the user's      *)

drive  == <<folders, copies, air, late>>
google == <<stored, revoked, pending, flow, disc, connects, cleared>>
vars   == <<config, run, tmp, drive, mails, lost, google>>

Fresh == [at |-> "start", token |-> NoToken, pdf |-> FALSE, todo |-> << >>,
          tries |-> 0, folder |-> 0, failed |-> FALSE, grant |-> FALSE,
          link |-> "none", drive |-> "none", gmail |-> "none"]

Init ==
  /\ config \in Configs
  /\ run = [r \in Runs |-> Fresh]
  /\ tmp = {} /\ folders = 0
  /\ copies = [r \in Runs |-> [e \in Exts |-> [f \in Folders |-> 0]]]
  /\ late = copies /\ air = [r \in Runs |-> [c \in Calls |-> 0]]
  /\ mails = [r \in Runs |-> << >>] /\ lost = [r \in Runs |-> 0]
  /\ stored = NoToken /\ revoked = {} /\ pending = NoToken
  /\ flow = [f \in Flows |-> "idle"]
  /\ disc = [at |-> "idle", token |-> NoToken]
  /\ connects = [f \in Flows |-> 0] /\ cleared = {}

set(r, new) == run' = [run EXCEPT ![r] = new]
goto(r, at) == run' = [run EXCEPT ![r].at = at]

-----------------------------------------------------------------------------
(* The start of a run's delivery *)

(* _run_one reads the user's token before the pipeline starts.             *)
TakeToken(r) ==
  /\ run[r].at = "start"
  /\ set(r, [run[r] EXCEPT !.at = "deliver", !.token = stored])
  /\ UNCHANGED <<config, tmp, drive, mails, lost, google>>

(* Nothing is enabled, or there is no report file.                         *)
DeliverNothing(r) ==
  /\ run[r].at = "deliver"
  /\ LET s(on) == IF on THEN "failed" ELSE "none"
     IN  set(r, [run[r] EXCEPT !.at = "clear", !.drive = s(config.drive),
                               !.gmail = s(config.gmail)])
  /\ UNCHANGED <<config, tmp, drive, mails, lost, google>>

(* The report is at hand, the PDF rendered or not; the central token is    *)
(* decrypted into a file, unless there is none or it is not encrypted.     *)
Materialize(r) ==
  /\ run[r].at = "deliver" /\ (config.drive \/ config.gmail)
  /\ \E pdf \in BOOLEAN : set(r, [run[r] EXCEPT !.at = "open", !.pdf = pdf])
  /\ tmp' \in {tmp, tmp \cup {<<r, Central>>}}
  /\ UNCHANGED <<config, drive, mails, lost, google>>

(* A failing read of the report, or of the central token's file.           *)
MaterializeRaises(r) ==
  /\ run[r].at = "deliver" /\ goto(r, "raised")
  /\ UNCHANGED <<config, tmp, drive, mails, lost, google>>

formats(pdf) == [i \in DOMAIN UploadFormats |->
                   IF UploadFormats[i] = "pdf" /\ ~pdf THEN "md" ELSE UploadFormats[i]]

(* Whose Drive: the user's own, through a file with the user's token, the  *)
(* central one, or none.                                                   *)
Open(r) ==
  /\ run[r].at = "open"
  /\ LET upload == [run[r] EXCEPT !.at = "resolve", !.todo = formats(run[r].pdf)]
     IN  \/ ~config.drive /\ goto(r, "mail") /\ UNCHANGED tmp
         \/ /\ config.drive /\ ~config.perUser
            /\ set(r, upload) /\ UNCHANGED tmp
         \/ /\ config.drive /\ config.perUser /\ run[r].token # NoToken
            /\ set(r, upload) /\ tmp' = tmp \cup {<<r, run[r].token>>}
         \/ /\ config.drive /\ config.perUser /\ run[r].token = NoToken
            /\ set(r, [run[r] EXCEPT !.at = "mail", !.drive = "failed"])
            /\ UNCHANGED tmp
  /\ UNCHANGED <<config, drive, mails, lost, google>>

(* Mutant: the central file is removed only after a delivery that ends.    *)
OpenRaisesDirty(r) ==
  /\ run[r].at \in {"open", "mail"} /\ run[r].tries = 0
  /\ goto(r, "raised")
  /\ UNCHANGED <<config, tmp, drive, mails, lost, google>>

(* The user's token file cannot be written, or the mail cannot be built:   *)
(* the finally block removes the central file.                             *)
OpenRaises(r) ==
  /\ run[r].at \in {"open", "mail"} /\ run[r].tries = 0
  /\ goto(r, "raised")
  /\ tmp' = tmp \ {<<r, Central>>}
  /\ UNCHANGED <<config, drive, mails, lost, google>>

-----------------------------------------------------------------------------
(* Uploads: call_tool_with_retry over the Drive server *)

used(r) == IF config.perUser THEN run[r].token ELSE Central

(* The result of one format; after the last one the user's file is removed *)
(* and the status is that of all formats together.                         *)
uploaded(r, s) ==
  LET left == Tail(s.todo)
      next == [s EXCEPT !.todo = left, !.tries = 0, !.folder = 0]
  IN  IF left # << >>
      THEN set(r, [next EXCEPT !.at = "resolve"]) /\ UNCHANGED tmp
      ELSE /\ set(r, [next EXCEPT !.at = "mail",
                        !.drive = IF s.failed THEN "failed" ELSE "success",
                        !.link  = IF s.failed THEN "none" ELSE s.link])
           /\ tmp' = tmp \ {<<r, s.token>>}

(* Mutant: the last of the answers decides.                                *)
succeededLast(r) ==
  LET e == Head(run[r].todo)
      first == e = "pdf" \/ (e = "md" /\ run[r].link = "none")
  IN  uploaded(r, [run[r] EXCEPT !.failed = FALSE, !.link = IF first THEN e ELSE @])

(* The link of the PDF, else that of the Markdown file.                    *)
succeeded(r) ==
  LET e == Head(run[r].todo)
      first == e = "pdf" \/ (e = "md" /\ run[r].link = "none")
  IN  uploaded(r, [run[r] EXCEPT !.link = IF first THEN e ELSE @])

(* Another attempt, or, after the last one, a failed upload.               *)
again(r) ==
  IF run[r].tries < MaxRetries
  THEN set(r, [run[r] EXCEPT !.at = "resolve", !.folder = 0,
                             !.tries = @ + 1]) /\ UNCHANGED tmp
  ELSE uploaded(r, [run[r] EXCEPT !.failed = TRUE])

(* load_credentials: a revoked grant is no reason for a retry.             *)
GrantRefused(r) ==
  /\ run[r].at = "resolve" /\ used(r) \in revoked
  /\ uploaded(r, [run[r] EXCEPT !.failed = TRUE, !.grant = TRUE])
  /\ UNCHANGED <<config, drive, mails, lost, google>>

(* The call is given up, and Google carries it out later: ending the       *)
(* server's process does not take back a request that was sent.            *)
lingers(r, call) ==
  /\ call \in config.late
  /\ air' = [air EXCEPT ![r][call] = @ + 1]

landed(r, call) ==
  /\ air[r][call] > 0
  /\ air' = [air EXCEPT ![r][call] = @ - 1]

(* The oldest folder of the name is looked for.                            *)
Resolve(r) ==
  /\ run[r].at = "resolve" /\ used(r) \notin revoked
  /\ set(r, IF folders = 0 THEN [run[r] EXCEPT !.at = "folder"]
            ELSE [run[r] EXCEPT !.at = "look", !.folder = 1])
  /\ UNCHANGED <<config, tmp, drive, mails, lost, google>>

CreateFolder(r) ==
  /\ run[r].at = "folder" /\ folders < MaxFolders
  /\ folders' = folders + 1
  /\ \/ /\ set(r, [run[r] EXCEPT !.at = "look", !.folder = folders'])
        /\ UNCHANGED tmp
     \/ again(r)
  /\ UNCHANGED <<config, copies, air, late, mails, lost, google>>

FolderLingers(r) ==
  /\ run[r].at = "folder" /\ lingers(r, NewFolder) /\ again(r)
  /\ UNCHANGED <<config, folders, copies, late, mails, lost, google>>

FolderLands(r) ==
  /\ folders < MaxFolders /\ landed(r, NewFolder)
  /\ folders' = folders + 1
  /\ UNCHANGED <<config, run, tmp, copies, late, mails, lost, google>>

(* A file of that name is looked for in the folder.                        *)
Look(r) ==
  /\ run[r].at = "look"
  /\ goto(r, IF copies[r][Head(run[r].todo)][run[r].folder] = 0
             THEN "create" ELSE "update")
  /\ UNCHANGED <<config, tmp, drive, mails, lost, google>>

(* Mutant: a file of that name is not replaced.                            *)
writeAnew(r) ==
  /\ run[r].at \in {"create", "update"}
  /\ copies' = [copies EXCEPT ![r][Head(run[r].todo)][run[r].folder] = @ + 1]

(* The file that was found is replaced; where none was found one is        *)
(* created, even if one has come meanwhile.                                *)
write(r) ==
  /\ run[r].at \in {"create", "update"}
  /\ copies' = IF run[r].at = "update" THEN copies
               ELSE [copies EXCEPT ![r][Head(run[r].todo)][run[r].folder] = @ + 1]

Write(r) ==
  /\ write(r) /\ succeeded(r)
  /\ UNCHANGED <<config, folders, air, late, mails, lost, google>>

WriteUnanswered(r) ==
  /\ write(r) /\ again(r)
  /\ UNCHANGED <<config, folders, air, late, mails, lost, google>>

FileLingers(r) ==
  /\ run[r].at = "create" /\ lingers(r, <<Head(run[r].todo), run[r].folder>>)
  /\ again(r)
  /\ UNCHANGED <<config, folders, copies, late, mails, lost, google>>

FileLands(r, e, f) ==
  /\ landed(r, <<e, f>>)
  /\ copies' = [copies EXCEPT ![r][e][f] = @ + 1]
  /\ late' = [late EXCEPT ![r][e][f] = @ + 1]
  /\ UNCHANGED <<config, run, tmp, folders, mails, lost, google>>

(* A time-out, a broken connection, a status worth a retry, or any other   *)
(* error, which is not.                                                    *)
UploadFails(r) ==
  /\ run[r].at \in {"resolve", "folder", "look", "create", "update"}
  /\ (again(r) \/ uploaded(r, [run[r] EXCEPT !.failed = TRUE]))
  /\ UNCHANGED <<config, drive, mails, lost, google>>

-----------------------------------------------------------------------------
(* The mail, always with the central token *)

closed(r, s) == /\ set(r, [s EXCEPT !.at = "clear", !.tries = 0])
                /\ tmp' = tmp \ {<<r, Central>>}

NoMail(r) ==
  /\ run[r].at = "mail" /\ run[r].tries = 0
  /\ \/ ~config.gmail /\ closed(r, run[r])
     \/ config.gmail /\ closed(r, [run[r] EXCEPT !.gmail = "failed"])  (* no recipient *)
  /\ UNCHANGED <<config, drive, mails, lost, google>>

mailAgain(r) ==
  IF run[r].tries < MaxRetries
  THEN set(r, [run[r] EXCEPT !.tries = @ + 1]) /\ UNCHANGED tmp
  ELSE closed(r, [run[r] EXCEPT !.gmail = "failed"])

send(r) == mails' = [mails EXCEPT ![r] = Append(@, run[r].link)]

Send(r) ==
  /\ run[r].at = "mail" /\ config.gmail /\ Central \notin revoked
  /\ send(r) /\ closed(r, [run[r] EXCEPT !.gmail = "success"])
  /\ UNCHANGED <<config, drive, lost, google>>

SendUnanswered(r) ==
  /\ run[r].at = "mail" /\ config.gmail /\ Central \notin revoked
  /\ send(r) /\ mailAgain(r)
  /\ lost' = [lost EXCEPT ![r] = @ + 1]
  /\ UNCHANGED <<config, drive, google>>

MailLingers(r) ==
  /\ run[r].at = "mail" /\ config.gmail /\ Central \notin revoked
  /\ lingers(r, NewMail) /\ mailAgain(r)
  /\ lost' = [lost EXCEPT ![r] = @ + 1]
  /\ UNCHANGED <<config, folders, copies, late, mails, google>>

MailLands(r) ==
  /\ landed(r, NewMail) /\ send(r)
  /\ UNCHANGED <<config, run, tmp, folders, copies, late, lost, google>>

SendFails(r) ==
  /\ run[r].at = "mail" /\ config.gmail
  /\ (mailAgain(r) \/ closed(r, [run[r] EXCEPT !.gmail = "failed"]))
  /\ UNCHANGED <<config, drive, mails, lost, google>>

(* _run_one: the user's token is removed if the Drive error names the      *)
(* grant.                                                                  *)
ClearRevoked(r) ==
  /\ run[r].at = "clear" /\ goto(r, "done")
  /\ IF run[r].token # NoToken /\ run[r].grant
     THEN stored' = NoToken /\ cleared' = cleared \cup {used(r)}
     ELSE UNCHANGED <<stored, cleared>>
  /\ UNCHANGED <<config, tmp, drive, mails, lost, revoked, pending, flow, disc, connects>>

-----------------------------------------------------------------------------
(* The connection *)

runner == <<config, run, tmp, drive, mails, lost>>

(* google_authorize: a later one replaces the state of an earlier one.     *)
Authorize(f) ==
  /\ flow[f] = "idle"
  /\ flow' = [flow EXCEPT ![f] = "asked"] /\ pending' = f
  /\ UNCHANGED <<runner, stored, revoked, disc, connects, cleared>>

(* Mutant: the state is looked up and stays.                               *)
CallbackKeeping(f) ==
  /\ flow[f] # "idle" /\ UNCHANGED pending
  /\ \/ pending = f /\ flow' = [flow EXCEPT ![f] = "exchange"]
     \/ flow' = [flow EXCEPT ![f] = IF @ = "asked" THEN "done" ELSE @]
  /\ UNCHANGED <<runner, stored, revoked, disc, connects, cleared>>

(* google_callback up to the exchange, the first time or again: whatever   *)
(* state is pending is removed; it must be this flow's, fresh, and come    *)
(* with a code.                                                            *)
Callback(f) ==
  /\ flow[f] # "idle" /\ pending' = NoToken
  /\ \/ pending = f /\ flow' = [flow EXCEPT ![f] = "exchange"]
     \/ flow' = [flow EXCEPT ![f] = IF @ = "asked" THEN "done" ELSE @]
  /\ UNCHANGED <<runner, stored, revoked, disc, connects, cleared>>

Exchange(f) ==
  /\ flow[f] = "exchange" /\ flow' = [flow EXCEPT ![f] = "done"]
  /\ \/ stored' = f /\ connects' = [connects EXCEPT ![f] = @ + 1]
     \/ UNCHANGED <<stored, connects>>
  /\ UNCHANGED <<runner, revoked, pending, disc, cleared>>

(* google_disconnect reads the token, revokes it as best it can, and       *)
(* clears whatever is stored then.                                         *)
DisconnectRead ==
  /\ disc.at = "idle"
  /\ disc' = [at |-> IF stored = NoToken THEN "clear" ELSE "revoke", token |-> stored]
  /\ UNCHANGED <<runner, stored, revoked, pending, flow, connects, cleared>>

DisconnectRevoke ==
  /\ disc.at = "revoke" /\ disc' = [disc EXCEPT !.at = "clear"]
  /\ revoked' \in {revoked, revoked \cup {disc.token}}
  /\ UNCHANGED <<runner, stored, pending, flow, connects, cleared>>

DisconnectClear ==
  /\ disc.at = "clear" /\ disc' = [at |-> "idle", token |-> NoToken]
  /\ stored' = NoToken
  /\ UNCHANGED <<runner, revoked, pending, flow, connects, cleared>>

(* The user, or Google, withdraws a grant.                                 *)
Withdraw ==
  /\ \E t \in {stored, Central} \ {NoToken} : revoked' = revoked \cup {t}
  /\ UNCHANGED <<runner, stored, pending, flow, disc, connects, cleared>>

Next ==
  \/ \E r \in config.runs :
       \/ TakeToken(r) \/ DeliverNothing(r) \/ Materialize(r)
       \/ MaterializeRaises(r) \/ Open(r) \/ OpenRaises(r)
       \/ GrantRefused(r) \/ Resolve(r) \/ CreateFolder(r) \/ FolderLingers(r)
       \/ Look(r) \/ Write(r) \/ WriteUnanswered(r) \/ FileLingers(r) \/ UploadFails(r)
       \/ NoMail(r) \/ Send(r) \/ SendUnanswered(r) \/ MailLingers(r) \/ SendFails(r)
       \/ ClearRevoked(r)
       \/ FolderLands(r) \/ MailLands(r)
       \/ \E e \in Exts, f \in Folders : FileLands(r, e, f)
  \/ \E f \in config.flows : Authorize(f) \/ Callback(f) \/ Exchange(f)
  \/ DisconnectRead \/ DisconnectRevoke \/ DisconnectClear \/ Withdraw

Spec == Init /\ [][Next]_vars

-----------------------------------------------------------------------------
(* Properties *)

Uploaded(r, e) == \E f \in Folders : copies[r][e][f] > 0

(* What mcp_delivery_status reports is so: a successful Drive entry means  *)
(* that every format is there and a mail names a file that is; a           *)
(* successful Gmail entry means a mail, a failed one none, unless an       *)
(* answer was lost (_deliver_drive, _to_info).                             *)
StatusTruthful ==
  \A r \in Runs :
    /\ run[r].drive = "success" =>
         \A i \in DOMAIN UploadFormats : Uploaded(r, formats(run[r].pdf)[i])
    /\ \A i \in DOMAIN mails[r] :
         mails[r][i] # "none" => run[r].drive = "success" /\ Uploaded(r, mails[r][i])
    /\ run[r].gmail = "success" => mails[r] # << >>
    /\ run[r].gmail = "failed" /\ lost[r] = 0 => mails[r] = << >>

(* Retries do not multiply what they repeat: a report is mailed once for   *)
(* each answer that was lost and once more.  There is one file of each     *)
(* format in a folder, and beside it only such as were created after their *)
(* call had been given up: what was done in time is found by the next      *)
(* attempt.  There are files elsewhere only if another folder of the name  *)
(* was made meanwhile (call_tool_with_retry, _handle_upload).              *)
NotMultiplied ==
  \A r \in Runs :
    /\ Len(mails[r]) <= lost[r] + 1
    /\ \A e \in Exts, f \in Folders : copies[r][e][f] <= late[r][e][f] + 1
    /\ folders <= 1 => \A f \in Folders \ {1} : \A e \in Exts : copies[r][e][f] = 0

(* No plaintext token is left behind by a delivery that has ended, however *)
(* it ended, and the user's is gone before the mail is sent                *)
(* (the finally blocks of deliver_report).                                 *)
TokenFilesGone ==
  \A r \in Runs :
    /\ run[r].at \in {"start", "clear", "done", "raised"} => \A t \in tmp : t[1] # r
    /\ run[r].at = "mail" => \A t \in tmp : t[1] = r => t[2] = Central

(* A state connects once: neither a callback that is repeated nor one of   *)
(* an earlier flow stores another token (_pop_state).                      *)
StateOnce ==
  \A f \in Flows :
    /\ connects[f] <= 1
    /\ flow[f] = "exchange" => connects[f] = 0 /\ pending # f

(* The plan of feature 031 on the automatic disconnect: it is for a run    *)
(* that used the per-user token.  The code does not ask which token the    *)
(* upload used, nor which one is stored by then.                           *)
ClearedWasUsed == Central \notin cleared
=============================================================================
