# ContractSentinel: a TLA+ verification project

ContractSentinel analyses uploaded contracts: a FastAPI backend queues each
upload as a job, a worker thread runs a seven-node LangGraph pipeline over the
contract's clauses, delivers the report, and a Next.js frontend follows the job
by polling and server-sent events.  This directory holds TLA+ models of the
parts of that system whose correctness depends on interleavings, crashes and
partial failures, the TLC configurations that check them, and TLAPS proofs of
the most important invariants.

Paths below are relative to the repository; `app/` stands for `backend/app/`.

- [1. The system](#1-the-system)
- [2. The plan](#2-the-plan)
- [3. The modules and the code](#3-the-modules-and-the-code)
- [4. The runs](#4-the-runs)
- [5. Bounds and fairness](#5-bounds-and-fairness)
- [6. The proofs](#6-the-proofs)
- [7. Disagreements between code and documents](#7-disagreements-between-code-and-documents)
- [8. What is not modelled](#8-what-is-not-modelled)

## 1. The system

### Components, their state and operations

| Component | Code | State it keeps | Operations |
|---|---|---|---|
| Job registry, jobs table | `app/runner/registry.py`, `store.py`, `models.py` | live dict of `JobRecord`s (each with its lock and an optional store handle); table `jobs` | `add` (insert, two prunes, evict, detach, delete checkpoint threads), `get` (rehydrates from the row), `mark_running`, `record_progress`, `reset_for_rerun`, `mark_terminal` |
| Pipeline worker | `app/runner/worker.py`, `core.py`, `progress.py` | in-memory queue of `(job_id, resume)`, worker threads | `submit`, `_loop`/`_run_one`, `run_pipeline` (stream, record new nodes, deliver, learn) |
| Start-up recovery | `app/api/main.py`, `runner/persistence.py` | none of its own | `_recover`: every nonterminal row is resumed from its checkpoint or reset and re-run |
| SSE event buffer | `app/runner/events.py`, `GET /jobs/{id}/events` | backlog, subscriber queues, `closed` | `publish`, `subscribe`, `unsubscribe`, the connection's generator |
| Ingest, clause splitting | `app/graph/nodes/ingest/`, `splitters/`, `clause_splitter_agent.py` | none between calls; the text with the map of its characters to pages | clean, segment by regex, group by the model's answer, locate the clauses |
| LangGraph pipeline | `app/graph/builder.py`, `state.py`, `nodes/` | `ContractState` (clauses, `error_count`, ...), SQLite checkpoints per `thread_id = job_id` | ingest, splitter, CRAG, Self-RAG, risk score, `route_on_risk`, redline / skip, report; each with a circuit breaker of its own |
| Blob store | `app/blob_store.py` | uploads and reports, on disk or as rows in Turso | `write`, `read`, `exists`, `materialize`, `delete` |
| Delivery | `app/delivery/` | per-call MCP subprocess session, a plaintext token file while it lasts | upload to Drive, e-mail through Gmail, retry, OAuth refresh |
| Per-user learned KB | `app/rag/user_kb.py` | FAISS index, sidecar and model marker on disk, a cache and a lock per user | `load_user_kb`, `append_clauses` |
| Accounts, sessions, reset tokens | `app/api/auth.py`, `runner/user_store.py`, `password_reset_store.py` | users (hash, failure count, lockout, `session_epoch`), reset tokens | sign-up, login, `require_auth`, change / forget / reset password |
| Rate limiter | `app/api/rate_limit.py` | timestamps per key | `hit` with sliding window and pruning |
| Google integration | `app/api/integrations.py` | pending OAuth states, the user's token | connect, callback, disconnect, clear on `invalid_grant` |
| Database backend | `app/runner/db_backend.py` | a libSQL connection per store (remote) or one that all stores share (embedded replica) | execute / commit, each with reconnect and retry; close |
| Dashboard, risk summary | `app/api/aggregate.py`, `runner/risk_summary.py` | summary column of `jobs` | summarise on completion, aggregate, back-fill |
| Frontend job status | `frontend/src/lib/useJobStatus.ts` and others | phase, last status, timers | poll, reconnect, stop |
| LLM / embedding clients | `app/llm`, `nodes/validators`, `scorers`, `drafters`, `retrievers` | none | build a prompt, ask with a timeout, parse the answer, retry |
| Crypto, migrations, PDF and HTML rendering, evaluation harness | `app/security`, `alembic`, `delivery/report_pdf.py`, `eval` | none that matters here | pure functions, batch tools |

### How they interact

`POST /api/analyze` stores the upload in the blob store, builds a record, calls
`JobRegistry.add` and `PipelineWorker.submit`, all on the event-loop thread.  A
worker thread takes the job from the queue, looks it up in the registry (maybe
rebuilding it from its row), and streams the graph.  Each yielded state becomes
a `record_progress` (written through to the row under the record's lock) and a
published event; the checkpointer writes each state to SQLite in the
background.  When the stream ends the report is delivered, what was learned is
appended to the user's KB, the row becomes terminal, the uploaded source may be
deleted, and the terminal event is published.  Read endpoints go through
`JobRegistry.get`, which rehydrates a record that is not live.  After a crash,
`_recover` reads the rows and the checkpoints and queues the jobs again.

### What is hard about it

- Worker threads interleave with the handlers at every lock, store call and
  queue operation; `add` prunes and evicts jobs that a worker is running.
- A crash may fall between any two durable writes: the row, the checkpoint, the
  report files, the delivered mail, the learned KB.  The checkpoint may lag
  behind the recorded progress, or be ahead of it, or (on an ephemeral disk) be
  gone while the row survives on Turso.
- Every store, blob, model, embedding or web call may fail; some of them are
  outside any `try` block.
- `publish` runs on the worker's thread, `subscribe` on the event loop.
- `require_auth` and the task that issues a reset link run on threads beside
  the handlers of the event loop; each handler makes several store calls.
- A delivery call whose answer is lost may have been carried out, and is tried
  again; the user may disconnect or connect another Google account meanwhile.
- Turso drops idle connections; a drop may be found between a statement and its
  commit, on a connection that other stores use.
- A language model may answer anything, about the splitting of the text too.
- An outage must neither hide findings nor keep the only worker busy for hours,
  and it must be reported.

`PROJECT.json` lists these hazards line by line, each with the properties that
would catch it, or the reason why none does.

### What makes each component correct

- *Registry and worker*: a job has one owner at a time; its row follows its
  record; a terminal job stays terminal; a pruned row does not come back; a job
  that may run again still has its document; every job settles; progress is
  listed in order without gaps, over any sequence of crashes and resumes.
- *Pipeline*: clauses are discarded for a reason a judge or the data gave;
  outages are bounded by the breakers and show up in the report; risk, routing
  and rewriting agree; the two report files agree; the run ends.
- *Event buffer*: nothing lost, doubled or reordered, the end of the stream
  comes after the stored status, no leak, every stream of a running job ends.
- *User KB*: index and sidecar agree, and so does every pair loaded from them;
  no learned clause is lost, none is doubled while the process lives.
- *Splitting*: whatever the model answers, no text of a segment is lost or
  doubled; a clause is located where its text stood.
- *Accounts*: a session goes back to a log-in of this epoch with today's
  password and ends in time; a reset link sets the password once, and only the
  newest one works.
- *Rate limiter, lockout*: at most N admitted attempts in any window, nobody is
  refused for attempts that were refused, a lockout is earned, guesses that come
  close together are bounded.
- *Delivery, Google connection*: the status says what was done, retries do not
  multiply files or mails, no token file is left behind, a state connects once.
- *Database backend*: a call that returned has written its row.
- *Summary*: the denormalised counts are those of the report.

## 2. The plan

| # | Module | Models | Composes / refines | Status |
|---|---|---|---|---|
| 1 | `JobLifecycle` | what the jobs table promises about a job | abstract specification | done |
| 2 | `JobRunner`, `MCJobRunner` | registry, worker, recovery, checkpoints, retention | implements `JobLifecycle` (`ImplementsLifecycle`) | done |
| 3 | `JobRunnerProofs` | fourteen theorems, the refinement among them | theorems of 2 | done |
| 4 | `ClausePipeline` | the graph over the clauses, breakers, report files, resume | the inside of one run of 2 | done |
| 5 | `ClausePipelineProofs` | all its invariants; the operators of 13 | theorems of 4 and 13 | done |
| 6 | `EventLog` | what the events of a job promise to their readers | abstract specification | done |
| | `EventStream`, `EventStreamProofs` | event buffer and SSE connections | the publishing side of 2; implements `EventLog` (`ImplementsEventLog`) | done |
| 7 | `UserKb`, `UserKbProofs` | index, sidecar, marker, cache; concurrent runs and crashes | called in a run of 2 | done |
| 8 | `Accounts`, `MCAccounts`, `AccountsProofs` | sessions, password, reset links of one account | uses `RateLimiter` | done |
| 9 | `RateLimiter`, `LoginGuard`, `LoginGuardProofs` | the sliding window; the limit and the lockout before a log-in | operators for 8 | done |
| 10 | `Delivery`, `MCDelivery`, `DeliveryProofs` | both channels, the MCP calls, the user's Google connection | the delivery step of 2 | done |
| 11 | `SourceText`, `ClauseSplitting`, `MCClauseSplitting`, `ClauseSplittingProofs` | from a document's text to located clauses | the first two nodes of 4 | done |
| 12 | `StoreConn`; proofs in `AccountsProofs` | connections of the stores to Turso | under the stores of 2 and 8 | done |
| 13 | `ModelCalls` | prompts, answers, retries of one call | justifies the choices of 4 | done |
| 14 | `RiskSummary`, `JobPoller` | stored against recomputed counts; `useJobStatus` of the frontend | | left |

Left besides row 14: a crash in the middle of `Delivery`.

## 3. The modules and the code

`PROJECT.json` (`map`) gives for each definition the lines it stands for.

### JobRunner

One action is what a thread does between two points where another thread, or a
crash, can get in: the body under a record lock, one store call, one queue
operation.  The handlers and the recovery share the event-loop thread (`api`,
`server`), so they never interleave with each other; the worker threads (`run`)
interleave with everything.

| Variable | Code |
|---|---|
| `rows` | table `jobs`: status, `completed_nodes`, report path present, error |
| `stamp` | `submitted_at`, in the order of submission |
| `ckpt` | latest checkpoint of the thread named after the job |
| `source` | is the uploaded document still in the blob store? |
| `delivered` | how often the report was delivered (history) |
| `live`, `rec`, `attached` | `JobRegistry._jobs`, the `JobRecord`s, those whose `_store` is set |
| `queue` | `PipelineWorker._queue` |
| `run` | the locals of `_run_one` and `run_pipeline` of each thread: program counter, job, resume flag, `seen`, graph state, last saved checkpoint; `split` if its record is no longer the one the registry holds |
| `api` | where `add` is, with the victims of the prunes |
| `server`, `recq` | the process, the rows `_recover` has still to handle |

| Actions | Code |
|---|---|
| `Submit` ... `Enqueue`, `AddRaises` | `POST /api/analyze`, `JobRegistry.add`, `worker.submit` |
| `GetJob` | the read endpoints, through `JobRegistry.get` |
| `Dequeue`, `Lookup`, `MarkRunning`, `MarkRaises`, `CredentialsRaise` | `_loop` and `_run_one` up to the `try` block |
| `Yield`, `RunNode`, `NodeRaises`, `Checkpoint` | the stream of `run_pipeline` and the checkpointer |
| `Deliver`, `Finish`, `Publish`, `Fail` and the raising variants | the end of `run_pipeline`, `mark_terminal`, the terminal event, the `except` block |
| `Crash`, `Restart`, `Recover`, `RecoverRaises`, `Serve` | process end, lifespan and `_recover` |

Abstractions: the seven nodes are alike except for the first (it may refuse the
document) and the last (it writes the report or fails to); a row has only the
fields above; the events of a run are `EventStream`'s matter, the inside of a
node is `ClausePipeline`'s, the learned KB `UserKb`'s, and the delivery with the
clearing of a revoked Google token `Delivery`'s.  An orderly shutdown (`stop()`) loses
what a crash loses, so a crash stands for both.

`JobLifecycle` is the abstract specification: a job's state and the moves
between its values.  `ImplementsLifecycle` maps a job that the retention prune
is removing to `"leaving"` for as long as `add` works on it, because a worker
may re-insert its row between the two prunes.

### ClausePipeline

| Variable | Code |
|---|---|
| `graph` | `ContractState` as the graph holds it: next node, clauses, `error_count`, `ingest_error`, report path present |
| `saved` | the last checkpoint on disk |
| `work`, `at`, `stage`, `attempt` | a node's copy of the clauses with its updates, the clause it is at, the call it makes next, the turn of `_issup_loop` |
| `cb` | the node's breaker: consecutive failures, open |
| `json`, `md` | the two report files |
| `merged` | `SELF_RAG_MERGE_JUDGMENTS` as the process read it |

One action is what a node does up to its next external call; the call's answer
(or its failure) is chosen with `\E`.  A clause keeps whether its text is blank,
whether its type is a recall-floor type, whether there is evidence, the three
verdicts, the final verdict, the risk level, the fail-safe mark and the state of
its rewrite.

Abstractions: retrieval path and scores, retry counts, rationales, snippets, the
live progress payload and timings are dropped.  The breaker's field `tripped`
always equals `open`, so there is one field.  The checks of an open breaker in
the middle of a clause are one action (`FailOpen`).  The `_issup_loop` call on
branch A cannot be reached and is left out, as are the `ingest_error` guards of
the nodes after ingest (`route_after_ingest` ends such a run).  The splitter may
make any clauses out of a document.  `SELF_RAG_MERGE_JUDGMENTS` is read at
import, so a restarted process may have another value than the one that wrote
the checkpoint: `Resume` chooses it again.

### EventStream

`publish` is two actions, the locked append (in `PublishProgress`,
`PublishTerminal`) and the hand-over to each subscriber (`FanOut`), because the
second is outside the lock and on another thread than `Subscribe`, `RunCall`
(a callback that `call_soon_threadsafe` queued) and the generators of the
connections (`SendBacklog`, `BacklogSent`, `SendLive`).  `Disconnect` may come
at every `await`.  `Restart` drops the connections and leaves the job with a new
buffer, as `JobRegistry.get` builds it, and a running row is resumed with its
progress or reset.  `StreamsTruthful` is two statements: every connection has
received a prefix of what it should (`NothingLost`), and a terminal event is
never ahead of the stored status (`EndedIsStored`).  Left out: store calls of
the worker that raise (`JobRunner` has them; no terminal event follows) and the
live narration of single clauses.

`EventLog` is what is left when worker, callbacks, queues and generators are
taken away: a log that ends with what is stored, and readers that read it from
its beginning, one event at a time, and are done with its end.  In the
refinement mapping the log is the backlog, what a reader got is what its
connection was sent, and it is done when that includes the terminal event, also
where its generator has still to return (`Stage`).  `FanOut`, `RunCall` and
`RecordProgress` map to no step.

### UserKb

| Variable | Code |
|---|---|
| `index`, `meta`, `marker` | `clauses.faiss`, `clauses_meta.jsonl`, `clauses.faiss.provider` of one user |
| `model` | embedding provider and model the process is configured with |
| `cache`, `lock` | the user's entries in `_USER_KB_CACHE` and `_USER_KB_LOCKS` |
| `run` | each run of the user: next step, the pair in hand, the findings it embedded |
| `torn` | history: an append was cut short after it had replaced the index |

`load_user_kb` is three actions (`Load` with the cache look-up and the index,
`ReadMeta`, `StoreInCache`), because it takes no lock.  `append_clauses` is one
action up to the new contents (`BeginAppend`; only the holder of the lock
writes) and then one per file, and `PopCache`.  `WriteFails` may hit each write;
`_maybe_write_user_kb` swallows it.  `Crash` lets every unsettled run start
again, from its beginning or behind the CRAG node, in a process that may be
configured with another model.  A vector is the row it belongs to and its model;
a model is narrow or wide.  One user stands for all: another one has other
files, another lock and another cache entry.

### Accounts

| Variable | Code |
|---|---|
| `row` | the account's row: password (as which in a row it is), `session_epoch` |
| `link` | `password_reset_tokens` and the links that were mailed |
| `jar` | the session cookie of each browser, with the log-in it goes back to |
| `req` | a tab's request: past `require_auth`? the cookie it was re-issued |
| `loop` | the handler on the event loop: the store call it makes next |
| `task` | each thread's `_reset_email_task`: its next step, time and link |
| `cool` | the limiter's window for reset mails |
| `torn`, `overlap`, `changer` | history, for the exceptions the properties name |

| Actions | Code |
|---|---|
| `SignUp`, `LogIn`, `LogOut`, `LogOutAll`, `ChangePassword` | the handlers of `auth.py` |
| `Authenticate` | `require_auth`: reads the row, may re-issue the cookie |
| `Bump`, `Renew` | `bump_session_epoch` and the new cookie after it |
| `Forget`; `DeleteOld`, `Invalidate`, `Create`, `Send` | `forgot_password`; the task it starts |
| `LookUp`, `Consume`, `Update` | `reset_password`: `get`, `mark_used`, `update_password` |
| `HandlerFails`, `TaskFails`, `Crash`, `Tick` | a store call that raises, the end of the process, time |

The handlers are coroutines without an `await`, so the event loop runs one at a
time, but each is cut at its store calls, where a failure or a crash may fall
and where the threads get in.  A log-in may always succeed here: limits and
lockout only refuse, and `LoginGuard` is about them.

### RateLimiter, LoginGuard

`RateLimiter` has `check` as operators: prune, ask, append.  `LoginGuard` has the
window of each address (`hits`) and the account's row (`failed_login_count`,
`first_failure_at`, `lockout_until`), and as history what was let through and
the wrong passwords in a row.  `Refuse`, `Attempt` (a request that counts
against the address and does not ask for this account's password, or that the
lockout answers), `WrongPassword` and `RightPassword` are the paths of the
handlers; `Restart` empties the windows and leaves the row.

### Delivery

| Variable | Code |
|---|---|
| `config` | `MCP_DRIVE_ENABLED`, `MCP_GMAIL_ENABLED`, `PER_USER_DRIVE_ENABLED` |
| `run` | each run: next step, the token it took, the formats left, the attempts at its call, the folder it found, the link it holds, both entries of `mcp_delivery_status` |
| `tmp` | plaintext token files |
| `folders`, `copies`, `mails` | the user's Drive, the mails sent |
| `air` | the calls that were given up and that Google has still to carry out |
| `stored`, `revoked` | `users.google_oauth_token`; the tokens Google refuses |
| `pending`, `flow`, `disc` | `_pending_state`, the connect flows, a disconnect |
| `late`, `lost`, `connects`, `cleared` | history; `late` counts the files made by calls that had been given up |

| Actions | Code |
|---|---|
| `TakeToken`, `ClearRevoked` | `worker.py` before and after the delivery |
| `DeliverNothing`, `Materialize`, `Open` and their raising variants | `deliver_report`: the PDF, the token file, its `finally` blocks |
| `GrantRefused`, `Resolve`, `CreateFolder`, `Look`, `Write`, `WriteUnanswered`, `UploadFails` | `call_tool_with_retry` around the Drive server, cut at the calls of `_handle_upload` |
| `NoMail`, `Send`, `SendUnanswered`, `SendFails` | the same around the Gmail server |
| `FolderLingers`, `FileLingers`, `MailLingers`; `FolderLands`, `FileLands`, `MailLands` | a call that is given up; Google carries it out later |
| `Authorize`, `Callback`, `Exchange` | the connect flow of `integrations.py` |
| `DisconnectRead`, `DisconnectRevoke`, `DisconnectClear`, `Withdraw` | disconnect; the user revokes the grant at Google |

Google's API is external: a call is carried out, is not, or is carried out only
after it was given up (the time-out ends the server's process, which takes back
no request that was sent); its answer arrives, arrives as one that is worth a
retry, or does not arrive.  The folder and the file are looked for in one call
and created in another, so a late call may fall between the two.

### SourceText, ClauseSplitting

A text is a sequence of letters, one for each thing the regular expressions tell
apart: the end of a line, a clause marker, a sub-list marker, a page number, the
beginning and the rest of a footer, a phrase that gives a type, anything else.  `SourceText`
has the cleaner with the ranges it deletes, the map of the cleaned text to the
pages and the regex pre-pass; `ClauseSplitting` has the two nodes (`Ingest`,
`Split`, `Empty`, `Short`, `Refuse`), the model's answer entry by entry in its
three modes (`Claim` and `Complete` for tolerant groups, `Entry` and `Partition`
for strict ones, `Emit` and `Emitted` for texts of its own), `Fallback`, and
`Build`, which makes the clauses and their locators.  A document with a map comes
from the parser that ends every line (`Ended`); the others only put a break
between two lines.

### StoreConn

A writing call is `Begin`, `Execute`, `Commit` under its store's lock, and
`Close` for the blob store.  A drop of the connection is found by either
operation (`Retry`, `GiveUp`) and takes along what was executed and not
committed, of whichever store; or an operation raises for another reason
(`Fail`).  Remote, each store has its connection; embedded, all share one whose
lock is held for one operation at a time.  The n-th call of a store writes n.

### ModelCalls

Pure operators, in no run: what of clause, evidence and rationale fits into a
prompt (`JudgePrompt`, `DraftPrompt`), what becomes of an answer (`Judged`,
`JudgedAtOnce`, `Scored`, `Drafted`), how often an embedding is asked for
(`Made`, `Embedded`) and what the retrievers return.  The theorems about them
say that `ClausePipeline` chooses from exactly the outcomes a call can have.

### How the modules fit together

`JobRunner` is the frame: its `RunNode` is one node of `ClausePipeline`, its
`Deliver` one delivery of `Delivery`, its publishing steps are those of
`EventStream`, its end of a run is an append of `UserKb`, and its store calls are
calls of `StoreConn`.  They are checked apart: each of the inner modules takes
any behaviour of its surroundings (a crash and a resume at any point, except in
`Delivery`; another run at the same time; an outcome of any kind), and the outer
one any outcome of the inner.

### Mutants

A definition whose comment begins with "Mutant" is never used by the
specification.  It is a plausible mistake in the definition that follows it;
with it in place of that definition the property it is meant for is violated.
Each property of a passing run has one.

## 4. The runs

| Run | Config, module | States | Shows |
|---|---|---|---|
| `job_crash` | `JobRunnerCrash.cfg`, `MCJobRunner` | 75 k | Two jobs, one worker, three stages, two crashes, durable checkpoints: exact `completed_nodes`, no progress forgotten, and under fairness every job that has to run settles (`CompletedNodesExact`, `ProgressKept`, `EveryJobSettles`) |
| `job_turso` | `JobRunnerTurso.cfg`, `MCJobRunner` | 563 k | Two jobs, two workers, ephemeral checkpoints, sources dropped at the end, raising calls of every service, one crash: one owner per job, write-through, nothing stranded, a nonterminal job keeps its source, repeated delivery only over a crash (`SingleOwner`, `WriteThrough`, `NothingStranded`, `SourceKept`, `DeliveredAtLeastOnce`) |
| `job_retention` | `JobRunnerRetention.cfg`, `MCJobRunner` | 255 k | Three jobs for a table of one: the second prune is definitive, pruned rows stay gone, and every step is one of `JobLifecycle` (`PruneDefinitive`, `PrunedStaysGone`, `ImplementsLifecycle`) |
| `accounts` | `Accounts.cfg`, `MCAccounts` | 1.75 M | Log-in, log-out, change and reset of the password against `require_auth` and the mail tasks on their threads, a failure anywhere, the passing of time: `SessionsRooted`, `SessionsEnd`, `LinkOnce`, `NewestLinkOnly` |
| `login_guard` | `LoginGuard.cfg`, `LoginGuard` | 1.1 M | Two addresses, right and wrong passwords, restarts: `SpacedOut`, `RefusedOnlyWhenFull`, `GuessesBounded` |
| `delivery` | `Delivery.cfg`, `MCDelivery` | 682 k | Two runs into one Drive, and a run while the user connects twice and disconnects; lost answers, retries, calls carried out after they were given up, channels off or failing: `StatusTruthful`, `NotMultiplied`, `TokenFilesGone`, `StateOnce` |
| `pipeline_outage` | `ClausePipelineOutage.cfg`, `ClausePipeline` | 4.2 M | Three clauses, every breaker in reach: discards are justified, outages are bounded and surfaced, rewriting matches the scores (`DiscardJustified`, `OutageBounded`, `RewriteCoversRisk`, `OutageSurfaced`) |
| `pipeline_resume` | `ClausePipelineResume.cfg`, `ClausePipeline` | 537 k | Two crashes at any point: the pair of files of a completed run agrees, health signals count once, the run ends (`ReportPairAgrees`, `ErrorsCountedOnce`, `PipelineEnds`) |
| `event_stream` | `EventStream.cfg`, `EventStream` | 88 k | Two connections, two nodes, a restart: nothing lost and the end stored before it is sent, every step is one of `EventLog` (a connection that is closed but subscribed is not), streams of a running job end (`StreamsTruthful`, `ImplementsEventLog`, `LiveStreamEnds`) |
| `splitting` | `ClauseSplitting.cfg`, `MCClauseSplitting` | 541 k | Every text of three lines of eight shapes, with and without a break at its end and a change of the type face within its lines, with every answer of the model: `SegmentsOnce`, `CleanedIsCut`, `LocatorsCover` |
| `user_kb` | `UserKb.cfg`, `UserKb` | 1.2 M | Two runs of a user, a crash, a failing write, three models: files and loaded pairs stay in step, nothing learned is lost or doubled, no run waits for ever (`InStep`, `HandlesInStep`, `LearnedOnce`, `RowsNeverLead`, `EveryRunSettles`) |
| `store_conn` | `StoreConn.cfg`, `StoreConn` | violation | `AckedIsStored` fails; section 7, 1 |

Type invariants are proved, not run, where there is a proof module.

    tlc -workers 2 -config JobRunnerCrash.cfg MCJobRunner.tla
    tlc -workers 2 -config ClausePipelineOutage.cfg ClausePipeline.tla
    tlapm JobRunnerProofs.tla

## 5. Bounds and fairness

### Bounds

- `JobRunner`: `MaxCrashes` ends of the process and `MaxFaults` raising calls.
  Two stages are enough for a first and a last node, three for a checkpoint
  that lags, is level or is ahead of the recorded progress with a node between
  them.  Two crashes let a resumed run be cut short again.  Two jobs and two
  workers (`job_turso`) give every pair of owners;
  the retention run has three jobs and a cap of one, so that one `add` evicts a
  job that is queued, running or finished while others exist.  Jobs and workers
  are symmetric (submission order is in `stamp`); `job_crash` checks liveness and
  uses no symmetry.  Its table has room for both rows: with a cap of one and two
  crashes `CompletedNodesExact` fails, because a crash between the two prunes
  leaves a re-inserted row whose checkpoint went on without it (the cause of
  section 7, 4).
- `ClausePipeline`: with thresholds of two, three clauses let a breaker open on
  the last call, open and then be consulted, or be reset in between.
  `DegradedPercent` is 75, so two fail-safe findings of three are degraded only
  through the breaker's signal and not by their share.  The crash run has one
  clause, thresholds of one and two crashes: a crash can fall in each node, in
  the writing of either file, and again after the resume.  A checkpoint is saved
  only while a crash is left that could need it.
- `EventStream`: two connections, two stages, one restart: one connection can be
  between its backlog and its queue while the other one ends.
- `UserKb`: two runs, of which a crash makes three or four; two findings, so that
  one can fail to be embedded; two models of one dimension and one of another.
  With three runs of one finding each (3.9 M states, too many for the liveness
  property) the safety properties hold as well.
- `Accounts`: a behaviour keeps to one of three scopes (`MCScopes`): two browsers
  and one reset link; one browser and two links issued at the same time; one
  browser over a long time.  Each has what its hazard needs: two browsers so
  that one can outlive what the other did, two tasks that overlap, four units of
  time for a chain of re-issues to outlive a session of two.  One failure or
  crash is enough to tear any two store calls apart.  Browsers and tasks are
  symmetric.  The theorems of section 6 have none of these bounds.
- `LoginGuard`: two attempts in two units of time, two failures in a window of
  two, a clock that stops at five: windows slide, overlap and run out, and a
  lockout can be served and followed by another.
- `Delivery`: `MCConfigs` is a union of three kinds of behaviours: two runs that
  upload into one Drive; one run of a user with two connect flows; one run with
  any of the switches off, and with calls that are carried out late.  Which calls
  these are is a part of `config`: folders and files in one half of the third
  kind, folders and mails in the other.  Two formats, one retry, two folders: a
  folder may appear between look-up and creation, and a call may be carried out
  twice, the second time in the middle of the next attempt.  In the first two
  kinds no call is late; the theorems have neither bound.
- `ClauseSplitting`: all texts of three lines of eight shapes, the last line on
  another page and ended or (without a map) not, and a text with more markers
  than `MaxClauses`; every answer over its segments.  In texts whose first line
  ends with a footer the type face may change where the footers begin, or within
  them; without `FootersWhole`, the condition of `LocatorsCover`, the latter
  violate it.
- `StoreConn`: a store and the blob store with two calls each and two
  reconnects, in both modes.
- Deadlock checking is off (`CHECK_DEADLOCK FALSE`) where the system may come to
  rest: all jobs submitted and finished, all connections closed, all runs settled.  The
  pipeline has an explicit `Done` step, so deadlock is checked there.

### Fairness

- `JobRunner`: weak fairness of each thread's `Work` and `Checkpoint`, of the
  steps of `add` in progress and of start-up.  The threads are scheduled, each
  node call has a timeout, the saver's executor drains its writes, and the
  platform restarts the process.  A thread's `Work` stays enabled until it is
  taken, so weak fairness is enough.
- `ClausePipeline`: weak fairness of `Run`: every external call returns or times
  out.
- `EventStream`: weak fairness of the worker, of the event loop's callbacks and
  of each connection's generator.
- `UserKb`: weak fairness of each run's thread.  A run waits for the lock at most
  as often as other runs append, which is finite.
- `Accounts`, `LoginGuard`, `Delivery`, `ClauseSplitting` and `StoreConn` state
  safety only and assume no fairness.
- Nothing is assumed of crashes, raising calls, submissions, requests, connects
  and disconnects.

## 6. The proofs

All proofs are checked by TLAPS for every value of the constants that satisfies
the modules' assumptions: `JobsAssumption` (job ids are a finite set without
`NoJob`), `BoundsAssumption`, `LimitsAssumption` (thresholds and attempts are at
least one, the default level is a level), `StreamAssumption`, `KbAssumption`
(`NoRun` is no run, `NoModel` no model), `AccountsAssumption` and
`GuardAssumption` (times and limits are numbers, limits are positive),
`DeliveryAssumption` (at least one upload format, all of them PDF, Markdown or
JSON; no flow's token is the central one), `SplittingAssumption` (limits are
numbers, `MaxClauses` is positive, texts are made of the letters of section 3,
cuts are positions),
`StoreConnAssumption`.  They are assumptions about settings and inputs the code
takes as such, and TLC evaluates them in the runs (`StoreConnAssumption` is a
hypothesis of its three theorems instead, as no passing run extends that module).

| Module | Theorem | States | Inductive invariant |
|---|---|---|---|
| `JobRunnerProofs` | `TypeCorrect` | `[]TypeOK` | `TypeInv` |
| | `OneOwner` | `[]SingleOwner` | `OwnerInv` |
| | `TerminalStays` | `TerminalIsFinal` | `FinalInv` |
| | `ProgressIsKept` | `ProgressKept` | `FinalInv /\ RowsGrow` |
| | `DeliveredOncePerCrash` | `[]DeliveredAtLeastOnce` | `CountInv` |
| | `PrunedRowStaysGone` | `PrunedStaysGone` | `PruneInv` |
| | `RecordsWriteThrough` | `[]WriteThrough` | `PairInv` |
| | `PruneIsDefinitive` | `[]PruneDefinitive` | `SweepInv`, `MannedInv` |
| | `NothingIsStranded` | `[]NothingStranded` | `MannedInv` |
| | `RecentNodesExact`, `NodesAreExact` | `[]NodesExact(j)` of a recent job; `[]CompletedNodesExact` while the table has room for all jobs | `ExactInv` |
| | `RecentSourceKept`, `SourcesAreKept` | a recent nonterminal job has its source; `[]SourceKept` while the table has room for all jobs | `ExactInv` |
| | `TableImplementsLifecycle` | `Spec => ImplementsLifecycle`, if `"blobs" \notin Faulty` | `LifeInv` |
| `ClausePipelineProofs` | `TypeCorrect` | `[]TypeOK` | `TypeInv` |
| | `DiscardsAreJustified` | `[]DiscardJustified` | `DiscardInv` |
| | `OutagesAreBounded` | `[]OutageBounded` | `DiscardInv /\ Counted` |
| | `RewritesCoverRisk` | `[]RewriteCoversRisk` | `RewriteInv` |
| | `PairAgrees` | `[]ReportPairAgrees` | `PairInv` |
| | `SignalsCountOnce` | `[]ErrorsCountedOnce` | `SignalsBounded` |
| | `OutagesSurface` | `[]OutageSurfaced` | `RewriteInv`, `OutageInv` |
| | `JudgePromptFits`, `EvidenceCrowdedOut`, `DraftPromptFits` | of `ModelCalls`: what a prompt takes from its parts | |
| | `JudgedIsVerdict`, `JudgedAtOnceIsVerdicts`, `ScoredIsLevel` | of `ModelCalls`: the outcomes of a call are those `ClausePipeline` chooses from | |
| | `RetryingHelps` | of `ModelCalls`: the attempts of the embedding clients | |
| `EventStreamProofs` | `TypeCorrect`, `EndedIsStoredHolds`, `NoSubscriberLeakHolds` | `[]TypeOK`, `[]EndedIsStored`, `[]NoSubscriberLeak` | `IInv` |
| | `StreamsTruthfulHolds` | `[]StreamsTruthful` | `IInv /\ NothingLost` |
| | `StreamImplementsLog` | `ImplementsEventLog`: refines `EventLog` | `LogInv` |
| `UserKbProofs` | `TypeCorrect` | `[]TypeOK` | `TypeInv` |
| | `StaysInStep`, `SidecarNeverLeads`, `FilesOnlyGrow` | `[]InStep`, `[]RowsNeverLead`, `OnlyGrows` | `FilesInv` |
| | `HandlesAreSound` | `[]HandlesInStep` | `FilesInv /\ HandlesInv` |
| | `LearnedOnceHolds` | `[]LearnedOnce` | `FilesInv /\ OnceInv` |
| `AccountsProofs` | `SessionsRootedHolds`, `SessionsEndHolds` | `[]SessionsRooted`, `[]SessionsEnd` | `SessionInv` |
| | `LinkOnceHolds`, `NewestLinkOnlyHolds` | `[]LinkOnce`, `[]NewestLinkOnly` | `LinkInv` |
| | `StoresTyped`, `AckedUnlessLostHolds`, `RowsMoveOnHolds` | of `StoreConn`: `[]TypeOK`, `[]AckedUnlessLost`, `RowsMoveOn` | `StoreInv` |
| `ClauseSplittingProofs` | `SegmentsOnceHolds`, `CleanedIsCutHolds` | `[]SegmentsOnce`, `[]CleanedIsCut` | `SplitInv` |
| | `LocatorsCoverHolds` | `[]LocatorsCover` | `SplitInv /\ LocatedInv` |
| `LoginGuardProofs` | `TypeCorrect`, `SpacedOutHolds`, `RefusedOnlyWhenFullHolds`, `LockEarnedHolds` | `[]TypeOK`, `[]SpacedOut`, `[]RefusedOnlyWhenFull`, `[]LockEarned` | `IInv` |
| | `GuessesBoundedHolds` | `[]GuessesBounded` | `IInv` |
| `DeliveryProofs` | `TypesHold`, `StatusesTruthful`, `RetriesMultiplyNothing`, `TokenFilesRemoved`, `StatesConnectOnce` | `[]TypeOK`, `[]StatusTruthful`, `[]NotMultiplied`, `[]TokenFilesGone`, `[]StateOnce` | `IInv` |

### JobRunner

The invariants build on one another: `TypeInv`, `OwnerInv`, `FinalInv`,
`PruneInv`; on `PruneInv` stand `PairInv`, `SweepInv` and `LifeInv`; on `PairInv`
and `SweepInv` together stands `MannedInv`.

- `TypeInv` adds to `TypeOK` that a busy thread has a job and that a graph whose
  outcome is pending has a node left.  Without it `Yield` could record stage
  `NumNodes + 1`.
- `OwnerInv` adds that a job somebody owns has been submitted (`Stamped`: an id
  is fresh when it is submitted) and that nobody owns a job while the process is
  down (`Quiet`), which is why `_recover` can queue every nonterminal row
  without queueing one twice.
- `FinalInv` adds that a job that is owned, up to the end of its run, is not
  terminal in its row (`Unfinished`), and what its record then says
  (`RecordOpen`).  This is where `OneOwner` is needed: a second owner could
  finish the row under the first one's hands.
- `RowsGrow` is about the record in hand as well: what it lists is as long as
  the row, so that a write of it cannot take progress back.
- `PruneInv` follows a pruned job through `add`: a handle that can still write
  its row is one that `add` is about to cut (`Reaches`, `Cut`), a victim that no
  thread has looked up yet is not stored again (`NotBack`), and what stays is
  newer than every victim (`Oldest`).
- `PairInv` says when a live record and its row may differ: not at all, unless a
  call has raised or `add` is between its insert and its detachment.
- `SweepInv` is why the second prune is definitive.  Stamps are distinct
  (`Ranked`), so the table has an order, and until the second prune each victim of
  the first has `RetentionMax` survivors above it.  Workers may bring victims
  back meanwhile, but the second prune takes all of them again
  (`PruneCovers`), and what a prune leaves fits under the cap (`PruneFits`, a
  count of a finite set).
- `MannedInv` is why nothing is stranded: while no call has raised, a job that
  somebody owns is live (`Attended`), hence its last write reaches the row
  before it is let go; so a row that stays nonterminal has an owner (`Manned`).
- `ExactInv` is why `completed_nodes` is exact and a source is kept.  Both fail of
  a job that a prune removed while it ran (section 5; section 7, 4), so they are
  proved of the jobs that no prune can have reached: `Recent`, those with fewer
  than `RetentionMax` later submissions.  Recency is lost and never won
  (`RecentBack`), and a recent job is beyond no prune (`RecentStays`), hence its
  record is live and attached whenever it has an owner (`Spared`).  The rest
  follows a run stage by stage (`InStep`): the row has the record's progress
  until something raises; the `seen` set is that progress; the graph, and with it
  the checkpoint, is at most one stage ahead of the row (`Recorded`), so that a
  resumed run yields either a stage the row has or the next one, across any
  number of crashes.  A report, or the failure to make one, comes from the last
  stage only (`Ends`), so a row completed without an error lists all of them.
  With fewer jobs than the cap every job is recent, which gives the two
  properties as the runs state them.
- `LifeInv` is for the refinement.  A terminal row that a raising `to_status`
  overwrites with `failed` (`PublishRaises`) is no move of `JobLifecycle`, and
  this is what the hypothesis about `"blobs"` excludes; it is also
  number 3 of section 7.  The run `job_retention` checks the same under the same condition.

### ClausePipeline

- `DiscardInv` relates the running node's copy to the graph and the checkpoint:
  before Self-RAG no clause is decided, within Self-RAG none from the current
  one on, and only a clause without a floor type reaches the ISREL and ISSUP
  calls.  It has to speak of `saved` as well, because a resume starts from it.
- `Counted` says that a breaker that is still closed has counted fewer failures
  than its threshold.  `OutageBounded` alone is not inductive: one more failure
  would exceed it.
- `RewriteInv` says which clauses have a level or a rewrite at each stage
  (`Ready`, `Left`), for the graph, the checkpoint and the copy in hand.
- `PairInv` says which of the two files belongs to the state that is about to
  point at them; `SignalsBounded` bounds `error_count` by the nodes that have run,
  for the graph and for the checkpoint a resume would start from.
- `OutageInv` is why an outage is surfaced.  While the risk node scans, either its
  breaker is open or no stretch of findings behind it has `RiskThreshold`
  fail-safes, and the fail-safes that end the stretch are at most the breaker's
  count (`Scanned`): this ties the shape of the finished list to a counter that
  forgets.  When the node returns, the open breaker has become a signal in
  `error_count`, or there is no such stretch (`Signalled`); and that goes on to
  hold in the graph and the checkpoint, through redlining and a resume, up to the
  report, which copies both (`RewriteInv` says that levels do not change later).
- The theorems about `ModelCalls` are about its operators alone: the prompts'
  parts fit their limits for any lengths, and the verdicts and levels that can
  come of an answer are all those, and only those, that `ClausePipeline` chooses from.

### EventStream, UserKb

- `IInv` of `EventStreamProofs` ties what a connection was sent to what its queue
  and the callbacks under way still hold, and each subscription to an open
  connection.
- `NothingLost` is inductive beside it.  It says of each subscriber that what it was
  sent, its unsent backlog, its queue, the callbacks queued for it (in their
  order, named by their places in the loop's queue) and the event that `publish`
  is handing over are the backlog, in this order.  So `Subscribe` may fall between
  the two halves of `publish`: the event is then in the backlog it copies, and it
  is not among the targets.
- The refinement needs one thing more (`Served`, in `LogInv`): a connection that is
  being served is subscribed, or it came to a closed buffer, and what it was sent
  and has unsent is the whole backlog.  With `NothingLost` the next event a
  generator sends, from its backlog or its queue, is then the next of the log
  (`LineIsNext`), and it is the last exactly when it is a terminal one.
- `FilesInv` follows an append: who writes holds the lock, the prepared contents
  extend both files by one batch, and between the two replaces the sidecar is
  still a prefix of what it will be.  `InStep` alone says nothing about those
  moments.
- `HandlesInv` says of a load between its two reads that the index it read is a
  prefix of the one on disk.  As the sidecar is always a prefix of the index's
  rows, equal lengths then make the pair (`EqualPrefixes`): the length check is
  enough, though nothing orders the two reads.
- `OnceInv` counts without a cardinality: no two vectors have one row (`NoTwice`),
  a run's findings are in the index exactly when it kept them, and the append
  that is prepared by the holder of the lock is complete and not yet there.

### Accounts, LoginGuard, Delivery, StoreConn

- `SessionInv` says of every cookie, in a browser or under way, that its times
  are those of its log-in (`Timed`) and that, if it has today's epoch, it goes back
  to a log-in with today's password, except while the epoch is about to be
  bumped or the update was torn there.  It has to speak of cookies that are no
  longer accepted, since a cookie is re-issued from one that was.
- `LinkInv` says what each reset link may still do in every state of its row and
  of the tasks (`LinkFine`), and that without an overlap no two are unused
  (`IssuedAlone`).
- `IInv` of `LoginGuardProofs` relates the pruned window to all that was let
  through (`Ledger`: what was forgotten has left the window) and the row's count
  to the wrong passwords since its first failure (`Counted`).  For the pace of
  guessing it says that the guess that opened the row's window came more than a
  window after the `MaxFailures`-th before it, or after a pause of a lockout
  (`Opened`): a chain of windows then covers any `2 * MaxFailures` guesses in a
  row (`Paced`).
- `IInv` of `DeliveryProofs` follows each run by itself (`RunInv`), since a step of
  one run leaves of the others what their invariant is about (`OthersKeep`): whose
  tokens are in its files at each step (`Held`); that the formats it has left are
  the last ones and those before are in Drive unless an upload failed (`Left`),
  which makes "success" the truth at the end of the list; and that mails, sent and
  still to be sent by a call that was given up, outnumber the lost answers by one
  at most (`Truthful`).  Of each file it says that all copies but one were late
  (`Housed`), which rests on what a look-up has found: a run about to create a file
  saw none, and only a late call can have made one since (`Progress`).  `Flowing` says of the connect
  flows that a pending state belongs to a flow that has not come back.
- `StoreInv` (at the end of `AccountsProofs`) says where the write of a call may be at each of
  its steps: executed and pending on the connection that will commit it, in the
  table, or lost with a connection.  `AckedIsStored` is false (section 7, 1);
  `AckedUnlessLost` shows that this is the only way to lose a write.

### ClauseSplitting

The text is a sequence of any length, so the proof needs what a scan of it finds,
and the operators are defined by `CHOOSE` and by counting.  The lemmas turn these
into facts: `Sorted` lists a finite set once and upwards (`SortedIs`), every
position is on exactly one line (`OnSomeLine`, `OneLine`), a segment ends where
the next start is (`StopIs`).

- For `CleanedIsCut`, position by position: one is cut by a range if and only if
  its line is dropped or it is in a footer (`CutWhere`), and kept if and only if
  neither is the case (`KeptWhere`).  The break at the end of a line is where the
  two would differ; a text that ends its lines (`Ended`) has a last line without
  letters, which is never dropped, and every other line has a break of its own.
- For `SegmentsOnce`, from the text to the segments: they are disjoint, and a letter
  after the first start is in one (`SegmentsLaid`), so only what is before all
  starts or beyond `MaxClauses` is in none (`SegmentsCover`).  From the segments to
  the clauses: `SplitInv` follows the answer entry by entry.  Tolerant groups are
  disjoint and hold exactly what is claimed (`Claimed`), so with the unclaimed
  segments they are a partition, and an order by `Before` can list none twice
  (`CompleteTiles`).  In the strict mode a map from the places of the answer to its
  groups goes up (`Answered`), so an answer 1, 2, ... has neighbours only in its
  groups (`PartitionTiles`).  As each group has a segment of its own, there are at
  most `MaxClauses` of them, and the limit in `Build` takes none away (`FewTiles`).
- For `LocatorsCover`, one count: a deletion is a range of one line, no two overlap
  (`DeletionsApart`) and none reaches over the beginning of a span that keeps a
  letter (`SpanKept`), so the sum of their lengths by which `remap_spans` moves the
  span is the number of letters gone before it (`MovedIsGone`, a bijection), while a
  kept letter moves by those gone before the letter (`KeptAt`).  So it stays in its
  span (`StaysInSpan`), which meets the range of its clause (`OwnLocated`).  Where no
  line lost a footer, a span that is left holds nothing else (`OnlyItsLetters`), and
  between two segments every letter is in a segment (`SegmentsLie`), so a span that
  meets the range of neighbours has a letter of theirs (`LocatedOwns`).  The
  condition of the property, `FootersWhole`, is used in `SpanKept` only: a span that
  begins inside a footer has a deletion over its beginning.

### Only model-checked

- Liveness (`EveryJobSettles`, `PipelineEnds`, `LiveStreamEnds`,
  `EveryRunSettles`): temporal reasoning under fairness is out of the prover's
  reach.
- `CompletedNodesExact` and `SourceKept` of jobs that a prune may have removed
  while they ran: there they are false (section 5; section 7, 4).  The theorems
  have this as their hypothesis.

## 7. Disagreements between code and documents

1. **A call returns although its write is gone** (run `store_conn`,
   `AckedIsStored`).  `commit()` reconnects like any other operation
   (`db_backend.py:232`): a connection that dropped after `execute()` is replaced
   and the new one, where nothing is pending, is committed.  So `mark_used` says
   that it consumed a reset link, the password is set, and the link stays
   usable, against 063 EC-6 (`specs/063-turso-reconnect-retry/spec.md:122`: the
   reset fails closed).  On the shared connection of the embedded replica the
   blob store's `close()` does the same to another store (065 `spec.md:56`).

The following are defined in their modules, each with its comment; TLC refutes
each when it takes the place of the properties in `JobRunnerTurso.cfg` (2 to 4),
`EventStream.cfg`, `UserKb.cfg`, `Accounts.cfg` or `Delivery.cfg`, with the
changes given here and without the symmetry.

2. **A raising store call ends the worker thread** (`OthersStillRun`, with
   `FairSpec`, one worker, one fault and no crash).
   `_loop` calls `_run_one` without a `try` (`worker.py:69`); `mark_running`,
   `get_google_credentials` and the `mark_terminal` of the `except` block may
   raise.  With one worker thread every other job waits for ever, against
   011 EC-2.
3. **A job whose analysis succeeded is failed** (`AnalysisSucceededIsCompleted`).
   Blob-store calls in delivery (`delivery_step.py:206`) and in `to_status` may
   raise on Turso, and the `except` block then overwrites the outcome, against
   011 EC-3.
4. **A job is run again without its document** (`RecoveredHasSource`, with a
   cap of one, one worker and no fault).  A worker
   re-inserts a row that the first prune of a later `add` removed, and finishes
   after its record was detached: the source is deleted while the re-inserted
   row says running.  A crash before the second prune makes that row permanent,
   and recovery queues it, against the comment at `registry.py:198`.
5. **A stream of a finished job stays open** (`FinishedStreamEnds`).  After a
   restart the record has a new, open and empty buffer (`registry.py:358`),
   against 011's "no hang".
6. **A crash leaves index and sidecar of different lengths** (`NeverDesynced`).
   The two files are replaced one after the other, against the comment at
   `user_kb.py:164`.  From then on every load takes the user's KB for corrupt,
   every append keeps the difference, and nothing repairs it.  A load that reads
   the index before and the sidecar after the next append can even find equal
   lengths and pair vectors with rows of other clauses.
7. **A browser is logged out by its own change of the password**
   (`NotLoggedOutByOwnChange`, with `MCTabScopes` and two tabs).  A request of
   another tab that passed `require_auth` before the change answers after it and
   puts a cookie of the old epoch over the new one, against the comment at
   `change_password` in `auth.py`.
8. **A run that used the central token disconnects the user** (`ClearedWasUsed`,
   with `CentralOnly`).  The worker clears the stored token on `invalid_grant`
   without asking which token the upload used, nor which one is stored by then
   (`worker.py:131`), against the plan of 031 (`plan.md:179`).

Met while modelling, and not stated as a property:

- Accounts: a crash between `update_password` and `bump_session_epoch` leaves
  the old sessions valid (`torn`); two overlapping tasks leave two live reset
  links (`overlap`); an answer under way when a browser logs out restores its
  cookie; the lockout's window is that of the first failure, so up to
  `2 * MaxFailures - 1` guesses fit into one (`GuessesBounded` is the bound that holds).
- Splitting: text before the first marker is dropped by the regex pre-pass.  A
  clause whose segments are not neighbours, or whose line lost a footer, is also
  located at places in between (055 AC-6); the second part of `LocatorsCover`
  leaves these out.  A span of the page that begins inside a footer, because the
  type face changes there, is put too far to the right by what of the footer stands
  before it, as `remap_spans` counts only the ranges that end before a span: the
  clause with the rest of that line may then lose its place on the page, against
  055 AC-6 (`specs/055-pdf-source-locator/spec.md:128`).  Therefore `LocatorsCover`
  is about documents with `FootersWhole`; TLC refutes it without.  The ranges that
  the cleaner reports overlap, against its docstring, where the last lines are
  dropped and the text does not end with a break, and one break may then be in none
  of them; without a map nobody reads them.
- Model calls: a clause as long as the prompt's limit leaves no room for the
  evidence it is to be judged by (`EvidenceCrowdedOut`), and a longer one is
  rewritten from a part of its text; the timeouts of refining, parsing and
  embedding do not bound their calls, because leaving `with ThreadPoolExecutor`
  waits for the thread; with CRAG's embeddings and the web search both down,
  clauses of types outside the recall floor are discarded for want of evidence
  and no signal says so.
- Files and reports: the orphan check of the report agent looks at the local
  disk even when the files are blobs in Turso (`report_agent.py:43`, 009);
  `error_count` is shared by all nodes, so an open Self-RAG breaker and one
  fail-safe severity make a report degraded (`report_assembler.py:169`, against
  `app/models/report.py:94`); the checkpoint thread of a job that is pruned while
  it runs is written again after its deletion (`registry.py:344`, 012).
- User KB: a load that read the pair before an append may put it into the cache
  after the append has dropped the entry, so that later loads miss the new
  clauses until the next append (`user_kb.py:117`, against 061 AC-7); a process
  with another embedding model of the same dimension appends its vectors to the
  old ones (061 EC-6).

## 8. What is not modelled

- Not yet: row 14 of the plan.  The denormalised counts of the dashboard are a
  pure function of a stored report that unit tests reach; `useJobStatus` (polling
  with transient failures, reconnects and late answers) is the one part of the
  frontend that keeps a protocol, and deserves a model.
- Not at all: document parsing, PDF, HTML and Markdown layout, encryption,
  migrations, configuration, `prompt_guard`, the dimensions of Ollama's
  embeddings, the evaluation harness and the presentation part of the frontend.
  They keep no shared state; where their failure matters it is an input of a
  model.
- In `JobRunner`: the registry's in-memory mode without a store, live clause
  progress (display only, never stored), upload validation and owner scoping of
  the endpoints, and time: timeouts appear as calls that fail.
- In `Delivery`: a crash in the middle of a delivery (the run is then delivered
  again, which `JobRunner` has), and token files cut short by a full disk.  A call
  is late or not as a whole: an update that is carried out late is left out, as it
  changes no count.
- In `Accounts`: hashing, the profile's other fields, validation of input.
- In `ClauseSplitting`: the offsets of CR and LF, the types a model gives to
  texts of its own, and any text beyond the letters listed in section 3.
- In `StoreConn`: what a row holds, the pause between attempts, and the local
  SQLite backend, whose connection does not drop.
- In `ClausePipeline` and `ModelCalls`: scores, the wording of prompts and
  rewrites, the evidence trail and the layout of the report.

`PROJECT.json` lists the hazards that no property covers with the reason.
