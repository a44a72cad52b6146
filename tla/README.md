# nexa-sql: specifications of the session core

nexa-sql is a SQL client: a window with editors and result grids, a thread per
database session, and drivers for a dozen servers. Most of its code is layout,
text and drivers. The part that can lose a user's work is small and concurrent:
the session, that is, the gate that lets one operation run at a time, the worker
thread behind it, the transactions that worker opens and ends, the edits of a grid on
their way to the server, the choice of a session for a tab, and what the program
believes of a server. These specifications are about that part.

Paths below are relative to the repository; `L` is
`crates/nsql-run/src/lib.rs` and `app/` is `crates/nexa-sql/src/app/`.

## 1. Inventory

| component | state | operations | talks to | what must be true |
|---|---|---|---|---|
| **Session gate** `sessions.rs`, `app/session.rs`, `app/events.rs`, `app/run_events.rs` | `Sess`: `busy`, `aux`, `skip_done`, `connected`, `idle_closed` | run, fetch, count/keys/apply/import/export, commit, rollback, connect, idle close, forced stop, disconnect; drain of three channels | one command queue to the worker; connection outcomes, run events and done signals back | one operation at a time; the gate never stays shut without a cause; a reconnect put ahead of a run is not taken for the run |
| **Worker** `worker.rs` | the runner, the last server used, `suspect`, liveness times, cancel flag | one command after another, each with its events, outcome and done signal; reconnect before a command; panic caught | queue in, channels out | every command is answered once, on every path |
| **Runner transactions** `L` | `tx_open`, `tx_user`, `tx_changed`, `hold`, `hold_stmts`, cursor with its `deferred_end` | statement, COMMIT/ROLLBACK, apply of grid edits, fetch, connect | driver session; events to the host | flags agree with the server; nothing is committed or rolled back that the user did not decide |
| **Host transactions** `app/tx.rs` | `tx_pending`, `prod_held`, `tx_read`, commit mode, `hold_commit_ok_once` | list on done, hold, close, switch of mode, run gate, guard | worker commands; the warning card | the list is what the server holds back |
| **Warning and countdown** `txwarn.rs`, `app/tx.rs` | armed card, deadlines | tick, pick, fire | Commit/Rollback without the gate | fires once, never on another transaction |
| **Liveness and reconnect** `worker.rs` (`ensure_alive`), `probe.rs` | `suspect`, `last_ok`, `broken_told` | ping, reopen, give up | driver, health registry | a lost transaction is reported as lost |
| **Endpoint health** `app/health.rs` | per end point: state, back-off, who probes | report, probe, adopt | all sessions | one probe at a time; a recovery reaches every session |
| **Cancel and time-outs** `worker.rs`, `crates/nsql-core/src/lib.rs` | flag, watcher, deadline | stop, fire, reset | driver's cancel handle | a cancel hits the statement it was meant for |
| **Fetch cursor** `L`, `app/grid_results.rs` | open cursor, page, tail | fetch, fetch all, page by offset | grid | no row twice, none lost; the right end of the transaction |
| **Grid edits** `grid.rs`, `app/grid_results.rs`, `L`, `gridedit_sql.rs` | change set, `applying`; batch, savepoint, report | edit, undo, apply; pre-check, statements, verification; patch or query again | grid, worker, transactions | all or nothing; a true report; no edit is dropped that the server does not have |
| **Tabs and sessions** `sessions.rs`, `app/session.rs`, `app/run.rs`, `app/connwin.rs` | `tab_bind`, `default_shared`, per session `spec`, `owner`, `closing` | open, close, bind, log in, run with CONNECT, reap | gate, worker, production checks | a statement runs on the server its tab shows; a change to production is guarded |
| **Idle close and reaping** `app/session.rs` | idle clocks, `idle_closed` | tick, close, reopen | gate | nothing pending is closed |
| **Explorer tree** `explorer.rs`, `explorers.rs`, `app/meta.rs` | nodes and how far each is read, quiet refreshes under way, watermark, generation; the thread's queue and schema | open, close, refresh, switch schema, connect, rebind, go offline; DDL done, commit, watermark | a second family of threads; runs and transactions of the session | what is waited for comes; what the user did is shown; what he opened stays open |
| **Vault** `crates/nsql-vault` | key, file | lock, unlock, re-key, write | connect window | a crash leaves the old file or the new one |
| Script engine, formatter, catalog, import/export, settings, extensions, drivers, license, search, windows | mostly pure text or I/O | | | see section 8 |

The hard behaviours are these.

* *Three channels.* The worker answers on three channels; the host drains them in
  a fixed order, each to its end, while the worker runs. A done signal can be read
  before an event that was sent earlier.
* *Counting for identity.* `skip_done` says how many done signals to pass over, not
  whose they are. `aux` counts answers.
* *Abandoned workers.* A forced stop replaces the worker and its channels; what the
  host counted for the old one has to be set back.
* *Flags for state.* The runner never asks the server whether a transaction is open.
  It infers it from what it sent, across servers that differ in every respect:
  implicit transactions, DDL that commits, nested BEGIN, savepoints.
* *Ends put off.* With a cursor kept open, the commit or rollback of its transaction
  happens at its close, inside some later operation.
* *Consent.* On a production connection changes are held, and nothing but a
  confirmed commit may save them.
* *One mode for all sessions.* The commit mode is a setting; each session has its own
  transaction.

* *Two names for one server.* The host decides from the specification it keeps of a
  session, the worker runs on the session it has; a CONNECT in a text, a refused login and
  a worker given up make them differ.
* *Two ways of reading.* An answer replaces the children of a node or is merged into them, as a
  set of nodes says at the moment it is read; the node may have been closed, opened or asked for again since
  the request.
* *News from several sides.* Every session and the explorer find an outage out by
  themselves, at different times, and tell it once.

`PROJECT.json` lists the hazards with the line where each bites.

## 2. Modules

| module | stands for |
|---|---|
| `OneOpGate` | abstract: a gate is open or shut, something is under way or not |
| `SessionGate` | one session: the host's gate state, the queue, the worker and its three channels |
| `MCSessionGate` | workloads for its runs |
| `SessionGate_proofs` | its theorems |
| `UnitOfWork` | abstract: a list of pending changes that leaves whole, saved or dropped |
| `RunnerTx` | the transactions of one session: server, runner and host list |
| `MCRunnerTx` | servers and workloads for its runs |
| `RunnerTx_proofs` | its theorems |
| `StopRun` | stopping what a session does: button, time-out, forced stop, with the workers and the cancels on their way |
| `MCStopRun` | workloads for its runs |
| `StopRun_proofs` | its theorems |
| `ServerHealth` | what the program believes of one server: sessions, explorer, registry, lamps |
| `MCServerHealth` | sessions and mixes of commands for its run |
| `ServerHealth_proofs` | its theorems |
| `TabSessions` | which session a tab uses, which server that session is on, and whether a change is guarded |
| `MCTabSessions` | tabs, servers and workloads for its runs |
| `TabSessions_proofs` | its theorems |
| `GridEdits` | one editable result: change set, apply call by call, report, refresh |
| `MCGridEdits` | edits, servers and workloads for its runs |
| `GridEdits_proofs` | its theorems |
| `MetaTree` | the tree of the explorer, the thread that reads the catalog for it, and how changes on the server reach it |
| `MCMetaTree` | folders and mixes of bounds for its run |
| `MetaTree_proofs`, `MetaTreeShown_proofs` | its theorems: types, and what the tree waits for comes; what was promised is shown and what was opened stays open |

`SessionGate` implements `OneOpGate` (`GatePromise`) and `RunnerTx` implements
`UnitOfWork` (`UnitPromise`), each by an `INSTANCE ... WITH` whose mapping is
computed from the state. The two detailed modules share no variable: the first is
about the order of messages and takes no interest in what a statement does, the
second is about what statements do and lets the host read everything a step sent.
The reconnect that the first model puts ahead of a run is the connect of the second.
`StopRun` is a third view of the worker: what `SessionGate` has as one step of a
forced stop, it takes apart into the workers, their server sessions and the
threads that carry a cancel. `GridEdits` takes apart what `RunnerTx` has as one
apply: every call of it may be refused or cut off; that no other command of the
session falls between two of its calls is what `SessionGate` is about (`OneInFlight`).
`ServerHealth` does the same to `ensure_alive`, which `SessionGate` knows by its outcome
only, for several sessions and the explorer at once. `TabSessions` has many sessions, each
reduced to a queue of commands, and asks which of them a command reaches. `MetaTree` has of the user's session only
what it tells the tree: DDL of a run, its end, a commit or rollback, a change of schema.

### SessionGate and the code

| specification | code |
|---|---|
| `busy`, `aux`, `skip` | `Sess.busy`, `Sess.aux`, `Sess.skip_done` |
| `queue`; `cur`, `left` | the command channel; the command the worker is in, and how many events it may still emit |
| `session` | what the worker has: a session, one lost in a failed reconnect, none |
| `conn`, `events`, `done` | `ConnEvent`, `RunEvent` and done channels |
| `phase` | between two events of the window, or in one of the three loops of `drain_events` |
| user actions (`Run` ... `DisconnectPrivate`) | the entry points of `app/`, each with its guard (`gate_pass`, or none: `TxUnmarked`, `VarsRefresh`) and what it sends |
| worker actions (`Take` ... `Panic`) | the loop of `spawn`: which command sends what, and in which order |
| host actions (`DrainStart` ... `DrainDone`) | `drain_all`, `drain_events`, `on_ev_*`, `on_conn_applied` |

`ForceStop` and the other actions that give up a worker (`NewWorker`) install
new channels, so the messages under way are dropped with the old ones.

### RunnerTx and the code

| specification | code |
|---|---|
| `conn.depth`, `uncommitted`, `durable`, `undone` | the server: its transaction nesting, and the fate of each change |
| `conn.txOpen`, `txUser`, `txChanged` | `Runner.tx_open`, `tx_user`, `tx_changed` |
| `conn.cursor` | `Runner.cursor` and its `deferred_end` (`kept`: a cursor with no end put off) |
| `conn.up` | `Runner.session` is there |
| `run`, `heldNow`, `commitOk` | is a run under way and with a `HoldPolicy`; `hold_stmts`; `commit_ok` |
| `may` | what `run_tx_gate` let through for this run |
| `txPending`, `emptyApply`, `prodHeld`, `rest`, `once` | `Sess.tx_pending`; a line on it with no change behind; `Sess.prod_held` and its remaining text; `App.hold_commit_ok_once` |
| `site` | what the capability table says of the server (`tx_begin`, `server_autocommit`, savepoints, transactional DDL), how it answers a nested BEGIN, whether the connection is production, and the operations of the workload |

The server is external. It is modelled from what the drivers are asked to do: a
statement outside a transaction is kept at once or opens one; COMMIT ends the
transaction, or one level of it where BEGINs are counted; a nested BEGIN is a
warning, an error, a commit or a level.

What is abstracted:
the text of statements (their effect, `TxEffect`, is chosen), row counts (a raised
threshold is a choice: `EndBelowThreshold`), `run.smart_commit` (off), a commit
mode given in the profile (the setting is used), a read with `tx.read_end = strict`
(as `auto`), COMMITs that fail, and PostgreSQL's aborted transactions. `Refresh` is
one step.

A session ends in five ways, each an action of its own, because the code treats flags, list and hold
differently. `Reconnect` is `Runner::connect`: it commits, lowers the flags and clears `hold_stmts`; if the
server refuses the new session, none is left. Outside a run it is the connect of the user interface, which
asks first, in a run the CONNECT of a script. `ConnectOtherFails` is a connect to another server that fails:
the old session is committed and kept, its flags are not lowered. `DisconnectInRun` is `Action::Disconnect`, a DISCONNECT in the text of a
run: it commits, closes the session and the list, and leaves the flags and `hold_stmts`. `Disconnect` is the
command of that name, asked about first; the runner is replaced or kept with its flags. `ConnectionLost` is
found by `ensure_alive`. `conn.up` says whether there is a session (`Runner.session`); without one every statement fails.

### StopRun and the code

| specification | code |
|---|---|
| `busy`, `fetching`, `asked` | `Sess.busy`, the fetch of the grid, `Sess.run_cancel_requested`, each with the number of its command in place of a boolean |
| `wk`, `mine` | the worker threads, and which one `Sess.worker` is; the others were given up |
| `slot`, `flag`, `seq` of a worker | `cancel_slot` (the session its handle is for), `cancel_flag` (the command stopped, 0 if it is down), `run_seq` |
| `cur`, `step`, `left`, `exec` | the command, how far its preparation is, statements or batches to do, and whether the server is at work |
| `handle` | what `CancelHandle::cancel` does on the driver: nothing to call, an error, a silent early end (SQL Server's attention), the connection closed |
| `cancels`, `watchers` | the threads `nsql-cancel` and `nsql-stmt-timeout` |
| `Stop`, `ForceStop`, `StopBroken` | the branches of `stop_run` |
| `Take` ... `LetsGo` | the arms of the worker's loop, as far as they touch the slot, the flag, the number or the session |

`asked` is set for what raises `busy`, runs and commits, as in `stop_run`; a stop of a fetch only raises the flag
and sends the cancel.

Abstracted: time (a time-out and the second press may come at any moment, where the
code waits `db.statement_timeout` and `run.force_stop_secs`); a kind `tx` stands for
Commit and Rollback; a strict page that looks at the flag counts as `all`;
exports and imports have flags of their own; the answer to an input request is
reduced to its outcome (`InputMissing`); the channels are one, since what matters here is
which command an answer ends, not which channel it takes. `StopBroken` needs a dead
session or, with `FalseAlarm`, nothing: the lamp of an end point is set by probes.

### ServerHealth and the code

| specification | code |
|---|---|
| `wk[s].suspect`, `told`, `spec`, `link` | `suspect`, `broken_told`, `active_spec` of the worker; the driver's session, dead or alive |
| `app.sess`, `app.reg`, `app.header` | `Sess.connected`, `broken`, `busy`; the `EpHealth` of the end point; the header of the explorer |
| `conn`, `evs`, `resp` | the channels of outcomes and of run events, and `Resp::Health` |
| `EnsureAlive`, `LivePlan` | `ensure_alive`, `live_plan`: probe, reconnect, give up |
| `Runs`, `Commits`, `Connects`, `Disconnects` | the arms of the worker's loop: what they do to `suspect` and to the session, and what they tell |
| `Up`, `Down`, `Projected`, `Gc` | `health_event`, `project_broken`, `retain_eps` |
| `Starts`, `DrainConn`, `DrainEvents`, `ReadHealth` | `drain_all` comes to a session; one message of `drain_conn`, of `drain_events`; the `Health` arm of the explorer's answers |
| `MetaRequest` and the like | `meta_thread`, `ensure_meta` |
| `NetChanged` | `net_changed` |

The server is external: it is there or not, it may cut one session off, refuse a login, or
answer a statement with an error that looks like one of the connection. Abstracted: all periods
of time (when a probe is due is a choice, `stale`), back-off, the keep-alive pings of an idle
session, transactions, and the texts by which errors are classified, but for `English` ("Server
unreachable" counts as an error of the connection only in that language). One command of a session
is followed at a time. Connects from the connect window ("window") are in the model and left out of
the run: with them `OneState` fails (section 4).

### TabSessions and the code

| specification | code |
|---|---|
| `bind`, `default`, `made` | `App.tab_bind`, `default_shared`, `next_sess_id` |
| `sess[i]` | `Sess`: `owner`, `spec`, `connected`, `desc`, `idle_closed`, `user_dropped`, `closing`, `tx_pending` by tab (`open`), the armed confirmation |
| `wk[i].link`, `cmds` | the server the worker's session really is on, and its queue |
| `known` | passwords kept for the session (`cred_changed`) |
| `objbk` | the run put off until the backup of what it changes is done |
| `ran` | ghost: each change of the last command with the server it ran on, the one meant, and whether it was guarded |
| `Route`, `Reaped`, `Synced`, `Ended`, `Unused` | `sess_id_for_tab`, `reap_sessions`, `sync_sess`, and the conditions of reaping |
| `Login`, `Serves`, `Recyclable` | `login_plan`, `login_place` |
| `Press`, `Placed`, `Kept`, `Prod` | `run_text_in`, `place_run`, `keep_same_session`, the two-step run on production |
| `TakenUp`, `DropObject`, `CloseTab` | `objbk_finish`, `drop_execute`, `close_tab_guarded`, each through `with_sess` and the gate |
| `Answers`, `Carried`, `Executed`, `Heard`, `AllHeard` | the worker's `ConnectSpec`, `Run` (`run_script_in`, item after item) and `Commit`, with `Runner::connect`, and the drain of its answers |

Session mode "shared" with `session.private_connect` on, the defaults; the mode per editor, the
limits of a licence, CONNECT with a type and a login that is still pending when its tab is bound
are left out. A command is carried out and its answers are read in one step. The menu of a badge is
opened and picked from in one step (`Use`); the code lists only sessions connected or busy when it opens,
and does not look again when a line is picked.

### GridEdits and the code

| specification | code |
|---|---|
| `grid.changed`, `undone`, `applying`, `sent` | `GridEdit`: the change set, what was undone, `applying`; the change set as `request_apply` sent it |
| `grid.rows`, `stale`, `front`, `home` | which edits the rows at hand contain; a refresh under way; the result in front; rows and session of one server |
| `srv` | the server's side: transaction, uncommitted and saved edits, savepoint, the user's own changes (`work`); `over`, `spilt`: a statement hit several rows |
| `txOpen`, `listed` | `Runner.tx_open`; an open transaction on `Sess.tx_pending` |
| `unit` | the apply under way: its stage, and the `ApplyReport` it will give (`failed`, `done`, `needed`: ROLLBACK needed, `left`: `tx_left_open`) |
| `RequestApply` | `request_apply`, `grid_edit_apply` |
| `EnsureAlive`, `Begin`, `Mark`, `Check`, `Execute`, `AllDone`, `EndAuto`, `EndManual` | the stages of `apply_changes_pre`, one call to the server each (key and row count checks are one) |
| `AnsweredFailed`, `AnsweredPatched`, `AnsweredStale` | `on_conn_applied` with `apply_done`, `patch_rows`, `refresh_result` |
| `Work`, `Commit`, `Rollback`, `CloseFails`, `Relog`, `Move`, `Refresh` | what else reaches the session between two applies |

A server is what the capability table says of it: BEGIN or implicit transactions, autocommit,
savepoints. ClickHouse has neither and its results are not editable (`dialect_editable`).
Abstracted: the text of the statements, the look-up of the key (known), a refresh that fails, the
read-only profile, BEGIN typed by the user in automatic mode (`RunnerTx` has it), and edits made
while a refresh is under way, which the new result drops. A ROLLBACK inside an apply fails only with
the connection.

### MetaTree and the code

| specification | code |
|---|---|
| `tree[n].state`, `open`, `seen` | `Node.state`, `expanded`, `children`: a list is the number of changes the server had made to it, 0 for none |
| `tree[f].below` | something below a folder is expanded |
| `soft`, `again` | `Explorer.soft`, `soft_again` |
| `link` | `gen`, `offline`, `rebinding`, `dialect` is known, the root is `expandable` |
| `marks` | `wm_inflight`, `watermarks` |
| `queue`, `thread`, `out` | the requests of `meta_thread` (channel and `pending`), its `cur_gen` and database or schema; its answers |
| `Serve` | one turn of `meta_thread`: `req_prio`, a request of another generation is dropped |
| `Drain` | one answer of `Explorer::drain`: `Opened`, `Schemas` and `Objects` (`Listed`), `Watermark` |
| `SoftRefresh`, `Reread`, `Freshen` | `soft_refresh`, the loud and the quiet half of `refresh_selected` |
| `SwitchUnit`, `Doubled`, `OnceMore` | `set_current_db`, `request_schemas_soft`, `schemas_resp_done` |
| `Ddl`, `RunEnds`, `Commit`, `Rollback` | `meta_on_done`, `meta_flush` at the end of a run, `tx_close` |
| `Connect`, `Rebind`, `GoOffline`, `RemovePane` | `connect`, `rebind`, `go_offline`, and `ExplorerSet::remove` or `disconnect` |
| `srv`, `Elsewhere` | the lists on the server; another client (external) |
| `owe` | ghost: what has been promised. No action of the program reads it |

Modelled for one schema, that of the account, which opens by itself (`select_current_schema`). `open` of a node that has
never been read, below a closed one, and what is below a table are reduced to `below`. Left out: several schemas,
columns and details, the search index and preloading with their second thread, the database tree of SQL Server,
`meta.refresh_scope` all, the idle close of the session, the 60 s limit of `note_missing`, `meta.refresh_on_ddl` off. A
time-out (`explorer.timeout`) may come at any moment; the period of the watermark too, when no run is under way.

## 3. Runs

| run | expected | asks |
|---|---|---|
| `gate_steady` | pass | one operation at a time, and the abstract gate, for a session that stays on its server |
| `gate_counters` | pass | do `aux` and `skip_done` stay exact under connects, idle closes, forced stops, failed statements, refused connects and reconnects; does every accepted operation end |
| `gate_all` | pass | types, and `skip_done` at most one, with every operation, fault and interleaving |
| `tx` | pass | list, flags, quiet ends, whole leaving and consent, for six servers under disciplined workloads |
| `stop_keeps` | pass | do a time-out, the flag and the forced stop hit only the command they are for; does a stop of a run or a commit free the session on every driver |
| `stop_lost` | violation | a forced stop reports changes as lost that the old worker then commits |
| `health` | pass | through an outage, a cut session, a refused login or a change of the network: do end point, sessions and explorer agree, and does every mark go away |
| `tabs` | pass | do tabs keep their server, do changes run where they were meant, are those on production guarded |
| `tabs_asked` | violation | what is asked for another tab's session goes to that of the tab in front |
| `tabs_prod` | violation | a change reaches production neither held nor confirmed |
| `edits` | pass | whatever call of an apply fails: is it whole or nothing, is the report true, does the grid give up only what the server has, is it opened again |
| `meta` | pass | does what the tree waits for come, is what the user did or asked for shown, does it catch up with others, does what he opened stay open, through connects, rebinds, outages, refusals and switches |

The properties:

* `OneInFlight`, `GatePromise`: besides a reconnect put ahead there is never a second
  command of work on its way, and the gate opens only when nothing is under way.
* `AuxExact`, `SkipsTheWake`, `BlockedHasCause`: each counter equals the messages it
  stands for, the signals to skip are those of the reconnect and come first, and a
  shut gate has a message to come that will open it.
* `SkipAtMostOne`: two disconnect paths do not reset `skip_done`; it still never
  exceeds one.
* `BlockedEnds` (liveness): what was accepted is over at some time.
* `ListIsTrue`: pending for the user = uncommitted at the server.
* `FlagsTrackServer`: the flags say whether a transaction is open. If they say so
  wrongly the next change is not protected by a transaction. It speaks of a session that is there: a
  disconnect leaves the flags up until the next connect.
* `QuietEndIsReadOnly`: a rollback put off has no change to drop.
* `UnitPromise`: the list is saved or dropped as a whole.
* `HeldNeedsConsent`: on production a listed change becomes durable only by Commit, by
  the COMMIT the user confirmed, or by a connect outside a run.
* `FiresInItsRun`: a time-out asks the server to break off its own run or a session
  that is gone. It fails as soon as one of the two places that raise `run_seq` does not.
* `StopIsForOne`, that is `StopsIfAsked` and `ForcesIfAsked`: a fetch ends at no flag older than itself. (Not: only at its own. After a panic
  the host takes work while the old command is still under way, and a press meant for the command
  behind it ends it; three commands show that.)
  Only the second press on the same command forces.
* `StopFrees` (liveness): after a press on a run, a commit or a rollback the session takes work again, whatever
  the driver and the server do. A fetch is not covered (section 4).
* `LostIsNotSaved`: what was reported as lost is not saved.
* `OneState`: with all messages read, an end point that counts as disconnected has no session
  that counts as connected, and the header of the explorer says so.
* `FailsOnce`: a run that fails because its session is gone is the last one sent on it.
* `MarksGoOut` (liveness; `LampGoesOut` and `DoubtEnds`): when the server is back and the user goes on, every mark
  of the outage goes away, and a change of the network leaves no doubt for good.
* `TabsStay`: what one tab does, the connect window or the end of a session does not send another
  tab's statements to another server.
* `GoesWhereAsked`: a command is queued for the session it was asked for.
* `RunsWhereMeant`: a change runs on the server its CONNECT names, or the one the tab showed.
* `ProdGuarded`: a change on production was confirmed or is held.
* `AllOrNothing`: in automatic mode an apply saves all it was sent or nothing, and never a
  statement that hit several rows.
* `ReportIsTrue`: "applied" means that every edit is there; a failure without "ROLLBACK needed" that none is, and
  what was there before still is unless the connection has ended; "ROLLBACK needed" is told only of a failure, in automatic mode
  only if the ROLLBACK was cut off, in manual mode only while nothing is saved. (In manual mode it is told
  without a savepoint even if nothing was written.) It speaks of lost connections too, whichever call they
  end at, with one exception, `CutAtRelease`: in manual mode the connection ends at RELEASE SAVEPOINT (section 4).
* `OwnWorkStays`: an apply does not end the transaction that holds the user's own changes.
* `OpenIsListed`: what an apply or the user leaves uncommitted is on the host's list.
* `GridFollowsServer`: an answer takes an edit out of the change set, or into the rows, only if the
  server has it, with the same exception.
* `AppliesEnd` (liveness): a grid that waits for an apply is opened again.
* `AskedIsAnswered`: a node that shows "reading", a quiet refresh that keeps others from being asked for, a watermark
  that keeps the next from being read: the request, or its answer, is on its way, in the present generation.
* `ToldIsShown`: when nothing is on its way to a node, it shows at least what was on the server when the user last asked
  for it or was told of a change of his own.
* `LastUnitIsShown`: however fast schemas are switched, the one marked as current is the last one when the lists have come.
* `OpenedStays`: no answer closes what the user has opened, but that to a second reading he asked for himself.
* `CatchesUp` (liveness): a change after the first watermark reaches a folder that shows its list, whoever made it.

`CHECK_DEADLOCK FALSE` throughout: a session whose user does nothing, or whose
changes are used up, may stop.

### Bounds, and why they are enough

* `MaxPending` 3 or 4: messages on their way before the user acts again. The wake and
  the work behind it are two commands with up to four answers; the overtaking
  needs three messages.
* `MaxEvents` 1: error events a script emits before its end. One is enough to open the
  gate early; more repeat it.
* `DrainAtomic`: TRUE where the question is the protocol itself, FALSE where the
  worker runs inside a drain, as in the program.
* Three changes in `tx` (one on the list, one held in the run under way, one being made).
  Each change happens at most once.
* `MaxDepth` 2: nested BEGINs of the counting server, enough for one COMMIT to end the
  wrong level.
* Six servers (PostgreSQL, SQLite, MySQL, SQL Server, DuckDB, Oracle) as records of
  capabilities. The theorems need no such choice.
* What breaks a promise is left out of it by name. For `RunnerTx` the condition is the operator
  `Disciplined`, with the reason for each clause, and `AsksFirst` for consent: the promises are made to
  a site for which they hold, and `Sites` has sites of both sorts (`MixedSites`: all six servers with the
  largest disciplined workloads, PostgreSQL and Oracle with every operation). With every operation on all six
  servers (1.4 million states), where only the types are promised, TLC finds no error either. For `SessionGate` it is the sets of `MCSessionGate`.

* `stop_keeps`: two commands of two statements each (a command and the one that a late
  cancel could hit; before and between batches), two server sessions (the first and a reconnect), two
  workers (one given up, one in use). The last worker is not stopped, since there is
  none to replace it. Every kind of driver is an initial state; time-out on; false alarms on. Three commands of
  one statement were checked too; the theorems have no such bound.
* `health`: two sessions of the user and the explorer, three observers that can disagree in pairs; one
  fault (the server's return is free), which leaves room for one outage, or one cut session, or one
  refused login, and any number of commands. Two sessions in full use, or one of them with more
  commands and another that only hears. With two faults and both sessions active the safety
  properties hold too (some 700,000 states, too slow with liveness). The theorems have no such bound.
* `tabs`: two tabs, of which either may have a session of its own, three sessions ever made (the
  first, one more, and a private one or a recycled one), a development and a production server, nine mixes
  of operations and texts. Tabs are interchangeable (`SYMMETRY`; no liveness is checked).
* `edits`: two edits, one of which deletes its row, so that one may have been carried out when the
  other fails; three kinds of servers cover the capability table; rows read again or patched in
  place. With `requery` too, and with three edits on two kinds of servers, the safety properties hold
  (1.2 and 7.9 million states); the theorems have no such bound.
* `meta`: the root and one folder, and five mixes of bounds: connections that come and go, acts of the user (time-outs
  among them), changes on the server, requests refused. One mix has three acts of the user, so that a node can be read, closed and
  asked for again while its list is on its way, and two switches of schema can follow a refresh; one has three changes of the
  connection, so that an answer can be two generations old; one has two changes, of which the tree may be told in either order.
  All bounds at once are too many for one run with liveness: four larger mixes were checked by hand (800,000 states), and a
  simulation of two folders with 4, 6, 3 and 2 found no violation of a safety property.
* `stop_lost`: one kind of driver and no time-out, to keep the trace short.

### Fairness

`SessionGate.FairSpec` asks weak fairness of two things. `WorkerNext`: the worker thread is a loop
over a blocking receive; it goes on as long as calls to the database end (they do,
by answer, by the statement time-out or by a dead connection). `HostNext`: every
message is followed by a wake of the event loop, which drains all three channels.
The user is never assumed to act. `BlockedEnds` is checked without panics, which
end an auxiliary command without the answer `aux` waits for.

`StopRun.FairSpec` asks weak fairness of each worker, of the host's drain, and of
`ForceStop`: the user who asked to stop in vain presses again (with
`run.force_stop_secs` above 0, its default is 3). Neither an answer of the server nor
the arrival of a cancel is assumed, so `StopFrees` holds for a server that hangs. `ForceStop` is not
enabled for a fetch.

`ServerHealth.FairSpec` asks weak fairness of the workers, of the return of the server and of
a drain that has begun; strong fairness of its beginning and of the explorer's answers, since
the host reads one session after the other and each is passed over while another is read, though
`drain_all` visits all of them in every frame; and strong fairness of the user's run (or of opening a
session to run in), because nothing but a command ever looks at the server: without one a lamp stays
red, which is how the program is made. Nobody need look at the explorer.

`MetaTree.FairSpec` asks weak fairness of the thread (`Serve`, a loop over a blocking receive), of the host's reading
(`Drain`, every answer wakes it), of the end of a run, and of `Poll`: `meta_refresh_tick` comes round again and again as long as the
explorer is visible, `meta.refresh_secs` is not 0 and the session of the tree is not closed for idleness. A busy session puts it
off, so the end of runs is needed for it. The user is not assumed to act.

`GridEdits.FairSpec` asks weak fairness of the worker and of the host. `TabSessions` has safety
properties only.

## 4. What the runs show

**The gate.** With the worker and the host taking turns, and a session that is not connected anew,
the gate does what it promises. Three ways it does not, each seen by giving TLC the constants named
(`MaxPending = 3`, `MaxEvents = 1`, module `MCSessionGate`):

* the error event of one statement clears `busy` (`on_ev_error`) though the script continues:
  `Ops <- ScriptOps`, `Faults <- ScriptFaults`, `OneInFlight`;
* `skip_done` is spent by a done signal that overtook its own Connected event:
  `Ops <- WakeOps`, `Faults <- NoFaults`, `DrainAtomic = FALSE`, `OneInFlight`;
* a fetch raises `busy` through the wake, but ends without a done signal:
  `Ops <- FetchOps`, `BlockedHasCause`.

**Transactions.** The rules hold for every kind of server as long as the workload is
disciplined. What discipline excludes is where the code does not keep its
promise: an apply under an open cursor (its edits are rolled back at the close of the cursor), a refresh of
held changes (it commits them), a failed connect elsewhere after the commit, a DISCONNECT in the text of a production run, the mode switched for a
session the user does not look at, a lock or an open transaction kept across a switch. Each is in the
hazard list and can be seen by dropping its clause of `Disciplined`: `Sites <- CursorSites` without
"apply_on_cursor" violates `QuietEndIsReadOnly`, `Sites <- RefreshSites` without "refresh" violates
`HeldNeedsConsent`, `Sites <- DisconnectSites` without "run_disconnect" violates `ListIsTrue`: a production run changes
something and disconnects, which commits, but `Action::Disconnect` neither lowers the flags nor clears
`hold_stmts` (L:2828-2837), so the run ends in a hold that lists what is already saved. In manual mode it ends in
an empty hold card: `HoldIsListed`, without its exception, is violated there.
Consent needs more (`AsksFirst`): on production, no DDL that commits behind a change of
the same run, no CONNECT in the text of a run, no blocked rest after a confirmed COMMIT.

**Stopping** works as far as this side can tell. A cancel is for a session, not for a
statement, so one that arrives late breaks off the next command; the code narrows
the gap with `run_seq` and cannot close it. The forced stop does not do what it says:
no connection is dropped, the worker is only left behind with `Cmd::Disconnect` in
its queue. When the server answers, the old worker finishes the run and commits
(`stop_lost`), while the host has told the user that the transaction is lost. And a stop frees the session only
from what raises `busy`. A fetch or page of the grid that hangs does not: `stop_run` forces if `busy` is up
(`app/session.rs:1615`), so a second press sends the same cancel again, and `aux` keeps the gate shut until the
server answers. `StopKeeps.cfg` with `PROPERTY StopFreesFetch` and one command shows it, on a driver without a cancel.

**Health.** The end point, its sessions and the explorer come to the same view, and all marks go
out again. Not so with connects from the connect window, whose outcome is not reported to the end
point as long as the attempt is shown (`events.rs:282`): `Workloads <- WithWindow` violates
`OneState`. And an outage may stay unseen: one flag, `broken_told`, guards both the report of a
broken session and that of an unreachable server, so a session that told the first never tells the
second, though docs/107 P2 asks that whoever finds the server gone lets all know (`Workloads <- WithWindow`,
`SPECIFICATION Spec`, `PROPERTY OutageIsShown`).

**Tabs.** Tabs on shared connections keep their server. Two things go wrong. `gate_pass` calls `sync_sess`,
which puts the session of the tab in front back, also inside `with_sess`: what is asked for another session
goes to the one in front (`tabs_asked`). And the check of production reads a specification
that is not the server's: in `MCTabSessions`, with one tab, `ProdGuarded` is violated under each of `Ahead` (a
change in front of a CONNECT), `Named` (a CONNECT to the name of a profile), `Refused` (a refused
CONNECT leaves its name behind), `Twice` (two CONNECTs) and `Backed` (a run put off for its backup), of
which `tabs_prod` takes all. `RunsWhereMeant` is violated under `Backed` and under `Repeated` (the second press of a
confirmed run finds the specification of the first and leaves the CONNECT out), and holds under the
other four.

**Grid edits.** Whatever call of an apply is refused, hits the wrong number of rows or is cut off,
an apply is whole or nothing in automatic mode and the user's own changes stay; its report is true and the grid gives up
only what the server has, but in the first case below. There and around it the
code keeps less than one would like; each is seen with `Edits.cfg`, the workload named and the property named:

* as it is, `INVARIANT AppliedIsThere`: in manual mode the error of RELEASE SAVEPOINT is ignored (`let _ = run`, L:1843-1846). If
  the connection ends there, the apply is reported as carried out, the change set is emptied and the rows are patched, and
  the server has rolled everything back. This is the state `CutAtRelease`, which `ReportIsTrue` and
  `GridFollowsServer` except; every other lost connection is within them.
* `Turning`, `Refreshes <- AllRefreshes`, `PROPERTY ShowsWhatItSent`: an answer that comes while
  the user looks at another result empties the change set, and the refresh that should follow is left out: the
  grid shows the old values (`app/events.rs:678`).
* `TakingBack`, `GridFollowsServer`: undo and discard do not look at `applying`, so a row deleted
  in the grid during an apply leaves rows and change set without having been sent (`grid.rs:1883`).
* `Leaving`, `AppliesEnd`: a disconnect while the answer of an apply is on its way leaves the grid closed.
* `Moving`, `PROPERTY NeverAstray`: rows read on one server may be edited and applied on another, to which the session
  has been connected since (docs/52:58 has a connect open a session of its own when the tab is in use, so that no DELETE goes to the wrong server).
* `Refusing`, `OpenIsListed`: a COMMIT that SQLite refuses ("database is locked") lowers `tx_open` though
  the transaction is still open; the next apply or statement sends a BEGIN into it and fails.

**The tree.** Generations do what they are for: no answer of an earlier connection changes the tree, and nothing it
waits for is lost, but for two waits. The other promises hold with exceptions, each of which is a way the code
falls short and is seen by taking the exception out of `MetaTree` (`Spec`, one folder, bounds of links, asks, changes and fails as named):

* a watermark still in the queue at a rebind is dropped by the thread without an answer, and `wm_inflight` stays up for
  good: no further change of others is noticed (`AskedIsAnswered` without "marks", 3, 1, 1, 0);
* a rebind whose login never came back before the server went offline leaves `rebinding` set, so the first login after
  it is taken for one of a rebind and the root stays at "reading" (`AskedIsAnswered` without "open", 4, 1, 0, 0);
* a quiet refresh is not asked for while one is on its way, even if that answer was read before the change and only waits to
  be taken in: the old list stays (`ToldIsShown` without `TooLate`, 1, 2, 1, 0);
* after a BEGIN typed in automatic mode the tree is told at the end of the run, before the commit, and never again
  (`ToldIsShown` without `site.waits`, 1, 2, 1, 0);
* a switch of schema is a request of lower priority than a list already queued, which is then read under the old schema and
  taken for the new one's (`LastUnitIsShown` without "unit", 1, 2, 0, 0), though explorer.rs:5776 says the
  thread handles them in order;
* a node closed and opened while its list is on its way, or timed out and tried again, is asked for twice, and the second
  answer closes what was opened below the first (`OpenedStays` without `anew`, 1, 2, 0, 0);
* what changes between the reading of a list and the first watermark is never noticed, as the first is only the base
  (`CatchesUp` without `marks.seen` in `Watching`, `FairSpec`, 1, 2, 1, 0).

## 5. What is proved

`SessionGate_proofs`

* `TypeCorrect`: `Spec => []TypeOK`, for all parameters.
* `SkipBounded`: `Spec => []SkipAtMostOne`, for all parameters.
* `PlainOneInFlight`, `PlainGate`: for workloads without reconnects and faults, worker
  and host interleaved freely. Invariant: the one operation is at the user, sent,
  in the worker or answered, and all else is empty (`PlainInv`).
* `AuxIsExact`: `Spec => []AuxExact`, with reconnects, refusals, idle closes, forced stops and any interleaving, under
  two assumptions that are necessary: no panic, which ends an auxiliary command without an answer, and no
  disconnect of a private session, which keeps the worker but forgets what it still has to answer. Invariant
  (`AuxParts`): `aux` is the number of auxiliary commands in the queue, plus one if the worker is in one, plus the
  answers not yet read.
* `SkipsAreWakes`: `Spec => []SkipsTheWake`, with every fault and panics. Left out are `tx` and `vars`, which a session
  closed for idleness sends without waking: if an error opens the gate before their done signal is read, the next run
  puts its reconnect behind that signal, and the wrong one is skipped; and the two disconnects, which keep `skip_done`
  but drop the reconnect it counts. With any one of the four TLC finds the property false. Invariant (`WakeInv`): the
  reconnect put ahead is the very first thing on its way to the host, in the queue, in the worker or in the done channel
  (`WakeFirst`), because a session closed for idleness has nothing on its way but one piece of auxiliary work (`Asleep`).
* `BlockedIsForACause`: `Spec => []BlockedHasCause`, for the same workloads without `wake_only` and `fetch`, whose
  reconnect shuts the gate with no done signal of its own to open it, and without panics. Invariant (`BusyInv`): while
  `busy` is set a done signal other than that of a reconnect is still to come; reading the one to be skipped leaves it.

`RunnerTx_proofs`

* `TypeCorrect`, for all sites and workloads.
* `PendingIsTrue`, `FlagsAgree`, `QuietEndsAreReadOnly`, `ListLeavesWhole`, `HeldChangesNeedConsent`: as the
  properties say, for a site that is disciplined (and asks first), whatever else is in `Sites`; no assumption
  on the number of changes, the servers' other capabilities or the settings.
  Disciplined includes connects and disconnects, but on production no DISCONNECT in the text of a run.
* `HoldsAreListed`, for all sites and every workload without a DISCONNECT in the text of a run: what a run holds is on
  the list before the hold is shown (`HoldInv`).

None of them is inductive by itself. `IInv` adds to `ListIsTrue` that the
connection is *sound*: the server has at most one level open; `tx_open` is up exactly
while it has (where BEGIN is sent), and `tx_user` implies it; open changes imply
`tx_changed`, so no read ends their transaction; a cursor with an end put off has
neither changes nor a user's lock; without a session (`up`) nothing is open at the server, whatever the flags say; in automatic mode off production nothing is open
between two statements, except an empty transaction left from before a switch. And
that the run fits the site: held runs are on production only, and in manual mode held
statements are already on the list. A lemma per operator of the runner
(`ReadySound`, `WriteSound`, `ReadSound`, `EndSound`, `BegunSound`) says what it does to a sound
connection; a lemma per group of actions puts them together (`Result`); the
refinement follows because each step moves the changes in one of five ways (`Moves`).
`HeldChangesNeedConsent` adds `Asked`: no confirmation is left over from an earlier run.

`GridEdits_proofs` (no bound on the edits; any servers of `SiteKind`, modes and refreshes)

* `TypeCorrect`, `ApplyIsAtomic` (`AllOrNothing`), `ApplyReportIsTrue` (`ReportIsTrue`) and
  `OwnChangesStay` (`OwnWorkStays`), without further assumption. The report is true of lost connections too; the
  one exception, `CutAtRelease`, is in the property and in that of `GridIsBehindServer`.
* `GridIsBehindServer` (`GridFollowsServer`) assumes that no workload takes back edits during an
  apply; `WhatIsOpenIsListed` (`OpenIsListed`) that a COMMIT fails with the connection only. Both are
  necessary, see the hand runs of section 4.

The invariant `IInv` follows an apply from stage to stage. `WorkInv`: until the first statement
the session is as it was, during the statements it holds what was there before and what has been done,
and nothing is saved on the way. Why nothing is saved is `OpenInv`: a server that saves each statement by itself has a
transaction open when the statements come, because BEGIN was answered or a savepoint was.
`MarkInv`: the savepoint holds what was there before, so going back to it leaves that. `AutoInv`:
automatic mode has no transaction between two applies. `GridInv`: the change set of a grid that waits is
the one that was sent. `ToldInv`, the promises themselves, then follow at the end of each stage. `ListInv`, kept
beside `IInv`, says that changes in manual mode are listed, or that the answer on its way will list
them. A lemma per operator of the server says which fields of a session it changes; a lemma per
stage does the rest.

`ServerHealth_proofs` (any number of sessions, of faults and of messages under way)

* `TypeCorrect`, `DeadSessionFailsOnce` (`FailsOnce`), without further assumption.
* `OneStateForAll` (`OneState`) assumes `NoWindow`, that no connect comes from the connect window, whose
  outcome the end point is not told; without it the property fails (section 4).

`FailsOnce` needs `LinkOk`: a session on which a statement has failed is suspected until it is replaced,
and past the probe of a run it has been. One lemma per arm of the worker's loop shows that its step ends in
such a worker (`Result`). `OneState` is not inductive alone: a message of a session that is no longer there
would connect it, unmarked, to an end point that counts as gone. `Silent` says there is no such message,
`HostOk` that only sessions that exist are connected and that no connect is an attempt; a lemma
per message (`OutcomeOk`, `EventOk`) shows that it keeps `HostOk`.

`StopRun_proofs` (any number of commands, statements, workers and server sessions; every kind of driver)

* `TypeCorrect`, `TimeoutFiresInItsRun` (`FiresInItsRun`), `StopOutlivesNoCommand` (`StopIsForOne`, from a theorem
  for each of its halves), without further assumption.

`IInv`: what the host shows is the last command sent, and a request to stop is for it (`Latest`); a worker knows
only commands already sent and sessions already opened, and the flag a fetch looks at is not that of an earlier
command (`Fits`); a watcher that would still fire, on the session it is for, finds its run under way (`WatcherFits`). The last is
what `run_seq` is for: it counts when a run begins and when it ends, so a number a watcher remembers is that of
its run or past.

`MetaTree_proofs`, `MetaTreeShown_proofs` (any folders and any bounds; the second extends the first)

* `TypeCorrect`, with what the types need: a folder has a list only under a root that has one (`Fits`).
* `ThreadCatchesUp`: while the session of the tree is open, the thread is of the tree's generation, or a login that makes it
  so is ahead of every request of that generation (`LoginInv`: logins are in the order of their generations, and the
  thread has taken all that are not in the queue). This is why a request is never dropped as one
  of an earlier connection.
* `EveryWaitIsAnswered` (`AskedIsAnswered`). Invariant (`WaitInv`): every wait has a request or an answer of its generation
  on its way, and a node that is both "reading" and quietly refreshed has two of them, so that the answer that ends
  the one leaves the other.
* `WhatIsToldIsShown` (`ToldIsShown`). A node with nothing on its way shows what was promised; the list it comes to show
  has been read long before, so `ShownInv` says of the last answer on its way, if no request comes after
  it, that it is new enough too (`UpToDate`); that no promise is ahead of the server; and that what the server holds back of the
  user's DDL is held by the host as well (`HeldIsWaited`), so that the commit tells the nodes it changes.
* `LastUnitIsMarked` (`LastUnitIsShown`). Invariant (`UnitInv`): the last switch in the queue is to the schema promised, without
  one the thread has made it, and a list of the root read with no switch left in the queue shows it.
* `WhatIsOpenedStays` (`OpenedStays`, an action property). Invariant (`StayInv`): an answer that is not `anew` is the first of all
  that is on its way to its node, in the channel and then in the queue, and it suits the node: a list asked for because there was
  none finds none, a quiet one is merged; and a folder that is not in the tree is not open.

The exceptions of section 4 are in the statements of these properties and nowhere else: the theorems assume nothing
of the constants but `TreeAssumption` (finitely many folders, bounds that are numbers).

`TabSessions_proofs` (any tabs, servers, sessions and workloads)

* `TypeCorrect`: among others, the active shared connection exists, every tab has a session, and a session with an owner
  belongs to a tab that is open.
* `TabsKeepTheirServer` (`TabsStay`, an action property), in any order of logins, closes, disconnects, idle closes, refusals and
  answers, with no assumption but `TabsAssumption`.

Invariant (`TabsInv`): what a tab is bound to is a shared session that is there (`Whole`), no session of a tab is
left without its tab or on its way out (`Neat`), and every tab has a binding or a session of its own (`Tied`). The first
holds at every point of an operation, the other two once it is over, which is why they are kept apart. A run
that waits for its backup is part of it: its text may have a CONNECT only if its session is that of a tab (`BackupOK`), or taking
it up would make one more. Each piece of an operation (`Sends`, `Aimed`, `Made`, `Placed`, `Reaped`, `Synced`, ...)
has a lemma saying what it leaves of sessions and bindings (`From`), and each action puts its pieces together.
Then `Leaves`: no step changes the binding of a tab that is not in front, nor the server of the session it is
bound to, except `Use` and `Login`; and `Login` takes a session only if nobody uses it or there is no other
(`LoginStep`). A text and its answers may have any length: that what one item keeps all of them keep (`Along`)
is an induction, done by hand on the least item at which it would fail.

The other three properties do not hold of the code for every workload (`tabs_asked`, `tabs_prod`). The theorems say for
which they do, by what the workload leaves out, and for any number of tabs, servers, sessions and texts:

* `ProductionIsGuarded` (`Calm(does) => ProdGuarded`). `Calm`: no login is refused, nothing waits for a backup, a CONNECT is
  the first item of its text, and it does not give a production server by the name of a profile. Each clause is needed:
  `Refused`, `Backed`, `Ahead` and `Twice`, and `Named` of `MCTabSessions` break one each and violate `ProdGuarded`.
* `ChangesRunWhereMeant` (`Direct(does) => RunsWhereMeant`). `Direct` is `Calm` without changes that are confirmed (`Repeated`)
  and without drops from the explorer (which may run on the session of another tab).
* `AskedGoesWhereAsked` (`InFront(does) => GoesWhereAsked`). `InFront`: no drops, no backups, and no open changes of tabs
  that close, the three of `Elsewhere`.

`Direct` is more than `RunsWhereMeant` needs: TLC finds it kept under `Ahead`, `Named`, `Refused` and `Twice` too, and under the workload
of `tabs` that drops objects with one tab.

Invariant (`FitInv`): every session is `Fit`. Its worker is on the server of the host's specification, or on none, and
the description the tab shows is that server's (`InPlace`); or the next command starts by connecting (`Leading`), and
until then nothing is said of where the worker is, as the specification is that of a CONNECT which has yet to
happen. Every command in the queue suits its session, whatever comes before it (`Suits`): it connects to the specification's
server or has no CONNECT, is guarded if that server is production, and was meant for it. A session that is closed for idleness
remembers where it was (`AtRest`), as it is woken by connecting there. The operations of the host keep this because
they aim a session only when its queue is empty, and send the CONNECT at once; the worker because what it
does is a `Trail`: it gets to the server it connects to, or stays, and answers so.

Only model-checked: liveness, as the prover has no rule for fairness and ENABLED; and the gate under reconnects
with an atomic drain.

## 6. Plan

Done: the gate, the transactions, stopping, health, tabs, grid edits, the explorer's tree, and theorems of
each. What would come next, in this order:

1. `FetchCursor`: pages, tail, fall back to offsets; no row twice, none lost.
2. `TxGuard`: the countdown against a commit, a new transaction and a forced stop.
3. `RunsWhereMeant` as a theorem under weaker conditions: with refused logins and several CONNECTs in a text, where it holds as well.

## 7. Assumptions on the environment

Messages on one channel arrive in order and are not lost. A change is visible to the client as one
statement. There is one window, hence one host thread. The server of `RunnerTx` answers every COMMIT
and ROLLBACK; that of `GridEdits` may refuse any call but ROLLBACK, or end the connection under it, before or
after a COMMIT is carried out; that of `StopRun` need not answer at all.

## 8. Not modelled

* Drivers and bindings, except as the servers of the models: calls to client libraries.
* The SQL script engine, the formatter, the catalog, search, import and export: text in, text out,
  without state that outlives a call, covered by the repository's tests.
* Layout, painting and input; settings files; extensions; license; packaging; third-party code.
* The warning and the countdown of the transaction guard: periods of time and wording; its COMMIT
  and ROLLBACK, sent without the gate, are `TxUnmarked` of `SessionGate`.
* The vault: written whole under a new name, no protocol beyond that.
* Password and input prompts: one blocking request and reply within a command (`StopRun` has the outcome).
* Fetch paging and memory budget: candidates of section 6.
* Of the explorer: what section 2 lists under `MetaTree`.
* Time. Every time-out, back-off, idle period and countdown may end at any moment.
