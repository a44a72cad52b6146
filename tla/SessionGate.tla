---------------------------- MODULE SessionGate ----------------------------
(***************************************************************************)
(* One session of the SQL client (struct Sess, sessions.rs): the host      *)
(* thread and the worker thread that owns the database connection.         *)
(*                                                                         *)
(* The host keeps three pieces of gate state: busy (a run, a connect, a    *)
(* commit or a rollback is under way), aux (fetches, counts, key look-ups, *)
(* applies, imports and exports under way) and skip_done (done signals of  *)
(* reconnects put ahead of the work, which must not open the gate).  It    *)
(* sends commands to the worker over one queue and hears back over three   *)
(* independent channels, drained in a fixed order: connection outcomes,    *)
(* run events, done signals.  Between two drains of the host the worker    *)
(* goes on, so a done signal can overtake an event sent before it.         *)
(*                                                                         *)
(* When the host gives up on a worker it installs a new one with new       *)
(* channels; what the old worker still sends reaches nobody.               *)
(***************************************************************************)
EXTENDS Naturals, Sequences, FiniteSets

CONSTANTS
  Ops,        \* the user operations of the workload, a subset of UserOps
  Faults,     \* what may go wrong at the server, a subset of ServerFaults
  DrainAtomic,\* no step of the worker falls inside a drain of the host
  MaxPending, \* bound: no operation is sent while this much is pending
  MaxEvents   \* bound: events one command may emit before its answer

UserOps == { "run", "wake_only", "fetch", "aux", "requery", "tx", "tx_unmarked",
             "vars", "quiet", "connect", "connect_queued",
             "idle_close", "force_stop", "disconnect", "disconnect_private" }

ServerFaults == { "error",    \* a statement of a run or a commit fails
                  "relogin",  \* the worker finds the connection dead and reconnects
                  "refused",  \* a connect fails
                  "panic" }   \* the driver panics inside a command

ASSUME GateAssumption ==
  /\ Ops \subseteq UserOps
  /\ Faults \subseteq ServerFaults
  /\ DrainAtomic \in BOOLEAN
  /\ MaxPending \in Nat
  /\ MaxEvents \in Nat

\* Commands of the queue.  "wake" is the ConnectSpec that wake_if_idle puts
\* ahead of the work; "quiet" answers nothing (SetUnit).
Commands   == { "run", "tx", "aux", "connect", "wake", "quiet", "disconnect" }
SendsDone  == { "run", "tx", "connect", "wake", "disconnect" }
Outcomes   == { "answer", "connected", "failed", "gone" }
RunEvents  == { "connected", "error", "disconnected" }
None       == "none"

\* No session and nothing to reconnect to; a session; a session lost in a
\* reconnect that failed, to be tried again (suspect, active_spec).
Sessions   == { "absent", "open", "lost" }

VARIABLES
  busy, aux, skip,      \* Sess.busy, Sess.aux, Sess.skip_done
  connected, idleClosed,
  phase,                \* where the host is: between events or in drain_events
  queue,                \* commands sent and not taken by the worker
  cur, left,            \* the command the worker is in, the steps it has left
  session,              \* the worker's database session
  conn, events, done    \* the three channels back to the host

hostVars == <<busy, aux, skip, connected, idleClosed, phase>>
gateVars == <<busy, aux, skip, connected, idleClosed>>
workVars == <<queue, cur, left, session>>
chanVars == <<conn, events, done>>
vars     == <<hostVars, workVars, chanVars>>

TypeOK ==
  /\ busy \in BOOLEAN
  /\ aux \in Nat
  /\ skip \in Nat
  /\ connected \in BOOLEAN
  /\ idleClosed \in BOOLEAN
  /\ phase \in {"idle", "conn", "events", "done"}
  /\ queue \in Seq(Commands)
  /\ cur \in Commands \cup {None}
  /\ left \in Nat
  /\ session \in Sessions
  /\ conn \in Seq(Outcomes)
  /\ events \in Seq(RunEvents)
  /\ done \in Seq(SendsDone)

\* A session as Sess::new makes it, or one whose connect has been answered.
Init ==
  /\ busy = FALSE /\ aux = 0 /\ skip = 0
  /\ connected \in BOOLEAN /\ idleClosed = FALSE
  /\ phase = "idle"
  /\ queue = <<>> /\ cur = None /\ left = 0
  /\ session = IF connected THEN "open" ELSE "absent"
  /\ conn = <<>> /\ events = <<>> /\ done = <<>>

-----------------------------------------------------------------------------
(* The host between events: user operations.                               *)

\* Mutant of Blocked: the auxiliary work is forgotten.
BlockedByBusyOnly == busy

\* Sess::blocked, the one judgement every entry point asks.
Blocked == busy \/ aux > 0

\* Commands and answers on the way, whichever side holds them.
Pending == Len(queue) + (IF cur = None THEN 0 ELSE 1)
             + Len(conn) + Len(events) + Len(done)

User(op) ==
  /\ phase = "idle"
  /\ op \in Ops
  /\ Pending < MaxPending

Send(cmds) ==
  /\ queue' = queue \o cmds
  /\ UNCHANGED <<cur, left, session>>

\* wake_if_idle: a session closed for idleness reconnects first, and the done
\* signal of that connect is to be skipped.  connect_quietly raises busy.
Woken == IF idleClosed THEN <<"wake">> ELSE <<>>
WakeIfIdle ==
  /\ skip' = IF idleClosed THEN skip + 1 ELSE skip
  /\ idleClosed' = FALSE

\* run_text_in, run_explain_opts, refresh_result.
Run ==
  /\ User("run") /\ ~Blocked
  /\ WakeIfIdle
  /\ busy' = TRUE
  /\ Send(Woken \o <<"run">>)
  /\ UNCHANGED <<aux, connected, phase, chanVars>>

\* run_text_in and send_fetch wake the session before they look at the text,
\* the production confirmation, the backup or the memory budget, and may then
\* return without sending any work.
WakeOnly ==
  /\ User("wake_only") /\ ~Blocked /\ idleClosed
  /\ WakeIfIdle
  /\ busy' = TRUE
  /\ Send(Woken)
  /\ UNCHANGED <<aux, connected, phase, chanVars>>

\* send_fetch: next page, all rows, row count.
Fetch ==
  /\ User("fetch") /\ ~Blocked
  /\ WakeIfIdle
  /\ busy' = IF idleClosed THEN TRUE ELSE busy
  /\ aux' = aux + 1
  /\ Send(Woken \o <<"aux">>)
  /\ UNCHANGED <<connected, phase, chanVars>>

\* Key look-ups, grid apply, import, export: no wake.
Aux ==
  /\ User("aux") /\ ~Blocked
  /\ aux' = aux + 1
  /\ Send(<<"aux">>)
  /\ UNCHANGED <<busy, skip, connected, idleClosed, phase, chanVars>>

\* Commit and Rollback of the tool bar, the menu and the production hold.
Tx ==
  /\ User("tx") /\ ~Blocked
  /\ busy' = TRUE
  /\ Send(<<"tx">>)
  /\ UNCHANGED <<aux, skip, connected, idleClosed, phase, chanVars>>

\* Commit and Rollback of the warning card, of the countdown, of the "commit
\* and go on" pop-up and of closing a tab: the gate is asked but not shut.
\* They need a pending statement, so the session is connected.
TxUnmarked ==
  /\ User("tx_unmarked") /\ ~Blocked /\ connected
  /\ Send(<<"tx">>)
  /\ UNCHANGED <<gateVars, phase, chanVars>>

\* vars_refresh_now: an empty run that re-evaluates variables, gate not shut.
VarsRefresh ==
  /\ User("vars") /\ ~Blocked
  /\ Send(<<"run">>)
  /\ UNCHANGED <<gateVars, phase, chanVars>>

\* SetUnit on a tab switch: no answer, gate not shut.
SetUnit ==
  /\ User("quiet") /\ ~Blocked /\ connected
  /\ Send(<<"quiet">>)
  /\ UNCHANGED <<gateVars, phase, chanVars>>

ConnectEffect ==
  /\ busy' = TRUE
  /\ idleClosed' = FALSE
  /\ Send(<<"connect">>)
  /\ UNCHANGED <<aux, skip, connected, phase, chanVars>>

\* The connect window places the connect on a session that is not blocked.
Connect == User("connect") /\ ~Blocked /\ ConnectEffect

\* "Connect again" of the session manager and the badge menu, and the
\* explorer's connect, do not ask the gate (pass_queued).
ConnectQueued == User("connect_queued") /\ ConnectEffect

\* Mutant of NewWorker: the commands not yet taken are handed on.
NewWorkerSameQueue ==
  /\ queue' = queue /\ cur' = None /\ left' = 0 /\ session' = "absent"
  /\ conn' = <<>> /\ events' = <<>> /\ done' = <<>>

\* A new worker thread with new channels; Disconnect and all the old worker
\* still had queued is carried out by the old thread, unheard.
NewWorker ==
  /\ queue' = <<>> /\ cur' = None /\ left' = 0 /\ session' = "absent"
  /\ conn' = <<>> /\ events' = <<>> /\ done' = <<>>

\* Mutants of Abandon: the skip counter, or the auxiliary counter, is not reset.
AbandonKeepsSkip ==
  /\ NewWorker
  /\ busy' = FALSE /\ aux' = 0
  /\ connected' = FALSE /\ idleClosed' = TRUE
  /\ UNCHANGED <<skip, phase>>
AbandonKeepsAux ==
  /\ NewWorker
  /\ busy' = FALSE /\ skip' = 0
  /\ connected' = FALSE /\ idleClosed' = TRUE
  /\ UNCHANGED <<aux, phase>>

\* abandon_worker_via.
Abandon ==
  /\ NewWorker
  /\ busy' = FALSE /\ aux' = 0 /\ skip' = 0
  /\ connected' = FALSE /\ idleClosed' = TRUE
  /\ UNCHANGED phase

\* idle_tick: a connected session nobody used is closed.
IdleClose == User("idle_close") /\ ~Blocked /\ connected /\ Abandon

\* stop_run on a broken connection, or the second stop after the grace time.
ForceStop == User("force_stop") /\ Blocked /\ Abandon

\* disconnect_force of a shared session: always a new worker.
Disconnect ==
  /\ User("disconnect")
  /\ NewWorker
  /\ busy' = FALSE /\ aux' = 0
  /\ connected' = FALSE /\ idleClosed' = FALSE
  /\ UNCHANGED <<skip, phase>>

\* disconnect_private_as with the session kept: a new worker only if busy,
\* else Disconnect queues up on the present one.
DisconnectPrivate ==
  /\ User("disconnect_private")
  /\ IF busy THEN NewWorker
             ELSE Send(<<"disconnect">>) /\ UNCHANGED chanVars
  /\ busy' = FALSE /\ aux' = 0
  /\ connected' = FALSE /\ idleClosed' = FALSE
  /\ UNCHANGED <<skip, phase>>

-----------------------------------------------------------------------------
(* The worker: takes a command, emits events, answers.                     *)

\* A connect goes through three steps after it is taken: the run events of the
\* attempt, the outcome, and, once the guard statements and the session id
\* query have been executed, the done signal.
ConnectSteps == 3
StepsOf(cmd) == IF cmd \in {"connect", "wake"} THEN ConnectSteps ELSE MaxEvents

Take ==
  /\ cur = None /\ queue # <<>>
  /\ cur' = Head(queue)
  /\ queue' = Tail(queue)
  /\ left' = StepsOf(Head(queue))
  /\ UNCHANGED <<hostVars, session, chanVars>>

EmitsIn(cmds, fault) ==
  /\ cur \in cmds /\ left > 0 /\ fault \in Faults
  /\ left' = left - 1
  /\ UNCHANGED <<hostVars, queue, cur, conn, done>>

\* A statement of a script or a commit fails; a script goes on.
StatementFails ==
  /\ EmitsIn({"run", "tx"}, "error")
  /\ events' = Append(events, "error")
  /\ UNCHANGED session

\* ensure_alive reconnects ahead of anything but a commit or a rollback; a
\* session that cannot be had back is closed, and tried again next time.
Relogin ==
  /\ EmitsIn({"run", "aux"}, "relogin")
  /\ \/ /\ session # "absent" /\ session' = "open"
        /\ events' = Append(events, "connected")
     \/ /\ session = "open" /\ session' = "lost"
        /\ events' = events \o <<"disconnected", "error">>

Idle == cur' = None /\ left' = 0 /\ UNCHANGED <<hostVars, queue>>

\* A run, a commit, a rollback: the done signal is the last thing sent.
FinishWork ==
  /\ cur \in {"run", "tx"}
  /\ done' = Append(done, cur)
  /\ Idle /\ UNCHANGED <<session, conn, events>>

\* Mutant of FinishAux: an error path that returns without an answer.
FinishAuxUnheard == cur = "aux" /\ Idle /\ UNCHANGED <<session, chanVars>>

\* A fetch, count, key look-up, apply, import or export answers on the
\* connection channel and sends no done signal.
FinishAux ==
  /\ cur = "aux"
  /\ conn' = Append(conn, "answer")
  /\ Idle /\ UNCHANGED <<session, events, done>>

FinishQuiet == cur = "quiet" /\ Idle /\ UNCHANGED <<session, chanVars>>

InConnect(step) == cur \in {"connect", "wake"} /\ left = step

\* Runner::connect opened the session: the Connected event goes out first, an
\* error of the default schema even before it.
ConnectOpened ==
  /\ InConnect(3)
  /\ \/ events' = Append(events, "connected")
     \/ "error" \in Faults /\ events' = events \o <<"error", "connected">>
  /\ session' = "open"
  /\ left' = 2
  /\ UNCHANGED <<hostVars, queue, cur, conn, done>>

ConnectTold ==
  /\ InConnect(2)
  /\ conn' = Append(conn, "connected")
  /\ left' = 1
  /\ UNCHANGED <<hostVars, queue, cur, session, events, done>>

\* Mutant of ConnectKept: the early return forgets the done signal.
ConnectKeptSilent ==
  /\ InConnect(3) /\ session = "open"
  /\ conn' = Append(conn, "connected")
  /\ Idle /\ UNCHANGED <<session, events, done>>

\* The same server, and reconnect_same is off: the session is kept.
ConnectKept ==
  /\ InConnect(3) /\ session = "open"
  /\ conn' = Append(conn, "connected")
  /\ left' = 1
  /\ UNCHANGED <<hostVars, queue, cur, session, events, done>>

\* The attempt fails.  A session to the same target was closed first and is
\* lost (ConnectionClosed); one to another target is kept.
ConnectRefused ==
  /\ InConnect(3) /\ "refused" \in Faults
  /\ \/ /\ session = "open" /\ session' = "absent"
        /\ events' = events \o <<"disconnected", "error">>
     \/ session' = session /\ events' = Append(events, "error")
  /\ conn' = Append(conn, "failed")
  /\ left' = 1
  /\ UNCHANGED <<hostVars, queue, cur, done>>

ConnectDone ==
  /\ InConnect(1)
  /\ done' = Append(done, cur)
  /\ Idle /\ UNCHANGED <<session, conn, events>>

FinishDisconnect ==
  /\ cur = "disconnect"
  /\ session' = "absent"
  /\ events' = Append(events, "disconnected")
  /\ conn' = Append(conn, "gone")
  /\ done' = Append(done, cur)
  /\ Idle

\* catch_unwind: the session is dropped; an error, a disconnect and a done
\* signal are sent whatever the command was.
Panic ==
  /\ "panic" \in Faults
  /\ cur # None
  /\ session' = "absent"
  /\ events' = events \o <<"error", "disconnected">>
  /\ conn' = Append(conn, "gone")
  /\ done' = Append(done, IF cur \in SendsDone THEN cur ELSE "run")
  /\ Idle

-----------------------------------------------------------------------------
(* The host in drain_events: connection outcomes, then events, then dones. *)

\* drain_all, on every wake of the event loop: each message of any worker
\* wakes it once, so a drain may find the channels of this session empty.
DrainStart ==
  /\ phase = "idle"
  /\ phase' = "conn"
  /\ UNCHANGED <<gateVars, workVars, chanVars>>

\* Each channel is read until it is found empty.
NextChannel ==
  /\ \/ phase = "conn"   /\ conn = <<>>   /\ phase' = "events"
     \/ phase = "events" /\ events = <<>> /\ phase' = "done"
     \/ phase = "done"   /\ done = <<>>   /\ phase' = "idle"
  /\ UNCHANGED <<gateVars, workVars, chanVars>>

\* Mutant of AuxDone: an answer nobody counts on goes below zero.
AuxDoneUnguarded == aux - 1

\* Sess::aux_done.
AuxDone == IF aux > 0 THEN aux - 1 ELSE 0

DrainConn ==
  /\ phase = "conn" /\ conn # <<>>
  /\ conn' = Tail(conn)
  /\ aux' = IF Head(conn) = "answer" THEN AuxDone ELSE aux
  /\ connected' = CASE Head(conn) = "connected" -> TRUE
                    [] Head(conn) = "answer" -> connected
                    [] OTHER -> FALSE
  /\ UNCHANGED <<busy, skip, idleClosed, phase, workVars, events, done>>

\* on_conn_applied: an applied grid edit runs its query again, from inside the
\* drain, if the gate is open once the answer is counted.
DrainApplied ==
  /\ "requery" \in Ops /\ Pending < MaxPending
  /\ phase = "conn" /\ conn # <<>> /\ Head(conn) = "answer"
  /\ ~busy /\ AuxDone = 0
  /\ conn' = Tail(conn)
  /\ aux' = AuxDone
  /\ WakeIfIdle
  /\ busy' = TRUE
  /\ Send(Woken \o <<"run">>)
  /\ UNCHANGED <<connected, phase, events, done>>

\* on_ev_connected, on_ev_error, and the Disconnected arm.
DrainEvent ==
  /\ phase = "events" /\ events # <<>>
  /\ events' = Tail(events)
  /\ busy' = CASE Head(events) = "connected" -> busy /\ skip # 0
               [] Head(events) = "error" -> FALSE
               [] OTHER -> busy
  /\ connected' = CASE Head(events) = "connected" -> TRUE
                    [] Head(events) = "error" -> connected
                    [] OTHER -> FALSE
  /\ idleClosed' = IF Head(events) = "connected" THEN FALSE ELSE idleClosed
  /\ UNCHANGED <<aux, skip, phase, workVars, conn, done>>

DrainDone ==
  /\ phase = "done" /\ done # <<>>
  /\ done' = Tail(done)
  /\ IF skip > 0 THEN skip' = skip - 1 /\ busy' = busy
                 ELSE skip' = skip /\ busy' = FALSE
  /\ UNCHANGED <<aux, connected, idleClosed, phase, workVars, conn, events>>

-----------------------------------------------------------------------------
UserNext ==
  \/ Run \/ WakeOnly \/ Fetch \/ Aux \/ Tx \/ TxUnmarked \/ VarsRefresh
  \/ SetUnit \/ Connect \/ ConnectQueued \/ IdleClose \/ ForceStop
  \/ Disconnect \/ DisconnectPrivate

WorkerStep ==
  \/ Take \/ StatementFails \/ Relogin \/ FinishWork \/ FinishAux \/ FinishQuiet
  \/ ConnectOpened \/ ConnectTold \/ ConnectKept \/ ConnectRefused \/ ConnectDone
  \/ FinishDisconnect \/ Panic

WorkerNext == (DrainAtomic => phase = "idle") /\ WorkerStep

HostNext == DrainStart \/ NextChannel \/ DrainConn \/ DrainApplied
              \/ DrainEvent \/ DrainDone

Next == UserNext \/ WorkerNext \/ HostNext

Spec == Init /\ [][Next]_vars

\* The worker thread goes on taking, running and answering commands (a call to
\* the database ends), and every message wakes the host's event loop.  The
\* user need not do anything.
FairSpec == Spec /\ WF_vars(WorkerNext) /\ WF_vars(HostNext)

-----------------------------------------------------------------------------
(* Views of the pipeline.                                                  *)

Taken == IF cur = None THEN <<>> ELSE <<cur>>

\* Commands sent and not finished, oldest first.
InFlight == Taken \o queue

Count(s, set) == Cardinality({i \in DOMAIN s : s[i] \in set})

\* Done signals on the way and, behind them, the commands still to send one,
\* oldest first; commands that send none are in between.
Signals == done \o InFlight
OtherDones == SendsDone \ {"wake"}

-----------------------------------------------------------------------------
(* One session does one thing at a time (sessions.rs header, docs/52 3):   *)
(* besides the reconnect put ahead of it there is never a second command   *)
(* of work on the way to the database.                                     *)
OneInFlight == Count(InFlight, {"run", "tx", "aux"}) <= 1

Open    == ~Blocked
Working == Count(InFlight, {"run", "tx", "aux", "connect", "wake"}) > 0
Abstract == INSTANCE OneOpGate WITH open <- Open, working <- Working

(* The gate opens only when nothing is under way (OneOpGate).              *)
GatePromise == Abstract!Spec

(* aux counts exactly the auxiliary commands whose answer the host has not *)
(* counted, across idle closes, forced stops and disconnects.              *)
AuxExact == aux = Count(InFlight, {"aux"}) + Count(conn, {"answer"})

(* The done signals skip_done lets pass are those of the reconnects put    *)
(* ahead, and they come before any other: a count stands for an identity.  *)
SkipsTheWake ==
  /\ skip = Count(Signals, {"wake"})
  /\ \A i, j \in DOMAIN Signals :
       Signals[i] = "wake" /\ Signals[j] \in OtherDones => i < j

(* A shut gate has a cause: a done signal not to be skipped is still to    *)
(* come, or an answer is.  Otherwise the session is stuck for good, and    *)
(* every entry point says "running".                                       *)
BlockedHasCause ==
  /\ busy => Count(Signals, SendsDone) > skip
  /\ aux > 0 => Count(InFlight, {"aux"}) + Count(conn, {"answer"}) > 0

(* skip_done never counts more than one reconnect, and a session closed    *)
(* for idleness starts from zero, whatever was abandoned before.           *)
SkipAtMostOne == skip <= 1 /\ (idleClosed => skip = 0)

(* Every operation accepted is eventually over for the user.               *)
BlockedEnds == Blocked ~> ~Blocked

=============================================================================
