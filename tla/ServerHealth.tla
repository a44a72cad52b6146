---------------------------- MODULE ServerHealth ----------------------------
(***************************************************************************)
(* What the program believes of one server: the probe ahead of a command,  *)
(* the reconnect, and the registry that spreads the word (worker.rs,       *)
(* app/health.rs, app/events.rs, explorer.rs).                             *)
(*                                                                         *)
(* The sessions of the user on this end point, and the session of the      *)
(* object explorer, each find out by themselves that the server is gone    *)
(* or back, and tell it once.  The host keeps one record for the end       *)
(* point, a lamp per session and the header of the explorer, and empties   *)
(* the two channels of a worker one after the other, message by message:   *)
(* outcomes first, then the events of the run.  The model follows one      *)
(* command of a session at a time: what may be queued behind it is the     *)
(* matter of SessionGate.                                                  *)
(***************************************************************************)
EXTENDS Naturals, Sequences, Functions

CONSTANTS
  Sessions,       \* sessions of the user on the end point
  Workloads,      \* what the user may do in each session, a few mixes of commands
  ReconnectSame,  \* connect.reconnect_same
  English,        \* the language of messages: "unreachable" is then an error
                  \* of the connection for is_connection_error
  MaxFaults       \* bound: outages, sessions cut, logins refused, odd errors

Nobody == "nobody"
UserCommands == { "run", "explain", "tx", "quiet", "again", "window", "drop", "close" }

ASSUME HealthAssumption ==
  /\ Nobody \notin Sessions
  /\ Workloads \subseteq [Sessions -> SUBSET UserCommands]
  /\ ReconnectSame \in BOOLEAN /\ English \in BOOLEAN
  /\ MaxFaults \in Nat

VARIABLES
  does,     \* the mix of commands, chosen at the start
  up,       \* the server answers
  faults,   \* faults still to come
  wk,       \* the workers
  conn,     \* channel of outcomes, worker to host
  evs,      \* channel of run events and done signals
  app,      \* what the host knows: its sessions, the record of the end point
            \* ("alive": none), and whether the header says "disconnected"
  reading,  \* drain_all: the session that is read, and in which of the two loops
  meta,     \* the thread of the explorer
  resp      \* its Health messages

vars == <<does, up, faults, wk, conn, evs, app, reading, meta, resp>>
serverVars == <<up, faults>>

\* A session of the server, as the driver holds it.  failed: dead, and a
\* statement has been sent on it since.
Links == { "none", "live", "dead", "failed" }
Away == [ who |-> Nobody, loop |-> "outcomes" ]

Worker == [ cmd : UserCommands \cup {"none"}, alive : BOOLEAN, \* ensure_alive passed
            pre : BOOLEAN, link : Links, spec : BOOLEAN,       \* active_spec is set
            suspect : BOOLEAN, told : BOOLEAN ]
HostSess == [ there : BOOLEAN, connected : BOOLEAN, broken : BOOLEAN,
              busy : BOOLEAN, attempt : BOOLEAN ]
Outcomes == { "connected", "failed", "alive", "disconnected", "down", "broken" }
Events   == { "connected", "closed", "error", "plain", "disconnected", "done" }

Hosts == [ sess : [Sessions -> HostSess], reg : {"alive", "suspect", "broken"},
           header : BOOLEAN ]
Explorers == [ link : Links, suspect : BOOLEAN, told : BOOLEAN, net : BOOLEAN,
               note : BOOLEAN ]

TypeOK ==
  /\ does \in Workloads
  /\ up \in BOOLEAN /\ faults \in 0..MaxFaults
  /\ wk \in [Sessions -> Worker]
  /\ conn \in [Sessions -> Seq(Outcomes)] /\ evs \in [Sessions -> Seq(Events)]
  /\ app \in Hosts
  /\ reading \in [ who : Sessions, loop : {"outcomes", "events"} ] \cup {Away}
  /\ meta \in Explorers
  /\ resp \in Seq(BOOLEAN)
  /\ \A s \in Sessions : /\ wk[s].alive => wk[s].cmd \in {"run", "explain", "tx"}
                         /\ wk[s].link # "none" => wk[s].spec

NewWorker == [ cmd |-> "none", alive |-> FALSE, pre |-> FALSE, link |-> "none",
               spec |-> FALSE, suspect |-> FALSE, told |-> FALSE ]

\* Everyone is connected.
Init ==
  /\ does \in Workloads
  /\ up = TRUE /\ faults = MaxFaults
  /\ wk = [s \in Sessions |-> [NewWorker EXCEPT !.link = "live", !.spec = TRUE]]
  /\ conn = [s \in Sessions |-> <<>>] /\ evs = [s \in Sessions |-> <<>>]
  /\ app = [ sess |-> [s \in Sessions |->
                         [there |-> TRUE, connected |-> TRUE, broken |-> FALSE,
                          busy |-> FALSE, attempt |-> FALSE]],
             reg |-> "alive", header |-> FALSE ]
  /\ reading = Away
  /\ meta = [link |-> "live", suspect |-> FALSE, told |-> FALSE, net |-> FALSE,
             note |-> FALSE]
  /\ resp = <<>>

-----------------------------------------------------------------------------
(* The registry (app/health.rs).                                           *)

\* retain_eps: the record goes when no session is left on the end point.
Gc(a) == IF \E s \in Sessions : a.sess[s].there THEN a ELSE [a EXCEPT !.reg = "alive"]

\* Mutant of Projected: no session but the one that found out is marked.
ProjectedNot(a, broken) == a
\* project_broken: on every connected session.
Projected(a, broken) ==
  [a EXCEPT !.sess = [s \in Sessions |->
     IF @[s].there /\ @[s].connected THEN [@[s] EXCEPT !.broken = broken] ELSE @[s]]]

\* health_event(Down): the first one and every later one mark all.
Down(a) == Gc([Projected(a, TRUE) EXCEPT !.reg = "broken",
                                         !.header = @ \/ a.reg # "broken"])

\* Mutant of Up: the sessions keep their marks.
UpUnprojected(a) == [a EXCEPT !.reg = "alive", !.header = FALSE]
\* health_event(Up).  The header is cleared with the record, and alone if there
\* is no record (header_clear_on_quiet_up).
Up(a) ==
  [(IF a.reg = "broken" THEN Projected(a, FALSE) ELSE a)
     EXCEPT !.reg = "alive", !.header = FALSE]

-----------------------------------------------------------------------------
(* The user.                                                               *)

Idle(s) == app.sess[s].there /\ ~app.sess[s].busy /\ wk[s].cmd = "none" /\ reading = Away

\* run_text_in: the probe is asked for if the lamp of the active profile is
\* not green, and always if the end point is in doubt (ep_doubt).
Preflights == IF app.reg = "alive" THEN BOOLEAN ELSE {TRUE}

\* run_text_in, run_explain, tx_commit; connect_quietly from the menu and from
\* a toast; the connect window; a disconnect and an idle close (bound: not asked
\* for again before the answer is read).
Send(s, c) ==
  /\ Idle(s) /\ c \in does[s] \ {"close"} /\ (c = "drop" => conn[s] = <<>>)
  /\ \E pre \in IF c = "run" THEN Preflights ELSE {FALSE} :
       wk' = [wk EXCEPT ![s].cmd = c, ![s].pre = pre]
  /\ app' = [app EXCEPT !.sess[s].busy = c # "drop", !.sess[s].attempt = c = "window"]
  /\ UNCHANGED <<serverVars, conn, evs, reading, meta, resp>>

\* A private session goes with its tab (reap_sessions); nothing of it is read.
Close(s) ==
  /\ Idle(s) /\ "close" \in does[s]
  /\ app' = [app EXCEPT !.sess[s] = [there |-> FALSE, connected |-> FALSE, broken |-> FALSE,
                                     busy |-> FALSE, attempt |-> FALSE]]
  /\ wk' = [wk EXCEPT ![s] = NewWorker]
  /\ conn' = [conn EXCEPT ![s] = <<>>] /\ evs' = [evs EXCEPT ![s] = <<>>]
  /\ UNCHANGED <<serverVars, reading, meta, resp>>

\* A tab opens a session on the end point (connect_quietly).
Open(s) ==
  /\ ~app.sess[s].there /\ reading = Away
  /\ app' = [app EXCEPT !.sess[s].there = TRUE, !.sess[s].busy = TRUE]
  /\ wk' = [wk EXCEPT ![s].cmd = "quiet"]
  /\ UNCHANGED <<serverVars, conn, evs, reading, meta, resp>>

\* net_changed: the operating system reports a change of the network.
NetChanged ==
  /\ reading = Away /\ faults > 0
  /\ \E s \in Sessions : app.sess[s].connected
  /\ faults' = faults - 1
  /\ app' = [app EXCEPT !.reg = IF @ = "alive" THEN "suspect" ELSE @]
  /\ meta' = [meta EXCEPT !.note = TRUE]
  /\ UNCHANGED <<up, wk, conn, evs, reading, resp>>

\* An event on another end point cleans the registry (health_gc).
HealthGc ==
  /\ reading = Away
  /\ app' = Gc(app)
  /\ UNCHANGED <<serverVars, wk, conn, evs, reading, meta, resp>>

-----------------------------------------------------------------------------
(* The worker.                                                             *)

\* A step that leaves worker w behind and sends the outcomes and the events.
Tells(s, w, out, ev) ==
  /\ wk' = [wk EXCEPT ![s] = w]
  /\ conn' = [conn EXCEPT ![s] = @ \o out]
  /\ evs' = [evs EXCEPT ![s] = @ \o ev]
  /\ UNCHANGED <<app, reading, meta, resp>>

\* Finding the session broken is told once, and so is finding it alive.
Broken(w, how) == IF w.told THEN <<>> ELSE <<how>>
Alive(w)       == IF w.told THEN <<"alive">> ELSE <<>>

Ended(w) == [w EXCEPT !.cmd = "none", !.alive = FALSE, !.pre = FALSE]

\* live_plan, with connect.auto_reconnect on.
LivePlan(pre, suspect, hint, stale, allow) ==
  [ probe |-> pre \/ suspect \/ hint \/ stale, reconnect |-> (suspect \/ hint) /\ allow ]

\* The driver may know of a dead session (is_alive).
Hints(link) == IF link \in {"dead", "failed"} THEN BOOLEAN ELSE {FALSE}

\* ensure_alive: every answer it can give.
Unreachable == IF English THEN "error" ELSE "plain"
Refused(w, how) == [w |-> [Ended(w) EXCEPT !.suspect = TRUE, !.told = TRUE],
                    out |-> Broken(w, how)]
Passed(w) == [w EXCEPT !.alive = TRUE, !.told = FALSE]

ProbeFails(s) ==
  LET w == wk[s]  r == Refused(w, "down") IN
  /\ ~up /\ w.spec
  /\ Tells(s, r.w, r.out, <<Unreachable, "done">>)
  /\ UNCHANGED serverVars

\* Runner::connect to the same target closes the session it has first.
ClosedFirst(w) == IF w.link = "none" THEN <<>> ELSE <<"closed">>

ReconnectWorks(s) ==
  LET w == wk[s] IN
  /\ up
  /\ Tells(s, [Passed(w) EXCEPT !.link = "live", !.suspect = FALSE], Alive(w), <<"connected">>)
  /\ UNCHANGED serverVars

ReconnectFails(s) ==
  LET w == wk[s]  r == Refused([w EXCEPT !.link = "none"], "broken") IN
  /\ IF up THEN faults > 0 /\ faults' = faults - 1 ELSE UNCHANGED faults
  /\ Tells(s, r.w, r.out, ClosedFirst(w) \o <<"error", "done">>)
  /\ UNCHANGED up

EnsureAlive(s) ==
  LET w == wk[s] IN
  /\ w.cmd \in {"run", "explain", "tx"} /\ ~w.alive
  /\ \E hint \in Hints(w.link), stale \in BOOLEAN :
       LET plan == LivePlan(w.pre, w.suspect, hint, stale, w.cmd # "tx") IN
       \/ plan.probe /\ ProbeFails(s)
       \/ /\ plan.probe => up \/ ~w.spec
          /\ IF plan.reconnect /\ w.spec
               THEN ReconnectWorks(s) \/ ReconnectFails(s)
               ELSE /\ Tells(s, Passed(w), Alive(w), <<>>)
                    /\ UNCHANGED serverVars

\* Mutant of SuspectAfter: an error of the connection is forgotten.
SuspectAfterNot(connErr) == FALSE
\* suspect = conn_err, at the end of a run.
SuspectAfter(connErr) == connErr

\* The end of a run: an error of the connection is told, and so is the success
\* of a run that was told to probe.
AfterRun(w, connErr) ==
  IF connErr THEN Broken(w, "broken")
  ELSE IF w.pre /\ ~w.told THEN <<"alive">> ELSE <<>>

\* A statement on a session that is gone fails with an error of the
\* connection; on a live one it may, too (a database link, a time-out).
Errs(w) == IF w.link # "live" THEN {TRUE} ELSE IF faults > 0 THEN BOOLEAN ELSE {FALSE}
SentOn(link) == IF link = "dead" THEN "failed" ELSE link

Runs(s) ==
  LET w == wk[s] IN
  /\ w.cmd \in {"run", "explain"} /\ w.alive
  /\ \E connErr \in Errs(w) :
       /\ faults' = IF connErr /\ w.link = "live" THEN faults - 1 ELSE faults
       /\ Tells(s, [Ended(w) EXCEPT !.suspect = SuspectAfter(connErr), !.link = SentOn(@),
                                    !.told = @ \/ (connErr /\ w.cmd = "run")],
                IF w.cmd = "run" THEN AfterRun(w, connErr) ELSE <<>>,
                IF connErr THEN <<"error", "done">> ELSE <<"done">>)
  /\ UNCHANGED up

\* A commit or rollback neither reconnects nor classifies its error; on no
\* session it succeeds.
Commits(s) ==
  LET w == wk[s] IN
  /\ w.cmd = "tx" /\ w.alive
  /\ Tells(s, Ended(w), <<>>,
           IF w.link \in {"dead", "failed"} THEN <<"error", "done">> ELSE <<"done">>)
  /\ UNCHANGED serverVars

\* Cmd::ConnectSpec to the same server: kept, unreachable, refused or opened.
Forced(c) == c = "again" \/ ReconnectSame
Connects(s) ==
  LET w == wk[s] IN
  /\ w.cmd \in {"quiet", "again", "window"}
  /\ IF w.link # "none" /\ ~Forced(w.cmd)
       THEN Tells(s, Ended(w), <<"connected">>, <<"done">>) /\ UNCHANGED serverVars
       ELSE \/ /\ up
               /\ Tells(s, [Ended(w) EXCEPT !.link = "live", !.spec = TRUE, !.suspect = FALSE,
                                            !.told = FALSE],
                        Append(Alive(w), "connected"), <<"connected", "done">>)
               /\ UNCHANGED serverVars
            \/ /\ up /\ faults > 0 /\ faults' = faults - 1
               /\ Tells(s, [Ended(w) EXCEPT !.link = "none"], <<"failed">>,
                        ClosedFirst(w) \o <<"error", "done">>)
               /\ UNCHANGED up
            \/ /\ ~up
               /\ Tells(s, [Ended(w) EXCEPT !.told = TRUE], Append(Broken(w, "down"), "failed"),
                        <<Unreachable, "done">>)
               /\ UNCHANGED serverVars

\* Mutant of Dropped: the session is not given up.
DroppedNot(w) == [Ended(w) EXCEPT !.spec = FALSE, !.suspect = FALSE]
Dropped(w) == [Ended(w) EXCEPT !.link = "none", !.spec = FALSE, !.suspect = FALSE]

\* Cmd::Disconnect.
Disconnects(s) ==
  LET w == wk[s] IN
  /\ w.cmd = "drop"
  /\ Tells(s, Dropped(w), <<"disconnected">>, <<"disconnected", "done">>)
  /\ UNCHANGED serverVars

WorkerStep(s) == EnsureAlive(s) \/ Runs(s) \/ Commits(s) \/ Connects(s) \/ Disconnects(s)

-----------------------------------------------------------------------------
(* The thread of the explorer (meta_thread).                               *)

MetaTells(m, msgs) ==
  /\ meta' = m
  /\ resp' = resp \o msgs
  /\ UNCHANGED <<wk, conn, evs, app, reading>>

MetaLost(m) == IF m.told THEN <<>> ELSE <<FALSE>>

\* Req::NetChanged and Req::Suspend.
MetaNotes ==
  /\ meta.note
  /\ MetaTells([meta EXCEPT !.note = FALSE, !.suspect = TRUE, !.net = TRUE], <<>>)
  /\ UNCHANGED serverVars
MetaSuspends ==
  /\ MetaTells([meta EXCEPT !.link = "none"], <<>>)
  /\ UNCHANGED serverVars

\* The server does not answer the probe.
MetaRefused ==
  /\ ~up
  /\ MetaTells([meta EXCEPT !.link = "none", !.suspect = TRUE, !.told = TRUE], MetaLost(meta))
  /\ UNCHANGED serverVars

\* The request itself, and what its answer says of the server.
MetaAsks(m) ==
  IF m.link = "live"
    THEN MetaTells([m EXCEPT !.told = FALSE, !.net = FALSE],
                   IF m.told \/ m.net THEN <<TRUE>> ELSE <<>>)
    ELSE MetaTells([m EXCEPT !.suspect = TRUE, !.told = TRUE], MetaLost(m))

\* Opening a session anew may be refused.
MetaOpens(m) ==
  \/ up /\ MetaAsks(m) /\ UNCHANGED serverVars
  \/ /\ up /\ faults > 0 /\ faults' = faults - 1 /\ UNCHANGED up
     /\ MetaTells([meta EXCEPT !.link = "none"], <<>>)

\* A request of the catalog.  A closed session is opened again first (and once
\* more if it was in doubt); an open one is probed, and opened again, if there
\* is a reason to.
MetaRequest ==
  IF meta.link = "none"
    THEN MetaRefused \/ MetaOpens([meta EXCEPT !.link = "live", !.suspect = FALSE])
    ELSE \E hint \in Hints(meta.link), stale \in BOOLEAN :
           LET plan == LivePlan(FALSE, meta.suspect, hint, stale, TRUE) IN
           \/ plan.probe /\ MetaRefused
           \/ plan.reconnect /\ MetaOpens([meta EXCEPT !.link = "live", !.suspect = FALSE])
           \/ /\ ~plan.reconnect /\ (plan.probe => up)
              /\ MetaAsks(meta) /\ UNCHANGED serverVars

-----------------------------------------------------------------------------
(* The host reads: all outcomes of a session, then its events, with the    *)
(* workers going on between the two (drain_all, drain_conn, drain_events). *)

\* conn_broken: the end point layer, or this session only.
ConnBroken(a, s, endpoint) ==
  LET b == [a EXCEPT !.sess[s].broken = TRUE] IN IF endpoint THEN Down(b) ELSE b

Connected(a, s) == [a EXCEPT !.sess[s].connected = TRUE, !.sess[s].broken = FALSE]

OnOutcome(a, s, o) ==
  CASE o = "connected" -> IF a.sess[s].attempt
                            THEN [Connected(a, s) EXCEPT !.sess[s].attempt = FALSE]
                            ELSE Up(Connected(a, s))
    [] o = "failed" -> [a EXCEPT !.sess[s].connected = @ /\ a.sess[s].attempt,
                                 !.sess[s].attempt = FALSE]
    [] o = "disconnected" -> [a EXCEPT !.sess[s].connected = FALSE]
    [] o = "alive" -> Up([a EXCEPT !.sess[s].broken = FALSE])
    [] o \in {"down", "broken"} -> ConnBroken(a, s, o = "down")

\* on_ev_connected, on_ev_error, the Disconnected arm, the done signal.
OnEvent(a, s, e) ==
  CASE e = "connected" -> Up(Connected(a, s))
    [] e \in {"closed", "disconnected"} -> [a EXCEPT !.sess[s].connected = FALSE]
    [] e = "error" -> [a EXCEPT !.sess[s].busy = FALSE, !.sess[s].broken = TRUE]
    [] e \in {"plain", "done"} -> [a EXCEPT !.sess[s].busy = FALSE]

Starts(s) ==
  /\ reading = Away /\ (conn[s] # <<>> \/ evs[s] # <<>>)
  /\ reading' = [who |-> s, loop |-> "outcomes"]
  /\ UNCHANGED <<serverVars, wk, conn, evs, app, meta, resp>>

DrainConn(s) ==
  /\ reading = [who |-> s, loop |-> "outcomes"]
  /\ IF conn[s] = <<>>
       THEN reading' = [reading EXCEPT !.loop = "events"] /\ UNCHANGED <<conn, app>>
       ELSE /\ app' = OnOutcome(app, s, Head(conn[s]))
            /\ conn' = [conn EXCEPT ![s] = Tail(@)]
            /\ UNCHANGED reading
  /\ UNCHANGED <<serverVars, wk, evs, meta, resp>>

DrainEvents(s) ==
  /\ reading = [who |-> s, loop |-> "events"]
  /\ IF evs[s] = <<>>
       THEN reading' = Away /\ UNCHANGED <<evs, app>>
       ELSE /\ app' = OnEvent(app, s, Head(evs[s]))
            /\ evs' = [evs EXCEPT ![s] = Tail(@)]
            /\ UNCHANGED reading
  /\ UNCHANGED <<serverVars, wk, conn, meta, resp>>

\* Resp::Health.
ReadHealth ==
  /\ resp # <<>> /\ reading = Away
  /\ resp' = Tail(resp)
  /\ app' = IF Head(resp) THEN Up(app) ELSE Down(app)
  /\ UNCHANGED <<serverVars, wk, conn, evs, reading, meta>>

-----------------------------------------------------------------------------
(* The server.                                                             *)

Cut(link) == IF link = "live" THEN "dead" ELSE link

ServerDown ==
  /\ up /\ faults > 0
  /\ up' = FALSE /\ faults' = faults - 1
  /\ wk' = [s \in Sessions |-> [wk[s] EXCEPT !.link = Cut(@)]]
  /\ meta' = [meta EXCEPT !.link = Cut(@)]
  /\ UNCHANGED <<app, reading, conn, evs, resp>>

ServerUp ==
  /\ ~up /\ up' = TRUE
  /\ UNCHANGED <<faults, wk, app, reading, conn, evs, meta, resp>>

\* One session is cut off (killed, or dropped by a firewall).
SessionCut ==
  /\ faults > 0 /\ faults' = faults - 1
  /\ \/ \E s \in Sessions : /\ wk[s].link = "live"
                            /\ wk' = [wk EXCEPT ![s].link = "dead"] /\ UNCHANGED meta
     \/ meta.link = "live" /\ meta' = [meta EXCEPT !.link = "dead"] /\ UNCHANGED wk
  /\ UNCHANGED <<up, app, reading, conn, evs, resp>>

-----------------------------------------------------------------------------
HostReads(s) == Starts(s) \/ DrainConn(s) \/ DrainEvents(s)
Reopen(s) == "run" \in does[s] /\ Open(s)

Next ==
  /\ \/ \E s \in Sessions :
          \/ \E c \in UserCommands : Send(s, c)
          \/ Close(s) \/ Open(s) \/ WorkerStep(s) \/ HostReads(s)
     \/ NetChanged \/ HealthGc
     \/ MetaNotes \/ MetaSuspends \/ MetaRequest \/ ReadHealth
     \/ ServerDown \/ ServerUp \/ SessionCut
  /\ UNCHANGED does

Spec == Init /\ [][Next]_vars

\* Workers and host go on, drain_all visiting every session of a frame in
\* turn, and the server comes back.  The user opens sessions and runs something
\* in each that runs at all, again and again; nobody need look at the explorer.
FairSpec ==
  /\ Spec
  /\ WF_vars(ServerUp /\ UNCHANGED does)
  /\ SF_vars(ReadHealth /\ UNCHANGED does)
  /\ \A s \in Sessions :
       /\ WF_vars(WorkerStep(s) /\ UNCHANGED does)
       /\ WF_vars((DrainConn(s) \/ DrainEvents(s)) /\ UNCHANGED does)
       /\ SF_vars(Starts(s) /\ UNCHANGED does)
       /\ SF_vars((Send(s, "run") \/ Reopen(s)) /\ UNCHANGED does)

-----------------------------------------------------------------------------
LampOn(s) == app.sess[s].connected /\ app.sess[s].broken
Marked == app.reg = "broken" \/ app.header \/ \E s \in Sessions : LampOn(s)

(* One state for the server, at every moment of the drain: if the end       *)
(* point counts as disconnected, so does every session on it, and the       *)
(* header of the explorer says so (health_event, project_broken).           *)
OneState ==
  app.reg = "broken" =>
    app.header /\ \A s \in Sessions : app.sess[s].connected => app.sess[s].broken

(* A run or a plan that failed because its session is gone is the last one *)
(* sent on that session: the next one reconnects first (suspect).          *)
FailsOnce == [][\A s \in Sessions : Runs(s) => wk[s].link # "failed"]_vars

(* When the server is back and the user goes on, every mark of the outage  *)
(* goes away: of the end point, of the sessions and of the explorer.       *)
LampGoesOut == Marked ~> ~Marked

(* A change of the network leaves the end point in doubt only until a      *)
(* command has found out.                                                  *)
DoubtEnds == app.reg = "suspect" ~> app.reg # "suspect"

(* No mark is for good: neither that of an outage that is over nor the     *)
(* doubt that a change of the network leaves (docs/107).                   *)
MarksGoOut == LampGoesOut /\ DoubtEnds

(* Whoever finds the server gone, all get to know (docs/107 P2): when the   *)
(* probe refuses a command, the end point counts as disconnected, or a      *)
(* message on its way says so (ensure_alive, broken_told).                  *)
OutageIsShown ==
  [][\A s \in Sessions :
       EnsureAlive(s) /\ ~up =>
         wk'[s].alive \/ app.reg = "broken" \/ FALSE \in Range(resp)
           \/ \E t \in Sessions : "down" \in Range(conn'[t])]_vars
=============================================================================
