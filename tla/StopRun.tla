------------------------------- MODULE StopRun -------------------------------
(***************************************************************************)
(* Stopping what a session is doing: the stop button, the statement        *)
(* time-out and the forced stop (worker.rs, app/session.rs).               *)
(*                                                                         *)
(* While the worker waits for the server it cannot be told anything.  The  *)
(* host therefore asks the server through a handle the worker left in a    *)
(* slot, from a thread of its own, and raises a flag the worker looks at   *)
(* between two batches of a fetch.  A time-out is a thread that sleeps,    *)
(* compares the number of the run with its own, and then asks the server.  *)
(* If that does not help, the second press of the button replaces the      *)
(* worker and leaves the old one to itself.                                *)
(***************************************************************************)
EXTENDS Naturals, Sequences

CONSTANTS
  Kinds,         \* what the user does: "run", "all" and "page" (fetches), "tx"
  Handles,       \* what a cancel does on the drivers considered
  FalseAlarm,    \* a probe may hold an end point for down that is not
  HasTimeout,    \* db.statement_timeout is above 0
  MaxCommands,   \* bound: commands the user sends
  MaxStatements, \* bound: statements of a run, batches of a fetch
  MaxSessions,   \* bound: server sessions opened
  MaxWorkers     \* bound: workers, the one in use and those left to themselves

\* No handle; the statement fails; it ends early without an error (TDS
\* attention); the connection is closed.
HandleKinds == { "none", "error", "silent", "drop" }

ASSUME StopAssumption ==
  /\ Kinds \subseteq {"run", "all", "page", "tx"}
  /\ Handles \subseteq HandleKinds
  /\ HasTimeout \in BOOLEAN /\ FalseAlarm \in BOOLEAN
  /\ {MaxCommands, MaxStatements, MaxSessions, MaxWorkers} \subseteq Nat \ {0}

Commands == 1..MaxCommands
Workers  == 1..MaxWorkers
LetGo    == 0                     \* Cmd::Disconnect, left to an old worker
Steps    == { "idle", "taken", "alive", "ready" }
Execs    == { "no", "yes", "cut" }  \* cut: the server has broken it off

VARIABLES
  handle,    \* what a cancel does on this session's driver
  kind,      \* the commands sent so far
  mine,      \* the worker in use
  wk,        \* the workers
  sessions,  \* number of server sessions opened
  busy,      \* Sess.busy: the command that raised it, 0 if it is down
  fetching,  \* the fetch the grid waits for, 0 if none
  asked,     \* Sess.run_cancel_requested: for which command, 0 if it is down
  lost,      \* workers whose open transaction was reported as lost
  cancels,   \* cancel threads on their way to the server
  watchers   \* threads of the statement time-out

hostVars == <<handle, kind, mine, busy, fetching, asked, lost>>
vars == <<hostVars, wk, sessions, cancels, watchers>>

Worker == [ queue : Seq(Commands \cup {LetGo}),
            cur : Commands \cup {0}, step : Steps, left : Nat, exec : Execs,
            sess : Nat, dead : BOOLEAN,     \* the session held, 0 if none
            slot : Nat,                     \* cancel_slot: the session it is for
            flag : Nat,                     \* cancel_flag: the command stopped
            seq : Nat,                      \* run_seq
            open : BOOLEAN, saved : BOOLEAN, \* changes open, and committed by LetGo
            evs : Seq({"error", "done", "page", "gone"}) ]
CancelThread == [ worker : Workers, to : Nat, meant : Commands ]
Watcher == [ worker : Workers, to : Nat, meant : Commands, seq : Nat ]

TypeOK ==
  /\ handle \in HandleKinds
  /\ kind \in Seq({"run", "all", "page", "tx"}) /\ Len(kind) <= MaxCommands
  /\ mine \in Workers
  /\ wk \in [Workers -> Worker]
  /\ sessions \in 0..MaxSessions
  /\ {busy, fetching, asked} \subseteq 0..Len(kind)
  /\ lost \subseteq Workers
  /\ cancels \subseteq CancelThread
  /\ watchers \subseteq Watcher

NewWorker == [ queue |-> <<>>, cur |-> 0, step |-> "idle", left |-> 0, exec |-> "no",
               sess |-> 0, dead |-> TRUE, slot |-> 0, flag |-> 0, seq |-> 0,
               open |-> FALSE, saved |-> FALSE, evs |-> <<>> ]

Init ==
  /\ handle \in Handles
  /\ kind = <<>> /\ mine = 1 /\ busy = 0 /\ fetching = 0 /\ asked = 0
  /\ lost = {} /\ cancels = {} /\ watchers = {}
  /\ wk = [w \in Workers |-> IF w = 1 THEN [NewWorker EXCEPT !.sess = 1, !.dead = FALSE]
                             ELSE NewWorker]
  /\ sessions = 1

-----------------------------------------------------------------------------
(* The host.                                                               *)

\* submit, behind the gate: nothing under way here.  A run forgets an earlier
\* request to stop (run_toast_start).
Send(k) ==
  /\ busy = 0 /\ fetching = 0 /\ Len(kind) < MaxCommands
  /\ kind' = Append(kind, k)
  /\ wk' = [wk EXCEPT ![mine].queue = Append(@, Len(kind'))]
  /\ IF k \in {"all", "page"}
       THEN fetching' = Len(kind') /\ UNCHANGED busy
       ELSE busy' = Len(kind') /\ UNCHANGED fetching
  /\ asked' = IF k = "run" THEN 0 ELSE asked
  /\ UNCHANGED <<handle, mine, lost, sessions, cancels, watchers>>

Shown == IF busy # 0 THEN busy ELSE fetching

\* stop_run, with cancel_run.  The last worker is not stopped (bound).
Stop ==
  /\ Shown # 0 /\ mine < MaxWorkers
  /\ asked' = busy
  /\ wk' = [wk EXCEPT ![mine].flag = Shown]
  /\ cancels' = IF wk[mine].slot = 0 THEN cancels
                ELSE cancels \cup {[worker |-> mine, to |-> wk[mine].slot, meant |-> Shown]}
  /\ UNCHANGED <<handle, kind, mine, busy, fetching, lost, sessions, watchers>>

\* Mutant of Unblocked: the session stays busy.
UnblockedButBusy == fetching' = 0 /\ asked' = 0 /\ UNCHANGED busy
Unblocked == fetching' = 0 /\ asked' = 0 /\ busy' = 0

\* abandon_worker_via: a new worker without a session takes over, and what is
\* open is reported as lost.
Abandon ==
  /\ mine < MaxWorkers
  /\ wk' = [wk EXCEPT ![mine].queue = Append(@, LetGo)]
  /\ lost' = IF wk[mine].open THEN lost \cup {mine} ELSE lost
  /\ mine' = mine + 1
  /\ Unblocked
  /\ UNCHANGED <<handle, kind, sessions, cancels, watchers>>

\* stop_run pressed again after run.force_stop_secs.
ForceStop == busy # 0 /\ asked # 0 /\ Abandon

\* stop_run while the end point is held to be down (broken, set by probes).
StopBroken == Shown # 0 /\ (wk[mine].dead \/ FalseAlarm) /\ Abandon

AskedAfter(ev) == IF ev = "page" THEN asked ELSE 0

\* drain_events: an error, the done signal, the page of a fetch, or the end of
\* the connection.  An error or a done signal is taken for the one command.
HostReads ==
  LET evs == wk[mine].evs IN
  /\ evs # <<>>
  /\ wk' = [wk EXCEPT ![mine].evs = Tail(@)]
  /\ busy' = IF Head(evs) = "page" THEN busy ELSE 0
  /\ asked' = AskedAfter(Head(evs))
  /\ fetching' = IF Head(evs) \in {"page", "gone"} THEN 0 ELSE fetching
  /\ UNCHANGED <<handle, kind, mine, lost, sessions, cancels, watchers>>

-----------------------------------------------------------------------------
(* The worker.                                                             *)

KindOf(w) == kind[wk[w].cur]
InRun(w)   == wk[w].cur # 0 /\ KindOf(w) = "run"
InFetch(w) == wk[w].cur # 0 /\ KindOf(w) \in {"all", "page"}

\* runner.cancel_handle.
HandleOf(r) == IF handle = "none" THEN 0 ELSE r.sess

\* A command ends with its events.
Ended(r, ev) == [r EXCEPT !.cur = 0, !.step = "idle", !.left = 0, !.exec = "no",
                          !.evs = @ \o ev]
Closing(w) == IF InFetch(w) THEN <<"page">> ELSE <<"done">>
Failing(w) == IF InFetch(w) THEN <<"page">> ELSE <<"error", "done">>

WorkerStep(w, r) == wk' = [wk EXCEPT ![w] = r] /\ UNCHANGED hostVars

Has(w) == wk[w].cur = 0 /\ wk[w].queue # <<>>

\* The session is closed: the host puts a connect ahead of the command
\* (wake_if_idle, Cmd::ConnectSpec).
Wakes(w) ==
  /\ Has(w) /\ wk[w].sess = 0 /\ sessions < MaxSessions
  /\ Head(wk[w].queue) # LetGo /\ kind[Head(wk[w].queue)] # "tx"
  /\ sessions' = sessions + 1
  /\ WorkerStep(w, [wk[w] EXCEPT !.sess = sessions', !.dead = FALSE])
  /\ UNCHANGED <<cancels, watchers>>

\* A fetch takes its handle first.
Take(w) ==
  LET r == wk[w] IN
  /\ Has(w) /\ Head(r.queue) # LetGo
  /\ \E n \in 1..MaxStatements :
       LET c == Head(r.queue) IN
       /\ kind[c] \in {"tx", "page"} => n = 1
       /\ kind[c] = "all" => n = MaxStatements
       /\ WorkerStep(w, [r EXCEPT !.queue = Tail(@), !.cur = c, !.step = "taken",
                            !.left = n,
                            !.slot = IF kind[c] \in {"all", "page"} THEN HandleOf(r) ELSE @])
  /\ UNCHANGED <<sessions, cancels, watchers>>

\* ensure_alive: goes on with the session it has, dead or not.  Without one, a
\* run may still connect in its text, a commit has nothing to do and succeeds.
GoesOn(w) ==
  /\ wk[w].step = "taken" /\ (wk[w].sess # 0 \/ ~InFetch(w))
  /\ WorkerStep(w, [wk[w] EXCEPT !.step = "alive",
                                 !.left = IF wk[w].sess = 0 /\ ~InRun(w) THEN 0 ELSE @])
  /\ UNCHANGED <<sessions, cancels, watchers>>

\* ensure_alive: the session is dead and is opened anew, but for a commit.
Reopens(w) ==
  /\ wk[w].step = "taken" /\ wk[w].sess # 0 /\ wk[w].dead /\ KindOf(w) # "tx"
  /\ sessions < MaxSessions
  /\ sessions' = sessions + 1
  /\ WorkerStep(w, [wk[w] EXCEPT !.step = "alive", !.sess = sessions', !.dead = FALSE])
  /\ UNCHANGED <<cancels, watchers>>

\* ensure_alive: the server does not answer; the command is refused.
Refuses(w) ==
  /\ wk[w].step = "taken"
  /\ WorkerStep(w, Ended(wk[w], Failing(w)))
  /\ UNCHANGED <<sessions, cancels, watchers>>

\* Inputs of a run are missing: it is refused, or the user cancels the question
\* (with the stop button, too), ahead of the first statement.
InputMissing(w) ==
  /\ wk[w].step = "alive" /\ InRun(w)
  /\ \E evs \in { <<"done">>, <<"error", "done">> } : WorkerStep(w, Ended(wk[w], evs))
  /\ UNCHANGED <<sessions, cancels, watchers>>

\* Mutant of FlagArmed: a flag left by an earlier stop is not lowered.
FlagKept(w) == wk[w].flag
FlagArmed(w) == IF KindOf(w) = "all" THEN 0 ELSE wk[w].flag

\* What is done ahead of the first statement: the handle, the number of the
\* run and its watcher; the flag of a fetch of all rows.
Arm(w) ==
  LET r == wk[w] IN
  /\ r.step = "alive"
  /\ WorkerStep(w, IF InRun(w)
                     THEN [r EXCEPT !.step = "ready", !.seq = @ + 1, !.slot = HandleOf(r)]
                     ELSE [r EXCEPT !.step = "ready", !.flag = FlagArmed(w)])
  /\ watchers' = IF InRun(w) /\ HasTimeout /\ HandleOf(r) # 0
       THEN watchers \cup {[worker |-> w, to |-> r.sess, meant |-> r.cur, seq |-> r.seq + 1]}
       ELSE watchers
  /\ UNCHANGED <<sessions, cancels>>

Between(w) == wk[w].step = "ready" /\ wk[w].exec = "no"

\* Between two batches of a fetch of all rows: is the flag up?
FlagSeen(w) == KindOf(w) = "all" /\ wk[w].left < MaxStatements /\ wk[w].flag # 0

\* Mutant of Begin: one statement more than there are.
BeginPastEnd(w) ==
  /\ Between(w) /\ ~FlagSeen(w)
  /\ WorkerStep(w, [wk[w] EXCEPT !.exec = IF wk[w].dead THEN "cut" ELSE "yes",
                                 !.left = @ - 1])
  /\ UNCHANGED <<sessions, cancels, watchers>>

Begin(w) ==
  /\ Between(w) /\ wk[w].left > 0 /\ ~FlagSeen(w)
  /\ WorkerStep(w, [wk[w] EXCEPT !.exec = IF wk[w].dead THEN "cut" ELSE "yes",
                                 !.left = @ - 1])
  /\ UNCHANGED <<sessions, cancels, watchers>>

StopsAtFlag(w) ==
  /\ Between(w) /\ wk[w].left > 0 /\ FlagSeen(w)
  /\ WorkerStep(w, Ended(wk[w], <<"page">>))
  /\ UNCHANGED <<sessions, cancels, watchers>>

\* CONNECT in the text of a run: what is open is committed, and the handle in
\* the slot stays that of the old session.
Connects(w) ==
  /\ Between(w) /\ wk[w].left > 0 /\ InRun(w) /\ sessions < MaxSessions
  /\ sessions' = sessions + 1
  /\ WorkerStep(w, [wk[w] EXCEPT !.sess = sessions', !.dead = FALSE, !.left = @ - 1,
                                 !.open = FALSE])
  /\ UNCHANGED <<cancels, watchers>>

\* The server answers.
Returns(w) ==
  /\ wk[w].exec = "yes"
  /\ \E more, changed \in BOOLEAN :
       /\ more \/ KindOf(w) = "all"
       /\ changed => InRun(w)
       /\ WorkerStep(w, [wk[w] EXCEPT !.exec = "no",
                                      !.left = IF more THEN @ ELSE 0,
                                      !.open = (@ \/ changed) /\ KindOf(w) # "tx"])
  /\ UNCHANGED <<sessions, cancels, watchers>>

\* run_script: what is still to do behind a failed statement, after WHENEVER
\* SQLERROR (EXIT or CONTINUE).
AfterError(w) == IF InRun(w) THEN {0, wk[w].left} ELSE {0}

\* The statement was broken off, or the connection is dead.
Fails(w) ==
  LET r == wk[w] IN
  /\ r.exec = "cut"
  /\ IF handle = "silent" /\ ~r.dead
       THEN WorkerStep(w, [r EXCEPT !.exec = "no"])
       ELSE \E n \in AfterError(w) :
              WorkerStep(w, [r EXCEPT !.exec = "no", !.left = n,
                               !.evs = IF InFetch(w) THEN @ ELSE Append(@, "error")])
  /\ UNCHANGED <<sessions, cancels, watchers>>

\* Mutant of SeqAtEnd: the number of the run is not raised at its end.
SeqKept(w) == wk[w].seq
SeqAtEnd(w) == IF InRun(w) THEN wk[w].seq + 1 ELSE wk[w].seq

End(w) ==
  /\ Between(w) /\ wk[w].left = 0
  /\ WorkerStep(w, [Ended(wk[w], Closing(w)) EXCEPT !.seq = SeqAtEnd(w)])
  /\ UNCHANGED <<sessions, cancels, watchers>>

\* The driver panics: the session is dropped, the number of the run stays.
Panics(w) ==
  /\ wk[w].exec # "no"
  /\ WorkerStep(w, [Ended(wk[w], <<"gone">>) EXCEPT !.sess = 0, !.dead = TRUE, !.open = FALSE])
  /\ UNCHANGED <<sessions, cancels, watchers>>

\* Cmd::Disconnect: commits and closes.
LetsGo(w) ==
  /\ Has(w) /\ Head(wk[w].queue) = LetGo
  /\ WorkerStep(w, [wk[w] EXCEPT !.queue = Tail(@), !.sess = 0, !.dead = TRUE,
                                 !.open = FALSE, !.saved = wk[w].open])
  /\ UNCHANGED <<sessions, cancels, watchers>>

-----------------------------------------------------------------------------
(* The server and the threads.                                             *)

Broken(r) == [r EXCEPT !.dead = TRUE, !.open = FALSE,
                       !.exec = IF @ = "yes" THEN "cut" ELSE @]

ConnectionLost(w) ==
  /\ wk[w].sess # 0 /\ ~wk[w].dead /\ sessions < MaxSessions
  /\ WorkerStep(w, Broken(wk[w]))
  /\ UNCHANGED <<sessions, cancels, watchers>>

\* A cancel reaches the server, late or not: it is for a session, not for a
\* statement, and is lost if the session does nothing.
Deliver(c) ==
  /\ cancels' = cancels \ {c}
  /\ LET r == wk[c.worker] IN
     IF r.sess # c.to \/ r.dead THEN UNCHANGED wk
     ELSE wk' = [wk EXCEPT ![c.worker] =
                   IF handle = "drop" THEN Broken(r)
                   ELSE [r EXCEPT !.exec = IF @ = "yes" THEN "cut" ELSE @]]
  /\ UNCHANGED <<hostVars, sessions, watchers>>

\* The time is up, and the run with this number is still counted.
Fires(x) == wk[x.worker].seq = x.seq
WatcherWakes(x) ==
  /\ watchers' = watchers \ {x}
  /\ cancels' = IF Fires(x)
       THEN cancels \cup {[worker |-> x.worker, to |-> x.to, meant |-> x.meant]}
       ELSE cancels
  /\ UNCHANGED <<hostVars, wk, sessions>>

-----------------------------------------------------------------------------
InUse == 1..mine

\* What a worker does by itself, the server's answer apart.
WorkerNext(w) ==
  \/ Wakes(w) \/ Take(w) \/ GoesOn(w) \/ Reopens(w) \/ Refuses(w) \/ InputMissing(w)
  \/ Arm(w) \/ Begin(w) \/ StopsAtFlag(w) \/ Connects(w) \/ Fails(w) \/ End(w) \/ LetsGo(w)

Next ==
  \/ \E k \in Kinds : Send(k)
  \/ Stop \/ ForceStop \/ StopBroken \/ HostReads
  \/ \E w \in InUse : WorkerNext(w) \/ Returns(w) \/ Panics(w) \/ ConnectionLost(w)
  \/ \E c \in cancels : Deliver(c)
  \/ \E x \in watchers : WatcherWakes(x)

Spec == Init /\ [][Next]_vars

\* Workers and host go on; the user who asked in vain presses again.  Neither
\* an answer of the server nor the arrival of a cancel is taken for granted.
FairSpec ==
  /\ Spec
  /\ \A w \in Workers : WF_vars(w \in InUse /\ WorkerNext(w))
  /\ WF_vars(HostReads)
  /\ WF_vars(ForceStop)

-----------------------------------------------------------------------------
(* A time-out asks the server to break off its own run only: if the        *)
(* session it asks is still the worker's, the run is still under way       *)
(* (run_seq, raised at the start and at the end of each run).              *)
FiresInItsRun ==
  [][\A x \in watchers \ watchers' :
       Fires(x) /\ wk[x.worker].sess = x.to => wk[x.worker].cur = x.meant]_vars

(* A fetch of all rows that stops at the flag was stopped: the flag that   *)
(* the stop of an earlier command left does not end it.  (After a panic    *)
(* the press may be for the command behind it, which the host shows.)      *)
StopsIfAsked == [][\A w \in InUse : StopsAtFlag(w) => wk[w].flag >= wk[w].cur]_vars

(* The second press forces only a command that was asked to stop before:   *)
(* a request made of an earlier command does not count.                    *)
ForcesIfAsked == [][ForceStop => asked = busy]_vars

(* A press of the button outlives the command it was for in neither way:   *)
(* not as the flag of the worker, not as the request the host remembers.   *)
StopIsForOne == StopsIfAsked /\ ForcesIfAsked

(* A run or a commit (what raises busy) the user asked to stop leaves the  *)
(* session free for new work, however little the server and the driver     *)
(* help: pressed again, the button forces it (stop_run).  A fetch of the   *)
(* grid raises no busy and is not covered, see StopFreesFetch.             *)
StopFrees == asked # 0 ~> Shown = 0

(* Not kept by the code: a fetch of the grid the user asked to stop ends.  *)
(* If neither the server nor the driver helps, a second press only sends   *)
(* the same cancel again (stop_run forces if busy is up).                  *)
StopFreesFetch == fetching # 0 /\ wk[mine].flag = fetching ~> fetching = 0

(* What was reported as lost with a forced stop is not saved afterwards:   *)
(* the server rolls the open transaction back (run.force_stop_secs).       *)
LostIsNotSaved == \A w \in lost : ~wk[w].saved
=============================================================================
