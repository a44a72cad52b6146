--------------------------- MODULE StopRun_proofs ---------------------------
(***************************************************************************)
(* Theorems of StopRun.                                                    *)
(*                                                                         *)
(* Types first.  Then the inductive invariant IInv: what the host shows is *)
(* the last command sent and a request to stop is for it (Latest); a       *)
(* worker knows only commands sent and sessions opened, and the flag it    *)
(* looks at is not that of an earlier command (Fits); a watcher that would *)
(* still fire, on the session it is for, finds its run under way           *)
(* (WatcherFits).  The three promises follow.  There is no assumption on   *)
(* commands, statements, sessions or workers beyond StopAssumption.        *)
(***************************************************************************)
EXTENDS StopRun, SequenceTheorems, TLAPS

KindNames == {"run", "all", "page", "tx"}
Events    == {"error", "done", "page", "gone"}

\* What a command leaves in the channel is a list of events.
LEMMA EventTypes ==
  ASSUME NEW w
  PROVE  Closing(w) \in Seq(Events) /\ Failing(w) \in Seq(Events)
<1>1. <<"page">> \in Seq(Events) /\ <<"done">> \in Seq(Events)
  BY DEF Events
<1>2. <<"error", "done">> \in Seq(Events)
  BY DEF Events
<1> QED BY <1>1, <1>2 DEF Closing, Failing

\* A worker that ended its command, or whose connection broke, is a worker.
LEMMA WorkerOps ==
  ASSUME NEW r \in Worker
  PROVE  /\ \A ev \in Seq(Events) : Ended(r, ev) \in Worker
         /\ Broken(r) \in Worker
<1>1. ASSUME NEW ev \in Seq(Events)
      PROVE  Ended(r, ev) \in Worker
  <2>1. r.evs \o ev \in Seq(Events)
    BY DEF Worker, Events
  <2> QED BY <2>1 DEF Ended, Worker, Events, Steps, Execs
<1>2. Broken(r) \in Worker
  BY DEF Broken, Worker, Execs
<1> QED BY <1>1, <1>2

\* A new worker is one.
LEMMA NewWorkerType == NewWorker \in Worker
BY DEF NewWorker, Worker, Steps, Execs

\* A step of one worker keeps the types when the worker stays one.
LEMMA OneWorkerTypes ==
  ASSUME TypeOK, NEW w \in Workers, NEW r \in Worker, WorkerStep(w, r),
         sessions' \in 0..MaxSessions, cancels' = cancels, watchers' \subseteq Watcher
  PROVE  TypeOK'
<1>1. wk' \in [Workers -> Worker]
  BY DEF WorkerStep, TypeOK
<1> QED BY <1>1 DEF WorkerStep, TypeOK, hostVars

\* The host's steps keep the types.
LEMMA HostTypes ==
  ASSUME TypeOK,
         \/ \E k \in Kinds : Send(k)
         \/ Stop \/ ForceStop \/ StopBroken \/ HostReads
  PROVE  TypeOK'
<1> DEFINE r == wk[mine]
<1>0. mine \in Workers /\ r \in Worker /\ Len(kind) \in Nat
  BY DEF TypeOK
<1>1. ASSUME NEW k \in Kinds, Send(k)
      PROVE  TypeOK'
  <2>1. k \in KindNames
    BY StopAssumption DEF KindNames
  <2>2. /\ kind' \in Seq(KindNames) /\ Len(kind') = Len(kind) + 1
        /\ Len(kind') <= MaxCommands
    BY <1>1, <2>1, StopAssumption DEF Send, TypeOK, KindNames
  <2>3. Append(r.queue, Len(kind')) \in Seq(Commands \cup {LetGo})
    <3>1. Len(kind') \in Commands
      BY <1>0, <2>2, StopAssumption DEF Commands
    <3> QED BY <1>0, <3>1 DEF Worker
  <2>4. [r EXCEPT !.queue = Append(@, Len(kind'))] \in Worker
    BY <1>0, <2>3 DEF Worker
  <2>5. wk' \in [Workers -> Worker]
    BY <1>0, <1>1, <2>4 DEF Send, TypeOK
  <2>6. {busy', fetching', asked'} \subseteq 0..Len(kind')
    BY <1>0, <1>1, <2>2 DEF Send, TypeOK
  <2> QED BY <1>1, <2>2, <2>5, <2>6 DEF Send, TypeOK, KindNames
<1>2. CASE Stop
  <2>1. Shown \in Commands /\ Shown \in Nat
    BY <1>0, <1>2, StopAssumption DEF Stop, Shown, TypeOK, Commands
  <2>2. [r EXCEPT !.flag = Shown] \in Worker
    BY <1>0, <2>1 DEF Worker
  <2>3. wk' \in [Workers -> Worker]
    BY <1>0, <1>2, <2>2 DEF Stop, TypeOK
  <2>4. [worker |-> mine, to |-> r.slot, meant |-> Shown] \in CancelThread
    BY <1>0, <2>1 DEF CancelThread, Worker
  <2>5. cancels' \subseteq CancelThread
    BY <1>2, <2>4 DEF Stop, TypeOK
  <2> QED BY <1>2, <2>3, <2>5 DEF Stop, TypeOK
<1>3. CASE ForceStop \/ StopBroken
  <2>1. Abandon
    BY <1>3 DEF ForceStop, StopBroken
  <2>2. Append(r.queue, LetGo) \in Seq(Commands \cup {LetGo})
    BY <1>0 DEF Worker
  <2>3. [r EXCEPT !.queue = Append(@, LetGo)] \in Worker
    BY <1>0, <2>2 DEF Worker
  <2>4. wk' \in [Workers -> Worker]
    BY <1>0, <2>1, <2>3 DEF Abandon, TypeOK
  <2>5. mine' \in Workers
    BY <1>0, <2>1, StopAssumption DEF Abandon, Workers
  <2> QED BY <1>0, <2>1, <2>4, <2>5 DEF Abandon, Unblocked, TypeOK
<1>4. CASE HostReads
  <2>1. Tail(r.evs) \in Seq(Events)
    BY <1>0, <1>4 DEF HostReads, Worker, Events
  <2>2. [r EXCEPT !.evs = Tail(@)] \in Worker
    BY <1>0, <2>1 DEF Worker, Events
  <2>3. wk' \in [Workers -> Worker]
    BY <1>0, <1>4, <2>2 DEF HostReads, TypeOK
  <2> QED BY <1>0, <1>4, <2>3 DEF HostReads, AskedAfter, TypeOK
<1> QED BY <1>1, <1>2, <1>3, <1>4

\* The steps of a worker, and of the server towards it, keep the types.
LEMMA WorkerTypes ==
  ASSUME TypeOK, NEW w \in InUse,
         WorkerNext(w) \/ Returns(w) \/ Panics(w) \/ ConnectionLost(w)
  PROVE  TypeOK'
<1> DEFINE r == wk[w]
           Kept == UNCHANGED <<sessions, cancels, watchers>>
<1>0. /\ w \in Workers /\ r \in Worker /\ sessions \in 0..MaxSessions
      /\ watchers \subseteq Watcher /\ MaxSessions \in Nat
  BY StopAssumption DEF TypeOK, InUse, Workers
\* It is enough that the worker stays a worker.
<1>1. ASSUME NEW s \in Worker, WorkerStep(w, s), Kept
      PROVE  TypeOK'
  BY <1>0, <1>1, OneWorkerTypes
<1>2. ASSUME NEW s \in Worker, WorkerStep(w, s), sessions < MaxSessions,
             sessions' = sessions + 1, UNCHANGED <<cancels, watchers>>
      PROVE  TypeOK'
  BY <1>0, <1>2, OneWorkerTypes
<1>3. CASE Wakes(w)
  <2>0. sessions' \in Nat
    BY <1>0, <1>3 DEF Wakes
  <2>1. [r EXCEPT !.sess = sessions', !.dead = FALSE] \in Worker
    BY <1>0, <2>0 DEF Worker
  <2> QED BY <1>2, <1>3, <2>1 DEF Wakes
<1>4. CASE Take(w)
  <2>0. /\ r.queue \in Seq(Commands \cup {LetGo}) /\ r.queue # <<>>
        /\ Head(r.queue) # LetGo
    BY <1>0, <1>4 DEF Take, Has, Worker
  <2>1. /\ Head(r.queue) \in Commands
        /\ Tail(r.queue) \in Seq(Commands \cup {LetGo})
    BY <2>0
  <2>2. PICK n \in 1..MaxStatements :
          WorkerStep(w, [r EXCEPT !.queue = Tail(@), !.cur = Head(r.queue),
                           !.step = "taken", !.left = n,
                           !.slot = IF kind[Head(r.queue)] \in {"all", "page"}
                                      THEN HandleOf(r) ELSE @])
    BY <1>4 DEF Take
  <2>3. n \in Nat /\ HandleOf(r) \in Nat
    BY <1>0, StopAssumption DEF HandleOf, Worker
  <2>4. [r EXCEPT !.queue = Tail(@), !.cur = Head(r.queue),
                  !.step = "taken", !.left = n,
                  !.slot = IF kind[Head(r.queue)] \in {"all", "page"}
                             THEN HandleOf(r) ELSE @] \in Worker
    BY <1>0, <2>1, <2>3 DEF Worker, Steps
  <2> QED BY <1>1, <1>4, <2>2, <2>4 DEF Take
<1>5. CASE GoesOn(w)
  <2>1. [r EXCEPT !.step = "alive",
                  !.left = IF r.sess = 0 /\ ~InRun(w) THEN 0 ELSE @] \in Worker
    BY <1>0 DEF Worker, Steps
  <2> QED BY <1>1, <1>5, <2>1 DEF GoesOn
<1>6. CASE Reopens(w)
  <2>0. sessions' \in Nat
    BY <1>0, <1>6 DEF Reopens
  <2>1. [r EXCEPT !.step = "alive", !.sess = sessions', !.dead = FALSE] \in Worker
    BY <1>0, <2>0 DEF Worker, Steps
  <2> QED BY <1>2, <1>6, <2>1 DEF Reopens
<1>7. CASE Refuses(w)
  <2>1. Ended(r, Failing(w)) \in Worker
    BY <1>0, EventTypes, WorkerOps
  <2> QED BY <1>1, <1>7, <2>1 DEF Refuses
<1>8. CASE InputMissing(w)
  <2>0. <<"done">> \in Seq(Events) /\ <<"error", "done">> \in Seq(Events)
    BY DEF Events
  <2>1. Ended(r, <<"done">>) \in Worker /\ Ended(r, <<"error", "done">>) \in Worker
    BY <1>0, <2>0, WorkerOps
  <2> QED BY <1>1, <1>8, <2>1 DEF InputMissing
<1>9. CASE Arm(w)
  <2> DEFINE s == IF InRun(w)
                    THEN [r EXCEPT !.step = "ready", !.seq = @ + 1, !.slot = HandleOf(r)]
                    ELSE [r EXCEPT !.step = "ready", !.flag = FlagArmed(w)]
             x == [worker |-> w, to |-> r.sess, meant |-> r.cur, seq |-> r.seq + 1]
  <2>1. HandleOf(r) \in Nat /\ FlagArmed(w) \in Nat /\ r.seq + 1 \in Nat
    BY <1>0 DEF HandleOf, FlagArmed, Worker
  <2>2. s \in Worker
    BY <1>0, <2>1 DEF Worker, Steps
  <2>3. InRun(w) => x \in Watcher
    BY <1>0 DEF InRun, Watcher, Worker
  <2>4. watchers' \subseteq Watcher
    BY <1>0, <1>9, <2>3 DEF Arm
  <2>5. WorkerStep(w, s) /\ UNCHANGED <<sessions, cancels>>
    BY <1>9 DEF Arm
  <2> HIDE DEF s
  <2> QED BY <1>0, <2>2, <2>4, <2>5, OneWorkerTypes
<1>10. CASE Begin(w)
  <2>0. r.left - 1 \in Nat
    BY <1>0, <1>10 DEF Begin, Worker
  <2>1. [r EXCEPT !.exec = IF r.dead THEN "cut" ELSE "yes", !.left = @ - 1] \in Worker
    BY <1>0, <2>0 DEF Worker, Execs
  <2> QED BY <1>1, <1>10, <2>1 DEF Begin
<1>11. CASE StopsAtFlag(w)
  <2>1. Ended(r, <<"page">>) \in Worker
    <3>1. <<"page">> \in Seq(Events)
      BY DEF Events
    <3> QED BY <1>0, <3>1, WorkerOps
  <2> QED BY <1>1, <1>11, <2>1 DEF StopsAtFlag
<1>12. CASE Connects(w)
  <2>0. sessions' \in Nat /\ r.left - 1 \in Nat
    BY <1>0, <1>12 DEF Connects, Worker
  <2>1. [r EXCEPT !.sess = sessions', !.dead = FALSE, !.left = @ - 1,
                  !.open = FALSE] \in Worker
    BY <1>0, <2>0 DEF Worker
  <2> QED BY <1>2, <1>12, <2>1 DEF Connects
<1>13. CASE Returns(w)
  <2>1. PICK more \in BOOLEAN, changed \in BOOLEAN :
          WorkerStep(w, [r EXCEPT !.exec = "no", !.left = IF more THEN @ ELSE 0,
                                  !.open = (@ \/ changed) /\ KindOf(w) # "tx"])
    BY <1>13 DEF Returns
  <2>2. [r EXCEPT !.exec = "no", !.left = IF more THEN @ ELSE 0,
                  !.open = (@ \/ changed) /\ KindOf(w) # "tx"] \in Worker
    BY <1>0 DEF Worker, Execs
  <2> QED BY <1>1, <1>13, <2>1, <2>2 DEF Returns
<1>14. CASE Fails(w)
  <2>1. Append(r.evs, "error") \in Seq(Events)
    BY <1>0 DEF Worker, Events
  <2>2. [r EXCEPT !.exec = "no"] \in Worker
    BY <1>0 DEF Worker, Execs
  <2>3. AfterError(w) \subseteq Nat
    BY <1>0 DEF AfterError, Worker
  <2>4. \A n \in Nat : [r EXCEPT !.exec = "no", !.left = n,
                          !.evs = IF InFetch(w) THEN @ ELSE Append(@, "error")] \in Worker
    BY <1>0, <2>1 DEF Worker, Execs, Events
  <2>5. PICK t \in Worker : WorkerStep(w, t)
    <3>1. CASE handle = "silent" /\ ~r.dead
      BY <1>14, <2>2, <3>1 DEF Fails
    <3>2. CASE ~(handle = "silent" /\ ~r.dead)
      <4>1. PICK n \in AfterError(w) :
              WorkerStep(w, [r EXCEPT !.exec = "no", !.left = n,
                               !.evs = IF InFetch(w) THEN @ ELSE Append(@, "error")])
        BY <1>14, <3>2 DEF Fails
      <4> QED BY <2>3, <2>4, <4>1
    <3> QED BY <3>1, <3>2
  <2> QED BY <1>1, <1>14, <2>5 DEF Fails
<1>15. CASE End(w)
  <2>0. r.seq \in Nat
    BY <1>0 DEF Worker
  <2>1. Ended(r, Closing(w)) \in Worker /\ SeqAtEnd(w) \in Nat
    <3>1. Ended(r, Closing(w)) \in Worker
      BY <1>0, EventTypes, WorkerOps
    <3>2. SeqAtEnd(w) \in Nat
      BY <2>0 DEF SeqAtEnd
    <3> QED BY <3>1, <3>2
  <2>2. [Ended(r, Closing(w)) EXCEPT !.seq = SeqAtEnd(w)] \in Worker
    BY <2>1 DEF Worker
  <2> QED BY <1>1, <1>15, <2>2 DEF End
<1>16. CASE Panics(w)
  <2>1. Ended(r, <<"gone">>) \in Worker
    <3>1. <<"gone">> \in Seq(Events)
      BY DEF Events
    <3> QED BY <1>0, <3>1, WorkerOps
  <2>2. [Ended(r, <<"gone">>) EXCEPT !.sess = 0, !.dead = TRUE, !.open = FALSE] \in Worker
    BY <2>1 DEF Worker
  <2> QED BY <1>1, <1>16, <2>2 DEF Panics
<1>17. CASE LetsGo(w)
  <2>0. Tail(r.queue) \in Seq(Commands \cup {LetGo})
    BY <1>0, <1>17 DEF LetsGo, Has, Worker
  <2>1. [r EXCEPT !.queue = Tail(@), !.sess = 0, !.dead = TRUE, !.open = FALSE,
                  !.saved = r.open] \in Worker
    BY <1>0, <2>0 DEF Worker
  <2> QED BY <1>1, <1>17, <2>1 DEF LetsGo
<1>18. CASE ConnectionLost(w)
  BY <1>0, <1>1, <1>18, WorkerOps DEF ConnectionLost
<1> QED BY <1>3, <1>4, <1>5, <1>6, <1>7, <1>8, <1>9, <1>10, <1>11, <1>12, <1>13,
           <1>14, <1>15, <1>16, <1>17, <1>18 DEF WorkerNext

\* The threads keep the types.
LEMMA ThreadTypes ==
  ASSUME TypeOK,
         \/ \E c \in cancels : Deliver(c)
         \/ \E x \in watchers : WatcherWakes(x)
  PROVE  TypeOK'
<1>1. ASSUME NEW c \in cancels, Deliver(c)
      PROVE  TypeOK'
  <2>1. c.worker \in Workers /\ wk[c.worker] \in Worker
    BY DEF TypeOK, CancelThread
  <2>2. Broken(wk[c.worker]) \in Worker
    BY <2>1, WorkerOps
  <2>3. [wk[c.worker] EXCEPT !.exec = IF @ = "yes" THEN "cut" ELSE @] \in Worker
    BY <2>1 DEF Worker, Execs
  <2>4. wk' \in [Workers -> Worker]
    BY <1>1, <2>1, <2>2, <2>3 DEF Deliver, TypeOK
  <2> QED BY <1>1, <2>4 DEF Deliver, TypeOK, hostVars
<1>2. ASSUME NEW x \in watchers, WatcherWakes(x)
      PROVE  TypeOK'
  <2>1. [worker |-> x.worker, to |-> x.to, meant |-> x.meant] \in CancelThread
    BY DEF TypeOK, Watcher, CancelThread
  <2> QED BY <1>2, <2>1 DEF WatcherWakes, TypeOK, hostVars
<1> QED BY <1>1, <1>2

\* The types hold at the start, and every step keeps them.
LEMMA TypeInit == Init => TypeOK
<1> SUFFICES ASSUME Init PROVE TypeOK
  OBVIOUS
<1>1. wk \in [Workers -> Worker]
  <2>1. [NewWorker EXCEPT !.sess = 1, !.dead = FALSE] \in Worker
    BY NewWorkerType DEF Worker
  <2> QED BY <2>1, NewWorkerType DEF Init
<1>2. kind \in Seq({"run", "all", "page", "tx"}) /\ Len(kind) = 0
  BY DEF Init
<1> QED BY <1>1, <1>2, StopAssumption DEF Init, TypeOK, Workers

LEMMA TypeStep == TypeOK /\ [Next]_vars => TypeOK'
<1> SUFFICES ASSUME TypeOK, [Next]_vars PROVE TypeOK'
  OBVIOUS
<1>1. CASE UNCHANGED vars
  BY <1>1 DEF vars, hostVars, TypeOK
<1> QED BY <1>1, HostTypes, WorkerTypes, ThreadTypes DEF Next

(* Every reachable state of host, workers and threads is well typed, for    *)
(* any number of them.                                                     *)
THEOREM TypeCorrect == Spec => []TypeOK
BY TypeInit, TypeStep, PTL DEF Spec
-----------------------------------------------------------------------------
\* What the host shows is the last command sent, and a request to stop is for
\* the command that keeps the session busy.
Latest ==
  /\ busy \in {0, Len(kind)}
  /\ fetching \in {0, Len(kind)}
  /\ asked \in {0, busy}

\* The commands a worker knows have been sent, its session opened; a fetch of
\* all rows under way does not see the flag of an earlier command.
Sent(q) == \A i \in 1..Len(q) : q[i] <= Len(kind)
FlagFits(r) ==
  r.step = "ready" /\ kind[r.cur] = "all" => r.flag = 0 \/ r.flag >= r.cur
Fits(r) == /\ r.cur <= Len(kind) /\ Sent(r.queue) /\ r.sess <= sessions
           /\ FlagFits(r)

\* A watcher that would ask for the session its worker has finds its run.
Strikes(x, r) == r.seq = x.seq /\ r.sess = x.to
UnderWay(x, r) ==
  r.cur = x.meant /\ r.step = "ready" /\ r.cur # 0 /\ kind[r.cur] = "run"
WatcherFits(x) ==
  /\ x.seq <= wk[x.worker].seq
  /\ 0 < x.to /\ x.to <= sessions
  /\ Strikes(x, wk[x.worker]) => UnderWay(x, wk[x.worker])

IInv == /\ TypeOK /\ Latest
        /\ \A w \in Workers : Fits(wk[w])
        /\ \A x \in watchers : WatcherFits(x)

\* The commands of a worker that fits are sent commands.
LEMMA Bounds ==
  ASSUME IInv, NEW w \in Workers
  PROVE  /\ wk[w] \in Worker
         /\ wk[w].cur \in 0..Len(kind) /\ wk[w].sess \in 0..sessions
         /\ wk[w].seq \in Nat /\ wk[w].flag \in Nat
         /\ Len(kind) \in Nat /\ sessions \in Nat
         /\ wk[w].queue \in Seq(Commands \cup {LetGo}) /\ Commands \subseteq Nat
<1>1. wk[w] \in Worker /\ Len(kind) \in Nat /\ sessions \in Nat
  BY StopAssumption DEF IInv, TypeOK
<1>2. Commands \subseteq Nat
  BY StopAssumption DEF Commands
<1>3. /\ wk[w].cur \in Nat /\ wk[w].sess \in Nat
      /\ wk[w].seq \in Nat /\ wk[w].flag \in Nat
      /\ wk[w].queue \in Seq(Commands \cup {LetGo})
  <2>1. /\ wk[w].cur \in Commands \cup {0} /\ wk[w].sess \in Nat
        /\ wk[w].seq \in Nat /\ wk[w].flag \in Nat
        /\ wk[w].queue \in Seq(Commands \cup {LetGo})
    BY <1>1 DEF Worker
  <2>2. wk[w].cur \in Nat
    <3>1. ASSUME NEW c \in Commands \cup {0} PROVE c \in Nat
      BY <1>2
    <3> QED BY <2>1, <3>1
  <2> QED BY <2>1, <2>2
<1>4. wk[w].cur <= Len(kind) /\ wk[w].sess <= sessions
  BY DEF IInv, Fits
<1> QED BY <1>1, <1>2, <1>3, <1>4

\* A watcher is for a worker and a run.
LEMMA WatcherBounds ==
  ASSUME IInv, NEW x \in watchers
  PROVE  /\ x.worker \in Workers /\ x.seq \in Nat /\ x.to \in 1..sessions
         /\ WatcherFits(x)
<1>1. x.worker \in Workers /\ x.seq \in Nat /\ x.to \in Nat
  BY DEF IInv, TypeOK, Watcher
<1>2. WatcherFits(x)
  BY DEF IInv
<1> QED BY <1>1, <1>2, StopAssumption DEF WatcherFits, IInv, TypeOK

\* The parts of IInv beyond the types.
Rest == /\ Latest
        /\ \A w \in Workers : Fits(wk[w])
        /\ \A x \in watchers : WatcherFits(x)

\* A step of one worker: it fits afterwards, its number does not fall, and
\* either it goes on with what it does, or no watcher strikes it.
LEMMA OneWorkerFits ==
  ASSUME IInv, NEW w \in Workers, NEW r \in Worker, WorkerStep(w, r),
         sessions' \in Nat, sessions <= sessions', watchers' = watchers,
         r.cur <= Len(kind), Sent(r.queue), r.sess <= sessions', FlagFits(r),
         wk[w].seq <= r.seq,
         \/ r.cur = wk[w].cur /\ r.step = wk[w].step
            /\ r.seq = wk[w].seq /\ r.sess = wk[w].sess
         \/ \A x \in watchers : x.worker = w => ~Strikes(x, r)
  PROVE  Rest'
<1>1. /\ UNCHANGED <<kind, busy, fetching, asked>>
      /\ wk' = [wk EXCEPT ![w] = r]
  BY DEF WorkerStep, hostVars
<1>2. wk'[w] = r /\ \A u \in Workers \ {w} : wk'[u] = wk[u]
  BY <1>1 DEF IInv, TypeOK
<1>3. Latest'
  BY <1>1 DEF IInv, Latest
<1>4. ASSUME NEW u \in Workers
      PROVE  Fits(wk[u])'
  <2>1. CASE u = w
    BY <1>1, <1>2, <2>1 DEF Fits, Sent, FlagFits
  <2>2. CASE u # w
    <3>1. wk'[u] = wk[u] /\ Fits(wk[u]) /\ wk[u].sess <= sessions'
      <4>1. wk[u].sess \in 0..sessions /\ sessions \in Nat
        BY Bounds
      <4> QED BY <1>2, <2>2, <4>1 DEF IInv
    <3> QED BY <1>1, <3>1 DEF Fits, Sent, FlagFits
  <2> QED BY <2>1, <2>2
<1>5. ASSUME NEW x \in watchers
      PROVE  WatcherFits(x)'
  <2>1. /\ x.worker \in Workers /\ x.seq \in Nat /\ x.to \in 1..sessions
        /\ WatcherFits(x) /\ sessions \in Nat
    BY WatcherBounds, Bounds
  <2>2. 0 < x.to /\ x.to <= sessions'
    BY <2>1
  <2>3. CASE x.worker = w
    <3>1. x.seq <= r.seq
      <4>1. wk[w].seq \in Nat /\ r.seq \in Nat /\ x.seq <= wk[w].seq
        BY <2>1, <2>3, Bounds DEF WatcherFits, Worker
      <4> QED BY <2>1, <4>1
    <3>2. Strikes(x, r) => UnderWay(x, r)
      BY <2>1, <2>3 DEF WatcherFits, Strikes, UnderWay
    <3> QED BY <1>1, <1>2, <2>2, <2>3, <3>1, <3>2 DEF WatcherFits, Strikes, UnderWay
  <2>4. CASE x.worker # w
    BY <1>1, <1>2, <2>1, <2>2, <2>4 DEF WatcherFits, Strikes, UnderWay
  <2> QED BY <2>3, <2>4
<1> QED BY <1>3, <1>4, <1>5 DEF Rest

\* Only a run under way is struck by a watcher.
LEMMA NotStruck ==
  ASSUME IInv, NEW w \in Workers, wk[w].step # "ready" \/ ~InRun(w)
  PROVE  \A x \in watchers : x.worker = w => ~Strikes(x, wk[w])
BY WatcherBounds DEF WatcherFits, UnderWay, InRun, KindOf

\* Neither is a session opened just now, or a worker without one.
LEMMA NewNotStruck ==
  ASSUME IInv, NEW r, r.sess = sessions + 1 \/ r.sess = 0
  PROVE  \A x \in watchers : ~Strikes(x, r)
<1> SUFFICES ASSUME NEW x \in watchers, Strikes(x, r)
             PROVE  FALSE
  OBVIOUS
<1>1. x.to \in 1..sessions /\ sessions \in Nat
  BY WatcherBounds, Bounds
<1> QED BY <1>1 DEF Strikes

\* The steps of a worker, and of the server towards it, preserve IInv.
LEMMA WorkerFits ==
  ASSUME IInv, NEW w \in InUse,
         WorkerNext(w) \/ Returns(w) \/ Panics(w) \/ ConnectionLost(w)
  PROVE  Rest'
<1> DEFINE r == wk[w]
           Kept == UNCHANGED <<sessions, cancels, watchers>>
           Opens == /\ sessions' = sessions + 1
                    /\ UNCHANGED <<cancels, watchers>>
<1>0. w \in Workers
  BY StopAssumption DEF IInv, TypeOK, InUse, Workers
<1>1. /\ r \in Worker /\ r.cur \in 0..Len(kind) /\ r.sess \in 0..sessions
      /\ r.seq \in Nat /\ r.flag \in Nat /\ Len(kind) \in Nat /\ sessions \in Nat
      /\ r.queue \in Seq(Commands \cup {LetGo}) /\ Commands \subseteq Nat
      /\ Sent(r.queue) /\ FlagFits(r)
  BY <1>0, Bounds DEF IInv, Fits
\* It goes on with what it does.
<1>2. ASSUME NEW s \in Worker, WorkerStep(w, s), Kept,
             s.cur = r.cur, s.step = r.step, s.seq = r.seq, s.sess = r.sess,
             s.queue = r.queue, s.flag = r.flag
      PROVE  Rest'
  <2>1. FlagFits(s) /\ Sent(s.queue) /\ s.cur <= Len(kind) /\ s.sess <= sessions'
        /\ sessions <= sessions' /\ r.seq <= s.seq /\ sessions' \in Nat
    BY <1>1, <1>2 DEF FlagFits
  <2> QED BY <1>0, <1>2, <2>1, OneWorkerFits
\* It is not in a run, and does not enter one.
<1>3. ASSUME NEW s \in Worker, WorkerStep(w, s), Kept,
             r.step # "ready" \/ ~InRun(w),
             s.cur \in 0..Len(kind), s.seq = r.seq, s.sess = r.sess,
             Sent(s.queue), FlagFits(s)
      PROVE  Rest'
  <2>1. \A x \in watchers : x.worker = w => ~Strikes(x, s)
    BY <1>0, <1>3, NotStruck DEF Strikes
  <2>2. /\ s.cur <= Len(kind) /\ s.sess <= sessions' /\ sessions' \in Nat
        /\ sessions <= sessions' /\ r.seq <= s.seq
    BY <1>1, <1>3
  <2> QED BY <1>0, <1>3, <2>1, <2>2, OneWorkerFits
\* It opens a session, or loses its own.
<1>4. ASSUME NEW s \in Worker, WorkerStep(w, s),
             \/ Opens /\ s.sess = sessions + 1
             \/ Kept /\ s.sess = 0,
             s.cur \in 0..Len(kind), s.seq = r.seq, Sent(s.queue), FlagFits(s)
      PROVE  Rest'
  <2>1. \A x \in watchers : x.worker = w => ~Strikes(x, s)
    BY <1>4, NewNotStruck
  <2>2. /\ s.cur <= Len(kind) /\ s.sess <= sessions' /\ sessions' \in Nat
        /\ sessions <= sessions' /\ r.seq <= s.seq
    BY <1>1, <1>4
  <2> QED BY <1>0, <1>4, <2>1, <2>2, OneWorkerFits
<1>5. CASE Wakes(w)
  <2> DEFINE s == [r EXCEPT !.sess = sessions', !.dead = FALSE]
  <2>1. Opens /\ WorkerStep(w, s)
    BY <1>5 DEF Wakes
  <2>2. s \in Worker
    <3>1. sessions' \in Nat
      BY <1>1, <2>1
    <3> QED BY <1>1, <3>1 DEF Worker
  <2>3. /\ s.sess = sessions + 1 /\ s.cur = r.cur /\ s.seq = r.seq
        /\ s.queue = r.queue /\ FlagFits(s)
    BY <1>1, <2>1 DEF Worker, FlagFits
  <2> QED BY <1>1, <1>4, <2>1, <2>2, <2>3
<1>6. CASE Take(w)
  <2> DEFINE s(n) == [r EXCEPT !.queue = Tail(@), !.cur = Head(r.queue),
                        !.step = "taken", !.left = n,
                        !.slot = IF kind[Head(r.queue)] \in {"all", "page"}
                                   THEN HandleOf(r) ELSE @]
  <2>1. PICK n \in 1..MaxStatements : WorkerStep(w, s(n))
    BY <1>6 DEF Take
  <2>2. /\ r.cur = 0 /\ r.queue # <<>> /\ Head(r.queue) # LetGo
    BY <1>6 DEF Take, Has
  <2>3. /\ Head(r.queue) \in Commands /\ Head(r.queue) \in 0..Len(kind)
        /\ Tail(r.queue) \in Seq(Commands \cup {LetGo}) /\ Sent(Tail(r.queue))
    <3>1. /\ Len(r.queue) \in Nat \ {0} /\ Head(r.queue) = r.queue[1]
          /\ Head(r.queue) \in Commands /\ Tail(r.queue) \in Seq(Commands \cup {LetGo})
          /\ Len(Tail(r.queue)) = Len(r.queue) - 1
      BY <1>1, <2>2
    <3>2. \A i \in 1..Len(Tail(r.queue)) : Tail(r.queue)[i] = r.queue[i + 1]
      BY <1>1, <2>2, <3>1
    <3>3. Sent(Tail(r.queue))
      BY <1>1, <3>1, <3>2 DEF Sent
    <3>4. Head(r.queue) <= Len(kind) /\ Head(r.queue) \in Nat
      <4>1. 1 \in 1..Len(r.queue)
        BY <3>1
      <4>2. r.queue[1] <= Len(kind)
        BY <1>1, <4>1 DEF Sent
      <4> QED BY <1>1, <3>1, <4>2
    <3>5. Head(r.queue) \in 0..Len(kind)
      BY <1>1, <3>4
    <3> QED BY <3>1, <3>3, <3>5
  <2>4. n \in Nat /\ HandleOf(r) \in Nat
    BY <1>1, StopAssumption DEF HandleOf, Worker
  <2>5. s(n) \in Worker
    BY <1>1, <2>3, <2>4 DEF Worker, Steps
  <2>6. /\ s(n).cur = Head(r.queue) /\ s(n).seq = r.seq /\ s(n).sess = r.sess
        /\ s(n).queue = Tail(r.queue) /\ s(n).step = "taken"
    BY <1>1 DEF Worker
  <2>7. ~InRun(w) /\ Kept
    BY <1>6, <2>2 DEF InRun, Take
  <2> HIDE DEF s
  <2> QED BY <1>3, <2>1, <2>3, <2>5, <2>6, <2>7 DEF FlagFits
<1>7. CASE GoesOn(w)
  <2> DEFINE s == [r EXCEPT !.step = "alive",
                     !.left = IF r.sess = 0 /\ ~InRun(w) THEN 0 ELSE @]
  <2>1. s \in Worker
    BY <1>1 DEF Worker, Steps
  <2>2. /\ s.cur = r.cur /\ s.seq = r.seq /\ s.sess = r.sess /\ s.queue = r.queue
        /\ s.step = "alive"
    BY <1>1 DEF Worker
  <2>3. WorkerStep(w, s) /\ Kept /\ r.step # "ready"
    BY <1>7 DEF GoesOn
  <2> HIDE DEF s
  <2> QED BY <1>1, <1>3, <2>1, <2>2, <2>3 DEF FlagFits
<1>8. CASE Reopens(w)
  <2> DEFINE s == [r EXCEPT !.step = "alive", !.sess = sessions', !.dead = FALSE]
  <2>1. Opens /\ WorkerStep(w, s)
    BY <1>8 DEF Reopens
  <2>2. s \in Worker
    <3>1. sessions' \in Nat
      BY <1>1, <2>1
    <3> QED BY <1>1, <3>1 DEF Worker, Steps
  <2>3. /\ s.sess = sessions + 1 /\ s.cur = r.cur /\ s.seq = r.seq
        /\ s.queue = r.queue /\ s.step = "alive"
    BY <1>1, <2>1 DEF Worker
  <2> HIDE DEF s
  <2> QED BY <1>1, <1>4, <2>1, <2>2, <2>3 DEF FlagFits
\* A command that ends outside a run under way.
<1>9. ASSUME NEW ev \in Seq(Events), WorkerStep(w, Ended(r, ev)), Kept,
             r.step # "ready" \/ ~InRun(w)
      PROVE  Rest'
  <2>1. Ended(r, ev) \in Worker
    BY <1>1, WorkerOps
  <2>2. /\ Ended(r, ev).cur = 0 /\ Ended(r, ev).seq = r.seq
        /\ Ended(r, ev).sess = r.sess /\ Ended(r, ev).queue = r.queue
        /\ Ended(r, ev).step = "idle"
    BY <1>1 DEF Ended, Worker
  <2> QED BY <1>1, <1>3, <1>9, <2>1, <2>2 DEF FlagFits
<1>10. CASE Refuses(w)
  <2>1. Failing(w) \in Seq(Events)
    BY EventTypes
  <2> QED BY <1>9, <1>10, <2>1 DEF Refuses
<1>11. CASE InputMissing(w)
  <2>1. <<"done">> \in Seq(Events) /\ <<"error", "done">> \in Seq(Events)
    BY DEF Events
  <2> QED BY <1>9, <1>11, <2>1 DEF InputMissing
<1>12. CASE StopsAtFlag(w)
  <2>1. <<"page">> \in Seq(Events)
    BY DEF Events
  <2>2. ~InRun(w)
    BY <1>12 DEF StopsAtFlag, FlagSeen, InRun
  <2> QED BY <1>9, <1>12, <2>1, <2>2 DEF StopsAtFlag
<1>13. CASE Arm(w)
  <2> DEFINE a == [r EXCEPT !.step = "ready", !.seq = @ + 1, !.slot = HandleOf(r)]
             b == [r EXCEPT !.step = "ready", !.flag = FlagArmed(w)]
             y == [worker |-> w, to |-> r.sess, meant |-> r.cur, seq |-> r.seq + 1]
  <2>0. r.step = "alive" /\ UNCHANGED <<sessions, cancels>>
    BY <1>13 DEF Arm
  <2>1. CASE ~InRun(w)
    <3>1. WorkerStep(w, b) /\ Kept
      BY <1>13, <2>1 DEF Arm
    <3>2. b \in Worker
      <4>1. FlagArmed(w) \in Nat
        BY <1>1 DEF FlagArmed
      <4> QED BY <1>1, <4>1 DEF Worker, Steps
    <3>3. /\ b.cur = r.cur /\ b.seq = r.seq /\ b.sess = r.sess /\ b.queue = r.queue
          /\ b.flag = FlagArmed(w)
      BY <1>1 DEF Worker
    <3>4. FlagFits(b)
      BY <3>3 DEF FlagFits, FlagArmed, KindOf
    <3> HIDE DEF b
    <3> QED BY <1>1, <1>3, <2>1, <3>1, <3>2, <3>3, <3>4
  \* A run: its number is new, and its watcher is for it.
  <2>2. CASE InRun(w)
    <3>1. WorkerStep(w, a)
      BY <1>13, <2>2 DEF Arm
    <3>2. a \in Worker
      <4>1. r.seq + 1 \in Nat /\ HandleOf(r) \in Nat
        BY <1>1 DEF HandleOf
      <4> QED BY <1>1, <4>1 DEF Worker, Steps
    <3>3. /\ a.cur = r.cur /\ a.seq = r.seq + 1 /\ a.sess = r.sess
          /\ a.queue = r.queue /\ a.step = "ready"
      BY <1>1 DEF Worker
    <3>4. r.cur # 0 /\ kind[r.cur] = "run" /\ FlagFits(a)
      BY <2>2, <3>3 DEF InRun, KindOf, FlagFits
    <3>5. watchers' = watchers \/ (watchers' = watchers \cup {y} /\ r.sess # 0)
      BY <1>13, <2>2 DEF Arm, HandleOf
    <3> HIDE DEF a
    <3>6. UNCHANGED <<kind, busy, fetching, asked>> /\ wk' = [wk EXCEPT ![w] = a]
      BY <3>1 DEF WorkerStep, hostVars
    <3>7. wk'[w] = a /\ \A u \in Workers \ {w} : wk'[u] = wk[u]
      BY <1>0, <3>6 DEF IInv, TypeOK
    <3>8. Latest'
      BY <3>6 DEF IInv, Latest
    <3>9. ASSUME NEW u \in Workers
          PROVE  Fits(wk[u])'
      <4>1. CASE u = w
        <5>1. a.cur <= Len(kind) /\ a.sess <= sessions
          BY <1>1, <3>3
        <5> QED BY <1>1, <2>0, <3>3, <3>4, <3>6, <3>7, <4>1, <5>1
                DEF Fits, Sent, FlagFits
      <4>2. CASE u # w
        BY <2>0, <3>6, <3>7, <4>2 DEF IInv, Fits, Sent, FlagFits
      <4> QED BY <4>1, <4>2
    <3>10. ASSUME NEW x \in watchers
           PROVE  WatcherFits(x)'
      <4>1. /\ x.worker \in Workers /\ x.seq \in Nat /\ x.to \in 1..sessions
            /\ WatcherFits(x)
        BY WatcherBounds
      <4>2. CASE x.worker = w
        <5>1. x.seq <= r.seq
          BY <4>1, <4>2 DEF WatcherFits
        <5>2. x.seq <= a.seq /\ x.seq # a.seq
          BY <1>1, <3>3, <4>1, <5>1
        <5> QED BY <2>0, <3>7, <4>1, <4>2, <5>2 DEF WatcherFits, Strikes
      <4>3. CASE x.worker # w
        BY <2>0, <3>6, <3>7, <4>1, <4>3 DEF WatcherFits, Strikes, UnderWay
      <4> QED BY <4>2, <4>3
    <3>11. CASE r.sess # 0
      <4>1. ASSUME NEW x, x = y
            PROVE  WatcherFits(x)'
        <5>1. x.worker = w /\ x.seq = r.seq + 1 /\ x.to = r.sess /\ x.meant = r.cur
          BY <4>1
        <5>2. x.seq <= a.seq /\ 0 < x.to /\ x.to <= sessions
          BY <1>1, <3>3, <3>11, <5>1
        <5>3. a.cur = x.meant /\ a.step = "ready" /\ a.cur # 0 /\ kind'[a.cur] = "run"
          BY <3>3, <3>4, <3>6, <5>1
        <5> QED BY <2>0, <3>7, <5>1, <5>2, <5>3 DEF WatcherFits, UnderWay
      <4>2. \A x \in watchers' : x \in watchers \/ x = y
        BY <3>5
      <4>3. \A x \in watchers' : WatcherFits(x)'
        BY <3>10, <4>1, <4>2
      <4> QED BY <3>8, <3>9, <4>3 DEF Rest
    <3>12. CASE watchers' = watchers
      BY <3>8, <3>9, <3>10, <3>12 DEF Rest
    <3> QED BY <3>5, <3>11, <3>12
  <2> QED BY <2>1, <2>2
<1>14. CASE Begin(w)
  <2> DEFINE s == [r EXCEPT !.exec = IF r.dead THEN "cut" ELSE "yes", !.left = @ - 1]
  <2>1. WorkerStep(w, s) /\ Kept
    BY <1>14 DEF Begin
  <2>2. s \in Worker
    <3>1. r.left - 1 \in Nat
      BY <1>1, <1>14 DEF Begin, Worker
    <3> QED BY <1>1, <3>1 DEF Worker, Execs
  <2>3. /\ s.cur = r.cur /\ s.step = r.step /\ s.seq = r.seq /\ s.sess = r.sess
        /\ s.queue = r.queue /\ s.flag = r.flag
    BY <1>1 DEF Worker
  <2> QED BY <1>2, <2>1, <2>2, <2>3
<1>15. CASE Connects(w)
  <2> DEFINE s == [r EXCEPT !.sess = sessions', !.dead = FALSE, !.left = @ - 1,
                            !.open = FALSE]
  <2>1. WorkerStep(w, s) /\ Opens
    BY <1>15 DEF Connects
  <2>2. s \in Worker
    <3>1. r.left - 1 \in Nat /\ sessions' \in Nat
      BY <1>1, <1>15 DEF Connects, Worker
    <3> QED BY <1>1, <3>1 DEF Worker
  <2>3. /\ s.cur = r.cur /\ s.seq = r.seq /\ s.sess = sessions + 1
        /\ s.queue = r.queue /\ FlagFits(s)
    BY <1>1, <2>1 DEF Worker, FlagFits
  <2> HIDE DEF s
  <2> QED BY <1>1, <1>4, <2>1, <2>2, <2>3
<1>16. CASE Returns(w)
  <2> DEFINE s(more, changed) ==
        [r EXCEPT !.exec = "no", !.left = IF more THEN @ ELSE 0,
                  !.open = (@ \/ changed) /\ KindOf(w) # "tx"]
  <2>1. PICK more \in BOOLEAN, changed \in BOOLEAN : WorkerStep(w, s(more, changed))
    BY <1>16 DEF Returns
  <2>2. s(more, changed) \in Worker
    BY <1>1 DEF Worker, Execs
  <2>3. /\ s(more, changed).cur = r.cur /\ s(more, changed).step = r.step
        /\ s(more, changed).seq = r.seq /\ s(more, changed).sess = r.sess
        /\ s(more, changed).queue = r.queue /\ s(more, changed).flag = r.flag
    BY <1>1 DEF Worker
  <2>4. Kept
    BY <1>16 DEF Returns
  <2> QED BY <1>2, <2>1, <2>2, <2>3, <2>4
<1>17. CASE Fails(w)
  <2> DEFINE s == [r EXCEPT !.exec = "no"]
             t(n) == [r EXCEPT !.exec = "no", !.left = n,
                        !.evs = IF InFetch(w) THEN @ ELSE Append(@, "error")]
  <2>0. Kept
    BY <1>17 DEF Fails
  <2>1. CASE handle = "silent" /\ ~r.dead
    <3>1. WorkerStep(w, s)
      BY <1>17, <2>1 DEF Fails
    <3>2. /\ s \in Worker /\ s.cur = r.cur /\ s.step = r.step /\ s.seq = r.seq
          /\ s.sess = r.sess /\ s.queue = r.queue /\ s.flag = r.flag
      BY <1>1 DEF Worker, Execs
    <3> QED BY <1>2, <2>0, <3>1, <3>2
  <2>2. CASE ~(handle = "silent" /\ ~r.dead)
    <3>1. PICK n \in AfterError(w) : WorkerStep(w, t(n))
      BY <1>17, <2>2 DEF Fails
    <3>2. n \in Nat
      BY <1>1 DEF AfterError, Worker
    <3>3. Append(r.evs, "error") \in Seq(Events)
      BY <1>1 DEF Worker, Events
    <3>4. t(n) \in Worker
      BY <1>1, <3>2, <3>3 DEF Worker, Execs, Events
    <3>5. /\ t(n).cur = r.cur /\ t(n).step = r.step /\ t(n).seq = r.seq
          /\ t(n).sess = r.sess /\ t(n).queue = r.queue /\ t(n).flag = r.flag
      BY <1>1 DEF Worker
    <3> QED BY <1>2, <2>0, <3>1, <3>4, <3>5
  <2> QED BY <2>1, <2>2
<1>18. CASE End(w)
  <2> DEFINE s == [Ended(r, Closing(w)) EXCEPT !.seq = SeqAtEnd(w)]
  <2>1. WorkerStep(w, s) /\ Kept
    BY <1>18 DEF End
  <2>2. Closing(w) \in Seq(Events)
    BY EventTypes
  <2>3. Ended(r, Closing(w)) \in Worker /\ SeqAtEnd(w) \in Nat
    <3>1. Ended(r, Closing(w)) \in Worker
      BY <1>1, <2>2, WorkerOps
    <3>2. SeqAtEnd(w) \in Nat
      BY <1>1 DEF SeqAtEnd
    <3> QED BY <3>1, <3>2
  <2>4. s \in Worker
    BY <2>3 DEF Worker
  <2>5. /\ s.cur = 0 /\ s.seq = SeqAtEnd(w) /\ s.sess = r.sess /\ s.queue = r.queue
        /\ s.step = "idle"
    BY <1>1, <2>3 DEF Ended, Worker
  <2> HIDE DEF s
  <2>6. CASE ~InRun(w)
    BY <1>1, <1>3, <2>1, <2>4, <2>5, <2>6 DEF SeqAtEnd, FlagFits
  \* The number of a run that ended is no watcher's.
  <2>7. CASE InRun(w)
    <3>1. s.seq = r.seq + 1
      BY <2>5, <2>7 DEF SeqAtEnd
    <3>2. ASSUME NEW x \in watchers, x.worker = w
          PROVE  ~Strikes(x, s)
      <4>1. x.seq \in Nat /\ x.seq <= r.seq
        BY <3>2, WatcherBounds DEF WatcherFits
      <4> QED BY <1>1, <3>1, <4>1 DEF Strikes
    <3>3. /\ s.cur <= Len(kind) /\ s.sess <= sessions' /\ sessions' \in Nat
          /\ sessions <= sessions' /\ r.seq <= s.seq
      BY <1>1, <2>1, <2>5, <3>1
    <3>4. Sent(s.queue) /\ FlagFits(s)
      BY <1>1, <2>5 DEF FlagFits
    <3> QED BY <1>0, <2>1, <2>4, <3>2, <3>3, <3>4, OneWorkerFits
  <2> QED BY <2>6, <2>7
<1>19. CASE Panics(w)
  <2> DEFINE s == [Ended(r, <<"gone">>) EXCEPT !.sess = 0, !.dead = TRUE, !.open = FALSE]
  <2>1. <<"gone">> \in Seq(Events)
    BY DEF Events
  <2>2. Ended(r, <<"gone">>) \in Worker
    BY <1>1, <2>1, WorkerOps
  <2>3. s \in Worker
    BY <2>2 DEF Worker
  <2>4. /\ s.cur = 0 /\ s.seq = r.seq /\ s.sess = 0 /\ s.queue = r.queue
        /\ s.step = "idle"
    BY <1>1, <2>2 DEF Ended, Worker
  <2>5. WorkerStep(w, s) /\ Kept
    BY <1>19 DEF Panics
  <2> HIDE DEF s
  <2> QED BY <1>1, <1>4, <2>3, <2>4, <2>5 DEF FlagFits
<1>20. CASE LetsGo(w)
  <2> DEFINE s == [r EXCEPT !.queue = Tail(@), !.sess = 0, !.dead = TRUE, !.open = FALSE,
                            !.saved = r.open]
  <2>1. WorkerStep(w, s) /\ Kept /\ r.queue # <<>> /\ r.cur = 0
    BY <1>20 DEF LetsGo, Has
  <2>2. Tail(r.queue) \in Seq(Commands \cup {LetGo}) /\ Sent(Tail(r.queue))
    <3>1. /\ Len(r.queue) \in Nat \ {0}
          /\ Tail(r.queue) \in Seq(Commands \cup {LetGo})
          /\ Len(Tail(r.queue)) = Len(r.queue) - 1
      BY <1>1, <2>1
    <3>2. \A i \in 1..Len(Tail(r.queue)) : Tail(r.queue)[i] = r.queue[i + 1]
      BY <1>1, <2>1, <3>1
    <3> QED BY <1>1, <3>1, <3>2 DEF Sent
  <2>3. s \in Worker
    BY <1>1, <2>2 DEF Worker
  <2>4. /\ s.cur = 0 /\ s.seq = r.seq /\ s.sess = 0 /\ s.queue = Tail(r.queue)
        /\ s.flag = r.flag
    BY <1>1, <2>1 DEF Worker
  <2>5. FlagFits(s)
    BY <1>1, <2>4 DEF FlagFits
  <2> HIDE DEF s
  <2> QED BY <1>1, <1>4, <2>1, <2>2, <2>3, <2>4, <2>5
<1>21. CASE ConnectionLost(w)
  <2>1. WorkerStep(w, Broken(r)) /\ Kept
    BY <1>21 DEF ConnectionLost
  <2>2. Broken(r) \in Worker
    BY <1>1, WorkerOps
  <2>3. /\ Broken(r).cur = r.cur /\ Broken(r).step = r.step /\ Broken(r).seq = r.seq
        /\ Broken(r).sess = r.sess /\ Broken(r).queue = r.queue
        /\ Broken(r).flag = r.flag
    BY <1>1 DEF Broken, Worker
  <2> QED BY <1>2, <2>1, <2>2, <2>3
<1> QED BY <1>5, <1>6, <1>7, <1>8, <1>10, <1>11, <1>12, <1>13, <1>14, <1>15, <1>16,
           <1>17, <1>18, <1>19, <1>20, <1>21 DEF WorkerNext

\* A bound of the entries of a queue and of one more bounds the longer queue.
LEMMA AppendBounded ==
  ASSUME NEW S, NEW q \in Seq(S), NEW n, \A i \in 1..Len(q) : q[i] <= n,
         NEW c, c <= n
  PROVE  \A i \in 1..Len(Append(q, c)) : Append(q, c)[i] <= n
<1> SUFFICES ASSUME NEW i \in 1..Len(Append(q, c))
             PROVE  Append(q, c)[i] <= n
  OBVIOUS
<1>1. /\ Len(q) \in Nat /\ Len(Append(q, c)) = Len(q) + 1
      /\ \A j \in 1..Len(q) : Append(q, c)[j] = q[j]
      /\ Append(q, c)[Len(q) + 1] = c
  OBVIOUS
<1>2. i \in 1..Len(q) \/ i = Len(q) + 1
  BY <1>1
<1> QED BY <1>1, <1>2

\* One command more has been sent: what was known stays known.
LEMMA KindGrows ==
  ASSUME IInv, NEW k \in KindNames, kind' = Append(kind, k)
  PROVE  /\ Len(kind)' = Len(kind) + 1
         /\ \A w \in Workers : /\ wk[w].cur <= Len(kind)'
                               /\ wk[w].cur # 0 => kind'[wk[w].cur] = kind[wk[w].cur]
                               /\ \A i \in 1..Len(wk[w].queue) :
                                    wk[w].queue[i] <= Len(kind)'
<1>1. kind \in Seq(KindNames) /\ Len(kind) \in Nat
  BY DEF IInv, TypeOK, KindNames
<1>2. /\ Len(kind') = Len(kind) + 1
      /\ \A i \in 1..Len(kind) : kind'[i] = kind[i]
  BY <1>1
<1>3. ASSUME NEW w \in Workers
      PROVE  /\ wk[w].cur <= Len(kind)'
             /\ wk[w].cur # 0 => kind'[wk[w].cur] = kind[wk[w].cur]
  <2>1. wk[w].cur \in 0..Len(kind)
    BY Bounds
  <2> QED BY <1>1, <1>2, <2>1
<1>4. ASSUME NEW w \in Workers, NEW i \in 1..Len(wk[w].queue)
      PROVE  wk[w].queue[i] <= Len(kind)'
  <2>1. wk[w].queue \in Seq(Commands \cup {LetGo}) /\ Commands \subseteq Nat
    BY Bounds
  <2>2. wk[w].queue[i] \in Nat
    <3>1. wk[w].queue[i] \in Commands \cup {LetGo}
      BY <2>1
    <3>2. CASE wk[w].queue[i] \in Commands
      BY <2>1, <3>2
    <3>3. CASE wk[w].queue[i] = 0
      BY <3>3
    <3> QED BY <3>1, <3>2, <3>3 DEF LetGo
  <2>3. wk[w].queue[i] <= Len(kind)
    BY DEF IInv, Fits, Sent
  <2> QED BY <1>1, <1>2, <2>2, <2>3
<1> QED BY <1>2, <1>3, <1>4

\* The host's steps change queue, flag and events of its worker, no more.
LEMMA HostFits ==
  ASSUME IInv,
         \/ \E k \in Kinds : Send(k)
         \/ Stop \/ ForceStop \/ StopBroken \/ HostReads
  PROVE  Rest'
<1> DEFINE r == wk[mine]
<1>0. /\ mine \in Workers /\ wk \in [Workers -> Worker]
      /\ busy \in {0, Len(kind)} /\ fetching \in {0, Len(kind)} /\ asked \in {0, busy}
  BY DEF IInv, TypeOK, Latest
<1>1. /\ r \in Worker /\ r.cur \in 0..Len(kind) /\ r.sess \in 0..sessions
      /\ r.flag \in Nat /\ Len(kind) \in Nat /\ sessions \in Nat
      /\ r.queue \in Seq(Commands \cup {LetGo}) /\ Commands \subseteq Nat
      /\ Fits(r)
  BY <1>0, Bounds DEF IInv
\* Watchers look at none of it.
<1>2. ASSUME NEW s, wk' = [wk EXCEPT ![mine] = s],
             s.cur = r.cur, s.step = r.step, s.seq = r.seq, s.sess = r.sess,
             UNCHANGED <<sessions, watchers>>,
             kind' = kind \/ \E k \in KindNames : kind' = Append(kind, k)
      PROVE  (\A x \in watchers : WatcherFits(x))'
  <2>1. wk'[mine] = s /\ \A u \in Workers \ {mine} : wk'[u] = wk[u]
    BY <1>0, <1>2
  <2>2. ASSUME NEW x \in watchers
        PROVE  WatcherFits(x)'
    <3>1. x.worker \in Workers /\ WatcherFits(x)
      BY WatcherBounds
    <3>2. wk[x.worker].cur # 0 => kind'[wk[x.worker].cur] = kind[wk[x.worker].cur]
      BY <1>2, <3>1, KindGrows
    <3>3. /\ wk'[x.worker].cur = wk[x.worker].cur /\ wk'[x.worker].step = wk[x.worker].step
          /\ wk'[x.worker].seq = wk[x.worker].seq /\ wk'[x.worker].sess = wk[x.worker].sess
      BY <1>2, <2>1, <3>1
    <3> QED BY <1>2, <3>1, <3>2, <3>3 DEF WatcherFits, Strikes, UnderWay
  <2> QED BY <1>2, <2>2
\* The other workers fit as before.
<1>3. ASSUME NEW s, wk' = [wk EXCEPT ![mine] = s], kind' = kind, sessions' = sessions,
             Fits(s)
      PROVE  (\A w \in Workers : Fits(wk[w]))'
  <2>1. wk'[mine] = s /\ \A u \in Workers \ {mine} : wk'[u] = wk[u]
    BY <1>0, <1>3
  <2>2. \A u \in Workers : Fits(wk'[u])
    BY <2>1, <1>3 DEF IInv
  <2> QED BY <1>3, <2>2 DEF Fits, Sent, FlagFits
<1>4. ASSUME NEW k \in Kinds, Send(k)
      PROVE  Rest'
  <2> DEFINE s == [r EXCEPT !.queue = Append(@, Len(kind'))]
  <2>1. k \in KindNames /\ kind' = Append(kind, k)
    BY <1>4, StopAssumption DEF Send, KindNames
  <2>2. Len(kind)' = Len(kind) + 1
    BY <2>1, KindGrows
  <2>3. wk' = [wk EXCEPT ![mine] = s] /\ UNCHANGED <<sessions, watchers>>
    BY <1>4 DEF Send
  <2>4. /\ s.cur = r.cur /\ s.step = r.step /\ s.seq = r.seq /\ s.sess = r.sess
        /\ s.flag = r.flag /\ s.queue = Append(r.queue, Len(kind'))
    BY <1>1 DEF Worker
  <2> HIDE DEF s
  <2>5. (\A x \in watchers : WatcherFits(x))'
    BY <1>2, <2>1, <2>3, <2>4
  <2>6. busy = 0 /\ fetching = 0
    BY <1>4 DEF Send
  <2>7. Latest'
    BY <1>0, <1>4, <2>6 DEF Send, Latest
  <2>8. ASSUME NEW u \in Workers
        PROVE  Fits(wk[u])'
    <3>1. /\ Fits(wk[u]) /\ wk[u].cur <= Len(kind)' /\ wk[u].cur \in Nat
          /\ wk[u].cur # 0 => kind'[wk[u].cur] = kind[wk[u].cur]
          /\ \A i \in 1..Len(wk[u].queue) : wk[u].queue[i] <= Len(kind)'
          /\ wk[u].flag \in Nat
      BY <2>1, KindGrows, Bounds DEF IInv
    <3>2. ASSUME NEW t, t.flag = wk[u].flag, t.cur = wk[u].cur, t.step = wk[u].step
          PROVE  FlagFits(t)'
      <4>1. CASE t.cur = 0
        BY <3>1, <3>2, <4>1 DEF FlagFits
      <4>2. CASE t.cur # 0
        BY <3>1, <3>2, <4>2 DEF FlagFits, Fits
      <4> QED BY <4>1, <4>2
    <3>3. CASE u # mine
      <4>1. wk'[u] = wk[u]
        BY <1>0, <2>3, <3>3
      <4>2. FlagFits(wk[u])'
        BY <3>1, <4>1 DEF FlagFits, Fits
      <4> QED BY <2>3, <3>1, <4>1, <4>2 DEF Fits, Sent
    <3>4. CASE u = mine
      <4>1. wk'[u] = s
        BY <1>0, <2>3, <3>4
      <4>2. \A i \in 1..Len(s.queue) : s.queue[i] <= Len(kind)'
        <5>1. \A i \in 1..Len(r.queue) : r.queue[i] <= Len(kind')
          BY <3>1, <3>4
        <5>2. Len(kind') <= Len(kind')
          BY <1>1, <2>2
        <5> QED BY <1>1, <2>4, <5>1, <5>2, AppendBounded
      <4>3. FlagFits(wk[u])'
        BY <2>4, <3>1, <3>4, <4>1 DEF FlagFits, Fits
      <4> QED BY <2>3, <2>4, <3>1, <3>4, <4>1, <4>2, <4>3 DEF Fits, Sent
    <3> QED BY <3>3, <3>4
  <2> QED BY <2>5, <2>7, <2>8 DEF Rest
<1>5. CASE Stop
  <2> DEFINE s == [r EXCEPT !.flag = Shown]
  <2>1. wk' = [wk EXCEPT ![mine] = s] /\ UNCHANGED <<kind, busy, fetching, sessions, watchers>>
    BY <1>5 DEF Stop
  <2>2. /\ s.cur = r.cur /\ s.step = r.step /\ s.seq = r.seq /\ s.sess = r.sess
        /\ s.queue = r.queue /\ s.flag = Shown
    BY <1>1 DEF Worker
  <2> HIDE DEF s
  <2>3. Shown = Len(kind)
    BY <1>0, <1>5 DEF Stop, Shown
  <2>4. Fits(s)
    BY <1>1, <2>2, <2>3 DEF Fits, FlagFits
  <2>5. Latest'
    BY <1>0, <1>5, <2>1 DEF Stop, Latest
  <2> QED BY <1>2, <1>3, <2>1, <2>2, <2>4, <2>5 DEF Rest
<1>6. CASE ForceStop \/ StopBroken
  <2> DEFINE s == [r EXCEPT !.queue = Append(@, LetGo)]
  <2>0. Abandon
    BY <1>6 DEF ForceStop, StopBroken
  <2>1. /\ wk' = [wk EXCEPT ![mine] = s] /\ UNCHANGED <<kind, sessions, watchers>>
        /\ busy' = 0 /\ fetching' = 0 /\ asked' = 0
    BY <2>0 DEF Abandon, Unblocked
  <2>2. /\ s.cur = r.cur /\ s.step = r.step /\ s.seq = r.seq /\ s.sess = r.sess
        /\ s.flag = r.flag /\ s.queue = Append(r.queue, LetGo)
    BY <1>1 DEF Worker
  <2> HIDE DEF s
  <2>3. Sent(s.queue)
    <3>1. LetGo <= Len(kind) /\ \A i \in 1..Len(r.queue) : r.queue[i] <= Len(kind)
      BY <1>1 DEF LetGo, Fits, Sent
    <3> QED BY <1>1, <2>2, <3>1, AppendBounded DEF Sent
  <2>4. Fits(s)
    BY <1>1, <2>2, <2>3 DEF Fits, FlagFits
  <2>5. Latest'
    BY <2>1 DEF Latest
  <2> QED BY <1>2, <1>3, <2>1, <2>2, <2>4, <2>5 DEF Rest
<1>7. CASE HostReads
  <2> DEFINE s == [r EXCEPT !.evs = Tail(@)]
  <2>1. wk' = [wk EXCEPT ![mine] = s] /\ UNCHANGED <<kind, sessions, watchers>>
    BY <1>7 DEF HostReads
  <2>2. /\ s.cur = r.cur /\ s.step = r.step /\ s.seq = r.seq /\ s.sess = r.sess
        /\ s.flag = r.flag /\ s.queue = r.queue
    BY <1>1 DEF Worker
  <2> HIDE DEF s
  <2>3. Fits(s)
    BY <1>1, <2>2 DEF Fits, FlagFits
  <2>4. Latest'
    BY <1>0, <1>7 DEF HostReads, Latest, AskedAfter
  <2> QED BY <1>2, <1>3, <2>1, <2>2, <2>3, <2>4 DEF Rest
<1> QED BY <1>4, <1>5, <1>6, <1>7

\* The cancel threads change a connection, no command; a watcher that woke is
\* gone.
LEMMA ThreadFits ==
  ASSUME IInv,
         \/ \E c \in cancels : Deliver(c)
         \/ \E x \in watchers : WatcherWakes(x)
  PROVE  Rest'
<1>1. ASSUME NEW c \in cancels, Deliver(c)
      PROVE  Rest'
  <2> DEFINE w == c.worker
             r == wk[w]
             s == [r EXCEPT !.exec = IF @ = "yes" THEN "cut" ELSE @]
  <2>1. w \in Workers /\ r \in Worker /\ Fits(r) /\ r.sess \in 0..sessions /\ sessions \in Nat
        /\ r.seq \in Nat
    BY Bounds DEF IInv, TypeOK, CancelThread
  <2>2. UNCHANGED hostVars /\ sessions' = sessions /\ watchers' = watchers
    BY <1>1 DEF Deliver
  <2>3. ASSUME NEW t \in Worker, wk' = [wk EXCEPT ![w] = t],
               t.cur = r.cur, t.step = r.step, t.seq = r.seq, t.sess = r.sess,
               t.queue = r.queue, t.flag = r.flag
        PROVE  Rest'
    <3>1. /\ t.cur <= Len(kind) /\ Sent(t.queue) /\ t.sess <= sessions' /\ FlagFits(t)
          /\ r.seq <= t.seq /\ sessions <= sessions' /\ sessions' \in Nat
      BY <2>1, <2>2, <2>3 DEF Fits, FlagFits
    <3>2. WorkerStep(w, t)
      BY <2>2, <2>3 DEF WorkerStep
    <3> QED BY <2>1, <2>2, <2>3, <3>1, <3>2, OneWorkerFits
  <2>4. CASE UNCHANGED wk
    <3>1. wk' = [wk EXCEPT ![w] = r]
      BY <2>1, <2>4 DEF IInv, TypeOK
    <3> QED BY <2>1, <2>3, <3>1
  <2>5. CASE wk' = [wk EXCEPT ![w] = Broken(r)]
    <3>1. /\ Broken(r) \in Worker
          /\ Broken(r).cur = r.cur /\ Broken(r).step = r.step /\ Broken(r).seq = r.seq
          /\ Broken(r).sess = r.sess /\ Broken(r).queue = r.queue
          /\ Broken(r).flag = r.flag
      BY <2>1, WorkerOps DEF Broken, Worker
    <3> QED BY <2>3, <2>5, <3>1
  <2>6. CASE wk' = [wk EXCEPT ![w] = s]
    <3>1. /\ s \in Worker /\ s.cur = r.cur /\ s.step = r.step /\ s.seq = r.seq
          /\ s.sess = r.sess /\ s.queue = r.queue /\ s.flag = r.flag
      BY <2>1 DEF Worker, Execs
    <3> QED BY <2>3, <2>6, <3>1
  <2> QED BY <1>1, <2>4, <2>5, <2>6 DEF Deliver
<1>2. ASSUME NEW x \in watchers, WatcherWakes(x)
      PROVE  Rest'
  <2>1. /\ watchers' \subseteq watchers
        /\ UNCHANGED <<kind, busy, fetching, asked, wk, sessions>>
    BY <1>2 DEF WatcherWakes, hostVars
  <2> QED BY <2>1 DEF IInv, Rest, Latest, Fits, Sent, FlagFits, WatcherFits, Strikes,
          UnderWay
<1> QED BY <1>1, <1>2

\* IInv holds at the start, and every step preserves it.
LEMMA FitsInit == Init => IInv
<1> SUFFICES ASSUME Init PROVE IInv
  OBVIOUS
<1>1. /\ kind = <<>> /\ Len(kind) = 0 /\ busy = 0 /\ fetching = 0 /\ asked = 0
      /\ sessions = 1 /\ watchers = {}
  BY DEF Init
<1>2. ASSUME NEW w \in Workers
      PROVE  Fits(wk[w])
  <2>1. /\ wk[w].cur = 0 /\ wk[w].queue = <<>> /\ wk[w].sess \in {0, 1}
        /\ wk[w].step = "idle"
    BY DEF Init, NewWorker
  <2> QED BY <1>1, <2>1 DEF Fits, Sent, FlagFits
<1> QED BY <1>1, <1>2, TypeInit DEF IInv, Latest

LEMMA FitsStep == IInv /\ [Next]_vars => IInv'
<1> SUFFICES ASSUME IInv, [Next]_vars PROVE IInv'
  OBVIOUS
<1>1. TypeOK'
  BY TypeStep DEF IInv
<1>2. CASE UNCHANGED vars
  <2>1. UNCHANGED <<kind, busy, fetching, asked, wk, sessions, watchers>>
    BY <1>2 DEF vars, hostVars
  <2> QED BY <1>1, <2>1 DEF IInv, Latest, Fits, Sent, FlagFits, WatcherFits, Strikes,
          UnderWay
<1>3. CASE Next
  <2>1. Rest'
    BY <1>3, HostFits, WorkerFits, ThreadFits DEF Next
  <2> QED BY <1>1, <2>1 DEF IInv, Rest
<1> QED BY <1>2, <1>3

(* A statement time-out never asks the server to break off another run     *)
(* than its own, however many runs, panics and reconnects lie in between   *)
(* (run_seq of the worker).                                                *)
THEOREM TimeoutFiresInItsRun == Spec => FiresInItsRun
<1>1. IInv /\ [Next]_vars
        => [\A x \in watchers \ watchers' :
              Fires(x) /\ wk[x.worker].sess = x.to => wk[x.worker].cur = x.meant]_vars
  BY DEF IInv, WatcherFits, Strikes, UnderWay, Fires
<1> QED BY <1>1, FitsInit, FitsStep, PTL DEF Spec, FiresInItsRun

(* A fetch of all rows is ended by no flag older than itself (the worker   *)
(* lowers cancel_flag before it looks at it).                              *)
THEOREM FetchStopsIfAsked == Spec => StopsIfAsked
<1>1. IInv /\ [Next]_vars
        => [\A w \in InUse : StopsAtFlag(w) => wk[w].flag >= wk[w].cur]_vars
  <2> SUFFICES ASSUME IInv, NEW w \in InUse, StopsAtFlag(w)
               PROVE  wk[w].flag >= wk[w].cur
    OBVIOUS
  <2>1. w \in Workers
    BY StopAssumption DEF IInv, TypeOK, InUse, Workers
  <2>2. wk[w].step = "ready" /\ kind[wk[w].cur] = "all" /\ wk[w].flag # 0
    BY DEF StopsAtFlag, Between, FlagSeen, KindOf
  <2> QED BY <2>1, <2>2 DEF IInv, Fits, FlagFits
<1> QED BY <1>1, FitsInit, FitsStep, PTL DEF Spec, StopsIfAsked

(* The second press of the button gives a worker up only for a command     *)
(* that was asked to stop before (run_cancel_requested).                   *)
THEOREM StopIsForcedIfAsked == Spec => ForcesIfAsked
<1>1. IInv /\ [Next]_vars => [ForceStop => asked = busy]_vars
  BY DEF IInv, Latest, ForceStop
<1> QED BY <1>1, FitsInit, FitsStep, PTL DEF Spec, ForcesIfAsked

(* Neither the flag nor the request to stop outlives the command it was    *)
(* for (stop_run, cancel_flag, run_cancel_requested).                      *)
THEOREM StopOutlivesNoCommand == Spec => StopIsForOne
BY FetchStopsIfAsked, StopIsForcedIfAsked DEF StopIsForOne
=============================================================================
