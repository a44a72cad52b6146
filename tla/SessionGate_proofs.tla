------------------------ MODULE SessionGate_proofs ------------------------
(***************************************************************************)
(* Theorems about SessionGate, for every workload, fault set and bound.    *)
(***************************************************************************)
EXTENDS SessionGate, FiniteSetTheorems, FunctionTheorems, SequenceTheorems, TLAPS

USE GateAssumption

-----------------------------------------------------------------------------
(* Type correctness.                                                       *)

\* What is put at the end of a queue or a channel, and what is taken off.
LEMMA Queues ==
  ASSUME NEW S, NEW s \in Seq(S)
  PROVE  /\ \A t \in Seq(S) : s \o t \in Seq(S)
         /\ \A e \in S : Append(s, e) \in Seq(S) /\ s \o <<e>> \in Seq(S)
         /\ \A e, f \in S : s \o <<e, f>> \in Seq(S)
         /\ s # <<>> => Head(s) \in S /\ Tail(s) \in Seq(S)
<1>1. \A t \in Seq(S) : s \o t \in Seq(S)
  BY ConcatProperties
<1>2. \A e, f \in S : <<e>> \in Seq(S) /\ <<e, f>> \in Seq(S)
  OBVIOUS
<1>3. s # <<>> => Head(s) \in S /\ Tail(s) \in Seq(S)
  BY HeadTailProperties
<1> QED BY <1>1, <1>2, <1>3

\* The names the actions use are in their sets.
LEMMA Names ==
  /\ {"run", "tx", "aux", "connect", "quiet", "disconnect"} \subseteq Commands
  /\ {"run", "tx", "connect", "wake", "disconnect"} \subseteq SendsDone
  /\ {"answer", "connected", "failed", "gone"} \subseteq Outcomes
  /\ {"connected", "error", "disconnected"} \subseteq RunEvents
  /\ {"absent", "open", "lost"} \subseteq Sessions
  /\ \A cmd \in Commands : StepsOf(cmd) \in Nat
BY DEF Commands, SendsDone, Outcomes, RunEvents, Sessions, StepsOf, ConnectSteps

\* The commands an operation sends make a queue of commands.
LEMMA Sends ==
  ASSUME TypeOK, NEW cmd \in Commands
  PROVE  /\ queue \o <<cmd>> \in Seq(Commands)
         /\ queue \o Woken \in Seq(Commands)
         /\ queue \o (Woken \o <<cmd>>) \in Seq(Commands)
<1>1. queue \in Seq(Commands) /\ <<cmd>> \in Seq(Commands)
  BY DEF TypeOK
<1>2. "wake" \in Commands
  BY DEF Commands
<1>3. <<>> \in Seq(Commands) /\ <<"wake">> \in Seq(Commands)
  BY <1>2, EmptySeq
<1>4. Woken \in Seq(Commands)
  BY <1>3 DEF Woken
<1>5. Woken \o <<cmd>> \in Seq(Commands)
  BY <1>1, <1>4, Queues
<1> QED BY <1>1, <1>4, <1>5, Queues

\* A new worker has nothing to do and has sent nothing.
LEMMA NewWorkerType ==
  NewWorker => /\ queue' \in Seq(Commands) /\ cur' \in Commands \cup {None}
               /\ left' \in Nat /\ session' \in Sessions
               /\ conn' \in Seq(Outcomes) /\ events' \in Seq(RunEvents)
               /\ done' \in Seq(SendsDone)
BY EmptySeq, Names DEF NewWorker

\* The operations of the user leave the variables in their types.
LEMMA UserType == TypeOK /\ UserNext => TypeOK'
<1> SUFFICES ASSUME TypeOK, UserNext PROVE TypeOK'
  OBVIOUS
<1>0. \A cmd \in Commands :
        /\ queue \o <<cmd>> \in Seq(Commands)
        /\ queue \o Woken \in Seq(Commands)
        /\ queue \o (Woken \o <<cmd>>) \in Seq(Commands)
  BY Sends
<1>1. CASE Run
  <2>1. skip' \in Nat /\ aux' \in Nat BY <1>1 DEF TypeOK, Run, WakeIfIdle
  <2>2. busy' \in BOOLEAN /\ idleClosed' \in BOOLEAN
    BY <1>1 DEF TypeOK, Run, WakeIfIdle
  <2> QED BY <1>1, <1>0, <2>1, <2>2, Names DEF TypeOK, Run, Send, chanVars
<1>2. CASE WakeOnly
  <2>1. skip' \in Nat /\ aux' \in Nat BY <1>2 DEF TypeOK, WakeOnly, WakeIfIdle
  <2>2. busy' \in BOOLEAN /\ idleClosed' \in BOOLEAN
    BY <1>2 DEF TypeOK, WakeOnly, WakeIfIdle
  <2> QED BY <1>2, <1>0, <2>1, <2>2, Names DEF TypeOK, WakeOnly, Send, chanVars
<1>3. CASE Fetch
  <2>1. skip' \in Nat /\ aux' \in Nat BY <1>3 DEF TypeOK, Fetch, WakeIfIdle
  <2>2. busy' \in BOOLEAN /\ idleClosed' \in BOOLEAN
    BY <1>3 DEF TypeOK, Fetch, WakeIfIdle
  <2> QED BY <1>3, <1>0, <2>1, <2>2, Names DEF TypeOK, Fetch, Send, chanVars
<1> USE <1>0, Names DEF TypeOK, Send, hostVars, gateVars, workVars, chanVars
<1>4. CASE Aux BY <1>4 DEF Aux
<1>5. CASE Tx BY <1>5 DEF Tx
<1>6. CASE TxUnmarked BY <1>6 DEF TxUnmarked
<1>7. CASE VarsRefresh BY <1>7 DEF VarsRefresh
<1>8. CASE SetUnit BY <1>8 DEF SetUnit
<1>9. CASE Connect BY <1>9 DEF Connect, ConnectEffect
<1>10. CASE ConnectQueued BY <1>10 DEF ConnectQueued, ConnectEffect
<1>11. CASE IdleClose BY NewWorkerType, <1>11 DEF IdleClose, Abandon
<1>12. CASE ForceStop BY NewWorkerType, <1>12 DEF ForceStop, Abandon
<1>13. CASE Disconnect BY NewWorkerType, <1>13 DEF Disconnect
<1>14. CASE DisconnectPrivate BY NewWorkerType, <1>14 DEF DisconnectPrivate
<1> QED
  BY <1>1, <1>2, <1>3, <1>4, <1>5, <1>6, <1>7, <1>8, <1>9, <1>10, <1>11,
     <1>12, <1>13, <1>14 DEF UserNext

\* So do the steps of the worker.
LEMMA WorkerType == TypeOK /\ WorkerStep => TypeOK'
<1> SUFFICES ASSUME TypeOK, WorkerStep PROVE TypeOK'
  OBVIOUS
<1>0. \A e, f \in RunEvents :
        Append(events, e) \in Seq(RunEvents) /\ events \o <<e, f>> \in Seq(RunEvents)
  BY Queues DEF TypeOK
<1>a. /\ \A c \in SendsDone : Append(done, c) \in Seq(SendsDone)
      /\ \A o \in Outcomes : Append(conn, o) \in Seq(Outcomes)
  BY Queues DEF TypeOK
<1> USE <1>0, <1>a, Names
        DEF TypeOK, Idle, InConnect, EmitsIn, hostVars, gateVars, chanVars
<1>1. CASE Take
  <2>1. Head(queue) \in Commands /\ Tail(queue) \in Seq(Commands)
    BY <1>1, Queues DEF Take
  <2> QED BY <1>1, <2>1 DEF Take
<1>2. CASE StatementFails BY <1>2 DEF StatementFails
<1>3. CASE Relogin
  <2>1. left' \in Nat BY <1>3 DEF Relogin
  <2>2. events' \in Seq(RunEvents) BY <1>3 DEF Relogin
  <2>3. session' \in Sessions BY <1>3 DEF Relogin
  <2> QED BY <1>3, <2>1, <2>2, <2>3 DEF Relogin
<1>4. CASE FinishWork BY <1>4 DEF FinishWork
<1>5. CASE FinishAux BY <1>5 DEF FinishAux
<1>6. CASE FinishQuiet BY <1>6 DEF FinishQuiet
<1>7. CASE ConnectOpened BY <1>7 DEF ConnectOpened
<1>8. CASE ConnectTold BY <1>8 DEF ConnectTold
<1>9. CASE ConnectKept BY <1>9 DEF ConnectKept
<1>10. CASE ConnectRefused BY <1>10 DEF ConnectRefused
<1>11. CASE ConnectDone BY <1>11 DEF ConnectDone
<1>12. CASE FinishDisconnect BY <1>12 DEF FinishDisconnect
<1>13. CASE Panic BY <1>13 DEF Panic
<1> QED
  BY <1>1, <1>2, <1>3, <1>4, <1>5, <1>6, <1>7, <1>8, <1>9, <1>10, <1>11,
     <1>12, <1>13 DEF WorkerStep

\* And the drains of the host.
LEMMA HostType == TypeOK /\ HostNext => TypeOK'
<1> SUFFICES ASSUME TypeOK, HostNext PROVE TypeOK'
  OBVIOUS
<1>0. /\ conn # <<>> => Tail(conn) \in Seq(Outcomes)
      /\ events # <<>> => Tail(events) \in Seq(RunEvents)
      /\ done # <<>> => Tail(done) \in Seq(SendsDone)
  BY Queues DEF TypeOK
<1>a. AuxDone \in Nat BY DEF TypeOK, AuxDone
<1> USE <1>0, <1>a DEF TypeOK, hostVars, gateVars, workVars, chanVars
<1>1. CASE DrainStart BY <1>1 DEF DrainStart
<1>2. CASE NextChannel BY <1>2 DEF NextChannel
<1>3. CASE DrainConn
  <2>1. aux' \in Nat /\ connected' \in BOOLEAN BY <1>3 DEF DrainConn
  <2> QED BY <1>3, <2>1 DEF DrainConn
<1>4. CASE DrainApplied
  <2>1. queue \o (Woken \o <<"run">>) \in Seq(Commands)
    BY Sends, Names
  <2>2. skip' \in Nat BY <1>4 DEF DrainApplied, WakeIfIdle
  <2> QED BY <1>4, <2>1, <2>2 DEF DrainApplied, WakeIfIdle, Send
<1>5. CASE DrainEvent BY <1>5 DEF DrainEvent
<1>6. CASE DrainDone
  <2>1. skip' \in Nat BY <1>6 DEF DrainDone
  <2>2. busy' \in BOOLEAN BY <1>6 DEF DrainDone
  <2> QED BY <1>6, <2>1, <2>2 DEF DrainDone
<1> QED
  BY <1>1, <1>2, <1>3, <1>4, <1>5, <1>6 DEF HostNext

\* Every variable of the gate, the worker and the channels keeps its type.
THEOREM TypeCorrect == Spec => []TypeOK
<1>1. Init => TypeOK
  <2> SUFFICES ASSUME Init PROVE TypeOK
    OBVIOUS
  <2>1. queue \in Seq(Commands) /\ conn \in Seq(Outcomes)
    BY EmptySeq DEF Init
  <2>2. events \in Seq(RunEvents) /\ done \in Seq(SendsDone)
    BY EmptySeq DEF Init
  <2>3. session \in Sessions /\ cur \in Commands \cup {None}
    BY Names DEF Init
  <2>4. busy \in BOOLEAN /\ aux \in Nat /\ skip \in Nat /\ left \in Nat
    BY DEF Init
  <2>5. connected \in BOOLEAN /\ idleClosed \in BOOLEAN /\ phase = "idle"
    BY DEF Init
  <2> QED BY <2>1, <2>2, <2>3, <2>4, <2>5 DEF TypeOK
<1>2. TypeOK /\ [Next]_vars => TypeOK'
  <2>1. TypeOK /\ UNCHANGED vars => TypeOK'
    BY DEF TypeOK, vars, hostVars, workVars, chanVars
  <2> QED
    BY <2>1, UserType, WorkerType, HostType DEF Next, WorkerNext
<1> QED
  BY <1>1, <1>2, PTL DEF Spec

-----------------------------------------------------------------------------
(* The skip counter.                                                       *)

\* skip_done counts at most one reconnect, and none once the session has been
\* closed for idleness, whatever the user does and whatever fails: wake_if_idle
\* raises it only where idle_closed is set, and clears that flag with it.
THEOREM SkipBounded == Spec => []SkipAtMostOne
<1> DEFINE Inv == TypeOK /\ SkipAtMostOne
<1>1. Init => SkipAtMostOne
  BY DEF Init, SkipAtMostOne
<1>2. Inv /\ [Next]_vars => SkipAtMostOne'
  <2> SUFFICES ASSUME Inv, [Next]_vars PROVE SkipAtMostOne'
    OBVIOUS
  <2> USE DEF SkipAtMostOne, TypeOK
  <2>1. CASE WakeIfIdle
    BY <2>1 DEF WakeIfIdle
  <2>2. CASE Abandon
    BY <2>2 DEF Abandon
  <2>3. CASE UNCHANGED skip /\ (idleClosed' = idleClosed \/ idleClosed' = FALSE)
    BY <2>3
  <2>4. CASE DrainDone
    <3>1. skip' <= 1
      BY <2>4 DEF DrainDone
    <3>2. idleClosed' => skip' = 0
      BY <2>4 DEF DrainDone
    <3> QED BY <3>1, <3>2
  <2>5. CASE UserNext
    <3>1. \/ WakeIfIdle \/ Abandon
          \/ UNCHANGED skip /\ (idleClosed' = idleClosed \/ idleClosed' = FALSE)
      BY <2>5 DEF UserNext, Run, WakeOnly, Fetch, Aux, Tx, TxUnmarked,
         VarsRefresh, SetUnit, Connect, ConnectQueued, ConnectEffect, IdleClose,
         ForceStop, Disconnect, DisconnectPrivate, gateVars
    <3> QED BY <3>1, <2>1, <2>2, <2>3
  <2>6. CASE WorkerNext
    <3>1. UNCHANGED <<skip, idleClosed>>
      BY <2>6 DEF WorkerNext, WorkerStep, Take, StatementFails, Relogin,
         EmitsIn, FinishWork, FinishAux, FinishQuiet, ConnectOpened,
         ConnectTold, ConnectKept, ConnectRefused, ConnectDone,
         FinishDisconnect, Panic, Idle, hostVars
    <3> QED BY <3>1, <2>3
  <2>7. CASE HostNext
    <3>1. \/ WakeIfIdle \/ DrainDone
          \/ UNCHANGED skip /\ (idleClosed' = idleClosed \/ idleClosed' = FALSE)
      BY <2>7 DEF HostNext, DrainStart, NextChannel, DrainConn, DrainApplied,
         DrainEvent, gateVars
    <3> QED BY <3>1, <2>1, <2>3, <2>4
  <2>8. CASE UNCHANGED vars
    BY <2>8 DEF vars, hostVars
  <2> QED BY <2>5, <2>6, <2>7, <2>8 DEF Next
<1> QED BY <1>1, <1>2, TypeCorrect, PTL DEF Spec

-----------------------------------------------------------------------------
(* One operation at a time, on a session that is never closed for idleness *)
(* and where no statement fails.                                           *)

PlainOps == {"run", "fetch", "aux", "requery", "tx", "disconnect"}
Work     == {"run", "tx", "aux"}

\* The gate of a session whose one operation under way is c.
Shut(c) == IF c = "aux" THEN busy = FALSE /\ aux = 1 ELSE busy = TRUE /\ aux = 0

\* The operation passes through four states; nothing else is anywhere.
Free    == /\ queue = <<>> /\ cur = None /\ conn = <<>> /\ done = <<>>
           /\ busy = FALSE /\ aux = 0
Sent(c) == queue = <<c>> /\ cur = None /\ conn = <<>> /\ done = <<>> /\ Shut(c)
Held(c) == queue = <<>> /\ cur = c /\ conn = <<>> /\ done = <<>> /\ Shut(c)
Told(c) == /\ queue = <<>> /\ cur = None /\ Shut(c)
           /\ conn = IF c = "aux" THEN <<"answer">> ELSE <<>>
           /\ done = IF c = "aux" THEN <<>> ELSE <<c>>

PlainInv ==
  /\ events = <<>> /\ skip = 0 /\ idleClosed = FALSE
  /\ Free \/ \E c \in Work : Sent(c) \/ Held(c) \/ Told(c)

\* The moves of the operation, one for each kind of step.
Accepted == Free /\ \E c \in Work : Sent(c)'
Took     == \E c \in Work : Sent(c) /\ Held(c)'
Ended    == \E c \in Work : Held(c) /\ Told(c)'
Opened   == (\E c \in Work : Told(c)) /\ Free'
Again    == Told("aux") /\ Sent("run")'
Stayed   == UNCHANGED <<queue, cur, conn, done, busy, aux>>
Moves    == Accepted \/ Took \/ Ended \/ Opened \/ Again \/ Stayed \/ Free'

\* Short sequences.
LEMMA Shorts ==
  /\ \A c : Head(<<c>>) = c /\ Tail(<<c>>) = <<>> /\ <<c>> # <<>>
  /\ \A c : <<>> \o <<c>> = <<c>> /\ Append(<<>>, c) = <<c>>
OBVIOUS

\* A user operation finds the gate open and puts one command in the queue, or
\* throws the worker away.
LEMMA PlainUser ==
  ASSUME Ops \subseteq PlainOps, PlainInv, UserNext
  PROVE  /\ events' = <<>> /\ skip' = 0 /\ idleClosed' = FALSE
         /\ Accepted \/ Free'
<1>0. ~Blocked => Free
  <2>1. ASSUME NEW c \in Work, Shut(c) PROVE Blocked
    <3>1. CASE c = "aux" BY <2>1, <3>1 DEF Shut, Blocked
    <3>2. CASE c # "aux" BY <2>1, <3>2 DEF Shut, Blocked
    <3> QED BY <3>1, <3>2
  <2> QED BY <2>1 DEF PlainInv, Sent, Held, Told
<1>a. \A c : queue = <<>> => /\ queue \o <<c>> = <<c>>
                            /\ queue \o (Woken \o <<c>>) = <<c>>
  <2>1. Woken = <<>> BY DEF PlainInv, Woken
  <2> QED BY <2>1, Shorts
<1>b. events = <<>> /\ skip = 0 /\ idleClosed = FALSE
  BY DEF PlainInv
<1> USE <1>0, <1>a, <1>b DEF Free, Sent, Shut, Send, WakeIfIdle, chanVars, gateVars
<1>1. CASE Run
  <2>1. Sent("run")' BY <1>1 DEF Run
  <2> QED BY <1>1, <2>1 DEF Run, Accepted, Work
<1>2. CASE Fetch
  <2>1. Sent("aux")' BY <1>2 DEF Fetch
  <2> QED BY <1>2, <2>1 DEF Fetch, Accepted, Work
<1>3. CASE Aux
  <2>1. Sent("aux")' BY <1>3 DEF Aux
  <2> QED BY <1>3, <2>1 DEF Aux, Accepted, Work
<1>4. CASE Tx
  <2>1. Sent("tx")' BY <1>4 DEF Tx
  <2> QED BY <1>4, <2>1 DEF Tx, Accepted, Work
<1>5. CASE Disconnect
  BY <1>5 DEF Disconnect, NewWorker
<1>6. ~(WakeOnly \/ TxUnmarked \/ VarsRefresh \/ SetUnit \/ Connect
          \/ ConnectQueued \/ IdleClose \/ ForceStop \/ DisconnectPrivate)
  BY DEF WakeOnly, TxUnmarked, VarsRefresh, SetUnit, Connect, ConnectQueued,
     IdleClose, ForceStop, DisconnectPrivate, User, PlainOps
<1> QED BY <1>1, <1>2, <1>3, <1>4, <1>5, <1>6 DEF UserNext

\* The worker takes the command and ends it with its one answer.
LEMMA PlainWorker ==
  ASSUME Faults = {}, PlainInv, WorkerStep
  PROVE  /\ events' = <<>> /\ skip' = 0 /\ idleClosed' = FALSE
         /\ Took \/ Ended
<1> USE Shorts DEF PlainInv, Free, Sent, Held, Told, Shut, Idle, hostVars,
      chanVars, Work
<1>1. CASE Take
  <2>1. PICK c \in Work : Sent(c) BY <1>1 DEF Take, None
  <2>2. Held(c)' BY <1>1, <2>1 DEF Take
  <2> QED BY <1>1, <2>1, <2>2 DEF Take, Took
<1>2. CASE FinishWork
  <2>1. PICK c \in Work : Held(c) /\ c # "aux" BY <1>2 DEF FinishWork, None
  <2>2. Told(c)' BY <1>2, <2>1 DEF FinishWork
  <2> QED BY <1>2, <2>1, <2>2 DEF FinishWork, Ended
<1>3. CASE FinishAux
  <2>1. Held("aux") BY <1>3 DEF FinishAux, None
  <2>2. Told("aux")' BY <1>3, <2>1 DEF FinishAux
  <2> QED BY <1>3, <2>1, <2>2 DEF FinishAux, Ended
<1>4. ~(StatementFails \/ Relogin \/ ConnectRefused \/ Panic)
  BY DEF StatementFails, Relogin, EmitsIn, ConnectRefused, Panic
<1>5. ~(FinishQuiet \/ ConnectOpened \/ ConnectTold \/ ConnectKept
          \/ ConnectDone \/ FinishDisconnect)
  BY DEF FinishQuiet, ConnectOpened, ConnectTold, ConnectKept, ConnectDone,
     InConnect, FinishDisconnect, None
<1> QED BY <1>1, <1>2, <1>3, <1>4, <1>5 DEF WorkerStep

\* A drain opens the gate on the one answer, or starts the query again.
LEMMA PlainHost ==
  ASSUME PlainInv, HostNext
  PROVE  /\ events' = <<>> /\ skip' = 0 /\ idleClosed' = FALSE
         /\ Opened \/ Again \/ Stayed
<1> USE Shorts DEF PlainInv, Free, Sent, Held, Told, Shut, Work,
      gateVars, workVars, chanVars, AuxDone
<1>1. CASE DrainStart BY <1>1 DEF DrainStart, Stayed
<1>2. CASE NextChannel BY <1>2 DEF NextChannel, Stayed
<1>3. CASE DrainConn
  <2>1. Told("aux") BY <1>3 DEF DrainConn
  <2>2. conn' = <<>> /\ aux' = 0 /\ busy' = FALSE BY <1>3, <2>1 DEF DrainConn
  <2>3. Free' BY <1>3, <2>1, <2>2 DEF DrainConn
  <2> QED BY <1>3, <2>1, <2>3 DEF DrainConn, Opened
<1>4. CASE DrainApplied
  <2>1. Told("aux") BY <1>4 DEF DrainApplied
  <2>2. Woken \o <<"run">> = <<"run">> BY <2>1 DEF Woken
  <2>3. queue \o (Woken \o <<"run">>) = <<"run">> BY <2>1, <2>2
  <2>4. Sent("run")' BY <1>4, <2>1, <2>3 DEF DrainApplied, WakeIfIdle, Send
  <2> QED BY <1>4, <2>1, <2>4 DEF DrainApplied, WakeIfIdle, Again
<1>5. CASE DrainEvent BY <1>5 DEF DrainEvent
<1>6. CASE DrainDone
  <2>1. PICK c \in Work : Told(c) /\ c # "aux" BY <1>6 DEF DrainDone
  <2>2. Free' BY <1>6, <2>1 DEF DrainDone
  <2> QED BY <1>6, <2>1, <2>2 DEF DrainDone, Opened
<1> QED BY <1>1, <1>2, <1>3, <1>4, <1>5, <1>6 DEF HostNext

\* Every step keeps the invariant and is one of the moves.
LEMMA PlainStep ==
  ASSUME Ops \subseteq PlainOps, Faults = {}, PlainInv, [Next]_vars
  PROVE  PlainInv' /\ Moves
<1>1. /\ events' = <<>> /\ skip' = 0 /\ idleClosed' = FALSE
      /\ Moves
  <2>1. CASE UserNext BY <2>1, PlainUser DEF Moves
  <2>2. CASE WorkerNext BY <2>2, PlainWorker DEF WorkerNext, Moves
  <2>3. CASE HostNext BY <2>3, PlainHost DEF Moves
  <2>4. CASE UNCHANGED vars
    BY <2>4 DEF vars, hostVars, workVars, chanVars, Stayed, Moves, PlainInv
  <2> QED BY <2>1, <2>2, <2>3, <2>4 DEF Next
<1>2. Moves => Free' \/ \E c \in Work : Sent(c)' \/ Held(c)' \/ Told(c)'
  <2>1. Stayed => Free' \/ \E c \in Work : Sent(c)' \/ Held(c)' \/ Told(c)'
    BY DEF Stayed, PlainInv, Free, Sent, Held, Told, Shut
  <2>2. "run" \in Work BY DEF Work
  <2> QED BY <2>1, <2>2 DEF Moves, Accepted, Took, Ended, Opened, Again
<1> QED BY <1>1, <1>2 DEF PlainInv

\* A count over a pipeline of at most one command.
LEMMA CountShort ==
  ASSUME NEW set, NEW c
  PROVE  /\ Count(<<>>, set) = 0
         /\ c \in set => Count(<<c>>, set) = 1
<1>1. {i \in DOMAIN <<>> : <<>>[i] \in set} = {}
  OBVIOUS
<1>2. c \in set => {i \in DOMAIN <<c>> : <<c>>[i] \in set} = {1}
  OBVIOUS
<1> QED BY <1>1, <1>2, FS_EmptySet, FS_Singleton DEF Count

\* What the four states of the operation show of the gate and the pipeline.
LEMMA Shown ==
  /\ Free => InFlight = <<>> /\ ~Blocked
  /\ \A c \in Work : /\ Sent(c) \/ Held(c) => InFlight = <<c>> /\ Blocked
                     /\ Told(c) => InFlight = <<>> /\ Blocked
<1>1. \A c \in Work : Shut(c) => Blocked
  <2> SUFFICES ASSUME NEW c \in Work, Shut(c) PROVE Blocked
    OBVIOUS
  <2>1. CASE c = "aux" BY <2>1 DEF Shut, Blocked
  <2>2. CASE c # "aux" BY <2>2 DEF Shut, Blocked
  <2> QED BY <2>1, <2>2
<1>2. Free => InFlight = <<>> /\ ~Blocked
  <2>1. <<>> \o <<>> = <<>> OBVIOUS
  <2> QED BY <2>1 DEF Free, InFlight, Taken, Blocked
<1>3. \A c \in Work : c # None /\ <<c>> \o <<>> = <<c>> /\ <<>> \o <<c>> = <<c>>
  BY DEF Work, None
<1>4. \A c \in Work : Sent(c) \/ Held(c) => InFlight = <<c>>
  BY <1>3 DEF Sent, Held, InFlight, Taken
<1>5. \A c \in Work : Told(c) => InFlight = <<>>
  BY DEF Told, InFlight, Taken
<1> QED BY <1>1, <1>2, <1>4, <1>5 DEF Sent, Held, Told

\* One operation at a time: the header of sessions.rs, for a session that keeps
\* its connection and whose statements succeed, in any interleaving of the
\* host, the worker and the three channels.
THEOREM PlainOneInFlight ==
  ASSUME Ops \subseteq PlainOps, Faults = {}
  PROVE  Spec => []OneInFlight
<1>1. Init => PlainInv
  BY DEF Init, PlainInv, Free
<1>2. PlainInv /\ [Next]_vars => PlainInv'
  BY PlainStep
<1>3. PlainInv => OneInFlight
  <2> SUFFICES ASSUME PlainInv PROVE OneInFlight
    OBVIOUS
  <2>1. InFlight = <<>> \/ \E c \in Work : InFlight = <<c>>
    BY Shown DEF PlainInv
  <2>2. Work = {"run", "tx", "aux"}
    BY DEF Work
  <2>3. CASE InFlight = <<>>
    <3>1. Count(InFlight, Work) = 0 BY <2>3, CountShort
    <3> QED BY <2>2, <3>1 DEF OneInFlight
  <2>4. CASE \E c \in Work : InFlight = <<c>>
    <3>1. PICK c \in Work : InFlight = <<c>> BY <2>4
    <3>2. Count(InFlight, Work) = 1 BY <3>1, CountShort
    <3> QED BY <2>2, <3>2 DEF OneInFlight
  <2> QED BY <2>1, <2>3, <2>4
<1> QED BY <1>1, <1>2, <1>3, PTL DEF Spec

\* What the abstract gate sees of the four states.
GateView ==
  /\ Free => Open = TRUE /\ Working = FALSE
  /\ \A c \in Work : /\ Sent(c) => Open = FALSE /\ Working = TRUE
                     /\ Held(c) => Open = FALSE /\ Working = TRUE
                     /\ Told(c) => Open = FALSE /\ Working = FALSE

LEMMA Viewed == GateView
<1> DEFINE All == {"run", "tx", "aux", "connect", "wake"}
<1>1. InFlight = <<>> => Working = FALSE
  <2>1. Count(<<>>, All) = 0 BY CountShort
  <2> QED BY <2>1 DEF Working
<1>2. \A c \in Work : InFlight = <<c>> => Working = TRUE
  <2> SUFFICES ASSUME NEW c \in Work, InFlight = <<c>> PROVE Working = TRUE
    OBVIOUS
  <2>1. Count(<<c>>, All) = 1 BY CountShort DEF Work
  <2> QED BY <2>1 DEF Working
<1>3. (Blocked => Open = FALSE) /\ (~Blocked => Open = TRUE)
  BY DEF Open
<1> QED BY <1>1, <1>2, <1>3, Shown DEF GateView

\* On the same session the gate implements OneOpGate: it opens only once what
\* was accepted is over, or the worker is thrown away.
THEOREM PlainGate ==
  ASSUME Ops \subseteq PlainOps, Faults = {}
  PROVE  Spec => GatePromise
<1>1. GateView
  BY Viewed
<1>2. GateView'
  BY <1>1, PTL
<1>3. Init => PlainInv
  BY DEF Init, PlainInv, Free
<1>4. PlainInv /\ [Next]_vars => PlainInv'
  BY PlainStep
<1>5. Init => Abstract!Init
  BY <1>1 DEF Init, Free, GateView, Abstract!Init
<1>6. PlainInv /\ [Next]_vars => [Abstract!Next]_<<Open, Working>>
  <2> SUFFICES ASSUME PlainInv, [Next]_vars
               PROVE  [Abstract!Next]_<<Open, Working>>
    OBVIOUS
  <2>0. Moves /\ "run" \in Work /\ "aux" \in Work
    BY PlainStep DEF Work
  <2> USE <1>1, <1>2 DEF GateView
  <2>1. CASE Accepted
    BY <2>1 DEF Accepted, Abstract!Next, Abstract!Accept
  <2>2. CASE Took
    <3>1. Open = FALSE /\ Working = TRUE BY <2>2 DEF Took
    <3>2. Open' = FALSE /\ Working' = TRUE BY <2>2 DEF Took
    <3> QED BY <3>1, <3>2
  <2>3. CASE Ended
    <3>1. Open = FALSE /\ Working = TRUE BY <2>3 DEF Ended
    <3>2. Open' = FALSE /\ Working' = FALSE BY <2>3 DEF Ended
    <3> QED BY <3>1, <3>2 DEF Abstract!Next, Abstract!Finish
  <2>4. CASE Opened
    BY <2>4 DEF Opened, Abstract!Next, Abstract!Release
  <2>5. CASE Again
    <3>1. Open = FALSE /\ Working = FALSE BY <2>0, <2>5 DEF Again
    <3>2. Open' = FALSE /\ Working' = TRUE BY <2>0, <2>5 DEF Again
    <3> QED BY <3>1, <3>2 DEF Abstract!Next, Abstract!Renew
  <2>6. CASE Stayed
    BY <2>6 DEF Stayed, Open, Blocked, Working, InFlight, Taken
  <2>7. CASE Free'
    BY <2>7 DEF Abstract!Next, Abstract!Reset
  <2> QED BY <2>0, <2>1, <2>2, <2>3, <2>4, <2>5, <2>6, <2>7 DEF Moves
<1> QED BY <1>3, <1>4, <1>5, <1>6, PTL DEF Spec, GatePromise, Abstract!Spec
-----------------------------------------------------------------------------
(* The counter of auxiliary work.                                          *)

\* A count over two sequences is the sum of their counts.
LEMMA CountConcat ==
  ASSUME NEW S, NEW s \in Seq(S), NEW t \in Seq(S), NEW set
  PROVE  /\ Count(s, set) \in Nat
         /\ Count(s \o t, set) = Count(s, set) + Count(t, set)
<1> DEFINE I == {i \in DOMAIN s : s[i] \in set}
           J == {j \in DOMAIN t : t[j] \in set}
           K == {Len(s) + j : j \in J}
           f == [j \in J |-> Len(s) + j]
<1>1. /\ DOMAIN s = 1..Len(s) /\ DOMAIN t = 1..Len(t)
      /\ Len(s) \in Nat /\ Len(t) \in Nat
  OBVIOUS
<1>2. IsFiniteSet(I) /\ IsFiniteSet(J)
  <2>1. IsFiniteSet(1..Len(s)) /\ IsFiniteSet(1..Len(t))
    BY <1>1, FS_Interval
  <2> QED BY <1>1, <2>1, FS_Subset
<1>3. f \in Bijection(J, K)
  <2>1. f \in [J -> K]
    OBVIOUS
  <2>2. \A a, b \in J : f[a] = f[b] => a = b
    BY <1>1
  <2>3. \A k \in K : \E j \in J : f[j] = k
    OBVIOUS
  <2> QED BY <2>1, <2>2, <2>3, Fun_IsBij
<1>4. IsFiniteSet(K) /\ Cardinality(K) = Cardinality(J)
  BY <1>2, <1>3, FS_Bijection DEF ExistsBijection
<1>5. {i \in DOMAIN (s \o t) : (s \o t)[i] \in set} = I \cup K
  <2>1. /\ DOMAIN (s \o t) = 1..(Len(s) + Len(t))
        /\ \A i \in 1..Len(s) : (s \o t)[i] = s[i]
        /\ \A j \in 1..Len(t) : (s \o t)[Len(s) + j] = t[j]
    BY <1>1
  <2>2. \A i \in 1..(Len(s) + Len(t)) :
          i \in 1..Len(s) \/ (i - Len(s) \in 1..Len(t) /\ i = Len(s) + (i - Len(s)))
    BY <1>1
  <2>3. \A j \in 1..Len(t) : Len(s) + j \in 1..(Len(s) + Len(t))
                             /\ Len(s) + j \notin 1..Len(s)
    BY <1>1
  <2>4. 1..Len(s) \subseteq 1..(Len(s) + Len(t))
    BY <1>1
  <2> QED BY <1>1, <2>1, <2>2, <2>3, <2>4
<1>6. I \cap K = {}
  BY <1>1
<1>7. Cardinality(I \cup K) = Cardinality(I) + Cardinality(K)
  <2>1. /\ Cardinality(I) \in Nat /\ Cardinality(J) \in Nat /\ Cardinality(I \cap K) = 0
        /\ Cardinality(I \cup K)
             = Cardinality(I) + Cardinality(K) - Cardinality(I \cap K)
    BY <1>2, <1>4, <1>6, FS_CardinalityType, FS_EmptySet, FS_Union
  <2> QED BY <1>4, <2>1
<1>8. Cardinality(I) \in Nat
  BY <1>2, FS_CardinalityType
<1> QED BY <1>4, <1>5, <1>7, <1>8 DEF Count

\* A count over one entry.
LEMMA CountOne ==
  ASSUME NEW e, NEW set
  PROVE  Count(<<e>>, set) = IF e \in set THEN 1 ELSE 0
<1>1. CASE e \in set
  BY <1>1, CountShort
<1>2. CASE e \notin set
  <2>1. {i \in DOMAIN <<e>> : <<e>>[i] \in set} = {}
    BY <1>2
  <2> QED BY <1>2, <2>1, FS_EmptySet DEF Count
<1> QED BY <1>1, <1>2

\* A count over one more entry at the end, or one less at the front.
LEMMA CountEntry ==
  ASSUME NEW S, NEW s \in Seq(S), NEW e \in S, NEW set
  PROVE  /\ Count(s, set) \in Nat
         /\ Count(Append(s, e), set) = Count(s, set) + Count(<<e>>, set)
         /\ s # <<>> => Count(s, set) = Count(<<Head(s)>>, set) + Count(Tail(s), set)
<1>1. <<e>> \in Seq(S) /\ Append(s, e) = s \o <<e>>
  OBVIOUS
<1>2. ASSUME s # <<>>
      PROVE  Count(s, set) = Count(<<Head(s)>>, set) + Count(Tail(s), set)
  <2>1. <<Head(s)>> \in Seq(S) /\ Tail(s) \in Seq(S)
    BY <1>2
  <2>2. s = <<Head(s)>> \o Tail(s)
    BY <1>2
  <2>3. Count(<<Head(s)>> \o Tail(s), set)
          = Count(<<Head(s)>>, set) + Count(Tail(s), set)
    BY <2>1, CountConcat
  <2> QED BY <2>2, <2>3, Zenon
<1>3. /\ Count(s, set) \in Nat
      /\ Count(s \o <<e>>, set) = Count(s, set) + Count(<<e>>, set)
  BY <1>1, CountConcat
<1> QED BY <1>1, <1>2, <1>3, Zenon

AuxOf(s)  == Count(s, {"aux"})
AnswersOf(s) == Count(s, {"answer"})

\* Auxiliary commands of two sequences, and of one command.
LEMMA AuxSum ==
  /\ \A s, t \in Seq(Commands) : AuxOf(s \o t) = AuxOf(s) + AuxOf(t)
  /\ \A s \in Seq(Commands) :
       /\ AuxOf(s) \in Nat
       /\ s # <<>> => AuxOf(s) = AuxOf(<<Head(s)>>) + AuxOf(Tail(s))
  /\ \A c \in Commands : AuxOf(<<c>>) = IF c = "aux" THEN 1 ELSE 0
<1>1. ASSUME NEW s \in Seq(Commands), NEW t \in Seq(Commands)
      PROVE  AuxOf(s) \in Nat /\ AuxOf(s \o t) = AuxOf(s) + AuxOf(t)
  BY CountConcat DEF AuxOf
<1>2. ASSUME NEW c \in Commands
      PROVE  AuxOf(<<c>>) = IF c = "aux" THEN 1 ELSE 0
  <2>1. Count(<<c>>, {"aux"}) = IF c \in {"aux"} THEN 1 ELSE 0
    BY CountOne
  <2> QED BY <2>1 DEF AuxOf
<1>3. ASSUME NEW s \in Seq(Commands), s # <<>>
      PROVE  AuxOf(s) = AuxOf(<<Head(s)>>) + AuxOf(Tail(s))
  <2>1. "aux" \in Commands
    BY Names
  <2> QED BY <1>3, <2>1, CountEntry DEF AuxOf
<1> QED BY <1>1, <1>2, <1>3, Zenon

\* Answers of a sequence with one more at the end, or one less at the front.
LEMMA AnswersSum ==
  /\ \A s \in Seq(Outcomes), o \in Outcomes :
       AnswersOf(Append(s, o)) = AnswersOf(s) + AnswersOf(<<o>>)
  /\ \A s \in Seq(Outcomes) :
       /\ AnswersOf(s) \in Nat
       /\ s # <<>> => AnswersOf(s) = AnswersOf(<<Head(s)>>) + AnswersOf(Tail(s))
  /\ \A o \in Outcomes : AnswersOf(<<o>>) = IF o = "answer" THEN 1 ELSE 0
<1>1. ASSUME NEW s \in Seq(Outcomes), NEW o \in Outcomes
      PROVE  /\ AnswersOf(Append(s, o)) = AnswersOf(s) + AnswersOf(<<o>>)
             /\ AnswersOf(s) \in Nat
             /\ s # <<>> => AnswersOf(s) = AnswersOf(<<Head(s)>>) + AnswersOf(Tail(s))
  BY CountEntry DEF AnswersOf
<1>2. ASSUME NEW o \in Outcomes
      PROVE  AnswersOf(<<o>>) = IF o = "answer" THEN 1 ELSE 0
  <2>1. Count(<<o>>, {"answer"}) = IF o \in {"answer"} THEN 1 ELSE 0
    BY CountOne
  <2> QED BY <2>1 DEF AnswersOf
<1>3. "answer" \in Outcomes
  BY Names
<1>4. ASSUME NEW s \in Seq(Outcomes)
      PROVE  /\ AnswersOf(s) \in Nat
             /\ s # <<>> => AnswersOf(s) = AnswersOf(<<Head(s)>>) + AnswersOf(Tail(s))
  BY <1>1, <1>3
<1> QED BY <1>1, <1>2, <1>4, Zenon

\* The auxiliary work in flight is that taken and that in the queue.
LEMMA FlightParts ==
  ASSUME TypeOK
  PROVE  /\ AuxOf(InFlight) = (IF cur = "aux" THEN 1 ELSE 0) + AuxOf(queue)
         /\ AuxOf(queue) \in Nat /\ AnswersOf(conn) \in Nat
<1>1. queue \in Seq(Commands) /\ conn \in Seq(Outcomes) /\ cur \in Commands \cup {None}
  BY DEF TypeOK
<1>2. AuxOf(queue) \in Nat /\ AnswersOf(conn) \in Nat
  BY <1>1, AuxSum, AnswersSum
<1>3. CASE cur = None
  <2>1. InFlight = queue /\ cur # "aux"
    BY <1>1, <1>3 DEF InFlight, Taken, None
  <2>2. AuxOf(InFlight) = AuxOf(queue)
    BY <2>1
  <2> QED BY <1>2, <2>1, <2>2
<1>4. CASE cur # None
  <2>1. InFlight = <<cur>> \o queue /\ cur \in Commands /\ <<cur>> \in Seq(Commands)
    BY <1>1, <1>4 DEF InFlight, Taken
  <2>2. AuxOf(<<cur>> \o queue) = AuxOf(<<cur>>) + AuxOf(queue)
    BY <1>1, <2>1, AuxSum
  <2>3. AuxOf(<<cur>>) = IF cur = "aux" THEN 1 ELSE 0
    BY <2>1, AuxSum
  <2>4. AuxOf(InFlight) = AuxOf(<<cur>>) + AuxOf(queue)
    BY <2>1, <2>2, Zenon
  <2> QED BY <1>2, <2>3, <2>4
<1> QED BY <1>2, <1>3, <1>4

\* What an operation sends counts as one piece of auxiliary work, or none.
LEMMA SentAux ==
  ASSUME TypeOK, NEW cmd \in Commands
  PROVE  /\ AuxOf(queue \o <<cmd>>) = AuxOf(queue) + (IF cmd = "aux" THEN 1 ELSE 0)
         /\ AuxOf(queue \o Woken) = AuxOf(queue)
         /\ AuxOf(queue \o (Woken \o <<cmd>>))
              = AuxOf(queue) + (IF cmd = "aux" THEN 1 ELSE 0)
<1>1. /\ queue \in Seq(Commands) /\ <<cmd>> \in Seq(Commands)
      /\ "wake" \in Commands /\ "wake" # "aux"
  BY DEF TypeOK, Commands
<1>2. Woken \in Seq(Commands) /\ AuxOf(Woken) = 0
  <2>1. <<>> \in Seq(Commands) /\ <<"wake">> \in Seq(Commands)
    BY <1>1, EmptySeq
  <2>2. AuxOf(<<>>) = 0
    BY CountShort DEF AuxOf
  <2>3. AuxOf(<<"wake">>) = 0
    BY <1>1, AuxSum
  <2> QED BY <2>1, <2>2, <2>3 DEF Woken
<1>3. AuxOf(<<cmd>>) = IF cmd = "aux" THEN 1 ELSE 0
  BY AuxSum
<1>4. Woken \o <<cmd>> \in Seq(Commands)
  BY <1>1, <1>2, Queues
<1>5. AuxOf(queue) \in Nat /\ AuxOf(<<cmd>>) \in Nat
  BY <1>1, AuxSum
<1>6. AuxOf(queue \o <<cmd>>) = AuxOf(queue) + AuxOf(<<cmd>>)
  BY <1>1, AuxSum
<1>7. AuxOf(queue \o Woken) = AuxOf(queue) + AuxOf(Woken)
  BY <1>1, <1>2, AuxSum
<1>8. AuxOf(Woken \o <<cmd>>) = AuxOf(Woken) + AuxOf(<<cmd>>)
  BY <1>1, <1>2, AuxSum
<1>9. AuxOf(queue \o (Woken \o <<cmd>>)) = AuxOf(queue) + AuxOf(Woken \o <<cmd>>)
  BY <1>1, <1>4, AuxSum
<1> QED
  <2>1. AuxOf(queue \o Woken) = AuxOf(queue)
    BY <1>2, <1>5, <1>7
  <2>2. AuxOf(queue \o (Woken \o <<cmd>>)) = AuxOf(queue) + AuxOf(<<cmd>>)
    BY <1>2, <1>5, <1>8, <1>9
  <2> QED BY <1>3, <1>6, <2>1, <2>2, Zenon

\* aux in terms of the parts.
AuxParts == aux = (IF cur = "aux" THEN 1 ELSE 0) + AuxOf(queue) + AnswersOf(conn)

LEMMA AuxInParts == TypeOK => (AuxExact <=> AuxParts)
<1> SUFFICES ASSUME TypeOK PROVE AuxExact <=> AuxParts
  OBVIOUS
<1>1. /\ AuxOf(InFlight) = (IF cur = "aux" THEN 1 ELSE 0) + AuxOf(queue)
      /\ AuxOf(queue) \in Nat /\ AnswersOf(conn) \in Nat
  BY FlightParts
<1>2. AuxExact <=> aux = AuxOf(InFlight) + AnswersOf(conn)
  BY DEF AuxExact, AuxOf, AnswersOf
<1> QED BY <1>1, <1>2 DEF AuxParts

\* A worker thrown away takes its work with it.
LEMMA FreshParts ==
  ASSUME NewWorker, aux' = 0
  PROVE  AuxParts'
<1>1. AuxOf(<<>>) = 0 /\ AnswersOf(<<>>) = 0
  BY CountShort DEF AuxOf, AnswersOf
<1>2. queue' = <<>> /\ conn' = <<>> /\ cur' # "aux"
  BY DEF NewWorker, None
<1> QED BY <1>1, <1>2 DEF AuxParts, AuxOf, AnswersOf

\* User operations count what they send.
LEMMA UserCounts ==
  ASSUME "disconnect_private" \notin Ops, TypeOK, AuxParts, UserNext
  PROVE  AuxParts'
<1>0. /\ \A cmd \in Commands :
           /\ AuxOf(queue \o <<cmd>>) = AuxOf(queue) + (IF cmd = "aux" THEN 1 ELSE 0)
           /\ AuxOf(queue \o (Woken \o <<cmd>>))
                = AuxOf(queue) + (IF cmd = "aux" THEN 1 ELSE 0)
      /\ AuxOf(queue \o Woken) = AuxOf(queue)
      /\ AuxOf(queue) \in Nat /\ AnswersOf(conn) \in Nat
  <2>1. "run" \in Commands
    BY Names
  <2> QED BY <2>1, SentAux, FlightParts
\* No auxiliary work is sent.
<1>1. ASSUME UNCHANGED <<aux, cur, conn>>,
             \E cmd \in Commands \ {"aux"} :
               queue' \in {queue \o <<cmd>>, queue \o Woken, queue \o (Woken \o <<cmd>>)}
      PROVE  AuxParts'
  <2>1. PICK cmd \in Commands \ {"aux"} :
          queue' \in {queue \o <<cmd>>, queue \o Woken, queue \o (Woken \o <<cmd>>)}
    BY <1>1
  <2>2. AuxOf(queue') = AuxOf(queue)
    <3>1. /\ AuxOf(queue \o <<cmd>>) = AuxOf(queue)
          /\ AuxOf(queue \o Woken) = AuxOf(queue)
          /\ AuxOf(queue \o (Woken \o <<cmd>>)) = AuxOf(queue)
      BY <1>0, <2>1
    <3> QED BY <2>1, <3>1, Zenon
  <2>3. AuxOf(queue)' = AuxOf(queue) /\ AnswersOf(conn)' = AnswersOf(conn)
    BY <1>1, <2>2 DEF AuxOf, AnswersOf, Count
  <2> QED BY <1>1, <2>3 DEF AuxParts
\* One piece is sent.
<1>2. ASSUME UNCHANGED <<cur, conn>>, aux' = aux + 1,
             queue' \in {queue \o <<"aux">>, queue \o (Woken \o <<"aux">>)}
      PROVE  AuxParts'
  <2>1. AuxOf(queue') = AuxOf(queue) + 1
    BY <1>0, <1>2, Names
  <2>2. AuxOf(queue)' = AuxOf(queue) + 1 /\ AnswersOf(conn)' = AnswersOf(conn)
    BY <1>2, <2>1 DEF AuxOf, AnswersOf, Count
  <2> QED BY <1>0, <1>2, <2>2 DEF AuxParts
<1>3. {"run", "tx", "connect", "quiet"} \subseteq Commands \ {"aux"}
  BY Names
<1>4. CASE Run \/ WakeOnly
  BY <1>1, <1>3, <1>4 DEF Run, WakeOnly, Send, chanVars
<1>5. CASE Fetch \/ Aux
  BY <1>2, <1>5 DEF Fetch, Aux, Send, chanVars
<1>6. CASE Tx \/ TxUnmarked \/ VarsRefresh \/ SetUnit
  BY <1>1, <1>3, <1>6 DEF Tx, TxUnmarked, VarsRefresh, SetUnit, Send, chanVars, gateVars
<1>7. CASE Connect \/ ConnectQueued
  BY <1>1, <1>3, <1>7 DEF Connect, ConnectQueued, ConnectEffect, Send, chanVars
<1>8. CASE IdleClose \/ ForceStop \/ Disconnect
  BY <1>8, FreshParts DEF IdleClose, ForceStop, Disconnect, Abandon
<1>9. ~DisconnectPrivate
  BY DEF DisconnectPrivate, User
<1> QED BY <1>4, <1>5, <1>6, <1>7, <1>8, <1>9 DEF UserNext

\* The worker hands each piece on, and answers it once.
LEMMA WorkerCounts ==
  ASSUME "panic" \notin Faults, TypeOK, AuxParts, WorkerStep
  PROVE  AuxParts'
<1>0. /\ queue \in Seq(Commands) /\ conn \in Seq(Outcomes)
      /\ AuxOf(queue) \in Nat /\ AnswersOf(conn) \in Nat
  BY FlightParts DEF TypeOK
<1>1. ASSUME NEW o \in Outcomes
      PROVE  AnswersOf(Append(conn, o)) = AnswersOf(conn) + (IF o = "answer" THEN 1 ELSE 0)
  <2>1. AnswersOf(Append(conn, o)) = AnswersOf(conn) + AnswersOf(<<o>>)
    BY <1>0, AnswersSum
  <2>2. AnswersOf(<<o>>) = IF o = "answer" THEN 1 ELSE 0
    BY AnswersSum
  <2> QED BY <2>1, <2>2, Zenon
\* No auxiliary work is taken or ended.
<1>2. ASSUME UNCHANGED <<aux, queue>>, (cur # "aux" /\ cur' # "aux") \/ cur' = cur,
             conn' = conn \/ \E o \in Outcomes \ {"answer"} : conn' = Append(conn, o)
      PROVE  AuxParts'
  <2>1. AnswersOf(conn') = AnswersOf(conn)
    <3>1. ASSUME NEW o \in Outcomes \ {"answer"}
          PROVE  AnswersOf(Append(conn, o)) = AnswersOf(conn)
      BY <1>0, <1>1
    <3>2. CASE conn' = conn
      BY <3>2
    <3>3. CASE \E o \in Outcomes \ {"answer"} : conn' = Append(conn, o)
      <4>1. PICK o \in Outcomes \ {"answer"} : conn' = Append(conn, o)
        BY <3>3
      <4>2. AnswersOf(Append(conn, o)) = AnswersOf(conn)
        BY <3>1
      <4> QED BY <4>1, <4>2
    <3> QED BY <1>2, <3>2, <3>3
  <2>2. AuxOf(queue)' = AuxOf(queue) /\ AnswersOf(conn)' = AnswersOf(conn)
    BY <1>2, <2>1 DEF AuxOf, AnswersOf, Count
  <2> QED BY <1>2, <2>2 DEF AuxParts
<1>3. None # "aux" /\ {"connected", "failed", "gone"} \subseteq Outcomes \ {"answer"}
  BY Names DEF None
<1> USE DEF Idle, hostVars, chanVars
<1>4. CASE Take
  <2>1. /\ queue # <<>> /\ cur = None /\ cur' = Head(queue) /\ queue' = Tail(queue)
        /\ UNCHANGED <<aux, conn>>
    BY <1>4 DEF Take
  <2>2. Head(queue) \in Commands /\ Tail(queue) \in Seq(Commands)
    BY <1>0, <2>1, Queues
  <2>3. /\ AuxOf(queue) = AuxOf(<<Head(queue)>>) + AuxOf(Tail(queue))
        /\ AuxOf(<<Head(queue)>>) = IF Head(queue) = "aux" THEN 1 ELSE 0
        /\ AuxOf(Tail(queue)) \in Nat
    BY <1>0, <2>1, <2>2, AuxSum
  <2>4. AuxOf(queue)' = AuxOf(Tail(queue)) /\ AnswersOf(conn)' = AnswersOf(conn)
    BY <2>1 DEF AuxOf, AnswersOf, Count
  <2> QED BY <1>0, <1>3, <2>1, <2>3, <2>4 DEF AuxParts
<1>5. CASE FinishAux
  <2>1. AnswersOf(conn') = AnswersOf(conn) + 1
    BY <1>1, <1>5, Names DEF FinishAux
  <2>2. AuxOf(queue)' = AuxOf(queue) /\ AnswersOf(conn)' = AnswersOf(conn) + 1
    BY <1>5, <2>1 DEF FinishAux, AuxOf, AnswersOf, Count
  <2> QED BY <1>0, <1>3, <1>5, <2>2 DEF FinishAux, AuxParts
<1>6. CASE StatementFails \/ Relogin
  BY <1>2, <1>6 DEF StatementFails, Relogin, EmitsIn
<1>7. CASE FinishWork \/ FinishQuiet
  BY <1>2, <1>3, <1>7 DEF FinishWork, FinishQuiet
<1>8. CASE ConnectOpened \/ ConnectTold \/ ConnectKept \/ ConnectRefused
  BY <1>2, <1>3, <1>8 DEF ConnectOpened, ConnectTold, ConnectKept, ConnectRefused
<1>9. CASE ConnectDone \/ FinishDisconnect
  BY <1>2, <1>3, <1>9 DEF ConnectDone, FinishDisconnect, InConnect
<1>10. ~Panic
  BY DEF Panic
<1> QED BY <1>4, <1>5, <1>6, <1>7, <1>8, <1>9, <1>10 DEF WorkerStep

\* The host counts each answer once.
LEMMA HostCounts ==
  ASSUME TypeOK, AuxParts, HostNext
  PROVE  AuxParts'
<1>0. /\ conn \in Seq(Outcomes) /\ AuxOf(queue) \in Nat /\ AnswersOf(conn) \in Nat
      /\ aux \in Nat
  BY FlightParts DEF TypeOK
<1>1. ASSUME conn # <<>>
      PROVE  /\ AnswersOf(conn) = AnswersOf(Tail(conn))
                                   + (IF Head(conn) = "answer" THEN 1 ELSE 0)
             /\ AnswersOf(Tail(conn)) \in Nat
  <2>1. Head(conn) \in Outcomes /\ Tail(conn) \in Seq(Outcomes)
    BY <1>0, <1>1, Queues
  <2>2. /\ AnswersOf(conn) = AnswersOf(<<Head(conn)>>) + AnswersOf(Tail(conn))
        /\ AnswersOf(<<Head(conn)>>) = IF Head(conn) = "answer" THEN 1 ELSE 0
        /\ AnswersOf(Tail(conn)) \in Nat
    BY <1>0, <1>1, <2>1, AnswersSum
  <2> QED BY <2>2
<1>2. CASE DrainConn
  <2>1. /\ conn # <<>> /\ conn' = Tail(conn) /\ UNCHANGED <<queue, cur>>
        /\ aux' = IF Head(conn) = "answer" THEN AuxDone ELSE aux
    BY <1>2 DEF DrainConn, workVars
  <2>2. AuxOf(queue)' = AuxOf(queue) /\ AnswersOf(conn)' = AnswersOf(Tail(conn))
    BY <2>1 DEF AuxOf, AnswersOf, Count
  <2>3. CASE Head(conn) = "answer"
    <3>1. aux > 0 /\ aux' = aux - 1
      BY <1>0, <1>1, <2>1, <2>3 DEF AuxParts, AuxDone
    <3>2. AnswersOf(conn) = AnswersOf(Tail(conn)) + 1
      BY <1>1, <2>1, <2>3
    <3>3. AuxOf(queue)' = AuxOf(queue) /\ AnswersOf(conn)' = AnswersOf(conn) - 1
      BY <1>1, <2>1, <2>2, <3>2
    <3> QED BY <1>0, <2>1, <3>1, <3>3 DEF AuxParts
  <2>4. CASE Head(conn) # "answer"
    <3>1. AnswersOf(conn) = AnswersOf(Tail(conn))
      BY <1>1, <2>1, <2>4
    <3> QED BY <2>1, <2>2, <2>4, <3>1 DEF AuxParts
  <2> QED BY <2>3, <2>4
<1>3. CASE DrainApplied
  <2>1. /\ conn # <<>> /\ conn' = Tail(conn) /\ Head(conn) = "answer" /\ cur' = cur
        /\ aux' = AuxDone /\ queue' = queue \o (Woken \o <<"run">>)
    BY <1>3 DEF DrainApplied, Send
  <2>2. AuxOf(queue \o (Woken \o <<"run">>)) = AuxOf(queue)
    <3>1. "run" \in Commands /\ "run" # "aux"
      BY Names
    <3> QED BY <1>0, <3>1, SentAux
  <2>3. AuxOf(queue)' = AuxOf(queue) /\ AnswersOf(conn)' = AnswersOf(Tail(conn))
    BY <2>1, <2>2 DEF AuxOf, AnswersOf, Count
  <2>4. aux > 0 /\ aux' = aux - 1
    BY <1>0, <1>1, <2>1 DEF AuxParts, AuxDone
  <2>5. AnswersOf(conn) = AnswersOf(Tail(conn)) + 1
    BY <1>1, <2>1
  <2>6. AuxOf(queue)' = AuxOf(queue) /\ AnswersOf(conn)' = AnswersOf(conn) - 1
    BY <1>1, <2>1, <2>3, <2>5
  <2> QED BY <1>0, <2>1, <2>4, <2>6 DEF AuxParts
<1>4. CASE DrainStart \/ NextChannel \/ DrainEvent \/ DrainDone
  <2>1. UNCHANGED <<aux, queue, cur, conn>>
    BY <1>4 DEF DrainStart, NextChannel, DrainEvent, DrainDone, gateVars, workVars, chanVars
  <2> QED BY <2>1 DEF AuxParts, AuxOf, AnswersOf, Count
<1> QED BY <1>2, <1>3, <1>4 DEF HostNext

(* aux counts exactly the auxiliary work still to be answered, across      *)
(* connects, idle closes, forced stops and failures of statements and of   *)
(* connects: all but a panic (answered by a done signal) and a private     *)
(* disconnect (which keeps the worker but forgets its work).               *)
THEOREM AuxIsExact ==
  ASSUME "disconnect_private" \notin Ops, "panic" \notin Faults
  PROVE  Spec => []AuxExact
<1>1. Init => AuxParts
  <2>1. AuxOf(<<>>) = 0 /\ AnswersOf(<<>>) = 0
    BY CountShort DEF AuxOf, AnswersOf
  <2> QED BY <2>1 DEF Init, AuxParts, None
<1>2. TypeOK /\ AuxParts /\ [Next]_vars => AuxParts'
  <2> SUFFICES ASSUME TypeOK, AuxParts, [Next]_vars PROVE AuxParts'
    OBVIOUS
  <2>1. CASE UNCHANGED vars
    BY <2>1 DEF vars, hostVars, workVars, chanVars, AuxParts, AuxOf, AnswersOf, Count
  <2> QED BY <2>1, UserCounts, WorkerCounts, HostCounts DEF Next, WorkerNext
<1>3. TypeOK /\ AuxParts => AuxExact
  BY AuxInParts
<1> QED BY <1>1, <1>2, <1>3, TypeCorrect, PTL DEF Spec

-----------------------------------------------------------------------------
(* The done signals to be skipped.                                         *)

\* All commands but the reconnect put ahead.
Rest == Commands \ {"wake"}

\* The reconnect put ahead is the first thing on its way to the host, from the
\* queue to the done signal, and skip_done is set just as long.
NoWake     == /\ skip = 0 /\ done \in Seq(OtherDones)
              /\ cur \in Rest \cup {None} /\ queue \in Seq(Rest)
WakeQueued == /\ skip = 1 /\ done = <<>> /\ cur = None
              /\ queue # <<>> /\ Head(queue) = "wake" /\ Tail(queue) \in Seq(Rest)
WakeTaken  == /\ skip = 1 /\ done = <<>> /\ cur = "wake" /\ queue \in Seq(Rest)
WakeTold   == /\ skip = 1
              /\ done # <<>> /\ Head(done) = "wake" /\ Tail(done) \in Seq(OtherDones)
              /\ cur \in Rest \cup {None} /\ queue \in Seq(Rest)
WakeFirst  == NoWake \/ WakeQueued \/ WakeTaken \/ WakeTold

\* A session closed for idleness has nothing on the way but one piece of
\* auxiliary work, sent without waking it: so a reconnect put ahead of other
\* work finds the pipeline empty.
Resting == queue = <<>> /\ cur = None /\ conn = <<>> /\ done = <<>> /\ aux = 0
Asking  == /\ aux = 1
           /\ \/ queue = <<"aux">> /\ cur = None /\ conn = <<>> /\ done = <<>>
              \/ queue = <<>> /\ cur = "aux" /\ conn = <<>> /\ done = <<>>
              \/ queue = <<>> /\ cur = None /\ conn = <<"answer">> /\ done = <<>>
              \/ /\ queue = <<>> /\ cur = None
                 /\ conn \in {<<>>, <<"gone">>} /\ done \in {<<>>, <<"run">>}
Asleep  == idleClosed => ~connected /\ (Resting \/ Asking)

WakeInv == TypeOK /\ SkipAtMostOne /\ WakeFirst /\ Asleep

\* The workloads of the theorems below.
Marked == Ops \cap {"tx", "vars", "disconnect", "disconnect_private"} = {}

\* A sequence with one more at its end keeps its front, one more in front has
\* it off again.
LEMMA Fronts ==
  ASSUME NEW S, NEW s \in Seq(S), NEW e
  PROVE  /\ e \in S => Append(s, e) \in Seq(S) /\ s \o <<e>> \in Seq(S)
         /\ s # <<>> => /\ Append(s, e) # <<>> /\ s \o <<e>> # <<>>
                        /\ Head(Append(s, e)) = Head(s) /\ Head(s \o <<e>>) = Head(s)
                        /\ Tail(Append(s, e)) = Append(Tail(s), e)
                        /\ Tail(s \o <<e>>) = Append(Tail(s), e)
         /\ Append(<<>>, e) = <<e>> /\ <<e>> # <<>>
         /\ Head(<<e>>) = e /\ Tail(<<e>>) = <<>>
OBVIOUS

\* The front of a sequence that has a non-empty first part.
LEMMA ConcatFront ==
  ASSUME NEW S, NEW s \in Seq(S), NEW t \in Seq(S), s # <<>>
  PROVE  /\ s \o t # <<>> /\ Head(s \o t) = Head(s)
         /\ Tail(s \o t) = Tail(s) \o t
OBVIOUS

\* What is sent behind the rest leaves the reconnect first.
LEMMA SentBehind ==
  ASSUME WakeInv, NEW c \in Rest, queue' = queue \o <<c>>,
         UNCHANGED <<skip, done, cur>>
  PROVE  WakeFirst'
<1>1. queue \in Seq(Commands)
  BY DEF WakeInv, TypeOK
<1>2. CASE NoWake
  <2>1. queue' \in Seq(Rest) BY <1>2, Fronts DEF NoWake
  <2> QED BY <1>2, <2>1 DEF NoWake, WakeFirst
<1>3. CASE WakeQueued
  <2>1. /\ queue' # <<>> /\ Head(queue') = "wake"
        /\ Tail(queue') = Append(Tail(queue), c)
    BY <1>1, <1>3, Fronts DEF WakeQueued
  <2>2. Tail(queue') \in Seq(Rest) BY <1>3, <2>1, Fronts DEF WakeQueued
  <2> QED BY <1>3, <2>1, <2>2 DEF WakeQueued, WakeFirst
<1>4. CASE WakeTaken
  <2>1. queue' \in Seq(Rest) BY <1>4, Fronts DEF WakeTaken
  <2> QED BY <1>4, <2>1 DEF WakeTaken, WakeFirst
<1>5. CASE WakeTold
  <2>1. queue' \in Seq(Rest) BY <1>5, Fronts DEF WakeTold
  <2> QED BY <1>5, <2>1 DEF WakeTold, WakeFirst
<1> QED BY <1>2, <1>3, <1>4, <1>5 DEF WakeInv, WakeFirst

\* An operation that wakes the session goes behind what is there, or behind
\* the reconnect on an empty pipeline.
LEMMA SentWoken ==
  ASSUME WakeInv, WakeIfIdle, aux = 0 \/ conn = <<"answer">>, NEW w,
         w = <<>> \/ \E c \in Rest : w = <<c>>,
         queue' = queue \o (Woken \o w), UNCHANGED <<done, cur>>
  PROVE  WakeFirst'
<1>1. CASE idleClosed
  <2>1. queue = <<>> /\ cur = None /\ done = <<>> /\ skip = 0
    <3>1. skip = 0 /\ (Resting \/ Asking)
      BY <1>1 DEF WakeInv, Asleep, SkipAtMostOne
    <3>2. <<"answer">> # <<>> /\ <<"answer">> # <<"gone">>
      OBVIOUS
    <3>3. Resting => queue = <<>> /\ cur = None /\ done = <<>>
      BY DEF Resting
    <3>4. Asking => aux = 1 /\ (conn = <<"answer">> => queue = <<>> /\ cur = None /\ done = <<>>)
      BY <3>2 DEF Asking
    <3> QED BY <3>1, <3>3, <3>4
  <2>2. skip' = 1 /\ Woken = <<"wake">>
    BY <1>1, <2>1 DEF WakeIfIdle, Woken
  <2>3. w \in Seq(Rest)
    <3>1. <<>> \in Seq(Rest) /\ \A c \in Rest : <<c>> \in Seq(Rest) OBVIOUS
    <3> QED BY <3>1
  <2>4. <<"wake">> \in Seq(Commands) /\ w \in Seq(Commands)
    BY <2>3 DEF Rest, Commands
  <2>5. Head(<<"wake">>) = "wake" /\ Tail(<<"wake">>) = <<>> /\ <<"wake">> # <<>>
    OBVIOUS
  <2>6. <<"wake">> \o w \in Seq(Commands) BY <2>4, Queues
  <2>7. queue' = <<"wake">> \o w
    <3>1. <<>> \o (<<"wake">> \o w) = <<"wake">> \o w BY <2>6, ConcatEmptySeq
    <3> QED BY <2>1, <2>2, <3>1, Zenon
  <2>8. /\ queue' # <<>> /\ Head(queue') = "wake"
        /\ Tail(queue') = <<>> \o w
    BY <2>4, <2>5, <2>7, ConcatFront
  <2>9. Tail(queue') = w BY <2>4, <2>8, ConcatEmptySeq
  <2> QED BY <2>1, <2>2, <2>3, <2>8, <2>9 DEF WakeQueued, WakeFirst
<1>2. CASE ~idleClosed
  <2>1. skip' = skip /\ Woken = <<>> BY <1>2 DEF WakeIfIdle, Woken
  <2>2. queue \in Seq(Commands) BY DEF WakeInv, TypeOK
  <2>3. CASE w = <<>>
    <3>1. queue' = queue BY <2>1, <2>2, <2>3
    <3> QED BY <2>1, <3>1
         DEF WakeInv, WakeFirst, NoWake, WakeQueued, WakeTaken, WakeTold
  <2>4. CASE \E c \in Rest : w = <<c>>
    <3>1. PICK c \in Rest : w = <<c>> BY <2>4
    <3>2. queue' = queue \o <<c>> BY <2>1, <3>1
    <3> QED BY <2>1, <3>2, SentBehind
  <2> QED BY <2>3, <2>4
<1> QED BY <1>1, <1>2

\* A new worker has nothing on the way.
LEMMA FreshWake ==
  ASSUME NewWorker, skip' = 0
  PROVE  WakeFirst'
BY EmptySeq DEF NewWorker, WakeFirst, NoWake

\* The operations of the user.
LEMMA UserWakes ==
  ASSUME Marked, WakeInv, UserNext
  PROVE  WakeFirst' /\ Asleep'
<1>1. {"run", "tx", "aux", "connect", "quiet"} \subseteq Rest
  BY DEF Rest, Commands
<1>2. ~Blocked => aux = 0
  BY DEF WakeInv, TypeOK, Blocked
<1>3. queue \in Seq(Commands) /\ (\A s \in Seq(Commands) : s \o <<>> = s)
  BY DEF WakeInv, TypeOK
<1>4. CASE Run
  <2>1. WakeFirst' BY <1>1, <1>2, <1>4, SentWoken DEF Run, Send, chanVars
  <2> QED BY <1>4, <2>1 DEF Run, WakeIfIdle, Asleep
<1>5. CASE WakeOnly
  <2>1. Woken = Woken \o <<>> BY DEF Woken
  <2>2. WakeFirst' BY <1>1, <1>2, <1>5, <2>1, SentWoken DEF WakeOnly, Send, chanVars
  <2> QED BY <1>5, <2>2 DEF WakeOnly, WakeIfIdle, Asleep
<1>6. CASE Fetch
  <2>1. WakeFirst' BY <1>1, <1>2, <1>6, SentWoken DEF Fetch, Send, chanVars
  <2> QED BY <1>6, <2>1 DEF Fetch, WakeIfIdle, Asleep
<1>7. CASE Aux
  <2>1. WakeFirst' BY <1>1, <1>7, SentBehind DEF Aux, Send, chanVars
  <2>2. ASSUME idleClosed PROVE Asking'
    <3>1. Resting BY <1>2, <1>7, <2>2 DEF Aux, WakeInv, Asleep, Asking
    <3> QED BY <1>7, <3>1 DEF Aux, Send, chanVars, Resting, Asking
  <2> QED BY <1>7, <2>1, <2>2 DEF Aux, WakeInv, Asleep
<1>8. CASE TxUnmarked \/ SetUnit
  <2>1. WakeFirst'
    BY <1>1, <1>8, SentBehind DEF TxUnmarked, SetUnit, Send, chanVars, gateVars
  <2> QED BY <1>8, <2>1 DEF TxUnmarked, SetUnit, gateVars, WakeInv, Asleep
<1>9. CASE Connect \/ ConnectQueued
  <2>1. WakeFirst'
    BY <1>1, <1>9, SentBehind DEF Connect, ConnectQueued, ConnectEffect, Send, chanVars
  <2> QED BY <1>9, <2>1 DEF Connect, ConnectQueued, ConnectEffect, Asleep
<1>10. CASE IdleClose \/ ForceStop
  <2>1. Abandon BY <1>10 DEF IdleClose, ForceStop
  <2>2. WakeFirst' BY <2>1, FreshWake DEF Abandon
  <2> QED BY <2>1, <2>2 DEF Abandon, NewWorker, Asleep, Resting
<1>11. ~(Tx \/ VarsRefresh \/ Disconnect \/ DisconnectPrivate)
  BY DEF Tx, VarsRefresh, Disconnect, DisconnectPrivate, User, Marked
<1> QED BY <1>4, <1>5, <1>6, <1>7, <1>8, <1>9, <1>10, <1>11 DEF UserNext

\* The command in hand is answered, or ended without a done signal.
LEMMA EndsWake ==
  ASSUME WakeInv, cur # None, cur' = None, UNCHANGED <<skip, queue>>,
         \/ cur \in SendsDone /\ done' = Append(done, cur)
         \/ cur \notin SendsDone /\ done' = done
         \/ cur \notin SendsDone /\ done' = Append(done, "run")
  PROVE  WakeFirst'
<1>1. done \in Seq(SendsDone) /\ "wake" \in SendsDone /\ "run" \in OtherDones
  BY DEF WakeInv, TypeOK, SendsDone, OtherDones
<1>2. CASE cur = "wake"
  <2>1. WakeTaken
    BY <1>2 DEF WakeInv, WakeFirst, NoWake, WakeQueued, WakeTold, Rest, None
  <2>2. done' = <<"wake">>
    BY <1>1, <1>2, <2>1, Fronts DEF WakeTaken
  <2> QED BY <2>1, <2>2, Fronts, EmptySeq DEF WakeTaken, WakeTold, WakeFirst
<1>3. CASE cur # "wake"
  <2>1. done' = done \/ \E c \in OtherDones : done' = Append(done, c)
    BY <1>1, <1>3 DEF OtherDones
  <2>2. CASE NoWake
    <3>1. done' \in Seq(OtherDones) BY <2>1, <2>2, Fronts DEF NoWake
    <3> QED BY <2>2, <3>1 DEF NoWake, WakeFirst
  <2>3. CASE WakeTold
    <3>1. CASE done' = done
      BY <2>3, <3>1 DEF WakeTold, WakeFirst
    <3>2. CASE \E c \in OtherDones : done' = Append(done, c)
      <4>1. PICK c \in OtherDones : done' = Append(done, c) BY <3>2
      <4>2. /\ done' # <<>> /\ Head(done') = "wake"
            /\ Tail(done') = Append(Tail(done), c)
        BY <1>1, <2>3, <4>1, Fronts DEF WakeTold
      <4>3. Tail(done) \in Seq(OtherDones) BY <2>3 DEF WakeTold
      <4>4. Tail(done') \in Seq(OtherDones) BY <4>1, <4>2, <4>3, Fronts
      <4> QED BY <2>3, <4>2, <4>4 DEF WakeTold, WakeFirst
    <3> QED BY <2>1, <3>1, <3>2
  <2> QED BY <1>3, <2>2, <2>3 DEF WakeInv, WakeFirst, WakeQueued, WakeTaken
<1> QED BY <1>2, <1>3

\* Nothing of the pipeline changes.
LEMMA SameWake ==
  ASSUME WakeInv, UNCHANGED <<skip, queue, cur, done>>
  PROVE  WakeFirst'
BY DEF WakeInv, WakeFirst, NoWake, WakeQueued, WakeTaken, WakeTold

\* The steps of the worker.
LEMMA WorkerWakes ==
  ASSUME WakeInv, WorkerStep
  PROVE  WakeFirst' /\ Asleep'
<1>1. None \notin SendsDone /\ "aux" \notin SendsDone /\ "quiet" \notin SendsDone
      /\ {"run", "tx", "connect", "wake", "disconnect"} \subseteq SendsDone
      /\ None \notin {"aux", "quiet"}
  BY DEF None, SendsDone
<1> USE DEF Idle, hostVars, chanVars
<1>2. CASE Take
  <2>1. WakeFirst'
    <3>1. /\ queue # <<>> /\ cur = None /\ cur' = Head(queue) /\ queue' = Tail(queue)
          /\ UNCHANGED <<skip, done>>
      BY <1>2 DEF Take
    <3>2. queue \in Seq(Rest) => Head(queue) \in Rest /\ Tail(queue) \in Seq(Rest)
      BY <3>1, Queues
    <3>3. CASE NoWake BY <3>1, <3>2, <3>3 DEF NoWake, WakeFirst
    <3>4. CASE WakeQueued BY <3>1, <3>4 DEF WakeQueued, WakeTaken, WakeFirst
    <3>5. CASE WakeTold BY <3>1, <3>2, <3>5 DEF WakeTold, WakeFirst
    <3>6. ~WakeTaken BY <3>1 DEF WakeTaken, None
    <3> QED BY <3>3, <3>4, <3>5, <3>6 DEF WakeInv, WakeFirst
  <2>2. Asleep'
    <3>1. Head(<<"aux">>) = "aux" /\ Tail(<<"aux">>) = <<>> OBVIOUS
    <3> QED BY <1>2, <3>1 DEF Take, WakeInv, Asleep, Resting, Asking
  <2> QED BY <2>1, <2>2
<1>3. CASE StatementFails \/ Relogin
  <2>1. UNCHANGED <<skip, queue, cur, done, conn, aux, idleClosed, connected>>
    BY <1>3 DEF StatementFails, Relogin, EmitsIn
  <2> QED BY <2>1, SameWake DEF WakeInv, Asleep, Resting, Asking
<1>4. CASE FinishWork \/ ConnectDone \/ FinishDisconnect
  <2>1. /\ cur \in SendsDone /\ cur' = None /\ done' = Append(done, cur)
        /\ UNCHANGED <<skip, queue, idleClosed>>
    BY <1>1, <1>4 DEF FinishWork, ConnectDone, FinishDisconnect, InConnect
  <2>2. ~idleClosed
    BY <1>1, <2>1 DEF WakeInv, Asleep, Resting, Asking
  <2> QED BY <1>1, <2>1, <2>2, EndsWake DEF Asleep
<1>5. CASE FinishAux \/ FinishQuiet
  <2>1. /\ cur # None /\ cur \notin SendsDone /\ cur' = None /\ done' = done
        /\ UNCHANGED <<skip, queue>>
    BY <1>1, <1>5 DEF FinishAux, FinishQuiet
  <2>2. Asleep'
    <3>1. Append(<<>>, "answer") = <<"answer">> OBVIOUS
    <3> QED BY <1>1, <1>5, <3>1 DEF FinishAux, FinishQuiet, WakeInv, Asleep, Resting, Asking
  <2> QED BY <2>1, <2>2, EndsWake
<1>6. CASE ConnectOpened \/ ConnectTold \/ ConnectKept \/ ConnectRefused
  <2>1. cur \in {"connect", "wake"} /\ UNCHANGED <<skip, queue, cur, done, idleClosed>>
    BY <1>6 DEF ConnectOpened, ConnectTold, ConnectKept, ConnectRefused, InConnect
  <2>2. ~idleClosed
    BY <2>1 DEF WakeInv, Asleep, Resting, Asking, None
  <2> QED BY <2>1, <2>2, SameWake DEF Asleep
<1>7. CASE Panic
  <2>1. /\ cur # None /\ cur' = None
        /\ done' = Append(done, IF cur \in SendsDone THEN cur ELSE "run")
        /\ conn' = Append(conn, "gone")
        /\ UNCHANGED <<skip, queue, aux, connected, idleClosed>>
    BY <1>7 DEF Panic
  <2>2. WakeFirst'
    BY <2>1, EndsWake
  <2>3. Asleep'
    <3>1. Append(<<>>, "gone") = <<"gone">> /\ Append(<<>>, "run") = <<"run">>
      OBVIOUS
    <3> QED BY <1>1, <2>1, <3>1 DEF WakeInv, Asleep, Resting, Asking
  <2> QED BY <2>2, <2>3
<1> QED BY <1>2, <1>3, <1>4, <1>5, <1>6, <1>7 DEF WorkerStep

\* The drains of the host.
LEMMA HostWakes ==
  ASSUME WakeInv, HostNext
  PROVE  WakeFirst' /\ Asleep'
<1> USE DEF workVars
<1>1. CASE DrainStart \/ NextChannel
  <2>1. UNCHANGED <<skip, queue, cur, done, conn, aux, idleClosed, connected>>
    BY <1>1 DEF DrainStart, NextChannel, gateVars, chanVars
  <2> QED BY <2>1, SameWake DEF WakeInv, Asleep, Resting, Asking
<1>2. CASE DrainConn
  <2>1. WakeFirst' BY <1>2, SameWake DEF DrainConn
  <2>2. Asleep'
    <3>1. /\ Head(<<"answer">>) = "answer" /\ Tail(<<"answer">>) = <<>>
          /\ Head(<<"gone">>) = "gone" /\ Tail(<<"gone">>) = <<>>
      OBVIOUS
    <3>2. ASSUME idleClosed PROVE ~connected' /\ (Resting' \/ Asking')
      <4>1. Asking /\ ~connected
        BY <1>2, <3>2 DEF DrainConn, WakeInv, Asleep, Resting
      <4>2. CASE conn = <<"answer">>
        <5>1. aux' = 0 BY <1>2, <3>1, <4>1, <4>2 DEF DrainConn, Asking, AuxDone
        <5>2. conn' = <<>> /\ ~connected' BY <1>2, <3>1, <4>1, <4>2 DEF DrainConn
        <5>3. queue = <<>> /\ cur = None /\ done = <<>>
          BY <4>1, <4>2 DEF Asking
        <5> QED BY <1>2, <5>1, <5>2, <5>3 DEF DrainConn, Resting
      <4>3. CASE conn = <<"gone">>
        <5>1. conn' = <<>> /\ ~connected' /\ aux' = aux
          BY <1>2, <3>1, <4>1, <4>3 DEF DrainConn
        <5>2. aux = 1 /\ queue = <<>> /\ cur = None /\ done \in {<<>>, <<"run">>}
          BY <4>1, <4>3 DEF Asking
        <5> QED BY <1>2, <5>1, <5>2 DEF DrainConn, Asking
      <4> QED BY <1>2, <4>1, <4>2, <4>3 DEF DrainConn, Asking
    <3> QED BY <1>2, <3>2 DEF DrainConn, Asleep
  <2> QED BY <2>1, <2>2
<1>3. CASE DrainApplied
  <2>1. "run" \in Rest BY DEF Rest, Commands
  <2>2. idleClosed => conn = <<"answer">>
    <3>1. Head(<<"gone">>) # "answer" OBVIOUS
    <3> QED BY <1>3, <3>1 DEF DrainApplied, WakeInv, Asleep, Resting, Asking
  <2>3. CASE idleClosed
    <3>1. WakeFirst'
      BY <1>3, <2>1, <2>2, <2>3, SentWoken DEF DrainApplied, Send
    <3> QED BY <1>3, <3>1 DEF DrainApplied, WakeIfIdle, Asleep
  <2>4. CASE ~idleClosed
    <3>1. Woken \o <<"run">> = <<"run">> /\ skip' = skip
      BY <1>3, <2>4 DEF Woken, DrainApplied, WakeIfIdle
    <3>2. WakeFirst' BY <1>3, <2>1, <3>1, SentBehind DEF DrainApplied, Send
    <3> QED BY <1>3, <3>2 DEF DrainApplied, WakeIfIdle, Asleep
  <2> QED BY <2>3, <2>4
<1>4. CASE DrainEvent
  <2>1. WakeFirst' BY <1>4, SameWake DEF DrainEvent
  <2>2. ASSUME idleClosed' PROVE idleClosed /\ (connected' => connected)
    BY <1>4, <2>2 DEF DrainEvent
  <2> QED BY <1>4, <2>1, <2>2 DEF DrainEvent, WakeInv, Asleep, Resting, Asking
<1>5. CASE DrainDone
  <2>1. /\ done # <<>> /\ done' = Tail(done)
        /\ UNCHANGED <<aux, connected, idleClosed, queue, cur, conn>>
        /\ skip' = IF skip > 0 THEN skip - 1 ELSE skip
    BY <1>5 DEF DrainDone
  <2>2. WakeFirst'
    <3>1. CASE NoWake
      <4>1. done' \in Seq(OtherDones) BY <2>1, <3>1, Queues DEF NoWake
      <4> QED BY <2>1, <3>1, <4>1 DEF NoWake, WakeFirst
    <3>2. CASE WakeTold BY <2>1, <3>2 DEF WakeTold, NoWake, WakeFirst
    <3> QED BY <2>1, <3>1, <3>2 DEF WakeInv, WakeFirst, WakeQueued, WakeTaken
  <2>3. Asleep'
    <3>1. Tail(<<"run">>) = <<>> OBVIOUS
    <3> QED BY <2>1, <3>1 DEF WakeInv, Asleep, Resting, Asking
  <2> QED BY <2>2, <2>3
<1> QED BY <1>1, <1>2, <1>3, <1>4, <1>5 DEF HostNext

\* The reconnect is first in every reachable state.
LEMMA WakeIsFirst == Marked => (Spec => []WakeInv)
<1> SUFFICES ASSUME Marked PROVE Spec => []WakeInv
  OBVIOUS
<1>1. Init => WakeFirst /\ Asleep
  BY EmptySeq DEF Init, WakeFirst, NoWake, Asleep
<1>2. WakeInv /\ [Next]_vars => WakeFirst' /\ Asleep'
  <2> SUFFICES ASSUME WakeInv, [Next]_vars PROVE WakeFirst' /\ Asleep'
    OBVIOUS
  <2>1. CASE UNCHANGED vars
    <3>1. UNCHANGED <<skip, queue, cur, done, conn, aux, idleClosed, connected>>
      BY <2>1 DEF vars, hostVars, workVars, chanVars
    <3> QED BY <3>1, SameWake DEF WakeInv, Asleep, Resting, Asking
  <2> QED BY <2>1, UserWakes, WorkerWakes, HostWakes DEF Next, WorkerNext
<1>3. TypeOK /\ SkipAtMostOne /\ WakeFirst /\ Asleep <=> WakeInv
  BY DEF WakeInv
<1> QED BY <1>1, <1>2, <1>3, TypeCorrect, SkipBounded, PTL DEF Spec

\* The pipeline as a whole: no reconnect put ahead, or one and it is first.
LEMMA SignalsFirst ==
  ASSUME WakeInv
  PROVE  /\ Signals \in Seq(Commands)
         /\ \/ skip = 0 /\ Signals \in Seq(Rest)
            \/ /\ skip = 1 /\ Signals # <<>>
               /\ Head(Signals) = "wake" /\ Tail(Signals) \in Seq(Rest)
<1>1. /\ OtherDones \subseteq Rest /\ Rest \subseteq Commands /\ "wake" \in Commands
      /\ \A S : Seq(S) \subseteq Seq(S)
  BY DEF OtherDones, SendsDone, Rest, Commands
<1>2. Seq(OtherDones) \subseteq Seq(Rest) /\ Seq(Rest) \subseteq Seq(Commands)
  BY <1>1
<1>3. \A s, t \in Seq(Rest) : s \o t \in Seq(Rest)
  BY ConcatProperties
<1>4. <<>> \in Seq(Rest) /\ (\A c \in Rest : <<c>> \in Seq(Rest))
  OBVIOUS
<1>5. cur \in Rest \cup {None} => Taken \in Seq(Rest)
  BY <1>4 DEF Taken
<1>6. ASSUME Signals # <<>>, Head(Signals) = "wake", Tail(Signals) \in Seq(Rest),
             NEW T, Signals \in Seq(T)
      PROVE  Signals \in Seq(Commands)
  <2>1. Signals = <<Head(Signals)>> \o Tail(Signals) BY <1>6
  <2>2. <<Head(Signals)>> \in Seq(Commands) BY <1>1, <1>6
  <2>3. Tail(Signals) \in Seq(Commands) BY <1>2, <1>6
  <2> QED BY <2>1, <2>2, <2>3, Queues
<1>7. CASE NoWake
  <2>1. /\ done \in Seq(Rest) /\ Taken \in Seq(Rest) /\ queue \in Seq(Rest)
        /\ skip = 0
    BY <1>2, <1>5, <1>7 DEF NoWake
  <2>2. Signals \in Seq(Rest) BY <1>3, <2>1 DEF Signals, InFlight
  <2> QED BY <1>2, <2>1, <2>2
<1>8. CASE WakeQueued
  <2>1. queue \in Seq(Commands) BY DEF WakeInv, TypeOK
  <2>2. Signals = <<>> \o (<<>> \o queue) BY <1>8 DEF WakeQueued, Signals, InFlight, Taken
  <2>3. Signals = queue BY <2>1, <2>2, ConcatEmptySeq
  <2> QED BY <1>8, <2>1, <2>3 DEF WakeQueued
<1>9. CASE WakeTaken
  <2>1. Signals = <<>> \o (<<"wake">> \o queue)
    BY <1>9 DEF WakeTaken, Signals, InFlight, Taken, None
  <2>2. queue \in Seq(Commands) /\ <<"wake">> \in Seq(Commands)
    BY <1>1, <1>2, <1>9 DEF WakeTaken
  <2>3. <<"wake">> \o queue \in Seq(Commands) BY <2>2, Queues
  <2>4. Signals = <<"wake">> \o queue BY <2>1, <2>3, ConcatEmptySeq
  <2>5. /\ Signals # <<>> /\ Head(Signals) = Head(<<"wake">>)
        /\ Tail(Signals) = Tail(<<"wake">>) \o queue
    BY <2>2, <2>4, ConcatFront
  <2>6. Head(<<"wake">>) = "wake" /\ Tail(<<"wake">>) = <<>> OBVIOUS
  <2>7. Tail(Signals) = queue BY <2>2, <2>5, <2>6, ConcatEmptySeq
  <2> QED BY <1>9, <2>3, <2>4, <2>5, <2>6, <2>7 DEF WakeTaken
<1>10. CASE WakeTold
  <2>1. /\ skip = 1 /\ done # <<>> /\ Head(done) = "wake"
        /\ Tail(done) \in Seq(Rest) /\ queue \in Seq(Rest) /\ Taken \in Seq(Rest)
    BY <1>2, <1>5, <1>10 DEF WakeTold
  <2>2. done \in Seq(Commands)
    <3>1. SendsDone \subseteq Commands BY DEF SendsDone, Commands
    <3> QED BY <3>1 DEF WakeInv, TypeOK
  <2>3. InFlight \in Seq(Rest) BY <1>3, <2>1 DEF InFlight
  <2>4. InFlight \in Seq(Commands) BY <1>2, <2>3
  <2>5. /\ Signals # <<>> /\ Head(Signals) = "wake"
        /\ Tail(Signals) = Tail(done) \o InFlight
    BY <2>1, <2>2, <2>4, ConcatFront DEF Signals
  <2>6. Signals \in Seq(Commands) BY <2>2, <2>4, Queues DEF Signals
  <2>7. Tail(Signals) \in Seq(Rest) BY <1>3, <2>1, <2>3, <2>5
  <2> QED BY <2>1, <2>5, <2>6, <2>7
<1> QED BY <1>7, <1>8, <1>9, <1>10 DEF WakeInv, WakeFirst

\* What is not in a sequence is not counted.
LEMMA CountNone ==
  ASSUME NEW S, NEW s \in Seq(S), NEW set, S \cap set = {}
  PROVE  Count(s, set) = 0
<1>1. {i \in DOMAIN s : s[i] \in set} = {}
  OBVIOUS
<1> QED BY <1>1, FS_EmptySet DEF Count

(* The done signals skip_done lets pass are exactly those of the reconnects *)
(* put ahead, and no other done signal comes before them: whatever fails or *)
(* panics, and through idle closes and forced stops.  Not so with what a    *)
(* session closed for idleness sends without waking (commit, rollback, the  *)
(* refresh of the variables), nor after a disconnect.                       *)
THEOREM SkipsAreWakes ==
  ASSUME Ops \cap {"tx", "vars", "disconnect", "disconnect_private"} = {}
  PROVE  Spec => []SkipsTheWake
<1>1. Marked
  BY DEF Marked
<1>2. WakeInv => SkipsTheWake
  <2> SUFFICES ASSUME WakeInv PROVE SkipsTheWake
    OBVIOUS
  <2>1. /\ Signals \in Seq(Commands)
        /\ \/ skip = 0 /\ Signals \in Seq(Rest)
           \/ /\ skip = 1 /\ Signals # <<>>
              /\ Head(Signals) = "wake" /\ Tail(Signals) \in Seq(Rest)
    BY SignalsFirst
  <2>2. Rest \cap {"wake"} = {} /\ "wake" \notin OtherDones
    BY DEF Rest, OtherDones
  <2>3. CASE skip = 0 /\ Signals \in Seq(Rest)
    <3>1. Count(Signals, {"wake"}) = 0 BY <2>2, <2>3, CountNone
    <3>2. \A i \in DOMAIN Signals : Signals[i] # "wake" BY <2>2, <2>3
    <3> QED BY <2>3, <3>1, <3>2 DEF SkipsTheWake
  <2>4. CASE skip = 1 /\ Signals # <<>> /\ Head(Signals) = "wake" /\ Tail(Signals) \in Seq(Rest)
    <3>1. Count(Tail(Signals), {"wake"}) = 0 BY <2>2, <2>4, CountNone
    <3>2. "wake" \in Commands BY DEF Commands
    <3>3. Count(Signals, {"wake"})
            = Count(<<Head(Signals)>>, {"wake"}) + Count(Tail(Signals), {"wake"})
      BY <2>1, <2>4, <3>2, CountEntry
    <3>4. Count(<<Head(Signals)>>, {"wake"}) = 1 BY <2>4, CountOne
    <3>5. \A i \in DOMAIN Signals : Signals[i] = "wake" => i = 1
      <4>1. ASSUME NEW i \in DOMAIN Signals, i # 1 PROVE Signals[i] # "wake"
        <5>1. /\ i \in 1..Len(Signals) /\ i - 1 \in 1..Len(Tail(Signals))
              /\ Tail(Signals)[i - 1] = Signals[i]
          BY <2>1, <2>4, <4>1
        <5>2. Tail(Signals)[i - 1] \in Rest BY <2>4, <5>1
        <5> QED BY <2>2, <5>1, <5>2
      <4> QED BY <4>1
    <3>6. 1 \in DOMAIN Signals /\ Signals[1] = "wake" /\ DOMAIN Signals \subseteq Nat \ {0}
      BY <2>1, <2>4
    <3>7. \A i, j \in DOMAIN Signals :
            Signals[i] = "wake" /\ Signals[j] \in OtherDones => i < j
      BY <2>2, <3>5, <3>6
    <3> QED BY <2>4, <3>1, <3>3, <3>4, <3>7 DEF SkipsTheWake
  <2> QED BY <2>1, <2>3, <2>4
<1> QED BY <1>1, <1>2, WakeIsFirst, PTL

-----------------------------------------------------------------------------
(* A shut gate has a cause.                                                *)

Has(s, set) == \E i \in DOMAIN s : s[i] \in set

\* A done signal that is not to be skipped is on the way.
OtherComing == Has(done, OtherDones) \/ cur \in OtherDones \/ Has(queue, OtherDones)
BusyInv     == busy => OtherComing

\* What two sequences have, and one with its front taken off.
LEMMA HasMore ==
  ASSUME NEW S, NEW s \in Seq(S), NEW set
  PROVE  /\ \A t \in Seq(S) : Has(s, set) \/ Has(t, set) => Has(s \o t, set)
         /\ s # <<>> => (Has(s, set) <=> Head(s) \in set \/ Has(Tail(s), set))
<1>1. \A t \in Seq(S) : Has(s, set) \/ Has(t, set) => Has(s \o t, set)
  <2> SUFFICES ASSUME NEW t \in Seq(S), Has(s, set) \/ Has(t, set)
               PROVE  Has(s \o t, set)
    OBVIOUS
  <2>1. CASE Has(s, set)
    <3>1. PICK i \in DOMAIN s : s[i] \in set BY <2>1 DEF Has
    <3>2. i \in DOMAIN (s \o t) /\ (s \o t)[i] = s[i] OBVIOUS
    <3> QED BY <3>1, <3>2 DEF Has
  <2>2. CASE Has(t, set)
    <3>1. PICK i \in DOMAIN t : t[i] \in set BY <2>2 DEF Has
    <3>2. Len(s) + i \in DOMAIN (s \o t) /\ (s \o t)[Len(s) + i] = t[i] OBVIOUS
    <3> QED BY <3>1, <3>2 DEF Has
  <2> QED BY <2>1, <2>2
<1>2. ASSUME s # <<>>
      PROVE  Has(s, set) <=> Head(s) \in set \/ Has(Tail(s), set)
  <2>1. /\ DOMAIN s = 1..Len(s) /\ DOMAIN Tail(s) = 1..(Len(s) - 1)
        /\ s[1] = Head(s) /\ Len(s) \in Nat \ {0}
        /\ \A i \in 1..(Len(s) - 1) : Tail(s)[i] = s[i + 1]
    BY <1>2
  <2>2. \A i \in 1..Len(s) : i = 1 \/ (i - 1 \in 1..(Len(s) - 1) /\ i = (i - 1) + 1)
    BY <2>1
  <2>3. 1 \in 1..Len(s) /\ \A i \in 1..(Len(s) - 1) : i + 1 \in 1..Len(s)
    BY <2>1
  <2>4. ASSUME Has(s, set) PROVE Head(s) \in set \/ Has(Tail(s), set)
    <3>1. PICK i \in 1..Len(s) : s[i] \in set BY <2>1, <2>4 DEF Has
    <3>2. CASE i = 1 BY <2>1, <3>1, <3>2
    <3>3. CASE i - 1 \in 1..(Len(s) - 1) /\ i = (i - 1) + 1
      <4>1. Tail(s)[i - 1] \in set BY <2>1, <3>1, <3>3
      <4> QED BY <2>1, <3>3, <4>1 DEF Has
    <3> QED BY <2>2, <3>1, <3>2, <3>3
  <2>5. ASSUME Head(s) \in set \/ Has(Tail(s), set) PROVE Has(s, set)
    <3>1. CASE Head(s) \in set BY <2>1, <2>3, <3>1 DEF Has
    <3>2. CASE Has(Tail(s), set)
      <4>1. PICK i \in 1..(Len(s) - 1) : Tail(s)[i] \in set BY <2>1, <3>2 DEF Has
      <4>2. i + 1 \in DOMAIN s /\ s[i + 1] \in set BY <2>1, <2>3, <4>1
      <4> QED BY <4>2 DEF Has
    <3> QED BY <2>5, <3>1, <3>2
  <2> QED BY <2>4, <2>5
<1> QED BY <1>1, <1>2, Zenon

\* What a sequence with one entry more at its end has.
LEMMA HasEntry ==
  ASSUME NEW S, NEW s \in Seq(S), NEW e \in S, NEW set
  PROVE  Has(Append(s, e), set) <=> Has(s, set) \/ e \in set
<1>1. /\ DOMAIN Append(s, e) = 1..(Len(s) + 1) /\ DOMAIN s = 1..Len(s)
      /\ \A i \in 1..Len(s) : Append(s, e)[i] = s[i]
      /\ Append(s, e)[Len(s) + 1] = e /\ Len(s) \in Nat
  OBVIOUS
<1>2. \A i \in 1..(Len(s) + 1) : i \in 1..Len(s) \/ i = Len(s) + 1
  BY <1>1
<1>3. 1..Len(s) \subseteq 1..(Len(s) + 1) /\ Len(s) + 1 \in 1..(Len(s) + 1)
  BY <1>1
<1> QED BY <1>1, <1>2, <1>3 DEF Has

\* An operation that shuts the gate sends a command that ends with a done
\* signal of its own.
LEMMA SentShuts ==
  ASSUME TypeOK, NEW c \in OtherDones, queue' \in {queue \o <<c>>, queue \o (Woken \o <<c>>)}
  PROVE  OtherComing'
<1>1. c \in Commands /\ "wake" \in Commands /\ queue \in Seq(Commands)
  BY DEF TypeOK, OtherDones, SendsDone, Commands
<1>2. Woken \in Seq(Commands) /\ <<c>> \in Seq(Commands)
  BY <1>1 DEF Woken
<1>a. Has(<<c>>, OtherDones)
  <2>1. 1 \in DOMAIN <<c>> /\ <<c>>[1] = c OBVIOUS
  <2> QED BY <2>1 DEF Has
<1>3. Has(Woken \o <<c>>, OtherDones) /\ Woken \o <<c>> \in Seq(Commands)
  BY <1>2, <1>a, HasMore, Queues
<1>4. Has(queue \o (Woken \o <<c>>), OtherDones)
  BY <1>1, <1>3, HasMore
<1>5. Has(queue \o <<c>>, OtherDones)
  BY <1>1, <1>2, <1>a, HasMore
<1>6. Has(queue', OtherDones)
  BY <1>4, <1>5
<1> QED BY <1>6 DEF OtherComing, Has

\* A command sent behind the others takes none away.
LEMMA SentKeeps ==
  ASSUME TypeOK, OtherComing, NEW c \in Commands, queue' = queue \o <<c>>,
         UNCHANGED <<cur, done>>
  PROVE  OtherComing'
<1>a. queue \in Seq(Commands) /\ <<c>> \in Seq(Commands)
  BY DEF TypeOK
<1>1. Has(queue, OtherDones) => Has(queue \o <<c>>, OtherDones)
  BY <1>a, HasMore
<1>2. Has(queue, OtherDones) => Has(queue', OtherDones)
  BY <1>1
<1> QED BY <1>2 DEF OtherComing, Has

\* Nothing of the pipeline changes.
LEMMA SameBusy ==
  ASSUME BusyInv, UNCHANGED <<queue, cur, done>>, busy' => busy
  PROVE  BusyInv'
BY DEF BusyInv, OtherComing, Has

\* The workloads of the theorem below.
Shutting == Ops \cap {"wake_only", "fetch"} = {}

LEMMA UserBusy ==
  ASSUME Marked, Shutting, TypeOK, BusyInv, UserNext
  PROVE  BusyInv'
<1>1. /\ {"run", "connect"} \subseteq OtherDones
      /\ {"aux", "tx", "quiet"} \subseteq Commands
  BY DEF OtherDones, SendsDone, Commands
<1>2. CASE Run
  <2>1. OtherComing' BY <1>1, <1>2, SentShuts DEF Run, Send
  <2> QED BY <2>1 DEF BusyInv
<1>3. CASE Connect \/ ConnectQueued
  <2>1. OtherComing'
    BY <1>1, <1>3, SentShuts DEF Connect, ConnectQueued, ConnectEffect, Send
  <2> QED BY <2>1 DEF BusyInv
<1>4. CASE Aux \/ TxUnmarked \/ SetUnit
  <2>1. busy' = busy /\ UNCHANGED <<cur, done>> /\ \E c \in Commands : queue' = queue \o <<c>>
    BY <1>1, <1>4 DEF Aux, TxUnmarked, SetUnit, Send, chanVars, gateVars
  <2> QED BY <2>1, SentKeeps DEF BusyInv
<1>5. CASE IdleClose \/ ForceStop
  <2>1. busy' = FALSE BY <1>5 DEF IdleClose, ForceStop, Abandon
  <2> QED BY <2>1 DEF BusyInv
<1>6. ~(Tx \/ VarsRefresh \/ Disconnect \/ DisconnectPrivate \/ WakeOnly \/ Fetch)
  BY DEF Tx, VarsRefresh, Disconnect, DisconnectPrivate, WakeOnly, Fetch, User,
     Marked, Shutting
<1> QED BY <1>2, <1>3, <1>4, <1>5, <1>6 DEF UserNext

LEMMA WorkerBusy ==
  ASSUME TypeOK, BusyInv, WorkerStep
  PROVE  BusyInv'
<1> USE DEF Idle, hostVars, chanVars
<1>a. OtherDones \subseteq SendsDone
  BY DEF OtherDones
<1>b. \A c \in SendsDone :
        Has(Append(done, c), OtherDones) <=> Has(done, OtherDones) \/ c \in OtherDones
  <2> SUFFICES ASSUME NEW c \in SendsDone
               PROVE  Has(Append(done, c), OtherDones)
                        <=> Has(done, OtherDones) \/ c \in OtherDones
    OBVIOUS
  <2>1. done \in Seq(SendsDone) BY DEF TypeOK
  <2> QED BY <2>1, HasEntry
<1>1. /\ done \in Seq(SendsDone) /\ queue \in Seq(Commands) /\ "run" \in SendsDone
      /\ "aux" \notin SendsDone /\ "quiet" \notin SendsDone
      /\ {"run", "tx", "connect", "wake", "disconnect"} \subseteq SendsDone
  BY DEF TypeOK, SendsDone
<1>2. ASSUME NEW c \in SendsDone, done' = Append(done, c), UNCHANGED <<busy, queue>>,
             cur \in OtherDones => c = cur
      PROVE  BusyInv'
  <2>1. Has(Append(done, c), OtherDones) <=> Has(done, OtherDones) \/ c \in OtherDones
    BY <1>b
  <2>2. Has(done', OtherDones) <=> Has(done, OtherDones) \/ c \in OtherDones
    BY <1>2, <2>1
  <2> QED BY <1>2, <2>2 DEF BusyInv, OtherComing, Has
<1>3. CASE Take
  <2>1. /\ queue # <<>> /\ cur = None /\ cur' = Head(queue) /\ queue' = Tail(queue)
        /\ UNCHANGED <<busy, done>>
    BY <1>3 DEF Take
  <2>2. Has(queue, OtherDones) <=> Head(queue) \in OtherDones \/ Has(Tail(queue), OtherDones)
    BY <1>1, <2>1, HasMore
  <2>3. None \notin OtherDones BY DEF OtherDones, SendsDone, None
  <2>4. Has(queue, OtherDones) <=> cur' \in OtherDones \/ Has(queue', OtherDones)
    BY <2>1, <2>2
  <2> QED BY <2>1, <2>3, <2>4 DEF BusyInv, OtherComing, Has
<1>4. CASE StatementFails \/ Relogin
  BY <1>4, SameBusy DEF StatementFails, Relogin, EmitsIn
<1>5. CASE FinishWork \/ ConnectDone \/ FinishDisconnect
  <2>1. cur \in SendsDone /\ done' = Append(done, cur) /\ UNCHANGED <<busy, queue>>
    BY <1>1, <1>5 DEF FinishWork, ConnectDone, FinishDisconnect, InConnect
  <2> QED BY <1>2, <2>1
<1>6. CASE FinishAux \/ FinishQuiet
  <2>1. cur \notin OtherDones /\ UNCHANGED <<busy, queue, done>>
    BY <1>a, <1>1, <1>6 DEF FinishAux, FinishQuiet
  <2> QED BY <2>1 DEF BusyInv, OtherComing, Has
<1>7. CASE ConnectOpened \/ ConnectTold \/ ConnectKept \/ ConnectRefused
  BY <1>7, SameBusy DEF ConnectOpened, ConnectTold, ConnectKept, ConnectRefused
<1>8. CASE Panic
  <2>1. UNCHANGED <<busy, queue>> BY <1>8 DEF Panic
  <2>2. CASE cur \in SendsDone
    <3>1. done' = Append(done, cur) BY <1>8, <2>2 DEF Panic
    <3> QED BY <1>2, <2>1, <2>2, <3>1
  <2>3. CASE cur \notin SendsDone
    <3>1. done' = Append(done, "run") BY <1>8, <2>3 DEF Panic
    <3> QED BY <1>a, <1>1, <1>2, <2>1, <2>3, <3>1
  <2> QED BY <2>2, <2>3
<1> QED BY <1>3, <1>4, <1>5, <1>6, <1>7, <1>8 DEF WorkerStep

\* A done signal that opens nothing is that of the reconnect.
LEMMA HostBusy ==
  ASSUME WakeInv, BusyInv, HostNext
  PROVE  BusyInv'
<1> USE DEF workVars
<1>1. CASE DrainStart \/ NextChannel
  BY <1>1, SameBusy DEF DrainStart, NextChannel, gateVars, chanVars
<1>2. CASE DrainConn
  BY <1>2, SameBusy DEF DrainConn
<1>3. CASE DrainApplied
  <2>1. "run" \in OtherDones BY DEF OtherDones, SendsDone
  <2>2. OtherComing' BY <1>3, <2>1, SentShuts DEF DrainApplied, Send, WakeInv
  <2> QED BY <2>2 DEF BusyInv
<1>4. CASE DrainEvent
  <2>1. busy' => busy BY <1>4 DEF DrainEvent, WakeInv, TypeOK
  <2> QED BY <1>4, <2>1, SameBusy DEF DrainEvent
<1>5. CASE DrainDone
  <2>1. CASE skip = 0
    <3>1. busy' = FALSE BY <1>5, <2>1 DEF DrainDone
    <3> QED BY <3>1 DEF BusyInv
  <2>2. CASE skip # 0
    <3>1. skip > 0 BY <2>2 DEF WakeInv, TypeOK
    <3>2. /\ done # <<>> /\ done' = Tail(done) /\ UNCHANGED <<busy, queue, cur>>
      BY <1>5, <3>1 DEF DrainDone
    <3>3. Head(done) = "wake"
      BY <2>2, <3>2 DEF WakeInv, WakeFirst, NoWake, WakeQueued, WakeTaken, WakeTold
    <3>4. done \in Seq(SendsDone) BY DEF WakeInv, TypeOK
    <3>5. Has(done, OtherDones) <=> Head(done) \in OtherDones \/ Has(Tail(done), OtherDones)
      BY <3>2, <3>4, HasMore
    <3>6. Has(done, OtherDones) => Has(done', OtherDones)
      BY <3>2, <3>3, <3>5 DEF OtherDones
    <3> QED BY <3>2, <3>6 DEF BusyInv, OtherComing, Has
  <2> QED BY <2>1, <2>2
<1> QED BY <1>1, <1>2, <1>3, <1>4, <1>5 DEF HostNext

\* What a sequence has is counted; a count splits over two sets of entries.
LEMMA CountSplit ==
  ASSUME NEW S, NEW s \in Seq(S), NEW A, NEW B, A \cap B = {}
  PROVE  /\ Count(s, A) \in Nat /\ Count(s, B) \in Nat
         /\ Count(s, A \cup B) = Count(s, A) + Count(s, B)
         /\ Has(s, A) => Count(s, A) > 0
<1> DEFINE I == {i \in DOMAIN s : s[i] \in A}
           J == {i \in DOMAIN s : s[i] \in B}
<1>1. IsFiniteSet(I) /\ IsFiniteSet(J)
  <2>1. DOMAIN s = 1..Len(s) /\ Len(s) \in Nat OBVIOUS
  <2>2. IsFiniteSet(1..Len(s)) BY <2>1, FS_Interval
  <2> QED BY <2>1, <2>2, FS_Subset
<1>2. I \cap J = {} /\ {i \in DOMAIN s : s[i] \in A \cup B} = I \cup J
  OBVIOUS
<1>3. /\ Cardinality(I) \in Nat /\ Cardinality(J) \in Nat /\ Cardinality(I \cap J) = 0
      /\ Cardinality(I \cup J) = Cardinality(I) + Cardinality(J) - Cardinality(I \cap J)
  BY <1>1, <1>2, FS_CardinalityType, FS_EmptySet, FS_Union
<1>4. Has(s, A) => Cardinality(I) > 0
  <2>1. I # {} => Cardinality(I) # 0
    BY <1>1, FS_EmptySet
  <2> QED BY <1>3, <2>1 DEF Has
<1>5. /\ Count(s, A) = Cardinality(I) /\ Count(s, B) = Cardinality(J)
      /\ Count(s, A \cup B) = Cardinality(I \cup J)
  BY <1>2 DEF Count
<1>6. Cardinality(I \cup J) = Cardinality(I) + Cardinality(J)
  BY <1>3
<1> QED BY <1>3, <1>4, <1>5, <1>6

\* What is coming is in the pipeline.
LEMMA ComingIsThere ==
  ASSUME TypeOK, OtherComing
  PROVE  Has(Signals, OtherDones)
<1>1. /\ done \in Seq(Commands) /\ queue \in Seq(Commands) /\ Taken \in Seq(Commands)
  <2>1. SendsDone \subseteq Commands BY DEF SendsDone, Commands
  <2> QED BY <2>1, EmptySeq DEF TypeOK, Taken
<1>2. cur \in OtherDones => Has(Taken, OtherDones)
  <2>1. ASSUME cur \in OtherDones PROVE Has(Taken, OtherDones)
    <3>1. Taken = <<cur>> BY <2>1 DEF Taken, OtherDones, SendsDone, None
    <3>2. 1 \in DOMAIN <<cur>> /\ <<cur>>[1] = cur OBVIOUS
    <3> QED BY <2>1, <3>1, <3>2 DEF Has
  <2> QED BY <2>1
<1>3. InFlight \in Seq(Commands) BY <1>1, Queues DEF InFlight
<1>4. Has(Taken, OtherDones) \/ Has(queue, OtherDones) => Has(InFlight, OtherDones)
  BY <1>1, HasMore DEF InFlight
<1>5. Has(done, OtherDones) \/ Has(InFlight, OtherDones) => Has(Signals, OtherDones)
  BY <1>1, <1>3, HasMore DEF Signals
<1> QED BY <1>2, <1>4, <1>5 DEF OtherComing

(* A shut gate has a cause: a done signal that is not to be skipped is      *)
(* still to come, or an answer that is counted is.  Left out are the        *)
(* workloads of SkipsAreWakes, the wakes that no done signal of their own   *)
(* follows (a run given up after it, a fetch) and a panic, which answers    *)
(* auxiliary work by a done signal.                                         *)
THEOREM BlockedIsForACause ==
  ASSUME Ops \cap {"tx", "vars", "disconnect", "disconnect_private",
                   "wake_only", "fetch"} = {},
         "panic" \notin Faults
  PROVE  Spec => []BlockedHasCause
<1>1. Marked /\ Shutting /\ "disconnect_private" \notin Ops
  BY DEF Marked, Shutting
<1>2. Init => BusyInv
  BY DEF Init, BusyInv
<1>3. WakeInv /\ BusyInv /\ [Next]_vars => BusyInv'
  <2> SUFFICES ASSUME WakeInv, BusyInv, [Next]_vars PROVE BusyInv'
    OBVIOUS
  <2>1. TypeOK BY DEF WakeInv
  <2>2. CASE UNCHANGED vars
    BY <2>2, SameBusy DEF vars, hostVars, workVars, chanVars
  <2> QED BY <1>1, <2>1, <2>2, UserBusy, WorkerBusy, HostBusy DEF Next, WorkerNext
<1>4. WakeInv /\ BusyInv /\ SkipsTheWake /\ AuxExact => BlockedHasCause
  <2> SUFFICES ASSUME WakeInv, BusyInv, SkipsTheWake, AuxExact PROVE BlockedHasCause
    OBVIOUS
  <2>1. ASSUME busy PROVE Count(Signals, SendsDone) > skip
    <3>1. Has(Signals, OtherDones)
      BY <2>1, ComingIsThere DEF WakeInv, BusyInv
    <3>2. Signals \in Seq(Commands) BY SignalsFirst
    <3>3. OtherDones \cap {"wake"} = {} /\ SendsDone = OtherDones \cup {"wake"}
      BY DEF OtherDones, SendsDone
    <3>4. /\ Count(Signals, OtherDones) \in Nat /\ Count(Signals, {"wake"}) \in Nat
          /\ Count(Signals, SendsDone) = Count(Signals, OtherDones) + Count(Signals, {"wake"})
          /\ Count(Signals, OtherDones) > 0
      BY <3>1, <3>2, <3>3, CountSplit
    <3>5. skip = Count(Signals, {"wake"}) BY DEF SkipsTheWake
    <3> QED BY <3>4, <3>5
  <2> QED BY <2>1 DEF BlockedHasCause, AuxExact
<1>5. Spec => []SkipsTheWake
  BY SkipsAreWakes
<1>6. Spec => []AuxExact
  BY <1>1, AuxIsExact
<1> QED BY <1>1, <1>2, <1>3, <1>4, <1>5, <1>6, WakeIsFirst, PTL DEF Spec
=============================================================================
