-------------------------- MODULE RunnerTx_proofs --------------------------
(***************************************************************************)
(* Theorems of RunnerTx.                                                   *)
(*                                                                         *)
(* Types first.  Then the inductive invariant IInv: the connection is      *)
(* Sound (its flags tell whether a transaction is open, and what is to be  *)
(* ended quietly has no change in it), the run under way fits the site,    *)
(* and the list is true.  Each step preserves it and moves the changes in  *)
(* one of the ways of Moves; from this follow the list, the flags and the  *)
(* refinement of UnitOfWork.  Consent is proved last, with the invariant   *)
(* Asked beside IInv.                                                      *)
(*                                                                         *)
(* What is asked of a site is about its workload (Disciplined, AsksFirst), *)
(* never about the number of changes or the capabilities of the server.    *)
(***************************************************************************)
EXTENDS RunnerTx, TLAPS

\* The server's operators keep a connection a connection.
LEMMA ServerTypes ==
  ASSUME NEW c \in Connection
  PROVE  /\ SrvCommitAll(c) \in Connection
         /\ SrvCommit(c) \in Connection
         /\ SrvRollback(c) \in Connection
         /\ SrvBegin(c) \in Connection
         /\ \A x \in Changes : SrvWrite(c, x) \in Connection
<1>1. /\ c.depth \in Nat /\ c.uncommitted \subseteq Changes
      /\ c.durable \subseteq Changes /\ c.undone \subseteq Changes
  BY DEF Connection
<1>2. SrvCommitAll(c) \in Connection
  BY <1>1 DEF SrvCommitAll, Connection
<1>3. SrvCommit(c) \in Connection
  BY <1>1, <1>2 DEF SrvCommit, Connection
<1>4. SrvRollback(c) \in Connection
  BY <1>1 DEF SrvRollback, Connection
<1>5. SrvBegin(c) \in Connection
  BY <1>1, <1>2 DEF SrvBegin, Connection
<1>6. \A x \in Changes : SrvWrite(c, x) \in Connection
  BY <1>1 DEF SrvWrite, Connection
<1> QED BY <1>2, <1>3, <1>4, <1>5, <1>6

\* So do the runner's.
LEMMA RunnerTypes ==
  ASSUME NEW c \in Connection, NEW keep \in BOOLEAN
  PROVE  /\ NoteTxEnded(c) \in Connection
         /\ LeftOpen(c) \in Connection
         /\ CloseCursor(c) \in Connection
         /\ ManualBegin(c) \in Connection
         /\ AutoEnd(c, keep) \in Connection
         /\ ReadEnd(c, keep) \in Connection
         /\ AfterRead(c, keep) \in Connection
         /\ AfterEnd(c) \in Connection
         /\ ApplyBegun(c) \in Connection
<1>1. /\ SrvCommit(c) \in Connection /\ SrvRollback(c) \in Connection
      /\ SrvBegin(c) \in Connection
  BY ServerTypes
<1>2. NoteTxEnded(c) \in Connection /\ LeftOpen(c) \in Connection
  BY DEF NoteTxEnded, LeftOpen, Connection
<1>3. FinishTx(c) \in Connection
  BY <1>1 DEF FinishTx, Connection
<1>4. CloseCursor(c) \in Connection
  BY <1>3 DEF CloseCursor, Connection, Cursors
<1>5. ManualBegin(c) \in Connection
  BY <1>1 DEF ManualBegin, Connection
<1>6. \A k \in BOOLEAN : AutoEnd(c, k) \in Connection
  BY <1>1 DEF AutoEnd, Connection, Cursors
<1>7. ReadEnd(c, keep) \in Connection
  BY <1>1 DEF ReadEnd, Connection, Cursors
<1>8. AfterRead(c, keep) \in Connection /\ AfterEnd(c) \in Connection
  BY <1>2, <1>6, <1>7 DEF AfterRead, AfterEnd
<1>9. ApplyBegun(c) \in Connection
  BY <1>1 DEF ApplyBegun
<1> QED BY <1>2, <1>4, <1>5, <1>6, <1>7, <1>8, <1>9

\* Steps that begin and end a run keep the types.
LEMMA RunTypes ==
  ASSUME TypeOK,
         \/ StartRun \/ StartConfirmed \/ StopAtCommit \/ EndRun \/ EndHeldRun
  PROVE  TypeOK'
<1> USE DEF TypeOK, Runs, Rests, HeldRuns
<1>0. May(TRUE) \subseteq {"change", "ddl"} /\ May(FALSE) \subseteq {"change", "ddl"}
  BY DEF May
<1>1. CASE StartRun
  BY <1>0, <1>1 DEF StartRun, hostVars
<1>2. CASE StartConfirmed
  BY <1>0, <1>2 DEF StartConfirmed, hostVars, runVars
<1>3. CASE StopAtCommit
  BY <1>3 DEF StopAtCommit, RunOver, Hold, hostVars
<1>4. CASE EndRun
  BY <1>4 DEF EndRun, RunOver, hostVars
<1>5. CASE EndHeldRun
  BY <1>5 DEF EndHeldRun, RunOver, Hold
<1> QED BY <1>1, <1>2, <1>3, <1>4, <1>5
\* Statements of a run keep the types.
LEMMA RunStatementTypes ==
  ASSUME TypeOK,
         \/ Read \/ Lock \/ BeginStmt \/ StatementFails \/ CommitStmt \/ RollbackStmt
         \/ \E x \in Unused : Change(x) \/ DdlInTx(x) \/ DdlCommits(x)
         \/ EndBelowThreshold
  PROVE  TypeOK'
<1> USE DEF TypeOK, Runs, Rests
<1>0. Closed \in Connection
  BY RunnerTypes DEF TypeOK, Closed
<1>1. Ready \in Connection
  BY <1>0, RunnerTypes DEF Ready
<1>2. CASE Read
  <2>1. conn' \in Connection
    BY <1>1, <1>2, RunnerTypes DEF Read
  <2> QED BY <2>1, <1>2 DEF Read, Statement, hostVars
<1>3. CASE Lock
  <2>1. AutoEnd(Ready, FALSE) \in Connection
    BY <1>1, RunnerTypes
  <2>2. [Ready EXCEPT !.txUser = TRUE] \in Connection
    BY <1>1 DEF Connection
  <2> QED BY <2>1, <2>2, <1>3 DEF Lock, Statement, hostVars
<1>4. CASE BeginStmt
  <2>1. SrvBegin(Closed) \in Connection
    BY <1>0, ServerTypes
  <2>2. AutoEnd(SrvBegin(Closed), FALSE) \in Connection
    BY <2>1, RunnerTypes
  <2>3. [SrvBegin(Closed) EXCEPT !.txUser = TRUE] \in Connection
    BY <2>1 DEF Connection
  <2> QED BY <2>2, <2>3, <1>4 DEF BeginStmt, Statement, hostVars
<1>5. CASE StatementFails
  BY <1>0, <1>1, <1>5 DEF StatementFails, hostVars
<1>6. CASE CommitStmt
  <2>1. AfterEnd(SrvCommit(Closed)) \in Connection
    BY <1>0, ServerTypes, RunnerTypes
  <2> QED BY <2>1, <1>6 DEF CommitStmt, TxClose
<1>7. CASE RollbackStmt
  <2>1. AfterEnd(SrvRollback(Closed)) \in Connection
    BY <1>0, ServerTypes, RunnerTypes
  <2> QED BY <2>1, <1>7 DEF RollbackStmt, TxClose
<1>8. ASSUME NEW x \in Unused, Change(x) \/ DdlInTx(x) \/ DdlCommits(x)
      PROVE  TypeOK'
  <2>0. x \in Changes
    BY DEF Unused
  <2>1. SrvWrite(Ready, x) \in Connection
    BY <1>1, <2>0, ServerTypes
  <2>2. AutoEnd(SrvWrite(Ready, x), FALSE) \in Connection
    BY <2>1, RunnerTypes
  <2>3. [SrvWrite(Ready, x) EXCEPT !.txChanged = TRUE] \in Connection
    BY <2>1 DEF Connection
  <2>4. AfterEnd(SrvCommitAll(SrvWrite(Ready, x))) \in Connection
    BY <2>1, ServerTypes, RunnerTypes
  <2>5. CASE Change(x)
    BY <2>0, <2>2, <2>3, <2>5 DEF Change, Statement, Listed
  <2>6. CASE DdlInTx(x)
    BY <2>0, <2>2, <2>3, <2>6 DEF DdlInTx, Statement, Listed
  <2>7. CASE DdlCommits(x)
    BY <2>4, <2>7 DEF DdlCommits, Statement, TxClose
  <2> QED BY <1>8, <2>5, <2>6, <2>7
<1>9. CASE EndBelowThreshold
  <2>1. NoteTxEnded(SrvCommit(conn)) \in Connection
    BY ServerTypes, RunnerTypes
  <2> QED BY <2>1, <1>9 DEF EndBelowThreshold, RunOver, hostVars
<1> QED BY <1>2, <1>3, <1>4, <1>5, <1>6, <1>7, <1>8, <1>9

\* Commands outside a run keep the types.
LEMMA CommandTypes ==
  ASSUME TypeOK,
         \/ CommitCmd \/ RollbackCmd \/ CursorEnds \/ Refresh
         \/ ApplyRolledBack \/ ApplyFailsEarly
         \/ \E x \in Unused : Apply(x) \/ ApplyFailsHalfway(x)
         \/ Reconnect \/ ConnectOtherFails \/ ConnectionLost
         \/ DisconnectInRun \/ Disconnect \/ Switch \/ SwitchElsewhere
  PROVE  TypeOK'
<1> USE DEF TypeOK, Command, runVars, hostVars, TxClose
<1>0. Closed \in Connection /\ Ready \in Connection
  BY RunnerTypes DEF TypeOK, Closed, Ready
<1>1. NoteTxEnded(SrvCommit(Closed)) \in Connection
  BY <1>0, ServerTypes, RunnerTypes
<1>2. NoteTxEnded(SrvRollback(Closed)) \in Connection
  BY <1>0, ServerTypes, RunnerTypes
<1>3. ApplyBegun(conn) \in Connection
  BY RunnerTypes
<1>4. CASE CommitCmd BY <1>1, <1>4 DEF CommitCmd, Rests
<1>5. CASE RollbackCmd BY <1>2, <1>5 DEF RollbackCmd, Rests
<1>6. CASE CursorEnds BY <1>0, <1>6 DEF CursorEnds
<1>7. CASE Refresh
  <2>1. conn' \in Connection
    BY <1>0, <1>7, RunnerTypes DEF Refresh
  <2> QED BY <2>1, <1>7 DEF Refresh
<1>8. CASE ApplyRolledBack
  <2>1. NoteTxEnded(SrvRollback(ApplyBegun(conn))) \in Connection
    BY <1>3, ServerTypes, RunnerTypes
  <2>2. [ApplyBegun(conn) EXCEPT !.txOpen = @ \/ ApplyNeedsBegin(conn)] \in Connection
    BY <1>3 DEF Connection
  <2>3. conn' \in Connection
    BY <2>1, <2>2, <1>8 DEF ApplyRolledBack
  <2>4. emptyApply' \in BOOLEAN
    BY <1>8 DEF ApplyRolledBack
  <2> QED BY <2>3, <2>4, <1>8 DEF ApplyRolledBack, CanApply
<1>9. CASE ApplyFailsEarly
  BY <1>3, <1>9, RunnerTypes DEF ApplyFailsEarly, CanApply
<1>10. ASSUME NEW x \in Unused, Apply(x) \/ ApplyFailsHalfway(x)
       PROVE  TypeOK'
  <2>0. x \in Changes
    BY DEF Unused
  <2>1. SrvWrite(ApplyBegun(conn), x) \in Connection
    BY <1>3, <2>0, ServerTypes
  <2>2. NoteTxEnded(SrvCommit(SrvWrite(ApplyBegun(conn), x))) \in Connection
    BY <2>1, ServerTypes, RunnerTypes
  <2>3. LeftOpen(SrvWrite(ApplyBegun(conn), x)) \in Connection
    BY <2>1, RunnerTypes
  <2>4. CASE Apply(x) BY <2>0, <2>2, <2>3, <2>4 DEF Apply, CanApply, Listed
  <2>5. CASE ApplyFailsHalfway(x)
    BY <2>0, <2>3, <2>5 DEF ApplyFailsHalfway, CanApply, Listed
  <2> QED BY <1>10, <2>4, <2>5
<1>11. CASE Reconnect \/ DisconnectInRun \/ Disconnect
  <2>1. SrvRollback(SrvCommit(Closed)) \in Connection
    BY <1>0, ServerTypes
  <2>2. SessionClosed(Closed) \in Connection
    BY <2>1 DEF SessionClosed, Connection
  <2>3. NoteTxEnded(SessionClosed(Closed)) \in Connection
    BY <2>2, RunnerTypes
  <2>4. \A ok \in BOOLEAN :
          [NoteTxEnded(SessionClosed(Closed)) EXCEPT !.up = ok] \in Connection
    BY <2>3 DEF Connection
  <2>5. CASE Reconnect
    BY <2>4, <2>5 DEF Reconnect, Rests
  <2>6. CASE DisconnectInRun
    BY <2>2, <2>6 DEF DisconnectInRun, Rests
  <2>7. CASE Disconnect
    BY <2>2, <2>3, <2>7 DEF Disconnect, Rests
  <2> QED BY <1>11, <2>5, <2>6, <2>7
<1>12. CASE ConnectOtherFails
  BY <1>0, <1>12, ServerTypes DEF ConnectOtherFails
<1>13. CASE ConnectionLost
  <2>1. NoteTxEnded(SrvRollback(conn)) \in Connection
    BY ServerTypes, RunnerTypes
  <2>2. [NoteTxEnded(SrvRollback(conn)) EXCEPT !.cursor = "none"] \in Connection
    BY <2>1 DEF Connection, Cursors
  <2> QED BY <2>2, <1>13 DEF ConnectionLost, Rests
<1>14. CASE Switch BY <1>14 DEF Switch, Toggled, Rests
<1>15. CASE SwitchElsewhere BY <1>15 DEF SwitchElsewhere, Toggled
<1> QED BY <1>4, <1>5, <1>6, <1>7, <1>8, <1>9, <1>10, <1>11, <1>12, <1>13,
           <1>14, <1>15

\* Every step keeps the types.
LEMMA TypeStep == TypeOK /\ [Next]_vars => TypeOK'
<1> SUFFICES ASSUME TypeOK, [Next]_vars PROVE TypeOK'
  OBVIOUS
<1>1. CASE UNCHANGED vars
  BY <1>1 DEF vars, runVars, hostVars, TypeOK
<1> QED BY <1>1, RunTypes, RunStatementTypes, CommandTypes DEF Next

\* The types hold at the start.
LEMMA TypeInit == Init => TypeOK
<1>1. NewConnection \in Connection
  BY DEF NewConnection, Connection, Cursors
<1> QED BY <1>1, TxAssumption DEF Init, TypeOK, Runs, Rests

(* Every reachable state of a session is well typed, for every set of       *)
(* servers and workloads.                                                  *)
THEOREM TypeCorrect == Spec => []TypeOK
BY TypeInit, TypeStep, PTL DEF Spec

-----------------------------------------------------------------------------
\* The same changes open, durable and undone.
Same(c, d) == /\ d.uncommitted = c.uncommitted /\ d.durable = c.durable
              /\ d.undone = c.undone

\* What the runner may rely on about its connection.
Sound(c) ==
  /\ c.depth <= 1
  /\ site.begin /\ c.up => (c.txOpen <=> c.depth = 1) /\ (c.txUser => c.txOpen)
  /\ c.uncommitted # {} => c.txChanged
  /\ c.cursor \in {"commit", "rollback"} => c.uncommitted = {} /\ ~c.txUser
  /\ ~site.prod /\ mode = "auto" => c.uncommitted = {} /\ ~c.txUser
  /\ ~site.prod /\ "switch" \in site.ops => ~c.txUser
  /\ ~site.prod /\ "switch" \notin site.ops /\ mode = "auto" => ~c.txOpen

\* close_cursor of a sound connection ends only what has no change in it.
LEMMA ClosedSound ==
  ASSUME TypeOK, Sound(conn)
  PROVE  /\ Sound(Closed) /\ Closed.cursor = "none"
         /\ Same(conn, Closed)
         /\ Closed.txUser = conn.txUser /\ Closed.up = conn.up
         /\ Closed.txOpen => conn.txOpen
<1> DEFINE c == conn
<1>0. conn \in Connection /\ Closed \in Connection
  BY RunnerTypes DEF TypeOK, Closed
<1>1. CASE conn.cursor \notin {"commit", "rollback"}
  <2>1. Closed = [conn EXCEPT !.cursor = "none"]
    BY <1>1 DEF Closed, CloseCursor, FinishTx
  <2> QED BY <2>1, <1>0 DEF Sound, Same, Connection
<1>2. CASE conn.cursor = "commit"
  <2>1. Closed = [[SrvCommit(conn) EXCEPT !.txOpen = FALSE] EXCEPT !.cursor = "none"]
    BY <1>2 DEF Closed, CloseCursor, FinishTx
  <2>2. SrvCommit(conn) = SrvCommitAll(conn) /\ conn.uncommitted = {} /\ ~conn.txUser
    BY <1>0, <1>2 DEF SrvCommit, Sound, Connection
  <2> QED BY <2>1, <2>2, <1>0 DEF Sound, Same, Connection, SrvCommitAll
<1>3. CASE conn.cursor = "rollback"
  <2>1. Closed = [[SrvRollback(conn) EXCEPT !.txOpen = FALSE] EXCEPT !.cursor = "none"]
    BY <1>3 DEF Closed, CloseCursor, FinishTx
  <2>2. conn.uncommitted = {} /\ ~conn.txUser
    BY <1>3 DEF Sound
  <2> QED BY <2>1, <2>2, <1>0 DEF Sound, Same, Connection, SrvRollback
<1> QED BY <1>1, <1>2, <1>3
\* A statement is about to run: there is a session, and automatic commit is in
\* force exactly off production and in automatic mode.
Here == /\ TypeOK /\ Sound(conn) /\ Disciplined(site) /\ conn.up
        /\ AutoEff <=> mode = "auto" /\ ~site.prod

\* manual_begin_sql leaves a transaction open wherever one is needed.
LEMMA ReadySound ==
  ASSUME Here
  PROVE  /\ Sound(Ready) /\ Ready.cursor = "none" /\ Same(conn, Ready)
         /\ Ready.txUser = conn.txUser /\ Ready.up
         /\ ~AutoEff /\ site.begin => Ready.txOpen
<1>0. Closed \in Connection
  BY RunnerTypes DEF Here, TypeOK, Closed
<1>1. /\ Sound(Closed) /\ Closed.cursor = "none" /\ Same(conn, Closed)
      /\ Closed.txUser = conn.txUser /\ Closed.up
  BY ClosedSound DEF Here
<1>2. CASE ~NeedsBegin(Closed)
  <2>1. Ready = Closed
    BY <1>2 DEF Ready, ManualBegin
  <2>2. ~AutoEff /\ site.begin => Closed.txOpen
    BY <1>1, <1>2 DEF NeedsBegin, Sound
  <2> QED BY <1>1, <2>1, <2>2
<1>3. CASE NeedsBegin(Closed)
  <2>1. Closed.depth = 0 /\ ~AutoEff /\ ~Closed.txUser
    BY <1>0, <1>1, <1>3 DEF NeedsBegin, Sound, Connection
  <2>2. Ready = [[Closed EXCEPT !.depth = 1] EXCEPT !.txOpen = TRUE]
    BY <1>3, <2>1 DEF Ready, ManualBegin, SrvBegin
  <2> QED BY <1>0, <1>1, <2>1, <2>2 DEF Here, Sound, Same, Connection
<1> QED BY <1>2, <1>3

\* A change is saved by itself or joins the open ones, never both.
LEMMA WriteSound ==
  ASSUME Here, NEW x \in Changes
  PROVE  LET c == SrvWrite(Ready, x)
             a == AutoEnd(c, FALSE)
             m == [c EXCEPT !.txChanged = TRUE]
         IN /\ AutoEff => /\ Sound(a) /\ a.uncommitted = {}
                          /\ a.durable = conn.durable \cup {x}
                          /\ a.undone = conn.undone
            /\ ~AutoEff => /\ Sound(m)
                           /\ m.uncommitted = conn.uncommitted \cup {x}
                           /\ m.durable = conn.durable /\ m.undone = conn.undone
<1> DEFINE c == SrvWrite(Ready, x)
           a == AutoEnd(c, FALSE)
           m == [c EXCEPT !.txChanged = TRUE]
<1>0. Ready \in Connection /\ c \in Connection
  BY RunnerTypes, ServerTypes DEF Here, TypeOK, Closed, Ready
<1>1. /\ Sound(Ready) /\ Ready.cursor = "none" /\ Same(conn, Ready) /\ Ready.up
      /\ ~AutoEff /\ site.begin => Ready.txOpen
  BY ReadySound
<1>2. /\ c.depth <= 1 /\ c.undone = conn.undone
      /\ c.cursor = "none" /\ c.txOpen = Ready.txOpen /\ c.txUser = Ready.txUser
      /\ c.uncommitted \cup c.durable = conn.uncommitted \cup conn.durable \cup {x}
  BY <1>0, <1>1 DEF SrvWrite, Sound, Same, Connection
<1>3. ASSUME ~AutoEff
      PROVE  /\ Sound(m)
             /\ m.uncommitted = conn.uncommitted \cup {x}
             /\ m.durable = conn.durable /\ m.undone = conn.undone
  <2>1. ~(Ready.depth = 0 /\ site.autocommit)
    BY <1>1, <1>3 DEF Here, Disciplined, Sound
  <2>2. c = [[Ready EXCEPT !.uncommitted = @ \cup {x}]
                    EXCEPT !.depth = IF @ = 0 THEN 1 ELSE @]
    BY <2>1 DEF SrvWrite
  <2>3. site.begin => c.txOpen /\ c.depth = 1
    BY <1>0, <1>1, <1>3, <2>2 DEF Sound, Connection
  <2>4. ~(mode = "auto" /\ ~site.prod)
    BY <1>3 DEF Here
  <2> QED BY <1>0, <1>1, <2>2, <2>3, <2>4 DEF Sound, Same, Connection
<1>4. ASSUME AutoEff
      PROVE  /\ Sound(a) /\ a.uncommitted = {}
             /\ a.durable = conn.durable \cup {x} /\ a.undone = conn.undone
  <2>1. conn.uncommitted = {} /\ ~c.txUser
    BY <1>1, <1>2, <1>4 DEF Here, Sound
  <2>2. CASE NeedsCommit(c)
    <3>1. SrvCommit(c) = SrvCommitAll(c)
      BY <1>0, <1>2 DEF SrvCommit, Connection
    <3>2. a = [SrvCommitAll(c) EXCEPT !.txOpen = FALSE]
      BY <2>2, <3>1 DEF AutoEnd
    <3>3. conn.undone = c.undone /\ c.uncommitted \cup c.durable = conn.durable \cup {x}
      BY <1>2, <2>1
    <3> HIDE DEF a, c
    <3>4. /\ a.depth = 0 /\ ~a.txOpen /\ a.txUser = c.txUser /\ a.cursor = c.cursor
          /\ a.uncommitted = {} /\ a.durable = c.durable \cup c.uncommitted
          /\ a.undone = c.undone
      BY <1>0, <3>2 DEF SrvCommitAll, Connection
    <3>5. Sound(a)
      BY <1>2, <2>1, <3>4 DEF Sound
    <3> QED BY <3>3, <3>4, <3>5
  <2>3. CASE ~NeedsCommit(c)
    <3>1. site.autocommit /\ ~c.txOpen /\ site.begin
      BY <2>3 DEF NeedsCommit, Here, Disciplined
    <3>2. Ready.depth = 0
      BY <1>0, <1>1, <1>2, <3>1 DEF Sound, Connection
    <3>3. c = [Ready EXCEPT !.durable = @ \cup {x}]
      BY <3>1, <3>2 DEF SrvWrite
    <3>4. a = [c EXCEPT !.cursor = "none"]
      BY <2>3 DEF AutoEnd
    <3> HIDE DEF a, c
    <3>5. /\ a.depth = 0 /\ ~a.txOpen /\ ~a.txUser /\ a.cursor = "none"
          /\ a.uncommitted = Ready.uncommitted /\ a.durable = Ready.durable \cup {x}
          /\ a.undone = Ready.undone
      BY <1>0, <2>1, <3>1, <3>2, <3>3, <3>4 DEF Connection
    <3>6. Sound(a)
      BY <1>1, <2>1, <3>5 DEF Sound, Same
    <3> QED BY <1>1, <2>1, <3>5, <3>6 DEF Same
  <2> QED BY <2>2, <2>3
<1> QED BY <1>3, <1>4
\* The end of a read neither saves nor drops a change.
LEMMA ReadSound ==
  ASSUME Here, NEW keep \in BOOLEAN
  PROVE  Sound(AfterRead(Ready, keep)) /\ Same(conn, AfterRead(Ready, keep))
<1>0. Ready \in Connection
  BY RunnerTypes DEF Here, TypeOK, Closed, Ready
<1>1. Sound(Ready) /\ Ready.cursor = "none" /\ Same(conn, Ready)
  BY ReadySound
<1>2. CASE AutoEff
  <2>1. /\ Ready.uncommitted = {} /\ ~Ready.txUser
        /\ SrvCommit(Ready) = SrvCommitAll(Ready)
    BY <1>0, <1>1, <1>2 DEF Here, Sound, SrvCommit, Connection
  <2>2. CASE ~NeedsCommit(Ready)
    <3>1. AfterRead(Ready, keep) = [Ready EXCEPT !.cursor = IF keep THEN "kept" ELSE "none"]
      BY <1>2, <2>2 DEF AfterRead, AutoEnd
    <3> QED BY <1>0, <1>1, <3>1 DEF Sound, Same, Connection
  <2>3. CASE NeedsCommit(Ready) /\ keep
    <3>1. AfterRead(Ready, keep) = [Ready EXCEPT !.cursor = "commit"]
      BY <1>2, <2>3 DEF AfterRead, AutoEnd
    <3> QED BY <1>0, <1>1, <2>1, <3>1 DEF Sound, Same, Connection
  <2>4. CASE NeedsCommit(Ready) /\ ~keep
    <3>1. AfterRead(Ready, keep) = [SrvCommitAll(Ready) EXCEPT !.txOpen = FALSE]
      BY <1>2, <2>1, <2>4 DEF AfterRead, AutoEnd
    <3> QED BY <1>0, <1>1, <2>1, <3>1 DEF SrvCommitAll, Sound, Same, Connection
  <2> QED BY <2>2, <2>3, <2>4
<1>3. CASE ~AutoEff
  <2> SUFFICES Sound(ReadEnd(Ready, keep)) /\ Same(conn, ReadEnd(Ready, keep))
    BY <1>3 DEF AfterRead
  <2>2. CASE ~(EndsReads /\ ~Ready.txChanged /\ ~Ready.txUser)
    <3>1. PICK v \in {"kept", "none"} : ReadEnd(Ready, keep) = [Ready EXCEPT !.cursor = v]
      BY <2>2 DEF ReadEnd
    <3>2. /\ Sound([Ready EXCEPT !.cursor = v]) /\ Same(conn, [Ready EXCEPT !.cursor = v])
      BY <1>0, <1>1 DEF Sound, Same, Connection
    <3> QED BY <3>1, <3>2
  <2>3. CASE (EndsReads /\ ~Ready.txChanged /\ ~Ready.txUser) /\ keep
    <3>1. ReadEnd(Ready, keep) = [Ready EXCEPT !.cursor = "rollback"]
      BY <2>3 DEF ReadEnd
    <3>2. Ready.uncommitted = {}
      BY <1>1, <2>3 DEF Sound
    <3> QED BY <1>0, <1>1, <2>3, <3>1, <3>2 DEF Sound, Same, Connection
  <2>4. CASE (EndsReads /\ ~Ready.txChanged /\ ~Ready.txUser) /\ ~keep
    <3>1. ReadEnd(Ready, keep) = [SrvRollback(Ready) EXCEPT !.txOpen = FALSE]
      BY <2>4 DEF ReadEnd
    <3>2. Ready.uncommitted = {}
      BY <1>1, <2>4 DEF Sound
    <3> QED BY <1>0, <1>1, <2>4, <3>1, <3>2
            DEF SrvRollback, Sound, Same, Connection
  <2> QED BY <2>2, <2>3, <2>4
<1> QED BY <1>2, <1>3

\* Nor does a lock.
LEMMA LockSound ==
  ASSUME Here, "lock" \in site.ops
  PROVE  /\ AutoEff => /\ Sound(AutoEnd(Ready, FALSE))
                       /\ Same(conn, AutoEnd(Ready, FALSE))
         /\ ~AutoEff => /\ Sound([Ready EXCEPT !.txUser = TRUE])
                        /\ Same(conn, [Ready EXCEPT !.txUser = TRUE])
<1>1. AutoEff => AfterRead(Ready, FALSE) = AutoEnd(Ready, FALSE)
  BY DEF AfterRead
<1>2. ASSUME ~AutoEff
      PROVE  /\ Sound([Ready EXCEPT !.txUser = TRUE])
             /\ Same(conn, [Ready EXCEPT !.txUser = TRUE])
  <2>1. Ready \in Connection
    BY RunnerTypes DEF Here, TypeOK, Closed, Ready
  <2>2. /\ Sound(Ready) /\ Ready.cursor = "none" /\ Same(conn, Ready)
        /\ site.begin => Ready.txOpen
    BY <1>2, ReadySound
  <2>3. ~(~site.prod /\ mode = "auto") /\ ~(~site.prod /\ "switch" \in site.ops)
    BY <1>2 DEF Here, Disciplined
  <2> QED BY <2>1, <2>2, <2>3 DEF Sound, Same, Connection
<1> QED BY <1>1, <1>2, ReadSound

\* A transaction has ended at the server; what AfterEnd makes of the flags.
LEMMA EndSound ==
  ASSUME Here, NEW c \in Connection, c.depth = 0, c.uncommitted = {},
         c.cursor = "none", AutoEff => ~c.txUser
  PROVE  Sound(AfterEnd(c)) /\ Same(c, AfterEnd(c))
<1>1. CASE ~AutoEff
  <2>1. AfterEnd(c) = NoteTxEnded(c)
    BY <1>1 DEF AfterEnd
  <2> QED BY <2>1 DEF NoteTxEnded, Sound, Same, Connection
<1>2. CASE AutoEff /\ ~NeedsCommit(c)
  <2>1. AfterEnd(c) = [c EXCEPT !.cursor = "none"] /\ ~c.txOpen /\ ~c.txUser
    BY <1>2 DEF AfterEnd, AutoEnd, NeedsCommit
  <2> QED BY <2>1 DEF Sound, Same, Connection
<1>3. CASE AutoEff /\ NeedsCommit(c)
  <2>1. SrvCommit(c) = SrvCommitAll(c)
    BY DEF SrvCommit
  <2>2. AfterEnd(c) = [SrvCommitAll(c) EXCEPT !.txOpen = FALSE] /\ ~c.txUser
    BY <1>3, <2>1 DEF AfterEnd, AutoEnd
  <2> QED BY <2>2 DEF SrvCommitAll, Sound, Same, Connection
<1> QED BY <1>1, <1>2, <1>3
-----------------------------------------------------------------------------
\* The run under way and the held list fit the site and the mode.
RunsFit ==
  /\ run = "none" => heldNow = {}
  /\ run = "plain" => ~site.prod
  /\ run \in HeldRuns => site.prod
  /\ ~site.prod => heldNow = {}
  /\ mode = "manual" => heldNow \subseteq txPending
  /\ rest # "none" => site.prod

\* The inductive invariant.
IInv == TypeOK /\ Sound(conn) /\ RunsFit /\ ListMatches

\* What a step may do to the changes of the connection.
Adds(c, d, x) == /\ d.uncommitted = c.uncommitted \cup {x}
                 /\ d.durable = c.durable /\ d.undone = c.undone
Saves(c, d, new) == /\ d.uncommitted = {}
                    /\ d.durable = c.durable \cup c.uncommitted \cup new
                    /\ d.undone = c.undone
Drops(c, d) == /\ d.uncommitted = {} /\ d.durable = c.durable
               /\ d.undone = c.undone \cup c.uncommitted
Moves(d) == \/ Same(conn, d)
            \/ \E x \in Unused : Adds(conn, d, x) \/ Saves(conn, d, {x})
            \/ Saves(conn, d, {})
            \/ Drops(conn, d)

\* What is shown of every step.
Result == Sound(conn)' /\ RunsFit' /\ ListMatches' /\ Moves(conn')

\* Soundness of the new connection, where site and mode stay.
LEMMA Steady ==
  ASSUME UNCHANGED <<site, mode>>, Sound(conn')
  PROVE  Sound(conn)'
BY DEF Sound

\* The premise of the statement lemmas, in a run ...
LEMMA HereInRun ==
  ASSUME IInv, Disciplined(site), run # "none", conn.up
  PROVE  Here
BY DEF IInv, Here, TypeOK, Runs, RunsFit, AutoEff, HeldRuns

\* ... and for a refresh.
LEMMA HereOutside ==
  ASSUME IInv, Disciplined(site), run = "none", conn.up, ~site.prod
  PROVE  Here
BY DEF IInv, Here, AutoEff, HeldRuns

\* Steps that leave the changes as they are.
LEMMA KeepingSteps ==
  ASSUME IInv, Disciplined(site), Read \/ Lock \/ StatementFails \/ Refresh
  PROVE  Result
<1>1. Sound(conn') /\ Same(conn, conn')
  <2>1. CASE Read
    <3>1. Here
      BY <2>1, HereInRun DEF Read, Statement
    <3> QED BY <2>1, <3>1, ReadSound DEF Read
  <2>2. CASE Lock
    <3>1. Here /\ "lock" \in site.ops
      BY <2>2, HereInRun DEF Lock, Statement
    <3> QED BY <2>2, <3>1, LockSound DEF Lock
  <2>3. CASE StatementFails
    <3>1. conn.up => Here
      BY <2>3, HereInRun DEF StatementFails
    <3>2. Sound(Closed) /\ Same(conn, Closed)
      BY ClosedSound DEF IInv
    <3> QED BY <2>3, <3>1, <3>2, ReadySound DEF StatementFails
  <2>4. CASE Refresh
    <3>1. Here
      BY <2>4, HereOutside DEF Refresh, Command, Disciplined
    <3> QED BY <2>4, <3>1, ReadSound DEF Refresh
  <2> QED BY <2>1, <2>2, <2>3, <2>4
<1>2. UNCHANGED <<site, mode, heldNow, txPending, rest>>
  BY DEF Read, Lock, StatementFails, Refresh, Statement, Command, runVars, hostVars
<1>3. RunsFit'
  <2>1. run' = run \/ (run = "confirmed" /\ run' = "held")
    BY DEF Read, Lock, StatementFails, Refresh, Statement, Command, runVars
  <2> QED BY <1>2, <2>1 DEF RunsFit, IInv, HeldRuns
<1>4. ListMatches'
  BY <1>1, <1>2 DEF IInv, ListMatches, UserList, Same
<1> QED BY <1>1, <1>2, <1>3, <1>4, Steady DEF Result, Moves

\* Steps that make one change.
LEMMA WritingSteps ==
  ASSUME IInv, Disciplined(site), NEW x \in Unused, Change(x) \/ DdlInTx(x)
  PROVE  Result
<1>0. x \in Changes
  BY DEF Unused
<1>1. Here /\ run # "none"
  BY HereInRun DEF Change, DdlInTx, Statement
<1>2. /\ UNCHANGED <<site, mode, run, rest>>
      /\ heldNow' = IF run \in HeldRuns THEN heldNow \cup {x} ELSE heldNow
      /\ txPending' = IF mode = "manual" THEN txPending \cup {x} ELSE txPending
  BY DEF Change, DdlInTx, Statement, Listed
<1>3. RunsFit'
  BY <1>2 DEF RunsFit, IInv, HeldRuns
<1>4. CASE AutoEff
  <2>1. Sound(conn') /\ Saves(conn, conn', {x})
    <3>1. conn' = AutoEnd(SrvWrite(Ready, x), FALSE)
      BY <1>4 DEF Change, DdlInTx
    <3>2. conn.uncommitted = {}
      BY <1>1, <1>4 DEF Here, Sound
    <3> QED BY <1>0, <1>1, <1>4, <3>1, <3>2, WriteSound DEF Saves
  <2>2. UserList' = {}
    BY <1>1, <1>2, <1>4 DEF Here, AutoEff, IInv, ListMatches, Sound, UserList, TypeOK
  <2> QED BY <1>2, <1>3, <2>1, <2>2, Steady DEF Result, Moves, ListMatches, Saves
<1>5. CASE ~AutoEff
  <2>1. Sound(conn') /\ Adds(conn, conn', x)
    <3>1. conn' = [SrvWrite(Ready, x) EXCEPT !.txChanged = TRUE]
      BY <1>5 DEF Change, DdlInTx
    <3> QED BY <1>0, <1>1, <1>5, <3>1, WriteSound DEF Adds
  <2>2. mode = "manual" \/ run \in HeldRuns
    BY <1>5 DEF AutoEff, IInv, TypeOK
  <2>3. UserList' = UserList \cup {x}
    BY <1>2, <2>2 DEF UserList
  <2>4. ListMatches'
    BY <2>1, <2>3 DEF ListMatches, IInv, Adds
  <2> QED BY <1>2, <1>3, <2>1, <2>4, Steady DEF Result, Moves
<1> QED BY <1>4, <1>5
\* COMMIT or ROLLBACK behind the close of the cursor.
LEMMA ClosedEnds ==
  ASSUME IInv
  PROVE  /\ \A c \in {SrvCommit(Closed), SrvRollback(Closed)} :
              /\ c \in Connection /\ c.depth = 0 /\ c.cursor = "none"
              /\ c.txUser = conn.txUser
         /\ Saves(conn, SrvCommit(Closed), {})
         /\ Drops(conn, SrvRollback(Closed))
<1>1. Closed \in Connection
  BY RunnerTypes DEF IInv, TypeOK, Closed
<1>2. /\ Sound(Closed) /\ Closed.cursor = "none" /\ Same(conn, Closed)
      /\ Closed.txUser = conn.txUser
  BY ClosedSound DEF IInv
<1>3. SrvCommit(Closed) = SrvCommitAll(Closed)
  BY <1>1, <1>2 DEF SrvCommit, Sound, Connection
<1>4. SrvCommit(Closed) \in Connection /\ SrvRollback(Closed) \in Connection
  BY <1>1, ServerTypes
<1>5. /\ SrvCommitAll(Closed).depth = 0 /\ SrvCommitAll(Closed).cursor = "none"
      /\ SrvCommitAll(Closed).txUser = conn.txUser
      /\ Saves(conn, SrvCommitAll(Closed), {})
  BY <1>1, <1>2 DEF SrvCommitAll, Connection, Same, Saves
<1>6. /\ SrvRollback(Closed).depth = 0 /\ SrvRollback(Closed).cursor = "none"
      /\ SrvRollback(Closed).txUser = conn.txUser
      /\ Drops(conn, SrvRollback(Closed))
  BY <1>1, <1>2 DEF SrvRollback, Connection, Same, Drops
<1> QED BY <1>3, <1>4, <1>5, <1>6

\* The session is committed and closed; the flags are those of Closed.
LEMMA ClosedSession ==
  ASSUME IInv
  PROVE  LET c == SessionClosed(Closed)
         IN /\ c \in Connection /\ c.depth = 0 /\ c.cursor = "none"
            /\ Saves(conn, c, {})
            /\ Sound(c) /\ ~c.up
<1> DEFINE s == SrvCommit(Closed)
           b == SrvRollback(s)
           c == SessionClosed(Closed)
<1>1. /\ s \in Connection /\ s.cursor = "none" /\ s.txUser = conn.txUser
      /\ Saves(conn, s, {})
  BY ClosedEnds
<1>2. Closed \in Connection /\ Sound(Closed) /\ s.txOpen = Closed.txOpen
      /\ s.txUser = Closed.txUser
  BY ClosedSound, RunnerTypes
     DEF IInv, TypeOK, Closed, SrvCommit, SrvCommitAll, Connection
<1> HIDE DEF s
<1>3. /\ b \in Connection /\ b.depth = 0 /\ b.cursor = "none"
      /\ b.txOpen = Closed.txOpen /\ b.txUser = Closed.txUser
      /\ Saves(conn, b, {})
  BY <1>1, <1>2, ServerTypes DEF SrvRollback, Saves, Connection
<1>4. c = [b EXCEPT !.up = FALSE]
  BY DEF SessionClosed, s
<1> HIDE DEF b, c
<1>5. /\ c \in Connection /\ c.depth = 0 /\ c.cursor = "none" /\ ~c.up
      /\ c.txOpen = Closed.txOpen /\ c.txUser = Closed.txUser
      /\ Saves(conn, c, {})
  BY <1>3, <1>4 DEF Saves, Connection
<1>6. Sound(c)
  BY <1>2, <1>5 DEF Sound, Saves
<1> QED BY <1>5, <1>6 DEF c

\* The host closes its list, and nothing is left of the transaction.
LEMMA ListClosed ==
  ASSUME IInv, TxClose, UNCHANGED <<site, mode>>, heldNow' = {},
         conn'.uncommitted = {}, run' \in {run, "held"},
         run' # run => run = "confirmed"
  PROVE  RunsFit' /\ ListMatches'
BY DEF IInv, TxClose, RunsFit, ListMatches, UserList, HeldRuns

\* The flags after note_tx_ended fit a connection without transaction.
LEMMA NotedSound ==
  ASSUME NEW c \in Connection, c.depth = 0, c.uncommitted = {}, c.cursor = "none"
  PROVE  Sound(NoteTxEnded(c)) /\ Same(c, NoteTxEnded(c))
BY DEF NoteTxEnded, Sound, Same, Connection

\* Statements that end the transaction, with or without a change of their own.
LEMMA EndingStatements ==
  ASSUME IInv, Disciplined(site),
         \/ CommitStmt \/ RollbackStmt \/ \E x \in Unused : DdlCommits(x)
  PROVE  Result
<1>0. Here
  BY HereInRun DEF CommitStmt, RollbackStmt, DdlCommits, Statement
<1>1. AutoEff => ~conn.txUser
  BY <1>0 DEF Here, Sound
<1>2. /\ Sound(conn')
      /\ \/ Saves(conn, conn', {}) \/ Drops(conn, conn')
         \/ \E x \in Unused : Saves(conn, conn', {x})
  <2>1. CASE CommitStmt
    <3>1. conn' = AfterEnd(SrvCommit(Closed))
      BY <2>1 DEF CommitStmt
    <3>2. Sound(conn') /\ Same(SrvCommit(Closed), conn')
      BY <1>0, <1>1, <3>1, ClosedEnds, EndSound DEF Saves
    <3> QED BY <3>2, ClosedEnds DEF Same, Saves
  <2>2. CASE RollbackStmt
    <3>1. conn' = AfterEnd(SrvRollback(Closed))
      BY <2>2 DEF RollbackStmt
    <3>2. Sound(conn') /\ Same(SrvRollback(Closed), conn')
      BY <1>0, <1>1, <3>1, ClosedEnds, EndSound DEF Drops
    <3> QED BY <3>2, ClosedEnds DEF Same, Drops
  <2>3. ASSUME NEW x \in Unused, DdlCommits(x)
        PROVE  Sound(conn') /\ Saves(conn, conn', {x})
    <3> DEFINE w == SrvWrite(Ready, x)
               c == SrvCommitAll(w)
    <3>1. x \in Changes /\ Ready \in Connection
      BY <1>0, RunnerTypes DEF Unused, Here, TypeOK, Closed, Ready
    <3>2. w \in Connection /\ c \in Connection
      BY <3>1, ServerTypes
    <3>3. /\ Same(conn, Ready) /\ Ready.cursor = "none" /\ Ready.txUser = conn.txUser
      BY <1>0, ReadySound
    <3>4. /\ w.cursor = "none" /\ w.txUser = conn.txUser /\ w.undone = conn.undone
          /\ w.uncommitted \cup w.durable = conn.uncommitted \cup conn.durable \cup {x}
      BY <3>1, <3>3 DEF SrvWrite, Same, Connection
    <3>5. conn' = AfterEnd(c)
      BY <2>3 DEF DdlCommits
    <3> HIDE DEF w
    <3>6. /\ c.depth = 0 /\ c.cursor = "none" /\ c.txUser = conn.txUser
          /\ Saves(conn, c, {x})
      BY <3>2, <3>4 DEF SrvCommitAll, Saves, Connection
    <3> HIDE DEF c
    <3>7. Sound(conn') /\ Same(c, conn')
      BY <1>0, <1>1, <3>2, <3>5, <3>6, EndSound DEF Saves
    <3> QED BY <3>6, <3>7 DEF Same, Saves
  <2> QED BY <2>1, <2>2, <2>3
<1>3. UNCHANGED <<site, mode>> /\ TxClose /\ heldNow' = {}
  BY DEF CommitStmt, RollbackStmt, DdlCommits, Statement
<1>4. run' \in {run, "held"} /\ (run' # run => run = "confirmed")
  BY DEF CommitStmt, RollbackStmt, DdlCommits
<1>5. RunsFit' /\ ListMatches'
  BY <1>2, <1>3, <1>4, ListClosed DEF Saves, Drops
<1> QED BY <1>2, <1>3, <1>5, Steady DEF Result, Moves
\* Commands that end the transaction.
LEMMA EndingCommands ==
  ASSUME IInv, CommitCmd \/ RollbackCmd \/ Reconnect \/ ConnectionLost
  PROVE  Result
<1>1. Sound(conn') /\ (Saves(conn, conn', {}) \/ Drops(conn, conn'))
  <2>1. CASE CommitCmd
    <3>1. conn' = NoteTxEnded(SrvCommit(Closed))
      BY <2>1 DEF CommitCmd
    <3>2. Sound(conn') /\ Same(SrvCommit(Closed), conn')
      BY <3>1, ClosedEnds, NotedSound DEF Saves
    <3> QED BY <3>2, ClosedEnds DEF Same, Saves
  <2>2. CASE RollbackCmd
    <3>1. conn' = NoteTxEnded(SrvRollback(Closed))
      BY <2>2 DEF RollbackCmd
    <3>2. Sound(conn') /\ Same(SrvRollback(Closed), conn')
      BY <3>1, ClosedEnds, NotedSound DEF Drops
    <3> QED BY <3>2, ClosedEnds DEF Same, Drops
  <2>3. CASE Reconnect
    <3> DEFINE c == SessionClosed(Closed)
    <3>1. c \in Connection /\ c.depth = 0 /\ c.cursor = "none" /\ Saves(conn, c, {})
      BY ClosedSession
    <3>2. PICK ok \in BOOLEAN : conn' = [NoteTxEnded(c) EXCEPT !.up = ok]
      BY <2>3 DEF Reconnect
    <3> HIDE DEF c
    <3> DEFINE d == [c EXCEPT !.up = ok]
    <3>3. /\ d \in Connection /\ d.depth = 0 /\ d.cursor = "none"
          /\ Saves(conn, d, {}) /\ conn' = NoteTxEnded(d)
      BY <3>1, <3>2 DEF NoteTxEnded, Saves, Connection
    <3> HIDE DEF d
    <3>4. Sound(conn') /\ Same(d, conn')
      BY <3>3, NotedSound DEF Saves
    <3> QED BY <3>3, <3>4 DEF Same, Saves
  <2>4. CASE ConnectionLost
    <3>1. conn' = [NoteTxEnded(SrvRollback(conn)) EXCEPT !.cursor = "none"]
      BY <2>4 DEF ConnectionLost
    <3> QED BY <3>1 DEF NoteTxEnded, SrvRollback, Sound, Drops, Connection, IInv, TypeOK
  <2> QED BY <2>1, <2>2, <2>3, <2>4
<1>2. UNCHANGED <<site, mode, run>> /\ TxClose
  BY DEF CommitCmd, RollbackCmd, Reconnect, ConnectionLost, Command, runVars
<1>3. heldNow' = {}
  BY DEF CommitCmd, RollbackCmd, Reconnect, ConnectionLost, Command, runVars,
         IInv, RunsFit
<1>4. RunsFit' /\ ListMatches'
  BY <1>1, <1>2, <1>3, ListClosed DEF Saves, Drops
<1> QED BY <1>1, <1>2, <1>4, Steady DEF Result, Moves

\* Disconnects, which leave the flags of the runner as they are.
LEMMA DisconnectSteps ==
  ASSUME IInv, Disciplined(site), DisconnectInRun \/ Disconnect
  PROVE  Result
<1> DEFINE c == SessionClosed(Closed)
<1>1. c \in Connection /\ c.depth = 0 /\ c.cursor = "none" /\ Saves(conn, c, {}) /\ Sound(c)
  BY ClosedSession
<1>2. conn' = c \/ conn' = NoteTxEnded(c)
  BY DEF DisconnectInRun, Disconnect
<1> HIDE DEF c
<1>3. Sound(conn') /\ Saves(conn, conn', {})
  BY <1>1, <1>2, NotedSound DEF Saves, Same
<1>4. UNCHANGED <<site, mode, run, heldNow>> /\ TxClose
  BY DEF DisconnectInRun, Disconnect, Command, runVars
<1>5. heldNow = {}
  <2>1. CASE DisconnectInRun
    BY <2>1 DEF DisconnectInRun, Disciplined, IInv, RunsFit
  <2>2. CASE Disconnect
    BY <2>2 DEF Disconnect, Command, IInv, RunsFit
  <2> QED BY <2>1, <2>2
<1>6. RunsFit' /\ ListMatches'
  BY <1>3, <1>4, <1>5, ListClosed DEF Saves
<1> QED BY <1>3, <1>4, <1>6, Steady DEF Result, Moves

\* Steps that leave the connection and its changes alone.
LEMMA HostSteps ==
  ASSUME IInv, Disciplined(site),
         \/ StartRun \/ StartConfirmed \/ StopAtCommit \/ EndRun \/ EndHeldRun
         \/ CursorEnds \/ Switch
  PROVE  Result
<1> USE DEF IInv, RunsFit, ListMatches, UserList, HeldRuns
<1>1. CASE StartRun \/ StartConfirmed
  <2>1. UNCHANGED <<site, mode, conn, heldNow, txPending, rest>>
    BY <1>1 DEF StartRun, StartConfirmed, runVars, hostVars
  <2>2. RunsFit'
    BY <1>1, <2>1 DEF StartRun, StartConfirmed, runVars
  <2> QED BY <2>1, <2>2, Steady DEF Result, Moves, Same
<1>2. CASE EndRun
  <2>1. UNCHANGED <<site, mode, conn, txPending, rest>> /\ run' = "none" /\ heldNow' = {}
    BY <1>2 DEF EndRun, RunOver, hostVars
  <2>2. heldNow # {} => conn.uncommitted = {}
    BY <1>2 DEF EndRun, HasHeld, Sound
  <2> QED BY <2>1, <2>2, Steady DEF Result, Moves, Same
<1>3. CASE StopAtCommit \/ EndHeldRun
  <2>1. UNCHANGED <<site, mode, conn>> /\ run' = "none" /\ heldNow' = {}
    BY <1>3 DEF StopAtCommit, EndHeldRun, RunOver
  <2>2. /\ txPending' = IF mode = "auto" THEN txPending \cup heldNow ELSE txPending
        /\ rest' # rest => site.prod
    BY <1>3 DEF StopAtCommit, EndHeldRun, Hold, hostVars
  <2>3. mode \in {"auto", "manual"}
    BY DEF TypeOK
  <2> QED BY <2>1, <2>2, <2>3, Steady DEF Result, Moves, Same
<1>4. CASE CursorEnds
  <2>1. UNCHANGED <<site, mode, run, heldNow, txPending, rest>> /\ conn' = Closed
    BY <1>4 DEF CursorEnds, Command, runVars, hostVars
  <2>2. Sound(conn') /\ Same(conn, conn')
    BY <2>1, ClosedSound
  <2> QED BY <2>1, <2>2, Steady DEF Result, Moves, Same
<1>5. CASE Switch
  <2>1. /\ UNCHANGED <<site, conn, run, heldNow>> /\ mode' = Toggled
        /\ "switch" \in site.ops /\ heldNow = {}
    BY <1>5 DEF Switch, Command, runVars
  <2>2. /\ txPending' = txPending /\ (mode' = "auto" => txPending = {})
        /\ rest' \in {rest, "none"}
    BY <1>5 DEF Switch, NothingListed, TxClose, hostVars
  <2>3. Sound(conn)'
    BY <2>1, <2>2 DEF Sound
  <2> QED BY <2>1, <2>2, <2>3 DEF Result, Moves, Same
<1> QED BY <1>1, <1>2, <1>3, <1>4, <1>5
\* BEGIN ahead of an apply never commits or nests.
LEMMA BegunSound ==
  ASSUME IInv, Disciplined(site), NEW op \in {"apply", "apply_fails"}, CanApply(op)
  PROVE  /\ mode = "manual" =>
              Sound([ApplyBegun(conn) EXCEPT !.txOpen = @ \/ ApplyNeedsBegin(conn)])
         /\ ApplyBegun(conn) \in Connection /\ ApplyBegun(conn).depth <= 1
         /\ Same(conn, ApplyBegun(conn)) /\ ApplyBegun(conn).cursor = "none"
         /\ ApplyBegun(conn).txUser = conn.txUser
         /\ site.begin => ApplyBegun(conn).depth = 1
         /\ run = "none" /\ heldNow = {} /\ ~site.prod
         /\ mode = "auto" => conn.uncommitted = {} /\ ~conn.txUser
<1>1. /\ conn \in Connection /\ Sound(conn) /\ conn.cursor = "none" /\ conn.up
      /\ run = "none" /\ heldNow = {} /\ ~site.prod
      /\ ApplyNeedsBegin(conn) => ~BeginFails(conn)
  BY DEF CanApply, Command, IInv, TypeOK, RunsFit, Disciplined
<1>2. mode = "auto" => conn.uncommitted = {} /\ ~conn.txUser
  BY <1>1 DEF Sound
<1>3. ApplyBegun(conn) \in Connection
  BY <1>1, RunnerTypes
<1>4. CASE ~ApplyNeedsBegin(conn)
  <2>1. ApplyBegun(conn) = conn
    BY <1>4 DEF ApplyBegun
  <2>2. site.begin => conn.txOpen
    BY <1>4 DEF ApplyNeedsBegin
  <2>3. [conn EXCEPT !.txOpen = @ \/ ApplyNeedsBegin(conn)].txOpen <=> conn.txOpen
    BY <1>1, <1>4 DEF Connection
  <2>4. Sound([conn EXCEPT !.txOpen = @ \/ ApplyNeedsBegin(conn)])
    BY <1>1, <2>3 DEF Sound, Connection
  <2> QED BY <1>1, <1>2, <1>3, <2>1, <2>2, <2>4 DEF Sound, Same
<1>5. CASE ApplyNeedsBegin(conn)
  <2>1. /\ site.begin /\ (mode = "auto" \/ ~conn.txOpen)
        /\ ApplyBegun(conn) = SrvBegin(conn)
    BY <1>5 DEF ApplyNeedsBegin, ApplyBegun
  <2>2. conn.depth \in {0, 1} /\ (conn.txOpen <=> conn.depth = 1)
    BY <1>1, <2>1 DEF Sound, Connection
  <2>3. conn.depth = 1 => site.nested \notin {"error", "count"}
    <3>1. conn.depth = 1 => site.nested # "error"
      BY <1>1, <1>5 DEF BeginFails
    <3>2. conn.depth = 1 => site.nested # "count"
      BY <1>1, <2>1, <2>2 DEF Sound, Disciplined
    <3> QED BY <3>1, <3>2
  <2>4. conn.depth = 1 => conn.uncommitted = {}
    BY <1>2, <2>1, <2>2
  <2> DEFINE b == ApplyBegun(conn)
  <2>5. b = [conn EXCEPT !.depth = 1] \/ (b = conn /\ conn.depth = 1)
        \/ (b = [SrvCommitAll(conn) EXCEPT !.depth = 1] /\ conn.uncommitted = {})
    BY <1>1, <2>1, <2>2, <2>3, <2>4 DEF SrvBegin
  <2> HIDE DEF b
  <2>6. /\ b.depth = 1 /\ Same(conn, b) /\ b.cursor = "none"
        /\ b.txUser = conn.txUser /\ b.txChanged = conn.txChanged
    <3>1. CASE b = [conn EXCEPT !.depth = 1]
      BY <1>1, <3>1 DEF Same, Connection
    <3>2. CASE b = conn /\ conn.depth = 1
      BY <1>1, <3>2 DEF Same
    <3>3. CASE b = [SrvCommitAll(conn) EXCEPT !.depth = 1] /\ conn.uncommitted = {}
      BY <1>1, <3>3 DEF SrvCommitAll, Same, Connection
    <3> QED BY <2>5, <3>1, <3>2, <3>3
  <2> DEFINE d == [b EXCEPT !.txOpen = @ \/ ApplyNeedsBegin(conn)]
  <2>7. /\ d.txOpen /\ d.depth = 1 /\ d.uncommitted = conn.uncommitted
        /\ d.cursor = "none" /\ d.txUser = conn.txUser
        /\ d.txChanged = conn.txChanged
    BY <1>3, <1>5, <2>6 DEF b, Same, Connection
  <2> HIDE DEF d
  <2>8. mode = "manual" => Sound(d)
    BY <1>1, <2>7 DEF Sound
  <2> QED BY <1>1, <1>2, <1>3, <2>6, <2>8 DEF b, d
<1> QED BY <1>4, <1>5
\* Applies, whole, refused or failed halfway.
LEMMA ApplySteps ==
  ASSUME IInv, Disciplined(site),
         \/ ApplyRolledBack \/ ApplyFailsEarly
         \/ \E x \in Unused : Apply(x) \/ ApplyFailsHalfway(x)
  PROVE  Result
<1> DEFINE b == ApplyBegun(conn)
<1>1. \E op \in {"apply", "apply_fails"} : CanApply(op)
  BY DEF ApplyRolledBack, ApplyFailsEarly, Apply, ApplyFailsHalfway
<1>2. /\ mode = "manual" => Sound([b EXCEPT !.txOpen = @ \/ ApplyNeedsBegin(conn)])
      /\ b \in Connection /\ b.depth <= 1 /\ Same(conn, b) /\ b.cursor = "none"
      /\ b.txUser = conn.txUser
      /\ site.begin => b.depth = 1
      /\ run = "none" /\ heldNow = {} /\ ~site.prod
      /\ mode = "auto" => conn.uncommitted = {} /\ ~conn.txUser
  BY <1>1, BegunSound
<1> HIDE DEF b
<1>3. UNCHANGED <<site, mode, run, heldNow, rest>>
  BY DEF ApplyRolledBack, ApplyFailsEarly, Apply, ApplyFailsHalfway, CanApply,
     Command, runVars
<1>4. RunsFit'
  BY <1>2, <1>3 DEF RunsFit, IInv, HeldRuns
<1>5. conn.uncommitted = txPending
  BY <1>2 DEF IInv, ListMatches, UserList
<1>6. mode = "auto" <=> mode # "manual"
  BY DEF IInv, TypeOK
\* In automatic mode: one transaction, saved or dropped.
<1>7. ASSUME mode = "auto", NEW c \in Connection, c.depth <= 1, c.cursor = "none"
      PROVE  /\ Sound(NoteTxEnded(SrvCommit(c))) /\ Sound(NoteTxEnded(SrvRollback(c)))
             /\ Saves(c, NoteTxEnded(SrvCommit(c)), {})
             /\ Drops(c, NoteTxEnded(SrvRollback(c)))
  <2>1. SrvCommit(c) = SrvCommitAll(c)
    BY <1>7 DEF SrvCommit, Connection
  <2>2. /\ SrvCommitAll(c) \in Connection /\ SrvCommitAll(c).depth = 0
        /\ SrvCommitAll(c).cursor = "none" /\ Saves(c, SrvCommitAll(c), {})
    BY <1>7, ServerTypes DEF SrvCommitAll, Saves, Connection
  <2>3. /\ SrvRollback(c) \in Connection /\ SrvRollback(c).depth = 0
        /\ SrvRollback(c).cursor = "none" /\ Drops(c, SrvRollback(c))
    BY <1>7, ServerTypes DEF SrvRollback, Drops, Connection
  <2> QED BY <2>1, <2>2, <2>3, NotedSound DEF Saves, Drops, Same
\* In manual mode: the transaction stays open.
<1>8. ASSUME mode = "manual", NEW c \in Connection, c.depth <= 1, c.cursor = "none",
             site.begin => c.depth = 1, c.txUser = conn.txUser
      PROVE  Sound(LeftOpen(c)) /\ Same(c, LeftOpen(c))
  <2>1. ~site.prod /\ "switch" \in site.ops => ~c.txUser
    BY <1>2, <1>8 DEF IInv, Sound
  <2> QED BY <1>8, <2>1 DEF LeftOpen, Sound, Same, Connection
<1>9. ASSUME NEW x \in Unused, Apply(x) \/ ApplyFailsHalfway(x)
      PROVE  Result
  <2> DEFINE w == SrvWrite(b, x)
  <2>1. x \in Changes /\ w \in Connection
    BY <1>2, ServerTypes DEF Unused
  <2>2. ~(b.depth = 0 /\ site.autocommit)
    BY <1>2 DEF Disciplined
  <2>3. w = [[b EXCEPT !.uncommitted = @ \cup {x}]
                EXCEPT !.depth = IF @ = 0 THEN 1 ELSE @]
    BY <2>2 DEF SrvWrite
  <2>4. /\ w.depth = 1 /\ w.cursor = "none" /\ w.txUser = conn.txUser
        /\ Adds(conn, w, x)
    BY <1>2, <2>3 DEF Adds, Same, Connection
  <2> HIDE DEF w
  <2>5. txPending' = IF mode = "manual" THEN txPending \cup {x} ELSE txPending
    BY <1>9 DEF Apply, ApplyFailsHalfway, Listed
  <2>6. CASE mode = "auto"
    <3>1. conn' = NoteTxEnded(SrvCommit(w))
      BY <1>6, <1>9, <2>6 DEF Apply, ApplyFailsHalfway, b, w
    <3>2. Sound(conn') /\ Saves(w, conn', {})
      BY <1>7, <2>1, <2>4, <2>6, <3>1
    <3>3. Saves(conn, conn', {x}) /\ conn.uncommitted = {}
      BY <1>2, <2>4, <2>6, <3>2 DEF Saves, Adds
    <3>4. ListMatches'
      BY <1>2, <1>3, <1>5, <1>6, <2>5, <2>6, <3>3 DEF ListMatches, UserList, Saves
    <3> QED BY <1>3, <1>4, <3>2, <3>3, <3>4, Steady DEF Result, Moves
  <2>7. CASE mode = "manual"
    <3>1. conn' = LeftOpen(w)
      BY <1>6, <1>9, <2>7 DEF Apply, ApplyFailsHalfway, b, w
    <3>2. Sound(conn') /\ Same(w, conn')
      BY <1>8, <2>1, <2>4, <2>7, <3>1
    <3>3. Adds(conn, conn', x)
      BY <2>4, <3>2 DEF Adds, Same
    <3>4. ListMatches'
      BY <1>2, <1>3, <1>5, <2>5, <2>7, <3>3 DEF ListMatches, UserList, Adds
    <3> QED BY <1>3, <1>4, <3>2, <3>3, <3>4, Steady DEF Result, Moves
  <2> QED BY <1>6, <2>6, <2>7
<1>10. ASSUME ApplyRolledBack \/ ApplyFailsEarly
       PROVE  Result
  <2>1. txPending' = txPending
    BY <1>10 DEF ApplyRolledBack, ApplyFailsEarly
  <2>2. /\ Sound(conn')
        /\ Same(conn, conn') \/ (Drops(conn, conn') /\ conn.uncommitted = {})
    <3>1. CASE mode = "auto"
      <4>1. conn' = NoteTxEnded(SrvRollback(b))
        BY <1>6, <1>10, <3>1 DEF ApplyRolledBack, ApplyFailsEarly, b
      <4>2. Sound(conn') /\ Drops(b, conn')
        BY <1>2, <1>7, <3>1, <4>1
      <4> QED BY <1>2, <3>1, <4>2 DEF Drops, Same
    <3>2. CASE mode = "manual" /\ ApplyRolledBack
      <4>1. conn' = [b EXCEPT !.txOpen = @ \/ ApplyNeedsBegin(conn)]
        BY <1>6, <3>2 DEF ApplyRolledBack, b
      <4>2. Same(conn, conn')
        BY <1>2, <4>1 DEF Same, Connection
      <4> QED BY <1>2, <3>2, <4>1, <4>2
    <3>3. CASE mode = "manual" /\ ApplyFailsEarly
      <4>1. conn' = LeftOpen(b)
        BY <3>3 DEF ApplyFailsEarly, b
      <4>2. Sound(conn') /\ Same(b, conn')
        BY <1>2, <1>8, <3>3, <4>1
      <4> QED BY <1>2, <4>2 DEF Same
    <3> QED BY <1>6, <1>10, <3>1, <3>2, <3>3
  <2>3. ListMatches'
    BY <1>2, <1>3, <1>5, <2>1, <2>2 DEF ListMatches, UserList, Same, Drops
  <2> QED BY <1>3, <1>4, <2>2, <2>3, Steady DEF Result, Moves
<1> QED BY <1>9, <1>10
-----------------------------------------------------------------------------
\* IInv holds at the start.
LEMMA SoundInit ==
  ASSUME Init
  PROVE  /\ IInv /\ site \in Sites
         /\ conn.uncommitted = {} /\ conn.durable = {} /\ conn.undone = {}
<1>1. conn = NewConnection /\ run = "none" /\ heldNow = {} /\ txPending = {}
      /\ rest = "none"
  BY DEF Init
<1>2. Sound(conn) /\ conn.uncommitted = {} /\ conn.durable = {} /\ conn.undone = {}
  BY <1>1 DEF NewConnection, Sound
<1>3. RunsFit /\ ListMatches
  BY <1>1, <1>2 DEF RunsFit, ListMatches, UserList, HeldRuns
<1> QED BY <1>2, <1>3, TypeInit DEF IInv, Init

\* The site is the same for the whole session.
LEMMA SiteStays == [Next]_vars => site' = site
<1> SUFFICES ASSUME [Next]_vars PROVE site' = site
  OBVIOUS
<1>1. CASE UNCHANGED vars
  BY <1>1 DEF vars
<1>2. CASE Next
  BY <1>2 DEF Next, StartRun, StartConfirmed, Read, Lock, BeginStmt, StatementFails,
     CommitStmt, RollbackStmt, Change, DdlInTx, DdlCommits, Apply,
     ApplyFailsHalfway, StopAtCommit, EndRun, EndHeldRun, EndBelowThreshold,
     CommitCmd, RollbackCmd, CursorEnds, Refresh, ApplyRolledBack,
     ApplyFailsEarly, Reconnect, ConnectOtherFails, ConnectionLost,
     DisconnectInRun, Disconnect, Switch, SwitchElsewhere, Statement, Command,
     CanApply
<1> QED BY <1>1, <1>2

\* Every step preserves IInv and moves the changes in one of the ways of Moves.
LEMMA SoundStep ==
  ASSUME Disciplined(site), IInv, [Next]_vars
  PROVE  Result /\ IInv'
<1>1. Result
  <2>1. CASE UNCHANGED vars
    <3>1. UNCHANGED <<site, mode, conn, run, heldNow, txPending, rest>>
      BY <2>1 DEF vars, runVars, hostVars
    <3> QED BY <3>1 DEF Result, Moves, Same, IInv, Sound, RunsFit, ListMatches, UserList
  <2>2. CASE Next
    <3>1. ~BeginStmt /\ ~EndBelowThreshold /\ ~ConnectOtherFails /\ ~SwitchElsewhere
      BY DEF Disciplined, BeginStmt, Statement, EndBelowThreshold,
         ConnectOtherFails, SwitchElsewhere, Command
    <3> QED BY <2>2, <3>1, KeepingSteps, WritingSteps, EndingStatements,
            EndingCommands, DisconnectSteps, HostSteps, ApplySteps DEF Next
  <2> QED BY <2>1, <2>2
<1>2. TypeOK'
  BY TypeStep DEF IInv
<1> QED BY <1>1, <1>2 DEF Result, IInv

\* On a site with a disciplined workload IInv holds all the time.
Keeps == Disciplined(site) => IInv

LEMMA KeepsStep ==
  /\ Init => Keeps
  /\ Keeps /\ [Next]_vars => Keeps'
  /\ Keeps /\ [Next]_vars /\ Disciplined(site) => Result /\ IInv'
<1>1. Init => Keeps
  BY SoundInit DEF Keeps
<1>2. Keeps /\ [Next]_vars /\ Disciplined(site) => Result /\ IInv'
  BY SoundStep DEF Keeps
<1>3. ASSUME Keeps, [Next]_vars PROVE Keeps'
  <2>1. Disciplined(site)' <=> Disciplined(site)
    BY <1>3, SiteStays DEF Disciplined
  <2> QED BY <1>2, <1>3, <2>1 DEF Keeps
<1> QED BY <1>1, <1>2, <1>3

(* Under a disciplined workload the user's list is exactly what the server *)
(* holds uncommitted (tx_pending against the transaction of the session).  *)
THEOREM PendingIsTrue == Spec => []ListIsTrue
<1>1. Keeps => ListIsTrue
  BY DEF Keeps, IInv, ListIsTrue
<1> QED BY <1>1, KeepsStep, PTL DEF Spec

(* The runner's flags agree with the server (manual_begin_sql, execute).   *)
THEOREM FlagsAgree == Spec => []FlagsTrackServer
<1>1. Keeps => FlagsTrackServer
  BY DEF Keeps, IInv, TypeOK, Connection, Sound, FlagsTrackServer
<1> QED BY <1>1, KeepsStep, PTL DEF Spec

(* A rollback put off to the close of a cursor has no change to drop       *)
(* (finish_tx).                                                            *)
THEOREM QuietEndsAreReadOnly == Spec => []QuietEndIsReadOnly
<1>1. Keeps => QuietEndIsReadOnly
  BY DEF Keeps, IInv, Sound, QuietEndIsReadOnly
<1> QED BY <1>1, KeepsStep, PTL DEF Spec

(* The session implements UnitOfWork: what is pending is saved together or *)
(* dropped together, whatever the server and the commit mode.              *)
THEOREM ListLeavesWhole == Spec => UnitPromise
<1> DEFINE Abstract == <<Promised(UserList), Promised(conn.durable), Promised(conn.undone)>>
<1>1. Init => Unit!Init
  <2> SUFFICES ASSUME Init PROVE Unit!Init
    OBVIOUS
  <2>1. UserList = {} /\ conn.durable = {} /\ conn.undone = {}
    BY SoundInit DEF IInv, ListMatches
  <2> QED BY <2>1 DEF Unit!Init, Promised
<1>2. Keeps /\ [Next]_vars => [Unit!Next]_Abstract
  <2> SUFFICES ASSUME Keeps, [Next]_vars
               PROVE  [Unit!Next]_Abstract
    OBVIOUS
  <2>0. Disciplined(site)' <=> Disciplined(site)
    BY SiteStays DEF Disciplined
  <2>1. CASE ~Disciplined(site)
    BY <2>0, <2>1 DEF Promised
  <2>2. CASE Disciplined(site)
    <3>1. /\ Moves(conn')
          /\ Promised(UserList) = conn.uncommitted
          /\ Promised(UserList)' = conn'.uncommitted
          /\ Promised(conn.durable) = conn.durable /\ Promised(conn.undone) = conn.undone
          /\ Promised(conn.durable)' = conn'.durable
          /\ Promised(conn.undone)' = conn'.undone
      BY <2>0, <2>2, KeepsStep DEF Keeps, Result, IInv, ListMatches, Promised
    <3>2. CASE Same(conn, conn')
      BY <3>1, <3>2 DEF Same
    <3>3. ASSUME NEW x \in Unused, Adds(conn, conn', x) \/ Saves(conn, conn', {x})
          PROVE  Unit!Next
      <4>1. x \in Unit!Fresh
        BY <3>1 DEF Unit!Fresh, Unused
      <4>2. Unit!Enlist(x) \/ Unit!Save({x})
        BY <3>1, <3>3 DEF Unit!Enlist, Unit!Save, Adds, Saves
      <4> QED BY <4>1, <4>2 DEF Unit!Next
    <3>4. CASE Saves(conn, conn', {})
      BY <3>1, <3>4 DEF Unit!Next, Unit!Save, Saves
    <3>5. CASE Drops(conn, conn')
      BY <3>1, <3>5 DEF Unit!Next, Unit!Drop, Drops
    <3> QED BY <3>1, <3>2, <3>3, <3>4, <3>5 DEF Moves
  <2> QED BY <2>1, <2>2
<1> QED BY <1>1, <1>2, KeepsStep, PTL DEF Spec, UnitPromise, Unit!Spec
-----------------------------------------------------------------------------
\* No confirmation is left over from an earlier run.
Asked == /\ once = FALSE
         /\ rest # "ddl"
         /\ run = "held" => ~commitOk

AskedThere == Disciplined(site) /\ AsksFirst(site) => Asked

\* Every step preserves it.
LEMMA AskedStep ==
  ASSUME IInv, Disciplined(site), AsksFirst(site), Asked, [Next]_vars
  PROVE  Asked'
<1> USE DEF Asked
<1>1. CASE UNCHANGED vars
  BY <1>1 DEF vars, runVars, hostVars
<1>2. CASE StartRun \/ StartConfirmed
  BY <1>2 DEF StartRun, StartConfirmed, hostVars
<1>3. CASE StopAtCommit
  <2>1. "rest_ddl" \notin site.ops
    BY <1>3 DEF StopAtCommit, Intercepted, IInv, RunsFit, AsksFirst
  <2> QED BY <1>3, <2>1 DEF StopAtCommit, RunOver, hostVars
<1>4. CASE EndRun \/ EndHeldRun \/ EndBelowThreshold
  BY <1>4 DEF EndRun, EndHeldRun, EndBelowThreshold, RunOver, hostVars
<1>5. CASE \/ Read \/ Lock \/ BeginStmt \/ StatementFails \/ CommitStmt \/ RollbackStmt
           \/ \E x \in Unused : Change(x) \/ DdlInTx(x) \/ DdlCommits(x)
  <2>1. once' = once /\ rest' \in {rest, "none"}
    BY <1>5 DEF Read, Lock, BeginStmt, StatementFails, CommitStmt, RollbackStmt,
       Change, DdlInTx, DdlCommits, Statement, TxClose, hostVars
  <2>2. commitOk' = FALSE \/ UNCHANGED <<run, commitOk>>
    BY <1>5 DEF Read, Lock, BeginStmt, StatementFails, CommitStmt, RollbackStmt,
       Change, DdlInTx, DdlCommits
  <2> QED BY <2>1, <2>2 DEF IInv, TypeOK
<1>6. CASE \/ CommitCmd \/ RollbackCmd \/ CursorEnds \/ Refresh \/ Reconnect
           \/ ConnectOtherFails \/ ConnectionLost \/ DisconnectInRun \/ Disconnect
           \/ Switch \/ SwitchElsewhere
  BY <1>6 DEF CommitCmd, RollbackCmd, CursorEnds, Refresh, Reconnect,
     ConnectOtherFails, ConnectionLost, DisconnectInRun, Disconnect, Switch,
     SwitchElsewhere, Command, TxClose, runVars, hostVars
<1>7. CASE \/ ApplyRolledBack \/ ApplyFailsEarly
           \/ \E x \in Unused : Apply(x) \/ ApplyFailsHalfway(x)
  BY <1>7 DEF ApplyRolledBack, ApplyFailsEarly, Apply, ApplyFailsHalfway,
     CanApply, Command, runVars
<1> QED BY <1>1, <1>2, <1>3, <1>4, <1>5, <1>6, <1>7 DEF Next

\* On production only the user's word makes a change durable.
LEMMA ConsentStep ==
  ASSUME IInv, Disciplined(site), AsksFirst(site), Asked, Next, SavesHeld
  PROVE  Consented
<1> SUFFICES ASSUME ~CommitCmd, ~(run = "none" /\ Reconnect), run # "confirmed"
             PROVE  conn'.durable = conn.durable \/ conn.uncommitted = {}
  BY DEF SavesHeld, IInv, ListMatches, Consented
<1>0. site.prod
  BY DEF SavesHeld
<1>1. CASE Read \/ Lock \/ StatementFails \/ Refresh
  <2>1. CASE Refresh
    BY <1>0, <2>1 DEF Refresh, Command, Disciplined
  <2>2. CASE Read
    <3>1. Here
      BY <2>2, HereInRun DEF Read, Statement
    <3> QED BY <2>2, <3>1, ReadSound DEF Read, Same
  <2>3. CASE Lock
    <3>1. Here /\ "lock" \in site.ops
      BY <2>3, HereInRun DEF Lock, Statement
    <3> QED BY <2>3, <3>1, LockSound DEF Lock, Same
  <2>4. CASE StatementFails
    <3>1. conn.up => Here
      BY <2>4, HereInRun DEF StatementFails
    <3>2. Same(conn, Closed)
      BY ClosedSound DEF IInv
    <3> QED BY <2>4, <3>1, <3>2, ReadySound DEF StatementFails, Same
  <2> QED BY <1>1, <2>1, <2>2, <2>3, <2>4
<1>2. ASSUME NEW x \in Unused, Change(x) \/ DdlInTx(x) \/ DdlCommits(x)
      PROVE  conn'.durable = conn.durable
  <2>1. Here /\ ~AutoEff
    BY <1>0, <1>2, HereInRun DEF Change, DdlInTx, DdlCommits, Statement, Here
  <2>2. ~DdlCommits(x)
    BY <1>0 DEF DdlCommits, Statement, AsksFirst
  <2>3. conn' = [SrvWrite(Ready, x) EXCEPT !.txChanged = TRUE]
    BY <1>2, <2>1, <2>2 DEF Change, DdlInTx
  <2>4. x \in Changes
    BY DEF Unused
  <2> QED BY <2>1, <2>3, <2>4, WriteSound
<1>3. CASE CommitStmt
  <2>1. run \in HeldRuns /\ ~commitOk
    BY <1>0, <1>3 DEF CommitStmt, IInv, TypeOK, Runs, HeldRuns, RunsFit, Asked
  <2>2. ~conn.txChanged
    BY <1>3, <2>1 DEF CommitStmt, Intercepted
  <2> QED BY <2>2 DEF IInv, Sound
<1>4. CASE RollbackStmt
  <2>1. Here /\ ~AutoEff
    BY <1>0, <1>4, HereInRun DEF RollbackStmt, Here
  <2>2. conn' = NoteTxEnded(SrvRollback(Closed))
    BY <1>4, <2>1 DEF RollbackStmt, AfterEnd
  <2> QED BY <2>2, ClosedEnds, NotedSound DEF Drops, Same
<1>5. CASE RollbackCmd
  BY <1>5, ClosedEnds, NotedSound DEF RollbackCmd, Drops, Same
<1>6. CASE \/ StartRun \/ StartConfirmed \/ StopAtCommit \/ EndRun \/ EndHeldRun
           \/ Switch \/ SwitchElsewhere
  BY <1>6 DEF StartRun, StartConfirmed, StopAtCommit, EndRun, EndHeldRun, Switch,
     SwitchElsewhere
<1>7. CASE CursorEnds
  BY <1>7, ClosedSound DEF CursorEnds, IInv, Same
<1>8. CASE ConnectionLost
  BY <1>8 DEF ConnectionLost, NoteTxEnded, SrvRollback, IInv, TypeOK, Connection
<1>9. /\ ~BeginStmt /\ ~EndBelowThreshold /\ ~ConnectOtherFails /\ ~Reconnect
      /\ ~DisconnectInRun
  BY <1>0 DEF Disciplined, AsksFirst, BeginStmt, Statement, EndBelowThreshold,
     ConnectOtherFails, Reconnect, DisconnectInRun
<1>10. /\ ~ApplyRolledBack /\ ~ApplyFailsEarly
       /\ \A x \in Unused : ~Apply(x) /\ ~ApplyFailsHalfway(x)
  BY <1>0 DEF ApplyRolledBack, ApplyFailsEarly, Apply, ApplyFailsHalfway, CanApply
\* A disconnect is made only once nothing is listed.
<1>11. CASE Disconnect
  BY <1>11 DEF Disconnect, Command, NothingListed, IInv, RunsFit, ListMatches, UserList
<1> QED BY <1>1, <1>2, <1>3, <1>4, <1>5, <1>6, <1>7, <1>8, <1>9, <1>10, <1>11 DEF Next

(* On production a listed change becomes durable only by Commit, by the    *)
(* COMMIT the user confirmed, or by a connect outside a run (HoldPolicy).  *)
THEOREM HeldChangesNeedConsent == Spec => HeldNeedsConsent
<1> DEFINE Inv == Keeps /\ AskedThere
<1>1. Init => Inv
  BY KeepsStep DEF Init, Asked, AskedThere
<1>2. Inv /\ [Next]_vars => Inv'
  <2> SUFFICES ASSUME Inv, [Next]_vars PROVE AskedThere'
    BY KeepsStep
  <2>1. (Disciplined(site) <=> Disciplined(site)') /\ (AsksFirst(site) <=> AsksFirst(site)')
    BY SiteStays DEF Disciplined, AsksFirst
  <2>2. Disciplined(site) /\ AsksFirst(site) => Asked'
    BY AskedStep DEF Keeps, AskedThere
  <2> QED BY <2>1, <2>2 DEF AskedThere
<1>3. Inv /\ [Next]_vars
        => [Disciplined(site) /\ AsksFirst(site) /\ SavesHeld => Consented]_vars
  BY ConsentStep DEF Keeps, AskedThere
<1> QED BY <1>1, <1>2, <1>3, PTL DEF Spec, HeldNeedsConsent
-----------------------------------------------------------------------------
\* What a run will report as held is on the list already in manual mode, and
\* nothing is kept for a report outside a run.
HoldInv == /\ TypeOK
           /\ prodHeld => txPending # {}
           /\ run = "none" => heldNow = {}
           /\ mode = "manual" => heldNow \subseteq txPending

\* Every step preserves it.
LEMMA HoldStep ==
  ASSUME HoldInv, "run_disconnect" \notin site.ops, [Next]_vars
  PROVE  HoldInv'
<1>0. TypeOK' /\ mode \in {"auto", "manual"}
  BY TypeStep DEF HoldInv, TypeOK
<1> USE DEF HoldInv
<1>1. CASE UNCHANGED vars
  BY <1>0, <1>1 DEF vars, runVars, hostVars
<1>2. CASE StartRun \/ StartConfirmed
  <2>1. UNCHANGED <<mode, hostVars>>
    BY <1>2 DEF StartRun, StartConfirmed
  <2>2. heldNow' = {} \/ UNCHANGED <<run, heldNow>>
    BY <1>2 DEF StartRun, StartConfirmed, runVars
  <2> QED BY <1>0, <2>1, <2>2 DEF hostVars
\* Statements that end a transaction take the hold back with the list.
<1>3. CASE CommitStmt \/ RollbackStmt \/ Reconnect \/ \E x \in Unused : DdlCommits(x)
  <2>1. TxClose /\ heldNow' = {}
    BY <1>3 DEF CommitStmt, RollbackStmt, Reconnect, DdlCommits
  <2> QED BY <1>0, <2>1 DEF TxClose
<1>4. ASSUME NEW x \in Unused, Change(x) \/ DdlInTx(x)
      PROVE  HoldInv'
  <2>1. /\ Listed(x) /\ UNCHANGED <<mode, run, prodHeld>> /\ run # "none"
        /\ heldNow' \in {heldNow, heldNow \cup {x}}
    BY <1>4 DEF Change, DdlInTx, Statement
  <2> QED BY <1>0, <2>1 DEF Listed
<1>5. ASSUME NEW x \in Unused, Apply(x) \/ ApplyFailsHalfway(x)
      PROVE  HoldInv'
  <2>1. Listed(x) /\ UNCHANGED <<mode, run, heldNow, prodHeld>>
    BY <1>5 DEF Apply, ApplyFailsHalfway, CanApply, Command, runVars
  <2> QED BY <1>0, <2>1 DEF Listed
<1>6. CASE Read \/ Lock \/ BeginStmt \/ StatementFails
  <2>1. UNCHANGED <<mode, heldNow, hostVars>> /\ (run' = "none" => run = "none")
    BY <1>6 DEF Read, Lock, BeginStmt, StatementFails, Statement
  <2> QED BY <1>0, <2>1 DEF hostVars
\* A hold is taken for statements the run has changed something with.
<1>7. CASE StopAtCommit \/ EndHeldRun
  <2>1. /\ RunOver /\ UNCHANGED mode
        /\ \/ UNCHANGED hostVars
           \/ heldNow # {} /\ Hold(heldNow)
    BY <1>7 DEF StopAtCommit, EndHeldRun, HasHeld
  <2>2. heldNow # {} /\ Hold(heldNow) => txPending' # {}
    BY <1>0 DEF Hold
  <2> QED BY <1>0, <2>1, <2>2 DEF RunOver, hostVars
<1>8. CASE EndRun \/ EndBelowThreshold
  BY <1>0, <1>8 DEF EndRun, EndBelowThreshold, RunOver, hostVars
<1>9. CASE CommitCmd \/ RollbackCmd \/ ConnectionLost \/ Disconnect
  <2>1. TxClose /\ UNCHANGED <<mode, run, heldNow>>
    BY <1>9 DEF CommitCmd, RollbackCmd, ConnectionLost, Disconnect, Command, runVars
  <2>2. heldNow = {}
    BY <1>9 DEF CommitCmd, RollbackCmd, ConnectionLost, Disconnect, Command
  <2> QED BY <1>0, <2>1, <2>2 DEF TxClose
<1>10. CASE CursorEnds \/ Refresh
  BY <1>0, <1>10 DEF CursorEnds, Refresh, Command, runVars, hostVars
<1>11. CASE ApplyRolledBack \/ ApplyFailsEarly
  BY <1>0, <1>11 DEF ApplyRolledBack, ApplyFailsEarly, CanApply, Command, runVars
<1>12. CASE ConnectOtherFails
  BY <1>0, <1>12 DEF ConnectOtherFails, runVars, hostVars
<1>13. CASE Switch \/ SwitchElsewhere
  <2>1. /\ run = "none" /\ UNCHANGED <<run, heldNow>>
        /\ TxClose \/ UNCHANGED hostVars
    BY <1>13 DEF Switch, SwitchElsewhere, Command, runVars
  <2> QED BY <1>0, <2>1 DEF TxClose, hostVars
<1>14. ~DisconnectInRun
  BY DEF DisconnectInRun
<1> QED BY <1>1, <1>2, <1>3, <1>4, <1>5, <1>6, <1>7, <1>8, <1>9, <1>10, <1>11, <1>12,
           <1>13, <1>14 DEF Next

(* Whatever the servers and the workload, unless a run may have a          *)
(* DISCONNECT in its text, a hold the user is asked to commit has          *)
(* something on its list (tx_on_held, tx_close).                           *)
THEOREM HoldsAreListed == Spec => []HoldIsListed
<1> DEFINE Inv == "run_disconnect" \notin site.ops => HoldInv
<1>1. Init => Inv
  BY TypeInit DEF Init, HoldInv
<1>2. Inv /\ [Next]_vars => Inv'
  BY SiteStays, HoldStep
<1>3. Inv => HoldIsListed
  BY DEF HoldInv, HoldIsListed
<1> QED BY <1>1, <1>2, <1>3, PTL DEF Spec
=============================================================================
