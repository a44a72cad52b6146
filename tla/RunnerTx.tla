------------------------------ MODULE RunnerTx ------------------------------
(***************************************************************************)
(* The transactions of one session: the runner (struct Runner, nsql-run),  *)
(* the server it talks to, and the host's list of pending changes (tx.rs). *)
(*                                                                         *)
(* The user's commit mode is not the server's.  In manual mode the runner  *)
(* opens a transaction ahead of the first statement (T-146); on a          *)
(* production connection in automatic mode it does so too and holds the    *)
(* changes until the user commits twice (docs/114).  A transaction that    *)
(* only read is ended by itself (docs/56); if the result still has an open *)
(* cursor, its end is put off until the cursor closes.  The runner does    *)
(* not ask the server for its state: it keeps flags.                       *)
(*                                                                         *)
(* One action is one statement of a run, or one command outside a run.     *)
(* The order of events between worker and host is the subject of           *)
(* SessionGate; here the host has read all events of a step.               *)
(***************************************************************************)
EXTENDS Naturals

CONSTANTS
  Changes,   \* the changes that may be made, each at most once
  Sites,     \* servers the session may be on and what is done there, see SiteKind
  Modes,     \* commit modes the session may start in
  DdlGuard,  \* setting tx.ddl_commit_guard
  EndsReads, \* setting tx.read_end is not "off"
  MaxDepth   \* bound: nested BEGINs counted by the server

\* What matters of a server, from the capability table (caps.rs) and, for
\* nested, from how servers answer BEGIN inside a transaction; prod says the
\* connection is marked as production and tx.prod_hold is on; ops are the
\* operations of the workload beyond reads, changes, commits and rollbacks.
NestedBegin == { "keep", "error", "commit", "count" }
AllOps == { "lock", "begin", "ddl", "fail", "below", "rest", "rest_ddl", "apply",
            "apply_fails", "apply_on_cursor", "refresh", "connect", "run_connect",
            "connect_other", "disconnect", "run_disconnect", "lost", "switch",
            "switch_elsewhere" }
SiteKind == [ begin : BOOLEAN,      \* caps.tx_begin is given
              autocommit : BOOLEAN, \* caps.server_autocommit
              ddlTx : BOOLEAN,      \* ddl_transactional
              savepoint : BOOLEAN,
              nested : NestedBegin,
              prod : BOOLEAN,
              ops : SUBSET AllOps ]

ASSUME TxAssumption ==
  /\ Sites \subseteq SiteKind
  /\ Modes \subseteq {"auto", "manual"}
  /\ DdlGuard \in BOOLEAN
  /\ EndsReads \in BOOLEAN
  /\ MaxDepth \in Nat \ {0}

Cursors == { "none", "kept", "commit", "rollback" }  \* kept: no end put off
Runs    == { "none", "plain", "held", "confirmed" }
HeldRuns == { "held", "confirmed" }                  \* runs with a HoldPolicy
Rests   == { "none", "plain", "ddl" }

\* The connection: the server's side of it, and the runner's flags about it,
\* which may outlive it: up is Runner.session.is_some().
Connection == [ up : BOOLEAN,
                depth : Nat,
                uncommitted : SUBSET Changes,
                durable : SUBSET Changes,
                undone : SUBSET Changes,
                txOpen : BOOLEAN, txUser : BOOLEAN, txChanged : BOOLEAN,
                cursor : Cursors ]

VARIABLES
  site, mode,
  conn,
  run, heldNow,   \* the run under way, Runner.hold_stmts
  commitOk,       \* HoldPolicy.commit_ok
  may,            \* statements run_tx_gate let through with this run
  txPending,      \* the changes on Sess.tx_pending
  emptyApply,     \* a line on it for an apply that left nothing behind
  prodHeld, rest, \* Sess.prod_held and its remaining text
  once            \* App.hold_commit_ok_once

runVars  == <<run, heldNow, commitOk, may>>
hostVars == <<txPending, emptyApply, prodHeld, rest>>
vars == <<site, mode, conn, runVars, hostVars, once>>

TypeOK ==
  /\ site \in SiteKind
  /\ mode \in {"auto", "manual"}
  /\ conn \in Connection
  /\ run \in Runs
  /\ heldNow \subseteq Changes
  /\ commitOk \in BOOLEAN
  /\ may \subseteq {"change", "ddl"}
  /\ txPending \subseteq Changes
  /\ emptyApply \in BOOLEAN
  /\ prodHeld \in BOOLEAN
  /\ rest \in Rests
  /\ once \in BOOLEAN

NewConnection == [ up |-> TRUE, depth |-> 0, uncommitted |-> {}, durable |-> {}, undone |-> {},
                   txOpen |-> FALSE, txUser |-> FALSE, txChanged |-> FALSE,
                   cursor |-> "none" ]

Init ==
  /\ site \in Sites
  /\ mode \in Modes
  /\ conn = NewConnection
  /\ run = "none" /\ heldNow = {} /\ commitOk = FALSE /\ may = {}
  /\ txPending = {} /\ emptyApply = FALSE
  /\ prodHeld = FALSE /\ rest = "none" /\ once = FALSE

Unused == Changes \ (conn.uncommitted \cup conn.durable \cup conn.undone)

-----------------------------------------------------------------------------
(* The server.                                                             *)

SrvCommitAll(c) ==
  [c EXCEPT !.depth = 0, !.durable = @ \cup c.uncommitted, !.uncommitted = {}]

\* Mutant of SrvCommit: a COMMIT with no transaction open is counted too.
SrvCommitUncounted(c) ==
  IF c.depth # 1 THEN [c EXCEPT !.depth = @ - 1] ELSE SrvCommitAll(c)

\* A server that counts nested BEGINs commits at the outermost COMMIT only.
SrvCommit(c) ==
  IF c.depth > 1 THEN [c EXCEPT !.depth = @ - 1] ELSE SrvCommitAll(c)

\* ROLLBACK, or the end of the connection.
SrvRollback(c) ==
  [c EXCEPT !.depth = 0, !.undone = @ \cup c.uncommitted, !.uncommitted = {}]

\* BEGIN inside a transaction: a warning, an error, an implicit commit of the
\* outer one, or a counter.
BeginFails(c) == c.depth > 0 /\ site.nested = "error"
SrvBegin(c) ==
  CASE c.depth = 0 -> [c EXCEPT !.depth = 1]
    [] c.depth > 0 /\ site.nested = "count" -> [c EXCEPT !.depth = @ + 1]
    [] c.depth > 0 /\ site.nested = "commit" -> [SrvCommitAll(c) EXCEPT !.depth = 1]
    [] OTHER -> c

\* Outside a transaction a server with autocommit keeps the change at once.
SrvWrite(c, x) ==
  IF c.depth = 0 /\ site.autocommit
    THEN [c EXCEPT !.durable = @ \cup {x}]
    ELSE [c EXCEPT !.uncommitted = @ \cup {x}, !.depth = IF @ = 0 THEN 1 ELSE @]

-----------------------------------------------------------------------------
(* The runner's share of a statement.                                      *)

\* execute: autocommit_eff.
AutoEff == mode = "auto" /\ run \notin HeldRuns

\* Mutant of NoteTxEnded: the mark of a user's own transaction is kept.
NoteTxEndedKeepsUser(c) == [c EXCEPT !.txOpen = FALSE, !.txChanged = FALSE]

\* note_tx_ended.
NoteTxEnded(c) == [c EXCEPT !.txOpen = FALSE, !.txUser = FALSE, !.txChanged = FALSE]

\* finish_tx, and the lowering of tx_open by its callers.
FinishTx(c) ==
  CASE c.cursor = "commit"   -> [SrvCommit(c)   EXCEPT !.txOpen = FALSE]
    [] c.cursor = "rollback" -> [SrvRollback(c) EXCEPT !.txOpen = FALSE]
    [] OTHER -> c
CloseCursor(c) == [FinishTx(c) EXCEPT !.cursor = "none"]

\* manual_begin_sql, for a statement that is not BEGIN, COMMIT or ROLLBACK.
NeedsBegin(c) == ~AutoEff /\ ~c.txOpen /\ ~c.txUser /\ site.begin
Refused(c)    == NeedsBegin(c) /\ BeginFails(c)
ManualBegin(c) ==
  IF NeedsBegin(c) THEN [SrvBegin(c) EXCEPT !.txOpen = TRUE] ELSE c

Closed == CloseCursor(conn)    \* a new statement closes the cursor first
Ready  == ManualBegin(Closed)

\* autocommit_needs_commit.
NeedsCommit(c) == ~site.autocommit \/ c.txOpen \/ c.txUser

\* The end of a statement in automatic mode: commit, or, with the cursor kept,
\* commit when it closes.
AutoEnd(c, keep) ==
  IF ~NeedsCommit(c) THEN [c EXCEPT !.cursor = IF keep THEN "kept" ELSE "none"]
  ELSE IF keep THEN [c EXCEPT !.cursor = "commit"]
  ELSE [SrvCommit(c) EXCEPT !.txOpen = FALSE]

\* Mutant of ReadEnd: changes made before the read are not looked at.
ReadEndBlind(c, keep) ==
  IF EndsReads /\ ~c.txUser
    THEN IF keep THEN [c EXCEPT !.cursor = "rollback"]
                 ELSE [SrvRollback(c) EXCEPT !.txOpen = FALSE]
    ELSE [c EXCEPT !.cursor = IF keep THEN "kept" ELSE "none"]

\* The end of a read in manual mode or under the hold (read_end_due).
ReadEnd(c, keep) ==
  IF EndsReads /\ ~c.txChanged /\ ~c.txUser
    THEN IF keep THEN [c EXCEPT !.cursor = "rollback"]
                 ELSE [SrvRollback(c) EXCEPT !.txOpen = FALSE]
    ELSE [c EXCEPT !.cursor = IF keep THEN "kept" ELSE "none"]

AfterRead(c, keep) == IF AutoEff THEN AutoEnd(c, keep) ELSE ReadEnd(c, keep)

\* After a COMMIT or ROLLBACK statement, or DDL that commits.
AfterEnd(c) == IF AutoEff THEN AutoEnd(c, FALSE) ELSE NoteTxEnded(c)

-----------------------------------------------------------------------------
(* The host's share.                                                       *)

\* tx_close.
TxClose ==
  /\ txPending' = {} /\ emptyApply' = FALSE
  /\ prodHeld' = FALSE /\ rest' = "none"
NothingListed == txPending = {} /\ ~emptyApply

\* tx_on_done for a statement that changed something.
Listed(x) == txPending' = IF mode = "manual" THEN txPending \cup {x} ELSE txPending

\* Mutant of Hold: the held statements are not put on the list.
HoldUnlisted(stmts) == prodHeld' = TRUE /\ UNCHANGED <<txPending, emptyApply>>

\* tx_on_held: in manual mode tx_on_done has listed the statements already.
Hold(stmts) ==
  /\ txPending' = IF mode = "auto" THEN txPending \cup stmts ELSE txPending
  /\ prodHeld' = TRUE
  /\ UNCHANGED emptyApply

\* run_tx_gate, from the tab that holds the changes or from another one.
May(sameTab) ==
  (IF prodHeld /\ ~sameTab THEN {} ELSE {"change"}) \cup
  (IF \/ prodHeld
      \/ (site.prod \/ DdlGuard) /\ ~NothingListed /\ ~site.ddlTx
     THEN {} ELSE {"ddl"})

-----------------------------------------------------------------------------
(* Runs.                                                                   *)

StartRun ==
  /\ run = "none"
  /\ run' = IF site.prod THEN "held" ELSE "plain"
  /\ heldNow' = {}
  /\ commitOk' = (site.prod /\ once)
  /\ once' = IF site.prod THEN FALSE ELSE once
  /\ \E sameTab \in BOOLEAN : may' = May(sameTab)
  /\ UNCHANGED <<site, mode, conn, hostVars>>

\* tx_hold_commit_go after a run that stopped at its COMMIT: "COMMIT;" and the
\* rest of the text are run with commit_ok.  A rest that run_tx_gate blocks
\* leaves hold_commit_ok_once set.
StartConfirmed ==
  /\ run = "none" /\ rest # "none"
  /\ IF rest = "ddl"
       THEN once' = TRUE /\ UNCHANGED runVars
       ELSE /\ run' = "confirmed" /\ heldNow' = {} /\ commitOk' = TRUE
            /\ may' = May(TRUE) /\ once' = FALSE
  /\ UNCHANGED <<site, mode, conn, hostVars>>

\* Without a session execute refuses every statement, COMMIT and ROLLBACK too.
Statement(kind) ==
  /\ run \in {"plain", "held"} /\ conn.up
  /\ kind \in {"", "change"} \/ kind \in site.ops
  /\ kind \in {"change", "ddl"} => kind \in may
  /\ UNCHANGED <<site, mode, may, once>>

Read ==
  /\ Statement("") /\ ~Refused(Closed)
  /\ \E keep \in BOOLEAN : conn' = AfterRead(Ready, keep)
  /\ UNCHANGED <<run, heldNow, commitOk, hostVars>>

\* SELECT ... FOR UPDATE, LOCK.
Lock ==
  /\ Statement("lock") /\ ~Refused(Closed)
  /\ conn' = IF AutoEff THEN AutoEnd(Ready, FALSE) ELSE [Ready EXCEPT !.txUser = TRUE]
  /\ UNCHANGED <<run, heldNow, commitOk, hostVars>>

Change(x) ==
  /\ Statement("change") /\ ~Refused(Closed)
  /\ LET c == SrvWrite(Ready, x)
     IN conn' = IF AutoEff THEN AutoEnd(c, FALSE) ELSE [c EXCEPT !.txChanged = TRUE]
  /\ heldNow' = IF run \in HeldRuns THEN heldNow \cup {x} ELSE heldNow
  /\ Listed(x)
  /\ UNCHANGED <<run, commitOk, emptyApply, prodHeld, rest>>

\* CREATE, DROP, TRUNCATE where they are part of the transaction.
DdlInTx(x) ==
  /\ Statement("ddl") /\ site.ddlTx /\ ~Refused(Closed)
  /\ LET c == SrvWrite(Ready, x)
     IN conn' = IF AutoEff THEN AutoEnd(c, FALSE) ELSE [c EXCEPT !.txChanged = TRUE]
  /\ heldNow' = IF run \in HeldRuns THEN heldNow \cup {x} ELSE heldNow
  /\ Listed(x)
  /\ UNCHANGED <<run, commitOk, emptyApply, prodHeld, rest>>

\* DDL where it commits what came before it.
DdlCommits(x) ==
  /\ Statement("ddl") /\ ~site.ddlTx /\ ~Refused(Closed)
  /\ LET c == SrvCommitAll(SrvWrite(Ready, x)) IN conn' = AfterEnd(c)
  /\ heldNow' = {}
  /\ TxClose
  /\ UNCHANGED <<run, commitOk>>

\* BEGIN, SET TRANSACTION typed by the user.
BeginStmt ==
  /\ Statement("begin") /\ ~BeginFails(Closed) /\ Closed.depth < MaxDepth
  /\ LET c == SrvBegin(Closed)
     IN conn' = IF AutoEff THEN AutoEnd(c, FALSE) ELSE [c EXCEPT !.txUser = TRUE]
  /\ UNCHANGED <<run, heldNow, commitOk, hostVars>>

\* A statement the server refuses: what ran ahead of it has run.  Without a
\* session nothing has.
StatementFails ==
  /\ run # "none" /\ ("fail" \in site.ops \/ ~conn.up)
  /\ conn' = IF ~conn.up \/ Refused(Closed) \/ run = "confirmed" THEN Closed ELSE Ready
  /\ run' = IF run = "confirmed" THEN "held" ELSE run
  /\ commitOk' = IF run = "confirmed" THEN FALSE ELSE commitOk
  /\ UNCHANGED <<site, mode, heldNow, may, hostVars, once>>

\* Mutant of Intercepted: COMMIT is never stopped.
InterceptedNever == FALSE

\* run_item: under the hold, a COMMIT that would save changes stops the run.
Intercepted == run \in HeldRuns /\ ~commitOk /\ conn.txChanged

CommitStmt ==
  /\ run # "none" /\ conn.up /\ ~Intercepted
  /\ conn' = AfterEnd(SrvCommit(Closed))
  /\ heldNow' = {}
  /\ run' = IF run = "confirmed" THEN "held" ELSE run
  /\ commitOk' = FALSE
  /\ TxClose
  /\ UNCHANGED <<site, mode, may, once>>

RollbackStmt ==
  /\ run \in {"plain", "held"} /\ conn.up
  /\ conn' = AfterEnd(SrvRollback(Closed))
  /\ heldNow' = {}
  /\ TxClose
  /\ UNCHANGED <<site, mode, run, commitOk, may, once>>

RunOver == run' = "none" /\ heldNow' = {} /\ commitOk' = FALSE /\ UNCHANGED may

\* hold_finish at a COMMIT: the run stops; the host keeps what is left of it.
StopAtCommit ==
  /\ Intercepted
  /\ RunOver
  /\ IF heldNow = {} THEN UNCHANGED hostVars
       ELSE /\ Hold(heldNow)
            /\ rest' \in {"none"} \cup (IF "rest" \in site.ops THEN {"plain"} ELSE {})
                                  \cup (IF "rest_ddl" \in site.ops THEN {"ddl"} ELSE {})
  /\ UNCHANGED <<site, mode, conn, once>>

HasHeld == run \in HeldRuns /\ conn.txChanged /\ heldNow # {}

\* The end of a run with nothing to hold.
EndRun ==
  /\ run \in {"plain", "held"} /\ ~HasHeld
  /\ RunOver
  /\ UNCHANGED <<site, mode, conn, hostVars, once>>

\* hold_finish at the end of a run.
EndHeldRun ==
  /\ run = "held" /\ HasHeld
  /\ RunOver
  /\ Hold(heldNow) /\ rest' = "none"
  /\ UNCHANGED <<site, mode, conn, once>>

\* hold_finish below a raised threshold (tx.prod_hold_rows): commit now.
EndBelowThreshold ==
  /\ run = "held" /\ HasHeld /\ "below" \in site.ops
  /\ RunOver
  /\ conn' = NoteTxEnded(SrvCommit(conn))
  /\ UNCHANGED <<site, mode, hostVars, once>>

-----------------------------------------------------------------------------
(* Commands outside a run.                                                 *)

Command(op) == run = "none" /\ (op \in site.ops \/ op = "") /\ UNCHANGED <<site, runVars, once>>

\* Commit and Rollback of the tool bar, the menu, the warning card.
CommitCmd ==
  /\ Command("") /\ UNCHANGED mode
  /\ conn' = NoteTxEnded(SrvCommit(Closed))
  /\ TxClose
RollbackCmd ==
  /\ Command("") /\ UNCHANGED mode
  /\ conn' = NoteTxEnded(SrvRollback(Closed))
  /\ TxClose

\* The last page of a kept cursor, a fetch that fails, the idle limit of
\* cursors: close_cursor.
CursorEnds ==
  /\ Command("") /\ UNCHANGED <<mode, hostVars>>
  /\ conn.cursor # "none"
  /\ conn' = Closed

\* refresh_result and Explain: one read, run without the hold.
Refresh ==
  /\ Command("refresh") /\ UNCHANGED <<mode, hostVars>>
  /\ conn.up /\ ~Refused(Closed)
  /\ \E keep \in BOOLEAN : conn' = AfterRead(Ready, keep)

\* Mutant of ApplyBegun: BEGIN is sent inside the open transaction.
ApplyBegunAlways(c) == IF site.begin THEN SrvBegin(c) ELSE c

\* apply_changes_pre: the edits of a grid in one piece.  The cursor is not
\* closed.  Production connections have no grid edit.
ApplyNeedsBegin(c) == site.begin /\ (mode = "auto" \/ ~c.txOpen)
ApplyBegun(c) == IF ApplyNeedsBegin(c) THEN SrvBegin(c) ELSE c
CanApply(op) ==
  /\ Command(op) /\ UNCHANGED mode
  /\ ~site.prod /\ conn.up
  /\ conn.cursor # "none" => "apply_on_cursor" \in site.ops
  /\ conn.depth < MaxDepth
  /\ ~(ApplyNeedsBegin(conn) /\ BeginFails(conn))

LeftOpen(c) == [c EXCEPT !.txOpen = TRUE, !.txChanged = TRUE]

Apply(x) ==
  /\ CanApply("apply")
  /\ LET c == SrvWrite(ApplyBegun(conn), x)
     IN conn' = IF mode = "auto" THEN NoteTxEnded(SrvCommit(c)) ELSE LeftOpen(c)
  /\ Listed(x)
  /\ UNCHANGED <<emptyApply, prodHeld, rest>>

\* A check or a statement fails: rolled back whole in automatic mode, to the
\* savepoint in manual mode.
ApplyRolledBack ==
  /\ CanApply("apply_fails")
  /\ mode = "auto" \/ site.savepoint
  /\ LET c == ApplyBegun(conn)
     IN conn' = IF mode = "auto" THEN NoteTxEnded(SrvRollback(c))
                ELSE [c EXCEPT !.txOpen = @ \/ ApplyNeedsBegin(conn)]
  /\ emptyApply' = (emptyApply \/ (mode = "manual" /\ conn'.txOpen))
  /\ UNCHANGED <<txPending, prodHeld, rest>>

\* Without savepoints what was written before the failure stays.
ApplyFailsHalfway(x) ==
  /\ CanApply("apply_fails")
  /\ mode = "manual" /\ ~site.savepoint
  /\ conn' = LeftOpen(SrvWrite(ApplyBegun(conn), x))
  /\ Listed(x)
  /\ UNCHANGED <<emptyApply, prodHeld, rest>>

\* The same when a check ahead of the statements fails: nothing was written.
ApplyFailsEarly ==
  /\ CanApply("apply_fails")
  /\ mode = "manual" /\ ~site.savepoint
  /\ conn' = LeftOpen(ApplyBegun(conn))
  /\ emptyApply' = TRUE
  /\ UNCHANGED <<txPending, prodHeld, rest>>

\* The transaction is committed, what a counting server then still has open is
\* rolled back, and the session is closed.  The flags stay as they are.
SessionClosed(c) == [SrvRollback(SrvCommit(c)) EXCEPT !.up = FALSE]

\* connect: the session is committed and closed, and replaced; it is not
\* replaced (ok is FALSE) when the server it was on refuses the new one.
\* From the user interface, which asks about pending changes first, or by a
\* CONNECT in the text of a run, which does not.
Reconnect ==
  /\ run # "confirmed"
  /\ (IF run = "none" THEN "connect" ELSE "run_connect") \in site.ops
  /\ \E ok \in BOOLEAN :
       /\ ok \/ conn.up
       /\ conn' = [NoteTxEnded(SessionClosed(Closed)) EXCEPT !.up = ok]
  /\ heldNow' = {}
  /\ TxClose
  /\ UNCHANGED <<site, mode, run, commitOk, may, once>>

\* Action::Disconnect, a DISCONNECT in the text of a run.  Unlike connect it
\* leaves the flags and hold_stmts of the runner as they are.
DisconnectInRun ==
  /\ run \in {"plain", "held"} /\ "run_disconnect" \in site.ops
  /\ conn' = SessionClosed(Closed)
  /\ TxClose
  /\ UNCHANGED <<site, mode, runVars, once>>

\* disconnect_force, disconnect_private: asked about pending changes first.  The
\* runner is replaced by a new one, or kept with its flags (a tab's session).
Disconnect ==
  /\ Command("disconnect") /\ UNCHANGED mode
  /\ NothingListed
  /\ conn' \in { SessionClosed(Closed), NoteTxEnded(SessionClosed(Closed)) }
  /\ TxClose

\* connect to another server fails: the old session has been committed and is
\* kept, with the flags as they were.
ConnectOtherFails ==
  /\ run # "confirmed" /\ "connect_other" \in site.ops
  /\ conn' = SrvCommit(Closed)
  /\ UNCHANGED <<site, mode, runVars, hostVars, once>>

\* The server or the network ends the session.
ConnectionLost ==
  /\ Command("lost") /\ UNCHANGED mode
  /\ conn.up
  /\ conn' = [NoteTxEnded(SrvRollback(conn)) EXCEPT !.cursor = "none"]
  /\ TxClose

Toggled == IF mode = "auto" THEN "manual" ELSE "auto"

\* set_autocommit: to automatic mode only once nothing is pending here.
Switch ==
  /\ Command("switch") /\ UNCHANGED conn
  /\ mode' = Toggled
  /\ IF mode' = "auto" THEN NothingListed /\ TxClose ELSE UNCHANGED hostVars

\* The mode is that of all sessions, and the question is asked of the one the
\* user is looking at: this session is switched from another one.
SwitchElsewhere ==
  /\ Command("switch_elsewhere") /\ UNCHANGED <<conn, hostVars>>
  /\ mode' = Toggled

-----------------------------------------------------------------------------
Next ==
  \/ StartRun \/ StartConfirmed
  \/ Read \/ Lock \/ BeginStmt \/ StatementFails \/ CommitStmt \/ RollbackStmt
  \/ \E x \in Unused : Change(x) \/ DdlInTx(x) \/ DdlCommits(x)
                         \/ Apply(x) \/ ApplyFailsHalfway(x)
  \/ StopAtCommit \/ EndRun \/ EndHeldRun \/ EndBelowThreshold
  \/ CommitCmd \/ RollbackCmd \/ CursorEnds \/ Refresh
  \/ ApplyRolledBack \/ ApplyFailsEarly
  \/ Reconnect \/ ConnectOtherFails \/ ConnectionLost
  \/ DisconnectInRun \/ Disconnect \/ Switch \/ SwitchElsewhere

Spec == Init /\ [][Next]_vars

-----------------------------------------------------------------------------
(* Workloads under which the promises hold.  What they leave out breaks    *)
(* one of them: a server without BEGIN that commits each statement; BEGIN  *)
(* typed in automatic mode; a raised threshold; an apply under a cursor; a *)
(* failed connect elsewhere; the mode switched from another session; on    *)
(* production a refresh of held changes, and a DISCONNECT in the text of a *)
(* run, which saves the run's changes and goes on listing them as held; a  *)
(* lock kept, or a transaction left open ahead of a nested BEGIN that      *)
(* counts, across a switch of modes.                                       *)
Disciplined(s) ==
  /\ s.begin \/ ~s.autocommit
  /\ s.ops \cap {"begin", "below", "apply_on_cursor", "connect_other",
                 "switch_elsewhere"} = {}
  /\ s.prod => s.ops \cap {"refresh", "run_disconnect"} = {}
  /\ "switch" \in s.ops /\ ~s.prod => "lock" \notin s.ops /\ s.nested # "count"

(* For consent also: DDL that commits what was changed ahead of it in the  *)
(* same run, CONNECT in the text of a run, and a rest of a text that       *)
(* run_tx_gate blocks.                                                     *)
AsksFirst(s) ==
  s.prod => /\ s.ddlTx \/ "ddl" \notin s.ops
            /\ s.ops \cap {"run_connect", "rest_ddl"} = {}

-----------------------------------------------------------------------------
(* Everything not yet committed, and nothing else, is on the user's list,  *)
(* counting the statements the run under way will report as held.  As the  *)
(* next three, a promise to a site whose workload is disciplined.          *)
UserList == txPending \cup heldNow
ListMatches == conn.uncommitted = UserList
ListIsTrue == Disciplined(site) => ListMatches

(* The list leaves whole: saved together or dropped together (UnitOfWork). *)
Promised(changes) == IF Disciplined(site) THEN changes ELSE {}
Unit == INSTANCE UnitOfWork WITH list <- Promised(UserList),
          saved <- Promised(conn.durable), dropped <- Promised(conn.undone)
UnitPromise == Unit!Spec

(* While there is a session, the runner's flags and the server agree on     *)
(* whether a transaction is open; a flag left up would make the next       *)
(* change durable at once.  A disconnect leaves them up until the next     *)
(* connect, when no statement can run.                                     *)
FlagsTrackServer ==
  Disciplined(site) /\ site.begin /\ conn.up
    => ((conn.txOpen \/ conn.txUser) <=> conn.depth > 0)

(* What is still to be rolled back when a cursor closes holds no change:   *)
(* only transactions that changed nothing are ended quietly (docs/56 L1).  *)
QuietEndIsReadOnly ==
  Disciplined(site) /\ conn.cursor = "rollback" => conn.uncommitted = {}

(* A hold is shown for statements that are on the list: what the user is   *)
(* asked to commit is never an empty card (tx_on_held).  A DISCONNECT in    *)
(* the text of a run breaks it: it closes the list, and in manual mode the *)
(* hold reported at the end of the run is not put on it again.             *)
HoldIsListed == "run_disconnect" \notin site.ops /\ prodHeld => txPending # {}

(* On a production connection a change the user was told is pending       *)
(* becomes durable only by his Commit, by the COMMIT he confirmed, or by a *)
(* connect outside a run, asked for with its changes shown (docs/114).     *)
SavesHeld == site.prod /\ UserList \cap (conn'.durable \ conn.durable) # {}
Consented == CommitCmd \/ (run = "none" /\ Reconnect) \/ run = "confirmed"
HeldNeedsConsent ==
  [][Disciplined(site) /\ AsksFirst(site) /\ SavesHeld => Consented]_vars

=============================================================================
