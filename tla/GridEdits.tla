----------------------------- MODULE GridEdits -----------------------------
(***************************************************************************)
(* The cells a user changes in a result grid (grid.rs) and their way to    *)
(* the server: the grid keeps a change set over the rows it shows, the     *)
(* worker carries all of it out as one unit (apply_changes_pre, nsql-run), *)
(* and the answer empties the change set or leaves it as it is.            *)
(*                                                                         *)
(* The unit is a transaction in automatic mode and a savepoint inside the  *)
(* user's transaction in manual mode.  Every call to the server is a step: *)
(* it may be refused, hit no row or several, or be cut off with the        *)
(* connection.  Meanwhile the user goes on.                                *)
(*                                                                         *)
(* SessionGate lets one command of a session run at a time, so nothing     *)
(* else reaches this server session between the steps of a unit.           *)
(***************************************************************************)
EXTENDS Naturals

CONSTANTS
  Edits,      \* the changes the user may make, each at most once
  Deletes,    \* those that delete a row
  Sites,      \* servers the session may be on, see SiteKind
  Modes,      \* commit modes of the session
  Refreshes,  \* values of grid.edit_refresh
  Workloads   \* sets of what the user does beside edit and apply, see Habits

\* From the capability table (caps.rs).
SiteKind == [ begin : BOOLEAN,      \* caps.tx_begin is given
              autocommit : BOOLEAN, \* caps.server_autocommit
              savepoint : BOOLEAN ]

\* work: has changes of his own in the transaction; turn: looks at another
\* result while an answer is on its way; takeback: undoes, repeats or discards
\* edits while they are being applied; leave: disconnects before their answer;
\* move: takes the session to another server; busy: not the user's doing, another
\* connection keeps his COMMIT from being carried out (SQLite).
Habits == { "work", "turn", "takeback", "leave", "move", "busy" }

\* Only a server without row statements (ClickHouse) has neither a BEGIN nor
\* transactions, and its results are not editable (dialect_editable).
ASSUME GridAssumption ==
  /\ Deletes \subseteq Edits
  /\ Sites \subseteq { s \in SiteKind : s.autocommit => s.begin }
  /\ Modes \subseteq {"auto", "manual"}
  /\ Refreshes \subseteq {"rows", "requery", "local"}
  /\ Workloads \subseteq SUBSET Habits

VARIABLES
  site, mode, refresh, does,
  grid,   \* one result: its rows, its change set, and what was sent of it
  srv,    \* the server's side of the session
  txOpen, \* the runner's flag
  unit,   \* the apply under way: its phase and report
  listed  \* the host lists an open transaction: the buttons to end it are on

vars == <<site, mode, refresh, does, grid, srv, txOpen, unit, listed>>

Phases == { "idle", "queued", "begin", "mark", "check", "exec", "end", "told" }

Grids ==
  [ rows : SUBSET Edits,     \* edits the rows at hand contain
    changed : SUBSET Edits,  \* the change set
    undone : SUBSET Edits,   \* taken back, may be repeated
    applying : BOOLEAN,
    sent : SUBSET Edits,
    stale : BOOLEAN,         \* a refresh of the result is under way
    front : BOOLEAN,         \* the result the user looks at
    home : BOOLEAN ]         \* rows and session are of one server

Marks == [ set : BOOLEAN, pend : SUBSET Edits, over : BOOLEAN ]

Servers ==
  [ open : BOOLEAN,
    pend : SUBSET Edits, over : BOOLEAN,  \* uncommitted; one hit several rows
    kept : SUBSET Edits, spilt : BOOLEAN, \* committed; one hit several rows
    mark : Marks,
    work : BOOLEAN,                       \* changes of the user's own, uncommitted
    up : BOOLEAN ]

Units ==
  [ at : Phases, began : BOOLEAN, savepoint : BOOLEAN, failed : BOOLEAN,
    done : SUBSET Edits,
    needed : BOOLEAN, left : BOOLEAN,                  \* of ApplyReport
    pendFrom : SUBSET Edits, keptFrom : SUBSET Edits ] \* srv before it

TypeOK ==
  /\ site \in Sites /\ mode \in Modes /\ refresh \in Refreshes /\ does \in Workloads
  /\ grid \in Grids /\ srv \in Servers /\ unit \in Units
  /\ txOpen \in BOOLEAN /\ listed \in BOOLEAN
  /\ grid.changed \cap (grid.undone \cup grid.rows) = {}

NoMark == [ set |-> FALSE, pend |-> {}, over |-> FALSE ]

NoUnit == [ at |-> "idle", began |-> FALSE, savepoint |-> FALSE, failed |-> FALSE,
            done |-> {}, needed |-> FALSE, left |-> FALSE,
            pendFrom |-> {}, keptFrom |-> {} ]

Init ==
  /\ site \in Sites /\ mode \in Modes /\ refresh \in Refreshes /\ does \in Workloads
  /\ grid = [ rows |-> {}, changed |-> {}, undone |-> {}, applying |-> FALSE,
              sent |-> {}, stale |-> FALSE, front |-> TRUE, home |-> TRUE ]
  /\ srv = [ open |-> FALSE, pend |-> {}, over |-> FALSE, kept |-> {}, spilt |-> FALSE,
             mark |-> NoMark, work |-> FALSE, up |-> TRUE ]
  /\ txOpen = FALSE
  /\ unit = NoUnit
  /\ listed = FALSE

Effect == srv.pend \cup srv.kept  \* what the session sees

-----------------------------------------------------------------------------
(* The server.                                                             *)

Committed(s) ==
  [s EXCEPT !.open = FALSE, !.kept = @ \cup s.pend, !.spilt = @ \/ s.over,
            !.pend = {}, !.over = FALSE, !.mark = NoMark,
            !.work = FALSE]

RolledBack(s) ==
  [s EXCEPT !.open = FALSE, !.pend = {}, !.over = FALSE, !.mark = NoMark,
            !.work = FALSE]

CutOff(s) == [RolledBack(s) EXCEPT !.up = FALSE]

\* A statement that changes n rows (0, 1 or more), outside a transaction saved
\* at once on a server with autocommit.
Wrote(s, e, n) ==
  LET w == [s EXCEPT !.open = TRUE, !.pend = IF n > 0 THEN @ \cup {e} ELSE @,
                     !.over = @ \/ n > 1]
  IN IF ~s.open /\ site.autocommit THEN Committed(w) ELSE w

\* What may become of a call: it may always be refused, and the connection
\* may end under it.
Answers(s, ok) == IF s.up THEN {<<TRUE, ok>>, <<FALSE, s>>, <<FALSE, CutOff(s)>>}
                          ELSE {<<FALSE, s>>}

-----------------------------------------------------------------------------
(* The grid.                                                               *)

Locked == grid.applying /\ "takeback" \notin does

\* Mutant of Edit: what was taken back may still be repeated afterwards.
EditKeepsUndone(e) ==
  /\ ~grid.applying
  /\ e \notin grid.rows \cup grid.changed
  /\ grid' = [grid EXCEPT !.changed = @ \cup {e}]
  /\ UNCHANGED <<site, mode, refresh, does, srv, txOpen, unit, listed>>

Edit(e) ==
  /\ ~grid.applying
  /\ e \notin grid.rows \cup grid.changed
  /\ grid' = [grid EXCEPT !.changed = @ \cup {e}, !.undone = {}]
  /\ UNCHANGED <<site, mode, refresh, does, srv, txOpen, unit, listed>>

\* edit_undo and revert_edits do not look at applying, unlike the other
\* operations on the change set.
Undo(e) ==
  /\ ~Locked
  /\ e \in grid.changed
  /\ grid' = [grid EXCEPT !.changed = @ \ {e}, !.undone = @ \cup {e}]
  /\ UNCHANGED <<site, mode, refresh, does, srv, txOpen, unit, listed>>

Redo(e) ==
  /\ ~Locked
  /\ e \in grid.undone
  /\ grid' = [grid EXCEPT !.changed = @ \cup {e}, !.undone = @ \ {e}]
  /\ UNCHANGED <<site, mode, refresh, does, srv, txOpen, unit, listed>>

Revert ==
  /\ ~Locked
  /\ grid.changed # {}
  /\ grid' = [grid EXCEPT !.changed = {}, !.undone = {}]
  /\ UNCHANGED <<site, mode, refresh, does, srv, txOpen, unit, listed>>

\* The gate: one command at a time, a refresh is one.
Free == unit.at = "idle" /\ ~grid.stale

\* request_apply: keys are known, no apply is under way.
Ready == grid.changed # {} /\ ~grid.applying

\* request_apply and grid_edit_apply.
RequestApply ==
  /\ Ready /\ Free
  /\ grid' = [grid EXCEPT !.applying = TRUE, !.sent = grid.changed]
  /\ unit' = [NoUnit EXCEPT !.at = "queued", !.pendFrom = srv.pend, !.keptFrom = srv.kept]
  /\ UNCHANGED <<site, mode, refresh, does, srv, txOpen, listed>>

Turn ==
  /\ "turn" \in does
  /\ grid' = [grid EXCEPT !.front = ~@]
  /\ UNCHANGED <<site, mode, refresh, does, srv, txOpen, unit, listed>>

-----------------------------------------------------------------------------
(* The worker.                                                             *)

Worker == UNCHANGED <<site, mode, refresh, does, grid, listed>>

\* The connection may have ended since the last command: ensure_alive connects
\* again, with nothing of the old session, or the apply fails at once.
Reconnected(s) == [s EXCEPT !.up = TRUE, !.open = FALSE]

EnsureAlive ==
  /\ unit.at = "queued" /\ Worker
  /\ \/ unit' = [unit EXCEPT !.at = "begin"] /\ UNCHANGED <<srv, txOpen>>
     \/ /\ ~srv.up
        /\ unit' = [unit EXCEPT !.at = "begin", !.pendFrom = srv.pend]
        /\ srv' = Reconnected(srv) /\ txOpen' = FALSE
     \/ /\ ~srv.up
        /\ unit' = [unit EXCEPT !.at = "told", !.failed = TRUE]
        /\ UNCHANGED <<srv, txOpen>>

\* Mutant of NeedsBegin: no BEGIN in automatic mode.
NeedsBeginManual == site.begin /\ mode = "manual" /\ ~txOpen

NeedsBegin == site.begin /\ (mode = "auto" \/ ~txOpen)

Begin ==
  /\ unit.at = "begin" /\ Worker /\ UNCHANGED txOpen
  /\ \/ /\ ~NeedsBegin
        /\ unit' = [unit EXCEPT !.at = "mark"] /\ UNCHANGED srv
     \/ /\ NeedsBegin
        /\ \E a \in Answers(srv, [srv EXCEPT !.open = TRUE]) :
             /\ srv' = a[2]
             /\ unit' = IF a[1] THEN [unit EXCEPT !.at = "mark", !.began = TRUE]
                                ELSE [unit EXCEPT !.at = "told", !.failed = TRUE]

\* Mutant of Marked: the savepoint is set when the statements have failed.
MarkedLate(s) == s

Marked(s) ==
  [s EXCEPT !.open = TRUE, !.mark = [set |-> TRUE, pend |-> s.pend, over |-> s.over]]

\* A savepoint in manual mode, if the server has them; the apply goes on
\* without one if it is refused.
Mark ==
  /\ unit.at = "mark" /\ Worker /\ UNCHANGED txOpen
  /\ \/ /\ mode = "auto" \/ ~site.savepoint
        /\ unit' = [unit EXCEPT !.at = "check"] /\ UNCHANGED srv
     \/ /\ mode = "manual" /\ site.savepoint
        /\ \E a \in Answers(srv, Marked(srv)) :
             /\ srv' = a[2]
             /\ unit' = [unit EXCEPT !.at = "check", !.savepoint = a[1]]

\* The key check and the row counts of all statements, ahead of the first.
Check ==
  /\ unit.at = "check" /\ Worker /\ UNCHANGED txOpen
  /\ \E a \in Answers(srv, srv) :
       /\ srv' = a[2]
       /\ unit' = IF a[1] THEN [unit EXCEPT !.at = "exec"]
                          ELSE [unit EXCEPT !.at = "end", !.failed = TRUE]

\* Each statement must change exactly one row.  Between the checks and the
\* statement others may have changed the rows.
Execute(e) ==
  /\ unit.at = "exec" /\ Worker /\ UNCHANGED txOpen
  /\ e \in grid.sent \ unit.done
  /\ \/ /\ srv.up
        /\ \E n \in 0..2 :
             /\ srv' = Wrote(srv, e, n)
             /\ unit' = IF n = 1 THEN [unit EXCEPT !.done = @ \cup {e}]
                                 ELSE [unit EXCEPT !.at = "end", !.failed = TRUE]
     \/ /\ \E a \in Answers(srv, srv) : ~a[1] /\ srv' = a[2]
        /\ unit' = [unit EXCEPT !.at = "end", !.failed = TRUE]

AllDone ==
  /\ unit.at = "exec" /\ grid.sent \subseteq unit.done
  /\ unit' = [unit EXCEPT !.at = "end"]
  /\ Worker /\ UNCHANGED <<srv, txOpen>>

\* A ROLLBACK fails with the connection only.
RollbackAnswers(s) == IF s.up THEN {<<TRUE, RolledBack(s)>>, <<FALSE, CutOff(s)>>}
                              ELSE {<<FALSE, s>>}

\* Rollback after a failure in automatic mode: u is the report so far.
Undone(u, ok) == [u EXCEPT !.at = "told", !.failed = TRUE, !.done = {},
                           !.needed = ~ok]

\* What a COMMIT may come to; cut off, it may have been carried out or not.
CommitAnswers(s) ==
  Answers(s, Committed(s)) \cup
    (IF s.up THEN {<<FALSE, CutOff(Committed(s))>>} ELSE {})

\* The end of an apply in automatic mode.
EndAuto ==
  /\ unit.at = "end" /\ mode = "auto" /\ Worker
  /\ txOpen' = FALSE
  /\ \/ /\ ~unit.failed
        /\ \E a \in CommitAnswers(srv) :
             IF a[1] THEN srv' = a[2] /\ unit' = [unit EXCEPT !.at = "told"]
             ELSE \E b \in RollbackAnswers(a[2]) :
                    srv' = b[2] /\ unit' = Undone(unit, b[1])
     \/ /\ unit.failed
        /\ \E a \in RollbackAnswers(srv) :
             srv' = a[2] /\ unit' = Undone(unit, a[1])

\* Mutant of ToMark: the whole transaction is rolled back.
ToMarkWhole(s) == RolledBack(s)

\* ROLLBACK TO: the user's earlier changes and the transaction stay.
ToMark(s) == [s EXCEPT !.pend = s.mark.pend, !.over = s.mark.over]

\* Mutant of Left: an open transaction is told by BEGIN and the flag only.
LeftByBegin(u) == u.began \/ txOpen

\* The transaction stays open if it was, if the apply began it, and, where a
\* transaction needs no BEGIN, if anything was written or not undone.
Left(u) == u.began \/ txOpen \/ u.done # {} \/ u.needed

Reported(u) == /\ unit' = [u EXCEPT !.at = "told", !.left = Left(u)]
               /\ txOpen' = Left(u)

\* The end of an apply in manual mode; a refused RELEASE changes nothing.
EndManual ==
  /\ unit.at = "end" /\ mode = "manual" /\ Worker
  /\ \/ /\ ~unit.failed /\ Reported(unit)
        /\ \E a \in Answers(srv, srv) : srv' = a[2] /\ (~unit.savepoint => srv' = srv)
     \/ /\ unit.failed /\ unit.savepoint
        /\ \E a \in Answers(srv, ToMark(srv)) :
             /\ srv' = a[2]
             /\ Reported([unit EXCEPT !.needed = ~a[1], !.done = IF a[1] THEN {} ELSE @])
     \/ /\ unit.failed /\ ~unit.savepoint
        /\ Reported([unit EXCEPT !.needed = TRUE]) /\ UNCHANGED srv

-----------------------------------------------------------------------------
(* The answer.                                                             *)

\* The row of each sent edit is read again; deleted rows leave by the change
\* set of now.  Under "local" the change set itself is taken over.
PatchedRows == CASE refresh = "rows"  -> (grid.sent \ Deletes) \cup (grid.changed \cap Deletes)
                 [] refresh = "local" -> grid.changed

\* Mutant of Succeeded: any statement that was carried out counts.
SucceededInPart == unit.done # {}

Succeeded == ~unit.failed /\ unit.done # {}

Told == /\ unit.at = "told"
        /\ unit' = NoUnit
        /\ listed' = (listed \/ unit.left)
        /\ UNCHANGED <<site, mode, refresh, does, srv, txOpen>>

\* Mutant of AnsweredFailed: after a failure the grid stays closed for edits.
AnsweredFailedLocked ==
  /\ Told /\ ~Succeeded
  /\ UNCHANGED grid

\* on_conn_applied: an apply that failed leaves the change set.
AnsweredFailed ==
  /\ Told /\ ~Succeeded
  /\ grid' = [grid EXCEPT !.applying = FALSE, !.sent = {}]

\* The rows at hand are patched and the change set is emptied.
AnsweredPatched ==
  /\ Told /\ Succeeded /\ refresh # "requery"
  /\ grid' = [grid EXCEPT !.applying = FALSE, !.sent = {}, !.rows = @ \cup PatchedRows,
                          !.changed = {}, !.undone = {}]

\* The change set is emptied and the result is queried again, if the user
\* looks at it; so too if a row could not be read again.
AnsweredStale ==
  /\ Told /\ Succeeded /\ refresh # "local"
  /\ grid' = [grid EXCEPT !.applying = FALSE, !.sent = {}, !.changed = {},
                          !.undone = {}, !.stale = grid.front]

\* The result arrives; it replaces rows and change set.
Refreshed ==
  /\ grid.stale
  /\ grid' = [grid EXCEPT !.stale = FALSE, !.rows = Effect, !.changed = {}, !.undone = {},
                          !.home = TRUE]
  /\ UNCHANGED <<site, mode, refresh, does, srv, txOpen, unit, listed>>

-----------------------------------------------------------------------------
(* What else the user does.                                                *)

User == UNCHANGED <<site, mode, refresh, does, unit>>

\* A change of the user's own in manual mode, from an editor.
Work ==
  /\ "work" \in does /\ mode = "manual" /\ Free /\ srv.up
  /\ User /\ UNCHANGED grid
  /\ srv' = [srv EXCEPT !.open = TRUE, !.work = TRUE]
  /\ txOpen' = TRUE
  /\ listed' = TRUE

\* The buttons are there while a transaction is listed.
Close(s) ==
  /\ listed /\ Free /\ srv.up
  /\ User /\ UNCHANGED grid
  /\ srv' = s
  /\ txOpen' = FALSE
  /\ listed' = FALSE
Commit == Close(Committed(srv))
Rollback == Close(RolledBack(srv))

\* A COMMIT or ROLLBACK that fails, because the connection has ended or the
\* server does not carry it out: the flag falls all the same, the list stays.
CloseFails ==
  /\ listed /\ Free /\ (srv.up => "busy" \in does)
  /\ User /\ UNCHANGED <<grid, srv, listed>>
  /\ txOpen' = FALSE

\* A COMMIT precedes the end of a session (connect, Cmd::Disconnect); the host
\* asks first if a transaction is listed.
Ended(s) == [Committed(s) EXCEPT !.up = TRUE]

\* disconnect_force and a new login: a new worker takes over.  The old one ends
\* an apply under way first; its answer then goes nowhere.
Relog ==
  /\ ~listed /\ srv.up
  /\ Free \/ ("leave" \in does /\ unit.at = "told")
  /\ UNCHANGED <<site, mode, refresh, does>>
  /\ srv' = Ended(srv)
  /\ txOpen' = FALSE
  /\ unit' = NoUnit
  /\ grid' = [grid EXCEPT !.stale = FALSE]
  /\ listed' = FALSE

\* The session connects to another server; the rows in the grid stay.
Move ==
  /\ "move" \in does /\ Free /\ ~listed /\ srv.up
  /\ User /\ UNCHANGED listed
  /\ srv' = Ended(srv)
  /\ txOpen' = FALSE
  /\ grid' = [grid EXCEPT !.home = FALSE]

\* refresh_result by the user.
Refresh ==
  /\ Free /\ srv.up /\ grid.front
  /\ grid.rows # Effect \/ ~grid.home
  /\ grid' = [grid EXCEPT !.stale = TRUE]
  /\ UNCHANGED <<site, mode, refresh, does, srv, txOpen, unit, listed>>

UserStep ==
  \/ \E e \in Edits : Edit(e) \/ Undo(e) \/ Redo(e)
  \/ Revert \/ RequestApply \/ Turn \/ Work
  \/ Commit \/ Rollback \/ CloseFails
  \/ Relog \/ Move \/ Refresh

WorkerStep == EnsureAlive \/ Begin \/ Mark \/ Check \/ AllDone \/ EndAuto \/ EndManual
              \/ \E e \in Edits : Execute(e)

HostStep == AnsweredFailed \/ AnsweredPatched \/ AnsweredStale \/ Refreshed

Next == UserStep \/ WorkerStep \/ HostStep

Spec == Init /\ [][Next]_vars

\* The worker's thread carries a command on as long as calls return (the time
\* limits are StopRun's subject), and the host drains every answer.
FairSpec == Spec /\ WF_vars(WorkerStep) /\ WF_vars(HostStep)

-----------------------------------------------------------------------------
(* Properties.                                                             *)

\* In automatic mode an apply saves all it was sent or nothing, whatever
\* fails on the way, and never more rows than one per statement
\* (apply_changes_pre: the three layers of docs/87 14).
AllOrNothing ==
  mode = "auto" =>
    /\ ~srv.spilt
    /\ unit.at = "idle" => srv.pend = {}
    /\ unit.at = "told" =>
         srv.pend = {} /\ srv.kept \in {unit.keptFrom, unit.keptFrom \cup grid.sent}

\* In manual mode the error of RELEASE SAVEPOINT is ignored (let _ = run, in
\* apply_changes_pre): if the connection ends under it, the report is that of an
\* apply that succeeded, and the server has nothing of it.
CutAtRelease == mode = "manual" /\ unit.savepoint /\ ~unit.failed /\ ~srv.up

\* The report agrees with the server, which connection was lost at what call
\* included, but for CutAtRelease.  "Applied" means each edit sent is there.  A
\* failure without "ROLLBACK needed" means that nothing of them is, and what was
\* there before still is, unless the connection has ended.  "ROLLBACK needed" is
\* told of failures only: in automatic mode if the ROLLBACK was cut off, in
\* manual mode of what is not saved.  A statement that hit several rows is taken
\* back, or "ROLLBACK needed" is told.
ReportIsTrue ==
  unit.at = "told" =>
    /\ ~unit.failed /\ ~CutAtRelease =>
         Effect = unit.pendFrom \cup unit.keptFrom \cup grid.sent
    /\ unit.failed /\ ~unit.needed =>
         /\ srv.kept = unit.keptFrom
         /\ srv.pend = IF srv.up THEN unit.pendFrom ELSE {}
    /\ unit.needed =>
         /\ unit.failed
         /\ IF mode = "auto" THEN ~srv.up ELSE srv.kept = unit.keptFrom
    /\ unit.needed \/ unit.pendFrom # {} \/ ~srv.over

\* An apply never ends the transaction with the user's own changes: with the
\* savepoint only its own part is undone.
OwnWorkStays == [][srv.work /\ WorkerStep => srv'.work \/ ~srv'.up]_vars

\* In manual mode, what the server holds back is on the host's list, so that
\* the buttons to commit and to roll back are there; with or without a BEGIN.
OpenIsListed ==
  Free /\ mode = "manual" /\ srv.up /\ (srv.pend # {} \/ srv.work) =>
    listed /\ txOpen

\* An answer takes an edit out of the change set, or into the rows, only if
\* the server has it, but for CutAtRelease (on_conn_applied).
GridFollowsServer ==
  [][Told /\ ~CutAtRelease =>
       /\ grid.changed \ grid'.changed \subseteq Effect
       /\ grid'.rows \subseteq grid.rows \cup Effect]_vars

\* A grid that waits for the answer of an apply is opened for edits again.
AppliesEnd == grid.applying ~> ~grid.applying

\* Not kept by the code, see CutAtRelease: what is reported as applied is there.
AppliedIsThere == unit.at = "told" /\ ~unit.failed => grid.sent \subseteq Effect

\* Not kept by the code in general: after an apply the grid shows what it
\* sent, or is about to query it again.
ShowsWhatItSent ==
  [][Told /\ Succeeded => grid.sent \subseteq grid'.rows \/ grid'.stale]_vars

\* Not kept by the code in general: an edit is carried out on the server that
\* its row was read from.
NeverAstray == [][WorkerStep => Effect' \subseteq Effect \/ grid.home]_vars
=============================================================================
