-------------------------- MODULE GridEdits_proofs --------------------------
(***************************************************************************)
(* Theorems of GridEdits.                                                  *)
(*                                                                         *)
(* The inductive invariant IInv follows an apply from phase to phase: what *)
(* the transaction holds and what is saved, against what there was before  *)
(* (WorkInv), why nothing is saved on the way (OpenInv), what a savepoint  *)
(* goes back to (MarkInv) and what the grid holds meanwhile (GridInv).     *)
(* Whole-or-nothing and the truth of the report are parts of it (ToldInv). *)
(* That what is open is listed is kept beside it (ListInv).                *)
(*                                                                         *)
(* No theorem bounds the edits, or fixes the servers, modes or refreshes.  *)
(***************************************************************************)
EXTENDS GridEdits, TLAPS

\* What was taken back is not in the rows: it could be repeated.
Types == TypeOK /\ grid.undone \cap grid.rows = {}

\* What a connection that has ended leaves behind, and where "one statement hit
\* several rows" comes from.
SrvInv ==
  /\ ~srv.up => srv.pend = {} /\ ~srv.over /\ ~srv.work
  /\ srv.over => srv.pend # {}
  /\ srv.mark.over => srv.mark.pend # {}

\* The grid of an apply under way waits for it, with what it sent.
GridInv ==
  unit.at # "idle" =>
       grid.applying /\ ~grid.stale /\ ("takeback" \notin does => grid.changed = grid.sent)

Early == unit.at \in {"queued", "begin", "mark", "check"}

\* A server that commits each statement by itself has a transaction open when
\* the statements come; so what they change is uncommitted.
OpenInv ==
  srv.up /\ site.autocommit /\ (txOpen \/ unit.at \in {"mark", "check", "exec", "end"}) =>
    srv.open

\* What the transaction holds and what is saved, against what there was before.
WorkInv ==
  /\ unit.at = "idle" => unit = NoUnit
  /\ Early =>
       /\ ~unit.failed /\ unit.done = {}
       /\ srv.kept = unit.keptFrom
       /\ srv.up => srv.pend = unit.pendFrom /\ (unit.pendFrom = {} => ~srv.over)
  /\ unit.at = "exec" \/ (unit.at = "end" /\ ~unit.failed) =>
       /\ srv.up /\ ~unit.failed
       /\ srv.kept = unit.keptFrom
       /\ srv.pend = unit.pendFrom \cup unit.done
       /\ unit.pendFrom = {} => ~srv.over
  /\ unit.at = "end" /\ ~unit.failed => unit.done = grid.sent
  /\ unit.at = "end" /\ unit.failed => srv.kept = unit.keptFrom
  /\ unit.at = "exec" => unit.done \subseteq grid.sent
  /\ unit.at # "told" => ~unit.needed

\* The savepoint is that of the beginning.
MarkInv ==
  /\ unit.at \in {"queued", "begin", "mark"} => ~unit.savepoint
  /\ unit.at \in {"check", "exec", "end"} /\ unit.savepoint /\ srv.up =>
       srv.mark.pend = unit.pendFrom

\* Automatic mode has no transaction outside an apply.
AutoInv ==
  mode = "auto" =>
    /\ ~txOpen /\ ~srv.work /\ ~srv.spilt /\ unit.pendFrom = {} /\ ~unit.savepoint
    /\ unit.at \in {"idle", "told"} \/ Early => srv.pend = {} /\ ~srv.over

\* An apply that has been carried out is in the answer on its way.
ToldInv ==
  /\ AllOrNothing
  /\ ReportIsTrue

\* In manual mode a transaction with changes is listed or about to be.
ListInv ==
  mode = "manual" /\ srv.up =>
    /\ unit.at # "idle" /\ unit.at # "told" /\ (unit.pendFrom # {} \/ srv.work) => listed /\ txOpen
    /\ unit.at = "told" /\ (srv.pend # {} \/ srv.work) => (listed \/ unit.left) /\ txOpen
    /\ unit.at = "idle" /\ (srv.pend # {} \/ srv.work) => listed /\ txOpen

IInv == Types /\ SrvInv /\ GridInv /\ OpenInv /\ WorkInv /\ MarkInv /\ AutoInv /\ ToldInv

-----------------------------------------------------------------------------
(* The operators.                                                          *)

\* What each operator of the server makes of a session.
LEMMA CommittedFields ==
  ASSUME NEW s \in Servers
  PROVE  /\ Committed(s) \in Servers
         /\ ~Committed(s).open /\ Committed(s).pend = {} /\ ~Committed(s).over
         /\ Committed(s).kept = s.kept \cup s.pend
         /\ Committed(s).spilt = (s.spilt \/ s.over)
         /\ Committed(s).mark = NoMark
         /\ ~Committed(s).work
         /\ Committed(s).up = s.up
BY DEF Committed, Servers, Marks, NoMark

LEMMA RolledBackFields ==
  ASSUME NEW s \in Servers
  PROVE  /\ RolledBack(s) \in Servers
         /\ ~RolledBack(s).open /\ RolledBack(s).pend = {} /\ ~RolledBack(s).over
         /\ RolledBack(s).kept = s.kept
         /\ RolledBack(s).spilt = s.spilt
         /\ RolledBack(s).mark = NoMark
         /\ ~RolledBack(s).work
         /\ RolledBack(s).up = s.up
BY DEF RolledBack, Servers, Marks, NoMark

LEMMA CutOffFields ==
  ASSUME NEW s \in Servers
  PROVE  /\ CutOff(s) \in Servers
         /\ ~CutOff(s).open /\ CutOff(s).pend = {} /\ ~CutOff(s).over
         /\ CutOff(s).kept = s.kept
         /\ CutOff(s).spilt = s.spilt
         /\ CutOff(s).mark = NoMark
         /\ ~CutOff(s).work /\ ~CutOff(s).up
<1> DEFINE r == RolledBack(s)
<1>1. /\ r \in Servers /\ ~r.open /\ r.pend = {} /\ ~r.over /\ r.kept = s.kept
      /\ r.spilt = s.spilt /\ r.mark = NoMark /\ ~r.work
  BY RolledBackFields
<1>2. CutOff(s) = [r EXCEPT !.up = FALSE]
  BY DEF CutOff
<1> HIDE DEF r
<1> QED BY <1>1, <1>2 DEF Servers

LEMMA MarkedFields ==
  ASSUME NEW s \in Servers
  PROVE  /\ Marked(s) \in Servers /\ Marked(s).open
         /\ Marked(s).pend = s.pend /\ Marked(s).over = s.over
         /\ Marked(s).kept = s.kept /\ Marked(s).spilt = s.spilt
         /\ Marked(s).mark.pend = s.pend /\ Marked(s).mark.over = s.over
         /\ Marked(s).work = s.work /\ Marked(s).up = s.up
BY DEF Marked, Servers, Marks

LEMMA ToMarkFields ==
  ASSUME NEW s \in Servers
  PROVE  /\ ToMark(s) \in Servers /\ ToMark(s).open = s.open
         /\ ToMark(s).pend = s.mark.pend /\ ToMark(s).over = s.mark.over
         /\ ToMark(s).kept = s.kept /\ ToMark(s).spilt = s.spilt
         /\ ToMark(s).mark = s.mark
         /\ ToMark(s).work = s.work /\ ToMark(s).up = s.up
BY DEF ToMark, Servers, Marks

\* The end of a session, and the new one.
LEMMA EndedFields ==
  ASSUME NEW s \in Servers
  PROVE  /\ Ended(s) \in Servers /\ Ended(s).pend = {} /\ ~Ended(s).over
         /\ Ended(s).kept = s.kept \cup s.pend
         /\ Ended(s).spilt = (s.spilt \/ s.over)
         /\ Ended(s).mark = NoMark
         /\ ~Ended(s).work /\ Ended(s).up
<1> DEFINE c == Committed(s)
<1>1. /\ c \in Servers /\ c.pend = {} /\ ~c.over /\ c.kept = s.kept \cup s.pend
      /\ c.spilt = (s.spilt \/ s.over) /\ c.mark = NoMark /\ ~c.work
  BY CommittedFields
<1>2. Ended(s) = [c EXCEPT !.up = TRUE]
  BY DEF Ended
<1> HIDE DEF c
<1> QED BY <1>1, <1>2 DEF Servers

\* A statement inside a transaction, or on a server without autocommit, saves
\* nothing.
LEMMA WroteFields ==
  ASSUME NEW s \in Servers, NEW e \in Edits, NEW n \in 0..2
  PROVE  /\ Wrote(s, e, n) \in Servers
         /\ Wrote(s, e, n).up = s.up
         /\ s.open \/ ~site.autocommit =>
              /\ Wrote(s, e, n).open
              /\ n \in {1, 2} => Wrote(s, e, n).pend = s.pend \cup {e}
              /\ n = 0 => Wrote(s, e, n).pend = s.pend
              /\ n \in {0, 1} => Wrote(s, e, n).over = s.over
              /\ Wrote(s, e, n).kept = s.kept
              /\ Wrote(s, e, n).spilt = s.spilt
              /\ Wrote(s, e, n).mark = s.mark
              /\ Wrote(s, e, n).work = s.work
<1> DEFINE w == [s EXCEPT !.open = TRUE, !.pend = IF n > 0 THEN @ \cup {e} ELSE @,
                          !.over = @ \/ n > 1]
<1>1. /\ w \in Servers /\ w.open /\ w.up = s.up
      /\ w.pend = IF n > 0 THEN s.pend \cup {e} ELSE s.pend
      /\ w.over = (s.over \/ n > 1)
      /\ w.kept = s.kept /\ w.spilt = s.spilt
      /\ w.mark = s.mark /\ w.work = s.work
  BY DEF Servers
<1>2. Wrote(s, e, n) = IF ~s.open /\ site.autocommit THEN Committed(w) ELSE w
  BY DEF Wrote
<1> HIDE DEF w
<1>3. Committed(w) \in Servers /\ Committed(w).up = s.up
  BY <1>1, CommittedFields
<1>4. /\ n \in {1, 2} => n > 0
      /\ n = 0 => ~(n > 0)
      /\ n \in {0, 1} => ~(n > 1)
  OBVIOUS
<1>5. /\ n \in {1, 2} => w.pend = s.pend \cup {e}
      /\ n = 0 => w.pend = s.pend
      /\ n \in {0, 1} => w.over = s.over
  BY <1>1, <1>4 DEF Servers
<1> QED BY <1>1, <1>2, <1>3, <1>5

\* The ways a call may end.
LEMMA AnswersCases ==
  ASSUME NEW s \in Servers, NEW ok, NEW a \in Answers(s, ok)
  PROVE  \/ a[1] = TRUE /\ a[2] = ok /\ s.up
         \/ a[1] = FALSE /\ a[2] = s
         \/ a[1] = FALSE /\ a[2] = CutOff(s) /\ s.up
<1>1. CASE a = <<TRUE, ok>> /\ s.up
  BY <1>1
<1>2. CASE a = <<FALSE, s>>
  BY <1>2
<1>3. CASE a = <<FALSE, CutOff(s)>> /\ s.up
  BY <1>3
<1> QED BY <1>1, <1>2, <1>3 DEF Answers

LEMMA AnswersTypes ==
  ASSUME NEW s \in Servers, NEW ok \in Servers, NEW a \in Answers(s, ok)
  PROVE  a[1] \in BOOLEAN /\ a[2] \in Servers
<1>1. CutOff(s) \in Servers
  BY CutOffFields
<1>2. \/ a[1] = TRUE /\ a[2] = ok /\ s.up
      \/ a[1] = FALSE /\ a[2] = s
      \/ a[1] = FALSE /\ a[2] = CutOff(s) /\ s.up
  BY AnswersCases
<1> QED BY <1>1, <1>2

LEMMA RollbackAnswersCases ==
  ASSUME NEW s \in Servers, NEW a \in RollbackAnswers(s)
  PROVE  \/ a[1] = TRUE /\ a[2] = RolledBack(s) /\ s.up
         \/ a[1] = FALSE /\ a[2] = CutOff(s) /\ s.up
         \/ a[1] = FALSE /\ a[2] = s /\ ~s.up
<1>1. CASE a = <<TRUE, RolledBack(s)>> /\ s.up
  BY <1>1
<1>2. CASE a = <<FALSE, CutOff(s)>> /\ s.up
  BY <1>2
<1>3. CASE a = <<FALSE, s>> /\ ~s.up
  BY <1>3
<1> QED BY <1>1, <1>2, <1>3 DEF RollbackAnswers

LEMMA RollbackAnswersTypes ==
  ASSUME NEW s \in Servers, NEW a \in RollbackAnswers(s)
  PROVE  a[1] \in BOOLEAN /\ a[2] \in Servers
<1>1. CutOff(s) \in Servers /\ RolledBack(s) \in Servers
  BY CutOffFields, RolledBackFields
<1>2. \/ a[1] = TRUE /\ a[2] = RolledBack(s) /\ s.up
      \/ a[1] = FALSE /\ a[2] = CutOff(s) /\ s.up
      \/ a[1] = FALSE /\ a[2] = s /\ ~s.up
  BY RollbackAnswersCases
<1> QED BY <1>1, <1>2

LEMMA CommitAnswersCases ==
  ASSUME NEW s \in Servers, NEW a \in CommitAnswers(s)
  PROVE  \/ a[1] = TRUE /\ a[2] = Committed(s) /\ s.up
         \/ a[1] = FALSE /\ a[2] = s
         \/ a[1] = FALSE /\ a[2] = CutOff(s) /\ s.up
         \/ a[1] = FALSE /\ a[2] = CutOff(Committed(s)) /\ s.up
<1>1. CASE a \in Answers(s, Committed(s))
  BY <1>1, AnswersCases
<1>2. CASE a = <<FALSE, CutOff(Committed(s))>> /\ s.up
  BY <1>2
<1> QED BY <1>1, <1>2 DEF CommitAnswers

LEMMA CommitAnswersTypes ==
  ASSUME NEW s \in Servers, NEW a \in CommitAnswers(s)
  PROVE  a[1] \in BOOLEAN /\ a[2] \in Servers
<1>1. Committed(s) \in Servers
  BY CommittedFields
<1>2. CutOff(s) \in Servers /\ CutOff(Committed(s)) \in Servers
  BY <1>1, CutOffFields
<1>3. \/ a[1] = TRUE /\ a[2] = Committed(s) /\ s.up
      \/ a[1] = FALSE /\ a[2] = s
      \/ a[1] = FALSE /\ a[2] = CutOff(s) /\ s.up
      \/ a[1] = FALSE /\ a[2] = CutOff(Committed(s)) /\ s.up
  BY CommitAnswersCases
<1> QED BY <1>1, <1>2, <1>3

-----------------------------------------------------------------------------
(* Types.                                                                  *)

LEMMA InitTypes == Init => Types
<1> SUFFICES ASSUME Init
             PROVE  Types
  OBVIOUS
<1>1. grid \in Grids /\ grid.changed = {} /\ grid.undone = {}
  BY DEF Init, Grids
<1>2. srv \in Servers
  BY DEF Init, Servers, Marks, NoMark
<1>3. unit \in Units
  BY DEF Init, NoUnit, Units, Phases
<1> QED BY <1>1, <1>2, <1>3 DEF Init, Types, TypeOK

LEMMA NoUnitType == NoUnit \in Units
BY DEF NoUnit, Units, Phases

\* The user's steps on the grid.
LEMMA GridTypes ==
  ASSUME Types,
         \/ \E e \in Edits : Edit(e) \/ Undo(e) \/ Redo(e)
         \/ Revert \/ RequestApply \/ Turn \/ Refresh
  PROVE  Types'
<1> USE DEF Types, TypeOK, Grids
<1>1. ASSUME NEW e \in Edits, Edit(e)
      PROVE  Types'
  BY <1>1 DEF Edit
<1>2. ASSUME NEW e \in Edits, Undo(e)
      PROVE  Types'
  BY <1>2 DEF Undo
<1>3. ASSUME NEW e \in Edits, Redo(e)
      PROVE  Types'
  BY <1>3 DEF Redo
<1>4. CASE Revert
  BY <1>4 DEF Revert
<1>5. CASE RequestApply
  <2>1. unit' \in Units
    BY <1>5, NoUnitType DEF RequestApply, Units, Phases, Servers
  <2> QED BY <2>1, <1>5 DEF RequestApply
<1>6. CASE Turn
  BY <1>6 DEF Turn
<1>7. CASE Refresh
  BY <1>7 DEF Refresh
<1> QED BY <1>1, <1>2, <1>3, <1>4, <1>5, <1>6, <1>7

\* The user's steps on the session.
LEMMA SessionTypes ==
  ASSUME Types, Work \/ Commit \/ Rollback \/ CloseFails \/ Relog \/ Move
  PROVE  Types'
<1> USE DEF Types, TypeOK, User
<1>1. CASE Work
  BY <1>1 DEF Work, Servers
<1>2. CASE Commit
  BY <1>2, CommittedFields DEF Commit, Close
<1>3. CASE Rollback
  BY <1>3, RolledBackFields DEF Rollback, Close
<1>4. CASE CloseFails
  BY <1>4 DEF CloseFails
<1>5. CASE Relog
  BY <1>5, EndedFields, NoUnitType DEF Relog, Grids
<1>6. CASE Move
  BY <1>6, EndedFields DEF Move, Grids
<1> QED BY <1>1, <1>2, <1>3, <1>4, <1>5, <1>6

\* The worker's steps leave the grid alone.
LEMMA WorkerTypes ==
  ASSUME Types, WorkerStep
  PROVE  Types' /\ Worker
<1>1. Worker
  BY DEF WorkerStep, EnsureAlive, Begin, Mark, Check, Execute, AllDone, EndAuto, EndManual
<1>2. SUFFICES srv' \in Servers /\ unit' \in Units /\ txOpen' \in BOOLEAN
  BY <1>1 DEF Types, TypeOK, Worker
<1>3. srv \in Servers /\ unit \in Units /\ txOpen \in BOOLEAN
  BY DEF Types, TypeOK
<1>4. CASE EnsureAlive
  BY <1>3, <1>4 DEF EnsureAlive, Reconnected, Servers, Units, Phases
<1>5. CASE Begin
  <2>1. CASE NeedsBegin
    <3>1. PICK a \in Answers(srv, [srv EXCEPT !.open = TRUE]) :
            /\ srv' = a[2]
            /\ unit' = IF a[1] THEN [unit EXCEPT !.at = "mark", !.began = TRUE]
                               ELSE [unit EXCEPT !.at = "told", !.failed = TRUE]
      BY <1>5, <2>1 DEF Begin
    <3>2. [srv EXCEPT !.open = TRUE] \in Servers
      BY <1>3 DEF Servers
    <3>3. srv' \in Servers
      BY <1>3, <3>1, <3>2, AnswersTypes
    <3>4. unit' \in Units
      BY <1>3, <3>1 DEF Units, Phases
    <3> QED BY <1>3, <1>5, <3>3, <3>4 DEF Begin
  <2>2. CASE ~NeedsBegin
    BY <1>3, <1>5, <2>2 DEF Begin, Units, Phases
  <2> QED BY <2>1, <2>2
<1>6. CASE Mark
  <2>1. CASE mode = "auto" \/ ~site.savepoint
    BY <1>3, <1>6, <2>1 DEF Mark, Units, Phases
  <2>2. CASE ~(mode = "auto" \/ ~site.savepoint)
    <3>1. PICK a \in Answers(srv, Marked(srv)) :
            /\ srv' = a[2]
            /\ unit' = [unit EXCEPT !.at = "check", !.savepoint = a[1]]
      BY <1>6, <2>2 DEF Mark
    <3>2. Marked(srv) \in Servers
      BY <1>3, MarkedFields
    <3>3. srv' \in Servers /\ a[1] \in BOOLEAN
      BY <1>3, <3>1, <3>2, AnswersTypes
    <3>4. unit' \in Units
      BY <1>3, <3>1, <3>3 DEF Units, Phases
    <3> QED BY <1>3, <1>6, <3>3, <3>4 DEF Mark
  <2> QED BY <2>1, <2>2
<1>7. CASE Check
  <2>1. PICK a \in Answers(srv, srv) :
          /\ srv' = a[2]
          /\ unit' = IF a[1] THEN [unit EXCEPT !.at = "exec"]
                             ELSE [unit EXCEPT !.at = "end", !.failed = TRUE]
    BY <1>7 DEF Check
  <2>2. srv' \in Servers
    BY <1>3, <2>1, AnswersTypes
  <2>3. unit' \in Units
    BY <1>3, <2>1 DEF Units, Phases
  <2> QED BY <1>3, <1>7, <2>2, <2>3 DEF Check
<1>8. ASSUME NEW e \in Edits, Execute(e)
      PROVE  srv' \in Servers /\ unit' \in Units /\ txOpen' \in BOOLEAN
  <2>1. unit' \in Units
    <3>1. \/ unit' = [unit EXCEPT !.done = @ \cup {e}]
          \/ unit' = [unit EXCEPT !.at = "end", !.failed = TRUE]
      BY <1>8 DEF Execute
    <3>2. [unit EXCEPT !.done = @ \cup {e}] \in Units
      BY <1>3, <1>8 DEF Units
    <3>3. [unit EXCEPT !.at = "end", !.failed = TRUE] \in Units
      BY <1>3 DEF Units, Phases
    <3> QED BY <3>1, <3>2, <3>3
  <2>2. \/ \E n \in 0..2 : srv' = Wrote(srv, e, n)
        \/ \E a \in Answers(srv, srv) : srv' = a[2]
    BY <1>8 DEF Execute
  <2>3. (\E n \in 0..2 : srv' = Wrote(srv, e, n)) => srv' \in Servers
    BY <1>3, <1>8, WroteFields
  <2>4. (\E a \in Answers(srv, srv) : srv' = a[2]) => srv' \in Servers
    BY <1>3, AnswersTypes
  <2> QED BY <1>3, <1>8, <2>1, <2>2, <2>3, <2>4 DEF Execute
<1>9. CASE AllDone
  BY <1>3, <1>9 DEF AllDone, Units, Phases
<1>10. CASE EndAuto
  <2>1. \A ok \in BOOLEAN : Undone(unit, ok) \in Units
    BY <1>3 DEF Undone, Units, Phases
  <2>2. CASE unit.failed
    <3>1. PICK a \in RollbackAnswers(srv) : srv' = a[2] /\ unit' = Undone(unit, a[1])
      BY <1>10, <2>2 DEF EndAuto
    <3>2. srv' \in Servers /\ a[1] \in BOOLEAN
      BY <1>3, <3>1, RollbackAnswersTypes
    <3> QED BY <1>10, <2>1, <3>1, <3>2 DEF EndAuto
  <2>3. CASE ~unit.failed
    <3>1. PICK a \in CommitAnswers(srv) :
            IF a[1] THEN srv' = a[2] /\ unit' = [unit EXCEPT !.at = "told"]
            ELSE \E b \in RollbackAnswers(a[2]) : srv' = b[2] /\ unit' = Undone(unit, b[1])
      BY <1>10, <2>3 DEF EndAuto
    <3>2. a[1] \in BOOLEAN /\ a[2] \in Servers
      BY <1>3, <3>1, CommitAnswersTypes
    <3>3. CASE a[1]
      BY <1>3, <1>10, <3>1, <3>2, <3>3 DEF EndAuto, Units, Phases
    <3>4. CASE ~a[1]
      <4>1. PICK b \in RollbackAnswers(a[2]) : srv' = b[2] /\ unit' = Undone(unit, b[1])
        BY <3>1, <3>4
      <4>2. srv' \in Servers /\ b[1] \in BOOLEAN
        BY <3>2, <4>1, RollbackAnswersTypes
      <4> QED BY <1>10, <2>1, <4>1, <4>2 DEF EndAuto
    <3> QED BY <3>2, <3>3, <3>4
  <2> QED BY <2>2, <2>3
<1>11. CASE EndManual
  <2>1. \A u \in Units : [u EXCEPT !.at = "told", !.left = Left(u)] \in Units /\ Left(u) \in BOOLEAN
    BY <1>3 DEF Left, Units, Phases
  <2>2. CASE ~unit.failed
    <3>1. \E a \in Answers(srv, srv) : srv' = a[2]
      BY <1>11, <2>2 DEF EndManual
    <3>2. srv' \in Servers
      BY <1>3, <3>1, AnswersTypes
    <3> QED BY <1>3, <1>11, <2>1, <2>2, <3>2 DEF EndManual, Reported
  <2>3. CASE unit.failed /\ unit.savepoint
    <3>1. PICK a \in Answers(srv, ToMark(srv)) :
            /\ srv' = a[2]
            /\ Reported([unit EXCEPT !.needed = ~a[1], !.done = IF a[1] THEN {} ELSE @])
      BY <1>11, <2>3 DEF EndManual
    <3>2. ToMark(srv) \in Servers
      BY <1>3, ToMarkFields
    <3>3. srv' \in Servers /\ a[1] \in BOOLEAN
      BY <1>3, <3>1, <3>2, AnswersTypes
    <3>4. [unit EXCEPT !.needed = ~a[1], !.done = IF a[1] THEN {} ELSE @] \in Units
      BY <1>3, <3>3 DEF Units
    <3> QED BY <2>1, <3>1, <3>3, <3>4 DEF Reported
  <2>4. CASE unit.failed /\ ~unit.savepoint
    <3>1. [unit EXCEPT !.needed = TRUE] \in Units
      BY <1>3 DEF Units
    <3> QED BY <1>3, <1>11, <2>1, <2>4, <3>1 DEF EndManual, Reported
  <2> QED BY <2>2, <2>3, <2>4
<1> QED BY <1>4, <1>5, <1>6, <1>7, <1>8, <1>9, <1>10, <1>11 DEF WorkerStep

\* The answers.
LEMMA HostTypes ==
  ASSUME Types, HostStep
  PROVE  Types'
<1> USE DEF Types, TypeOK
<1>1. grid \in Grids /\ srv \in Servers /\ unit \in Units /\ refresh \in Refreshes
  OBVIOUS
<1>2. CASE AnsweredFailed
  BY <1>1, <1>2, NoUnitType DEF AnsweredFailed, Told, Grids, Units
<1>3. CASE AnsweredPatched
  <2>1. PatchedRows \subseteq Edits
    BY <1>1, <1>3, GridAssumption DEF PatchedRows, AnsweredPatched, Grids
  <2> QED BY <1>1, <1>3, <2>1, NoUnitType DEF AnsweredPatched, Told, Grids, Units
<1>4. CASE AnsweredStale
  BY <1>1, <1>4, NoUnitType DEF AnsweredStale, Told, Grids, Units
<1>5. CASE Refreshed
  <2>1. Effect \subseteq Edits
    BY <1>1 DEF Effect, Servers
  <2> QED BY <1>1, <1>5, <2>1 DEF Refreshed, Grids
<1> QED BY <1>2, <1>3, <1>4, <1>5 DEF HostStep

LEMMA NextTypes == Types /\ [Next]_vars => Types'
<1> SUFFICES ASSUME Types, [Next]_vars
             PROVE  Types'
  OBVIOUS
<1>1. CASE UNCHANGED vars
  BY <1>1 DEF Types, TypeOK, vars
<1> QED BY <1>1, GridTypes, SessionTypes, WorkerTypes, HostTypes DEF Next, UserStep

\* Every variable keeps its type, and the change set has neither rows at hand
\* nor what was taken back in it (grid.rs, ChangeSet).
THEOREM TypeCorrect == Spec => []TypeOK
<1>1. Types => TypeOK
  BY DEF Types
<1> QED BY <1>1, InitTypes, NextTypes, PTL DEF Spec

-----------------------------------------------------------------------------
(* The inductive invariant.                                                *)

LEMMA InitInv == Init => IInv
<1> SUFFICES ASSUME Init
             PROVE  IInv
  OBVIOUS
<1>1. /\ ~srv.open /\ srv.pend = {} /\ ~srv.over /\ srv.kept = {} /\ ~srv.spilt
      /\ ~srv.mark.over /\ ~srv.work /\ srv.up
      /\ unit = NoUnit /\ unit.at = "idle" /\ unit.pendFrom = {} /\ ~unit.savepoint
      /\ ~txOpen /\ ~unit.needed
  BY DEF Init, NoMark, NoUnit
<1> QED BY <1>1, InitTypes DEF IInv, SrvInv, GridInv, OpenInv, WorkInv, MarkInv, AutoInv,
                               ToldInv, AllOrNothing, ReportIsTrue, CutAtRelease, Early

\* Between two applies only the session's own state is to be looked at.
LEMMA IdleInv ==
  ASSUME Types', unit' = NoUnit, SrvInv', OpenInv', AutoInv'
  PROVE  IInv'
<1>1. unit'.at = "idle" /\ unit'.pendFrom = {} /\ ~unit'.savepoint /\ ~unit'.needed
  BY DEF NoUnit
<1> QED BY <1>1 DEF IInv, GridInv, WorkInv, MarkInv, AutoInv, ToldInv, AllOrNothing, ReportIsTrue, CutAtRelease, Early

\* Steps of the user on the grid, and the arrival of a refresh.
LEMMA GridInvariant ==
  ASSUME IInv,
         \/ \E e \in Edits : Edit(e) \/ Undo(e) \/ Redo(e)
         \/ Revert \/ Turn \/ Refresh \/ Refreshed
  PROVE  IInv'
<1>1. Types'
  BY GridTypes, HostTypes DEF IInv, HostStep
<1>2. grid \in Grids /\ unit \in Units
  BY DEF IInv, Types, TypeOK
<1>3. UNCHANGED <<site, mode, does, srv, txOpen, unit>> /\ grid'.sent = grid.sent
  BY <1>2 DEF Edit, Undo, Redo, Revert, Turn, Refresh, Refreshed, Grids
<1>4. GridInv'
  <2>1. CASE Refresh \/ Refreshed
    <3>1. unit.at = "idle"
      BY <2>1 DEF Refresh, Refreshed, Free, IInv, GridInv
    <3> QED BY <1>3, <3>1 DEF GridInv
  <2>2. ASSUME NEW e \in Edits, Edit(e) \/ Undo(e) \/ Redo(e) \/ Revert \/ Turn
        PROVE  GridInv'
    BY <1>2, <1>3, <2>2 DEF Edit, Undo, Redo, Revert, Turn, Locked, IInv, GridInv, Grids
  <2>3. CASE Revert \/ Turn
    BY <1>2, <1>3, <2>3 DEF Revert, Turn, Locked, IInv, GridInv, Grids
  <2> QED BY <2>1, <2>2, <2>3
<1>5. (SrvInv /\ OpenInv /\ WorkInv /\ MarkInv /\ AutoInv /\ ToldInv)'
  BY <1>3 DEF IInv, SrvInv, OpenInv, WorkInv, MarkInv, AutoInv, ToldInv, AllOrNothing,
              ReportIsTrue, CutAtRelease, Early, Effect
<1> QED BY <1>1, <1>4, <1>5 DEF IInv

LEMMA RequestInvariant ==
  ASSUME IInv, RequestApply
  PROVE  IInv'
<1>1. Types'
  BY GridTypes DEF IInv
<1>2. grid \in Grids /\ unit \in Units /\ srv \in Servers
  BY DEF IInv, Types, TypeOK
<1>3. /\ unit.at = "idle" /\ ~grid.stale
      /\ UNCHANGED <<site, mode, does, srv, txOpen>>
  BY DEF RequestApply, Free
<1>4. /\ unit'.at = "queued" /\ ~unit'.failed /\ unit'.done = {} /\ ~unit'.savepoint
      /\ ~unit'.needed /\ unit'.pendFrom = srv.pend /\ unit'.keptFrom = srv.kept
  BY DEF RequestApply, NoUnit
<1>5. grid'.applying /\ ~grid'.stale /\ grid'.changed = grid'.sent
  BY <1>2, <1>3 DEF RequestApply, Grids
<1> QED BY <1>1, <1>3, <1>4, <1>5 DEF IInv, SrvInv, GridInv, OpenInv, WorkInv, MarkInv,
             AutoInv, ToldInv, AllOrNothing, ReportIsTrue, CutAtRelease, Early

\* Steps of the user on the session.
LEMMA SessionInvariant ==
  ASSUME IInv, Work \/ Commit \/ Rollback \/ CloseFails \/ Relog \/ Move
  PROVE  IInv'
<1>1. Types'
  BY SessionTypes DEF IInv
<1>2. srv \in Servers /\ unit \in Units /\ txOpen \in BOOLEAN
  BY DEF IInv, Types, TypeOK
<1>3. UNCHANGED <<site, mode>>
  BY DEF Work, Commit, Rollback, Close, CloseFails, Relog, Move, User
<1>4. unit' = NoUnit
  BY DEF Work, Commit, Rollback, Close, CloseFails, Relog, Move, User, Free, IInv, WorkInv
<1>5. unit'.at = "idle" /\ unit'.pendFrom = {} /\ ~unit'.savepoint
  BY <1>4 DEF NoUnit
<1>6. mode = "auto" => ~srv.over
  <2>1. unit.at \in {"idle", "told"}
    BY DEF Work, Commit, Rollback, Close, CloseFails, Relog, Move, Free
  <2> QED BY <2>1 DEF IInv, AutoInv
<1>7. SrvInv' /\ OpenInv' /\ AutoInv'
  <2>1. CASE Work
    BY <1>2, <1>3, <1>5, <2>1 DEF Work, Servers, IInv, SrvInv, OpenInv, AutoInv, Early
  <2>2. CASE Commit
    BY <1>2, <1>3, <1>5, <1>6, <2>2, CommittedFields
       DEF Commit, Close, NoMark, SrvInv, OpenInv, AutoInv, IInv, Early
  <2>3. CASE Rollback
    BY <1>2, <1>3, <1>5, <2>3, RolledBackFields
       DEF Rollback, Close, NoMark, SrvInv, OpenInv, AutoInv, IInv, Early
  <2>4. CASE CloseFails
    BY <1>2, <1>3, <1>4, <1>5, <2>4 DEF CloseFails, User, IInv, SrvInv, OpenInv, AutoInv, Early, Free
  <2>5. CASE Relog \/ Move
    <3>1. srv' = Ended(srv) /\ ~txOpen'
      BY <2>5 DEF Relog, Move
    <3> QED BY <1>2, <1>3, <1>5, <1>6, <3>1, EndedFields
            DEF NoMark, SrvInv, OpenInv, AutoInv, IInv, Early
  <2> QED BY <2>1, <2>2, <2>3, <2>4, <2>5
<1> QED BY <1>1, <1>4, <1>7, IdleInv

\* What all steps of the worker have in common.
LEMMA WorkerFrame ==
  ASSUME IInv, WorkerStep
  PROVE  /\ Types' /\ GridInv' /\ UNCHANGED <<site, mode, does, grid, listed>>
         /\ unit.at # "idle"
         /\ srv \in Servers /\ unit \in Units /\ grid \in Grids
         /\ mode \in {"auto", "manual"}
         /\ site.autocommit => site.begin
<1>1. Types' /\ Worker
  BY WorkerTypes DEF IInv
<1>2. unit.at # "idle"
  BY DEF WorkerStep, EnsureAlive, Begin, Mark, Check, Execute, AllDone, EndAuto, EndManual
<1>3. GridInv'
  BY <1>1, <1>2 DEF Worker, GridInv, IInv
<1>4. srv \in Servers /\ unit \in Units /\ grid \in Grids /\ site \in Sites /\ mode \in Modes
  BY DEF IInv, Types, TypeOK
<1>5. mode \in {"auto", "manual"} /\ (site.autocommit => site.begin)
  BY <1>4, GridAssumption
<1> QED BY <1>1, <1>2, <1>3, <1>4, <1>5 DEF Worker

LEMMA EnsureAliveInvariant ==
  ASSUME IInv, EnsureAlive
  PROVE  IInv'
<1>1. WorkerStep
  BY DEF WorkerStep
<1> USE DEF IInv, SrvInv, OpenInv, WorkInv, MarkInv, AutoInv, ToldInv, AllOrNothing,
            ReportIsTrue, CutAtRelease, Early
<1>2. CASE unit' = [unit EXCEPT !.at = "begin"] /\ UNCHANGED <<srv, txOpen>>
  BY <1>1, <1>2, WorkerFrame DEF EnsureAlive, Units
<1>3. CASE /\ ~srv.up /\ ~txOpen'
           /\ unit' = [unit EXCEPT !.at = "begin", !.pendFrom = srv.pend]
           /\ srv' = Reconnected(srv)
  <2>1. /\ srv'.up /\ srv'.pend = {} /\ ~srv'.over /\ ~srv'.work /\ srv'.mark = srv.mark
        /\ srv'.kept = srv.kept /\ srv'.spilt = srv.spilt
    BY <1>1, <1>3, WorkerFrame DEF Reconnected, Servers
  <2>2. /\ unit'.at = "begin" /\ unit'.pendFrom = {} /\ unit'.keptFrom = unit.keptFrom
        /\ unit'.failed = unit.failed /\ unit'.done = unit.done
        /\ unit'.savepoint = unit.savepoint /\ unit'.needed = unit.needed
    BY <1>1, <1>3, WorkerFrame DEF Units
  <2> QED BY <1>1, <1>3, <2>1, <2>2, WorkerFrame DEF EnsureAlive
<1>4. CASE /\ ~srv.up /\ UNCHANGED <<srv, txOpen>>
           /\ unit' = [unit EXCEPT !.at = "told", !.failed = TRUE]
  BY <1>1, <1>4, WorkerFrame DEF EnsureAlive, Units
<1> QED BY <1>2, <1>3, <1>4 DEF EnsureAlive

LEMMA BeginInvariant ==
  ASSUME IInv, Begin
  PROVE  IInv'
<1>1. WorkerStep
  BY DEF WorkerStep
<1>2. unit.at = "begin" /\ UNCHANGED txOpen
  BY DEF Begin
<1> USE DEF IInv, SrvInv, OpenInv, WorkInv, MarkInv, AutoInv, ToldInv, AllOrNothing,
            ReportIsTrue, CutAtRelease, Early
<1>3. CASE ~NeedsBegin
  BY <1>1, <1>2, <1>3, WorkerFrame DEF Begin, NeedsBegin, Units
<1>4. CASE NeedsBegin
  <2> DEFINE begun == [srv EXCEPT !.open = TRUE]
  <2>1. PICK a \in Answers(srv, begun) :
          /\ srv' = a[2]
          /\ unit' = IF a[1] THEN [unit EXCEPT !.at = "mark", !.began = TRUE]
                             ELSE [unit EXCEPT !.at = "told", !.failed = TRUE]
    BY <1>4 DEF Begin
  <2>2. /\ begun.open /\ begun.pend = srv.pend /\ begun.over = srv.over
        /\ begun.kept = srv.kept /\ begun.spilt = srv.spilt /\ begun.mark = srv.mark
        /\ begun.work = srv.work /\ begun.up = srv.up
    BY <1>1, WorkerFrame DEF Servers
  <2> HIDE DEF begun
  <2>3. CASE a[1] = TRUE /\ a[2] = begun
    BY <1>1, <1>2, <2>1, <2>2, <2>3, WorkerFrame DEF Units
  <2>4. CASE a[1] = FALSE /\ a[2] = srv
    BY <1>1, <1>2, <2>1, <2>4, WorkerFrame DEF Units
  <2>5. CASE a[1] = FALSE /\ a[2] = CutOff(srv)
    <3>1. /\ srv'.pend = {} /\ ~srv'.over /\ ~srv'.work /\ ~srv'.up /\ ~srv'.mark.over
          /\ srv'.kept = srv.kept /\ srv'.spilt = srv.spilt
      BY <1>1, <2>1, <2>5, WorkerFrame, CutOffFields DEF NoMark
    <3>2. /\ unit'.at = "told" /\ unit'.failed /\ unit'.needed = unit.needed
          /\ unit'.savepoint = unit.savepoint
          /\ unit'.pendFrom = unit.pendFrom /\ unit'.keptFrom = unit.keptFrom
      BY <1>1, <2>1, <2>5, WorkerFrame DEF Units
    <3> QED BY <1>1, <1>2, <3>1, <3>2, WorkerFrame
  <2> QED BY <1>1, <2>1, <2>3, <2>4, <2>5, WorkerFrame, AnswersCases
<1> QED BY <1>3, <1>4

LEMMA MarkInvariant ==
  ASSUME IInv, Mark
  PROVE  IInv'
<1>1. WorkerStep
  BY DEF WorkerStep
<1>2. unit.at = "mark" /\ UNCHANGED txOpen
  BY DEF Mark
<1> USE DEF IInv, SrvInv, OpenInv, WorkInv, MarkInv, AutoInv, ToldInv, AllOrNothing,
            ReportIsTrue, CutAtRelease, Early
<1>3. CASE mode = "auto" \/ ~site.savepoint
  <2>1. /\ unit'.at = "check" /\ unit'.done = unit.done /\ unit'.failed = unit.failed
        /\ unit'.savepoint = unit.savepoint /\ unit'.needed = unit.needed
        /\ unit'.pendFrom = unit.pendFrom /\ unit'.keptFrom = unit.keptFrom
    BY <1>1, <1>2, <1>3, WorkerFrame DEF Mark, Units
  <2>2. srv' = srv
    BY <1>3 DEF Mark
  <2> QED BY <1>1, <1>2, <2>1, <2>2, WorkerFrame
<1>4. CASE ~(mode = "auto" \/ ~site.savepoint)
  <2>1. PICK a \in Answers(srv, Marked(srv)) :
          /\ srv' = a[2]
          /\ unit' = [unit EXCEPT !.at = "check", !.savepoint = a[1]]
    BY <1>4 DEF Mark
  <2>2. CASE a[1] = TRUE /\ a[2] = Marked(srv)
    BY <1>1, <1>2, <1>4, <2>1, <2>2, WorkerFrame, MarkedFields DEF Units
  <2>3. CASE a[1] = FALSE /\ a[2] = srv
    BY <1>1, <1>2, <1>4, <2>1, <2>3, WorkerFrame DEF Units
  <2>4. CASE a[1] = FALSE /\ a[2] = CutOff(srv)
    BY <1>1, <1>2, <1>4, <2>1, <2>4, WorkerFrame, CutOffFields DEF Units, NoMark
  <2> QED BY <1>1, <2>1, <2>2, <2>3, <2>4, WorkerFrame, AnswersCases
<1> QED BY <1>3, <1>4

LEMMA CheckInvariant ==
  ASSUME IInv, Check
  PROVE  IInv'
<1>1. WorkerStep
  BY DEF WorkerStep
<1>2. unit.at = "check" /\ UNCHANGED txOpen
  BY DEF Check
<1> USE DEF IInv, SrvInv, OpenInv, WorkInv, MarkInv, AutoInv, ToldInv, AllOrNothing,
            ReportIsTrue, CutAtRelease, Early
<1>3. PICK a \in Answers(srv, srv) :
        /\ srv' = a[2]
        /\ unit' = IF a[1] THEN [unit EXCEPT !.at = "exec"]
                           ELSE [unit EXCEPT !.at = "end", !.failed = TRUE]
  BY DEF Check
<1>4. CASE a[1] = TRUE /\ a[2] = srv /\ srv.up
  BY <1>1, <1>2, <1>3, <1>4, WorkerFrame DEF Units
<1>5. CASE a[1] = FALSE /\ a[2] = srv
  BY <1>1, <1>2, <1>3, <1>5, WorkerFrame DEF Units
<1>6. CASE a[1] = FALSE /\ a[2] = CutOff(srv)
  BY <1>1, <1>2, <1>3, <1>6, WorkerFrame, CutOffFields DEF Units, NoMark
<1> QED BY <1>1, <1>3, <1>4, <1>5, <1>6, WorkerFrame, AnswersCases

LEMMA ExecuteInvariant ==
  ASSUME IInv, NEW e \in Edits, Execute(e)
  PROVE  IInv'
<1>1. WorkerStep
  BY DEF WorkerStep
<1>2. unit.at = "exec" /\ UNCHANGED txOpen /\ e \in grid.sent \ unit.done
  BY DEF Execute
<1>3. ASSUME NEW n \in 0..2, srv' = Wrote(srv, e, n), srv.open \/ ~site.autocommit
      PROVE  /\ srv'.up = srv.up /\ srv'.open
             /\ n \in {1, 2} => srv'.pend = srv.pend \cup {e}
             /\ n = 0 => srv'.pend = srv.pend
             /\ n \in {0, 1} => srv'.over = srv.over
             /\ srv'.kept = srv.kept /\ srv'.spilt = srv.spilt
             /\ srv'.mark = srv.mark /\ srv'.work = srv.work
  <2>1. srv \in Servers
    BY <1>1, WorkerFrame
  <2> QED BY <1>3, <2>1, WroteFields
<1> USE DEF IInv, SrvInv, OpenInv, WorkInv, MarkInv, AutoInv, ToldInv, AllOrNothing,
            ReportIsTrue, CutAtRelease, Early
<1>4. ASSUME NEW n \in 0..2, srv' = Wrote(srv, e, n),
             unit' = IF n = 1 THEN [unit EXCEPT !.done = @ \cup {e}]
                              ELSE [unit EXCEPT !.at = "end", !.failed = TRUE]
      PROVE  IInv'
  <2>1. srv.open \/ ~site.autocommit
    BY <1>2
  <2>2. /\ srv'.up = srv.up /\ srv'.open
        /\ n \in {1, 2} => srv'.pend = srv.pend \cup {e}
        /\ n = 0 => srv'.pend = srv.pend
        /\ n \in {0, 1} => srv'.over = srv.over
        /\ srv'.kept = srv.kept /\ srv'.spilt = srv.spilt
        /\ srv'.mark = srv.mark /\ srv'.work = srv.work
    BY <1>3, <1>4, <2>1
  <2>3. CASE n = 1
    <3>1. /\ unit'.at = "exec" /\ unit'.done = unit.done \cup {e}
          /\ unit'.failed = unit.failed /\ unit'.savepoint = unit.savepoint
          /\ unit'.needed = unit.needed
          /\ unit'.pendFrom = unit.pendFrom /\ unit'.keptFrom = unit.keptFrom
      BY <1>1, <1>2, <1>4, <2>3, WorkerFrame DEF Units
    <3>2. srv'.pend = srv.pend \cup {e} /\ srv'.over = srv.over
      BY <1>1, <2>2, <2>3, WorkerFrame DEF Servers
    <3> QED BY <1>1, <1>2, <2>2, <3>1, <3>2, WorkerFrame
  <2>4. CASE n # 1
    <3>1. /\ unit'.at = "end" /\ unit'.failed /\ unit'.savepoint = unit.savepoint
          /\ unit'.needed = unit.needed
          /\ unit'.pendFrom = unit.pendFrom /\ unit'.keptFrom = unit.keptFrom
      BY <1>1, <1>2, <1>4, <2>4, WorkerFrame DEF Units
    <3>2. srv'.over => srv'.pend # {}
      <4>1. CASE n = 0
        BY <2>2, <4>1
      <4>2. CASE n = 2
        BY <2>2, <4>2
      <4> QED BY <1>4, <2>4, <4>1, <4>2
    <3>3. srv.up
      BY <1>2
    <3> QED BY <1>1, <1>2, <2>2, <3>1, <3>2, <3>3, WorkerFrame
  <2> QED BY <2>3, <2>4
<1>5. ASSUME NEW a \in Answers(srv, srv), srv' = a[2], ~a[1],
             unit' = [unit EXCEPT !.at = "end", !.failed = TRUE]
      PROVE  IInv'
  <2>1. CASE a[2] = srv
    BY <1>1, <1>2, <1>5, <2>1, WorkerFrame DEF Units
  <2>2. CASE a[2] = CutOff(srv)
    BY <1>1, <1>2, <1>5, <2>2, WorkerFrame, CutOffFields DEF Units, NoMark
  <2> QED BY <1>1, <2>1, <2>2, WorkerFrame, AnswersCases
<1> QED BY <1>4, <1>5 DEF Execute

LEMMA AllDoneInvariant ==
  ASSUME IInv, AllDone
  PROVE  IInv'
<1>1. WorkerStep
  BY DEF WorkerStep
<1> QED BY <1>1, WorkerFrame DEF AllDone, Units, IInv, SrvInv, OpenInv, WorkInv, MarkInv, AutoInv,
             ToldInv, AllOrNothing, ReportIsTrue, CutAtRelease, Early

LEMMA EndAutoInvariant ==
  ASSUME IInv, EndAuto
  PROVE  IInv'
<1>1. WorkerStep
  BY DEF WorkerStep
<1>2. unit.at = "end" /\ mode = "auto" /\ ~txOpen'
  BY DEF EndAuto
<1> USE DEF IInv, SrvInv, OpenInv, WorkInv, MarkInv, AutoInv, ToldInv, AllOrNothing,
            ReportIsTrue, CutAtRelease, Early
<1>3. ASSUME NEW s \in Servers, NEW b \in RollbackAnswers(s),
             srv' = b[2], unit' = Undone(unit, b[1]),
             ~s.spilt, s.kept \in {unit.keptFrom, unit.keptFrom \cup grid.sent},
             s.up => s.kept = unit.keptFrom,
             ~s.up => s.pend = {} /\ ~s.over /\ ~s.work,
             s.mark.over => s.mark.pend # {}
      PROVE  IInv'
  <2>1. /\ unit'.at = "told" /\ unit'.failed /\ unit'.needed = ~b[1]
        /\ unit'.savepoint = unit.savepoint
        /\ unit'.pendFrom = unit.pendFrom /\ unit'.keptFrom = unit.keptFrom
    BY <1>1, <1>3, WorkerFrame DEF Undone, Units
  <2>2. CASE b[1] = TRUE /\ b[2] = RolledBack(s) /\ s.up
    <3>1. /\ srv'.pend = {} /\ ~srv'.over /\ ~srv'.work /\ srv'.up /\ ~srv'.spilt
          /\ srv'.kept = unit.keptFrom /\ ~srv'.mark.over
      BY <1>3, <2>2, RolledBackFields DEF NoMark
    <3>2. ~unit'.needed
      BY <2>1, <2>2
    <3> QED BY <1>1, <1>2, <2>1, <3>1, <3>2, WorkerFrame
  <2>3. CASE b[1] = FALSE /\ b[2] = CutOff(s)
    <3>1. /\ srv'.pend = {} /\ ~srv'.over /\ ~srv'.work /\ ~srv'.up /\ ~srv'.mark.over
          /\ srv'.kept = s.kept /\ ~srv'.spilt
      BY <1>3, <2>3, CutOffFields DEF NoMark
    <3>2. unit'.needed
      BY <2>1, <2>3
    <3> QED BY <1>1, <1>2, <1>3, <2>1, <3>1, <3>2, WorkerFrame
  <2>4. CASE b[1] = FALSE /\ b[2] = s /\ ~s.up
    BY <1>1, <1>2, <1>3, <2>1, <2>4, WorkerFrame
  <2> QED BY <1>3, <2>2, <2>3, <2>4, RollbackAnswersCases
<1>4. CASE unit.failed
  <2>1. PICK b \in RollbackAnswers(srv) : srv' = b[2] /\ unit' = Undone(unit, b[1])
    BY <1>4 DEF EndAuto
  <2>2. srv \in Servers
    BY <1>1, WorkerFrame
  <2> QED BY <1>2, <1>3, <1>4, <2>1, <2>2
<1>5. CASE ~unit.failed
  <2>1. PICK a \in CommitAnswers(srv) :
          IF a[1] THEN srv' = a[2] /\ unit' = [unit EXCEPT !.at = "told"]
          ELSE \E b \in RollbackAnswers(a[2]) : srv' = b[2] /\ unit' = Undone(unit, b[1])
    BY <1>5 DEF EndAuto
  <2>2. /\ srv.up /\ ~srv.spilt /\ ~srv.over /\ unit.pendFrom = {}
        /\ srv.kept = unit.keptFrom /\ srv.pend = grid.sent
    BY <1>2, <1>5
  <2>3. srv \in Servers
    BY <1>1, WorkerFrame
  <2> DEFINE c == Committed(srv)
  <2>4. /\ c \in Servers /\ c.pend = {} /\ ~c.over /\ ~c.spilt /\ c.mark = NoMark /\ ~c.work
        /\ c.kept = unit.keptFrom \cup grid.sent /\ c.up
    BY <2>2, <2>3, CommittedFields
  <2> HIDE DEF c
  <2>5. CASE a[1] = TRUE /\ a[2] = c
    <3>1. unit' = [unit EXCEPT !.at = "told"] /\ srv' = c
      BY <2>1, <2>5
    <3>2. /\ unit'.at = "told" /\ unit'.failed = unit.failed /\ unit'.needed = unit.needed
          /\ unit'.savepoint = unit.savepoint
          /\ unit'.pendFrom = unit.pendFrom /\ unit'.keptFrom = unit.keptFrom
      BY <1>1, <3>1, WorkerFrame DEF Units
    <3> QED BY <1>1, <1>2, <1>5, <2>2, <2>4, <3>1, <3>2, WorkerFrame DEF NoMark, Effect
  <2>6. ASSUME a[1] = FALSE,
               \/ a[2] = srv
               \/ a[2] = CutOff(srv)
               \/ a[2] = CutOff(c)
        PROVE  IInv'
    <3>1. PICK b \in RollbackAnswers(a[2]) : srv' = b[2] /\ unit' = Undone(unit, b[1])
      BY <2>1, <2>6
    <3>2. /\ a[2] \in Servers /\ ~a[2].spilt
          /\ a[2].kept \in {unit.keptFrom, unit.keptFrom \cup grid.sent}
          /\ a[2].up => a[2].kept = unit.keptFrom
          /\ ~a[2].up => a[2].pend = {} /\ ~a[2].over /\ ~a[2].work
          /\ a[2].mark.over => a[2].mark.pend # {}
      <4>1. CASE a[2] = srv
        BY <2>2, <2>3, <4>1
      <4>2. CASE a[2] = CutOff(srv)
        BY <2>2, <2>3, <4>2, CutOffFields DEF NoMark
      <4>3. CASE a[2] = CutOff(c)
        BY <2>4, <4>3, CutOffFields DEF NoMark
      <4> QED BY <2>6, <4>1, <4>2, <4>3
    <3> QED BY <1>3, <3>1, <3>2
  <2> QED BY <2>3, <2>5, <2>6, CommitAnswersCases DEF c
<1> QED BY <1>4, <1>5

LEMMA EndManualInvariant ==
  ASSUME IInv, EndManual
  PROVE  IInv'
<1>1. WorkerStep
  BY DEF WorkerStep
<1>2. unit.at = "end" /\ mode = "manual"
  BY DEF EndManual
<1> USE DEF IInv, SrvInv, OpenInv, WorkInv, MarkInv, AutoInv, ToldInv, AllOrNothing,
            ReportIsTrue, CutAtRelease, Early
<1>3. ASSUME NEW u \in Units, Reported(u), u.pendFrom = unit.pendFrom,
             u.keptFrom = unit.keptFrom, u.failed = unit.failed
      PROVE  /\ unit'.at = "told" /\ unit'.failed = unit.failed /\ unit'.needed = u.needed
             /\ unit'.pendFrom = unit.pendFrom /\ unit'.keptFrom = unit.keptFrom
             /\ txOpen' = Left(u)
  BY <1>3 DEF Reported, Units
<1>4. CASE ~unit.failed
  <2>1. PICK a \in Answers(srv, srv) : srv' = a[2]
    BY <1>4 DEF EndManual
  <2>2. /\ unit'.at = "told" /\ ~unit'.failed /\ ~unit'.needed
        /\ unit'.savepoint = unit.savepoint
        /\ unit'.pendFrom = unit.pendFrom /\ unit'.keptFrom = unit.keptFrom
    <3>1. Reported(unit)
      BY <1>4 DEF EndManual
    <3>2. unit \in Units /\ ~unit.needed
      BY <1>1, <1>2, WorkerFrame
    <3> QED BY <1>3, <1>4, <3>1, <3>2 DEF Reported, Units
  <2>3. CASE a[2] = srv
    BY <1>1, <1>2, <1>4, <2>1, <2>2, <2>3, WorkerFrame DEF Effect
  <2>4. CASE a[2] = CutOff(srv)
    <3>1. ~srv'.up /\ srv.up /\ srv'.kept = unit.keptFrom
      BY <1>1, <1>2, <1>4, <2>1, <2>4, WorkerFrame, CutOffFields
    <3>2. unit.savepoint
      BY <1>4, <3>1 DEF EndManual
    <3>3. CutAtRelease'
      BY <1>1, <1>2, <2>2, <3>1, <3>2, WorkerFrame
    <3> QED BY <1>1, <1>2, <1>4, <2>1, <2>2, <2>4, <3>1, <3>3, WorkerFrame, CutOffFields DEF NoMark
  <2> QED BY <1>1, <2>3, <2>4, WorkerFrame, AnswersCases
<1>5. CASE unit.failed /\ unit.savepoint
  <2>1. PICK a \in Answers(srv, ToMark(srv)) :
          /\ srv' = a[2]
          /\ Reported([unit EXCEPT !.needed = ~a[1], !.done = IF a[1] THEN {} ELSE @])
    BY <1>5 DEF EndManual
  <2> DEFINE u == [unit EXCEPT !.needed = ~a[1], !.done = IF a[1] THEN {} ELSE @]
  <2>2. a[1] \in BOOLEAN
    BY <1>1, <2>1, WorkerFrame, AnswersTypes, ToMarkFields
  <2>3. /\ u \in Units /\ u.pendFrom = unit.pendFrom /\ u.keptFrom = unit.keptFrom
        /\ u.failed = unit.failed /\ u.needed = ~a[1]
    BY <1>1, <2>2, WorkerFrame DEF Units
  <2> HIDE DEF u
  <2>4. /\ unit'.at = "told" /\ unit'.failed /\ unit'.needed = ~a[1]
        /\ unit'.pendFrom = unit.pendFrom /\ unit'.keptFrom = unit.keptFrom
    BY <1>3, <1>5, <2>1, <2>3 DEF u
  <2>5. CASE a[1] = TRUE /\ a[2] = ToMark(srv) /\ srv.up
    <3>1. srv'.pend = unit.pendFrom /\ srv'.kept = unit.keptFrom
      BY <1>1, <1>2, <1>5, <2>1, <2>5, WorkerFrame, ToMarkFields
    <3> QED BY <1>1, <1>2, <2>1, <2>4, <2>5, <3>1, WorkerFrame, ToMarkFields
  <2>6. CASE a[1] = FALSE /\ a[2] = srv
    BY <1>1, <1>2, <2>1, <2>4, <2>6, WorkerFrame
  <2>7. CASE a[1] = FALSE /\ a[2] = CutOff(srv)
    <3>1. /\ srv'.pend = {} /\ ~srv'.over /\ ~srv'.work /\ ~srv'.up /\ ~srv'.mark.over
          /\ srv'.kept = srv.kept
      BY <1>1, <2>1, <2>7, WorkerFrame, CutOffFields DEF NoMark
    <3>2. unit'.needed /\ srv.kept = unit.keptFrom
      BY <1>2, <1>5, <2>4, <2>7
    <3> QED BY <1>1, <1>2, <2>4, <3>1, <3>2, WorkerFrame
  <2> QED BY <1>1, <2>5, <2>6, <2>7, WorkerFrame, AnswersCases
<1>6. CASE unit.failed /\ ~unit.savepoint
  <2> DEFINE u == [unit EXCEPT !.needed = TRUE]
  <2>1. Reported(u) /\ srv' = srv
    BY <1>6 DEF EndManual
  <2>2. /\ u \in Units /\ u.pendFrom = unit.pendFrom /\ u.keptFrom = unit.keptFrom
        /\ u.failed = unit.failed /\ u.needed
    BY <1>1, WorkerFrame DEF Units
  <2> HIDE DEF u
  <2>3. /\ unit'.at = "told" /\ unit'.failed /\ unit'.needed
        /\ unit'.pendFrom = unit.pendFrom /\ unit'.keptFrom = unit.keptFrom
    BY <1>3, <1>6, <2>1, <2>2
  <2> QED BY <1>1, <1>2, <2>1, <2>3, WorkerFrame
<1> QED BY <1>4, <1>5, <1>6

LEMMA HostInvariant ==
  ASSUME IInv, AnsweredFailed \/ AnsweredPatched \/ AnsweredStale
  PROVE  IInv'
<1>1. Types'
  BY HostTypes DEF IInv, HostStep
<1>2. /\ unit.at = "told" /\ unit' = NoUnit
      /\ UNCHANGED <<site, mode, does, srv, txOpen>>
  BY DEF AnsweredFailed, AnsweredPatched, AnsweredStale, Told
<1>3. SrvInv' /\ OpenInv' /\ AutoInv'
  BY <1>2 DEF NoUnit, IInv, SrvInv, OpenInv, AutoInv, Early
<1> QED BY <1>1, <1>2, <1>3, IdleInv

LEMMA NextInv == IInv /\ [Next]_vars => IInv'
<1> SUFFICES ASSUME IInv, [Next]_vars
             PROVE  IInv'
  OBVIOUS
<1>1. CASE UserStep
  BY <1>1, GridInvariant, RequestInvariant, SessionInvariant DEF UserStep
<1>2. CASE WorkerStep
  BY <1>2, EnsureAliveInvariant, BeginInvariant, MarkInvariant, CheckInvariant,
     ExecuteInvariant, AllDoneInvariant, EndAutoInvariant, EndManualInvariant DEF WorkerStep
<1>3. CASE HostStep
  BY <1>3, GridInvariant, HostInvariant DEF HostStep
<1>4. CASE UNCHANGED vars
  BY <1>4 DEF vars, IInv, Types, TypeOK, SrvInv, GridInv, OpenInv, WorkInv, MarkInv, AutoInv,
              ToldInv, AllOrNothing, ReportIsTrue, CutAtRelease, Early, Effect
<1> QED BY <1>1, <1>2, <1>3, <1>4 DEF Next

LEMMA Invariance == Spec => []IInv
BY InitInv, NextInv, PTL DEF Spec

-----------------------------------------------------------------------------
(* The theorems.                                                           *)

\* In automatic mode an apply is whole or nothing, however many statements it
\* has and whichever of its calls fails (apply_changes_pre).
THEOREM ApplyIsAtomic == Spec => []AllOrNothing
<1>1. IInv => AllOrNothing
  BY DEF IInv, ToldInv
<1> QED BY <1>1, Invariance, PTL

\* The ApplyReport says of the server what is so, in both modes and at whatever
\* call the connection is lost, but at RELEASE SAVEPOINT (apply_changes_pre).
THEOREM ApplyReportIsTrue == Spec => []ReportIsTrue
<1>1. IInv => ReportIsTrue
  BY DEF IInv, ToldInv
<1> QED BY <1>1, Invariance, PTL

\* No apply ends the transaction of the user's own changes, unless the
\* connection ends.
THEOREM OwnChangesStay == Spec => OwnWorkStays
<1>1. ASSUME IInv, srv.work, WorkerStep
      PROVE  srv'.work \/ ~srv'.up
  <2>1. srv \in Servers /\ unit \in Units /\ srv.up
    BY <1>1, WorkerFrame DEF IInv, SrvInv
  <2>2. mode = "manual"
    BY <1>1, WorkerFrame DEF IInv, AutoInv
  <2>3. \A s \in Servers : \A a \in Answers(srv, s) : s.work => a[2].work \/ ~a[2].up
    <3> SUFFICES ASSUME NEW s \in Servers, NEW a \in Answers(srv, s), s.work
                 PROVE  a[2].work \/ ~a[2].up
      OBVIOUS
    <3>1. a[2] = s \/ a[2] = srv \/ a[2] = CutOff(srv)
      BY <2>1, AnswersCases
    <3> QED BY <1>1, <2>1, <3>1, CutOffFields
  <2>4. CASE EnsureAlive
    BY <1>1, <2>1, <2>4 DEF EnsureAlive
  <2>5. CASE Begin
    <3>1. [srv EXCEPT !.open = TRUE] \in Servers /\ [srv EXCEPT !.open = TRUE].work
      BY <1>1, <2>1 DEF Servers
    <3> QED BY <1>1, <2>3, <2>5, <3>1 DEF Begin
  <2>6. CASE Mark
    <3>1. Marked(srv) \in Servers /\ Marked(srv).work
      BY <1>1, <2>1, MarkedFields
    <3> QED BY <1>1, <2>3, <2>6, <3>1 DEF Mark
  <2>7. CASE Check \/ AllDone
    BY <1>1, <2>1, <2>3, <2>7 DEF Check, AllDone
  <2>8. ASSUME NEW e \in Edits, Execute(e)
        PROVE  srv'.work \/ ~srv'.up
    <3>1. srv.open \/ ~site.autocommit
      BY <1>1, <2>1, <2>8 DEF Execute, IInv, OpenInv
    <3>2. (\E n \in 0..2 : srv' = Wrote(srv, e, n)) => srv'.work
      BY <1>1, <2>1, <2>8, <3>1, WroteFields
    <3> QED BY <1>1, <2>1, <2>3, <2>8, <3>2 DEF Execute
  <2>9. CASE EndAuto
    BY <2>2, <2>9 DEF EndAuto
  <2>10. CASE EndManual
    <3>1. ToMark(srv) \in Servers /\ ToMark(srv).work
      BY <1>1, <2>1, ToMarkFields
    <3> QED BY <1>1, <2>1, <2>3, <2>10, <3>1 DEF EndManual
  <2> QED BY <1>1, <2>4, <2>5, <2>6, <2>7, <2>8, <2>9, <2>10 DEF WorkerStep
<1>2. IInv /\ [Next]_vars => [srv.work /\ WorkerStep => srv'.work \/ ~srv'.up]_vars
  BY <1>1
<1> QED BY <1>2, Invariance, PTL DEF Spec, OwnWorkStays

-----------------------------------------------------------------------------
(* What the grid gives up.                                                 *)

\* Nothing is undone, repeated or discarded in a grid that waits for an answer.
NobodyTakesBack == \A w \in Workloads : "takeback" \notin w

\* Where nothing is taken back during an apply, an edit leaves the change set,
\* or enters the rows, only if the server has it (on_conn_applied, patch_rows); but
\* if the connection ended at RELEASE SAVEPOINT.
THEOREM GridIsBehindServer ==
  ASSUME NobodyTakesBack
  PROVE  Spec => GridFollowsServer
<1>1. ASSUME IInv, Told, ~CutAtRelease, HostStep
      PROVE  /\ grid.changed \ grid'.changed \subseteq Effect
             /\ grid'.rows \subseteq grid.rows \cup Effect
  <2>1. /\ grid \in Grids /\ does \in Workloads /\ refresh \in Refreshes
        /\ unit.at = "told" /\ grid.changed = grid.sent
    BY <1>1, NobodyTakesBack DEF Told, NobodyTakesBack, IInv, Types, TypeOK, GridInv
  <2>2. CASE AnsweredFailed
    BY <2>1, <2>2 DEF AnsweredFailed, Grids
  <2>3. Succeeded => grid.sent \subseteq Effect
    BY <1>1, <2>1 DEF Succeeded, IInv, ToldInv, ReportIsTrue
  <2>4. CASE AnsweredPatched
    <3>1. refresh \in {"rows", "local"}
      BY <2>1, <2>4, GridAssumption DEF AnsweredPatched
    <3>2. PatchedRows \subseteq grid.sent
      BY <2>1, <3>1 DEF PatchedRows
    <3> QED BY <2>1, <2>3, <2>4, <3>2 DEF AnsweredPatched, Grids
  <2>5. CASE AnsweredStale
    BY <2>1, <2>3, <2>5 DEF AnsweredStale, Grids
  <2>6. CASE Refreshed
    BY <1>1, <2>1, <2>6 DEF Refreshed, IInv, GridInv
  <2> QED BY <1>1, <2>2, <2>4, <2>5, <2>6 DEF HostStep
<1>2. ASSUME IInv, [Next]_vars, Told, ~CutAtRelease
      PROVE  /\ grid.changed \ grid'.changed \subseteq Effect
             /\ grid'.rows \subseteq grid.rows \cup Effect
  <2>1. unit.at = "told" /\ unit'.at = "idle" /\ grid \in Grids
    BY <1>2 DEF Told, NoUnit, IInv, Types, TypeOK
  <2>2. CASE HostStep
    BY <1>1, <1>2, <2>2
  <2>3. ~WorkerStep
    BY <2>1 DEF WorkerStep, EnsureAlive, Begin, Mark, Check, Execute, AllDone, EndAuto, EndManual
  <2>4. CASE UserStep
    <3>1. Relog
      BY <2>1, <2>4 DEF UserStep, Edit, Undo, Redo, Revert, RequestApply, Free, Turn, Work,
         Commit, Rollback, Close, CloseFails, Move, User, Refresh
    <3> QED BY <2>1, <3>1 DEF Relog, Grids
  <2>5. CASE UNCHANGED vars
    BY <2>1, <2>5 DEF vars
  <2> QED BY <1>2, <2>2, <2>3, <2>4, <2>5 DEF Next
<1>3. IInv /\ [Next]_vars =>
        [Told /\ ~CutAtRelease =>
           /\ grid.changed \ grid'.changed \subseteq Effect
           /\ grid'.rows \subseteq grid.rows \cup Effect]_vars
  BY <1>2
<1> QED BY <1>3, Invariance, PTL DEF Spec, GridFollowsServer

-----------------------------------------------------------------------------
(* What is left open.                                                      *)

\* A COMMIT of the user's fails with the connection only.
NobodyIsInTheWay == \A w \in Workloads : "busy" \notin w

\* How ListInv is kept by the steps of the worker.
LEMMA WorkerLists ==
  ASSUME IInv, IInv', ListInv, WorkerStep
  PROVE  ListInv'
<1>1. /\ UNCHANGED <<mode, listed>> /\ unit.at # "idle"
      /\ srv \in Servers /\ unit \in Units
  BY WorkerFrame
<1> SUFFICES ASSUME mode = "manual", srv'.up
             PROVE  ListInv'
  BY <1>1 DEF ListInv
<1> USE DEF ListInv
<1>2. CASE EnsureAlive
  <2>1. CASE srv.up
    BY <1>1, <1>2, <2>1 DEF EnsureAlive, Units
  <2>2. CASE ~srv.up
    <3>1. unit'.at = "begin" /\ unit'.pendFrom = {} /\ ~srv'.work
      BY <1>1, <1>2, <2>2 DEF EnsureAlive, Units, Reconnected, Servers, IInv, SrvInv, WorkInv, Early
    <3> QED BY <3>1
  <2> QED BY <2>1, <2>2
<1>3. ASSUME NEW ok \in Servers, NEW a \in Answers(srv, ok), a[2].up
      PROVE  (a[1] = TRUE /\ a[2] = ok /\ srv.up) \/ (a[1] = FALSE /\ a[2] = srv)
  <2>1. \/ a[1] = TRUE /\ a[2] = ok /\ srv.up
        \/ a[1] = FALSE /\ a[2] = srv
        \/ a[1] = FALSE /\ a[2] = CutOff(srv) /\ srv.up
    BY <1>1, <1>3, AnswersCases
  <2>2. ~CutOff(srv).up
    BY <1>1, CutOffFields
  <2> QED BY <1>3, <2>1, <2>2
<1>4. CASE Begin
  <2>1. CASE ~NeedsBegin
    BY <1>1, <1>4, <2>1 DEF Begin, Units
  <2>2. CASE NeedsBegin
    <3> DEFINE begun == [srv EXCEPT !.open = TRUE]
    <3>1. begun \in Servers /\ begun.work = srv.work /\ begun.pend = srv.pend
      BY <1>1 DEF Servers
    <3> HIDE DEF begun
    <3>2. PICK a \in Answers(srv, begun) :
            /\ srv' = a[2]
            /\ unit' = IF a[1] THEN [unit EXCEPT !.at = "mark", !.began = TRUE]
                               ELSE [unit EXCEPT !.at = "told", !.failed = TRUE]
      BY <1>4, <2>2 DEF Begin, begun
    <3>3. CASE a[1] = TRUE /\ a[2] = begun /\ srv.up
      <4>1. unit'.at = "mark" /\ unit'.pendFrom = unit.pendFrom
        BY <1>1, <3>2, <3>3 DEF Units
      <4> QED BY <1>1, <1>4, <3>1, <3>2, <3>3, <4>1 DEF Begin
    <3>4. CASE a[1] = FALSE /\ a[2] = srv
      <4>1. unit'.at = "told"
        BY <1>1, <3>2, <3>4 DEF Units
      <4>2. srv.pend = unit.pendFrom
        BY <1>4, <3>2, <3>4 DEF Begin, IInv, WorkInv, Early
      <4> QED BY <1>1, <1>4, <3>2, <3>4, <4>1, <4>2 DEF Begin
    <3> QED BY <1>3, <3>1, <3>2, <3>3, <3>4
  <2> QED BY <2>1, <2>2
<1>5. CASE Mark
  <2>1. /\ unit'.at = "check" /\ unit'.pendFrom = unit.pendFrom /\ UNCHANGED txOpen
        /\ unit.at = "mark"
    BY <1>1, <1>5 DEF Mark, Units
  <2>2. srv'.work = srv.work /\ srv.up
    <3>1. Marked(srv) \in Servers /\ Marked(srv).work = srv.work
      BY <1>1, MarkedFields
    <3>2. srv' = srv \/ \E a \in Answers(srv, Marked(srv)) : srv' = a[2]
      BY <1>5 DEF Mark
    <3> QED BY <1>3, <3>1, <3>2
  <2> QED BY <1>1, <2>1, <2>2
<1>6. CASE Check
  <2>1. /\ unit'.at \in {"exec", "end"} /\ unit'.pendFrom = unit.pendFrom /\ UNCHANGED txOpen
        /\ unit.at = "check"
    BY <1>1, <1>6 DEF Check, Units
  <2>2. srv' = srv
    BY <1>1, <1>3, <1>6 DEF Check
  <2> QED BY <1>1, <2>1, <2>2
<1>7. ASSUME NEW e \in Edits, Execute(e)
      PROVE  ListInv'
  <2>1. \/ unit' = [unit EXCEPT !.done = @ \cup {e}]
        \/ unit' = [unit EXCEPT !.at = "end", !.failed = TRUE]
    BY <1>7 DEF Execute
  <2>2. /\ unit'.at \in {"exec", "end"} /\ unit'.pendFrom = unit.pendFrom /\ UNCHANGED txOpen
        /\ unit.at = "exec"
    BY <1>1, <1>7, <2>1 DEF Execute, Units
  <2>3. (srv.open \/ ~site.autocommit) /\ srv.up
    BY <2>2 DEF IInv, OpenInv, WorkInv
  <2>4. (\E n \in 0..2 : srv' = Wrote(srv, e, n)) => srv'.work = srv.work
    BY <1>1, <1>7, <2>3, WroteFields
  <2>5. (\E a \in Answers(srv, srv) : srv' = a[2]) => srv'.work = srv.work
    BY <1>1, <1>3
  <2>6. srv'.work = srv.work
    BY <1>7, <2>4, <2>5 DEF Execute
  <2> QED BY <1>1, <2>2, <2>3, <2>6
<1>8. CASE AllDone
  BY <1>1, <1>8 DEF AllDone, Units
<1>9. CASE EndManual
  <2>1. unit.at = "end"
    BY <1>9 DEF EndManual
  <2>2. ASSUME NEW u \in Units, Reported(u), srv.up, srv'.work = srv.work,
               (srv'.pend # {} /\ srv'.pend # unit.pendFrom) => u.done # {} \/ u.needed
        PROVE  ListInv'
    <3>1. unit'.at = "told" /\ unit'.left = Left(u) /\ txOpen' = Left(u)
      BY <2>2 DEF Reported, Units
    <3>2. txOpen => Left(u)
      BY DEF Left
    <3>3. srv'.pend # {} \/ srv'.work => Left(u)
      BY <1>1, <2>1, <2>2, <3>2 DEF Left
    <3> QED BY <1>1, <3>1, <3>3
  <2>3. CASE ~unit.failed
    <3>1. srv' = srv
      BY <1>1, <1>3, <1>9, <2>3 DEF EndManual
    <3>2. srv.pend = unit.pendFrom \cup unit.done
      BY <2>1, <2>3 DEF IInv, WorkInv
    <3>3. Reported(unit)
      BY <1>9, <2>3 DEF EndManual
    <3> QED BY <1>1, <2>2, <3>1, <3>2, <3>3
  <2>4. CASE unit.failed /\ unit.savepoint
    <3>1. PICK a \in Answers(srv, ToMark(srv)) :
            /\ srv' = a[2]
            /\ Reported([unit EXCEPT !.needed = ~a[1], !.done = IF a[1] THEN {} ELSE @])
      BY <1>9, <2>4 DEF EndManual
    <3> DEFINE u == [unit EXCEPT !.needed = ~a[1], !.done = IF a[1] THEN {} ELSE @]
    <3>2. ToMark(srv) \in Servers
      BY <1>1, ToMarkFields
    <3>3. a[1] \in BOOLEAN
      BY <1>1, <3>1, <3>2, AnswersTypes
    <3>4. u \in Units /\ u.needed = ~a[1]
      BY <1>1, <3>3 DEF Units
    <3> HIDE DEF u
    <3>5. Reported(u)
      BY <3>1 DEF u
    <3>6. CASE a[1] = TRUE /\ a[2] = ToMark(srv) /\ srv.up
      <4>1. srv'.pend = unit.pendFrom /\ srv'.work = srv.work
        BY <1>1, <2>1, <2>4, <3>1, <3>6, ToMarkFields DEF IInv, MarkInv
      <4> QED BY <2>2, <3>4, <3>5, <3>6, <4>1
    <3>7. CASE a[1] = FALSE /\ a[2] = srv
      BY <2>2, <3>1, <3>4, <3>5, <3>7
    <3> QED BY <1>3, <3>1, <3>2, <3>6, <3>7
  <2>5. CASE unit.failed /\ ~unit.savepoint
    <3>1. [unit EXCEPT !.needed = TRUE] \in Units /\ [unit EXCEPT !.needed = TRUE].needed
      BY <1>1 DEF Units
    <3>2. Reported([unit EXCEPT !.needed = TRUE]) /\ srv' = srv
      BY <1>9, <2>5 DEF EndManual
    <3> QED BY <2>2, <3>1, <3>2
  <2> QED BY <2>3, <2>4, <2>5
<1>10. ~EndAuto
  BY DEF EndAuto
<1> QED BY <1>2, <1>4, <1>5, <1>6, <1>7, <1>8, <1>9, <1>10 DEF WorkerStep

\* And by all others.
LEMMA NextLists ==
  ASSUME NobodyIsInTheWay
  PROVE  IInv /\ IInv' /\ ListInv /\ [Next]_vars => ListInv'
<1> SUFFICES ASSUME IInv, IInv', ListInv, [Next]_vars
             PROVE  ListInv'
  OBVIOUS
<1>1. srv \in Servers /\ does \in Workloads
  BY DEF IInv, Types, TypeOK
<1>2. CASE WorkerStep
  BY <1>2, WorkerLists
<1>3. CASE HostStep
  <2>1. CASE Refreshed
    BY <2>1 DEF Refreshed, ListInv
  <2>2. CASE Told
    <3>1. /\ unit.at = "told" /\ unit'.at = "idle" /\ listed' = (listed \/ unit.left)
          /\ UNCHANGED <<mode, srv, txOpen>>
      BY <2>2 DEF Told, NoUnit
    <3> QED BY <3>1 DEF ListInv
  <2> QED BY <1>3, <2>1, <2>2 DEF HostStep, AnsweredFailed, AnsweredPatched, AnsweredStale
<1>4. CASE UNCHANGED vars
  BY <1>4 DEF vars, ListInv
<1>5. CASE UserStep
  <2>1. CASE (\E e \in Edits : Edit(e) \/ Undo(e) \/ Redo(e)) \/ Revert \/ Turn \/ Refresh
    BY <2>1 DEF Edit, Undo, Redo, Revert, Turn, Refresh, ListInv
  <2>2. CASE RequestApply
    BY <2>2 DEF RequestApply, Free, NoUnit, ListInv
  <2>3. CASE Work
    BY <1>1, <2>3 DEF Work, User, Free, Servers, ListInv
  <2>4. CASE Commit \/ Rollback
    <3>1. srv'.pend = {} /\ ~srv'.work /\ unit' = unit /\ unit.at = "idle"
      BY <1>1, <2>4, CommittedFields, RolledBackFields DEF Commit, Rollback, Close, User, Free
    <3> QED BY <3>1 DEF ListInv
  <2>5. CASE CloseFails
    BY <1>1, <2>5, NobodyIsInTheWay DEF CloseFails, NobodyIsInTheWay, ListInv
  <2>6. CASE Relog \/ Move
    <3>1. srv'.pend = {} /\ ~srv'.work /\ unit'.at = "idle"
      BY <1>1, <2>6, EndedFields DEF Relog, Move, User, Free, NoUnit
    <3> QED BY <3>1 DEF ListInv
  <2> QED BY <1>5, <2>1, <2>2, <2>3, <2>4, <2>5, <2>6 DEF UserStep
<1> QED BY <1>2, <1>3, <1>4, <1>5 DEF Next

\* Where a COMMIT of the user's fails with the connection only, changes that
\* wait for him in manual mode are listed, with a BEGIN or without
\* (on_conn_applied, tx_left_open).
THEOREM WhatIsOpenIsListed ==
  ASSUME NobodyIsInTheWay
  PROVE  Spec => []OpenIsListed
<1>1. Init => ListInv
  BY DEF Init, ListInv, NoUnit
<1>2. IInv /\ IInv' /\ ListInv /\ [Next]_vars => ListInv'
  BY NextLists
<1>3. ListInv => OpenIsListed
  BY DEF ListInv, OpenIsListed, Free
<1> QED BY <1>1, <1>2, <1>3, Invariance, PTL DEF Spec

=============================================================================
