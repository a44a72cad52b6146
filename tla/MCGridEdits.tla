---------------------------- MODULE MCGridEdits ----------------------------
(***************************************************************************)
(* Edits, servers and workloads for the runs of GridEdits.                 *)
(***************************************************************************)
EXTENDS GridEdits

CONSTANTS d1, u1, u2

TwoEdits == {d1, u1}
ThreeEdits == {d1, u1, u2}
OneDelete == {d1}

S(b, a, p) == [begin |-> b, autocommit |-> a, savepoint |-> p]

\* SQLite, PostgreSQL, MySQL, SQL Server, Db2; Oracle; DuckDB, Access, ODBC.
AllSites == {S(TRUE, TRUE, TRUE), S(FALSE, FALSE, TRUE), S(TRUE, TRUE, FALSE)}
BothModes == {"auto", "manual"}
InPlace == {"rows", "local"}
AllRefreshes == {"rows", "requery", "local"}

\* What the code copes with, and what it does not, one by one.
Quiet == { {"work"}, {"turn"}, {"move"} }
Turning == { {"turn"} }
TakingBack == { {"takeback"} }
Leaving == { {"leave"} }
Moving == { {"move"} }
Refusing == { {"busy"} }
=============================================================================
