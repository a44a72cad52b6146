----------------------------- MODULE MCRunnerTx -----------------------------
(***************************************************************************)
(* Servers and workloads for the runs of RunnerTx.                         *)
(***************************************************************************)
EXTENDS RunnerTx

CONSTANTS x1, x2, x3

TwoChanges   == {x1, x2}
ThreeChanges == {x1, x2, x3}
BothModes    == {"auto", "manual"}

Server(begin, autocommit, ddlTx, savepoint, nested) ==
  [ begin |-> begin, autocommit |-> autocommit, ddlTx |-> ddlTx,
    savepoint |-> savepoint, nested |-> nested ]

Postgres  == Server(TRUE,  TRUE,  TRUE,  TRUE,  "keep")
SQLite    == Server(TRUE,  TRUE,  TRUE,  TRUE,  "error")
MySQL     == Server(TRUE,  TRUE,  FALSE, TRUE,  "commit")
SQLServer == Server(TRUE,  TRUE,  TRUE,  TRUE,  "count")
DuckDB    == Server(TRUE,  TRUE,  TRUE,  FALSE, "error")
Oracle    == Server(FALSE, FALSE, FALSE, TRUE,  "keep")
Servers   == { Postgres, SQLite, MySQL, SQLServer, DuckDB, Oracle }

At(server, prod, ops) ==
  [ begin |-> server.begin, autocommit |-> server.autocommit,
    ddlTx |-> server.ddlTx, savepoint |-> server.savepoint,
    nested |-> server.nested, prod |-> prod, ops |-> ops ]

\* The six servers, each with the largest workloads that keep the promises.
Workloads == { AllOps \ {o, "begin", "below", "apply_on_cursor", "connect_other",
                          "switch_elsewhere", "rest_ddl"}
               : o \in {"lock", "switch", "refresh"} }
PromisedSites ==
  { s \in { At(server, prod, ops \ ((IF prod THEN {"run_connect", "run_disconnect"} ELSE {}) \cup
                                    (IF prod /\ ~server.ddlTx THEN {"ddl"} ELSE {})))
            : server \in Servers, prod \in BOOLEAN, ops \in Workloads }
    : Disciplined(s) /\ AsksFirst(s) }

\* And sites where anything is done.
AnySites == { At(s, prod, AllOps) : s \in {Postgres, Oracle}, prod \in BOOLEAN }
MixedSites == PromisedSites \cup AnySites

CursorSites  == { At(Postgres, FALSE, {"apply", "apply_on_cursor"}) }
RefreshSites == { At(Postgres, TRUE, {"refresh"}) }
DisconnectSites == { At(Postgres, TRUE, {"run_disconnect"}) }
=============================================================================
