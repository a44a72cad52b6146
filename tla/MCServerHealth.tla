--------------------------- MODULE MCServerHealth ---------------------------
(***************************************************************************)
(* Sessions and mixes of commands for the runs of ServerHealth.            *)
(***************************************************************************)
EXTENDS ServerHealth

\* A shared session and the private one of a tab.
TwoSessions == {"a", "b"}

\* Both sessions in use, or one in use and another that only hears of it.
Mixes == { [ a |-> {"run", "close"},                  b |-> {"close"} ],
           [ a |-> {"run", "drop"},                   b |-> {} ],
           [ a |-> {"run", "again", "explain", "tx"}, b |-> {} ] }

WithWindow == { [ a |-> {"run", "again", "window"}, b |-> {"run"} ] }
=============================================================================
