---------------------------- MODULE MCTabSessions ----------------------------
(***************************************************************************)
(* Tabs, servers and workloads for the runs of TabSessions.                *)
(***************************************************************************)
EXTENDS TabSessions

DevAndProd == {"dev", "prod"}
OnlyProd == {"prod"}
SameTabs == Permutations(Tabs)

Text(srv) == Connect([srv |-> srv, bare |-> FALSE])
Profile(srv) == Connect([srv |-> srv, bare |-> TRUE])

W(ops, scripts, refuses) == [ops |-> ops, scripts |-> scripts, refuses |-> refuses]

\* Logins that are not refused, a CONNECT that leads its text, and what is
\* asked of the session of the tab in front; and without texts, refusals too.
Steady ==
  { W({"tabs", "login", "use", "disconnect"}, {}, FALSE),
    W({"tabs", "login", "use", "activate"}, {}, TRUE),
    W({"tabs", "login", "use", "unconnect", "idle"}, {<<Text("dev")>>}, FALSE),
    W({"login", "idle", "again"}, {<<Change>>, <<Text("dev"), Change>>, <<Text("prod"), Change>>}, FALSE),
    W({"login", "tabs"}, {<<Change>>, <<Disconnect>>}, FALSE),
    W({"tabs", "disconnect"}, {<<Profile("dev"), Change>>, <<Change>>}, FALSE),
    W({"object", "backup", "idle"}, {<<Text("prod"), Change>>, <<Disconnect>>}, FALSE),
    W({"login", "manual", "disconnect"}, {<<Text("dev"), Change>>, <<Change>>, <<Disconnect>>}, FALSE),
    W({"login", "confirm"}, {<<Text("prod"), Change>>, <<Change>>}, FALSE) }

\* What is asked of a session that is not the one of the tab in front.
Elsewhere == { W({"tabs", "login", "object"}, {}, FALSE),
               W({"tabs", "login", "manual"}, {<<Change>>}, FALSE),
               W({"tabs", "login", "backup"}, {<<Change>>}, FALSE) }

\* What leaves a change to production unguarded, or runs it on the wrong
\* server, within one tab.
Ahead    == { W({}, {<<Text("prod"), Change>>, <<Change, Text("dev")>>}, FALSE) }
Named    == { W({}, {<<Profile("prod"), Change>>}, FALSE) }
Refused  == { W({}, {<<Text("prod")>>, <<Text("dev")>>, <<Change>>}, TRUE) }
Twice    == { W({}, {<<Text("dev"), Text("prod")>>, <<Change>>}, FALSE) }
Backed   == { W({"backup"}, {<<Text("dev"), Change>>, <<Text("prod"), Change>>}, FALSE) }
Repeated == { W({"confirm"}, {<<Text("dev"), Change>>, <<Text("prod"), Change>>}, FALSE) }
Unguarded == Named \cup Ahead \cup Twice \cup Refused \cup Backed
=============================================================================
