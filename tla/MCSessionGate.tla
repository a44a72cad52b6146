--------------------------- MODULE MCSessionGate ---------------------------
(***************************************************************************)
(* Sets of operations and of faults for the runs of SessionGate.           *)
(***************************************************************************)
EXTENDS SessionGate

AllOps    == UserOps
AllFaults == ServerFaults
NoFaults  == {}

\* A session that stays on its server: no connect is asked for.
SteadyOps == {"run", "fetch", "aux", "requery", "tx", "idle_close",
              "force_stop", "disconnect"}

\* Everything whose operations answer with exactly one done or one answer.
CountedOps == {"run", "aux", "requery", "tx_unmarked", "quiet",
               "connect", "connect_queued", "idle_close", "force_stop"}
CountedFaults == {"error", "relogin", "refused"}

ScriptOps    == {"run"}
ScriptFaults == {"error"}
WakeOps      == {"run", "idle_close"}
FetchOps     == {"fetch", "idle_close"}
=============================================================================
