----------------------------- MODULE OneOpGate -----------------------------
(***************************************************************************)
(* What the gate of a session promises (docs/52, section 3): one operation *)
(* at a time.  The gate shuts when an operation is accepted.  It opens     *)
(* when nothing that was accepted is still under way, or when the host     *)
(* throws the worker away.  The answer of one operation may start the next *)
(* before the gate opens: an applied edit runs its query again.            *)
(***************************************************************************)
VARIABLES open, working

Init == open = TRUE /\ working = FALSE

Accept  == open /\ ~working /\ open' = FALSE /\ working' = TRUE
Finish  == working /\ working' = FALSE /\ UNCHANGED open
Release == ~open /\ ~working /\ open' = TRUE /\ UNCHANGED working
Renew   == ~open /\ ~working /\ working' = TRUE /\ UNCHANGED open
Reset   == open' = TRUE /\ working' = FALSE

Next == Accept \/ Finish \/ Release \/ Renew \/ Reset

Spec == Init /\ [][Next]_<<open, working>>
=============================================================================
