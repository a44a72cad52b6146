----------------------------- MODULE UnitOfWork -----------------------------
(***************************************************************************)
(* What the client promises about changes that are not committed yet       *)
(* (docs/34, docs/114).  The user sees a list of pending changes.  A new   *)
(* change either joins the list or is saved at once, and the list leaves   *)
(* as a whole: everything on it is saved together or dropped together.     *)
(***************************************************************************)
CONSTANT Changes
VARIABLES list, saved, dropped

Fresh == Changes \ (list \cup saved \cup dropped)

Init == list = {} /\ saved = {} /\ dropped = {}

Enlist(x) == list' = list \cup {x} /\ UNCHANGED <<saved, dropped>>
Save(new) == list' = {} /\ saved' = saved \cup list \cup new /\ UNCHANGED dropped
Drop      == list' = {} /\ dropped' = dropped \cup list /\ UNCHANGED saved

Next == \/ \E x \in Fresh : Enlist(x) \/ Save({x})
        \/ Save({})
        \/ Drop

Spec == Init /\ [][Next]_<<list, saved, dropped>>
=============================================================================
