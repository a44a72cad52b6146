----------------------------- MODULE MCMetaTree -----------------------------
(***************************************************************************)
(* Folders and bounds for the run of MetaTree.                             *)
(***************************************************************************)
EXTENDS MetaTree

OneFolder == {"tables"}

Bound(links, asks, changes, fails) ==
  [ links |-> links, asks |-> asks, changes |-> changes, fails |-> fails ]
\* A busy user, without and with a change on the server; a connection that comes
\* and goes; a server that refuses; changes.
Mixes == { Bound(1, 3, 0, 0),
           Bound(1, 2, 1, 0),
           Bound(3, 1, 1, 0),
           Bound(2, 2, 0, 1),
           Bound(1, 1, 2, 1) }
=============================================================================
