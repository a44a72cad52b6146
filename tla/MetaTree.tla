------------------------------ MODULE MetaTree ------------------------------
(***************************************************************************)
(* The tree of the object explorer and the thread that reads the catalog   *)
(* for it (explorer.rs, explorers.rs, app/meta.rs, app/tx.rs; docs/57).    *)
(*                                                                         *)
(* The tree sends requests, the thread picks the most urgent one and       *)
(* answers, and the answer finds a tree that has moved on: the user has    *)
(* opened, closed or refreshed things, DDL has been run, the connection    *)
(* has been renewed (a new generation).  A node is read anew in one of two *)
(* ways: loudly, its children replaced, or quietly, the new list merged    *)
(* into the old one; a set of nodes says which way an answer is taken.     *)
(*                                                                         *)
(* The tree has one schema, that of the account, so a node is the root (the *)
(* list of schemas) or a folder of that schema.  A list is the number of   *)
(* times it has changed on the server; 0 is no list at all.                *)
(***************************************************************************)
EXTENDS Naturals, Sequences, FiniteSets, SequencesExt

CONSTANTS
  Folders,     \* folders of the schema: tables, views, ...
  Budgets      \* bounds, a few mixes: links (connects, rebinds, disconnects),
               \* asks (of the user; time-outs), changes (on the server), fails
               \* (requests that the server refuses)

Root == "root"
Gone == "gone"     \* a node that is no longer in the tree
Nodes == Folders \cup {Root}

ASSUME TreeAssumption ==
  /\ IsFiniteSet(Folders)
  /\ Folders \cap {Root, Gone} = {}
  /\ Budgets \subseteq [ links : Nat, asks : Nat, changes : Nat, fails : Nat ]

VARIABLES
  site,    \* held: the server keeps DDL until the commit;
           \* waits: the host takes that to be so (ddl_waits_for_commit)
  link,    \* the pane: state, generation, a rebind under way, dialect known,
           \* root expandable
  tree,    \* the nodes
  soft,    \* nodes whose next answer is merged
  again,   \* soft_again, for the root
  marks,   \* watermark: in flight, and the last one read (none: {})
  queue,   \* requests to the thread
  thread,  \* its generation and the unit (schema, database) it works in
  out,     \* answers of the thread
  srv,     \* the lists as they are on the server
  unit,    \* unit of the user's session, and the one the tree takes for current
  run,     \* DDL of the run under way, DDL that waits, DDL held by the server
  owe,     \* what has been promised: see Properties
  left     \* what is left of the budget

vars == <<site, link, tree, soft, again, marks, queue, thread, out, srv, unit, run, owe, left>>
paneVars == <<link, marks, thread>>
ownVars == <<srv, run>>

States == { "absent", "idle", "loading", "loaded", "error" }
Versions == [Nodes -> Nat]
NodeRecord == [ state : States, open : BOOLEAN, seen : Nat,
                below : BOOLEAN ]      \* the user has opened something below it
Request == [ kind : {"open", "list", "marks", "use"}, node : Nodes \cup {Gone},
             gen : Nat, unit : Nat,
             load : BOOLEAN,           \* a list for a node that shows "loading"
             anew : BOOLEAN ]          \* see Asked
Answer == [ kind : {"open", "list", "marks"}, node : Nodes \cup {Gone},
            gen : Nat, unit : Nat, load : BOOLEAN, anew : BOOLEAN,
            ok : BOOLEAN, at : Versions ]

TypeOK ==
  /\ site \in [ held : BOOLEAN, waits : BOOLEAN ]
  /\ link \in [ state : {"none", "on", "offline"}, gen : Nat, rebinding : BOOLEAN,
                known : BOOLEAN, expandable : BOOLEAN ]
  /\ tree \in [Nodes -> NodeRecord]
  /\ soft \subseteq Nodes /\ again \in BOOLEAN
  /\ marks \in [ asked : BOOLEAN, seen : SUBSET Versions ]
  /\ queue \in Seq(Request) /\ out \in Seq(Answer)
  /\ thread \in [ gen : Nat, unit : Nat ]
  /\ srv \in Versions
  /\ unit \in [ session : Nat, shown : Nat ]
  /\ owe \in [ due : Versions, owed : [Folders -> Nat], unit : Nat,
              lost : SUBSET {"open", "marks", "unit"} ]
  /\ left \in [ links : Nat, asks : Nat, changes : Nat, fails : Nat ]
  /\ run \in [ busy : BOOLEAN, now : SUBSET Nodes, wait : SUBSET Nodes, held : SUBSET Nodes ]
  /\ \A n \in Nodes : /\ tree[n].state = "loaded" => tree[n].seen > 0
                      /\ tree[n].below => tree[n].seen > 0
  /\ (tree[Root].seen = 0) => \A f \in Folders : tree[f].state = "absent"

Blank(state) == [ state |-> state, open |-> FALSE, seen |-> 0, below |-> FALSE ]
Bare(state) == [n \in Nodes |-> Blank(IF n = Root THEN state ELSE "absent")]

Sites == { [held |-> FALSE, waits |-> FALSE], [held |-> TRUE, waits |-> TRUE],
           [held |-> TRUE, waits |-> FALSE] }   \* BEGIN typed in automatic mode
NoRun == [ busy |-> FALSE, now |-> {}, wait |-> {}, held |-> {} ]
Nothing == [ due |-> [n \in Nodes |-> 0], owed |-> [f \in Folders |-> 0], unit |-> 0,
             lost |-> {} ]
NoThread == [ gen |-> 0, unit |-> 0 ]

Init ==
  /\ site \in Sites
  /\ link = [ state |-> "none", gen |-> 0, rebinding |-> FALSE, known |-> FALSE,
              expandable |-> FALSE ]
  /\ tree = Bare("idle") /\ soft = {} /\ again = FALSE
  /\ marks = [ asked |-> FALSE, seen |-> {} ]
  /\ queue = <<>> /\ thread = NoThread /\ out = <<>>
  /\ srv = [n \in Nodes |-> 1]
  /\ unit = [ session |-> 0, shown |-> 0 ]
  /\ run = NoRun /\ owe = Nothing
  /\ left \in Budgets

-----------------------------------------------------------------------------
(* Asking.                                                                 *)

OnTheWay == { r \in ToSet(queue) \cup ToSet(out) : r.gen = link.gen }
Awaited(n) == { r \in OnTheWay : r.kind = "list" /\ r.node = n }

Asks(kind, n, gen) == [ kind |-> kind, node |-> n, gen |-> gen, unit |-> unit.session,
                        load |-> FALSE, anew |-> FALSE ]
\* anew: the answer may replace what the user opens before it comes, since he has
\* had the node read again while it had a list or an answer was on its way.
Asked(n, load) ==
  [Asks("list", n, link.gen) EXCEPT !.load = load,
     !.anew = IF load THEN tree[n].seen > 0 \/ Awaited(n) # {}
                      ELSE \E r \in Awaited(n) : r.load \/ r.anew]
AskedAll(S, load) == LET s == SetToSeq(S) IN [i \in DOMAIN s |-> Asked(s[i], load)]

\* Nodes taken out of the tree: their answers reach no one.
Orphaned(s) == [i \in DOMAIN s |->
                  IF s[i].node \in Folders THEN [s[i] EXCEPT !.node = Gone] ELSE s[i]]

\* Mutant of Bared: the folders stay when the schema goes.
BaredOnly(n) == [tree EXCEPT ![n].seen = 0, ![n].below = FALSE]
\* detach: the children of n go, those of the root with all below them.
Bared(n) == IF n = Root THEN Bare(tree[Root].state)
                        ELSE [tree EXCEPT ![n].seen = 0, ![n].below = FALSE]
Clears(n) == IF n = Root
             THEN out' = Orphaned(out) /\ soft' = soft \cap {Root}
             ELSE UNCHANGED <<out, soft>>
Kept(n) == IF n = Root THEN Orphaned(queue) ELSE queue

\* soft_refresh: the nodes of S it sends a request for.
Softly(S) == { n \in S : link.state = "on" /\ tree[n].state = "loaded" /\ n \notin soft }
SoftRefresh(S) ==
  /\ queue' = queue \o AskedAll(Softly(S), FALSE)
  /\ soft' = soft \cup Softly(S)

-----------------------------------------------------------------------------
(* What is promised (owe; read by no action of the program).               *)

\* The user has asked for S, or has been told of a change of his own: what is on
\* the server now will be shown.  Not so if the only answer to come was read before.
TooLate(n) == /\ \E a \in ToSet(out) : a.kind = "list" /\ a.node = n /\ a.gen = link.gen
              /\ ~\E r \in ToSet(queue') : r.kind = "list" /\ r.node = n /\ r.gen = link.gen
Due(S) == [n \in Nodes |-> IF n \in S /\ ~TooLate(n) THEN srv'[n] ELSE owe.due[n]]

\* A change after the first watermark has been read will be noticed.
MarksCome == \/ \E r \in ToSet(queue) : r.kind = "marks" /\ r.gen = link.gen
             \/ \E a \in ToSet(out) : a.kind = "marks"
Watching == link.state = "on" /\ marks.seen # {} /\ (marks.asked => MarksCome)
Owed(S) == [f \in Folders |-> IF f \in S /\ Watching THEN srv'[f] ELSE owe.owed[f]]

\* Promises about S that end here.
Forgiven(S) == [owe EXCEPT !.due  = [n \in Nodes |-> IF n \in S THEN 0 ELSE @[n]],
                           !.owed = [f \in Folders |-> IF f \in S THEN 0 ELSE @[f]]]

-----------------------------------------------------------------------------
(* The connection of the pane.                                             *)

Links == left.links > 0 /\ left' = [left EXCEPT !.links = @ - 1]

\* Explorer::connect, reset_tree: the first session on the server.
Connect ==
  /\ link.state # "on" /\ Links
  /\ link' = [link EXCEPT !.state = "on", !.gen = @ + 1, !.known = FALSE, !.expandable = FALSE]
  /\ tree' = Bare("loading") /\ soft' = {} /\ again' = FALSE
  /\ marks' = [ asked |-> FALSE, seen |-> {} ]
  /\ queue' = Append(queue, Asks("open", Root, link.gen + 1))
  /\ unit' = [ session |-> 0, shown |-> 0 ] /\ owe' = Nothing
  /\ UNCHANGED <<site, thread, out, ownVars>>

\* Mutant of Stopped: what was being read goes on being read.
StoppedNot(t) == t
\* Nodes that were being read are as if never read.
Stopped(t) == [n \in Nodes |-> IF t[n].state = "loading" THEN [t[n] EXCEPT !.state = "idle"]
                                                         ELSE t[n]]

\* Explorer::rebind: the session whose login the thread had borrowed has gone,
\* others on the server have not.  The thread is the same.
Rebind ==
  /\ link.state = "on" /\ Links
  /\ link' = [link EXCEPT !.gen = @ + 1, !.rebinding = TRUE]
  /\ tree' = Stopped(tree) /\ soft' = {} /\ again' = FALSE
  /\ queue' = Append(queue, Asks("open", Root, link.gen + 1))
  /\ LET waits == { n \in Nodes : n \in soft \/ Awaited(n) # {} }
         deaf  == marks.asked /\ ~\E a \in ToSet(out) : a.kind = "marks"
     IN  owe' = [Forgiven(IF deaf THEN Nodes ELSE waits) EXCEPT
                   !.unit = 0, !.lost = IF deaf THEN @ \cup {"marks"} ELSE @]
  /\ UNCHANGED <<site, marks, thread, out, unit, ownVars>>

\* Explorer::go_offline: the last session has gone; a new thread, new channels.
GoOffline ==
  /\ link.state = "on" /\ Links
  /\ link' = [link EXCEPT !.state = "offline", !.gen = @ + 1]
  /\ tree' = Stopped(tree)
  /\ queue' = <<>> /\ thread' = NoThread /\ out' = <<>>
  /\ run' = NoRun
  /\ UNCHANGED <<site, soft, again, marks, srv, unit, owe>>

\* ExplorerSet::remove, Explorer::disconnect: the pane is dropped, or, the only
\* one, kept for the next server.
RemovePane ==
  /\ link.state = "offline" /\ Links
  /\ \E stays \in {link.rebinding, FALSE} :
       link' = [ state |-> "none", gen |-> link.gen + 1, rebinding |-> stays,
                 known |-> FALSE, expandable |-> FALSE ]
  /\ tree' = Bare("idle") /\ soft' = {} /\ again' = FALSE
  /\ marks' = [ asked |-> FALSE, seen |-> {} ]
  /\ queue' = <<>> /\ thread' = NoThread /\ out' = <<>>
  /\ UNCHANGED <<site, ownVars, unit, owe>>

-----------------------------------------------------------------------------
(* The thread (meta_thread).                                               *)

\* req_prio
Prio(r) == CASE r.kind = "open" -> 0 [] r.kind = "list" -> 1 [] OTHER -> 2
\* The most urgent request, the oldest of these.
Pick == CHOOSE i \in DOMAIN queue : \A j \in DOMAIN queue :
          Prio(queue[i]) < Prio(queue[j]) \/ (Prio(queue[i]) = Prio(queue[j]) /\ i <= j)

Answered(r, ok) ==
  [ kind |-> r.kind, node |-> r.node, gen |-> r.gen, unit |-> thread.unit,
    load |-> r.load, anew |-> r.anew, ok |-> ok,
    at |-> [n \in Nodes |-> IF \/ r.kind = "list" /\ r.node = n
                               \/ r.kind = "marks" /\ n \in Folders
                            THEN srv[n] ELSE 0] ]

\* The thread turns to the new generation, whether the login works or not.
Opens(r) == /\ r.kind = "open"
            /\ thread' = [ gen |-> r.gen, unit |-> 0 ]
\* Req::UseDb: the unit is changed ahead of the next list.  No answer.
Uses(r) == /\ r.kind = "use" /\ r.gen = thread.gen
           /\ thread' = [thread EXCEPT !.unit = r.unit]
\* A request of another generation is dropped, and not answered.
Overtaken(r) == r.kind # "open" /\ r.gen # thread.gen
Reads(r) == /\ r.kind \in {"list", "marks"} /\ ~Overtaken(r)
            /\ UNCHANGED thread

Serve ==
  /\ queue # <<>>
  /\ queue' = RemoveAt(queue, Pick)
  /\ LET r == queue[Pick] IN
       \/ /\ Uses(r) \/ (Overtaken(r) /\ UNCHANGED thread)
          /\ UNCHANGED <<out, owe, left>>
       \/ /\ Opens(r) \/ Reads(r)
          /\ \E ok \in BOOLEAN :
               /\ ~ok => left.fails > 0
               /\ left' = IF ok THEN left ELSE [left EXCEPT !.fails = @ - 1]
               /\ out' = Append(out, Answered(r, ok))
          /\ owe' = IF /\ r.kind = "list" /\ r.node = Root
                       /\ \E u \in ToSet(queue) : u.kind = "use" /\ u.gen = r.gen
                    THEN [owe EXCEPT !.lost = @ \cup {"unit"}] ELSE owe
  /\ UNCHANGED <<site, link, tree, soft, again, marks, ownVars, unit>>

-----------------------------------------------------------------------------
(* The answers (Explorer::drain).                                          *)

Dropped(a) ==
  /\ a.gen # link.gen \/ (a.kind = "list" /\ a.node = Gone)
  /\ marks' = IF a.kind = "marks" THEN [marks EXCEPT !.asked = FALSE] ELSE marks
  /\ out' = Tail(out)
  /\ UNCHANGED <<link, tree, soft, again, queue, unit, owe>>

\* Resp::Opened.  A login of a rebind leaves the tree alone; any other has the
\* root toggled, which reads it if it was closed.
Opened(a) ==
  /\ a.kind = "open" /\ a.gen = link.gen
  /\ out' = Tail(out)
  /\ \/ /\ ~a.ok
        /\ tree' = [tree EXCEPT ![Root].state = "error"]
        /\ UNCHANGED <<link, queue, owe>>
     \/ /\ a.ok /\ link.rebinding
        /\ link' = [link EXCEPT !.known = TRUE, !.rebinding = FALSE]
        /\ owe' = IF tree[Root].state = "loading" /\ Awaited(Root) = {}
                  THEN [owe EXCEPT !.lost = @ \cup {"open"}] ELSE owe
        /\ UNCHANGED <<tree, queue>>
     \/ /\ a.ok /\ ~link.rebinding
        /\ link' = [link EXCEPT !.known = TRUE, !.expandable = TRUE]
        /\ IF tree[Root].open
           THEN /\ tree' = [tree EXCEPT ![Root].state = "idle", ![Root].open = FALSE]
                /\ UNCHANGED queue
           ELSE /\ tree' = [tree EXCEPT ![Root].state = "loading", ![Root].open = TRUE]
                /\ queue' = Append(queue, Asked(Root, TRUE))
        /\ UNCHANGED owe
  /\ UNCHANGED <<soft, again, marks, unit>>

\* The answer for n is the one of a quiet refresh.
Merged(n) == n \in soft

\* diff_children
Merges(a, n) ==
  /\ a.ok /\ Merged(n)
  /\ tree' = [tree EXCEPT ![n].state = "loaded", ![n].seen = a.at[n]]
  /\ out' = Tail(out)

\* set_children; the schema of the account opens at once (select_current_schema).
Replaces(a, n) ==
  /\ a.ok /\ ~Merged(n)
  /\ tree' = [m \in Nodes |->
                IF m = n THEN [Blank("loaded") EXCEPT !.open = TRUE, !.seen = a.at[n]]
                ELSE IF n = Root THEN Blank(IF link.known THEN "idle" ELSE "absent")
                ELSE tree[m]]
  /\ out' = IF n = Root THEN Orphaned(Tail(out)) ELSE Tail(out)

\* A quiet refresh that fails leaves the old list.
Fails(a, n) ==
  /\ ~a.ok
  /\ tree' = IF Merged(n) THEN tree
             ELSE [tree EXCEPT ![n].state = "error", ![n].open = TRUE]
  /\ out' = Tail(out)

\* Mutant of OnceMore: what was asked for meanwhile is forgotten.
OnceMoreNot(n) == FALSE
\* schemas_resp_done
OnceMore(n) == n = Root /\ again

\* Resp::Schemas, Resp::Objects
Listed(a) ==
  /\ a.kind = "list" /\ a.gen = link.gen /\ a.node # Gone
  /\ LET n == a.node
         q == IF n = Root /\ a.ok /\ ~Merged(n) THEN Kept(Root) ELSE queue
         s == (IF n = Root /\ a.ok /\ ~Merged(n) THEN soft \cap {Root} ELSE soft) \ {n}
     IN  /\ Merges(a, n) \/ Replaces(a, n) \/ Fails(a, n)
         /\ queue' = IF OnceMore(n) THEN Append(q, Asked(Root, FALSE)) ELSE q
         /\ soft' = IF OnceMore(n) THEN s \cup {Root} ELSE s
         /\ again' = IF n = Root THEN FALSE ELSE again
         /\ unit' = IF n = Root /\ a.ok THEN [unit EXCEPT !.shown = a.unit] ELSE unit
         /\ owe' = IF a.ok THEN owe
                   ELSE [Forgiven({n}) EXCEPT !.unit = IF n = Root THEN 0 ELSE @]
  /\ UNCHANGED <<link, marks>>

\* Mutant of Noticed: the watermark before is not compared with.
NoticedNot(at) == FALSE
\* The first watermark is only the base.
Noticed(at) == marks.seen # {} /\ marks.seen # {at}

\* Resp::Watermark
Marked(a) ==
  /\ a.kind = "marks" /\ a.gen = link.gen
  /\ marks' = [ asked |-> FALSE, seen |-> IF a.ok THEN {a.at} ELSE marks.seen ]
  /\ SoftRefresh(IF a.ok /\ Noticed(a.at) THEN Folders ELSE {})
  /\ out' = Tail(out)
  /\ UNCHANGED <<link, tree, again, unit, owe>>

Drain ==
  /\ out # <<>>
  /\ LET a == Head(out) IN Dropped(a) \/ Opened(a) \/ Listed(a) \/ Marked(a)
  /\ UNCHANGED <<site, thread, ownVars, left>>

-----------------------------------------------------------------------------
(* The user.                                                               *)

Acts == left.asks > 0 /\ left' = [left EXCEPT !.asks = @ - 1]
Visible(n) == IF n = Root THEN link.expandable
                          ELSE tree[Root].open /\ tree[n].state # "absent"

\* Explorer::toggle, load: a node that is not read is read, unless offline.
Expand(n) ==
  /\ Acts /\ link.state # "none" /\ Visible(n) /\ ~tree[n].open
  /\ \/ /\ tree[n].state = "loaded"
        /\ tree' = [tree EXCEPT ![n].open = TRUE]
        /\ UNCHANGED queue
     \/ /\ tree[n].state # "loaded" /\ link.state = "offline"
        /\ tree' = [tree EXCEPT ![n].open = TRUE, ![n].state = "error"]
        /\ UNCHANGED queue
     \/ /\ tree[n].state # "loaded" /\ link.state = "on"
        /\ tree' = [tree EXCEPT ![n].open = TRUE, ![n].state = "loading"]
        /\ queue' = Append(queue, Asked(n, TRUE))
  /\ UNCHANGED <<site, paneVars, soft, again, out, ownVars, unit, owe>>

Collapse(n) ==
  /\ Acts /\ link.state # "none" /\ Visible(n) /\ tree[n].open
  /\ tree' = [tree EXCEPT ![n].open = FALSE]
  /\ UNCHANGED <<site, paneVars, soft, again, queue, out, ownVars, unit, owe>>

\* A table of the folder is opened; what is below it is not modelled.
OpenBelow(f) ==
  /\ link.state # "none" /\ Visible(f) /\ tree[f].open /\ tree[f].seen > 0 /\ ~tree[f].below
  /\ tree' = [tree EXCEPT ![f].below = TRUE]
  /\ UNCHANGED <<site, paneVars, soft, again, queue, out, ownVars, unit, owe, left>>

\* The schema, folded and without folders, is opened (make_folders).
OpenSchema ==
  /\ Acts /\ link.known /\ Visible(Root) /\ tree[Root].open /\ tree[Root].seen > 0
  /\ \A f \in Folders : tree[f].state = "absent"
  /\ tree' = [n \in Nodes |-> IF n = Root THEN tree[n] ELSE Blank("idle")]
  /\ UNCHANGED <<site, paneVars, soft, again, queue, out, ownVars, unit, owe>>

\* The list of n is dropped, and read at once if n is open.
Reread(n) ==
  /\ link.state = "on"
  /\ tree' = [Bared(n) EXCEPT ![n].state = IF tree[n].open THEN "loading" ELSE "idle",
                              ![n].open = tree[n].open]
  /\ queue' = IF tree[n].open THEN Append(Kept(n), Asked(n, TRUE)) ELSE Kept(n)
  /\ Clears(n)
  /\ marks' = IF n = Root THEN [marks EXCEPT !.seen = {}] ELSE marks
  /\ owe' = [owe EXCEPT !.due = Due({n})]

\* What is read of n and below is asked for again quietly (soft_refresh_subtree).
Freshen(n) ==
  LET S == IF n = Root THEN Nodes ELSE {n} IN
  /\ link.state = "on"
  /\ SoftRefresh(S)
  /\ owe' = [owe EXCEPT !.due = Due(S)]
  /\ UNCHANGED <<tree, out, marks>>

\* Offline: the old list is not passed off as a new one.
Disowned(n) ==
  /\ link.state = "offline" /\ n # Root /\ (tree[n].state # "idle" \/ tree[n].seen > 0)
  /\ tree' = [Bared(n) EXCEPT ![n].state = IF tree[n].open THEN "error" ELSE "idle"]
  /\ UNCHANGED <<queue, soft, out, marks, owe>>

\* A list that has not come is asked for loudly.
Hard(n, hard) == hard \/ tree[n].state # "loaded"

\* refresh_selected
Refresh(n, hard) ==
  /\ Acts /\ (n = Root \/ Visible(n))
  /\ UNCHANGED <<site, link, again, thread, ownVars, unit>>
  /\ \/ link.state = "on" /\ Hard(n, hard) /\ Reread(n)
     \/ link.state = "on" /\ ~Hard(n, hard) /\ Freshen(n)
     \/ Disowned(n)

\* note_missing: a statement of the user's has not found a table the tree shows.
NoteMissing(f) ==
  /\ Acts /\ tree[f].state = "loaded"
  /\ UNCHANGED <<site, link, again, thread, ownVars, unit>>
  /\ Freshen(f)

\* Mutant of Doubled: the request in flight is not looked at.
DoubledNot == FALSE
\* request_schemas_soft: only one at a time; another one follows it.
Doubled == Root \in soft

\* set_current_db: the session of the user has changed its schema.
SwitchUnit ==
  /\ Acts /\ link.state = "on"
  /\ LET u == unit.session + 1
         q == Append(queue, [Asks("use", Gone, link.gen) EXCEPT !.unit = u])
     IN  IF link.known /\ tree[Root].state = "loaded"
         THEN /\ unit' = [ session |-> u, shown |-> 0 ]
              /\ queue' = IF Doubled THEN q ELSE Append(q, Asked(Root, FALSE))
              /\ soft' = soft \cup {Root}
              /\ again' = (again \/ Doubled)
              /\ owe' = [owe EXCEPT !.unit = u, !.lost = @ \ {"unit"}]
         ELSE /\ unit' = [unit EXCEPT !.session = u]
              /\ queue' = q
              /\ UNCHANGED <<soft, again, owe>>
  /\ UNCHANGED <<site, paneVars, tree, out, ownVars>>

\* kick_meta_load: names are wanted for completion, and the root is not read.
Kick ==
  /\ Acts /\ link.state = "on" /\ tree[Root].state = "idle"
  /\ tree' = [tree EXCEPT ![Root].state = "loading"]
  /\ queue' = Append(queue, Asked(Root, TRUE))
  /\ UNCHANGED <<site, paneVars, soft, again, out, ownVars, unit, owe>>

\* Explorer::tick, explorer.timeout: the request goes on.
Timeout(n) ==
  /\ Acts /\ tree[n].state = "loading"
  /\ tree' = [tree EXCEPT ![n].state = "error", ![n].open = TRUE]
  /\ UNCHANGED <<site, paneVars, soft, again, queue, out, ownVars, unit, owe>>

-----------------------------------------------------------------------------
(* Changes on the server, and how the tree hears of them.                  *)

Bump(S) == srv' = [n \in Nodes |-> IF n \in S THEN srv[n] + 1 ELSE srv[n]]
Changes == left.changes > 0 /\ left' = [left EXCEPT !.changes = @ - 1]

\* Mutant of Collected: told at the end of the run, commit or no commit.
CollectedNow(n) == [run EXCEPT !.busy = TRUE, !.now = @ \cup {n}]
\* meta_on_done
Collected(n) == IF site.waits THEN [run EXCEPT !.busy = TRUE, !.wait = @ \cup {n}]
                              ELSE [run EXCEPT !.busy = TRUE, !.now = @ \cup {n}]

\* A statement of a run changes the list of n.
Ddl(n) ==
  /\ Changes /\ link.state = "on"
  /\ Bump(IF site.held THEN {} ELSE {n})
  /\ run' = [Collected(n) EXCEPT !.held = IF site.held THEN @ \cup {n} ELSE @]
  /\ owe' = [owe EXCEPT !.owed = Owed(IF site.held THEN {} ELSE {n})]
  /\ UNCHANGED <<site, paneVars, tree, soft, again, queue, out, unit>>

\* The run ends: apply_ddl for what has been collected.
RunEnds ==
  /\ run.busy
  /\ run' = [run EXCEPT !.busy = FALSE, !.now = {}]
  /\ SoftRefresh(run.now)
  /\ UNCHANGED srv
  /\ owe' = [owe EXCEPT !.due = Due(run.now)]
  /\ UNCHANGED <<site, paneVars, tree, again, out, unit, left>>

\* tx_close, the transaction has been committed: by the user, by a statement, ...
Commit ==
  /\ ~run.busy /\ run.held # {}
  /\ Bump(run.held)
  /\ run' = [run EXCEPT !.wait = {}, !.held = {}]
  /\ SoftRefresh(run.wait)
  /\ owe' = [owe EXCEPT !.due = Due(run.held), !.owed = Owed(run.held)]
  /\ UNCHANGED <<site, paneVars, tree, again, out, unit, left>>

\* tx_close, rolled back or lost.
Rollback ==
  /\ ~run.busy /\ run.held # {}
  /\ run' = [run EXCEPT !.wait = {}, !.held = {}]
  /\ UNCHANGED <<site, paneVars, tree, soft, again, queue, out, srv, unit, owe, left>>

\* Another program, or another person.
Elsewhere(n) ==
  /\ Changes
  /\ Bump({n})
  /\ owe' = [owe EXCEPT !.owed = Owed({n})]
  /\ UNCHANGED <<site, paneVars, tree, soft, again, queue, out, run, unit>>

\* meta_refresh_tick, watermark_poll, while the user does nothing.
Poll ==
  /\ link.state = "on" /\ link.known /\ ~marks.asked /\ ~run.busy
  /\ \E f \in Folders : tree[f].state = "loaded"
  /\ marks' = [marks EXCEPT !.asked = TRUE]
  /\ queue' = Append(queue, Asks("marks", Gone, link.gen))
  /\ UNCHANGED <<site, link, thread, tree, soft, again, out, ownVars, unit, owe, left>>

-----------------------------------------------------------------------------
Connection == Connect \/ Rebind \/ GoOffline \/ RemovePane
User == \/ \E n \in Nodes : Expand(n) \/ Collapse(n) \/ Timeout(n)
        \/ \E n \in Nodes, hard \in BOOLEAN : Refresh(n, hard)
        \/ \E f \in Folders : OpenBelow(f) \/ NoteMissing(f)
        \/ OpenSchema \/ SwitchUnit \/ Kick
Server == \/ \E n \in Nodes : Ddl(n) \/ Elsewhere(n)
          \/ RunEnds \/ Commit \/ Rollback

Next == Connection \/ User \/ Server \/ Serve \/ Drain \/ Poll

Spec == Init /\ [][Next]_vars

\* The thread runs, the host reads its channel, runs end, and the period of the
\* watermark comes round while the session of the tree is open.
FairSpec == Spec /\ WF_vars(Serve) /\ WF_vars(Drain) /\ WF_vars(RunEnds) /\ WF_vars(Poll)

-----------------------------------------------------------------------------
(* Properties.                                                             *)

\* Whatever the tree waits for is on its way: a node that shows "reading", a quiet
\* refresh that keeps others from being asked for, a watermark that keeps the next
\* one from being read (explorer.rs:5478, 6201, 6304).  Two waits are lost for good
\* in the code as it is, and are told apart by owe.lost.
AskedIsAnswered ==
  link.state = "on" =>
    /\ \A n \in Nodes :
         /\ n \in soft => Awaited(n) # {}
         /\ tree[n].state = "loading" =>
              \/ Awaited(n) # {}
              \/ n = Root /\ \/ "open" \in owe.lost
                             \/ \E r \in OnTheWay : r.kind = "open"
    /\ marks.asked => MarksCome \/ "marks" \in owe.lost
    /\ again => Root \in soft

\* When nothing is on its way to a node, it shows at least what was on the server
\* when the user last asked for it, or was last told of a change of his own, unless
\* he did so while an answer read before lay unread (apply_ddl, explorer.rs:6096).
ToldIsShown ==
  link.state = "on" /\ (site.held => site.waits) =>
    \A n \in Nodes : tree[n].state = "loaded" /\ Awaited(n) = {} => tree[n].seen >= owe.due[n]

\* However fast schemas are switched, the one marked as current is the last one when
\* the lists have come (request_schemas_soft, explorer.rs:5777), unless a list has
\* gone ahead of the switch in the queue of the thread.
LastUnitIsShown ==
  link.state = "on" /\ tree[Root].state = "loaded" /\ Awaited(Root) = {}
    /\ "unit" \notin owe.lost => unit.shown >= owe.unit

\* What the user has opened is closed by no answer, other than one to a second
\* reading he has asked for himself (docs/57 2-2, diff_children).
Closed(f) == \/ tree[f].open /\ ~tree'[f].open
             \/ tree[f].below /\ ~tree'[f].below
OwnAct(f) == \/ Collapse(f)
             \/ \E n \in Nodes : \/ Refresh(n, TRUE)
                                 \/ tree[n].state # "loaded" /\ Refresh(n, FALSE)
OpenedStays ==
  [][\A f \in Folders :
       Closed(f) => \/ OwnAct(f)
                    \/ link'.state # link.state
                    \/ out # <<>> /\ Head(out).anew]_vars

\* A change on the server after the first watermark reaches a folder that shows its
\* list, whoever made it (docs/57 T2), if the answer of its refresh is not an error.
Behind(f) == link.state = "on" /\ tree[f].state = "loaded" /\ tree[f].seen < owe.owed[f]
CatchesUp == \A f \in Folders : Behind(f) ~> ~Behind(f)

=============================================================================
