------------------------ MODULE MetaTreeShown_proofs ------------------------
(***************************************************************************)
(* Theorems of MetaTree, continued: what the user asked for, or was told   *)
(* of, is shown.                                                           *)
(*                                                                         *)
(* A node with nothing on its way shows what was promised (due); this is   *)
(* not inductive, as the list it comes to show has been read long before.  *)
(* So the last answer on its way to a node, if no request comes after it,  *)
(* is new enough too (UpToDate).  A promise made while a quiet refresh is  *)
(* under way holds because that refresh is really on its way (WaitInv),    *)
(* and a commit is told to the nodes it changes because what the server    *)
(* holds back the host collects (HeldIsWaited).                            *)
(*                                                                         *)
(* The current schema is a promise of its own: the last switch in the      *)
(* queue is to the schema promised, without one the thread is there, and a *)
(* list of the root that is read after it shows it (UnitInv).              *)
(*                                                                         *)
(* What the user has opened stays open because of the order of the answers *)
(* to a node (StayInv, which needs of the above the types only).           *)
(***************************************************************************)
EXTENDS MetaTree_proofs

-----------------------------------------------------------------------------
(* The last answer for a node.                                             *)

IsLast(s, i, n, g) == IsFor(s[i], n, g) /\ \A j \in DOMAIN s : IsFor(s[j], n, g) => j <= i
LastIsNew(s, n, g, d) == \A i \in DOMAIN s : IsLast(s, i, n, g) /\ s[i].ok => s[i].at[n] >= d

LEMMA TailLast ==
  ASSUME NEW X, NEW s \in Seq(X), s # <<>>, NEW n, NEW g
  PROVE  /\ \A i \in DOMAIN Tail(s) : IsLast(Tail(s), i, n, g) =>
              /\ i + 1 \in DOMAIN s /\ IsLast(s, i + 1, n, g)
              /\ Tail(s)[i] = s[i + 1]
         /\ IsFor(Head(s), n, g) /\ ~Has(Tail(s), n, g) =>
              1 \in DOMAIN s /\ IsLast(s, 1, n, g) /\ Head(s) = s[1]
<1>1. /\ Len(Tail(s)) = Len(s) - 1
      /\ \A i \in 1..Len(Tail(s)) : Tail(s)[i] = s[i + 1]
      /\ Len(s) \in Nat \ {0} /\ DOMAIN s = 1..Len(s) /\ DOMAIN Tail(s) = 1..Len(Tail(s))
      /\ Head(s) = s[1]
  BY HeadTailProperties, LenProperties, EmptySeq
<1>2. ASSUME NEW j \in DOMAIN s, j # 1
      PROVE  j - 1 \in DOMAIN Tail(s) /\ Tail(s)[j - 1] = s[j]
  <2>1. j - 1 \in 1..Len(Tail(s)) /\ (j - 1) + 1 = j
    BY <1>1, <1>2
  <2> QED BY <1>1, <2>1
<1>3. ASSUME NEW i \in DOMAIN Tail(s), IsLast(Tail(s), i, n, g)
      PROVE  i + 1 \in DOMAIN s /\ IsLast(s, i + 1, n, g) /\ Tail(s)[i] = s[i + 1]
  <2>1. i + 1 \in DOMAIN s /\ Tail(s)[i] = s[i + 1] /\ i \in Nat /\ i >= 1
    BY <1>1
  <2>2. ASSUME NEW j \in DOMAIN s, IsFor(s[j], n, g)
        PROVE  j <= i + 1
    <3>1. CASE j = 1
      BY <2>1, <3>1
    <3>2. CASE j # 1
      <4>1. j - 1 \in DOMAIN Tail(s) /\ Tail(s)[j - 1] = s[j]
        BY <1>2, <3>2
      <4>2. j - 1 <= i
        BY <1>3, <2>2, <4>1 DEF IsLast
      <4> QED BY <1>1, <2>1, <4>2
    <3> QED BY <3>1, <3>2
  <2> QED BY <1>3, <2>1, <2>2 DEF IsLast
<1>4. ASSUME IsFor(Head(s), n, g), ~Has(Tail(s), n, g)
      PROVE  1 \in DOMAIN s /\ IsLast(s, 1, n, g) /\ Head(s) = s[1]
  <2>1. 1 \in DOMAIN s
    BY <1>1
  <2>2. \A j \in DOMAIN s : IsFor(s[j], n, g) => j <= 1
    <3> SUFFICES ASSUME NEW j \in DOMAIN s, IsFor(s[j], n, g), j # 1
                 PROVE  FALSE
      BY <1>1
    <3> QED BY <1>2, <1>4 DEF Has, ToSet
  <2> QED BY <1>1, <1>4, <2>1, <2>2 DEF IsLast
<1> QED BY <1>3, <1>4

LEMMA AppendLast ==
  ASSUME NEW X, NEW s \in Seq(X), NEW a \in X, NEW n, NEW g
  PROVE  \A i \in DOMAIN Append(s, a) : IsLast(Append(s, a), i, n, g) =>
           \/ IsFor(a, n, g) /\ Append(s, a)[i] = a
           \/ ~IsFor(a, n, g) /\ i \in DOMAIN s /\ IsLast(s, i, n, g) /\ Append(s, a)[i] = s[i]
<1>0. PICK t : t = Append(s, a)
  OBVIOUS
<1> SUFFICES ASSUME NEW i \in DOMAIN t, IsLast(t, i, n, g)
             PROVE  IF IsFor(a, n, g) THEN t[i] = a
                    ELSE i \in DOMAIN s /\ IsLast(s, i, n, g) /\ t[i] = s[i]
  BY <1>0
<1>1. /\ t \in Seq(X) /\ Len(t) = Len(s) + 1 /\ Len(s) \in Nat
      /\ \A j \in 1..Len(s) : t[j] = s[j]
      /\ t[Len(s) + 1] = a
      /\ DOMAIN s = 1..Len(s) /\ DOMAIN t = 1..(Len(s) + 1)
  BY <1>0, AppendProperties, LenProperties
<1>2. CASE IsFor(a, n, g)
  <2>1. Len(s) + 1 \in DOMAIN t
    BY <1>1
  <2>2. Len(s) + 1 <= i
    BY <1>1, <1>2, <2>1 DEF IsLast
  <2>3. i = Len(s) + 1
    BY <1>1, <2>2
  <2> QED BY <1>1, <1>2, <2>3
<1>3. CASE ~IsFor(a, n, g)
  <2>1. IsFor(t[i], n, g) /\ i \in DOMAIN s /\ t[i] = s[i]
    BY <1>1, <1>3 DEF IsLast
  <2>2. \A j \in DOMAIN s : j \in DOMAIN t /\ t[j] = s[j]
    BY <1>1
  <2> QED BY <1>3, <2>1, <2>2 DEF IsLast
<1> QED BY <1>2, <1>3

LEMMA RootLast ==
  ASSUME NEW s \in Seq(Answer), NEW g, NEW i \in DOMAIN Orphaned(s),
         IsLast(Orphaned(s), i, Root, g)
  PROVE  i \in DOMAIN s /\ IsLast(s, i, Root, g) /\ Orphaned(s)[i] = s[i]
<1>1. /\ DOMAIN Orphaned(s) = DOMAIN s
      /\ \A j \in DOMAIN s : IsFor(s[j], Root, g) <=> IsFor(Orphaned(s)[j], Root, g)
      /\ \A j \in DOMAIN s : IsFor(s[j], Root, g) => Orphaned(s)[j] = s[j]
  BY OrphanedProperties, NodeNames DEF IsFor
<1> QED BY <1>1 DEF IsLast

LEMMA NoneIsNew ==
  ASSUME NEW s, NEW n, NEW g, NEW d, ~Has(s, n, g)
  PROVE  LastIsNew(s, n, g, d)
BY DEF LastIsNew, IsLast, Has, ToSet

LEMMA TailIsNew ==
  ASSUME NEW X, NEW s \in Seq(X), s # <<>>, NEW n, NEW g, NEW d, LastIsNew(s, n, g, d)
  PROVE  /\ LastIsNew(Tail(s), n, g, d)
         /\ IsFor(Head(s), n, g) /\ Head(s).ok /\ ~Has(Tail(s), n, g) => Head(s).at[n] >= d
<1>1. LastIsNew(Tail(s), n, g, d)
  BY TailLast DEF LastIsNew
<1> QED BY <1>1, TailLast DEF LastIsNew

LEMMA AppendIsNew ==
  ASSUME NEW X, NEW s \in Seq(X), NEW a \in X, NEW n, NEW g, NEW d,
         \/ IsFor(a, n, g) /\ (a.ok => a.at[n] >= d)
         \/ ~IsFor(a, n, g) /\ LastIsNew(s, n, g, d)
  PROVE  LastIsNew(Append(s, a), n, g, d)
BY AppendLast DEF LastIsNew

LEMMA RootIsNew ==
  ASSUME NEW s \in Seq(Answer), NEW g, NEW d, LastIsNew(s, Root, g, d)
  PROVE  LastIsNew(Orphaned(s), Root, g, d)
BY RootLast DEF LastIsNew

LEMMA FoldersGo ==
  ASSUME NEW X \in {Request, Answer}, NEW s \in Seq(X), NEW n \in Folders, NEW g
  PROVE  ~Has(Orphaned(s), n, g)
BY OrphanedElements DEF Has, IsFor

-----------------------------------------------------------------------------
(* Promises.                                                               *)

\* Where the host knows that DDL waits for the commit.
Believed == site.held => site.waits

DueIsShort == \A n \in Nodes : owe.due[n] <= srv[n]
HeldIsWaited == run.held \subseteq run.wait
UpToDate(n) ==
  ~Has(queue, n, link.gen) =>
    /\ tree[n].state = "loaded" /\ ~Has(out, n, link.gen) => tree[n].seen >= owe.due[n]
    /\ LastIsNew(out, n, link.gen, owe.due[n])
Shown == link.state = "on" => \A n \in Nodes : UpToDate(n)

PromiseInv == DueIsShort /\ HeldIsWaited /\ Shown
ShownInv == WaitInv /\ (Believed => PromiseInv)

LEMMA UpToDateFrom ==
  ASSUME NEW n,
         ~Has(queue', n, link'.gen) =>
           /\ tree'[n].state = "loaded" /\ ~Has(out', n, link'.gen) => tree'[n].seen >= owe'.due[n]
           /\ LastIsNew(out', n, link'.gen, owe'.due[n])
  PROVE  UpToDate(n)'
BY DEF UpToDate

\* Requests come in, an answer for others is read off or none.
LEMMA NodeKept ==
  ASSUME TypeInv, NEW t, Grown(queue, t), link'.gen = link.gen, NEW n \in Nodes,
         \/ out' = out
         \/ out # <<>> /\ out' = Tail(out) /\ ~IsFor(Head(out), n, link.gen),
         owe'.due[n] = owe.due[n],
         tree'[n].state = "loaded" => tree[n].state = "loaded" /\ tree'[n].seen = tree[n].seen,
         UpToDate(n)
  PROVE  UpToDate(n)'
<1>0. PICK g, d : g = link.gen /\ d = owe.due[n]
  OBVIOUS
<1>1. queue \in Seq(Request) /\ out \in Seq(Answer) /\ t \in Seq(Request) /\ queue' = queue \o t
  BY DEF TypeInv, QueuesOK, Grown
<1>2. Has(queue, n, g) => Has(queue', n, g)
  BY <1>1, WithMore
<1>3. /\ Has(out', n, g) <=> Has(out, n, g)
      /\ LastIsNew(out, n, g, d) => LastIsNew(out', n, g, d)
  <2>1. CASE out' = out
    BY <2>1
  <2>2. CASE out # <<>> /\ out' = Tail(out) /\ ~IsFor(Head(out), n, link.gen)
    BY <1>0, <1>1, <2>2, WithoutFirst, TailIsNew
  <2> QED BY <2>1, <2>2
<1>4. ~Has(queue', n, g) =>
           /\ tree'[n].state = "loaded" /\ ~Has(out', n, g) => tree'[n].seen >= d
           /\ LastIsNew(out', n, g, d)
  BY <1>0, <1>2, <1>3 DEF UpToDate
<1> QED BY <1>0, <1>4, UpToDateFrom

\* The user, or a change of his own, has a node asked for quietly.
LEMMA NodeTold ==
  ASSUME WaitInv, link.state = "on", NEW W \in SUBSET Nodes, SoftRefresh(W),
         UNCHANGED <<link, out, tree>>, NEW S, owe'.due = Due(S), S \cap Nodes \subseteq W,
         NEW n \in Nodes, UpToDate(n)
  PROVE  UpToDate(n)'
<1>0. TypeInv /\ queue \in Seq(Request) /\ out \in Seq(Answer)
  BY DEF WaitInv, LoginInv, TypeInv, QueuesOK
<1>1. PICK t : t = AskedAll(Softly(W), FALSE)
  OBVIOUS
<1>2. Grown(queue, t) /\ \A m \in Softly(W) : Has(t, m, link.gen)
  BY <1>0, <1>1, GrownSoft
<1>3. owe'.due[n] = IF n \in S /\ ~TooLate(n) THEN srv'[n] ELSE owe.due[n]
  BY DEF Due
<1>4. CASE n \in S /\ ~TooLate(n) /\ ~Has(queue', n, link.gen)
  <2>1. ~Has(out, n, link.gen)
    BY <1>4 DEF TooLate, Has, IsFor
  <2>2. ~Has(queue, n, link.gen) /\ ~Has(t, n, link.gen)
    BY <1>0, <1>2, <1>4, WithMore DEF Grown
  <2>3. n \in W /\ n \notin Softly(W)
    BY <1>2, <1>4, <2>2
  <2>4. ~One(n)
    BY <2>1, <2>2 DEF One, OneIn
  <2>5. n \notin soft
    BY <2>4 DEF WaitInv, Coming, NodeWaits
  <2>6. tree[n].state # "loaded"
    BY <2>3, <2>5 DEF Softly
  <2>7. LastIsNew(out', n, link'.gen, owe'.due[n])
    BY <2>1, NoneIsNew
  <2> QED BY <2>6, <2>7, UpToDateFrom
<1>5. CASE Has(queue', n, link.gen)
  BY <1>5, UpToDateFrom
<1>6. CASE ~(n \in S /\ ~TooLate(n))
  <2>1. owe'.due[n] = owe.due[n]
    BY <1>3, <1>6
  <2> QED BY <1>0, <1>2, <2>1, NodeKept
<1> QED BY <1>4, <1>5, <1>6

LEMMA ShownFrom ==
  ASSUME \A n \in Nodes : UpToDate(n)'
  PROVE  Shown'
BY DEF Shown

-----------------------------------------------------------------------------
(* The steps.                                                              *)

\* Nothing is read, and nothing promised.
LEMMA QuietShown ==
  ASSUME TypeInv, Shown, NEW t, Grown(queue, t), UNCHANGED <<link, out>>, owe'.due = owe.due,
         \A n \in Nodes : tree'[n].state = "loaded" =>
                            tree[n].state = "loaded" /\ tree'[n].seen = tree[n].seen
  PROVE  Shown'
<1>1. CASE link.state # "on"
  BY <1>1 DEF Shown
<1>2. CASE link.state = "on"
  <2>1. ASSUME NEW n \in Nodes
        PROVE  UpToDate(n)'
    <3>1. UpToDate(n) /\ link'.gen = link.gen
      BY <1>2 DEF Shown
    <3>2. tree'[n].state = "loaded" => tree[n].state = "loaded" /\ tree'[n].seen = tree[n].seen
      OBVIOUS
    <3> QED BY <3>1, <3>2, NodeKept
  <2> QED BY <2>1, ShownFrom
<1> QED BY <1>1, <1>2

\* What the user opens and closes keeps its list, or has none.
LEMMA ViewKeeps ==
  ASSUME TypeInv, \/ \E n \in Nodes : Expand(n) \/ Collapse(n) \/ Timeout(n)
                  \/ \E f \in Folders : OpenBelow(f)
                  \/ OpenSchema \/ Kick,
         NEW m \in Nodes, tree'[m].state = "loaded"
  PROVE  tree[m].state = "loaded" /\ tree'[m].seen = tree[m].seen
<1>0. tree \in [Nodes -> NodeRecord]
  BY DEF TypeInv, TreeOK
<1>1. CASE \E n \in Nodes : Expand(n)
  <2>1. PICK n \in Nodes, st \in {"loaded", "error", "loading"} :
          /\ tree' = [tree EXCEPT ![n].open = TRUE, ![n].state = st]
          /\ st = "loaded" => tree[n].state = "loaded"
    <3>1. PICK n \in Nodes : Expand(n)
      BY <1>1
    <3>2. CASE tree[n].state = "loaded" /\ tree' = [tree EXCEPT ![n].open = TRUE]
      <4>1. [tree[n] EXCEPT !.open = TRUE] = [tree[n] EXCEPT !.open = TRUE, !.state = "loaded"]
        BY <1>0, <3>2 DEF NodeRecord
      <4>2. tree' = [tree EXCEPT ![n].open = TRUE, ![n].state = "loaded"]
        BY <1>0, <3>2, <4>1
      <4> QED BY <3>2, <4>2
    <3> QED BY <3>1, <3>2 DEF Expand
  <2> QED BY <1>0, <2>1 DEF NodeRecord
<1>2. CASE \E n \in Nodes : Collapse(n)
  BY <1>0, <1>2 DEF Collapse, NodeRecord
<1>3. CASE \E n \in Nodes : Timeout(n)
  BY <1>0, <1>3 DEF Timeout, NodeRecord
<1>4. CASE \E f \in Folders : OpenBelow(f)
  BY <1>0, <1>4, NodeNames DEF OpenBelow, NodeRecord
<1>5. CASE OpenSchema
  BY <1>5 DEF OpenSchema, Blank
<1>6. CASE Kick
  BY <1>0, <1>6, NodeNames DEF Kick, NodeRecord
<1> QED BY <1>1, <1>2, <1>3, <1>4, <1>5, <1>6

LEMMA ViewShown ==
  ASSUME WaitInv, Shown,
         \/ \E n \in Nodes : Expand(n) \/ Collapse(n) \/ Timeout(n)
         \/ \E f \in Folders : OpenBelow(f)
         \/ OpenSchema \/ Kick
  PROVE  Shown'
<1>0. TypeInv /\ tree \in [Nodes -> NodeRecord]
  BY DEF WaitInv, LoginInv, TypeInv, TreeOK
<1>1. UNCHANGED <<link, out, owe>>
  BY DEF Expand, Collapse, Timeout, OpenBelow, OpenSchema, Kick, paneVars
<1>2. \E t : Grown(queue, t)
  <2>1. UNCHANGED queue \/ \E n \in Nodes : queue' = Append(queue, Asked(n, TRUE))
    BY NodeNames DEF Expand, Collapse, Timeout, OpenBelow, OpenSchema, Kick
  <2>2. CASE \E n \in Nodes : queue' = Append(queue, Asked(n, TRUE))
    <3>1. PICK n \in Nodes : queue' = Append(queue, Asked(n, TRUE))
      BY <2>2
    <3> QED BY <1>0, <3>1, AskedRequest, GrownAsk
  <2> QED BY <1>0, <2>1, <2>2, GrownSame
<1> QED BY <1>0, <1>1, <1>2, ViewKeeps, QuietShown

LEMMA SwitchShown == ASSUME WaitInv, Shown, SwitchUnit PROVE Shown'
<1>1. TypeInv /\ UNCHANGED <<link, out, tree>> /\ owe \in OweRecord
  BY DEF WaitInv, LoginInv, TypeInv, OweOK, SwitchUnit, paneVars
<1>2. owe'.due = owe.due
  <2>1. UNCHANGED owe \/ owe' = [owe EXCEPT !.unit = unit.session + 1, !.lost = @ \ {"unit"}]
    BY DEF SwitchUnit
  <2> QED BY <1>1, <2>1 DEF OweRecord
<1>3. \E t : Grown(queue, t)
  BY <1>1, SwitchGrows
<1> QED BY <1>1, <1>2, <1>3, QuietShown

LEMMA PollShown == ASSUME WaitInv, Shown, Poll PROVE Shown'
<1>1. TypeInv /\ UNCHANGED <<link, out, tree, owe>> /\ link.gen \in Nat
  BY DEF WaitInv, LoginInv, TypeInv, OtherOK, LinkRecord, Poll
<1>2. PICK r : r = Asks("marks", Gone, link.gen)
  OBVIOUS
<1>3. r \in Request /\ r.kind = "marks" /\ r.gen = link.gen
  BY <1>1, <1>2, AsksType, TypeInvImplies
<1>4. queue' = Append(queue, r)
  BY <1>2 DEF Poll
<1>5. Grown(queue, <<r>>)
  BY <1>1, <1>3, <1>4, GrownAsk
<1> QED BY <1>1, <1>5, QuietShown

LEMMA ServerShown == ASSUME WaitInv, DueIsShort, HeldIsWaited, Shown, Server PROVE Shown'
<1>0. /\ TypeInv /\ owe \in OweRecord /\ run \in RunRecord /\ UNCHANGED <<link, out, tree>>
  BY DEF WaitInv, LoginInv, TypeInv, OweOK, OtherOK, Server, Ddl, Elsewhere, RunEnds, Commit,
         Rollback, paneVars
<1>1. CASE Rollback \/ \E n \in Nodes : Ddl(n) \/ Elsewhere(n)
  <2>1. UNCHANGED queue /\ (UNCHANGED owe \/ \E o : owe' = [owe EXCEPT !.owed = o])
    BY <1>1 DEF Rollback, Ddl, Elsewhere
  <2>2. owe'.due = owe.due
    BY <1>0, <2>1 DEF OweRecord
  <2> QED BY <1>0, <2>1, <2>2, GrownSame, QuietShown
<1>2. CASE RunEnds \/ Commit
  <2>1. PICK S, W : /\ SoftRefresh(W) /\ owe'.due = Due(S) /\ S \cap Nodes \subseteq W
                    /\ W \in SUBSET Nodes
    <3>1. CASE RunEnds
      BY <1>0, <3>1 DEF RunEnds, OweRecord, RunRecord
    <3>2. CASE Commit
      <4>1. owe'.due = Due(run.held)
        BY <1>0, <3>2 DEF Commit, OweRecord
      <4> QED BY <1>0, <3>2, <4>1 DEF Commit, RunRecord, HeldIsWaited
    <3> QED BY <1>2, <3>1, <3>2
  <2>2. CASE link.state # "on"
    BY <1>0, <2>2 DEF Shown
  <2>3. CASE link.state = "on"
    <3>1. ASSUME NEW n \in Nodes PROVE UpToDate(n)'
      <4>1. UpToDate(n)
        BY <2>3 DEF Shown
      <4> QED BY <1>0, <2>1, <2>3, <4>1, NodeTold
    <3> QED BY <3>1, ShownFrom
  <2> QED BY <2>2, <2>3
<1> QED BY <1>1, <1>2 DEF Server

\* The root or a folder is read anew.
LEMMA RereadShown ==
  ASSUME WaitInv, Shown, NEW n \in Nodes, Reread(n), UNCHANGED link
  PROVE  Shown'
<1>0. /\ TypeInv /\ queue \in Seq(Request) /\ out \in Seq(Answer) /\ owe \in OweRecord
      /\ tree \in [Nodes -> NodeRecord] /\ link.state = "on"
  BY DEF WaitInv, LoginInv, TypeInv, QueuesOK, OweOK, TreeOK, Reread
<1>1. owe'.due = Due({n})
  BY <1>0 DEF Reread, OweRecord
<1>2. PICK r : r = Asked(n, TRUE)
  OBVIOUS
<1>3. r \in Request /\ r.kind # "open" /\ r.gen = link.gen /\ IsFor(r, n, link.gen)
  BY <1>0, <1>2, AskedRequest
<1>4. PICK b : b = Kept(n)
  OBVIOUS
<1>5. /\ b \in {queue, Orphaned(queue)} /\ b \in Seq(Request)
      /\ Has(queue, n, link.gen) => Has(b, n, link.gen)
  <2>1. CASE n = Root
    BY <1>0, <1>4, <2>1, RootOrphaned, OrphanedProperties DEF Kept
  <2>2. CASE n # Root
    BY <1>0, <1>4, <2>2 DEF Kept
  <2> QED BY <2>1, <2>2
<1>6. ToSet(queue') = IF tree[n].open THEN ToSet(b) \cup {r} ELSE ToSet(b)
  <2>1. queue' = IF tree[n].open THEN Append(b, r) ELSE b
    BY <1>2, <1>4 DEF Reread
  <2>2. ToSet(Append(b, r)) = ToSet(b) \cup {r}
    BY <1>3, <1>5, ToSetAppend
  <2> QED BY <2>1, <2>2
<1>7. UpToDate(n)'
  <2>1. CASE Has(queue', n, link.gen)
    BY <2>1, UpToDateFrom
  <2>2. CASE ~Has(queue', n, link.gen)
    <3>1. ~tree[n].open /\ ~Has(b, n, link.gen)
      BY <1>3, <1>6, <2>2 DEF Has
    <3>2. tree'[n].state # "loaded"
      BY <1>0, <3>1, NodeNames DEF Reread, Bared, Bare, Blank, NodeRecord
    <3>3. LastIsNew(out', n, link.gen, owe'.due[n])
      <4>1. CASE Has(out, n, link.gen)
        <5>1. TooLate(n)
          BY <2>2, <4>1 DEF TooLate, Has, IsFor
        <5>2. owe'.due[n] = owe.due[n]
          BY <1>1, <5>1 DEF Due
        <5>3. LastIsNew(out, n, link.gen, owe.due[n])
          BY <1>0, <1>5, <3>1 DEF Shown, UpToDate
        <5>4. out' = IF n = Root THEN Orphaned(out) ELSE out
          BY DEF Reread, Clears
        <5> QED BY <1>0, <5>2, <5>3, <5>4, RootIsNew
      <4>2. CASE ~Has(out, n, link.gen)
        <5>1. ~Has(out', n, link.gen)
          <6>1. CASE n = Root
            BY <1>0, <4>2, <6>1, RootOrphaned DEF Reread, Clears
          <6>2. CASE n # Root
            BY <4>2, <6>2 DEF Reread, Clears
          <6> QED BY <6>1, <6>2
        <5> QED BY <5>1, NoneIsNew
      <4> QED BY <4>1, <4>2
    <3> QED BY <3>2, <3>3, UpToDateFrom
  <2> QED BY <2>1, <2>2
<1>8. ASSUME NEW m \in Nodes, m # n
      PROVE  UpToDate(m)'
  <2>1. owe'.due[m] = owe.due[m] /\ UpToDate(m)
    BY <1>0, <1>1, <1>8 DEF Due, Shown
  <2>2. CASE n = Root
    <3>1. m \in Folders /\ tree'[m].state # "loaded" /\ out' = Orphaned(out)
      BY <1>8, <2>2, NodeNames DEF Reread, Bared, Bare, Blank, Clears
    <3>2. ~Has(out', m, link.gen)
      BY <1>0, <3>1, FoldersGo
    <3>3. LastIsNew(out', m, link.gen, owe'.due[m])
      BY <3>2, NoneIsNew
    <3> QED BY <3>1, <3>3, UpToDateFrom
  <2>3. CASE n # Root
    <3>1. tree'[m] = tree[m] /\ out' = out /\ b = queue
      BY <1>0, <1>4, <1>8, <2>3 DEF Reread, Bared, Clears, Kept
    <3>2. \E t : Grown(queue, t)
      <4>1. UNCHANGED queue \/ queue' = Append(queue, r)
        BY <1>2, <1>4, <3>1 DEF Reread
      <4> QED BY <1>0, <1>3, <4>1, GrownSame, GrownAsk
    <3> QED BY <1>0, <2>1, <3>1, <3>2, NodeKept
  <2> QED BY <2>2, <2>3
<1> QED BY <1>7, <1>8, ShownFrom

LEMMA RefreshShown ==
  ASSUME WaitInv, Shown, \/ \E n \in Nodes, hard \in BOOLEAN : Refresh(n, hard)
                         \/ \E f \in Folders : NoteMissing(f)
  PROVE  Shown'
<1>1. PICK n \in Nodes : /\ Reread(n) \/ Freshen(n) \/ Disowned(n)
                         /\ UNCHANGED link
  BY NodeNames DEF Refresh, NoteMissing
<1>2. CASE Reread(n)
  BY <1>1, <1>2, RereadShown
<1>3. CASE Freshen(n)
  <2>1. PICK S \in SUBSET Nodes : SoftRefresh(S) /\ owe' = [owe EXCEPT !.due = Due(S)]
    BY <1>3 DEF Freshen
  <2>2. /\ owe \in OweRecord /\ link.state = "on" /\ UNCHANGED <<out, tree>>
        /\ owe'.due = Due(S) /\ S \cap Nodes \subseteq S
    BY <1>3, <2>1 DEF WaitInv, LoginInv, TypeInv, OweOK, OweRecord, Freshen
  <2>3. ASSUME NEW m \in Nodes PROVE UpToDate(m)'
    <3>1. UpToDate(m)
      BY <2>2 DEF Shown
    <3> QED BY <1>1, <2>1, <2>2, <3>1, NodeTold
  <2> QED BY <2>3, ShownFrom
<1>4. CASE Disowned(n)
  BY <1>1, <1>4 DEF Disowned, Shown
<1> QED BY <1>1, <1>2, <1>3, <1>4

\* The answer to the last request for a node is as new as the server.
LEMMA ServeShown == ASSUME WaitInv, DueIsShort, Shown, Serve PROVE Shown'
<1>0. /\ UNCHANGED <<link, tree>> /\ LoginInv /\ TypeInv
      /\ owe \in OweRecord /\ out \in Seq(Answer) /\ queue \in Seq(Request) /\ srv \in Versions
  BY DEF Serve, WaitInv, LoginInv, TypeInv, OweOK, QueuesOK, OtherOK
<1> SUFFICES ASSUME link.state = "on"
             PROVE  Shown'
  BY <1>0 DEF Shown
<1>1. PICK k : k = Pick
  OBVIOUS
<1>2. PICK r : r = queue[k]
  OBVIOUS
<1>3. /\ queue # <<>> /\ queue' = RemoveAt(queue, k)
      /\ \/ (Uses(r) \/ (Overtaken(r) /\ UNCHANGED thread)) /\ UNCHANGED <<out, owe>>
         \/ /\ Opens(r) \/ Reads(r)
            /\ \E ok \in BOOLEAN : out' = Append(out, Answered(r, ok))
            /\ UNCHANGED owe \/ owe' = [owe EXCEPT !.lost = @ \cup {"unit"}]
  BY <1>1, <1>2 DEF Serve
<1>4. k \in DOMAIN queue /\ r \in Request
  BY <1>0, <1>1, <1>2, <1>3, Taken
<1>5. r.kind # "open" => thread.gen = link.gen
  BY <1>0, <1>1, <1>2, <1>3, TakenInTurn DEF IsOpen
<1>6. owe'.due = owe.due
  BY <1>0, <1>3 DEF OweRecord
<1>7. ASSUME NEW n \in Nodes
      PROVE  UpToDate(n)'
  <2>1. UpToDate(n) /\ owe.due[n] <= srv[n] /\ owe.due[n] \in Nat /\ srv[n] \in Nat
    BY <1>0 DEF Shown, DueIsShort, OweRecord, Versions
  <2>2. Has(queue, n, link.gen) <=> Has(queue', n, link.gen) \/ IsFor(r, n, link.gen)
    BY <1>0, <1>2, <1>3, <1>4, WithoutOne
  <2>3. CASE out' = out /\ ~IsFor(r, n, link.gen)
    BY <1>0, <1>6, <2>1, <2>2, <2>3 DEF UpToDate
  <2>4. ASSUME NEW a \in Answer, out' = Append(out, a),
               a.kind = r.kind, a.node = r.node, a.gen = r.gen,
               IsFor(r, n, link.gen) => a.at[n] = srv[n]
        PROVE  UpToDate(n)'
    <3>1. ToSet(out') = ToSet(out) \cup {a}
      BY <1>0, <2>4, ToSetAppend
    <3>2. CASE IsFor(r, n, link.gen)
      <4>1. IsFor(a, n, link.gen) /\ Has(out', n, link.gen)
        BY <2>4, <3>1, <3>2 DEF IsFor, Has
      <4>2. LastIsNew(out', n, link.gen, owe.due[n])
        BY <1>0, <2>1, <2>4, <3>2, <4>1, AppendIsNew
      <4> QED BY <1>0, <1>6, <4>1, <4>2, UpToDateFrom
    <3>3. CASE ~IsFor(r, n, link.gen)
      <4>1. ~IsFor(a, n, link.gen) /\ (Has(out', n, link.gen) <=> Has(out, n, link.gen))
        BY <2>4, <3>1, <3>3 DEF IsFor, Has
      <4>2. LastIsNew(out, n, link.gen, owe.due[n]) => LastIsNew(out', n, link.gen, owe.due[n])
        BY <1>0, <2>4, <4>1, AppendIsNew
      <4> QED BY <1>0, <1>6, <2>1, <2>2, <3>3, <4>1, <4>2 DEF UpToDate
    <3> QED BY <3>2, <3>3
  <2>5. CASE (Uses(r) \/ (Overtaken(r) /\ UNCHANGED thread)) /\ UNCHANGED <<out, owe>>
    BY <1>5, <2>3, <2>5 DEF Uses, Overtaken, IsFor
  <2>6. CASE /\ Opens(r) \/ Reads(r)
             /\ \E ok \in BOOLEAN : out' = Append(out, Answered(r, ok))
    <3>1. PICK ok \in BOOLEAN : out' = Append(out, Answered(r, ok))
      BY <2>6
    <3>2. r.kind \in {"open", "list", "marks"}
      BY <2>6 DEF Opens, Reads
    <3>3. PICK a : a = Answered(r, ok)
      OBVIOUS
    <3>4. /\ a \in Answer /\ a.kind = r.kind /\ a.node = r.node /\ a.gen = r.gen
          /\ IsFor(r, n, link.gen) => a.at[n] = srv[n]
      BY <1>0, <1>4, <3>2, <3>3, AnsweredType DEF IsFor
    <3> QED BY <2>4, <3>1, <3>3, <3>4
  <2> QED BY <1>3, <2>5, <2>6
<1> QED BY <1>7, ShownFrom

\* An answer that is not a list of a node of this generation.
LEMMA OtherDrainedShown ==
  ASSUME WaitInv, Shown, link.state = "on", out # <<>>, NEW a, a = Head(out),
         Dropped(a) \/ Opened(a) \/ Marked(a)
  PROVE  Shown'
<1>0. /\ TypeInv /\ owe \in OweRecord /\ link \in LinkRecord /\ tree \in [Nodes -> NodeRecord]
  BY DEF WaitInv, LoginInv, TypeInv, OweOK, OtherOK, TreeOK
<1>1. out' = Tail(out) /\ \A n \in Nodes : ~IsFor(a, n, link.gen)
  BY NodeNames DEF Dropped, Opened, Marked, IsFor
<1>2. link'.gen = link.gen /\ owe'.due = owe.due
  <2>1. \/ UNCHANGED link
        \/ link' = [link EXCEPT !.known = TRUE, !.rebinding = FALSE]
        \/ link' = [link EXCEPT !.known = TRUE, !.expandable = TRUE]
    BY DEF Dropped, Opened, Marked
  <2>2. UNCHANGED owe \/ owe' = [owe EXCEPT !.lost = @ \cup {"open"}]
    BY DEF Dropped, Opened, Marked
  <2>3. link'.gen = link.gen
    BY <1>0, <2>1 DEF LinkRecord
  <2>4. owe'.due = owe.due
    BY <1>0, <2>2 DEF OweRecord
  <2> QED BY <2>3, <2>4
<1>3. \E t : Grown(queue, t)
  <2>1. CASE UNCHANGED queue
    BY <1>0, <2>1, GrownSame
  <2>2. CASE queue' = Append(queue, Asked(Root, TRUE))
    BY <1>0, <2>2, NodeNames, AskedRequest, GrownAsk
  <2>3. CASE \E S \in SUBSET Nodes : SoftRefresh(S)
    BY <1>0, <2>3, GrownSoft
  <2> QED BY <2>1, <2>2, <2>3, NodeNames DEF Dropped, Opened, Marked
<1>4. ASSUME NEW n \in Nodes, tree'[n].state = "loaded"
      PROVE  tree[n].state = "loaded" /\ tree'[n].seen = tree[n].seen
  <2>1. \/ tree' = tree
        \/ \E st \in {"error"} : tree' = [tree EXCEPT ![Root].state = st]
        \/ \E st \in {"idle", "loading"}, o \in BOOLEAN :
             tree' = [tree EXCEPT ![Root].state = st, ![Root].open = o]
    BY DEF Dropped, Opened, Marked
  <2> QED BY <1>0, <1>4, <2>1, NodeNames DEF NodeRecord
<1>5. ASSUME NEW n \in Nodes
      PROVE  UpToDate(n)'
  <2>1. UpToDate(n) /\ ~IsFor(a, n, link.gen)
    BY <1>1 DEF Shown
  <2>2. tree'[n].state = "loaded" => tree[n].state = "loaded" /\ tree'[n].seen = tree[n].seen
    BY <1>4
  <2> QED BY <1>0, <1>1, <1>2, <1>3, <2>1, <2>2, NodeKept
<1> QED BY <1>5, ShownFrom

LEMMA RootReplacedShown ==
  ASSUME WaitInv, Shown, link.state = "on", out # <<>>, NEW a, a = Head(out), Listed(a),
         a.node = Root, a.ok, ~Merged(Root)
  PROVE  Shown'
<1>1. /\ TypeInv /\ queue \in Seq(Request) /\ out \in Seq(Answer) /\ Tail(out) \in Seq(Answer)
      /\ ~again /\ Replaces(a, Root) /\ UNCHANGED <<link, owe>> /\ a.kind = "list"
      /\ a.gen = link.gen /\ UpToDate(Root)
  <2>1. ~again
    BY DEF WaitInv, Coming, AgainWaits, Merged
  <2>2. TypeInv /\ queue \in Seq(Request) /\ out \in Seq(Answer)
    BY DEF WaitInv, LoginInv, TypeInv, QueuesOK
  <2>3. Tail(out) \in Seq(Answer) /\ UpToDate(Root)
    BY <2>2, Drained, NodeNames DEF Shown
  <2> QED BY <2>1, <2>2, <2>3 DEF Listed, Merges, Fails
<1>2. queue' = Orphaned(queue) /\ out' = Orphaned(Tail(out))
  BY <1>1 DEF Listed, Kept, OnceMore, Replaces
<1>3. /\ tree'[Root].seen = a.at[Root]
      /\ \A m \in Nodes : m # Root => tree'[m].state # "loaded"
  BY <1>1, NodeNames DEF Replaces, Blank
<1>4. UpToDate(Root)'
  <2>1. CASE Has(queue', Root, link.gen)
    BY <1>1, <2>1, UpToDateFrom
  <2>2. CASE ~Has(queue', Root, link.gen)
    <3>1. LastIsNew(out, Root, link.gen, owe.due[Root])
      BY <1>1, <1>2, <2>2, RootOrphaned DEF UpToDate
    <3>2. IsFor(a, Root, link.gen)
      BY <1>1 DEF IsFor
    <3>3. LastIsNew(out', Root, link.gen, owe.due[Root])
      BY <1>1, <1>2, <3>1, TailIsNew, RootIsNew
    <3>4. ~Has(out', Root, link.gen) => ~Has(Tail(out), Root, link.gen)
      BY <1>1, <1>2, RootOrphaned
    <3>5. ~Has(out', Root, link.gen) => a.at[Root] >= owe.due[Root]
      BY <1>1, <3>1, <3>2, <3>4, TailIsNew
    <3> QED BY <1>1, <1>3, <3>3, <3>5, UpToDateFrom
  <2> QED BY <2>1, <2>2
<1>5. ASSUME NEW m \in Nodes, m # Root
      PROVE  UpToDate(m)'
  <2>1. m \in Folders /\ tree'[m].state # "loaded"
    BY <1>3, <1>5, NodeNames
  <2>2. ~Has(out', m, link'.gen)
    BY <1>1, <1>2, <2>1, FoldersGo
  <2>3. LastIsNew(out', m, link'.gen, owe'.due[m])
    BY <2>2, NoneIsNew
  <2> QED BY <2>1, <2>3, UpToDateFrom
<1> QED BY <1>4, <1>5, ShownFrom

LEMMA NodeListedShown ==
  ASSUME WaitInv, Shown, link.state = "on", out # <<>>, NEW a, a = Head(out), Listed(a),
         ~(a.node = Root /\ a.ok /\ ~Merged(Root))
  PROVE  Shown'
<1>1. PICK n : n = a.node
  OBVIOUS
<1>2. /\ TypeInv /\ UNCHANGED <<link, marks>> /\ a.kind = "list" /\ a.gen = link.gen
      /\ n \in Nodes /\ tree \in [Nodes -> NodeRecord] /\ out \in Seq(Answer)
      /\ queue \in Seq(Request) /\ owe \in OweRecord
      /\ Merges(a, n) \/ Replaces(a, n) \/ Fails(a, n)
  BY <1>1, Drained, NodeNames
  DEF WaitInv, LoginInv, TypeInv, TreeOK, QueuesOK, OweOK, Listed, Answer
<1>3. queue' = IF OnceMore(n) THEN Append(queue, Asked(Root, FALSE)) ELSE queue
  BY <1>1 DEF Listed
<1>4. out' = Tail(out)
  BY <1>1, <1>2 DEF Merges, Replaces, Fails
<1>5. /\ \A m \in Nodes : m # n => owe'.due[m] = owe.due[m] /\ tree'[m] = tree[m]
      /\ a.ok => owe' = owe /\ tree'[n].seen = a.at[n]
      /\ ~a.ok => owe'.due[n] = 0
  <2>1. /\ Forgiven({n}) \in OweRecord
        /\ \A m \in Nodes : Forgiven({n}).due[m] = IF m \in {n} THEN 0 ELSE owe.due[m]
    BY <1>2, ForgivenType
  <2>2. owe' = IF a.ok THEN owe ELSE [Forgiven({n}) EXCEPT !.unit = IF n = Root THEN 0 ELSE @]
    BY <1>1 DEF Listed
  <2>3. owe'.due = IF a.ok THEN owe.due ELSE Forgiven({n}).due
    BY <2>1, <2>2 DEF OweRecord
  <2>4. /\ \A m \in Nodes : m # n => tree'[m] = tree[m]
        /\ a.ok => tree'[n].seen = a.at[n]
    <3>1. CASE Merges(a, n)
      BY <1>2, <3>1 DEF Merges, NodeRecord
    <3>2. CASE Replaces(a, n) /\ n # Root
      BY <1>2, <3>2 DEF Replaces, Blank
    <3>3. CASE Fails(a, n)
      BY <1>2, <3>3 DEF Fails
    <3> QED BY <1>1, <1>2, <3>1, <3>2, <3>3 DEF Replaces
  <2> QED BY <1>2, <2>1, <2>2, <2>3, <2>4
<1>6. \E t : Grown(queue, t)
  <2>1. CASE UNCHANGED queue
    BY <1>2, <2>1, GrownSame
  <2>2. CASE queue' = Append(queue, Asked(Root, FALSE))
    BY <1>2, <2>2, NodeNames, AskedRequest, GrownAsk
  <2> QED BY <1>3, <2>1, <2>2
<1>7. ASSUME NEW m \in Nodes, m # n
      PROVE  UpToDate(m)'
  <2>1. UpToDate(m) /\ ~IsFor(a, m, link.gen)
    BY <1>1, <1>7 DEF Shown, IsFor
  <2>2. owe'.due[m] = owe.due[m] /\ tree'[m] = tree[m]
    BY <1>5, <1>7
  <2> QED BY <1>2, <1>4, <1>6, <2>1, <2>2, NodeKept
<1>8. UpToDate(n)'
  <2>1. CASE a.ok
    <3>1. CASE Has(queue', n, link.gen)
      BY <1>2, <3>1, UpToDateFrom
    <3>2. CASE ~Has(queue', n, link.gen)
      <4>1. ~Has(queue, n, link.gen)
        BY <1>2, <1>6, <3>2, WithMore DEF Grown
      <4>2. LastIsNew(out, n, link.gen, owe.due[n])
        BY <1>2, <4>1 DEF Shown, UpToDate
      <4>3. IsFor(a, n, link.gen)
        BY <1>1, <1>2 DEF IsFor
      <4>4. LastIsNew(out', n, link.gen, owe.due[n])
        BY <1>2, <1>4, <4>2, TailIsNew
      <4>5. ~Has(out', n, link.gen) => a.at[n] >= owe.due[n]
        BY <1>2, <1>4, <2>1, <4>2, <4>3, TailIsNew
      <4> QED BY <1>2, <1>5, <2>1, <4>4, <4>5, UpToDateFrom
    <3> QED BY <3>1, <3>2
  <2>2. CASE ~a.ok
    <3>1. tree'[n].seen \in Nat
      <4>1. tree' = tree \/ tree' = [tree EXCEPT ![n].state = "error", ![n].open = TRUE]
        BY <1>2, <2>2 DEF Merges, Replaces, Fails
      <4>2. tree'[n].seen = tree[n].seen
        BY <1>2, <4>1 DEF NodeRecord
      <4> QED BY <1>2, <4>2 DEF NodeRecord
    <3>2. \A i \in DOMAIN out' : out'[i].at[n] \in Nat
      <4>1. out' \in Seq(Answer)
        BY <1>2, <1>4, Drained
      <4>2. \A i \in DOMAIN out' : out'[i] \in Answer
        BY <4>1, ElementOfSeq, LenProperties
      <4> QED BY <1>2, <4>2 DEF Answer, Versions
    <3>3. LastIsNew(out', n, link.gen, owe'.due[n])
      BY <1>5, <2>2, <3>2 DEF LastIsNew
    <3> QED BY <1>2, <1>5, <2>2, <3>1, <3>3, UpToDateFrom
  <2> QED BY <2>1, <2>2
<1> QED BY <1>7, <1>8, ShownFrom

LEMMA DrainShown == ASSUME WaitInv, Shown, Drain PROVE Shown'
<1>1. PICK a : a = Head(out) /\ (Dropped(a) \/ Opened(a) \/ Listed(a) \/ Marked(a))
  BY DEF Drain
<1>2. out # <<>>
  BY DEF Drain
<1>3. CASE link.state # "on"
  <2>1. link'.state = link.state
    BY OthersGrow DEF WaitInv, LoginInv
  <2> QED BY <1>3, <2>1 DEF Shown
<1>4. CASE link.state = "on"
  BY <1>1, <1>2, <1>4, OtherDrainedShown, RootReplacedShown, NodeListedShown
<1> QED BY <1>3, <1>4

\* Nothing on its way is of the generation to come.
LEMMA NoneOfNext ==
  ASSUME TypeInv, Connect \/ Rebind, NEW n
  PROVE  ~Has(out', n, link'.gen)
<1>1. /\ link'.gen = link.gen + 1 /\ link.gen \in Nat /\ out' = out
  BY LinkMoves DEF TypeInv, OtherOK, Connect, Rebind
<1>2. \A a \in ToSet(out) : a.gen <= link.gen /\ a.gen \in Nat
  <2>1. out \in Seq(Answer) /\ \A a \in ToSet(out) : Fits(a)
    BY DEF TypeInv, QueuesOK
  <2>2. \A a \in ToSet(out) : a \in Answer
    BY <2>1, ElementOfSeq, LenProperties DEF ToSet
  <2> QED BY <2>1, <2>2 DEF Fits, Answer
<1> QED BY <1>1, <1>2 DEF Has, IsFor

LEMMA RebindShown == ASSUME WaitInv, Shown, Rebind PROVE Shown'
<1>0. /\ TypeInv /\ owe \in OweRecord /\ tree \in [Nodes -> NodeRecord] /\ link.state = "on"
  BY DEF WaitInv, LoginInv, TypeInv, OweOK, TreeOK, Rebind
<1>1. PICK S : /\ { n \in Nodes : n \in soft \/ Awaited(n) # {} } \subseteq S
               /\ \E u, l : owe' = [Forgiven(S) EXCEPT !.unit = u, !.lost = l]
  BY DEF Rebind
<1>2. \A n \in Nodes : owe'.due[n] = IF n \in S THEN 0 ELSE owe.due[n]
  <2>1. /\ Forgiven(S) \in OweRecord
        /\ \A n \in Nodes : Forgiven(S).due[n] = IF n \in S THEN 0 ELSE owe.due[n]
    BY <1>0, ForgivenType
  <2>2. owe'.due = Forgiven(S).due
    BY <1>1, <2>1 DEF OweRecord
  <2> QED BY <2>1, <2>2
<1>3. ASSUME NEW n \in Nodes
      PROVE  UpToDate(n)'
  <2>1. LastIsNew(out', n, link'.gen, owe'.due[n])
    BY <1>0, NoneOfNext, NoneIsNew
  <2>2. /\ tree'[n].seen = tree[n].seen /\ tree[n].seen \in Nat
        /\ tree'[n].state = "loaded" => tree[n].state = "loaded"
    BY <1>0 DEF Rebind, Stopped, NodeRecord
  <2>3. tree'[n].state = "loaded" => tree'[n].seen >= owe'.due[n]
    <3>1. CASE n \in S
      BY <1>2, <2>2, <3>1
    <3>2. CASE n \notin S
      <4>1. ~One(n)
        BY <1>1, <3>2, AwaitedIsOne
      <4>2. UpToDate(n) /\ ~Has(queue, n, link.gen) /\ ~Has(out, n, link.gen)
        BY <1>0, <4>1 DEF Shown, One, OneIn
      <4> QED BY <1>2, <2>2, <3>2, <4>2 DEF UpToDate
    <3> QED BY <3>1, <3>2
  <2> QED BY <2>1, <2>3, UpToDateFrom
<1> QED BY <1>3, ShownFrom

LEMMA ConnectionShown == ASSUME WaitInv, Shown, Connection PROVE Shown'
<1>0. TypeInv /\ link \in LinkRecord
  BY DEF WaitInv, LoginInv, TypeInv, OtherOK
<1>1. CASE Connect
  <2>1. ASSUME NEW n \in Nodes
        PROVE  UpToDate(n)'
    <3>1. tree'[n].state # "loaded"
      BY <1>1 DEF Connect, Bare, Blank
    <3>2. LastIsNew(out', n, link'.gen, owe'.due[n])
      BY <1>0, <1>1, NoneOfNext, NoneIsNew
    <3> QED BY <3>1, <3>2, UpToDateFrom
  <2> QED BY <2>1, ShownFrom
<1>2. CASE GoOffline \/ RemovePane
  <2>1. CASE GoOffline
    BY <1>0, <2>1 DEF GoOffline, LinkRecord, Shown
  <2>2. CASE RemovePane
    BY <2>2 DEF RemovePane, Shown
  <2> QED BY <1>2, <2>1, <2>2
<1> QED BY <1>1, <1>2, RebindShown DEF Connection

-----------------------------------------------------------------------------
(* What is promised is on the server, and what the server holds back has   *)
(* been collected.                                                         *)

\* Nothing more is promised, or for some nodes what is on the server now, and the
\* lists on the server only go up.
LEMMA DueIn ==
  ASSUME TypeInv, DueIsShort, srv' \in Versions, \A n \in Nodes : srv'[n] >= srv[n],
         \A n \in Nodes : owe'.due[n] \in {0, owe.due[n], srv'[n]}
  PROVE  DueIsShort'
<1>1. /\ \A n \in Nodes : owe.due[n] \in Nat /\ srv[n] \in Nat /\ srv'[n] \in Nat
  BY DEF TypeInv, OweOK, OtherOK, OweRecord, Versions
<1> QED BY <1>1 DEF DueIsShort

LEMMA ServerUp ==
  ASSUME TypeInv, [Next]_vars
  PROVE  srv' \in Versions /\ \A n \in Nodes : srv'[n] >= srv[n]
<1>1. srv \in Versions /\ \A n \in Nodes : srv[n] \in Nat
  BY DEF TypeInv, OtherOK, Versions
<1>2. CASE UNCHANGED srv
  BY <1>1, <1>2
<1>3. CASE \E S : Bump(S)
  BY <1>3, BumpUp
<1>4. UNCHANGED srv \/ \E S : Bump(S)
  <2>1. CASE Connection
    BY <2>1 DEF Connection, Connect, Rebind, GoOffline, RemovePane, ownVars
  <2>2. CASE User
    BY <2>2 DEF User, Expand, Collapse, Timeout, Refresh, OpenBelow, NoteMissing, OpenSchema,
                SwitchUnit, Kick, ownVars
  <2>3. CASE Server
    BY <2>3 DEF Server, Ddl, Elsewhere, RunEnds, Commit, Rollback
  <2>4. CASE Serve \/ Drain \/ Poll \/ UNCHANGED vars
    BY <2>4 DEF Serve, Drain, Poll, vars, ownVars
  <2> QED BY <2>1, <2>2, <2>3, <2>4 DEF Next
<1> QED BY <1>2, <1>3, <1>4

LEMMA DueMoves ==
  ASSUME TypeInv, [Next]_vars
  PROVE  \A n \in Nodes : owe'.due[n] \in {0, owe.due[n], srv'[n]}
<1>0. owe \in OweRecord
  BY DEF TypeInv, OweOK
<1>1. \A S : \A n \in Nodes : Due(S)[n] \in {owe.due[n], srv'[n]}
  BY DEF Due
<1>2. \A S : /\ Forgiven(S) \in OweRecord
             /\ \A n \in Nodes : Forgiven(S).due[n] \in {0, owe.due[n]}
  BY ForgivenType
<1>3. CASE UNCHANGED owe \/ owe' = Nothing
  BY <1>3 DEF Nothing
<1>4. CASE \E u, l, o : owe' \in { [owe EXCEPT !.unit = u, !.lost = l], [owe EXCEPT !.lost = l],
                                    [owe EXCEPT !.owed = o] }
  BY <1>0, <1>4 DEF OweRecord
<1>5. CASE \E S, o : owe' \in { [owe EXCEPT !.due = Due(S)],
                                 [owe EXCEPT !.due = Due(S), !.owed = o] }
  <2>1. PICK S : owe'.due = Due(S)
    BY <1>0, <1>5 DEF OweRecord
  <2> QED BY <1>1, <2>1
<1>6. CASE \E S, u, l : owe' \in { [Forgiven(S) EXCEPT !.unit = u],
                                    [Forgiven(S) EXCEPT !.unit = u, !.lost = l] }
  <2>1. PICK S : owe'.due = Forgiven(S).due
    BY <1>2, <1>6 DEF OweRecord
  <2> QED BY <1>2, <2>1
<1>7. CASE Connection
  <2>1. CASE Rebind
    <3>1. \E S, u, l : owe' = [Forgiven(S) EXCEPT !.unit = u, !.lost = l]
      BY <2>1 DEF Rebind
    <3> QED BY <1>6, <3>1
  <2>2. CASE Connect \/ GoOffline \/ RemovePane
    BY <1>3, <2>2 DEF Connect, GoOffline, RemovePane
  <2> QED BY <1>7, <2>1, <2>2 DEF Connection
<1>8. CASE User
  <2>1. CASE \E n \in Nodes : Reread(n) \/ Freshen(n) \/ Disowned(n)
    BY <1>3, <1>5, <2>1 DEF Reread, Freshen, Disowned
  <2>2. CASE SwitchUnit
    BY <1>3, <1>4, <2>2 DEF SwitchUnit
  <2>3. CASE UNCHANGED owe
    BY <1>3, <2>3
  <2> QED BY <1>8, <2>1, <2>2, <2>3, NodeNames
          DEF User, Expand, Collapse, Timeout, Refresh, OpenBelow, NoteMissing, OpenSchema, Kick
<1>9. CASE Server
  BY <1>3, <1>4, <1>5, <1>9 DEF Server, Ddl, Elsewhere, RunEnds, Commit, Rollback
<1>10. CASE Drain
  <2>1. PICK a : Dropped(a) \/ Opened(a) \/ Listed(a) \/ Marked(a)
    BY <1>10 DEF Drain
  <2>2. CASE Listed(a)
    BY <1>3, <1>6, <2>2 DEF Listed
  <2>3. CASE Dropped(a) \/ Opened(a) \/ Marked(a)
    BY <1>3, <1>4, <2>3 DEF Dropped, Opened, Marked
  <2> QED BY <2>1, <2>2, <2>3
<1>11. CASE Serve \/ Poll \/ UNCHANGED vars
  BY <1>3, <1>4, <1>11 DEF Serve, Poll, vars
<1> QED BY <1>7, <1>8, <1>9, <1>10, <1>11 DEF Next

\* What is held back on the server is collected by the host, if it knows of it.
LEMMA HeldStep ==
  ASSUME TypeInv, HeldIsWaited, Believed, [Next]_vars
  PROVE  HeldIsWaited'
<1>0. run \in RunRecord
  BY DEF TypeInv, OtherOK
<1>1. CASE UNCHANGED run
  BY <1>1 DEF HeldIsWaited
<1>2. CASE \E n \in Nodes : Ddl(n)
  BY <1>0, <1>2 DEF Ddl, Collected, RunRecord, HeldIsWaited, Believed
<1>3. CASE RunEnds \/ Commit \/ Rollback
  BY <1>0, <1>3 DEF RunEnds, Commit, Rollback, RunRecord, HeldIsWaited
<1>4. CASE GoOffline
  BY <1>4 DEF GoOffline, NoRun, HeldIsWaited
<1>5. CASE Connect \/ Rebind \/ RemovePane
  BY <1>1, <1>5 DEF Connect, Rebind, RemovePane, ownVars
<1>6. CASE User
  BY <1>1, <1>6 DEF User, Expand, Collapse, Timeout, Refresh, OpenBelow, NoteMissing, OpenSchema,
                    SwitchUnit, Kick, ownVars
<1>7. CASE Serve \/ Drain \/ Poll \/ UNCHANGED vars \/ \E n \in Nodes : Elsewhere(n)
  BY <1>1, <1>7 DEF Serve, Drain, Poll, vars, ownVars, Elsewhere
<1> QED BY <1>2, <1>3, <1>4, <1>5, <1>6, <1>7 DEF Next, Connection, Server

\* The site of a pane is what it is.
LEMMA SiteStays == [Next]_vars => UNCHANGED site
<1> SUFFICES ASSUME [Next]_vars PROVE UNCHANGED site
  OBVIOUS
<1>1. CASE Connection
  BY <1>1 DEF Connection, Connect, Rebind, GoOffline, RemovePane
<1>2. CASE User
  BY <1>2 DEF User, Expand, Collapse, Timeout, Refresh, OpenBelow, NoteMissing, OpenSchema,
              SwitchUnit, Kick
<1>3. CASE Server
  BY <1>3 DEF Server, Ddl, Elsewhere, RunEnds, Commit, Rollback
<1>4. CASE Serve \/ Drain \/ Poll \/ UNCHANGED vars
  BY <1>4 DEF Serve, Drain, Poll, vars
<1> QED BY <1>1, <1>2, <1>3, <1>4 DEF Next

LEMMA ShownInit == Init => ShownInv
<1> SUFFICES ASSUME Init PROVE ShownInv
  OBVIOUS
<1>1. WaitInv
  BY WaitInit
<1>2. DueIsShort
  BY DEF Init, Nothing, DueIsShort
<1>3. HeldIsWaited /\ Shown
  BY DEF Init, NoRun, HeldIsWaited, Shown
<1> QED BY <1>1, <1>2, <1>3 DEF ShownInv, PromiseInv

LEMMA ShownStep == ShownInv /\ [Next]_vars => ShownInv'
<1> SUFFICES ASSUME ShownInv, [Next]_vars PROVE ShownInv'
  OBVIOUS
<1>1. WaitInv /\ WaitInv' /\ TypeInv
  BY WaitStep DEF ShownInv, WaitInv, LoginInv
<1>2. Believed' => Believed
  BY SiteStays DEF Believed
<1>3. CASE ~Believed'
  BY <1>1, <1>3 DEF ShownInv
<1>4. CASE Believed'
  <2>1. DueIsShort /\ HeldIsWaited /\ Shown /\ Believed
    BY <1>2, <1>4 DEF ShownInv, PromiseInv
  <2>2. DueIsShort'
    BY <1>1, <2>1, ServerUp, DueMoves, DueIn
  <2>3. HeldIsWaited'
    BY <1>1, <2>1, HeldStep
  <2>4. Shown'
    <3>1. CASE User
      BY <1>1, <2>1, <3>1, ViewShown, RefreshShown, SwitchShown DEF User
    <3>2. CASE UNCHANGED vars
      BY <2>1, <3>2 DEF vars, Shown, UpToDate
    <3>3. CASE Connection \/ Server \/ Serve \/ Drain \/ Poll
      BY <1>1, <2>1, <3>3, ConnectionShown, ServerShown, ServeShown, DrainShown, PollShown
    <3> QED BY <3>1, <3>2, <3>3 DEF Next
  <2> QED BY <1>1, <2>2, <2>3, <2>4 DEF ShownInv, PromiseInv
<1> QED BY <1>3, <1>4

LEMMA PromiseIsShown == ShownInv => ToldIsShown
<1> SUFFICES ASSUME ShownInv, link.state = "on", site.held => site.waits,
                    NEW n \in Nodes, tree[n].state = "loaded", Awaited(n) = {}
             PROVE  tree[n].seen >= owe.due[n]
  BY DEF ToldIsShown
<1>1. UpToDate(n)
  BY DEF ShownInv, Believed, PromiseInv, Shown
<1>2. ~Has(queue, n, link.gen) /\ ~Has(out, n, link.gen)
  BY AwaitedIsOne DEF One, OneIn
<1> QED BY <1>1, <1>2 DEF UpToDate

(* A node with nothing on its way shows at least what was on the server    *)
(* when the user last had it read, or was last told of a change of his     *)
(* own, unless an answer read before lay unread then (Explorer::drain,     *)
(* apply_ddl).                                                             *)
THEOREM WhatIsToldIsShown == Spec => []ToldIsShown
BY ShownInit, ShownStep, PromiseIsShown, PTL DEF Spec

-----------------------------------------------------------------------------
(* The unit that is current.  The promise (owe.unit) rests on three        *)
(* things: the last switch of this generation in the queue is one to that  *)
(* unit or a later one, as switches are taken in turn; without one, the    *)
(* thread has made it; and a list of the root that is read with no switch  *)
(* in the queue shows it.                                                  *)

IsUse(r, g) == r.kind = "use" /\ r.gen = g
HasUse(s, g) == \E r \in ToSet(s) : IsUse(r, g)
LastUse(s, g, u) == \A i \in DOMAIN s :
  IsUse(s[i], g) /\ (\A j \in DOMAIN s : IsUse(s[j], g) => j <= i) => s[i].unit >= u
LastShows(s, g, u) == \A i \in DOMAIN s : IsLast(s, i, Root, g) /\ s[i].ok => s[i].unit >= u

UnitShort == owe.unit <= unit.session
UsesCome == link.state = "on" =>
  /\ LastUse(queue, link.gen, owe.unit)
  /\ \/ HasUse(queue, link.gen)
     \/ owe.unit = 0
     \/ thread.gen = link.gen /\ thread.unit >= owe.unit
UnitTold == link.state = "on" /\ "unit" \notin owe.lost =>
  \/ Has(queue, Root, link.gen) \/ again
  \/ /\ tree[Root].state = "loaded" /\ ~Has(out, Root, link.gen) => unit.shown >= owe.unit
     /\ LastShows(out, link.gen, owe.unit)

UnitInv == WaitInv /\ UnitShort /\ UsesCome /\ UnitTold

LEMMA AppendUse ==
  ASSUME NEW X, NEW s \in Seq(X), NEW a \in X, NEW g, NEW u,
         IF IsUse(a, g) THEN a.unit >= u ELSE LastUse(s, g, u)
  PROVE  /\ LastUse(Append(s, a), g, u)
         /\ HasUse(Append(s, a), g) <=> HasUse(s, g) \/ IsUse(a, g)
<1>0. PICK t : t = Append(s, a)
  OBVIOUS
<1>1. /\ t \in Seq(X) /\ Len(t) = Len(s) + 1 /\ Len(s) \in Nat
      /\ \A j \in 1..Len(s) : t[j] = s[j]
      /\ t[Len(s) + 1] = a
      /\ DOMAIN s = 1..Len(s) /\ DOMAIN t = 1..(Len(s) + 1)
      /\ ToSet(t) = ToSet(s) \cup {a}
  BY <1>0, AppendProperties, LenProperties, ToSetAppend
<1>2. ASSUME NEW i \in DOMAIN t, IsUse(t[i], g), \A j \in DOMAIN t : IsUse(t[j], g) => j <= i
      PROVE  t[i].unit >= u
  <2>1. CASE IsUse(a, g)
    <3>1. Len(s) + 1 <= i
      BY <1>1, <1>2, <2>1
    <3>2. t[i] = a
      BY <1>1, <3>1
    <3> QED BY <2>1, <3>2
  <2>2. CASE ~IsUse(a, g)
    <3>1. i \in DOMAIN s /\ t[i] = s[i]
      BY <1>1, <1>2, <2>2
    <3>2. \A j \in DOMAIN s : j \in DOMAIN t /\ t[j] = s[j]
      BY <1>1
    <3> QED BY <1>2, <2>2, <3>1, <3>2 DEF LastUse
  <2> QED BY <2>1, <2>2
<1>3. LastUse(t, g, u)
  BY <1>2 DEF LastUse
<1> QED BY <1>0, <1>1, <1>3 DEF HasUse

LEMMA GrownUse ==
  ASSUME TypeInv, NEW b, NEW t, Grown(b, t), NoUse(t), NEW g, NEW u, LastUse(queue, g, u)
  PROVE  LastUse(queue', g, u) /\ (HasUse(queue, g) => HasUse(queue', g))
<1>1. queue \in Seq(Request) /\ t \in Seq(Request) /\ queue' = b \o t
  BY DEF TypeInv, QueuesOK, Grown
<1>2. /\ b \in Seq(Request) /\ DOMAIN b = DOMAIN queue
      /\ \A i \in DOMAIN queue : (IsUse(b[i], g) <=> IsUse(queue[i], g)) /\ b[i].unit = queue[i].unit
  <2>1. CASE b = queue
    BY <1>1, <2>1
  <2>2. CASE b = Orphaned(queue)
    <3>1. \A i \in DOMAIN queue : queue[i] \in Request
      BY <1>1, ElementOfSeq, LenProperties
    <3>2. \A i \in DOMAIN queue : b[i].unit = queue[i].unit
      BY <2>2, <3>1 DEF Orphaned, Request
    <3> QED BY <1>1, <2>2, <3>2, OrphanedProperties DEF IsUse
  <2> QED BY <2>1, <2>2 DEF Grown
<1>3. /\ DOMAIN b \subseteq DOMAIN queue'
      /\ \A i \in DOMAIN b : queue'[i] = b[i]
      /\ \A i \in DOMAIN queue' : i \notin DOMAIN b => queue'[i] \in ToSet(t)
  BY <1>1, <1>2, ConcatPlaces
<1>4. ASSUME NEW i \in DOMAIN queue', IsUse(queue'[i], g)
      PROVE  i \in DOMAIN queue /\ IsUse(queue[i], g) /\ queue'[i].unit = queue[i].unit
  BY <1>2, <1>3, <1>4 DEF NoUse, IsUse
<1>5. \A i \in DOMAIN queue : IsUse(queue[i], g) => i \in DOMAIN queue' /\ IsUse(queue'[i], g)
  BY <1>2, <1>3
<1>6. LastUse(queue', g, u)
  BY <1>4, <1>5 DEF LastUse
<1>7. HasUse(queue, g) => HasUse(queue', g)
  BY <1>5 DEF HasUse, ToSet
<1> QED BY <1>6, <1>7

\* The switch taken is the first.
LEMMA UseTaken ==
  ASSUME NEW X, NEW s \in Seq(X), NEW k \in DOMAIN s, NEW g, NEW u, LastUse(s, g, u),
         IsUse(s[k], g) => \A j \in DOMAIN s : IsUse(s[j], g) => k <= j
  PROVE  /\ LastUse(RemoveAt(s, k), g, u)
         /\ HasUse(s, g) => HasUse(RemoveAt(s, k), g) \/ IsUse(s[k], g)
         /\ IsUse(s[k], g) /\ ~HasUse(RemoveAt(s, k), g) => s[k].unit >= u
<1>0. PICK t : t = RemoveAt(s, k)
  OBVIOUS
<1>1. /\ t \in Seq(X) /\ Len(s) \in Nat \ {0} /\ DOMAIN s = 1..Len(s)
      /\ DOMAIN t = 1..(Len(s) - 1)
      /\ \A i \in 1..(Len(s) - 1) : t[i] = IF i < k THEN s[i] ELSE s[i + 1]
      /\ ToSet(s) = ToSet(t) \cup {s[k]}
  BY <1>0, RemoveAtProperties, ToSetRemoveAt
<1>2. ASSUME NEW j \in DOMAIN s, j # k
      PROVE  \E i \in DOMAIN t : t[i] = s[j] /\ i = IF j < k THEN j ELSE j - 1
  <2>1. CASE j < k
    <3>1. j \in 1..(Len(s) - 1)
      BY <1>1, <2>1
    <3> QED BY <1>1, <2>1, <3>1
  <2>2. CASE ~(j < k)
    <3>1. j - 1 \in 1..(Len(s) - 1) /\ ~(j - 1 < k) /\ (j - 1) + 1 = j
      BY <1>1, <1>2, <2>2
    <3> QED BY <1>1, <2>2, <3>1
  <2> QED BY <2>1, <2>2
<1>3. ASSUME NEW i \in DOMAIN t, IsUse(t[i], g), \A j \in DOMAIN t : IsUse(t[j], g) => j <= i
      PROVE  t[i].unit >= u
  <2>1. PICK p \in DOMAIN s : t[i] = s[p] /\ p # k /\ p = IF i < k THEN i ELSE i + 1
    BY <1>1
  <2>2. ASSUME NEW j \in DOMAIN s, IsUse(s[j], g)
        PROVE  j <= p
    <3>1. CASE j = k
      BY <1>1, <1>3, <2>1, <2>2, <3>1
    <3>2. CASE j # k
      <4>1. PICK q \in DOMAIN t : t[q] = s[j] /\ q = IF j < k THEN j ELSE j - 1
        BY <1>2, <3>2
      <4>2. q <= i
        BY <1>3, <2>2, <4>1
      <4> QED BY <1>1, <2>1, <3>2, <4>1, <4>2
    <3> QED BY <3>1, <3>2
  <2> QED BY <1>3, <2>1, <2>2 DEF LastUse
<1>4. LastUse(t, g, u)
  BY <1>3 DEF LastUse
<1>5. ASSUME IsUse(s[k], g), ~HasUse(t, g)
      PROVE  s[k].unit >= u
  <2>1. \A j \in DOMAIN s : IsUse(s[j], g) => j = k
    BY <1>2, <1>5 DEF HasUse, ToSet
  <2> QED BY <1>1, <1>5, <2>1 DEF LastUse
<1> QED BY <1>0, <1>1, <1>4, <1>5 DEF HasUse

LEMMA UnitTypes ==
  ASSUME TypeInv
  PROVE  /\ queue \in Seq(Request) /\ out \in Seq(Answer) /\ owe \in OweRecord /\ owe.unit \in Nat
         /\ link \in LinkRecord /\ link.gen \in Nat
         /\ unit \in [ session : Nat, shown : Nat ] /\ unit.session \in Nat /\ unit.shown \in Nat
         /\ thread.unit \in Nat /\ thread.gen \in Nat /\ thread.gen <= link.gen
BY DEF TypeInv, QueuesOK, OweOK, OtherOK, OweRecord, LinkRecord

\* Nothing promised is always kept.
LEMMA NoUnitPromised ==
  ASSUME TypeInv', owe'.unit = 0
  PROVE  UnitShort' /\ UsesCome' /\ UnitTold'
<1>1. queue' \in Seq(Request) /\ out' \in Seq(Answer) /\ unit' \in [ session : Nat, shown : Nat ]
  BY DEF TypeInv, QueuesOK, OtherOK
<1>2. \A i \in DOMAIN queue' : queue'[i].unit >= 0
  <2>1. \A i \in DOMAIN queue' : queue'[i] \in Request
    BY <1>1, ElementOfSeq, LenProperties
  <2> QED BY <2>1 DEF Request
<1>3. \A i \in DOMAIN out' : out'[i].unit >= 0
  <2>1. \A i \in DOMAIN out' : out'[i] \in Answer
    BY <1>1, ElementOfSeq, LenProperties
  <2> QED BY <2>1 DEF Answer
<1>4. unit'.session >= 0 /\ unit'.shown >= 0
  BY <1>1
<1>5. UnitShort' /\ UsesCome'
  BY <1>2, <1>4 DEF UnitShort, UsesCome, LastUse
<1>6. UnitTold'
  BY <1>3, <1>4 DEF UnitTold, LastShows
<1> QED BY <1>5, <1>6

\* Steps that send no switch.
LEMMA UsesKept ==
  ASSUME TypeInv, NEW b, NEW t, Grown(b, t), NoUse(t),
         thread' = thread, link'.gen = link.gen, link'.state = link.state,
         owe'.unit = owe.unit, unit'.session = unit.session,
         UnitShort, UsesCome
  PROVE  UnitShort' /\ UsesCome'
<1>1. UnitShort'
  BY DEF UnitShort
<1>2. LastUse(queue, link.gen, owe.unit) =>
        /\ LastUse(queue', link.gen, owe.unit)
        /\ HasUse(queue, link.gen) => HasUse(queue', link.gen)
  BY GrownUse
<1>3. UsesCome'
  BY <1>2 DEF UsesCome
<1> QED BY <1>1, <1>3

\* Steps that read no list of the root.
LEMMA RootKept ==
  ASSUME TypeInv, NEW b, NEW t, Grown(b, t), link'.gen = link.gen, link'.state = link.state,
         \/ out' \in {out, Orphaned(out)}
         \/ out # <<>> /\ ~IsFor(Head(out), Root, link.gen) /\ out' = Tail(out),
         again => again', owe'.unit = owe.unit, "unit" \in owe.lost => "unit" \in owe'.lost,
         unit'.shown = unit.shown,
         tree'[Root].state = "loaded" => tree[Root].state = "loaded",
         UnitTold
  PROVE  UnitTold'
<1>1. Has(queue, Root, link.gen) => Has(queue', Root, link.gen)
  <2>1. b \in Seq(Request) /\ (Has(queue, Root, link.gen) => Has(b, Root, link.gen))
    BY UnitTypes, RootOrphaned, OrphanedProperties DEF Grown
  <2> QED BY <2>1, WithMore DEF Grown
<1>2. /\ Has(out, Root, link.gen) <=> Has(out', Root, link.gen)
      /\ LastShows(out, link.gen, owe.unit) => LastShows(out', link.gen, owe.unit)
  <2>1. CASE out' = out
    BY <2>1
  <2>2. CASE out' = Orphaned(out)
    BY <2>2, UnitTypes, RootOrphaned, RootLast DEF LastShows
  <2>3. CASE out # <<>> /\ ~IsFor(Head(out), Root, link.gen) /\ out' = Tail(out)
    BY <2>3, UnitTypes, WithoutFirst, TailLast DEF LastShows
  <2> QED BY <2>1, <2>2, <2>3
<1> QED BY <1>1, <1>2 DEF UnitTold

ReadsRoot == Drain /\ IsFor(Head(out), Root, link.gen)

LEMMA OthersRoot ==
  ASSUME TypeInv, Drain \/ User \/ Server \/ Poll \/ UNCHANGED vars, ~SwitchUnit, ~ReadsRoot
  PROVE  /\ \/ out' \in {out, Orphaned(out)}
            \/ out # <<>> /\ ~IsFor(Head(out), Root, link.gen) /\ out' = Tail(out)
         /\ again' = again /\ unit' = unit
         /\ owe'.unit = owe.unit /\ owe'.lost \in {owe.lost, owe.lost \cup {"open"}}
         /\ tree'[Root].state = "loaded" => tree[Root].state = "loaded"
<1>0. owe \in OweRecord /\ tree \in [Nodes -> NodeRecord]
  BY DEF TypeInv, OweOK, TreeOK
<1>1. CASE /\ User
           /\ \/ \E n \in Nodes : Expand(n) \/ Collapse(n) \/ Timeout(n)
              \/ \E f \in Folders : OpenBelow(f)
              \/ OpenSchema \/ Kick
  <2>1. UNCHANGED <<out, again, unit, owe>>
    BY <1>1 DEF Expand, Collapse, Timeout, OpenBelow, OpenSchema, Kick
  <2> QED BY <1>1, <2>1, NodeNames, ViewKeeps
<1>2. CASE \/ \E n \in Nodes, hard \in BOOLEAN : Refresh(n, hard)
           \/ \E f \in Folders : NoteMissing(f)
  <2>1. PICK n \in Nodes : /\ Reread(n) \/ Freshen(n) \/ Disowned(n)
                           /\ UNCHANGED <<again, unit>>
    BY <1>2, NodeNames DEF Refresh, NoteMissing
  <2>2. out' \in {out, Orphaned(out)}
    BY <2>1 DEF Reread, Freshen, Disowned, Clears
  <2>3. UNCHANGED owe \/ \E d : owe' = [owe EXCEPT !.due = d]
    BY <2>1 DEF Reread, Freshen, Disowned
  <2>4. tree'[Root].state = "loaded" => tree[Root].state = "loaded"
    <3>1. CASE Reread(n)
      <4>1. CASE n = Root
        BY <1>0, <3>1, <4>1, NodeNames DEF Reread, Bared, Bare, Blank
      <4>2. CASE n # Root
        BY <1>0, <3>1, <4>2, NodeNames DEF Reread, Bared
      <4> QED BY <4>1, <4>2
    <3>2. CASE Freshen(n)
      BY <3>2 DEF Freshen
    <3>3. CASE Disowned(n)
      BY <1>0, <3>3, NodeNames DEF Disowned, Bared
    <3> QED BY <2>1, <3>1, <3>2, <3>3
  <2>5. owe'.unit = owe.unit /\ owe'.lost = owe.lost
    BY <1>0, <2>3 DEF OweRecord
  <2> QED BY <2>1, <2>2, <2>4, <2>5
<1>3. CASE Server
  <2>1. UNCHANGED <<out, again, unit, tree>>
    BY <1>3 DEF Server, Ddl, Elsewhere, RunEnds, Commit, Rollback
  <2>2. \/ UNCHANGED owe
        \/ \E d, o : owe' \in { [owe EXCEPT !.due = d], [owe EXCEPT !.owed = o],
                                [owe EXCEPT !.due = d, !.owed = o] }
    BY <1>3 DEF Server, Ddl, Elsewhere, RunEnds, Commit, Rollback
  <2>3. owe'.unit = owe.unit /\ owe'.lost = owe.lost
    BY <1>0, <2>2 DEF OweRecord
  <2> QED BY <2>1, <2>3
<1>4. CASE Poll \/ UNCHANGED vars
  BY <1>4 DEF Poll, vars
<1>5. CASE Drain
  <2>1. PICK a : a = Head(out) /\ (Dropped(a) \/ Opened(a) \/ Listed(a) \/ Marked(a))
    BY <1>5 DEF Drain
  <2>2. out # <<>> /\ ~IsFor(a, Root, link.gen)
    BY <1>5, <2>1 DEF Drain, ReadsRoot
  <2>3. CASE Dropped(a) \/ Opened(a) \/ Marked(a)
    <3>1. out' = Tail(out) /\ UNCHANGED <<again, unit>>
      BY <2>3 DEF Dropped, Opened, Marked
    <3>2. UNCHANGED owe \/ owe' = [owe EXCEPT !.lost = @ \cup {"open"}]
      BY <2>3 DEF Dropped, Opened, Marked
    <3>3. \/ tree' = tree
          \/ tree' = [tree EXCEPT ![Root].state = "error"]
          \/ \E st \in {"idle", "loading"}, o \in BOOLEAN :
               tree' = [tree EXCEPT ![Root].state = st, ![Root].open = o]
      BY <2>3 DEF Dropped, Opened, Marked
    <3>4. owe'.unit = owe.unit /\ owe'.lost \in {owe.lost, owe.lost \cup {"open"}}
      BY <1>0, <3>2 DEF OweRecord
    <3>5. tree'[Root].state = "loaded" => tree[Root].state = "loaded"
      BY <1>0, <3>3, NodeNames DEF NodeRecord
    <3> QED BY <2>1, <2>2, <3>1, <3>4, <3>5
  <2>4. CASE Listed(a)
    <3>1. PICK n : n = a.node
      OBVIOUS
    <3>2. /\ n # Root /\ UNCHANGED <<again, unit>>
          /\ Merges(a, n) \/ Replaces(a, n) \/ Fails(a, n)
          /\ UNCHANGED owe \/ owe' = [Forgiven({n}) EXCEPT !.unit = @]
      BY <2>2, <2>4, <3>1 DEF Listed, IsFor
    <3>3. out' = Tail(out)
      BY <3>2 DEF Merges, Replaces, Fails
    <3>4. tree'[Root] = tree[Root]
      BY <1>0, <3>2, NodeNames DEF Merges, Replaces, Fails
    <3>5. Forgiven({n}) \in OweRecord /\ Forgiven({n}).lost = owe.lost /\ Forgiven({n}).unit = owe.unit
      BY ForgivenType
    <3>6. owe'.unit = owe.unit /\ owe'.lost = owe.lost
      BY <3>2, <3>5 DEF OweRecord
    <3> QED BY <2>1, <2>2, <3>2, <3>3, <3>4, <3>6
  <2> QED BY <2>1, <2>3, <2>4
<1> QED BY <1>1, <1>2, <1>3, <1>4, <1>5 DEF User

LEMMA OthersUnit ==
  ASSUME UnitInv, Drain \/ User \/ Server \/ Poll \/ UNCHANGED vars, ~SwitchUnit, ~ReadsRoot
  PROVE  UnitShort' /\ UsesCome' /\ UnitTold'
<1>0. TypeInv /\ UnitShort /\ UsesCome /\ UnitTold
  BY DEF UnitInv, WaitInv, LoginInv
<1>1. PICK b, t : Grown(b, t) /\ NoUse(t)
  BY <1>0, OthersGrow
<1>2. thread' = thread /\ link'.gen = link.gen /\ link'.state = link.state
  BY <1>0, OthersGrow
<1>3. /\ \/ out' \in {out, Orphaned(out)}
         \/ out # <<>> /\ ~IsFor(Head(out), Root, link.gen) /\ out' = Tail(out)
      /\ again' = again /\ unit' = unit
      /\ owe'.unit = owe.unit /\ ("unit" \in owe.lost => "unit" \in owe'.lost)
      /\ tree'[Root].state = "loaded" => tree[Root].state = "loaded"
  BY <1>0, OthersRoot
<1>4. UnitShort' /\ UsesCome'
  BY <1>0, <1>1, <1>2, <1>3, UsesKept
<1>5. UnitTold'
  BY <1>0, <1>1, <1>2, <1>3, RootKept
<1> QED BY <1>4, <1>5

LEMMA SwitchUnitTold == ASSUME UnitInv, SwitchUnit PROVE UnitShort' /\ UsesCome' /\ UnitTold'
<1>0. /\ TypeInv /\ UnitShort /\ UsesCome /\ UnitTold
      /\ owe \in OweRecord /\ unit \in [ session : Nat, shown : Nat ] /\ unit.session \in Nat
      /\ owe.unit \in Nat /\ queue \in Seq(Request) /\ link.gen \in Nat
      /\ UNCHANGED <<link, thread, tree, out>>
  BY UnitTypes DEF UnitInv, WaitInv, LoginInv, SwitchUnit, paneVars
<1>1. PICK u : u = [Asks("use", Gone, link.gen) EXCEPT !.unit = unit.session + 1]
  OBVIOUS
<1>2. u \in Request /\ IsUse(u, link.gen) /\ u.unit = unit.session + 1
  <2>1. PICK v : v = Asks("use", Gone, link.gen)
    OBVIOUS
  <2>2. v \in Request /\ v.kind = "use" /\ v.gen = link.gen
    <3>1. v \in Request
      BY <1>0, <2>1, AsksType, TypeInvImplies
    <3> QED BY <2>1, <3>1 DEF Asks
  <2>3. unit.session + 1 \in Nat /\ u = [v EXCEPT !.unit = unit.session + 1]
    BY <1>0, <1>1, <2>1
  <2> QED BY <2>2, <2>3 DEF Request, IsUse
<1>3. PICK q : q = Append(queue, u)
  OBVIOUS
<1>4. PICK r : r = Asked(Root, FALSE)
  OBVIOUS
<1>5. r \in Request /\ ~IsUse(r, link.gen) /\ IsFor(r, Root, link.gen)
  BY <1>0, <1>4, NodeNames, AskedRequest DEF IsUse
<1>6. q \in Seq(Request) /\ ToSet(q) = ToSet(queue) \cup {u}
  BY <1>0, <1>2, <1>3, AppendProperties, ToSetAppend
<1>7. ASSUME NEW d, d <= unit.session + 1
      PROVE  LastUse(q, link.gen, d) /\ HasUse(q, link.gen)
  BY <1>0, <1>2, <1>3, <1>7, AppendUse
<1>8. \/ /\ owe'.unit = unit.session + 1 /\ unit'.session = unit.session + 1
         /\ \/ queue' = q /\ again'
            \/ queue' = Append(q, r)
      \/ /\ UNCHANGED <<owe, again>> /\ queue' = q
         /\ unit'.session = unit.session + 1 /\ unit'.shown = unit.shown
  <2>1. \/ /\ unit' = [ session |-> unit.session + 1, shown |-> 0 ]
           /\ \/ queue' = q /\ Doubled
              \/ queue' = Append(q, r)
           /\ again' = (again \/ Doubled)
           /\ owe' = [owe EXCEPT !.unit = unit.session + 1, !.lost = @ \ {"unit"}]
        \/ /\ unit' = [unit EXCEPT !.session = unit.session + 1]
           /\ queue' = q /\ UNCHANGED <<again, owe>>
    BY <1>1, <1>3, <1>4 DEF SwitchUnit
  <2>2. [owe EXCEPT !.unit = unit.session + 1, !.lost = @ \ {"unit"}].unit = unit.session + 1
    BY <1>0 DEF OweRecord
  <2>3. /\ [unit EXCEPT !.session = unit.session + 1].session = unit.session + 1
        /\ [unit EXCEPT !.session = unit.session + 1].shown = unit.shown
    BY <1>0
  <2>4. again' = (again \/ Doubled) /\ Doubled => again'
    OBVIOUS
  <2>5. ASSUME unit' = [ session |-> unit.session + 1, shown |-> 0 ],
               (queue' = q /\ Doubled) \/ queue' = Append(q, r),
               again' = (again \/ Doubled),
               owe' = [owe EXCEPT !.unit = unit.session + 1, !.lost = @ \ {"unit"}]
        PROVE  /\ owe'.unit = unit.session + 1 /\ unit'.session = unit.session + 1
               /\ (queue' = q /\ again') \/ queue' = Append(q, r)
    <3>1. owe'.unit = unit.session + 1 /\ unit'.session = unit.session + 1
      BY <2>2, <2>5
    <3>2. (queue' = q /\ again') \/ queue' = Append(q, r)
      BY <2>4, <2>5, Zenon
    <3> QED BY <3>1, <3>2
  <2> QED BY <2>1, <2>3, <2>5, Zenon
<1>9. owe'.unit \in Nat /\ owe'.unit <= unit.session + 1 /\ unit'.session = unit.session + 1
  BY <1>0, <1>8 DEF UnitShort
<1>10. LastUse(queue', link.gen, owe'.unit) /\ HasUse(queue', link.gen)
  <2>1. LastUse(q, link.gen, owe'.unit) /\ HasUse(q, link.gen)
    BY <1>7, <1>9
  <2>2. CASE queue' = q
    BY <2>1, <2>2
  <2>3. CASE queue' = Append(q, r)
    BY <1>5, <1>6, <2>1, <2>3, AppendUse
  <2> QED BY <1>8, <2>2, <2>3
<1>11. UnitShort' /\ UsesCome'
  BY <1>0, <1>9, <1>10 DEF UnitShort, UsesCome
<1>12. UnitTold'
  <2>1. CASE queue' = Append(q, r)
    <3>1. ToSet(queue') = ToSet(q) \cup {r}
      BY <1>5, <1>6, <2>1, ToSetAppend
    <3>2. Has(queue', Root, link.gen)
      BY <1>5, <3>1 DEF Has
    <3> QED BY <1>0, <3>2 DEF UnitTold
  <2>2. CASE again'
    BY <2>2 DEF UnitTold
  <2>3. CASE UNCHANGED <<owe, again>> /\ queue' = q /\ unit'.shown = unit.shown
    <3>1. Has(queue, Root, link.gen) => Has(queue', Root, link.gen)
      BY <1>6, <2>3 DEF Has
    <3> QED BY <1>0, <2>3, <3>1 DEF UnitTold
  <2> QED BY <1>8, <2>1, <2>2, <2>3
<1> QED BY <1>11, <1>12

\* A list of the root.
LEMMA RootReadTold ==
  ASSUME UnitInv, TypeInv', ReadsRoot
  PROVE  UnitShort' /\ UsesCome' /\ UnitTold'
<1>0. /\ TypeInv /\ UnitShort /\ UsesCome /\ UnitTold
      /\ owe \in OweRecord /\ unit \in [ session : Nat, shown : Nat ]
      /\ queue \in Seq(Request) /\ out \in Seq(Answer) /\ out # <<>>
  BY UnitTypes DEF UnitInv, WaitInv, LoginInv, ReadsRoot, Drain
<1>1. PICK a : a = Head(out)
  OBVIOUS
<1>2. Listed(a) /\ a.node = Root /\ IsFor(a, Root, link.gen) /\ UNCHANGED <<thread, link>>
  BY <1>1, NodeNames DEF ReadsRoot, Drain, IsFor, Dropped, Opened, Marked, Listed
<1>3. CASE ~a.ok
  <2>1. owe' = [Forgiven({Root}) EXCEPT !.unit = 0] /\ Forgiven({Root}) \in OweRecord
    BY <1>0, <1>2, <1>3, ForgivenType DEF Listed
  <2>2. owe'.unit = 0
    BY <2>1 DEF OweRecord
  <2> QED BY <2>2, NoUnitPromised
<1>4. CASE a.ok
  <2>1. owe' = owe /\ unit'.shown = a.unit /\ unit'.session = unit.session
    BY <1>0, <1>2, <1>4 DEF Listed
  <2>2. PICK b, t : Grown(b, t) /\ NoUse(t)
    BY <1>0, <1>2, ListGrows
  <2>3. UnitShort' /\ UsesCome'
    BY <1>0, <1>2, <2>1, <2>2, UsesKept
  <2>4. Has(queue, Root, link.gen) => Has(queue', Root, link.gen)
    <3>1. b \in Seq(Request) /\ (Has(queue, Root, link.gen) => Has(b, Root, link.gen))
      BY <1>0, <2>2, RootOrphaned, OrphanedProperties DEF Grown
    <3> QED BY <2>2, <3>1, WithMore DEF Grown
  <2>5. again => Has(queue', Root, link.gen)
    <3>1. CASE again
      <4>1. PICK q \in {queue, Orphaned(queue)} : queue' = Append(q, Asked(Root, FALSE))
        BY <1>2, <3>1 DEF Listed, OnceMore, Kept
      <4>2. PICK r : r = Asked(Root, FALSE)
        OBVIOUS
      <4>3. r \in Request /\ IsFor(r, Root, link.gen) /\ q \in Seq(Request)
        BY <1>0, <4>2, NodeNames, AskedRequest, OrphanedProperties
      <4>4. r \in ToSet(Append(q, r))
        BY <4>3, ToSetAppend
      <4> QED BY <4>1, <4>2, <4>3, <4>4 DEF Has
    <3> QED BY <3>1
  <2>6. out' \in {Tail(out), Orphaned(Tail(out))} /\ Tail(out) \in Seq(Answer)
    BY <1>0, <1>2, Drained DEF Listed, Merges, Replaces, Fails
  <2>7. ASSUME LastShows(out, link.gen, owe.unit)
        PROVE  /\ ~Has(out', Root, link.gen) => a.unit >= owe.unit
               /\ LastShows(out', link.gen, owe.unit)
    <3>1. LastShows(Tail(out), link.gen, owe.unit)
      BY <1>0, <2>7, TailLast DEF LastShows
    <3>2. ~Has(Tail(out), Root, link.gen) => a.unit >= owe.unit
      BY <1>0, <1>1, <1>2, <1>4, <2>7, TailLast DEF LastShows
    <3>3. CASE out' = Tail(out)
      BY <3>1, <3>2, <3>3
    <3>4. CASE out' = Orphaned(Tail(out))
      <4>1. LastShows(out', link.gen, owe.unit)
        BY <2>6, <3>1, <3>4, RootLast DEF LastShows
      <4>2. Has(out', Root, link.gen) <=> Has(Tail(out), Root, link.gen)
        BY <2>6, <3>4, RootOrphaned
      <4> QED BY <3>2, <4>1, <4>2
    <3> QED BY <2>6, <3>3, <3>4
  <2>8. UnitTold'
    BY <1>0, <1>2, <2>1, <2>4, <2>5, <2>7 DEF UnitTold
  <2> QED BY <2>3, <2>8
<1> QED BY <1>3, <1>4

LEMMA ServeUnit == ASSUME UnitInv, Serve PROVE UnitShort' /\ UsesCome' /\ UnitTold'
<1>0. /\ UNCHANGED <<link, tree, unit, again>> /\ LoginInv /\ TypeInv
      /\ UnitShort /\ UsesCome /\ UnitTold
      /\ owe \in OweRecord /\ owe.unit \in Nat /\ out \in Seq(Answer) /\ queue \in Seq(Request)
      /\ thread.unit \in Nat /\ thread.gen \in Nat /\ link.gen \in Nat
  BY UnitTypes DEF Serve, UnitInv, WaitInv, LoginInv
<1>1. PICK k : k = Pick
  OBVIOUS
<1>2. PICK r : r = queue[k]
  OBVIOUS
<1>3. /\ queue # <<>> /\ queue' = RemoveAt(queue, k)
      /\ \/ (Uses(r) \/ (Overtaken(r) /\ UNCHANGED thread)) /\ UNCHANGED <<out, owe>>
         \/ /\ Opens(r) \/ Reads(r)
            /\ \E ok \in BOOLEAN : out' = Append(out, Answered(r, ok))
            /\ owe' = IF /\ r.kind = "list" /\ r.node = Root
                         /\ \E u \in ToSet(queue) : u.kind = "use" /\ u.gen = r.gen
                      THEN [owe EXCEPT !.lost = @ \cup {"unit"}] ELSE owe
  BY <1>1, <1>2 DEF Serve
<1>4. k \in DOMAIN queue /\ r \in Request /\ r \in ToSet(queue) /\ r.gen <= link.gen /\ r.gen \in Nat
  BY <1>0, <1>1, <1>2, <1>3, Taken DEF Fits, Request
<1>5. /\ r.kind # "open" /\ link.state = "on" => thread.gen = link.gen
      /\ r.kind = "open" => r.gen > thread.gen
  <2>1. r.kind # "open" /\ link.state = "on" => thread.gen = link.gen
    BY <1>0, <1>1, <1>2, <1>3, TakenInTurn DEF IsOpen
  <2> QED BY <1>0, <1>4, <2>1 DEF LoginInv, Orderly, Ahead, IsOpen
<1>6. owe'.unit = owe.unit /\ ("unit" \in owe.lost => "unit" \in owe'.lost)
  BY <1>0, <1>3 DEF OweRecord
<1>7. r.kind = "use" => \A j \in DOMAIN queue : queue[j].kind = "use" => k <= j
  <2>1. \A j \in DOMAIN queue : \/ Prio(queue[k]) < Prio(queue[j])
                                \/ Prio(queue[k]) = Prio(queue[j]) /\ k <= j
    BY <1>0, <1>1, <1>3, PickProperties
  <2>2. \A q : q.kind = "use" => Prio(q) = 2
    BY DEF Prio
  <2> QED BY <1>2, <2>1, <2>2
<1>8. UnitShort'
  BY <1>0, <1>6 DEF UnitShort
<1>9. UsesCome'
  <2> SUFFICES ASSUME link.state = "on"
               PROVE  /\ LastUse(queue', link.gen, owe.unit)
                      /\ \/ HasUse(queue', link.gen)
                         \/ owe.unit = 0
                         \/ thread'.gen = link.gen /\ thread'.unit >= owe.unit
    BY <1>0, <1>6 DEF UsesCome
  <2>1. LastUse(queue, link.gen, owe.unit)
    BY <1>0 DEF UsesCome
  <2>2. /\ LastUse(queue', link.gen, owe.unit)
        /\ HasUse(queue, link.gen) => HasUse(queue', link.gen) \/ IsUse(r, link.gen)
        /\ IsUse(r, link.gen) /\ ~HasUse(queue', link.gen) => r.unit >= owe.unit
    BY <1>0, <1>2, <1>3, <1>4, <1>7, <2>1, UseTaken DEF IsUse
  <2>3. CASE IsUse(r, link.gen)
    <3>1. r.kind = "use" /\ r.gen = link.gen /\ thread.gen = link.gen
      BY <1>5, <2>3 DEF IsUse
    <3>2. Uses(r)
      BY <1>3, <3>1 DEF Overtaken, Opens, Reads
    <3>3. thread'.gen = link.gen /\ thread'.unit = r.unit
      <4>1. thread \in [ gen : Nat, unit : Nat ]
        BY <1>0 DEF TypeInv, OtherOK
      <4> QED BY <3>1, <3>2, <4>1 DEF Uses
    <3> QED BY <2>2, <2>3, <3>3
  <2>4. CASE ~IsUse(r, link.gen)
    <3>1. CASE thread.gen = link.gen
      <4>1. UNCHANGED thread
        BY <1>0, <1>3, <1>4, <1>5, <2>4, <3>1 DEF Uses, Opens, Reads, IsUse
      <4> QED BY <1>0, <2>2, <2>4, <4>1 DEF UsesCome
    <3>2. CASE thread.gen # link.gen
      BY <1>0, <2>2, <2>4, <3>2 DEF UsesCome
    <3> QED BY <3>1, <3>2
  <2> QED BY <2>2, <2>3, <2>4
<1>10. UnitTold'
  <2> SUFFICES ASSUME link.state = "on", "unit" \notin owe'.lost, ~Has(queue', Root, link.gen), ~again
               PROVE  /\ tree[Root].state = "loaded" /\ ~Has(out', Root, link.gen)
                           => unit.shown >= owe.unit
                      /\ LastShows(out', link.gen, owe.unit)
    BY <1>0, <1>6 DEF UnitTold
  <2>1. Has(queue, Root, link.gen) <=> Has(queue', Root, link.gen) \/ IsFor(r, Root, link.gen)
    BY <1>0, <1>2, <1>3, <1>4, WithoutOne
  <2>2. CASE IsFor(r, Root, link.gen)
    <3>1. r.kind = "list" /\ r.node = Root /\ r.gen = link.gen /\ thread.gen = link.gen
      BY <1>5, <2>2 DEF IsFor
    <3>2. PICK ok \in BOOLEAN : out' = Append(out, Answered(r, ok))
      BY <1>3, <3>1 DEF Uses, Overtaken
    <3>3. ~HasUse(queue, link.gen)
      <4>1. ~(Uses(r) \/ Overtaken(r))
        BY <3>1 DEF Uses, Overtaken
      <4>2. owe' = IF \E u \in ToSet(queue) : u.kind = "use" /\ u.gen = r.gen
                   THEN [owe EXCEPT !.lost = @ \cup {"unit"}] ELSE owe
        BY <1>3, <3>1, <4>1
      <4>3. "unit" \in [owe EXCEPT !.lost = @ \cup {"unit"}].lost
        BY <1>0 DEF OweRecord
      <4> QED BY <3>1, <4>2, <4>3 DEF HasUse, IsUse
    <3>4. thread.unit >= owe.unit
      BY <1>0, <3>3 DEF UsesCome
    <3>5. PICK a : a = Answered(r, ok)
      OBVIOUS
    <3>6. a \in Answer /\ IsFor(a, Root, link.gen) /\ a.unit = thread.unit
      <4>1. a \in Answer /\ a.kind = r.kind /\ a.node = r.node /\ a.gen = r.gen
        BY <1>0, <1>4, <3>1, <3>5, AnsweredType
      <4>2. a.unit = thread.unit
        BY <3>5 DEF Answered
      <4> QED BY <3>1, <4>1, <4>2 DEF IsFor
    <3>7. Has(out', Root, link.gen)
      <4>1. ToSet(Append(out, a)) = ToSet(out) \cup {a}
        BY <1>0, <3>6, ToSetAppend
      <4> QED BY <3>2, <3>5, <3>6, <4>1 DEF Has
    <3>8. LastShows(Append(out, a), link.gen, owe.unit)
      BY <1>0, <3>4, <3>6, AppendLast DEF LastShows
    <3> QED BY <3>2, <3>5, <3>7, <3>8
  <2>3. CASE ~IsFor(r, Root, link.gen)
    <3>1. /\ tree[Root].state = "loaded" /\ ~Has(out, Root, link.gen) => unit.shown >= owe.unit
          /\ LastShows(out, link.gen, owe.unit)
      BY <1>0, <1>6, <2>1, <2>3 DEF UnitTold
    <3>2. CASE out' = out
      BY <3>1, <3>2
    <3>3. ASSUME NEW a \in Answer, out' = Append(out, a), ~IsFor(a, Root, link.gen)
          PROVE  /\ Has(out', Root, link.gen) <=> Has(out, Root, link.gen)
                 /\ LastShows(out', link.gen, owe.unit)
      <4>1. ToSet(Append(out, a)) = ToSet(out) \cup {a}
        BY <1>0, ToSetAppend
      <4>2. LastShows(Append(out, a), link.gen, owe.unit)
        BY <1>0, <3>1, <3>3, AppendLast DEF LastShows
      <4> QED BY <3>3, <4>1, <4>2 DEF Has
    <3>4. CASE (Opens(r) \/ Reads(r)) /\ \E ok \in BOOLEAN : out' = Append(out, Answered(r, ok))
      <4>1. PICK ok \in BOOLEAN : out' = Append(out, Answered(r, ok))
        BY <3>4
      <4>2. r.kind \in {"open", "list", "marks"}
        BY <3>4 DEF Opens, Reads
      <4>3. PICK a : a = Answered(r, ok)
        OBVIOUS
      <4>4. a \in Answer /\ ~IsFor(a, Root, link.gen)
        BY <1>0, <1>4, <2>3, <4>2, <4>3, AnsweredType DEF IsFor
      <4> QED BY <3>1, <3>3, <4>1, <4>3, <4>4
    <3> QED BY <1>3, <3>2, <3>4
  <2> QED BY <2>2, <2>3
<1> QED BY <1>8, <1>9, <1>10

LEMMA ConnectionUnit ==
  ASSUME UnitInv, TypeInv', Connection
  PROVE  UnitShort' /\ UsesCome' /\ UnitTold'
<1>0. TypeInv /\ UnitShort /\ link \in LinkRecord
  BY UnitTypes DEF UnitInv, WaitInv, LoginInv
<1>1. CASE Connect
  BY <1>1, NoUnitPromised DEF Connect, Nothing
<1>2. CASE Rebind
  <2>1. PICK S : \E l : owe' = [Forgiven(S) EXCEPT !.unit = 0, !.lost = l]
    BY <1>2 DEF Rebind
  <2>2. Forgiven(S) \in OweRecord
    BY <1>0, ForgivenType
  <2>3. owe'.unit = 0
    BY <2>1, <2>2 DEF OweRecord
  <2> QED BY <2>3, NoUnitPromised
<1>3. CASE GoOffline \/ RemovePane
  <2>1. link'.state # "on"
    <3>1. CASE GoOffline
      BY <1>0, <3>1 DEF GoOffline, LinkRecord
    <3>2. CASE RemovePane
      BY <3>2 DEF RemovePane
    <3> QED BY <1>3, <3>1, <3>2
  <2>2. UNCHANGED <<unit, owe>>
    BY <1>3 DEF GoOffline, RemovePane
  <2> QED BY <1>0, <2>1, <2>2 DEF UnitShort, UsesCome, UnitTold
<1> QED BY <1>1, <1>2, <1>3 DEF Connection

LEMMA UnitInit == Init => UnitInv
<1> SUFFICES ASSUME Init PROVE UnitInv
  OBVIOUS
<1>1. UnitShort /\ UsesCome /\ UnitTold
  BY DEF Init, Nothing, UnitShort, UsesCome, UnitTold
<1> QED BY <1>1, WaitInit DEF UnitInv

LEMMA UnitStep == UnitInv /\ [Next]_vars => UnitInv'
<1> SUFFICES ASSUME UnitInv, [Next]_vars PROVE UnitInv'
  OBVIOUS
<1>1. WaitInv' /\ TypeInv'
  BY WaitStep DEF UnitInv, WaitInv, LoginInv
<1>2. UnitShort' /\ UsesCome' /\ UnitTold'
  BY <1>1, OthersUnit, SwitchUnitTold, RootReadTold, ServeUnit, ConnectionUnit DEF Next
<1> QED BY <1>1, <1>2 DEF UnitInv

LEMMA LastIsShown == UnitInv => LastUnitIsShown
<1> SUFFICES ASSUME UnitInv, link.state = "on", tree[Root].state = "loaded", Awaited(Root) = {},
                    "unit" \notin owe.lost
             PROVE  unit.shown >= owe.unit
  BY DEF LastUnitIsShown
<1>1. ~One(Root)
  BY AwaitedIsOne
<1>2. Root \notin soft
  BY <1>1, NodeNames DEF UnitInv, WaitInv, Coming, NodeWaits
<1>3. ~again
  BY <1>2 DEF UnitInv, WaitInv, Coming, AgainWaits
<1> QED BY <1>1, <1>3 DEF UnitInv, UnitTold, One, OneIn

(* However fast the user's session goes from schema to schema, the one     *)
(* marked as current is the last one when the lists have come              *)
(* (request_schemas_soft), unless a list has gone ahead of the switch in   *)
(* the queue of the thread.                                                *)
THEOREM LastUnitIsMarked == Spec => []LastUnitIsShown
BY UnitInit, UnitStep, LastIsShown, PTL DEF Spec

-----------------------------------------------------------------------------
(* What the user has opened stays open.                                    *)
(*                                                                         *)
(* An answer that is not anew is the first of all that is on its way to    *)
(* its node (InTurn), and it still suits the node: a list asked for        *)
(* because there was none finds none, and a quiet one is merged.           *)

Plain(r, n, g) == IsFor(r, n, g) /\ ~r.anew
NoPlain(s, n, g) == \A r \in ToSet(s) : ~Plain(r, n, g)
PlainFirst(s, n, g) == \A i, j \in DOMAIN s : Plain(s[i], n, g) /\ IsFor(s[j], n, g) => i <= j
InTurn(q, o, n, g) == /\ PlainFirst(q, n, g) /\ PlainFirst(o, n, g)
                      /\ Has(o, n, g) => NoPlain(q, n, g)

Suits(r, n) == IF r.load THEN tree[n].seen = 0 ELSE n \in soft
Turn(n) == /\ InTurn(queue, out, n, link.gen)
           /\ \A r \in ToSet(queue) \cup ToSet(out) : Plain(r, n, link.gen) => Suits(r, n)
Turns == \A n \in Nodes : Turn(n)

\* A folder that is not in the tree is not open.
Absent == \A f \in Folders : tree[f].state = "absent" => ~tree[f].open /\ ~tree[f].below

StayInv == TypeInv /\ Absent /\ Turns

\* At most one request for n.
Once(t, n, g) == \A i, j \in DOMAIN t : IsFor(t[i], n, g) /\ IsFor(t[j], n, g) => i = j

LEMMA PlainAdded ==
  ASSUME NEW X, NEW q \in Seq(X), NEW t \in Seq(X), NEW o, NEW n, NEW g,
         InTurn(q, o, n, g), Once(t, n, g),
         Has(q, n, g) \/ Has(o, n, g) => NoPlain(t, n, g)
  PROVE  InTurn(q \o t, o, n, g)
<1>1. PICK s : s = q \o t
  OBVIOUS
<1>2. /\ Len(q) \in Nat /\ Len(t) \in Nat /\ DOMAIN q = 1..Len(q) /\ DOMAIN t = 1..Len(t)
      /\ DOMAIN s = 1..(Len(q) + Len(t))
      /\ \A i \in 1..(Len(q) + Len(t)) :
           s[i] = IF i <= Len(q) THEN q[i] ELSE t[i - Len(q)]
  BY <1>1, ConcatProperties, LenProperties
<1>3. ToSet(s) = ToSet(q) \cup ToSet(t)
  BY <1>1, ToSetConcat
<1>4. \A i \in DOMAIN s : \/ i \in DOMAIN q /\ s[i] = q[i]
                          \/ i \notin DOMAIN q /\ i > Len(q) /\ i - Len(q) \in DOMAIN t /\ s[i] = t[i - Len(q)]
  BY <1>2
<1>5. ASSUME NEW i \in DOMAIN s, NEW j \in DOMAIN s, Plain(s[i], n, g), IsFor(s[j], n, g)
      PROVE  i <= j
  <2>1. CASE i \in DOMAIN q /\ j \in DOMAIN q
    BY <1>4, <1>5, <2>1 DEF InTurn, PlainFirst
  <2>2. CASE i \in DOMAIN q /\ j \notin DOMAIN q
    BY <1>2, <1>4, <2>2
  <2>3. CASE i \notin DOMAIN q /\ j \in DOMAIN q
    <3>1. s[i] \in ToSet(t) /\ Has(q, n, g)
      BY <1>4, <1>5, <2>3 DEF ToSet, Has
    <3> QED BY <1>5, <3>1 DEF NoPlain
  <2>4. CASE i \notin DOMAIN q /\ j \notin DOMAIN q
    <3>1. i - Len(q) = j - Len(q)
      BY <1>4, <1>5, <2>4 DEF Once, Plain
    <3> QED BY <1>2, <2>4, <3>1
  <2> QED BY <2>1, <2>2, <2>3, <2>4
<1>6. Has(o, n, g) => NoPlain(s, n, g)
  BY <1>3 DEF InTurn, NoPlain
<1> QED BY <1>1, <1>5, <1>6 DEF InTurn, PlainFirst

LEMMA PlainLeft ==
  ASSUME NEW X, NEW q \in Seq(X), NEW k \in DOMAIN q, NEW n, NEW g, PlainFirst(q, n, g)
  PROVE  /\ PlainFirst(RemoveAt(q, k), n, g)
         /\ ToSet(RemoveAt(q, k)) \subseteq ToSet(q)
         /\ Plain(q[k], n, g) => NoPlain(RemoveAt(q, k), n, g)
<1>1. PICK s : s = RemoveAt(q, k)
  OBVIOUS
<1>2. /\ Len(q) \in Nat \ {0} /\ DOMAIN q = 1..Len(q) /\ DOMAIN s = 1..(Len(q) - 1)
      /\ \A i \in 1..(Len(q) - 1) : s[i] = IF i < k THEN q[i] ELSE q[i + 1]
  BY <1>1, RemoveAtProperties
<1>3. PICK p : p = [i \in DOMAIN s |-> IF i < k THEN i ELSE i + 1]
  OBVIOUS
<1>4. \A i \in DOMAIN s : p[i] \in DOMAIN q /\ s[i] = q[p[i]] /\ p[i] # k
  BY <1>2, <1>3
<1>5. \A i, j \in DOMAIN s : p[i] <= p[j] => i <= j
  BY <1>2, <1>3
<1>6. PlainFirst(s, n, g)
  BY <1>4, <1>5 DEF PlainFirst
<1>7. ToSet(s) \subseteq ToSet(q)
  BY <1>4 DEF ToSet
<1>8. ASSUME Plain(q[k], n, g), NEW i \in DOMAIN s, Plain(s[i], n, g)
      PROVE  FALSE
  <2>1. p[i] \in DOMAIN q /\ s[i] = q[p[i]] /\ p[i] # k
    BY <1>4
  <2>2. p[i] <= k /\ k <= p[i]
    BY <1>8, <2>1 DEF PlainFirst, Plain
  <2> QED BY <1>2, <2>1, <2>2
<1> QED BY <1>1, <1>6, <1>7, <1>8 DEF NoPlain, ToSet

LEMMA PlainTail ==
  ASSUME NEW X, NEW s \in Seq(X), s # <<>>, NEW n, NEW g, PlainFirst(s, n, g)
  PROVE  /\ PlainFirst(Tail(s), n, g) /\ ToSet(Tail(s)) \subseteq ToSet(s)
         /\ IsFor(Head(s), n, g) => NoPlain(Tail(s), n, g)
<1>1. /\ Len(Tail(s)) = Len(s) - 1
      /\ \A i \in 1..Len(Tail(s)) : Tail(s)[i] = s[i + 1]
      /\ Len(s) \in Nat \ {0} /\ DOMAIN s = 1..Len(s) /\ DOMAIN Tail(s) = 1..Len(Tail(s))
      /\ Head(s) = s[1]
  BY HeadTailProperties, LenProperties, EmptySeq
<1>2. PICK t : t = Tail(s)
  OBVIOUS
<1>3. \A i \in DOMAIN t : i \in Nat /\ i + 1 \in DOMAIN s /\ t[i] = s[i + 1] /\ ~(i + 1 <= 1)
  BY <1>1, <1>2
<1>4. PlainFirst(t, n, g)
  <2> SUFFICES ASSUME NEW i \in DOMAIN t, NEW j \in DOMAIN t, Plain(t[i], n, g), IsFor(t[j], n, g)
               PROVE  i <= j
    BY DEF PlainFirst
  <2>1. i + 1 <= j + 1
    BY <1>3 DEF PlainFirst
  <2> QED BY <1>3, <2>1
<1>5. ToSet(t) \subseteq ToSet(s)
  BY <1>3 DEF ToSet
<1>6. ASSUME IsFor(Head(s), n, g), NEW i \in DOMAIN t, Plain(t[i], n, g)
      PROVE  FALSE
  <2>1. i + 1 <= 1
    BY <1>1, <1>3, <1>6 DEF PlainFirst
  <2> QED BY <1>3, <2>1
<1> QED BY <1>2, <1>4, <1>5, <1>6 DEF NoPlain, ToSet

\* The thread answers a request for n that was the first, or one of which there are others before.
LEMMA PlainAnswered ==
  ASSUME NEW X, NEW s \in Seq(X), NEW a \in X, NEW n, NEW g, PlainFirst(s, n, g),
         Plain(a, n, g) => ~Has(s, n, g)
  PROVE  PlainFirst(Append(s, a), n, g)
<1>1. PICK t : t = Append(s, a)
  OBVIOUS
<1>2. /\ Len(s) \in Nat /\ DOMAIN s = 1..Len(s) /\ DOMAIN t = 1..(Len(s) + 1)
      /\ \A i \in 1..Len(s) : t[i] = s[i]
      /\ t[Len(s) + 1] = a
  BY <1>1, AppendProperties, LenProperties
<1>3. ASSUME NEW i \in DOMAIN t, NEW j \in DOMAIN t, Plain(t[i], n, g), IsFor(t[j], n, g)
      PROVE  i <= j
  <2>1. CASE j = Len(s) + 1
    BY <1>2, <2>1
  <2>2. CASE i \in DOMAIN s /\ j \in DOMAIN s
    BY <1>2, <1>3, <2>2 DEF PlainFirst
  <2>3. CASE i = Len(s) + 1 /\ j \in DOMAIN s
    BY <1>2, <1>3, <2>3 DEF Has, ToSet
  <2> QED BY <1>2, <2>1, <2>2, <2>3
<1> QED BY <1>1, <1>3 DEF PlainFirst

\* What is for the root stays when the folders go.
LEMMA PlainRoot ==
  ASSUME NEW X \in {Request, Answer}, NEW s \in Seq(X), NEW g
  PROVE  /\ PlainFirst(s, Root, g) => PlainFirst(Orphaned(s), Root, g)
         /\ \A r \in ToSet(Orphaned(s)) : IsFor(r, Root, g) => r \in ToSet(s)
<1>1. /\ DOMAIN Orphaned(s) = DOMAIN s
      /\ \A i \in DOMAIN s : /\ IsFor(s[i], Root, g) <=> IsFor(Orphaned(s)[i], Root, g)
                             /\ IsFor(s[i], Root, g) => Orphaned(s)[i] = s[i]
  BY OrphanedProperties, NodeNames DEF IsFor
<1> QED BY <1>1 DEF PlainFirst, Plain, ToSet

-----------------------------------------------------------------------------
(* A node whose requests and answers stay, or go, or that is asked for.    *)

LEMMA TurnGone ==
  ASSUME NEW n, ~Has(queue', n, link'.gen), ~Has(out', n, link'.gen)
  PROVE  Turn(n)'
<1>1. \A r \in ToSet(queue') \cup ToSet(out') : ~IsFor(r, n, link'.gen)
  BY DEF Has
<1>2. InTurn(queue', out', n, link'.gen)
  BY <1>1 DEF InTurn, PlainFirst, Plain, NoPlain, ToSet
<1> QED BY <1>1, <1>2 DEF Turn, Plain

\* What was plain when it was asked for is alone, and suits the node.
LEMMA AskedValues ==
  ASSUME TypeInv, NEW n \in Nodes, NEW load \in BOOLEAN
  PROVE  /\ Asked(n, load).load = load
         /\ Asked(n, load).anew = IF load THEN tree[n].seen > 0 \/ Awaited(n) # {}
                                          ELSE \E r \in Awaited(n) : r.load \/ r.anew
BY DEF Asked, Asks

LEMMA AskedFresh ==
  ASSUME TypeInv, NEW n \in Nodes, Turn(n), NEW load \in BOOLEAN, ~Asked(n, load).anew
  PROVE  /\ load => tree[n].seen = 0 /\ ~One(n)
         /\ ~load /\ n \notin soft => ~One(n)
         /\ \A r \in Awaited(n) : ~load /\ Plain(r, n, link.gen) /\ ~r.load
<1>1. tree[n].seen \in Nat
  BY DEF TypeInv, TreeOK, NodeRecord
<1>2. load => tree[n].seen = 0 /\ Awaited(n) = {}
  <2>1. load => ~(tree[n].seen > 0) /\ Awaited(n) = {}
    BY AskedValues
  <2> QED BY <1>1, <2>1
<1>3. \A r \in Awaited(n) : r \in ToSet(queue) \cup ToSet(out) /\ IsFor(r, n, link.gen)
  BY DEF Awaited, OnTheWay, IsFor
<1>4. ~load => \A r \in Awaited(n) : ~r.load /\ ~r.anew
  BY AskedValues
<1>5. ~load => \A r \in Awaited(n) : Plain(r, n, link.gen) /\ n \in soft
  BY <1>3, <1>4 DEF Turn, Plain, Suits
<1> QED BY <1>2, <1>3, <1>4, <1>5, AwaitedIsOne

\* What is asked for in a step.
Fresh(t, n) ==
  /\ Once(t, n, link.gen)
  /\ \A r \in ToSet(t) : IsFor(r, n, link.gen) =>
       \E load \in BOOLEAN : r = Asked(n, load) /\ (load \/ (n \notin soft /\ n \in soft'))

LEMMA TurnKept ==
  ASSUME TypeInv, NEW n \in Nodes, Turn(n), NEW b, NEW t, Grown(b, t), link'.gen = link.gen,
         b = queue \/ n = Root, Fresh(t, n),
         \/ out' = out \/ (n = Root /\ out' = Orphaned(out))
         \/ out # <<>> /\ out' = Tail(out) /\ ~IsFor(Head(out), n, link.gen),
         tree[n].seen = 0 => tree'[n].seen = 0, n \in soft => n \in soft'
  PROVE  Turn(n)'
<1>0. PICK g : g = link.gen
  OBVIOUS
<1>1. queue \in Seq(Request) /\ out \in Seq(Answer) /\ t \in Seq(Request) /\ queue' = b \o t
  BY DEF TypeInv, QueuesOK, Grown
<1>2. InTurn(queue, out, n, g)
  BY <1>0 DEF Turn
<1>3. /\ b \in Seq(Request) /\ PlainFirst(b, n, g)
      /\ \A r \in ToSet(b) : IsFor(r, n, g) => r \in ToSet(queue)
  BY <1>1, <1>2, PlainRoot, OrphanedProperties DEF InTurn, Grown
<1>4. /\ PlainFirst(out', n, g)
      /\ \A r \in ToSet(out') : IsFor(r, n, g) => r \in ToSet(out)
  <2>1. CASE out' = out
    BY <1>2, <2>1 DEF InTurn
  <2>2. CASE n = Root /\ out' = Orphaned(out)
    BY <1>1, <1>2, <2>2, PlainRoot DEF InTurn
  <2>3. CASE out # <<>> /\ out' = Tail(out)
    BY <1>1, <1>2, <2>3, PlainTail DEF InTurn
  <2> QED BY <2>1, <2>2, <2>3
<1>5. InTurn(b, out', n, g)
  BY <1>2, <1>3, <1>4 DEF InTurn, Has, NoPlain, Plain
<1>6. ASSUME NEW r \in ToSet(t), Plain(r, n, g)
      PROVE  Suits(r, n)' /\ ~Has(b, n, g) /\ ~Has(out', n, g)
  <2>1. PICK load \in BOOLEAN : r = Asked(n, load) /\ (load \/ (n \notin soft /\ n \in soft'))
    BY <1>0, <1>6 DEF Fresh, Plain
  <2>2. /\ load => tree[n].seen = 0 /\ ~One(n)
        /\ ~load /\ n \notin soft => ~One(n)
    BY <1>6, <2>1, AskedFresh DEF Plain
  <2>3. r.load = load
    BY <2>1, AskedValues
  <2>4. Suits(r, n)'
    BY <2>1, <2>2, <2>3 DEF Suits
  <2>5. ~Has(queue, n, g) /\ ~Has(out, n, g)
    BY <1>0, <2>1, <2>2 DEF One, OneIn
  <2> QED BY <1>3, <1>4, <2>4, <2>5 DEF Has
<1>7. InTurn(queue', out', n, g)
  <2>1. Once(t, n, g)
    BY <1>0 DEF Fresh
  <2>2. Has(b, n, g) \/ Has(out', n, g) => NoPlain(t, n, g)
    BY <1>6 DEF NoPlain
  <2> QED BY <1>1, <1>3, <1>5, <2>1, <2>2, PlainAdded
<1>8. ASSUME NEW r \in ToSet(queue') \cup ToSet(out'), Plain(r, n, g)
      PROVE  Suits(r, n)'
  <2>1. ToSet(queue') = ToSet(b) \cup ToSet(t)
    BY <1>1, <1>3, ToSetConcat
  <2>2. CASE r \in ToSet(t)
    BY <1>6, <1>8, <2>2
  <2>3. CASE r \in ToSet(b) \cup ToSet(out')
    <3>1. r \in ToSet(queue) \cup ToSet(out)
      BY <1>3, <1>4, <1>8, <2>3 DEF Plain
    <3>2. Suits(r, n)
      BY <1>0, <1>8, <3>1 DEF Turn
    <3> QED BY <3>2 DEF Suits
  <2> QED BY <2>1, <2>2, <2>3
<1> QED BY <1>0, <1>7, <1>8 DEF Turn

\* No request, one, or one for each node of a set.
LEMMA FreshNone == ASSUME NEW n PROVE Fresh(<<>>, n)
<1>1. DOMAIN <<>> = {}
  OBVIOUS
<1> QED BY <1>1, ToSetEmpty DEF Fresh, Once

LEMMA FreshOther ==
  ASSUME NEW t, NEW n, \A r \in ToSet(t) : ~IsFor(r, n, link.gen)
  PROVE  Fresh(t, n)
BY DEF Fresh, Once, ToSet

LEMMA FreshOne ==
  ASSUME TypeInv, NEW m \in Nodes, NEW n \in Nodes, NEW load \in BOOLEAN,
         load \/ (m \notin soft /\ m \in soft')
  PROVE  Fresh(<<Asked(m, load)>>, n)
<1>1. PICK r : r = Asked(m, load)
  OBVIOUS
<1>2. IsFor(r, m, link.gen)
  BY <1>1, AskedRequest
<1>3. DOMAIN <<r>> = {1} /\ <<r>>[1] = r
  OBVIOUS
<1>4. ToSet(<<r>>) = {r} /\ Once(<<r>>, n, link.gen)
  BY <1>3 DEF ToSet, Once
<1> QED BY <1>1, <1>2, <1>4 DEF Fresh, IsFor

LEMMA FreshSoft ==
  ASSUME TypeInv, NEW S \in SUBSET Nodes, SoftRefresh(S), NEW n \in Nodes
  PROVE  Fresh(AskedAll(Softly(S), FALSE), n)
<1>1. Softly(S) \in SUBSET Nodes /\ Softly(S) \cap soft = {} /\ Softly(S) \subseteq soft'
  BY DEF Softly, SoftRefresh
<1>2. PICK t : t = AskedAll(Softly(S), FALSE)
  OBVIOUS
<1>3. /\ \A r \in ToSet(t) : r.kind = "list" /\ r.gen = link.gen /\ r.node \in Softly(S)
      /\ \A i \in DOMAIN t : t[i] = Asked(t[i].node, FALSE)
      /\ \A i, j \in DOMAIN t : t[i].node = t[j].node => i = j
  BY <1>1, <1>2, TypeInvImplies, AskedAllProperties
<1>4. Once(t, n, link.gen)
  BY <1>3 DEF Once, IsFor
<1>5. ASSUME NEW r \in ToSet(t), IsFor(r, n, link.gen)
      PROVE  r = Asked(n, FALSE) /\ n \notin soft /\ n \in soft'
  BY <1>1, <1>3, <1>5 DEF IsFor, ToSet
<1> QED BY <1>2, <1>4, <1>5 DEF Fresh

-----------------------------------------------------------------------------
(* What the user does to the tree.                                         *)

NoneYet(m) == tree[m].seen = 0 => tree'[m].seen = 0
Stands(f) == \/ tree'[f] = tree[f] \/ tree'[f].state # "absent"
             \/ ~tree'[f].open /\ ~tree'[f].below

LEMMA AbsentKept ==
  ASSUME Absent, \A f \in Folders : Stands(f)
  PROVE  Absent'
BY DEF Absent, Stands

\* A step that changes one node and closes nothing.
LEMMA OneChanged ==
  ASSUME TypeInv, NEW n \in Nodes, NEW r \in NodeRecord, tree' = [tree EXCEPT ![n] = r],
         tree[n].seen = 0 => r.seen = 0,
         n \in Folders => r.state # "absent" /\ (tree[n].open => r.open) /\ (tree[n].below => r.below)
  PROVE  /\ \A m \in Nodes : NoneYet(m)
         /\ \A f \in Folders : Stands(f) /\ ~Closed(f)
<1>1. \A m \in Nodes : tree'[m] = IF m = n THEN r ELSE tree[m]
  BY DEF TypeInv, TreeOK
<1> QED BY <1>1, NodeNames DEF NoneYet, Stands, Closed

LEMMA SameTree ==
  ASSUME tree' = tree
  PROVE  /\ \A m \in Nodes : NoneYet(m)
         /\ \A f \in Folders : Stands(f) /\ ~Closed(f)
BY DEF NoneYet, Stands, Closed

LEMMA ViewTree ==
  ASSUME TypeInv, Absent,
         \/ \E n \in Nodes : Expand(n) \/ Timeout(n)
         \/ \E f \in Folders : OpenBelow(f)
         \/ OpenSchema \/ Kick
  PROVE  /\ \A m \in Nodes : NoneYet(m)
         /\ \A f \in Folders : Stands(f) /\ ~Closed(f)
<1>0. tree \in [Nodes -> NodeRecord]
  BY DEF TypeInv, TreeOK
<1>1. CASE \E n \in Nodes : Expand(n)
  <2>1. PICK n \in Nodes : Expand(n)
    BY <1>1
  <2>2. n \in Folders => tree[n].state # "absent"
    BY <2>1, NodeNames DEF Expand, Visible
  <2>3. PICK r : \/ r = [tree[n] EXCEPT !.open = TRUE] /\ tree' = [tree EXCEPT ![n].open = TRUE]
                 \/ \E st \in {"error", "loading"} :
                      /\ r = [tree[n] EXCEPT !.open = TRUE, !.state = st]
                      /\ tree' = [tree EXCEPT ![n].open = TRUE, ![n].state = st]
    BY <2>1 DEF Expand
  <2>4. r \in NodeRecord /\ r.seen = tree[n].seen /\ r.open /\ r.below = tree[n].below
        /\ (n \in Folders => r.state # "absent")
    BY <1>0, <2>2, <2>3 DEF NodeRecord, States
  <2>5. tree' = [tree EXCEPT ![n] = r]
    BY <1>0, <2>3
  <2> QED BY <2>4, <2>5, OneChanged
<1>2. CASE \E n \in Nodes : Timeout(n)
  <2>1. PICK n \in Nodes : Timeout(n)
    BY <1>2
  <2>2. PICK r : r = [tree[n] EXCEPT !.state = "error", !.open = TRUE]
    OBVIOUS
  <2>3. r \in NodeRecord /\ r.seen = tree[n].seen /\ r.open /\ r.below = tree[n].below
        /\ r.state # "absent"
    BY <1>0, <2>2 DEF NodeRecord, States
  <2>4. tree' = [tree EXCEPT ![n] = r]
    BY <1>0, <2>1, <2>2 DEF Timeout
  <2> QED BY <2>3, <2>4, OneChanged
<1>3. CASE \E f \in Folders : OpenBelow(f)
  <2>1. PICK f \in Folders : OpenBelow(f)
    BY <1>3
  <2>2. PICK r : r = [tree[f] EXCEPT !.below = TRUE]
    OBVIOUS
  <2>3. r \in NodeRecord /\ r.seen = tree[f].seen /\ r.open = tree[f].open /\ r.below
        /\ r.state = tree[f].state /\ f \in Nodes
    BY <1>0, <2>2, NodeNames DEF NodeRecord
  <2>4. tree' = [tree EXCEPT ![f] = r] /\ tree[f].state # "absent"
    BY <1>0, <2>1, <2>2, NodeNames DEF OpenBelow, Visible
  <2> QED BY <2>3, <2>4, OneChanged
<1>4. CASE OpenSchema
  <2>1. \A f \in Folders : tree[f].state = "absent" /\ ~tree[f].open /\ ~tree[f].below
    BY <1>4 DEF OpenSchema, Absent
  <2>2. /\ tree'[Root] = tree[Root]
        /\ \A f \in Folders : tree'[f] = Blank("idle")
    BY <1>4, NodeNames DEF OpenSchema
  <2>3. Blank("idle").seen = 0 /\ Blank("idle").state # "absent"
    BY DEF Blank
  <2> QED BY <2>1, <2>2, <2>3, NodeNames DEF NoneYet, Stands, Closed
<1>5. CASE Kick
  <2>1. PICK r : r = [tree[Root] EXCEPT !.state = "loading"]
    OBVIOUS
  <2>2. r \in NodeRecord /\ r.seen = tree[Root].seen /\ Root \in Nodes /\ Root \notin Folders
    BY <1>0, <2>1, NodeNames DEF NodeRecord, States
  <2>3. tree' = [tree EXCEPT ![Root] = r]
    BY <1>0, <1>5, <2>1 DEF Kick
  <2> QED BY <2>2, <2>3, OneChanged
<1> QED BY <1>1, <1>2, <1>3, <1>4, <1>5

LEMMA CollapseTree ==
  ASSUME TypeInv, NEW n \in Nodes, Collapse(n)
  PROVE  /\ \A m \in Nodes : NoneYet(m)
         /\ \A f \in Folders : Stands(f) /\ (Closed(f) => f = n)
<1>0. tree \in [Nodes -> NodeRecord] /\ tree' = [tree EXCEPT ![n].open = FALSE]
  BY DEF TypeInv, TreeOK, Collapse
<1>1. n \in Folders => tree[n].state # "absent"
  BY NodeNames DEF Collapse, Visible
<1>2. /\ \A m \in Nodes \ {n} : tree'[m] = tree[m]
      /\ tree'[n].state = tree[n].state /\ tree'[n].seen = tree[n].seen
  BY <1>0 DEF NodeRecord
<1> QED BY <1>1, <1>2, NodeNames DEF NoneYet, Stands, Closed

\* A node is read again, or disowned.
LEMMA DroppedTree ==
  ASSUME TypeInv, NEW n \in Nodes, NEW st \in {"loading", "idle", "error"}, NEW o,
         \/ tree' = [Bared(n) EXCEPT ![n].state = st, ![n].open = o]
         \/ n # Root /\ tree' = [Bared(n) EXCEPT ![n].state = st]
  PROVE  /\ \A m \in Nodes : NoneYet(m)
         /\ \A f \in Folders : Stands(f)
<1>0. tree \in [Nodes -> NodeRecord]
  BY DEF TypeInv, TreeOK
<1>1. CASE n = Root
  <2>1. /\ \A m \in Nodes : /\ Bared(n)[m].seen = 0
                            /\ m # Root => Bared(n)[m] = Blank("absent")
        /\ Bared(n) = [k \in Nodes |-> Blank(IF k = Root THEN tree[Root].state ELSE "absent")]
    BY <1>1 DEF Bared, Bare, Blank
  <2>2. \A m \in Nodes : tree'[m].seen = 0
    <3>1. tree' = [Bared(n) EXCEPT ![n].state = st, ![n].open = o]
      BY <1>1
    <3>2. \A m \in Nodes : m # n => tree'[m] = Bared(n)[m]
      BY <2>1, <3>1
    <3>3. tree'[n].seen = 0
      BY <2>1, <3>1 DEF Blank
    <3> QED BY <2>1, <3>2, <3>3
  <2>3. \A m \in Folders : tree'[m] = Blank("absent")
    BY <1>1, <2>1, NodeNames
  <2>4. ~Blank("absent").open /\ ~Blank("absent").below
    BY DEF Blank
  <2> QED BY <2>2, <2>3, <2>4 DEF NoneYet, Stands
<1>2. CASE n # Root
  <2>1. Bared(n) = [tree EXCEPT ![n].seen = 0, ![n].below = FALSE]
    BY <1>2 DEF Bared
  <2>2. /\ \A m \in Nodes \ {n} : tree'[m] = tree[m]
        /\ tree'[n].seen = 0 /\ tree'[n].state = st
    BY <1>0, <2>1 DEF NodeRecord
  <2> QED BY <2>2, NodeNames DEF NoneYet, Stands
<1> QED BY <1>1, <1>2

LEMMA RefreshTree ==
  ASSUME TypeInv, NEW n \in Nodes, Reread(n) \/ Freshen(n) \/ Disowned(n)
  PROVE  /\ \A m \in Nodes : NoneYet(m)
         /\ \A f \in Folders : Stands(f) /\ (Closed(f) => ~Freshen(n))
<1>1. CASE Reread(n)
  <2>1. (IF tree[n].open THEN "loading" ELSE "idle") \in {"loading", "idle", "error"}
    OBVIOUS
  <2>2. PICK st \in {"loading", "idle", "error"}, o \in {tree[n].open} :
          tree' = [Bared(n) EXCEPT ![n].state = st, ![n].open = o]
    BY <1>1, <2>1 DEF Reread
  <2>3. Freshen(n) => tree' = tree
    BY DEF Freshen
  <2> QED BY <2>2, <2>3, DroppedTree, SameTree
<1>2. CASE Freshen(n)
  BY <1>2, SameTree DEF Freshen
<1>3. CASE Disowned(n)
  <2>1. (IF tree[n].open THEN "error" ELSE "idle") \in {"loading", "idle", "error"}
    OBVIOUS
  <2>2. PICK st \in {"loading", "idle", "error"} :
          n # Root /\ tree' = [Bared(n) EXCEPT ![n].state = st]
    BY <1>3, <2>1 DEF Disowned
  <2>3. Freshen(n) => tree' = tree
    BY DEF Freshen
  <2> QED BY <2>2, <2>3, DroppedTree, SameTree
<1> QED BY <1>1, <1>2, <1>3

\* What closes a node is what the user does with it.
LEMMA UserTree ==
  ASSUME TypeInv, Absent, User
  PROVE  /\ \A m \in Nodes : NoneYet(m)
         /\ \A f \in Folders : Stands(f) /\ (Closed(f) => OwnAct(f))
<1>1. CASE \/ \E n \in Nodes : Expand(n) \/ Timeout(n)
           \/ \E f \in Folders : OpenBelow(f)
           \/ OpenSchema \/ Kick
  BY <1>1, ViewTree
<1>2. CASE \E n \in Nodes : Collapse(n)
  BY <1>2, CollapseTree DEF OwnAct
<1>3. CASE \E n \in Nodes, hard \in BOOLEAN : Refresh(n, hard)
  <2>1. PICK n \in Nodes, hard \in BOOLEAN : Refresh(n, hard)
    BY <1>3
  <2>2. Reread(n) \/ Freshen(n) \/ Disowned(n)
    BY <2>1 DEF Refresh
  <2>3. CASE Freshen(n)
    BY <2>2, <2>3, RefreshTree
  <2>4. CASE ~Freshen(n)
    <3>1. hard = FALSE /\ tree[n].state = "loaded" => Disowned(n)
      BY <2>1, <2>4 DEF Refresh, Hard
    <3>2. Disowned(n) => Refresh(n, TRUE)
      BY <2>1 DEF Refresh
    <3>3. Refresh(n, TRUE) \/ (tree[n].state # "loaded" /\ Refresh(n, FALSE))
      <4>1. CASE hard = TRUE
        BY <2>1, <4>1
      <4>2. CASE hard = FALSE
        BY <2>1, <3>1, <3>2, <4>2
      <4> QED BY <4>1, <4>2
    <3>4. ASSUME NEW f \in Folders
          PROVE  OwnAct(f)
      BY <3>3 DEF OwnAct
    <3> QED BY <2>2, <3>4, RefreshTree
  <2> QED BY <2>3, <2>4
<1>4. CASE (\E f \in Folders : NoteMissing(f)) \/ SwitchUnit
  BY <1>4, SameTree DEF NoteMissing, Freshen, SwitchUnit
<1> QED BY <1>1, <1>2, <1>3, <1>4 DEF User

-----------------------------------------------------------------------------
(* The steps, as to what is on its way.                                    *)

\* Nothing is read off, or something that is no list of this generation.
NoList == \/ out' = out
          \/ out # <<>> /\ out' = Tail(out) /\ \A n \in Nodes : ~IsFor(Head(out), n, link.gen)

LEMMA QuietTurns ==
  ASSUME TypeInv, Turns, NEW t, Grown(queue, t), link'.gen = link.gen, NoList,
         \A n \in Nodes : Fresh(t, n) /\ NoneYet(n), soft \subseteq soft'
  PROVE  Turns'
<1>1. ASSUME NEW n \in Nodes
      PROVE  Turn(n)'
  <2>1. Turn(n) /\ Fresh(t, n) /\ (tree[n].seen = 0 => tree'[n].seen = 0)
    BY DEF Turns, NoneYet
  <2> QED BY <2>1, TurnKept DEF NoList
<1> QED BY <1>1 DEF Turns

LEMMA SoftTurns ==
  ASSUME TypeInv, Turns, NEW S \in SUBSET Nodes, SoftRefresh(S), UNCHANGED <<link, tree>>, NoList
  PROVE  Turns'
<1>1. PICK t : Grown(queue, t) /\ \A n \in Nodes : Fresh(t, n)
  BY GrownSoft, FreshSoft
<1>2. soft \subseteq soft' /\ \A n \in Nodes : NoneYet(n)
  BY SameTree DEF SoftRefresh
<1> QED BY <1>1, <1>2, QuietTurns

LEMMA ListTurns ==
  ASSUME TypeInv, Turns, NEW n \in Nodes,
         UNCHANGED queue \/ queue' = Append(queue, Asked(n, TRUE)),
         link'.gen = link.gen, soft' = soft, NoList, \A m \in Nodes : NoneYet(m)
  PROVE  Turns'
<1>1. CASE UNCHANGED queue
  BY <1>1, GrownSame, FreshNone, QuietTurns
<1>2. CASE queue' = Append(queue, Asked(n, TRUE))
  <2>1. Grown(queue, <<Asked(n, TRUE)>>)
    BY <1>2, AskedRequest, GrownAsk
  <2>2. \A m \in Nodes : Fresh(<<Asked(n, TRUE)>>, m)
    BY FreshOne
  <2> QED BY <2>1, <2>2, QuietTurns
<1> QED BY <1>1, <1>2

LEMMA RootRereadTurns ==
  ASSUME TypeInv, Turns, Reread(Root), link' = link
  PROVE  Turns'
<1>0. /\ queue \in Seq(Request) /\ out \in Seq(Answer) /\ out' = Orphaned(out)
      /\ soft' = soft \cap {Root} /\ link'.gen = link.gen
  BY DEF TypeInv, QueuesOK, Reread, Clears
<1>1. PICK t : /\ Grown(Orphaned(queue), t) /\ Fresh(t, Root)
               /\ \A r \in ToSet(t) : IsFor(r, Root, link.gen)
  <2>1. CASE queue' = Orphaned(queue)
    <3>1. Grown(Orphaned(queue), <<>>)
      BY <1>0, <2>1, OrphanedProperties, ConcatEmptySeq, ToSetEmpty DEF Grown
    <3> QED BY <3>1, FreshNone, ToSetEmpty
  <2>2. CASE queue' = Append(Orphaned(queue), Asked(Root, TRUE))
    <3>1. /\ Grown(Orphaned(queue), <<Asked(Root, TRUE)>>)
          /\ ToSet(<<Asked(Root, TRUE)>>) = {Asked(Root, TRUE)}
          /\ IsFor(Asked(Root, TRUE), Root, link.gen)
      BY <2>2, NodeNames, AskedRequest, GrownAsk
    <3>2. Fresh(<<Asked(Root, TRUE)>>, Root)
      BY NodeNames, FreshOne
    <3> QED BY <3>1, <3>2
  <2> QED BY <2>1, <2>2 DEF Reread, Kept
<1>2. ASSUME NEW f \in Folders
      PROVE  Turn(f)'
  <2>1. ~Has(Orphaned(queue), f, link.gen) /\ ~Has(out', f, link.gen)
    BY <1>0, FoldersGo
  <2>2. ~Has(t, f, link.gen)
    BY <1>1, NodeNames DEF Has, IsFor
  <2>3. Orphaned(queue) \in Seq(Request) /\ t \in Seq(Request) /\ queue' = Orphaned(queue) \o t
    BY <1>0, <1>1, OrphanedProperties DEF Grown
  <2>4. ~Has(queue', f, link.gen)
    BY <2>1, <2>2, <2>3, WithMore
  <2> QED BY <1>0, <2>1, <2>4, TurnGone
<1>3. Turn(Root)'
  <2>1. tree[Root].seen = 0 => tree'[Root].seen = 0
    BY NodeNames, RefreshTree DEF NoneYet
  <2>2. Turn(Root) /\ (Root \in soft => Root \in soft') /\ Root \in Nodes
    BY <1>0, NodeNames DEF Turns
  <2> QED BY <1>0, <1>1, <2>1, <2>2, TurnKept
<1> QED BY <1>2, <1>3, NodeNames DEF Turns

LEMMA RefreshTurns ==
  ASSUME TypeInv, Turns, NEW n \in Nodes, Reread(n) \/ Freshen(n) \/ Disowned(n), link' = link
  PROVE  Turns'
<1>1. CASE Reread(n) /\ n = Root
  BY <1>1, RootRereadTurns
<1>2. CASE Reread(n) /\ n # Root
  <2>1. UNCHANGED queue \/ queue' = Append(queue, Asked(n, TRUE))
    BY <1>2 DEF Reread, Kept
  <2>2. UNCHANGED <<out, soft>>
    BY <1>2 DEF Reread, Clears
  <2> QED BY <1>2, <2>1, <2>2, RefreshTree, ListTurns DEF NoList
<1>3. CASE Freshen(n)
  <2>1. PICK S \in SUBSET Nodes : SoftRefresh(S)
    BY <1>3 DEF Freshen
  <2> QED BY <1>3, <2>1, SoftTurns DEF Freshen, NoList
<1>4. CASE Disowned(n)
  BY <1>4, RefreshTree, ListTurns DEF Disowned, NoList
<1> QED BY <1>1, <1>2, <1>3, <1>4

LEMMA SwitchTurns == ASSUME TypeInv, Turns, SwitchUnit PROVE Turns'
<1>0. /\ unit \in [ session : Nat, shown : Nat ] /\ link.gen \in Nat /\ queue \in Seq(Request)
  BY DEF TypeInv, OtherOK, LinkRecord, QueuesOK
<1>1. PICK u : u = [Asks("use", Gone, link.gen) EXCEPT !.unit = unit.session + 1]
  OBVIOUS
<1>2. u \in Request /\ u.kind = "use" /\ u.gen = link.gen
  <2>1. PICK v : v = Asks("use", Gone, link.gen)
    OBVIOUS
  <2>2. v \in Request /\ v.kind = "use" /\ v.gen = link.gen
    <3>1. v \in Request
      BY <1>0, <2>1, AsksType, TypeInvImplies
    <3> QED BY <2>1, <3>1 DEF Asks
  <2>3. unit.session + 1 \in Nat /\ u = [v EXCEPT !.unit = unit.session + 1]
    BY <1>0, <1>1, <2>1
  <2> QED BY <2>2, <2>3 DEF Request
<1>3. PICK r : r = Asked(Root, FALSE)
  OBVIOUS
<1>4. r \in Request /\ r.kind # "open" /\ r.gen = link.gen /\ IsFor(r, Root, link.gen)
  BY <1>3, NodeNames, AskedRequest
<1>5. /\ \/ queue' = Append(queue, u) /\ soft' \in {soft, soft \cup {Root}}
         \/ queue' = Append(Append(queue, u), r) /\ Root \notin soft /\ soft' = soft \cup {Root}
      /\ UNCHANGED <<tree, out, link>>
  BY <1>1, <1>3 DEF SwitchUnit, Doubled, paneVars
<1>6. soft \subseteq soft' /\ NoList /\ \A n \in Nodes : NoneYet(n)
  BY <1>5, SameTree DEF NoList
<1>7. CASE queue' = Append(queue, u)
  <2>1. Grown(queue, <<u>>) /\ ToSet(<<u>>) = {u}
    BY <1>2, <1>7, GrownAsk
  <2>2. \A n \in Nodes : Fresh(<<u>>, n)
    BY <1>2, <2>1, FreshOther DEF IsFor
  <2> QED BY <1>5, <1>6, <2>1, <2>2, QuietTurns
<1>8. CASE queue' = Append(Append(queue, u), r) /\ Root \notin soft /\ soft' = soft \cup {Root}
  <2>1. PICK t : t = Append(<<u>>, r)
    OBVIOUS
  <2>2. PICK p : p = <<u>> /\ p \in Seq(Request) /\ ToSet(p) = {u} /\ Len(p) = 1 /\ p[1] = u
    <3>1. <<u>> \in Seq(Request) /\ DOMAIN <<u>> = {1} /\ <<u>>[1] = u /\ Len(<<u>>) = 1
      BY <1>2
    <3>2. ToSet(<<u>>) = {u}
      BY <3>1 DEF ToSet
    <3> QED BY <3>1, <3>2
  <2>3. /\ t \in Seq(Request) /\ ToSet(t) = {u, r} /\ DOMAIN t = {1, 2} /\ t[1] = u /\ t[2] = r
    <3>1. /\ t \in Seq(Request) /\ Len(t) = 2 /\ t[1] = u /\ t[2] = r
      BY <1>4, <2>1, <2>2, AppendProperties
    <3>2. DOMAIN t = {1, 2}
      BY <3>1, LenProperties
    <3> QED BY <3>1, <3>2 DEF ToSet
  <2>4. queue' = queue \o t
    <3>1. t = p \o <<r>> /\ queue \o p = Append(queue, u) /\ <<r>> \in Seq(Request)
      BY <1>0, <1>2, <1>4, <2>1, <2>2, AppendIsConcat
    <3>2. (queue \o p) \o <<r>> = queue \o (p \o <<r>>)
      BY <1>0, <2>2, <3>1, ConcatAssociative
    <3>3. Append(queue, u) \in Seq(Request)
      BY <1>0, <1>2, AppendProperties
    <3>4. Append(Append(queue, u), r) = Append(queue, u) \o <<r>>
      BY <1>4, <3>3, AppendIsConcat
    <3> QED BY <1>8, <3>1, <3>2, <3>4
  <2>5. Grown(queue, t)
    BY <1>2, <1>4, <2>3, <2>4 DEF Grown
  <2>6. \A n \in Nodes : Fresh(t, n)
    BY <1>2, <1>3, <1>4, <1>8, <2>3 DEF Fresh, Once, IsFor
  <2> QED BY <1>5, <1>6, <2>5, <2>6, QuietTurns
<1> QED BY <1>5, <1>7, <1>8

LEMMA UserTurns == ASSUME TypeInv, Absent, Turns, User PROVE Turns'
<1>0. \A m \in Nodes : NoneYet(m)
  BY UserTree
<1>1. CASE \/ \E n \in Nodes : Expand(n) \/ Collapse(n) \/ Timeout(n)
           \/ \E f \in Folders : OpenBelow(f)
           \/ OpenSchema \/ Kick
  <2>1. UNCHANGED <<link, out, soft>>
    BY <1>1 DEF Expand, Collapse, Timeout, OpenBelow, OpenSchema, Kick, paneVars
  <2>2. PICK n \in Nodes : UNCHANGED queue \/ queue' = Append(queue, Asked(n, TRUE))
    BY <1>1, NodeNames DEF Expand, Collapse, Timeout, OpenBelow, OpenSchema, Kick
  <2> QED BY <1>0, <2>1, <2>2, ListTurns DEF NoList
<1>2. CASE \/ \E n \in Nodes, hard \in BOOLEAN : Refresh(n, hard)
           \/ \E f \in Folders : NoteMissing(f)
  <2>1. PICK n \in Nodes : (Reread(n) \/ Freshen(n) \/ Disowned(n)) /\ link' = link
    BY <1>2, NodeNames DEF Refresh, NoteMissing
  <2> QED BY <2>1, RefreshTurns
<1>3. CASE SwitchUnit
  BY <1>3, SwitchTurns
<1> QED BY <1>1, <1>2, <1>3 DEF User

LEMMA ServerTurns == ASSUME TypeInv, Turns, Server PROVE Turns'
<1>1. UNCHANGED <<link, tree, out>>
  BY DEF Server, Ddl, Elsewhere, RunEnds, Commit, Rollback, paneVars
<1>2. CASE RunEnds \/ Commit
  <2>1. PICK S \in SUBSET Nodes : SoftRefresh(S)
    BY <1>2 DEF RunEnds, Commit, TypeInv, OtherOK, RunRecord
  <2> QED BY <1>1, <2>1, SoftTurns DEF NoList
<1>3. CASE Rollback \/ \E n \in Nodes : Ddl(n) \/ Elsewhere(n)
  <2>1. UNCHANGED <<queue, soft>>
    BY <1>3 DEF Rollback, Ddl, Elsewhere
  <2> QED BY <1>1, <2>1, SameTree, NodeNames, ListTurns DEF NoList
<1> QED BY <1>2, <1>3 DEF Server

LEMMA PollTurns == ASSUME TypeInv, Turns, Poll PROVE Turns'
<1>1. PICK r : r = Asks("marks", Gone, link.gen)
  OBVIOUS
<1>2. r \in Request /\ r.kind = "marks" /\ r.gen = link.gen
  <2>1. link.gen \in Nat
    BY DEF TypeInv, OtherOK, LinkRecord
  <2> QED BY <1>1, <2>1, AsksType, TypeInvImplies
<1>3. queue' = Append(queue, r) /\ UNCHANGED <<link, tree, out, soft>>
  BY <1>1 DEF Poll
<1>4. Grown(queue, <<r>>) /\ ToSet(<<r>>) = {r}
  BY <1>2, <1>3, GrownAsk
<1>5. \A n \in Nodes : Fresh(<<r>>, n)
  BY <1>2, <1>4, FreshOther DEF IsFor
<1> QED BY <1>3, <1>4, <1>5, SameTree, QuietTurns DEF NoList

LEMMA ConnectionTurns == ASSUME TypeInv, Connection PROVE Turns'
<1>0. queue \in Seq(Request) /\ link \in LinkRecord /\ \A r \in ToSet(queue) : Fits(r)
  BY DEF TypeInv, QueuesOK, OtherOK
<1>1. CASE Connect \/ Rebind
  <2>1. link'.gen = link.gen + 1 /\ link.gen \in Nat
    BY <1>0, <1>1, LinkMoves DEF Connect, Rebind
  <2>2. PICK r : r = Asks("open", Root, link.gen + 1)
    OBVIOUS
  <2>3. r \in Request /\ r.kind = "open" /\ queue' = Append(queue, r)
    BY <1>1, <2>1, <2>2, AsksType, TypeInvImplies, NodeNames DEF Connect, Rebind
  <2>4. \A q \in ToSet(queue) : q.gen <= link.gen /\ q.gen \in Nat
    <3>1. \A q \in ToSet(queue) : q \in Request
      BY <1>0, ElementOfSeq, LenProperties DEF ToSet
    <3> QED BY <1>0, <3>1 DEF Fits, Request
  <2>5. ToSet(queue') = ToSet(queue) \cup {r}
    BY <1>0, <2>3, ToSetAppend
  <2>6. \A n \in Nodes : ~Has(queue', n, link'.gen)
    BY <2>1, <2>3, <2>4, <2>5 DEF Has, IsFor
  <2> QED BY <1>1, <2>6, NoneOfNext, TurnGone DEF Turns
<1>2. CASE GoOffline \/ RemovePane
  <2>1. queue' = <<>> /\ out' = <<>>
    BY <1>2 DEF GoOffline, RemovePane
  <2>2. \A n \in Nodes : ~Has(queue', n, link'.gen) /\ ~Has(out', n, link'.gen)
    BY <2>1, ToSetEmpty DEF Has
  <2> QED BY <2>2, TurnGone DEF Turns
<1> QED BY <1>1, <1>2 DEF Connection

\* The thread takes the oldest list, so the one that is first.
LEMMA ServeTurns == ASSUME TypeInv, Turns, Serve PROVE Turns'
<1>0. /\ UNCHANGED <<link, tree, soft>> /\ out \in Seq(Answer) /\ queue \in Seq(Request)
  BY DEF Serve, TypeInv, QueuesOK
<1>1. PICK k : k = Pick
  OBVIOUS
<1>2. PICK r : r = queue[k]
  OBVIOUS
<1>3. /\ queue # <<>> /\ queue' = RemoveAt(queue, k)
      /\ \/ UNCHANGED out
         \/ /\ Opens(r) \/ Reads(r)
            /\ \E ok \in BOOLEAN : out' = Append(out, Answered(r, ok))
  BY <1>1, <1>2 DEF Serve
<1>4. /\ k \in DOMAIN queue /\ r \in Request
      /\ \A j \in DOMAIN queue : Prio(r) < Prio(queue[j]) \/ (Prio(r) = Prio(queue[j]) /\ k <= j)
  BY <1>0, <1>1, <1>2, <1>3, PickProperties, Taken
<1>5. ASSUME NEW n \in Nodes
      PROVE  Turn(n)'
  <2>0. PICK g : g = link.gen
    OBVIOUS
  <2>1. /\ InTurn(queue, out, n, g)
        /\ \A x \in ToSet(queue) \cup ToSet(out) : Plain(x, n, g) => Suits(x, n)
    BY <2>0 DEF Turns, Turn
  <2>2. /\ PlainFirst(queue', n, g) /\ ToSet(queue') \subseteq ToSet(queue)
        /\ Plain(r, n, g) => NoPlain(queue', n, g)
    BY <1>0, <1>2, <1>3, <1>4, <2>1, PlainLeft DEF InTurn
  <2>3. r \in ToSet(queue)
    BY <1>2, <1>4 DEF ToSet
  <2>4. CASE UNCHANGED out
    <3>1. InTurn(queue', out', n, g)
      BY <2>1, <2>2, <2>4 DEF InTurn, NoPlain
    <3>2. \A x \in ToSet(queue') \cup ToSet(out') : Plain(x, n, g) => Suits(x, n)'
      BY <1>0, <2>1, <2>2, <2>4 DEF Suits
    <3> QED BY <1>0, <2>0, <3>1, <3>2 DEF Turn
  <2>5. ASSUME NEW a \in Answer, out' = Append(out, a), a.kind = r.kind, a.node = r.node,
               a.gen = r.gen, a.load = r.load, a.anew = r.anew
        PROVE  Turn(n)'
    <3>1. /\ IsFor(a, n, g) <=> IsFor(r, n, g)
          /\ Plain(a, n, g) <=> Plain(r, n, g)
          /\ Suits(a, n) <=> Suits(r, n)
      BY <2>5 DEF IsFor, Plain, Suits
    <3>2. ToSet(out') = ToSet(out) \cup {a}
      BY <1>0, <2>5, ToSetAppend
    <3>3. Plain(a, n, g) => ~Has(out, n, g)
      BY <2>1, <2>3, <3>1 DEF InTurn, NoPlain
    <3>4. PlainFirst(out', n, g)
      BY <1>0, <2>1, <2>5, <3>3, PlainAnswered DEF InTurn
    <3>5. IsFor(r, n, g) => NoPlain(queue', n, g)
      <4>1. CASE Plain(r, n, g)
        BY <2>2, <4>1
      <4>2. CASE IsFor(r, n, g) /\ ~Plain(r, n, g)
        <5>1. ASSUME NEW j \in DOMAIN queue, Plain(queue[j], n, g)
              PROVE  FALSE
          <6>1. Prio(r) = 1 /\ Prio(queue[j]) = 1
            BY <4>2, <5>1 DEF Prio, IsFor, Plain
          <6>2. k <= j /\ j <= k
            BY <1>2, <1>4, <2>1, <4>2, <5>1, <6>1 DEF InTurn, PlainFirst
          <6>3. j = k
            BY <1>0, <1>4, <6>2, LenProperties
          <6> QED BY <1>2, <4>2, <5>1, <6>3
        <5>2. NoPlain(queue, n, g)
          BY <5>1 DEF NoPlain, ToSet
        <5> QED BY <2>2, <5>2 DEF NoPlain
      <4> QED BY <4>1, <4>2
    <3>6. Has(out', n, g) => NoPlain(queue', n, g)
      <4>1. CASE IsFor(a, n, g)
        BY <3>1, <3>5, <4>1
      <4>2. CASE ~IsFor(a, n, g)
        BY <2>1, <2>2, <3>2, <4>2 DEF Has, InTurn, NoPlain
      <4> QED BY <4>1, <4>2
    <3>7. InTurn(queue', out', n, g)
      BY <2>2, <3>4, <3>6 DEF InTurn
    <3>8. \A x \in ToSet(queue') \cup ToSet(out') : Plain(x, n, g) => Suits(x, n)'
      BY <1>0, <2>1, <2>2, <2>3, <3>1, <3>2 DEF Suits
    <3> QED BY <1>0, <2>0, <3>7, <3>8 DEF Turn
  <2>6. CASE /\ Opens(r) \/ Reads(r)
             /\ \E ok \in BOOLEAN : out' = Append(out, Answered(r, ok))
    <3>1. PICK ok \in BOOLEAN : out' = Append(out, Answered(r, ok))
      BY <2>6
    <3>2. r.kind \in {"open", "list", "marks"}
      BY <2>6 DEF Opens, Reads
    <3>3. PICK a : a = Answered(r, ok)
      OBVIOUS
    <3>4. a \in Answer /\ a.kind = r.kind /\ a.node = r.node /\ a.gen = r.gen
      BY <1>4, <3>2, <3>3, AnsweredType
    <3>5. a.load = r.load /\ a.anew = r.anew
      BY <3>3 DEF Answered
    <3> QED BY <2>5, <3>1, <3>3, <3>4, <3>5
  <2> QED BY <1>3, <2>4, <2>6
<1> QED BY <1>5 DEF Turns

-----------------------------------------------------------------------------
(* The tree reads an answer off.                                           *)

\* What is left is not plain; a root asked for once more is alone if it is.
LEMMA ReadTurn ==
  ASSUME TypeInv, NEW n \in Nodes, Turn(n), out # <<>>, IsFor(Head(out), n, link.gen),
         link'.gen = link.gen,
         NEW b, NEW o, \/ b = queue /\ o = Tail(out)
                       \/ n = Root /\ b = Orphaned(queue) /\ o = Orphaned(Tail(out)),
         out' = o,
         \/ queue' = b
         \/ n = Root /\ queue' = Append(b, Asked(Root, FALSE)) /\ Root \in soft'
  PROVE  Turn(n)'
<1>0. PICK g : g = link.gen
  OBVIOUS
<1>1. /\ queue \in Seq(Request) /\ out \in Seq(Answer) /\ Tail(out) \in Seq(Answer)
      /\ ToSet(out) = ToSet(Tail(out)) \cup {Head(out)}
  BY HeadTailProperties, ToSetTail DEF TypeInv, QueuesOK
<1>2. InTurn(queue, out, n, g) /\ IsFor(Head(out), n, g)
  BY <1>0 DEF Turn
<1>3. Has(out, n, g)
  BY <1>1, <1>2 DEF Has
<1>4. NoPlain(queue, n, g) /\ NoPlain(Tail(out), n, g)
  BY <1>1, <1>2, <1>3, PlainTail DEF InTurn
<1>5. /\ b \in Seq(Request) /\ o \in Seq(Answer)
      /\ \A r \in ToSet(b) : IsFor(r, n, g) => r \in ToSet(queue)
      /\ \A r \in ToSet(o) : IsFor(r, n, g) => r \in ToSet(Tail(out))
  <2>1. CASE b = queue /\ o = Tail(out)
    BY <1>1, <2>1
  <2>2. CASE n = Root /\ b = Orphaned(queue) /\ o = Orphaned(Tail(out))
    <3>1. /\ b \in Seq(Request)
          /\ \A r \in ToSet(b) : IsFor(r, n, g) => r \in ToSet(queue)
      BY <1>1, <2>2, PlainRoot, OrphanedProperties
    <3>2. /\ o \in Seq(Answer)
          /\ \A r \in ToSet(o) : IsFor(r, n, g) => r \in ToSet(Tail(out))
      BY <1>1, <2>2, PlainRoot, OrphanedProperties
    <3> QED BY <3>1, <3>2
  <2> QED BY <2>1, <2>2
<1>6. NoPlain(b, n, g) /\ NoPlain(o, n, g)
  BY <1>4, <1>5 DEF NoPlain, Plain
<1>7. InTurn(b, o, n, g)
  BY <1>6 DEF InTurn, PlainFirst, NoPlain, ToSet
<1>8. CASE queue' = b
  BY <1>0, <1>6, <1>7, <1>8 DEF Turn, NoPlain
<1>9. CASE n = Root /\ queue' = Append(b, Asked(Root, FALSE)) /\ Root \in soft'
  <2>1. PICK r : r = Asked(n, FALSE)
    OBVIOUS
  <2>2. r \in Request /\ ~r.load
    BY <2>1, AskedRequest, AskedValues
  <2>3. <<r>> \in Seq(Request) /\ DOMAIN <<r>> = {1} /\ <<r>>[1] = r
    BY <2>2
  <2>4. ToSet(<<r>>) = {r} /\ Once(<<r>>, n, g)
    BY <2>3 DEF ToSet, Once
  <2>5. queue' = b \o <<r>> /\ ToSet(queue') = ToSet(b) \cup {r}
    <3>1. queue' = Append(b, r) /\ b \in Seq(Request) /\ r \in Request
      BY <1>5, <1>9, <2>1, <2>2
    <3>2. ToSet(Append(b, r)) = ToSet(b) \cup {r}
      BY <3>1, ToSetAppend
    <3>3. Append(b, r) = b \o <<r>>
      BY <3>1, AppendIsConcat
    <3> QED BY <3>1, <3>2, <3>3
  <2>6. Plain(r, n, g) => ~Has(b, n, g) /\ ~Has(o, n, g)
    <3> SUFFICES ASSUME Plain(r, n, g)
                 PROVE  ~Has(b, n, g) /\ ~Has(o, n, g)
      OBVIOUS
    <3>1. \A x \in Awaited(n) : Plain(x, n, g)
      BY <1>0, <2>1, AskedFresh DEF Plain
    <3>2. \A x \in ToSet(queue) \cup ToSet(Tail(out)) : IsFor(x, n, g) => x \in Awaited(n)
      BY <1>0, <1>1 DEF Awaited, OnTheWay, IsFor
    <3> QED BY <1>4, <1>5, <3>1, <3>2 DEF Has, NoPlain
  <2>7. InTurn(queue', out', n, g)
    <3>1. Has(b, n, g) \/ Has(o, n, g) => NoPlain(<<r>>, n, g)
      BY <2>4, <2>6 DEF NoPlain
    <3> QED BY <1>5, <1>7, <2>3, <2>4, <2>5, <3>1, PlainAdded
  <2>8. \A x \in ToSet(queue') \cup ToSet(out') : Plain(x, n, g) => Suits(x, n)'
    BY <1>6, <1>9, <2>2, <2>5 DEF NoPlain, Suits
  <2> QED BY <1>0, <2>7, <2>8 DEF Turn
<1> QED BY <1>8, <1>9

\* An answer is none of a list, or of one of another generation.
OtherRead(a) == a = Head(out) /\ (Dropped(a) \/ Opened(a) \/ Marked(a))

LEMMA OtherReadFrame ==
  ASSUME TypeInv, out # <<>>, NEW a, OtherRead(a)
  PROVE  /\ NoList /\ link'.gen = link.gen
         /\ \A m \in Nodes : NoneYet(m)
         /\ \A f \in Folders : Stands(f) /\ ~Closed(f)
<1>0. tree \in [Nodes -> NodeRecord] /\ link \in LinkRecord
  BY DEF TypeInv, TreeOK, OtherOK
<1>1. NoList
  BY NodeNames DEF OtherRead, Dropped, Opened, Marked, NoList, IsFor
<1>2. CASE Opened(a)
  <2>1. link'.gen = link.gen
    BY <1>0, <1>2 DEF Opened, LinkRecord
  <2>2. CASE tree' = tree
    BY <1>1, <2>1, <2>2, SameTree
  <2>3. CASE tree' # tree
    <3>1. \/ tree' = [tree EXCEPT ![Root].state = "error"]
          \/ tree' = [tree EXCEPT ![Root].state = "idle", ![Root].open = FALSE]
          \/ tree' = [tree EXCEPT ![Root].state = "loading", ![Root].open = TRUE]
      BY <1>2, <2>3 DEF Opened
    <3>2. /\ \A m \in Nodes \ {Root} : tree'[m] = tree[m]
          /\ tree'[Root].seen = tree[Root].seen
      BY <1>0, <3>1, NodeNames DEF NodeRecord
    <3> QED BY <1>1, <2>1, <3>2, NodeNames DEF NoneYet, Stands, Closed
  <2> QED BY <2>2, <2>3
<1>3. CASE ~Opened(a)
  BY <1>1, <1>3, SameTree DEF OtherRead, Dropped, Marked
<1> QED BY <1>2, <1>3

LEMMA OtherReadTurns ==
  ASSUME TypeInv, Turns, out # <<>>, NEW a, OtherRead(a)
  PROVE  Turns'
<1>1. NoList /\ link'.gen = link.gen /\ \A m \in Nodes : NoneYet(m)
  BY OtherReadFrame
<1>2. CASE Dropped(a)
  BY <1>1, <1>2, NodeNames, ListTurns DEF Dropped
<1>3. CASE Opened(a)
  <2>1. UNCHANGED queue \/ queue' = Append(queue, Asked(Root, TRUE))
    BY <1>3 DEF Opened
  <2> QED BY <1>1, <1>3, <2>1, NodeNames, ListTurns DEF Opened
<1>4. CASE Marked(a)
  <2>1. PICK S \in SUBSET Nodes : SoftRefresh(S)
    BY <1>4, NodeNames DEF Marked
  <2> QED BY <1>1, <1>4, <2>1, SoftTurns DEF Marked
<1> QED BY <1>2, <1>3, <1>4 DEF OtherRead

\* A list comes: what it does to the tree, and to what is on its way.
LEMMA ListedTree ==
  ASSUME TypeInv, NEW a, NEW n \in Nodes, Merges(a, n) \/ Replaces(a, n) \/ Fails(a, n)
  PROVE  /\ \A m \in Nodes : m # n /\ ~Replaces(a, Root) => NoneYet(m)
         /\ \A f \in Folders : Stands(f) /\ (Closed(f) => Replaces(a, n))
<1>0. tree \in [Nodes -> NodeRecord]
  BY DEF TypeInv, TreeOK
<1>1. CASE Merges(a, n)
  <2>1. /\ \A m \in Nodes \ {n} : tree'[m] = tree[m]
        /\ tree'[n].state = "loaded" /\ tree'[n].open = tree[n].open /\ tree'[n].below = tree[n].below
    BY <1>0, <1>1 DEF Merges, NodeRecord
  <2> QED BY <2>1, NodeNames DEF NoneYet, Stands, Closed
<1>2. CASE Fails(a, n)
  <2>1. CASE tree' = tree
    BY <2>1, SameTree
  <2>2. CASE tree' = [tree EXCEPT ![n].state = "error", ![n].open = TRUE]
    <3>1. /\ \A m \in Nodes \ {n} : tree'[m] = tree[m]
          /\ tree'[n].state = "error" /\ tree'[n].open /\ tree'[n].below = tree[n].below
      BY <1>0, <2>2 DEF NodeRecord
    <3> QED BY <3>1, NodeNames DEF NoneYet, Stands, Closed
  <2> QED BY <1>2, <2>1, <2>2 DEF Fails
<1>3. CASE Replaces(a, n)
  <2>1. \A m \in Nodes : tree'[m] =
          IF m = n THEN [Blank("loaded") EXCEPT !.open = TRUE, !.seen = a.at[n]]
          ELSE IF n = Root THEN Blank(IF link.known THEN "idle" ELSE "absent")
          ELSE tree[m]
    BY <1>3 DEF Replaces
  <2>2. [Blank("loaded") EXCEPT !.open = TRUE, !.seen = a.at[n]].state = "loaded"
    BY DEF Blank
  <2>3. \A st : ~Blank(st).open /\ ~Blank(st).below
    BY DEF Blank
  <2>4. \A f \in Folders : Stands(f)
    <3>1. CASE n = Root
      <4>1. \A f \in Folders : tree'[f] = Blank(IF link.known THEN "idle" ELSE "absent")
        BY <2>1, <3>1, NodeNames
      <4> QED BY <2>3, <4>1 DEF Stands
    <3>2. CASE n # Root
      <4>1. \A f \in Folders : f = n \/ tree'[f] = tree[f]
        BY <2>1, <3>2, NodeNames
      <4>2. tree'[n].state = "loaded"
        BY <2>1, <2>2
      <4> QED BY <4>1, <4>2 DEF Stands
    <3> QED BY <3>1, <3>2
  <2>5. \A m \in Nodes : m # n /\ ~Replaces(a, Root) => tree'[m] = tree[m]
    BY <1>3, <2>1
  <2> QED BY <1>3, <2>4, <2>5 DEF NoneYet
<1> QED BY <1>1, <1>2, <1>3

LEMMA ListedTurns ==
  ASSUME TypeInv, Turns, out # <<>>, NEW a, a = Head(out), Listed(a)
  PROVE  Turns'
<1>0. PICK n : n = a.node
  OBVIOUS
<1>1. /\ n \in Nodes /\ IsFor(a, n, link.gen) /\ link' = link
      /\ queue \in Seq(Request) /\ out \in Seq(Answer) /\ Tail(out) \in Seq(Answer)
  <2>1. out \in Seq(Answer) /\ a \in Answer /\ Tail(out) \in Seq(Answer)
    BY HeadTailProperties DEF TypeInv, QueuesOK
  <2>2. a.node \in Nodes \cup {Gone}
    BY <2>1 DEF Answer
  <2> QED BY <1>0, <2>1, <2>2 DEF Listed, IsFor, TypeInv, QueuesOK
<1>2. Merges(a, n) \/ Replaces(a, n) \/ Fails(a, n)
  BY <1>0 DEF Listed
<1>3. CASE n = Root /\ a.ok /\ ~Merged(n)
  <2>1. /\ out' = Orphaned(Tail(out))
        /\ \/ queue' = Orphaned(queue)
           \/ queue' = Append(Orphaned(queue), Asked(Root, FALSE)) /\ Root \in soft'
    BY <1>0, <1>2, <1>3 DEF Listed, Merges, Replaces, Fails, Kept
  <2>2. Turn(Root)'
    BY <1>1, <1>3, <2>1, ReadTurn DEF Turns
  <2>3. ASSUME NEW f \in Folders
        PROVE  Turn(f)'
    <3>1. ~Has(Orphaned(queue), f, link.gen) /\ ~Has(out', f, link.gen)
      BY <1>1, <2>1, FoldersGo
    <3>2. ~Has(queue', f, link.gen)
      <4>1. PICK b, r : b = Orphaned(queue) /\ r = Asked(Root, FALSE)
        OBVIOUS
      <4>2. b \in Seq(Request) /\ r \in Request /\ ~IsFor(r, f, link.gen)
        BY <1>1, <4>1, NodeNames, OrphanedProperties, AskedRequest DEF IsFor
      <4>3. ToSet(Append(b, r)) = ToSet(b) \cup {r}
        BY <4>2, ToSetAppend
      <4> QED BY <2>1, <3>1, <4>1, <4>2, <4>3 DEF Has
    <3> QED BY <1>1, <3>1, <3>2, TurnGone
  <2> QED BY <2>2, <2>3, NodeNames DEF Turns
<1>4. CASE ~(n = Root /\ a.ok /\ ~Merged(n))
  <2>1. /\ out' = Tail(out)
        /\ \/ queue' = queue /\ soft' = soft \ {n}
           \/ n = Root /\ queue' = Append(queue, Asked(Root, FALSE)) /\ soft' = (soft \ {n}) \cup {Root}
    BY <1>0, <1>2, <1>4 DEF Listed, Merges, Replaces, Fails, OnceMore
  <2>2. Turn(n)'
    BY <1>1, <2>1, ReadTurn DEF Turns
  <2>3. \A m \in Nodes : m # n => NoneYet(m)
    <3>1. ~Replaces(a, Root) \/ (a.ok /\ ~Merged(Root))
      BY DEF Replaces
    <3>2. CASE ~Replaces(a, Root)
      BY <1>1, <1>2, <3>2, ListedTree
    <3>3. CASE n # Root
      <4>1. \A m \in Nodes : m # n => tree'[m] = tree[m]
        <5>1. tree \in [Nodes -> NodeRecord]
          BY DEF TypeInv, TreeOK
        <5> QED BY <1>2, <3>3, <5>1 DEF Merges, Replaces, Fails
      <4> QED BY <4>1 DEF NoneYet
    <3> QED BY <1>4, <3>1, <3>2, <3>3
  <2>4. ASSUME NEW m \in Nodes, m # n
        PROVE  Turn(m)'
    <3>1. PICK t : Grown(queue, t) /\ Fresh(t, m)
      <4>1. CASE queue' = queue
        BY <4>1, GrownSame, FreshNone
      <4>2. CASE n = Root /\ queue' = Append(queue, Asked(Root, FALSE))
        <5>1. /\ Grown(queue, <<Asked(Root, FALSE)>>)
              /\ ToSet(<<Asked(Root, FALSE)>>) = {Asked(Root, FALSE)}
              /\ IsFor(Asked(Root, FALSE), Root, link.gen)
          BY <4>2, NodeNames, AskedRequest, GrownAsk
        <5>2. ~IsFor(Asked(Root, FALSE), m, link.gen)
          BY <2>4, <4>2, <5>1 DEF IsFor
        <5> QED BY <5>1, <5>2, FreshOther
      <4> QED BY <2>1, <4>1, <4>2
    <3>2. Turn(m) /\ (m \in soft => m \in soft')
      BY <2>1, <2>4 DEF Turns
    <3>3. ~IsFor(Head(out), m, link.gen)
      BY <1>1, <2>4 DEF IsFor
    <3>4. tree[m].seen = 0 => tree'[m].seen = 0
      BY <2>3, <2>4 DEF NoneYet
    <3> QED BY <1>1, <2>1, <3>1, <3>2, <3>3, <3>4, TurnKept
  <2> QED BY <2>2, <2>4 DEF Turns
<1> QED BY <1>3, <1>4

LEMMA DrainTurns == ASSUME TypeInv, Turns, Drain PROVE Turns'
<1>1. PICK a : a = Head(out) /\ (Dropped(a) \/ Opened(a) \/ Listed(a) \/ Marked(a))
  BY DEF Drain
<1>2. out # <<>>
  BY DEF Drain
<1> QED BY <1>1, <1>2, OtherReadTurns, ListedTurns DEF OtherRead

\* A plain answer finds the node as it was when the list was asked for.
LEMMA DrainTree ==
  ASSUME StayInv, Drain
  PROVE  \A f \in Folders : Stands(f) /\ (Closed(f) => Head(out).anew)
<1>0. TypeInv /\ Absent /\ Turns /\ out # <<>>
  BY DEF StayInv, Drain
<1>1. PICK a : a = Head(out) /\ (Dropped(a) \/ Opened(a) \/ Listed(a) \/ Marked(a))
  BY DEF Drain
<1>2. CASE Dropped(a) \/ Opened(a) \/ Marked(a)
  BY <1>0, <1>1, <1>2, OtherReadFrame DEF OtherRead
<1>3. CASE Listed(a)
  <2>0. PICK n : n = a.node
    OBVIOUS
  <2>1. n \in Nodes /\ IsFor(a, n, link.gen) /\ a \in Answer /\ a \in ToSet(out)
    <3>1. a \in Answer /\ a \in ToSet(out)
      BY <1>0, <1>1, HeadTailProperties, ToSetTail DEF TypeInv, QueuesOK
    <3> QED BY <1>3, <2>0, <3>1 DEF Answer, Listed, IsFor
  <2>2. Merges(a, n) \/ Replaces(a, n) \/ Fails(a, n)
    BY <1>3, <2>0 DEF Listed
  <2>3. ASSUME Replaces(a, n), ~a.anew, NEW f \in Folders
        PROVE  ~Closed(f)
    <3>1. Suits(a, n)
      BY <1>0, <2>1, <2>3 DEF Turns, Turn, Plain
    <3>2. tree[n].seen = 0
      BY <2>3, <3>1 DEF Suits, Replaces, Merged
    <3>3. CASE n = Root
      <4>1. tree[f].state = "absent"
        BY <1>0, <3>2, <3>3 DEF TypeInv, TreeOK
      <4> QED BY <1>0, <4>1 DEF Absent, Closed
    <3>4. CASE n # Root /\ f # n
      <4>1. tree'[f] = tree[f]
        BY <2>3, <3>4, NodeNames DEF Replaces
      <4> QED BY <4>1 DEF Closed
    <3>5. CASE f = n
      <4>1. tree'[f].open
        BY <2>1, <2>3, <3>5 DEF Replaces, Blank
      <4>2. ~tree[f].below
        BY <1>0, <2>1, <3>2, <3>5 DEF TypeInv, TreeOK
      <4> QED BY <4>1, <4>2 DEF Closed
    <3> QED BY <3>3, <3>4, <3>5
  <2> QED BY <1>0, <1>1, <2>1, <2>2, <2>3, ListedTree
<1> QED BY <1>1, <1>2, <1>3

LEMMA ConnectionTree ==
  ASSUME TypeInv, Connection
  PROVE  \A f \in Folders : Stands(f) /\ (Closed(f) => link'.state # link.state)
<1>0. tree \in [Nodes -> NodeRecord] /\ link \in LinkRecord
  BY DEF TypeInv, TreeOK, OtherOK
<1>1. CASE Connect \/ RemovePane
  <2>1. link'.state # link.state
    <3>1. CASE Connect
      BY <1>0, <3>1 DEF Connect, LinkRecord
    <3>2. CASE RemovePane
      <4>1. link'.state = "none" /\ link.state = "offline"
        BY <3>2 DEF RemovePane
      <4> QED BY <4>1
    <3> QED BY <1>1, <3>1, <3>2
  <2>2. PICK st : tree' = Bare(st)
    BY <1>1 DEF Connect, RemovePane
  <2>3. \A f \in Folders : ~tree'[f].open /\ ~tree'[f].below
    BY <2>2, NodeNames DEF Bare, Blank
  <2> QED BY <2>1, <2>3 DEF Stands
<1>2. CASE Rebind \/ GoOffline
  <2>1. tree' = Stopped(tree)
    BY <1>2 DEF Rebind, GoOffline
  <2>2. \A n \in Nodes : \/ tree'[n] = tree[n]
                         \/ tree'[n] = [tree[n] EXCEPT !.state = "idle"]
    BY <2>1 DEF Stopped
  <2>3. \A n \in Nodes : /\ tree'[n] = tree[n] \/ tree'[n].state = "idle"
                         /\ tree'[n].open = tree[n].open /\ tree'[n].below = tree[n].below
    BY <1>0, <2>2 DEF NodeRecord
  <2> QED BY <2>3, NodeNames DEF Stands, Closed
<1> QED BY <1>1, <1>2 DEF Connection

\* What a step does to the folders.
LEMMA FoldersStep ==
  ASSUME StayInv, [Next]_vars, NEW f \in Folders
  PROVE  /\ Stands(f)
         /\ Closed(f) => \/ OwnAct(f)
                         \/ link'.state # link.state
                         \/ out # <<>> /\ Head(out).anew
<1>0. TypeInv /\ Absent
  BY DEF StayInv
<1>1. CASE Connection
  BY <1>0, <1>1, ConnectionTree
<1>2. CASE User
  BY <1>0, <1>2, UserTree
<1>3. CASE Drain
  BY <1>3, DrainTree DEF Drain
<1>4. CASE Server \/ Serve \/ Poll \/ UNCHANGED vars
  <2>1. tree' = tree
    BY <1>4 DEF Server, Ddl, Elsewhere, RunEnds, Commit, Rollback, Serve, Poll, vars
  <2> QED BY <2>1, SameTree
<1> QED BY <1>1, <1>2, <1>3, <1>4 DEF Next

LEMMA StayInit == Init => StayInv
<1> SUFFICES ASSUME Init
             PROVE  StayInv
  OBVIOUS
<1>1. TypeInv
  BY TypeInit
<1>2. Absent
  BY NodeNames DEF Init, Absent, Bare, Blank
<1>3. \A n \in Nodes : ToSet(queue) = {} /\ ToSet(out) = {}
  BY ToSetEmpty DEF Init
<1>4. DOMAIN queue = {} /\ DOMAIN out = {}
  BY DEF Init
<1>5. Turns
  BY <1>3, <1>4 DEF Turns, Turn, InTurn, PlainFirst, Has
<1> QED BY <1>1, <1>2, <1>5 DEF StayInv

LEMMA StayStep == StayInv /\ [Next]_vars => StayInv'
<1> SUFFICES ASSUME StayInv, [Next]_vars
             PROVE  StayInv'
  OBVIOUS
<1>0. TypeInv /\ Absent /\ Turns
  BY DEF StayInv
<1>1. TypeInv'
  BY <1>0, TypeStep
<1>2. Absent'
  BY <1>0, FoldersStep, AbsentKept
<1>3. Turns'
  <2>1. CASE UNCHANGED vars
    <3>1. UNCHANGED <<queue, out, soft, tree, link>>
      BY <2>1 DEF vars
    <3> QED BY <1>0, <3>1 DEF Turns, Turn, Suits
  <2> QED BY <1>0, <2>1, ConnectionTurns, UserTurns, ServerTurns, ServeTurns, DrainTurns, PollTurns
      DEF Next
<1> QED BY <1>1, <1>2, <1>3 DEF StayInv

\* What the user has opened is closed by no answer, other than one to a second
\* reading he has asked for himself, for any folders and bounds: the two ways of
\* Explorer::drain to take an answer in (set_children, diff_children) and the node as
\* it was when the request was sent.
THEOREM WhatIsOpenedStays == Spec => OpenedStays
<1> DEFINE Why == \A f \in Folders :
                      Closed(f) => \/ OwnAct(f)
                                   \/ link'.state # link.state
                                   \/ out # <<>> /\ Head(out).anew
<1>1. StayInv /\ [Next]_vars => Why
  BY FoldersStep
<1>2. StayInv /\ [Next]_vars => [Why]_vars
  BY <1>1
<1> QED BY <1>2, StayInit, StayStep, PTL DEF Spec, OpenedStays
=============================================================================
