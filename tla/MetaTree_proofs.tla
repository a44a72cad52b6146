-------------------------- MODULE MetaTree_proofs --------------------------
(***************************************************************************)
(* Theorems of MetaTree: types, and that what the tree waits for is        *)
(* answered.                                                               *)
(*                                                                         *)
(* First what sequences, the functions of the tree and its answers are     *)
(* made of: what a request for a node is, which nodes a refresh reaches,   *)
(* what is on its way to them before and after (Grown), and what an answer *)
(* makes of its node.  MetaTreeShown_proofs rests on these lemmas as well. *)
(*                                                                         *)
(* The thread drops requests of other generations without an answer, so it *)
(* has then to be shown that it is never of another generation when it     *)
(* gets to a request of this one (InStep): logins go first, they lie in    *)
(* the queue in the order of their generations (Ordered), and the last of  *)
(* them, or the thread itself, is of this one.                             *)
(*                                                                         *)
(* Last, each wait has its request or answer on the way (Coming).  It is   *)
(* not enough that there is one: a quiet refresh that fails leaves a node  *)
(* that shows "reading" as it is, so such a node has two (Two).            *)
(***************************************************************************)
EXTENDS MetaTree, SequenceTheorems, FiniteSetTheorems, WellFoundedInduction, TLAPS

-----------------------------------------------------------------------------
(* Sequences: what is in them, and what is in them twice.                  *)

LEMMA ToSetEmpty == ToSet(<<>>) = {}
BY EmptySeq DEF ToSet

LEMMA ToSetAppend ==
  ASSUME NEW X, NEW s \in Seq(X), NEW r \in X
  PROVE  ToSet(Append(s, r)) = ToSet(s) \cup {r}
<1>1. /\ Append(s, r) \in Seq(X) /\ Len(Append(s, r)) = Len(s) + 1 /\ Len(s) \in Nat
      /\ \A i \in 1..Len(s) : Append(s, r)[i] = s[i]
      /\ Append(s, r)[Len(s) + 1] = r
      /\ DOMAIN s = 1..Len(s) /\ DOMAIN Append(s, r) = 1..(Len(s) + 1)
  BY AppendProperties, LenProperties
<1> QED BY <1>1 DEF ToSet

LEMMA ToSetConcat ==
  ASSUME NEW X, NEW s \in Seq(X), NEW t \in Seq(X)
  PROVE  ToSet(s \o t) = ToSet(s) \cup ToSet(t)
<1>1. /\ s \o t \in Seq(X) /\ Len(s \o t) = Len(s) + Len(t)
      /\ Len(s) \in Nat /\ Len(t) \in Nat
      /\ \A i \in 1..Len(s) + Len(t) :
           (s \o t)[i] = IF i <= Len(s) THEN s[i] ELSE t[i - Len(s)]
      /\ DOMAIN s = 1..Len(s) /\ DOMAIN t = 1..Len(t)
      /\ DOMAIN (s \o t) = 1..(Len(s) + Len(t))
  BY ConcatProperties, LenProperties
<1>2. ASSUME NEW i \in 1..Len(t)
      PROVE  t[i] \in ToSet(s \o t)
  <2>1. Len(s) + i \in 1..(Len(s) + Len(t)) /\ (s \o t)[Len(s) + i] = t[i]
    BY <1>1
  <2> QED BY <2>1, <1>1 DEF ToSet
<1> QED BY <1>1, <1>2 DEF ToSet

LEMMA ToSetTail ==
  ASSUME NEW X, NEW s \in Seq(X), s # <<>>
  PROVE  /\ Head(s) \in X /\ Tail(s) \in Seq(X)
         /\ ToSet(s) = ToSet(Tail(s)) \cup {Head(s)}
<1>1. /\ Head(s) \in X /\ Tail(s) \in Seq(X) /\ Len(Tail(s)) = Len(s) - 1
      /\ \A i \in 1..Len(Tail(s)) : Tail(s)[i] = s[i + 1]
      /\ Len(s) \in Nat \ {0} /\ DOMAIN s = 1..Len(s) /\ DOMAIN Tail(s) = 1..Len(Tail(s))
      /\ Head(s) = s[1]
  BY HeadTailProperties, LenProperties, EmptySeq
<1>2. ASSUME NEW i \in 1..Len(s), i # 1
      PROVE  s[i] \in ToSet(Tail(s))
  <2>1. i - 1 \in 1..Len(Tail(s)) /\ (i - 1) + 1 = i
    BY <1>1, <1>2
  <2>2. Tail(s)[i - 1] = s[i]
    BY <1>1, <2>1
  <2> QED BY <2>1, <2>2, <1>1 DEF ToSet
<1> QED BY <1>1, <1>2 DEF ToSet

\* RemoveAt, position by position.
LEMMA RemoveAtProperties ==
  ASSUME NEW X, NEW s \in Seq(X), NEW k \in DOMAIN s
  PROVE  /\ RemoveAt(s, k) \in Seq(X)
         /\ Len(RemoveAt(s, k)) = Len(s) - 1
         /\ Len(s) \in Nat \ {0} /\ DOMAIN s = 1..Len(s)
         /\ DOMAIN RemoveAt(s, k) = 1..(Len(s) - 1)
         /\ \A i \in 1..(Len(s) - 1) : RemoveAt(s, k)[i] = IF i < k THEN s[i] ELSE s[i + 1]
<1> DEFINE a == SubSeq(s, 1, k - 1)
           b == SubSeq(s, k + 1, Len(s))
<1>1. Len(s) \in Nat /\ DOMAIN s = 1..Len(s) /\ \A i \in 1..Len(s) : s[i] \in X
  BY LenProperties, ElementOfSeq
<1>2. /\ a \in Seq(X) /\ Len(a) = k - 1
      /\ \A i \in 1..(k - 1) : a[i] = s[i]
  BY <1>1, SubSeqProperties
<1>3. /\ b \in Seq(X) /\ Len(b) = Len(s) - k
      /\ \A i \in 1..(Len(s) - k) : b[i] = s[k + i]
  <2>1. \A i \in (k + 1)..Len(s) : s[i] \in X
    BY <1>1
  <2>2. /\ SubSeq(s, k + 1, Len(s)) \in Seq(X)
        /\ Len(SubSeq(s, k + 1, Len(s))) = IF k + 1 <= Len(s) THEN Len(s) - (k + 1) + 1 ELSE 0
        /\ \A i \in 1..(Len(s) - (k + 1) + 1) :
             SubSeq(s, k + 1, Len(s))[i] = s[(k + 1) + i - 1]
    <3> HIDE DEF a, b
    <3>1. k + 1 \in Int /\ Len(s) \in Int
      BY <1>1
    <3> QED BY <2>1, <3>1, SubSeqProperties
  <2> QED BY <2>2, <1>1
<1>4. /\ a \o b \in Seq(X) /\ Len(a \o b) = Len(a) + Len(b)
      /\ \A i \in 1..Len(a) + Len(b) :
           (a \o b)[i] = IF i <= Len(a) THEN a[i] ELSE b[i - Len(a)]
  <2> HIDE DEF a, b
  <2> QED BY <1>2, <1>3, ConcatProperties
<1>5. RemoveAt(s, k) = a \o b
  BY DEF RemoveAt
<1>6. DOMAIN (a \o b) = 1..Len(a \o b)
  BY <1>4, LenProperties
<1> HIDE DEF a, b
<1>7. k \in 1..Len(s) /\ Len(a \o b) = Len(s) - 1 /\ Len(a) = k - 1
  BY <1>1, <1>2, <1>3, <1>4
<1>8. ASSUME NEW i \in 1..(Len(s) - 1)
      PROVE  (a \o b)[i] = IF i < k THEN s[i] ELSE s[i + 1]
  <2>1. (a \o b)[i] = IF i <= k - 1 THEN a[i] ELSE b[i - (k - 1)]
    BY <1>4, <1>7
  <2>2. CASE i < k
    <3>1. i \in 1..(k - 1) /\ i <= k - 1
      BY <1>1, <1>7, <2>2
    <3>2. a[i] = s[i]
      BY <1>2, <3>1
    <3> QED BY <2>1, <2>2, <3>1, <3>2
  <2>3. CASE ~(i < k)
    <3>1. i - (k - 1) \in 1..(Len(s) - k) /\ k + (i - (k - 1)) = i + 1
      BY <1>1, <1>7, <2>3
    <3>2. b[i - (k - 1)] = s[i + 1]
      BY <1>3, <3>1
    <3>3. ~(i <= k - 1)
      BY <1>1, <1>7, <2>3
    <3> QED BY <2>1, <2>3, <3>2, <3>3
  <2> QED BY <2>2, <2>3
<1>9. Len(s) \in Nat \ {0}
  BY <1>1
<1> QED BY <1>1, <1>4, <1>5, <1>6, <1>7, <1>8, <1>9

LEMMA ToSetRemoveAt ==
  ASSUME NEW X, NEW s \in Seq(X), NEW k \in DOMAIN s
  PROVE  ToSet(s) = ToSet(RemoveAt(s, k)) \cup {s[k]}
<1>1. /\ Len(s) \in Nat \ {0} /\ DOMAIN s = 1..Len(s)
      /\ DOMAIN RemoveAt(s, k) = 1..(Len(s) - 1)
      /\ \A i \in 1..(Len(s) - 1) : RemoveAt(s, k)[i] = IF i < k THEN s[i] ELSE s[i + 1]
  BY RemoveAtProperties
<1>2. ASSUME NEW i \in 1..Len(s), i # k
      PROVE  s[i] \in ToSet(RemoveAt(s, k))
  <2>1. CASE i < k
    BY <1>1, <1>2, <2>1 DEF ToSet
  <2>2. CASE i > k
    <3>1. i - 1 \in 1..(Len(s) - 1) /\ (i - 1) + 1 = i /\ ~(i - 1 < k)
      BY <1>1, <1>2, <2>2
    <3>2. RemoveAt(s, k)[i - 1] = s[i]
      BY <1>1, <3>1
    <3> QED BY <1>1, <3>1, <3>2 DEF ToSet
  <2> QED BY <1>1, <1>2, <2>1, <2>2
<1>3. ASSUME NEW i \in 1..(Len(s) - 1)
      PROVE  RemoveAt(s, k)[i] \in ToSet(s)
  BY <1>1 DEF ToSet
<1> QED BY <1>1, <1>2, <1>3 DEF ToSet

\* A set of naturals has a least element.
LEMMA LeastNatural ==
  ASSUME NEW T, T \subseteq Nat, T # {}
  PROVE  \E x \in T : \A y \in T : x <= y
<1> DEFINE R == {ss \in Nat \X Nat : ss[1] < ss[2]}
<1>1. IsWellFoundedOn(R, Nat)
  BY NatLessThanWellFounded DEF OpToRel
<1>2. PICK x \in T : \A y \in T : ~ (<<y, x>> \in R)
  <2> HIDE DEF R
  <2> QED BY <1>1, WFMin
<1>3. \A y \in T : ~ (y < x)
  BY <1>2
<1> QED BY <1>3

\* The sequence made of a finite set has its elements, once each, and no others.
LEMMA SetToSeqElements ==
  ASSUME NEW S, IsFiniteSet(S)
  PROVE  /\ SetToSeq(S) \in Seq(S) /\ ToSet(SetToSeq(S)) = S
         /\ \A i, j \in DOMAIN SetToSeq(S) : SetToSeq(S)[i] = SetToSeq(S)[j] => i = j
<1> DEFINE n == Cardinality(S)
           f == SetToSeq(S)
<1>1. n \in Nat /\ ExistsBijection(1..n, S)
  BY FS_CardinalityType
<1>2. PICK b \in Bijection(1..n, S) : TRUE
  BY <1>1 DEF ExistsBijection
<1>3. b \in [1..n -> S] /\ \A i, j \in DOMAIN b : b[i] = b[j] => i = j
  BY <1>2 DEF Bijection, Injection, IsInjective
<1>4. f \in [1..n -> S] /\ \A i, j \in DOMAIN f : f[i] = f[j] => i = j
  BY <1>3 DEF SetToSeq, IsInjective
<1> HIDE DEF f
<1>5. f \in Injection(1..n, S)
  BY <1>4 DEF Injection, IsInjective
<1>6. IsFiniteSet(1..n) /\ Cardinality(1..n) = n
  BY <1>1, FS_Interval
<1>7. f \in Surjection(1..n, S)
  BY <1>5, <1>6, FS_Injection
<1>8. f \in Seq(S)
  BY <1>1, <1>4
<1> QED BY <1>4, <1>7, <1>8 DEF Surjection, ToSet, f

-----------------------------------------------------------------------------
(* The requests of the model.                                              *)

LEMMA PrioType == \A r : Prio(r) \in {0, 1, 2}
BY DEF Prio

\* The thread takes the most urgent request, the oldest of these.
LEMMA PickProperties ==
  ASSUME NEW X, queue \in Seq(X), queue # <<>>
  PROVE  /\ Pick \in DOMAIN queue
         /\ \A j \in DOMAIN queue :
              \/ Prio(queue[Pick]) < Prio(queue[j])
              \/ Prio(queue[Pick]) = Prio(queue[j]) /\ Pick <= j
<1> DEFINE D == DOMAIN queue
           P == { p \in Nat : \E i \in D : Prio(queue[i]) = p }
<1>1. D \subseteq Nat /\ D # {}
  <2>1. Len(queue) \in Nat \ {0} /\ D = 1..Len(queue)
    BY LenProperties, EmptySeq
  <2>2. 1 \in D
    BY <2>1
  <2> QED BY <2>1, <2>2
<1>2. PICK p \in P : \A q \in P : p <= q
  <2>1. P \subseteq Nat /\ P # {}
    BY <1>1, PrioType
  <2> HIDE DEF P
  <2> QED BY <2>1, LeastNatural
<1> DEFINE T == { i \in D : Prio(queue[i]) = p }
<1>3. PICK k \in T : \A j \in T : k <= j
  <2>1. T \subseteq Nat /\ T # {}
    BY <1>1, <1>2
  <2> HIDE DEF T
  <2> QED BY <2>1, LeastNatural
<1>4. ASSUME NEW j \in D
      PROVE  Prio(queue[k]) < Prio(queue[j]) \/ (Prio(queue[k]) = Prio(queue[j]) /\ k <= j)
  <2>1. Prio(queue[j]) \in P /\ Prio(queue[k]) = p /\ p \in Nat /\ Prio(queue[j]) \in Nat
    BY <1>2, <1>3, PrioType
  <2>2. p <= Prio(queue[j])
    BY <1>2, <2>1
  <2>3. CASE Prio(queue[j]) = p
    BY <1>3, <2>1, <2>3
  <2>4. CASE Prio(queue[j]) # p
    BY <2>1, <2>2, <2>4
  <2> QED BY <2>3, <2>4
<1>5. k \in D
  BY <1>3
<1> HIDE DEF D, T
<1> QED BY <1>4, <1>5 DEF Pick, D

\* No login waits behind the request taken, and none goes before an older one.
LEMMA PickedFirst ==
  ASSUME NEW X, queue \in Seq(X), queue # <<>>
  PROVE  /\ Pick \in DOMAIN queue
         /\ queue[Pick].kind # "open" => \A j \in DOMAIN queue : queue[j].kind # "open"
         /\ queue[Pick].kind = "open" =>
              \A j \in DOMAIN queue : queue[j].kind = "open" => Pick <= j
<1>1. /\ Pick \in DOMAIN queue
      /\ \A j \in DOMAIN queue :
           \/ Prio(queue[Pick]) < Prio(queue[j])
           \/ Prio(queue[Pick]) = Prio(queue[j]) /\ Pick <= j
  BY PickProperties
<1>2. \A r : IF r.kind = "open" THEN Prio(r) = 0 ELSE Prio(r) \in {1, 2}
  BY DEF Prio
<1> QED BY <1>1, <1>2

\* Names of nodes.
LEMMA NodeNames ==
  /\ Root \notin Folders /\ Gone \notin Folders /\ Root # Gone
  /\ Nodes = Folders \cup {Root} /\ Root \in Nodes /\ Gone \notin Nodes
  /\ IsFiniteSet(Nodes)
<1>1. IsFiniteSet(Folders) /\ Folders \cap {Root, Gone} = {}
  BY TreeAssumption
<1>2. IsFiniteSet(Folders \cup {Root})
  BY <1>1, FS_AddElement
<1> QED BY <1>1, <1>2 DEF Nodes, Root, Gone

\* A request is one.
LEMMA AsksType ==
  ASSUME TypeOK, NEW k \in {"open", "list", "marks", "use"}, NEW n \in Nodes \cup {Gone},
         NEW g \in Nat
  PROVE  /\ Asks(k, n, g) \in Request
         /\ Asks(k, n, g).kind = k /\ Asks(k, n, g).node = n /\ Asks(k, n, g).gen = g
BY DEF Asks, Request, TypeOK

LEMMA AskedType ==
  ASSUME TypeOK, NEW n \in Nodes, NEW load \in BOOLEAN
  PROVE  /\ Asked(n, load) \in Request
         /\ Asked(n, load).kind = "list" /\ Asked(n, load).node = n
         /\ Asked(n, load).gen = link.gen
<1> DEFINE z == IF load THEN tree[n].seen > 0 \/ Awaited(n) # {}
                        ELSE \E r \in Awaited(n) : r.load \/ r.anew
<1>1. z \in BOOLEAN
  OBVIOUS
<1> HIDE DEF z
<1>2. link.gen \in Nat
  BY DEF TypeOK
<1>3. Asks("list", n, link.gen) \in Request /\ Asks("list", n, link.gen).kind = "list"
      /\ Asks("list", n, link.gen).node = n /\ Asks("list", n, link.gen).gen = link.gen
  BY <1>2, AsksType
<1> DEFINE a == Asks("list", n, link.gen)
<1> HIDE DEF a
<1>4. /\ [a EXCEPT !.load = load, !.anew = z] \in Request
      /\ [a EXCEPT !.load = load, !.anew = z].kind = "list"
      /\ [a EXCEPT !.load = load, !.anew = z].node = n
      /\ [a EXCEPT !.load = load, !.anew = z].gen = link.gen
  BY <1>1, <1>3 DEF Request, a
<1> QED BY <1>4 DEF Asked, a, z

\* One request for each node of a set, and none besides.
LEMMA AskedAllProperties ==
  ASSUME TypeOK, NEW S \in SUBSET Nodes
  PROVE  /\ AskedAll(S, FALSE) \in Seq(Request)
         /\ \A r \in ToSet(AskedAll(S, FALSE)) :
              r.kind = "list" /\ r.gen = link.gen /\ r.node \in S
         /\ \A n \in S : \E r \in ToSet(AskedAll(S, FALSE)) : r.node = n
         /\ \A i \in DOMAIN AskedAll(S, FALSE) :
              AskedAll(S, FALSE)[i] = Asked(AskedAll(S, FALSE)[i].node, FALSE)
         /\ \A i, j \in DOMAIN AskedAll(S, FALSE) :
              AskedAll(S, FALSE)[i].node = AskedAll(S, FALSE)[j].node => i = j
<1> DEFINE s == SetToSeq(S)
           q == AskedAll(S, FALSE)
<1>1. /\ s \in Seq(S) /\ ToSet(s) = S
      /\ \A i, j \in DOMAIN s : s[i] = s[j] => i = j
  <2>1. IsFiniteSet(S)
    BY NodeNames, FS_Subset
  <2> QED BY <2>1, SetToSeqElements
<1>2. q = [i \in DOMAIN s |-> Asked(s[i], FALSE)]
  BY DEF AskedAll
<1> HIDE DEF s, q
<1>3. DOMAIN s = 1..Len(s) /\ Len(s) \in Nat /\ \A i \in DOMAIN s : s[i] \in S
  BY <1>1, LenProperties, ElementOfSeq
<1>4. \A i \in DOMAIN s : /\ q[i] \in Request
                          /\ q[i].kind = "list" /\ q[i].node = s[i] /\ q[i].gen = link.gen
  BY <1>2, <1>3, AskedType
<1>5. q \in Seq(Request) /\ DOMAIN q = DOMAIN s
  <2>1. q \in [1..Len(s) -> Request]
    <3>1. \A i \in 1..Len(s) : Asked(s[i], FALSE) \in Request
      BY <1>3, AskedType
    <3> QED BY <1>2, <1>3, <3>1
  <2> QED BY <1>3, <2>1
<1>6. \A r \in ToSet(q) : r.kind = "list" /\ r.gen = link.gen /\ r.node \in S
  BY <1>3, <1>4, <1>5 DEF ToSet
<1>7. \A n \in S : \E r \in ToSet(q) : r.node = n
  BY <1>1, <1>3, <1>4, <1>5 DEF ToSet
<1>8. /\ \A i \in DOMAIN q : q[i] = Asked(q[i].node, FALSE)
      /\ \A i, j \in DOMAIN q : q[i].node = q[j].node => i = j
  <2>1. \A i \in DOMAIN s : q[i] = Asked(s[i], FALSE) /\ q[i].node = s[i]
    BY <1>2, <1>4
  <2>2. \A i \in DOMAIN q : q[i] = Asked(q[i].node, FALSE)
    BY <1>5, <2>1
  <2>3. \A i, j \in DOMAIN q : q[i].node = q[j].node => i = j
    BY <1>1, <1>5, <2>1
  <2> QED BY <2>2, <2>3
<1> QED BY <1>5, <1>6, <1>7, <1>8 DEF q

\* Taking nodes out of the tree changes the node of a request or answer only.
LEMMA OrphanedProperties ==
  ASSUME NEW X \in {Request, Answer}, NEW s \in Seq(X)
  PROVE  /\ Orphaned(s) \in Seq(X) /\ DOMAIN Orphaned(s) = DOMAIN s
         /\ \A i \in DOMAIN s :
              /\ Orphaned(s)[i].kind = s[i].kind /\ Orphaned(s)[i].gen = s[i].gen
              /\ Orphaned(s)[i].node = IF s[i].node \in Folders THEN Gone ELSE s[i].node
              /\ s[i].node \notin Folders => Orphaned(s)[i] = s[i]
<1>1. DOMAIN s = 1..Len(s) /\ Len(s) \in Nat /\ \A i \in DOMAIN s : s[i] \in X
  BY LenProperties, ElementOfSeq
<1>2. ASSUME NEW i \in DOMAIN s
      PROVE  /\ Orphaned(s)[i] \in X
             /\ Orphaned(s)[i].kind = s[i].kind /\ Orphaned(s)[i].gen = s[i].gen
             /\ Orphaned(s)[i].node = IF s[i].node \in Folders THEN Gone ELSE s[i].node
             /\ s[i].node \notin Folders => Orphaned(s)[i] = s[i]
  <2>1. CASE X = Request
    BY <1>1, <2>1 DEF Orphaned, Request
  <2>2. CASE X = Answer
    BY <1>1, <2>2 DEF Orphaned, Answer
  <2> QED BY <2>1, <2>2
<1>3. Orphaned(s) \in Seq(X) /\ DOMAIN Orphaned(s) = DOMAIN s
  BY <1>1, <1>2 DEF Orphaned
<1> QED BY <1>2, <1>3

LEMMA OrphanedElements ==
  ASSUME NEW X \in {Request, Answer}, NEW s \in Seq(X)
  PROVE  /\ Orphaned(s) \in Seq(X)
         /\ \A r \in ToSet(Orphaned(s)) :
              /\ r.node \notin Folders
              /\ \/ r \in ToSet(s)
                 \/ r.node = Gone /\ \E q \in ToSet(s) : q.kind = r.kind /\ q.gen = r.gen
BY OrphanedProperties, NodeNames DEF ToSet

-----------------------------------------------------------------------------
(* Types.  A loaded node has a list because every list on the server and   *)
(* every list in an answer is one (Real); a folder that gets a list is in  *)
(* the tree because nothing of this generation is on its way to a folder   *)
(* that is not (Fits), which holds because no generation comes back.       *)

Fits(r) == /\ r.gen <= link.gen
           /\ r.kind = "list" /\ r.gen = link.gen /\ r.node \in Folders
                => tree[r.node].state # "absent"
Real(a) == a.ok /\ a.kind = "list" /\ a.node \in Nodes => a.at[a.node] > 0

TreeOK ==
  /\ tree \in [Nodes -> NodeRecord]
  /\ \A n \in Nodes : /\ tree[n].state = "loaded" => tree[n].seen > 0
                      /\ tree[n].below => tree[n].seen > 0
  /\ (tree[Root].seen = 0) => \A f \in Folders : tree[f].state = "absent"
QueuesOK ==
  /\ queue \in Seq(Request) /\ out \in Seq(Answer)
  /\ \A r \in ToSet(queue) \cup ToSet(out) : Fits(r)
  /\ \A a \in ToSet(out) : Real(a)
OweRecord == [ due : Versions, owed : [Folders -> Nat], unit : Nat,
               lost : SUBSET {"open", "marks", "unit"} ]
LinkRecord == [ state : {"none", "on", "offline"}, gen : Nat, rebinding : BOOLEAN,
                known : BOOLEAN, expandable : BOOLEAN ]
MarksRecord == [ asked : BOOLEAN, seen : SUBSET Versions ]
BudgetRecord == [ links : Nat, asks : Nat, changes : Nat, fails : Nat ]
RunRecord == [ busy : BOOLEAN, now : SUBSET Nodes, wait : SUBSET Nodes, held : SUBSET Nodes ]

OweOK == owe \in OweRecord
OtherOK ==
  /\ site \in [ held : BOOLEAN, waits : BOOLEAN ]
  /\ link \in LinkRecord
  /\ soft \subseteq Nodes /\ again \in BOOLEAN
  /\ marks \in MarksRecord
  /\ thread \in [ gen : Nat, unit : Nat ] /\ thread.gen <= link.gen
  /\ srv \in Versions /\ \A n \in Nodes : srv[n] > 0
  /\ unit \in [ session : Nat, shown : Nat ]
  /\ left \in BudgetRecord
  /\ run \in RunRecord
TypeInv == TreeOK /\ QueuesOK /\ OweOK /\ OtherOK

LEMMA TypeInvImplies == TypeInv => TypeOK
BY DEF TypeInv, TreeOK, QueuesOK, OweOK, OtherOK, TypeOK,
       OweRecord, LinkRecord, MarksRecord, BudgetRecord, RunRecord

\* No folder leaves the tree in this step.
Standing == \A f \in Folders : tree[f].state # "absent" => tree'[f].state # "absent"

\* Requests and answers go on fitting the tree if only such come in, ...
LEMMA QueuesStay ==
  ASSUME QueuesOK, queue' \in Seq(Request), out' \in Seq(Answer),
         link'.gen = link.gen, Standing,
         \A r \in ToSet(queue') \cup ToSet(out') :
           r \in ToSet(queue) \cup ToSet(out) \/ Fits(r)',
         \A a \in ToSet(out') : a \in ToSet(out) \/ Real(a)
  PROVE  QueuesOK'
<1>1. \A r \in ToSet(queue) \cup ToSet(out) : Fits(r)'
  BY DEF QueuesOK, Fits, Standing
<1> QED BY <1>1 DEF QueuesOK, Real

\* ... or if a new generation begins with what belongs to no folder, ...
LEMMA QueuesRenewed ==
  ASSUME QueuesOK, queue' \in Seq(Request), out' \in Seq(Answer),
         link.gen \in Nat, link'.gen = link.gen + 1,
         \A r \in ToSet(queue') : r \in ToSet(queue) \/ (r.kind = "open" /\ r.gen = link.gen + 1),
         ToSet(out') \subseteq ToSet(out)
  PROVE  QueuesOK'
<1>1. \A r \in ToSet(queue) \cup ToSet(out) : r.gen <= link.gen /\ r.gen \in Nat
  <2>1. \A r \in ToSet(queue) : r \in Request
    BY ElementOfSeq DEF QueuesOK, ToSet
  <2>2. \A r \in ToSet(out) : r \in Answer
    BY ElementOfSeq DEF QueuesOK, ToSet
  <2> QED BY <2>1, <2>2 DEF QueuesOK, Fits, Request, Answer
<1>2. \A r \in ToSet(queue') \cup ToSet(out') : Fits(r)'
  BY <1>1 DEF Fits
<1> QED BY <1>2 DEF QueuesOK, Real

\* ... or if the folders go, and with them what is on its way to them.
LEMMA QueuesBared ==
  ASSUME QueuesOK, queue' \in Seq(Request), out' \in Seq(Answer),
         link'.gen = link.gen,
         \A r \in ToSet(queue') \cup ToSet(out') : r.node \notin Folders /\ r.gen <= link.gen,
         \A a \in ToSet(out') : a \in ToSet(out) \/ a.node = Gone
  PROVE  QueuesOK'
BY NodeNames DEF QueuesOK, Fits, Real

\* A step that changes one node.
LEMMA OneNode ==
  ASSUME TreeOK, NEW n \in Nodes, NEW r \in NodeRecord, tree' = [tree EXCEPT ![n] = r],
         r.state = "loaded" => r.seen > 0, r.below => r.seen > 0,
         n = Root /\ r.seen = 0 => tree[Root].seen = 0,
         n # Root => (r.state = "absent" <=> tree[n].state = "absent")
  PROVE  TreeOK' /\ Standing
<1>1. tree' \in [Nodes -> NodeRecord]
  BY DEF TreeOK
<1>2. \A m \in Nodes : tree'[m] = IF m = n THEN r ELSE tree[m]
  BY DEF TreeOK
<1> QED BY <1>1, <1>2, NodeNames DEF TreeOK, Standing

\* Quiet refreshes ask for nodes that show their list.
LEMMA SoftRefreshOK ==
  ASSUME TypeInv, NEW S \in SUBSET Nodes, SoftRefresh(S)
  PROVE  /\ soft' \subseteq Nodes /\ queue' \in Seq(Request)
         /\ \A r \in ToSet(queue') :
              \/ r \in ToSet(queue)
              \/ /\ r.kind = "list" /\ r.gen = link.gen /\ r.node \in Softly(S)
<1>1. TypeOK /\ Softly(S) \in SUBSET Nodes /\ queue \in Seq(Request)
  BY TypeInvImplies DEF Softly, TypeInv, QueuesOK
<1>2. /\ AskedAll(Softly(S), FALSE) \in Seq(Request)
      /\ \A r \in ToSet(AskedAll(Softly(S), FALSE)) :
           r.kind = "list" /\ r.gen = link.gen /\ r.node \in Softly(S)
  BY <1>1, AskedAllProperties
<1>3. ToSet(queue') = ToSet(queue) \cup ToSet(AskedAll(Softly(S), FALSE))
  BY <1>1, <1>2, ToSetConcat DEF SoftRefresh
<1>4. queue' \in Seq(Request)
  BY <1>1, <1>2, ConcatProperties DEF SoftRefresh
<1> QED BY <1>1, <1>2, <1>3, <1>4 DEF SoftRefresh, TypeInv, OtherOK

LEMMA QueuesSoft ==
  ASSUME TypeInv, NEW S \in SUBSET Nodes, SoftRefresh(S), link' = link, tree' = tree,
         out' \in Seq(Answer), ToSet(out') \subseteq ToSet(out)
  PROVE  QueuesOK' /\ soft' \subseteq Nodes
<1>1. /\ soft' \subseteq Nodes /\ queue' \in Seq(Request)
      /\ \A r \in ToSet(queue') :
           \/ r \in ToSet(queue)
           \/ /\ r.kind = "list" /\ r.gen = link.gen /\ r.node \in Softly(S)
  BY SoftRefreshOK
<1>2. \A r \in ToSet(queue') : r \in ToSet(queue) \/ Fits(r)'
  BY <1>1 DEF Softly, Fits, TypeInv, OtherOK, LinkRecord
<1>3. Standing /\ QueuesOK
  BY DEF Standing, TypeInv
<1> QED BY <1>1, <1>2, <1>3, QueuesStay

LEMMA QueuesAsk ==
  ASSUME TypeInv, NEW r \in Request, queue' = Append(queue, r), out' = out,
         link'.gen = link.gen, Standing, Fits(r)'
  PROVE  QueuesOK'
<1>1. queue \in Seq(Request) /\ out \in Seq(Answer) /\ QueuesOK
  BY DEF TypeInv, QueuesOK
<1>2. queue' \in Seq(Request) /\ ToSet(queue') = ToSet(queue) \cup {r}
  BY <1>1, AppendProperties, ToSetAppend
<1> QED BY <1>1, <1>2, QueuesStay

LEMMA QueuesSame ==
  ASSUME TypeInv, queue' = queue, out' = out, link'.gen = link.gen, Standing
  PROVE  QueuesOK'
<1>1. queue \in Seq(Request) /\ out \in Seq(Answer) /\ QueuesOK
  BY DEF TypeInv, QueuesOK
<1> QED BY <1>1, QueuesStay

LEMMA TreeSame == ASSUME TypeInv, tree' = tree PROVE TreeOK' /\ Standing
BY DEF TypeInv, TreeOK, Standing

\* Promises are numbers of changes.
LEMMA DueType ==
  ASSUME TypeInv, srv' \in Versions, NEW S
  PROVE  Due(S) \in Versions /\ [owe EXCEPT !.due = Due(S)] \in OweRecord
<1>1. Due(S) \in Versions
  BY DEF Due, TypeInv, OweOK, OweRecord, Versions
<1> QED BY <1>1 DEF TypeInv, OweOK, OweRecord

LEMMA OwedType ==
  ASSUME TypeInv, srv' \in Versions, NEW S
  PROVE  Owed(S) \in [Folders -> Nat] /\ [owe EXCEPT !.owed = Owed(S)] \in OweRecord
<1>1. Owed(S) \in [Folders -> Nat]
  BY NodeNames DEF Owed, TypeInv, OweOK, OweRecord, Versions
<1> QED BY <1>1 DEF TypeInv, OweOK, OweRecord

LEMMA ForgivenType ==
  ASSUME TypeInv, NEW S
  PROVE  /\ Forgiven(S) \in OweRecord
         /\ Forgiven(S).lost = owe.lost /\ Forgiven(S).unit = owe.unit
         /\ \A n \in Nodes : Forgiven(S).due[n] = IF n \in S THEN 0 ELSE owe.due[n]
<1> DEFINE d == [n \in Nodes |-> IF n \in S THEN 0 ELSE owe.due[n]]
           o == [f \in Folders |-> IF f \in S THEN 0 ELSE owe.owed[f]]
<1>1. d \in Versions /\ o \in [Folders -> Nat]
  BY NodeNames DEF TypeInv, OweOK, OweRecord, Versions
<1>2. Forgiven(S) = [owe EXCEPT !.due = d, !.owed = o]
  BY DEF Forgiven, TypeInv, OweOK, OweRecord
<1>3. \A n \in Nodes : d[n] = IF n \in S THEN 0 ELSE owe.due[n]
  OBVIOUS
<1> HIDE DEF d, o
<1> QED BY <1>1, <1>2, <1>3 DEF TypeInv, OweOK, OweRecord

LEMMA NothingType ==
  Nothing \in OweRecord
BY DEF Nothing, Versions, OweRecord

\* What no list has been read for.
LEMMA BareOK ==
  ASSUME NEW st \in {"idle", "loading", "error"}, tree' = Bare(st)
  PROVE  TreeOK'
BY NodeNames DEF Bare, Blank, TreeOK, NodeRecord, States

LEMMA BudgetSpent ==
  ASSUME TypeInv, \/ Links \/ Acts \/ Changes \/ left' = left
                  \/ left.fails > 0 /\ left' = [left EXCEPT !.fails = @ - 1]
  PROVE  left' \in BudgetRecord
BY DEF TypeInv, OtherOK, Links, Acts, Changes, BudgetRecord

LEMMA StoppedOK ==
  ASSUME TypeInv, tree' = Stopped(tree)
  PROVE  TreeOK' /\ Standing
<1>1. \A n \in Nodes : tree'[n] = IF tree[n].state = "loading" THEN [tree[n] EXCEPT !.state = "idle"]
                                  ELSE tree[n]
  BY DEF Stopped
<1>2. \A n \in Nodes : tree[n] \in NodeRecord
  BY DEF TypeInv, TreeOK
<1>3. \A n \in Nodes : /\ tree'[n] \in NodeRecord
                       /\ tree'[n].seen = tree[n].seen /\ tree'[n].below = tree[n].below
                       /\ tree'[n].open = tree[n].open
                       /\ tree'[n].state = IF tree[n].state = "loading" THEN "idle"
                                           ELSE tree[n].state
  BY <1>1, <1>2 DEF NodeRecord, States
<1>4. tree' = [n \in Nodes |-> tree'[n]]
  BY DEF Stopped
<1>5. tree' \in [Nodes -> NodeRecord]
  BY <1>3, <1>4
<1> QED BY <1>3, <1>5, NodeNames DEF TreeOK, TypeInv, Standing

\* The generation of the pane goes up with each change of its session.
LEMMA LinkMoves ==
  ASSUME link \in LinkRecord, Connect \/ Rebind \/ GoOffline \/ RemovePane
  PROVE  link'.gen = link.gen + 1 /\ link.gen \in Nat /\ link' \in LinkRecord
<1>1. /\ link.gen \in Nat /\ link.gen + 1 \in Nat
      /\ link.rebinding \in BOOLEAN /\ link.known \in BOOLEAN /\ link.expandable \in BOOLEAN
  BY DEF LinkRecord
<1>2. PICK st \in {"none", "on", "offline"}, b, k, e \in BOOLEAN :
        link' = [ state |-> st, gen |-> link.gen + 1, rebinding |-> b, known |-> k,
                  expandable |-> e ]
  <2>0. link = [ state |-> link.state, gen |-> link.gen, rebinding |-> link.rebinding,
                 known |-> link.known, expandable |-> link.expandable ]
    BY DEF LinkRecord
  <2>1. CASE Connect
    <3>1. link' = [ state |-> "on", gen |-> link.gen + 1, rebinding |-> link.rebinding,
                    known |-> FALSE, expandable |-> FALSE ]
      BY <2>0, <2>1, Zenon DEF Connect
    <3> QED BY <1>1, <3>1
  <2>2. CASE Rebind
    <3>1. link' = [ state |-> link.state, gen |-> link.gen + 1, rebinding |-> TRUE,
                    known |-> link.known, expandable |-> link.expandable ]
      BY <2>0, <2>2 DEF Rebind
    <3>2. link.state = "on"
      BY <2>2 DEF Rebind
    <3> QED BY <1>1, <3>1, <3>2
  <2>3. CASE GoOffline
    <3>1. link' = [ state |-> "offline", gen |-> link.gen + 1, rebinding |-> link.rebinding,
                    known |-> link.known, expandable |-> link.expandable ]
      BY <2>0, <2>3 DEF GoOffline
    <3> QED BY <1>1, <3>1
  <2>4. CASE RemovePane
    BY <1>1, <2>4 DEF RemovePane
  <2> QED BY <2>1, <2>2, <2>3, <2>4
<1>3. link'.gen = link.gen + 1
  BY <1>2
<1> QED BY <1>1, <1>2, <1>3 DEF LinkRecord

LEMMA ConnectOK == ASSUME TypeInv, Connect PROVE TypeInv'
<1> USE DEF Connect
<1> DEFINE r == Asks("open", Root, link.gen + 1)
<1>1. r \in Request /\ r.kind = "open" /\ r.gen = link.gen + 1
  BY TypeInvImplies, AsksType, NodeNames DEF TypeInv, OtherOK, LinkRecord
<1> HIDE DEF r
<1>2. queue' = Append(queue, r) /\ out' = out /\ queue \in Seq(Request) /\ out \in Seq(Answer)
  BY DEF TypeInv, QueuesOK, r
<1>3. queue' \in Seq(Request) /\ ToSet(queue') = ToSet(queue) \cup {r}
  BY <1>1, <1>2, AppendProperties, ToSetAppend
<1>4. link'.gen = link.gen + 1 /\ link.gen \in Nat /\ link' \in LinkRecord
  BY LinkMoves DEF TypeInv, OtherOK
<1>5. QueuesOK'
  BY <1>1, <1>2, <1>3, <1>4, QueuesRenewed DEF TypeInv
<1>6. TreeOK'
  BY BareOK
<1>7. OweOK'
  BY NothingType DEF OweOK
<1>8. OtherOK'
  <2>1. /\ marks' \in MarksRecord /\ unit' \in [ session : Nat, shown : Nat ]
        /\ soft' \subseteq Nodes /\ again' \in BOOLEAN
    BY DEF MarksRecord
  <2>2. thread.gen \in Nat /\ thread'.gen <= link'.gen
    BY <1>4 DEF TypeInv, OtherOK
  <2>3. left' \in BudgetRecord
    BY BudgetSpent
  <2> QED BY <1>4, <2>1, <2>2, <2>3 DEF TypeInv, OtherOK, ownVars
<1> QED BY <1>5, <1>6, <1>7, <1>8 DEF TypeInv

LEMMA RebindOK == ASSUME TypeInv, Rebind PROVE TypeInv'
<1> USE DEF Rebind
<1> DEFINE r == Asks("open", Root, link.gen + 1)
<1>1. r \in Request /\ r.kind = "open" /\ r.gen = link.gen + 1
  BY TypeInvImplies, AsksType, NodeNames DEF TypeInv, OtherOK, LinkRecord
<1> HIDE DEF r
<1>2. queue' = Append(queue, r) /\ out' = out /\ queue \in Seq(Request) /\ out \in Seq(Answer)
  BY DEF TypeInv, QueuesOK, r
<1>3. queue' \in Seq(Request) /\ ToSet(queue') = ToSet(queue) \cup {r}
  BY <1>1, <1>2, AppendProperties, ToSetAppend
<1>4. link'.gen = link.gen + 1 /\ link.gen \in Nat /\ link' \in LinkRecord
  BY LinkMoves DEF TypeInv, OtherOK
<1>5. QueuesOK'
  BY <1>1, <1>2, <1>3, <1>4, QueuesRenewed DEF TypeInv
<1>6. TreeOK'
  BY StoppedOK
<1>7. OweOK'
  <2> DEFINE waits == { n \in Nodes : n \in soft \/ Awaited(n) # {} }
             deaf  == marks.asked /\ ~\E a \in ToSet(out) : a.kind = "marks"
             F == Forgiven(IF deaf THEN Nodes ELSE waits)
  <2>1. owe' = [F EXCEPT !.unit = 0, !.lost = IF deaf THEN @ \cup {"marks"} ELSE @]
    OBVIOUS
  <2>2. F \in OweRecord
    BY ForgivenType
  <2> HIDE DEF F, deaf
  <2>3. CASE deaf
    <3>1. owe' = [F EXCEPT !.unit = 0, !.lost = @ \cup {"marks"}]
      BY <2>1, <2>2, <2>3 DEF OweRecord
    <3> HIDE DEF Rebind
    <3> QED BY <2>2, <3>1 DEF OweOK, OweRecord
  <2>4. CASE ~deaf
    <3>1. owe' = [F EXCEPT !.unit = 0]
      BY <2>1, <2>2, <2>4 DEF OweRecord
    <3> HIDE DEF Rebind
    <3> QED BY <2>2, <3>1 DEF OweOK, OweRecord
  <2> QED BY <2>3, <2>4
<1>8. OtherOK'
  <2>1. thread.gen \in Nat /\ thread'.gen <= link'.gen
    BY <1>4 DEF TypeInv, OtherOK
  <2>2. left' \in BudgetRecord
    BY BudgetSpent
  <2> QED BY <1>4, <2>1, <2>2 DEF TypeInv, OtherOK, ownVars
<1> QED BY <1>5, <1>6, <1>7, <1>8 DEF TypeInv

LEMMA GoOfflineOK == ASSUME TypeInv, GoOffline PROVE TypeInv'
<1> USE DEF GoOffline
<1>1. /\ link'.gen = link.gen + 1 /\ link.gen \in Nat /\ link' \in LinkRecord
      /\ queue' = <<>> /\ out' = <<>>
  BY LinkMoves DEF TypeInv, OtherOK
<1>2. QueuesOK'
  BY <1>1, ToSetEmpty DEF QueuesOK
<1>3. TreeOK'
  BY StoppedOK
<1>4. OweOK'
  BY DEF TypeInv, OweOK
<1>5. OtherOK'
  <2>1. left' \in BudgetRecord /\ run' \in RunRecord
    BY BudgetSpent DEF NoRun, RunRecord
  <2>2. thread' \in [ gen : Nat, unit : Nat ] /\ thread'.gen <= link'.gen
    BY <1>1 DEF NoThread
  <2> QED BY <1>1, <2>1, <2>2 DEF TypeInv, OtherOK
<1> QED BY <1>2, <1>3, <1>4, <1>5 DEF TypeInv

LEMMA RemovePaneOK == ASSUME TypeInv, RemovePane PROVE TypeInv'
<1> USE DEF RemovePane
<1>1. /\ link'.gen = link.gen + 1 /\ link.gen \in Nat /\ link' \in LinkRecord
      /\ queue' = <<>> /\ out' = <<>>
  BY LinkMoves DEF TypeInv, OtherOK
<1>2. QueuesOK'
  BY <1>1, ToSetEmpty DEF QueuesOK
<1>3. TreeOK'
  BY BareOK
<1>4. OweOK'
  BY DEF TypeInv, OweOK
<1>5. OtherOK'
  <2>1. left' \in BudgetRecord /\ marks' \in MarksRecord
    BY BudgetSpent DEF MarksRecord
  <2>2. thread' \in [ gen : Nat, unit : Nat ] /\ thread'.gen <= link'.gen
    BY <1>1 DEF NoThread
  <2> QED BY <1>1, <2>1, <2>2 DEF TypeInv, OtherOK, ownVars
<1> QED BY <1>2, <1>3, <1>4, <1>5 DEF TypeInv

\* What the thread does with the request it takes.
LEMMA Taken ==
  ASSUME TypeInv, queue # <<>>, NEW k, k = Pick
  PROVE  /\ k \in DOMAIN queue /\ queue[k] \in Request /\ queue[k] \in ToSet(queue)
         /\ Fits(queue[k])
         /\ RemoveAt(queue, k) \in Seq(Request)
         /\ ToSet(queue) = ToSet(RemoveAt(queue, k)) \cup {queue[k]}
<1>1. queue \in Seq(Request)
  BY DEF TypeInv, QueuesOK
<1>2. k \in DOMAIN queue
  BY <1>1, PickedFirst
<1>3. queue[k] \in Request /\ queue[k] \in ToSet(queue)
  BY <1>1, <1>2, ElementOfSeq, LenProperties DEF ToSet
<1>4. Fits(queue[k])
  BY <1>3 DEF TypeInv, QueuesOK
<1> QED BY <1>1, <1>2, <1>3, <1>4, RemoveAtProperties, ToSetRemoveAt

\* An answer is one, and of the same kind, node and generation as its request.
LEMMA AnsweredType ==
  ASSUME TypeInv, NEW r \in Request, r.kind \in {"open", "list", "marks"}, NEW ok \in BOOLEAN
  PROVE  /\ Answered(r, ok) \in Answer
         /\ Answered(r, ok).kind = r.kind /\ Answered(r, ok).node = r.node
         /\ Answered(r, ok).gen = r.gen /\ Answered(r, ok).ok = ok
         /\ \A n \in Nodes : r.kind = "list" /\ r.node = n => Answered(r, ok).at[n] = srv[n]
         /\ Real(Answered(r, ok))
<1>0. PICK at : at = [n \in Nodes |-> IF \/ r.kind = "list" /\ r.node = n
                                         \/ r.kind = "marks" /\ n \in Folders
                                       THEN srv[n] ELSE 0]
  OBVIOUS
<1>1. at \in Versions /\ \A n \in Nodes : r.kind = "list" /\ r.node = n => at[n] = srv[n]
  <2>1. \A n \in Nodes : srv[n] \in Nat
    BY DEF TypeInv, OtherOK, Versions
  <2>2. at \in [Nodes -> Nat]
    BY <1>0, <2>1
  <2>3. \A n \in Nodes : r.kind = "list" /\ r.node = n => at[n] = srv[n]
    BY <1>0
  <2> QED BY <2>2, <2>3 DEF Versions
<1>2. thread.unit \in Nat
  BY DEF TypeInv, OtherOK
<1>3. Answered(r, ok) = [ kind |-> r.kind, node |-> r.node, gen |-> r.gen, unit |-> thread.unit,
                          load |-> r.load, anew |-> r.anew, ok |-> ok, at |-> at ]
  BY <1>0 DEF Answered
<1>4. Answered(r, ok) \in Answer
  BY <1>1, <1>2, <1>3 DEF Answer, Request
<1>5. Real(Answered(r, ok))
  BY <1>1, <1>3 DEF Real, TypeInv, OtherOK
<1> QED BY <1>1, <1>3, <1>4, <1>5

LEMMA ServeOK == ASSUME TypeInv, Serve PROVE TypeInv'
<1> DEFINE k == Pick
           r == queue[k]
<1>1. /\ queue # <<>> /\ queue' = RemoveAt(queue, k)
      /\ UNCHANGED <<site, link, tree, soft, again, marks, ownVars, unit>>
      /\ \/ /\ Uses(r) \/ (Overtaken(r) /\ UNCHANGED thread)
            /\ UNCHANGED <<out, owe, left>>
         \/ /\ Opens(r) \/ Reads(r)
            /\ \E ok \in BOOLEAN :
                 /\ ~ok => left.fails > 0
                 /\ left' = IF ok THEN left ELSE [left EXCEPT !.fails = @ - 1]
                 /\ out' = Append(out, Answered(r, ok))
            /\ owe' = IF /\ r.kind = "list" /\ r.node = Root
                         /\ \E u \in ToSet(queue) : u.kind = "use" /\ u.gen = r.gen
                      THEN [owe EXCEPT !.lost = @ \cup {"unit"}] ELSE owe
  BY DEF Serve
<1> HIDE DEF k
<1>2. /\ k \in DOMAIN queue /\ r \in Request /\ r \in ToSet(queue) /\ Fits(r)
      /\ queue' \in Seq(Request) /\ ToSet(queue) = ToSet(queue') \cup {r}
  BY <1>1, Taken DEF k
<1> HIDE DEF r
<1>3. TreeOK' /\ Standing
  BY <1>1, TreeSame
<1>4. OweOK'
  BY <1>1 DEF TypeInv, OweOK, OweRecord
<1>5. thread' \in [ gen : Nat, unit : Nat ] /\ thread'.gen <= link.gen
  BY <1>1, <1>2 DEF Uses, Opens, Reads, Fits, Request, TypeInv, OtherOK
<1>6. left' \in BudgetRecord
  BY <1>1, BudgetSpent
<1>7. OtherOK'
  BY <1>1, <1>5, <1>6 DEF TypeInv, OtherOK, ownVars
<1>8. QueuesOK'
  <2>1. out \in Seq(Answer) /\ QueuesOK
    BY DEF TypeInv, QueuesOK
  <2>2. CASE out' = out
    BY <1>1, <1>2, <1>3, <2>1, <2>2, QueuesStay
  <2>3. CASE Opens(r) \/ Reads(r)
    <3>1. CASE out' = out
      BY <2>2, <3>1
    <3>2. ASSUME NEW ok \in BOOLEAN, out' = Append(out, Answered(r, ok))
          PROVE  QueuesOK'
      <4>0. PICK a : a = Answered(r, ok)
        OBVIOUS
      <4>1. /\ a \in Answer /\ a.kind = r.kind /\ a.node = r.node /\ a.gen = r.gen /\ Real(a)
        BY <1>2, <2>3, <4>0, AnsweredType DEF Opens, Reads
      <4>2. out' \in Seq(Answer) /\ ToSet(out') = ToSet(out) \cup {a}
        BY <2>1, <3>2, <4>0, <4>1, AppendProperties, ToSetAppend
      <4>3. Fits(a)'
        BY <1>1, <1>2, <4>1 DEF Fits
      <4>4. link'.gen = link.gen
        BY <1>1
      <4> QED BY <1>2, <1>3, <2>1, <4>1, <4>2, <4>3, <4>4, QueuesStay
    <3> QED BY <1>1, <3>1, <3>2
  <2> QED BY <1>1, <2>2, <2>3
<1> QED BY <1>3, <1>4, <1>7, <1>8 DEF TypeInv

\* The answer read is the oldest one.
LEMMA Drained ==
  ASSUME TypeInv, out # <<>>
  PROVE  /\ Head(out) \in Answer /\ Head(out) \in ToSet(out)
         /\ Fits(Head(out)) /\ Real(Head(out))
         /\ Tail(out) \in Seq(Answer) /\ ToSet(out) = ToSet(Tail(out)) \cup {Head(out)}
<1>1. out \in Seq(Answer)
  BY DEF TypeInv, QueuesOK
<1>2. /\ Head(out) \in Answer /\ Tail(out) \in Seq(Answer)
      /\ ToSet(out) = ToSet(Tail(out)) \cup {Head(out)}
  BY <1>1, ToSetTail
<1> QED BY <1>2 DEF TypeInv, QueuesOK

DrainFrame == UNCHANGED <<site, thread, ownVars, left>>

LEMMA DroppedOK ==
  ASSUME TypeInv, out # <<>>, Dropped(Head(out)), DrainFrame
  PROVE  TypeInv'
<1>1. out' = Tail(out) /\ UNCHANGED <<link, tree, soft, again, queue, unit, owe>>
  BY DEF Dropped
<1>2. TreeOK' /\ Standing
  BY <1>1, TreeSame
<1>3. queue' \in Seq(Request) /\ QueuesOK
  BY <1>1 DEF TypeInv, QueuesOK
<1>4. QueuesOK'
  BY <1>1, <1>2, <1>3, Drained, QueuesStay
<1>5. marks' \in MarksRecord
  BY DEF Dropped, TypeInv, OtherOK, MarksRecord
<1>6. OtherOK'
  BY <1>1, <1>5 DEF DrainFrame, TypeInv, OtherOK, ownVars
<1>7. OweOK'
  BY <1>1 DEF TypeInv, OweOK
<1> QED BY <1>2, <1>4, <1>6, <1>7 DEF TypeInv

LEMMA MarkedOK ==
  ASSUME TypeInv, out # <<>>, Marked(Head(out)), DrainFrame
  PROVE  TypeInv'
<1>0. PICK a : a = Head(out)
  OBVIOUS
<1>1. /\ out' = Tail(out) /\ UNCHANGED <<link, tree, again, unit, owe>>
      /\ marks' = [ asked |-> FALSE, seen |-> IF a.ok THEN {a.at} ELSE marks.seen ]
      /\ SoftRefresh(IF a.ok /\ Noticed(a.at) THEN Folders ELSE {})
  BY <1>0 DEF Marked
<1>2. TreeOK'
  BY <1>1, TreeSame
<1>3. (IF a.ok /\ Noticed(a.at) THEN Folders ELSE {}) \in SUBSET Nodes
  BY NodeNames
<1>4. QueuesOK' /\ soft' \subseteq Nodes
  BY <1>1, <1>3, Drained, QueuesSoft
<1>5. marks' \in MarksRecord
  <2>1. a.at \in Versions
    BY <1>0, Drained DEF Answer
  <2>2. marks.seen \in SUBSET Versions
    BY DEF TypeInv, OtherOK, MarksRecord
  <2> QED BY <1>1, <2>1, <2>2 DEF MarksRecord
<1>6. OtherOK'
  BY <1>1, <1>4, <1>5 DEF DrainFrame, TypeInv, OtherOK, ownVars
<1>7. OweOK'
  BY <1>1 DEF TypeInv, OweOK
<1> QED BY <1>2, <1>4, <1>6, <1>7 DEF TypeInv

\* A node with another state, open or closed as the step has it.
LEMMA StateSet ==
  ASSUME TypeInv, NEW n \in Nodes, NEW st \in {"idle", "loading", "error"}, NEW o \in BOOLEAN,
         n # Root => tree[n].state # "absent",
         tree' = [tree EXCEPT ![n].state = st, ![n].open = o]
  PROVE  TreeOK' /\ Standing
<1>0. tree \in [Nodes -> NodeRecord] /\ TreeOK
  BY DEF TypeInv, TreeOK
<1>1. PICK r : r = [tree[n] EXCEPT !.state = st, !.open = o]
  OBVIOUS
<1>2. tree[n] \in NodeRecord
  BY <1>0
<1>3. /\ r \in NodeRecord /\ r.state = st /\ r.seen = tree[n].seen /\ r.below = tree[n].below
  BY <1>1, <1>2 DEF NodeRecord, States
<1>4. tree' = [tree EXCEPT ![n] = r]
  BY <1>0, <1>1
<1>5. r.below => r.seen > 0
  BY <1>0, <1>3 DEF TreeOK
<1>6. /\ r.state # "loaded" /\ r.state # "absent"
      /\ n = Root /\ r.seen = 0 => tree[Root].seen = 0
  BY <1>3
<1> QED BY <1>0, <1>3, <1>4, <1>5, <1>6, OneNode

LEMMA OpenedOK ==
  ASSUME TypeInv, out # <<>>, Opened(Head(out)), DrainFrame
  PROVE  TypeInv'
<1>0. PICK a : a = Head(out)
  OBVIOUS
<1>1. out' = Tail(out) /\ UNCHANGED <<soft, again, marks, unit>>
  BY DEF Opened
<1>2. link' \in LinkRecord /\ link'.gen = link.gen
  <2>1. link \in LinkRecord
    BY DEF TypeInv, OtherOK
  <2>2. CASE UNCHANGED link
    BY <2>1, <2>2
  <2>3. CASE link' = [link EXCEPT !.known = TRUE, !.rebinding = FALSE]
    BY <2>1, <2>3 DEF LinkRecord
  <2>4. CASE link' = [link EXCEPT !.known = TRUE, !.expandable = TRUE]
    BY <2>1, <2>4 DEF LinkRecord
  <2> QED BY <2>2, <2>3, <2>4 DEF Opened
<1>3. OweOK'
  <2>1. owe \in OweRecord
    BY DEF TypeInv, OweOK
  <2>2. UNCHANGED owe \/ owe' = [owe EXCEPT !.lost = @ \cup {"open"}]
    BY DEF Opened
  <2> QED BY <2>1, <2>2 DEF OweOK, OweRecord
<1>4. OtherOK'
  BY <1>1, <1>2 DEF DrainFrame, TypeInv, OtherOK, ownVars
<1>5. TreeOK' /\ Standing
  <2>0. tree \in [Nodes -> NodeRecord] /\ tree[Root].open \in BOOLEAN
    BY NodeNames DEF TypeInv, TreeOK, NodeRecord
  <2>1. CASE UNCHANGED tree
    BY <2>1, TreeSame
  <2>2. CASE tree' = [tree EXCEPT ![Root].state = "error"]
    <3>1. tree' = [tree EXCEPT ![Root].state = "error", ![Root].open = tree[Root].open]
      BY <2>0, <2>2, NodeNames DEF NodeRecord
    <3> QED BY <2>0, <3>1, NodeNames, StateSet
  <2>3. CASE tree' = [tree EXCEPT ![Root].state = "idle", ![Root].open = FALSE]
    BY <2>3, NodeNames, StateSet
  <2>4. CASE tree' = [tree EXCEPT ![Root].state = "loading", ![Root].open = TRUE]
    BY <2>4, NodeNames, StateSet
  <2> QED BY <2>1, <2>2, <2>3, <2>4 DEF Opened
<1>6. QueuesOK'
  <2>1. queue \in Seq(Request) /\ QueuesOK
    BY DEF TypeInv, QueuesOK
  <2>2. CASE UNCHANGED queue
    BY <1>1, <1>2, <1>5, <2>1, <2>2, Drained, QueuesStay
  <2>3. CASE queue' = Append(queue, Asked(Root, TRUE))
    <3>1. PICK r : r = Asked(Root, TRUE)
      OBVIOUS
    <3>2. r \in Request /\ r.node = Root /\ r.gen = link.gen /\ link.gen \in Nat
      BY <3>1, AskedType, NodeNames, TypeInvImplies DEF TypeInv, OtherOK, LinkRecord
    <3>3. queue' \in Seq(Request) /\ ToSet(queue') = ToSet(queue) \cup {r}
      BY <2>1, <2>3, <3>1, <3>2, AppendProperties, ToSetAppend
    <3>4. Fits(r)'
      BY <1>2, <3>2, NodeNames DEF Fits
    <3> QED BY <1>1, <1>2, <1>5, <2>1, <3>3, <3>4, Drained, QueuesStay
  <2> QED BY <2>2, <2>3 DEF Opened
<1> QED BY <1>3, <1>4, <1>5, <1>6 DEF TypeInv

\* The schema is replaced: its folders go, and what is on the way to them.
LEMMA RootReplacedOK ==
  ASSUME TypeInv, out # <<>>, NEW a, a = Head(out), a.kind = "list", a.gen = link.gen,
         a.node = Root, Replaces(a, Root), UNCHANGED link,
         queue' \in Seq(Request),
         \A r \in ToSet(queue') : \/ r \in ToSet(Orphaned(queue))
                                  \/ r.node = Root /\ r.gen = link.gen
  PROVE  TreeOK' /\ QueuesOK'
<1>1. queue \in Seq(Request) /\ out \in Seq(Answer) /\ QueuesOK /\ link.gen \in Nat
  BY DEF TypeInv, QueuesOK, OtherOK, LinkRecord
<1>2. a.at[Root] > 0 /\ a.at[Root] \in Nat
  BY Drained, NodeNames DEF Replaces, Real, Answer, Versions
<1>3. TreeOK'
  <2>1. tree' = [m \in Nodes |->
                   IF m = Root THEN [Blank("loaded") EXCEPT !.open = TRUE, !.seen = a.at[Root]]
                   ELSE Blank(IF link.known THEN "idle" ELSE "absent")]
    BY NodeNames DEF Replaces
  <2>2. PICK r : r = [Blank("loaded") EXCEPT !.open = TRUE, !.seen = a.at[Root]]
    OBVIOUS
  <2>3. PICK b : b = Blank(IF link.known THEN "idle" ELSE "absent")
    OBVIOUS
  <2>4. r \in NodeRecord /\ r.state = "loaded" /\ r.seen > 0
    BY <1>2, <2>2 DEF Blank, NodeRecord, States
  <2>5. b \in NodeRecord /\ b.state # "loaded" /\ b.below = FALSE
    BY <2>3 DEF Blank, NodeRecord, States
  <2>6. tree' = [m \in Nodes |-> IF m = Root THEN r ELSE b]
    BY <2>1, <2>2, <2>3
  <2> QED BY <2>4, <2>5, <2>6, NodeNames DEF TreeOK
<1>4. /\ Orphaned(queue) \in Seq(Request)
      /\ \A r \in ToSet(Orphaned(queue)) : r.node \notin Folders /\ r.gen <= link.gen
  <2>1. /\ Orphaned(queue) \in Seq(Request)
        /\ \A r \in ToSet(Orphaned(queue)) :
             /\ r.node \notin Folders
             /\ \/ r \in ToSet(queue)
                \/ r.node = Gone /\ \E q \in ToSet(queue) : q.kind = r.kind /\ q.gen = r.gen
    BY <1>1, OrphanedElements
  <2> QED BY <2>1, <1>1 DEF QueuesOK, Fits
<1>5. /\ out' \in Seq(Answer)
      /\ \A r \in ToSet(out') :
           r.node \notin Folders /\ r.gen <= link.gen /\ (r \in ToSet(out) \/ r.node = Gone)
  <2>1. Tail(out) \in Seq(Answer) /\ ToSet(Tail(out)) \subseteq ToSet(out)
    BY Drained
  <2>2. out' = Orphaned(Tail(out))
    BY DEF Replaces
  <2>3. /\ out' \in Seq(Answer)
        /\ \A r \in ToSet(out') :
             /\ r.node \notin Folders
             /\ \/ r \in ToSet(Tail(out))
                \/ r.node = Gone /\ \E q \in ToSet(Tail(out)) : q.kind = r.kind /\ q.gen = r.gen
    BY <2>1, <2>2, OrphanedElements
  <2> QED BY <2>1, <2>3, <1>1 DEF QueuesOK, Fits
<1>6. QueuesOK'
  BY <1>1, <1>4, <1>5, NodeNames, QueuesBared
<1> QED BY <1>3, <1>6

\* Any other list changes its node only.
LEMMA NodeListedOK ==
  ASSUME TypeInv, out # <<>>, NEW a, a = Head(out), a.kind = "list", a.gen = link.gen,
         a.node \in Nodes, \/ Merges(a, a.node) \/ Fails(a, a.node)
                           \/ Replaces(a, a.node) /\ a.node # Root
  PROVE  TreeOK' /\ Standing /\ out' = Tail(out)
<1> DEFINE n == a.node
<1>1. /\ tree \in [Nodes -> NodeRecord] /\ TreeOK
      /\ a.ok => a.at[n] > 0 /\ a.at[n] \in Nat
      /\ n \in Folders => tree[n].state # "absent"
  BY Drained DEF TypeInv, TreeOK, Fits, Real, Answer, Versions
<1>2. tree[n] \in NodeRecord
  BY <1>1
<1>3. ASSUME NEW r \in NodeRecord, tree' = [tree EXCEPT ![n] = r],
             r.state = "loaded" /\ r.seen > 0
      PROVE  TreeOK' /\ Standing
  <2>1. /\ r.state = "loaded" => r.seen > 0
        /\ r.below => r.seen > 0
        /\ n = Root /\ r.seen = 0 => tree[Root].seen = 0
        /\ n # Root => (r.state = "absent" <=> tree[n].state = "absent")
    BY <1>1, <1>3, NodeNames DEF NodeRecord
  <2> QED BY <1>1, <1>3, <2>1, OneNode
<1>4. CASE Merges(a, n)
  <2>1. PICK r : r = [tree[n] EXCEPT !.state = "loaded", !.seen = a.at[n]]
    OBVIOUS
  <2>2. r \in NodeRecord /\ r.state = "loaded" /\ r.seen > 0
    BY <1>1, <1>2, <1>4, <2>1 DEF Merges, NodeRecord, States
  <2>3. tree' = [tree EXCEPT ![n] = r]
    BY <1>1, <1>4, <2>1 DEF Merges
  <2>4. out' = Tail(out)
    BY <1>4 DEF Merges
  <2> QED BY <1>3, <2>2, <2>3, <2>4
<1>5. CASE Fails(a, n)
  <2>1. out' = Tail(out)
    BY <1>5 DEF Fails
  <2>2. CASE tree' = tree
    BY <2>1, <2>2, TreeSame
  <2>3. CASE tree' = [tree EXCEPT ![n].state = "error", ![n].open = TRUE]
    <3>1. n # Root => tree[n].state # "absent"
      BY <1>1, NodeNames
    <3> QED BY <2>1, <2>3, <3>1, StateSet
  <2> QED BY <1>5, <2>2, <2>3 DEF Fails
<1>6. CASE Replaces(a, n) /\ n # Root
  <2>1. PICK r : r = [Blank("loaded") EXCEPT !.open = TRUE, !.seen = a.at[n]]
    OBVIOUS
  <2>2. r \in NodeRecord /\ r.state = "loaded" /\ r.seen > 0
    BY <1>1, <1>6, <2>1 DEF Replaces, Blank, NodeRecord, States
  <2>3. tree' = [tree EXCEPT ![n] = r]
    BY <1>1, <1>6, <2>1 DEF Replaces
  <2>4. out' = Tail(out)
    BY <1>6 DEF Replaces
  <2> QED BY <1>3, <2>2, <2>3, <2>4
<1> QED BY <1>4, <1>5, <1>6

LEMMA ListedOK ==
  ASSUME TypeInv, out # <<>>, Listed(Head(out)), DrainFrame
  PROVE  TypeInv'
<1>0. PICK a : a = Head(out)
  OBVIOUS
<1>00. PICK n : n = a.node
  OBVIOUS
<1> DEFINE new == n = Root /\ a.ok /\ ~Merged(n)
           q == IF new THEN Kept(Root) ELSE queue
           s == (IF new THEN soft \cap {Root} ELSE soft) \ {n}
<1>1. /\ a.kind = "list" /\ a.gen = link.gen /\ n # Gone
      /\ Merges(a, n) \/ Replaces(a, n) \/ Fails(a, n)
      /\ queue' = IF OnceMore(n) THEN Append(q, Asked(Root, FALSE)) ELSE q
      /\ soft' = IF OnceMore(n) THEN s \cup {Root} ELSE s
      /\ again' = IF n = Root THEN FALSE ELSE again
      /\ unit' = IF n = Root /\ a.ok THEN [unit EXCEPT !.shown = a.unit] ELSE unit
      /\ owe' = IF a.ok THEN owe
                ELSE [Forgiven({n}) EXCEPT !.unit = IF n = Root THEN 0 ELSE @]
      /\ UNCHANGED <<link, marks>>
  BY <1>0, <1>00 DEF Listed
<1>2. n \in Nodes
  <2>1. a \in Answer
    BY <1>0, Drained
  <2> QED BY <1>00, <1>1, <2>1 DEF Answer
<1> HIDE DEF q
<1>3. queue \in Seq(Request) /\ link.gen \in Nat
  BY DEF TypeInv, QueuesOK, OtherOK, LinkRecord
<1>4. q \in Seq(Request)
  BY <1>3, OrphanedElements DEF q, Kept
<1>5. PICK r : r = Asked(Root, FALSE)
  OBVIOUS
<1>6. r \in Request /\ r.node = Root /\ r.gen = link.gen
  BY <1>5, AskedType, NodeNames, TypeInvImplies
<1>7. queue' \in Seq(Request) /\ ToSet(queue') \subseteq ToSet(q) \cup {r}
  BY <1>1, <1>4, <1>5, <1>6, AppendProperties, ToSetAppend
<1>8. TreeOK' /\ QueuesOK'
  <2>1. CASE new /\ Replaces(a, n)
    <3>1. q = Orphaned(queue)
      BY <2>1 DEF q, Kept
    <3>2. \A x \in ToSet(queue') : \/ x \in ToSet(Orphaned(queue))
                                   \/ x.node = Root /\ x.gen = link.gen
      BY <1>6, <1>7, <3>1
    <3> QED BY <1>0, <1>00, <1>1, <1>7, <2>1, <3>2, RootReplacedOK
  <2>2. CASE ~(new /\ Replaces(a, n))
    <3>1. Merges(a, n) \/ Fails(a, n) \/ (Replaces(a, n) /\ n # Root)
      BY <1>1, <2>2 DEF Replaces
    <3>2. TreeOK' /\ Standing /\ out' = Tail(out)
      BY <1>0, <1>00, <1>1, <1>2, <3>1, NodeListedOK
    <3>3. q = queue
      BY <3>1, <2>2 DEF q, Merges, Fails, Replaces
    <3>4. Fits(r)'
      BY <1>1, <1>3, <1>6, NodeNames DEF Fits
    <3>5. QueuesOK
      BY DEF TypeInv
    <3> QED BY <1>1, <1>7, <3>2, <3>3, <3>4, <3>5, Drained, QueuesStay
  <2> QED BY <2>1, <2>2
<1>9. OweOK'
  <2>1. owe \in OweRecord /\ Forgiven({n}) \in OweRecord
    BY ForgivenType DEF TypeInv, OweOK
  <2> QED BY <1>1, <2>1 DEF OweOK, OweRecord
<1>10. unit' \in [ session : Nat, shown : Nat ]
  <2>1. a.unit \in Nat
    BY <1>0, Drained DEF Answer
  <2> QED BY <1>1, <2>1 DEF TypeInv, OtherOK
<1>11. soft' \subseteq Nodes /\ again' \in BOOLEAN
  BY <1>1, NodeNames DEF TypeInv, OtherOK
<1>12. OtherOK'
  BY <1>1, <1>10, <1>11 DEF DrainFrame, TypeInv, OtherOK, ownVars
<1> QED BY <1>8, <1>9, <1>12 DEF TypeInv

LEMMA DrainOK == ASSUME TypeInv, Drain PROVE TypeInv'
<1>1. out # <<>> /\ DrainFrame
  BY DEF Drain, DrainFrame
<1>2. \/ Dropped(Head(out)) \/ Opened(Head(out)) \/ Listed(Head(out)) \/ Marked(Head(out))
  BY DEF Drain
<1> QED BY <1>1, <1>2, DroppedOK, OpenedOK, ListedOK, MarkedOK

\* A node on view is in the tree.
LEMMA VisibleStands ==
  ASSUME NEW n \in Nodes, n = Root \/ Visible(n)
  PROVE  n # Root => tree[n].state # "absent"
BY DEF Visible

LEMMA ExpandOK == ASSUME TypeInv, NEW n \in Nodes, Expand(n) PROVE TypeInv'
<1>0. /\ Acts /\ UNCHANGED <<site, paneVars, soft, again, out, ownVars, unit, owe>>
      /\ n # Root => tree[n].state # "absent"
  BY VisibleStands DEF Expand
<1>1. tree \in [Nodes -> NodeRecord] /\ tree[n] \in NodeRecord /\ TreeOK
  BY DEF TypeInv, TreeOK
<1>2. OtherOK' /\ OweOK'
  BY <1>0, BudgetSpent DEF TypeInv, OtherOK, OweOK, paneVars, ownVars
<1>3. CASE tree[n].state = "loaded" /\ tree' = [tree EXCEPT ![n].open = TRUE] /\ UNCHANGED queue
  <2>1. PICK r : r = [tree[n] EXCEPT !.open = TRUE]
    OBVIOUS
  <2>2. /\ r \in NodeRecord /\ r.state = tree[n].state /\ r.seen = tree[n].seen
        /\ r.below = tree[n].below
    BY <1>1, <2>1 DEF NodeRecord
  <2>3. tree' = [tree EXCEPT ![n] = r]
    BY <1>1, <1>3, <2>1
  <2>4. TreeOK' /\ Standing
    <3>1. /\ r.state = "loaded" => r.seen > 0
          /\ r.below => r.seen > 0
          /\ n = Root /\ r.seen = 0 => tree[Root].seen = 0
          /\ n # Root => (r.state = "absent" <=> tree[n].state = "absent")
      BY <1>1, <2>2 DEF TreeOK
    <3> QED BY <1>1, <2>2, <2>3, <3>1, OneNode
  <2> QED BY <1>0, <1>2, <1>3, <2>4, QueuesSame DEF TypeInv, paneVars
<1>4. CASE tree' = [tree EXCEPT ![n].open = TRUE, ![n].state = "error"] /\ UNCHANGED queue
  <2>1. tree' = [tree EXCEPT ![n].state = "error", ![n].open = TRUE]
    BY <1>1, <1>4 DEF NodeRecord
  <2>2. TreeOK' /\ Standing
    BY <1>0, <2>1, StateSet
  <2> QED BY <1>0, <1>2, <1>4, <2>2, QueuesSame DEF TypeInv, paneVars
<1>5. CASE /\ tree' = [tree EXCEPT ![n].open = TRUE, ![n].state = "loading"]
           /\ queue' = Append(queue, Asked(n, TRUE))
  <2>1. tree' = [tree EXCEPT ![n].state = "loading", ![n].open = TRUE]
    BY <1>1, <1>5 DEF NodeRecord
  <2>2. TreeOK' /\ Standing
    BY <1>0, <2>1, StateSet
  <2>3. PICK r : r = Asked(n, TRUE)
    OBVIOUS
  <2>4. r \in Request /\ r.node = n /\ r.gen = link.gen /\ link.gen \in Nat
    BY <2>3, AskedType, TypeInvImplies DEF TypeInv, OtherOK, LinkRecord
  <2>5. Fits(r)'
    BY <1>0, <2>2, <2>4, NodeNames DEF Fits, paneVars, Standing
  <2> QED BY <1>0, <1>2, <1>5, <2>2, <2>3, <2>4, <2>5, QueuesAsk DEF TypeInv, paneVars
<1> QED BY <1>3, <1>4, <1>5 DEF Expand

LEMMA CollapseOK ==
  ASSUME TypeInv, NEW n \in Nodes, Collapse(n) \/ (n \in Folders /\ OpenBelow(n))
  PROVE  TypeInv'
<1>0. /\ Acts \/ left' = left
      /\ UNCHANGED <<site, paneVars, soft, again, queue, out, ownVars, unit, owe>>
  BY DEF Collapse, OpenBelow
<1>1. tree \in [Nodes -> NodeRecord] /\ tree[n] \in NodeRecord /\ TreeOK
  BY DEF TypeInv, TreeOK
<1>2. OtherOK' /\ OweOK'
  BY <1>0, BudgetSpent DEF TypeInv, OtherOK, OweOK, paneVars, ownVars
<1>3. PICK r : r = IF Collapse(n) THEN [tree[n] EXCEPT !.open = FALSE]
                                  ELSE [tree[n] EXCEPT !.below = TRUE]
  OBVIOUS
<1>4. /\ r \in NodeRecord /\ r.state = tree[n].state /\ r.seen = tree[n].seen
      /\ r.below => tree[n].below \/ tree[n].seen > 0
  BY <1>1, <1>3 DEF NodeRecord, OpenBelow
<1>5. tree' = [tree EXCEPT ![n] = r]
  BY <1>1, <1>3 DEF Collapse, OpenBelow
<1>6. /\ r.state = "loaded" => r.seen > 0
      /\ r.below => r.seen > 0
      /\ n = Root /\ r.seen = 0 => tree[Root].seen = 0
      /\ n # Root => (r.state = "absent" <=> tree[n].state = "absent")
  BY <1>1, <1>4 DEF TreeOK
<1>7. TreeOK' /\ Standing
  BY <1>1, <1>4, <1>5, <1>6, OneNode
<1> QED BY <1>0, <1>2, <1>7, QueuesSame DEF TypeInv, paneVars

LEMMA OpenSchemaOK == ASSUME TypeInv, OpenSchema PROVE TypeInv'
<1> USE DEF OpenSchema
<1>1. OtherOK' /\ OweOK'
  BY BudgetSpent DEF TypeInv, OtherOK, OweOK, paneVars, ownVars
<1>2. TreeOK'
  BY NodeNames DEF TypeInv, TreeOK, Blank, NodeRecord, States
<1>3. Standing
  BY DEF Standing
<1> QED BY <1>1, <1>2, <1>3, QueuesSame DEF TypeInv, paneVars

LEMMA TimeoutOK == ASSUME TypeInv, NEW n \in Nodes, Timeout(n) PROVE TypeInv'
<1> USE DEF Timeout
<1>1. OtherOK' /\ OweOK'
  BY BudgetSpent DEF TypeInv, OtherOK, OweOK, paneVars, ownVars
<1>2. TreeOK' /\ Standing
  BY StateSet
<1> QED BY <1>1, <1>2, QueuesSame DEF TypeInv, paneVars

LEMMA KickOK == ASSUME TypeInv, Kick PROVE TypeInv'
<1> USE DEF Kick
<1>1. OtherOK' /\ OweOK'
  BY BudgetSpent DEF TypeInv, OtherOK, OweOK, paneVars, ownVars
<1>2. TreeOK' /\ Standing
  <2>1. tree \in [Nodes -> NodeRecord] /\ tree[Root].open \in BOOLEAN
    BY NodeNames DEF TypeInv, TreeOK, NodeRecord
  <2>2. tree' = [tree EXCEPT ![Root].state = "loading", ![Root].open = tree[Root].open]
    BY <2>1, NodeNames DEF NodeRecord
  <2> QED BY <2>1, <2>2, NodeNames, StateSet
<1>3. PICK r : r = Asked(Root, TRUE)
  OBVIOUS
<1>4. r \in Request /\ r.node = Root /\ r.gen = link.gen /\ link.gen \in Nat
  BY <1>3, AskedType, NodeNames, TypeInvImplies DEF TypeInv, OtherOK, LinkRecord
<1>5. Fits(r)'
  BY <1>4, NodeNames DEF Fits, paneVars
<1> QED BY <1>1, <1>2, <1>3, <1>4, <1>5, QueuesAsk DEF TypeInv, paneVars

LEMMA PollOK == ASSUME TypeInv, Poll PROVE TypeInv'
<1> USE DEF Poll
<1>1. OtherOK' /\ OweOK'
  BY DEF TypeInv, OtherOK, OweOK, ownVars, MarksRecord
<1>2. TreeOK' /\ Standing
  BY TreeSame
<1>3. PICK r : r = Asks("marks", Gone, link.gen)
  OBVIOUS
<1>4. r \in Request /\ r.node = Gone /\ r.gen = link.gen /\ link.gen \in Nat
  <2>1. link.gen \in Nat
    BY DEF TypeInv, OtherOK, LinkRecord
  <2> QED BY <1>3, <2>1, AsksType, TypeInvImplies
<1>5. Fits(r)'
  BY <1>4, NodeNames DEF Fits
<1> QED BY <1>1, <1>2, <1>3, <1>4, <1>5, QueuesAsk DEF TypeInv

LEMMA RereadOK ==
  ASSUME TypeInv, NEW n \in Nodes, n # Root => tree[n].state # "absent", Reread(n),
         UNCHANGED <<link, srv>>
  PROVE  TreeOK' /\ QueuesOK' /\ OweOK' /\ soft' \subseteq Nodes /\ marks' \in MarksRecord
<1>1. /\ tree \in [Nodes -> NodeRecord] /\ tree[n] \in NodeRecord /\ TreeOK
      /\ queue \in Seq(Request) /\ out \in Seq(Answer) /\ QueuesOK /\ link.gen \in Nat
      /\ soft \subseteq Nodes /\ srv \in Versions /\ owe \in OweRecord
      /\ marks \in MarksRecord
  BY DEF TypeInv, TreeOK, QueuesOK, OtherOK, LinkRecord, OweOK
<1>20. PICK st \in {"loading", "idle"}, o \in BOOLEAN :
         o = tree[n].open /\ st = IF tree[n].open THEN "loading" ELSE "idle"
  BY <1>1 DEF NodeRecord
<1>30. tree' = [Bared(n) EXCEPT ![n].state = st, ![n].open = o]
  BY <1>20 DEF Reread
<1>4. OweOK'
  BY <1>1, DueType DEF Reread, OweOK
<1>5. marks' \in MarksRecord
  BY <1>1 DEF Reread, MarksRecord
<1>6. Kept(n) \in Seq(Request)
  BY <1>1, OrphanedElements DEF Kept
<1>7. PICK x : x = Asked(n, TRUE)
  OBVIOUS
<1>8. x \in Request /\ x.node = n /\ x.gen = link.gen
  BY <1>7, AskedType, TypeInvImplies
<1>9. queue' \in Seq(Request) /\ ToSet(queue') \subseteq ToSet(Kept(n)) \cup {x}
  <2>1. queue' = Append(Kept(n), x) \/ queue' = Kept(n)
    BY <1>7 DEF Reread
  <2>2. PICK q : q = Kept(n)
    OBVIOUS
  <2>3. q \in Seq(Request) /\ Append(q, x) \in Seq(Request)
        /\ ToSet(Append(q, x)) = ToSet(q) \cup {x}
    BY <1>6, <1>8, <2>2, AppendProperties, ToSetAppend
  <2> QED BY <2>1, <2>2, <2>3
<1>10. CASE n = Root
  <2>0. PICK r : r = [Blank(tree[Root].state) EXCEPT !.state = st, !.open = o]
    OBVIOUS
  <2>00. r \in NodeRecord /\ r.state \in {"loading", "idle"} /\ r.seen = 0 /\ ~r.below
    BY <2>0 DEF NodeRecord, States, Blank
  <2>1. tree' = [m \in Nodes |-> IF m = Root THEN r ELSE Blank("absent")]
    <3>1. Bared(n) = [m \in Nodes |-> Blank(IF m = Root THEN tree[Root].state ELSE "absent")]
      BY <1>10 DEF Bared, Bare
    <3>2. tree' = [m \in Nodes |->
                     IF m = Root THEN [Blank(tree[Root].state) EXCEPT !.state = st, !.open = o]
                     ELSE Blank("absent")]
      BY <1>10, <1>30, <3>1, NodeNames
    <3> QED BY <2>0, <3>2
  <2>2. TreeOK'
    BY <2>00, <2>1, NodeNames DEF TreeOK, Blank, NodeRecord, States
  <2>3. /\ out' = Orphaned(out) /\ soft' = soft \cap {Root}
        /\ Kept(n) = Orphaned(queue)
    BY <1>10 DEF Reread, Clears, Kept
  <2>4. \A y \in ToSet(queue') : y.node \notin Folders /\ y.gen <= link.gen
    <3>1. \A y \in ToSet(Orphaned(queue)) : y.node \notin Folders /\ y.gen <= link.gen
      BY <1>1, OrphanedElements DEF QueuesOK, Fits
    <3> QED BY <1>1, <1>8, <1>9, <1>10, <2>3, <3>1, NodeNames
  <2>5. /\ out' \in Seq(Answer)
        /\ \A y \in ToSet(out') :
             y.node \notin Folders /\ y.gen <= link.gen /\ (y \in ToSet(out) \/ y.node = Gone)
    BY <1>1, <2>3, OrphanedElements DEF QueuesOK, Fits
  <2>6. QueuesOK'
    BY <1>1, <1>9, <2>4, <2>5, QueuesBared
  <2> QED BY <1>1, <1>4, <1>5, <2>2, <2>3, <2>6
<1>11. CASE n # Root
  <2>0. PICK r : r = [tree[n] EXCEPT !.seen = 0, !.below = FALSE, !.state = st, !.open = o]
    OBVIOUS
  <2>00. r \in NodeRecord /\ r.state \in {"loading", "idle"} /\ r.seen = 0 /\ ~r.below
    BY <1>1, <2>0 DEF NodeRecord, States
  <2>1. tree' = [tree EXCEPT ![n] = r]
    <3>1. Bared(n) = [tree EXCEPT ![n].seen = 0, ![n].below = FALSE]
      BY <1>11 DEF Bared
    <3> QED BY <1>1, <1>30, <2>0, <3>1
  <2>2. TreeOK' /\ Standing
    BY <1>1, <1>11, <2>00, <2>1, OneNode
  <2>3. UNCHANGED <<out, soft>> /\ Kept(n) = queue
    BY <1>11 DEF Reread, Clears, Kept
  <2>4. Fits(x)'
    BY <1>1, <1>8, <2>00, <2>1 DEF Fits
  <2>5. QueuesOK'
    BY <1>1, <1>9, <2>2, <2>3, <2>4, QueuesStay
  <2> QED BY <1>1, <1>4, <1>5, <2>2, <2>3, <2>5
<1> QED BY <1>10, <1>11

LEMMA FreshenOK ==
  ASSUME TypeInv, NEW n \in Nodes, Freshen(n), UNCHANGED <<link, srv>>
  PROVE  TreeOK' /\ QueuesOK' /\ OweOK' /\ soft' \subseteq Nodes /\ marks' \in MarksRecord
<1>1. /\ out \in Seq(Answer) /\ srv \in Versions /\ owe \in OweRecord /\ marks \in MarksRecord
  BY DEF TypeInv, QueuesOK, OtherOK, OweOK
<1>2. PICK S : S \in SUBSET Nodes /\ S = IF n = Root THEN Nodes ELSE {n}
  OBVIOUS
<1>3. SoftRefresh(S) /\ owe' = [owe EXCEPT !.due = Due(S)] /\ UNCHANGED <<tree, out, marks>>
  BY <1>2 DEF Freshen
<1>4. QueuesOK' /\ soft' \subseteq Nodes
  BY <1>1, <1>2, <1>3, QueuesSoft
<1>5. OweOK'
  BY <1>1, <1>3, DueType DEF OweOK
<1> QED BY <1>1, <1>3, <1>4, <1>5, TreeSame

LEMMA DisownedOK ==
  ASSUME TypeInv, NEW n \in Nodes, n # Root => tree[n].state # "absent", Disowned(n),
         UNCHANGED link
  PROVE  TreeOK' /\ QueuesOK' /\ OweOK' /\ soft' \subseteq Nodes /\ marks' \in MarksRecord
<1>1. /\ tree \in [Nodes -> NodeRecord] /\ tree[n] \in NodeRecord /\ TreeOK /\ OweOK
      /\ soft \subseteq Nodes /\ marks \in MarksRecord
  BY DEF TypeInv, TreeOK, OtherOK
<1>20. PICK st \in {"error", "idle"} : st = IF tree[n].open THEN "error" ELSE "idle"
  OBVIOUS
<1>2. PICK r : r = [tree[n] EXCEPT !.seen = 0, !.below = FALSE, !.state = st]
  OBVIOUS
<1>3. /\ r \in NodeRecord /\ r.state \in {"error", "idle"} /\ r.seen = 0 /\ ~r.below
      /\ n # Root
  BY <1>1, <1>2 DEF NodeRecord, States, Disowned
<1>4. tree' = [tree EXCEPT ![n] = r]
  <2>1. Bared(n) = [tree EXCEPT ![n].seen = 0, ![n].below = FALSE]
    BY <1>3 DEF Bared
  <2>2. tree' = [Bared(n) EXCEPT ![n].state = st]
    BY <1>20 DEF Disowned
  <2> QED BY <1>1, <1>2, <2>1, <2>2
<1>5. TreeOK' /\ Standing
  BY <1>1, <1>3, <1>4, OneNode
<1>6. UNCHANGED <<queue, soft, out, marks, owe>>
  BY DEF Disowned
<1> QED BY <1>1, <1>5, <1>6, QueuesSame DEF OweOK

LEMMA RefreshOK ==
  ASSUME TypeInv,
         \/ \E n \in Nodes, hard \in BOOLEAN : Refresh(n, hard)
         \/ \E f \in Folders : NoteMissing(f)
  PROVE  TypeInv'
<1>1. Acts /\ UNCHANGED <<site, link, again, thread, ownVars, unit>>
  BY DEF Refresh, NoteMissing
<1>2. TreeOK' /\ QueuesOK' /\ OweOK' /\ soft' \subseteq Nodes /\ marks' \in MarksRecord
  <2>1. UNCHANGED <<link, srv>>
    BY <1>1 DEF ownVars
  <2>2. CASE \E n \in Nodes, hard \in BOOLEAN : Refresh(n, hard)
    <3>1. PICK n \in Nodes : /\ Reread(n) \/ Freshen(n) \/ Disowned(n)
                             /\ n = Root \/ Visible(n)
      BY <2>2 DEF Refresh
    <3> QED BY <2>1, <3>1, VisibleStands, RereadOK, FreshenOK, DisownedOK
  <2>3. CASE \E f \in Folders : NoteMissing(f)
    BY <2>1, <2>3, NodeNames, FreshenOK DEF NoteMissing
  <2> QED BY <2>2, <2>3
<1>3. OtherOK'
  BY <1>1, <1>2, BudgetSpent DEF TypeInv, OtherOK, ownVars
<1> QED BY <1>2, <1>3 DEF TypeInv

LEMMA SwitchUnitOK == ASSUME TypeInv, SwitchUnit PROVE TypeInv'
<1>0. /\ Acts /\ UNCHANGED <<site, paneVars, tree, out, ownVars>>
      /\ unit \in [ session : Nat, shown : Nat ] /\ link.gen \in Nat
      /\ queue \in Seq(Request)
  BY DEF SwitchUnit, TypeInv, OtherOK, LinkRecord, QueuesOK
<1>1. TreeOK' /\ Standing
  BY <1>0, TreeSame
<1>2. unit' \in [ session : Nat, shown : Nat ]
  <2>1. \/ unit' = [ session |-> unit.session + 1, shown |-> 0 ]
        \/ unit' = [unit EXCEPT !.session = unit.session + 1]
    BY DEF SwitchUnit
  <2> QED BY <1>0, <2>1
<1>3. OweOK'
  <2>1. owe \in OweRecord /\ unit.session + 1 \in Nat
    BY <1>0 DEF TypeInv, OweOK
  <2>2. \/ owe' = [owe EXCEPT !.unit = unit.session + 1, !.lost = @ \ {"unit"}]
        \/ UNCHANGED owe
    BY DEF SwitchUnit
  <2> QED BY <2>1, <2>2 DEF OweOK, OweRecord
<1>4. soft' \subseteq Nodes /\ again' \in BOOLEAN
  BY NodeNames DEF SwitchUnit, TypeInv, OtherOK
<1>5. OtherOK'
  BY <1>0, <1>2, <1>4, BudgetSpent DEF TypeInv, OtherOK, paneVars, ownVars
<1>6. PICK u : u = [Asks("use", Gone, link.gen) EXCEPT !.unit = unit.session + 1]
  OBVIOUS
<1>7. u \in Request /\ u.node = Gone /\ u.gen = link.gen
  <2>1. PICK v : v = Asks("use", Gone, link.gen)
    OBVIOUS
  <2>2. v \in Request /\ v.node = Gone /\ v.gen = link.gen
    BY <1>0, <2>1, AsksType, TypeInvImplies
  <2>3. unit.session + 1 \in Nat /\ u = [v EXCEPT !.unit = unit.session + 1]
    BY <1>0, <1>6, <2>1
  <2> QED BY <2>2, <2>3 DEF Request
<1>8. PICK r : r = Asked(Root, FALSE)
  OBVIOUS
<1>9. r \in Request /\ r.node = Root /\ r.gen = link.gen
  BY <1>8, AskedType, NodeNames, TypeInvImplies
<1>10. queue' = Append(queue, u) \/ queue' = Append(Append(queue, u), r)
  BY <1>6, <1>8 DEF SwitchUnit
<1>11. queue' \in Seq(Request) /\ ToSet(queue') \subseteq ToSet(queue) \cup {u, r}
  <2>0. PICK q : q = Append(queue, u)
    OBVIOUS
  <2>1. q \in Seq(Request) /\ ToSet(q) = ToSet(queue) \cup {u}
    BY <1>0, <1>7, <2>0, AppendProperties, ToSetAppend
  <2>2. Append(q, r) \in Seq(Request) /\ ToSet(Append(q, r)) = ToSet(q) \cup {r}
    BY <1>9, <2>1, AppendProperties, ToSetAppend
  <2> QED BY <1>10, <2>0, <2>1, <2>2
<1>12. Fits(u)' /\ Fits(r)' /\ link'.gen = link.gen
  BY <1>0, <1>7, <1>9, NodeNames DEF Fits, paneVars
<1>13. out' \in Seq(Answer) /\ ToSet(out') = ToSet(out) /\ QueuesOK
  BY <1>0 DEF TypeInv, QueuesOK
<1>14. QueuesOK'
  BY <1>1, <1>11, <1>12, <1>13, QueuesStay
<1> QED BY <1>1, <1>3, <1>5, <1>14 DEF TypeInv

\* The lists on the server only go up.
LEMMA BumpUp ==
  ASSUME TypeInv, NEW S, Bump(S)
  PROVE  /\ srv' \in Versions
         /\ \A n \in Nodes : srv'[n] > 0 /\ srv'[n] >= srv[n]
BY DEF Bump, TypeInv, OtherOK, Versions

LEMMA ChangeOK ==
  ASSUME TypeInv, NEW n \in Nodes, Ddl(n) \/ Elsewhere(n)
  PROVE  TypeInv'
<1>0. /\ Changes /\ UNCHANGED <<site, paneVars, tree, soft, again, queue, out, unit>>
      /\ \E S : Bump(S)
      /\ \E S : owe' = [owe EXCEPT !.owed = Owed(S)]
  BY DEF Ddl, Elsewhere
<1>1. srv' \in Versions /\ \A m \in Nodes : srv'[m] > 0
  BY <1>0, BumpUp
<1>2. OweOK'
  BY <1>0, <1>1, OwedType DEF OweOK
<1>3. run' \in RunRecord
  <2>1. run \in RunRecord
    BY DEF TypeInv, OtherOK
  <2>2. Collected(n) \in RunRecord
    BY <2>1 DEF Collected, RunRecord
  <2>3. CASE Ddl(n)
    BY <2>2, <2>3 DEF Ddl, RunRecord
  <2>4. CASE Elsewhere(n)
    BY <2>1, <2>4 DEF Elsewhere
  <2> QED BY <2>3, <2>4
<1>4. OtherOK'
  BY <1>0, <1>1, <1>3, BudgetSpent DEF TypeInv, OtherOK, paneVars
<1> QED BY <1>0, <1>2, <1>4, TreeSame, QueuesSame DEF TypeInv, paneVars

LEMMA ToldOK ==
  ASSUME TypeInv, RunEnds \/ Commit \/ Rollback
  PROVE  TypeInv'
<1>0. /\ UNCHANGED <<site, paneVars, tree, again, out, unit, left>>
      /\ run \in RunRecord /\ out \in Seq(Answer) /\ srv \in Versions /\ owe \in OweRecord
  BY DEF RunEnds, Commit, Rollback, TypeInv, OtherOK, QueuesOK, OweOK
<1>1. run' \in RunRecord /\ run.now \in SUBSET Nodes /\ run.wait \in SUBSET Nodes
  BY <1>0 DEF RunEnds, Commit, Rollback, RunRecord
<1>2. srv' \in Versions /\ \A m \in Nodes : srv'[m] > 0
  BY <1>0, BumpUp DEF RunEnds, Commit, Rollback, TypeInv, OtherOK
<1>3. QueuesOK' /\ soft' \subseteq Nodes
  <2>1. CASE RunEnds
    BY <1>0, <1>1, <2>1, QueuesSoft DEF RunEnds, paneVars
  <2>2. CASE Commit
    BY <1>0, <1>1, <2>2, QueuesSoft DEF Commit, paneVars
  <2>3. CASE Rollback
    BY <1>0, <2>3, TreeSame, QueuesSame DEF Rollback, paneVars, TypeInv, OtherOK
  <2> QED BY <2>1, <2>2, <2>3
<1>4. OweOK'
  <2>1. CASE RunEnds
    BY <1>2, <2>1, DueType DEF RunEnds, OweOK
  <2>2. CASE Commit
    <3>1. /\ Due(run.held) \in Versions /\ Owed(run.held) \in [Folders -> Nat]
      BY <1>2, DueType, OwedType
    <3> QED BY <1>0, <2>2, <3>1 DEF Commit, OweOK, OweRecord
  <2>3. CASE Rollback
    BY <2>3 DEF Rollback, OweOK, TypeInv
  <2> QED BY <2>1, <2>2, <2>3
<1>5. OtherOK'
  BY <1>0, <1>1, <1>2, <1>3 DEF TypeInv, OtherOK, paneVars
<1> QED BY <1>0, <1>3, <1>4, <1>5, TreeSame DEF TypeInv

LEMMA TypeInit == Init => TypeInv
<1> SUFFICES ASSUME Init PROVE TypeInv
  OBVIOUS
<1> USE DEF Init
<1>1. TreeOK
  BY NodeNames DEF Bare, Blank, TreeOK, NodeRecord, States
<1>2. QueuesOK
  BY ToSetEmpty DEF QueuesOK
<1>3. OweOK
  BY NothingType DEF OweOK
<1>4. left \in BudgetRecord
  BY TreeAssumption DEF BudgetRecord
<1>40. site \in [ held : BOOLEAN, waits : BOOLEAN ]
  <2>1. \A h, w \in BOOLEAN : [held |-> h, waits |-> w] \in [ held : BOOLEAN, waits : BOOLEAN ]
    OBVIOUS
  <2> QED BY <2>1 DEF Sites
<1>41. /\ link \in LinkRecord /\ marks \in MarksRecord /\ run \in RunRecord
       /\ link.gen = 0
  BY DEF LinkRecord, MarksRecord, RunRecord, NoRun
<1>42. thread \in [ gen : Nat, unit : Nat ] /\ thread.gen = 0
  BY DEF NoThread
<1>43. srv \in Versions /\ \A n \in Nodes : srv[n] > 0
  BY DEF Versions
<1>5. OtherOK
  <2>1. unit \in [ session : Nat, shown : Nat ] /\ thread.gen <= link.gen
    BY <1>41, <1>42
  <2>2. soft \subseteq Nodes /\ again \in BOOLEAN
    OBVIOUS
  <2> HIDE DEF Init
  <2> QED BY <1>4, <1>40, <1>41, <1>42, <1>43, <2>1, <2>2 DEF OtherOK
<1> QED BY <1>1, <1>2, <1>3, <1>5 DEF TypeInv

LEMMA TypeStep == TypeInv /\ [Next]_vars => TypeInv'
<1> SUFFICES ASSUME TypeInv, [Next]_vars PROVE TypeInv'
  OBVIOUS
<1>1. CASE Connection
  BY <1>1, ConnectOK, RebindOK, GoOfflineOK, RemovePaneOK DEF Connection
<1>2. CASE User
  BY <1>2, NodeNames, ExpandOK, CollapseOK, TimeoutOK, RefreshOK, OpenSchemaOK, SwitchUnitOK,
     KickOK DEF User
<1>3. CASE Server
  BY <1>3, ChangeOK, ToldOK DEF Server
<1>4. CASE Serve \/ Drain \/ Poll
  BY <1>4, ServeOK, DrainOK, PollOK
<1>5. CASE UNCHANGED vars
  <2>1. TreeOK' /\ Standing /\ QueuesOK'
    BY <1>5, TreeSame, QueuesSame DEF vars, paneVars
  <2>2. OweOK' /\ OtherOK'
    BY <1>5 DEF vars, paneVars, ownVars, TypeInv, OweOK, OtherOK
  <2> QED BY <2>1, <2>2 DEF TypeInv
<1> QED BY <1>1, <1>2, <1>3, <1>4, <1>5 DEF Next

(* The tree, the requests and the answers are what they are said to be; a  *)
(* node shows a list only if it has one, and a folder has one only in a    *)
(* schema that has been read (explorer.rs).                                *)
THEOREM TypeCorrect == Spec => []TypeOK
BY TypeInit, TypeStep, TypeInvImplies, PTL DEF Spec

-----------------------------------------------------------------------------
(* Requests and answers for a node, one and two.                           *)

IsFor(r, n, g) == r.kind = "list" /\ r.node = n /\ r.gen = g
Has(s, n, g) == \E r \in ToSet(s) : IsFor(r, n, g)
Twice(s, n, g) ==
  \E i, j \in DOMAIN s : i # j /\ IsFor(s[i], n, g) /\ IsFor(s[j], n, g)

LEMMA ConcatPlaces ==
  ASSUME NEW X, NEW s \in Seq(X), NEW t \in Seq(X)
  PROVE  /\ s \o t \in Seq(X) /\ DOMAIN s \subseteq DOMAIN (s \o t)
         /\ \A i \in DOMAIN s : (s \o t)[i] = s[i]
         /\ \A i \in DOMAIN (s \o t) : i \notin DOMAIN s =>
              /\ (s \o t)[i] \in ToSet(t)
              /\ \A j \in DOMAIN s : j < i
         /\ \A x \in ToSet(t) : \E i \in DOMAIN (s \o t) \ DOMAIN s : (s \o t)[i] = x
<1>1. /\ s \o t \in Seq(X) /\ Len(s \o t) = Len(s) + Len(t)
      /\ Len(s) \in Nat /\ Len(t) \in Nat
      /\ \A i \in 1..Len(s) + Len(t) :
           (s \o t)[i] = IF i <= Len(s) THEN s[i] ELSE t[i - Len(s)]
      /\ DOMAIN s = 1..Len(s) /\ DOMAIN t = 1..Len(t)
      /\ DOMAIN (s \o t) = 1..(Len(s) + Len(t))
  BY ConcatProperties, LenProperties
<1>2. ASSUME NEW i \in DOMAIN (s \o t), i \notin DOMAIN s
      PROVE  (s \o t)[i] \in ToSet(t) /\ \A j \in DOMAIN s : j < i
  <2>1. ~(i <= Len(s)) /\ i - Len(s) \in DOMAIN t /\ i \in 1..Len(s) + Len(t)
    BY <1>1, <1>2
  <2>2. (s \o t)[i] = t[i - Len(s)]
    BY <1>1, <2>1
  <2>3. \A j \in DOMAIN s : j < i
    BY <1>1, <2>1
  <2> QED BY <2>1, <2>2, <2>3 DEF ToSet
<1>3. ASSUME NEW i \in DOMAIN t
      PROVE  \E j \in DOMAIN (s \o t) \ DOMAIN s : (s \o t)[j] = t[i]
  <2>1. /\ Len(s) + i \in DOMAIN (s \o t) /\ Len(s) + i \notin DOMAIN s
        /\ ~(Len(s) + i <= Len(s)) /\ (Len(s) + i) - Len(s) = i
        /\ Len(s) + i \in 1..Len(s) + Len(t)
    BY <1>1
  <2>2. (s \o t)[Len(s) + i] = t[i]
    BY <1>1, <2>1
  <2> QED BY <2>1, <2>2
<1>4. \A i \in DOMAIN s : i \in DOMAIN (s \o t) /\ (s \o t)[i] = s[i]
  BY <1>1
<1> QED BY <1>1, <1>2, <1>3, <1>4 DEF ToSet

\* Requests that are added join those that wait.
LEMMA WithMore ==
  ASSUME NEW X, NEW s \in Seq(X), NEW t \in Seq(X), NEW n, NEW g
  PROVE  /\ Has(s \o t, n, g) <=> Has(s, n, g) \/ Has(t, n, g)
         /\ Twice(s, n, g) => Twice(s \o t, n, g)
         /\ Has(s, n, g) /\ Has(t, n, g) => Twice(s \o t, n, g)
<1>1. Has(s \o t, n, g) <=> Has(s, n, g) \/ Has(t, n, g)
  BY ToSetConcat DEF Has
<1>2. Twice(s, n, g) => Twice(s \o t, n, g)
  BY ConcatPlaces DEF Twice
<1>3. ASSUME Has(s, n, g), Has(t, n, g)
      PROVE  Twice(s \o t, n, g)
  <2>1. PICK i \in DOMAIN s : IsFor(s[i], n, g)
    BY <1>3 DEF Has, ToSet
  <2>2. PICK x \in ToSet(t) : IsFor(x, n, g)
    BY <1>3 DEF Has
  <2>3. PICK j \in DOMAIN (s \o t) \ DOMAIN s : (s \o t)[j] = x
    BY <2>2, ConcatPlaces
  <2>4. i \in DOMAIN (s \o t) /\ (s \o t)[i] = s[i] /\ i # j
    BY <2>3, ConcatPlaces
  <2> QED BY <2>1, <2>2, <2>3, <2>4 DEF Twice
<1> QED BY <1>1, <1>2, <1>3

\* One taken out leaves the others.
LEMMA WithoutOne ==
  ASSUME NEW X, NEW s \in Seq(X), NEW k \in DOMAIN s, NEW n, NEW g
  PROVE  /\ Has(s, n, g) <=> Has(RemoveAt(s, k), n, g) \/ IsFor(s[k], n, g)
         /\ Twice(s, n, g) => \/ Twice(RemoveAt(s, k), n, g)
                              \/ IsFor(s[k], n, g) /\ Has(RemoveAt(s, k), n, g)
<1> DEFINE t == RemoveAt(s, k)
<1>1. /\ Len(s) \in Nat \ {0} /\ DOMAIN s = 1..Len(s)
      /\ DOMAIN t = 1..(Len(s) - 1)
      /\ \A i \in 1..(Len(s) - 1) : t[i] = IF i < k THEN s[i] ELSE s[i + 1]
  BY RemoveAtProperties
<1>2. Has(s, n, g) <=> Has(t, n, g) \/ IsFor(s[k], n, g)
  BY ToSetRemoveAt DEF Has
<1> HIDE DEF t
<1>3. ASSUME NEW i \in DOMAIN s, i # k
      PROVE  \E p \in DOMAIN t : t[p] = s[i] /\ p = IF i < k THEN i ELSE i - 1
  <2>1. CASE i < k
    <3>1. i \in 1..(Len(s) - 1)
      BY <1>1, <1>3, <2>1
    <3>2. t[i] = s[i]
      BY <1>1, <2>1, <3>1
    <3> QED BY <1>1, <2>1, <3>1, <3>2
  <2>2. CASE ~(i < k)
    <3>1. i - 1 \in 1..(Len(s) - 1) /\ ~(i - 1 < k) /\ (i - 1) + 1 = i
      BY <1>1, <1>3, <2>2
    <3>2. t[i - 1] = s[i]
      BY <1>1, <3>1
    <3> QED BY <1>1, <2>2, <3>1, <3>2
  <2> QED BY <2>1, <2>2
<1>4. ASSUME Twice(s, n, g)
      PROVE  Twice(t, n, g) \/ (IsFor(s[k], n, g) /\ Has(t, n, g))
  <2>1. PICK i, j \in DOMAIN s : i # j /\ IsFor(s[i], n, g) /\ IsFor(s[j], n, g)
    BY <1>4 DEF Twice
  <2>2. CASE i # k /\ j # k
    <3>1. PICK p \in DOMAIN t : t[p] = s[i] /\ p = IF i < k THEN i ELSE i - 1
      BY <1>3, <2>2
    <3>2. PICK q \in DOMAIN t : t[q] = s[j] /\ q = IF j < k THEN j ELSE j - 1
      BY <1>3, <2>2
    <3>3. p # q
      BY <1>1, <2>1, <2>2, <3>1, <3>2
    <3> QED BY <2>1, <3>1, <3>2, <3>3 DEF Twice
  <2>3. CASE i = k \/ j = k
    <3>1. IsFor(s[k], n, g)
      BY <2>1, <2>3
    <3>2. PICK m \in DOMAIN s : m # k /\ IsFor(s[m], n, g)
      BY <2>1, <2>3
    <3>3. PICK p \in DOMAIN t : t[p] = s[m]
      BY <1>3, <3>2
    <3> QED BY <3>1, <3>2, <3>3 DEF Has, ToSet
  <2> QED BY <2>2, <2>3
<1> QED BY <1>2, <1>4 DEF t

\* The oldest taken off leaves the others.
LEMMA WithoutFirst ==
  ASSUME NEW X, NEW s \in Seq(X), s # <<>>, NEW n, NEW g
  PROVE  /\ Has(s, n, g) <=> Has(Tail(s), n, g) \/ IsFor(Head(s), n, g)
         /\ Twice(s, n, g) => \/ Twice(Tail(s), n, g)
                              \/ IsFor(Head(s), n, g) /\ Has(Tail(s), n, g)
<1>1. /\ Len(Tail(s)) = Len(s) - 1
      /\ \A i \in 1..Len(Tail(s)) : Tail(s)[i] = s[i + 1]
      /\ Len(s) \in Nat \ {0} /\ DOMAIN s = 1..Len(s) /\ DOMAIN Tail(s) = 1..Len(Tail(s))
      /\ Head(s) = s[1]
  BY HeadTailProperties, LenProperties, EmptySeq
<1>2. Has(s, n, g) <=> Has(Tail(s), n, g) \/ IsFor(Head(s), n, g)
  BY ToSetTail DEF Has
<1>3. ASSUME NEW i \in DOMAIN s, i # 1
      PROVE  i - 1 \in DOMAIN Tail(s) /\ Tail(s)[i - 1] = s[i]
  <2>1. i - 1 \in 1..Len(Tail(s)) /\ (i - 1) + 1 = i
    BY <1>1, <1>3
  <2> QED BY <1>1, <2>1
<1>4. ASSUME Twice(s, n, g)
      PROVE  Twice(Tail(s), n, g) \/ (IsFor(Head(s), n, g) /\ Has(Tail(s), n, g))
  <2>1. PICK i, j \in DOMAIN s : i # j /\ IsFor(s[i], n, g) /\ IsFor(s[j], n, g)
    BY <1>4 DEF Twice
  <2>2. CASE i # 1 /\ j # 1
    <3>1. /\ i - 1 \in DOMAIN Tail(s) /\ Tail(s)[i - 1] = s[i]
          /\ j - 1 \in DOMAIN Tail(s) /\ Tail(s)[j - 1] = s[j]
      BY <1>3, <2>2
    <3>2. i - 1 # j - 1
      BY <1>1, <2>1
    <3> QED BY <2>1, <3>1, <3>2 DEF Twice
  <2>3. CASE i = 1 \/ j = 1
    <3>1. IsFor(Head(s), n, g)
      BY <1>1, <2>1, <2>3
    <3>2. PICK m \in DOMAIN s : m # 1 /\ IsFor(s[m], n, g)
      BY <2>1, <2>3
    <3>3. m - 1 \in DOMAIN Tail(s) /\ Tail(s)[m - 1] = s[m]
      BY <1>3, <3>2
    <3> QED BY <3>1, <3>2, <3>3 DEF Has, ToSet
  <2> QED BY <2>2, <2>3
<1> QED BY <1>2, <1>4

\* What is for the root stays so when the folders go.
LEMMA RootOrphaned ==
  ASSUME NEW X \in {Request, Answer}, NEW s \in Seq(X), NEW g
  PROVE  /\ Has(s, Root, g) <=> Has(Orphaned(s), Root, g)
         /\ Twice(s, Root, g) => Twice(Orphaned(s), Root, g)
<1>1. /\ DOMAIN Orphaned(s) = DOMAIN s
      /\ \A i \in DOMAIN s : IsFor(s[i], Root, g) <=> IsFor(Orphaned(s)[i], Root, g)
  BY OrphanedProperties, NodeNames DEF IsFor
<1> QED BY <1>1 DEF Has, Twice, ToSet

-----------------------------------------------------------------------------
(* Logins.                                                                 *)

IsOpen(r) == r.kind = "open"
Ordered(s) == \A i, j \in DOMAIN s :
                IsOpen(s[i]) /\ IsOpen(s[j]) /\ i < j => s[i].gen < s[j].gen
Ahead(s, g) == \A r \in ToSet(s) : IsOpen(r) => r.gen > g
Orderly == Ordered(queue) /\ Ahead(queue, thread.gen)

\* The thread is of this generation, or a login that makes it so waits.
InStep == link.state = "on" =>
            \/ thread.gen = link.gen
            \/ \E r \in ToSet(queue) : IsOpen(r) /\ r.gen = link.gen

LoginInv == TypeInv /\ Orderly /\ InStep

LEMMA OrderedConcat ==
  ASSUME NEW X, NEW s \in Seq(X), NEW t \in Seq(X), Ordered(s), \A r \in ToSet(t) : ~IsOpen(r)
  PROVE  Ordered(s \o t)
BY ConcatPlaces DEF Ordered

LEMMA OrderedLogin ==
  ASSUME NEW X, NEW s \in Seq(X), NEW r \in X, Ordered(s),
         \A q \in ToSet(s) : IsOpen(q) => q.gen < r.gen
  PROVE  Ordered(Append(s, r))
<1>1. /\ Append(s, r) \in Seq(X) /\ Len(Append(s, r)) = Len(s) + 1 /\ Len(s) \in Nat
      /\ \A i \in 1..Len(s) : Append(s, r)[i] = s[i]
      /\ Append(s, r)[Len(s) + 1] = r
      /\ DOMAIN s = 1..Len(s) /\ DOMAIN Append(s, r) = 1..(Len(s) + 1)
  BY AppendProperties, LenProperties
<1>2. ASSUME NEW i \in 1..(Len(s) + 1), NEW j \in 1..(Len(s) + 1), i < j,
             IsOpen(Append(s, r)[i]), IsOpen(Append(s, r)[j])
      PROVE  Append(s, r)[i].gen < Append(s, r)[j].gen
  <2>1. i \in 1..Len(s) /\ Append(s, r)[i] = s[i] /\ s[i] \in ToSet(s)
    BY <1>1, <1>2 DEF ToSet
  <2>2. CASE j \in 1..Len(s)
    BY <1>1, <1>2, <2>1, <2>2 DEF Ordered
  <2>3. CASE j = Len(s) + 1
    BY <1>1, <1>2, <2>1, <2>3
  <2> QED BY <1>1, <2>2, <2>3
<1> QED BY <1>1, <1>2 DEF Ordered

LEMMA OrderedRemove ==
  ASSUME NEW X, NEW s \in Seq(X), NEW k \in DOMAIN s, Ordered(s)
  PROVE  Ordered(RemoveAt(s, k))
<1> DEFINE t == RemoveAt(s, k)
<1>1. /\ Len(s) \in Nat \ {0} /\ DOMAIN s = 1..Len(s)
      /\ DOMAIN t = 1..(Len(s) - 1)
      /\ \A i \in 1..(Len(s) - 1) : t[i] = IF i < k THEN s[i] ELSE s[i + 1]
  BY RemoveAtProperties
<1> HIDE DEF t
<1>2. ASSUME NEW i \in DOMAIN t, NEW j \in DOMAIN t, i < j
      PROVE  \E p, q \in DOMAIN s : p < q /\ t[i] = s[p] /\ t[j] = s[q]
  <2>1. PICK p \in DOMAIN s : p = (IF i < k THEN i ELSE i + 1) /\ t[i] = s[p]
    BY <1>1
  <2>2. PICK q \in DOMAIN s : q = (IF j < k THEN j ELSE j + 1) /\ t[j] = s[q]
    BY <1>1
  <2>3. p < q
    BY <1>1, <1>2, <2>1, <2>2
  <2> QED BY <2>1, <2>2, <2>3
<1> QED BY <1>2 DEF Ordered, t

LEMMA OrderedOrphaned ==
  ASSUME NEW s \in Seq(Request), Ordered(s)
  PROVE  Ordered(Orphaned(s))
BY OrphanedProperties DEF Ordered, IsOpen

\* A queue that has grown, the folders gone from the tree or not.
Grown(b, t) ==
  /\ b \in {queue, Orphaned(queue)} /\ t \in Seq(Request) /\ queue' = b \o t
  /\ \A r \in ToSet(t) : r.kind # "open" /\ r.gen = link.gen

NoUse(t) == \A r \in ToSet(t) : r.kind # "use"

LEMMA GrownSame == ASSUME TypeInv, UNCHANGED queue PROVE Grown(queue, <<>>) /\ NoUse(<<>>)
BY ConcatEmptySeq, ToSetEmpty DEF TypeInv, QueuesOK, Grown, NoUse

LEMMA GrownAsk ==
  ASSUME TypeInv, NEW r \in Request, r.kind # "open", r.gen = link.gen,
         NEW b \in {queue, Orphaned(queue)}, queue' = Append(b, r)
  PROVE  /\ Grown(b, <<r>>) /\ ToSet(<<r>>) = {r} /\ b \in Seq(Request)
         /\ r.kind # "use" => NoUse(<<r>>)
<1>1. b \in Seq(Request)
  BY OrphanedProperties DEF TypeInv, QueuesOK
<1>2. queue' = b \o <<r>>
  BY <1>1, AppendIsConcat
<1>3. <<r>> \in Seq(Request) /\ ToSet(<<r>>) = {r}
  <2>1. DOMAIN <<r>> = 1..1 /\ <<r>>[1] = r /\ <<r>> \in Seq(Request)
    OBVIOUS
  <2> QED BY <2>1 DEF ToSet
<1> QED BY <1>1, <1>2, <1>3 DEF Grown, NoUse

LEMMA GrownSoft ==
  ASSUME TypeInv, NEW S \in SUBSET Nodes, SoftRefresh(S)
  PROVE  /\ Grown(queue, AskedAll(Softly(S), FALSE)) /\ NoUse(AskedAll(Softly(S), FALSE))
         /\ \A n \in Softly(S) : Has(AskedAll(Softly(S), FALSE), n, link.gen)
<1>1. Softly(S) \in SUBSET Nodes
  BY DEF Softly
<1>2. /\ AskedAll(Softly(S), FALSE) \in Seq(Request)
      /\ \A r \in ToSet(AskedAll(Softly(S), FALSE)) :
           r.kind = "list" /\ r.gen = link.gen /\ r.node \in Softly(S)
      /\ \A n \in Softly(S) : \E r \in ToSet(AskedAll(Softly(S), FALSE)) : r.node = n
  BY <1>1, TypeInvImplies, AskedAllProperties
<1> QED BY <1>2 DEF SoftRefresh, Grown, NoUse, Has, IsFor

LEMMA GrownOrderly ==
  ASSUME LoginInv, NEW b, NEW t, Grown(b, t), thread' = thread,
         link'.gen = link.gen, link'.state = link.state
  PROVE  (Orderly /\ InStep)'
<1>0. queue \in Seq(Request)
  BY DEF LoginInv, TypeInv, QueuesOK
<1>1. /\ b \in Seq(Request) /\ Ordered(b)
      /\ \A r \in ToSet(b) : IsOpen(r) => \E q \in ToSet(queue) : IsOpen(q) /\ q.gen = r.gen
      /\ \A q \in ToSet(queue) : IsOpen(q) => \E r \in ToSet(b) : IsOpen(r) /\ q.gen = r.gen
  <2>1. CASE b = queue
    BY <1>0, <2>1 DEF LoginInv, Orderly
  <2>2. CASE b = Orphaned(queue)
    <3>1. Ordered(b) /\ b \in Seq(Request)
      BY <1>0, <2>2, OrderedOrphaned, OrphanedProperties DEF LoginInv, Orderly
    <3>2. /\ DOMAIN b = DOMAIN queue
          /\ \A i \in DOMAIN queue : b[i].kind = queue[i].kind /\ b[i].gen = queue[i].gen
      BY <1>0, <2>2, OrphanedProperties
    <3> QED BY <3>1, <3>2 DEF ToSet, IsOpen
  <2> QED BY <2>1, <2>2 DEF Grown
<1>2. t \in Seq(Request) /\ queue' = b \o t /\ \A r \in ToSet(t) : ~IsOpen(r)
  BY DEF Grown, IsOpen
<1>3. Ordered(queue')
  BY <1>1, <1>2, OrderedConcat
<1>4. ToSet(queue') = ToSet(b) \cup ToSet(t)
  BY <1>1, <1>2, ToSetConcat
<1>5. Ahead(queue', thread'.gen)
  BY <1>1, <1>2, <1>4 DEF LoginInv, Orderly, Ahead
<1>6. InStep'
  BY <1>1, <1>4 DEF LoginInv, InStep
<1> QED BY <1>3, <1>5, <1>6 DEF Orderly

\* Requests for lists and watermarks.
LEMMA AskedRequest ==
  ASSUME TypeInv, NEW n \in Nodes, NEW load \in BOOLEAN
  PROVE  /\ Asked(n, load) \in Request /\ Asked(n, load).kind # "open"
         /\ Asked(n, load).kind # "use" /\ Asked(n, load).gen = link.gen /\ IsFor(Asked(n, load), n, link.gen)
BY TypeInvImplies, AskedType DEF IsFor

LEMMA ListGrows ==
  ASSUME TypeInv, NEW a, Listed(a)
  PROVE  \E b, t : Grown(b, t) /\ NoUse(t)
<1>1. PICK b \in {queue, Orphaned(queue)} :
        queue' = Append(b, Asked(Root, FALSE)) \/ queue' = b
  BY DEF Listed, Kept
<1>2. Asked(Root, FALSE) \in Request /\ Asked(Root, FALSE).kind \notin {"open", "use"}
      /\ Asked(Root, FALSE).gen = link.gen
  BY NodeNames, AskedRequest
<1>3. CASE queue' = b
  <2>1. b \in Seq(Request)
    BY OrphanedProperties DEF TypeInv, QueuesOK
  <2>2. Grown(b, <<>>) /\ NoUse(<<>>)
    BY <1>3, <2>1, ConcatEmptySeq, ToSetEmpty DEF Grown, NoUse
  <2> QED BY <2>2
<1>4. CASE queue' = Append(b, Asked(Root, FALSE))
  BY <1>2, <1>4, GrownAsk
<1> QED BY <1>1, <1>3, <1>4

LEMMA RefreshGrows ==
  ASSUME TypeInv,
         \/ \E n \in Nodes, hard \in BOOLEAN : Refresh(n, hard)
         \/ \E f \in Folders : NoteMissing(f)
  PROVE  \E b, t : Grown(b, t) /\ NoUse(t)
<1>1. PICK n \in Nodes : Reread(n) \/ Freshen(n) \/ Disowned(n)
  BY NodeNames DEF Refresh, NoteMissing
<1>2. CASE Reread(n)
  <2>1. PICK b \in {queue, Orphaned(queue)} :
          queue' = Append(b, Asked(n, TRUE)) \/ queue' = b
    BY <1>2 DEF Reread, Kept
  <2>2. /\ Asked(n, TRUE) \in Request /\ Asked(n, TRUE).kind \notin {"open", "use"}
        /\ Asked(n, TRUE).gen = link.gen
    BY AskedRequest
  <2>3. CASE queue' = b
    <3>1. b \in Seq(Request)
      BY OrphanedProperties DEF TypeInv, QueuesOK
    <3>2. Grown(b, <<>>) /\ NoUse(<<>>)
      BY <2>3, <3>1, ConcatEmptySeq, ToSetEmpty DEF Grown, NoUse
    <3> QED BY <3>2
  <2>4. CASE queue' = Append(b, Asked(n, TRUE))
    BY <2>2, <2>4, GrownAsk
  <2> QED BY <2>1, <2>3, <2>4
<1>3. CASE Freshen(n)
  <2>1. PICK S \in SUBSET Nodes : SoftRefresh(S)
    BY <1>3 DEF Freshen
  <2> QED BY <2>1, GrownSoft
<1>4. CASE Disowned(n)
  BY <1>4, GrownSame DEF Disowned
<1> QED BY <1>1, <1>2, <1>3, <1>4

LEMMA SwitchGrows ==
  ASSUME TypeInv, SwitchUnit
  PROVE  \E t : /\ Grown(queue, t)
                /\ link.known /\ tree[Root].state = "loaded" /\ ~Doubled => Has(t, Root, link.gen)
<1>0. /\ unit \in [ session : Nat, shown : Nat ] /\ link.gen \in Nat /\ queue \in Seq(Request)
  BY DEF TypeInv, OtherOK, LinkRecord, QueuesOK
<1>1. PICK u : u = [Asks("use", Gone, link.gen) EXCEPT !.unit = unit.session + 1]
  OBVIOUS
<1>2. u \in Request /\ u.kind = "use" /\ u.gen = link.gen
  <2>1. PICK v : v = Asks("use", Gone, link.gen)
    OBVIOUS
  <2>2. v \in Request /\ v.kind = "use" /\ v.gen = link.gen
    <3>1. v \in Request
      BY <1>0, <2>1, AsksType, TypeInvImplies
    <3> QED BY <2>1, <3>1 DEF Asks
  <2>3. unit.session + 1 \in Nat /\ u = [v EXCEPT !.unit = unit.session + 1]
    BY <1>0, <1>1, <2>1
  <2> QED BY <2>2, <2>3 DEF Request
<1>3. PICK r : r = Asked(Root, FALSE)
  OBVIOUS
<1>4. r \in Request /\ r.kind # "open" /\ r.gen = link.gen /\ IsFor(r, Root, link.gen)
  BY <1>3, NodeNames, AskedRequest
<1>5. IF link.known /\ tree[Root].state = "loaded" /\ ~Doubled
      THEN queue' = Append(Append(queue, u), r) ELSE queue' = Append(queue, u)
  BY <1>1, <1>3 DEF SwitchUnit
<1>6. CASE queue' = Append(queue, u) /\ ~(link.known /\ tree[Root].state = "loaded" /\ ~Doubled)
  <2>1. Grown(queue, <<u>>)
    BY <1>2, <1>6, GrownAsk
  <2> QED BY <1>6, <2>1
<1>7. CASE queue' = Append(Append(queue, u), r)
  <2>1. <<u>> \in Seq(Request) /\ <<r>> \in Seq(Request) /\ ToSet(<<u>>) = {u}
    <3>1. DOMAIN <<u>> = 1..1 /\ <<u>>[1] = u
      OBVIOUS
    <3> QED BY <1>2, <1>4, <3>1 DEF ToSet
  <2>2. PICK t : t = Append(<<u>>, r)
    OBVIOUS
  <2>3. t \in Seq(Request) /\ ToSet(t) = {u, r} /\ t = <<u>> \o <<r>>
    <3>1. PICK p \in Seq(Request) : p = <<u>> /\ ToSet(p) = {u}
      BY <2>1
    <3>2. Append(p, r) \in Seq(Request) /\ ToSet(Append(p, r)) = ToSet(p) \cup {r}
      BY <1>4, AppendProperties, ToSetAppend
    <3>3. Append(p, r) = p \o <<r>>
      BY <1>4, AppendIsConcat
    <3> QED BY <2>2, <3>1, <3>2, <3>3
  <2>4. queue' = (queue \o <<u>>) \o <<r>>
    <3>1. Append(queue, u) = queue \o <<u>> /\ Append(queue, u) \in Seq(Request)
      BY <1>0, <1>2, AppendIsConcat, AppendProperties
    <3> QED BY <1>4, <1>7, <3>1, AppendIsConcat
  <2>5. queue' = queue \o t
    BY <1>0, <2>1, <2>3, <2>4, ConcatAssociative
  <2>6. Grown(queue, t)
    BY <1>2, <1>4, <2>3, <2>5 DEF Grown
  <2>7. Has(t, Root, link.gen)
    BY <1>4, <2>3 DEF Has
  <2> QED BY <2>6, <2>7
<1> QED BY <1>5, <1>6, <1>7

\* The steps other than those of the connection and of the thread.
LEMMA OthersGrow ==
  ASSUME TypeInv, Drain \/ User \/ Server \/ Poll \/ UNCHANGED vars
  PROVE  /\ \E b, t : Grown(b, t) /\ (~SwitchUnit => NoUse(t))
         /\ thread' = thread /\ link'.gen = link.gen /\ link'.state = link.state
<1>1. CASE Drain
  <2>1. PICK a : a = Head(out) /\ (Dropped(a) \/ Opened(a) \/ Listed(a) \/ Marked(a))
    BY <1>1 DEF Drain
  <2>2. thread' = thread /\ link'.gen = link.gen /\ link'.state = link.state
    <3>1. link \in LinkRecord /\ thread' = thread
      BY <1>1 DEF TypeInv, OtherOK, Drain
    <3>2. CASE Opened(a)
      BY <3>1, <3>2 DEF Opened, LinkRecord
    <3>3. CASE ~Opened(a)
      BY <2>1, <3>1, <3>3 DEF Dropped, Listed, Marked
    <3> QED BY <3>2, <3>3
  <2>3. CASE Dropped(a)
    BY <2>2, <2>3, GrownSame DEF Dropped
  <2>4. CASE Opened(a)
    <3>1. UNCHANGED queue \/ queue' = Append(queue, Asked(Root, TRUE))
      BY <2>4 DEF Opened
    <3> QED BY <2>2, <3>1, NodeNames, AskedRequest, GrownSame, GrownAsk
  <2>5. CASE Listed(a)
    BY <2>2, <2>5, ListGrows
  <2>6. CASE Marked(a)
    <3>1. PICK S \in SUBSET Nodes : SoftRefresh(S)
      BY <2>6, NodeNames DEF Marked
    <3> QED BY <2>2, <3>1, GrownSoft
  <2> QED BY <2>1, <2>3, <2>4, <2>5, <2>6
<1>2. CASE User
  <2>1. thread' = thread /\ link' = link
    BY <1>2 DEF User, Expand, Collapse, Timeout, Refresh, OpenBelow, NoteMissing, OpenSchema,
                SwitchUnit, Kick, paneVars
  <2>2. CASE \E n \in Nodes : Expand(n)
    <3>1. PICK n \in Nodes : UNCHANGED queue \/ queue' = Append(queue, Asked(n, TRUE))
      BY <2>2 DEF Expand
    <3> QED BY <2>1, <3>1, AskedRequest, GrownSame, GrownAsk
  <2>3. CASE \/ \E n \in Nodes : Collapse(n) \/ Timeout(n)
             \/ \E f \in Folders : OpenBelow(f)
             \/ OpenSchema
    BY <2>1, <2>3, GrownSame DEF Collapse, Timeout, OpenBelow, OpenSchema
  <2>4. CASE \/ \E n \in Nodes, hard \in BOOLEAN : Refresh(n, hard)
             \/ \E f \in Folders : NoteMissing(f)
    BY <2>1, <2>4, RefreshGrows
  <2>5. CASE SwitchUnit
    BY <2>1, <2>5, SwitchGrows
  <2>6. CASE Kick
    <3>1. queue' = Append(queue, Asked(Root, TRUE))
      BY <2>6 DEF Kick
    <3> QED BY <2>1, <3>1, NodeNames, AskedRequest, GrownAsk
  <2> QED BY <1>2, <2>2, <2>3, <2>4, <2>5, <2>6 DEF User
<1>3. CASE Server
  <2>1. thread' = thread /\ link' = link
    BY <1>3 DEF Server, Ddl, Elsewhere, RunEnds, Commit, Rollback, paneVars
  <2>2. CASE RunEnds \/ Commit
    <3>1. PICK S \in SUBSET Nodes : SoftRefresh(S)
      BY <2>2 DEF RunEnds, Commit, TypeInv, OtherOK, RunRecord
    <3> QED BY <2>1, <3>1, GrownSoft
  <2>3. CASE Rollback \/ \E n \in Nodes : Ddl(n) \/ Elsewhere(n)
    BY <2>1, <2>3, GrownSame DEF Rollback, Ddl, Elsewhere
  <2> QED BY <1>3, <2>2, <2>3 DEF Server
<1>4. CASE Poll
  <2>1. PICK r : r = Asks("marks", Gone, link.gen)
    OBVIOUS
  <2>2. r \in Request /\ r.kind \notin {"open", "use"} /\ r.gen = link.gen
    <3>1. link.gen \in Nat
      BY DEF TypeInv, OtherOK, LinkRecord
    <3> QED BY <2>1, <3>1, AsksType, TypeInvImplies
  <2>3. queue' = Append(queue, r) /\ UNCHANGED <<link, thread>>
    BY <1>4, <2>1 DEF Poll
  <2> QED BY <2>2, <2>3, GrownAsk
<1>5. CASE UNCHANGED vars
  BY <1>5, GrownSame DEF vars
<1> QED BY <1>1, <1>2, <1>3, <1>4, <1>5

LEMMA LoginOrderly ==
  ASSUME LoginInv, Connect \/ Rebind
  PROVE  (Orderly /\ InStep)'
<1>1. /\ queue \in Seq(Request) /\ link.gen \in Nat /\ link'.gen = link.gen + 1
      /\ \A q \in ToSet(queue) : q.gen \in Nat /\ q.gen <= link.gen
      /\ thread.gen \in Nat /\ thread.gen <= link.gen /\ thread' = thread
  <2>1. \A q \in ToSet(queue) : q \in Request
    BY ElementOfSeq DEF LoginInv, TypeInv, QueuesOK, ToSet
  <2>2. link'.gen = link.gen + 1 /\ link.gen \in Nat
    BY LinkMoves DEF LoginInv, TypeInv, OtherOK
  <2> QED BY <2>1, <2>2 DEF LoginInv, TypeInv, QueuesOK, OtherOK, Fits, Request, Connect, Rebind
<1>2. PICK r : r = Asks("open", Root, link.gen + 1)
  OBVIOUS
<1>3. r \in Request /\ IsOpen(r) /\ r.gen = link.gen + 1
  BY <1>1, <1>2, AsksType, TypeInvImplies, NodeNames DEF LoginInv, IsOpen
<1>4. queue' = Append(queue, r)
  BY <1>2 DEF Connect, Rebind
<1>5. Ordered(queue')
  BY <1>1, <1>3, <1>4, OrderedLogin DEF LoginInv, Orderly
<1>6. ToSet(queue') = ToSet(queue) \cup {r}
  BY <1>1, <1>3, <1>4, ToSetAppend
<1> QED BY <1>1, <1>3, <1>5, <1>6 DEF LoginInv, Orderly, Ahead, InStep

LEMMA EmptyOrderly ==
  ASSUME queue' = <<>>, link'.state # "on"
  PROVE  (Orderly /\ InStep)'
BY ToSetEmpty DEF Orderly, Ordered, Ahead, InStep, ToSet

\* What the thread knows of the request it takes.
LEMMA TakenInTurn ==
  ASSUME LoginInv, queue # <<>>, NEW k, k = Pick
  PROVE  /\ IsOpen(queue[k]) =>
              \A q \in ToSet(RemoveAt(queue, k)) : IsOpen(q) => q.gen > queue[k].gen
         /\ ~IsOpen(queue[k]) /\ link.state = "on" => thread.gen = link.gen
<1>1. queue \in Seq(Request)
  BY DEF LoginInv, TypeInv, QueuesOK
<1>2. /\ k \in DOMAIN queue
      /\ ~IsOpen(queue[k]) => \A j \in DOMAIN queue : ~IsOpen(queue[j])
      /\ IsOpen(queue[k]) => \A j \in DOMAIN queue : IsOpen(queue[j]) => k <= j
  BY <1>1, PickedFirst DEF IsOpen
<1>3. ASSUME IsOpen(queue[k]), NEW q \in ToSet(RemoveAt(queue, k)), IsOpen(q)
      PROVE  q.gen > queue[k].gen
  <2>1. /\ Len(queue) \in Nat \ {0} /\ DOMAIN queue = 1..Len(queue)
        /\ DOMAIN RemoveAt(queue, k) = 1..(Len(queue) - 1)
        /\ \A i \in 1..(Len(queue) - 1) :
             RemoveAt(queue, k)[i] = IF i < k THEN queue[i] ELSE queue[i + 1]
    BY <1>1, <1>2, RemoveAtProperties
  <2>2. PICK i \in 1..(Len(queue) - 1) : q = RemoveAt(queue, k)[i]
    BY <1>3, <2>1 DEF ToSet
  <2>3. PICK j \in DOMAIN queue : j = (IF i < k THEN i ELSE i + 1) /\ q = queue[j]
    BY <2>1, <2>2
  <2>4. k <= j /\ j # k
    BY <1>2, <1>3, <2>1, <2>3
  <2>5. k < j /\ queue[k].gen < queue[j].gen
    BY <1>2, <1>3, <2>1, <2>3, <2>4 DEF LoginInv, Orderly, Ordered
  <2>6. queue[k].gen \in Nat /\ queue[j].gen \in Nat
    <3>1. queue[k] \in Request /\ queue[j] \in Request
      BY <1>1, <1>2, <2>1, <2>3, ElementOfSeq
    <3> QED BY <3>1 DEF Request
  <2> QED BY <2>3, <2>5, <2>6
<1>4. ASSUME ~IsOpen(queue[k]), link.state = "on"
      PROVE  thread.gen = link.gen
  BY <1>2, <1>4 DEF LoginInv, InStep, ToSet
<1> QED BY <1>3, <1>4

LEMMA ServeOrderly ==
  ASSUME LoginInv, Serve
  PROVE  (Orderly /\ InStep)'
<1>1. PICK k : k = Pick
  OBVIOUS
<1>2. PICK r : r = queue[k]
  OBVIOUS
<1>3. /\ queue # <<>> /\ queue' = RemoveAt(queue, k) /\ UNCHANGED link
      /\ Uses(r) \/ (Overtaken(r) /\ UNCHANGED thread) \/ Opens(r) \/ Reads(r)
  BY <1>1, <1>2 DEF Serve
<1>4. /\ k \in DOMAIN queue /\ r \in Request /\ Fits(r) /\ queue \in Seq(Request)
      /\ queue' \in Seq(Request) /\ ToSet(queue) = ToSet(queue') \cup {r}
  BY <1>1, <1>2, <1>3, Taken DEF LoginInv, TypeInv, QueuesOK
<1>5. /\ IsOpen(r) => \A q \in ToSet(queue') : IsOpen(q) => q.gen > r.gen
      /\ ~IsOpen(r) /\ link.state = "on" => thread.gen = link.gen
  BY <1>1, <1>2, <1>3, TakenInTurn
<1>6. Ordered(queue')
  BY <1>3, <1>4, OrderedRemove DEF LoginInv, Orderly
<1>7. thread'.gen = IF IsOpen(r) THEN r.gen ELSE thread.gen
  <2>1. thread \in [ gen : Nat, unit : Nat ]
    BY DEF LoginInv, TypeInv, OtherOK
  <2> QED BY <1>3, <2>1 DEF Uses, Overtaken, Opens, Reads, IsOpen
<1>8. Ahead(queue', thread'.gen)
  BY <1>4, <1>5, <1>7 DEF LoginInv, Orderly, Ahead
<1>9. InStep'
  <2> SUFFICES ASSUME link.state = "on"
               PROVE  \/ thread'.gen = link.gen
                      \/ \E q \in ToSet(queue') : IsOpen(q) /\ q.gen = link.gen
    BY <1>3 DEF InStep
  <2>1. CASE IsOpen(r)
    <3>1. thread'.gen = r.gen
      BY <1>7, <2>1
    <3>2. r.gen \in Nat /\ r.gen > thread.gen /\ thread.gen \in Nat /\ thread.gen <= link.gen
          /\ r.gen <= link.gen /\ link.gen \in Nat
      BY <1>4, <2>1 DEF LoginInv, Orderly, Ahead, TypeInv, OtherOK, LinkRecord, Fits, Request
    <3>3. \E q \in ToSet(queue) : IsOpen(q) /\ q.gen = link.gen
      BY <3>2 DEF LoginInv, InStep
    <3> QED BY <1>4, <3>1, <3>3
  <2>2. CASE ~IsOpen(r)
    BY <1>5, <1>7, <2>2
  <2> QED BY <2>1, <2>2
<1> QED BY <1>6, <1>8, <1>9 DEF Orderly

LEMMA LoginInit == Init => LoginInv
<1> SUFFICES ASSUME Init PROVE LoginInv
  OBVIOUS
<1>1. queue = <<>> /\ link.state # "on"
  BY DEF Init
<1> QED BY <1>1, TypeInit, ToSetEmpty DEF LoginInv, Orderly, Ordered, Ahead, InStep, ToSet

LEMMA LoginStep == LoginInv /\ [Next]_vars => LoginInv'
<1> SUFFICES ASSUME LoginInv, [Next]_vars PROVE LoginInv'
  OBVIOUS
<1>1. TypeInv'
  BY TypeStep DEF LoginInv
<1>2. CASE Drain \/ User \/ Server \/ Poll \/ UNCHANGED vars
  BY <1>1, <1>2, OthersGrow, GrownOrderly DEF LoginInv
<1>3. CASE Serve
  BY <1>1, <1>3, ServeOrderly DEF LoginInv
<1>4. CASE Connect \/ Rebind
  BY <1>1, <1>4, LoginOrderly DEF LoginInv
<1>5. CASE GoOffline \/ RemovePane
  <2>1. link \in LinkRecord
    BY DEF LoginInv, TypeInv, OtherOK
  <2>2. queue' = <<>> /\ link'.state # "on"
    <3>1. CASE GoOffline
      BY <2>1, <3>1 DEF GoOffline, LinkRecord
    <3>2. CASE RemovePane
      BY <3>2 DEF RemovePane
    <3> QED BY <1>5, <3>1, <3>2
  <2> QED BY <1>1, <2>2, EmptyOrderly DEF LoginInv
<1> QED BY <1>2, <1>3, <1>4, <1>5 DEF Next, Connection

(* The thread is never left behind: while the session of the tree is open, *)
(* it is of the generation of the tree, or a login that makes it so waits  *)
(* and is the last one (meta_thread, Explorer::rebind).                    *)
THEOREM ThreadCatchesUp == Spec => [](Orderly /\ InStep)
<1>1. LoginInv => Orderly /\ InStep
  BY DEF LoginInv
<1> QED BY <1>1, LoginInit, LoginStep, PTL DEF Spec

-----------------------------------------------------------------------------
(* Waits.                                                                  *)

OneIn(q, o, n, g) == Has(q, n, g) \/ Has(o, n, g)
TwoIn(q, o, n, g) == Twice(q, n, g) \/ Twice(o, n, g) \/ (Has(q, n, g) /\ Has(o, n, g))
OpenIn(q, o, g) == \E r \in ToSet(q) \cup ToSet(o) : IsOpen(r) /\ r.gen = g
MarksIn(q, o, g) == \/ \E r \in ToSet(q) : r.kind = "marks" /\ r.gen = g
                    \/ \E a \in ToSet(o) : a.kind = "marks"
One(n) == OneIn(queue, out, n, link.gen)
Two(n) == TwoIn(queue, out, n, link.gen)

NodeWaits(n) ==
  /\ n \in soft => One(n)
  /\ tree[n].state = "loading" =>
       One(n) \/ (n = Root /\ ("open" \in owe.lost \/ OpenIn(queue, out, link.gen)))
  /\ n \in soft /\ tree[n].state = "loading" => Two(n)
MarksWait == marks.asked => MarksIn(queue, out, link.gen) \/ "marks" \in owe.lost
AgainWaits == again => Root \in soft
Coming == link.state = "on" => (\A n \in Nodes : NodeWaits(n)) /\ MarksWait /\ AgainWaits

WaitInv == LoginInv /\ Coming

\* A queue that grows, and answers of which one has been read or none, lose no other.
LEMMA GrownKeeps ==
  ASSUME TypeInv, NEW b, NEW t, Grown(b, t), link'.gen = link.gen,
         NEW o \in Seq(Answer), NEW n,
         \/ b = queue /\ out' = o
         \/ b = Orphaned(queue) /\ out' = Orphaned(o) /\ n = Root
  PROVE  /\ OneIn(queue, o, n, link.gen) => One(n)'
         /\ TwoIn(queue, o, n, link.gen) => Two(n)'
         /\ Has(t, n, link.gen) => One(n)' /\ (OneIn(queue, o, n, link.gen) => Two(n)')
         /\ OpenIn(queue, o, link.gen) => OpenIn(queue, out, link.gen)'
         /\ MarksIn(queue, o, link.gen) => MarksIn(queue, out, link.gen)'
<1>0. PICK g : g = link.gen
  OBVIOUS
<1>1. queue \in Seq(Request) /\ b \in Seq(Request) /\ t \in Seq(Request) /\ queue' = b \o t
  BY OrphanedProperties DEF TypeInv, QueuesOK, Grown
<1>2. /\ Has(queue, n, g) => Has(b, n, g)
      /\ Twice(queue, n, g) => Twice(b, n, g)
      /\ Has(o, n, g) => Has(out', n, g)
      /\ Twice(o, n, g) => Twice(out', n, g)
  BY <1>1, RootOrphaned
<1>3. /\ Has(queue', n, g) <=> Has(b, n, g) \/ Has(t, n, g)
      /\ Twice(b, n, g) => Twice(queue', n, g)
      /\ Has(b, n, g) /\ Has(t, n, g) => Twice(queue', n, g)
  BY <1>1, WithMore
<1>4. /\ \A r \in ToSet(queue) : \E x \in ToSet(b) : x.kind = r.kind /\ x.gen = r.gen
      /\ \A r \in ToSet(o) : \E x \in ToSet(out') : x.kind = r.kind /\ x.gen = r.gen
  <2>1. CASE b = queue /\ out' = o
    BY <2>1
  <2>2. CASE b = Orphaned(queue) /\ out' = Orphaned(o)
    <3>1. \A X \in {Request, Answer} : \A s \in Seq(X) : \A r \in ToSet(s) :
            \E x \in ToSet(Orphaned(s)) : x.kind = r.kind /\ x.gen = r.gen
      <4> SUFFICES ASSUME NEW X \in {Request, Answer}, NEW s \in Seq(X), NEW i \in DOMAIN s
                   PROVE  \E j \in DOMAIN Orphaned(s) :
                            Orphaned(s)[j].kind = s[i].kind /\ Orphaned(s)[j].gen = s[i].gen
        BY DEF ToSet
      <4> QED BY OrphanedProperties
    <3> QED BY <1>1, <2>2, <3>1
  <2> QED BY <2>1, <2>2
<1>5. ToSet(b) \subseteq ToSet(queue')
  BY <1>1, ToSetConcat
<1>6. /\ OpenIn(queue, o, g) => OpenIn(queue', out', g)
      /\ MarksIn(queue, o, g) => MarksIn(queue', out', g)
  BY <1>4, <1>5 DEF OpenIn, MarksIn, IsOpen
<1>7. /\ OneIn(queue, o, n, g) => OneIn(queue', out', n, g)
      /\ TwoIn(queue, o, n, g) => TwoIn(queue', out', n, g)
      /\ Has(t, n, g) => /\ OneIn(queue', out', n, g)
                         /\ OneIn(queue, o, n, g) => TwoIn(queue', out', n, g)
  BY <1>2, <1>3 DEF OneIn, TwoIn
<1> QED BY <1>0, <1>6, <1>7 DEF One, Two

\* A node is asked for, ...
LEMMA NodeAsked ==
  ASSUME NEW n, NodeWaits(n), n \in soft' => n \in soft, One(n)', One(n) => Two(n)'
  PROVE  NodeWaits(n)'
BY DEF NodeWaits

\* ... or does not show "reading".
LEMMA NodeShown ==
  ASSUME NEW n, tree'[n].state # "loading", n \in soft' => One(n)'
  PROVE  NodeWaits(n)'
BY DEF NodeWaits

\* Steps of the user and the server in which nothing is read and no node leaves.
LEMMA GrownWaits ==
  ASSUME WaitInv, link.state = "on", NEW t, Grown(queue, t), UNCHANGED <<link, out>>,
         owe.lost \ {"unit"} \subseteq owe'.lost
  PROVE  /\ \A n \in Nodes :
              /\ One(n) => One(n)' /\ (Two(n) => Two(n)')
              /\ Has(t, n, link.gen) => One(n)' /\ (One(n) => Two(n)')
              /\ (n \in soft' => n \in soft \/ (One(n)' /\ tree'[n].state # "loading"))
                 /\ (tree'[n].state = "loading" => tree[n].state = "loading") => NodeWaits(n)'
         /\ (marks'.asked => marks.asked) => MarksWait'
<1>1. out \in Seq(Answer) /\ TypeInv /\ Coming
  BY DEF WaitInv, LoginInv, TypeInv, QueuesOK
<1>2. /\ OpenIn(queue, out, link.gen) => OpenIn(queue, out, link.gen)'
      /\ MarksIn(queue, out, link.gen) => MarksIn(queue, out, link.gen)'
  BY <1>1, GrownKeeps
<1>3. MarksWait /\ \A n \in Nodes : NodeWaits(n)
  BY <1>1 DEF Coming
<1>4. ASSUME NEW n \in Nodes
      PROVE  /\ One(n) => One(n)' /\ (Two(n) => Two(n)')
             /\ Has(t, n, link.gen) => One(n)' /\ (One(n) => Two(n)')
             /\ (n \in soft' => n \in soft \/ (One(n)' /\ tree'[n].state # "loading"))
                /\ (tree'[n].state = "loading" => tree[n].state = "loading") => NodeWaits(n)'
  <2>1. /\ One(n) => One(n)' /\ (Two(n) => Two(n)')
        /\ Has(t, n, link.gen) => One(n)' /\ (One(n) => Two(n)')
    BY <1>1, GrownKeeps DEF One, Two
  <2>2. ASSUME n \in soft' => n \in soft \/ (One(n)' /\ tree'[n].state # "loading"),
               tree'[n].state = "loading" => tree[n].state = "loading"
        PROVE  NodeWaits(n)'
    <3>0. "open" \in owe.lost => "open" \in owe'.lost
      OBVIOUS
    <3>1. CASE n \in soft' => n \in soft
      <4>1. n = Root /\ tree[n].state = "loading"
              /\ ("open" \in owe.lost \/ OpenIn(queue, out, link.gen))
                => One(n)' \/ "open" \in owe'.lost \/ OpenIn(queue, out, link.gen)'
        BY <1>2, <3>0
      <4>2. NodeWaits(n)
        BY <1>3
      <4> QED BY <2>1, <2>2, <3>1, <4>1, <4>2 DEF NodeWaits
    <3>2. CASE One(n)' /\ tree'[n].state # "loading"
      BY <3>2, NodeShown
    <3> QED BY <2>2, <3>1, <3>2
  <2> QED BY <2>1, <2>2
<1>5. ASSUME marks'.asked => marks.asked
      PROVE  MarksWait'
  BY <1>2, <1>3, <1>5 DEF MarksWait
<1> QED BY <1>4, <1>5

\* What the user does to a node, with a request for it or without.
LEMMA ActOnNode ==
  ASSUME WaitInv, link.state = "on", NEW n \in Nodes, NEW t, Grown(queue, t),
         UNCHANGED <<link, out, soft, again>>, marks'.asked => marks.asked,
         owe'.lost = owe.lost,
         \A m \in Nodes \ {n} : tree'[m] = tree[m],
         Has(t, n, link.gen) \/ (tree'[n].state = "loading" => tree[n].state = "loading")
  PROVE  Coming'
<1>1. /\ \A m \in Nodes :
           /\ One(m) => One(m)' /\ (Two(m) => Two(m)')
           /\ Has(t, m, link.gen) => One(m)' /\ (One(m) => Two(m)')
           /\ (m \in soft' => m \in soft \/ (One(m)' /\ tree'[m].state # "loading"))
              /\ (tree'[m].state = "loading" => tree[m].state = "loading") => NodeWaits(m)'
      /\ MarksWait'
  BY GrownWaits
<1>2. NodeWaits(n)'
  <2>0. n \in soft' => n \in soft
    OBVIOUS
  <2>1. CASE Has(t, n, link.gen)
    <3>1. NodeWaits(n)
      BY DEF WaitInv, Coming
    <3>2. One(n)' /\ (One(n) => Two(n)')
      BY <1>1, <2>1
    <3> QED BY <2>0, <3>1, <3>2 DEF NodeWaits
  <2>2. CASE tree'[n].state = "loading" => tree[n].state = "loading"
    BY <1>1, <2>0, <2>2
  <2> QED BY <2>1, <2>2
<1>3. AgainWaits'
  BY DEF WaitInv, Coming, AgainWaits
<1>4. ASSUME NEW m \in Nodes, m # n
      PROVE  NodeWaits(m)'
  <2>1. tree'[m] = tree[m] /\ (m \in soft' => m \in soft)
    BY <1>4
  <2> QED BY <1>1, <2>1
<1>5. \A m \in Nodes : NodeWaits(m)'
  BY <1>2, <1>4
<1> QED BY <1>1, <1>3, <1>5 DEF Coming

\* A quiet refresh.
LEMMA SoftlyWaits ==
  ASSUME WaitInv, link.state = "on", NEW S \in SUBSET Nodes, SoftRefresh(S),
         UNCHANGED <<link, out, tree, again>>, marks'.asked => marks.asked,
         owe'.lost = owe.lost
  PROVE  Coming'
<1>1. PICK t : t = AskedAll(Softly(S), FALSE)
  OBVIOUS
<1>2. Grown(queue, t) /\ \A n \in Softly(S) : Has(t, n, link.gen)
  BY <1>1, GrownSoft DEF WaitInv, LoginInv
<1>3. /\ \A m \in Nodes :
           /\ One(m) => One(m)' /\ (Two(m) => Two(m)')
           /\ Has(t, m, link.gen) => One(m)' /\ (One(m) => Two(m)')
           /\ (m \in soft' => m \in soft \/ (One(m)' /\ tree'[m].state # "loading"))
              /\ (tree'[m].state = "loading" => tree[m].state = "loading") => NodeWaits(m)'
      /\ MarksWait'
  BY <1>2, GrownWaits
<1>4. soft' = soft \cup Softly(S)
  BY DEF SoftRefresh
<1>5. \A m \in Nodes : m \in soft' => m \in soft \/ (One(m)' /\ tree'[m].state # "loading")
  <2> SUFFICES ASSUME NEW m \in Nodes, m \in soft', m \notin soft
               PROVE  One(m)' /\ tree'[m].state # "loading"
    OBVIOUS
  <2>1. m \in Softly(S)
    BY <1>4
  <2>2. Has(t, m, link.gen) /\ tree[m].state = "loaded"
    BY <1>2, <2>1 DEF Softly
  <2> QED BY <1>3, <2>2
<1>6. AgainWaits'
  BY <1>4 DEF WaitInv, Coming, AgainWaits
<1>7. \A m \in Nodes : NodeWaits(m)'
  BY <1>3, <1>5
<1> QED BY <1>3, <1>6, <1>7 DEF Coming

\* Nothing is asked for, and no more is waited for.
LEMMA IdleWaits ==
  ASSUME WaitInv, link.state = "on", UNCHANGED <<link, out, queue, soft, again, marks>>,
         owe'.lost = owe.lost,
         \A m \in Nodes : tree'[m].state = "loading" => tree[m].state = "loading"
  PROVE  Coming'
<1>1. Grown(queue, <<>>)
  BY GrownSame DEF WaitInv, LoginInv
<1>2. /\ \A m \in Nodes :
           /\ (m \in soft' => m \in soft \/ (One(m)' /\ tree'[m].state # "loading"))
              /\ (tree'[m].state = "loading" => tree[m].state = "loading") => NodeWaits(m)'
      /\ MarksWait'
  BY <1>1, GrownWaits
<1>3. AgainWaits'
  BY DEF WaitInv, Coming, AgainWaits
<1>4. \A m \in Nodes : m \in soft' => m \in soft
  OBVIOUS
<1>5. \A m \in Nodes : NodeWaits(m)'
  BY <1>2, <1>4
<1> QED BY <1>2, <1>3, <1>5 DEF Coming

LEMMA ExpandWaits == ASSUME WaitInv, NEW n \in Nodes, Expand(n), link.state = "on" PROVE Coming'
<1>1. UNCHANGED <<link, out, soft, again, marks, owe>> /\ TypeInv
      /\ tree \in [Nodes -> NodeRecord]
  BY DEF Expand, paneVars, WaitInv, LoginInv, TypeInv, TreeOK
<1>2. CASE tree' = [tree EXCEPT ![n].open = TRUE] /\ UNCHANGED queue
  <2>1. \A m \in Nodes : tree'[m].state = "loading" => tree[m].state = "loading"
    BY <1>1, <1>2 DEF NodeRecord
  <2> QED BY <1>1, <1>2, <2>1, IdleWaits
<1>3. CASE /\ tree' = [tree EXCEPT ![n].open = TRUE, ![n].state = "loading"]
           /\ queue' = Append(queue, Asked(n, TRUE))
  <2>1. PICK r : r = Asked(n, TRUE)
    OBVIOUS
  <2>2. r \in Request /\ r.kind # "open" /\ r.gen = link.gen /\ IsFor(r, n, link.gen)
    BY <1>1, <2>1, AskedRequest
  <2>3. Grown(queue, <<r>>) /\ Has(<<r>>, n, link.gen)
    BY <1>1, <1>3, <2>1, <2>2, GrownAsk DEF Has
  <2>4. \A m \in Nodes \ {n} : tree'[m] = tree[m]
    BY <1>1, <1>3
  <2> QED BY <1>1, <2>3, <2>4, ActOnNode
<1> QED BY <1>2, <1>3 DEF Expand

LEMMA ViewWaits ==
  ASSUME WaitInv, link.state = "on",
         \/ \E n \in Nodes : Collapse(n) \/ Timeout(n)
         \/ \E f \in Folders : OpenBelow(f)
         \/ OpenSchema
  PROVE  Coming'
<1>1. UNCHANGED <<link, out, queue, soft, again, marks, owe>>
  BY DEF Collapse, Timeout, OpenBelow, OpenSchema, paneVars
<1>2. tree \in [Nodes -> NodeRecord]
  BY DEF WaitInv, LoginInv, TypeInv, TreeOK
<1>3. \A m \in Nodes : tree'[m].state = "loading" => tree[m].state = "loading"
  <2>1. CASE \E n \in Nodes : Collapse(n)
    BY <1>2, <2>1 DEF Collapse, NodeRecord
  <2>2. CASE \E n \in Nodes : Timeout(n)
    BY <1>2, <2>2 DEF Timeout, NodeRecord
  <2>3. CASE \E f \in Folders : OpenBelow(f)
    BY <1>2, <2>3, NodeNames DEF OpenBelow, NodeRecord
  <2>4. CASE OpenSchema
    BY <1>2, <2>4 DEF OpenSchema, Blank
  <2> QED BY <2>1, <2>2, <2>3, <2>4
<1> QED BY <1>1, <1>3, IdleWaits

LEMMA KickWaits == ASSUME WaitInv, Kick PROVE Coming'
<1>1. UNCHANGED <<link, out, soft, again, marks, owe>> /\ TypeInv
      /\ tree \in [Nodes -> NodeRecord] /\ link.state = "on"
  BY DEF Kick, paneVars, WaitInv, LoginInv, TypeInv, TreeOK
<1>2. PICK r : r = Asked(Root, TRUE)
  OBVIOUS
<1>3. r \in Request /\ r.kind # "open" /\ r.gen = link.gen /\ IsFor(r, Root, link.gen)
  BY <1>1, <1>2, NodeNames, AskedRequest
<1>4. Grown(queue, <<r>>) /\ Has(<<r>>, Root, link.gen)
  BY <1>1, <1>2, <1>3, GrownAsk DEF Has, Kick
<1>5. \A m \in Nodes \ {Root} : tree'[m] = tree[m]
  BY <1>1 DEF Kick
<1> QED BY <1>1, <1>4, <1>5, NodeNames, ActOnNode

LEMMA SwitchWaits == ASSUME WaitInv, SwitchUnit PROVE Coming'
<1>1. UNCHANGED <<link, out, tree, marks>> /\ TypeInv /\ link.state = "on" /\ owe \in OweRecord
  BY DEF SwitchUnit, paneVars, WaitInv, LoginInv, TypeInv, OweOK
<1>2. PICK t : /\ Grown(queue, t)
               /\ link.known /\ tree[Root].state = "loaded" /\ ~Doubled => Has(t, Root, link.gen)
  BY <1>1, SwitchGrows
<1>3. owe.lost \ {"unit"} \subseteq owe'.lost
  <2>1. UNCHANGED owe \/ owe' = [owe EXCEPT !.unit = unit.session + 1, !.lost = @ \ {"unit"}]
    BY DEF SwitchUnit
  <2> QED BY <1>1, <2>1 DEF OweRecord
<1>4. /\ \A m \in Nodes :
           /\ One(m) => One(m)'
           /\ Has(t, m, link.gen) => One(m)'
           /\ (m \in soft' => m \in soft \/ (One(m)' /\ tree'[m].state # "loading"))
              /\ (tree'[m].state = "loading" => tree[m].state = "loading") => NodeWaits(m)'
      /\ MarksWait'
  BY <1>1, <1>2, <1>3, GrownWaits
<1>5. CASE link.known /\ tree[Root].state = "loaded"
  <2>1. soft' = soft \cup {Root} /\ again' = (again \/ Doubled)
    BY <1>5 DEF SwitchUnit
  <2>2. One(Root)'
    <3>1. Doubled => One(Root)
      BY <1>1, NodeNames DEF Doubled, WaitInv, Coming, NodeWaits
    <3> QED BY <1>2, <1>4, <1>5, <3>1, NodeNames
  <2>3. \A m \in Nodes : m \in soft' => m \in soft \/ (One(m)' /\ tree'[m].state # "loading")
    <3> SUFFICES ASSUME NEW m \in Nodes, m \in soft', m \notin soft
                 PROVE  One(m)' /\ tree'[m].state # "loading"
      OBVIOUS
    <3>1. m = Root /\ tree'[m] = tree[m]
      BY <1>1, <2>1
    <3> QED BY <1>5, <2>2, <3>1
  <2>4. AgainWaits'
    BY <2>1 DEF AgainWaits
  <2>5. \A m \in Nodes : tree'[m].state = "loading" => tree[m].state = "loading"
    BY <1>1
  <2>6. \A m \in Nodes : NodeWaits(m)'
    BY <1>4, <2>3, <2>5
  <2> QED BY <1>4, <2>4, <2>6 DEF Coming
<1>6. CASE ~(link.known /\ tree[Root].state = "loaded")
  <2>1. UNCHANGED <<soft, again>>
    BY <1>6 DEF SwitchUnit
  <2>2. AgainWaits'
    BY <1>1, <2>1 DEF AgainWaits, WaitInv, Coming
  <2>3. \A m \in Nodes : /\ tree'[m].state = "loading" => tree[m].state = "loading"
                         /\ m \in soft' => m \in soft
    BY <1>1, <2>1
  <2>4. \A m \in Nodes : NodeWaits(m)'
    BY <1>4, <2>3
  <2> QED BY <1>4, <2>2, <2>4 DEF Coming
<1> QED BY <1>5, <1>6

\* A folder read anew.
LEMMA FolderRereadWaits ==
  ASSUME WaitInv, NEW n \in Nodes, n # Root, Reread(n), UNCHANGED <<link, again>>
  PROVE  Coming'
<1>1. TypeInv /\ tree \in [Nodes -> NodeRecord] /\ owe \in OweRecord /\ link.state = "on"
      /\ UNCHANGED <<out, soft, marks>>
  BY DEF WaitInv, LoginInv, TypeInv, TreeOK, OweOK, Reread, Clears
<1>2. owe'.lost = owe.lost
  BY <1>1 DEF Reread, OweRecord
<1>3. tree' = [[tree EXCEPT ![n].seen = 0, ![n].below = FALSE] EXCEPT
                  ![n].state = IF tree[n].open THEN "loading" ELSE "idle",
                  ![n].open = tree[n].open]
  BY DEF Reread, Bared
<1>4. \A m \in Nodes \ {n} : tree'[m] = tree[m]
  BY <1>1, <1>3
<1>5. CASE tree[n].open
  <2>1. PICK r : r = Asked(n, TRUE)
    OBVIOUS
  <2>2. r \in Request /\ r.kind # "open" /\ r.gen = link.gen /\ IsFor(r, n, link.gen)
    BY <1>1, <2>1, AskedRequest
  <2>3. queue' = Append(queue, r)
    BY <1>5, <2>1 DEF Reread, Kept
  <2>4. Grown(queue, <<r>>) /\ Has(<<r>>, n, link.gen)
    BY <1>1, <2>2, <2>3, GrownAsk DEF Has
  <2> QED BY <1>1, <1>2, <1>4, <2>4, ActOnNode
<1>6. CASE ~tree[n].open
  <2>1. UNCHANGED queue
    BY <1>6 DEF Reread, Kept
  <2>2. tree'[n].state = "idle"
    BY <1>1, <1>3, <1>6 DEF NodeRecord
  <2>3. Grown(queue, <<>>)
    BY <1>1, <2>1, GrownSame
  <2> QED BY <1>1, <1>2, <1>4, <2>2, <2>3, ActOnNode
<1> QED BY <1>5, <1>6

\* The root read anew: the folders go.
LEMMA RootRereadWaits ==
  ASSUME WaitInv, Reread(Root), UNCHANGED <<link, again>>
  PROVE  Coming'
<1>1. /\ TypeInv /\ tree \in [Nodes -> NodeRecord] /\ owe \in OweRecord /\ link.state = "on"
      /\ out' = Orphaned(out) /\ soft' = soft \cap {Root} /\ out \in Seq(Answer)
      /\ marks \in MarksRecord /\ queue \in Seq(Request)
  BY DEF WaitInv, LoginInv, TypeInv, TreeOK, OweOK, Reread, Clears, QueuesOK, OtherOK
<1>2. owe'.lost = owe.lost /\ marks'.asked = marks.asked
  BY <1>1 DEF Reread, OweRecord, MarksRecord
<1>3. \A m \in Nodes : tree'[m].state = IF m # Root THEN "absent"
                                        ELSE IF tree[Root].open THEN "loading" ELSE "idle"
  BY NodeNames DEF Reread, Bared, Bare, Blank
<1>4. PICK b : b = Orphaned(queue)
  OBVIOUS
<1>5. PICK r : r = Asked(Root, TRUE)
  OBVIOUS
<1>6. r \in Request /\ r.kind # "open" /\ r.gen = link.gen /\ IsFor(r, Root, link.gen)
  BY <1>1, <1>5, NodeNames, AskedRequest
<1>7. \E t : Grown(b, t) /\ (tree[Root].open => Has(t, Root, link.gen))
  <2>1. CASE tree[Root].open
    <3>1. queue' = Append(b, r)
      BY <1>4, <1>5, <2>1 DEF Reread, Kept
    <3>2. Grown(b, <<r>>) /\ Has(<<r>>, Root, link.gen)
      BY <1>1, <1>4, <1>6, <3>1, GrownAsk DEF Has
    <3> QED BY <3>2
  <2>2. CASE ~tree[Root].open
    <3>1. queue' = b
      BY <1>4, <2>2 DEF Reread, Kept
    <3>2. b \in Seq(Request)
      BY <1>1, <1>4, OrphanedProperties
    <3>3. Grown(b, <<>>)
      BY <1>4, <3>1, <3>2, ConcatEmptySeq, ToSetEmpty DEF Grown
    <3> QED BY <2>2, <3>3
  <2> QED BY <2>1, <2>2
<1>8. PICK t : Grown(b, t) /\ (tree[Root].open => Has(t, Root, link.gen))
  BY <1>7
<1>9. /\ One(Root) => One(Root)' /\ (Two(Root) => Two(Root)')
      /\ Has(t, Root, link.gen) => One(Root)' /\ (One(Root) => Two(Root)')
      /\ OpenIn(queue, out, link.gen) => OpenIn(queue, out, link.gen)'
      /\ MarksIn(queue, out, link.gen) => MarksIn(queue, out, link.gen)'
  BY <1>1, <1>4, <1>8, GrownKeeps DEF One, Two
<1>10. NodeWaits(Root)'
  <2>0. Root \in soft => One(Root)
    BY <1>1, NodeNames DEF WaitInv, Coming, NodeWaits
  <2>1. tree'[Root].state = "loading" => tree[Root].open
    BY <1>3, NodeNames
  <2>2. tree'[Root].state = "loading" => One(Root)' /\ (One(Root) => Two(Root)')
    BY <1>8, <1>9, <2>1
  <2>3. Root \in soft' => Root \in soft
    BY <1>1
  <2> QED BY <1>9, <2>0, <2>2, <2>3 DEF NodeWaits
<1>11. \A m \in Nodes : m # Root => NodeWaits(m)'
  <2> SUFFICES ASSUME NEW m \in Nodes, m # Root PROVE NodeWaits(m)'
    OBVIOUS
  <2>1. tree'[m].state = "absent" /\ m \notin soft'
    BY <1>1, <1>3
  <2> QED BY <2>1 DEF NodeWaits
<1>12. \A m \in Nodes : NodeWaits(m)'
  BY <1>10, <1>11
<1>13. MarksWait'
  BY <1>1, <1>2, <1>9 DEF MarksWait, WaitInv, Coming
<1>14. AgainWaits'
  BY <1>1 DEF AgainWaits, WaitInv, Coming
<1> QED BY <1>12, <1>13, <1>14 DEF Coming

LEMMA FreshenWaits ==
  ASSUME WaitInv, NEW n \in Nodes, Freshen(n), UNCHANGED <<link, again>>
  PROVE  Coming'
<1>1. PICK S \in SUBSET Nodes : SoftRefresh(S)
  BY DEF Freshen
<1>2. owe \in OweRecord /\ link.state = "on" /\ UNCHANGED <<tree, out, marks>>
  BY DEF WaitInv, LoginInv, TypeInv, OweOK, Freshen
<1>3. owe'.lost = owe.lost
  BY <1>2 DEF Freshen, OweRecord
<1> QED BY <1>1, <1>2, <1>3, SoftlyWaits

LEMMA RefreshWaits ==
  ASSUME WaitInv, \/ \E n \in Nodes, hard \in BOOLEAN : Refresh(n, hard)
                  \/ \E f \in Folders : NoteMissing(f)
  PROVE  Coming'
<1>1. PICK n \in Nodes : /\ Reread(n) \/ Freshen(n) \/ Disowned(n)
                         /\ UNCHANGED <<link, again>>
  BY NodeNames DEF Refresh, NoteMissing
<1>2. CASE Reread(n) /\ n = Root
  BY <1>1, <1>2, RootRereadWaits
<1>3. CASE Reread(n) /\ n # Root
  BY <1>1, <1>3, FolderRereadWaits
<1>4. CASE Freshen(n)
  BY <1>1, <1>4, FreshenWaits
<1>5. CASE Disowned(n)
  BY <1>1, <1>5 DEF Disowned, Coming
<1> QED BY <1>1, <1>2, <1>3, <1>4, <1>5

\* The steps of the user.
LEMMA UserWaits == ASSUME WaitInv, User PROVE Coming'
<1>1. CASE \E n \in Nodes : Expand(n)
  <2>1. CASE link.state = "on"
    BY <1>1, <2>1, ExpandWaits
  <2>2. CASE link.state # "on"
    BY <1>1, <2>2 DEF Expand, paneVars, Coming
  <2> QED BY <2>1, <2>2
<1>2. CASE \/ \E n \in Nodes : Collapse(n) \/ Timeout(n)
           \/ \E f \in Folders : OpenBelow(f)
           \/ OpenSchema
  <2>1. CASE link.state = "on"
    BY <1>2, <2>1, ViewWaits
  <2>2. CASE link.state # "on"
    <3>1. link' = link
      BY <1>2 DEF Collapse, Timeout, OpenBelow, OpenSchema, paneVars
    <3> QED BY <2>2, <3>1 DEF Coming
  <2> QED BY <2>1, <2>2
<1>3. CASE \/ \E n \in Nodes, hard \in BOOLEAN : Refresh(n, hard)
           \/ \E f \in Folders : NoteMissing(f)
  BY <1>3, RefreshWaits
<1>4. CASE SwitchUnit
  BY <1>4, SwitchWaits
<1>5. CASE Kick
  BY <1>5, KickWaits
<1> QED BY <1>1, <1>2, <1>3, <1>4, <1>5 DEF User

\* The steps of the server, and the poll.
LEMMA ServerWaits == ASSUME WaitInv, Server PROVE Coming'
<1>1. /\ owe \in OweRecord /\ run \in RunRecord
      /\ UNCHANGED <<link, out, tree, again, marks>>
  BY DEF WaitInv, LoginInv, TypeInv, OweOK, OtherOK, Server, Ddl, Elsewhere, RunEnds, Commit,
         Rollback, paneVars
<1>2. owe'.lost = owe.lost
  <2>1. \/ UNCHANGED owe
        \/ \E d, o : owe' = [owe EXCEPT !.due = d, !.owed = o]
        \/ \E o : owe' = [owe EXCEPT !.owed = o]
        \/ \E d : owe' = [owe EXCEPT !.due = d]
    BY DEF Server, Ddl, Elsewhere, RunEnds, Commit, Rollback
  <2> QED BY <1>1, <2>1 DEF OweRecord
<1>3. CASE link.state # "on"
  BY <1>1, <1>3 DEF Coming
<1>4. CASE link.state = "on" /\ (RunEnds \/ Commit)
  <2>1. PICK S \in SUBSET Nodes : SoftRefresh(S)
    BY <1>1, <1>4 DEF RunEnds, Commit, RunRecord
  <2> QED BY <1>1, <1>2, <1>4, <2>1, SoftlyWaits
<1>5. CASE link.state = "on" /\ (Rollback \/ \E n \in Nodes : Ddl(n) \/ Elsewhere(n))
  <2>1. UNCHANGED <<queue, soft>>
    BY <1>5 DEF Rollback, Ddl, Elsewhere
  <2> QED BY <1>1, <1>2, <1>5, <2>1, IdleWaits
<1> QED BY <1>3, <1>4, <1>5 DEF Server

LEMMA PollWaits == ASSUME WaitInv, Poll PROVE Coming'
<1>1. /\ TypeInv /\ link.state = "on" /\ link.gen \in Nat
      /\ UNCHANGED <<link, out, tree, soft, again, owe>>
  BY DEF WaitInv, LoginInv, TypeInv, OtherOK, LinkRecord, Poll
<1>2. PICK r : r = Asks("marks", Gone, link.gen)
  OBVIOUS
<1>3. r \in Request /\ r.kind = "marks" /\ r.gen = link.gen
  BY <1>1, <1>2, AsksType, TypeInvImplies
<1>4. queue' = Append(queue, r)
  BY <1>2 DEF Poll
<1>5. Grown(queue, <<r>>) /\ ToSet(<<r>>) = {r}
  BY <1>1, <1>3, <1>4, GrownAsk
<1>6. \A m \in Nodes :
        /\ (m \in soft' => m \in soft \/ (One(m)' /\ tree'[m].state # "loading"))
           /\ (tree'[m].state = "loading" => tree[m].state = "loading") => NodeWaits(m)'
  BY <1>1, <1>5, GrownWaits
<1>7. \A m \in Nodes : NodeWaits(m)'
  <2>1. \A m \in Nodes : /\ m \in soft' => m \in soft
                         /\ tree'[m].state = "loading" => tree[m].state = "loading"
    BY <1>1
  <2> QED BY <1>6, <2>1
<1>8. MarksWait'
  <2>1. r \in ToSet(queue')
    BY <1>1, <1>3, <1>4, ToSetAppend DEF TypeInv, QueuesOK
  <2> QED BY <1>1, <1>3, <2>1 DEF MarksWait, MarksIn
<1>9. AgainWaits'
  BY <1>1 DEF AgainWaits, WaitInv, Coming
<1> QED BY <1>7, <1>8, <1>9 DEF Coming

-----------------------------------------------------------------------------
(* The thread turns requests into answers.                                 *)

LEMMA ServeWaits == ASSUME WaitInv, Serve PROVE Coming'
<1>0. /\ UNCHANGED <<link, tree, soft, again, marks>> /\ LoginInv /\ TypeInv
      /\ owe \in OweRecord /\ out \in Seq(Answer) /\ queue \in Seq(Request)
  BY DEF Serve, WaitInv, LoginInv, TypeInv, OweOK, QueuesOK
<1> SUFFICES ASSUME link.state = "on"
             PROVE  Coming'
  BY <1>0 DEF Coming
<1>1. PICK k : k = Pick
  OBVIOUS
<1>2. PICK r : r = queue[k]
  OBVIOUS
<1>3. /\ queue # <<>> /\ queue' = RemoveAt(queue, k)
      /\ \/ (Uses(r) \/ (Overtaken(r) /\ UNCHANGED thread)) /\ UNCHANGED <<out, owe>>
         \/ /\ Opens(r) \/ Reads(r)
            /\ \E ok \in BOOLEAN : out' = Append(out, Answered(r, ok))
            /\ UNCHANGED owe \/ owe' = [owe EXCEPT !.lost = @ \cup {"unit"}]
  BY <1>1, <1>2 DEF Serve
<1>4. /\ k \in DOMAIN queue /\ r \in Request
      /\ queue' \in Seq(Request) /\ ToSet(queue) = ToSet(queue') \cup {r}
  BY <1>0, <1>1, <1>2, <1>3, Taken
<1>5. r.kind # "open" => thread.gen = link.gen
  BY <1>0, <1>1, <1>2, <1>3, TakenInTurn DEF IsOpen
<1> DEFINE Silent == /\ r.kind # "open"
                     /\ r.kind \in {"list", "marks"} => r.gen # link.gen
           Answers(a) == a.kind = r.kind /\ a.node = r.node /\ a.gen = r.gen
<1>6. owe.lost \subseteq owe'.lost
  BY <1>0, <1>3 DEF OweRecord
<1>7. \/ Silent /\ out' = out
      \/ \E a \in Answer : Answers(a) /\ out' = Append(out, a)
  <2>1. CASE (Uses(r) \/ (Overtaken(r) /\ UNCHANGED thread)) /\ UNCHANGED <<out, owe>>
    BY <1>5, <2>1 DEF Uses, Overtaken
  <2>2. CASE /\ Opens(r) \/ Reads(r)
             /\ \E ok \in BOOLEAN : out' = Append(out, Answered(r, ok))
    <3>1. PICK ok \in BOOLEAN : out' = Append(out, Answered(r, ok))
      BY <2>2
    <3>2. r.kind \in {"open", "list", "marks"}
      BY <2>2 DEF Opens, Reads
    <3>3. /\ Answered(r, ok) \in Answer /\ Answered(r, ok).kind = r.kind
          /\ Answered(r, ok).node = r.node /\ Answered(r, ok).gen = r.gen
      BY <1>0, <1>4, <3>2, AnsweredType
    <3> QED BY <3>1, <3>3
  <2> QED BY <1>3, <2>1, <2>2
<1>8. ASSUME NEW n
      PROVE  (One(n) => One(n)') /\ (Two(n) => Two(n)')
  <2>0. PICK g : g = link.gen
    OBVIOUS
  <2>1. /\ Has(queue, n, g) <=> Has(queue', n, g) \/ IsFor(r, n, g)
        /\ Twice(queue, n, g) => Twice(queue', n, g) \/ (IsFor(r, n, g) /\ Has(queue', n, g))
    BY <1>0, <1>2, <1>3, <1>4, WithoutOne
  <2>2. CASE Silent /\ out' = out
    BY <1>0, <2>0, <2>1, <2>2 DEF One, Two, OneIn, TwoIn, IsFor
  <2>3. ASSUME NEW a \in Answer, Answers(a), out' = Append(out, a)
        PROVE  (One(n) => One(n)') /\ (Two(n) => Two(n)')
    <3>1. <<a>> \in Seq(Answer) /\ out' = out \o <<a>> /\ a \in ToSet(<<a>>)
      <4>1. DOMAIN <<a>> = 1..1 /\ <<a>>[1] = a
        OBVIOUS
      <4> QED BY <1>0, <2>3, <4>1, AppendIsConcat DEF ToSet
    <3>2. IsFor(r, n, g) => Has(<<a>>, n, g)
      BY <2>3, <3>1 DEF IsFor, Has
    <3>3. /\ Has(out', n, g) <=> Has(out, n, g) \/ Has(<<a>>, n, g)
          /\ Twice(out, n, g) => Twice(out', n, g)
          /\ Has(out, n, g) /\ Has(<<a>>, n, g) => Twice(out', n, g)
      BY <1>0, <3>1, WithMore
    <3> QED BY <1>0, <2>0, <2>1, <3>2, <3>3 DEF One, Two, OneIn, TwoIn
  <2> HIDE DEF Silent, Answers
  <2> QED BY <1>7, <2>2, <2>3
<1>9. OpenIn(queue, out, link.gen) => OpenIn(queue, out, link.gen)'
  <2>1. CASE Silent /\ out' = out
    BY <1>0, <1>4, <2>1 DEF OpenIn, IsOpen
  <2>2. ASSUME NEW a \in Answer, Answers(a), out' = Append(out, a)
        PROVE  OpenIn(queue, out, link.gen) => OpenIn(queue, out, link.gen)'
    <3>1. ToSet(out') = ToSet(out) \cup {a}
      BY <1>0, <2>2, ToSetAppend
    <3> QED BY <1>0, <1>4, <2>2, <3>1 DEF OpenIn, IsOpen
  <2> HIDE DEF Silent, Answers
  <2> QED BY <1>7, <2>1, <2>2
<1>10. MarksIn(queue, out, link.gen) => MarksIn(queue, out, link.gen)'
  <2>1. CASE Silent /\ out' = out
    BY <1>0, <1>4, <2>1 DEF MarksIn
  <2>2. ASSUME NEW a \in Answer, Answers(a), out' = Append(out, a)
        PROVE  MarksIn(queue, out, link.gen) => MarksIn(queue, out, link.gen)'
    <3>1. ToSet(out') = ToSet(out) \cup {a}
      BY <1>0, <2>2, ToSetAppend
    <3> QED BY <1>0, <1>4, <2>2, <3>1 DEF MarksIn
  <2> HIDE DEF Silent, Answers
  <2> QED BY <1>7, <2>1, <2>2
<1>11. \A m \in Nodes : NodeWaits(m)'
  <2> SUFFICES ASSUME NEW m \in Nodes PROVE NodeWaits(m)'
    OBVIOUS
  <2>1. NodeWaits(m)
    BY DEF WaitInv, Coming
  <2>2. "open" \in owe.lost => "open" \in owe'.lost
    BY <1>6
  <2>3. (One(m) => One(m)') /\ (Two(m) => Two(m)')
    BY <1>8
  <2>4. Two(m) => One(m)
    BY DEF Two, One, TwoIn, OneIn, Has, Twice, ToSet
  <2> QED BY <1>0, <1>9, <2>1, <2>2, <2>3, <2>4 DEF NodeWaits
<1>12. MarksWait'
  BY <1>0, <1>6, <1>10 DEF MarksWait, WaitInv, Coming
<1>13. AgainWaits'
  BY <1>0 DEF AgainWaits, WaitInv, Coming
<1> QED BY <1>11, <1>12, <1>13 DEF Coming

-----------------------------------------------------------------------------
(* The tree reads an answer off.                                           *)

LEMMA AwaitedIsOne ==
  ASSUME NEW n
  PROVE  /\ Awaited(n) # {} <=> One(n)
         /\ Two(n) => One(n)
<1>1. Awaited(n) # {} <=> One(n)
  BY DEF Awaited, OnTheWay, One, OneIn, Has, IsFor
<1>2. Two(n) => One(n)
  BY DEF Two, One, TwoIn, OneIn, Has, Twice, ToSet
<1> QED BY <1>1, <1>2

\* What is left for a node when an answer is read off and requests come in.
LEMMA ReadOff ==
  ASSUME TypeInv, out # <<>>, NEW a, a = Head(out), out' = Tail(out), NEW t, Grown(queue, t),
         link'.gen = link.gen, NEW n
  PROVE  /\ ~IsFor(a, n, link.gen) =>
              /\ One(n) => One(n)'
              /\ Two(n) => Two(n)'
              /\ Has(t, n, link.gen) /\ One(n) => Two(n)'
         /\ Two(n) => One(n)' /\ (Has(t, n, link.gen) => Two(n)')
         /\ Has(t, n, link.gen) => One(n)'
         /\ OpenIn(queue, out, link.gen) =>
              OpenIn(queue, out, link.gen)' \/ (a.kind = "open" /\ a.gen = link.gen)
         /\ MarksIn(queue, out, link.gen) => MarksIn(queue, out, link.gen)' \/ a.kind = "marks"
<1>0. PICK g, o : g = link.gen /\ o = Tail(out)
  OBVIOUS
<1>1. /\ out \in Seq(Answer) /\ o \in Seq(Answer) /\ ToSet(out) = ToSet(o) \cup {a}
  BY <1>0, Drained DEF TypeInv, QueuesOK
<1>2. /\ OneIn(queue, o, n, g) => One(n)'
      /\ TwoIn(queue, o, n, g) => Two(n)'
      /\ Has(t, n, g) => One(n)' /\ (OneIn(queue, o, n, g) => Two(n)')
      /\ OpenIn(queue, o, g) => OpenIn(queue, out, link.gen)'
      /\ MarksIn(queue, o, g) => MarksIn(queue, out, link.gen)'
  BY <1>0, <1>1, GrownKeeps
<1>3. /\ Has(out, n, g) <=> Has(o, n, g) \/ IsFor(a, n, g)
      /\ Twice(out, n, g) => Twice(o, n, g) \/ (IsFor(a, n, g) /\ Has(o, n, g))
  BY <1>0, <1>1, WithoutFirst
<1>4. /\ Twice(queue, n, g) => Has(queue, n, g)
      /\ Twice(o, n, g) => Has(o, n, g)
  BY DEF Twice, Has, ToSet
<1>5. /\ ~IsFor(a, n, g) /\ One(n) => OneIn(queue, o, n, g)
      /\ ~IsFor(a, n, g) /\ Two(n) => TwoIn(queue, o, n, g)
      /\ Two(n) => OneIn(queue, o, n, g)
  BY <1>0, <1>3, <1>4 DEF One, Two, OneIn, TwoIn
<1>6. OpenIn(queue, out, g) => OpenIn(queue, o, g) \/ (a.kind = "open" /\ a.gen = g)
  BY <1>1 DEF OpenIn, IsOpen
<1>7. MarksIn(queue, out, g) => MarksIn(queue, o, g) \/ a.kind = "marks"
  BY <1>1 DEF MarksIn
<1> QED BY <1>0, <1>2, <1>5, <1>6, <1>7

\* The answer is one that no node waits for.
LEMMA OtherReadOff ==
  ASSUME WaitInv, link.state = "on", out # <<>>, NEW a, a = Head(out), out' = Tail(out),
         NEW t, Grown(queue, t), link'.gen = link.gen, NEW n \in Nodes,
         ~IsFor(a, n, link.gen), owe.lost \subseteq owe'.lost,
         n \in soft' => n \in soft \/ (Has(t, n, link.gen) /\ tree'[n].state # "loading"),
         tree'[n].state = "loading" => tree[n].state = "loading",
         a.kind = "open" /\ a.gen = link.gen =>
           \/ n # Root
           \/ tree'[Root].state = "loading" => One(Root) \/ "open" \in owe'.lost
  PROVE  NodeWaits(n)'
<1>0. TypeInv /\ NodeWaits(n)
  BY DEF WaitInv, LoginInv, Coming
<1>1. /\ One(n) => One(n)'
      /\ Two(n) => Two(n)'
      /\ Has(t, n, link.gen) => One(n)'
      /\ OpenIn(queue, out, link.gen) =>
              OpenIn(queue, out, link.gen)' \/ (a.kind = "open" /\ a.gen = link.gen)
  BY <1>0, ReadOff
<1>2. "open" \in owe.lost => "open" \in owe'.lost
  OBVIOUS
<1>3. n \in soft' => One(n)'
  BY <1>0, <1>1 DEF NodeWaits
<1>4. n \in soft' /\ tree'[n].state = "loading" => Two(n)'
  BY <1>0, <1>1 DEF NodeWaits
<1>5. tree'[n].state = "loading" =>
        One(n)' \/ (n = Root /\ ("open" \in owe'.lost \/ OpenIn(queue, out, link.gen)'))
  <2>1. CASE One(n)
    BY <1>1, <2>1
  <2>2. CASE ~One(n)
    <3> SUFFICES ASSUME tree'[n].state = "loading"
                 PROVE  n = Root /\ ("open" \in owe'.lost \/ OpenIn(queue, out, link.gen)')
      OBVIOUS
    <3>1. n = Root /\ ("open" \in owe.lost \/ OpenIn(queue, out, link.gen))
      BY <1>0, <2>2 DEF NodeWaits
    <3>2. a.kind = "open" /\ a.gen = link.gen => "open" \in owe'.lost
      BY <2>2, <3>1
    <3> QED BY <1>1, <1>2, <3>1, <3>2
  <2> QED BY <2>1, <2>2
<1> QED BY <1>3, <1>4, <1>5 DEF NodeWaits

LEMMA DroppedWaits ==
  ASSUME WaitInv, link.state = "on", out # <<>>, Dropped(Head(out))
  PROVE  Coming'
<1>0. PICK a : a = Head(out) /\ Dropped(a)
  OBVIOUS
<1>1. TypeInv /\ out' = Tail(out) /\ UNCHANGED <<link, tree, soft, again, queue, owe>>
  BY <1>0 DEF WaitInv, LoginInv, Dropped
<1>2. Grown(queue, <<>>)
  BY <1>1, GrownSame
<1>3. ~(a.kind = "open" /\ a.gen = link.gen)
  BY <1>0 DEF Dropped
<1>4. \A n \in Nodes : ~IsFor(a, n, link.gen)
  BY <1>0, NodeNames DEF Dropped, IsFor
<1>5. \A n \in Nodes : NodeWaits(n)'
  <2> SUFFICES ASSUME NEW n \in Nodes PROVE NodeWaits(n)'
    OBVIOUS
  <2>1. ~IsFor(a, n, link.gen)
    BY <1>4
  <2>2. n \in soft' => n \in soft
    BY <1>1
  <2> QED BY <1>0, <1>1, <1>2, <1>3, <2>1, <2>2, OtherReadOff
<1>6. MarksWait'
  <2>1. CASE a.kind = "marks"
    <3>1. marks \in MarksRecord
      BY <1>1 DEF TypeInv, OtherOK
    <3>2. ~marks'.asked
      BY <1>0, <2>1, <3>1 DEF Dropped, MarksRecord
    <3> QED BY <3>2 DEF MarksWait
  <2>2. CASE a.kind # "marks"
    <3>1. marks' = marks
      BY <1>0, <2>2 DEF Dropped
    <3>2. MarksIn(queue, out, link.gen) => MarksIn(queue, out, link.gen)'
      BY <1>0, <1>1, <1>2, <2>2, ReadOff
    <3> QED BY <1>1, <3>1, <3>2 DEF MarksWait, WaitInv, Coming
  <2> QED BY <2>1, <2>2
<1>7. AgainWaits'
  BY <1>1 DEF AgainWaits, WaitInv, Coming
<1> QED BY <1>5, <1>6, <1>7 DEF Coming

LEMMA OpenedWaits ==
  ASSUME WaitInv, link.state = "on", out # <<>>, Opened(Head(out))
  PROVE  Coming'
<1>0. PICK a : a = Head(out) /\ Opened(a)
  OBVIOUS
<1>1. /\ TypeInv /\ out' = Tail(out) /\ UNCHANGED <<soft, again, marks>> /\ a.kind = "open"
      /\ link \in LinkRecord /\ owe \in OweRecord /\ tree \in [Nodes -> NodeRecord]
  BY <1>0 DEF WaitInv, LoginInv, TypeInv, OtherOK, OweOK, TreeOK, Opened
<1>2. link'.gen = link.gen /\ owe.lost \subseteq owe'.lost
  <2>1. \/ UNCHANGED link
        \/ link' = [link EXCEPT !.known = TRUE, !.rebinding = FALSE]
        \/ link' = [link EXCEPT !.known = TRUE, !.expandable = TRUE]
    BY <1>0 DEF Opened
  <2>2. UNCHANGED owe \/ owe' = [owe EXCEPT !.lost = @ \cup {"open"}]
    BY <1>0 DEF Opened
  <2>3. link'.gen = link.gen
    BY <1>1, <2>1 DEF LinkRecord
  <2>4. owe.lost \subseteq owe'.lost
    BY <1>1, <2>2 DEF OweRecord
  <2> QED BY <2>3, <2>4
<1>3. \A n \in Nodes : ~IsFor(a, n, link.gen)
  BY <1>1 DEF IsFor
<1>4. \E t : /\ Grown(queue, t)
             /\ \/ Has(t, Root, link.gen)
                \/ tree'[Root].state # "loading"
                \/ tree' = tree /\ (tree[Root].state = "loading" =>
                                      One(Root) \/ "open" \in owe'.lost)
  <2>1. CASE queue' = Append(queue, Asked(Root, TRUE))
    <3>1. PICK r : r = Asked(Root, TRUE)
      OBVIOUS
    <3>2. r \in Request /\ r.kind # "open" /\ r.gen = link.gen /\ IsFor(r, Root, link.gen)
      BY <1>1, <3>1, NodeNames, AskedRequest
    <3>3. Grown(queue, <<r>>) /\ Has(<<r>>, Root, link.gen)
      BY <1>1, <2>1, <3>1, <3>2, GrownAsk DEF Has
    <3> QED BY <3>3
  <2>2. CASE /\ UNCHANGED queue
             /\ \/ tree' = [tree EXCEPT ![Root].state = "error"]
                \/ tree' = [tree EXCEPT ![Root].state = "idle", ![Root].open = FALSE]
    <3>1. tree'[Root].state # "loading"
      BY <1>1, <2>2, NodeNames DEF NodeRecord
    <3> QED BY <1>1, <2>2, <3>1, GrownSame
  <2>3. CASE /\ UNCHANGED <<queue, tree>>
             /\ owe' = IF tree[Root].state = "loading" /\ Awaited(Root) = {}
                       THEN [owe EXCEPT !.lost = @ \cup {"open"}] ELSE owe
    <3>1. tree[Root].state = "loading" => One(Root) \/ "open" \in owe'.lost
      BY <1>1, <2>3, AwaitedIsOne DEF OweRecord
    <3> QED BY <1>1, <2>3, <3>1, GrownSame
  <2> QED BY <1>0, <2>1, <2>2, <2>3 DEF Opened
<1>5. PICK t : /\ Grown(queue, t)
               /\ \/ Has(t, Root, link.gen)
                  \/ tree'[Root].state # "loading"
                  \/ tree' = tree /\ (tree[Root].state = "loading" =>
                                        One(Root) \/ "open" \in owe'.lost)
  BY <1>4
<1>6. \A n \in Nodes : n # Root => tree'[n] = tree[n]
  BY <1>0, <1>1 DEF Opened
<1>7. \A n \in Nodes : n # Root => NodeWaits(n)'
  <2> SUFFICES ASSUME NEW n \in Nodes, n # Root PROVE NodeWaits(n)'
    OBVIOUS
  <2>1. ~IsFor(a, n, link.gen) /\ tree'[n] = tree[n] /\ (n \in soft' => n \in soft)
    BY <1>1, <1>3, <1>6
  <2> QED BY <1>0, <1>1, <1>2, <1>5, <2>1, OtherReadOff
<1>8. NodeWaits(Root)'
  <2>1. ~IsFor(a, Root, link.gen) /\ (Root \in soft' => Root \in soft)
    BY <1>1, <1>3, NodeNames
  <2>2. CASE Has(t, Root, link.gen)
    <3>1. (One(Root) => Two(Root)') /\ One(Root)'
      BY <1>0, <1>1, <1>2, <1>5, <2>1, <2>2, ReadOff
    <3>2. Root \in soft => One(Root)
      BY NodeNames DEF WaitInv, Coming, NodeWaits
    <3> QED BY <2>1, <3>1, <3>2 DEF NodeWaits
  <2>3. CASE \/ tree'[Root].state # "loading"
             \/ tree' = tree /\ (tree[Root].state = "loading" =>
                                   One(Root) \/ "open" \in owe'.lost)
    <3>1. /\ tree'[Root].state = "loading" => tree[Root].state = "loading"
          /\ tree'[Root].state = "loading" => One(Root) \/ "open" \in owe'.lost
      BY <2>3
    <3> QED BY <1>0, <1>1, <1>2, <1>5, <2>1, <3>1, NodeNames, OtherReadOff
  <2> QED BY <1>5, <2>2, <2>3
<1>9. \A n \in Nodes : NodeWaits(n)'
  BY <1>7, <1>8
<1>10. MarksWait'
  <2>1. MarksIn(queue, out, link.gen) => MarksIn(queue, out, link.gen)'
    BY <1>0, <1>1, <1>2, <1>5, ReadOff
  <2>2. "marks" \in owe.lost => "marks" \in owe'.lost
    BY <1>2
  <2> QED BY <1>1, <2>1, <2>2 DEF MarksWait, WaitInv, Coming
<1>11. AgainWaits'
  BY <1>1 DEF AgainWaits, WaitInv, Coming
<1> QED BY <1>9, <1>10, <1>11 DEF Coming

LEMMA MarkedWaits ==
  ASSUME WaitInv, link.state = "on", out # <<>>, Marked(Head(out))
  PROVE  Coming'
<1>0. PICK a : a = Head(out) /\ Marked(a)
  OBVIOUS
<1>1. /\ TypeInv /\ out' = Tail(out) /\ UNCHANGED <<link, tree, again, owe>> /\ a.kind = "marks"
      /\ ~marks'.asked
  BY <1>0 DEF WaitInv, LoginInv, Marked
<1>2. PICK S \in SUBSET Nodes : SoftRefresh(S)
  BY <1>0, NodeNames DEF Marked
<1>3. PICK t : t = AskedAll(Softly(S), FALSE)
  OBVIOUS
<1>4. Grown(queue, t) /\ \A n \in Softly(S) : Has(t, n, link.gen)
  BY <1>1, <1>2, <1>3, GrownSoft
<1>5. soft' = soft \cup Softly(S)
  BY <1>2 DEF SoftRefresh
<1>6. \A n \in Nodes : NodeWaits(n)'
  <2> SUFFICES ASSUME NEW n \in Nodes PROVE NodeWaits(n)'
    OBVIOUS
  <2>1. ~IsFor(a, n, link.gen)
    BY <1>1 DEF IsFor
  <2>2. n \in soft' => n \in soft \/ (Has(t, n, link.gen) /\ tree'[n].state # "loading")
    <3>1. n \in Softly(S) => Has(t, n, link.gen) /\ tree[n].state = "loaded"
      BY <1>4 DEF Softly
    <3> QED BY <1>1, <1>5, <3>1
  <2> QED BY <1>0, <1>1, <1>4, <2>1, <2>2, OtherReadOff
<1>7. MarksWait'
  BY <1>1 DEF MarksWait
<1>8. AgainWaits'
  BY <1>1, <1>5 DEF AgainWaits, WaitInv, Coming
<1> QED BY <1>6, <1>7, <1>8 DEF Coming

\* The root's list replaces the old one: the folders go.
LEMMA RootReplacedWaits ==
  ASSUME WaitInv, link.state = "on", out # <<>>, NEW a, a = Head(out), Listed(a),
         a.node = Root, a.ok, ~Merged(Root)
  PROVE  Coming'
<1>1. /\ TypeInv /\ out' = Orphaned(Tail(out)) /\ queue \in Seq(Request)
      /\ UNCHANGED <<link, marks, owe>> /\ a.kind = "list"
      /\ ~again /\ Tail(out) \in Seq(Answer) /\ ToSet(out) = ToSet(Tail(out)) \cup {a}
  <2>1. Replaces(a, Root)
    BY DEF Listed, Merges, Fails
  <2>2. out \in Seq(Answer) /\ TypeInv /\ queue \in Seq(Request)
    BY DEF WaitInv, LoginInv, TypeInv, QueuesOK
  <2>3. ~again
    BY DEF WaitInv, Coming, AgainWaits, Merged
  <2> QED BY <2>1, <2>2, <2>3, Drained DEF Listed, Replaces
<1>2. \A m \in Nodes : tree'[m].state # "loading"
  <2>1. Replaces(a, Root)
    BY DEF Listed, Merges, Fails
  <2> QED BY <2>1 DEF Replaces, Blank
<1>3. queue' = Orphaned(queue) /\ soft' = {} /\ ~again'
  BY <1>1 DEF Listed, Kept, OnceMore
<1>4. \A m \in Nodes : NodeWaits(m)'
  BY <1>2, <1>3 DEF NodeWaits
<1>5. MarksWait'
  <2>1. Grown(Orphaned(queue), <<>>)
    BY <1>1, <1>3, OrphanedProperties, ConcatEmptySeq, ToSetEmpty DEF Grown
  <2>2. MarksIn(queue, Tail(out), link.gen) => MarksIn(queue, out, link.gen)'
    BY <1>1, <2>1, GrownKeeps
  <2>3. MarksIn(queue, out, link.gen) => MarksIn(queue, Tail(out), link.gen)
    BY <1>1 DEF MarksIn
  <2> QED BY <1>1, <2>2, <2>3 DEF MarksWait, WaitInv, Coming
<1>6. AgainWaits'
  BY <1>3 DEF AgainWaits
<1> QED BY <1>4, <1>5, <1>6 DEF Coming

LEMMA NodeListedWaits ==
  ASSUME WaitInv, link.state = "on", out # <<>>, NEW a, a = Head(out), Listed(a),
         ~(a.node = Root /\ a.ok /\ ~Merged(Root))
  PROVE  Coming'
<1>1. PICK n : n = a.node
  OBVIOUS
<1>2. /\ TypeInv /\ UNCHANGED <<link, marks>> /\ a.kind = "list" /\ a.gen = link.gen
      /\ n \in Nodes /\ tree \in [Nodes -> NodeRecord]
      /\ Merges(a, n) \/ Replaces(a, n) \/ Fails(a, n)
  BY <1>1, Drained, NodeNames DEF WaitInv, LoginInv, TypeInv, TreeOK, Listed, Answer
<1>3. /\ queue' = IF OnceMore(n) THEN Append(queue, Asked(Root, FALSE)) ELSE queue
      /\ soft' = IF OnceMore(n) THEN (soft \ {n}) \cup {Root} ELSE soft \ {n}
      /\ again' = IF n = Root THEN FALSE ELSE again
  BY <1>1 DEF Listed
<1>4. owe'.lost = owe.lost
  <2>1. owe \in OweRecord /\ Forgiven({n}) \in OweRecord /\ Forgiven({n}).lost = owe.lost
    BY <1>2, ForgivenType DEF TypeInv, OweOK
  <2>2. UNCHANGED owe \/ owe' = [Forgiven({n}) EXCEPT !.unit = IF n = Root THEN 0 ELSE @]
    BY <1>1 DEF Listed
  <2> QED BY <2>1, <2>2 DEF OweRecord
<1>5. out' = Tail(out)
  BY <1>1, <1>2 DEF Merges, Replaces, Fails
<1>6. /\ \A m \in Nodes : m # n => tree'[m] = tree[m]
      /\ tree'[n].state = "loading" => n \in soft /\ tree[n].state = "loading"
  <2>1. CASE Merges(a, n)
    BY <1>2, <2>1 DEF Merges, NodeRecord
  <2>2. CASE Replaces(a, n) /\ n # Root
    BY <1>2, <2>2 DEF Replaces, Blank
  <2>3. CASE Fails(a, n)
    BY <1>2, <2>3 DEF Fails, Merged, NodeRecord
  <2> QED BY <1>1, <1>2, <2>1, <2>2, <2>3 DEF Replaces
<1>7. PICK t : /\ Grown(queue, t)
               /\ OnceMore(n) => Has(t, n, link.gen)
  <2>1. CASE OnceMore(n)
    <3>1. PICK r : r = Asked(Root, FALSE)
      OBVIOUS
    <3>2. r \in Request /\ r.kind # "open" /\ r.gen = link.gen /\ IsFor(r, Root, link.gen)
      BY <1>2, <3>1, NodeNames, AskedRequest
    <3>3. Grown(queue, <<r>>) /\ Has(<<r>>, Root, link.gen)
      BY <1>2, <1>3, <2>1, <3>1, <3>2, GrownAsk DEF Has
    <3> QED BY <2>1, <3>3 DEF OnceMore
  <2>2. CASE ~OnceMore(n)
    BY <1>2, <1>3, <2>2, GrownSame
  <2> QED BY <2>1, <2>2
<1>8. \A m \in Nodes : m # n => NodeWaits(m)'
  <2> SUFFICES ASSUME NEW m \in Nodes, m # n PROVE NodeWaits(m)'
    OBVIOUS
  <2>1. ~IsFor(a, m, link.gen) /\ tree'[m] = tree[m] /\ a.kind # "open"
    BY <1>1, <1>2, <1>6 DEF IsFor
  <2>2. m \in soft' => m \in soft
    BY <1>3 DEF OnceMore
  <2> QED BY <1>2, <1>4, <1>5, <1>7, <2>1, <2>2, OtherReadOff
<1>9. NodeWaits(n)'
  <2>1. /\ Two(n) => One(n)' /\ (Has(t, n, link.gen) => Two(n)')
        /\ Has(t, n, link.gen) => One(n)'
    BY <1>2, <1>5, <1>7, ReadOff
  <2>2. n \in soft' => Has(t, n, link.gen)
    BY <1>3, <1>7
  <2>3. tree'[n].state = "loading" => Two(n)
    BY <1>2, <1>6 DEF NodeWaits, WaitInv, Coming
  <2> QED BY <2>1, <2>2, <2>3 DEF NodeWaits
<1>10. \A m \in Nodes : NodeWaits(m)'
  BY <1>8, <1>9
<1>11. MarksWait'
  <2>1. MarksIn(queue, out, link.gen) => MarksIn(queue, out, link.gen)'
    BY <1>2, <1>5, <1>7, ReadOff
  <2> QED BY <1>2, <1>4, <2>1 DEF MarksWait, WaitInv, Coming
<1>12. AgainWaits'
  BY <1>3 DEF AgainWaits, WaitInv, Coming
<1> QED BY <1>10, <1>11, <1>12 DEF Coming

LEMMA DrainWaits == ASSUME WaitInv, Drain PROVE Coming'
<1>1. PICK a : a = Head(out) /\ (Dropped(a) \/ Opened(a) \/ Listed(a) \/ Marked(a))
  BY DEF Drain
<1>2. out # <<>>
  BY DEF Drain
<1>3. CASE link.state # "on"
  <2>1. link'.state = link.state
    BY OthersGrow DEF WaitInv, LoginInv
  <2> QED BY <1>3, <2>1 DEF Coming
<1>4. CASE link.state = "on"
  BY <1>1, <1>2, <1>4, DroppedWaits, OpenedWaits, MarkedWaits, RootReplacedWaits, NodeListedWaits
<1> QED BY <1>3, <1>4

-----------------------------------------------------------------------------
(* The connection.                                                         *)

LEMMA ConnectionWaits == ASSUME WaitInv, Connection PROVE Coming'
<1>1. /\ link \in LinkRecord /\ queue \in Seq(Request) /\ link.gen \in Nat
      /\ owe \in OweRecord /\ marks \in MarksRecord /\ tree \in [Nodes -> NodeRecord] /\ TypeInv
  BY DEF WaitInv, LoginInv, TypeInv, OtherOK, LinkRecord, QueuesOK, OweOK, TreeOK
<1>2. CASE Connect
  <2>1. PICK r : r = Asks("open", Root, link.gen + 1)
    OBVIOUS
  <2>2. r \in Request /\ r.kind = "open" /\ r.gen = link.gen + 1 /\ queue' = Append(queue, r)
    BY <1>1, <1>2, <2>1, AsksType, TypeInvImplies, NodeNames DEF Connect
  <2>3. r \in ToSet(queue') /\ link'.gen = link.gen + 1
    BY <1>1, <1>2, <2>2, ToSetAppend, LinkMoves
  <2>4. OpenIn(queue, out, link.gen)'
    BY <2>2, <2>3 DEF OpenIn, IsOpen
  <2>5. \A m \in Nodes : m # Root => tree'[m].state = "absent"
    BY <1>2 DEF Connect, Bare, Blank
  <2>6. soft' = {} /\ ~again' /\ ~marks'.asked
    BY <1>2 DEF Connect
  <2>7. \A m \in Nodes : NodeWaits(m)'
    BY <2>4, <2>5, <2>6 DEF NodeWaits
  <2> QED BY <2>6, <2>7 DEF Coming, MarksWait, AgainWaits
<1>3. CASE Rebind
  <2>1. \A m \in Nodes : tree'[m].state # "loading"
    BY <1>1, <1>3 DEF Rebind, Stopped, NodeRecord
  <2>2. soft' = {} /\ ~again' /\ UNCHANGED <<marks, out>>
    BY <1>3 DEF Rebind
  <2>3. \A m \in Nodes : NodeWaits(m)'
    BY <2>1, <2>2 DEF NodeWaits
  <2>4. MarksWait'
    <3>1. PICK S, deaf : /\ deaf = (marks.asked /\ ~\E a \in ToSet(out) : a.kind = "marks")
                         /\ owe' = [Forgiven(S) EXCEPT
                                !.unit = 0, !.lost = IF deaf THEN @ \cup {"marks"} ELSE @]
      BY <1>3 DEF Rebind
    <3>2. Forgiven(S) \in OweRecord /\ Forgiven(S).lost = owe.lost
      BY <1>1, ForgivenType
    <3>3. deaf => "marks" \in owe'.lost
      BY <3>1, <3>2 DEF OweRecord
    <3> QED BY <2>2, <3>1, <3>3 DEF MarksWait, MarksIn
  <2> QED BY <2>2, <2>3, <2>4 DEF Coming, AgainWaits
<1>4. CASE GoOffline
  <2>1. link'.state # "on"
    BY <1>1, <1>4 DEF GoOffline, LinkRecord
  <2> QED BY <2>1 DEF Coming
<1>5. CASE RemovePane
  <2>1. link'.state # "on"
    BY <1>5 DEF RemovePane
  <2> QED BY <2>1 DEF Coming
<1> QED BY <1>2, <1>3, <1>4, <1>5 DEF Connection

LEMMA StillWaits == ASSUME WaitInv, UNCHANGED vars PROVE Coming'
BY DEF vars, WaitInv, Coming, NodeWaits, MarksWait, AgainWaits, One, Two

LEMMA WaitInit == Init => WaitInv
<1> SUFFICES ASSUME Init PROVE WaitInv
  OBVIOUS
<1>1. link.state # "on"
  BY DEF Init
<1> QED BY <1>1, LoginInit DEF WaitInv, Coming

LEMMA WaitStep == WaitInv /\ [Next]_vars => WaitInv'
<1> SUFFICES ASSUME WaitInv, [Next]_vars PROVE WaitInv'
  OBVIOUS
<1>1. LoginInv'
  BY LoginStep DEF WaitInv
<1>2. Coming'
  BY ConnectionWaits, UserWaits, ServerWaits, ServeWaits, DrainWaits, PollWaits, StillWaits
  DEF Next
<1> QED BY <1>1, <1>2 DEF WaitInv

LEMMA WaitsAreAnswered == WaitInv => AskedIsAnswered
<1> SUFFICES ASSUME WaitInv, link.state = "on"
             PROVE  /\ \A n \in Nodes :
                         /\ n \in soft => Awaited(n) # {}
                         /\ tree[n].state = "loading" =>
                              \/ Awaited(n) # {}
                              \/ n = Root /\ \/ "open" \in owe.lost
                                             \/ \E r \in OnTheWay : r.kind = "open"
                    /\ marks.asked => MarksCome \/ "marks" \in owe.lost
                    /\ again => Root \in soft
  BY DEF AskedIsAnswered
<1>1. Coming
  BY DEF WaitInv
<1>2. OpenIn(queue, out, link.gen) => \E r \in OnTheWay : r.kind = "open"
  BY DEF OpenIn, IsOpen, OnTheWay
<1>3. MarksIn(queue, out, link.gen) => MarksCome
  BY DEF MarksIn, MarksCome
<1>4. ASSUME NEW n \in Nodes
      PROVE  /\ n \in soft => Awaited(n) # {}
             /\ tree[n].state = "loading" =>
                  \/ Awaited(n) # {}
                  \/ n = Root /\ \/ "open" \in owe.lost
                                 \/ \E r \in OnTheWay : r.kind = "open"
  <2>1. NodeWaits(n)
    BY <1>1 DEF Coming
  <2>2. Awaited(n) # {} <=> One(n)
    BY AwaitedIsOne
  <2> QED BY <1>2, <2>1, <2>2 DEF NodeWaits
<1> QED BY <1>1, <1>3, <1>4 DEF Coming, MarksWait, AgainWaits

(* Whatever the tree waits for is on its way, but for the two waits that   *)
(* the code loses for good: the "reading" of a node, a quiet refresh, the  *)
(* watermark, and the reading once more that follows a quiet refresh.      *)
THEOREM EveryWaitIsAnswered == Spec => []AskedIsAnswered
BY WaitInit, WaitStep, WaitsAreAnswered, PTL DEF Spec

=============================================================================
