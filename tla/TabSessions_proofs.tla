------------------------- MODULE TabSessions_proofs -------------------------
(***************************************************************************)
(* Theorems of TabSessions: types; that the tabs on shared connections     *)
(* stay on their servers, whatever the user does; and where requests and   *)
(* changes go, for the workloads that leave out what goes wrong.           *)
(*                                                                         *)
(* The operations are functions of a host, so each has a lemma that says   *)
(* what it leaves: Whole in between, Neat and Tied at the end, and of the  *)
(* sessions and bindings of the tabs as much as From.  A text of any       *)
(* length and answers of any number keep what one item keeps (Along); that *)
(* is an induction, and stands on the least index at which it would fail   *)
(* (LeastNatural).  Two kinds of steps do not leave the other tabs alone:  *)
(* Login, which takes a session nobody uses or makes one, and Use.         *)
(*                                                                         *)
(* Where a change runs is a matter of each session and its worker: Fit     *)
(* says that the worker is where the host believes, or connects first, and *)
(* that every command on its way suits that.  Each operation has a second  *)
(* lemma, that it leaves all sessions fit; the worker's is FitDone.        *)
(***************************************************************************)
EXTENDS TabSessions, SequenceTheorems, WellFoundedInduction, TLAPS

-----------------------------------------------------------------------------
(* The inductive invariant.                                                *)

Commands ==
  { c \in [ op : {"connect", "login", "run", "commit"}, for : Ids, to : Specs, again : BOOLEAN,
            script : Seq(Items), tab : Tabs \cup {None}, shown : Servers \cup {None},
            guarded : BOOLEAN ] :
      /\ c.op = "run" => c.tab \in Tabs
      /\ c.op \in {"connect", "login"} => c.to # Spec0 }
Workers == [ link : Servers \cup {None}, cmds : Seq(Commands) ]
Hosts == [ tabs : SUBSET Tabs, active : Tabs, bind : [Tabs -> 0..MaxSessions], default : Ids,
           made : Ids, sess : [Ids -> Session], wk : [Ids -> Workers] ]
Backups == [ on : 0..MaxSessions, script : Seq(Items), shown : Servers \cup {None}, prod : BOOLEAN ]

Common(h, i) == h.sess[i].there /\ h.sess[i].owner = None

\* What holds of a host at every point of an operation.
Whole(h) ==
  /\ h \in Hosts
  /\ h.active \in h.tabs
  /\ Common(h, h.default)
  /\ \A t \in h.tabs : h.bind[t] # 0 => Common(h, h.bind[t])
  /\ \A t \in Tabs : h.bind[t] <= h.made
  /\ \A i \in Ids : /\ h.sess[i].there => i <= h.made
                    /\ h.sess[i].closing => h.sess[i].owner # None
                    /\ h.sess[i].idle => h.sess[i].spec # Spec0
                    /\ h.wk[i].cmds # <<>> => h.sess[i].there

\* What it is again once the sessions that end are reaped ..
Neat(h) ==
  /\ \A i \in Ids : h.sess[i].there /\ h.sess[i].owner # None
                      => h.sess[i].owner \in h.tabs /\ ~h.sess[i].closing
  /\ \A t \in Tabs \ h.tabs : h.bind[t] = 0
\* .. and the tabs without one are bound.
Tied(h) == \A t \in h.tabs : h.bind[t] # 0 \/ Owned(h, t) # {}

\* A text that waits for its backup and has a CONNECT waits for a session of
\* a tab.
BackupOK ==
  /\ objbk \in Backups
  /\ objbk # NoBackup =>
       /\ objbk.on \in 1..made
       /\ Intent(objbk.script).do = "connect" /\ sess[objbk.on].there => sess[objbk.on].owner # None

TabsInv ==
  /\ does \in Workloads /\ known \subseteq Servers /\ BackupOK
  /\ Whole(Host) /\ Neat(Host) /\ Tied(Host)

-----------------------------------------------------------------------------
(* What is done one after the other: a text, the answers to a command.     *)

\* A set of naturals has a least element.
LEMMA LeastNatural ==
  ASSUME NEW T, T \subseteq Nat, T # {}
  PROVE  Min(T) \in T /\ \A y \in T : Min(T) <= y
<1> DEFINE R == {ss \in Nat \X Nat : ss[1] < ss[2]}
<1>1. IsWellFoundedOn(R, Nat)
  BY NatLessThanWellFounded DEF OpToRel
<1>2. PICK x \in T : \A y \in T : ~ (<<y, x>> \in R)
  <2> HIDE DEF R
  <2> QED BY <1>1, WFMin
<1>3. \A y \in T : ~ (y < x)
  BY <1>2
<1>4. \A y \in T : x <= y
  BY <1>3
<1> QED BY <1>4 DEF Min

\* What holds at first and is kept by every step holds throughout.
LEMMA Along ==
  ASSUME NEW n \in Nat, NEW f, NEW K, f[0] \in K,
         \A k \in 1..n : f[k - 1] \in K => f[k] \in K
  PROVE  \A k \in 0..n : f[k] \in K
<1> DEFINE Bad == { k \in 0..n : f[k] \notin K }
<1>1. SUFFICES ASSUME Bad # {} PROVE FALSE
  OBVIOUS
<1>2. Bad \subseteq Nat
  OBVIOUS
<1>3. PICK m \in Bad : \A j \in Bad : m <= j
  <2> HIDE DEF Bad
  <2> QED BY <1>1, <1>2, LeastNatural
<1>4. m \in 1..n
  BY <1>3
<1>5. m - 1 \in 0..n /\ m - 1 \notin Bad
  BY <1>3, <1>4
<1> QED BY <1>3, <1>4, <1>5

\* n steps, one after the other, come to an end.
StepsOf(F, n, h, K) == { f \in [0..n -> K] : f[0] = h /\ \A k \in 1..n : f[k] = F[k][f[k - 1]] }

LEMMA StepsEnd ==
  ASSUME NEW n \in Nat, NEW K, NEW h \in K, NEW F \in [1..n -> [K -> K]]
  PROVE  StepsOf(F, n, h, K) # {}
<1> DEFINE Upto(m) == \E f \in [0..m -> K] : f[0] = h /\ \A k \in 1..m : f[k] = F[k][f[k - 1]]
           Good == { m \in 0..n : Upto(m) }
           here == [m \in 0..n |-> m]
<1>1. Upto(0)
  <2>1. [k \in 0..0 |-> h] \in [0..0 -> K] /\ [k \in 0..0 |-> h][0] = h /\ 1..0 = {}
    OBVIOUS
  <2> QED BY <2>1
<1>2. ASSUME NEW m \in 1..n, Upto(m - 1) PROVE Upto(m)
  <2>1. PICK g \in [0..(m - 1) -> K] : g[0] = h /\ \A k \in 1..(m - 1) : g[k] = F[k][g[k - 1]]
    BY <1>2
  <2> DEFINE f == [k \in 0..m |-> IF k = m THEN F[m][g[m - 1]] ELSE g[k]]
  <2>2. g[m - 1] \in K /\ F[m][g[m - 1]] \in K
    BY <2>1
  <2>3. \A k \in 0..(m - 1) : f[k] = g[k] /\ g[k] \in K
    BY <2>1
  <2>4. f \in [0..m -> K]
    BY <2>2, <2>3
  <2>5. f[0] = h
    BY <2>1, <2>3
  <2>6. ASSUME NEW k \in 1..m PROVE f[k] = F[k][f[k - 1]]
    <3>1. f[k - 1] = g[k - 1]
      BY <2>3
    <3>2. CASE k = m
      <4>1. m \in 0..m /\ f[m] = F[m][g[m - 1]]
        OBVIOUS
      <4> QED BY <3>1, <3>2, <4>1
    <3>3. CASE k # m
      BY <2>1, <2>3, <3>1, <3>3
    <3> QED BY <3>2, <3>3
  <2> QED BY <2>4, <2>5, <2>6
<1>3. here[0] \in Good /\ \A k \in 1..n : here[k - 1] \in Good => here[k] \in Good
  <2> HIDE DEF Upto
  <2>1. 0 \in 0..n /\ \A k \in 1..n : k \in 0..n /\ k - 1 \in 0..n
    OBVIOUS
  <2> QED BY <1>1, <1>2, <2>1
<1>4. here[n] \in Good
  <2> HIDE DEF Good, here
  <2>1. \A k \in 0..n : here[k] \in Good
    BY <1>3, Along
  <2> QED BY <2>1
<1> QED BY <1>4 DEF StepsOf

\* What holds at the first step, and of every step after one of which it
\* holds, holds of the last; L: what holds of each.
LEMMA Onward ==
  ASSUME NEW n \in Nat, NEW f, NEW L, f[0] \in L[0],
         \A k \in 1..n : f[k - 1] \in L[k - 1] => f[k] \in L[k]
  PROVE  f[n] \in L[n]
<1> DEFINE Good == { m \in 0..n : f[m] \in L[m] }
           here == [m \in 0..n |-> m]
<1>1. \A m \in 0..n : here[m] = m
  OBVIOUS
<1>2. 0 \in 0..n /\ n \in 0..n /\ \A k \in 1..n : k \in 0..n /\ k - 1 \in 0..n
  OBVIOUS
<1> HIDE DEF here
<1>3. here[0] \in Good /\ \A k \in 1..n : here[k - 1] \in Good => here[k] \in Good
  BY <1>1, <1>2
<1>4. \A k \in 0..n : here[k] \in Good
  <2> HIDE DEF Good
  <2> QED BY <1>3, Along
<1>5. n \in Good
  BY <1>1, <1>2, <1>4
<1> QED BY <1>5

\* What the answers to a command keep, and what they come to.
LEMMA AllHeardAlong ==
  ASSUME NEW M, NEW out \in Seq(M), NEW K, NEW h \in K, NEW i, NEW cmd,
         \A g \in K, m \in M : Heard(g, i, m, cmd) \in K,
         NEW L, h \in L[0],
         \A k \in 1..Len(out), g \in K :
            g \in L[k - 1] => Heard(g, i, out[k], cmd) \in L[k]
  PROVE  AllHeard(h, i, out, cmd) \in K /\ AllHeard(h, i, out, cmd) \in L[Len(out)]
<1> DEFINE n == Len(out)
           F == [k \in 1..n |-> [g \in K |-> Heard(g, i, out[k], cmd)]]
           Fold(f) == f = [k \in 0..n |-> IF k = 0 THEN h ELSE Heard(f[k - 1], i, out[k], cmd)]
           after == CHOOSE f : Fold(f)
<1>1. n \in Nat /\ \A k \in 1..n : out[k] \in M
  BY ElementOfSeq, LenProperties
<1>0. \A k \in 1..n, g \in K : g \in L[k - 1] => Heard(g, i, out[k], cmd) \in L[k]
  OBVIOUS
<1>2. AllHeard(h, i, out, cmd) = after[n]
  BY Zenon DEF AllHeard
<1>3. F \in [1..n -> [K -> K]]
  BY <1>1
<1> HIDE DEF n
<1>4. \E f : Fold(f)
  <2>1. PICK f \in [0..n -> K] : f[0] = h /\ \A k \in 1..n : f[k] = F[k][f[k - 1]]
    <3>1. n \in Nat
      BY <1>1
    <3> HIDE DEF F
    <3>2. StepsOf(F, n, h, K) # {}
      BY <3>1, <1>3, StepsEnd
    <3> QED BY <3>2 DEF StepsOf
  <2>2. ASSUME NEW k \in 1..n PROVE f[k] = Heard(f[k - 1], i, out[k], cmd)
    <3>1. f[k - 1] \in K
      BY <1>1
    <3> QED BY <2>1, <3>1
  <2>3. \A k \in 0..n : f[k] = IF k = 0 THEN h ELSE Heard(f[k - 1], i, out[k], cmd)
    BY <2>1, <2>2, <1>1
  <2> QED BY <2>3
<1>5. Fold(after)
  <2> HIDE DEF Fold
  <2> QED BY <1>4
<1> HIDE DEF after, F
<1>6. after[0] \in K /\ \A k \in 1..n : after[k - 1] \in K => after[k] \in K
  BY <1>1, <1>5
<1>7. \A k \in 0..n : after[k] \in K
  BY <1>1, <1>6, Along
<1>8. after[0] \in L[0] /\ \A k \in 1..n : after[k - 1] \in L[k - 1] => after[k] \in L[k]
  <2>1. after[0] = h /\ \A k \in 1..n : after[k] = Heard(after[k - 1], i, out[k], cmd)
    BY <1>1, <1>5
  <2>2. \A k \in 1..n : after[k - 1] \in K
    BY <1>1, <1>7
  <2> QED BY <1>0, <2>1, <2>2
<1>9. after[n] \in L[n]
  BY <1>1, <1>8, Onward
<1> QED BY <1>1, <1>2, <1>7, <1>9 DEF n

LEMMA AllHeardKeeps ==
  ASSUME NEW M, NEW out \in Seq(M), NEW K, NEW h \in K, NEW i, NEW cmd,
         \A g \in K, m \in M : Heard(g, i, m, cmd) \in K
  PROVE  AllHeard(h, i, out, cmd) \in K
<1> DEFINE L == [k \in 0..Len(out) |-> K]
<1>1. \A k \in 0..Len(out) : L[k] = K
  OBVIOUS
<1>2. Len(out) \in Nat /\ \A k \in 1..Len(out) : out[k] \in M
  BY ElementOfSeq, LenProperties
<1>3. h \in L[0] /\ \A k \in 1..Len(out), g \in K :
                       g \in L[k - 1] => Heard(g, i, out[k], cmd) \in L[k]
  <2>1. L[0] = K /\ \A k \in 1..Len(out) : L[k] = K
    BY <1>1, <1>2
  <2> QED BY <1>2, <2>1
<1> HIDE DEF L
<1> QED BY <1>3, AllHeardAlong

\* What a text keeps, and what it comes to.
LEMMA ExecutedAlong ==
  ASSUME NEW M, NEW K, NEW a \in K, NEW cmd, cmd.script \in Seq(M), NEW refused,
         \A b \in K, x \in M : Stepped(b, x, cmd.guarded, refused) \in K,
         NEW L, a \in L[0],
         \A k \in 1..Len(cmd.script), b \in K :
            b \in L[k - 1] => Stepped(b, cmd.script[k], cmd.guarded, refused) \in L[k]
  PROVE  /\ Executed(a, cmd, refused) \in K
         /\ Executed(a, cmd, refused) \in L[Len(cmd.script)]
<1> DEFINE out == cmd.script
           n == Len(out)
           F == [k \in 1..n |-> [b \in K |-> Stepped(b, out[k], cmd.guarded, refused)]]
           Fold(f) == f = [k \in 0..n |-> IF k = 0 THEN a
                                          ELSE Stepped(f[k - 1], out[k], cmd.guarded, refused)]
           after == CHOOSE f : Fold(f)
<1>1. n \in Nat /\ \A k \in 1..n : out[k] \in M
  BY ElementOfSeq, LenProperties
<1>0. \A k \in 1..n, b \in K :
        b \in L[k - 1] => Stepped(b, out[k], cmd.guarded, refused) \in L[k]
  OBVIOUS
<1>2. Executed(a, cmd, refused) = after[n]
  BY Zenon DEF Executed
<1>3. F \in [1..n -> [K -> K]]
  BY <1>1
<1> HIDE DEF n, out
<1>4. \E f : Fold(f)
  <2>1. PICK f \in [0..n -> K] : f[0] = a /\ \A k \in 1..n : f[k] = F[k][f[k - 1]]
    <3>1. n \in Nat
      BY <1>1
    <3> HIDE DEF F
    <3>2. StepsOf(F, n, a, K) # {}
      BY <3>1, <1>3, StepsEnd
    <3> QED BY <3>2 DEF StepsOf
  <2>2. ASSUME NEW k \in 1..n PROVE f[k] = Stepped(f[k - 1], out[k], cmd.guarded, refused)
    <3>1. f[k - 1] \in K
      BY <1>1
    <3> QED BY <2>1, <3>1
  <2>3. \A k \in 0..n : f[k] = IF k = 0 THEN a ELSE Stepped(f[k - 1], out[k], cmd.guarded, refused)
    BY <2>1, <2>2, <1>1
  <2> QED BY <2>3
<1>5. Fold(after)
  <2> HIDE DEF Fold
  <2> QED BY <1>4
<1> HIDE DEF after, F
<1>6. after[0] \in K /\ \A k \in 1..n : after[k - 1] \in K => after[k] \in K
  BY <1>1, <1>5
<1>7. \A k \in 0..n : after[k] \in K
  BY <1>1, <1>6, Along
<1>8. after[0] \in L[0] /\ \A k \in 1..n : after[k - 1] \in L[k - 1] => after[k] \in L[k]
  <2>1. after[0] = a /\ \A k \in 1..n :
                          after[k] = Stepped(after[k - 1], out[k], cmd.guarded, refused)
    BY <1>1, <1>5
  <2>2. \A k \in 1..n : after[k - 1] \in K
    BY <1>1, <1>7
  <2> QED BY <1>0, <2>1, <2>2
<1>9. after[n] \in L[n]
  BY <1>1, <1>8, Onward
<1> QED BY <1>1, <1>2, <1>7, <1>9 DEF n, out

LEMMA ExecutedKeeps ==
  ASSUME NEW M, NEW K, NEW a \in K, NEW cmd, cmd.script \in Seq(M), NEW refused,
         \A b \in K, x \in M : Stepped(b, x, cmd.guarded, refused) \in K
  PROVE  Executed(a, cmd, refused) \in K
<1> DEFINE n == Len(cmd.script)
           L == [k \in 0..n |-> K]
<1>1. \A k \in 0..n : L[k] = K
  OBVIOUS
<1>2. n \in Nat /\ \A k \in 1..n : cmd.script[k] \in M
  BY ElementOfSeq, LenProperties
<1> HIDE DEF L
<1>3. a \in L[0] /\ \A k \in 1..n, b \in K :
                       b \in L[k - 1] => Stepped(b, cmd.script[k], cmd.guarded, refused) \in L[k]
  <2>1. L[0] = K /\ \A k \in 1..n : L[k] = K
    BY <1>1, <1>2
  <2> QED BY <1>2, <2>1
<1> QED BY <1>3, ExecutedAlong

-----------------------------------------------------------------------------
(* Texts.                                                                  *)

\* The item that decides where a text goes is one of it, or a change.
LEMMA IntentType ==
  ASSUME NEW script \in Seq(Items)
  PROVE  /\ Intent(script) \in Items
         /\ Intent(script).do = "connect" => Intent(script).to \in Specs \ {Spec0}
<1>1. Intents(script) \subseteq Nat /\ Intents(script) \subseteq 1..Len(script)
  BY LenProperties DEF Intents
<1>2. Change \in Items
  BY DEF Items
<1>3. Intent(script) \in Items
  BY <1>1, <1>2, LeastNatural, ElementOfSeq DEF Intent
<1>4. \A x \in Items : x.do = "connect" => x.to \in Specs \ {Spec0}
  BY DEF Items, Change, Disconnect, Connect
<1> QED BY <1>3, <1>4

\* A text without its CONNECT is a text.
LEMMA RemoveFirstType ==
  ASSUME NEW X, NEW s \in Seq(X), NEW e
  PROVE  RemoveFirst(s, e) \in Seq(X)
<1> DEFINE k == SelectInSeq(s, LAMBDA v : v = e)
           I == { i \in 1..Len(s) : s[i] = e }
<1>1. CASE I = {}
  BY <1>1 DEF RemoveFirst
<1>2. CASE I # {}
  <2>1. k = Min(I) /\ I \subseteq Nat
    BY <1>2 DEF SelectInSeq
  <2>2. k \in I
    <3> HIDE DEF I, k
    <3> QED BY <1>2, <2>1, LeastNatural
  <2>3. k \in 1..Len(s) /\ Len(s) \in Nat
    BY <2>2, LenProperties
  <2> HIDE DEF k
  <2>4. SubSeq(s, 1, k - 1) \in Seq(X)
    BY <2>3, SubSeqProperties, ElementOfSeq
  <2>5. SubSeq(s, k + 1, Len(s)) \in Seq(X)
    BY <2>3, SubSeqProperties, ElementOfSeq
  <2>6. RemoveAt(s, k) \in Seq(X)
    BY <2>4, <2>5, ConcatProperties DEF RemoveAt
  <2> QED BY <1>2, <2>6 DEF RemoveFirst, k
<1> QED BY <1>1, <1>2

-----------------------------------------------------------------------------
(* One session changes.                                                    *)

\* What a host keeps of another before it, but for the tabs X: its tabs, the
\* sessions they had, and which of them are theirs.
From(h, g, X) ==
  /\ g.tabs = h.tabs /\ g.active = h.active /\ h.made <= g.made
  /\ \A i \in Ids : i <= h.made /\ g.sess[i].there =>
       /\ h.sess[i].there /\ g.sess[i].owner = h.sess[i].owner
       /\ h.sess[i].owner = None => g.sess[i].spec.srv = h.sess[i].spec.srv
  /\ \A t \in h.tabs \ X : h.bind[t] # 0 => g.bind[t] = h.bind[t]

\* Sound: whole, and if it was neat and its tabs had sessions, still so.
Sound(h, g) == Whole(g) /\ (Neat(h) => Neat(g)) /\ (Tied(h) => Tied(g))

LEMMA MadeNatural ==
  ASSUME NEW h, Whole(h)
  PROVE  h.made \in Nat
BY TabsAssumption DEF Whole, Hosts, Ids

LEMMA FromTrans ==
  ASSUME NEW h, NEW g, NEW f, NEW X, Whole(h), Whole(g), Whole(f), From(h, g, X), From(g, f, X)
  PROVE  From(h, f, X)
<1>1. h.made \in Nat /\ g.made \in Nat /\ f.made \in Nat
  BY MadeNatural
<1>2. h.made <= f.made
  BY <1>1 DEF From
<1>3. \A i \in Ids : i <= h.made => i <= g.made
  BY <1>1 DEF From, Ids
<1>4. \A i \in Ids : i <= h.made /\ f.sess[i].there =>
         /\ h.sess[i].there /\ f.sess[i].owner = h.sess[i].owner
         /\ h.sess[i].owner = None => f.sess[i].spec.srv = h.sess[i].spec.srv
  BY <1>3 DEF From
<1>5. \A t \in h.tabs \ X : h.bind[t] # 0 => f.bind[t] = h.bind[t]
  BY DEF From
<1> QED BY <1>2, <1>4, <1>5 DEF From

LEMMA FromLess ==
  ASSUME NEW h, NEW g, NEW X, From(h, g, {})
  PROVE  From(h, g, X)
BY DEF From

LEMMA FromSelf ==
  ASSUME NEW h, NEW X, Whole(h)
  PROVE  From(h, h, X) /\ Sound(h, h)
<1>1. h.made <= h.made
  BY MadeNatural
<1> QED BY <1>1 DEF From, Sound

LEMMA SoundTrans ==
  ASSUME NEW h, NEW g, NEW f, Sound(h, g), Sound(g, f)
  PROVE  Sound(h, f)
BY DEF Sound

\* Session i changes, and nothing else.
OnlyOne(h, g, i) ==
  /\ g.tabs = h.tabs /\ g.active = h.active /\ g.bind = h.bind /\ g.default = h.default
  /\ g.made = h.made
  /\ \A j \in Ids \ {i} : g.sess[j] = h.sess[j] /\ g.wk[j] = h.wk[j]

LEMMA OneChanges ==
  ASSUME NEW h, Whole(h), NEW g \in Hosts, NEW i \in Ids, OnlyOne(h, g, i),
         h.sess[i].there, g.sess[i].there, g.sess[i].owner = h.sess[i].owner,
         g.sess[i].closing => g.sess[i].owner # None, g.sess[i].idle => g.sess[i].spec # Spec0
  PROVE  /\ Whole(g)
         /\ h.sess[i].closing = g.sess[i].closing => Sound(h, g)
         /\ h.sess[i].owner # None \/ g.sess[i].spec.srv = h.sess[i].spec.srv => From(h, g, {})
<1>0. \A j \in Ids : g.sess[j].there \in BOOLEAN /\ h.sess[j].there \in BOOLEAN
  BY DEF Whole, Hosts, Session
<1>1. \A j \in Ids : g.sess[j].there = h.sess[j].there /\ g.sess[j].owner = h.sess[j].owner
  BY <1>0 DEF OnlyOne
<1>2. \A j \in Ids : Common(g, j) <=> Common(h, j)
  BY <1>1 DEF Common
<1>3. h \in Hosts /\ h.default \in Ids /\ h.bind \in [Tabs -> 0..MaxSessions] /\ h.tabs \subseteq Tabs
  BY DEF Whole, Hosts
<1>4. Whole(g)
  <2>1. Common(g, g.default) /\ g.active \in g.tabs
    BY <1>2, <1>3 DEF OnlyOne, Whole
  <2>2. \A t \in g.tabs : g.bind[t] # 0 => Common(g, g.bind[t])
    <3>1. \A t \in h.tabs : h.bind[t] # 0 => h.bind[t] \in Ids
      BY <1>3, TabsAssumption DEF Ids
    <3> QED BY <1>2, <3>1 DEF OnlyOne, Whole
  <2>3. \A t \in Tabs : g.bind[t] <= g.made
    BY DEF OnlyOne, Whole
  <2>4. ASSUME NEW j \in Ids
        PROVE  /\ g.sess[j].there => j <= g.made
               /\ g.sess[j].closing => g.sess[j].owner # None
               /\ g.sess[j].idle => g.sess[j].spec # Spec0
               /\ g.wk[j].cmds # <<>> => g.sess[j].there
    BY DEF OnlyOne, Whole
  <2> QED BY <2>1, <2>2, <2>3, <2>4 DEF Whole
<1>5. ASSUME h.sess[i].closing = g.sess[i].closing
      PROVE  Sound(h, g)
  <2>1. \A j \in Ids : g.sess[j].closing = h.sess[j].closing
    BY <1>5 DEF OnlyOne
  <2>2. Neat(h) => Neat(g)
    BY <1>1, <2>1 DEF Neat, OnlyOne
  <2>3. \A t \in h.tabs : Owned(g, t) = Owned(h, t)
    BY <1>1, <2>1 DEF Owned
  <2>4. Tied(h) => Tied(g)
    BY <2>3 DEF Tied, OnlyOne
  <2> QED BY <1>4, <2>2, <2>4 DEF Sound
<1>6. ASSUME h.sess[i].owner # None \/ g.sess[i].spec.srv = h.sess[i].spec.srv
      PROVE  From(h, g, {})
  <2>1. h.made <= g.made
    BY <1>3, TabsAssumption DEF OnlyOne, Hosts, Ids
  <2> QED BY <1>1, <1>6, <2>1 DEF From, OnlyOne
<1> QED BY <1>4, <1>5, <1>6

-----------------------------------------------------------------------------
(* The parts of an operation.                                              *)

\* What a session may become.
LEMMA SessionTypes ==
  ASSUME NEW h \in Hosts, NEW i \in Ids
  PROVE  /\ h.sess[i] \in Session /\ h.sess[i].there \in BOOLEAN
         /\ h.sess[i].owner \in Tabs \cup {None} /\ h.sess[i].spec \in Specs
         /\ h.sess[i].connected \in BOOLEAN /\ h.sess[i].desc \in Servers \cup {None}
         /\ h.sess[i].idle \in BOOLEAN /\ h.sess[i].dropped \in BOOLEAN
         /\ h.sess[i].closing \in BOOLEAN /\ h.sess[i].open \in SUBSET Tabs
         /\ h.wk[i] \in Workers /\ h.wk[i].link \in Servers \cup {None}
         /\ h.wk[i].cmds \in Seq(Commands)
BY DEF Hosts, Session, Workers

LEMMA NewTypes == NewSession \in Session /\ NewWorker \in Workers
<1>1. Spec0 \in Specs /\ NewSession \in Session
  BY DEF Specs, NewSession, Session
<1>2. NewWorker \in Workers
  BY EmptySeq DEF NewWorker, Workers
<1> QED BY <1>1, <1>2

LEMMA SendsSound ==
  ASSUME NEW h, Whole(h), NEW i \in Ids, h.sess[i].there, NEW cmd \in Commands
  PROVE  /\ Sound(h, Sends(h, i, cmd)) /\ From(h, Sends(h, i, cmd), {})
         /\ Sends(h, i, cmd).sess = h.sess /\ Sends(h, i, cmd).bind = h.bind
<1> DEFINE g == Sends(h, i, cmd)
<1>1. h \in Hosts
  BY DEF Whole
<1>2. Append(h.wk[i].cmds, cmd) \in Seq(Commands)
  BY <1>1, SessionTypes, AppendProperties
<1>3. g \in Hosts /\ OnlyOne(h, g, i) /\ g.sess = h.sess /\ g.bind = h.bind
  BY <1>1, <1>2 DEF Sends, Hosts, Workers, OnlyOne
<1> HIDE DEF g
<1>4. /\ g.sess[i].there /\ g.sess[i].owner = h.sess[i].owner
      /\ g.sess[i].closing => g.sess[i].owner # None
      /\ g.sess[i].idle => g.sess[i].spec # Spec0
  BY <1>3 DEF Whole
<1> QED BY <1>3, <1>4, OneChanges DEF g

LEMMA AimedSound ==
  ASSUME NEW h, Whole(h), NEW i \in Ids, h.sess[i].there, NEW spec \in Specs
  PROVE  /\ Sound(h, Aimed(h, i, spec)) /\ OnlyOne(h, Aimed(h, i, spec), i)
         /\ Aimed(h, i, spec) \in Hosts
         /\ Aimed(h, i, spec).sess[i].there
         /\ Aimed(h, i, spec).sess[i].owner = h.sess[i].owner
         /\ Aimed(h, i, spec).sess[i].closing = h.sess[i].closing
         /\ Aimed(h, i, spec).wk = h.wk
         /\ h.sess[i].owner # None \/ spec.srv = h.sess[i].spec.srv => From(h, Aimed(h, i, spec), {})
<1> DEFINE g == Aimed(h, i, spec)
<1>1. h \in Hosts
  BY DEF Whole
<1>2. /\ g.sess = [h.sess EXCEPT ![i] = [@ EXCEPT !.spec = spec, !.idle = FALSE, !.dropped = FALSE]]
      /\ g.wk = h.wk /\ OnlyOne(h, g, i)
      /\ g = [h EXCEPT !.sess = g.sess]
  BY <1>1 DEF Aimed, Hosts, OnlyOne
<1>3. [h.sess[i] EXCEPT !.spec = spec, !.idle = FALSE, !.dropped = FALSE] \in Session
  <2>1. h.sess[i] \in Session
    BY <1>1, SessionTypes
  <2> QED BY <2>1 DEF Session
<1> HIDE DEF g
<1>4. g \in Hosts
  BY <1>1, <1>2, <1>3 DEF Hosts
<1>5. /\ g.sess[i].there /\ g.sess[i].owner = h.sess[i].owner /\ g.sess[i].closing = h.sess[i].closing
      /\ g.sess[i].spec = spec /\ ~g.sess[i].idle
  BY <1>1, <1>2, SessionTypes DEF Hosts, Session
<1>6. g.sess[i].closing => g.sess[i].owner # None
  BY <1>5 DEF Whole
<1>7. /\ h.sess[i].closing = g.sess[i].closing => Sound(h, g)
      /\ h.sess[i].owner # None \/ g.sess[i].spec.srv = h.sess[i].spec.srv => From(h, g, {})
  <2>1. OnlyOne(h, g, i)
    BY <1>2
  <2>2. g.sess[i].there /\ g.sess[i].owner = h.sess[i].owner /\ (g.sess[i].idle => g.sess[i].spec # Spec0)
    BY <1>5
  <2> QED BY <1>4, <1>6, <2>1, <2>2, OneChanges
<1> QED BY <1>2, <1>4, <1>5, <1>7 DEF g

\* A new session is one more, which nobody is bound to yet.
LEMMA MadeSound ==
  ASSUME NEW h, Whole(h), Room(h), NEW owner \in h.tabs \cup {None}
  PROVE  /\ Sound(h, Made(h, owner)) /\ From(h, Made(h, owner), {})
         /\ Made(h, owner).made = h.made + 1 /\ h.made + 1 \in Ids
         /\ Made(h, owner).sess[h.made + 1]
              = [NewSession EXCEPT !.there = TRUE, !.owner = owner]
         /\ \A i \in Ids : i # h.made + 1 => Made(h, owner).sess[i] = h.sess[i]
         /\ Made(h, owner).wk = h.wk /\ Made(h, owner).bind = h.bind
<1> DEFINE g == Made(h, owner)
           n == h.made + 1
           s == [NewSession EXCEPT !.there = TRUE, !.owner = owner]
<1>1. h \in Hosts /\ h.tabs \subseteq Tabs
  BY DEF Whole, Hosts
<1>2. n \in Ids /\ h.made \in Nat /\ MaxSessions \in Nat /\ ~(n <= h.made) /\ h.made <= n
  BY <1>1, TabsAssumption DEF Room, Hosts, Ids
<1>3. s \in Session /\ s.there /\ s.owner = owner /\ ~s.closing /\ ~s.idle
  BY <1>1, NewTypes DEF Session, NewSession
<1>4. /\ g.tabs = h.tabs /\ g.active = h.active /\ g.bind = h.bind /\ g.default = h.default
      /\ g.made = n /\ g.wk = h.wk /\ g.sess = [h.sess EXCEPT ![n] = s]
  BY <1>1, <1>2 DEF Made, Hosts
<1>5. g \in Hosts
  <2>1. g = [h EXCEPT !.made = n, !.sess = [h.sess EXCEPT ![n] = s]]
    BY <1>1 DEF Made, Hosts
  <2> HIDE DEF s, g
  <2>2. [h.sess EXCEPT ![n] = s] \in [Ids -> Session]
    BY <1>1, <1>3 DEF Hosts
  <2> QED BY <1>1, <1>2, <2>1, <2>2 DEF Hosts
<1>6. \A i \in Ids : i # n => g.sess[i] = h.sess[i]
  BY <1>1, <1>4 DEF Hosts
<1>7. g.sess[n] = s
  BY <1>1, <1>2, <1>4 DEF Hosts
<1> HIDE DEF g, s, n
<1>8. ~h.sess[n].there
  BY <1>2 DEF Whole
<1>9. \A i \in Ids : Common(h, i) => Common(g, i)
  BY <1>6, <1>8 DEF Common
<1>10. Whole(g)
  <2>1. Common(g, g.default) /\ g.active \in g.tabs
    BY <1>1, <1>4, <1>9 DEF Whole, Hosts
  <2>2. \A t \in g.tabs : g.bind[t] # 0 => Common(g, g.bind[t])
    <3>1. \A t \in h.tabs : h.bind[t] # 0 => h.bind[t] \in Ids
      BY <1>1, <1>2 DEF Hosts, Ids
    <3> QED BY <1>4, <1>9, <3>1 DEF Whole
  <2>3. \A t \in Tabs : g.bind[t] <= g.made
    <3>1. \A t \in Tabs : h.bind[t] \in Nat /\ h.bind[t] <= h.made
      BY <1>1, <1>2 DEF Whole, Hosts
    <3> QED BY <1>2, <1>4, <3>1 DEF n
  <2>4. ASSUME NEW i \in Ids
        PROVE  /\ g.sess[i].there => i <= g.made
               /\ g.sess[i].closing => g.sess[i].owner # None
               /\ g.sess[i].idle => g.sess[i].spec # Spec0
               /\ g.wk[i].cmds # <<>> => g.sess[i].there
    <3>1. CASE i = n
      BY <1>2, <1>3, <1>4, <1>7, <3>1 DEF Ids
    <3>2. CASE i # n
      <4>1. i \in Nat /\ (i <= h.made => i <= n)
        BY <1>2 DEF Ids, n
      <4> QED BY <1>4, <1>6, <3>2, <4>1 DEF Whole
    <3> QED BY <3>1, <3>2
  <2> QED BY <1>5, <2>1, <2>2, <2>3, <2>4 DEF Whole
<1>11. Neat(h) => Neat(g)
  <2>1. ASSUME Neat(h), NEW i \in Ids, g.sess[i].there, g.sess[i].owner # None
        PROVE  g.sess[i].owner \in g.tabs /\ ~g.sess[i].closing
    BY <1>3, <1>4, <1>6, <1>7, <2>1 DEF Neat
  <2> QED BY <1>4, <2>1 DEF Neat
<1>12. Tied(h) => Tied(g)
  <2>1. \A t \in h.tabs : Owned(h, t) \subseteq Owned(g, t)
    BY <1>6, <1>8 DEF Owned
  <2> QED BY <1>4, <2>1 DEF Tied
<1>13. From(h, g, {})
  BY <1>2, <1>4, <1>6 DEF From
<1> QED BY <1>2, <1>4, <1>6, <1>7, <1>10, <1>11, <1>12, <1>13 DEF Sound, g, s, n

\* Who is there, stays.
SameOwners(h, g) ==
  \A i \in Ids : /\ g.sess[i].there = h.sess[i].there /\ g.sess[i].owner = h.sess[i].owner
                 /\ g.sess[i].closing = h.sess[i].closing

Arms == Scripts \cup { RemoveFirst(x, Intent(x)) : x \in Scripts } \cup {<<>>}

LEMMA SharedIsCommon ==
  ASSUME NEW h, Whole(h), NEW i
  PROVE  i \in SharedOf(h) <=> i \in Ids /\ Common(h, i)
BY DEF SharedOf, Common, Private, Whole

\* The session of a tab.
LEMMA RouteThere ==
  ASSUME NEW h, Whole(h), NEW t \in h.tabs
  PROVE  /\ Route(h, t) \in Ids /\ h.sess[Route(h, t)].there
         /\ Owned(h, t) # {} => /\ Route(h, t) \in Owned(h, t) /\ h.sess[Route(h, t)].owner = t
                                /\ h.sess[Route(h, t)].owner # None
         /\ Owned(h, t) = {} => Common(h, Route(h, t))
         /\ Owned(h, t) = {} /\ h.bind[t] # 0 => Route(h, t) = h.bind[t]
<1>1. h.tabs \subseteq Tabs /\ h.bind \in [Tabs -> 0..MaxSessions] /\ h.default \in Ids
  BY DEF Whole, Hosts
<1>2. CASE Owned(h, t) # {}
  <2>1. Route(h, t) \in Owned(h, t)
    BY <1>2 DEF Route
  <2>2. Owned(h, t) \subseteq Ids /\ \A i \in Owned(h, t) : h.sess[i].there /\ h.sess[i].owner = t
    BY DEF Owned
  <2>3. t # None
    BY <1>1, TabsAssumption
  <2> QED BY <1>2, <2>1, <2>2, <2>3
<1>3. CASE Owned(h, t) = {}
  <2>1. h.bind[t] # 0 => h.bind[t] \in Ids /\ Common(h, h.bind[t])
    BY <1>1, TabsAssumption DEF Whole, Ids
  <2>2. Route(h, t) = IF h.bind[t] \in SharedOf(h) THEN h.bind[t] ELSE h.default
    BY <1>3 DEF Route
  <2>3. h.bind[t] # 0 => Route(h, t) = h.bind[t]
    BY <2>1, <2>2, SharedIsCommon
  <2>4. Common(h, h.default)
    BY DEF Whole
  <2>5. Route(h, t) \in Ids /\ Common(h, Route(h, t))
    BY <1>1, <2>2, <2>4, SharedIsCommon
  <2> QED BY <1>3, <2>3, <2>5 DEF Common
<1> QED BY <1>2, <1>3

LEMMA CurrentThere ==
  ASSUME NEW h, Whole(h)
  PROVE  Current(h) \in Ids /\ h.sess[Current(h)].there
<1>1. h.active \in h.tabs
  BY DEF Whole
<1> QED BY <1>1, RouteThere DEF Current

\* Reconnecting a session where it was.
LEMMA QuietlySound ==
  ASSUME NEW h, Whole(h), NEW i \in Ids, h.sess[i].there, h.sess[i].spec # Spec0,
         NEW again \in BOOLEAN
  PROVE  /\ Sound(h, Quietly(h, i, h.sess[i].spec, again))
         /\ From(h, Quietly(h, i, h.sess[i].spec, again), {})
         /\ SameOwners(h, Quietly(h, i, h.sess[i].spec, again))
<1> DEFINE spec == h.sess[i].spec
           b == Aimed(h, i, spec)
           cmd == [NoCmd EXCEPT !.op = "connect", !.for = i, !.to = spec, !.again = again]
           g == Sends(b, i, cmd)
<1>1. h \in Hosts /\ spec \in Specs
  BY SessionTypes DEF Whole
<1>2. cmd \in Commands
  BY <1>1, EmptySeq DEF NoCmd, Commands
<1>3. /\ Sound(h, b) /\ OnlyOne(h, b, i) /\ b.sess[i].there
      /\ b.sess[i].owner = h.sess[i].owner /\ b.sess[i].closing = h.sess[i].closing
      /\ From(h, b, {}) /\ b \in Hosts
  BY <1>1, AimedSound
<1> HIDE DEF b, cmd
<1>4. Whole(b)
  BY <1>3 DEF Sound
<1>5. Sound(b, g) /\ From(b, g, {}) /\ g.sess = b.sess
  BY <1>2, <1>3, <1>4, SendsSound
<1>6. b.sess[i].there = h.sess[i].there
  BY <1>1, <1>3, SessionTypes
<1>7. SameOwners(h, g)
  BY <1>3, <1>5, <1>6 DEF SameOwners, OnlyOne
<1>8. Quietly(h, i, spec, again) = g
  BY DEF Quietly, b, cmd
<1>9. Whole(g)
  BY <1>5 DEF Sound
<1> HIDE DEF g
<1>10. Sound(h, g) /\ From(h, g, {})
  BY <1>3, <1>4, <1>5, <1>9, SoundTrans, FromTrans
<1> QED BY <1>7, <1>8, <1>10

LEMMA WokenSound ==
  ASSUME NEW h, Whole(h), NEW i \in Ids, h.sess[i].there
  PROVE  Sound(h, Woken(h, i)) /\ From(h, Woken(h, i), {}) /\ SameOwners(h, Woken(h, i))
<1>1. CASE h.sess[i].idle
  <2>1. h.sess[i].spec # Spec0
    BY <1>1 DEF Whole
  <2> QED BY <1>1, <2>1, QuietlySound DEF Woken
<1>2. CASE ~h.sess[i].idle
  BY <1>2, FromSelf DEF Woken, SameOwners
<1> QED BY <1>1, <1>2

\* A change that was not confirmed yet.
LEMMA ArmedSound ==
  ASSUME NEW h, Whole(h), NEW i \in Ids, h.sess[i].there, NEW a \in Arms
  PROVE  /\ Sound(h, [h EXCEPT !.sess[i].armed = a]) /\ From(h, [h EXCEPT !.sess[i].armed = a], {})
         /\ SameOwners(h, [h EXCEPT !.sess[i].armed = a])
<1> DEFINE g == [h EXCEPT !.sess[i].armed = a]
<1>1. h \in Hosts /\ h.sess[i] \in Session
  BY SessionTypes DEF Whole
<1>2. [h.sess[i] EXCEPT !.armed = a] \in Session
  BY <1>1 DEF Session, Arms
<1>3. /\ g.sess = [h.sess EXCEPT ![i] = [@ EXCEPT !.armed = a]]
      /\ g.wk = h.wk /\ OnlyOne(h, g, i)
      /\ g = [h EXCEPT !.sess = g.sess]
  BY <1>1 DEF Hosts, OnlyOne
<1> HIDE DEF g
<1>4. g \in Hosts
  BY <1>1, <1>2, <1>3 DEF Hosts
<1>5. /\ g.sess[i].there = h.sess[i].there /\ g.sess[i].owner = h.sess[i].owner
      /\ g.sess[i].closing = h.sess[i].closing
      /\ g.sess[i].spec = h.sess[i].spec /\ g.sess[i].idle = h.sess[i].idle
  <2>1. g.sess[i] = [h.sess[i] EXCEPT !.armed = a]
    BY <1>1, <1>3 DEF Hosts
  <2> QED BY <1>1, <2>1 DEF Session
<1>6. /\ g.sess[i].closing => g.sess[i].owner # None
      /\ g.sess[i].idle => g.sess[i].spec # Spec0
  BY <1>5 DEF Whole
<1>7. OnlyOne(h, g, i) /\ g.sess[i].there
  BY <1>3, <1>5
<1>8. Sound(h, g) /\ From(h, g, {})
  BY <1>4, <1>5, <1>6, <1>7, OneChanges
<1>9. SameOwners(h, g)
  BY <1>5, <1>7 DEF SameOwners, OnlyOne
<1> QED BY <1>8, <1>9 DEF g

LEMMA SubmittedSound ==
  ASSUME NEW h, Whole(h), NEW i \in Ids, h.sess[i].there,
         NEW text \in Seq(Items), NEW for \in Ids, NEW shown \in Servers \cup {None},
         NEW guarded \in BOOLEAN
  PROVE  /\ Sound(h, Submitted(h, i, text, for, shown, guarded))
         /\ From(h, Submitted(h, i, text, for, shown, guarded), {})
<1> DEFINE a == IF guarded THEN <<>> ELSE h.sess[i].armed
           b == [h EXCEPT !.sess[i].armed = a]
           cmd == [NoCmd EXCEPT !.op = "run", !.for = for, !.script = text, !.tab = h.active,
                                !.shown = shown, !.guarded = guarded]
           g == Sends(b, i, cmd)
<1>1. h \in Hosts /\ h.sess[i] \in Session /\ h.active \in Tabs
  BY SessionTypes DEF Whole, Hosts
<1>2. a \in Arms
  BY <1>1 DEF Session, Arms
<1>3. cmd \in Commands
  BY <1>1 DEF NoCmd, Commands, Specs
<1> HIDE DEF a, cmd
<1>4. Sound(h, b) /\ From(h, b, {}) /\ SameOwners(h, b)
  BY <1>2, ArmedSound
<1>5. b = [h EXCEPT !.sess[i].armed = IF guarded THEN <<>> ELSE @]
  BY <1>1 DEF a, Hosts, Session
<1>6. Submitted(h, i, text, for, shown, guarded) = g
  BY <1>5 DEF Submitted, cmd
<1> HIDE DEF b
<1>7. Whole(b) /\ b.sess[i].there
  BY <1>4 DEF Sound, SameOwners
<1>8. Sound(b, g) /\ From(b, g, {})
  BY <1>3, <1>7, SendsSound
<1>9. Whole(g)
  BY <1>8 DEF Sound
<1> HIDE DEF g
<1> QED BY <1>4, <1>6, <1>7, <1>8, <1>9, SoundTrans, FromTrans

\* Session i becomes s, its worker w.
Alter(h, i, s, w) ==
  [h EXCEPT !.sess = [h.sess EXCEPT ![i] = s], !.wk = [h.wk EXCEPT ![i] = w]]

LEMMA AlterSound ==
  ASSUME NEW h, Whole(h), NEW i \in Ids, h.sess[i].there, NEW s \in Session, NEW w \in Workers,
         s.there, s.owner = h.sess[i].owner, s.spec.srv = h.sess[i].spec.srv,
         s.idle => s.spec # Spec0, s.closing => s.owner # None
  PROVE  /\ Alter(h, i, s, w) \in Hosts /\ Whole(Alter(h, i, s, w))
         /\ OnlyOne(h, Alter(h, i, s, w), i)
         /\ Alter(h, i, s, w).sess[i] = s
         /\ From(h, Alter(h, i, s, w), {})
         /\ s.closing = h.sess[i].closing =>
              Sound(h, Alter(h, i, s, w)) /\ SameOwners(h, Alter(h, i, s, w))
<1> DEFINE g == Alter(h, i, s, w)
<1>1. h \in Hosts
  BY DEF Whole
<1>2. g \in Hosts
  <2>1. [h.sess EXCEPT ![i] = s] \in [Ids -> Session] /\ [h.wk EXCEPT ![i] = w] \in [Ids -> Workers]
    BY <1>1 DEF Hosts
  <2> QED BY <1>1, <2>1 DEF Alter, Hosts
<1>3. OnlyOne(h, g, i) /\ g.sess[i] = s
  BY <1>1 DEF Alter, OnlyOne, Hosts
<1> HIDE DEF g
<1>4. s.there = h.sess[i].there
  BY <1>1, SessionTypes DEF Session
<1>5. Whole(g) /\ (h.sess[i].closing = g.sess[i].closing => Sound(h, g)) /\ From(h, g, {})
  BY <1>2, <1>3, OneChanges
<1>6. s.closing = h.sess[i].closing => SameOwners(h, g)
  BY <1>3, <1>4 DEF SameOwners, OnlyOne
<1> QED BY <1>2, <1>3, <1>5, <1>6 DEF g

\* A tab leaves its session and stays unconnected.
LEMMA LeftKeepSound ==
  ASSUME NEW h, Whole(h), NEW i \in Ids, h.sess[i].there
  PROVE  /\ Sound(h, Left(h, i, TRUE)) /\ From(h, Left(h, i, TRUE), {})
<1> DEFINE s == [h.sess[i] EXCEPT !.connected = FALSE, !.dropped = TRUE, !.idle = FALSE, !.open = {}]
<1>1. h \in Hosts /\ h.sess[i] \in Session /\ NewWorker \in Workers
  BY SessionTypes, NewTypes DEF Whole
<1>2. /\ s \in Session /\ s.there /\ s.owner = h.sess[i].owner /\ s.spec = h.sess[i].spec
      /\ ~s.idle /\ s.closing = h.sess[i].closing
  BY <1>1 DEF Session
<1>3. s.closing => s.owner # None
  BY <1>2 DEF Whole
<1>4. Left(h, i, TRUE) = Alter(h, i, s, NewWorker)
  BY <1>1, ZenonT(60) DEF Left, Alter, Hosts
<1> HIDE DEF s
<1>5. Sound(h, Alter(h, i, s, NewWorker)) /\ From(h, Alter(h, i, s, NewWorker), {})
  BY <1>1, <1>2, <1>3, AlterSound
<1> QED BY <1>4, <1>5

\* A session of a tab is given up: it is reaped next.
LEMMA LeftSound ==
  ASSUME NEW h, Whole(h), NEW i \in Ids, h.sess[i].there, h.sess[i].owner # None
  PROVE  /\ Whole(Left(h, i, FALSE)) /\ From(h, Left(h, i, FALSE), {})
         /\ OnlyOne(h, Left(h, i, FALSE), i)
         /\ Left(h, i, FALSE).sess[i].owner = h.sess[i].owner
<1> DEFINE s == [h.sess[i] EXCEPT !.closing = TRUE]
<1>1. h \in Hosts /\ h.sess[i] \in Session /\ h.wk[i] \in Workers
  BY SessionTypes DEF Whole
<1>2. /\ s \in Session /\ s.there /\ s.owner = h.sess[i].owner /\ s.spec = h.sess[i].spec
      /\ s.idle = h.sess[i].idle
  BY <1>1 DEF Session
<1>3. s.idle => s.spec # Spec0
  BY <1>2 DEF Whole
<1>4. Left(h, i, FALSE) = Alter(h, i, s, h.wk[i])
  BY <1>1 DEF Left, Alter, Hosts
<1> DEFINE g == Alter(h, i, s, h.wk[i])
<1> HIDE DEF s
<1>5. Whole(g) /\ From(h, g, {}) /\ OnlyOne(h, g, i) /\ g.sess[i] = s
  <2>1. s.spec.srv = h.sess[i].spec.srv /\ (s.closing => s.owner # None)
    BY <1>2
  <2> QED BY <1>1, <1>2, <1>3, <2>1, AlterSound
<1> HIDE DEF g
<1>6. Left(h, i, FALSE) = g
  BY <1>4 DEF g
<1> QED BY <1>2, <1>5, <1>6

\* A shared session is disconnected.
LEMMA DisconnectedSound ==
  ASSUME NEW h, Whole(h), NEW i \in Ids, h.sess[i].there
  PROVE  LET g == [h EXCEPT !.sess[i].connected = FALSE, !.sess[i].dropped = TRUE,
                            !.sess[i].idle = FALSE, !.wk[i] = NewWorker]
         IN Sound(h, g) /\ From(h, g, {})
<1> DEFINE s == [h.sess[i] EXCEPT !.connected = FALSE, !.dropped = TRUE, !.idle = FALSE]
           g == [h EXCEPT !.sess[i].connected = FALSE, !.sess[i].dropped = TRUE,
                          !.sess[i].idle = FALSE, !.wk[i] = NewWorker]
<1>1. h \in Hosts /\ h.sess[i] \in Session /\ NewWorker \in Workers
  BY SessionTypes, NewTypes DEF Whole
<1>2. /\ s \in Session /\ s.there /\ s.owner = h.sess[i].owner /\ s.spec = h.sess[i].spec
      /\ ~s.idle /\ s.closing = h.sess[i].closing
  BY <1>1 DEF Session
<1>3. s.closing => s.owner # None
  BY <1>2 DEF Whole
<1>4. g = Alter(h, i, s, NewWorker)
  BY <1>1 DEF Alter, Hosts
<1> HIDE DEF s, g
<1>5. Sound(h, g) /\ From(h, g, {})
  BY <1>1, <1>2, <1>3, <1>4, AlterSound
<1> QED BY <1>5 DEF g

\* A session is closed for idleness.
LEMMA IdleSound ==
  ASSUME NEW h, Whole(h), NEW i \in Ids, h.sess[i].there, h.sess[i].spec # Spec0
  PROVE  LET g == [h EXCEPT !.sess[i].connected = FALSE, !.sess[i].idle = TRUE, !.wk[i] = NewWorker]
         IN Sound(h, g) /\ From(h, g, {})
<1> DEFINE s == [h.sess[i] EXCEPT !.connected = FALSE, !.idle = TRUE]
           g == [h EXCEPT !.sess[i].connected = FALSE, !.sess[i].idle = TRUE, !.wk[i] = NewWorker]
<1>1. h \in Hosts /\ h.sess[i] \in Session /\ NewWorker \in Workers
  BY SessionTypes, NewTypes DEF Whole
<1>2. /\ s \in Session /\ s.there /\ s.owner = h.sess[i].owner /\ s.spec = h.sess[i].spec
      /\ s.closing = h.sess[i].closing
  BY <1>1 DEF Session
<1>3. s.closing => s.owner # None
  BY <1>2 DEF Whole
<1>4. g = Alter(h, i, s, NewWorker)
  BY <1>1 DEF Alter, Hosts
<1> HIDE DEF s, g
<1>5. Sound(h, g) /\ From(h, g, {})
  BY <1>1, <1>2, <1>3, <1>4, AlterSound
<1> QED BY <1>5 DEF g

\* Another active shared connection.
LEMMA DefaultSound ==
  ASSUME NEW h, Whole(h), NEW i \in Ids, Common(h, i)
  PROVE  /\ Sound(h, [h EXCEPT !.default = i]) /\ From(h, [h EXCEPT !.default = i], {})
         /\ [h EXCEPT !.default = i].sess = h.sess /\ [h EXCEPT !.default = i].tabs = h.tabs
<1> DEFINE g == [h EXCEPT !.default = i]
<1>1. h \in Hosts
  BY DEF Whole
<1>2. /\ g \in Hosts /\ g.tabs = h.tabs /\ g.active = h.active /\ g.bind = h.bind
      /\ g.default = i /\ g.made = h.made /\ g.sess = h.sess /\ g.wk = h.wk
  BY <1>1 DEF Hosts
<1> HIDE DEF g
<1>3. \A j : Common(g, j) <=> Common(h, j)
  BY <1>2 DEF Common
<1>4. Whole(g)
  BY <1>2, <1>3 DEF Whole
<1>5. \A t : Owned(g, t) = Owned(h, t)
  BY <1>2 DEF Owned
<1>6. From(h, g, {})
  BY <1>1, <1>2, TabsAssumption DEF From, Hosts, Ids
<1> QED BY <1>2, <1>4, <1>5, <1>6 DEF Sound, Neat, Tied, g

\* A tab is bound to a shared session.
LEMMA BoundSound ==
  ASSUME NEW h, Whole(h), NEW i \in Ids, Common(h, i), NEW t \in h.tabs
  PROVE  /\ Sound(h, [h EXCEPT !.bind[t] = i]) /\ From(h, [h EXCEPT !.bind[t] = i], {t})
         /\ [h EXCEPT !.bind[t] = i].sess = h.sess /\ [h EXCEPT !.bind[t] = i].tabs = h.tabs
<1> DEFINE g == [h EXCEPT !.bind[t] = i]
<1>1. h \in Hosts /\ t \in Tabs /\ i \in 0..MaxSessions /\ i \in Nat /\ i # 0
  BY TabsAssumption DEF Whole, Hosts, Ids
<1>2. /\ g \in Hosts /\ g.tabs = h.tabs /\ g.active = h.active
      /\ g.default = h.default /\ g.made = h.made /\ g.sess = h.sess /\ g.wk = h.wk
      /\ g.bind[t] = i /\ \A u \in Tabs \ {t} : g.bind[u] = h.bind[u]
  BY <1>1 DEF Hosts
<1> HIDE DEF g
<1>3. \A j : Common(g, j) <=> Common(h, j)
  BY <1>2 DEF Common
<1>4. h.tabs \subseteq Tabs
  BY <1>1 DEF Hosts
<1>5. i <= h.made
  BY DEF Whole, Common
<1>6. \A u \in Tabs : g.bind[u] <= g.made
  BY <1>2, <1>5 DEF Whole
<1>7. \A u \in g.tabs : g.bind[u] # 0 => Common(g, g.bind[u])
  BY <1>2, <1>3, <1>4 DEF Whole
<1>8. Whole(g)
  BY <1>2, <1>3, <1>6, <1>7 DEF Whole
<1>9. \A u : Owned(g, u) = Owned(h, u)
  BY <1>2 DEF Owned
<1>10. Neat(h) => Neat(g)
  BY <1>2, <1>4 DEF Neat
<1>11. Tied(h) => Tied(g)
  BY <1>1, <1>2, <1>4, <1>9 DEF Tied
<1>12. From(h, g, {t})
  BY <1>1, <1>2, <1>4, TabsAssumption DEF From, Hosts, Ids
<1> QED BY <1>2, <1>8, <1>10, <1>11, <1>12 DEF Sound, g

-----------------------------------------------------------------------------
(* Reaping sessions and binding tabs.                                      *)

\* The sessions reaped, and the bindings after it.
Bindings(h) == [t \in Tabs |-> IF t \in h.tabs THEN h.bind[t] ELSE 0]
Gone(h) == { i \in Ids : /\ h.sess[i].there
                         /\ IF h.sess[i].owner # None THEN Ended(h, i) ELSE Unused(h, i) }

LEMMA ReapedIs ==
  ASSUME NEW h, Whole(h)
  PROVE  /\ Reaped(h).tabs = h.tabs /\ Reaped(h).active = h.active /\ Reaped(h).made = h.made
         /\ Reaped(h).default = h.default /\ Reaped(h).bind = Bindings(h)
         /\ Reaped(h).sess = [i \in Ids |-> IF i \in Gone(h) THEN NewSession ELSE h.sess[i]]
         /\ Reaped(h).wk = [i \in Ids |-> IF i \in Gone(h) THEN NewWorker ELSE h.wk[i]]
         /\ Reaped(h) \in Hosts
<1> DEFINE b == [h EXCEPT !.bind = [t \in Tabs |-> IF t \in h.tabs THEN @[t] ELSE 0]]
           gone == { i \in Ids : /\ b.sess[i].there
                                 /\ IF Private(b, i) THEN Ended(b, i) ELSE Unused(b, i) }
           g == [b EXCEPT !.sess = [i \in Ids |-> IF i \in gone THEN NewSession ELSE @[i]],
                          !.wk   = [i \in Ids |-> IF i \in gone THEN NewWorker ELSE @[i]]]
<1>1. h \in Hosts
  BY DEF Whole
<1>2. /\ b.tabs = h.tabs /\ b.active = h.active /\ b.made = h.made /\ b.default = h.default
      /\ b.sess = h.sess /\ b.wk = h.wk /\ b.bind = Bindings(h) /\ b \in Hosts
  <2>1. h.tabs \subseteq Tabs /\ Bindings(h) \in [Tabs -> 0..MaxSessions]
    BY <1>1, TabsAssumption DEF Hosts, Bindings
  <2>2. b = [h EXCEPT !.bind = Bindings(h)]
    BY DEF Bindings
  <2> QED BY <1>1, <2>1, <2>2 DEF Hosts
<1>3. gone = Gone(h)
  <2> HIDE DEF b
  <2>1. \A i \in Ids : Private(b, i) <=> h.sess[i].owner # None
    BY <1>2 DEF Private
  <2>2. \A i \in Ids : Ended(b, i) <=> Ended(h, i)
    BY <1>2 DEF Ended
  <2>3. \A t \in h.tabs : b.bind[t] = h.bind[t]
    BY <1>1, <1>2 DEF Bindings, Hosts
  <2>4. \A i \in Ids : Unused(b, i) <=> Unused(h, i)
    BY <1>2, <2>3 DEF Unused, Busy
  <2> QED BY <1>2, <2>1, <2>2, <2>4 DEF Gone
<1>4. Reaped(h) = g
  BY DEF Reaped
<1> HIDE DEF b, gone
<1>5. /\ g.tabs = b.tabs /\ g.active = b.active /\ g.made = b.made /\ g.default = b.default
      /\ g.bind = b.bind
      /\ g.sess = [i \in Ids |-> IF i \in gone THEN NewSession ELSE b.sess[i]]
      /\ g.wk = [i \in Ids |-> IF i \in gone THEN NewWorker ELSE b.wk[i]]
      /\ g = [b EXCEPT !.sess = g.sess, !.wk = g.wk]
  BY <1>2 DEF Hosts
<1> HIDE DEF g
<1>6. g.sess \in [Ids -> Session] /\ g.wk \in [Ids -> Workers]
  BY <1>2, <1>5, NewTypes DEF Hosts
<1>7. g \in Hosts
  BY <1>2, <1>5, <1>6 DEF Hosts
<1> QED BY <1>2, <1>3, <1>4, <1>5, <1>7

\* Reaping leaves every tab what it is bound to.
LEMMA ReapedSound ==
  ASSUME NEW h, Whole(h)
  PROVE  Whole(Reaped(h)) /\ Neat(Reaped(h)) /\ From(h, Reaped(h), {})
<1> DEFINE g == Reaped(h)
<1>1. h \in Hosts /\ h.tabs \subseteq Tabs /\ h.bind \in [Tabs -> 0..MaxSessions]
  BY DEF Whole, Hosts
<1>2. /\ g.tabs = h.tabs /\ g.active = h.active /\ g.made = h.made
      /\ g.default = h.default /\ g.bind = Bindings(h) /\ g \in Hosts
      /\ \A i \in Ids : g.sess[i] = IF i \in Gone(h) THEN NewSession ELSE h.sess[i]
      /\ \A i \in Ids : g.wk[i] = IF i \in Gone(h) THEN NewWorker ELSE h.wk[i]
  <2>1. /\ g.tabs = h.tabs /\ g.active = h.active /\ g.made = h.made
        /\ g.default = h.default /\ g.bind = Bindings(h) /\ g \in Hosts
        /\ g.sess = [i \in Ids |-> IF i \in Gone(h) THEN NewSession ELSE h.sess[i]]
        /\ g.wk = [i \in Ids |-> IF i \in Gone(h) THEN NewWorker ELSE h.wk[i]]
    BY ReapedIs, Zenon
  <2> HIDE DEF g
  <2> QED BY <2>1
<1> HIDE DEF g
<1>3. \A t \in Tabs : g.bind[t] = IF t \in h.tabs THEN h.bind[t] ELSE 0
  BY <1>2 DEF Bindings
<1>4. \A i \in Ids : /\ g.sess[i].there => i \notin Gone(h) /\ g.sess[i] = h.sess[i]
                     /\ NewSession.there = FALSE /\ ~NewSession.idle /\ ~NewSession.closing
                     /\ NewWorker.cmds = <<>>
  BY <1>2 DEF NewSession, NewWorker
<1>5. ASSUME NEW i \in Ids, Common(h, i), i = h.default \/ \E t \in h.tabs : h.bind[t] = i
      PROVE  Common(g, i)
  <2>1. i \notin Gone(h)
    BY <1>5 DEF Gone, Unused, Common
  <2> QED BY <1>2, <1>5, <2>1 DEF Common
<1>6. h.default \in Ids /\ \A t \in h.tabs : h.bind[t] # 0 => h.bind[t] \in Ids
  BY <1>1, TabsAssumption DEF Hosts, Ids
<1>7. Whole(g)
  <2>1. Common(g, g.default) /\ g.active \in g.tabs
    BY <1>2, <1>5, <1>6 DEF Whole
  <2>2. \A t \in g.tabs : g.bind[t] # 0 => Common(g, g.bind[t])
    BY <1>1, <1>2, <1>3, <1>5, <1>6 DEF Whole
  <2>3. \A t \in Tabs : g.bind[t] <= g.made
    <3>1. 0 <= h.made
      BY <1>1, TabsAssumption DEF Hosts, Ids
    <3> QED BY <1>2, <1>3, <3>1 DEF Whole
  <2>4. ASSUME NEW i \in Ids
        PROVE  /\ g.sess[i].there => i <= g.made
               /\ g.sess[i].closing => g.sess[i].owner # None
               /\ g.sess[i].idle => g.sess[i].spec # Spec0
               /\ g.wk[i].cmds # <<>> => g.sess[i].there
    BY <1>2, <1>4 DEF Whole
  <2> QED BY <1>2, <2>1, <2>2, <2>3, <2>4 DEF Whole
<1>8. Neat(g)
  <2>1. ASSUME NEW i \in Ids, g.sess[i].there, g.sess[i].owner # None
        PROVE  g.sess[i].owner \in g.tabs /\ ~g.sess[i].closing
    BY <1>2, <1>4, <2>1 DEF Gone, Ended
  <2> QED BY <1>2, <1>3, <2>1 DEF Neat
<1>9. From(h, g, {})
  <2>1. h.made <= g.made
    BY <1>1, <1>2, TabsAssumption DEF Hosts, Ids
  <2> QED BY <1>1, <1>2, <1>3, <1>4, <2>1 DEF From
<1> QED BY <1>7, <1>8, <1>9 DEF g

LEMMA SyncedSound ==
  ASSUME NEW h, Whole(h)
  PROVE  /\ Whole(Synced(h)) /\ Tied(Synced(h)) /\ From(h, Synced(h), {})
         /\ Neat(h) => Neat(Synced(h))
         /\ Synced(h).sess = h.sess
         /\ \A t \in Tabs : Owned(Synced(h), t) = Owned(h, t)
<1> DEFINE g == Synced(h)
           bs == [t \in Tabs |-> IF t \in h.tabs /\ h.bind[t] = 0 /\ Owned(h, t) = {}
                                   THEN h.default ELSE h.bind[t]]
<1>1. h \in Hosts /\ h.tabs \subseteq Tabs /\ h.bind \in [Tabs -> 0..MaxSessions]
      /\ h.default \in Ids /\ h.default \in 0..MaxSessions /\ h.default # 0
  BY TabsAssumption DEF Whole, Hosts, Ids
<1>2. bs \in [Tabs -> 0..MaxSessions]
  BY <1>1
<1>3. g = [h EXCEPT !.bind = bs]
  BY <1>1 DEF Synced, Hosts
<1> HIDE DEF bs, g
<1>4. /\ g.tabs = h.tabs /\ g.active = h.active /\ g.made = h.made
      /\ g.default = h.default /\ g.bind = bs /\ g \in Hosts
      /\ g.sess = h.sess /\ g.wk = h.wk
  BY <1>1, <1>2, <1>3 DEF Hosts
<1>5. \A t \in Tabs : g.bind[t] = IF t \in h.tabs /\ h.bind[t] = 0 /\ Owned(h, t) = {}
                                    THEN h.default ELSE h.bind[t]
  BY <1>4 DEF bs
<1>6. \A i : Common(g, i) <=> Common(h, i)
  BY <1>4 DEF Common
<1>7. \A t \in Tabs : Owned(g, t) = Owned(h, t)
  BY <1>4 DEF Owned
<1>8. Whole(g)
  <2>1. \A t \in g.tabs : g.bind[t] # 0 => Common(g, g.bind[t])
    BY <1>1, <1>4, <1>5, <1>6 DEF Whole
  <2>2. \A t \in Tabs : g.bind[t] <= g.made
    <3>1. h.default <= h.made
      BY <1>1 DEF Whole, Common
    <3> QED BY <1>4, <1>5, <3>1 DEF Whole
  <2>3. Common(g, g.default)
    BY <1>4, <1>6 DEF Whole
  <2> QED BY <1>4, <2>1, <2>2, <2>3 DEF Whole
<1>9. Tied(g)
  BY <1>1, <1>4, <1>5, <1>7 DEF Tied
<1>10. Neat(h) => Neat(g)
  BY <1>4, <1>5 DEF Neat
<1>11. From(h, g, {})
  <2>1. h.made <= g.made
    BY <1>1, <1>4, TabsAssumption DEF Hosts, Ids
  <2> QED BY <1>1, <1>4, <1>5, <2>1 DEF From
<1> QED BY <1>4, <1>7, <1>8, <1>9, <1>10, <1>11 DEF g

\* Both, after every answer and every end of a session.
LEMMA TidySound ==
  ASSUME NEW h, Whole(h)
  PROVE  LET g == Synced(Reaped(h))
         IN Whole(g) /\ Neat(g) /\ Tied(g) /\ From(h, g, {})
<1> DEFINE b == Reaped(h)
           g == Synced(b)
<1>1. Whole(b) /\ Neat(b) /\ From(h, b, {})
  BY ReapedSound
<1> HIDE DEF b
<1>2. Whole(g) /\ Neat(g) /\ Tied(g) /\ From(b, g, {})
  BY <1>1, SyncedSound
<1> HIDE DEF g
<1>3. From(h, g, {})
  BY <1>1, <1>2, FromTrans
<1> QED BY <1>2, <1>3 DEF g, b

-----------------------------------------------------------------------------
(* A command is carried out and its answers are heard.                     *)

\* What a worker answers to a command, and what it has done so far.
Outs(cmd) ==
  { m \in [ ev : {"up", "failed", "connected", "changed", "closed", "disconnected"},
            srv : Servers \cup {None} ] :
      /\ m.ev = "connected" => m.srv \in Servers
      /\ m.ev = "changed" => cmd.op = "run" }
Changes == [ on : Servers, meant : Servers \cup {None}, guarded : BOOLEAN ]
Trails(cmd) == [ link : Servers \cup {None}, out : Seq(Outs(cmd)), meant : Servers \cup {None},
                 ran : SUBSET Changes ]

LEMMA ConnectedType ==
  ASSUME NEW cmd, NEW a \in Trails(cmd), NEW spec \in Specs \ {Spec0}, NEW refused
  PROVE  Connected(a, spec, refused) \in Trails(cmd)
<1>1. spec.srv \in Servers
  BY DEF Specs, Spec0
<1>2. Msg("connected", spec.srv) \in Outs(cmd) /\ Msg("closed", None) \in Outs(cmd)
  BY <1>1 DEF Msg, Outs
<1>3. a.out \in Seq(Outs(cmd))
  BY DEF Trails
<1>4. /\ Append(a.out, Msg("connected", spec.srv)) \in Seq(Outs(cmd))
      /\ Append(a.out, Msg("closed", None)) \in Seq(Outs(cmd))
  BY <1>2, <1>3, AppendProperties
<1> QED BY <1>1, <1>4 DEF Connected, Trails

LEMMA SteppedType ==
  ASSUME NEW cmd \in Commands, cmd.op = "run", NEW a \in Trails(cmd), NEW item \in Items,
         NEW refused
  PROVE  Stepped(a, item, cmd.guarded, refused) \in Trails(cmd)
<1>1. cmd.guarded \in BOOLEAN
  BY DEF Commands
<1>2. /\ a.out \in Seq(Outs(cmd)) /\ a.link \in Servers \cup {None}
      /\ a.meant \in Servers \cup {None}
  BY DEF Trails
<1>3. CASE item.do = "connect"
  <2>1. item.to \in Specs \ {Spec0} /\ item.to.srv \in Servers
    BY <1>3 DEF Items, Change, Disconnect, Connect, Specs, Spec0
  <2>2. Connected(a, item.to, refused) \in Trails(cmd)
    BY <2>1, ConnectedType
  <2>3. Stepped(a, item, cmd.guarded, refused) = [Connected(a, item.to, refused) EXCEPT !.meant = item.to.srv]
    BY <1>3 DEF Stepped
  <2> QED BY <2>1, <2>2, <2>3 DEF Trails
<1>4. CASE item.do = "disconnect"
  <2>1. Msg("disconnected", None) \in Outs(cmd)
    BY DEF Msg, Outs
  <2>2. Append(a.out, Msg("disconnected", None)) \in Seq(Outs(cmd))
    BY <1>2, <2>1, AppendProperties
  <2>3. Stepped(a, item, cmd.guarded, refused)
          = [a EXCEPT !.link = None, !.meant = None, !.out = Append(@, Msg("disconnected", None))]
    BY <1>4 DEF Stepped
  <2> QED BY <2>2, <2>3 DEF Trails
<1>5. CASE item.do = "change"
  <2>1. CASE a.link = None
    BY <1>5, <2>1 DEF Stepped
  <2>2. CASE a.link # None
    <3>1. Msg("changed", a.link) \in Outs(cmd)
      BY <1>2 DEF Msg, Outs
    <3>2. Append(a.out, Msg("changed", a.link)) \in Seq(Outs(cmd))
      BY <1>2, <3>1, AppendProperties
    <3>3. [on |-> a.link, meant |-> a.meant, guarded |-> cmd.guarded] \in Changes
      BY <1>1, <1>2, <2>2 DEF Changes
    <3>4. Stepped(a, item, cmd.guarded, refused)
            = [a EXCEPT !.out = Append(@, Msg("changed", a.link)),
                        !.ran = @ \cup {[on |-> a.link, meant |-> a.meant, guarded |-> cmd.guarded]}]
      BY <1>5, <2>2 DEF Stepped
    <3> DEFINE r == [on |-> a.link, meant |-> a.meant, guarded |-> cmd.guarded]
               o == Append(a.out, Msg("changed", a.link))
    <3> HIDE DEF r, o
    <3>5. Stepped(a, item, cmd.guarded, refused) = [a EXCEPT !.out = o, !.ran = @ \cup {r}]
      BY <3>4 DEF r, o
    <3>6. o \in Seq(Outs(cmd)) /\ r \in Changes
      BY <3>2, <3>3 DEF r, o
    <3> QED BY <3>5, <3>6 DEF Trails
  <2> QED BY <2>1, <2>2
<1>6. item.do \in {"connect", "disconnect", "change"}
  BY DEF Items, Change, Disconnect, Connect
<1> QED BY <1>3, <1>4, <1>5, <1>6

LEMMA CarriedType ==
  ASSUME NEW cmd \in Commands, NEW a \in Trails(cmd), NEW refused
  PROVE  Carried(cmd, a, refused) \in Trails(cmd)
<1>1. cmd.script \in Seq(Items) /\ cmd.op \in {"connect", "login", "run", "commit"}
  BY DEF Commands
<1>2. CASE cmd.op = "run"
  <2>1. \A b \in Trails(cmd), x \in Items : Stepped(b, x, cmd.guarded, refused) \in Trails(cmd)
    BY <1>2, SteppedType
  <2>2. Executed(a, cmd, refused) \in Trails(cmd)
    BY <1>1, <2>1, ExecutedKeeps
  <2> QED BY <1>2, <2>2 DEF Carried
<1>3. CASE cmd.op = "commit"
  BY <1>3 DEF Carried
<1>4. CASE cmd.op \in {"connect", "login"}
  <2>1. cmd.to \in Specs \ {Spec0} /\ cmd.to.srv \in Servers
    BY <1>4 DEF Commands, Specs, Spec0
  <2>2. Msg("up", cmd.to.srv) \in Outs(cmd) /\ Msg("failed", cmd.to.srv) \in Outs(cmd)
    BY <2>1 DEF Msg, Outs
  <2>3. CASE a.link = cmd.to.srv /\ ~cmd.again /\ ~cmd.to.bare
    <3>1. Carried(cmd, a, refused) = [a EXCEPT !.out = <<Msg("up", cmd.to.srv)>>]
      BY <1>4, <2>3 DEF Carried
    <3>2. <<Msg("up", cmd.to.srv)>> \in Seq(Outs(cmd))
      BY <2>2
    <3> QED BY <3>1, <3>2 DEF Trails
  <2>4. CASE ~(a.link = cmd.to.srv /\ ~cmd.again /\ ~cmd.to.bare)
    <3> DEFINE b == Connected(a, cmd.to, refused)
               x == Msg(IF cmd.to.srv \in refused THEN "failed" ELSE "up", cmd.to.srv)
    <3>1. b \in Trails(cmd) /\ b.out \in Seq(Outs(cmd))
      BY <2>1, ConnectedType DEF Trails
    <3>2. x \in Outs(cmd)
      BY <2>2 DEF Msg
    <3>3. Carried(cmd, a, refused) = [b EXCEPT !.out = <<x>> \o @]
      BY <1>4, <2>4 DEF Carried
    <3> HIDE DEF b, x
    <3>4. <<x>> \in Seq(Outs(cmd))
      BY <3>2
    <3>5. <<x>> \o b.out \in Seq(Outs(cmd))
      BY <3>1, <3>4, ConcatProperties
    <3> QED BY <3>1, <3>3, <3>5 DEF Trails
  <2> QED BY <2>3, <2>4
<1> QED BY <1>1, <1>2, <1>3, <1>4

\* What has been heard leaves the session and the tabs, but for the active one.
LEMMA EnteredSound ==
  ASSUME NEW h, Whole(h), NEW i \in Ids, h.sess[i].there
  PROVE  /\ Whole(Entered(h, i)) /\ From(h, Entered(h, i), {h.active})
         /\ Entered(h, i).sess = h.sess /\ Entered(h, i).wk = h.wk
<1>1. CASE Private(h, i)
  BY <1>1, FromSelf DEF Entered
<1>2. CASE ~Private(h, i)
  <2> DEFINE b == [h EXCEPT !.default = i]
  <2>1. Common(h, i)
    BY <1>2 DEF Private, Common
  <2>0. b.wk = h.wk
    BY DEF Whole, Hosts
  <2>2. /\ Whole(b) /\ From(h, b, {}) /\ b.sess = h.sess /\ b.wk = h.wk
        /\ b.tabs = h.tabs /\ b.active = h.active
    BY <2>0, <2>1, DefaultSound DEF Sound, From
  <2> HIDE DEF b
  <2>3. Entered(h, i) = BindActive(b, i)
    BY <1>2 DEF Entered, b
  <2>4. CASE Owned(b, b.active) # {}
    <3>1. BindActive(b, i) = b
      BY <2>4 DEF BindActive
    <3> QED BY <2>2, <2>3, <3>1, FromLess
  <2>5. CASE Owned(b, b.active) = {}
    <3> DEFINE g == [b EXCEPT !.bind[b.active] = i]
    <3>1. BindActive(b, i) = g
      BY <2>5 DEF BindActive
    <3>2. Common(b, i) /\ b.active \in b.tabs
      BY <2>1, <2>2 DEF Common, Whole
    <3>3. Sound(b, g) /\ From(b, g, {b.active}) /\ g.sess = b.sess /\ g.wk = b.wk
      <4>1. g.wk = b.wk
        BY <2>2 DEF Whole, Hosts
      <4> QED BY <2>2, <3>2, <4>1, BoundSound
    <3> HIDE DEF g
    <3>4. Whole(g) /\ From(h, b, {h.active}) /\ From(b, g, {h.active})
      BY <2>2, <3>3, FromLess DEF Sound
    <3>5. From(h, g, {h.active})
      BY <2>2, <3>4, FromTrans
    <3> QED BY <2>2, <2>3, <3>1, <3>3, <3>4, <3>5
  <2> QED BY <2>4, <2>5
<1> QED BY <1>1, <1>2

\* The name of a profile is completed: the same server.
LEMMA CompletedSpec ==
  ASSUME NEW spec \in Specs
  PROVE  [spec EXCEPT !.bare = FALSE] \in Specs /\ [spec EXCEPT !.bare = FALSE].srv = spec.srv
<1>1. CASE spec = Spec0
  <2>1. spec \in [ srv : {None}, bare : BOOLEAN ] /\ spec.bare = FALSE
    BY <1>1 DEF Spec0
  <2>2. \A p \in [ srv : {None}, bare : BOOLEAN ] : p.bare = FALSE => [p EXCEPT !.bare = FALSE] = p
    OBVIOUS
  <2> QED BY <1>1, <2>1, <2>2
<1>2. CASE spec \in [ srv : Servers, bare : BOOLEAN ]
  BY <1>2 DEF Specs
<1> QED BY <1>1, <1>2 DEF Specs

\* What an answer changes of its session.
HeardOf(s, x, m) ==
  /\ x.there = s.there /\ x.spec.srv = s.spec.srv /\ (x.spec.bare => s.spec.bare)
  /\ x.idle => s.idle
  /\ IF m.ev \in {"up", "connected"} THEN x.desc = m.srv
     ELSE x.desc = s.desc /\ (x.connected => s.connected)
  /\ "manual" \notin does.ops => x.open \subseteq s.open

LEMMA HeardSound ==
  ASSUME NEW h, Whole(h), NEW i \in Ids, h.sess[i].there,
         NEW cmd \in Commands, NEW m \in Outs(cmd)
  PROVE  /\ Whole(Heard(h, i, m, cmd)) /\ From(h, Heard(h, i, m, cmd), {h.active})
         /\ Heard(h, i, m, cmd).sess[i].there
         /\ Heard(h, i, m, cmd).wk = h.wk
         /\ \A j \in Ids \ {i} : Heard(h, i, m, cmd).sess[j] = h.sess[j]
         /\ HeardOf(h.sess[i], Heard(h, i, m, cmd).sess[i], m)
<1> DEFINE s == h.sess[i]
           w == h.wk[i]
           Becoming(x) == /\ x \in Session /\ x.there /\ x.owner = s.owner
                          /\ x.spec.srv = s.spec.srv
                          /\ x.idle => x.spec # Spec0
                          /\ x.closing => x.owner # None
                          /\ HeardOf(s, x, m)
<1>1. /\ h \in Hosts /\ s \in Session /\ w \in Workers
      /\ s.idle => s.spec # Spec0
      /\ s.closing => s.owner # None
  BY SessionTypes DEF Whole
<1>2. ASSUME NEW x, Becoming(x)
      PROVE  /\ Whole(Alter(h, i, x, w)) /\ From(h, Alter(h, i, x, w), {})
             /\ Alter(h, i, x, w).sess[i] = x
             /\ From(h, Alter(h, i, x, w), {h.active})
             /\ Alter(h, i, x, w).active = h.active
             /\ Alter(h, i, x, w).wk = h.wk
             /\ \A j \in Ids \ {i} : Alter(h, i, x, w).sess[j] = h.sess[j]
             /\ HeardOf(h.sess[i], Alter(h, i, x, w).sess[i], m)
  <2>0. Alter(h, i, x, w).wk = h.wk
    BY <1>1 DEF Alter, Hosts
  <2>1. /\ Whole(Alter(h, i, x, w)) /\ From(h, Alter(h, i, x, w), {})
        /\ Alter(h, i, x, w).sess[i] = x
        /\ OnlyOne(h, Alter(h, i, x, w), i)
    <3> HIDE DEF s, w
    <3>1. h.sess[i].there /\ w \in Workers /\ x \in Session /\ x.there /\ x.owner = h.sess[i].owner
          /\ x.spec.srv = h.sess[i].spec.srv
      BY <1>1, <1>2 DEF s
    <3>2. (x.idle => x.spec # Spec0) /\ (x.closing => x.owner # None)
      BY <1>2
    <3> QED BY <3>1, <3>2, AlterSound
  <2> QED BY <1>2, <2>0, <2>1, FromLess DEF OnlyOne
<1>3. /\ s.there \in BOOLEAN /\ s.connected \in BOOLEAN /\ s.open \subseteq Tabs
      /\ s.closing \in BOOLEAN /\ s.spec \in Specs /\ m.srv \in Servers \cup {None}
  BY <1>1 DEF Session, Outs
<1>4. CASE m.ev = "up"
  <2> DEFINE x == [s EXCEPT !.connected = TRUE, !.desc = m.srv]
             b == [h EXCEPT !.sess[i].connected = TRUE, !.sess[i].desc = m.srv]
  <2>1. Becoming(x)
    <3>1. /\ x \in Session /\ x.there = s.there /\ x.owner = s.owner /\ x.spec = s.spec
          /\ x.idle = s.idle /\ x.closing = s.closing
          /\ x.desc = m.srv /\ x.open = s.open
      BY <1>1, <1>3 DEF Session
    <3> HIDE DEF x
    <3> QED BY <1>1, <1>4, <3>1 DEF HeardOf
  <2>2. b = Alter(h, i, x, w)
    BY <1>1 DEF Alter, Hosts
  <2> HIDE DEF x, b
  <2>3. /\ Whole(b) /\ From(h, b, {h.active}) /\ b.sess[i].there /\ b.active = h.active
        /\ b.wk = h.wk /\ HeardOf(h.sess[i], b.sess[i], m)
        /\ \A j \in Ids \ {i} : b.sess[j] = h.sess[j]
    <3>1. x.there
      BY <2>1
    <3> QED BY <1>2, <2>1, <2>2, <3>1
  <2>4. /\ Whole(Entered(b, i)) /\ From(b, Entered(b, i), {h.active})
        /\ Entered(b, i).sess = b.sess /\ Entered(b, i).wk = b.wk
    BY <2>3, EnteredSound
  <2>5. From(h, Entered(b, i), {h.active})
    BY <2>3, <2>4, FromTrans
  <2>6. Heard(h, i, m, cmd) = IF cmd.op = "login" THEN Entered(b, i) ELSE b
    BY <1>4 DEF Heard, b
  <2> QED BY <2>3, <2>4, <2>5, <2>6
<1>5. CASE m.ev = "failed"
  <2> DEFINE x == [s EXCEPT !.connected = @ /\ cmd.op = "login"]
  <2>1. Becoming(x)
    <3>1. /\ x \in Session /\ x.there = s.there /\ x.owner = s.owner /\ x.spec = s.spec
          /\ x.idle = s.idle /\ x.closing = s.closing
          /\ x.desc = s.desc /\ x.open = s.open /\ (x.connected => s.connected)
      BY <1>1, <1>3 DEF Session
    <3> HIDE DEF x
    <3> QED BY <1>1, <1>5, <3>1 DEF HeardOf
  <2>2. Heard(h, i, m, cmd) = Alter(h, i, x, w)
    BY <1>1, <1>5 DEF Heard, Alter, Hosts
  <2>3. x.there
    BY <2>1
  <2> HIDE DEF x
  <2> QED BY <1>2, <2>1, <2>2, <2>3
<1>6. CASE m.ev = "connected"
  <2> DEFINE x == [s EXCEPT !.connected = TRUE, !.desc = m.srv, !.open = {}, !.idle = FALSE,
                            !.dropped = FALSE, !.spec = [@ EXCEPT !.bare = FALSE]]
  <2>1. Becoming(x)
    <3>1. [s.spec EXCEPT !.bare = FALSE] \in Specs /\ [s.spec EXCEPT !.bare = FALSE].srv = s.spec.srv
          /\ [s.spec EXCEPT !.bare = FALSE].bare = FALSE
      BY <1>3, CompletedSpec
    <3>2. /\ x \in Session /\ x.there = s.there /\ x.owner = s.owner /\ x.spec.srv = s.spec.srv
          /\ x.idle = FALSE /\ x.closing = s.closing
          /\ x.spec.bare = FALSE /\ x.desc = m.srv /\ x.open = {}
      BY <1>1, <1>3, <3>1 DEF Session
    <3> HIDE DEF x
    <3> QED BY <1>1, <1>6, <3>2 DEF HeardOf
  <2>2. Heard(h, i, m, cmd) = Alter(h, i, x, w)
    <3> DEFINE b == [h EXCEPT !.sess[i].connected = TRUE, !.sess[i].desc = m.srv,
                              !.sess[i].open = {}, !.sess[i].idle = FALSE, !.sess[i].dropped = FALSE]
               y == [s EXCEPT !.connected = TRUE, !.desc = m.srv, !.open = {}, !.idle = FALSE,
                              !.dropped = FALSE]
    <3>1. b = Alter(h, i, y, w)
      <4> DEFINE b1 == [h EXCEPT !.sess[i].connected = TRUE, !.sess[i].desc = m.srv,
                                 !.sess[i].open = {}]
                 y1 == [s EXCEPT !.connected = TRUE, !.desc = m.srv, !.open = {}]
                 b2 == [b1 EXCEPT !.sess[i].idle = FALSE, !.sess[i].dropped = FALSE]
                 y2 == [y1 EXCEPT !.idle = FALSE, !.dropped = FALSE]
      <4>1. b1 = Alter(h, i, y1, w)
        BY <1>1 DEF Alter, Hosts
      <4>2. y1 \in Session
        BY <1>1, <1>3 DEF Session
      <4>3. b = b2 /\ y = y2
        BY Zenon
      <4> HIDE DEF b, y, b1, y1
      <4>4. [Alter(h, i, y1, w) EXCEPT !.sess[i].idle = FALSE, !.sess[i].dropped = FALSE]
              = Alter(h, i, [y1 EXCEPT !.idle = FALSE, !.dropped = FALSE], w)
        BY <1>1, <4>2 DEF Alter, Hosts
      <4> QED BY <4>1, <4>3, <4>4
    <3>2. y \in Session /\ x = [y EXCEPT !.spec = [@ EXCEPT !.bare = FALSE]]
      BY <1>1, <1>3 DEF Session
    <3>3. Heard(h, i, m, cmd) = Attached(b, i)
      BY <1>6 DEF Heard
    <3> HIDE DEF b, x, y
    <3>4. Attached(Alter(h, i, y, w), i) = Alter(h, i, [y EXCEPT !.spec = [@ EXCEPT !.bare = FALSE]], w)
      BY <1>1, <3>2 DEF Attached, Alter, Hosts
    <3> QED BY <3>1, <3>2, <3>3, <3>4
  <2>3. x.there
    BY <2>1
  <2> HIDE DEF x
  <2> QED BY <1>2, <2>1, <2>2, <2>3
<1>7. CASE m.ev = "changed"
  <2> DEFINE x == [s EXCEPT !.open = IF "manual" \in does.ops THEN @ \cup {cmd.tab} ELSE @]
  <2>1. Becoming(x)
    <3>1. cmd.tab \in Tabs
      BY <1>7 DEF Outs, Commands
    <3>2. /\ x \in Session /\ x.there = s.there /\ x.owner = s.owner /\ x.spec = s.spec
          /\ x.idle = s.idle /\ x.closing = s.closing
          /\ x.desc = s.desc /\ x.connected = s.connected /\ ("manual" \notin does.ops => x.open = s.open)
      BY <1>1, <1>3, <3>1 DEF Session
    <3> HIDE DEF x
    <3> QED BY <1>1, <1>7, <3>2 DEF HeardOf
  <2>2. Heard(h, i, m, cmd) = Alter(h, i, x, w)
    BY <1>1, <1>7 DEF Heard, Alter, Hosts
  <2>3. x.there
    BY <2>1
  <2> HIDE DEF x
  <2> QED BY <1>2, <2>1, <2>2, <2>3
<1>8. CASE m.ev = "closed"
  <2> DEFINE x == [s EXCEPT !.connected = FALSE, !.open = {}]
  <2>1. Becoming(x)
    <3>1. /\ x \in Session /\ x.there = s.there /\ x.owner = s.owner /\ x.spec = s.spec
          /\ x.idle = s.idle /\ x.closing = s.closing
          /\ x.desc = s.desc /\ x.open = {} /\ ~x.connected
      BY <1>1, <1>3 DEF Session
    <3> HIDE DEF x
    <3> QED BY <1>1, <1>8, <3>1 DEF HeardOf
  <2>2. Heard(h, i, m, cmd) = Alter(h, i, x, w)
    BY <1>1, <1>8 DEF Heard, Alter, Hosts
  <2>3. x.there
    BY <2>1
  <2> HIDE DEF x
  <2> QED BY <1>2, <2>1, <2>2, <2>3
<1>9. CASE m.ev = "disconnected"
  <2> DEFINE c == s.closing \/ (Private(h, i) /\ ~s.idle /\ ~s.dropped)
             x == [s EXCEPT !.connected = FALSE, !.open = {}, !.closing = c]
  <2>1. c \in BOOLEAN /\ (c => s.owner # None)
    BY <1>1, <1>3 DEF Private
  <2>2. Heard(h, i, m, cmd) = Alter(h, i, x, w)
    BY <1>1, <1>9, ZenonT(40) DEF Heard, Alter, Hosts
  <2> HIDE DEF c
  <2>3. Becoming(x)
    <3>1. /\ x \in Session /\ x.there = s.there /\ x.owner = s.owner /\ x.spec = s.spec
          /\ x.idle = s.idle /\ x.closing = c
          /\ x.desc = s.desc /\ x.open = {} /\ ~x.connected
      BY <1>1, <1>3, <2>1 DEF Session
    <3> HIDE DEF x
    <3> QED BY <1>1, <2>1, <1>9, <3>1 DEF HeardOf
  <2>4. x.there
    BY <2>3
  <2> HIDE DEF x
  <2> QED BY <1>2, <2>2, <2>3, <2>4
<1>10. m.ev \in {"up", "failed", "connected", "changed", "closed", "disconnected"}
  BY DEF Outs
<1> QED BY <1>4, <1>5, <1>6, <1>7, <1>8, <1>9, <1>10

LEMMA AllHeardSound ==
  ASSUME NEW h, Whole(h), NEW i \in Ids, h.sess[i].there,
         NEW cmd \in Commands, NEW out \in Seq(Outs(cmd))
  PROVE  /\ Whole(AllHeard(h, i, out, cmd)) /\ From(h, AllHeard(h, i, out, cmd), {h.active})
<1> DEFINE K == { g \in Hosts : Whole(g) /\ From(h, g, {h.active}) /\ g.sess[i].there }
<1>1. h \in K
  BY FromSelf DEF Whole
<1>2. ASSUME NEW g \in K, NEW m \in Outs(cmd) PROVE Heard(g, i, m, cmd) \in K
  <2> DEFINE f == Heard(g, i, m, cmd)
  <2>1. g.active = h.active /\ Whole(g) /\ g.sess[i].there
    BY DEF From
  <2>2. Whole(f) /\ From(g, f, {h.active}) /\ f.sess[i].there
    BY <2>1, HeardSound
  <2> HIDE DEF f
  <2>3. From(h, f, {h.active})
    BY <2>1, <2>2, FromTrans
  <2>4. f \in Hosts
    BY <2>2 DEF Whole
  <2>5. f \in K
    BY <2>2, <2>3, <2>4
  <2> QED BY <2>5 DEF f
<1> HIDE DEF K
<1>3. AllHeard(h, i, out, cmd) \in K
  BY <1>1, <1>2, AllHeardKeeps
<1> QED BY <1>3 DEF K

-----------------------------------------------------------------------------
(* Where a text goes.                                                      *)

LEMMA PlacedSound ==
  ASSUME NEW h, Whole(h), NEW i \in Ids, h.sess[i].there, NEW script \in Seq(Items),
         Intent(script).do = "connect" /\ ~Private(h, i) => Room(h)
  PROVE  LET p == Placed(h, i, script)
         IN /\ Sound(h, p.host) /\ From(h, p.host, {h.active})
            /\ p.text \in Seq(Items) /\ p.text \in {script, RemoveFirst(script, Intent(script))}
            /\ p.shown \in Servers \cup {None}
            /\ Private(h, i) => \A t \in Tabs : Owned(p.host, t) = Owned(h, t)
            /\ ~Private(h, i) /\ Intent(script).do = "connect" => Owned(p.host, h.active) # {}
            /\ ~Private(h, i) => p.text = script
<1> DEFINE x == Intent(script)
           b == Synced(Made(h, h.active))
           q == [ host |-> h, text |-> script, shown |-> h.sess[i].desc ]
           p == Placed(h, i, script)
<1>1. /\ h \in Hosts /\ h.sess[i].desc \in Servers \cup {None} /\ h.active \in h.tabs
      /\ h.active \in Tabs /\ h.tabs \subseteq Tabs
  BY SessionTypes DEF Whole, Hosts
<1>2. x \in Items /\ (x.do = "connect" => x.to \in Specs \ {Spec0} /\ x.to.srv \in Servers)
  <2>1. x \in Items /\ (x.do = "connect" => x.to \in Specs \ {Spec0})
    BY IntentType
  <2>2. \A s \in Specs \ {Spec0} : s.srv \in Servers
    BY DEF Specs, Spec0
  <2> QED BY <2>1, <2>2
<1>3. From(h, h, {h.active}) /\ Sound(h, h)
  BY FromSelf
<1> HIDE DEF x
<1>4. CASE x.do = "connect" /\ Private(h, i) /\ Kept(h, i, x.to)
  <2>1. p = [q EXCEPT !.text = RemoveFirst(script, x), !.shown = x.to.srv]
    BY <1>4 DEF Placed, x
  <2>2. p.host = h /\ p.text = RemoveFirst(script, x) /\ p.shown = x.to.srv
    BY <2>1
  <2>3. RemoveFirst(script, x) \in Seq(Items)
    BY RemoveFirstType
  <2> HIDE DEF p
  <2>4. /\ Sound(h, p.host) /\ From(h, p.host, {h.active})
        /\ p.text \in Seq(Items) /\ p.text \in {script, RemoveFirst(script, x)}
        /\ p.shown \in Servers \cup {None}
        /\ \A t \in Tabs : Owned(p.host, t) = Owned(h, t)
    BY <1>2, <1>3, <1>4, <2>2, <2>3
  <2> QED BY <1>4, <2>4 DEF p, x
<1>5. CASE x.do = "connect" /\ Private(h, i) /\ ~Kept(h, i, x.to)
  <2> DEFINE g == Aimed(h, i, x.to)
  <2>1. p = [q EXCEPT !.host = g]
    BY <1>5 DEF Placed, x
  <2>2. p.host = g /\ p.text = script /\ p.shown = h.sess[i].desc
    BY <2>1
  <2>3. h.sess[i].owner # None
    BY <1>5 DEF Private
  <2>4. /\ Sound(h, g) /\ OnlyOne(h, g, i) /\ g \in Hosts /\ g.sess[i].there
        /\ g.sess[i].owner = h.sess[i].owner /\ g.sess[i].closing = h.sess[i].closing
        /\ From(h, g, {})
    BY <1>2, <1>5, <2>3, AimedSound
  <2> HIDE DEF g, p
  <2>5. \A t \in Tabs : Owned(g, t) = Owned(h, t)
    BY <2>4 DEF Owned, OnlyOne
  <2>6. From(h, g, {h.active})
    BY <2>4, FromLess
  <2>7. /\ Sound(h, p.host) /\ From(h, p.host, {h.active})
        /\ p.text \in Seq(Items) /\ p.text \in {script, RemoveFirst(script, x)}
        /\ p.shown \in Servers \cup {None}
        /\ \A t \in Tabs : Owned(p.host, t) = Owned(h, t)
    BY <1>1, <2>2, <2>4, <2>5, <2>6
  <2> QED BY <1>5, <2>7 DEF p, x
<1>6. CASE x.do = "connect" /\ ~Private(h, i)
  <2> DEFINE d == Made(h, h.active)
             n == h.made + 1
             g == Aimed(b, b.made, x.to)
  <2>1. p = [q EXCEPT !.host = g, !.shown = None]
    BY <1>6 DEF Placed, x
  <2>2. p.host = g /\ p.text = script /\ p.shown = None
    BY <2>1
  <2>3. Room(h)
    BY <1>6 DEF x
  <2>4. /\ Sound(h, d) /\ From(h, d, {}) /\ d.made = n /\ n \in Ids
        /\ d.sess[n] = [NewSession EXCEPT !.there = TRUE, !.owner = h.active]
    BY <1>1, <2>3, MadeSound
  <2>5. d.sess[n].there /\ d.sess[n].owner = h.active /\ ~d.sess[n].closing
    BY <2>4 DEF NewSession
  <2> HIDE DEF d, n
  <2>6. Whole(d)
    BY <2>4 DEF Sound
  <2>7. Whole(b) /\ Tied(b) /\ From(d, b, {}) /\ (Neat(d) => Neat(b)) /\ b.sess = d.sess
    BY <2>6, SyncedSound DEF d
  <2> HIDE DEF b
  <2>8. b.made = n
    BY <2>4 DEF b, d, Synced
  <2>9. Sound(h, b) /\ From(h, b, {})
    <3>1. Sound(h, b)
      BY <2>4, <2>7 DEF Sound
    <3> QED BY <2>4, <2>6, <2>7, <3>1, FromTrans
  <2>10. b.sess[n].there /\ b.sess[n].owner # None
    BY <1>1, <2>5, <2>7, TabsAssumption
  <2>11. /\ Sound(b, g) /\ OnlyOne(b, g, n) /\ g.sess[n].there
         /\ g.sess[n].owner = b.sess[n].owner /\ g.sess[n].closing = b.sess[n].closing
         /\ From(b, g, {})
    BY <1>2, <1>6, <2>4, <2>7, <2>8, <2>10, AimedSound
  <2> HIDE DEF g, p
  <2>12. Sound(h, g)
    BY <2>9, <2>11, SoundTrans
  <2>13. From(h, g, {h.active})
    <3>1. Whole(g)
      BY <2>11 DEF Sound
    <3>2. From(h, g, {})
      BY <2>7, <2>9, <2>11, <3>1, FromTrans
    <3> QED BY <3>2, FromLess
  <2>14. n \in Owned(g, h.active)
    BY <2>4, <2>5, <2>7, <2>11 DEF Owned
  <2>15. /\ Sound(h, p.host) /\ From(h, p.host, {h.active})
         /\ p.text \in Seq(Items) /\ p.text = script
         /\ p.shown \in Servers \cup {None}
         /\ Owned(p.host, h.active) # {}
    BY <2>2, <2>12, <2>13, <2>14
  <2> QED BY <1>6, <2>15 DEF p, x
<1>7. CASE x.do # "connect"
  <2> DEFINE v == IF Private(h, i) \/ h.bind[h.active] # 0 THEN h.bind[h.active] ELSE i
             g == [h EXCEPT !.bind[h.active] = v]
  <2>1. p = [q EXCEPT !.host.bind[h.active] = IF Private(h, i) \/ @ # 0 THEN @ ELSE i]
    BY <1>7 DEF Placed, x
  <2>2. p.host = g /\ p.text = script /\ p.shown = h.sess[i].desc
    BY <1>1, <2>1 DEF Hosts
  <2>3. Sound(h, g) /\ From(h, g, {h.active}) /\ g.sess = h.sess
    <3>1. CASE v = i /\ ~Private(h, i)
      <4>1. Common(h, i)
        BY <3>1 DEF Private, Common
      <4> DEFINE f == [h EXCEPT !.bind[h.active] = i]
      <4>2. g = f
        BY <3>1
      <4>3. Sound(h, f) /\ From(h, f, {h.active}) /\ f.sess = h.sess
        BY <1>1, <4>1, BoundSound
      <4> QED BY <4>2, <4>3
    <3>2. CASE v = h.bind[h.active]
      <4> HIDE DEF v
      <4>1. g = h
        BY <1>1, <3>2 DEF Hosts
      <4> QED BY <1>3, <4>1
    <3> QED BY <3>1, <3>2
  <2> HIDE DEF g, p
  <2>4. \A t \in Tabs : Owned(g, t) = Owned(h, t)
    BY <2>3 DEF Owned
  <2>5. /\ Sound(h, p.host) /\ From(h, p.host, {h.active})
        /\ p.text \in Seq(Items) /\ p.text = script
        /\ p.shown \in Servers \cup {None}
        /\ \A t \in Tabs : Owned(p.host, t) = Owned(h, t)
    BY <1>1, <2>2, <2>3, <2>4
  <2> QED BY <1>7, <2>5 DEF p, x
<1> QED BY <1>4, <1>5, <1>6, <1>7

-----------------------------------------------------------------------------
(* The invariant holds at first and is kept.                               *)

LEMMA HostBecomes ==
  ASSUME NEW h, h \in Hosts, Becomes(h)
  PROVE  Host' = h
<1>1. h = [ tabs |-> h.tabs, active |-> h.active, bind |-> h.bind, default |-> h.default,
            made |-> h.made, sess |-> h.sess, wk |-> h.wk ]
  BY DEF Hosts
<1> QED BY <1>1 DEF Host, Becomes

\* What one session after the other is kept of.
Later(h, g) ==
  /\ h.made <= g.made
  /\ \A i \in Ids : i <= h.made /\ g.sess[i].there =>
       h.sess[i].there /\ g.sess[i].owner = h.sess[i].owner

LEMMA LaterTrans ==
  ASSUME NEW h, NEW g, NEW f, Whole(h), Whole(g), Whole(f), Later(h, g), Later(g, f)
  PROVE  Later(h, f)
<1>1. h.made \in Nat /\ g.made \in Nat /\ f.made \in Nat
  BY MadeNatural
<1>2. h.made <= f.made
  BY <1>1 DEF Later
<1>3. \A i \in Ids : i <= h.made => i <= g.made
  BY <1>1 DEF Later, Ids
<1> QED BY <1>2, <1>3 DEF Later

LEMMA FromLater ==
  ASSUME NEW h, NEW g, NEW X, From(h, g, X)
  PROVE  Later(h, g)
BY DEF From, Later

\* A host as it is between two steps.
Stable(h) == Whole(h) /\ Neat(h) /\ Tied(h)

LEMMA SoundStable ==
  ASSUME NEW h, NEW g, Stable(h), Sound(h, g)
  PROVE  Stable(g)
BY DEF Stable, Sound

\* The request that waits for its backup, after a step that leaves it.
LEMMA BackupKept ==
  ASSUME BackupOK, Whole(Host), NEW h, Whole(h), Later(Host, h), Becomes(h), UNCHANGED objbk
  PROVE  BackupOK'
<1>1. Host.made = made /\ Host.sess = sess /\ made' = h.made /\ sess' = h.sess
  BY DEF Host, Becomes
<1>2. made \in Nat /\ h.made \in Nat /\ made <= h.made /\ made \in Ids
  BY <1>1, TabsAssumption DEF Whole, Hosts, Ids, Later
<1>3. 1..made \subseteq 1..made' /\ 1..made \subseteq Ids /\ \A i \in 1..made : i <= made
  BY <1>1, <1>2, TabsAssumption DEF Ids
<1>4. objbk # NoBackup => objbk.on \in 1..made' /\ objbk.on \in Ids /\ objbk.on <= made
  BY <1>3 DEF BackupOK
<1>5. objbk # NoBackup /\ sess'[objbk.on].there
        => sess[objbk.on].there /\ sess'[objbk.on].owner = sess[objbk.on].owner
  BY <1>1, <1>4 DEF Later
<1> QED BY <1>4, <1>5 DEF BackupOK

LEMMA InvKept ==
  ASSUME TabsInv, NEW h, Stable(h), Later(Host, h), Becomes(h), UNCHANGED <<known, objbk, does>>
  PROVE  TabsInv'
<1>1. h \in Hosts /\ Whole(h)
  BY DEF Stable, Whole
<1>2. Host' = h
  BY <1>1, HostBecomes
<1>3. BackupOK'
  BY <1>1, BackupKept DEF TabsInv
<1>4. (Whole(Host) /\ Neat(Host) /\ Tied(Host))'
  BY <1>2 DEF Stable
<1> QED BY <1>3, <1>4 DEF TabsInv

\* A step that leaves the other tabs their sessions.
Quiet == From(Host, Host', {active})

LEMMA QuietStep ==
  ASSUME TabsInv, NEW h, Stable(h), From(Host, h, {active}), Becomes(h),
         UNCHANGED <<known, objbk, does>>
  PROVE  TabsInv' /\ Quiet
<1>1. h \in Hosts /\ Later(Host, h)
  BY FromLater DEF Stable, Whole
<1>2. Host' = h
  BY <1>1, HostBecomes
<1> QED BY <1>1, <1>2, InvKept DEF Quiet

LEMMA HostParts ==
  /\ Host.tabs = tabs /\ Host.active = active /\ Host.bind = bind /\ Host.default = default
  /\ Host.made = made /\ Host.sess = sess /\ Host.wk = wk
BY DEF Host

LEMMA HostStable ==
  ASSUME TabsInv
  PROVE  /\ Stable(Host) /\ Whole(Host) /\ Host \in Hosts /\ active \in tabs /\ tabs \subseteq Tabs
         /\ active \in Tabs
BY HostParts DEF TabsInv, Stable, Whole, Hosts

LEMMA AgainStep ==
  ASSUME TabsInv, UNCHANGED does, NEW i \in Ids, Again(i)
  PROVE  TabsInv' /\ Quiet
<1>1. PICK again \in BOOLEAN : Becomes(Quietly(Host, i, sess[i].spec, again))
  BY DEF Again
<1> DEFINE g == Quietly(Host, i, sess[i].spec, again)
<1>2. Sound(Host, g) /\ From(Host, g, {})
  BY HostStable, HostParts, QuietlySound DEF Again
<1> HIDE DEF g
<1>3. Stable(g) /\ From(Host, g, {active})
  BY <1>2, HostStable, SoundStable, FromLess
<1> QED BY <1>1, <1>3, QuietStep DEF Again, g

LEMMA BindActiveSound ==
  ASSUME NEW h, Whole(h), NEW i \in Ids, Common(h, i)
  PROVE  /\ Sound(h, BindActive(h, i)) /\ From(h, BindActive(h, i), {h.active})
         /\ BindActive(h, i).sess = h.sess
<1>1. CASE Owned(h, h.active) # {}
  BY <1>1, FromSelf DEF BindActive
<1>2. CASE Owned(h, h.active) = {}
  <2> DEFINE g == [h EXCEPT !.bind[h.active] = i]
  <2>1. h.active \in h.tabs
    BY DEF Whole
  <2>2. Sound(h, g) /\ From(h, g, {h.active}) /\ g.sess = h.sess
    BY <2>1, BoundSound
  <2>3. BindActive(h, i) = g
    BY <1>2 DEF BindActive
  <2> QED BY <2>2, <2>3
<1> QED BY <1>1, <1>2

LEMMA ActivateStep ==
  ASSUME TabsInv, UNCHANGED does, NEW i \in Ids, Activate(i)
  PROVE  TabsInv' /\ Quiet
<1> DEFINE b == BindActive(Host, i)
           d == [b EXCEPT !.default = i]
           g == Synced(d)
<1>1. Common(Host, i)
  BY HostStable, SharedIsCommon DEF Activate
<1>2. Sound(Host, b) /\ From(Host, b, {active}) /\ b.sess = Host.sess
  BY <1>1, HostStable, HostParts, BindActiveSound
<1> HIDE DEF b
<1>3. Stable(b) /\ Whole(b) /\ Common(b, i)
  BY <1>1, <1>2, HostStable, SoundStable DEF Stable, Common
<1>4. Sound(b, d) /\ From(b, d, {})
  BY <1>3, DefaultSound
<1> HIDE DEF d
<1>5. Stable(d) /\ Whole(d) /\ From(b, d, {active})
  BY <1>3, <1>4, SoundStable, FromLess DEF Stable
<1>6. Stable(g) /\ From(d, g, {active}) /\ Whole(g)
  BY <1>5, SyncedSound, FromLess DEF Stable
<1>7. Becomes(g)
  BY DEF Activate, g, d, b
<1> HIDE DEF g
<1>8. From(Host, d, {active})
  BY <1>2, <1>3, <1>5, HostStable, FromTrans
<1>9. From(Host, g, {active})
  BY <1>5, <1>6, <1>8, HostStable, FromTrans
<1> QED BY <1>6, <1>7, <1>9, QuietStep DEF Activate

\* What ends with reaping and binding.
LEMMA SettledStep ==
  ASSUME TabsInv, UNCHANGED does, NEW h, Whole(h), From(Host, h, {active}), Settles(h)
  PROVE  TabsInv' /\ Quiet
<1> DEFINE g == Synced(Reaped(h))
<1>1. Whole(g) /\ Stable(g) /\ From(h, g, {})
  BY TidySound DEF Stable
<1>2. Becomes(g) /\ UNCHANGED <<known, objbk>>
  BY DEF Settles
<1> HIDE DEF g
<1>3. From(Host, g, {active})
  BY <1>1, HostStable, FromLess, FromTrans
<1> QED BY <1>1, <1>2, <1>3, QuietStep

LEMMA UnconnectStep ==
  ASSUME TabsInv, UNCHANGED does, NEW t \in Tabs, Unconnect(t)
  PROVE  TabsInv' /\ Quiet
<1>1. Whole(Host) /\ t \in Host.tabs
  BY HostStable, HostParts DEF Unconnect
<1>2. CASE Owned(Host, t) # {}
  <2> DEFINE g == Left(Host, Route(Host, t), TRUE)
  <2>1. Sound(Host, g) /\ From(Host, g, {})
    BY <1>1, RouteThere, LeftKeepSound
  <2>2. Settles(g)
    BY <1>2 DEF Unconnect
  <2> HIDE DEF g
  <2>3. Whole(g) /\ From(Host, g, {active})
    BY <2>1, FromLess DEF Sound
  <2> QED BY <2>2, <2>3, SettledStep
<1>3. CASE Owned(Host, t) = {}
  <2> DEFINE d == Made(Host, t)
             n == made + 1
             s == [d.sess[n] EXCEPT !.dropped = TRUE]
             g == [d EXCEPT !.sess[n].dropped = TRUE]
  <2>1. Room(Host) /\ Settles(g)
    BY <1>3 DEF Unconnect
  <2>2. /\ Sound(Host, d) /\ From(Host, d, {}) /\ n \in Ids
        /\ d.sess[n] = [NewSession EXCEPT !.there = TRUE, !.owner = t]
    BY <1>1, <2>1, HostParts, MadeSound
  <2> HIDE DEF d, n
  <2>3. /\ Whole(d) /\ d \in Hosts /\ d.sess[n].there /\ d.sess[n] \in Session
        /\ d.wk[n] \in Workers /\ ~d.sess[n].idle /\ ~d.sess[n].closing
    BY <2>2, SessionTypes DEF Sound, Whole, NewSession
  <2>4. /\ s \in Session /\ s.there /\ s.owner = d.sess[n].owner /\ s.spec = d.sess[n].spec
        /\ ~s.idle /\ ~s.closing
    BY <2>3 DEF Session
  <2>5. g = Alter(d, n, s, d.wk[n])
    BY <2>2, <2>3 DEF Alter, Hosts
  <2> HIDE DEF g, s
  <2>6. Whole(g) /\ From(d, g, {})
    BY <2>2, <2>3, <2>4, <2>5, AlterSound
  <2>7. From(Host, g, {active})
    BY <1>1, <2>2, <2>3, <2>6, FromTrans, FromLess
  <2> QED BY <2>1, <2>6, <2>7, SettledStep
<1> QED BY <1>2, <1>3

LEMMA DisconnectStep ==
  ASSUME TabsInv, UNCHANGED does, DisconnectForce
  PROVE  TabsInv' /\ Quiet
<1> DEFINE i == Current(Host)
<1>1. Whole(Host) /\ i \in Ids /\ Host.sess[i].there
  BY HostStable, CurrentThere
<1> HIDE DEF i
<1>2. CASE Private(Host, i)
  <2> DEFINE g == Left(Host, i, FALSE)
  <2>1. Whole(g) /\ From(Host, g, {})
    BY <1>1, <1>2, LeftSound DEF Private
  <2>2. Settles(g)
    BY <1>2 DEF DisconnectForce, i
  <2> HIDE DEF g
  <2>3. From(Host, g, {active})
    BY <2>1, FromLess
  <2> QED BY <2>1, <2>2, <2>3, SettledStep
<1>3. CASE ~Private(Host, i)
  <2> DEFINE g == [Host EXCEPT !.sess[i].connected = FALSE, !.sess[i].dropped = TRUE,
                               !.sess[i].idle = FALSE, !.wk[i] = NewWorker]
  <2>1. Sound(Host, g) /\ From(Host, g, {})
    BY <1>1, DisconnectedSound
  <2>2. Settles(g)
    BY <1>3 DEF DisconnectForce, i
  <2> HIDE DEF g
  <2>3. Whole(g) /\ From(Host, g, {active})
    BY <2>1, FromLess DEF Sound
  <2> QED BY <2>2, <2>3, SettledStep
<1> QED BY <1>2, <1>3

LEMMA IdleStep ==
  ASSUME TabsInv, UNCHANGED does, NEW i \in Ids, IdleClose(i)
  PROVE  TabsInv' /\ Quiet
<1> DEFINE g == [Host EXCEPT !.sess[i].connected = FALSE, !.sess[i].idle = TRUE, !.wk[i] = NewWorker]
<1>1. Sound(Host, g) /\ From(Host, g, {})
  BY HostStable, HostParts, IdleSound DEF IdleClose
<1>2. Becomes(g) /\ UNCHANGED <<known, objbk>>
  BY DEF IdleClose
<1> HIDE DEF g
<1>3. Stable(g) /\ From(Host, g, {active})
  BY <1>1, HostStable, SoundStable, FromLess
<1> QED BY <1>2, <1>3, QuietStep

LEMMA PressCloseStep ==
  ASSUME TabsInv, UNCHANGED does, NEW script, PressClose(script)
  PROVE  TabsInv' /\ Quiet
<1> DEFINE i == Current(Host)
           g == Left(Host, i, FALSE)
<1>1. Whole(Host) /\ i \in Ids /\ Host.sess[i].there
  BY HostStable, CurrentThere
<1>2. Private(Host, i) /\ Settles(g)
  BY DEF PressClose
<1> HIDE DEF i
<1>3. Whole(g) /\ From(Host, g, {})
  BY <1>1, <1>2, LeftSound DEF Private
<1> HIDE DEF g
<1>4. From(Host, g, {active})
  BY <1>3, FromLess
<1> QED BY <1>2, <1>3, <1>4, SettledStep

LEMMA ProdBoolean ==
  ASSUME NEW h, NEW i, NEW text
  PROVE  Prod(h, i, text) \in BOOLEAN
BY DEF Prod

\* A text and a session it may be placed on.
LEMMA ScriptTypes ==
  ASSUME TabsInv, NEW script \in does.scripts
  PROVE  /\ script \in Seq(Items) /\ script \in Arms
         /\ RemoveFirst(script, Intent(script)) \in Arms
<1>1. does \in Workloads
  BY DEF TabsInv
<1>2. does.scripts \subseteq Seq(Items) \ {<<>>}
  BY <1>1, TabsAssumption
<1>3. script \in Scripts
  BY <1>1 DEF Scripts
<1> QED BY <1>2, <1>3 DEF Arms

LEMMA PressStep ==
  ASSUME TabsInv, UNCHANGED does, NEW script \in does.scripts, Press(script)
  PROVE  TabsInv' /\ Quiet
<1> DEFINE i == Current(Host)
           p == Placed(Host, i, script)
           b == p.host
           j == Current(b)
           h == Woken(b, j)
           prod == Prod(h, j, p.text)
           armed == [h EXCEPT !.sess[j].armed = p.text]
           sent == Submitted(h, j, p.text, j, p.shown, prod)
           waits == [h EXCEPT !.sess[j].armed = IF prod THEN <<>> ELSE @]
           bk == [ on |-> j, script |-> p.text, shown |-> p.shown, prod |-> prod ]
<1>1. /\ \/ Becomes(armed) /\ UNCHANGED objbk
         \/ Becomes(sent) /\ UNCHANGED objbk
         \/ Becomes(waits) /\ objbk' = bk
      /\ UNCHANGED known
      /\ Intent(script).do = "connect" /\ ~Private(Host, i) => Room(Host)
  BY DEF Press
<1>2. /\ Whole(Host) /\ i \in Ids /\ Host.sess[i].there /\ Stable(Host) /\ active \in Host.tabs
      /\ active \in Tabs
  BY HostStable, HostParts, CurrentThere
<1>3. /\ script \in Seq(Items) /\ script \in Arms /\ RemoveFirst(script, Intent(script)) \in Arms
  BY ScriptTypes
<1>4. Host.active = active
  BY HostParts
<1>5. prod \in BOOLEAN
  BY ProdBoolean
<1>6. i = Route(Host, active)
  BY <1>4 DEF Current
<1> HIDE DEF i
<1>7. /\ Sound(Host, b) /\ From(Host, b, {active})
      /\ p.text \in Seq(Items) /\ p.text \in Arms /\ p.shown \in Servers \cup {None}
      /\ Private(Host, i) => \A t \in Tabs : Owned(b, t) = Owned(Host, t)
      /\ ~Private(Host, i) /\ Intent(script).do = "connect" => Owned(b, active) # {}
      /\ ~Private(Host, i) => p.text = script
  BY <1>1, <1>2, <1>3, <1>4, PlacedSound, ZenonT(40)
<1> HIDE DEF p
<1>8. Whole(b) /\ b.active = active /\ active \in b.tabs
  BY <1>2, <1>4, <1>7 DEF Sound, From
<1>9. j \in Ids /\ b.sess[j].there /\ j = Route(b, active)
  BY <1>8, CurrentThere DEF Current
\* A CONNECT in the text, and the session is one of the tab.
<1>10. Intent(p.text).do = "connect" => b.sess[j].owner # None
  <2>1. CASE Private(Host, i)
    <3>1. Owned(Host, active) # {}
      BY <1>2, <1>6, <2>1, RouteThere DEF Private, Common
    <3>2. Owned(b, active) # {}
      BY <1>2, <1>7, <2>1, <3>1
    <3> QED BY <1>8, <1>9, <3>2, RouteThere
  <2>2. CASE ~Private(Host, i)
    <3>1. ASSUME Intent(p.text).do = "connect" PROVE Owned(b, active) # {}
      BY <1>7, <2>2, <3>1
    <3> QED BY <1>8, <1>9, <3>1, RouteThere
  <2> QED BY <2>1, <2>2
<1> HIDE DEF j
<1>11. Sound(b, h) /\ From(b, h, {}) /\ SameOwners(b, h)
  BY <1>8, <1>9, WokenSound
<1> HIDE DEF b, h, prod
<1>12. Whole(h) /\ h.sess[j].there /\ h.sess[j].owner = b.sess[j].owner
  BY <1>9, <1>11 DEF Sound, SameOwners
<1>13. Stable(h) /\ From(Host, h, {active})
  <2>1. Stable(b)
    BY <1>2, <1>7, SoundStable
  <2>2. Stable(h)
    BY <1>11, <2>1, SoundStable
  <2> QED BY <1>2, <1>7, <1>8, <1>11, <1>12, <2>2, FromLess, FromTrans
<1>14. ASSUME NEW g, Sound(h, g), From(h, g, {})
       PROVE  Stable(g) /\ From(Host, g, {active}) /\ Whole(g)
  <2>1. Stable(g) /\ Whole(g)
    BY <1>13, <1>14, SoundStable DEF Stable
  <2>2. From(h, g, {active})
    BY <1>14, FromLess
  <2> QED BY <1>2, <1>12, <1>13, <2>1, <2>2, FromTrans
<1>15. CASE Becomes(armed) /\ UNCHANGED objbk
  <2>1. Sound(h, armed) /\ From(h, armed, {})
    BY <1>7, <1>9, <1>12, ArmedSound
  <2> HIDE DEF armed
  <2>2. Stable(armed) /\ From(Host, armed, {active})
    BY <1>14, <2>1
  <2> QED BY <1>1, <1>15, <2>2, QuietStep
<1>16. CASE Becomes(sent) /\ UNCHANGED objbk
  <2>1. Sound(h, sent) /\ From(h, sent, {})
    BY <1>5, <1>7, <1>9, <1>12, SubmittedSound
  <2> HIDE DEF sent
  <2>2. Stable(sent) /\ From(Host, sent, {active})
    BY <1>14, <2>1
  <2> QED BY <1>1, <1>16, <2>2, QuietStep
<1>17. CASE Becomes(waits) /\ objbk' = bk
  <2> DEFINE a == IF prod THEN <<>> ELSE h.sess[j].armed
             w == [h EXCEPT !.sess[j].armed = a]
  <2>1. h \in Hosts /\ h.sess[j] \in Session
    BY <1>9, <1>12, SessionTypes DEF Whole
  <2>2. a \in Arms
    BY <2>1 DEF Session, Arms
  <2>3. waits = w
    BY <1>9, <2>1 DEF Hosts, Session
  <2> HIDE DEF a
  <2>4. Sound(h, w) /\ From(h, w, {}) /\ SameOwners(h, w)
    BY <1>9, <1>12, <2>2, ArmedSound
  <2> HIDE DEF w, waits
  <2>5. Stable(w) /\ From(Host, w, {active}) /\ Whole(w) /\ w \in Hosts
    BY <1>14, <2>4 DEF Whole
  <2>6. Host' = w
    BY <1>17, <2>3, <2>5, HostBecomes
  <2>7. w.sess = sess' /\ w.made = made'
    BY <2>6, HostParts, <1>17, <2>3 DEF Becomes
  <2>8. w.sess[j].there /\ w.sess[j].owner = b.sess[j].owner
    BY <1>9, <1>12, <2>4 DEF SameOwners
  <2>9. j \in 1..w.made
    <3>1. j <= w.made /\ w.made \in Nat
      BY <1>9, <2>5, <2>8, TabsAssumption DEF Whole, Hosts, Ids
    <3> QED BY <1>9, <3>1 DEF Ids
  <2>10. BackupOK'
    <3>1. bk \in Backups
      BY <1>5, <1>7, <1>9, TabsAssumption DEF Backups, Ids
    <3>2. bk.on = j /\ bk.script = p.text
      OBVIOUS
    <3> HIDE DEF bk
    <3> QED BY <1>10, <1>17, <2>7, <2>8, <2>9, <3>1, <3>2 DEF BackupOK
  <2>11. (Whole(Host) /\ Neat(Host) /\ Tied(Host))'
    BY <2>5, <2>6 DEF Stable
  <2>12. Quiet
    BY <2>5, <2>6 DEF Quiet
  <2> QED BY <1>1, <2>10, <2>11, <2>12 DEF TabsInv
<1> QED BY <1>1, <1>15, <1>16, <1>17

\* The invariant once the request is taken up or given up.
LEMMA InvDone ==
  ASSUME TabsInv, NEW h, Stable(h), Becomes(h), UNCHANGED <<known, does>>, objbk' = NoBackup,
         From(Host, h, {active})
  PROVE  TabsInv' /\ Quiet
<1>1. Host' = h
  BY HostBecomes DEF Stable, Whole
<1>2. NoBackup \in Backups
  BY EmptySeq, TabsAssumption DEF NoBackup, Backups
<1>3. BackupOK'
  BY <1>2 DEF BackupOK
<1>4. (Whole(Host) /\ Neat(Host) /\ Tied(Host))'
  BY <1>1 DEF Stable
<1> QED BY <1>1, <1>3, <1>4 DEF TabsInv, Quiet

LEMMA BackupFailsStep ==
  ASSUME TabsInv, UNCHANGED does, BackupFails
  PROVE  TabsInv' /\ Quiet
<1>1. Stable(Host) /\ From(Host, Host, {active})
  BY HostStable, FromSelf
<1> QED BY <1>1, InvDone DEF BackupFails

LEMMA TakenUpStep ==
  ASSUME TabsInv, UNCHANGED does, TakenUp
  PROVE  TabsInv' /\ Quiet
<1> DEFINE i == objbk.on
           p == Placed(Host, i, objbk.script)
           b == p.host
           j == Current(b)
           h == Woken(b, j)
           shown == IF p.text = objbk.script THEN objbk.shown ELSE p.shown
           guarded == Prod(h, j, p.text) /\ (ProdHold(does) \/ objbk.prod)
           sent == Submitted(h, j, p.text, i, shown, guarded)
           g == IF ~sess[i].there THEN Host
                ELSE IF Busy(b, j) \/ p.text = <<>> THEN b ELSE sent
<1>1. objbk # NoBackup /\ objbk' = NoBackup /\ Becomes(g) /\ UNCHANGED known
  BY DEF TakenUp
<1>2. /\ objbk \in Backups /\ i \in 1..made
      /\ Intent(objbk.script).do = "connect" /\ sess[i].there => sess[i].owner # None
  BY <1>1 DEF TabsInv, BackupOK
<1>3. Stable(Host) /\ Whole(Host) /\ Host.active = active /\ Host.sess = sess /\ Host \in Hosts
  BY HostStable, HostParts
<1>4. i \in Ids /\ objbk.script \in Seq(Items) /\ objbk.shown \in Servers \cup {None}
      /\ objbk.prod \in BOOLEAN
  <2>1. made \in Ids
    BY <1>3, HostParts DEF Hosts
  <2> QED BY <1>2, <2>1, TabsAssumption DEF Backups, Ids
<1>5. guarded \in BOOLEAN
  BY ProdBoolean, <1>4
<1> HIDE DEF i
<1>6. CASE ~sess[i].there
  <2>1. g = Host
    BY <1>6
  <2>2. From(Host, Host, {active})
    BY <1>3, FromSelf
  <2> QED BY <1>1, <1>3, <2>1, <2>2, InvDone
<1>7. CASE sess[i].there
  <2>1. /\ Sound(Host, b) /\ From(Host, b, {active})
        /\ p.text \in Seq(Items) /\ p.shown \in Servers \cup {None}
    <3>1. Intent(objbk.script).do = "connect" /\ ~Private(Host, i) => Room(Host)
      BY <1>2, <1>3, <1>7 DEF Private, i
    <3> QED BY <1>3, <1>4, <1>7, <3>1, PlacedSound
  <2> HIDE DEF p
  <2>2. Whole(b) /\ Stable(b)
    BY <1>3, <2>1, SoundStable DEF Stable
  <2>3. j \in Ids /\ b.sess[j].there
    BY <2>2, CurrentThere
  <2> HIDE DEF j
  <2>4. Sound(b, h) /\ From(b, h, {}) /\ SameOwners(b, h)
    BY <2>2, <2>3, WokenSound
  <2>5. shown \in Servers \cup {None}
    BY <1>4, <2>1
  <2> HIDE DEF b, h, shown, guarded
  <2>6. Whole(h) /\ Stable(h) /\ h.sess[j].there
    BY <2>2, <2>3, <2>4, SoundStable DEF Stable, SameOwners
  <2>7. Sound(h, sent) /\ From(h, sent, {})
    BY <1>4, <1>5, <2>1, <2>3, <2>5, <2>6, SubmittedSound
  <2> HIDE DEF sent
  <2>8. Stable(sent) /\ Whole(sent)
    BY <2>6, <2>7, SoundStable DEF Stable
  <2>9. From(Host, h, {active})
    BY <1>3, <2>1, <2>2, <2>4, <2>6, FromLess, FromTrans
  <2>10. From(Host, sent, {active})
    BY <1>3, <2>6, <2>7, <2>8, <2>9, FromLess, FromTrans
  <2>11. g = b \/ g = sent
    BY <1>7
  <2> HIDE DEF g
  <2> QED BY <1>1, <2>1, <2>2, <2>8, <2>10, <2>11, InvDone
<1> QED BY <1>6, <1>7

LEMMA DropStep ==
  ASSUME TabsInv, UNCHANGED does, NEW i \in Ids, DropObject(i)
  PROVE  TabsInv' /\ Quiet
<1> DEFINE j == Current(Host)
           h == Woken(Host, j)
           g == Submitted(h, j, <<Change>>, i, sess[i].spec.srv, TRUE)
<1>1. Becomes(g) /\ UNCHANGED <<known, objbk>>
  BY DEF DropObject, Stays
<1>2. Stable(Host) /\ Whole(Host) /\ Host.active = active /\ Host.sess = sess /\ Host \in Hosts
  BY HostStable, HostParts
<1>3. j \in Ids /\ Host.sess[j].there
  BY <1>2, CurrentThere
<1> HIDE DEF j
<1>4. Sound(Host, h) /\ From(Host, h, {}) /\ SameOwners(Host, h)
  BY <1>2, <1>3, WokenSound
<1> HIDE DEF h
<1>5. Whole(h) /\ Stable(h) /\ h.sess[j].there
  BY <1>2, <1>3, <1>4, SoundStable DEF Stable, SameOwners
<1>6. sess[i].spec.srv \in Servers \cup {None}
  <2>1. sess[i].spec \in Specs
    BY <1>2, SessionTypes
  <2> QED BY <2>1 DEF Specs, Spec0
<1>7. <<Change>> \in Seq(Items)
  BY DEF Items
<1>8. Sound(h, g) /\ From(h, g, {})
  BY <1>3, <1>5, <1>6, <1>7, SubmittedSound
<1> HIDE DEF g
<1>9. Stable(g) /\ Whole(g)
  BY <1>5, <1>8, SoundStable DEF Stable
<1>10. From(Host, g, {active})
  BY <1>2, <1>4, <1>5, <1>8, <1>9, FromLess, FromTrans
<1> QED BY <1>1, <1>9, <1>10, QuietStep

LEMMA AnswersStep ==
  ASSUME TabsInv, UNCHANGED does, NEW i \in Ids, NEW refused, Answers(i, refused)
  PROVE  TabsInv' /\ Quiet
<1> DEFINE cmd == Head(wk[i].cmds)
           a0 == Start(i, cmd)
           a == Carried(cmd, a0, refused)
           w == [link |-> a.link, cmds |-> Tail(wk[i].cmds)]
           h == [Host EXCEPT !.wk[i] = [link |-> a.link, cmds |-> Tail(@.cmds)]]
           b == AllHeard(h, i, a.out, cmd)
           r == Reaped(b)
           g == Synced(r)
<1>1. /\ wk[i].cmds # <<>> /\ Becomes(g) /\ UNCHANGED objbk
      /\ known' = known \cup { m.srv : m \in { x \in Range(a.out) : x.ev = "connected" } }
  BY HostParts DEF Answers, Busy
<1>2. Stable(Host) /\ Whole(Host) /\ Host.active = active /\ Host.sess = sess /\ Host \in Hosts
      /\ Host.wk = wk
  BY HostStable, HostParts
<1>3. wk[i] \in Workers /\ wk[i].link \in Servers \cup {None} /\ wk[i].cmds \in Seq(Commands)
      /\ sess[i] \in Session
  BY <1>2, SessionTypes
<1>4. cmd \in Commands /\ Tail(wk[i].cmds) \in Seq(Commands) /\ cmd.shown \in Servers \cup {None}
  BY <1>1, <1>3, HeadTailProperties DEF Commands
<1> HIDE DEF cmd
<1>5. a0 \in Trails(cmd)
  BY <1>3, <1>4, EmptySeq DEF Start, Trails
<1> HIDE DEF a0
<1>6. a \in Trails(cmd)
  BY <1>4, <1>5, CarriedType
<1> HIDE DEF a
<1>7. a.out \in Seq(Outs(cmd)) /\ a.link \in Servers \cup {None}
  BY <1>6 DEF Trails
<1>8. w \in Workers
  BY <1>4, <1>7 DEF Workers
<1>9. h = Alter(Host, i, sess[i], w)
  BY <1>2, <1>3 DEF Alter, Hosts
<1> HIDE DEF w, h
<1>10. Host.sess[i].there
  BY <1>1, <1>2 DEF Whole
<1>11. Whole(h) /\ From(Host, h, {}) /\ h.sess[i].there /\ h.active = active
  <2>1. (sess[i].idle => sess[i].spec # Spec0) /\ (sess[i].closing => sess[i].owner # None)
    BY <1>2 DEF Whole
  <2>2. Whole(h) /\ From(Host, h, {}) /\ h.sess[i] = sess[i]
    BY <1>2, <1>3, <1>8, <1>9, <1>10, <2>1, AlterSound
  <2> QED BY <1>2, <1>10, <2>2 DEF From
<1>12. Whole(b) /\ From(h, b, {active})
  BY <1>4, <1>7, <1>11, AllHeardSound
<1> HIDE DEF b
<1>13. Whole(g) /\ Stable(g) /\ From(b, g, {})
  BY <1>12, TidySound DEF Stable
<1> HIDE DEF g
<1>14. From(Host, b, {active})
  BY <1>2, <1>11, <1>12, FromLess, FromTrans
<1>15. From(Host, g, {active})
  BY <1>2, <1>12, <1>13, <1>14, FromLess, FromTrans
<1>16. Host' = g /\ Later(Host, g) /\ g \in Hosts
  BY <1>1, <1>13, <1>15, HostBecomes, FromLater DEF Whole
<1>17. BackupOK'
  BY <1>1, <1>2, <1>13, <1>16, BackupKept DEF TabsInv
<1>18. known' \subseteq Servers
  <2>1. \A x \in Range(a.out) : x \in Outs(cmd)
    BY <1>7, LenProperties, ElementOfSeq DEF Range
  <2>2. \A x \in Range(a.out) : x.ev = "connected" => x.srv \in Servers
    BY <2>1 DEF Outs
  <2>3. known \subseteq Servers
    BY DEF TabsInv
  <2> QED BY <1>1, <2>2, <2>3
<1>19. (Whole(Host) /\ Neat(Host) /\ Tied(Host))'
  BY <1>13, <1>16 DEF Stable
<1>20. does' \in Workloads
  BY DEF TabsInv
<1> QED BY <1>15, <1>16, <1>17, <1>18, <1>19, <1>20 DEF TabsInv, Quiet

-----------------------------------------------------------------------------
(* The steps after which a tab may be elsewhere, or another is in front.   *)

\* What a tab on a shared connection is bound to, and where that is.
Leaves(t) ==
  bind[t] # 0 => bind'[t] = bind[t] /\ sess'[bind[t]].spec.srv = sess[bind[t]].spec.srv

LEMMA FromLeaves ==
  ASSUME NEW h, NEW g, NEW X, Whole(h), Whole(g), From(h, g, X), NEW t \in h.tabs \ X,
         h.bind[t] # 0
  PROVE  /\ g.bind[t] = h.bind[t]
         /\ g.sess[h.bind[t]].spec.srv = h.sess[h.bind[t]].spec.srv
<1> DEFINE k == h.bind[t]
<1>1. g.bind[t] = k /\ t \in g.tabs
  BY DEF From
<1>2. k \in Ids /\ Common(h, k) /\ Common(g, k)
  BY <1>1, TabsAssumption DEF Whole, Hosts, Ids
<1>3. k <= h.made
  BY <1>2 DEF Whole, Common
<1> QED BY <1>1, <1>2, <1>3 DEF From, Common

LEMMA QuietLeaves ==
  ASSUME TabsInv, TabsInv', Quiet, NEW t \in tabs \ {active}
  PROVE  Leaves(t)
<1>1. Whole(Host) /\ Whole(Host')
  BY DEF TabsInv
<1>2. /\ Host.tabs = tabs /\ Host.bind = bind /\ Host.sess = sess
      /\ Host'.bind = bind' /\ Host'.sess = sess'
  BY DEF Host
<1>3. From(Host, Host', {active})
  BY DEF Quiet
<1> DEFINE h == Host  g == Host'
<1>4. Whole(h) /\ Whole(g) /\ From(h, g, {active}) /\ t \in h.tabs \ {active}
      /\ h.bind = bind /\ g.bind = bind' /\ h.sess = sess /\ g.sess = sess'
  BY <1>1, <1>2, <1>3
<1> HIDE DEF h, g
<1> QED BY <1>4, FromLeaves DEF Leaves

\* The tabs that are open change, or the one in front.
Turned(h, T, a) == [h EXCEPT !.tabs = T, !.active = a]

LEMMA TurnedSound ==
  ASSUME NEW h, Whole(h), NEW T, T \subseteq Tabs, NEW a \in T,
         \A t \in T : t \in h.tabs \/ h.bind[t] = 0
  PROVE  /\ Whole(Turned(h, T, a)) /\ Later(h, Turned(h, T, a))
         /\ Turned(h, T, a).tabs = T /\ Turned(h, T, a).bind = h.bind
         /\ Turned(h, T, a).sess = h.sess
         /\ Neat(h) /\ h.tabs \subseteq T => Neat(Turned(h, T, a))
<1> DEFINE g == Turned(h, T, a)
<1>1. h \in Hosts
  BY DEF Whole
<1>2. /\ g \in Hosts /\ g.tabs = T /\ g.active = a /\ g.bind = h.bind /\ g.default = h.default
      /\ g.made = h.made /\ g.sess = h.sess /\ g.wk = h.wk
  BY <1>1 DEF Hosts, Turned
<1> HIDE DEF g
<1>3. \A j : Common(g, j) <=> Common(h, j)
  BY <1>2 DEF Common
<1>4. \A t \in g.tabs : g.bind[t] # 0 => Common(g, g.bind[t])
  BY <1>2, <1>3 DEF Whole
<1>5. Whole(g)
  BY <1>2, <1>3, <1>4 DEF Whole
<1>6. h.made <= g.made
  BY <1>1, <1>2, TabsAssumption DEF Hosts, Ids
<1>7. ASSUME Neat(h), h.tabs \subseteq T PROVE Neat(g)
  BY <1>2, <1>7 DEF Neat
<1>8. Later(h, g)
  BY <1>2, <1>6 DEF Later
<1> QED BY <1>2, <1>5, <1>7, <1>8 DEF g

LEMMA OpenStep ==
  ASSUME TabsInv, UNCHANGED does, NEW t \in Tabs, OpenTab(t)
  PROVE  TabsInv' /\ \A u \in tabs : Leaves(u)
<1> DEFINE d == Turned(Host, tabs \cup {t}, t)
           g == Synced(d)
<1>1. Stable(Host) /\ Whole(Host) /\ Host \in Hosts /\ tabs \subseteq Tabs
  BY HostStable
<1>2. t \notin tabs /\ Becomes(Synced([Host EXCEPT !.tabs = @ \cup {t}, !.active = t]))
      /\ UNCHANGED <<known, objbk>>
  BY DEF OpenTab, Stays
<1>3. d = [Host EXCEPT !.tabs = @ \cup {t}, !.active = t]
  BY <1>1, HostParts DEF Hosts, Turned
<1> DEFINE T == tabs \cup {t}
<1>4. /\ T \subseteq Tabs /\ t \in T /\ Host.tabs \subseteq T
      /\ \A u \in T : u \in Host.tabs \/ Host.bind[u] = 0
  BY <1>1, HostParts DEF Stable, Neat
<1> HIDE DEF T
<1>5. /\ Whole(d) /\ Later(Host, d) /\ Neat(d) /\ d.tabs = T
      /\ d.bind = bind /\ d.sess = sess
  <2>1. d = Turned(Host, T, t)
    BY DEF T
  <2> HIDE DEF d
  <2>2. Neat(Host)
    BY <1>1 DEF Stable
  <2> QED BY <1>1, <1>4, <2>1, <2>2, HostParts, TurnedSound
<1>6. Becomes(g)
  BY <1>2, <1>3
<1> HIDE DEF d
<1>7. Whole(g) /\ Stable(g) /\ From(d, g, {})
  BY <1>5, SyncedSound DEF Stable
<1> HIDE DEF g
<1>8. Later(Host, g)
  BY <1>1, <1>5, <1>7, FromLater, LaterTrans
<1>9. TabsInv'
  BY <1>2, <1>6, <1>7, <1>8, InvKept
<1>10. g.bind = bind' /\ g.sess = sess'
  BY <1>6 DEF Becomes
<1>11. ASSUME NEW u \in tabs PROVE Leaves(u)
  <2>1. u \in d.tabs \ {}
    BY <1>5 DEF T
  <2> QED BY <1>5, <1>7, <1>10, <2>1, FromLeaves DEF Leaves
<1> QED BY <1>9, <1>11

LEMMA ShowStep ==
  ASSUME TabsInv, UNCHANGED does, NEW t \in Tabs, ShowTab(t)
  PROVE  TabsInv' /\ \A u \in tabs : Leaves(u)
<1> DEFINE d == Turned(Host, tabs, t)
           g == Synced(d)
<1>1. Stable(Host) /\ Whole(Host) /\ Host \in Hosts /\ tabs \subseteq Tabs
  BY HostStable
<1>2. t \in tabs /\ Becomes(Synced([Host EXCEPT !.active = t])) /\ UNCHANGED <<known, objbk>>
  BY DEF ShowTab, Stays
<1>3. d = [Host EXCEPT !.active = t]
  BY <1>1, HostParts DEF Hosts, Turned
<1>4. /\ tabs \subseteq Tabs /\ Host.tabs \subseteq tabs
      /\ \A u \in tabs : u \in Host.tabs \/ Host.bind[u] = 0
  BY <1>1, HostParts
<1>5. /\ Whole(d) /\ Later(Host, d) /\ Neat(d) /\ d.tabs = tabs
      /\ d.bind = bind /\ d.sess = sess
  <2>1. Neat(Host)
    BY <1>1 DEF Stable
  <2> QED BY <1>1, <1>2, <1>4, <2>1, HostParts, TurnedSound
<1>6. Becomes(g)
  BY <1>2, <1>3
<1> HIDE DEF d
<1>7. Whole(g) /\ Stable(g) /\ From(d, g, {})
  BY <1>5, SyncedSound DEF Stable
<1> HIDE DEF g
<1>8. Later(Host, g)
  BY <1>1, <1>5, <1>7, FromLater, LaterTrans
<1>9. TabsInv'
  BY <1>2, <1>6, <1>7, <1>8, InvKept
<1>10. g.bind = bind' /\ g.sess = sess'
  BY <1>6 DEF Becomes
<1>11. ASSUME NEW u \in tabs PROVE Leaves(u)
  BY <1>5, <1>7, <1>10, FromLeaves DEF Leaves
<1> QED BY <1>9, <1>11

LEMMA CloseStep ==
  ASSUME TabsInv, UNCHANGED does, NEW t \in Tabs, CloseTab(t)
  PROVE  TabsInv' /\ \A u \in tabs \cap tabs' : Leaves(u)
<1> DEFINE i == Route(Host, t)
           j == Current(Host)
           asks == IF Private(Host, i) THEN sess[i].open # {} ELSE t \in sess[i].open
           cmd == [NoCmd EXCEPT !.op = "commit", !.for = i]
           s == Sends(Host, j, cmd)
           o == [s EXCEPT !.sess[j].open = {}]
           h == IF asks THEN o ELSE Host
<1>1. Stable(Host) /\ Whole(Host) /\ Host \in Hosts /\ tabs \subseteq Tabs
  BY HostStable
<1>2. PICK u \in tabs \ {t} :
        Settles([h EXCEPT !.tabs = @ \ {t}, !.active = IF @ = t THEN u ELSE @])
  BY DEF CloseTab
<1>3. t \in tabs
  BY DEF CloseTab
<1>4. i \in Ids /\ j \in Ids /\ Host.sess[j].there
  BY <1>1, <1>3, HostParts, RouteThere, CurrentThere
<1>5. cmd \in Commands
  BY <1>4, EmptySeq DEF NoCmd, Commands, Specs
<1> HIDE DEF i, j, asks, cmd
<1>6. Whole(h) /\ From(Host, h, {}) /\ h.bind = bind
  <2>1. Sound(Host, s) /\ From(Host, s, {}) /\ s.sess = Host.sess /\ s.bind = Host.bind
    BY <1>1, <1>4, <1>5, SendsSound
  <2> HIDE DEF s
  <2>2. Whole(s) /\ s \in Hosts /\ s.sess[j].there /\ s.sess[j] \in Session /\ s.wk[j] \in Workers
    BY <1>4, <2>1, SessionTypes DEF Sound, Whole
  <2> DEFINE x == [s.sess[j] EXCEPT !.open = {}]
  <2>3. /\ x \in Session /\ x.there /\ x.owner = s.sess[j].owner /\ x.spec = s.sess[j].spec
        /\ x.idle = s.sess[j].idle /\ x.closing = s.sess[j].closing
    BY <2>2 DEF Session
  <2>4. o = Alter(s, j, x, s.wk[j])
    BY <1>4, <2>2 DEF Alter, Hosts
  <2> HIDE DEF x, o
  <2>5. (x.idle => x.spec # Spec0) /\ (x.closing => x.owner # None)
    BY <1>4, <2>2, <2>3 DEF Whole
  <2>6. Whole(o) /\ From(s, o, {}) /\ OnlyOne(s, o, j)
    BY <1>4, <2>2, <2>3, <2>4, <2>5, AlterSound
  <2>7. From(Host, o, {}) /\ o.bind = bind
    BY <1>1, <2>1, <2>2, <2>6, HostParts, FromTrans DEF OnlyOne
  <2>8. From(Host, Host, {}) /\ Host.bind = bind
    BY <1>1, HostParts, FromSelf
  <2>9. h = o \/ h = Host
    OBVIOUS
  <2> HIDE DEF h
  <2> QED BY <1>1, <2>6, <2>7, <2>8, <2>9
<1> HIDE DEF h
<1>7. h \in Hosts /\ h.tabs = tabs /\ h.active = active
  BY <1>6, HostParts DEF Whole, From
<1> DEFINE T == tabs \ {t}
           v == IF active = t THEN u ELSE active
           d == Turned(h, T, v)
           r == Reaped(d)
           g == Synced(r)
<1>8. [h EXCEPT !.tabs = @ \ {t}, !.active = IF @ = t THEN u ELSE @] = d
  BY <1>7 DEF Hosts, Turned
<1>9. /\ T \subseteq Tabs /\ v \in T
      /\ \A w \in T : w \in h.tabs \/ h.bind[w] = 0
  BY <1>1, <1>2, <1>7, HostParts DEF Whole
<1>10. Becomes(g) /\ UNCHANGED <<known, objbk>>
  BY <1>2, <1>8 DEF Settles
<1>11. Whole(d) /\ Later(h, d) /\ d.tabs = T /\ d.bind = h.bind /\ d.sess = h.sess
  <2> HIDE DEF T, v
  <2> QED BY <1>6, <1>9, TurnedSound
<1> HIDE DEF d
<1>12. Whole(g) /\ Stable(g) /\ From(d, g, {})
  BY <1>11, TidySound DEF Stable
<1> HIDE DEF g
<1>13. Later(Host, g)
  <2>1. Later(Host, d)
    BY <1>1, <1>6, <1>11, FromLater, LaterTrans
  <2> QED BY <1>1, <1>11, <1>12, <2>1, FromLater, LaterTrans
<1>14. TabsInv'
  BY <1>10, <1>12, <1>13, InvKept
<1>15. g.bind = bind' /\ g.sess = sess' /\ g.tabs = tabs' /\ g.tabs = T
  BY <1>10, <1>11, <1>12 DEF Becomes, From
<1>16. ASSUME NEW w \in tabs \cap tabs' PROVE Leaves(w)
  <2>1. w \in d.tabs \ {} /\ w \in h.tabs \ {}
    BY <1>7, <1>11, <1>15
  <2>2. ASSUME bind[w] # 0
        PROVE  /\ bind'[w] = bind[w]
               /\ sess'[bind[w]].spec.srv = sess[bind[w]].spec.srv
    <3>1. d.bind[w] # 0 /\ h.bind[w] # 0 /\ Host.bind[w] # 0 /\ w \in Host.tabs \ {}
      BY <1>6, <1>11, <2>2, HostParts
    <3>2. g.bind[w] = d.bind[w] /\ g.sess[d.bind[w]].spec.srv = d.sess[d.bind[w]].spec.srv
      BY <1>11, <1>12, <2>1, <3>1, FromLeaves
    <3>3. h.sess[Host.bind[w]].spec.srv = Host.sess[Host.bind[w]].spec.srv
      BY <1>1, <1>6, <3>1, FromLeaves
    <3> QED BY <1>6, <1>11, <1>15, <3>2, <3>3, HostParts
  <2> QED BY <2>2 DEF Leaves
<1> QED BY <1>14, <1>16

\* A connection the user asked for in the connect window.
LEMMA AttemptSound ==
  ASSUME NEW h, Whole(h), NEW i \in Ids, h.sess[i].there, NEW spec \in Specs, spec # Spec0
  PROVE  /\ Sound(h, Attempt(h, i, spec)) /\ Later(h, Attempt(h, i, spec))
         /\ Attempt(h, i, spec).bind = h.bind
         /\ Attempt(h, i, spec).sess[i].spec = spec
         /\ \A j \in Ids \ {i} : Attempt(h, i, spec).sess[j] = h.sess[j]
<1> DEFINE b == Aimed(h, i, spec)
           cmd == [NoCmd EXCEPT !.op = "login", !.for = i, !.to = spec]
           g == Sends(b, i, cmd)
<1>1. cmd \in Commands
  BY EmptySeq DEF NoCmd, Commands
<1>2. b.sess[i].spec = spec
  <2>1. h \in Hosts /\ h.sess[i] \in Session
    BY SessionTypes DEF Whole
  <2> QED BY <2>1 DEF Aimed, Hosts, Session
<1>3. /\ Sound(h, b) /\ OnlyOne(h, b, i) /\ b.sess[i].there /\ b \in Hosts
      /\ b.sess[i].owner = h.sess[i].owner
  BY AimedSound
<1>4. Attempt(h, i, spec) = g
  BY DEF Attempt
<1> HIDE DEF b, cmd
<1>5. Whole(b)
  BY <1>3 DEF Sound
<1>6. Sound(b, g) /\ From(b, g, {}) /\ g.sess = b.sess /\ g.bind = b.bind
  BY <1>1, <1>3, <1>5, SendsSound
<1>7. Later(h, b)
  <2>1. h.made <= b.made
    BY <1>3, TabsAssumption DEF OnlyOne, Whole, Hosts, Ids
  <2> QED BY <1>3, <2>1 DEF Later, OnlyOne
<1>8. Whole(g)
  BY <1>6 DEF Sound
<1> HIDE DEF g
<1>9. Sound(h, g) /\ Later(h, g)
  BY <1>3, <1>5, <1>6, <1>7, <1>8, SoundTrans, FromLater, LaterTrans
<1> QED BY <1>2, <1>3, <1>4, <1>6, <1>9 DEF OnlyOne

LEMMA AttemptStep ==
  ASSUME TabsInv, UNCHANGED <<known, objbk, does>>, NEW h, Stable(h), Later(Host, h), h.bind = bind,
         NEW i \in Ids, h.sess[i].there, NEW spec \in Specs, spec # Spec0,
         Becomes(Attempt(h, i, spec))
  PROVE  /\ TabsInv' /\ bind' = bind /\ sess'[i].spec = spec
         /\ \A j \in Ids \ {i} : sess'[j] = h.sess[j]
<1> DEFINE g == Attempt(h, i, spec)
<1>1. Whole(h)
  BY DEF Stable
<1>2. /\ Sound(h, g) /\ Later(h, g) /\ g.bind = bind /\ g.sess[i].spec = spec
      /\ \A j \in Ids \ {i} : g.sess[j] = h.sess[j]
  BY <1>1, AttemptSound
<1>3. Becomes(g)
  OBVIOUS
<1> HIDE DEF g
<1>4. Stable(g) /\ Whole(g)
  BY <1>2, SoundStable DEF Stable
<1>5. Later(Host, g)
  BY <1>1, <1>2, <1>4, HostStable, LaterTrans
<1>6. TabsInv'
  BY <1>3, <1>4, <1>5, InvKept
<1> QED BY <1>2, <1>3, <1>6 DEF Becomes

\* A session is taken for another server only if no tab but those that have
\* no other choice is on it.
LEMMA LoginStep ==
  ASSUME TabsInv, UNCHANGED does, NEW srv \in Servers, Login([srv |-> srv, bare |-> FALSE])
  PROVE  /\ TabsInv'
         /\ \A t \in tabs : Owned(Host, t) = {} /\ SharedOf(Host) # {Route(Host, t)} => Leaves(t)
<1> DEFINE spec == [srv |-> srv, bare |-> FALSE]
           serving == { i \in SharedOf(Host) : Serves(Host, i, spec) }
           free    == { i \in SharedOf(Host) : Recyclable(Host, i) }
           Moved(t) == Owned(Host, t) = {} /\ SharedOf(Host) # {Route(Host, t)}
<1>1. Stable(Host) /\ Whole(Host) /\ Host \in Hosts /\ Later(Host, Host)
  BY HostStable, FromSelf, FromLater
<1>2. spec \in Specs /\ spec # Spec0 /\ spec.srv = srv
  BY TabsAssumption DEF Specs, Spec0
<1>3. UNCHANGED <<known, objbk, does>>
  BY DEF Login
<1>4. /\ \A i \in serving : i \in Ids /\ Common(Host, i) /\ Host.sess[i].spec = spec
      /\ \A i \in free : i \in Ids /\ Common(Host, i) /\ Recyclable(Host, i)
  BY <1>1, SharedIsCommon DEF Serves
<1>5. ASSUME NEW t \in tabs, bind[t] # 0, Owned(Host, t) = {}
      PROVE  Route(Host, t) = bind[t] /\ bind[t] \in Ids /\ bind[t] <= made
  <2>1. t \in Host.tabs /\ Host.bind[t] # 0 /\ t \in Tabs
    BY <1>5, HostParts, HostStable
  <2>2. Route(Host, t) = bind[t] /\ Route(Host, t) \in Ids
    BY <1>1, <1>5, <2>1, HostParts, RouteThere
  <2> QED BY <1>1, <2>1, <2>2, HostParts DEF Whole
<1>6. \/ \E i \in serving : Becomes(Attempt(Host, i, spec))
      \/ \E i \in free : Becomes(Attempt(Host, i, spec))
      \/ Room(Host) /\ Becomes(Attempt(Made(Host, None), made + 1, spec))
  BY Zenon DEF Login
<1> HIDE DEF spec, serving, free
<1>7. CASE \E i \in serving : Becomes(Attempt(Host, i, spec))
  <2>1. PICK i \in serving : Becomes(Attempt(Host, i, spec))
    BY <1>7
  <2>2. i \in Ids /\ Host.sess[i].there /\ Host.sess[i].spec = spec
    BY <1>4 DEF Common
  <2>3. /\ TabsInv' /\ bind' = bind /\ sess'[i].spec = spec
        /\ \A j \in Ids \ {i} : sess'[j] = sess[j]
    BY <1>1, <1>2, <1>3, <2>1, <2>2, HostParts, AttemptStep
  <2>4. ASSUME NEW t \in tabs, Moved(t), bind[t] # 0
        PROVE  bind'[t] = bind[t] /\ sess'[bind[t]].spec.srv = sess[bind[t]].spec.srv
    BY <1>5, <2>2, <2>3, <2>4, HostParts
  <2> QED BY <2>3, <2>4 DEF Leaves
<1>8. CASE \E i \in free : Becomes(Attempt(Host, i, spec))
  <2>1. PICK i \in free : Becomes(Attempt(Host, i, spec))
    BY <1>8
  <2>2. i \in Ids /\ Host.sess[i].there /\ Recyclable(Host, i)
    BY <1>4 DEF Common
  <2>3. /\ TabsInv' /\ bind' = bind
        /\ \A j \in Ids \ {i} : sess'[j] = sess[j]
    BY <1>1, <1>2, <1>3, <2>1, <2>2, HostParts, AttemptStep
  <2>4. ASSUME NEW t \in tabs, Moved(t), bind[t] # 0
        PROVE  bind'[t] = bind[t] /\ sess'[bind[t]].spec.srv = sess[bind[t]].spec.srv
    <3>1. Route(Host, t) = bind[t] /\ bind[t] \in Ids
      BY <1>5, <2>4
    <3>2. bind[t] # i
      BY <2>2, <2>4, <3>1, HostParts DEF Recyclable, Users
    <3> QED BY <2>3, <3>1, <3>2
  <2> QED BY <2>3, <2>4 DEF Leaves
<1>9. CASE Room(Host) /\ Becomes(Attempt(Made(Host, None), made + 1, spec))
  <2> DEFINE h == Made(Host, None)
             n == made + 1
  <2>1. /\ Sound(Host, h) /\ From(Host, h, {}) /\ n \in Ids /\ h.bind = bind
        /\ h.sess[n] = [NewSession EXCEPT !.there = TRUE, !.owner = None]
        /\ \A j \in Ids : j # n => h.sess[j] = sess[j]
    <3>1. None \in Host.tabs \cup {None} /\ Room(Host)
      BY <1>9
    <3> QED BY <1>1, <3>1, HostParts, MadeSound
  <2>2. Becomes(Attempt(h, n, spec))
    BY <1>9
  <2> HIDE DEF h, n
  <2>3. Stable(h) /\ Later(Host, h) /\ h.sess[n].there
    BY <1>1, <2>1, SoundStable, FromLater DEF NewSession
  <2>4. /\ TabsInv' /\ bind' = bind
        /\ \A j \in Ids \ {n} : sess'[j] = h.sess[j]
    BY <1>2, <1>3, <2>1, <2>2, <2>3, AttemptStep
  <2>5. ASSUME NEW t \in tabs, Moved(t), bind[t] # 0
        PROVE  bind'[t] = bind[t] /\ sess'[bind[t]].spec.srv = sess[bind[t]].spec.srv
    <3>1. bind[t] \in Ids /\ bind[t] <= made
      BY <1>5, <2>5
    <3>2. bind[t] # n
      BY <1>1, <3>1, HostParts, TabsAssumption DEF n, Hosts, Ids
    <3> QED BY <2>1, <2>4, <3>1, <3>2
  <2> QED BY <2>4, <2>5 DEF Leaves
<1> QED BY <1>6, <1>7, <1>8, <1>9

\* The tab gives up its own session and goes to the shared one.
LEMMA UseStep ==
  ASSUME TabsInv, UNCHANGED does, NEW t \in Tabs, NEW i \in Ids, Use(t, i)
  PROVE  TabsInv' /\ \A u \in tabs \ {t} : Leaves(u)
<1> DEFINE k == Route(Host, t)
           l == Left(Host, k, FALSE)
           h == IF Owned(Host, t) # {} THEN Reaped(l) ELSE Host
           b == [h EXCEPT !.bind[t] = i]
           g == Synced(Reaped(b))
<1>1. Stable(Host) /\ Whole(Host) /\ Host \in Hosts /\ tabs \subseteq Tabs
  BY HostStable
<1>2. /\ t \in tabs /\ i \in SharedOf(Host) /\ (sess[i].connected \/ Busy(Host, i))
      /\ Becomes(g) /\ UNCHANGED <<known, objbk>>
  BY DEF Use, Settles
<1>3. Common(Host, i)
  BY <1>1, <1>2, SharedIsCommon
<1>4. Whole(h) /\ From(Host, h, {}) /\ Common(h, i)
  <2>1. CASE Owned(Host, t) # {}
    <3>1. k \in Ids /\ Host.sess[k].there /\ Host.sess[k].owner # None
      BY <1>1, <1>2, <2>1, HostParts, RouteThere
    <3> HIDE DEF k
    <3>2. Whole(l) /\ From(Host, l, {}) /\ OnlyOne(Host, l, k)
      BY <1>1, <3>1, LeftSound
    <3>3. i # k
      BY <1>3, <3>1 DEF Common
    <3>4. l.sess[i] = sess[i] /\ l.wk[i] = wk[i]
      BY <3>2, <3>3, HostParts DEF OnlyOne
    <3> HIDE DEF l
    <3>5. Common(l, i) /\ ~Unused(l, i)
      BY <1>2, <1>3, <3>4, HostParts DEF Common, Unused, Busy
    <3>6. i \notin Gone(l)
      BY <3>5 DEF Gone, Common
    <3>7. /\ Reaped(l).sess = [j \in Ids |-> IF j \in Gone(l) THEN NewSession ELSE l.sess[j]]
          /\ Whole(Reaped(l)) /\ From(l, Reaped(l), {})
      BY <3>2, ReapedIs, ReapedSound
    <3>8. h = Reaped(l)
      BY <2>1
    <3> HIDE DEF h
    <3>9. h.sess[i] = l.sess[i] /\ Whole(h) /\ From(l, h, {})
      BY <3>6, <3>7, <3>8
    <3> QED BY <1>1, <3>2, <3>5, <3>9, FromTrans DEF Common
  <2>2. CASE Owned(Host, t) = {}
    BY <1>1, <1>3, <2>2, FromSelf
  <2> QED BY <2>1, <2>2
<1> HIDE DEF h, k, l
<1>5. h.tabs = tabs
  BY <1>4, HostParts DEF From
<1>6. Whole(b) /\ From(h, b, {t})
  BY <1>2, <1>4, <1>5, BoundSound DEF Sound
<1> HIDE DEF b
<1>7. Whole(g) /\ Stable(g) /\ From(b, g, {})
  BY <1>6, TidySound DEF Stable
<1> HIDE DEF g
<1>8. From(Host, g, {t})
  <2>1. From(Host, b, {t})
    BY <1>1, <1>4, <1>6, FromLess, FromTrans
  <2>2. From(b, g, {t})
    BY <1>7, FromLess
  <2> QED BY <1>1, <1>6, <1>7, <2>1, <2>2, FromTrans
<1>9. TabsInv'
  BY <1>2, <1>7, <1>8, FromLater, InvKept
<1>10. g.bind = bind' /\ g.sess = sess'
  BY <1>2 DEF Becomes
<1>11. ASSUME NEW u \in tabs \ {t} PROVE Leaves(u)
  <2>1. u \in Host.tabs \ {t}
    BY HostParts
  <2> QED BY <1>1, <1>7, <1>8, <1>10, <2>1, HostParts, FromLeaves DEF Leaves
<1> QED BY <1>9, <1>11

-----------------------------------------------------------------------------
(* The theorems.                                                           *)

LEMMA InitInv == Init => TabsInv
<1> SUFFICES ASSUME Init PROVE TabsInv
  OBVIOUS
<1>1. PICK t \in Tabs : /\ tabs = {t} /\ active = t
                        /\ bind = [u \in Tabs |-> IF u = t THEN Shared ELSE 0]
  BY DEF Init
<1>2. MaxSessions \in Nat \ {0} /\ 1 \in Ids /\ 1 \in 0..MaxSessions /\ 0 \in 0..MaxSessions
  BY TabsAssumption DEF Ids
<1> DEFINE first == [NewSession EXCEPT !.there = TRUE]
<1>3. first \in Session /\ first.there /\ first.owner = None /\ ~first.closing /\ ~first.idle
  BY NewTypes DEF Session, NewSession
<1>4. ~NewSession.there /\ ~NewSession.closing /\ ~NewSession.idle /\ NewWorker.cmds = <<>>
  BY DEF NewSession, NewWorker
<1>5. sess = [i \in Ids |-> IF i = 1 THEN first ELSE NewSession] /\ wk = [i \in Ids |-> NewWorker]
  BY DEF Init, Shared
<1>6. default = 1 /\ made = 1
  BY DEF Init, Shared
<1> HIDE DEF first
<1>7. Host \in Hosts
  <2>1. sess \in [Ids -> Session] /\ wk \in [Ids -> Workers]
    BY <1>3, <1>5, NewTypes
  <2>2. bind \in [Tabs -> 0..MaxSessions] /\ tabs \subseteq Tabs /\ active \in Tabs
    BY <1>1, <1>2 DEF Shared
  <2> QED BY <1>2, <1>6, <2>1, <2>2 DEF Host, Hosts
<1>8. sess[1] = first /\ \A i \in Ids : i # 1 => sess[i] = NewSession
  BY <1>2, <1>5
<1>9. \A u \in Tabs : bind[u] = IF u = t THEN 1 ELSE 0
  BY <1>1 DEF Shared
<1>10. Whole(Host)
  <2>1. Common(Host, 1)
    BY <1>3, <1>8, HostParts DEF Common
  <2>2. \A u \in Tabs : bind[u] <= made
    BY <1>6, <1>9
  <2>3. \A i \in Ids : /\ sess[i].there => i <= made
                       /\ sess[i].closing => sess[i].owner # None
                       /\ sess[i].idle => sess[i].spec # Spec0
                       /\ wk[i].cmds # <<>> => sess[i].there
    BY <1>3, <1>4, <1>5, <1>6, <1>8
  <2> QED BY <1>1, <1>6, <1>7, <1>9, <2>1, <2>2, <2>3, HostParts DEF Whole
<1>11. Neat(Host)
  BY <1>1, <1>3, <1>4, <1>8, <1>9, HostParts DEF Neat
<1>12. Tied(Host)
  BY <1>1, <1>9, HostParts DEF Tied
<1>13. BackupOK
  <2>1. NoBackup \in Backups
    BY <1>2, EmptySeq DEF NoBackup, Backups
  <2> QED BY <2>1 DEF Init, BackupOK
<1> QED BY <1>10, <1>11, <1>12, <1>13 DEF TabsInv, Init

\* The tab is still there, has no session of its own, and it is not the only
\* shared one that it is on.
Shares(t) == t \in tabs' /\ Owned(Host, t) = {} /\ SharedOf(Host) # {Route(Host, t)}

LEMMA QuietOthers ==
  ASSUME TabsInv, TabsInv', Quiet, NEW t \in tabs \ {active}, Shares(t)
  PROVE  Leaves(t) \/ \E i \in Ids : Use(t, i)
BY QuietLeaves

LEMMA StepInv ==
  ASSUME TabsInv, Next
  PROVE  /\ TabsInv'
         /\ \A t \in tabs \ {active} : Shares(t) => Leaves(t) \/ \E i \in Ids : Use(t, i)
<1> USE DEF Next
<1> DEFINE Goal == /\ TabsInv'
                   /\ \A t \in tabs \ {active} :
                        Shares(t) => Leaves(t) \/ \E i \in Ids : Use(t, i)
<1>1. TabsInv' /\ Quiet => Goal
  BY QuietOthers
<1>2. ASSUME NEW t \in Tabs, OpenTab(t) PROVE Goal
  BY <1>2, OpenStep
<1>3. ASSUME NEW t \in Tabs, CloseTab(t) PROVE Goal
  BY <1>3, CloseStep DEF Shares
<1>4. ASSUME NEW t \in Tabs, ShowTab(t) PROVE Goal
  BY <1>4, ShowStep
<1>5. ASSUME NEW srv \in Servers, Login([srv |-> srv, bare |-> FALSE]) PROVE Goal
  BY <1>5, LoginStep DEF Shares
<1>6. ASSUME NEW i \in Ids, Again(i) PROVE Goal
  BY <1>1, <1>6, AgainStep
<1>7. ASSUME NEW i \in Ids, Activate(i) PROVE Goal
  BY <1>1, <1>7, ActivateStep
<1>8. ASSUME NEW t \in Tabs, Unconnect(t) PROVE Goal
  BY <1>1, <1>8, UnconnectStep
<1>9. ASSUME NEW t \in Tabs, NEW i \in Ids, Use(t, i) PROVE Goal
  BY <1>9, UseStep
<1>10. ASSUME DisconnectForce PROVE Goal
  BY <1>1, <1>10, DisconnectStep
<1>11. ASSUME NEW i \in Ids, DropObject(i) PROVE Goal
  BY <1>1, <1>11, DropStep
<1>12. ASSUME TakenUp PROVE Goal
  BY <1>1, <1>12, TakenUpStep
<1>13. ASSUME BackupFails PROVE Goal
  BY <1>1, <1>13, BackupFailsStep
<1>14. ASSUME NEW i \in Ids, IdleClose(i) PROVE Goal
  BY <1>1, <1>14, IdleStep
<1>15. ASSUME NEW script \in does.scripts, Press(script) PROVE Goal
  BY <1>1, <1>15, PressStep
<1>16. ASSUME NEW script \in does.scripts, PressClose(script) PROVE Goal
  BY <1>1, <1>16, PressCloseStep
<1>17. ASSUME NEW i \in Ids, NEW refused \in Refusable, Answers(i, refused) PROVE Goal
  BY <1>1, <1>17, AnswersStep
<1> HIDE DEF Goal
<1>18. Goal
  BY <1>2, <1>3, <1>4, <1>5, <1>6, <1>7, <1>8, <1>9, <1>10, <1>11, <1>12, <1>13, <1>14, <1>15,
     <1>16, <1>17 DEF Step
<1> QED BY <1>18 DEF Goal

LEMMA StutterInv ==
  ASSUME TabsInv, UNCHANGED vars
  PROVE  TabsInv'
<1>1. Host' = Host /\ UNCHANGED <<does, known, objbk, made, sess>>
  BY DEF vars, Host
<1>2. (Whole(Host) /\ Neat(Host) /\ Tied(Host))'
  BY <1>1 DEF TabsInv
<1>3. BackupOK'
  BY <1>1 DEF TabsInv, BackupOK
<1> QED BY <1>1, <1>2, <1>3 DEF TabsInv

LEMMA InvTypes == TabsInv => TypeOK
<1> SUFFICES ASSUME TabsInv PROVE TypeOK
  OBVIOUS
<1>1. /\ Host \in Hosts /\ Whole(Host) /\ Neat(Host) /\ Tied(Host)
      /\ does \in Workloads /\ known \subseteq Servers
  BY HostStable DEF TabsInv
<1>2. /\ tabs \subseteq Tabs /\ active \in tabs /\ bind \in [Tabs -> 0..MaxSessions]
      /\ made \in Ids /\ default \in Ids /\ sess \in [Ids -> Session] /\ wk \in [Ids -> Workers]
  BY <1>1, HostParts DEF Hosts, Whole
<1>3. bind \in [Tabs -> 0..made]
  <2>1. \A t \in Tabs : bind[t] \in 0..made
    BY <1>1, <1>2, HostParts, TabsAssumption DEF Whole, Ids
  <2> QED BY <1>2, <2>1
<1>4. DOMAIN wk = Ids /\ \A i \in Ids : wk[i].link \in Servers \cup {None}
  BY <1>2 DEF Workers
<1>5. sess[default].there /\ sess[default].owner = None
  BY <1>1, HostParts DEF Whole, Common
<1>6. \A t \in tabs : bind[t] # 0 \/ \E i \in Ids : sess[i].there /\ sess[i].owner = t
  BY <1>1, HostParts DEF Tied, Owned
<1>7. \A i \in Ids : sess[i].there /\ sess[i].owner # None => sess[i].owner \in tabs
  BY <1>1, HostParts DEF Neat
<1> QED BY <1>1, <1>2, <1>3, <1>4, <1>5, <1>6, <1>7 DEF TypeOK

\* A tab on a shared connection before and after is where its binding says.
LEMMA LeavesServer ==
  ASSUME TabsInv, TabsInv', NEW t, SharedTabs(t), SharedTabs(t)', Leaves(t)
  PROVE  ServerOf(t)' = ServerOf(t)
<1>1. t \in Host.tabs /\ Owned(Host, t) = {} /\ t \in Host'.tabs /\ Owned(Host', t) = {}
  <2>1. Host.tabs = tabs /\ Host'.tabs = tabs'
    BY DEF Host
  <2>2. t \in tabs /\ Owned(Host, t) = {} /\ t \in tabs' /\ Owned(Host', t) = {}
    BY DEF SharedTabs
  <2> QED BY <2>1, <2>2
<1>2. Whole(Host) /\ Tied(Host) /\ Whole(Host') /\ Tied(Host')
  BY DEF TabsInv
<1>3. Host.bind[t] # 0 /\ Host'.bind[t] # 0
  BY <1>1, <1>2 DEF Tied
<1>4. Route(Host, t) = Host.bind[t] /\ Route(Host', t) = Host'.bind[t]
  BY <1>1, <1>2, <1>3, RouteThere
<1>5. Host.bind = bind /\ Host'.bind = bind'
  BY DEF Host
<1> QED BY <1>3, <1>4, <1>5 DEF Leaves, ServerOf

\* The invariant holds in every state: what a tab is bound to is a shared
\* session that is there, and every tab has a session.
THEOREM Invariant == Spec => []TabsInv
<1>1. TabsInv /\ [Next]_vars => TabsInv'
  BY StepInv, StutterInv
<1> QED BY <1>1, InitInv, PTL DEF Spec

\* The types of the host, the sessions and their workers; the active shared
\* connection exists, and every tab has a session (sessions.rs).
THEOREM TypeCorrect == Spec => []TypeOK
BY Invariant, InvTypes, PTL

\* A tab on a shared connection stays on its server, whatever the user does
\* with other tabs, the connect window or the sessions, and whatever the
\* servers answer (login_plan, reap_shared, sync_sess).
THEOREM TabsKeepTheirServer == Spec => TabsStay
<1> DEFINE Stay == \A t \in tabs \ {active} :
             SharedTabs(t) /\ SharedTabs(t)' /\ SharedOf(Host) # {Route(Host, t)}
               /\ ServerOf(t) # None
             => ServerOf(t)' = ServerOf(t) \/ \E i \in Ids : Use(t, i)
<1>1. TabsInv /\ TabsInv' /\ [Next]_vars => [Stay]_vars
  <2>1. ASSUME TabsInv, TabsInv', Next, NEW t \in tabs \ {active}, SharedTabs(t), SharedTabs(t)',
               SharedOf(Host) # {Route(Host, t)}
        PROVE  ServerOf(t)' = ServerOf(t) \/ \E i \in Ids : Use(t, i)
    <3>1. Shares(t)
      BY <2>1 DEF Shares, SharedTabs
    <3>2. Leaves(t) \/ \E i \in Ids : Use(t, i)
      BY <2>1, <3>1, StepInv
    <3> QED BY <2>1, <3>2, LeavesServer
  <2> QED BY <2>1
<1>2. Spec => []TabsInv
  BY Invariant
<1> QED BY <1>1, <1>2, PTL DEF Spec, TabsStay

-----------------------------------------------------------------------------
(* Where the changes of a text run.  What follows is about the workloads   *)
(* that leave out what TabsAsked and TabsProd go wrong by.                 *)

\* No login is refused, a CONNECT leads its text, and it gives a server of
\* production by its text and not by the name of a profile; nothing waits for
\* a backup.
Calm(d) ==
  /\ ~d.refuses /\ "backup" \notin d.ops
  /\ \A x \in d.scripts : \A k \in DOMAIN x :
       x[k].do = "connect" => k = 1 /\ ~(x[k].to.bare /\ x[k].to.srv \in Production)
\* .. and a change to production is held, not confirmed, and no object is
\* dropped by a session of another server.
Direct(d) == Calm(d) /\ "confirm" \notin d.ops /\ "object" \notin d.ops
\* What is asked is asked of the session of the tab in front.
InFront(d) == /\ "backup" \notin d.ops /\ "object" \notin d.ops
              /\ "manual" \notin d.ops \/ "tabs" \notin d.ops

\* A text whose CONNECT, if any, leads it and is to srv; a command that
\* starts by connecting; a worker whose next command is one.
Led(x, srv) == \A k \in DOMAIN x : x[k].do = "connect" => k = 1 /\ x[k].to.srv = srv
Leads(c) == \/ c.op \in {"connect", "login"}
            \/ c.op = "run" /\ c.script # <<>> /\ c.script[1].do = "connect"
Leading(w) == w.cmds # <<>> /\ Leads(w.cmds[1])

\* Command c of session i, the k-th: it goes to the server the session is
\* meant for, guarded if that is production, and from the server shown.
Suits(d, i, s, w, c, k) ==
  /\ InFront(d) => c.for = i
  /\ Calm(d) =>
       /\ c.op \in {"connect", "login"} => c.to.srv = s.spec.srv
       /\ c.op = "run" => /\ Led(c.script, s.spec.srv)
                          /\ HasChange(c.script) /\ s.spec.srv \in Production => c.guarded
  /\ Direct(d) /\ c.op = "run" /\ ~Leads(c) => c.shown = s.spec.srv \/ (k = 1 /\ w.link = None)

\* The session itself, whatever its worker is to do.
AtRest(d, s, w) ==
  /\ InFront(d) /\ "manual" \notin d.ops => s.open = {}
  /\ Calm(d) => ~(s.spec.bare /\ s.spec.srv \in Production) /\ (~s.there => w.link = None)
  /\ Direct(d) /\ s.idle => s.desc = s.spec.srv

\* The worker is where the host believes it is.
InPlace(d, s, w) ==
  /\ Calm(d) /\ w.link \in Production => s.spec.srv \in Production
  /\ Direct(d) => /\ w.link # None => w.link = s.spec.srv
                  /\ w.link # None \/ s.connected => s.desc = s.spec.srv

Fit(d, i, s, w) ==
  /\ AtRest(d, s, w)
  /\ \A k \in DOMAIN w.cmds : Suits(d, i, s, w, w.cmds[k], k)
  /\ InPlace(d, s, w) \/ Leading(w)
AllFit(h) == \A i \in Ids : Fit(does, i, h.sess[i], h.wk[i])

\* A workload of none of the kinds promises nothing.
LEMMA FitFree ==
  ASSUME NEW d, "backup" \in d.ops, NEW i, NEW s, NEW w
  PROVE  Fit(d, i, s, w)
BY DEF Fit, AtRest, Suits, InPlace, Calm, Direct, InFront

-----------------------------------------------------------------------------
(* One session: what keeps it fit.                                         *)

\* It knows no more than before.
LEMMA FitLess ==
  ASSUME NEW d, NEW i, NEW s, NEW w, Fit(d, i, s, w), NEW x,
         x.there = s.there, x.spec = s.spec, x.desc = s.desc, x.idle => s.idle,
         x.connected => s.connected, x.open \subseteq s.open
  PROVE  Fit(d, i, x, w)
<1>1. AtRest(d, x, w)
  BY DEF Fit, AtRest
<1>2. \A k \in DOMAIN w.cmds : Suits(d, i, x, w, w.cmds[k], k)
  BY DEF Fit, Suits
<1>3. InPlace(d, x, w) \/ Leading(w)
  BY DEF Fit, InPlace
<1> QED BY <1>1, <1>2, <1>3 DEF Fit

\* Its worker is another one, not connected and with nothing to do.
LEMMA FitNewWorker ==
  ASSUME NEW d, NEW i, NEW s, NEW w, AtRest(d, s, w), NEW x,
         x.spec = s.spec, ~x.connected, x.open \subseteq s.open,
         x.idle => s.idle \/ (Direct(d) => x.desc = x.spec.srv), x.idle /\ s.idle => x.desc = s.desc
  PROVE  Fit(d, i, x, NewWorker)
<1>1. NewWorker.link = None /\ NewWorker.cmds = <<>> /\ DOMAIN NewWorker.cmds = {}
  BY DEF NewWorker
<1>2. None \notin Production
  BY TabsAssumption
<1>3. AtRest(d, x, NewWorker)
  BY <1>1 DEF AtRest
<1>4. InPlace(d, x, NewWorker)
  BY <1>1, <1>2 DEF InPlace
<1> QED BY <1>1, <1>3, <1>4 DEF Fit

\* A session not made yet, and one just made.
LEMMA FitNew ==
  ASSUME NEW d, NEW i
  PROVE  Fit(d, i, NewSession, NewWorker)
<1>1. /\ NewSession.spec = Spec0 /\ ~Spec0.bare /\ Spec0.srv = None /\ NewSession.open = {}
      /\ ~NewSession.idle /\ ~NewSession.connected
  BY DEF NewSession, Spec0
<1>2. NewWorker.link = None
  BY DEF NewWorker
<1>3. AtRest(d, NewSession, NewWorker)
  BY <1>1, <1>2 DEF AtRest
<1> QED BY <1>1, <1>3, FitNewWorker

LEMMA FitMade ==
  ASSUME NEW d, NEW i, NEW s, NEW w, Fit(d, i, s, w), ~s.there, w.cmds = <<>>, NEW x,
         x.spec = Spec0, ~x.idle, ~x.connected, x.open = {}
  PROVE  Fit(d, i, x, w)
<1>1. Spec0.srv = None /\ ~Spec0.bare /\ None \notin Production /\ DOMAIN w.cmds = {}
  BY TabsAssumption DEF Spec0
<1>2. AtRest(d, x, w)
  BY <1>1 DEF Fit, AtRest
<1>3. InPlace(d, x, w)
  <2>1. Calm(d) => w.link = None
    BY DEF Fit, AtRest
  <2> QED BY <1>1, <2>1 DEF InPlace, Direct
<1> QED BY <1>1, <1>2, <1>3 DEF Fit

\* It is sent a command: one that connects, or one for where it is.
LEMMA FitSent ==
  ASSUME NEW d, NEW i, NEW s, NEW w \in Workers, NEW c \in Commands, NEW v \in Workers,
         v.link = w.link, v.cmds = Append(w.cmds, c),
         AtRest(d, s, w), \A k \in DOMAIN w.cmds : Suits(d, i, s, w, w.cmds[k], k),
         Suits(d, i, s, w, c, Len(w.cmds) + 1),
         InPlace(d, s, w) \/ Leading(w) \/ (w.cmds = <<>> /\ Leads(c))
  PROVE  Fit(d, i, s, v)
<1> DEFINE n == Len(w.cmds)
<1>1. w.cmds \in Seq(Commands) /\ n \in Nat
  BY LenProperties DEF Workers
<1>2. /\ DOMAIN v.cmds = 1..(n + 1) /\ DOMAIN w.cmds = 1..n
      /\ \A k \in 1..n : v.cmds[k] = w.cmds[k]
      /\ v.cmds[n + 1] = c /\ v.cmds # <<>>
  BY <1>1, AppendProperties
<1>3. AtRest(d, s, v)
  BY DEF AtRest
<1>4. ASSUME NEW k \in DOMAIN v.cmds PROVE Suits(d, i, s, v, v.cmds[k], k)
  <2>1. CASE k = n + 1
    BY <1>2, <2>1 DEF Suits
  <2>2. CASE k # n + 1
    <3>1. k \in DOMAIN w.cmds /\ v.cmds[k] = w.cmds[k]
      BY <1>1, <1>2, <2>2
    <3> QED BY <3>1 DEF Suits
  <2> QED BY <2>1, <2>2
<1>5. InPlace(d, s, v) \/ Leading(v)
  <2>1. CASE InPlace(d, s, w)
    BY <2>1 DEF InPlace
  <2>2. CASE Leading(w)
    <3>1. 1 \in 1..n
      BY <1>1, <2>2, EmptySeq, LenProperties DEF Leading
    <3> QED BY <1>2, <2>2, <3>1 DEF Leading
  <2>3. CASE w.cmds = <<>> /\ Leads(c)
    <3>1. n = 0
      BY <2>3
    <3> QED BY <1>2, <2>3, <3>1 DEF Leading
  <2> QED BY <2>1, <2>2, <2>3
<1> QED BY <1>3, <1>4, <1>5 DEF Fit

-----------------------------------------------------------------------------
(* All sessions: what keeps them fit.                                      *)

LEMMA FitBecomes ==
  ASSUME UNCHANGED does, NEW h, AllFit(h), Becomes(h)
  PROVE  AllFit(Host)'
<1>1. Host'.sess = h.sess /\ Host'.wk = h.wk
  BY DEF Host, Becomes
<1> QED BY <1>1 DEF AllFit

LEMMA FitSame ==
  ASSUME NEW h, AllFit(h), NEW g, g.sess = h.sess, g.wk = h.wk
  PROVE  AllFit(g)
BY DEF AllFit

LEMMA FitOne ==
  ASSUME NEW h, NEW g, NEW i \in Ids,
         \A j \in Ids \ {i} : Fit(does, j, h.sess[j], h.wk[j]),
         \A j \in Ids \ {i} : g.sess[j] = h.sess[j] /\ g.wk[j] = h.wk[j],
         Fit(does, i, g.sess[i], g.wk[i])
  PROVE  AllFit(g)
<1>1. \A j \in Ids \ {i} : Fit(does, j, g.sess[j], g.wk[j])
  OBVIOUS
<1> QED BY <1>1 DEF AllFit

LEMMA SyncedSame ==
  ASSUME NEW h \in Hosts
  PROVE  Synced(h).sess = h.sess /\ Synced(h).wk = h.wk
BY DEF Synced, Hosts

LEMMA FitReaped ==
  ASSUME NEW h, Whole(h), AllFit(h)
  PROVE  AllFit(Reaped(h))
<1> DEFINE r == Reaped(h)
<1>1. /\ r.sess = [i \in Ids |-> IF i \in Gone(h) THEN NewSession ELSE h.sess[i]]
      /\ r.wk = [i \in Ids |-> IF i \in Gone(h) THEN NewWorker ELSE h.wk[i]]
  BY ReapedIs
<1> HIDE DEF r
<1>2. ASSUME NEW i \in Ids PROVE Fit(does, i, r.sess[i], r.wk[i])
  <2>1. CASE i \in Gone(h)
    <3>1. r.sess[i] = NewSession /\ r.wk[i] = NewWorker
      BY <1>1, <2>1
    <3> QED BY <3>1, FitNew
  <2>2. CASE i \notin Gone(h)
    <3>1. r.sess[i] = h.sess[i] /\ r.wk[i] = h.wk[i]
      BY <1>1, <2>2
    <3> QED BY <3>1 DEF AllFit
  <2> QED BY <2>1, <2>2
<1>3. AllFit(r)
  BY <1>2 DEF AllFit
<1> QED BY <1>3 DEF r

LEMMA FitSettles ==
  ASSUME UNCHANGED does, NEW h, Whole(h), AllFit(h), Settles(h)
  PROVE  AllFit(Host)'
<1> DEFINE r == Reaped(h)
<1>1. AllFit(r) /\ r \in Hosts
  BY FitReaped, ReapedIs
<1>2. Becomes(Synced(r))
  BY DEF Settles
<1> HIDE DEF r
<1>3. AllFit(Synced(r))
  BY <1>1, SyncedSame, FitSame
<1> QED BY <1>2, <1>3, FitBecomes

\* What sending and aiming change.
OneMore(h, g, i, c) ==
  /\ g.sess = h.sess /\ \A j \in Ids \ {i} : g.wk[j] = h.wk[j]
  /\ g.wk[i] \in Workers /\ g.wk[i].link = h.wk[i].link
  /\ g.wk[i].cmds = Append(h.wk[i].cmds, c)
MeantFor(h, g, i, spec) ==
  /\ g.wk = h.wk /\ \A j \in Ids \ {i} : g.sess[j] = h.sess[j]
  /\ g.sess[i].spec = spec /\ ~g.sess[i].idle
  /\ g.sess[i].there = h.sess[i].there /\ g.sess[i].desc = h.sess[i].desc
  /\ g.sess[i].connected = h.sess[i].connected /\ g.sess[i].open = h.sess[i].open
  /\ g.sess[i].owner = h.sess[i].owner /\ g.sess[i].closing = h.sess[i].closing

LEMMA SendsIs ==
  ASSUME NEW h \in Hosts, NEW i \in Ids, NEW c \in Commands
  PROVE  OneMore(h, Sends(h, i, c), i, c)
<1> DEFINE g == Sends(h, i, c)
<1>1. h.wk[i] \in Workers /\ h.wk[i].cmds \in Seq(Commands)
  BY SessionTypes
<1>2. Append(h.wk[i].cmds, c) \in Seq(Commands)
  BY <1>1, AppendProperties
<1> DEFINE v == [h.wk[i] EXCEPT !.cmds = Append(h.wk[i].cmds, c)]
<1>3. g.sess = h.sess /\ g.wk = [h.wk EXCEPT ![i] = v]
  <2>1. g = [h EXCEPT !.wk = [h.wk EXCEPT ![i] = v]]
    BY <1>1 DEF Sends, Hosts, Workers
  <2> HIDE DEF g, v
  <2> QED BY <2>1 DEF Hosts
<1> HIDE DEF g
<1>4. g.wk[i] = [h.wk[i] EXCEPT !.cmds = Append(h.wk[i].cmds, c)]
  <2>1. g.wk[i] = v
    <3> HIDE DEF v
    <3> QED BY <1>3 DEF Hosts
  <2> QED BY <2>1
<1>5. \A j \in Ids \ {i} : g.wk[j] = h.wk[j]
  BY <1>3 DEF Hosts
<1>6. /\ g.wk[i] \in Workers /\ g.wk[i].link = h.wk[i].link
      /\ g.wk[i].cmds = Append(h.wk[i].cmds, c)
  BY <1>1, <1>2, <1>4 DEF Workers
<1> QED BY <1>3, <1>5, <1>6 DEF g, OneMore

LEMMA AimedIs ==
  ASSUME NEW h \in Hosts, NEW i \in Ids, NEW spec \in Specs
  PROVE  MeantFor(h, Aimed(h, i, spec), i, spec)
<1> DEFINE g == Aimed(h, i, spec)
           x == [h.sess[i] EXCEPT !.spec = spec, !.idle = FALSE, !.dropped = FALSE]
<1>1. /\ g.wk = h.wk /\ g.sess = [h.sess EXCEPT ![i] = x]
  BY DEF Aimed, Hosts
<1>2. g.sess[i] = x /\ \A j \in Ids \ {i} : g.sess[j] = h.sess[j]
  BY <1>1 DEF Hosts
<1>3. h.sess[i] \in Session
  BY SessionTypes
<1> HIDE DEF g
<1>4. /\ x.spec = spec /\ ~x.idle /\ x.there = h.sess[i].there /\ x.desc = h.sess[i].desc
      /\ x.connected = h.sess[i].connected /\ x.open = h.sess[i].open
      /\ x.owner = h.sess[i].owner /\ x.closing = h.sess[i].closing
  BY <1>3 DEF Session
<1> HIDE DEF x
<1> QED BY <1>1, <1>2, <1>4 DEF g, MeantFor

\* An idle worker is told to connect.
LEMMA FitConnect ==
  ASSUME NEW h, Whole(h), NEW i \in Ids, h.sess[i].there, h.wk[i].cmds = <<>>, AllFit(h),
         NEW spec \in Specs, Calm(does) => ~(spec.bare /\ spec.srv \in Production),
         NEW c \in Commands, c.op \in {"connect", "login"}, c.for = i, c.to = spec
  PROVE  /\ AllFit(Sends(Aimed(h, i, spec), i, c))
         /\ Leading(Sends(Aimed(h, i, spec), i, c).wk[i])
         /\ Sends(Aimed(h, i, spec), i, c).sess[i].spec = spec
         /\ Len(Sends(Aimed(h, i, spec), i, c).wk[i].cmds) = 1
<1> DEFINE b == Aimed(h, i, spec)
           g == Sends(b, i, c)
<1>1. h \in Hosts
  BY DEF Whole
<1>2. /\ b.wk = h.wk /\ \A j \in Ids \ {i} : b.sess[j] = h.sess[j]
      /\ b.sess[i].spec = spec /\ ~b.sess[i].idle
      /\ b.sess[i].there = h.sess[i].there /\ b.sess[i].open = h.sess[i].open
      /\ b \in Hosts
  <2>1. b \in Hosts
    BY AimedSound
  <2>2. MeantFor(h, b, i, spec)
    BY <1>1, AimedIs
  <2> HIDE DEF b
  <2> QED BY <2>1, <2>2 DEF MeantFor
<1> HIDE DEF b
<1>3. /\ g.sess = b.sess /\ \A j \in Ids \ {i} : g.wk[j] = b.wk[j]
      /\ g.wk[i] \in Workers /\ g.wk[i].link = b.wk[i].link
      /\ g.wk[i].cmds = Append(b.wk[i].cmds, c)
  BY <1>2, SendsIs, SMTT(30) DEF OneMore
<1> HIDE DEF g
<1>4. h.wk[i] \in Workers /\ Len(h.wk[i].cmds) = 0 /\ DOMAIN h.wk[i].cmds = {}
  BY <1>1, SessionTypes
<1>5. AtRest(does, b.sess[i], h.wk[i])
  BY <1>2 DEF AllFit, Fit, AtRest
<1>6. Leads(c) /\ Suits(does, i, b.sess[i], h.wk[i], c, 1)
  BY <1>2 DEF Suits, Leads
<1>7. Fit(does, i, g.sess[i], g.wk[i])
  BY <1>2, <1>3, <1>4, <1>5, <1>6, FitSent
<1>8. AllFit(g)
  <2>1. \A j \in Ids \ {i} : g.sess[j] = h.sess[j] /\ g.wk[j] = h.wk[j]
    BY <1>2, <1>3
  <2> QED BY <1>7, <2>1, FitOne DEF AllFit
<1>9. Len(g.wk[i].cmds) = 1 /\ g.wk[i].cmds[1] = c /\ g.wk[i].cmds # <<>>
  <2>1. g.wk[i].cmds = <<c>>
    BY <1>2, <1>3
  <2> QED BY <2>1
<1>10. Leading(g.wk[i]) /\ g.sess[i].spec = spec
  BY <1>2, <1>3, <1>6, <1>9 DEF Leading
<1> QED BY <1>8, <1>9, <1>10 DEF g, b

\* Session i connects before anything else it may be sent.
OnItsWay(h, g, i) ==
  Leading(g.wk[i]) /\ g.sess[i].spec = h.sess[i].spec /\ Len(g.wk[i].cmds) = 1

LEMMA FitQuietly ==
  ASSUME NEW h, Whole(h), NEW i \in Ids, h.sess[i].there, h.wk[i].cmds = <<>>, AllFit(h),
         h.sess[i].spec # Spec0, NEW again \in BOOLEAN
  PROVE  AllFit(Quietly(h, i, h.sess[i].spec, again))
         /\ OnItsWay(h, Quietly(h, i, h.sess[i].spec, again), i)
<1> DEFINE spec == h.sess[i].spec
           c == [NoCmd EXCEPT !.op = "connect", !.for = i, !.to = spec, !.again = again]
<1>1. spec \in Specs
  BY SessionTypes DEF Whole
<1>2. c \in Commands /\ c.op \in {"connect", "login"} /\ c.for = i /\ c.to = spec
  BY <1>1, EmptySeq DEF NoCmd, Commands
<1>3. Calm(does) => ~(spec.bare /\ spec.srv \in Production)
  BY DEF AllFit, Fit, AtRest
<1>4. Quietly(h, i, spec, again) = Sends(Aimed(h, i, spec), i, c)
  BY DEF Quietly
<1> HIDE DEF c, spec
<1>5. LET g == Sends(Aimed(h, i, spec), i, c) IN
      AllFit(g) /\ Leading(g.wk[i]) /\ g.sess[i].spec = spec /\ Len(g.wk[i].cmds) = 1
  BY <1>1, <1>2, <1>3, FitConnect
<1> QED BY <1>4, <1>5 DEF spec, OnItsWay

\* A session closed for idleness is woken, any other is as it was.
LEMMA FitWoken ==
  ASSUME NEW h, Whole(h), NEW i \in Ids, h.sess[i].there, h.wk[i].cmds = <<>>
  PROVE  /\ ~h.sess[i].idle => Woken(h, i) = h
         /\ h.sess[i].idle /\ AllFit(h) => AllFit(Woken(h, i)) /\ OnItsWay(h, Woken(h, i), i)
<1>1. CASE h.sess[i].idle
  <2>1. h.sess[i].spec # Spec0
    BY <1>1 DEF Whole
  <2>2. Woken(h, i) = Quietly(h, i, h.sess[i].spec, FALSE)
    BY <1>1 DEF Woken
  <2> QED BY <1>1, <2>1, <2>2, FitQuietly
<1>2. CASE ~h.sess[i].idle
  BY <1>2 DEF Woken
<1> QED BY <1>1, <1>2

\* What is submitted.
LEMMA FitSubmitted ==
  ASSUME NEW h, Whole(h), NEW i \in Ids, h.sess[i].there,
         NEW text \in Seq(Items), NEW for \in Ids, NEW shown \in Servers \cup {None},
         NEW guarded \in BOOLEAN,
         \A j \in Ids \ {i} : Fit(does, j, h.sess[j], h.wk[j]),
         AtRest(does, h.sess[i], h.wk[i]),
         \A k \in DOMAIN h.wk[i].cmds : Suits(does, i, h.sess[i], h.wk[i], h.wk[i].cmds[k], k),
         Suits(does, i, h.sess[i], h.wk[i],
               [NoCmd EXCEPT !.op = "run", !.for = for, !.script = text, !.tab = h.active,
                             !.shown = shown, !.guarded = guarded], Len(h.wk[i].cmds) + 1),
         \/ InPlace(does, h.sess[i], h.wk[i]) \/ Leading(h.wk[i])
         \/ h.wk[i].cmds = <<>> /\ text # <<>> /\ text[1].do = "connect"
  PROVE  AllFit(Submitted(h, i, text, for, shown, guarded))
<1> DEFINE a == IF guarded THEN <<>> ELSE h.sess[i].armed
           b == [h EXCEPT !.sess[i].armed = a]
           c == [NoCmd EXCEPT !.op = "run", !.for = for, !.script = text, !.tab = h.active,
                              !.shown = shown, !.guarded = guarded]
           g == Sends(b, i, c)
<1>1. h \in Hosts /\ h.sess[i] \in Session /\ h.wk[i] \in Workers /\ h.active \in Tabs
  BY SessionTypes DEF Whole, Hosts
<1>2. a \in Arms
  BY <1>1 DEF Session, Arms
<1>3. c \in Commands /\ c.op = "run" /\ c.script = text
  BY <1>1 DEF NoCmd, Commands, Specs
<1>4. Submitted(h, i, text, for, shown, guarded) = g
  <2>1. b = [h EXCEPT !.sess[i].armed = IF guarded THEN <<>> ELSE @]
    BY <1>1 DEF Hosts, Session
  <2> QED BY <2>1 DEF Submitted
<1>5. Suits(does, i, h.sess[i], h.wk[i], c, Len(h.wk[i].cmds) + 1)
  OBVIOUS
<1> HIDE DEF a, c
<1>6. b \in Hosts
  BY <1>2, ArmedSound DEF Sound, Whole
<1>7. b.wk = h.wk /\ b.sess = [h.sess EXCEPT ![i] = [@ EXCEPT !.armed = a]]
  BY <1>1 DEF Hosts
<1> HIDE DEF b
<1>8. b.sess[i] = [h.sess[i] EXCEPT !.armed = a] /\ \A j \in Ids \ {i} : b.sess[j] = h.sess[j]
  BY <1>1, <1>7 DEF Hosts
<1>9. /\ b.sess[i].there = h.sess[i].there /\ b.sess[i].spec = h.sess[i].spec
      /\ b.sess[i].desc = h.sess[i].desc /\ b.sess[i].idle = h.sess[i].idle
      /\ b.sess[i].connected = h.sess[i].connected /\ b.sess[i].open = h.sess[i].open
  BY <1>1, <1>8 DEF Session
<1>10. /\ g.sess = b.sess /\ \A j \in Ids \ {i} : g.wk[j] = b.wk[j]
       /\ g.wk[i] \in Workers /\ g.wk[i].link = b.wk[i].link
       /\ g.wk[i].cmds = Append(b.wk[i].cmds, c)
  BY <1>3, <1>6, SendsIs DEF OneMore
<1> HIDE DEF g
<1>11. Fit(does, i, h.sess[i], g.wk[i])
  <2>1. text # <<>> /\ text[1].do = "connect" => Leads(c)
    BY <1>3 DEF Leads
  <2> DEFINE s == h.sess[i]
             w == h.wk[i]
             v == g.wk[i]
  <2>2. v \in Workers /\ v.link = w.link /\ v.cmds = Append(w.cmds, c)
    BY <1>7, <1>10
  <2>3. InPlace(does, s, w) \/ Leading(w) \/ (w.cmds = <<>> /\ Leads(c))
    BY <2>1
  <2>4. /\ w \in Workers /\ c \in Commands /\ AtRest(does, s, w)
        /\ \A k \in DOMAIN w.cmds : Suits(does, i, s, w, w.cmds[k], k)
        /\ Suits(does, i, s, w, c, Len(w.cmds) + 1)
    BY <1>1, <1>3, <1>5
  <2> HIDE DEF s, w, v
  <2>5. Fit(does, i, s, v)
    BY <2>2, <2>3, <2>4, FitSent
  <2> QED BY <2>5 DEF s, v
<1>12. Fit(does, i, g.sess[i], g.wk[i])
  <2> DEFINE s == h.sess[i]
             v == g.wk[i]
             x == g.sess[i]
  <2>1. /\ x.there = s.there /\ x.spec = s.spec /\ x.desc = s.desc /\ (x.idle => s.idle)
        /\ (x.connected => s.connected) /\ x.open \subseteq s.open /\ Fit(does, i, s, v)
    BY <1>9, <1>10, <1>11
  <2> HIDE DEF s, v, x
  <2>2. Fit(does, i, x, v)
    BY <2>1, FitLess
  <2> QED BY <2>2 DEF x, v
<1>13. AllFit(g)
  <2>1. \A j \in Ids \ {i} : g.sess[j] = h.sess[j] /\ g.wk[j] = h.wk[j]
    BY <1>7, <1>8, <1>10
  <2> QED BY <1>12, <2>1, FitOne
<1> QED BY <1>4, <1>13

-----------------------------------------------------------------------------
(* A text is placed.                                                       *)

\* In a calm workload the CONNECT that decides leads the text.
LEMMA IntentLeads ==
  ASSUME NEW d, Calm(d), NEW script \in d.scripts, script \in Seq(Items)
  PROVE  /\ \A k \in DOMAIN script : script[k].do = "connect" => k = 1 /\ script[k] = Intent(script)
         /\ Intent(script).do = "connect" =>
              /\ script # <<>> /\ script[1] = Intent(script)
              /\ ~(Intent(script).to.bare /\ Intent(script).to.srv \in Production)
<1>1. /\ Intents(script) \subseteq 1..Len(script) /\ Intents(script) \subseteq Nat
      /\ DOMAIN script = 1..Len(script) /\ Len(script) \in Nat
  BY LenProperties DEF Intents
<1>2. Intents(script) # {} => /\ Min(Intents(script)) \in Intents(script)
                              /\ \A k \in Intents(script) : Min(Intents(script)) <= k
  BY <1>1, LeastNatural
<1>3. \A k \in DOMAIN script : script[k].do = "connect" => k = 1 /\ k \in Intents(script)
  BY DEF Calm, Intents
<1>4. ASSUME NEW k \in DOMAIN script, script[k].do = "connect"
      PROVE  k = 1 /\ script[k] = Intent(script)
  <2>1. k = 1 /\ k \in Intents(script)
    BY <1>3, <1>4
  <2>2. Min(Intents(script)) = 1
    BY <1>1, <1>2, <2>1
  <2> QED BY <2>1, <2>2 DEF Intent
<1>5. ASSUME Intent(script).do = "connect"
      PROVE  /\ script # <<>> /\ script[1] = Intent(script)
             /\ ~(Intent(script).to.bare /\ Intent(script).to.srv \in Production)
  <2>1. Intents(script) # {}
    BY <1>5 DEF Intent, Change
  <2>2. PICK m \in DOMAIN script : Intent(script) = script[m]
    BY <1>1, <1>2, <2>1 DEF Intent
  <2>3. m = 1 /\ script # <<>>
    BY <1>1, <1>3, <1>5, <2>2
  <2> QED BY <1>5, <2>2, <2>3 DEF Calm
<1> QED BY <1>4, <1>5

\* Without it the text has none.
LEMMA RemoveFirstLed ==
  ASSUME NEW s \in Seq(Items), s # <<>>, \A k \in DOMAIN s : s[k].do = "connect" => k = 1
  PROVE  \A k \in DOMAIN RemoveFirst(s, s[1]) : RemoveFirst(s, s[1])[k].do # "connect"
<1> DEFINE e == s[1]
           p == SelectInSeq(s, LAMBDA v : v = e)
           I == { i \in 1..Len(s) : s[i] = e }
           n == Len(s)
<1>1. n \in Nat /\ DOMAIN s = 1..n /\ 1 \in 1..n /\ 1 \in I /\ I \subseteq Nat /\ I \subseteq 1..n
  BY LenProperties, EmptySeq
<1>2. p = Min(I)
  BY <1>1 DEF SelectInSeq
<1>3. p = 1
  <2> DEFINE m == Min(I)
  <2>1. m \in I /\ m <= 1
    <3> HIDE DEF I
    <3> QED BY <1>1, LeastNatural
  <2>2. p = m
    BY <1>2
  <2> HIDE DEF p, m
  <2>3. m \in Nat /\ m >= 1
    <3>1. m \in 1..n
      BY <2>1
    <3> HIDE DEF I, n
    <3> QED BY <1>1, <3>1
  <2>4. m = 1
    <3> HIDE DEF I, n
    <3> QED BY <2>1, <2>3
  <2> QED BY <2>2, <2>4
<1>4. RemoveFirst(s, e) = SubSeq(s, 1, 0) \o SubSeq(s, 2, n)
  <2>1. RemoveFirst(s, e) = RemoveAt(s, p)
    <3> HIDE DEF p
    <3>1. \E i \in 1..Len(s) : s[i] = e
      BY <1>1
    <3> QED BY <3>1 DEF RemoveFirst, p
  <2> HIDE DEF p
  <2>2. RemoveAt(s, 1) = SubSeq(s, 1, 0) \o SubSeq(s, 2, n)
    BY DEF RemoveAt
  <2> QED BY <1>3, <2>1, <2>2
<1> HIDE DEF p
<1> DEFINE r == SubSeq(s, 2, n)
<1>5. r \in Seq(Items) /\ DOMAIN r = 1..(n - 1) /\ \A k \in 1..(n - 1) : r[k] = s[k + 1]
  <2>1. \A k \in 2..n : s[k] \in Items
    BY <1>1, ElementOfSeq
  <2>2. /\ r \in Seq(Items) /\ Len(r) = (IF 2 <= n THEN n - 2 + 1 ELSE 0)
        /\ \A k \in 1..(n - 2 + 1) : r[k] = s[2 + k - 1]
    BY <1>1, <2>1, SubSeqProperties
  <2>3. Len(r) = n - 1
    BY <1>1, <2>2
  <2>4. DOMAIN r = 1..(n - 1)
    BY <2>2, <2>3, LenProperties
  <2>5. \A k \in 1..(n - 1) : k \in 1..(n - 2 + 1) /\ 2 + k - 1 = k + 1
    BY <1>1
  <2> QED BY <2>2, <2>4, <2>5
<1>6. SubSeq(s, 1, 0) = <<>>
  BY <1>1
<1>7. RemoveFirst(s, e) = r
  <2> HIDE DEF r
  <2>1. <<>> \o r = r
    BY <1>5
  <2> QED BY <1>4, <1>6, <2>1 DEF r
<1> HIDE DEF r, n
<1>8. \A k \in DOMAIN r : r[k].do # "connect"
  <2>1. ASSUME NEW k \in DOMAIN r PROVE r[k].do # "connect"
    <3>1. k + 1 \in DOMAIN s /\ k + 1 # 1 /\ r[k] = s[k + 1]
      BY <1>1, <1>5
    <3> QED BY <3>1
  <2> QED BY <2>1
<1> QED BY <1>7, <1>8

\* What is needed of session j to submit it a text.
Starts(text) == text # <<>> /\ text[1].do = "connect"
Ready(h, j, text, shown) ==
  /\ h.wk[j].cmds = <<>> /\ h.sess[j].there
  /\ \A k \in Ids \ {j} : Fit(does, k, h.sess[k], h.wk[k])
  /\ AtRest(does, h.sess[j], h.wk[j])
  /\ Calm(does) => Led(text, h.sess[j].spec.srv)
  /\ \/ /\ InPlace(does, h.sess[j], h.wk[j])
        /\ Direct(does) => \/ Starts(text) \/ shown = h.sess[j].spec.srv
                           \/ h.wk[j].link = None /\ ~h.sess[j].idle
     \/ Starts(text) /\ ~h.sess[j].idle

LEMMA RouteOfOwned ==
  ASSUME NEW h, NEW g, NEW t, Owned(g, t) = Owned(h, t), Owned(h, t) # {}
  PROVE  Route(g, t) = Route(h, t)
BY DEF Route

\* A text that goes to a session nothing has been sent to.
LEMMA ReadyIs ==
  ASSUME NEW h, NEW g, NEW i \in Ids, g.sess[i].there, h.wk[i].cmds = <<>>, g.wk = h.wk,
         \A k \in Ids \ {i} : Fit(does, k, h.sess[k], h.wk[k]) /\ g.sess[k] = h.sess[k],
         NEW text, NEW shown, AtRest(does, g.sess[i], g.wk[i]),
         Calm(does) => Led(text, g.sess[i].spec.srv),
         \/ InPlace(does, g.sess[i], g.wk[i]) /\ (Direct(does) => shown = g.sess[i].spec.srv)
         \/ (Calm(does) => Starts(text)) /\ ~g.sess[i].idle
  PROVE  Ready(g, i, text, shown)
<1>1. \A k \in Ids \ {i} : Fit(does, k, g.sess[k], g.wk[k])
  OBVIOUS
<1>2. ~Calm(does) => InPlace(does, g.sess[i], g.wk[i]) /\ ~Direct(does)
  BY DEF InPlace, Direct
<1> QED BY <1>1, <1>2 DEF Ready

LEMMA PlacedReady ==
  ASSUME NEW h, Whole(h), AllFit(h), NEW i, i = Current(h), h.wk[i].cmds = <<>>,
         NEW script \in does.scripts, script \in Seq(Items),
         Intent(script).do = "connect" /\ ~Private(h, i) => Room(h),
         NEW p, p = Placed(h, i, script)
  PROVE  Ready(p.host, Current(p.host), p.text, p.shown)
<1> DEFINE x == Intent(script)
           a == h.active
           b == Synced(Made(h, a))
           q == [ host |-> h, text |-> script, shown |-> h.sess[i].desc ]
<1>1. /\ h \in Hosts /\ a \in h.tabs /\ a \in Tabs /\ a # None /\ i \in Ids /\ h.sess[i].there
      /\ i = Route(h, a)
  BY CurrentThere, TabsAssumption DEF Whole, Hosts, Current
<1>2. x.do = "connect" => x.to \in Specs \ {Spec0}
  BY IntentType
\* The session goes where it is.
<1>3. /\ Fit(does, i, h.sess[i], h.wk[i]) /\ AtRest(does, h.sess[i], h.wk[i])
      /\ InPlace(does, h.sess[i], h.wk[i])
      /\ \A k \in Ids \ {i} : Fit(does, k, h.sess[k], h.wk[k])
  <2>1. \A k \in Ids : Fit(does, k, h.sess[k], h.wk[k])
    BY DEF AllFit
  <2>2. Fit(does, i, h.sess[i], h.wk[i]) /\ ~Leading(h.wk[i])
    BY <1>1, <2>1 DEF Leading
  <2> QED BY <2>1, <2>2 DEF Fit
<1>4. Private(h, i) <=> Owned(h, a) # {}
  BY <1>1, RouteThere DEF Private, Common
<1>5. Calm(does) =>
        /\ \A k \in DOMAIN script : script[k].do = "connect" => k = 1 /\ script[k] = x
        /\ x.do = "connect" => /\ script # <<>> /\ script[1] = x
                               /\ ~(x.to.bare /\ x.to.srv \in Production)
  BY IntentLeads
<1> HIDE DEF x
<1>6. x.do = "connect" /\ Calm(does) =>
        Led(script, x.to.srv) /\ Starts(script) /\ ~(x.to.bare /\ x.to.srv \in Production)
  BY <1>5 DEF Led, Starts
<1>7. CASE x.do = "connect" /\ Private(h, i) /\ Kept(h, i, x.to)
  <2>1. p = [q EXCEPT !.text = RemoveFirst(script, x), !.shown = x.to.srv]
    BY <1>7 DEF Placed, x
  <2>2. p.host = h /\ p.text = RemoveFirst(script, x) /\ p.shown = x.to.srv
    BY <2>1
  <2>3. h.sess[i].spec.srv = x.to.srv
    BY <1>7, <1>2, CompletedSpec DEF Kept
  <2>4. ASSUME Calm(does) PROVE Led(p.text, h.sess[i].spec.srv)
    <3>1. script # <<>> /\ script[1] = x /\ \A k \in DOMAIN script : script[k].do = "connect" => k = 1
      BY <1>5, <1>7, <2>4
    <3>2. \A k \in DOMAIN p.text : p.text[k].do # "connect"
      BY <2>2, <3>1, RemoveFirstLed
    <3> QED BY <3>2 DEF Led
  <2>5. Ready(h, i, p.text, p.shown)
    BY <1>1, <1>3, <2>2, <2>3, <2>4, ReadyIs
  <2> QED BY <2>2, <2>5
<1>8. CASE x.do = "connect" /\ Private(h, i) /\ ~Kept(h, i, x.to)
  <2> DEFINE g == Aimed(h, i, x.to)
  <2>1. p = [q EXCEPT !.host = g]
    BY <1>8 DEF Placed, x
  <2>2. p.host = g /\ p.text = script
    BY <2>1
  <2>3. MeantFor(h, g, i, x.to)
    BY <1>1, <1>2, <1>8, AimedIs
  <2>4. OnlyOne(h, g, i)
    BY <1>1, <1>2, <1>8, AimedSound
  <2> HIDE DEF g
  <2>5. Owned(g, a) = Owned(h, a) /\ g.active = a
    <3>1. \A k \in Ids : /\ g.sess[k].there = h.sess[k].there /\ g.sess[k].owner = h.sess[k].owner
                         /\ g.sess[k].closing = h.sess[k].closing
      BY <2>3 DEF MeantFor
    <3>2. g.active = a
      BY <2>4 DEF OnlyOne
    <3> QED BY <3>1, <3>2 DEF Owned
  <2>6. Current(g) = i
    BY <1>1, <1>4, <1>8, <2>5, RouteOfOwned DEF Current
  <2>7. AtRest(does, g.sess[i], g.wk[i])
    BY <1>3, <1>6, <1>8, <2>3 DEF AtRest, MeantFor
  <2>8. Ready(g, i, script, p.shown)
    <3>1. /\ g.wk = h.wk /\ \A k \in Ids \ {i} : g.sess[k] = h.sess[k]
          /\ g.sess[i].spec = x.to /\ ~g.sess[i].idle /\ g.sess[i].there
      BY <1>1, <2>3 DEF MeantFor
    <3> QED BY <1>1, <1>3, <1>6, <1>8, <2>7, <3>1, ReadyIs
  <2> QED BY <2>2, <2>6, <2>8
<1>9. CASE x.do = "connect" /\ ~Private(h, i)
  <2> DEFINE d == Made(h, a)
             n == h.made + 1
             g == Aimed(b, b.made, x.to)
  <2>1. p = [q EXCEPT !.host = g, !.shown = None]
    BY <1>9 DEF Placed, x
  <2>2. p.host = g /\ p.text = script
    BY <2>1
  <2>3. Room(h)
    BY <1>9 DEF x
  <2>4. /\ Whole(d) /\ d.made = n /\ n \in Ids /\ d.wk = h.wk
        /\ d.sess[n] = [NewSession EXCEPT !.there = TRUE, !.owner = a]
        /\ \A k \in Ids : k # n => d.sess[k] = h.sess[k]
        /\ d.active = a
    <3>1. a \in h.tabs \cup {None}
      BY <1>1
    <3>2. /\ Sound(h, d) /\ From(h, d, {}) /\ d.made = n /\ n \in Ids /\ d.wk = h.wk
          /\ d.sess[n] = [NewSession EXCEPT !.there = TRUE, !.owner = a]
          /\ \A k \in Ids : k # n => d.sess[k] = h.sess[k]
      BY <2>3, <3>1, MadeSound
    <3> HIDE DEF d, n
    <3> QED BY <3>2 DEF Sound, From
  <2>5. /\ d.sess[n].there /\ d.sess[n].owner = a /\ ~d.sess[n].closing /\ d.sess[n].open = {}
    BY <2>4 DEF NewSession
  <2>6. ~h.sess[n].there /\ h.wk[n].cmds = <<>>
    <3>1. h.made \in Nat
      BY <1>1, TabsAssumption DEF Hosts, Ids
    <3>2. ~(n <= h.made)
      BY <3>1
    <3> QED BY <2>4, <3>2 DEF Whole
  <2> HIDE DEF d, n
  <2>7. Whole(b) /\ b.sess = d.sess /\ b.wk = d.wk /\ b.active = a /\ b.made = n /\ b \in Hosts
    <3>1. b = Synced(d)
      BY DEF d
    <3>2. Synced(d).made = d.made /\ Synced(d).active = d.active
      BY DEF Synced
    <3> HIDE DEF b
    <3> QED BY <2>4, <3>1, <3>2, SyncedSound, SyncedSame DEF Whole
  <2> HIDE DEF b
  <2>8. MeantFor(b, g, n, x.to) /\ g.active = a
    <3>1. MeantFor(b, g, n, x.to)
      BY <1>2, <1>9, <2>4, <2>7, AimedIs
    <3>2. g.active = b.active
      BY DEF Aimed
    <3> QED BY <2>7, <3>1, <3>2
  <2> HIDE DEF g
  <2>9. /\ g.wk = h.wk /\ \A k \in Ids \ {n} : g.sess[k] = h.sess[k]
        /\ g.sess[n].spec = x.to /\ ~g.sess[n].idle /\ g.sess[n].there
        /\ g.sess[n].open = {} /\ g.sess[n].owner = a /\ ~g.sess[n].closing
    BY <2>4, <2>5, <2>7, <2>8 DEF MeantFor
  <2>10. Owned(g, a) = {n}
    <3>1. Owned(h, a) = {}
      BY <1>4, <1>9
    <3>2. \A k \in Ids \ {n} : k \notin Owned(g, a)
      BY <2>9, <3>1 DEF Owned
    <3>3. n \in Owned(g, a)
      BY <2>4, <2>9 DEF Owned
    <3>4. Owned(g, a) \subseteq Ids
      BY DEF Owned
    <3> QED BY <3>2, <3>3, <3>4
  <2>11. Current(g) = n
    <3>1. Owned(g, a) # {} /\ \A k \in Owned(g, a) : k = n
      BY <2>10
    <3> QED BY <2>8, <3>1 DEF Current, Route
  <2>12. AtRest(does, g.sess[n], g.wk[n])
    BY <1>6, <1>9, <2>9 DEF AtRest
  <2>13. Ready(g, n, script, p.shown)
    <3>1. \A k \in Ids \ {n} : Fit(does, k, h.sess[k], h.wk[k])
      BY DEF AllFit
    <3> QED BY <1>6, <1>9, <2>4, <2>6, <2>9, <2>12, <3>1, ReadyIs
  <2> QED BY <2>2, <2>11, <2>13
<1>10. CASE x.do # "connect"
  <2> DEFINE v == IF Private(h, i) \/ h.bind[a] # 0 THEN h.bind[a] ELSE i
             g == [h EXCEPT !.bind[a] = v]
  <2>1. p = [q EXCEPT !.host.bind[a] = IF Private(h, i) \/ @ # 0 THEN @ ELSE i]
    BY <1>10 DEF Placed, x
  <2>2. p.host = g /\ p.text = script /\ p.shown = h.sess[i].desc
    BY <1>1, <2>1 DEF Hosts
  <2>3. /\ g.sess = h.sess /\ g.wk = h.wk /\ g.active = a /\ g.bind[a] = v
        /\ g.default = h.default
    BY <1>1 DEF Hosts
  <2> HIDE DEF v, g
  <2>4. Owned(g, a) = Owned(h, a) /\ SharedOf(g) = SharedOf(h)
    BY <2>3 DEF Owned, SharedOf, Private
  <2>5. Current(g) = i
    <3>1. CASE Private(h, i)
      BY <1>1, <1>4, <2>3, <2>4, <3>1, RouteOfOwned DEF Current
    <3>2. CASE ~Private(h, i) /\ h.bind[a] # 0
      BY <1>1, <2>3, <2>4, <3>2 DEF Current, Route, v
    <3>3. CASE ~Private(h, i) /\ h.bind[a] = 0
      <4>1. g.bind[a] = i /\ Owned(g, a) = {}
        BY <1>4, <2>3, <2>4, <3>3 DEF v
      <4>2. i \in SharedOf(g)
        BY <1>1, <2>4, <3>3, SharedIsCommon DEF Private, Common
      <4> QED BY <2>3, <4>1, <4>2 DEF Current, Route
    <3> QED BY <3>1, <3>2, <3>3
  <2>6. Calm(does) => Led(script, h.sess[i].spec.srv)
    BY <1>5, <1>10 DEF Led
  <2>7. Direct(does) => \/ h.sess[i].desc = h.sess[i].spec.srv
                        \/ h.wk[i].link = None /\ ~h.sess[i].idle
    BY <1>3 DEF AtRest, InPlace
  <2>8. Ready(g, i, script, p.shown)
    BY <1>1, <1>3, <2>2, <2>3, <2>6, <2>7 DEF Ready
  <2> QED BY <2>2, <2>5, <2>8
<1> QED BY <1>7, <1>8, <1>9, <1>10

\* Once placed it is submitted, to a session that is woken first.
LEMMA ReadySent ==
  ASSUME NEW h, Whole(h), NEW j \in Ids, NEW text \in Seq(Items), NEW shown \in Servers \cup {None},
         Ready(h, j, text, shown), NEW for \in Ids, InFront(does) => for = j,
         NEW guarded \in BOOLEAN,
         Calm(does) /\ HasChange(text) /\ h.sess[j].spec.srv \in Production => guarded
  PROVE  AllFit(Submitted(Woken(h, j), j, text, for, shown, guarded))
<1> DEFINE w == Woken(h, j)
           c == [NoCmd EXCEPT !.op = "run", !.for = for, !.script = text, !.tab = w.active,
                              !.shown = shown, !.guarded = guarded]
<1>1. h.sess[j].there /\ h.wk[j].cmds = <<>>
  BY DEF Ready
<1>2. Whole(w) /\ w.sess[j].there
  <2>1. Sound(h, w) /\ SameOwners(h, w)
    BY <1>1, WokenSound
  <2> HIDE DEF w
  <2> QED BY <1>1, <2>1 DEF Sound, SameOwners
<1>3. c.op = "run" /\ c.for = for /\ c.script = text /\ c.shown = shown /\ c.guarded = guarded
  BY DEF NoCmd
<1>4. ~h.sess[j].idle => w = h
  BY <1>1, FitWoken
<1>5. h.sess[j].idle /\ AllFit(h) => AllFit(w) /\ OnItsWay(h, w, j)
  BY <1>1, FitWoken
<1>6. Leads(c) <=> Starts(text)
  BY <1>3 DEF Leads, Starts
<1> DEFINE Meets(g) ==
        /\ \A k \in Ids \ {j} : Fit(does, k, g.sess[k], g.wk[k])
        /\ AtRest(does, g.sess[j], g.wk[j])
        /\ \A k \in DOMAIN g.wk[j].cmds : Suits(does, j, g.sess[j], g.wk[j], g.wk[j].cmds[k], k)
        /\ Suits(does, j, g.sess[j], g.wk[j], c, Len(g.wk[j].cmds) + 1)
        /\ \/ InPlace(does, g.sess[j], g.wk[j]) \/ Leading(g.wk[j])
           \/ g.wk[j].cmds = <<>> /\ text # <<>> /\ text[1].do = "connect"
<1> HIDE DEF w, c
<1>7. Calm(does) => Led(text, h.sess[j].spec.srv)
  BY Zenon DEF Ready
<1>8. CASE ~h.sess[j].idle
  <2>1. Len(h.wk[j].cmds) + 1 = 1 /\ DOMAIN h.wk[j].cmds = {}
    BY <1>1
  <2>2. Direct(does) /\ ~Starts(text) => shown = h.sess[j].spec.srv \/ h.wk[j].link = None
    BY DEF Ready
  <2>3. Suits(does, j, h.sess[j], h.wk[j], c, 1)
    BY <1>3, <1>6, <1>7, <2>2 DEF Suits
  <2>4. Meets(h)
    BY <1>1, <2>1, <2>3 DEF Ready, Starts
  <2>5. Meets(w)
    BY <1>4, <1>8, <2>4
  <2> QED BY <1>2, <2>5, FitSubmitted DEF c, w
<1>9. CASE h.sess[j].idle
  <2>1. /\ InPlace(does, h.sess[j], h.wk[j])
        /\ Direct(does) => Starts(text) \/ shown = h.sess[j].spec.srv
    BY <1>9 DEF Ready
  <2>2. AllFit(h)
    <3>1. DOMAIN h.wk[j].cmds = {}
      BY <1>1
    <3>2. Fit(does, j, h.sess[j], h.wk[j])
      BY <2>1, <3>1 DEF Ready, Fit
    <3>3. \A k \in Ids : Fit(does, k, h.sess[k], h.wk[k])
      BY <3>2 DEF Ready
    <3> QED BY <3>3 DEF AllFit
  <2>3. AllFit(w) /\ Leading(w.wk[j]) /\ w.sess[j].spec = h.sess[j].spec /\ Len(w.wk[j].cmds) = 1
    BY <1>5, <1>9, <2>2 DEF OnItsWay
  <2>4. Suits(does, j, w.sess[j], w.wk[j], c, Len(w.wk[j].cmds) + 1)
    BY <1>3, <1>6, <1>7, <2>1, <2>3 DEF Suits
  <2>5. \A k \in Ids : Fit(does, k, w.sess[k], w.wk[k])
    BY <2>3 DEF AllFit
  <2>6. Meets(w)
    BY <2>3, <2>4, <2>5 DEF Fit
  <2> QED BY <1>2, <2>6, FitSubmitted DEF c, w
<1> QED BY <1>8, <1>9

LEMMA FitArmed ==
  ASSUME NEW h \in Hosts, AllFit(h), NEW i \in Ids, NEW a
  PROVE  AllFit([h EXCEPT !.sess[i].armed = a])
<1> DEFINE g == [h EXCEPT !.sess[i].armed = a]
           s == h.sess[i]
           x == [s EXCEPT !.armed = a]
<1>1. g.wk = h.wk /\ g.sess[i] = x /\ \A k \in Ids \ {i} : g.sess[k] = h.sess[k]
  BY DEF Hosts
<1>2. s \in Session
  BY SessionTypes
<1>3. x.there = s.there /\ x.spec = s.spec /\ x.desc = s.desc /\ x.idle = s.idle
      /\ x.connected = s.connected /\ x.open = s.open
  BY <1>2 DEF Session
<1> HIDE DEF g, x
<1>4. Fit(does, i, s, h.wk[i])
  BY DEF AllFit
<1>5. Fit(does, i, x, h.wk[i])
  BY <1>3, <1>4, FitLess
<1>6. AllFit(g)
  BY <1>1, <1>5, FitOne DEF AllFit
<1> QED BY <1>6 DEF g

LEMMA PressFit ==
  ASSUME TabsInv, AllFit(Host), UNCHANGED does, NEW script \in does.scripts, Press(script)
  PROVE  AllFit(Host)'
<1> DEFINE i == Current(Host)
           p == Placed(Host, i, script)
           b == p.host
           j == Current(b)
           h == Woken(b, j)
           prod == Prod(h, j, p.text)
<1>1. /\ \/ prod /\ ~ProdHold(does) /\ Becomes([h EXCEPT !.sess[j].armed = p.text])
         \/ Becomes(Submitted(h, j, p.text, j, p.shown, prod))
         \/ "backup" \in does.ops /\ Becomes([h EXCEPT !.sess[j].armed = IF prod THEN <<>> ELSE @])
      /\ Intent(script).do = "connect" /\ ~Private(Host, i) => Room(Host)
      /\ Host.wk[i].cmds = <<>>
  BY DEF Press, Busy
<1>2. Whole(Host) /\ i \in Ids /\ Host.sess[i].there
  BY HostStable, CurrentThere
<1>3. script \in Seq(Items)
  BY ScriptTypes
<1>4. Ready(b, j, p.text, p.shown)
  BY <1>1, <1>2, <1>3, PlacedReady
<1>5. Sound(Host, b) /\ p.text \in Seq(Items) /\ p.shown \in Servers \cup {None}
  BY <1>1, <1>2, <1>3, PlacedSound
<1> HIDE DEF i, p
<1>6. Whole(b) /\ b \in Hosts
  BY <1>5 DEF Sound, Whole
<1>7. j \in Ids /\ b.sess[j].there /\ b.wk[j].cmds = <<>>
  BY <1>4, <1>6, CurrentThere DEF Ready
<1> HIDE DEF b, j
<1>8. Whole(h) /\ h \in Hosts
  <2>1. Sound(b, h)
    BY <1>6, <1>7, WokenSound
  <2> HIDE DEF h
  <2> QED BY <2>1 DEF Sound, Whole
<1>9. h.sess[j].spec = b.sess[j].spec
  <2>1. b.sess[j].spec \in Specs
    BY <1>6, <1>7, SessionTypes
  <2>2. CASE ~b.sess[j].idle
    BY <2>2 DEF Woken
  <2>3. CASE b.sess[j].idle
    <3> DEFINE c == [NoCmd EXCEPT !.op = "connect", !.for = j, !.to = b.sess[j].spec, !.again = FALSE]
               d == Aimed(b, j, b.sess[j].spec)
    <3>1. h = Sends(d, j, c)
      BY <2>3 DEF Woken, Quietly
    <3>2. MeantFor(b, d, j, b.sess[j].spec) 
      BY <1>6, <1>7, <2>1, AimedIs
    <3> HIDE DEF c, d
    <3>3. Sends(d, j, c).sess = d.sess
      BY DEF Sends
    <3> QED BY <3>1, <3>2, <3>3 DEF MeantFor
  <2> QED BY <2>2, <2>3
<1>10. Calm(does) /\ HasChange(p.text) /\ b.sess[j].spec.srv \in Production => prod
  <2>1. b.sess[j].spec \in Specs
    BY <1>6, <1>7, SessionTypes
  <2>2. Calm(does) => ~(b.sess[j].spec.bare /\ b.sess[j].spec.srv \in Production)
    BY <1>4 DEF Ready, AtRest
  <2>3. b.sess[j].spec.srv \in Production /\ ~b.sess[j].spec.bare
          => b.sess[j].spec \in [srv : Production, bare : {FALSE}]
    <3> DEFINE s == b.sess[j].spec
    <3>1. s \in Specs
      BY <2>1
    <3> HIDE DEF s
    <3>2. ASSUME s.srv \in Production, ~s.bare PROVE s \in [srv : Production, bare : {FALSE}]
      <4>1. Spec0.srv \notin Production
        BY TabsAssumption DEF Spec0
      <4>2. s \in [srv : Servers, bare : BOOLEAN]
        BY <3>1, <3>2, <4>1 DEF Specs
      <4>3. s.bare = FALSE
        BY <3>2, <4>2
      <4> QED BY <3>2, <4>2, <4>3
    <3> QED BY <3>2 DEF s
  <2> QED BY <1>9, <2>2, <2>3 DEF Prod
<1>11. CASE prod /\ ~ProdHold(does) /\ Becomes([h EXCEPT !.sess[j].armed = p.text])
  <2>1. b.sess[j].spec.srv \in Production /\ ~Direct(does)
    BY <1>9, <1>11 DEF Prod, ProdHold, Direct
  <2>2. InPlace(does, b.sess[j], b.wk[j])
    BY <2>1 DEF InPlace
  <2>3. AllFit(b)
    <3>1. DOMAIN b.wk[j].cmds = {}
      BY <1>7
    <3>2. Fit(does, j, b.sess[j], b.wk[j])
      BY <1>4, <2>2, <3>1 DEF Ready, Fit
    <3>3. \A k \in Ids : Fit(does, k, b.sess[k], b.wk[k])
      BY <1>4, <3>2 DEF Ready
    <3> QED BY <3>3 DEF AllFit
  <2>4. AllFit(h)
    BY <1>6, <1>7, <2>3, FitWoken
  <2> HIDE DEF h, prod
  <2>5. AllFit([h EXCEPT !.sess[j].armed = p.text])
    BY <1>7, <1>8, <2>4, FitArmed
  <2> QED BY <1>11, <2>5, FitBecomes
<1>12. CASE Becomes(Submitted(h, j, p.text, j, p.shown, prod))
  <2>1. prod \in BOOLEAN
    BY ProdBoolean
  <2> HIDE DEF prod
  <2>2. AllFit(Submitted(h, j, p.text, j, p.shown, prod))
    BY <1>4, <1>5, <1>6, <1>7, <1>10, <2>1, ReadySent
  <2> QED BY <1>12, <2>2, FitBecomes
<1>13. CASE "backup" \in does.ops
  BY <1>13, FitFree DEF AllFit
<1> QED BY <1>1, <1>11, <1>12, <1>13

-----------------------------------------------------------------------------
(* The other operations.                                                   *)

LEMMA SameFit ==
  ASSUME AllFit(Host), UNCHANGED <<does, sess, wk>>
  PROVE  AllFit(Host)'
BY DEF AllFit, Host

LEMMA MadeFit ==
  ASSUME NEW h, Whole(h), AllFit(h), Room(h), NEW owner \in h.tabs \cup {None}
  PROVE  AllFit(Made(h, owner)) /\ Made(h, owner).wk[h.made + 1].cmds = <<>>
<1> DEFINE g == Made(h, owner)
           n == h.made + 1
<1>1. /\ n \in Ids /\ g.wk = h.wk
      /\ g.sess[n] = [NewSession EXCEPT !.there = TRUE, !.owner = owner]
      /\ \A k \in Ids : k # n => g.sess[k] = h.sess[k]
  BY MadeSound
<1>2. ~h.sess[n].there /\ h.wk[n].cmds = <<>>
  <2>1. h.made \in Nat
    BY MadeNatural
  <2>2. ~(n <= h.made)
    BY <2>1
  <2> QED BY <1>1, <2>2 DEF Whole
<1>3. /\ g.sess[n].spec = Spec0 /\ ~g.sess[n].idle /\ ~g.sess[n].connected /\ g.sess[n].open = {}
  BY <1>1 DEF NewSession
<1> HIDE DEF g, n
<1>4. Fit(does, n, g.sess[n], g.wk[n])
  <2>1. Fit(does, n, h.sess[n], h.wk[n])
    BY <1>1 DEF AllFit
  <2> QED BY <1>1, <1>2, <1>3, <2>1, FitMade
<1>5. AllFit(g)
  BY <1>1, <1>4, FitOne DEF AllFit
<1> QED BY <1>1, <1>2, <1>5 DEF g, n

\* One session and its worker become others.
LEMMA FitAlter ==
  ASSUME NEW h \in Hosts, AllFit(h), NEW i \in Ids, NEW s, NEW w, Fit(does, i, s, w)
  PROVE  AllFit(Alter(h, i, s, w))
<1> DEFINE g == Alter(h, i, s, w)
<1>1. /\ g.sess[i] = s /\ g.wk[i] = w
      /\ \A k \in Ids \ {i} : g.sess[k] = h.sess[k] /\ g.wk[k] = h.wk[k]
  BY DEF Alter, Hosts
<1> HIDE DEF g
<1>2. AllFit(g)
  BY <1>1, FitOne DEF AllFit
<1> QED BY <1>2 DEF g

\* Left or closed, a session gets a new worker.
LEMMA FitDropped ==
  ASSUME NEW h \in Hosts, AllFit(h), NEW i \in Ids, NEW s,
         s.spec = h.sess[i].spec, ~s.connected, ~s.idle, s.open \subseteq h.sess[i].open
  PROVE  AllFit(Alter(h, i, s, NewWorker))
<1>1. AtRest(does, h.sess[i], h.wk[i])
  BY DEF AllFit, Fit
<1>2. Fit(does, i, s, NewWorker)
  BY <1>1, FitNewWorker
<1> QED BY <1>2, FitAlter

LEMMA FitLeft ==
  ASSUME NEW h \in Hosts, AllFit(h), NEW i \in Ids
  PROVE  AllFit(Left(h, i, TRUE)) /\ AllFit(Left(h, i, FALSE))
<1>1. h.sess[i] \in Session
  BY SessionTypes
<1>2. AllFit(Left(h, i, TRUE))
  <2> DEFINE s == [h.sess[i] EXCEPT !.connected = FALSE, !.dropped = TRUE, !.idle = FALSE, !.open = {}]
  <2>1. s.spec = h.sess[i].spec /\ ~s.connected /\ ~s.idle /\ s.open = {}
    BY <1>1 DEF Session
  <2>2. Left(h, i, TRUE) = Alter(h, i, s, NewWorker)
    BY <1>1, ZenonT(60) DEF Left, Alter, Hosts
  <2> HIDE DEF s
  <2> QED BY <2>1, <2>2, FitDropped
<1>3. AllFit(Left(h, i, FALSE))
  <2> DEFINE s == [h.sess[i] EXCEPT !.closing = TRUE]
             r == h.sess[i]
  <2>1. s.there = r.there /\ s.spec = r.spec /\ s.desc = r.desc /\ s.idle = r.idle
        /\ s.connected = r.connected /\ s.open = r.open
    BY <1>1 DEF Session
  <2>2. Left(h, i, FALSE) = Alter(h, i, s, h.wk[i])
    BY <1>1 DEF Left, Alter, Hosts
  <2>3. Fit(does, i, r, h.wk[i])
    BY DEF AllFit
  <2> HIDE DEF s, r
  <2>4. Fit(does, i, s, h.wk[i])
    BY <2>1, <2>3, FitLess
  <2> QED BY <2>2, <2>4, FitAlter
<1> QED BY <1>2, <1>3

LEMMA AgainFit ==
  ASSUME TabsInv, AllFit(Host), UNCHANGED does, NEW i \in Ids, Again(i)
  PROVE  AllFit(Host)'
<1>1. PICK again \in BOOLEAN : Becomes(Quietly(Host, i, sess[i].spec, again))
  BY DEF Again
<1>2. Whole(Host) /\ Host.sess = sess /\ sess[i].there /\ sess[i].spec # Spec0
      /\ Host.wk[i].cmds = <<>>
  BY HostStable, HostParts DEF Again, Busy
<1> DEFINE g == Quietly(Host, i, sess[i].spec, again)
<1>3. AllFit(g)
  BY <1>2, FitQuietly
<1> HIDE DEF g
<1> QED BY <1>1, <1>3, FitBecomes DEF g

LEMMA AttemptFit ==
  ASSUME NEW h, Whole(h), AllFit(h), NEW i \in Ids, h.sess[i].there, h.wk[i].cmds = <<>>,
         NEW spec \in Specs, spec # Spec0, ~spec.bare
  PROVE  AllFit(Attempt(h, i, spec))
<1> DEFINE c == [NoCmd EXCEPT !.op = "login", !.for = i, !.to = spec]
<1>1. c \in Commands /\ c.op \in {"connect", "login"} /\ c.for = i /\ c.to = spec
  BY EmptySeq DEF NoCmd, Commands
<1>2. Attempt(h, i, spec) = Sends(Aimed(h, i, spec), i, c)
  BY DEF Attempt
<1> HIDE DEF c
<1> QED BY <1>1, <1>2, FitConnect

LEMMA LoginFit ==
  ASSUME TabsInv, AllFit(Host), UNCHANGED does, NEW srv \in Servers,
         Login([srv |-> srv, bare |-> FALSE])
  PROVE  AllFit(Host)'
<1> DEFINE spec == [srv |-> srv, bare |-> FALSE]
<1>1. spec \in Specs /\ spec # Spec0 /\ ~spec.bare
  BY TabsAssumption DEF Specs, Spec0
<1>2. \/ \E i \in SharedOf(Host) : ~Busy(Host, i) /\ Becomes(Attempt(Host, i, spec))
      \/ Room(Host) /\ Becomes(Attempt(Made(Host, None), made + 1, spec))
  BY DEF Login, Recyclable
<1>3. Whole(Host) /\ Host.made = made
  BY HostStable, HostParts
<1> HIDE DEF spec
<1>4. CASE \E i \in SharedOf(Host) : ~Busy(Host, i) /\ Becomes(Attempt(Host, i, spec))
  <2>1. PICK i \in SharedOf(Host) : ~Busy(Host, i) /\ Becomes(Attempt(Host, i, spec))
    BY <1>4
  <2>2. i \in Ids /\ Host.sess[i].there /\ Host.wk[i].cmds = <<>>
    BY <2>1 DEF SharedOf, Busy
  <2>3. AllFit(Attempt(Host, i, spec))
    BY <1>1, <1>3, <2>2, AttemptFit
  <2> QED BY <2>1, <2>3, FitBecomes
<1>5. CASE Room(Host) /\ Becomes(Attempt(Made(Host, None), made + 1, spec))
  <2> DEFINE h == Made(Host, None)
             n == made + 1
  <2>0. None \in Host.tabs \cup {None} /\ Room(Host)
    BY <1>5
  <2>1. Sound(Host, h) /\ n \in Ids /\ h.sess[n] = [NewSession EXCEPT !.there = TRUE, !.owner = None]
    BY <1>3, <2>0, MadeSound
  <2>2. AllFit(h) /\ h.wk[n].cmds = <<>>
    BY <1>3, <2>0, MadeFit
  <2>3. Becomes(Attempt(h, n, spec))
    BY <1>5
  <2> HIDE DEF h, n
  <2>4. Whole(h) /\ h.sess[n].there
    BY <2>1 DEF Sound, NewSession
  <2>5. AllFit(Attempt(h, n, spec))
    BY <1>1, <2>1, <2>2, <2>4, AttemptFit
  <2> QED BY <2>3, <2>5, FitBecomes
<1> QED BY <1>2, <1>4, <1>5

LEMMA UnconnectFit ==
  ASSUME TabsInv, AllFit(Host), UNCHANGED does, NEW t \in Tabs, Unconnect(t)
  PROVE  AllFit(Host)'
<1>1. Whole(Host) /\ Host \in Hosts /\ t \in Host.tabs
  BY HostStable, HostParts DEF Unconnect
<1>2. CASE Owned(Host, t) # {}
  <2> DEFINE i == Route(Host, t)
             g == Left(Host, i, TRUE)
  <2>1. i \in Ids /\ Host.sess[i].there
    BY <1>1, RouteThere
  <2>2. Settles(g)
    BY <1>2 DEF Unconnect
  <2> HIDE DEF i
  <2>3. Sound(Host, g) /\ AllFit(g)
    BY <1>1, <2>1, LeftKeepSound, FitLeft
  <2> HIDE DEF g
  <2> QED BY <2>2, <2>3, FitSettles DEF Sound
<1>3. CASE Owned(Host, t) = {}
  <2> DEFINE d == Made(Host, t)
             n == made + 1
             s == [d.sess[n] EXCEPT !.dropped = TRUE]
             g == [d EXCEPT !.sess[n].dropped = TRUE]
  <2>1. Room(Host) /\ Settles(g)
    BY <1>3 DEF Unconnect
  <2>2. /\ Sound(Host, d) /\ n \in Ids /\ AllFit(d)
        /\ d.sess[n] = [NewSession EXCEPT !.there = TRUE, !.owner = t]
    BY <1>1, <2>1, HostParts, MadeSound, MadeFit
  <2> HIDE DEF d, n
  <2>3. /\ Whole(d) /\ d \in Hosts /\ d.sess[n].there /\ d.sess[n] \in Session
        /\ d.wk[n] \in Workers /\ ~d.sess[n].idle /\ ~d.sess[n].closing
    BY <2>2, SessionTypes DEF Sound, Whole, NewSession
  <2>4. /\ s \in Session /\ s.there = d.sess[n].there /\ s.owner = d.sess[n].owner
        /\ s.spec = d.sess[n].spec /\ s.idle = d.sess[n].idle /\ s.closing = d.sess[n].closing
        /\ s.desc = d.sess[n].desc /\ s.connected = d.sess[n].connected /\ s.open = d.sess[n].open
    BY <2>3 DEF Session
  <2>5. g = Alter(d, n, s, d.wk[n])
    BY <2>2, <2>3 DEF Alter, Hosts
  <2> HIDE DEF g, s
  <2>6. Whole(g)
    BY <2>2, <2>3, <2>4, <2>5, AlterSound
  <2>7. AllFit(g)
    <3>1. Fit(does, n, d.sess[n], d.wk[n])
      BY <2>2 DEF AllFit
    <3>2. Fit(does, n, s, d.wk[n])
      BY <2>4, <3>1, FitLess
    <3> QED BY <2>2, <2>3, <2>5, <3>2, FitAlter
  <2> QED BY <2>1, <2>6, <2>7, FitSettles
<1> QED BY <1>2, <1>3

LEMMA DisconnectFit ==
  ASSUME TabsInv, AllFit(Host), UNCHANGED does, DisconnectForce
  PROVE  AllFit(Host)'
<1> DEFINE i == Current(Host)
<1>1. Whole(Host) /\ Host \in Hosts /\ i \in Ids /\ Host.sess[i].there /\ Host.sess[i] \in Session
  BY HostStable, CurrentThere, SessionTypes
<1>2. CASE Private(Host, i)
  <2> DEFINE g == Left(Host, i, FALSE)
  <2>1. Settles(g)
    BY <1>2 DEF DisconnectForce
  <2> HIDE DEF i
  <2>2. Whole(g) /\ AllFit(g)
    BY <1>1, <1>2, LeftSound, FitLeft DEF Private
  <2> HIDE DEF g
  <2> QED BY <2>1, <2>2, FitSettles
<1>3. CASE ~Private(Host, i)
  <2> DEFINE g == [Host EXCEPT !.sess[i].connected = FALSE, !.sess[i].dropped = TRUE,
                               !.sess[i].idle = FALSE, !.wk[i] = NewWorker]
             s == [Host.sess[i] EXCEPT !.connected = FALSE, !.dropped = TRUE, !.idle = FALSE]
  <2>1. Settles(g)
    BY <1>3 DEF DisconnectForce
  <2> HIDE DEF i
  <2>2. Whole(g)
    <3>1. Sound(Host, g)
      BY <1>1, DisconnectedSound
    <3> QED BY <3>1 DEF Sound
  <2>3. s.spec = Host.sess[i].spec /\ ~s.connected /\ ~s.idle /\ s.open = Host.sess[i].open
    BY <1>1 DEF Session
  <2>4. g = Alter(Host, i, s, NewWorker)
    BY <1>1 DEF Alter, Hosts
  <2> HIDE DEF g, s
  <2>5. AllFit(g)
    BY <1>1, <2>3, <2>4, FitDropped
  <2> QED BY <2>1, <2>2, <2>5, FitSettles
<1> QED BY <1>2, <1>3

LEMMA PressCloseFit ==
  ASSUME TabsInv, AllFit(Host), UNCHANGED does, NEW script, PressClose(script)
  PROVE  AllFit(Host)'
<1> DEFINE i == Current(Host)
           g == Left(Host, i, FALSE)
<1>1. Whole(Host) /\ Host \in Hosts /\ i \in Ids /\ Host.sess[i].there
  BY HostStable, CurrentThere
<1>2. Private(Host, i) /\ Settles(g)
  BY DEF PressClose
<1> HIDE DEF i
<1>3. Whole(g) /\ AllFit(g)
  BY <1>1, <1>2, LeftSound, FitLeft DEF Private
<1> HIDE DEF g
<1> QED BY <1>2, <1>3, FitSettles

LEMMA IdleFit ==
  ASSUME TabsInv, AllFit(Host), UNCHANGED does, NEW i \in Ids, IdleClose(i)
  PROVE  AllFit(Host)'
<1> DEFINE s == [Host.sess[i] EXCEPT !.connected = FALSE, !.idle = TRUE]
           g == [Host EXCEPT !.sess[i].connected = FALSE, !.sess[i].idle = TRUE, !.wk[i] = NewWorker]
<1>1. Host \in Hosts /\ Host.sess[i] \in Session /\ Host.sess = sess
  BY HostStable, HostParts, SessionTypes
<1>2. Becomes(g) /\ Host.sess[i].connected /\ Host.wk[i].cmds = <<>>
  BY <1>1 DEF IdleClose, Busy
<1>3. s.spec = Host.sess[i].spec /\ ~s.connected /\ s.open = Host.sess[i].open
      /\ s.desc = Host.sess[i].desc
  BY <1>1 DEF Session
<1>4. g = Alter(Host, i, s, NewWorker)
  BY <1>1 DEF Alter, Hosts
<1> HIDE DEF g, s
<1>5. AtRest(does, Host.sess[i], Host.wk[i]) /\ InPlace(does, Host.sess[i], Host.wk[i])
  <2>1. Fit(does, i, Host.sess[i], Host.wk[i])
    BY DEF AllFit
  <2> QED BY <1>2, <2>1 DEF Fit, Leading
<1>6. Direct(does) => s.desc = s.spec.srv
  BY <1>2, <1>3, <1>5 DEF InPlace
<1>7. Fit(does, i, s, NewWorker)
  BY <1>3, <1>5, <1>6, FitNewWorker
<1> QED BY <1>1, <1>2, <1>4, <1>7, FitAlter, FitBecomes

LEMMA TabsFit ==
  ASSUME TabsInv, AllFit(Host), UNCHANGED does,
         \/ \E t \in Tabs : OpenTab(t) \/ ShowTab(t)
         \/ \E i \in Ids : Activate(i)
  PROVE  AllFit(Host)'
<1>1. ASSUME NEW t \in Tabs, OpenTab(t) PROVE UNCHANGED <<sess, wk>>
  BY <1>1, HostParts DEF OpenTab, Stays, Becomes, Synced, Host
<1>2. ASSUME NEW t \in Tabs, ShowTab(t) PROVE UNCHANGED <<sess, wk>>
  BY <1>2, HostParts DEF ShowTab, Stays, Becomes, Synced, Host
<1>3. ASSUME NEW i \in Ids, Activate(i) PROVE UNCHANGED <<sess, wk>>
  <2> DEFINE b == BindActive(Host, i)
             d == [b EXCEPT !.default = i]
  <2>1. b.sess = sess /\ b.wk = wk
    BY DEF BindActive, Host
  <2>2. d.sess = b.sess /\ d.wk = b.wk
    <3>1. Common(Host, i) /\ Whole(Host)
      BY <1>3, HostStable, SharedIsCommon DEF Activate
    <3>2. b \in Hosts
      BY <3>1, BindActiveSound DEF Sound, Whole
    <3> HIDE DEF b
    <3> QED BY <3>2 DEF Hosts
  <2>3. Synced(d).sess = d.sess /\ Synced(d).wk = d.wk
    BY DEF Synced
  <2>4. Becomes(Synced(d))
    BY <1>3 DEF Activate
  <2> HIDE DEF b, d
  <2> QED BY <2>1, <2>2, <2>3, <2>4 DEF Becomes
<1> QED BY <1>1, <1>2, <1>3, SameFit

LEMMA UseFit ==
  ASSUME TabsInv, AllFit(Host), UNCHANGED does, NEW t \in Tabs, NEW i \in Ids, Use(t, i)
  PROVE  AllFit(Host)'
<1> DEFINE k == Route(Host, t)
           l == Left(Host, k, FALSE)
           h == IF Owned(Host, t) # {} THEN Reaped(l) ELSE Host
           b == [h EXCEPT !.bind[t] = i]
<1>1. Whole(Host) /\ Host \in Hosts
  BY HostStable
<1>2. /\ t \in Host.tabs /\ Common(Host, i) /\ (Host.sess[i].connected \/ Busy(Host, i))
      /\ Settles(b)
  <2>1. t \in tabs /\ i \in SharedOf(Host) /\ (sess[i].connected \/ Busy(Host, i)) /\ Settles(b)
    BY DEF Use
  <2> HIDE DEF b
  <2> QED BY <1>1, <2>1, HostParts, SharedIsCommon
<1>3. Whole(h) /\ From(Host, h, {}) /\ Common(h, i) /\ AllFit(h)
  <2>1. CASE Owned(Host, t) # {}
    <3>1. k \in Ids /\ Host.sess[k].there /\ Host.sess[k].owner # None
      BY <1>1, <1>2, <2>1, RouteThere
    <3> HIDE DEF k
    <3>2. Whole(l) /\ From(Host, l, {}) /\ OnlyOne(Host, l, k) /\ AllFit(l)
      BY <1>1, <3>1, LeftSound, FitLeft
    <3>3. l.sess[i] = Host.sess[i] /\ l.wk[i] = Host.wk[i]
      BY <1>2, <3>1, <3>2 DEF Common, OnlyOne
    <3> HIDE DEF l
    <3>4. i \notin Gone(l) /\ Common(l, i)
      BY <1>2, <3>3 DEF Common, Unused, Busy, Gone
    <3>5. /\ Reaped(l).sess = [j \in Ids |-> IF j \in Gone(l) THEN NewSession ELSE l.sess[j]]
          /\ Whole(Reaped(l)) /\ From(l, Reaped(l), {}) /\ AllFit(Reaped(l))
      BY <3>2, ReapedIs, ReapedSound, FitReaped
    <3>6. h = Reaped(l)
      BY <2>1
    <3> HIDE DEF h
    <3>7. h.sess[i] = l.sess[i]
      BY <3>4, <3>5, <3>6
    <3> QED BY <1>1, <3>2, <3>4, <3>5, <3>6, <3>7, FromTrans DEF Common
  <2>2. CASE Owned(Host, t) = {}
    BY <1>1, <1>2, <2>2, FromSelf
  <2> QED BY <2>1, <2>2
<1> HIDE DEF h
<1>4. t \in h.tabs
  BY <1>2, <1>3 DEF From
<1>5. Sound(h, b) /\ b.sess = h.sess
  BY <1>3, <1>4, BoundSound
<1>6. b.wk = h.wk
  BY <1>3 DEF Whole, Hosts
<1> HIDE DEF b
<1>7. Whole(b) /\ AllFit(b)
  BY <1>3, <1>5, <1>6, FitSame DEF Sound
<1> QED BY <1>2, <1>7, FitSettles

LEMMA BackupFit ==
  ASSUME objbk = NoBackup \/ "backup" \in does.ops, UNCHANGED does, TakenUp \/ BackupFails
  PROVE  AllFit(Host)'
<1>1. objbk # NoBackup
  BY DEF TakenUp, BackupFails, NoBackup
<1>2. "backup" \in does.ops
  BY <1>1
<1> QED BY <1>2, FitFree DEF AllFit

LEMMA DropFit ==
  ASSUME TabsInv, AllFit(Host), UNCHANGED does, "object" \in does.ops, NEW i \in Ids, DropObject(i)
  PROVE  AllFit(Host)'
<1> DEFINE j == Current(Host)
           text == <<Change>>
           shown == sess[i].spec.srv
           g == Submitted(Woken(Host, j), j, text, i, shown, TRUE)
<1>1. Becomes(g) /\ Host.wk[j].cmds = <<>>
  BY DEF DropObject, Stays, Busy
<1>2. Whole(Host) /\ Host \in Hosts /\ Host.sess = sess /\ j \in Ids /\ Host.sess[j].there
  BY HostStable, HostParts, CurrentThere
<1>3. text \in Seq(Items) /\ DOMAIN text = {1} /\ text[1].do # "connect"
  BY DEF Items, Change
<1>4. shown \in Servers \cup {None}
  <2>1. sess[i].spec \in Specs
    BY <1>2, SessionTypes
  <2> QED BY <2>1 DEF Specs, Spec0
<1> HIDE DEF j, text, shown
<1>5. ~Direct(does) /\ ~InFront(does)
  BY DEF Direct, InFront
<1>6. Fit(does, j, Host.sess[j], Host.wk[j]) /\ \A k \in Ids : Fit(does, k, Host.sess[k], Host.wk[k])
  BY <1>2 DEF AllFit
<1>7. AtRest(does, Host.sess[j], Host.wk[j]) /\ InPlace(does, Host.sess[j], Host.wk[j])
  BY <1>1, <1>6 DEF Fit, Leading
<1>8. Led(text, Host.sess[j].spec.srv)
  BY <1>3 DEF Led
<1>9. Ready(Host, j, text, shown)
  BY <1>1, <1>2, <1>5, <1>6, <1>7, <1>8 DEF Ready
<1>10. AllFit(g)
  BY <1>2, <1>3, <1>4, <1>5, <1>9, ReadySent
<1> HIDE DEF g
<1> QED BY <1>1, <1>10, FitBecomes

LEMMA CloseFit ==
  ASSUME TabsInv, AllFit(Host), UNCHANGED does, "tabs" \in does.ops, NEW t \in Tabs, CloseTab(t)
  PROVE  AllFit(Host)'
<1> DEFINE i == Route(Host, t)
           j == Current(Host)
           asks == IF Private(Host, i) THEN sess[i].open # {} ELSE t \in sess[i].open
           cmd == [NoCmd EXCEPT !.op = "commit", !.for = i]
           s == Sends(Host, j, cmd)
           o == [s EXCEPT !.sess[j].open = {}]
           h == IF asks THEN o ELSE Host
<1>1. Stable(Host) /\ Whole(Host) /\ Host \in Hosts /\ tabs \subseteq Tabs /\ Host.sess = sess
  BY HostStable, HostParts
<1>2. PICK u \in tabs \ {t} :
        Settles([h EXCEPT !.tabs = @ \ {t}, !.active = IF @ = t THEN u ELSE @])
  BY DEF CloseTab
<1>3. t \in Host.tabs /\ (asks => Host.wk[j].cmds = <<>>)
  BY HostParts DEF CloseTab, Busy
<1>4. i \in Ids /\ j \in Ids /\ Host.sess[j].there
  BY <1>1, <1>3, RouteThere, CurrentThere
<1>5. cmd \in Commands /\ cmd.op = "commit" /\ cmd.for = i
  BY <1>4, EmptySeq DEF NoCmd, Commands, Specs
<1>6. asks => sess[i].open # {}
  OBVIOUS
<1> HIDE DEF i, j, asks, cmd
\* With automatic commit there is nothing to commit.
<1>7. asks => ~InFront(does)
  <2>1. Fit(does, i, Host.sess[i], Host.wk[i])
    BY <1>4 DEF AllFit
  <2> QED BY <1>1, <1>6, <2>1 DEF Fit, AtRest, InFront
<1>8. asks => Whole(o) /\ AllFit(o) /\ o.tabs = tabs /\ o.bind = bind /\ o.active = active
  <2> SUFFICES ASSUME asks
               PROVE  Whole(o) /\ AllFit(o) /\ o.tabs = tabs /\ o.bind = bind /\ o.active = active
    OBVIOUS
  <2>1. Sound(Host, s) /\ s.sess = Host.sess
    BY <1>1, <1>4, <1>5, SendsSound
  <2>2. OneMore(Host, s, j, cmd)
    BY <1>1, <1>4, <1>5, SendsIs
  <2>3. s.tabs = tabs /\ s.bind = bind /\ s.active = active
    BY HostParts DEF Sends
  <2> HIDE DEF s
  <2>4. Whole(s) /\ s \in Hosts /\ s.sess[j].there /\ s.sess[j] \in Session /\ s.wk[j] \in Workers
    BY <1>4, <2>1, SessionTypes DEF Sound, Whole
  <2>5. AllFit(s)
    <3> DEFINE r == Host.sess[j]
               w == Host.wk[j]
               v == s.wk[j]
    <3>1. /\ w \in Workers /\ v \in Workers /\ v.link = w.link /\ v.cmds = Append(w.cmds, cmd)
          /\ w.cmds = <<>> /\ Len(w.cmds) + 1 = 1 /\ DOMAIN w.cmds = {}
      BY <1>1, <1>3, <1>4, <2>2, SessionTypes DEF OneMore
    <3>2. Fit(does, j, r, w)
      BY <1>4 DEF AllFit
    <3> HIDE DEF w, v
    <3>3. AtRest(does, r, w) /\ InPlace(does, r, w)
      BY <3>1, <3>2 DEF Fit, Leading
    <3>4. Suits(does, j, r, w, cmd, 1)
      BY <1>5, <1>7 DEF Suits
    <3>5. Fit(does, j, r, v)
      BY <1>5, <3>1, <3>3, <3>4, FitSent
    <3> QED BY <1>4, <2>1, <2>2, <3>5, FitOne DEF AllFit, OneMore, v
  <2> DEFINE x == [s.sess[j] EXCEPT !.open = {}]
             y == s.sess[j]
  <2>6. /\ x \in Session /\ x.there = y.there /\ x.owner = y.owner /\ x.spec = y.spec
        /\ x.idle = y.idle /\ x.closing = y.closing /\ x.connected = y.connected
        /\ x.desc = y.desc /\ x.open = {}
    BY <2>4 DEF Session
  <2>7. o = Alter(s, j, x, s.wk[j])
    BY <1>4, <2>4 DEF Alter, Hosts
  <2>8. o.tabs = tabs /\ o.bind = bind /\ o.active = active
    BY <2>3
  <2> HIDE DEF x, o
  <2>9. (x.idle => x.spec # Spec0) /\ (x.closing => x.owner # None)
    BY <1>4, <2>4, <2>6 DEF Whole
  <2>10. Whole(o)
    BY <1>4, <2>4, <2>6, <2>7, <2>9, AlterSound
  <2>11. AllFit(o)
    <3>1. Fit(does, j, y, s.wk[j])
      BY <1>4, <2>5 DEF AllFit
    <3> HIDE DEF y
    <3>2. Fit(does, j, x, s.wk[j])
      BY <2>6, <3>1, FitLess
    <3> QED BY <1>4, <2>4, <2>5, <2>7, <3>2, FitAlter
  <2> QED BY <2>8, <2>10, <2>11
<1>9. Whole(h) /\ AllFit(h) /\ h.tabs = tabs /\ h.bind = bind /\ h.active = active
  <2>1. CASE asks
    BY <1>8, <2>1
  <2>2. CASE ~asks
    BY <1>1, <2>2, HostParts
  <2> QED BY <2>1, <2>2
<1> HIDE DEF h
<1> DEFINE T == tabs \ {t}
           v == IF active = t THEN u ELSE active
           d == Turned(h, T, v)
<1>10. h \in Hosts
  BY <1>9 DEF Whole
<1>11. [h EXCEPT !.tabs = @ \ {t}, !.active = IF @ = t THEN u ELSE @] = d
  BY <1>9, <1>10 DEF Hosts, Turned
<1>12. T \subseteq Tabs /\ v \in T /\ \A w \in T : w \in h.tabs \/ h.bind[w] = 0
  BY <1>1, <1>2, <1>9, HostParts DEF Whole
<1> HIDE DEF T, v
<1>13. Whole(d) /\ d.sess = h.sess
  BY <1>9, <1>12, TurnedSound
<1>14. d.wk = h.wk
  BY <1>10 DEF Turned, Hosts
<1>15. AllFit(d)
  BY <1>9, <1>13, <1>14, FitSame
<1>16. Settles(d)
  BY <1>2, <1>11
<1> HIDE DEF d
<1> QED BY <1>13, <1>15, <1>16, FitSettles

-----------------------------------------------------------------------------
(* A command is carried out.                                               *)

\* What a worker has done so far for a session meant for v: it is there or
\* nowhere, and so were its changes, which were to run on m.  led: it has
\* started by connecting.
Up(m) == m.ev \in {"up", "connected"}
Tells(out, v, led) ==
  /\ \A k \in DOMAIN out : Up(out[k]) => led /\ out[k].srv = v
  /\ led => out # <<>> /\ Up(out[1])
Trail(a, v, m, led) ==
  /\ a.link \in {None, v} /\ (a.link # None => a.meant = m)
  /\ \A r \in a.ran : r.on = v /\ r.meant = m /\ (v \in Production => r.guarded)
  /\ Tells(a.out, v, led)

\* Another answer that says nothing of a server.
LEMMA OneMoreOut ==
  ASSUME NEW X, NEW out \in Seq(X), NEW x, NEW v, NEW led, ~Up(x), Tells(out, v, led)
  PROVE  Tells(Append(out, x), v, led)
<1> USE DEF Tells
<1> DEFINE n == Len(out)
           o == Append(out, x)
<1>1. n \in Nat /\ DOMAIN out = 1..n /\ (out # <<>> => 1 \in 1..n)
  BY LenProperties, EmptySeq
<1>2. DOMAIN o = 1..(n + 1) /\ (\A k \in 1..n : o[k] = out[k]) /\ o[n + 1] = x /\ o # <<>>
  <2>1. out \in Seq(X \cup {x}) /\ x \in X \cup {x}
    BY <1>1, ElementOfSeq
  <2> QED BY <1>1, <2>1, AppendProperties
<1> HIDE DEF o, n
<1>3. ASSUME NEW k \in DOMAIN o, Up(o[k]) PROVE led /\ o[k].srv = v
  <2>1. k \in 1..n
    BY <1>1, <1>2, <1>3
  <2> QED BY <1>1, <1>2, <1>3, <2>1
<1>4. led => o # <<>> /\ Up(o[1])
  BY <1>1, <1>2
<1> QED BY <1>3, <1>4 DEF o

LEMMA SteppedTrail ==
  ASSUME NEW cmd, NEW a \in Trails(cmd), NEW item \in Items, item.do # "connect",
         NEW refused, NEW v, NEW m, NEW led, Trail(a, v, m, led),
         item.do = "change" /\ v \in Production => cmd.guarded
  PROVE  Trail(Stepped(a, item, cmd.guarded, refused), v, m, led)
<1> DEFINE g == Stepped(a, item, cmd.guarded, refused)
<1>1. a.out \in Seq(Outs(cmd))
  BY DEF Trails
<1>2. Tells(a.out, v, led)
  BY DEF Trail
<1>3. CASE item.do = "disconnect"
  <2> DEFINE x == Msg("disconnected", None)
             o == Append(a.out, x)
  <2>1. ~Up(x)
    BY DEF Up, Msg
  <2> HIDE DEF x
  <2>2. Tells(o, v, led)
    BY <1>1, <1>2, <2>1, OneMoreOut
  <2> HIDE DEF o
  <2>3. g = [a EXCEPT !.link = None, !.meant = None, !.out = o]
    BY <1>3 DEF Stepped, o, x
  <2>4. g.link = None /\ g.out = o /\ g.ran = a.ran
    BY <2>3 DEF Trails
  <2> HIDE DEF g
  <2>5. Trail(g, v, m, led)
    BY <2>2, <2>4 DEF Trail
  <2> QED BY <2>5 DEF g
<1>4. CASE item.do = "change" /\ a.link = None
  BY <1>4 DEF Stepped
<1>5. CASE item.do = "change" /\ a.link # None
  <2> DEFINE x == Msg("changed", a.link)
             o == Append(a.out, x)
             r == [on |-> a.link, meant |-> a.meant, guarded |-> cmd.guarded]
  <2>1. ~Up(x)
    BY DEF Up, Msg
  <2> HIDE DEF x
  <2>2. Tells(o, v, led)
    BY <1>1, <1>2, <2>1, OneMoreOut
  <2>3. r.on = v /\ r.meant = m /\ (v \in Production => r.guarded)
    BY <1>5 DEF Trail
  <2> HIDE DEF o, r
  <2>4. g = [a EXCEPT !.out = o, !.ran = @ \cup {r}]
    BY <1>5 DEF Stepped, o, x, r
  <2>5. g.link = a.link /\ g.meant = a.meant /\ g.out = o /\ g.ran = a.ran \cup {r}
    BY <2>4 DEF Trails
  <2> HIDE DEF g
  <2>6. Trail(g, v, m, led)
    BY <2>2, <2>3, <2>5 DEF Trail
  <2> QED BY <2>6 DEF g
<1>6. item.do \in {"connect", "disconnect", "change"}
  BY DEF Items, Change, Disconnect, Connect
<1> QED BY <1>3, <1>4, <1>5, <1>6

\* No login is refused: a CONNECT gets there.
LEMMA ConnectedTrail ==
  ASSUME NEW cmd, NEW a \in Trails(cmd), a.out = <<>>, a.ran = {}, NEW spec
  PROVE  Connected(a, spec, {}) = [a EXCEPT !.link = spec.srv, !.out = <<Msg("connected", spec.srv)>>]
<1> DEFINE x == Msg("connected", spec.srv)
<1>1. Append(a.out, x) = <<x>>
  OBVIOUS
<1> HIDE DEF x
<1>2. Connected(a, spec, {}) = [a EXCEPT !.link = spec.srv, !.out = <<x>>]
  BY <1>1 DEF Connected, x
<1> QED BY <1>2 DEF x

\* What a text comes to that starts by connecting, or has no CONNECT.
LEMMA ExecutedTrail ==
  ASSUME NEW cmd \in Commands, cmd.op = "run", NEW a \in Trails(cmd), a.out = <<>>, a.ran = {},
         NEW srv, Led(cmd.script, srv),
         NEW v, NEW m,
         Leads(cmd) => v = srv /\ m = srv,
         ~Leads(cmd) => v = a.link /\ m = a.meant,
         HasChange(cmd.script) /\ v \in Production => cmd.guarded
  PROVE  Trail(Executed(a, cmd, {}), v, m, Leads(cmd))
<1> DEFINE led == Leads(cmd)
           n == Len(cmd.script)
           T == { b \in Trails(cmd) : Trail(b, v, m, led) }
           L == [k \in 0..n |-> IF k = 0 /\ led THEN {a} ELSE T]
<1>1. cmd.script \in Seq(Items) /\ n \in Nat /\ DOMAIN cmd.script = 1..n
      /\ \A k \in 1..n : cmd.script[k] \in Items
  BY LenProperties, ElementOfSeq DEF Commands
<1>2. \A b \in Trails(cmd), x \in Items : Stepped(b, x, cmd.guarded, {}) \in Trails(cmd)
  BY SteppedType
<1>3. led => n >= 1 /\ cmd.script[1].do = "connect"
  BY <1>1, EmptySeq DEF Leads
<1>4. \A k \in 1..n : cmd.script[k].do = "connect" => k = 1 /\ led /\ cmd.script[k].to.srv = srv
  <2>1. ASSUME NEW k \in 1..n, cmd.script[k].do = "connect"
        PROVE  k = 1 /\ led /\ cmd.script[k].to.srv = srv
    <3>1. k = 1 /\ cmd.script[k].to.srv = srv
      BY <1>1, <2>1 DEF Led
    <3>2. cmd.script # <<>>
      BY <1>1
    <3> QED BY <2>1, <3>1, <3>2 DEF Leads
  <2> QED BY <2>1
<1>5. \A k \in 1..n : cmd.script[k].do = "change" => HasChange(cmd.script)
  BY <1>1 DEF HasChange
<1> HIDE DEF led, n
<1>6. (led => L[0] = {a}) /\ (~led => L[0] = T) /\ \A k \in 1..n : L[k] = T
  BY <1>1
<1>7. a \in L[0]
  <2>1. CASE led
    BY <1>6, <2>1
  <2>2. CASE ~led
    <3>1. Trail(a, v, m, led)
      <4>1. DOMAIN a.out = {}
        OBVIOUS
      <4> QED BY <2>2, <4>1 DEF Trail, Tells, led
    <3> QED BY <1>6, <2>2, <3>1
  <2> QED BY <2>1, <2>2
<1>8. ASSUME NEW k \in 1..n, NEW b \in Trails(cmd), b \in L[k - 1]
      PROVE  Stepped(b, cmd.script[k], cmd.guarded, {}) \in L[k]
  <2> DEFINE x == cmd.script[k]
             g == Stepped(b, x, cmd.guarded, {})
  <2>1. g \in Trails(cmd) /\ x \in Items
    BY <1>1, <1>2
  <2>2. CASE x.do = "connect"
    <3>1. k = 1 /\ led /\ x.to.srv = srv /\ v = srv /\ m = srv
      BY <1>4, <2>2 DEF led
    <3>2. b = a
      <4>1. k - 1 = 0
        BY <3>1
      <4> QED BY <1>6, <1>8, <3>1, <4>1
    <3>3. Connected(a, x.to, {}) = [a EXCEPT !.link = x.to.srv, !.out = <<Msg("connected", x.to.srv)>>]
      <4> DEFINE spec == x.to
      <4> HIDE DEF spec
      <4>1. Connected(a, spec, {}) = [a EXCEPT !.link = spec.srv, !.out = <<Msg("connected", spec.srv)>>]
        BY ConnectedTrail
      <4> QED BY <4>1 DEF spec
    <3>4. g = [Connected(a, x.to, {}) EXCEPT !.meant = x.to.srv]
      BY <2>2, <3>2 DEF Stepped
    <3> DEFINE o == <<Msg("connected", x.to.srv)>>
    <3>5. g.link = srv /\ g.meant = srv /\ g.ran = {} /\ g.out = o
      <4> HIDE DEF o, g
      <4> QED BY <3>1, <3>3, <3>4 DEF Trails, o
    <3>6. DOMAIN o = {1} /\ o # <<>> /\ Up(o[1]) /\ o[1].srv = srv
      BY <3>1 DEF Up, Msg
    <3> HIDE DEF o, g
    <3>7. Trail(g, v, m, led)
      BY <3>1, <3>5, <3>6 DEF Trail, Tells
    <3> QED BY <1>6, <2>1, <3>7 DEF g
  <2>3. CASE x.do # "connect"
    <3>1. Trail(b, v, m, led)
      <4>1. k - 1 \in 0..n /\ (k = 1 \/ k - 1 \in 1..n)
        BY <1>1
      <4>2. CASE k = 1
        BY <1>3, <1>6, <1>8, <2>3, <4>2
      <4>3. CASE k - 1 \in 1..n
        BY <1>6, <1>8, <4>3
      <4> QED BY <4>1, <4>2, <4>3
    <3>2. x.do = "change" /\ v \in Production => cmd.guarded
      BY <1>5
    <3> HIDE DEF x
    <3>3. Trail(g, v, m, led)
      BY <2>1, <2>3, <3>1, <3>2, SteppedTrail
    <3> QED BY <1>6, <2>1, <3>3 DEF x
  <2> QED BY <2>2, <2>3
<1> HIDE DEF L, T
<1>9. Executed(a, cmd, {}) \in L[Len(cmd.script)]
  <2>1. \A k \in 1..Len(cmd.script), b \in Trails(cmd) :
           b \in L[k - 1] => Stepped(b, cmd.script[k], cmd.guarded, {}) \in L[k]
    BY <1>8 DEF n
  <2> QED BY <1>1, <1>2, <1>7, <2>1, ExecutedAlong
<1>10. L[n] = T
  <2>1. CASE n = 0
    BY <1>3, <1>6, <2>1
  <2>2. CASE n # 0
    BY <1>1, <1>6, <2>2
  <2> QED BY <2>1, <2>2
<1> QED BY <1>9, <1>10 DEF T, n, led

\* What a command comes to: one that starts by connecting gets to srv, any
\* other stays where the worker is.
LEMMA CarriedTrail ==
  ASSUME NEW cmd \in Commands, NEW a \in Trails(cmd), a.out = <<>>, a.ran = {}, NEW srv,
         cmd.op \in {"connect", "login"} => cmd.to.srv = srv,
         cmd.op = "run" => Led(cmd.script, srv),
         NEW v, NEW m,
         Leads(cmd) => v = srv /\ (cmd.op = "run" => m = srv),
         ~Leads(cmd) => v = a.link,
         ~Leads(cmd) \/ cmd.op # "run" => m = a.meant,
         cmd.op = "run" /\ HasChange(cmd.script) /\ v \in Production => cmd.guarded
  PROVE  /\ Trail(Carried(cmd, a, {}), v, m, Leads(cmd))
         /\ cmd.op # "run" => Carried(cmd, a, {}).ran = {}
<1> DEFINE g == Carried(cmd, a, {})
<1>1. cmd.op \in {"connect", "login", "run", "commit"}
  BY DEF Commands
<1>2. CASE cmd.op = "run"
  <2>1. g = Executed(a, cmd, {})
    BY <1>2 DEF Carried
  <2> HIDE DEF g
  <2>2. Trail(Executed(a, cmd, {}), v, m, Leads(cmd))
    BY <1>2, ExecutedTrail
  <2>3. Trail(g, v, m, Leads(cmd))
    BY <2>1, <2>2
  <2> QED BY <1>2, <2>3 DEF g
<1>3. CASE cmd.op = "commit"
  <2>1. g = a /\ ~Leads(cmd)
    BY <1>3 DEF Carried, Leads
  <2>2. DOMAIN a.out = {}
    OBVIOUS
  <2> HIDE DEF g
  <2>3. Trail(g, v, m, Leads(cmd)) /\ g.ran = {}
    BY <2>1, <2>2 DEF Trail, Tells
  <2> QED BY <2>3 DEF g
<1>4. CASE cmd.op \in {"connect", "login"}
  <2> DEFINE x == Msg("up", srv)
             y == Msg("connected", srv)
  <2>1. /\ Leads(cmd) /\ cmd.to.srv = srv /\ v = srv /\ m = a.meant
        /\ Up(x) /\ x.srv = srv /\ Up(y) /\ y.srv = srv
    BY <1>4 DEF Leads, Up, Msg
  <2>2. CASE a.link = srv /\ ~cmd.again /\ ~cmd.to.bare
    <3> HIDE DEF x
    <3> DEFINE o == <<x>>
    <3>1. g = [a EXCEPT !.out = o]
      BY <1>4, <2>1, <2>2 DEF Carried, x
    <3>2. DOMAIN o = {1} /\ o # <<>> /\ o[1] = x
      OBVIOUS
    <3> HIDE DEF o
    <3>3. g.link = srv /\ g.meant = m /\ g.ran = {} /\ g.out = o
      BY <2>1, <2>2, <3>1 DEF Trails
    <3> HIDE DEF g
    <3>4. Trail(g, v, m, Leads(cmd))
      BY <2>1, <3>2, <3>3 DEF Trail, Tells
    <3> QED BY <3>3, <3>4 DEF g
  <2>3. CASE ~(a.link = srv /\ ~cmd.again /\ ~cmd.to.bare)
    <3> DEFINE b == Connected(a, cmd.to, {})
               o == <<x>> \o <<y>>
    <3>1. b = [a EXCEPT !.link = srv, !.out = <<y>>]
      <4> DEFINE spec == cmd.to
      <4> HIDE DEF spec
      <4>1. Connected(a, spec, {}) = [a EXCEPT !.link = spec.srv, !.out = <<Msg("connected", spec.srv)>>]
        BY ConnectedTrail
      <4> QED BY <2>1, <4>1 DEF spec
    <3>2. g = [b EXCEPT !.out = <<x>> \o @]
      <4>1. Msg(IF cmd.to.srv \in {} THEN "failed" ELSE "up", cmd.to.srv) = x
        BY <2>1
      <4> HIDE DEF b, x
      <4> QED BY <1>4, <2>1, <2>3, <4>1 DEF Carried, b
    <3> HIDE DEF b, x, y
    <3>3. DOMAIN o = 1..2 /\ o # <<>> /\ o[1] = x /\ o[2] = y
      OBVIOUS
    <3>4. b.out = <<y>> /\ g.out = o
      BY <3>1, <3>2 DEF Trails
    <3>5. g.link = srv /\ g.meant = m /\ g.ran = {}
      BY <2>1, <3>1, <3>2 DEF Trails
    <3> HIDE DEF g, o
    <3>6. \A k \in DOMAIN o : o[k].srv = srv
      <4>1. \A k \in DOMAIN o : k = 1 \/ k = 2
        BY <3>3
      <4> QED BY <2>1, <3>3, <4>1
    <3>7. Trail(g, v, m, Leads(cmd))
      BY <2>1, <3>3, <3>4, <3>5, <3>6 DEF Trail, Tells
    <3> QED BY <3>5, <3>7 DEF g
  <2> QED BY <2>2, <2>3
<1> QED BY <1>1, <1>2, <1>3, <1>4

-----------------------------------------------------------------------------
(* Its answers are heard.                                                  *)

\* What they leave of the host, and what they say of the session: that it is
\* on v, or nothing.
Told(h, g, i) ==
  /\ Whole(g) /\ g.wk = h.wk /\ \A j \in Ids \ {i} : g.sess[j] = h.sess[j]
  /\ g.sess[i].there /\ g.sess[i].spec.srv = h.sess[i].spec.srv
  /\ g.sess[i].spec.bare => h.sess[i].spec.bare
  /\ g.sess[i].idle => h.sess[i].idle
  /\ "manual" \notin does.ops => g.sess[i].open \subseteq h.sess[i].open
Says(s, x, v, led) == IF led THEN x.desc = v ELSE x.desc = s.desc /\ (x.connected => s.connected)

LEMMA HeardTold ==
  ASSUME NEW h, NEW g, NEW i \in Ids, Told(h, g, i), NEW cmd \in Commands, NEW m \in Outs(cmd)
  PROVE  Told(h, Heard(g, i, m, cmd), i)
<1> DEFINE f == Heard(g, i, m, cmd)
<1>1. Whole(g) /\ g.sess[i].there
  BY DEF Told
<1>2. /\ Whole(f) /\ f.sess[i].there /\ f.wk = g.wk
      /\ \A j \in Ids \ {i} : f.sess[j] = g.sess[j]
      /\ HeardOf(g.sess[i], f.sess[i], m)
  BY <1>1, HeardSound
<1> HIDE DEF f
<1>3. Told(h, f, i)
  BY <1>2 DEF Told, HeardOf
<1> QED BY <1>3 DEF f

LEMMA AllHeardTold ==
  ASSUME NEW h, Whole(h), NEW i \in Ids, h.sess[i].there,
         NEW cmd \in Commands, NEW out \in Seq(Outs(cmd)), NEW v, NEW led
  PROVE  /\ Told(h, AllHeard(h, i, out, cmd), i)
         /\ Tells(out, v, led) => Says(h.sess[i], AllHeard(h, i, out, cmd).sess[i], v, led)
<1> DEFINE K == { g \in Hosts : Told(h, g, i) }
           T == { g \in K : Says(h.sess[i], g.sess[i], v, led) }
           n == Len(out)
           L == [k \in 0..n |-> IF k = 0 /\ led THEN K ELSE T]
<1>1. h \in K
  BY DEF Whole, Told
<1>2. ASSUME NEW g \in K, NEW m \in Outs(cmd) PROVE Heard(g, i, m, cmd) \in K
  <2> DEFINE f == Heard(g, i, m, cmd)
  <2>1. Told(h, f, i)
    BY HeardTold
  <2> HIDE DEF f
  <2>2. f \in K
    BY <2>1 DEF Told, Whole
  <2> QED BY <2>2 DEF f
<1>3. n \in Nat /\ DOMAIN out = 1..n /\ \A k \in 1..n : out[k] \in Outs(cmd)
  BY LenProperties, ElementOfSeq
<1> HIDE DEF K
<1>4. AllHeard(h, i, out, cmd) \in K
  BY <1>1, <1>2, AllHeardKeeps
<1>5. ASSUME Tells(out, v, led) PROVE Says(h.sess[i], AllHeard(h, i, out, cmd).sess[i], v, led)
  <2>1. /\ \A k \in 1..n : Up(out[k]) => led /\ out[k].srv = v
        /\ led => out # <<>> /\ Up(out[1])
    BY <1>3, <1>5 DEF Tells
  <2>2. led => n >= 1
    BY <1>3, <2>1
  <2> HIDE DEF n
  <2>3. (led => L[0] = K) /\ (~led => L[0] = T) /\ \A k \in 1..n : L[k] = T
    BY <1>3
  <2>4. h \in L[0]
    <3>1. ~led => h \in T
      BY <1>1 DEF Says
    <3> QED BY <1>1, <2>3, <3>1
  <2>5. ASSUME NEW k \in 1..n, NEW g \in K, g \in L[k - 1]
        PROVE  Heard(g, i, out[k], cmd) \in L[k]
    <3> DEFINE f == Heard(g, i, out[k], cmd)
    <3>1. f \in K
      BY <1>2, <1>3
    <3>2. HeardOf(g.sess[i], f.sess[i], out[k])
      <4>1. Whole(g) /\ g.sess[i].there /\ out[k] \in Outs(cmd)
        BY <1>3 DEF K, Told
      <4> QED BY <4>1, HeardSound
    <3> HIDE DEF f
    <3>3. (k = 1 /\ led) \/ Says(h.sess[i], g.sess[i], v, led)
      <4>1. CASE k = 1
        BY <2>3, <2>5, <4>1
      <4>2. CASE k # 1
        <5>1. k - 1 \in 1..n
          BY <1>3, <4>2
        <5> QED BY <2>3, <2>5, <5>1
      <4> QED BY <4>1, <4>2
    <3>4. CASE Up(out[k])
      <4>1. led /\ f.sess[i].desc = v
        BY <2>1, <3>2, <3>4 DEF HeardOf, Up
      <4> QED BY <2>3, <3>1, <4>1 DEF Says, f
    <3>5. CASE ~Up(out[k])
      <4>1. f.sess[i].desc = g.sess[i].desc /\ (f.sess[i].connected => g.sess[i].connected)
        BY <3>2, <3>5 DEF HeardOf, Up
      <4>2. Says(h.sess[i], g.sess[i], v, led)
        BY <2>1, <3>3, <3>5
      <4>3. Says(h.sess[i], f.sess[i], v, led)
        BY <4>1, <4>2 DEF Says
      <4> QED BY <2>3, <3>1, <4>3 DEF f
    <3> QED BY <3>4, <3>5
  <2> HIDE DEF L, T
  <2>6. AllHeard(h, i, out, cmd) \in L[Len(out)]
    <3>1. \A k \in 1..Len(out), g \in K :
             g \in L[k - 1] => Heard(g, i, out[k], cmd) \in L[k]
      BY <2>5 DEF n
    <3> QED BY <1>1, <1>2, <2>4, <3>1, AllHeardAlong
  <2>7. L[n] = T
    BY <1>3, <2>2, <2>3 DEF L
  <2> QED BY <2>6, <2>7 DEF T, n
<1> QED BY <1>4, <1>5 DEF K

-----------------------------------------------------------------------------
(* What a worker has done leaves its session fit.                          *)

\* The guard and the place of the changes of a step.
Sane(d, rs) ==
  /\ Calm(d) => \A r \in rs : r.on \in Production => r.guarded
  /\ Direct(d) => \A r \in rs : r.on = r.meant

\* w: the worker before, v after it; s and x: the session.
LEMMA FitDone ==
  ASSUME NEW d, NEW i, NEW s, NEW w \in Workers, w.cmds # <<>>, Fit(d, i, s, w), s.there,
         NEW cmd \in Commands, cmd = Head(w.cmds),
         NEW a \in Trails(cmd), a.link = w.link, a.meant = cmd.shown, a.out = <<>>, a.ran = {},
         NEW refused, Calm(d) => refused = {},
         NEW b, b = Carried(cmd, a, refused), b \in Trails(cmd),
         NEW v, v.link = b.link, v.cmds = Tail(w.cmds),
         NEW x, x.there, x.spec.srv = s.spec.srv, x.spec.bare => s.spec.bare, x.idle => s.idle,
         "manual" \notin d.ops => x.open \subseteq s.open,
         \A u, led : Tells(b.out, u, led) => Says(s, x, u, led)
  PROVE  Fit(d, i, x, v) /\ Sane(d, b.ran)
<1> DEFINE srv == s.spec.srv
           led == Leads(cmd)
           u == IF led THEN srv ELSE w.link
           m == IF led /\ cmd.op = "run" THEN srv ELSE cmd.shown
<1>1. w.cmds \in Seq(Commands) /\ 1 \in DOMAIN w.cmds /\ w.cmds[1] = cmd
  BY EmptySeq, LenProperties DEF Workers
<1>2. Suits(d, i, s, w, cmd, 1) /\ AtRest(d, s, w)
  BY <1>1 DEF Fit
<1>3. ~led => InPlace(d, s, w)
  BY <1>1 DEF Fit, Leading
<1>4. None \notin Production /\ None \notin Servers
  BY TabsAssumption
\* Where it has been.
<1>5. ASSUME Calm(d)
      PROVE  Trail(b, u, m, led) /\ Says(s, x, u, led) /\ (cmd.op # "run" => b.ran = {})
  <2>1. /\ cmd.op \in {"connect", "login"} => cmd.to.srv = srv
        /\ cmd.op = "run" => Led(cmd.script, srv)
        /\ cmd.op = "run" /\ HasChange(cmd.script) /\ srv \in Production => cmd.guarded
    BY <1>2, <1>5 DEF Suits
  <2>2. u \in Production => srv \in Production
    BY <1>3, <1>5 DEF InPlace
  <2>3. /\ led => u = srv /\ (cmd.op = "run" => m = srv)
        /\ ~led => u = a.link
        /\ ~led \/ cmd.op # "run" => m = a.meant
    OBVIOUS
  <2> HIDE DEF u, m, srv
  <2>4. /\ Trail(Carried(cmd, a, {}), u, m, Leads(cmd))
        /\ cmd.op # "run" => Carried(cmd, a, {}).ran = {}
    <3>1. cmd.op = "run" /\ HasChange(cmd.script) /\ u \in Production => cmd.guarded
      BY <2>1, <2>2
    <3> QED BY <2>1, <2>3, <3>1, CarriedTrail, ZenonT(40) DEF led
  <2>5. b = Carried(cmd, a, {})
    BY <1>5
  <2>6. Tells(b.out, u, led)
    BY <2>4, <2>5 DEF Trail
  <2> HIDE DEF led
  <2> QED BY <2>4, <2>5, <2>6 DEF led
<1>6. Direct(d) => Calm(d)
  BY DEF Direct
<1>7. AtRest(d, x, v)
  <2>1. ASSUME Direct(d), x.idle PROVE x.desc = x.spec.srv
    <3>1. Says(s, x, u, led) /\ s.desc = srv
      BY <1>2, <1>5, <1>6, <2>1 DEF AtRest
    <3> QED BY <3>1 DEF Says
  <2> QED BY <1>2, <2>1 DEF AtRest
<1>8. ASSUME NEW k \in DOMAIN v.cmds PROVE Suits(d, i, x, v, v.cmds[k], k)
  <2>1. k \in Nat /\ k >= 1 /\ k + 1 \in DOMAIN w.cmds /\ v.cmds[k] = w.cmds[k + 1]
    <3>1. Len(w.cmds) \in Nat /\ DOMAIN w.cmds = 1..Len(w.cmds)
      BY <1>1, LenProperties
    <3>2. Tail(w.cmds) \in Seq(Commands) /\ Len(Tail(w.cmds)) = Len(w.cmds) - 1
          /\ \A j \in 1..Len(Tail(w.cmds)) : Tail(w.cmds)[j] = w.cmds[j + 1]
      BY <1>1, HeadTailProperties
    <3>3. DOMAIN v.cmds = 1..(Len(w.cmds) - 1)
      BY <3>2, LenProperties
    <3> QED BY <3>1, <3>2, <3>3
  <2>2. Suits(d, i, s, w, w.cmds[k + 1], k + 1) /\ k + 1 # 1
    BY <2>1 DEF Fit
  <2> DEFINE c == w.cmds[k + 1]
  <2> HIDE DEF c
  <2>3. Suits(d, i, s, w, c, k + 1) /\ v.cmds[k] = c
    BY <2>1, <2>2 DEF c
  <2> QED BY <2>2, <2>3 DEF Suits
<1>9. InPlace(d, x, v)
  <2>1. ASSUME Calm(d), v.link \in Production PROVE x.spec.srv \in Production
    <3>1. v.link = u
      BY <1>4, <1>5, <2>1 DEF Trail
    <3> QED BY <1>3, <2>1, <3>1 DEF InPlace
  <2>2. ASSUME Direct(d), v.link # None PROVE v.link = x.spec.srv
    <3>1. v.link = u
      BY <1>5, <1>6, <2>2 DEF Trail
    <3> QED BY <1>3, <2>2, <3>1 DEF InPlace
  <2>3. ASSUME Direct(d), v.link # None \/ x.connected PROVE x.desc = x.spec.srv
    <3>1. Says(s, x, u, led) /\ v.link \in {None, u}
      BY <1>5, <1>6, <2>3 DEF Trail
    <3>2. CASE led
      BY <3>1, <3>2 DEF Says
    <3>3. CASE ~led
      BY <1>3, <2>3, <3>1, <3>3 DEF Says, InPlace
    <3> QED BY <3>2, <3>3
  <2> QED BY <2>1, <2>2, <2>3 DEF InPlace
<1>10. Sane(d, b.ran)
  <2>1. ASSUME Calm(d), NEW r \in b.ran, r.on \in Production PROVE r.guarded
    BY <1>5, <2>1 DEF Trail
  <2>2. ASSUME Direct(d), NEW r \in b.ran PROVE r.on = r.meant
    <3>1. cmd.op = "run" /\ r.on = u /\ r.meant = m /\ r.on # None
      BY <1>4, <1>5, <1>6, <2>2 DEF Trail, Trails, Changes
    <3>2. CASE led
      BY <3>1, <3>2
    <3>3. CASE ~led
      <4>1. w.link # None /\ w.link = srv
        BY <1>3, <2>2, <3>1, <3>3 DEF InPlace
      <4>2. cmd.shown = srv
        BY <1>2, <2>2, <3>1, <3>3, <4>1 DEF Suits
      <4> QED BY <3>1, <3>3, <4>1, <4>2
    <3> QED BY <3>2, <3>3
  <2> QED BY <2>1, <2>2 DEF Sane
<1> QED BY <1>7, <1>8, <1>9, <1>10 DEF Fit

LEMMA AnswersFit ==
  ASSUME TabsInv, AllFit(Host), UNCHANGED does, NEW i \in Ids, NEW refused \in Refusable,
         Answers(i, refused)
  PROVE  AllFit(Host)' /\ Sane(does, ran')
<1> DEFINE cmd == Head(wk[i].cmds)
           a0 == Start(i, cmd)
           a == Carried(cmd, a0, refused)
           w == [link |-> a.link, cmds |-> Tail(wk[i].cmds)]
           h == [Host EXCEPT !.wk[i] = [link |-> a.link, cmds |-> Tail(@.cmds)]]
           b == AllHeard(h, i, a.out, cmd)
           r == Reaped(b)
<1>1. wk[i].cmds # <<>> /\ Becomes(Synced(r)) /\ ran' = a.ran
  BY HostParts DEF Answers, Busy
<1>2. Whole(Host) /\ Host \in Hosts /\ Host.sess = sess /\ Host.wk = wk
  BY HostStable, HostParts
<1>3. wk[i] \in Workers /\ wk[i].link \in Servers \cup {None} /\ wk[i].cmds \in Seq(Commands)
      /\ sess[i] \in Session
  BY <1>2, SessionTypes
<1>4. cmd \in Commands /\ Tail(wk[i].cmds) \in Seq(Commands) /\ cmd.shown \in Servers \cup {None}
  BY <1>1, <1>3, HeadTailProperties DEF Commands
<1>5. cmd = Head(wk[i].cmds)
  OBVIOUS
<1> HIDE DEF cmd
<1>6. a0 \in Trails(cmd) /\ a0.link = wk[i].link /\ a0.meant = cmd.shown /\ a0.out = <<>> /\ a0.ran = {}
  BY <1>3, <1>4, EmptySeq DEF Start, Trails
<1> HIDE DEF a0
<1>7. a \in Trails(cmd) /\ a = Carried(cmd, a0, refused)
  BY <1>4, <1>6, CarriedType
<1> HIDE DEF a
<1>8. a.out \in Seq(Outs(cmd)) /\ a.link \in Servers \cup {None}
  BY <1>7 DEF Trails
<1>9. w \in Workers /\ w.link = a.link /\ w.cmds = Tail(wk[i].cmds)
  BY <1>4, <1>8 DEF Workers
<1>10. h = Alter(Host, i, sess[i], w)
  BY <1>2, <1>3 DEF Alter, Hosts
<1> HIDE DEF w, h
<1>11. sess[i].there
  BY <1>1, <1>2 DEF Whole
<1>12. Whole(h) /\ h.sess = sess /\ h.wk[i] = w /\ \A j \in Ids \ {i} : h.wk[j] = wk[j]
  <2>1. (sess[i].idle => sess[i].spec # Spec0) /\ (sess[i].closing => sess[i].owner # None)
    BY <1>2 DEF Whole
  <2>2. Whole(h)
    BY <1>2, <1>3, <1>9, <1>10, <1>11, <2>1, AlterSound
  <2>3. h.sess = [sess EXCEPT ![i] = sess[i]] /\ h.wk = [wk EXCEPT ![i] = w]
    BY <1>2, <1>10 DEF Alter, Hosts
  <2>4. sess \in [Ids -> Session] /\ wk \in [Ids -> Workers]
    BY <1>2 DEF Hosts
  <2>5. h.sess = sess
    BY <2>3, <2>4
  <2> QED BY <2>2, <2>3, <2>4, <2>5
<1>13. Told(h, b, i) /\ \A u, led : Tells(a.out, u, led) => Says(sess[i], b.sess[i], u, led)
  BY <1>4, <1>8, <1>11, <1>12, AllHeardTold
<1> HIDE DEF b
<1>14. Calm(does) => refused = {}
  BY DEF Calm, Refusable
<1>15. Fit(does, i, b.sess[i], w) /\ Sane(does, a.ran)
  <2> DEFINE s == sess[i]
             x == b.sess[i]
             z == wk[i]
             d == does
  <2>1. /\ Fit(d, i, s, z) /\ s.there /\ z \in Workers /\ z.cmds # <<>> /\ cmd = Head(z.cmds)
        /\ a0.link = z.link /\ w.cmds = Tail(z.cmds)
        /\ Calm(d) => refused = {}
    BY <1>1, <1>2, <1>3, <1>5, <1>6, <1>9, <1>11, <1>14 DEF AllFit
  <2>2. /\ x.there /\ x.spec.srv = s.spec.srv /\ (x.spec.bare => s.spec.bare) /\ (x.idle => s.idle)
        /\ "manual" \notin d.ops => x.open \subseteq s.open
    BY <1>12, <1>13 DEF Told
  <2>3. \A u, led : Tells(a.out, u, led) => Says(s, x, u, led)
    BY <1>13
  <2> HIDE DEF s, x, z, d
  <2>4. Fit(d, i, x, w) /\ Sane(d, a.ran)
    BY <1>4, <1>6, <1>7, <1>9, <2>1, <2>2, <2>3, FitDone
  <2> QED BY <2>4 DEF x, d
<1>16. AllFit(b) /\ Whole(b)
  <2>1. \A j \in Ids \ {i} : Fit(does, j, Host.sess[j], Host.wk[j])
    BY DEF AllFit
  <2>2. \A j \in Ids \ {i} : b.sess[j] = Host.sess[j] /\ b.wk[j] = Host.wk[j]
    BY <1>2, <1>12, <1>13 DEF Told
  <2>3. b.wk[i] = w /\ Whole(b)
    BY <1>12, <1>13 DEF Told
  <2> QED BY <1>15, <2>1, <2>2, <2>3, FitOne
<1>17. AllFit(r) /\ r \in Hosts
  BY <1>16, FitReaped, ReapedIs
<1> HIDE DEF r
<1>18. AllFit(Synced(r))
  BY <1>17, SyncedSame, FitSame
<1>19. AllFit(Host)'
  BY <1>1, <1>18, FitBecomes
<1> QED BY <1>1, <1>15, <1>19

-----------------------------------------------------------------------------
(* At first, and step by step.                                             *)

FitInv ==
  /\ TabsInv /\ AllFit(Host)
  /\ objbk = NoBackup \/ "backup" \in does.ops
  /\ Sane(does, ran)

LEMMA InitFit == Init => FitInv
<1> SUFFICES ASSUME Init PROVE FitInv
  OBVIOUS
<1> DEFINE first == [NewSession EXCEPT !.there = TRUE]
<1>1. /\ first.spec = Spec0 /\ first.open = {} /\ ~first.idle /\ ~first.connected
  BY DEF NewSession
<1>2. Spec0.srv = None /\ ~Spec0.bare /\ ~NewSession.idle /\ NewSession.spec = Spec0
      /\ NewSession.open = {}
  BY DEF Spec0, NewSession
<1> HIDE DEF first
<1>3. \A i \in Ids : sess[i] \in {first, NewSession} /\ wk[i] = NewWorker
  <2>1. sess = [i \in Ids |-> IF i = Shared THEN first ELSE NewSession]
    BY DEF Init, first
  <2>2. wk = [i \in Ids |-> NewWorker]
    BY DEF Init
  <2> QED BY <2>1, <2>2
<1>4. ASSUME NEW i \in Ids PROVE Fit(does, i, first, NewWorker)
  <2>1. AtRest(does, NewSession, NewWorker)
    BY FitNew DEF Fit
  <2> QED BY <1>1, <1>2, <2>1, FitNewWorker
<1>5. AllFit(Host)
  <2>1. \A i \in Ids : Fit(does, i, sess[i], wk[i])
    BY <1>3, <1>4, FitNew
  <2> QED BY <2>1, HostParts DEF AllFit
<1>6. objbk = NoBackup /\ Sane(does, ran)
  BY DEF Init, Sane
<1> QED BY <1>5, <1>6, InitInv DEF FitInv

LEMMA StepFit ==
  ASSUME FitInv, Next
  PROVE  FitInv'
<1> USE DEF FitInv
<1>1. TabsInv' /\ UNCHANGED does /\ TabsInv /\ AllFit(Host)
  BY StepInv DEF Next
<1> DEFINE Goal == /\ AllFit(Host)' /\ Sane(does, ran')
                   /\ objbk' = NoBackup \/ "backup" \in does.ops
           Still == ran' = {} /\ UNCHANGED objbk
<1>2. AllFit(Host)' /\ Still => Goal
  BY DEF Sane
<1>3. ASSUME NEW t \in Tabs, "tabs" \in does.ops, OpenTab(t) \/ CloseTab(t) \/ ShowTab(t) PROVE Goal
  <2>1. Still
    BY <1>3 DEF OpenTab, ShowTab, CloseTab, Stays, Settles
  <2>2. AllFit(Host)'
    BY <1>1, <1>3, TabsFit, CloseFit
  <2> QED BY <1>2, <2>1, <2>2, Zenon
<1>4. ASSUME NEW srv \in Servers, Login([srv |-> srv, bare |-> FALSE]) PROVE Goal
  <2>1. Still
    BY <1>4 DEF Login
  <2> QED BY <1>1, <1>2, <1>4, <2>1, LoginFit
<1>5. ASSUME NEW i \in Ids, Again(i) PROVE Goal
  <2>1. Still
    BY <1>5 DEF Again
  <2> QED BY <1>1, <1>2, <1>5, <2>1, AgainFit
<1>6. ASSUME NEW i \in Ids, Activate(i) PROVE Goal
  <2>1. Still
    BY <1>6 DEF Activate
  <2> QED BY <1>1, <1>2, <1>6, <2>1, TabsFit
<1>7. ASSUME NEW t \in Tabs, Unconnect(t) PROVE Goal
  <2>1. Still
    BY <1>7 DEF Unconnect, Settles
  <2> QED BY <1>1, <1>2, <1>7, <2>1, UnconnectFit
<1>8. ASSUME NEW t \in Tabs, NEW i \in Ids, Use(t, i) PROVE Goal
  <2>1. Still
    BY <1>8 DEF Use, Settles
  <2> QED BY <1>1, <1>2, <1>8, <2>1, UseFit
<1>9. ASSUME DisconnectForce PROVE Goal
  <2>1. Still
    BY <1>9 DEF DisconnectForce, Settles
  <2> QED BY <1>1, <1>2, <1>9, <2>1, DisconnectFit
<1>10. ASSUME "object" \in does.ops, NEW i \in Ids, DropObject(i) PROVE Goal
  <2>1. Still
    BY <1>10 DEF DropObject, Stays
  <2> QED BY <1>1, <1>2, <1>10, <2>1, DropFit
<1>11. ASSUME TakenUp \/ BackupFails PROVE Goal
  <2>1. ran' = {} /\ objbk' = NoBackup
    BY <1>11 DEF TakenUp, BackupFails
  <2>2. AllFit(Host)'
    BY <1>1, <1>11, BackupFit
  <2> QED BY <2>1, <2>2 DEF Sane
<1>12. ASSUME NEW i \in Ids, IdleClose(i) PROVE Goal
  <2>1. Still
    BY <1>12 DEF IdleClose
  <2> QED BY <1>1, <1>2, <1>12, <2>1, IdleFit
<1>13. ASSUME NEW script \in does.scripts, Press(script) PROVE Goal
  <2>1. ran' = {} /\ (UNCHANGED objbk \/ "backup" \in does.ops)
    BY <1>13 DEF Press
  <2>2. AllFit(Host)'
    BY <1>1, <1>13, PressFit
  <2> QED BY <2>1, <2>2 DEF Sane
<1>14. ASSUME NEW script \in does.scripts, PressClose(script) PROVE Goal
  <2>1. Still
    BY <1>14 DEF PressClose, Settles
  <2> QED BY <1>1, <1>2, <1>14, <2>1, PressCloseFit
<1>15. ASSUME NEW i \in Ids, NEW refused \in Refusable, Answers(i, refused) PROVE Goal
  <2>1. UNCHANGED objbk
    BY <1>15 DEF Answers
  <2> QED BY <1>1, <1>15, <2>1, AnswersFit
<1> HIDE DEF Goal
<1>16. Goal
  BY <1>3, <1>4, <1>5, <1>6, <1>7, <1>8, <1>9, <1>10, <1>11, <1>12, <1>13, <1>14, <1>15
  DEF Next, Step
<1> QED BY <1>1, <1>16 DEF Goal

LEMMA StutterFit ==
  ASSUME FitInv, UNCHANGED vars
  PROVE  FitInv'
<1>1. Host' = Host /\ UNCHANGED <<does, objbk, ran>>
  BY DEF vars, Host
<1>2. TabsInv'
  BY StutterInv DEF FitInv
<1>3. AllFit(Host)'
  BY <1>1 DEF FitInv, AllFit
<1>4. (objbk = NoBackup \/ "backup" \in does.ops)' /\ Sane(does, ran)'
  BY <1>1 DEF FitInv
<1> QED BY <1>2, <1>3, <1>4 DEF FitInv

\* Every worker is where the host believes it is or about to connect there,
\* and the commands on their way suit the session they go to.
THEOREM FitInvariant == Spec => []FitInv
<1>1. FitInv /\ [Next]_vars => FitInv'
  BY StepFit, StutterFit
<1> QED BY <1>1, InitFit, PTL DEF Spec

\* A change on a server of production was confirmed or is held, whatever the
\* user does with tabs, sessions and the connect window, as long as the logins
\* succeed, a CONNECT leads its text and gives a server of production by its
\* text, and nothing waits for a backup (run_text_in, place_run).  TabsProd
\* shows where a change goes unguarded without that.
THEOREM ProductionIsGuarded == Spec => [](Calm(does) => ProdGuarded)
<1>1. FitInv => (Calm(does) => ProdGuarded)
  <2> SUFFICES ASSUME FitInv, Calm(does) PROVE ProdGuarded
    OBVIOUS
  <2>1. \A r \in ran : r.on \in Production => r.guarded
    BY DEF FitInv, Sane
  <2> QED BY <2>1 DEF ProdGuarded
<1> QED BY <1>1, FitInvariant, PTL

\* A change runs on the server that the CONNECT ahead of it names, or else on
\* the one the tab showed, under the same proviso, if moreover a change to
\* production is held rather than confirmed and no object is dropped from the
\* explorer (keep_same_session, wake_if_idle, Runner::connect).
THEOREM ChangesRunWhereMeant == Spec => [](Direct(does) => RunsWhereMeant)
<1>1. FitInv => (Direct(does) => RunsWhereMeant)
  <2> SUFFICES ASSUME FitInv, Direct(does) PROVE RunsWhereMeant
    OBVIOUS
  <2>1. \A r \in ran : r.on = r.meant
    BY DEF FitInv, Sane
  <2> QED BY <2>1 DEF RunsWhereMeant
<1> QED BY <1>1, FitInvariant, PTL

\* What is asked of a session goes to that session if nothing waits for a
\* backup, no object is dropped from the explorer and no tab is closed with
\* open changes (gate_pass, with_sess); TabsAsked shows where it does not.
THEOREM AskedGoesWhereAsked == Spec => [](InFront(does) => GoesWhereAsked)
<1>1. FitInv => (InFront(does) => GoesWhereAsked)
  <2> SUFFICES ASSUME FitInv, InFront(does), NEW i \in Ids, NEW k \in DOMAIN wk[i].cmds
               PROVE  wk[i].cmds[k].for = i
    BY DEF GoesWhereAsked
  <2>1. Fit(does, i, sess[i], wk[i])
    BY HostParts DEF FitInv, AllFit
  <2> QED BY <2>1 DEF Fit, Suits
<1> QED BY <1>1, FitInvariant, PTL
=============================================================================
