------------------------ MODULE ServerHealth_proofs ------------------------
(***************************************************************************)
(* Theorems of ServerHealth, for any number of sessions and faults.        *)
(*                                                                         *)
(* FailsOnce needs that a session on which a statement has failed is       *)
(* suspected until it is replaced (LinkOk).  OneState is inductive once it *)
(* is known that only sessions that exist are connected, that one that is  *)
(* gone is heard of no more (Silent), and that no connect is an attempt of *)
(* the connect window (HostOk).                                            *)
(***************************************************************************)
EXTENDS ServerHealth, SequenceTheorems, TLAPS

\* No connect comes from the connect window, whose outcome the end point is
\* not told.
NoWindow == \A m \in Workloads, s \in Sessions : "window" \notin m[s]

Typed(w) == /\ w \in Worker
            /\ w.alive => w.cmd \in {"run", "explain", "tx"}
            /\ w.link # "none" => w.spec

\* A session on which a statement has failed is suspected; a run passes the
\* probe only with another one.
LinkOk(w) == w.link = "failed" => w.suspect /\ (w.alive => w.cmd = "tx")

\* A session that is gone has nothing under way and sends nothing.
Silent ==
  \A s \in Sessions :
    ~app.sess[s].there => wk[s].cmd = "none" /\ conn[s] = <<>> /\ evs[s] = <<>>

WorkInv == TypeOK /\ (\A s \in Sessions : LinkOk(wk[s])) /\ Silent

\* What the host knows is one state, and no connect is an attempt.
HostOk(a) ==
  /\ a.reg = "broken" =>
       a.header /\ \A s \in Sessions : a.sess[s].connected => a.sess[s].broken
  /\ \A s \in Sessions : /\ ~a.sess[s].attempt
                         /\ a.sess[s].connected => a.sess[s].there

IInv == WorkInv /\ HostOk(app)

-----------------------------------------------------------------------------
(* The registry and the messages.                                          *)

SameSessions(a, b) == \A s \in Sessions : a.sess[s].there = b.sess[s].there

\* The record of the end point changes in four ways, which all keep what the
\* host knows in one piece.
LEMMA ProjectedOk ==
  ASSUME NEW a \in Hosts, NEW b \in BOOLEAN
  PROVE  /\ Projected(a, b) \in Hosts
         /\ SameSessions(Projected(a, b), a)
         /\ Projected(a, b).reg = a.reg /\ Projected(a, b).header = a.header
         /\ \A s \in Sessions :
              /\ Projected(a, b).sess[s].connected = a.sess[s].connected
              /\ Projected(a, b).sess[s].attempt = a.sess[s].attempt
              /\ a.sess[s].there /\ a.sess[s].connected => Projected(a, b).sess[s].broken = b
  BY DEF Projected, Hosts, HostSess, SameSessions

LEMMA GcOk ==
  ASSUME NEW a \in Hosts
  PROVE  /\ Gc(a) \in Hosts /\ SameSessions(Gc(a), a)
         /\ HostOk(a) => HostOk(Gc(a))
  BY DEF Gc, Hosts, HostOk, SameSessions

LEMMA DownOk ==
  ASSUME NEW a \in Hosts
  PROVE  /\ Down(a) \in Hosts /\ SameSessions(Down(a), a)
         /\ HostOk(a) => HostOk(Down(a))
<1> DEFINE p == Projected(a, TRUE)
           d == [p EXCEPT !.reg = "broken", !.header = @ \/ a.reg # "broken"]
<1>1. p \in Hosts /\ SameSessions(p, a) /\ p.header = a.header
  BY ProjectedOk
<1>2. \A s \in Sessions : /\ p.sess[s].connected = a.sess[s].connected
                          /\ p.sess[s].attempt = a.sess[s].attempt
                          /\ a.sess[s].there /\ a.sess[s].connected => p.sess[s].broken
  BY ProjectedOk
<1> HIDE DEF p
<1>3. d \in Hosts /\ SameSessions(d, a)
  BY <1>1 DEF Hosts, SameSessions
<1>4. HostOk(a) => HostOk(d)
  BY <1>1, <1>2 DEF Hosts, HostOk, SameSessions
<1>5. Down(a) = Gc(d)
  BY DEF Down, p
<1> HIDE DEF d
<1> QED BY <1>3, <1>4, <1>5, GcOk DEF SameSessions

LEMMA UpOk ==
  ASSUME NEW a \in Hosts
  PROVE  /\ Up(a) \in Hosts /\ SameSessions(Up(a), a)
         /\ Up(a).reg = "alive"
         /\ \A s \in Sessions : /\ Up(a).sess[s].connected = a.sess[s].connected
                                /\ Up(a).sess[s].attempt = a.sess[s].attempt
<1>1. CASE a.reg = "broken"
  <2> DEFINE p == Projected(a, FALSE)
  <2>1. p \in Hosts /\ SameSessions(p, a)
    BY ProjectedOk
  <2>2. \A s \in Sessions : /\ p.sess[s].connected = a.sess[s].connected
                            /\ p.sess[s].attempt = a.sess[s].attempt
    BY ProjectedOk
  <2>3. Up(a) = [p EXCEPT !.reg = "alive", !.header = FALSE]
    BY <1>1 DEF Up
  <2> HIDE DEF p
  <2> QED BY <2>1, <2>2, <2>3 DEF Hosts, SameSessions
<1>2. CASE a.reg # "broken"
  BY <1>2 DEF Up, Hosts, SameSessions
<1> QED BY <1>1, <1>2

\* A message changes the record of one session, which stays the same session.
Set(a, s, h) == [a EXCEPT !.sess[s] = h]

LEMMA SetOk ==
  ASSUME NEW a \in Hosts, NEW s \in Sessions, NEW h \in HostSess,
         h.there = a.sess[s].there
  PROVE  /\ Set(a, s, h) \in Hosts /\ SameSessions(Set(a, s, h), a)
         /\ Set(a, s, h).reg = a.reg /\ Set(a, s, h).header = a.header
         /\ Set(a, s, h).sess[s] = h
         /\ \A t \in Sessions \ {s} : Set(a, s, h).sess[t] = a.sess[t]
<1>1. a.sess \in [Sessions -> HostSess]
  BY DEF Hosts
<1>2. Set(a, s, h).sess = [a.sess EXCEPT ![s] = h]
  BY DEF Set, Hosts
<1>3. Set(a, s, h) = [a EXCEPT !.sess = [a.sess EXCEPT ![s] = h]]
  BY DEF Set, Hosts
<1>4. [a.sess EXCEPT ![s] = h] \in [Sessions -> HostSess]
  BY <1>1
<1>5. Set(a, s, h) \in Hosts
  BY <1>3, <1>4 DEF Hosts
<1> QED BY <1>1, <1>2, <1>3, <1>5 DEF SameSessions, Hosts

\* If it does not connect it, or marks it broken, what the host knows stays
\* one state; and if it connects it, as far as the sessions are concerned.
LEMMA SetKeeps ==
  ASSUME NEW a \in Hosts, NEW s \in Sessions, NEW h \in HostSess,
         h.there = a.sess[s].there, ~h.attempt, HostOk(a), h.connected => h.there
  PROVE  /\ (h.connected => h.broken \/ (a.sess[s].connected /\ h.broken = a.sess[s].broken))
              => HostOk(Set(a, s, h))
         /\ HostOk(Up(Set(a, s, h)))
<1> DEFINE b == Set(a, s, h)
<1>1. /\ b \in Hosts /\ SameSessions(b, a) /\ b.reg = a.reg /\ b.header = a.header
      /\ b.sess[s] = h /\ \A t \in Sessions \ {s} : b.sess[t] = a.sess[t]
  BY SetOk
<1>2. \A t \in Sessions : ~b.sess[t].attempt /\ (b.sess[t].connected => b.sess[t].there)
  BY <1>1 DEF HostOk
<1> HIDE DEF b
<1>3. HostOk(Up(b))
  BY <1>1, <1>2, UpOk DEF HostOk, SameSessions
<1>4. (h.connected => h.broken \/ (a.sess[s].connected /\ h.broken = a.sess[s].broken))
        => HostOk(b)
  BY <1>1, <1>2 DEF HostOk
<1> QED BY <1>3, <1>4 DEF b

\* Every message keeps what the host knows in one piece, if it is of a
\* session that exists.
LEMMA OutcomeOk ==
  ASSUME NEW a \in Hosts, NEW s \in Sessions, NEW o \in Outcomes
  PROVE  /\ OnOutcome(a, s, o) \in Hosts /\ SameSessions(OnOutcome(a, s, o), a)
         /\ HostOk(a) /\ a.sess[s].there => HostOk(OnOutcome(a, s, o))
<1> DEFINE h == a.sess[s]
<1>0. h \in HostSess /\ (HostOk(a) => ~h.attempt)
  BY DEF Hosts, HostOk
<1>1. CASE o = "connected"
  <2> DEFINE g == [h EXCEPT !.connected = TRUE, !.broken = FALSE]
  <2>1. Connected(a, s) = Set(a, s, g)
    BY DEF Connected, Set, Hosts, HostSess
  <2>2. g \in HostSess /\ g.there = h.there /\ g.attempt = h.attempt
    BY <1>0 DEF HostSess
  <2>3. CASE h.attempt
    <3> DEFINE f == [g EXCEPT !.attempt = FALSE]
    <3>1. OnOutcome(a, s, o) = Set(a, s, f)
      BY <1>1, <2>3 DEF OnOutcome, Connected, Set, Hosts, HostSess
    <3>2. f \in HostSess /\ f.there = h.there
      BY <2>2 DEF HostSess
    <3> HIDE DEF f, g
    <3> QED BY <1>0, <2>3, <3>1, <3>2, SetOk
  <2>4. CASE ~h.attempt
    <3>1. OnOutcome(a, s, o) = Up(Set(a, s, g))
      BY <1>1, <2>1, <2>4 DEF OnOutcome
    <3> HIDE DEF g
    <3>2. Set(a, s, g) \in Hosts /\ SameSessions(Set(a, s, g), a)
      BY <2>2, SetOk
    <3> QED BY <2>2, <2>4, <3>1, <3>2, UpOk, SetKeeps DEF SameSessions
  <2> QED BY <2>3, <2>4
<1>2. CASE o = "failed"
  <2> DEFINE g == [h EXCEPT !.connected = @ /\ h.attempt, !.attempt = FALSE]
  <2>1. OnOutcome(a, s, o) = Set(a, s, g)
    BY <1>2 DEF OnOutcome, Set, Hosts, HostSess
  <2>2. g \in HostSess /\ g.there = h.there /\ ~g.attempt /\ (g.connected => h.attempt)
    BY <1>0 DEF HostSess
  <2> HIDE DEF g
  <2> QED BY <1>0, <2>1, <2>2, SetOk, SetKeeps
<1>3. CASE o = "disconnected"
  <2> DEFINE g == [h EXCEPT !.connected = FALSE]
  <2>1. OnOutcome(a, s, o) = Set(a, s, g)
    BY <1>3 DEF OnOutcome, Set, Hosts, HostSess
  <2>2. g \in HostSess /\ g.there = h.there /\ g.attempt = h.attempt /\ ~g.connected
    BY <1>0 DEF HostSess
  <2> HIDE DEF g
  <2> QED BY <1>0, <2>1, <2>2, SetOk, SetKeeps
<1>4. CASE o = "alive"
  <2> DEFINE g == [h EXCEPT !.broken = FALSE]
  <2>1. OnOutcome(a, s, o) = Up(Set(a, s, g))
    BY <1>4 DEF OnOutcome, Set, Hosts, HostSess
  <2>2. /\ g \in HostSess /\ g.there = h.there /\ g.attempt = h.attempt
        /\ g.connected = h.connected
    BY <1>0 DEF HostSess
  <2>3. HostOk(a) => (h.connected => h.there)
    BY DEF HostOk
  <2> HIDE DEF g
  <2>4. Set(a, s, g) \in Hosts /\ SameSessions(Set(a, s, g), a)
    BY <2>2, SetOk
  <2> QED BY <1>0, <2>1, <2>2, <2>3, <2>4, UpOk, SetKeeps DEF SameSessions
<1>5. CASE o \in {"down", "broken"}
  <2> DEFINE g == [h EXCEPT !.broken = TRUE]
  <2>1. OnOutcome(a, s, o) \in {Set(a, s, g), Down(Set(a, s, g))}
    BY <1>5 DEF OnOutcome, ConnBroken, Set, Hosts, HostSess
  <2>2. /\ g \in HostSess /\ g.there = h.there /\ g.attempt = h.attempt
        /\ g.broken /\ g.connected = h.connected
    BY <1>0 DEF HostSess
  <2>3. HostOk(a) => (h.connected => h.there)
    BY DEF HostOk
  <2> HIDE DEF g
  <2>4. Set(a, s, g) \in Hosts /\ SameSessions(Set(a, s, g), a)
    BY <2>2, SetOk
  <2>5. HostOk(a) => HostOk(Set(a, s, g))
    BY <1>0, <2>2, <2>3, SetKeeps
  <2> QED BY <2>1, <2>4, <2>5, DownOk DEF SameSessions
<1> QED BY <1>1, <1>2, <1>3, <1>4, <1>5 DEF Outcomes

LEMMA EventOk ==
  ASSUME NEW a \in Hosts, NEW s \in Sessions, NEW e \in Events
  PROVE  /\ OnEvent(a, s, e) \in Hosts /\ SameSessions(OnEvent(a, s, e), a)
         /\ HostOk(a) /\ a.sess[s].there => HostOk(OnEvent(a, s, e))
<1> DEFINE h == a.sess[s]
<1>0. h \in HostSess /\ (HostOk(a) => ~h.attempt /\ (h.connected => h.there))
  BY DEF Hosts, HostOk
<1>1. CASE e = "connected"
  <2> DEFINE g == [h EXCEPT !.connected = TRUE, !.broken = FALSE]
  <2>1. OnEvent(a, s, e) = Up(Set(a, s, g))
    BY <1>1 DEF OnEvent, Connected, Set, Hosts, HostSess
  <2>2. g \in HostSess /\ g.there = h.there /\ g.attempt = h.attempt
    BY <1>0 DEF HostSess
  <2> HIDE DEF g
  <2>3. Set(a, s, g) \in Hosts /\ SameSessions(Set(a, s, g), a)
    BY <2>2, SetOk
  <2> QED BY <1>0, <2>1, <2>2, <2>3, UpOk, SetKeeps DEF SameSessions
<1>2. CASE e \in {"closed", "disconnected"}
  <2> DEFINE g == [h EXCEPT !.connected = FALSE]
  <2>1. OnEvent(a, s, e) = Set(a, s, g)
    BY <1>2 DEF OnEvent, Set, Hosts, HostSess
  <2>2. g \in HostSess /\ g.there = h.there /\ g.attempt = h.attempt /\ ~g.connected
    BY <1>0 DEF HostSess
  <2> HIDE DEF g
  <2> QED BY <1>0, <2>1, <2>2, SetOk, SetKeeps
<1>3. CASE e = "error"
  <2> DEFINE g == [h EXCEPT !.busy = FALSE, !.broken = TRUE]
  <2>1. OnEvent(a, s, e) = Set(a, s, g)
    BY <1>3 DEF OnEvent, Set, Hosts, HostSess
  <2>2. /\ g \in HostSess /\ g.there = h.there /\ g.attempt = h.attempt
        /\ g.broken /\ g.connected = h.connected
    BY <1>0 DEF HostSess
  <2> HIDE DEF g
  <2> QED BY <1>0, <2>1, <2>2, SetOk, SetKeeps
<1>4. CASE e \in {"plain", "done"}
  <2> DEFINE g == [h EXCEPT !.busy = FALSE]
  <2>1. OnEvent(a, s, e) = Set(a, s, g)
    BY <1>4 DEF OnEvent, Set, Hosts, HostSess
  <2>2. /\ g \in HostSess /\ g.there = h.there /\ g.attempt = h.attempt
        /\ g.broken = h.broken /\ g.connected = h.connected
    BY <1>0 DEF HostSess
  <2> HIDE DEF g
  <2> QED BY <1>0, <2>1, <2>2, SetOk, SetKeeps
<1> QED BY <1>1, <1>2, <1>3, <1>4 DEF Events

-----------------------------------------------------------------------------
(* The worker.                                                             *)

Outs == Seq(Outcomes)
Evts == Seq(Events)

LEMMA MessagesTyped ==
  /\ <<>> \in Outs /\ <<>> \in Evts
  /\ \A o \in Outcomes : <<o>> \in Outs
  /\ \A o, q \in Outcomes : <<o, q>> \in Outs
  /\ \A e \in Events : <<e>> \in Evts
  /\ \A e, f \in Events : <<e, f>> \in Evts
  /\ \A e, f, g \in Events : <<e, f, g>> \in Evts
  BY DEF Outs, Evts

LEMMA ClosedFirstTyped ==
  ASSUME NEW w \in Worker
  PROVE  ClosedFirst(w) \o <<"error", "done">> \in Evts
<1>1. ClosedFirst(w) \in Evts /\ <<"error", "done">> \in Evts
  BY MessagesTyped DEF ClosedFirst, Events
<1>2. \A a, b \in Evts : a \o b \in Evts
  BY DEF Evts
<1> QED BY <1>1, <1>2

LEMMA EndingsTyped ==
  ASSUME NEW w \in Worker
  PROVE  /\ Append(Alive(w), "connected") \in Outs
         /\ Append(Broken(w, "down"), "failed") \in Outs
<1>1. Alive(w) \in Outs /\ Broken(w, "down") \in Outs
  BY MessagesTyped DEF Alive, Broken, Outcomes
<1>2. \A a \in Outs, o \in Outcomes : Append(a, o) \in Outs
  BY DEF Outs
<1> QED BY <1>1, <1>2 DEF Outcomes

\* What a step of a worker leaves behind: a session that may have failed, but
\* is then suspected; messages of the right kind; and less to go wrong.
Result(s) ==
  /\ wk[s].cmd # "none"
  /\ \E w \in Worker, out \in Outs, ev \in Evts :
       Typed(w) /\ LinkOk(w) /\ Tells(s, w, out, ev)
  /\ up' \in BOOLEAN /\ faults' \in 0..MaxFaults

\* Three forms of a worker after a step: at the end of a command, past the
\* probe, and past it with a new session.
EndsAs(w, l, b, t, p) ==
  [Ended(w) EXCEPT !.link = l, !.suspect = b, !.told = t, !.spec = p]

LEMMA EndedOk ==
  ASSUME NEW w \in Worker, Typed(w), NEW l \in Links, NEW b \in BOOLEAN, NEW t \in BOOLEAN,
         NEW p \in BOOLEAN, l # "none" => p, l = "failed" => b
  PROVE  EndsAs(w, l, b, t, p) \in Worker /\ Typed(EndsAs(w, l, b, t, p))
         /\ LinkOk(EndsAs(w, l, b, t, p))
  BY DEF Worker, Typed, Ended, EndsAs, LinkOk, Links

LEMMA PassedOk ==
  ASSUME NEW w \in Worker, Typed(w), w.cmd \in {"run", "explain", "tx"}
  PROVE  /\ Passed(w) \in Worker /\ Typed(Passed(w))
         /\ (w.link = "failed" => w.suspect /\ w.cmd = "tx") => LinkOk(Passed(w))
         /\ LET v == [Passed(w) EXCEPT !.link = "live", !.suspect = FALSE] IN
              w.spec => v \in Worker /\ Typed(v) /\ LinkOk(v)
  BY DEF Worker, Typed, Passed, LinkOk, Links

LEMMA ProbeFailsResult ==
  ASSUME TypeOK, NEW s \in Sessions, LinkOk(wk[s]), wk[s].cmd # "none", ProbeFails(s)
  PROVE  Result(s)
<1> DEFINE w == wk[s]
           v == EndsAs(w, w.link, TRUE, TRUE, w.spec)
<1>1. w \in Worker /\ Typed(w) /\ w.link \in Links /\ w.spec \in BOOLEAN
  BY DEF TypeOK, Typed, Worker
<1>2. v \in Worker /\ Typed(v) /\ LinkOk(v)
  BY <1>1, EndedOk DEF Typed
<1>3. v = Refused(w, "down").w
  BY <1>1 DEF Refused, Ended, EndsAs, Worker
<1>4. Refused(w, "down").out \in Outs /\ <<Unreachable, "done">> \in Evts
  BY MessagesTyped DEF Refused, Broken, Unreachable, Outcomes, Events
<1> HIDE DEF v
<1> QED BY <1>2, <1>3, <1>4 DEF ProbeFails, Result, TypeOK, serverVars

LEMMA ReconnectResult ==
  ASSUME TypeOK, NEW s \in Sessions, LinkOk(wk[s]), wk[s].cmd \in {"run", "explain", "tx"},
         wk[s].spec, ReconnectWorks(s) \/ ReconnectFails(s)
  PROVE  Result(s)
<1> DEFINE w == wk[s]
<1>1. w \in Worker /\ Typed(w) /\ w.spec \in BOOLEAN
  BY DEF TypeOK, Typed, Worker
<1>2. CASE ReconnectWorks(s)
  <2> DEFINE v == [Passed(w) EXCEPT !.link = "live", !.suspect = FALSE]
  <2>1. v \in Worker /\ Typed(v) /\ LinkOk(v)
    BY <1>1, PassedOk
  <2>2. Alive(w) \in Outs /\ <<"connected">> \in Evts
    BY MessagesTyped DEF Alive, Outcomes, Events
  <2> HIDE DEF v
  <2> QED BY <1>2, <2>1, <2>2 DEF ReconnectWorks, Result, TypeOK, serverVars, v
<1>3. CASE ReconnectFails(s)
  <2> DEFINE v == EndsAs(w, "none", TRUE, TRUE, w.spec)
             u == [w EXCEPT !.link = "none"]
  <2>1. v \in Worker /\ Typed(v) /\ LinkOk(v)
    BY <1>1, EndedOk DEF Links
  <2>2. v = Refused(u, "broken").w
    BY <1>1 DEF Refused, Ended, EndsAs, Worker
  <2>3. Refused(u, "broken").out \in Outs
    BY MessagesTyped DEF Refused, Broken, Outcomes
  <2>4. ClosedFirst(w) \o <<"error", "done">> \in Evts
    BY <1>1, ClosedFirstTyped
  <2>5. faults' \in 0..MaxFaults /\ up' \in BOOLEAN
    BY <1>3, HealthAssumption DEF ReconnectFails, TypeOK
  <2> HIDE DEF v
  <2> QED BY <1>3, <2>1, <2>2, <2>3, <2>4, <2>5 DEF ReconnectFails, Result
<1> QED BY <1>2, <1>3

LEMMA EnsureAliveResult ==
  ASSUME TypeOK, NEW s \in Sessions, LinkOk(wk[s]), EnsureAlive(s)
  PROVE  Result(s)
<1> DEFINE w == wk[s]
           plan(h, t) == LivePlan(w.pre, w.suspect, h, t, w.cmd # "tx")
<1>1. w \in Worker /\ Typed(w) /\ w.cmd \in {"run", "explain", "tx"} /\ w.cmd # "none"
  BY DEF TypeOK, Typed, Worker, EnsureAlive
<1>2. PICK h \in Hints(w.link), t \in BOOLEAN :
        \/ plan(h, t).probe /\ ProbeFails(s)
        \/ /\ plan(h, t).probe => up \/ ~w.spec
           /\ IF plan(h, t).reconnect /\ w.spec
                THEN ReconnectWorks(s) \/ ReconnectFails(s)
                ELSE /\ Tells(s, Passed(w), Alive(w), <<>>)
                     /\ UNCHANGED serverVars
  BY DEF EnsureAlive
<1>3. CASE ProbeFails(s)
  BY <1>1, <1>3, ProbeFailsResult
<1>4. CASE w.spec /\ (ReconnectWorks(s) \/ ReconnectFails(s))
  BY <1>1, <1>4, ReconnectResult
<1>5. CASE /\ ~(plan(h, t).reconnect /\ w.spec)
           /\ Tells(s, Passed(w), Alive(w), <<>>) /\ UNCHANGED serverVars
  <2>1. w.link = "failed" => w.suspect /\ w.cmd = "tx"
    BY <1>1, <1>5 DEF LinkOk, LivePlan, Typed
  <2>2. Passed(w) \in Worker /\ Typed(Passed(w)) /\ LinkOk(Passed(w))
    BY <1>1, <2>1, PassedOk
  <2>3. Alive(w) \in Outs /\ <<>> \in Evts
    BY MessagesTyped DEF Alive, Outcomes
  <2> QED BY <1>1, <1>5, <2>2, <2>3 DEF Result, TypeOK, serverVars
<1> QED BY <1>2, <1>3, <1>4, <1>5

LEMMA RunsResult ==
  ASSUME TypeOK, NEW s \in Sessions, LinkOk(wk[s]), Runs(s)
  PROVE  Result(s) /\ wk[s].link # "failed"
<1> DEFINE w == wk[s]
<1>1. /\ w \in Worker /\ Typed(w) /\ w.link \in Links /\ w.spec \in BOOLEAN /\ w.told \in BOOLEAN
      /\ w.cmd \in {"run", "explain"} /\ w.alive /\ w.cmd # "none"
  BY DEF TypeOK, Typed, Worker, Runs
<1>2. w.link # "failed"
  BY <1>1 DEF LinkOk
<1>3. PICK c \in Errs(w) :
        /\ faults' = IF c /\ w.link = "live" THEN faults - 1 ELSE faults
        /\ Tells(s, [Ended(w) EXCEPT !.suspect = SuspectAfter(c), !.link = SentOn(@),
                                     !.told = @ \/ (c /\ w.cmd = "run")],
                 IF w.cmd = "run" THEN AfterRun(w, c) ELSE <<>>,
                 IF c THEN <<"error", "done">> ELSE <<"done">>)
        /\ UNCHANGED up
  BY DEF Runs
<1> DEFINE v == EndsAs(w, SentOn(w.link), c, w.told \/ (c /\ w.cmd = "run"), w.spec)
<1>4. c \in BOOLEAN /\ (w.link # "live" => c) /\ (c /\ w.link = "live" => faults > 0)
  BY DEF Errs
<1>5. /\ SentOn(w.link) \in Links /\ (SentOn(w.link) # "none" => w.spec)
      /\ SentOn(w.link) = "failed" => c
  BY <1>1, <1>2, <1>4 DEF SentOn, Links, Typed
<1>6. v \in Worker /\ Typed(v) /\ LinkOk(v)
  BY <1>1, <1>4, <1>5, EndedOk
<1>7. v = [Ended(w) EXCEPT !.suspect = SuspectAfter(c), !.link = SentOn(@),
                           !.told = @ \/ (c /\ w.cmd = "run")]
  BY <1>1 DEF Ended, EndsAs, Worker, SuspectAfter
<1>8. /\ (IF w.cmd = "run" THEN AfterRun(w, c) ELSE <<>>) \in Outs
      /\ (IF c THEN <<"error", "done">> ELSE <<"done">>) \in Evts
  BY MessagesTyped DEF AfterRun, Broken, Outcomes, Events
<1>9. faults' \in 0..MaxFaults /\ up' \in BOOLEAN
  BY <1>3, <1>4, HealthAssumption DEF TypeOK
<1> HIDE DEF v
<1> QED BY <1>1, <1>2, <1>3, <1>6, <1>7, <1>8, <1>9 DEF Result

LEMMA CommitsResult ==
  ASSUME TypeOK, NEW s \in Sessions, LinkOk(wk[s]), Commits(s)
  PROVE  Result(s)
<1> DEFINE w == wk[s]
           v == EndsAs(w, w.link, w.suspect, w.told, w.spec)
           ev == IF w.link \in {"dead", "failed"} THEN <<"error", "done">> ELSE <<"done">>
<1>1. /\ w \in Worker /\ Typed(w) /\ w.link \in Links
      /\ w.spec \in BOOLEAN /\ w.told \in BOOLEAN /\ w.suspect \in BOOLEAN
  BY DEF TypeOK, Typed, Worker
<1>2. v \in Worker /\ Typed(v) /\ LinkOk(v)
  BY <1>1, EndedOk DEF Typed, LinkOk
<1>3. v = Ended(w)
  BY <1>1 DEF Ended, EndsAs, Worker
<1>4. ev \in Evts /\ <<>> \in Outs
  BY MessagesTyped DEF Events
<1> HIDE DEF v
<1> QED BY <1>2, <1>3, <1>4 DEF Commits, Result, TypeOK, serverVars

LEMMA ConnectsResult ==
  ASSUME TypeOK, NEW s \in Sessions, LinkOk(wk[s]), Connects(s)
  PROVE  Result(s)
<1> DEFINE w == wk[s]
           V(l, b, t, p) == EndsAs(w, l, b, t, p)
<1>1. /\ w \in Worker /\ Typed(w) /\ w.link \in Links /\ w.cmd # "none"
      /\ w.spec \in BOOLEAN /\ w.told \in BOOLEAN /\ w.suspect \in BOOLEAN
  BY DEF TypeOK, Typed, Worker, Connects
<1>2. \A l \in Links, b \in BOOLEAN, t \in BOOLEAN, p \in BOOLEAN :
        (l # "none" => p) /\ (l = "failed" => b)
          => V(l, b, t, p) \in Worker /\ Typed(V(l, b, t, p)) /\ LinkOk(V(l, b, t, p))
  BY <1>1, EndedOk
<1>3. /\ Ended(w) = V(w.link, w.suspect, w.told, w.spec)
      /\ [Ended(w) EXCEPT !.link = "live", !.spec = TRUE, !.suspect = FALSE, !.told = FALSE]
           = V("live", FALSE, FALSE, TRUE)
      /\ [Ended(w) EXCEPT !.link = "none"] = V("none", w.suspect, w.told, w.spec)
      /\ [Ended(w) EXCEPT !.told = TRUE] = V(w.link, w.suspect, TRUE, w.spec)
  BY <1>1 DEF Ended, EndsAs, Worker
<1> DEFINE Good == { v \in Worker : Typed(v) /\ LinkOk(v) }
<1>4. /\ V(w.link, w.suspect, w.told, w.spec) \in Good
      /\ V("live", FALSE, FALSE, TRUE) \in Good
      /\ V("none", w.suspect, w.told, w.spec) \in Good
      /\ V(w.link, w.suspect, TRUE, w.spec) \in Good
  <2>1. (w.link # "none" => w.spec) /\ (w.link = "failed" => w.suspect)
    BY <1>1 DEF Typed, LinkOk
  <2>2. "live" \in Links /\ "none" \in Links
    BY DEF Links
  <2> HIDE DEF V
  <2> QED BY <1>1, <1>2, <2>1, <2>2
<1> HIDE DEF V
<1>5. /\ <<"connected">> \in Outs /\ <<"failed">> \in Outs
      /\ Append(Alive(w), "connected") \in Outs
      /\ Append(Broken(w, "down"), "failed") \in Outs
  BY <1>1, MessagesTyped, EndingsTyped DEF Outcomes
<1>6. /\ <<"done">> \in Evts /\ <<"connected", "done">> \in Evts
      /\ ClosedFirst(w) \o <<"error", "done">> \in Evts
      /\ <<Unreachable, "done">> \in Evts
  BY <1>1, MessagesTyped, ClosedFirstTyped DEF Unreachable, Events
<1>7. faults' \in 0..MaxFaults /\ up' \in BOOLEAN
  BY HealthAssumption DEF Connects, TypeOK, serverVars
<1>8. \E v \in Good, out \in Outs, ev \in Evts :
        Tells(s, v, out, ev)
  BY <1>3, <1>4, <1>5, <1>6 DEF Connects
<1> QED BY <1>1, <1>7, <1>8 DEF Result

LEMMA DisconnectsResult ==
  ASSUME TypeOK, NEW s \in Sessions, LinkOk(wk[s]), Disconnects(s)
  PROVE  Result(s)
<1> DEFINE w == wk[s]
           v == EndsAs(w, "none", FALSE, w.told, FALSE)
<1>1. w \in Worker /\ Typed(w) /\ w.told \in BOOLEAN
  BY DEF TypeOK, Typed, Worker
<1>2. v \in Worker /\ Typed(v) /\ LinkOk(v)
  BY <1>1, EndedOk DEF Links
<1>3. v = Dropped(w)
  BY <1>1 DEF Dropped, Ended, EndsAs, Worker
<1>4. <<"disconnected">> \in Outs /\ <<"disconnected", "done">> \in Evts
  BY MessagesTyped DEF Outcomes, Events
<1> HIDE DEF v
<1> QED BY <1>2, <1>3, <1>4 DEF Disconnects, Result, TypeOK, serverVars

LEMMA WorkerResult ==
  ASSUME TypeOK, NEW s \in Sessions, LinkOk(wk[s]), WorkerStep(s)
  PROVE  Result(s)
  BY EnsureAliveResult, RunsResult, CommitsResult, ConnectsResult, DisconnectsResult
     DEF WorkerStep

-----------------------------------------------------------------------------
(* Types, and the session that fails once.                                 *)

LEMMA InitInv == Init => IInv
<1> SUFFICES ASSUME Init PROVE IInv
  OBVIOUS
<1> USE DEF Init
<1>1. TypeOK
  <2>1. [NewWorker EXCEPT !.link = "live", !.spec = TRUE] \in Worker
    BY DEF NewWorker, Worker, Links
  <2>2. wk \in [Sessions -> Worker]
    <3> HIDE DEF NewWorker
    <3> QED BY <2>1
  <2>3. app \in Hosts
    <3> DEFINE h == [there |-> TRUE, connected |-> TRUE, broken |-> FALSE,
                     busy |-> FALSE, attempt |-> FALSE]
    <3>1. h \in HostSess
      BY DEF HostSess
    <3>2. app = [sess |-> [s \in Sessions |-> h], reg |-> "alive", header |-> FALSE]
      OBVIOUS
    <3> HIDE DEF h
    <3> DEFINE f == [s \in Sessions |-> h]
    <3>3. f \in [Sessions -> HostSess]
      BY <3>1
    <3> HIDE DEF f, Init
    <3>4. app = [sess |-> f, reg |-> "alive", header |-> FALSE]
      BY <3>2 DEF f
    <3> QED BY <3>3, <3>4 DEF Hosts
  <2>4. meta \in Explorers
    BY DEF Explorers, Links
  <2>5. conn \in [Sessions -> Seq(Outcomes)] /\ evs \in [Sessions -> Seq(Events)]
    BY MessagesTyped DEF Outs, Evts
  <2>6. faults \in 0..MaxFaults
    BY HealthAssumption
  <2>7. \A s \in Sessions : ~wk[s].alive /\ wk[s].spec
    BY DEF NewWorker
  <2>8. does \in Workloads /\ up \in BOOLEAN /\ reading = Away /\ resp \in Seq(BOOLEAN)
    OBVIOUS
  <2> QED BY <2>2, <2>3, <2>4, <2>5, <2>6, <2>7, <2>8 DEF TypeOK
<1>2. \A s \in Sessions : LinkOk(wk[s])
  BY DEF LinkOk, NewWorker
<1>3. HostOk(app) /\ Silent
  BY DEF HostOk, Silent
<1> QED BY <1>1, <1>2, <1>3 DEF IInv, WorkInv

\* A step that changes one worker.
LEMMA OneWorker ==
  ASSUME WorkInv, NEW s \in Sessions, NEW w \in Worker, Typed(w), LinkOk(w),
         wk' = [wk EXCEPT ![s] = w]
  PROVE  wk' \in [Sessions -> Worker] /\ \A t \in Sessions : Typed(wk'[t]) /\ LinkOk(wk'[t])
  BY DEF WorkInv, TypeOK, Typed

LEMMA UserWork ==
  ASSUME WorkInv, NEW s \in Sessions, UNCHANGED does,
         (\E c \in UserCommands : Send(s, c)) \/ Close(s) \/ Open(s)
  PROVE  WorkInv'
<1> USE DEF WorkInv
<1>1. wk[s] \in Worker /\ Typed(wk[s]) /\ LinkOk(wk[s])
  BY DEF TypeOK, Typed
<1>2. CASE \E c \in UserCommands : Send(s, c)
  <2>1. PICK c \in UserCommands : Send(s, c)
    BY <1>2
  <2>2. wk[s].cmd = "none" /\ ~wk[s].alive
    BY <2>1, <1>1 DEF Send, Idle, Typed
  <2>3. PICK pre \in BOOLEAN : wk' = [wk EXCEPT ![s].cmd = c, ![s].pre = pre]
    BY <2>1 DEF Send, Preflights
  <2> DEFINE h == [app.sess[s] EXCEPT !.busy = c # "drop", !.attempt = c = "window"]
             w == [wk[s] EXCEPT !.cmd = c, !.pre = pre]
  <2>a. h \in HostSess /\ h.there = app.sess[s].there
    BY DEF TypeOK, Hosts, HostSess
  <2>b. app' = Set(app, s, h)
    BY <2>1 DEF Send, Set, TypeOK, Hosts, HostSess
  <2>4. app' \in Hosts
    <3> HIDE DEF h
    <3> QED BY <2>a, <2>b, SetOk DEF TypeOK
  <2>c. w \in Worker /\ Typed(w) /\ LinkOk(w)
    BY <1>1, <2>2 DEF Worker, Typed, LinkOk
  <2>d. wk' = [wk EXCEPT ![s] = w]
    BY <2>3 DEF TypeOK, Worker
  <2>5. wk' \in [Sessions -> Worker] /\ \A t \in Sessions : Typed(wk'[t]) /\ LinkOk(wk'[t])
    <3> HIDE DEF w
    <3> QED BY <2>c, <2>d, OneWorker
  <2>6. Silent'
    <3> HIDE DEF h
    <3>1. SameSessions(app', app)
      BY <2>a, <2>b, SetOk DEF TypeOK
    <3>2. app.sess[s].there
      BY <2>1 DEF Send, Idle
    <3>3. \A t \in Sessions \ {s} : wk'[t] = wk[t]
      BY <2>d DEF TypeOK
    <3> QED BY <2>1, <3>1, <3>2, <3>3 DEF Send, Silent, SameSessions
  <2> QED BY <2>1, <2>4, <2>5, <2>6 DEF Send, TypeOK, Typed, serverVars
<1>3. CASE Close(s)
  <2>1. NewWorker \in Worker /\ Typed(NewWorker) /\ LinkOk(NewWorker)
    BY DEF NewWorker, Worker, Typed, LinkOk, Links
  <2> DEFINE h == [there |-> FALSE, connected |-> FALSE, broken |-> FALSE,
                   busy |-> FALSE, attempt |-> FALSE]
  <2>2. app' \in Hosts
    <3>1. h \in HostSess
      BY DEF HostSess
    <3>2. app' = [app EXCEPT !.sess = [app.sess EXCEPT ![s] = h]]
      BY <1>3 DEF Close, TypeOK, Hosts
    <3> HIDE DEF h
    <3> QED BY <3>1, <3>2 DEF TypeOK, Hosts
  <2>3. conn' \in [Sessions -> Seq(Outcomes)] /\ evs' \in [Sessions -> Seq(Events)]
    BY <1>3, MessagesTyped DEF Close, TypeOK, Outs, Evts
  <2>4. wk' = [wk EXCEPT ![s] = NewWorker]
    BY <1>3 DEF Close
  <2> HIDE DEF NewWorker
  <2>5. wk' \in [Sessions -> Worker] /\ \A t \in Sessions : Typed(wk'[t]) /\ LinkOk(wk'[t])
    BY <2>1, <2>4 DEF TypeOK, Typed
  <2>6. Silent'
    BY <1>3 DEF Close, Silent, TypeOK, Hosts, NewWorker
  <2> QED BY <1>3, <2>2, <2>3, <2>5, <2>6 DEF Close, TypeOK, Typed, serverVars
<1>4. CASE Open(s)
  <2>0. app.sess \in [Sessions -> HostSess]
    BY DEF TypeOK, Hosts
  <2> DEFINE h == [app.sess[s] EXCEPT !.there = TRUE, !.busy = TRUE]
             w == [wk[s] EXCEPT !.cmd = "quiet"]
  <2>1. app' \in Hosts
    <3>1. h \in HostSess
      BY DEF TypeOK, Hosts, HostSess
    <3>2. app' = [app EXCEPT !.sess = [app.sess EXCEPT ![s] = h]]
      BY <1>4 DEF Open, TypeOK, Hosts, HostSess
    <3> HIDE DEF h
    <3> QED BY <3>1, <3>2 DEF TypeOK, Hosts
  <2>2. ~wk[s].alive
    BY <1>1, <1>4 DEF Open, Silent, Typed
  <2>3. w \in Worker /\ Typed(w) /\ LinkOk(w)
    BY <1>1, <2>2 DEF Worker, Typed, LinkOk, UserCommands
  <2>4. wk' = [wk EXCEPT ![s] = w]
    BY <1>4 DEF Open, TypeOK, Worker
  <2>5. wk' \in [Sessions -> Worker] /\ \A t \in Sessions : Typed(wk'[t]) /\ LinkOk(wk'[t])
    <3> HIDE DEF w
    <3> QED BY <2>3, <2>4, OneWorker
  <2>6. Silent'
    BY <1>4, <2>0 DEF Open, Silent, TypeOK, HostSess, Hosts
  <2> QED BY <1>4, <2>1, <2>5, <2>6 DEF Open, TypeOK, Typed, serverVars
<1> QED BY <1>2, <1>3, <1>4

LEMMA RegistryWork ==
  ASSUME WorkInv, UNCHANGED does, NetChanged \/ HealthGc \/ ReadHealth
  PROVE  WorkInv'
<1> USE DEF WorkInv
<1>1. CASE NetChanged
  <2>1. app' \in Hosts /\ meta' \in Explorers
    BY <1>1 DEF NetChanged, TypeOK, Hosts, Explorers
  <2>2. faults' \in 0..MaxFaults
    BY <1>1, HealthAssumption DEF NetChanged, TypeOK
  <2>3. Silent'
    BY <1>1 DEF NetChanged, Silent, TypeOK, Hosts
  <2> QED BY <1>1, <2>1, <2>2, <2>3 DEF NetChanged, TypeOK
<1>2. CASE HealthGc
  BY <1>2, GcOk DEF HealthGc, TypeOK, serverVars, Silent, SameSessions
<1>3. CASE ReadHealth
  <2>1. app' \in Hosts /\ SameSessions(app', app)
    BY <1>3, UpOk, DownOk DEF ReadHealth, TypeOK
  <2>2. resp' \in Seq(BOOLEAN)
    BY <1>3, HeadTailProperties DEF ReadHealth, TypeOK
  <2> QED BY <1>3, <2>1, <2>2 DEF ReadHealth, TypeOK, serverVars, Silent, SameSessions
<1> QED BY <1>1, <1>2, <1>3

LEMMA MetaWork ==
  ASSUME WorkInv, UNCHANGED does, MetaNotes \/ MetaSuspends \/ MetaRequest
  PROVE  WorkInv'
<1> USE DEF WorkInv
<1>1. \A m \in Explorers, msgs \in Seq(BOOLEAN) :
        MetaTells(m, msgs) /\ up' \in BOOLEAN /\ faults' \in 0..MaxFaults => WorkInv'
  <2> SUFFICES ASSUME NEW m \in Explorers, NEW msgs \in Seq(BOOLEAN), MetaTells(m, msgs),
                      up' \in BOOLEAN, faults' \in 0..MaxFaults
               PROVE  WorkInv'
    OBVIOUS
  <2>1. resp' \in Seq(BOOLEAN)
    BY ConcatProperties DEF MetaTells, TypeOK
  <2> QED BY <2>1 DEF MetaTells, TypeOK, Silent
<1>2. <<>> \in Seq(BOOLEAN) /\ <<TRUE>> \in Seq(BOOLEAN) /\ <<FALSE>> \in Seq(BOOLEAN)
  OBVIOUS
<1>3. meta \in Explorers
  BY DEF TypeOK
<1>4. MetaRefused => WorkInv'
  <2>1. [meta EXCEPT !.link = "none", !.suspect = TRUE, !.told = TRUE] \in Explorers
    BY <1>3 DEF Explorers, Links
  <2>2. MetaLost(meta) \in Seq(BOOLEAN)
    BY <1>2 DEF MetaLost
  <2> QED BY <1>1, <2>1, <2>2 DEF MetaRefused, serverVars, TypeOK
<1>5. \A m \in Explorers : MetaAsks(m) /\ UNCHANGED serverVars => WorkInv'
  <2> SUFFICES ASSUME NEW m \in Explorers, MetaAsks(m), UNCHANGED serverVars PROVE WorkInv'
    OBVIOUS
  <2>1. /\ [m EXCEPT !.told = FALSE, !.net = FALSE] \in Explorers
        /\ [m EXCEPT !.suspect = TRUE, !.told = TRUE] \in Explorers
    BY DEF Explorers
  <2>2. MetaLost(m) \in Seq(BOOLEAN)
    BY <1>2 DEF MetaLost
  <2>3. \E n \in Explorers, msgs \in Seq(BOOLEAN) : MetaTells(n, msgs)
    BY <1>2, <2>1, <2>2 DEF MetaAsks
  <2> QED BY <1>1, <2>3 DEF serverVars, TypeOK
<1>6. \A m \in Explorers : MetaOpens(m) => WorkInv'
  <2> SUFFICES ASSUME NEW m \in Explorers, MetaOpens(m) PROVE WorkInv'
    OBVIOUS
  <2>1. CASE MetaAsks(m) /\ UNCHANGED serverVars
    BY <1>5, <2>1
  <2>2. CASE /\ faults > 0 /\ faults' = faults - 1 /\ UNCHANGED up
             /\ MetaTells([meta EXCEPT !.link = "none"], <<>>)
    <3>1. [meta EXCEPT !.link = "none"] \in Explorers
      BY <1>3 DEF Explorers, Links
    <3>2. up' \in BOOLEAN /\ faults' \in 0..MaxFaults
      BY <2>2, HealthAssumption DEF TypeOK
    <3> QED BY <1>1, <1>2, <2>2, <3>1, <3>2
  <2> QED BY <2>1, <2>2 DEF MetaOpens
<1>7. CASE MetaNotes
  <2>1. [meta EXCEPT !.note = FALSE, !.suspect = TRUE, !.net = TRUE] \in Explorers
    BY <1>3 DEF Explorers
  <2> QED BY <1>1, <1>2, <1>7, <2>1 DEF MetaNotes, serverVars, TypeOK
<1>8. CASE MetaSuspends
  <2>1. [meta EXCEPT !.link = "none"] \in Explorers
    BY <1>3 DEF Explorers, Links
  <2> QED BY <1>1, <1>2, <1>8, <2>1 DEF MetaSuspends, serverVars, TypeOK
<1>9. CASE MetaRequest
  <2>1. [meta EXCEPT !.link = "live", !.suspect = FALSE] \in Explorers
    BY <1>3 DEF Explorers, Links
  <2> QED BY <1>3, <1>4, <1>5, <1>6, <1>9, <2>1 DEF MetaRequest
<1> QED BY <1>7, <1>8, <1>9

LEMMA WorkerWork ==
  ASSUME WorkInv, NEW s \in Sessions, UNCHANGED does, WorkerStep(s)
  PROVE  WorkInv'
<1> USE DEF WorkInv
<1>1. Result(s)
  BY WorkerResult
<1>2. PICK w \in Worker, out \in Outs, ev \in Evts :
        Typed(w) /\ LinkOk(w) /\ Tells(s, w, out, ev)
  BY <1>1 DEF Result
<1>3. wk' \in [Sessions -> Worker] /\ \A t \in Sessions : Typed(wk'[t]) /\ LinkOk(wk'[t])
  BY <1>2, OneWorker DEF Tells
<1>4. conn' \in [Sessions -> Seq(Outcomes)] /\ evs' \in [Sessions -> Seq(Events)]
  BY <1>2 DEF Tells, TypeOK, Outs, Evts
<1>5. Silent'
  BY <1>1, <1>2 DEF Result, Tells, Silent, TypeOK
<1> QED BY <1>1, <1>2, <1>3, <1>4, <1>5 DEF Result, Tells, TypeOK, Typed

LEMMA HostWork ==
  ASSUME WorkInv, NEW s \in Sessions, UNCHANGED does, HostReads(s)
  PROVE  WorkInv'
<1> USE DEF WorkInv
<1>1. CASE Starts(s)
  BY <1>1 DEF Starts, TypeOK, serverVars, Silent
<1>2. CASE DrainConn(s)
  <2>1. conn[s] \in Seq(Outcomes)
    BY DEF TypeOK
  <2>2. CASE conn[s] = <<>>
    BY <1>2, <2>2 DEF DrainConn, TypeOK, serverVars, Silent
  <2>3. CASE conn[s] # <<>>
    <3>1. Head(conn[s]) \in Outcomes /\ Tail(conn[s]) \in Seq(Outcomes)
      BY <2>1, <2>3
    <3>2. app' \in Hosts /\ SameSessions(app', app)
      BY <1>2, <2>3, <3>1, OutcomeOk DEF DrainConn, TypeOK
    <3>3. conn' = [conn EXCEPT ![s] = Tail(@)]
      BY <1>2, <2>3 DEF DrainConn
    <3>4. Silent'
      BY <1>2, <2>3, <3>2, <3>3 DEF DrainConn, Silent, SameSessions, TypeOK
    <3> QED BY <1>2, <2>3, <3>1, <3>2, <3>3, <3>4 DEF DrainConn, TypeOK, serverVars
  <2> QED BY <2>2, <2>3
<1>3. CASE DrainEvents(s)
  <2>1. evs[s] \in Seq(Events)
    BY DEF TypeOK
  <2>2. CASE evs[s] = <<>>
    BY <1>3, <2>2 DEF DrainEvents, TypeOK, serverVars, Silent
  <2>3. CASE evs[s] # <<>>
    <3>1. Head(evs[s]) \in Events /\ Tail(evs[s]) \in Seq(Events)
      BY <2>1, <2>3
    <3>2. app' \in Hosts /\ SameSessions(app', app)
      BY <1>3, <2>3, <3>1, EventOk DEF DrainEvents, TypeOK
    <3>3. evs' = [evs EXCEPT ![s] = Tail(@)]
      BY <1>3, <2>3 DEF DrainEvents
    <3>4. Silent'
      BY <1>3, <2>3, <3>2, <3>3 DEF DrainEvents, Silent, SameSessions, TypeOK
    <3> QED BY <1>3, <2>3, <3>1, <3>2, <3>3, <3>4 DEF DrainEvents, TypeOK, serverVars
  <2> QED BY <2>2, <2>3
<1> QED BY <1>1, <1>2, <1>3 DEF HostReads

\* An outage, or the end of one session, leaves no failed session behind that
\* was not there.
LEMMA ServerWork ==
  ASSUME WorkInv, UNCHANGED does, ServerDown \/ ServerUp \/ SessionCut
  PROVE  WorkInv'
<1> USE DEF WorkInv
<1>0. \A l \in Links : /\ Cut(l) \in Links /\ (Cut(l) = "none" <=> l = "none")
                       /\ (Cut(l) = "failed" <=> l = "failed")
  BY DEF Cut, Links
<1>1. CASE ServerDown
  <2>1. wk' = [s \in Sessions |-> [wk[s] EXCEPT !.link = Cut(@)]]
    BY <1>1 DEF ServerDown
  <2>2. ASSUME NEW s \in Sessions
        PROVE  /\ wk'[s] \in Worker /\ Typed(wk'[s]) /\ LinkOk(wk'[s])
               /\ wk'[s].cmd = wk[s].cmd
    <3>1. wk[s] \in Worker /\ Typed(wk[s]) /\ LinkOk(wk[s])
      BY DEF TypeOK, Typed
    <3>2. wk'[s] = [wk[s] EXCEPT !.link = Cut(wk[s].link)]
      BY <2>1
    <3> QED BY <1>0, <3>1, <3>2 DEF Worker, Typed, LinkOk
  <2>a. wk' \in [Sessions -> Worker]
    BY <2>1, <2>2
  <2>3. meta' \in Explorers
    BY <1>0, <1>1 DEF ServerDown, TypeOK, Explorers
  <2>4. faults' \in 0..MaxFaults /\ up' \in BOOLEAN
    <3>1. faults \in 0..MaxFaults /\ faults > 0 /\ faults' = faults - 1 /\ up' = FALSE
      BY <1>1 DEF ServerDown, TypeOK
    <3>2. faults' \in 0..MaxFaults
      <4> HIDE DEF WorkInv
      <4>1. MaxFaults \in Nat
        BY HealthAssumption
      <4> QED BY <3>1, <4>1
    <3> QED BY <3>1, <3>2
  <2> QED BY <1>1, <2>2, <2>a, <2>3, <2>4 DEF ServerDown, TypeOK, Typed, Silent
<1>2. CASE ServerUp
  BY <1>2 DEF ServerUp, TypeOK, Silent
<1>3. CASE SessionCut
  <2>1. faults' \in 0..MaxFaults /\ up' \in BOOLEAN
    BY <1>3, HealthAssumption DEF SessionCut, TypeOK
  <2>2. CASE \E s \in Sessions : /\ wk[s].link = "live"
                                 /\ wk' = [wk EXCEPT ![s].link = "dead"] /\ UNCHANGED meta
    <3>1. PICK s \in Sessions : /\ wk[s].link = "live"
                                /\ wk' = [wk EXCEPT ![s].link = "dead"] /\ UNCHANGED meta
      BY <2>2
    <3> DEFINE w == [wk[s] EXCEPT !.link = "dead"]
    <3>2. w \in Worker /\ Typed(w) /\ LinkOk(w) /\ w.cmd = wk[s].cmd
      <4>1. wk[s] \in Worker /\ Typed(wk[s])
        BY DEF TypeOK, Typed
      <4> QED BY <3>1, <4>1 DEF Worker, Typed, LinkOk, Links
    <3>3. wk' = [wk EXCEPT ![s] = w]
      BY <3>1
    <3> HIDE DEF w
    <3>4. wk' \in [Sessions -> Worker] /\ \A t \in Sessions : Typed(wk'[t]) /\ LinkOk(wk'[t])
      BY <3>2, <3>3, OneWorker
    <3>5. \A t \in Sessions : wk'[t].cmd = wk[t].cmd
      BY <3>2, <3>3 DEF TypeOK
    <3> QED BY <1>3, <2>1, <3>1, <3>4, <3>5 DEF SessionCut, TypeOK, Typed, Silent
  <2>3. CASE meta' = [meta EXCEPT !.link = "dead"] /\ UNCHANGED wk
    <3>1. meta' \in Explorers
      BY <2>3 DEF TypeOK, Explorers, Links
    <3> QED BY <1>3, <2>1, <2>3, <3>1 DEF SessionCut, TypeOK, Silent
  <2> QED BY <1>3, <2>2, <2>3 DEF SessionCut
<1> QED BY <1>1, <1>2, <1>3

LEMMA NextWork == WorkInv /\ [Next]_vars => WorkInv'
<1> SUFFICES ASSUME WorkInv, [Next]_vars PROVE WorkInv'
  OBVIOUS
<1>1. CASE UNCHANGED vars
  BY <1>1 DEF WorkInv, TypeOK, Silent, vars
<1>2. CASE Next
  <2>1. CASE \E s \in Sessions : (\E c \in UserCommands : Send(s, c)) \/ Close(s) \/ Open(s)
    BY <1>2, <2>1, UserWork DEF Next
  <2>2. CASE \E s \in Sessions : WorkerStep(s) \/ HostReads(s)
    BY <1>2, <2>2, WorkerWork, HostWork DEF Next
  <2>3. CASE NetChanged \/ HealthGc \/ ReadHealth \/ MetaNotes \/ MetaSuspends \/ MetaRequest
    BY <1>2, <2>3, RegistryWork, MetaWork DEF Next
  <2>4. CASE ServerDown \/ ServerUp \/ SessionCut
    BY <1>2, <2>4, ServerWork DEF Next
  <2> QED BY <1>2, <2>1, <2>2, <2>3, <2>4 DEF Next
<1> QED BY <1>1, <1>2

LEMMA WorkInvariant == Spec => []WorkInv
<1>1. Init => WorkInv
  BY InitInv DEF IInv
<1> QED BY <1>1, NextWork, PTL DEF Spec

\* Every reachable state is well typed (worker.rs, app/health.rs): a session
\* past the probe carries out a command that has one, and one that is open has
\* a target to reconnect to.
THEOREM TypeCorrect == Spec => []TypeOK
<1>1. WorkInv => TypeOK
  BY DEF WorkInv
<1> QED BY <1>1, WorkInvariant, PTL

\* A run or a plan is never sent on a session on which a statement has failed
\* already, whatever else happens (suspect, ensure_alive).
THEOREM DeadSessionFailsOnce == Spec => FailsOnce
<1>1. WorkInv /\ [Next]_vars => [\A s \in Sessions : Runs(s) => wk[s].link # "failed"]_vars
  BY RunsResult DEF WorkInv
<1> QED BY <1>1, WorkInvariant, PTL DEF Spec, FailsOnce

-----------------------------------------------------------------------------
(* One state for the server, if no connect comes from the connect window.  *)

\* What the user does to a session neither connects it nor clears its lamp.
LEMMA UserHost ==
  ASSUME NoWindow, IInv, NEW s \in Sessions,
         (\E c \in UserCommands : Send(s, c)) \/ Close(s) \/ Open(s)
  PROVE  HostOk(app')
<1> DEFINE h == app.sess[s]
<1>1. app \in Hosts /\ h \in HostSess /\ HostOk(app)
  BY DEF IInv, WorkInv, TypeOK, Hosts
<1>2. CASE \E c \in UserCommands : Send(s, c)
  <2>1. PICK c \in UserCommands : Send(s, c)
    BY <1>2
  <2>2. c # "window"
    BY <2>1 DEF Send, NoWindow, IInv, WorkInv, TypeOK
  <2> DEFINE g == [h EXCEPT !.busy = c # "drop", !.attempt = c = "window"]
  <2>3. app' = Set(app, s, g)
    BY <1>1, <2>1 DEF Send, Set, Hosts, HostSess
  <2>4. /\ g \in HostSess /\ g.there = h.there /\ ~g.attempt
        /\ g.connected = h.connected /\ g.broken = h.broken
    BY <1>1, <2>2 DEF HostSess
  <2>5. h.connected => h.there
    BY <1>1 DEF HostOk
  <2> HIDE DEF g
  <2> QED BY <1>1, <2>3, <2>4, <2>5, SetKeeps
<1>3. CASE Close(s)
  BY <1>1, <1>3 DEF Close, Hosts, HostOk
<1>4. CASE Open(s)
  BY <1>1, <1>4 DEF Open, Hosts, HostSess, HostOk
<1> QED BY <1>2, <1>3, <1>4

\* Nor does a change of the network, and what the registry is told goes to
\* every session.
LEMMA RegistryHost ==
  ASSUME IInv, NetChanged \/ HealthGc \/ ReadHealth
  PROVE  HostOk(app')
<1>1. app \in Hosts /\ HostOk(app)
  BY DEF IInv, WorkInv, TypeOK
<1>2. CASE NetChanged
  BY <1>1, <1>2 DEF NetChanged, Hosts, HostOk
<1>3. CASE HealthGc
  BY <1>1, <1>3, GcOk DEF HealthGc
<1>4. CASE ReadHealth
  <2>1. HostOk(Up(app))
    BY <1>1, UpOk DEF HostOk, SameSessions
  <2> QED BY <1>1, <1>4, <2>1, DownOk DEF ReadHealth
<1> QED BY <1>2, <1>3, <1>4

\* A message that is read is of a session that exists.
LEMMA DrainHost ==
  ASSUME IInv, NEW s \in Sessions, HostReads(s)
  PROVE  HostOk(app')
<1>1. /\ app \in Hosts /\ HostOk(app)
      /\ conn[s] \in Seq(Outcomes) /\ evs[s] \in Seq(Events)
      /\ conn[s] # <<>> \/ evs[s] # <<>> => app.sess[s].there
  BY DEF IInv, WorkInv, TypeOK, Silent
<1>2. CASE UNCHANGED app
  BY <1>1, <1>2
<1>3. CASE conn[s] # <<>> /\ app' = OnOutcome(app, s, Head(conn[s]))
  BY <1>1, <1>3, OutcomeOk
<1>4. CASE evs[s] # <<>> /\ app' = OnEvent(app, s, Head(evs[s]))
  BY <1>1, <1>4, EventOk
<1> QED BY <1>2, <1>3, <1>4 DEF HostReads, Starts, DrainConn, DrainEvents

LEMMA NextHost ==
  ASSUME NoWindow, IInv, [Next]_vars
  PROVE  HostOk(app')
<1>1. CASE UNCHANGED app
  BY <1>1 DEF IInv
<1>2. CASE \E s \in Sessions : (\E c \in UserCommands : Send(s, c)) \/ Close(s) \/ Open(s)
  BY <1>2, UserHost
<1>3. CASE \E s \in Sessions : HostReads(s)
  BY <1>3, DrainHost
<1>4. CASE NetChanged \/ HealthGc \/ ReadHealth
  BY <1>4, RegistryHost
<1>5. ASSUME NEW s \in Sessions, WorkerStep(s) PROVE UNCHANGED app
  BY <1>5, WorkerResult DEF Result, Tells, IInv, WorkInv
<1>6. MetaNotes \/ MetaSuspends \/ MetaRequest => UNCHANGED app
  BY DEF MetaNotes, MetaSuspends, MetaRequest, MetaRefused, MetaOpens, MetaAsks, MetaTells
<1>7. ServerDown \/ ServerUp \/ SessionCut => UNCHANGED app
  BY DEF ServerDown, ServerUp, SessionCut
<1> QED BY <1>1, <1>2, <1>3, <1>4, <1>5, <1>6, <1>7 DEF Next, vars

\* The end point and its sessions are in one state, whatever interleaving of
\* outages, reconnects and reading there was (health_event, project_broken),
\* as long as no connect comes from the connect window: that one's outcome is
\* not passed on to the end point (drain_conn).
THEOREM OneStateForAll == ASSUME NoWindow PROVE Spec => []OneState
<1>1. Init => IInv
  BY InitInv
<1>2. IInv /\ [Next]_vars => IInv'
  BY NextWork, NextHost DEF IInv
<1>3. IInv => OneState
  BY DEF IInv, HostOk, OneState
<1> QED BY <1>1, <1>2, <1>3, PTL DEF Spec
=============================================================================
