----------------------------- MODULE TabSessions -----------------------------
(***************************************************************************)
(* Which session a tab uses, and which server that session is on           *)
(* (sessions.rs, app/session.rs, app/run.rs, app/connwin.rs).              *)
(*                                                                         *)
(* Tabs share sessions; a CONNECT in a script gives its tab one of its     *)
(* own.  The host decides from the specification it keeps of a session     *)
(* (spec): which session the connect window takes, whether a CONNECT may   *)
(* be left out, and whether a change is one to production, to be confirmed *)
(* or held.  The worker runs the script on the session it really has.      *)
(*                                                                         *)
(* An operation for a session that is not in front puts it there for its   *)
(* duration (with_sess); the gate puts the one of the active tab back      *)
(* (gate_pass, sync_sess).                                                 *)
(*                                                                         *)
(* Session mode "shared", session.private_connect on, both the defaults.   *)
(* A worker carries a command out and the host reads the answer in one     *)
(* step: SessionGate has the order of the messages, ServerHealth the lost  *)
(* connections.                                                            *)
(***************************************************************************)
EXTENDS Naturals, SequencesExt

CONSTANTS
  Tabs,            \* the tabs a user may open
  Servers,         \* servers with an account each, as profiles of the vault
  Production,      \* those whose profile says so
  Workloads,       \* what the user does in a behaviour, one of them
  MaxSessions      \* bound: sessions ever made

\* A specification of a session, as the host has it.  bare: the name of a
\* profile, as a CONNECT gives it; its environment is not known yet.
None == "none"
Spec0 == [ srv |-> None, bare |-> FALSE ]
Specs == [ srv : Servers, bare : BOOLEAN ] \cup { Spec0 }

\* A script is a sequence of changes, connects and disconnects.
Change        == [ do |-> "change", to |-> Spec0 ]
Disconnect    == [ do |-> "disconnect", to |-> Spec0 ]
Connect(spec) == [ do |-> "connect", to |-> spec ]
Items == { Change, Disconnect } \cup { Connect(spec) : spec \in Specs \ {Spec0} }

\* A workload: the operations of the user, the texts run, and whether a
\* server may refuse a login.
\* "confirm": a change to production is confirmed, not held (tx.prod_hold).
\* "manual": no automatic commit, and a tab closed commits (tx.close_action).
Operations == {"tabs", "login", "again", "activate", "unconnect", "use", "disconnect", "idle",
               "backup", "object", "manual", "confirm"}
ProdHold(w) == "confirm" \notin w.ops
Scripts == UNION { w.scripts : w \in Workloads }

\* connect_intent: the first CONNECT or DISCONNECT of a text.
Intents(script) == { k \in DOMAIN script : script[k].do # "change" }
Intent(script) == IF Intents(script) = {} THEN Change ELSE script[Min(Intents(script))]

Shared == 1   \* the first session, never given up
Ids == 1..MaxSessions

ASSUME TabsAssumption ==
  /\ Tabs # {} /\ None \notin Tabs /\ None \notin Servers /\ Production \subseteq Servers
  /\ \A w \in Workloads : /\ DOMAIN w = {"ops", "scripts", "refuses"}
                           /\ w.ops \subseteq Operations /\ w.scripts \subseteq Seq(Items) \ {<<>>}
                           /\ w.refuses \in BOOLEAN
  /\ MaxSessions \in Nat \ {0}

VARIABLES
  does,     \* the workload of this behaviour
  tabs,     \* tabs that are open
  active,   \* the one in front
  bind,     \* tab_bind: the shared session of a tab (0: none yet)
  default,  \* default_shared
  made,     \* next_sess_id: sessions made so far
  sess,     \* the sessions as the host knows them
  wk,       \* their workers: the server they are on, their commands
  known,    \* servers whose password is kept for the session
  objbk,    \* the run that waits for a backup of what it changes
  ran       \* the changes of the last command: where, where meant, guarded

vars == <<does, tabs, active, bind, default, made, sess, wk, known, objbk, ran>>

Session == [ there : BOOLEAN, owner : Tabs \cup {None}, spec : Specs,
             connected : BOOLEAN, desc : Servers \cup {None}, idle : BOOLEAN,
             dropped : BOOLEAN, closing : BOOLEAN, open : SUBSET Tabs,
             armed : Scripts \cup { RemoveFirst(x, Intent(x)) : x \in Scripts } \cup {<<>>} ]
NewSession == [ there |-> FALSE, owner |-> None, spec |-> Spec0, connected |-> FALSE,
                desc |-> None, idle |-> FALSE, dropped |-> FALSE, closing |-> FALSE,
                open |-> {}, armed |-> <<>> ]
NewWorker == [ link |-> None, cmds |-> <<>> ]
NoBackup == [ on |-> 0, script |-> <<>>, shown |-> None, prod |-> FALSE ]
Busy(h, i) == h.wk[i].cmds # <<>>

TypeOK ==
  /\ does \in Workloads
  /\ tabs \subseteq Tabs /\ active \in tabs
  /\ bind \in [Tabs -> 0..made] /\ made \in Ids
  /\ sess \in [Ids -> Session] /\ DOMAIN wk = Ids /\ known \subseteq Servers
  /\ \A i \in Ids : wk[i].link \in Servers \cup {None}
  \* The active shared connection and the sessions of tabs exist.
  /\ sess[default].there /\ sess[default].owner = None
  /\ \A t \in tabs : bind[t] # 0 \/ \E i \in Ids : sess[i].there /\ sess[i].owner = t
  /\ \A i \in Ids : sess[i].there /\ sess[i].owner # None => sess[i].owner \in tabs

\* One tab on the first session, nothing connected.
Init ==
  /\ does \in Workloads
  /\ \E t \in Tabs : /\ tabs = {t} /\ active = t
                     /\ bind = [u \in Tabs |-> IF u = t THEN Shared ELSE 0]
  /\ default = Shared /\ made = 1
  /\ sess = [i \in Ids |-> IF i = Shared THEN [NewSession EXCEPT !.there = TRUE]
                           ELSE NewSession]
  /\ wk = [i \in Ids |-> NewWorker]
  /\ known = {} /\ objbk = NoBackup /\ ran = {}

-----------------------------------------------------------------------------
(* Routes.  The host's side is a record, so that an operation, the reaping *)
(* and the binding after it compose.                                       *)

Host == [ tabs |-> tabs, active |-> active, bind |-> bind, default |-> default,
          made |-> made, sess |-> sess, wk |-> wk ]
Becomes(h) == /\ tabs' = h.tabs /\ active' = h.active /\ bind' = h.bind
              /\ default' = h.default /\ made' = h.made /\ sess' = h.sess /\ wk' = h.wk

Private(h, i) == h.sess[i].owner # None
Owned(h, t) == { i \in Ids : h.sess[i].there /\ h.sess[i].owner = t /\ ~h.sess[i].closing }
SharedOf(h) == { i \in Ids : h.sess[i].there /\ ~Private(h, i) /\ ~h.sess[i].closing }

\* sess_id_for_tab, route_tab.
Route(h, t) ==
  IF Owned(h, t) # {} THEN CHOOSE i \in Owned(h, t) : TRUE
  ELSE IF h.bind[t] \in SharedOf(h) THEN h.bind[t] ELSE h.default
Users(h, i) == { t \in h.tabs : Route(h, t) = i }
Current(h) == Route(h, h.active)

\* Mutant of Ended: a session that closes stays as long as its tab.
EndedByTab(h, i) == h.sess[i].owner \notin h.tabs
Ended(h, i) == h.sess[i].closing \/ h.sess[i].owner \notin h.tabs

\* Mutant of Unused: nor is the active shared connection kept.
UnusedDefault(h, i) == /\ ~h.sess[i].connected /\ ~Busy(h, i) /\ ~h.sess[i].idle
                       /\ i # Shared /\ \A t \in h.tabs : h.bind[t] # i
Unused(h, i) == /\ ~h.sess[i].connected /\ ~Busy(h, i) /\ ~h.sess[i].idle
                /\ i \notin {h.default, Shared} /\ \A t \in h.tabs : h.bind[t] # i
\* reap_sessions: sessions that close or whose tab is gone, and shared ones
\* that are not connected and that nobody is bound to.
Reaped(h) ==
  LET b == [h EXCEPT !.bind = [t \in Tabs |-> IF t \in h.tabs THEN @[t] ELSE 0]]
      gone == { i \in Ids : /\ b.sess[i].there
                            /\ IF Private(b, i) THEN Ended(b, i) ELSE Unused(b, i) }
  IN [b EXCEPT !.sess = [i \in Ids |-> IF i \in gone THEN NewSession ELSE @[i]],
               !.wk   = [i \in Ids |-> IF i \in gone THEN NewWorker ELSE @[i]]]

\* sync_sess: a tab without a session of its own is bound to the active shared one.
Synced(h) == [h EXCEPT !.bind = [t \in Tabs |-> IF t \in h.tabs /\ @[t] = 0 /\ Owned(h, t) = {}
                                                  THEN h.default ELSE @[t]]]
Settles(h) == Becomes(Synced(Reaped(h))) /\ UNCHANGED <<known, objbk>>
Stays(h) == Becomes(h) /\ UNCHANGED <<known, objbk>> /\ ran' = {}

-----------------------------------------------------------------------------
(* Tabs.                                                                   *)

OpenTab(t) == t \notin tabs /\ Stays(Synced([Host EXCEPT !.tabs = @ \cup {t}, !.active = t]))
ShowTab(t) == t \in tabs \ {active} /\ Stays(Synced([Host EXCEPT !.active = t]))

-----------------------------------------------------------------------------
(* Connecting.                                                             *)

\* for: the session the user asked; shown: the server that was shown.
NoCmd == [ op |-> "none", for |-> 0, to |-> Spec0, again |-> FALSE, script |-> <<>>,
           tab |-> None, shown |-> None, guarded |-> FALSE ]
Sends(h, i, cmd) == [h EXCEPT !.wk[i].cmds = Append(@, cmd)]

\* new_private and new_shared.
Made(h, owner) == [h EXCEPT !.made = @ + 1,
                            !.sess[h.made + 1] = [NewSession EXCEPT !.there = TRUE, !.owner = owner]]
Room(h) == h.made < MaxSessions

\* Starting to connect sets the specification at once.
Aimed(h, i, spec) == [h EXCEPT !.sess[i].spec = spec, !.sess[i].idle = FALSE,
                               !.sess[i].dropped = FALSE]

\* connect_quietly.
Quietly(h, i, spec, again) ==
  Sends(Aimed(h, i, spec), i, [NoCmd EXCEPT !.op = "connect", !.for = i, !.to = spec, !.again = again])

\* login_plan: the shared session for a server chosen in the connect window.
Serves(h, i, spec) ==
  LET s == h.sess[i] IN
  /\ s.spec = spec
  /\ s.connected \/ s.idle \/ Busy(h, i)
\* Mutant of Recyclable: a session is used again although tabs are bound to it.
RecyclableBound(h, i) ==
  LET s == h.sess[i] IN ~s.connected /\ ~Busy(h, i) /\ ~s.idle
Recyclable(h, i) ==
  LET s == h.sess[i] IN
  /\ ~s.connected /\ ~Busy(h, i) /\ ~s.idle
  /\ Users(h, i) = {} \/ SharedOf(h) = {i}

Attempt(h, i, spec) ==
  Sends(Aimed(h, i, spec), i, [NoCmd EXCEPT !.op = "login", !.for = i, !.to = spec])

\* login_place and the attempt that follows.
Login(spec) ==
  LET serving == { i \in SharedOf(Host) : Serves(Host, i, spec) }
      free    == { i \in SharedOf(Host) : Recyclable(Host, i) }
  IN /\ \/ \E i \in serving : ~Busy(Host, i) /\ Becomes(Attempt(Host, i, spec))
        \/ serving = {} /\ \E i \in free : Becomes(Attempt(Host, i, spec))
        \/ /\ serving = {} /\ free = {} /\ Room(Host)
           /\ Becomes(Attempt(Made(Host, None), made + 1, spec))
     /\ UNCHANGED <<known, objbk>> /\ ran' = {}

\* The session list: "connect again".
Again(i) ==
  /\ sess[i].there /\ ~sess[i].closing /\ ~Busy(Host, i) /\ sess[i].spec # Spec0
  /\ \E again \in BOOLEAN : Becomes(Quietly(Host, i, sess[i].spec, again))
  /\ UNCHANGED <<known, objbk>> /\ ran' = {}

-----------------------------------------------------------------------------
(* Choosing a session and leaving one.                                     *)

\* bind_active_tab_to.
BindActive(h, i) == IF Owned(h, h.active) # {} THEN h ELSE [h EXCEPT !.bind[h.active] = i]

\* activate_shared.
Activate(i) ==
  /\ i \in SharedOf(Host)
  /\ Becomes(Synced([BindActive(Host, i) EXCEPT !.default = i]))
  /\ UNCHANGED <<known, objbk>> /\ ran' = {}

\* disconnect_private_as: with keep the tab stays unconnected, else it goes
\* back to its shared session.
Left(h, i, keep) ==
  IF keep
    THEN [h EXCEPT !.sess[i].connected = FALSE, !.sess[i].dropped = TRUE,
                   !.sess[i].idle = FALSE, !.sess[i].open = {}, !.wk[i] = NewWorker]
    ELSE [h EXCEPT !.sess[i].closing = TRUE]

\* Open changes of a session in front are asked about first, those of
\* another keep it.
Free(i) == sess[i].open = {}

\* The badge of a tab: "no connection".
Unconnect(t) ==
  /\ t \in tabs
  /\ IF Owned(Host, t) # {} THEN Free(Route(Host, t)) /\ Settles(Left(Host, Route(Host, t), TRUE))
     ELSE Room(Host) /\ Settles([Made(Host, t) EXCEPT !.sess[made + 1].dropped = TRUE])
  /\ ran' = {}

\* The badge of a tab: a shared connection, one that is there or on its way.
Use(t, i) ==
  /\ t \in tabs /\ i \in SharedOf(Host) /\ (sess[i].connected \/ Busy(Host, i))
  /\ (Owned(Host, t) # {} => Free(Route(Host, t)))
  /\ LET h == IF Owned(Host, t) # {} THEN Reaped(Left(Host, Route(Host, t), FALSE)) ELSE Host
     IN Settles([h EXCEPT !.bind[t] = i])
  /\ ran' = {}

\* The tool bar: a shared session gets a new worker.
DisconnectForce ==
  LET i == Current(Host) IN
  /\ Free(i) /\ (sess[i].connected \/ Busy(Host, i))
  /\ Settles(IF Private(Host, i) THEN Left(Host, i, FALSE)
             ELSE [Host EXCEPT !.sess[i].connected = FALSE, !.sess[i].dropped = TRUE, !.sess[i].idle = FALSE,
                               !.wk[i] = NewWorker])
  /\ ran' = {}

\* idle_tick, abandon_worker: closed for idleness; the specification stays.
IdleClose(i) ==
  /\ sess[i].there /\ sess[i].connected /\ sess[i].spec # Spec0 /\ ~Busy(Host, i) /\ Free(i)
  /\ Becomes([Host EXCEPT !.sess[i].connected = FALSE, !.sess[i].idle = TRUE,
                          !.wk[i] = NewWorker])
  /\ UNCHANGED <<known, objbk>> /\ ran' = {}

-----------------------------------------------------------------------------
(* Running a script (place_run, run_text_in).                              *)

\* statements_before_connect.
Preceded(script) == Head(script).do = "change"
HasChange(script) == \E k \in DOMAIN script : script[k].do = "change"

\* A tab's own session changes its target, unless it is there already: then
\* the CONNECT is left out of the text (keep_same_session).  A profile brings
\* its password, a string none.
CredChanged(spec) == spec.bare /\ spec.srv \notin known
\* Mutant of Kept: whatever the server.
KeptAnywhere(h, i, spec) == h.sess[i].connected /\ ~CredChanged(spec)
Kept(h, i, spec) ==
  LET s == h.sess[i] IN
  /\ s.connected /\ s.spec = [spec EXCEPT !.bare = FALSE] /\ ~CredChanged(spec)

\* place_run, with session i in front: the host and the text after it, and
\* the server that the text is meant for.
Placed(h, i, script) ==
  LET x == Intent(script)
      b == Synced(Made(h, h.active))
      p == [ host |-> h, text |-> script, shown |-> h.sess[i].desc ]
  IN CASE x.do = "connect" /\ Private(h, i) /\ Kept(h, i, x.to) ->
            [p EXCEPT !.text = RemoveFirst(script, x), !.shown = x.to.srv]
       [] x.do = "connect" /\ Private(h, i) /\ ~Kept(h, i, x.to) ->
            [p EXCEPT !.host = Aimed(h, i, x.to)]
       [] x.do = "connect" /\ ~Private(h, i) ->
            [p EXCEPT !.host = Aimed(b, b.made, x.to), !.shown = None]
       [] x.do # "connect" ->
            [p EXCEPT !.host.bind[h.active] = IF Private(h, i) \/ @ # 0 THEN @ ELSE i]

\* wake_if_idle.
Woken(h, i) == IF h.sess[i].idle THEN Quietly(h, i, h.sess[i].spec, FALSE) ELSE h

\* Mutant of Prod: by the active shared connection.
ProdDefault(h, i, text) ==
  h.sess[h.default].spec \in [srv : Production, bare : {FALSE}] /\ HasChange(text)
\* A change to production: as far as the host's specification tells.
Prod(h, i, text) == h.sess[i].spec \in [srv : Production, bare : {FALSE}] /\ HasChange(text)

\* The command goes to session i; for is the session asked.
Submitted(h, i, text, for, shown, guarded) ==
  Sends([h EXCEPT !.sess[i].armed = IF guarded THEN <<>> ELSE @], i,
        [NoCmd EXCEPT !.op = "run", !.for = for, !.script = text, !.tab = h.active,
                      !.shown = shown, !.guarded = guarded])

\* The user runs a text in the tab in front.  A change to production is held
\* or confirmed by running it once more in time; what a change destroys may
\* have to be saved first.
Press(script) ==
  LET i == Current(Host)
      p == Placed(Host, i, script)
      j == Current(p.host)
      h == Woken(p.host, j)
      prod == Prod(h, j, p.text)
  IN /\ ~Busy(Host, i)
     /\ Intent(script).do = "disconnect" => ~Private(Host, i)
     /\ (Intent(script).do = "connect" /\ ~Private(Host, i)) => (~Preceded(script) /\ Room(Host))
     /\ p.text # <<>>
     /\ \/ /\ prod /\ ~ProdHold(does)
           /\ Becomes([h EXCEPT !.sess[j].armed = p.text]) /\ UNCHANGED objbk
        \/ /\ prod /\ ~ProdHold(does) => sess[j].armed = p.text
           /\ \/ Becomes(Submitted(h, j, p.text, j, p.shown, prod)) /\ UNCHANGED objbk
              \/ /\ "backup" \in does.ops /\ objbk = NoBackup /\ HasChange(p.text)
                 /\ Becomes([h EXCEPT !.sess[j].armed = IF prod THEN <<>> ELSE @])
                 /\ objbk' = [ on |-> j, script |-> p.text, shown |-> p.shown, prod |-> prod ]
     /\ UNCHANGED known /\ ran' = {}

\* A text with a DISCONNECT in a tab with its own session only closes it.
PressClose(script) ==
  LET i == Current(Host) IN
  /\ ~Busy(Host, i) /\ Private(Host, i) /\ Intent(script).do = "disconnect" /\ Free(i)
  /\ Settles(Left(Host, i, FALSE)) /\ ran' = {}

\* objbk_finish: the run is taken up with its session in front; the gate
\* then goes by the tab in front.
TakenUp ==
  LET i == objbk.on
      p == Placed(Host, i, objbk.script)
      j == Current(p.host)
      h == Woken(p.host, j)
  IN /\ objbk # NoBackup /\ objbk' = NoBackup
     /\ Becomes(IF ~sess[i].there THEN Host
                ELSE IF Busy(p.host, j) \/ p.text = <<>> THEN p.host
                ELSE Submitted(h, j, p.text, i,
                               IF p.text = objbk.script THEN objbk.shown ELSE p.shown,
                               Prod(h, j, p.text) /\ (ProdHold(does) \/ objbk.prod)))
     /\ UNCHANGED known /\ ran' = {}

\* objbk_failed: production is not changed without a backup.
BackupFails ==
  /\ objbk.prod /\ objbk' = NoBackup
  /\ Becomes(Host) /\ UNCHANGED known /\ ran' = {}

\* drop_execute: an object of the explorer's server is dropped, on a session
\* of that server.  Its window has confirmed it.
DropObject(i) ==
  LET j == Current(Host)  h == Woken(Host, j) IN
  /\ sess[i].there /\ sess[i].connected /\ ~sess[i].closing /\ ~Busy(Host, j)
  /\ Stays(Submitted(h, j, <<Change>>, i, sess[i].spec.srv, TRUE))

\* close_tab_guarded: open changes of the tab are committed first.
CloseTab(t) ==
  LET i == Route(Host, t)
      j == Current(Host)
      asks == IF Private(Host, i) THEN sess[i].open # {} ELSE t \in sess[i].open
      h == IF asks THEN [Sends(Host, j, [NoCmd EXCEPT !.op = "commit", !.for = i])
                           EXCEPT !.sess[j].open = {}]
           ELSE Host
  IN /\ t \in tabs /\ tabs # {t} /\ (asks => ~Busy(Host, j))
     /\ \A k \in DOMAIN wk[i].cmds : wk[i].cmds[k].tab # t
     /\ \E u \in tabs \ {t} :
          Settles([h EXCEPT !.tabs = @ \ {t}, !.active = IF @ = t THEN u ELSE @])
     /\ ran' = {}

-----------------------------------------------------------------------------
(* The worker carries a command out (Cmd::ConnectSpec, Cmd::Run,           *)
(* Runner::connect) and the host reads its answer (drain_all).             *)

Msg(ev, srv) == [ ev |-> ev, srv |-> srv ]

\* Runner::connect: a session on the same server is closed first; one on
\* another server stays if the login is refused.
Connected(a, spec, refused) ==
  IF spec.srv \notin refused
    THEN [a EXCEPT !.link = spec.srv, !.out = Append(@, Msg("connected", spec.srv))]
    ELSE IF a.link = spec.srv THEN [a EXCEPT !.link = None, !.out = Append(@, Msg("closed", None))]
    ELSE a

\* One item of a script: a statement runs on the session there is.
Stepped(a, item, guarded, refused) ==
  CASE item.do = "connect"    -> [Connected(a, item.to, refused) EXCEPT !.meant = item.to.srv]
    [] item.do = "disconnect" -> [a EXCEPT !.link = None, !.meant = None,
                                           !.out = Append(@, Msg("disconnected", None))]
    [] item.do = "change"     ->
         IF a.link = None THEN a
         ELSE [a EXCEPT !.out = Append(@, Msg("changed", a.link)), !.ran = @ \cup {[on |-> a.link, meant |-> a.meant, guarded |-> guarded]}]

\* A text, one item after the other.
Executed(a, cmd, refused) ==
  LET after[k \in 0..Len(cmd.script)] ==
        IF k = 0 THEN a ELSE Stepped(after[k - 1], cmd.script[k], cmd.guarded, refused)
  IN after[Len(cmd.script)]

Start(i, cmd) == [ link |-> wk[i].link, out |-> <<>>, meant |-> cmd.shown, ran |-> {} ]

\* Cmd::ConnectSpec: a session on the same server is kept, unless asked to
\* connect again.
Carried(cmd, a, refused) ==
  IF cmd.op = "run" THEN Executed(a, cmd, refused)
    ELSE IF cmd.op = "commit" THEN a
    ELSE IF a.link = cmd.to.srv /\ ~cmd.again /\ ~cmd.to.bare
      THEN [a EXCEPT !.out = <<Msg("up", cmd.to.srv)>>]
      ELSE LET b == Connected(a, cmd.to, refused)
           IN [b EXCEPT !.out = <<Msg(IF cmd.to.srv \in refused THEN "failed" ELSE "up", cmd.to.srv)>> \o @]

\* The connect window's session becomes the active shared one, of the tab in
\* front when the login is done.
Entered(h, i) == IF Private(h, i) THEN h ELSE BindActive([h EXCEPT !.default = i], i)

\* explorer_attach: the name of a profile is completed.
Attached(h, i) == [h EXCEPT !.sess[i].spec.bare = FALSE]

Heard(h, i, m, cmd) ==
  CASE m.ev = "up" ->
         LET b == [h EXCEPT !.sess[i].connected = TRUE, !.sess[i].desc = m.srv]
         IN IF cmd.op = "login" THEN Entered(b, i) ELSE b
    [] m.ev = "failed" -> [h EXCEPT !.sess[i].connected = @ /\ cmd.op = "login"]
    [] m.ev = "connected" ->
         Attached([h EXCEPT !.sess[i].connected = TRUE, !.sess[i].desc = m.srv,
                            !.sess[i].open = {}, !.sess[i].idle = FALSE, !.sess[i].dropped = FALSE], i)
    [] m.ev = "changed" -> [h EXCEPT !.sess[i].open = IF "manual" \in does.ops THEN @ \cup {cmd.tab} ELSE @]
    [] m.ev = "closed" -> [h EXCEPT !.sess[i].connected = FALSE, !.sess[i].open = {}]
    [] OTHER ->
         [h EXCEPT !.sess[i].connected = FALSE, !.sess[i].open = {},
                   !.sess[i].closing = @ \/ (/\ Private(h, i) /\ ~h.sess[i].idle
                                             /\ ~h.sess[i].dropped)]

\* The answers, one after the other.
AllHeard(h, i, out, cmd) ==
  LET after[k \in 0..Len(out)] ==
        IF k = 0 THEN h ELSE Heard(after[k - 1], i, out[k], cmd)
  IN after[Len(out)]

Answers(i, refused) ==
  /\ Busy(Host, i)
  /\ LET cmd == Head(wk[i].cmds)  a == Carried(cmd, Start(i, cmd), refused)
         h == [Host EXCEPT !.wk[i] = [link |-> a.link, cmds |-> Tail(@.cmds)]]
     IN /\ Becomes(Synced(Reaped(AllHeard(h, i, a.out, cmd))))
        /\ ran' = a.ran
        /\ known' = known \cup { m.srv : m \in { x \in Range(a.out) : x.ev = "connected" } }
        /\ UNCHANGED objbk

-----------------------------------------------------------------------------
Refusable == IF does.refuses THEN SUBSET Servers ELSE {{}}

Step ==
  \/ "tabs" \in does.ops /\ \E t \in Tabs : OpenTab(t) \/ CloseTab(t) \/ ShowTab(t)
  \/ "login" \in does.ops /\ \E srv \in Servers : Login([srv |-> srv, bare |-> FALSE])
  \/ "again" \in does.ops /\ \E i \in Ids : Again(i)
  \/ "activate" \in does.ops /\ \E i \in Ids : Activate(i)
  \/ "unconnect" \in does.ops /\ \E t \in Tabs : Unconnect(t)
  \/ "use" \in does.ops /\ \E t \in Tabs, i \in Ids : Use(t, i)
  \/ "disconnect" \in does.ops /\ DisconnectForce
  \/ "object" \in does.ops /\ \E i \in Ids : DropObject(i)
  \/ TakenUp \/ BackupFails
  \/ "idle" \in does.ops /\ \E i \in Ids : IdleClose(i)
  \/ \E script \in does.scripts : Press(script) \/ PressClose(script)
  \/ \E i \in Ids, refused \in Refusable : Answers(i, refused)

Next == Step /\ UNCHANGED does

Spec == Init /\ [][Next]_vars

-----------------------------------------------------------------------------
SharedTabs(t) == t \in tabs /\ Owned(Host, t) = {}
ServerOf(t) == sess[Route(Host, t)].spec.srv

(* A tab on a shared connection stays on its server: neither another tab, *)
(* nor the connect window, nor the end of a session sends its statements  *)
(* elsewhere, unless there is but one shared connection (login_plan,      *)
(* reap_shared).                                                          *)
TabsStay ==
  [][\A t \in tabs \ {active} :
       SharedTabs(t) /\ SharedTabs(t)' /\ SharedOf(Host) # {Route(Host, t)} /\ ServerOf(t) # None
         => ServerOf(t)' = ServerOf(t) \/ \E i \in Ids : Use(t, i)]_vars

(* What is asked of a session goes to that session (objbk_finish,          *)
(* drop_execute, close_tab_guarded).                                       *)
GoesWhereAsked == \A i \in Ids : \A k \in DOMAIN wk[i].cmds : wk[i].cmds[k].for = i

(* A change runs on the server that the CONNECT ahead of it names, or else *)
(* on the one the tab showed when the run was asked for.                   *)
RunsWhereMeant == \A r \in ran : r.on = r.meant

(* A change on a server of production was confirmed or is held             *)
(* (run_text_in).                                                          *)
ProdGuarded == \A r \in ran : r.on \in Production => r.guarded
=============================================================================
