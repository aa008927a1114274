---------------------------- MODULE LinuxBackend ----------------------------
(***************************************************************************)
(* The Linux backend (backend/linux/backend.go) and the two engines that   *)
(* all tunnels share: Babel's (babel_backend.go), which runs one speaker   *)
(* and installs the routes it selects, and MPTCP's (mptcp.go), which keeps *)
(* an endpoint for every address of a tunnel.  The Manager calls it: its   *)
(* writers exclude each other and the readers (the gate of                 *)
(* ControlPlane.tla), which reconcile tunnels and the engines in parallel. *)
(*                                                                         *)
(* Abstracted: a record is the version of its specification, whose address *)
(* it determines, whether it is enabled, and whether it follows the switch *)
(* of MPTCP or opts in or out; there is one destination, and a route to it *)
(* is the set of tunnels it uses and their weights, of which two are       *)
(* further apart than the tolerance.                                       *)
(***************************************************************************)
EXTENDS Integers, Sequences, FiniteSets

CONSTANTS
  Tunnels,
  Versions,   \* of a record's specification
  Tables,     \* route tables
  Profiles,   \* bounds: the first records, the engines in use, what may happen how often
  Start,      \* settings of the first start
  Choices,    \* settings that an operator may choose
  None        \* absent record, speaker, holder

Weights == {0, 1}
Settings == [table : Tables, policy : Weights, mptcp : BOOLEAN]
Record == [v : Versions, on : BOOLEAN, opt : {"follow", "in", "out"}]

\* Changes of records and of settings, calls to the kernel that fail, links
\* that vanish, changes of the selection, routes of a user, crashes.
Counted == {"write", "settings", "fail", "vanish", "learn", "user", "crash"}

ASSUME LinuxBackendAssumption ==
  /\ None \notin Record /\ None \notin Tunnels \cup {"global", "writer"}
  /\ "global" \notin Tunnels /\ "writer" \notin Tunnels
  /\ Profiles \subseteq [first : SUBSET Tunnels, uses : [babel : BOOLEAN, mptcp : BOOLEAN],
                       left : [Counted -> Nat]]
  /\ Start \in Settings /\ Choices \subseteq Settings /\ Versions # {}

VARIABLES
  uses,       \* what this behaviour is about: [babel, mptcp : BOOLEAN]
  stored,     \* the records
  disk,       \* the settings that a restart finds
  links,      \* kernel: the tunnels whose link exists
  routes,     \* kernel: the route to the destination in each table
  endpoints,  \* kernel: MPTCP endpoints, of addresses <<tunnel, version>>
  engine,     \* babelEngine
  holder,     \* of babelEngine.reconcileMu
  selected,   \* the speaker's selection
  damping,    \* babelWeightState of the destination
  control,    \* mptcpControl
  calls,      \* calls[c]: the call that c has under way
  torn,       \* history: a change of settings was cut short, or its rollback
  left        \* what is left of the budget

kernel == <<links, routes, endpoints>>
babel == <<engine, holder, selected, damping>>
vars == <<uses, stored, disk, kernel, babel, control, calls, torn, left>>

Spend(what) == left[what] > 0 /\ left' = [left EXCEPT ![what] = @ - 1]

-----------------------------------------------------------------------------
(* A call is the stages it still has to go through.                        *)

Callers == Tunnels \cup {"global", "writer"}
Idle == [op |-> "none", do |-> <<>>, of |-> None, rec |-> None, err |-> FALSE,
         at |-> "wait", built |-> None, plan |-> None]

\* An engine that no record and no kernel supports has nothing to do.
Babel(stages) == IF uses.babel THEN stages ELSE <<>>
MPTCP(stages) == IF uses.mptcp THEN stages ELSE <<>>

\* Backend.Apply, Remove, ReconcileGlobal, ApplySettings, UpdateSettings.
Applying == <<"link">> \o Babel(<<"babelset", "babel">>) \o MPTCP(<<"mptcpset", "mptcp">>)
Removing == MPTCP(<<"mptcpset", "mptcp">>) \o <<"unlink">> \o Babel(<<"babelset", "babel">>)
Global == Babel(<<"babel">>) \o MPTCP(<<"mptcpall">>)
Restoring == Babel(<<"refresh", "babel">>) \o MPTCP(<<"mptcprefresh", "mptcp">>)
Updating == Append(Restoring, "save")

Call(op, do, t, rec) == [Idle EXCEPT !.op = op, !.do = do, !.of = t, !.rec = rec]
Stage(c) == IF calls[c].do = <<>> THEN "none" ELSE Head(calls[c].do)

Advanced(c, err) ==
  [calls EXCEPT ![c].do = Tail(@), ![c].at = "wait", ![c].built = None, ![c].plan = None,
                ![c].err = @ \/ err]
At(c, place) == [calls EXCEPT ![c].at = place]
Planned(c, place, plan) == [calls EXCEPT ![c].at = place, ![c].plan = plan]

\* applySettings stops at its first error, and the settings are rolled back;
\* an error of the rollback is only reported.
Stopped(c) ==
  IF calls[c].op = "settings"
  THEN [calls EXCEPT ![c] = Call("restore", Restoring, None, disk)]
  ELSE [calls EXCEPT ![c].do = <<>>, ![c].err = TRUE]
Failed(c) == IF calls[c].op \in {"settings", "restore"} THEN Stopped(c) ELSE Advanced(c, TRUE)
TornBy(c) == torn \/ calls[c].op = "restore"

-----------------------------------------------------------------------------
(* Babel.                                                                  *)

NoRoute == [owner |-> "none", via |-> {}, w |-> 0]
Route(owner, via, w) == [owner |-> owner, via |-> via, w |-> IF Cardinality(via) > 1 THEN w ELSE 0]
Selection(via, w) == [via |-> via, w |-> IF Cardinality(via) > 1 THEN w ELSE 0]
NoSelection == Selection({}, 0)
NewDamping == [pending |-> None, cooled |-> TRUE]

NoTunnels == [t \in Tunnels |-> None]
NewEngine(s) ==
  [settings |-> s, tunnels |-> NoTunnels, built |-> None, speaker |-> None, force |-> FALSE]

\* Fault: only the identities of the tunnels are compared.
SameIdentities(a, b) == {t \in Tunnels : a[t] # None} = {t \in Tunnels : b[t] # None}

\* fingerprintLocked: a configuration of a tunnel is its version.
SameFingerprint(a, b) == a = b
NeedBuild == engine.speaker = None \/ ~ SameFingerprint(engine.built, engine.tunnels)

\* A speaker has sockets for the links there are when it is built; a socket
\* does not survive its link.
Speaker(tunnels) ==
  [tunnels |-> tunnels,
   port |-> [t \in Tunnels |-> IF tunnels[t] # None /\ t \in links THEN "live" ELSE "none"]]
Unplugged(speaker, t) ==
  IF speaker # None /\ speaker.port[t] = "live" THEN [speaker EXCEPT !.port[t] = "stale"]
  ELSE speaker
Live == IF engine.speaker = None THEN {} ELSE {t \in Tunnels : engine.speaker.port[t] = "live"}

\* The kernel drops the next hops of a link with it.
Severed(r, t) ==
  IF t \notin r.via THEN r ELSE IF r.via = {t} THEN NoRoute ELSE Route(r.owner, r.via \ {t}, r.w)

\* babelRoutesToNetlink.
Desired ==
  IF selected.via = {} THEN NoRoute
  ELSE Route("th", selected.via, (selected.w + engine.settings.policy) % 2)
Current == routes[engine.settings.table]

\* babelWeightOnlyChange, and shouldApply: a new weight is installed when it
\* is seen for the second time, and not too soon after the last one.
WeightOnly == Current.owner = "th" /\ Current.via = Desired.via /\ Current.w # Desired.w
ShouldApply == damping.pending = Desired.w /\ damping.cooled
\* Fault: an explicit change of the policy is damped like a measurement.
DampedAlways == WeightOnly /\ ~ ShouldApply

Damped == ~ engine.force /\ WeightOnly /\ ~ ShouldApply

-----------------------------------------------------------------------------
(* MPTCP.                                                                  *)

\* Fault: every endpoint that is not desired is an orphan.
AnyAddress(t, e) == TRUE

\* Fault: a tunnel that has been turned off owns nothing any more.
EnabledAddress(t, e) ==
  /\ control.tunnels[t] # None /\ control.tunnels[t].on
  /\ e = <<t, control.tunnels[t].v>>

\* ownedLocked: an address of a tunnel in the registry.
Owned(t, e) == control.tunnels[t] # None /\ e = <<t, control.tunnels[t].v>>

\* desiredSetLocked: an explicit choice goes before the switch.
Takes(rec) == rec.on /\ (rec.opt = "in" \/ (rec.opt = "follow" /\ control.enabled))
DesiredEndpoints ==
  {<<t, control.tunnels[t].v>> :
     t \in {u \in Tunnels : control.tunnels[u] # None /\ Takes(control.tunnels[u])}}
Orphans == {e \in endpoints \ DesiredEndpoints : \E t \in Tunnels : Owned(t, e)}

\* removeTunnel: the address stays known, so that its endpoint is withdrawn.
Withdrawn(t, rec) ==
  IF control.tunnels[t] = None THEN [rec EXCEPT !.on = FALSE]
  ELSE [control.tunnels[t] EXCEPT !.on = FALSE]

-----------------------------------------------------------------------------
(* Calls begin.                                                            *)

Writing == calls["writer"].op # "none"
Quiet == \A c \in Callers : calls[c].op = "none"

\* Reconciler.reconcileRecord.
StartReconcile(t) ==
  /\ ~ Writing /\ calls[t].op = "none" /\ stored[t] # None
  /\ calls' = [calls EXCEPT ![t] =
       Call("reconcile", IF stored[t].on THEN Applying ELSE Removing, t, stored[t])]
  /\ UNCHANGED <<uses, stored, disk, kernel, babel, control, torn, left>>

\* ReconcileAll, after its tunnels.
StartGlobal ==
  /\ ~ Writing /\ calls["global"].op = "none"
  /\ calls' = [calls EXCEPT !["global"] = Call("global", Global, None, None)]
  /\ UNCHANGED <<uses, stored, disk, kernel, babel, control, torn, left>>

StartWrite(t) ==
  /\ Quiet /\ Spend("write")
  /\ \E rec \in Record :
       /\ rec # stored[t] /\ (uses.mptcp \/ rec.opt = "follow")
       /\ stored' = [stored EXCEPT ![t] = rec]
       /\ calls' = [calls EXCEPT !["writer"] =
            Call("write", IF rec.on THEN Applying ELSE Removing, t, rec)]
  /\ UNCHANGED <<uses, disk, kernel, babel, control, torn>>

StartDelete(t) ==
  /\ Quiet /\ stored[t] # None /\ Spend("write")
  /\ calls' = [calls EXCEPT !["writer"] = Call("delete", Removing, t, stored[t])]
  /\ UNCHANGED <<uses, stored, disk, kernel, babel, control, torn>>

StartSettings ==
  /\ Quiet /\ Spend("settings")
  /\ \E s \in Choices \ {disk} :
       /\ uses.mptcp \/ s.mptcp = disk.mptcp
       /\ uses.babel \/ s.mptcp # disk.mptcp
       /\ calls' = [calls EXCEPT !["writer"] = Call("settings", Updating, None, s)]
  /\ UNCHANGED <<uses, stored, disk, kernel, babel, control, torn>>

-----------------------------------------------------------------------------
(* Stages.                                                                 *)

\* apply of a kind: the link exists afterwards, or the call has an error.
Link(c) ==
  LET t == calls[c].of IN
  /\ Stage(c) = "link"
  /\ \/ links' = links \cup {t} /\ calls' = Advanced(c, FALSE) /\ UNCHANGED left
     \/ UNCHANGED links /\ calls' = Advanced(c, TRUE) /\ Spend("fail")
  /\ UNCHANGED <<uses, stored, disk, routes, endpoints, babel, control, torn>>

Vanished(t) ==
  /\ links' = links \ {t}
  /\ routes' = [n \in Tables |-> Severed(routes[n], t)]
  /\ engine' = [engine EXCEPT !.speaker = Unplugged(@, t)]

Unlink(c) ==
  /\ Stage(c) = "unlink"
  /\ \/ Vanished(calls[c].of) /\ calls' = Advanced(c, FALSE) /\ UNCHANGED left
     \/ UNCHANGED <<links, routes, engine>> /\ calls' = Advanced(c, TRUE) /\ Spend("fail")
  /\ UNCHANGED <<uses, stored, disk, endpoints, holder, selected, damping, control, torn>>

\* upsertTunnel and removeTunnel, under babelEngine.mu.
BabelSet(c) ==
  LET call == calls[c] IN
  /\ Stage(c) = "babelset"
  /\ \A d \in Callers : calls[d].at # "build"
  /\ engine' = [engine EXCEPT !.tunnels[call.of] =
       IF call.rec.on /\ call.op # "delete" THEN call.rec.v ELSE None]
  /\ calls' = Advanced(c, FALSE)
  /\ UNCHANGED <<uses, stored, disk, kernel, holder, selected, damping, control, torn, left>>

\* refreshSettings, up to the removal of the old table's routes.
Refresh(c) ==
  LET s == calls[c].rec IN
  /\ Stage(c) = "refresh" /\ calls[c].at = "wait" /\ holder = None
  /\ engine' = [engine EXCEPT !.settings = s, !.force = @ \/ s.policy # engine.settings.policy]
  /\ IF s.table # engine.settings.table
     THEN calls' = At(c, "moving")
     ELSE calls' = Advanced(c, FALSE)
  /\ holder' = c
  /\ UNCHANGED <<uses, stored, disk, kernel, selected, damping, control, torn, left>>

\* Fault: the routes of the old table stay.
Kept(r) == r

\* removeOwnedRoutesFrom.
Cleared(r) == IF r.owner = "th" THEN NoRoute ELSE r

Move(c) ==
  /\ Stage(c) = "refresh" /\ calls[c].at = "moving"
  /\ \/ /\ routes' = [n \in Tables |-> IF n = engine.settings.table THEN routes[n] ELSE Cleared(routes[n])]
        /\ calls' = Advanced(c, FALSE)
        /\ UNCHANGED <<holder, torn, left>>
     \/ /\ Spend("fail")
        /\ calls' = Failed(c) /\ torn' = TornBy(c)
        /\ holder' = None /\ UNCHANGED routes
  /\ UNCHANGED <<uses, stored, disk, links, endpoints, engine, selected, damping, control>>

\* reconcileMu, which refreshSettings holds already.
Free(c) == holder \in {None, c}

\* reconcileSerialized: the fingerprint is taken under babelEngine.mu, which
\* is left only to close an old speaker.
Decide(c) ==
  /\ Stage(c) = "babel" /\ calls[c].at = "wait" /\ Free(c)
  /\ holder' = c
  /\ calls' = [calls EXCEPT ![c].built = engine.tunnels,
       ![c].at = IF ~ NeedBuild THEN "routes" ELSE IF engine.speaker = None THEN "build" ELSE "closing"]
  /\ engine' = IF NeedBuild THEN [engine EXCEPT !.speaker = None] ELSE engine
  /\ selected' = IF NeedBuild THEN NoSelection ELSE selected
  /\ UNCHANGED <<uses, stored, disk, kernel, damping, control, torn, left>>

Build(c) ==
  /\ Stage(c) = "babel" /\ calls[c].at \in {"build", "closing"}
  /\ \/ /\ engine.tunnels = NoTunnels
        /\ engine' = [engine EXCEPT !.built = calls[c].built]
        /\ calls' = At(c, "clear")
        /\ UNCHANGED <<holder, torn, left>>
     \/ /\ engine.tunnels # NoTunnels
        /\ engine' = [engine EXCEPT !.built = calls[c].built, !.speaker = Speaker(engine.tunnels)]
        /\ calls' = At(c, "routes")
        /\ UNCHANGED <<holder, torn, left>>
     \/ /\ engine.tunnels # NoTunnels /\ Spend("fail")
        /\ calls' = Failed(c) /\ torn' = TornBy(c)
        /\ holder' = None /\ UNCHANGED engine
  /\ UNCHANGED <<uses, stored, disk, kernel, selected, damping, control>>

Released(c, err) ==
  /\ calls' = IF err THEN Failed(c) ELSE Advanced(c, FALSE)
  /\ torn' = IF err THEN TornBy(c) ELSE torn
  /\ holder' = None

\* removeOwnedRoutes: no tunnel takes part any more.
Clear(c) ==
  /\ Stage(c) = "babel" /\ calls[c].at = "clear"
  /\ \/ /\ routes' = [routes EXCEPT ![engine.settings.table] = Cleared(@)]
        /\ Released(c, FALSE) /\ UNCHANGED left
     \/ UNCHANGED routes /\ Released(c, TRUE) /\ Spend("fail")
  /\ UNCHANGED <<uses, stored, disk, links, endpoints, engine, selected, damping, control>>

\* refreshAdvertised and installRoutes: nothing is installed when a link of
\* the selection is missing, or when somebody else's route is in the way.
Blocked ==
  \/ ~ (selected.via \subseteq links)
  \/ selected.via # {} /\ Current.owner = "user"

\* The route of the selection is there already, or there is none to remove.
Undue == Current = Desired \/ (Desired = NoRoute /\ Current.owner # "th") \/ Damped

\* installRoutes up to its first change: what the table holds is listed once.
Compare(c) ==
  /\ Stage(c) = "babel" /\ calls[c].at = "routes"
  /\ \/ /\ ~ Blocked /\ Undue
        /\ damping' = IF Damped THEN [damping EXCEPT !.pending = Desired.w] ELSE damping
        /\ engine' = [engine EXCEPT !.force = FALSE]
        /\ Released(c, FALSE) /\ UNCHANGED left
     \/ /\ ~ Blocked /\ ~ Undue
        /\ calls' = Planned(c, IF Desired = NoRoute THEN "remove" ELSE "replace",
                            [route |-> Desired, listed |-> Current])
        /\ UNCHANGED <<engine, holder, damping, torn, left>>
     \/ /\ IF Blocked THEN UNCHANGED left ELSE Spend("fail")
        /\ Released(c, TRUE) /\ UNCHANGED <<damping, engine>>
  /\ UNCHANGED <<uses, stored, disk, kernel, selected, control>>

\* RouteReplace, whatever the table holds by now. A link that has gone makes
\* it fail; one that was made anew since is another one to the kernel, which
\* is among the calls that fail.
Replace(c) ==
  LET route == calls[c].plan.route IN
  /\ Stage(c) = "babel" /\ calls[c].at = "replace"
  /\ \/ /\ route.via \subseteq links
        /\ routes' = [routes EXCEPT ![engine.settings.table] = route]
        /\ damping' = IF Cardinality(route.via) > 1 THEN [pending |-> None, cooled |-> FALSE]
                      ELSE NewDamping
        /\ engine' = [engine EXCEPT !.force = FALSE]
        /\ Released(c, FALSE) /\ UNCHANGED left
     \/ /\ IF route.via \subseteq links THEN Spend("fail") ELSE UNCHANGED left
        /\ Released(c, TRUE) /\ UNCHANGED <<routes, damping, engine>>
  /\ UNCHANGED <<uses, stored, disk, links, endpoints, selected, control>>

\* RouteDel: the kernel takes TH's route only; that it is gone is no error.
Remove(c) ==
  /\ Stage(c) = "babel" /\ calls[c].at = "remove"
  /\ damping' = NewDamping
  /\ \/ /\ routes' = [routes EXCEPT ![engine.settings.table] = Cleared(@)]
        /\ engine' = [engine EXCEPT !.force = FALSE]
        /\ Released(c, FALSE) /\ UNCHANGED left
     \/ Released(c, TRUE) /\ Spend("fail") /\ UNCHANGED <<routes, engine>>
  /\ UNCHANGED <<uses, stored, disk, links, endpoints, selected, control>>

\* mptcpControl.mu, which is held from the listing of the endpoints to the
\* last change of them.
Unlocked == \A d \in Callers : calls[d].at \notin {"synced", "listed"}

\* upsertTunnel and removeTunnel of mptcpControl.
MptcpSet(c) ==
  LET t == calls[c].of rec == calls[c].rec IN
  /\ Stage(c) = "mptcpset" /\ Unlocked
  /\ control' = [control EXCEPT !.tunnels[t] =
       IF rec.on /\ calls[c].op # "delete" THEN rec ELSE Withdrawn(t, rec)]
  /\ calls' = Advanced(c, FALSE)
  /\ UNCHANGED <<uses, stored, disk, kernel, babel, torn, left>>

\* reconcileAll: the records are the authority.
MptcpAll(c) ==
  /\ Stage(c) = "mptcpall" /\ calls[c].at = "wait" /\ Unlocked
  /\ control' = [control EXCEPT !.tunnels = stored]
  /\ calls' = At(c, "synced")
  /\ UNCHANGED <<uses, stored, disk, kernel, babel, torn, left>>

MptcpRefresh(c) ==
  /\ Stage(c) = "mptcprefresh" /\ Unlocked
  /\ control' = [control EXCEPT !.enabled = calls[c].rec.mptcp]
  /\ calls' = Advanced(c, FALSE)
  /\ UNCHANGED <<uses, stored, disk, kernel, babel, torn, left>>

\* reconcileLocked lists the endpoints; a failure is no error of the call.
MptcpList(c) ==
  /\ \/ Stage(c) = "mptcp" /\ calls[c].at = "wait" /\ Unlocked
     \/ Stage(c) = "mptcpall" /\ calls[c].at = "synced"
  /\ \/ /\ calls' = Planned(c, "listed", [add |-> DesiredEndpoints \ endpoints, del |-> Orphans])
        /\ UNCHANGED left
     \/ calls' = Advanced(c, FALSE) /\ Spend("fail")
  /\ UNCHANGED <<uses, stored, disk, kernel, babel, control, torn>>

\* One endpoint after the other is added, then deleted; one that fails is
\* left out.
MptcpAdd(c) ==
  /\ Stage(c) \in {"mptcp", "mptcpall"} /\ calls[c].at = "listed"
  /\ \E e \in calls[c].plan.add :
       /\ calls' = [calls EXCEPT ![c].plan.add = @ \ {e}]
       /\ \/ endpoints' = endpoints \cup {e} /\ UNCHANGED left
          \/ Spend("fail") /\ UNCHANGED endpoints
  /\ UNCHANGED <<uses, stored, disk, links, routes, babel, control, torn>>

MptcpDelete(c) ==
  /\ Stage(c) \in {"mptcp", "mptcpall"} /\ calls[c].at = "listed" /\ calls[c].plan.add = {}
  /\ \E e \in calls[c].plan.del :
       /\ calls' = [calls EXCEPT ![c].plan.del = @ \ {e}]
       /\ \/ endpoints' = endpoints \ {e} /\ UNCHANGED left
          \/ Spend("fail") /\ UNCHANGED endpoints
  /\ UNCHANGED <<uses, stored, disk, links, routes, babel, control, torn>>

MptcpDone(c) ==
  /\ Stage(c) \in {"mptcp", "mptcpall"} /\ calls[c].at = "listed"
  /\ calls[c].plan.add = {} /\ calls[c].plan.del = {}
  /\ calls' = Advanced(c, FALSE)
  /\ UNCHANGED <<uses, stored, disk, kernel, babel, control, torn, left>>

\* saveSettings; Daemon.tla has its steps.
Save(c) ==
  /\ Stage(c) = "save"
  /\ \/ disk' = calls[c].rec /\ calls' = Advanced(c, FALSE) /\ UNCHANGED left
     \/ UNCHANGED disk /\ calls' = Failed(c) /\ Spend("fail")
  /\ UNCHANGED <<uses, stored, kernel, babel, control, torn>>

\* A record is deleted when nothing of it is left in the kernel.
End(c) ==
  /\ calls[c].op # "none" /\ calls[c].do = <<>>
  /\ calls' = [calls EXCEPT ![c] = Idle]
  /\ stored' = IF calls[c].op = "delete" /\ ~ calls[c].err
               THEN [stored EXCEPT ![calls[c].of] = None] ELSE stored
  /\ UNCHANGED <<uses, disk, kernel, babel, control, torn, left>>

-----------------------------------------------------------------------------
(* The environment.                                                        *)

Vanish(t) ==
  /\ t \in links /\ Spend("vanish")
  /\ Vanished(t)
  /\ UNCHANGED <<uses, stored, disk, endpoints, holder, selected, damping, control, calls, torn>>

\* The speaker selects other routes, or other weights.
Learn ==
  /\ engine.speaker # None /\ Spend("learn")
  /\ \E via \in SUBSET Live, w \in Weights :
       selected' = Selection(via, w) /\ selected' # selected
  /\ UNCHANGED <<uses, stored, disk, kernel, engine, holder, damping, control, calls, torn>>

\* A neighbour behind a lost link is given up.
Expire ==
  /\ ~ (selected.via \subseteq Live)
  /\ selected' = Selection(selected.via \cap Live, selected.w)
  /\ UNCHANGED <<uses, stored, disk, kernel, engine, holder, damping, control, calls, torn, left>>

\* babelWeightCooldown passes.
Cool ==
  /\ ~ damping.cooled
  /\ damping' = [damping EXCEPT !.cooled = TRUE]
  /\ UNCHANGED <<uses, stored, disk, kernel, engine, holder, selected, control, calls, torn, left>>

\* An operator's own route, and own endpoint.
UserAdds ==
  /\ Spend("user")
  /\ \/ /\ uses.babel /\ Current = NoRoute
        /\ routes' = [routes EXCEPT ![engine.settings.table] = Route("user", {}, 0)]
        /\ UNCHANGED endpoints
     \/ uses.mptcp /\ endpoints' = endpoints \cup {<<None, None>>} /\ UNCHANGED routes
  /\ UNCHANGED <<uses, stored, disk, links, babel, control, calls, torn>>

UserRemoves ==
  /\ \E n \in Tables : routes[n].owner = "user" /\ routes' = [routes EXCEPT ![n] = NoRoute]
  /\ UNCHANGED <<uses, stored, disk, links, endpoints, babel, control, calls, torn, left>>

Crash ==
  /\ Spend("crash")
  /\ engine' = NewEngine(disk) /\ holder' = None
  /\ selected' = NoSelection /\ damping' = NewDamping
  /\ control' = [enabled |-> disk.mptcp, tunnels |-> NoTunnels]
  /\ calls' = [c \in Callers |-> Idle]
  /\ torn' = (torn \/ calls["writer"].op \in {"settings", "restore"})
  /\ UNCHANGED <<uses, stored, disk, kernel>>

-----------------------------------------------------------------------------
\* The daemon starts with the records and the settings it finds; nothing of
\* them is in the kernel.
Init ==
  /\ \E profile \in Profiles :
       /\ uses = profile.uses /\ left = profile.left
       /\ stored = [t \in Tunnels |->
            IF t \in profile.first
            THEN [v |-> CHOOSE v \in Versions : TRUE, on |-> TRUE, opt |-> "follow"] ELSE None]
  /\ disk = Start
  /\ links = {} /\ routes = [n \in Tables |-> NoRoute] /\ endpoints = {}
  /\ engine = NewEngine(disk) /\ holder = None
  /\ selected = NoSelection /\ damping = NewDamping
  /\ control = [enabled |-> disk.mptcp, tunnels |-> NoTunnels]
  /\ calls = [c \in Callers |-> Idle]
  /\ torn = FALSE

Step(c) ==
  \/ Link(c) \/ Unlink(c) \/ BabelSet(c) \/ Refresh(c) \/ Move(c)
  \/ Decide(c) \/ Build(c) \/ Clear(c) \/ Compare(c) \/ Replace(c) \/ Remove(c)
  \/ MptcpSet(c) \/ MptcpAll(c) \/ MptcpRefresh(c)
  \/ MptcpList(c) \/ MptcpAdd(c) \/ MptcpDelete(c) \/ MptcpDone(c) \/ Save(c) \/ End(c)

Environment ==
  \/ \E t \in Tunnels : Vanish(t)
  \/ Learn \/ Expire \/ Cool \/ UserAdds \/ UserRemoves \/ Crash

Next ==
  \/ \E t \in Tunnels : StartReconcile(t) \/ StartWrite(t) \/ StartDelete(t)
  \/ StartGlobal \/ StartSettings
  \/ \E c \in Callers : Step(c)
  \/ Environment

Spec == Init /\ [][Next]_vars

\* The ticker reconciles every tunnel and the engines again and again, calls
\* go on, mutexes are fair, the speaker gives up what is gone, time passes,
\* and an operator takes the route away that is in the way.
Fairness ==
  /\ \A t \in Tunnels : SF_vars(StartReconcile(t))
  /\ SF_vars(StartGlobal)
  /\ \A c \in Callers : SF_vars(Step(c))
  /\ WF_vars(Expire) /\ WF_vars(Cool) /\ WF_vars(UserRemoves)

FairSpec == Spec /\ Fairness

-----------------------------------------------------------------------------
(* Safety.                                                                 *)

\* When no call has still to reconcile Babel, the speaker that runs was built
\* from the tunnels that take part, although they may change while an older
\* speaker is closed without the mutex (reconcileSerialized).
SpeakerMatches ==
  engine.speaker # None /\ (\A c \in Callers : "babel" \notin {calls[c].do[i] : i \in DOMAIN calls[c].do})
    => engine.speaker.tunnels = engine.tunnels

\* A route that came after the table was listed is replaced (installRoutes
\* does not look again).
LateReplace(n) ==
  /\ n = engine.settings.table
  /\ \E c \in Callers :
       /\ Stage(c) = "babel" /\ calls[c].at = "replace"
       /\ calls[c].plan.listed.owner # "user" /\ routes'[n] = calls[c].plan.route

\* What an operator has added stays (babelRouteDiff, ownedLocked), with one
\* exception: a route that the operator adds between the listing of the table
\* and RouteReplace. Calls that fail, crashes and changes of the table do not
\* endanger it.
ForeignStays ==
  [][/\ \A n \in Tables : routes[n].owner = "user" =>
          \/ routes'[n].owner = "user"
          \/ routes'[n] = NoRoute /\ calls' = calls
          \/ LateReplace(n)
     /\ <<None, None>> \in endpoints => <<None, None>> \in endpoints']_vars

\* What the end of installRoutes aims at: the selection when it was read.
Aim(c) == IF calls[c].at = "routes" THEN Desired ELSE calls[c].plan.route

\* A change of the weighting policy is in the kernel when the call that
\* changed it has gone through Babel without an error, whatever the damping
\* of measured weights would say to it (forceWeightRefresh), unless an
\* earlier change was torn.
PolicyInstalled ==
  [][\A c \in Callers :
       /\ Compare(c) \/ Replace(c) \/ Remove(c)
       /\ calls' = Advanced(c, FALSE)
       /\ calls[c].op = "settings" /\ calls[c].rec.policy # disk.policy /\ ~ torn
       => routes'[engine.settings.table].w = Aim(c).w]_vars

-----------------------------------------------------------------------------
(* Liveness.                                                               *)

\* The kernel's route follows the selection, through failures, lost links and
\* damped weights.
RoutesFollow ==
  <>[](uses.babel /\ engine.speaker # None => Current = Desired)

\* An enabled tunnel's address has an endpoint if the tunnel opts in, or
\* follows the switch while MPTCP is enabled, and no other one's has
\* (mptcpControl.reconcileAll).
EndpointsFollow ==
  <>[](uses.mptcp =>
        \A t \in Tunnels : stored[t] # None =>
          (<<t, stored[t].v>> \in endpoints <=> Takes(stored[t])))
=============================================================================
