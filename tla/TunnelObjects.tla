---------------------------- MODULE TunnelObjects ----------------------------
(***************************************************************************)
(* What the backend of each kind of tunnel does to the kernel and to       *)
(* strongSwan (backend/linux: link.go, wireguard.go, xfrm_static.go,       *)
(* vici.go, srv6.go, amnezia.go).  Backend.Apply goes through the stages   *)
(* of its kind; a stage lists what there is, plans its calls and makes     *)
(* them one by one.  Each call may fail, and the daemon may crash after    *)
(* each.  The gate of ControlPlane.tla lets reconciliations run in         *)
(* parallel and a mutation only alone.                                     *)
(*                                                                         *)
(* An object is named by its part, the tunnel or the key it belongs to,    *)
(* and a key; its tag says whose it is: "th", "user", "none" for a link    *)
(* without alias, "bare" for a route of protocol 242 without a realm.  The *)
(* kernel keeps no realm on IPv6 routes (equalSRv6ManagedRoute).           *)
(* Abstracted: a prefix is <<family, name>>, "0" being the default route;  *)
(* GRE and VXLAN are one kind, WireGuard and AmneziaWG are one; the six    *)
(* policies are two.                                                       *)
(***************************************************************************)
EXTENDS Integers, Sequences, FiniteSets, SequencesExt

CONSTANTS
  Tunnels,
  Offers,     \* Offers[kind]: the specifications a record of that kind may have
  Feeds,      \* what an SRv6 feed may hold: sets of prefixes
  Urls,
  Profiles,   \* bounds: the kind of each tunnel, the first records, what may happen how often
  None

Kinds == {"link", "wg", "xfrm", "ike", "srv6"}
Counted == {"write", "fail", "vanish", "user", "feed", "crash"}

Records(k) == [s : Offers[k], on : BOOLEAN]

ASSUME TunnelObjectsAssumption ==
  /\ DOMAIN Offers = Kinds /\ None \notin Kinds
  /\ \A k \in Kinds : None \notin Records(k) /\ \A s \in Offers[k] : s.secret \notin Tunnels
  /\ \A s \in Offers["wg"] : \A i, j \in DOMAIN s.peers :
       /\ i \in Nat /\ (i # j => s.peers[i].key # s.peers[j].key)
       /\ \A p \in s.peers[i].ips : p[1] \in {"v4", "v6"}
  /\ Profiles \subseteq [kind : [Tunnels -> Kinds \cup {None}], on : SUBSET Tunnels, left : [Counted -> Nat]]
  /\ \A p \in Profiles : \A t \in p.on : p.kind[t] \in Kinds

VARIABLES
  kind,     \* the kind of each tunnel
  stored,   \* the records
  kernel,   \* the objects of the kernel and of strongSwan
  cache,    \* the SRv6 feeds on disk
  job,      \* job[t]: the call of the backend for t that is under way
  left      \* what is left of the budget

vars == <<kind, stored, kernel, cache, job, left>>

Spend(what) == left[what] > 0 /\ left' = [left EXCEPT ![what] = @ - 1]

-----------------------------------------------------------------------------
(* Objects.                                                                *)

Obj(part, of, key, tag, val) == [part |-> part, of |-> of, key |-> key, tag |-> tag, val |-> val]
SameKey(o, p) == o.part = p.part /\ o.of = p.of /\ o.key = p.key
Keys(objects) == {o.key : o \in objects}

Mine(t, part) == {o \in kernel : o.part = part /\ o.of = t /\ o.tag # "user"}
LinkOf(t) == {o \in kernel : o.part = "link" /\ o.of = t}
Linked(t) == \E o \in LinkOf(t) : o.tag = "th"
Strange(t) == \E o \in LinkOf(t) : o.tag # "th"

\* routeOwnedByRecord compares realms, which IPv6 routes lose.
RealmKept(prefix) == IF prefix[1] = "v4" THEN "th" ELSE "bare"
SIDPrefix(s) == <<"v6", s.sid>>

LinkObject(t, s) == Obj("link", t, <<>>, "th", s.imm)
LinkLocal(t) == Obj("addr", t, <<"link-local">>, "th", "")
AddressesOf(t, s) == {Obj("addr", t, <<a>>, "th", "") : a \in {s.addr, "up"}} \cup {LinkLocal(t)}
PeersOf(t, s) == {Obj("peer", t, <<p.key>>, "th", "") : p \in ToSet(s.peers)}
AllowedOf(t, p) == {Obj("allowed", t, ip, "th", p.key) : ip \in p.ips}
AllowedIPs(s) == UNION {p.ips : p \in ToSet(s.peers)}
DeviceOf(t, s) == PeersOf(t, s) \cup UNION {AllowedOf(t, p) : p \in ToSet(s.peers)}
Device(t) == Mine(t, "peer") \cup Mine(t, "allowed")

\* buildSRv6Routes: a route to the SID only when some prefix goes there.
DirectRoute(t, s) == Obj("route", t, SIDPrefix(s), "bare", "direct")
SRv6Routes(t, s, feed) ==
  {Obj("route", t, p, RealmKept(p), s.sid) : p \in feed} \cup {o \in {DirectRoute(t, s)} : feed # {}}
\* reconcileWireGuardRoutes.
WireGuardRoutes(t, s) == {Obj("route", t, p, RealmKept(p), "") : p \in IF s.route THEN AllowedIPs(s) ELSE {}}
RoutesOf(t, s, feed) == IF kind[t] = "srv6" THEN SRv6Routes(t, s, feed) ELSE WireGuardRoutes(t, s)

\* desiredSRv6Families; the families with a default route.
Families(t, s, feed) ==
  {p[1] : p \in {q \in Keys(RoutesOf(t, s, feed)) : kind[t] = "srv6" \/ q[2] = "0"}}
RulesOf(t, s, feed) == {Obj("rule", t, <<f>>, "th", "") : f \in Families(t, s, feed)}

Directions == {"in", "out"}
StatesOf(t, s) == {Obj("state", t, <<d, s.ends>>, "th", s.secret) : d \in Directions}
PoliciesOf(t, s) == {Obj("policy", t, <<d>>, "th", s.ends) : d \in Directions}
ConnectionOf(t, s) == Obj("conn", t, <<>>, "th", s.secret)
SharedOf(t, s) == Obj("shared", t, <<>>, "th", s.secret)
\* privateKeyID: two records with the same private key share the object.
PrivateKeyOf(s) == Obj("key", s.secret, <<>>, "th", "")
SAOf(t) == Obj("sa", t, <<>>, "th", "")

-----------------------------------------------------------------------------
(* Jobs.                                                                   *)

ApplyGRE == <<"link", "addr", "observe">>
ApplyWireGuard == <<"link", "peer", "addr", "route", "rule4", "rule6", "observe">>
ApplyStaticXFRM == <<"preflight", "link", "addr", "state", "policy", "observe">>
ApplyIKEv2 == <<"preflight", "link", "addr", "secret", "conn", "sa", "observe">>
ApplySRv6 == <<"feed", "route", "rule4", "rule6", "observe">>
Applying == [link |-> ApplyGRE, wg |-> ApplyWireGuard, xfrm |-> ApplyStaticXFRM,
             ike |-> ApplyIKEv2, srv6 |-> ApplySRv6]

RemoveOwnedLink == <<"unlink">>
RemoveWireGuard == <<"unroute", "unrule", "unlink">>
RemoveStaticXFRM == <<"unstate", "unlink">>
RemoveIKEv2 == <<"unsa", "unconn", "unshared", "unkey", "unlink">>
RemoveSRv6 == <<"unroute", "unrule">>
Removing == [link |-> RemoveOwnedLink, wg |-> RemoveWireGuard, xfrm |-> RemoveStaticXFRM,
             ike |-> RemoveIKEv2, srv6 |-> RemoveSRv6]

\* alone: nothing but this job has changed an object since it started.
Idle == [op |-> "none", do |-> <<>>, plan |-> {}, rec |-> None, next |-> None,
         feed |-> {}, err |-> FALSE, alone |-> TRUE]
Busy(t) == job[t].op # "none"
Stage(t) == IF job[t].do = <<>> THEN "end" ELSE Head(job[t].do)
Spec(t) == job[t].rec.s

\* A WireGuard record without route_allowed_ips: its routes and its rules are removed.
Unrouted(t) == kind[t] = "wg" /\ job[t].op = "apply" /\ ~ Spec(t).route

\* errors.Join: a removal goes on to its next stage, except that of SRv6, and
\* rules are removed even if routes could not be.
GoesOn(t) ==
  IF job[t].op = "apply" THEN Stage(t) = "route" /\ Unrouted(t) ELSE kind[t] # "srv6" /\ job[t].do # <<>>
Failed(t) ==
  [job EXCEPT ![t] = [@ EXCEPT !.err = TRUE, !.plan = {}, !.do = IF GoesOn(t) THEN Tail(job[t].do) ELSE <<>>]]
Disturbed(jobs, t) == [u \in Tunnels |-> IF u = t THEN jobs[u] ELSE [jobs[u] EXCEPT !.alone = FALSE]]

-----------------------------------------------------------------------------
(* Plans: the calls of a stage, each with its turn.                        *)

Calls(turn, do, objects) == {[turn |-> turn, do |-> do, o |-> o] : o \in objects}
Due(t) == {c \in job[t].plan : \A d \in job[t].plan : c.turn <= d.turn}

\* ensureLink.
LinkPlan(t) ==
  LET want == LinkObject(t, Spec(t)) IN
  IF want \in kernel THEN {}
  ELSE Calls(1, "del", LinkOf(t)) \cup Calls(2, "add", {want}) \cup Calls(3, "alias", {want})

\* reconcileAddresses, reconcileWireGuardRules.
DiffPlan(want, have) == Calls(1, "del", have \ want) \cup Calls(2, "add", want \ have)

\* Fault: only routes that are still wanted are looked at.
RoutePlanWanted(want, have) ==
  LET same == {o \in have \cap want : o.tag = "th"}
      gone == {o \in have \ same : o.key \in Keys(want)}
  IN Calls(1, "del", gone) \cup Calls(2, "add", want \ same)

\* reconcileManagedRoutes: a bare route never equals the one that is wanted.
RoutePlan(want, have) ==
  LET same == {o \in have \cap want : o.tag = "th"}
      gone == {o \in have \ same : o.tag = "th" \/ o.key \in Keys(want)}
  IN Calls(1, "del", gone) \cup Calls(2, "add", want \ same)

\* reconcileSRv6Routes.
SRv6Plan(want, have) ==
  Calls(1, "replace", want \ have)
  \cup Calls(2, "del", {o \in have : o.tag = "th" /\ o.key \notin Keys(want)})

\* Fault: a state with another key stands in the way of its successor.
ReplacePlanAdds(want, have) ==
  Calls(1, "add", want \ have) \cup Calls(2, "del", {o \in have : o.key \notin Keys(want)})

\* reconcileStaticStates, reconcileStaticPolicies.
ReplacePlan(want, have) ==
  Calls(1, "del", {o \in have \ want : o.key \in Keys(want)}) \cup Calls(1, "add", want \ have)
  \cup Calls(2, "del", {o \in have : o.key \notin Keys(want)})

\* applyIKEv2: loadShared; unloadShared and ensurePrivateKey.
LoadedKey(s) == IF s.auth = "psk" THEN {} ELSE kernel \cap {PrivateKeyOf(s)}
SecretPlan(t, s) ==
  IF s.auth = "psk" THEN Calls(1, "put", {SharedOf(t, s)})
  ELSE Calls(1, "del", Mine(t, "shared")) \cup Calls(2, "put", {PrivateKeyOf(s)})

\* cachedSRv6RemovalRoutes; the claims of the record in removeManagedRoutes.
Cached(t, s) == IF cache[t][s.url] = None THEN {} ELSE cache[t][s.url]
Known(t, s) == IF kind[t] = "srv6" THEN {SIDPrefix(s)} \cup Cached(t, s) ELSE Keys(WireGuardRoutes(t, s))
RoutesToRemove(t, s) ==
  {o \in Mine(t, "route") : o.tag = "th" \/ o.key \in Known(t, s)}

\* Fault: nothing is looked for without a link.
RulesToRemoveLinked(t) == IF Linked(t) THEN Mine(t, "rule") ELSE {}

\* removeWireGuardRoutes, removeSRv6.
RulesToRemove(t) == IF Strange(t) THEN {} ELSE Mine(t, "rule")

OfFamily(f, rules) == {o \in rules : o.key = <<f>>}
RulePlan(t, f) ==
  DiffPlan(OfFamily(f, RulesOf(t, Spec(t), job[t].feed)), OfFamily(f, Mine(t, "rule")))
Plan(t) ==
  LET s == Spec(t)
      routes == RoutesOf(t, s, job[t].feed)
      Everything(turn, part) == Calls(turn, "del", Mine(t, part))
  IN
  CASE Stage(t) = "link"     -> LinkPlan(t)
    [] Stage(t) = "addr"     -> DiffPlan(AddressesOf(t, s), Mine(t, "addr"))
    [] Stage(t) = "peer"     -> IF Device(t) = DeviceOf(t, s) THEN {} ELSE Calls(1, "configure", LinkOf(t))
    [] Stage(t) = "route"    -> IF kind[t] = "srv6" THEN SRv6Plan(routes, Mine(t, "route"))
                                ELSE RoutePlan(routes, Mine(t, "route"))
    [] Stage(t) = "rule4"    -> RulePlan(t, "v4")
    [] Stage(t) = "rule6"    -> RulePlan(t, "v6")
    [] Stage(t) = "state"    -> ReplacePlan(StatesOf(t, s), Mine(t, "state"))
    [] Stage(t) = "policy"   -> ReplacePlan(PoliciesOf(t, s), Mine(t, "policy"))
    [] Stage(t) = "secret"   -> SecretPlan(t, s)
    [] Stage(t) = "conn"     -> Calls(1, "put", {ConnectionOf(t, s)})
    [] Stage(t) = "sa"       -> IF Mine(t, "sa") = {} THEN Calls(1, "put", {SAOf(t)}) ELSE {}
    [] Stage(t) = "unroute"  -> Calls(1, "del", RoutesToRemove(t, s))
    [] Stage(t) = "unrule"   -> Calls(1, "del", RulesToRemove(t))
    [] Stage(t) = "unstate"  -> Everything(1, "state") \cup Everything(2, "policy")
    [] Stage(t) = "unsa"     -> Everything(1, "sa")
    [] Stage(t) = "unconn"   -> Everything(1, "conn")
    [] Stage(t) = "unshared" -> Everything(1, "shared")
    [] Stage(t) = "unkey"    -> Calls(1, "del", LoadedKey(s))
    [] Stage(t) = "unlink"   -> Calls(1, "del", LinkOf(t))
    [] OTHER -> {}

-----------------------------------------------------------------------------
(* ErrOwnershipConflict, and what the observation at the end reports.      *)

\* Fault: a route of a user is taken for one that may be replaced.
ForeignIgnored(t, objects) == FALSE

\* assertManagedRouteClaimsAvailable, and its like for SRv6 and for rules.
Foreign(t, objects) == \E o \in kernel, p \in objects : SameKey(o, p) /\ o.tag = "user"

\* preflightXFRMOwnership.
Unaccounted(t) ==
  ~ Linked(t) /\ \E o \in kernel : o.part \in {"state", "policy", "sa"} /\ o.of = t

\* The route to the SID is left behind when a feed runs dry: without a realm
\* reconcileSRv6Routes does not know it, but with nothing wanted the
\* observation takes the routes of a removal for its own.
LeftBehind(t, s, feed) ==
  kind[t] = "srv6" /\ feed = {} /\ \E o \in Mine(t, "route") : o.key = SIDPrefix(s)

ObservedSRv6(t, s, feed) ==
  /\ SRv6Routes(t, s, feed) \subseteq kernel /\ ~ Foreign(t, SRv6Routes(t, s, feed))
  /\ \A o \in Mine(t, "route") : o.tag = "th" => o \in SRv6Routes(t, s, feed)
  /\ ~ LeftBehind(t, s, feed)
  /\ {o \in kernel : o.part = "rule" /\ o.of = t} = RulesOf(t, s, feed)
ObservedStaticXFRM(t) == Cardinality(Mine(t, "state")) = 2 /\ Cardinality(Mine(t, "policy")) = 2
ObservedIKEv2(t) == Mine(t, "conn") # {}
ObservedLink(t) == Linked(t) /\ LinkLocal(t) \in kernel
Observed(t, s, feed) ==
  /\ kind[t] = "srv6" => ObservedSRv6(t, s, feed)
  /\ kind[t] # "srv6" => ObservedLink(t)
  /\ kind[t] = "xfrm" => ObservedStaticXFRM(t)
  /\ kind[t] = "ike" => ObservedIKEv2(t)

Refused(t) ==
  LET s == Spec(t) IN
  CASE Stage(t) \in {"link", "addr", "unlink", "unstate", "unroute"} -> Strange(t)
    [] Stage(t) = "preflight" -> Strange(t) \/ Unaccounted(t)
    [] Stage(t) = "route" -> Foreign(t, RoutesOf(t, s, job[t].feed)) \/ Strange(t)
    [] Stage(t) = "rule4" -> ~ Unrouted(t) /\ Foreign(t, {Obj("rule", t, <<"v4">>, "th", "")})
    [] Stage(t) = "rule6" -> ~ Unrouted(t) /\ Foreign(t, {Obj("rule", t, <<"v6">>, "th", "")})
    [] Stage(t) = "observe" -> ~ Observed(t, s, job[t].feed)
    [] OTHER -> FALSE

-----------------------------------------------------------------------------
(* A job goes through its stages.                                          *)

\* fetchOrReadSRv6Feed: the cache, or a download, or the cache for want of one.
Fetched(old, feed) == IF old \in {None, feed} THEN UNCHANGED left ELSE Spend("feed")

\* loadSRv6Feeds.
Load(t) ==
  LET url == Spec(t).url IN
  /\ Stage(t) = "feed"
  /\ \E feed \in Feeds :
       /\ Fetched(cache[t][url], feed)
       /\ cache' = [cache EXCEPT ![t][url] = feed]
       /\ job' = [job EXCEPT ![t] = [@ EXCEPT !.feed = feed, !.do = Tail(job[t].do)]]
  /\ UNCHANGED <<kind, stored, kernel>>

List(t) ==
  LET plan == Plan(t) IN
  /\ Stage(t) \notin {"feed", "end"} /\ job[t].plan = {}
  /\ job' = IF Refused(t) THEN Failed(t)
            ELSE [job EXCEPT ![t] = [@ EXCEPT !.plan = plan, !.do = IF plan = {} THEN Tail(job[t].do) ELSE job[t].do]]
  /\ UNCHANGED <<kind, stored, kernel, cache, left>>

\* The kernel drops what hangs on a link.
Hanging(t) ==
  {o \in kernel : o.of = t /\ (\/ o.part \in {"link", "addr", "peer", "allowed"}
                               \/ o.part = "route" /\ kind[t] # "srv6" /\ o.tag # "user")}
Deleted(o) == kernel \ (IF o.part = "link" THEN Hanging(o.of) ELSE {o})
Put(o) == {p \in kernel : ~ SameKey(p, o)} \cup {o}

\* wireGuardPeerConfigurationMatches.
PeerMatches(t, p) ==
  /\ Obj("peer", t, <<p.key>>, "th", "") \in kernel
  /\ {o \in Mine(t, "allowed") : o.val = p.key} = AllowedOf(t, p)

\* buildWireGuardConfiguration, buildAmneziaPeerChanges: the peers that
\* differ, in the order of the record, and the removal of the others.
Differing(t, s) == {i \in DOMAIN s.peers : ~ PeerMatches(t, s.peers[i])}

\* ReplaceAllowedIPs; the kernel moves an allowed IP to the peer that claims
\* it last.
TakenBy(o, p) == o.part = "allowed" /\ (o.val = p.key \/ o.key \in p.ips)
Claimed(t, s) ==
  LET differ == Differing(t, s) IN
  {o \in Device(t) : \A i \in differ : ~ TakenBy(o, s.peers[i])}
  \cup {Obj("peer", t, <<s.peers[i].key>>, "th", "") : i \in differ}
  \cup UNION {{o \in AllowedOf(t, s.peers[i]) : \A j \in differ : j > i => ~ TakenBy(o, s.peers[j])} : i \in differ}
Configured(t, s) ==
  LET known == {p.key : p \in ToSet(s.peers)}
  IN {o \in Claimed(t, s) : (o.part = "allowed" /\ o.val \in known) \/ o \in PeersOf(t, s)}

\* EEXIST, which is no error for addresses and rules; ENODEV.
Impossible(t, c) ==
  \/ /\ c.do = "add" /\ c.o.part \in {"link", "route", "state", "policy"}
     /\ \E o \in kernel : SameKey(o, c.o)
  \/ c.do \in {"add", "alias"} /\ LinkOf(t) = {} /\ kind[t] # "srv6" /\ c.o.part \in {"addr", "route"}
  \/ c.do \in {"alias", "configure"} /\ LinkOf(t) = {}

Effect(t, c) ==
  CASE c.do = "add" /\ c.o.part = "link" ->
         kernel' \in {kernel \cup {[c.o EXCEPT !.tag = tag]} : tag \in {"th", "none"}}
    [] c.do = "add" /\ c.o.part # "link" -> kernel' = kernel \cup {c.o}
    [] c.do \in {"put", "replace"} -> kernel' = Put(c.o)
    [] c.do = "alias" -> kernel' = (kernel \ LinkOf(t)) \cup {[o EXCEPT !.tag = "th"] : o \in LinkOf(t)}
    [] c.do = "configure" -> kernel' = (kernel \ Device(t)) \cup Configured(t, Spec(t))
    [] c.do = "del" -> kernel' = Deleted(c.o)

Made(t, c) ==
  LET rest == job[t].plan \ {c} IN
  [job EXCEPT ![t] = [@ EXCEPT !.plan = rest, !.do = IF rest = {} THEN Tail(job[t].do) ELSE job[t].do]]

Do(t) ==
  /\ \E c \in Due(t) :
       /\ c.do = "del" \/ \A d \in Due(t) : d.do = "del" => ~ SameKey(d.o, c.o)
       /\ IF Impossible(t, c) THEN job' = Failed(t) /\ UNCHANGED kernel
          ELSE Effect(t, c) /\ job' = Disturbed(Made(t, c), t)
  /\ UNCHANGED <<kind, stored, cache, left>>

\* A list, a download, a lookup of the underlay or of a name, or a call fails.
Fail(t) ==
  /\ job[t].do # <<>> /\ Spend("fail")
  /\ job' = Failed(t)
  /\ UNCHANGED <<kind, stored, kernel, cache>>

-----------------------------------------------------------------------------
(* Jobs begin and end.                                                     *)

Quiet == \A t \in Tunnels : ~ Busy(t)
Mutating == \E t \in Tunnels : job[t].op = "mutate"
Start(t, op, do, rec, next) ==
  job' = [job EXCEPT ![t] = [Idle EXCEPT !.op = op, !.do = do, !.rec = rec, !.next = next]]

\* Reconciler.reconcileRecord.
StartReconcile(t) ==
  /\ ~ Mutating /\ ~ Busy(t) /\ stored[t] # None
  /\ IF stored[t].on THEN Start(t, "apply", Applying[kind[t]], stored[t], stored[t])
     ELSE Start(t, "remove", Removing[kind[t]], stored[t], stored[t])
  /\ UNCHANGED <<kind, stored, kernel, cache, left>>

\* Fault: no record needs a cleanup before it changes.
CleanupNever(t) == FALSE

\* requiresCleanupBeforeUpdate; a change of a route table is left out.
Cleanup(t) == kind[t] = "ike"

\* Manager.Create, Update, SetEnabled.
Write(t) ==
  /\ Quiet /\ kind[t] # None /\ Spend("write")
  /\ \E rec \in Records(kind[t]) :
       /\ rec # stored[t]
       /\ IF stored[t] # None /\ Cleanup(t) /\ rec.s # stored[t].s
          THEN Start(t, "mutate", Removing[kind[t]], stored[t], rec) /\ UNCHANGED stored
          ELSE stored' = [stored EXCEPT ![t] = rec] /\ UNCHANGED job
  /\ UNCHANGED <<kind, kernel, cache>>

\* Reconciler.Delete.
Delete(t) ==
  /\ Quiet /\ stored[t] # None /\ Spend("write")
  /\ Start(t, "mutate", Removing[kind[t]], stored[t], None)
  /\ UNCHANGED <<kind, stored, kernel, cache>>

\* A mutation is stored when nothing is left of the record it replaces.
End(t) ==
  /\ Busy(t) /\ Stage(t) = "end"
  /\ job' = [job EXCEPT ![t] = Idle]
  /\ stored' = IF job[t].op = "mutate" /\ ~ job[t].err THEN [stored EXCEPT ![t] = job[t].next] ELSE stored
  /\ UNCHANGED <<kind, kernel, cache, left>>

Crash ==
  /\ ~ Quiet /\ Spend("crash")
  /\ job' = [t \in Tunnels |-> Idle]
  /\ UNCHANGED <<kind, stored, kernel, cache>>

-----------------------------------------------------------------------------
(* The environment.                                                        *)

AllDisturbed == [t \in Tunnels |-> [job[t] EXCEPT !.alone = FALSE]]

\* An object goes away: deleted by hand, expired, lost with strongSwan.
Vanish ==
  /\ \E o \in kernel : o.tag # "user" /\ kernel' = Deleted(o)
  /\ Spend("vanish") /\ job' = AllDisturbed
  /\ UNCHANGED <<kind, stored, cache>>

\* A user makes an object where TH wants one of its own.
UserObjects(t) ==
  LET links == {o \in {Obj("link", t, <<>>, "user", "")} : ~ Busy(t) /\ LinkOf(t) = {}}
      routes == IF stored[t] = None THEN {} ELSE
        {Obj("route", t, p, "user", "") : p \in Keys(RoutesOf(t, stored[t].s, Cached(t, stored[t].s)))}
      rules == {Obj("rule", t, <<"v4">>, "user", "")}
  IN (IF kind[t] = "srv6" THEN {} ELSE links) \cup (IF kind[t] \in {"wg", "srv6"} THEN routes \cup rules ELSE {})
User(t) ==
  /\ kind[t] # None /\ Spend("user")
  /\ \E o \in UserObjects(t) :
       /\ ~ \E p \in kernel : p.part # "rule" /\ SameKey(p, o)
       /\ kernel' = kernel \cup {o}
  /\ job' = AllDisturbed
  /\ UNCHANGED <<kind, stored, cache>>

-----------------------------------------------------------------------------
Init ==
  \E p \in Profiles :
    /\ kind = p.kind /\ left = p.left
    /\ stored \in [Tunnels -> {None} \cup [s : UNION {Offers[k] : k \in Kinds}, on : {TRUE}]]
    /\ \A t \in Tunnels : IF t \in p.on THEN stored[t] # None /\ stored[t].s \in Offers[kind[t]]
                          ELSE stored[t] = None
    /\ kernel = {}
    /\ cache = [t \in Tunnels |-> [u \in Urls |-> None]]
    /\ job = [t \in Tunnels |-> Idle]

Work(t) == Load(t) \/ List(t) \/ Do(t) \/ End(t)
Next ==
  \/ \E t \in Tunnels : StartReconcile(t) \/ Load(t) \/ List(t) \/ Do(t) \/ Fail(t) \/ End(t)
  \/ \E t \in Tunnels : Write(t) \/ Delete(t) \/ User(t)
  \/ Crash \/ Vanish

\* The reconciler's ticker comes back to every record, and each call ends.
FairSpec ==
  /\ Init /\ [][Next]_vars
  /\ \A t \in Tunnels : WF_vars(Work(t)) /\ WF_vars(StartReconcile(t))

-----------------------------------------------------------------------------
(* Properties.                                                             *)

\* What TH has made for a tunnel, but for IPv6 routes that it cannot tell.
Traces(t) == {o \in kernel : o.of = t /\ o.tag \in {"th", "none"}}
Disjoint(s) ==
  \A i, j \in DOMAIN s.peers : i # j => s.peers[i].ips \cap s.peers[j].ips = {}
Secret(t, s) == IF s.auth = "psk" THEN SharedOf(t, s) ELSE PrivateKeyOf(s)

\* All that the record asks for is there, and nothing else that TH can tell.
Exact(t, s, feed) ==
  LET routes == RoutesOf(t, s, feed)
      Just(part, objects) == Mine(t, part) = objects
  IN
  /\ kind[t] # "srv6" => Just("link", {LinkObject(t, s)}) /\ Just("addr", AddressesOf(t, s))
  /\ kind[t] = "wg" /\ Disjoint(s) => Device(t) = DeviceOf(t, s)
  /\ kind[t] \in {"wg", "srv6"} =>
       /\ routes \subseteq kernel /\ \A o \in Mine(t, "route") \ routes : o.tag = "bare"
       /\ Just("rule", RulesOf(t, s, feed))
  /\ kind[t] = "xfrm" => Just("state", StatesOf(t, s)) /\ Just("policy", PoliciesOf(t, s))
  /\ kind[t] = "ike" =>
       /\ Just("conn", {ConnectionOf(t, s)}) /\ Secret(t, s) \in kernel
       /\ s.auth # "psk" => Just("shared", {})

\* A reconciliation that reports success, and that nobody disturbed, has made
\* the kernel what the record says (Backend.Apply; "Diff exact addresses,
\* routes, rules, peers, XFRM states, and policies", docs/ROADMAP.md:134).
ReadyIsExact ==
  \A t \in Tunnels :
    job[t].op = "apply" /\ job[t].do = <<>> /\ ~ job[t].err /\ job[t].alone =>
      Exact(t, Spec(t), job[t].feed)

\* A removal that reports success has left nothing that TH can tell
\* (Backend.Remove, "A disabled record remains stored but has no managed
\* kernel/VICI objects", docs/ROADMAP.md:136).
NothingLeft ==
  \A t \in Tunnels :
    job[t].op \in {"remove", "mutate"} /\ job[t].do = <<>> /\ ~ job[t].err /\ job[t].alone =>
      Traces(t) = {} /\ (kind[t] = "ike" /\ Spec(t).auth # "psk" => PrivateKeyOf(Spec(t)) \notin kernel)

\* No object outlives the record that could remove it: "ownership information
\* is never discarded while runtime objects may remain" (docs/ROADMAP.md:137;
\* Reconciler.Delete and requiresCleanupBeforeUpdate).
Accounted ==
  \A o \in kernel :
    /\ o.part # "key" /\ o.tag \in {"th", "none"} => stored[o.of] # None
    /\ o.part = "key" =>
         \E t \in Tunnels : /\ stored[t] # None /\ kind[t] = "ike"
                            /\ stored[t].s.auth # "psk" /\ PrivateKeyOf(stored[t].s) = o

\* TH takes no object of a user away.  The one exception is a route that
\* appears after reconcileSRv6Routes listed the table: RouteReplace takes it.
LateReplace(o) ==
  \E t \in Tunnels : ~ job[t].alone /\ \E c \in Due(t) : c.do = "replace" /\ SameKey(c.o, o)
ForeignStays ==
  [][\A o \in kernel \ kernel' : o.tag = "user" => LateReplace(o)]_vars

\* Who stands in the way of a record for good: somebody else's object, a link
\* that was left without its alias, states whose link is gone, and a record
\* that is off or gone with the same private key.
Rival(t, s) ==
  \E u \in Tunnels \ {t} : /\ stored[u] # None /\ ~ stored[u].on /\ kind[u] = "ike"
                           /\ s.auth # "psk" /\ stored[u].s.auth # "psk" /\ stored[u].s.secret = s.secret
Hindered(t, s) ==
  \/ Strange(t)
  \/ kind[t] \in {"xfrm", "ike"} /\ Unaccounted(t)
  \/ Foreign(t, RoutesOf(t, s, Cached(t, s))) \/ \E o \in kernel : o.of = t /\ o.tag = "user"
  \/ kind[t] = "ike" /\ Rival(t, s)
\* WireGuard's IPv6 routes are removed and added by every reconciliation.
Flapping(s) == \E p \in AllowedIPs(s) : p[1] = "v6" /\ s.route
\* What the record asks for is there, and the observation reports no drift,
\* unless a feed has left its route to the SID behind.
InPlace(t, s, feed) == Exact(t, s, feed) /\ (Observed(t, s, feed) \/ LeftBehind(t, s, feed))
Settled(t) ==
  IF stored[t] = None \/ ~ stored[t].on THEN Traces(t) = {} \/ Strange(t)
  ELSE \/ Hindered(t, stored[t].s) \/ InPlace(t, stored[t].s, Cached(t, stored[t].s))
       \/ kind[t] = "wg" /\ Flapping(stored[t].s)

\* Once nothing disturbs the tunnels any more, each has what its record asks
\* for and is observed without drift, or is in somebody's way (the ticker of
\* Reconciler.Run, "Apply failures remain visible as conditions and are
\* retried", docs/ROADMAP.md:110).  Not covered is an SRv6 tunnel whose feed
\* runs dry: its objects are right, but every Apply reports drift from then on.
Settles == \A t \in Tunnels : <>[]Settled(t)
=============================================================================
