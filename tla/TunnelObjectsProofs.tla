------------------------- MODULE TunnelObjectsProofs -------------------------
(***************************************************************************)
(* Proofs about TunnelObjects for any tunnels, records, feeds and budgets: *)
(* an application that succeeds has made exactly what the record asks for, *)
(* a removal that succeeds has left nothing, nothing of the user's is      *)
(* taken away, and no object outlives the record that could remove it.     *)
(***************************************************************************)
EXTENDS TunnelObjects, TLAPS

Ops == {"none", "apply", "remove", "mutate"}
Tags == {"th", "user", "none", "bare"}
PartsOf ==
  [link |-> {"link", "addr"}, wg |-> {"link", "addr", "peer", "allowed", "route", "rule"},
   xfrm |-> {"link", "addr", "state", "policy"}, ike |-> {"link", "addr", "shared", "conn", "sa"},
   srv6 |-> {"route", "rule"}]

IsObject(o) == DOMAIN o = {"part", "of", "key", "tag", "val"}
IsJob(j) ==
  /\ DOMAIN j = {"op", "do", "plan", "rec", "next", "feed", "err", "alone"}
  /\ j.op \in Ops /\ j.err \in BOOLEAN /\ j.alone \in BOOLEAN

TypeInv ==
  /\ kind \in [Tunnels -> Kinds \cup {None}]
  /\ stored = [t \in Tunnels |-> stored[t]] /\ job = [t \in Tunnels |-> job[t]]
  /\ \A t \in Tunnels :
       /\ stored[t] # None => kind[t] \in Kinds /\ stored[t] \in Records(kind[t])
       /\ IsJob(job[t])
       /\ job[t].op = "mutate" /\ job[t].next # None =>
            kind[t] \in Kinds /\ job[t].next \in Records(kind[t])

-----------------------------------------------------------------------------
(* Objects.                                                                *)

\* There is one link and one connection of a tunnel, and one rule of each family.
Keyed(k, o) ==
  /\ o.part \in {"link", "conn"} => o.key = <<>>
  /\ o.part = "rule" /\ k = "wg" => o.key \in {<<"v4">>, <<"v6">>}

\* Objects are their tunnel's, but for keys; a user's may stand in for a link, a
\* route or a rule.
ObjectAt(o) ==
  /\ IsObject(o) /\ o.tag \in Tags
  /\ o.part # "key" =>
       o.of \in Tunnels /\ kind[o.of] \in Kinds /\ o.part \in PartsOf[kind[o.of]]
  /\ o.part = "key" => o.of \notin Tunnels /\ o.tag = "th"
  /\ o.tag = "user" => o.part \in {"link", "route", "rule"}
  /\ o.tag = "none" => o.part = "link"
  /\ o.tag = "bare" => o.part = "route"
  /\ o.part # "key" => Keyed(kind[o.of], o)

\* What hangs on a link goes with it.
Hangs(o) ==
  \/ o.part \in {"addr", "peer", "allowed"}
  \/ o.part = "route" /\ kind[o.of] # "srv6" /\ o.tag # "user"

ObjectInv ==
  /\ \A o \in kernel : ObjectAt(o)
  /\ \A o, p \in kernel : o.part = "link" /\ p.part = "link" /\ o.of = p.of => o = p
  /\ \A o \in kernel : Hangs(o) => LinkOf(o.of) # {}

\* An object that a record can remove, and a key that one has loaded.
AccountInv ==
  /\ \A o \in kernel : o.part # "key" /\ o.tag \in {"th", "none"} => stored[o.of] # None
  /\ \A o \in kernel : o.part = "key" =>
       \E t \in Tunnels : /\ stored[t] # None /\ kind[t] = "ike"
                          /\ stored[t].s.auth # "psk" /\ PrivateKeyOf(stored[t].s) = o

-----------------------------------------------------------------------------
(* Jobs.                                                                   *)

EndOf(d, w) == \E n \in 0..Len(w) : d = SubSeq(w, n + 1, Len(w))
Whole(t) == IF job[t].op = "apply" THEN Applying[kind[t]] ELSE Removing[kind[t]]

\* An object that a record has made.
Own(t, o) ==
  /\ IsObject(o) /\ o.tag \in {"th", "bare"}
  /\ o.tag = "bare" => o.part = "route"
  /\ o.part = "link" => o.tag = "th"
  /\ Keyed(kind[t], o)
  /\ \/ o.of = t /\ o.part \in PartsOf[kind[t]]
     \/ kind[t] = "ike" /\ Spec(t).auth # "psk" /\ o = PrivateKeyOf(Spec(t))

\* A call takes nothing of the user's, and makes only what the record has.
CallFits(t, c) ==
  /\ IsObject(c.o)
  /\ \/ c.do = "del" /\ c.o.tag # "user" /\ (c.o.part = "key" \/ c.o.of = t)
     \/ /\ job[t].op = "apply" /\ Own(t, c.o)
        /\ \/ c.do = "add" /\ c.o.part \in {"link", "addr", "route", "rule", "state", "policy"}
           \/ c.do = "put" /\ c.o.part \in {"key", "shared", "conn", "sa"}
           \/ c.do = "replace" /\ c.o.part = "route" /\ kind[t] = "srv6"
     \/ job[t].op = "apply" /\ c.do = "alias" /\ c.o.part = "link" /\ kind[t] # "srv6"
     \/ job[t].op = "apply" /\ c.do = "configure" /\ kind[t] = "wg"

\* A job about a link has found none of the user's, and one that nobody has
\* disturbed replaces no route of the user's.
Careful(t) ==
  /\ (\E c \in job[t].plan : c.o.part = "link") => \A o \in LinkOf(t) : o.tag # "user"
  /\ job[t].alone => \A c \in job[t].plan, o \in kernel :
                        c.do = "replace" /\ SameKey(o, c.o) => o.tag # "user"

JobAt(t) ==
  /\ ~ Busy(t) => job[t].do = <<>> /\ job[t].plan = {}
  /\ Busy(t) => stored[t] # None /\ job[t].rec = stored[t] /\ EndOf(job[t].do, Whole(t))
  /\ job[t].plan # {} => job[t].do # <<>>
  /\ \A c \in job[t].plan : CallFits(t, c)
  /\ Careful(t)
  /\ Stage(t) \in {"feed", "preflight", "observe"} => job[t].plan = {}
  /\ Stage(t) = "link" => \A c \in job[t].plan : c.o.part = "link"
  /\ Stage(t) = "peer" => \A o \in LinkOf(t) : o.tag # "user"
  /\ job[t].op = "mutate" => \A u \in Tunnels \ {t} : ~ Busy(u)

JobInv == \A t \in Tunnels : JobAt(t)

-----------------------------------------------------------------------------
(* Removals.                                                               *)

Removes(t) == job[t].op \in {"remove", "mutate"} /\ ~ job[t].err

\* A stage of the removal that is over.
Over(t, stage) ==
  \E i \in 1..Len(Removing[kind[t]]) - Len(job[t].do) : Removing[kind[t]][i] = stage

Targets(t, stage) ==
  CASE stage = "unroute" -> {o \in Mine(t, "route") : o.tag = "th"}
    [] stage = "unrule" -> Mine(t, "rule")
    [] stage = "unstate" -> Mine(t, "state") \cup Mine(t, "policy")
    [] stage = "unsa" -> Mine(t, "sa")
    [] stage = "unconn" -> Mine(t, "conn")
    [] stage = "unshared" -> Mine(t, "shared")
    [] stage = "unkey" -> IF job[t].alone \/ job[t].op = "mutate" THEN LoadedKey(Spec(t)) ELSE {}
    [] stage = "unlink" -> LinkOf(t)

Stages == {"unroute", "unrule", "unstate", "unsa", "unconn", "unshared", "unkey", "unlink"}

\* Of a stage that is over nothing is left, and the calls of the one under way are
\* about all that is.
RemovalAt(t) ==
  Removes(t) =>
    /\ \A stage \in Stages : Over(t, stage) => Targets(t, stage) = {}
    /\ job[t].plan # {} =>
         /\ \A c \in job[t].plan : c.do = "del"
         /\ \A o \in Targets(t, Stage(t)) : \E c \in job[t].plan : c.o = o
    /\ Over(t, "unroute") \/ (job[t].plan # {} /\ Stage(t) = "unroute") => ~ Strange(t) \/ kind[t] = "srv6"

RemovalInv == \A t \in Tunnels : RemovalAt(t)

-----------------------------------------------------------------------------
(* Applications.                                                           *)

Applies(t) == job[t].op = "apply" /\ ~ job[t].err /\ job[t].alone

\* A stage of the application that is over.
Done(t, stage) ==
  \E i \in 1..Len(Applying[kind[t]]) - Len(job[t].do) : Applying[kind[t]][i] = stage

\* The stages that compare what a record asks for with what there is.
Ways == {"addr", "route", "rule4", "rule6", "state", "policy", "secret", "conn"}

Wanted(t, stage) ==
  LET s == Spec(t)
      feed == job[t].feed
  IN
  CASE stage = "addr"   -> AddressesOf(t, s)
    [] stage = "route"  -> RoutesOf(t, s, feed)
    [] stage = "rule4"  -> OfFamily("v4", RulesOf(t, s, feed))
    [] stage = "rule6"  -> OfFamily("v6", RulesOf(t, s, feed))
    [] stage = "state"  -> StatesOf(t, s)
    [] stage = "policy" -> PoliciesOf(t, s)
    [] stage = "secret" -> {Secret(t, s)}
    [] stage = "conn"   -> {ConnectionOf(t, s)}

\* The objects that a stage is about.
Concerns(stage, o) ==
  CASE stage = "link"   -> o.part = "link"
    [] stage = "peer"   -> o.part \in {"peer", "allowed"}
    [] stage = "rule4"  -> o.part = "rule" /\ o.key = <<"v4">>
    [] stage = "rule6"  -> o.part = "rule" /\ o.key = <<"v6">>
    [] stage = "secret" -> o.part \in {"shared", "key"}
    [] OTHER            -> o.part = stage

Unwanted(t, stage, o) ==
  /\ o.of = t /\ o.tag # "user" /\ Concerns(stage, o) /\ o \notin Wanted(t, stage)
  /\ stage = "route" => o.tag # "bare"
  /\ stage = "secret" => Spec(t).auth # "psk" /\ o.part = "shared"

\* What a stage has achieved when it is over.
Achieving == Ways \cup {"link", "peer"}
Goal(t, stage) ==
  /\ stage = "link" => LinkOf(t) = {LinkObject(t, Spec(t))}
  /\ stage = "peer" /\ Disjoint(Spec(t)) => Device(t) = DeviceOf(t, Spec(t))
  /\ stage \in Ways => Wanted(t, stage) \subseteq kernel /\ \A o \in kernel : ~ Unwanted(t, stage, o)

\* What is missing will be made, and what is too much deleted; what is deleted
\* to be replaced is deleted first.
WayLeads(t, stage, plan) ==
  /\ \A w \in Wanted(t, stage) : w \in kernel \/ \E c \in plan : c.do \in {"add", "put"} /\ c.o = w
  /\ \A o \in kernel : Unwanted(t, stage, o) =>
       \E c \in plan : (c.do = "del" /\ c.o = o) \/ (c.do = "put" /\ SameKey(c.o, o))
  /\ \A d \in plan : d.do = "del" /\ d.o \in Wanted(t, stage) =>
       \E c \in plan : c.do = "add" /\ c.o = d.o /\ d.turn < c.turn
  /\ \A c \in plan :
       /\ c.do \in {"add", "put", "del"} /\ Concerns(stage, c.o) /\ c.turn \in {1, 2}
       /\ c.do # "del" => c.o \in Wanted(t, stage)
       /\ c.do = "put" => Wanted(t, stage) = {c.o}

\* The old link goes, the new one comes, and its alias comes last.
LinkLeads(t, plan) ==
  LET want == LinkObject(t, Spec(t))
      Pending(do) == \E c \in plan : c.do = do
  IN
  /\ \A c \in plan : \/ c.do = "del" /\ c.turn = 1
                     \/ c.do = "add" /\ c.turn = 2 /\ c.o = want
                     \/ c.do = "alias" /\ c.turn = 3
  /\ plan = {} => LinkOf(t) = {want}
  /\ plan # {} => Pending("alias")
  /\ plan # {} /\ ~ Pending("add") => ~ Pending("del") /\ \A o \in LinkOf(t) : [o EXCEPT !.tag = "th"] = want

PeerLeads(t, plan) ==
  /\ \A c \in plan : c.do = "configure"
  /\ plan = {} /\ Disjoint(Spec(t)) => Device(t) = DeviceOf(t, Spec(t))

Leads(t, stage, plan) ==
  /\ stage = "link" => LinkLeads(t, plan)
  /\ stage = "peer" => PeerLeads(t, plan)
  /\ stage \in Ways => WayLeads(t, stage, plan)
  /\ stage = "sa" => \A c \in plan : c.do = "put" /\ c.o.part = "sa"

\* Nobody has disturbed what the stages that are over have achieved, and the
\* calls that are left of the one under way lead to its goal.  An SRv6 tunnel
\* is compared with its record at the end.
ApplyAt(t) ==
  Applies(t) =>
    /\ kind[t] # "srv6" =>
         /\ \A stage \in Achieving : Done(t, stage) => Goal(t, stage)
         /\ job[t].plan # {} => Leads(t, Stage(t), job[t].plan)
    /\ kind[t] = "srv6" /\ job[t].do = <<>> => ObservedSRv6(t, Spec(t), job[t].feed)

ApplyInv == \A t \in Tunnels : ApplyAt(t)

IInv == TypeInv /\ ObjectInv /\ AccountInv /\ JobInv /\ RemovalInv /\ ApplyInv

-----------------------------------------------------------------------------
(* How a job changes: it starts, its plan changes, it has its feed, it     *)
(* fails, or another job or the environment disturbs it.                   *)

Started(op, do, rec, next) == [Idle EXCEPT !.op = op, !.do = do, !.rec = rec, !.next = next]
Planned(j, plan, do) == [j EXCEPT !.plan = plan, !.do = do]
Fed(j, feed, do) == [j EXCEPT !.feed = feed, !.do = do]
Broken(j, do) == [j EXCEPT !.err = TRUE, !.plan = {}, !.do = do]
Shaken(j) == [j EXCEPT !.alone = FALSE]

LEMMA StartedFields ==
  ASSUME NEW op \in Ops, NEW do, NEW rec, NEW next
  PROVE  LET k == Started(op, do, rec, next) IN
         /\ k.op = op /\ k.do = do /\ k.plan = {} /\ k.rec = rec /\ k.next = next
         /\ ~ k.err /\ k.alone /\ IsJob(k)
BY DEF Started, Idle, IsJob

LEMMA PlannedFields ==
  ASSUME NEW j, IsJob(j), NEW plan, NEW do
  PROVE  LET k == Planned(j, plan, do) IN
         /\ k.op = j.op /\ k.do = do /\ k.plan = plan /\ k.rec = j.rec /\ k.next = j.next
         /\ k.feed = j.feed /\ k.err = j.err /\ k.alone = j.alone /\ IsJob(k)
BY DEF Planned, IsJob

LEMMA FedFields ==
  ASSUME NEW j, IsJob(j), NEW feed, NEW do
  PROVE  LET k == Fed(j, feed, do) IN
         /\ k.op = j.op /\ k.do = do /\ k.plan = j.plan /\ k.rec = j.rec /\ k.next = j.next
         /\ k.feed = feed /\ k.err = j.err /\ k.alone = j.alone /\ IsJob(k)
BY DEF Fed, IsJob

LEMMA BrokenFields ==
  ASSUME NEW j, IsJob(j), NEW do
  PROVE  LET k == Broken(j, do) IN
         /\ k.op = j.op /\ k.do = do /\ k.plan = {} /\ k.rec = j.rec /\ k.next = j.next
         /\ k.feed = j.feed /\ k.err /\ k.alone = j.alone /\ IsJob(k)
BY DEF Broken, IsJob

LEMMA ShakenFields ==
  ASSUME NEW j, IsJob(j)
  PROVE  LET k == Shaken(j) IN
         /\ k.op = j.op /\ k.do = j.do /\ k.plan = j.plan /\ k.rec = j.rec /\ k.next = j.next
         /\ k.feed = j.feed /\ k.err = j.err /\ ~ k.alone /\ IsJob(k)
BY DEF Shaken, IsJob

LEMMA IdleFields ==
  /\ Idle.op = "none" /\ Idle.do = <<>> /\ Idle.plan = {} /\ ~ Idle.err
  /\ IsJob(Idle)
BY DEF Idle, IsJob, Ops

LEMMA FailedJob ==
  ASSUME TypeInv, NEW t \in Tunnels
  PROVE  \E do : /\ do \in {<<>>, Tail(job[t].do)}
                 /\ job[t].do = <<>> => do = <<>>
                 /\ job[t].op = "apply" => do = <<>> \/ Stage(t) = "route"
                 /\ Failed(t) = [job EXCEPT ![t] = Broken(job[t], do)]
<1> DEFINE do == IF GoesOn(t) THEN Tail(job[t].do) ELSE <<>>
<1>1. Failed(t) = [job EXCEPT ![t] = Broken(job[t], do)]
      BY DEF Failed, Broken
<1>2. job[t].do = <<>> => do = <<>>
      BY DEF GoesOn, Stage
<1>3. job[t].op = "apply" => do = <<>> \/ Stage(t) = "route"
      BY DEF GoesOn
<1> QED BY <1>1, <1>2, <1>3

LEMMA ListJob ==
  ASSUME TypeInv, NEW t \in Tunnels, List(t), ~ Refused(t)
  PROVE  job' = [job EXCEPT ![t] = Planned(job[t], Plan(t), IF Plan(t) = {} THEN Tail(job[t].do) ELSE job[t].do)]
BY DEF List, Planned

LEMMA LoadJob ==
  ASSUME TypeInv, NEW t \in Tunnels, Load(t)
  PROVE  \E feed : job' = [job EXCEPT ![t] = Fed(job[t], feed, Tail(job[t].do))]
BY DEF Load, Fed

LEMMA MadeJob ==
  ASSUME TypeInv, NEW t \in Tunnels, NEW c, job' = Disturbed(Made(t, c), t)
  PROVE  /\ job' = [u \in Tunnels |-> job'[u]]
         /\ LET rest == job[t].plan \ {c} IN
            job'[t] = Planned(job[t], rest, IF rest = {} THEN Tail(job[t].do) ELSE job[t].do)
         /\ \A u \in Tunnels \ {t} : job'[u] = Shaken(job[u])
<1> DEFINE rest == job[t].plan \ {c}
           planned == Planned(job[t], rest, IF rest = {} THEN Tail(job[t].do) ELSE job[t].do)
<1>1. Made(t, c) = [job EXCEPT ![t] = planned]
      BY DEF Made, Planned
<1> HIDE DEF planned
<1>2. \A u \in Tunnels : Made(t, c)[u] = IF u = t THEN planned ELSE job[u]
      BY <1>1 DEF TypeInv
<1>3. \A u \in Tunnels : job'[u] = IF u = t THEN planned ELSE Shaken(job[u])
      BY <1>2 DEF Disturbed, Shaken
<1>4. job' = [u \in Tunnels |-> job'[u]]
      BY DEF Disturbed
<1> QED BY <1>3, <1>4 DEF planned

LEMMA ShakenJobs ==
  ASSUME TypeInv, job' = AllDisturbed
  PROVE  job' = [u \in Tunnels |-> Shaken(job[u])]
BY DEF AllDisturbed, Shaken

-----------------------------------------------------------------------------
(* Types.                                                                  *)

LEMMA NoneNoRecord == \A k \in Kinds : None \notin Records(k)
BY TunnelObjectsAssumption

\* A mutation goes on with a record of the kind.
NextFits(t) ==
  job[t].op = "mutate" /\ job[t].next # None =>
    kind[t] \in Kinds /\ job[t].next \in Records(kind[t])

LEMMA TypeStep == TypeInv /\ [Next]_vars => TypeInv'
<1> SUFFICES ASSUME TypeInv, [Next]_vars PROVE TypeInv'
    OBVIOUS
<1> DEFINE JobsFit == job' = [u \in Tunnels |-> job'[u]]
                      /\ \A u \in Tunnels : IsJob(job'[u]) /\ (kind' = kind => NextFits(u)')
<1>0. ASSUME kind' = kind, stored' = stored, JobsFit
      PROVE  TypeInv'
  <2>1. \A k : Records(k)' = Records(k)
        BY DEF Records
  <2>2. \A t \in Tunnels : stored[t] # None => kind[t] \in Kinds /\ stored[t] \in Records(kind[t])
        BY DEF TypeInv
  <2>3. \A t \in Tunnels : IsJob(job'[t]) /\ NextFits(t)'
        BY <1>0
  <2>4. \A t \in Tunnels : stored'[t] # None => kind'[t] \in Kinds /\ stored'[t] \in Records(kind[t])
        BY <1>0, <2>2
  <2>5. kind' \in [Tunnels -> Kinds \cup {None}] /\ stored' = [t \in Tunnels |-> stored'[t]]
        BY <1>0 DEF TypeInv
  <2>6. job' = [t \in Tunnels |-> job'[t]]
        BY <1>0
  <2> QED BY <1>0, <2>1, <2>3, <2>4, <2>5, <2>6 DEF TypeInv, NextFits
<1>a. ASSUME NEW t \in Tunnels, NEW rec, rec # None => kind[t] \in Kinds /\ rec \in Records(kind[t]),
              kind' = kind, stored' = [stored EXCEPT ![t] = rec], JobsFit
       PROVE  TypeInv'
  <2>1. \A k : Records(k)' = Records(k)
        BY DEF Records
  <2>2. \A u \in Tunnels : stored[u] # None => kind[u] \in Kinds /\ stored[u] \in Records(kind[u])
        BY DEF TypeInv
  <2>3. \A u \in Tunnels : IsJob(job'[u]) /\ NextFits(u)'
        BY <1>a
  <2>4. \A u \in Tunnels : stored'[u] = IF u = t THEN rec ELSE stored[u]
        BY <1>a DEF TypeInv
  <2>5. \A u \in Tunnels : stored'[u] # None => kind'[u] \in Kinds /\ stored'[u] \in Records(kind[u])
        BY <1>a, <2>2, <2>4
  <2>6. kind' \in [Tunnels -> Kinds \cup {None}] /\ stored' = [u \in Tunnels |-> stored'[u]]
        BY <1>a DEF TypeInv
  <2>7. job' = [u \in Tunnels |-> job'[u]]
        BY <1>a
  <2> QED BY <1>a, <2>1, <2>3, <2>5, <2>6, <2>7 DEF TypeInv, NextFits
<1> HIDE DEF JobsFit
<1>1. ASSUME NEW t \in Tunnels, NEW op \in {"apply", "remove", "mutate"}, NEW do, NEW rec, NEW next,
             op = "mutate" /\ next # None => kind[t] \in Kinds /\ next \in Records(kind[t]),
             Start(t, op, do, rec, next)
      PROVE  JobsFit
  <2>1. job' = [job EXCEPT ![t] = Started(op, do, rec, next)]
        BY <1>1 DEF Start, Started
  <2>2. /\ IsJob(Started(op, do, rec, next))
        /\ Started(op, do, rec, next).op = op /\ Started(op, do, rec, next).next = next
        BY StartedFields DEF Ops
  <2> QED BY <1>1, <2>1, <2>2 DEF JobsFit, TypeInv, NextFits, Records
<1>2. ASSUME NEW t \in Tunnels, NEW j, job' = [job EXCEPT ![t] = j],
             IsJob(j), j.op = job[t].op, j.next = job[t].next
      PROVE  JobsFit
      BY <1>2 DEF JobsFit, TypeInv, NextFits, Records
<1>3. ASSUME NEW t \in Tunnels, job' = Failed(t)
      PROVE  JobsFit
  <2>1. PICK do : Failed(t) = [job EXCEPT ![t] = Broken(job[t], do)]
        BY FailedJob
  <2>2. IsJob(Broken(job[t], do)) /\ Broken(job[t], do).op = job[t].op /\ Broken(job[t], do).next = job[t].next
        BY BrokenFields DEF TypeInv
  <2> QED BY <1>2, <1>3, <2>1, <2>2
<1>4. ASSUME NEW t \in Tunnels, StartReconcile(t)
      PROVE  TypeInv'
  <2>1. kind' = kind /\ stored' = stored
        BY <1>4 DEF StartReconcile
  <2>2. JobsFit
        BY <1>1, <1>4 DEF StartReconcile
  <2> QED BY <1>0, <2>1, <2>2
<1>5. ASSUME NEW t \in Tunnels, Load(t)
      PROVE  TypeInv'
  <2>1. PICK feed : job' = [job EXCEPT ![t] = Fed(job[t], feed, Tail(job[t].do))]
        BY <1>5, LoadJob
  <2> DEFINE j == Fed(job[t], feed, Tail(job[t].do))
  <2>2. IsJob(j) /\ j.op = job[t].op /\ j.next = job[t].next
        BY FedFields DEF TypeInv
  <2>3. kind' = kind /\ stored' = stored
        BY <1>5 DEF Load
  <2> QED BY <1>0, <1>2, <2>1, <2>2, <2>3
<1>6. ASSUME NEW t \in Tunnels, List(t)
      PROVE  TypeInv'
  <2>1. kind' = kind /\ stored' = stored
        BY <1>6 DEF List
  <2>2. CASE Refused(t)
        BY <1>0, <1>3, <1>6, <2>1, <2>2 DEF List
  <2>3. CASE ~ Refused(t)
    <3> DEFINE j == Planned(job[t], Plan(t), IF Plan(t) = {} THEN Tail(job[t].do) ELSE job[t].do)
    <3>1. job' = [job EXCEPT ![t] = j]
          BY <1>6, <2>3, ListJob
    <3>2. IsJob(j) /\ j.op = job[t].op /\ j.next = job[t].next
          BY PlannedFields DEF TypeInv
    <3> QED BY <1>0, <1>2, <2>1, <3>1, <3>2
  <2> QED BY <2>2, <2>3
<1>7. ASSUME NEW t \in Tunnels, Do(t)
      PROVE  TypeInv'
  <2>1. kind' = kind /\ stored' = stored
        BY <1>7 DEF Do
  <2>2. CASE job' = Failed(t)
        BY <1>0, <1>3, <2>1, <2>2
  <2>3. ASSUME NEW c, job' = Disturbed(Made(t, c), t)
        PROVE  TypeInv'
    <3>1. /\ job' = [u \in Tunnels |-> job'[u]]
          /\ LET rest == job[t].plan \ {c} IN
             job'[t] = Planned(job[t], rest, IF rest = {} THEN Tail(job[t].do) ELSE job[t].do)
          /\ \A u \in Tunnels \ {t} : job'[u] = Shaken(job[u])
          BY <2>3, MadeJob
    <3>2. IsJob(job'[t]) /\ job'[t].op = job[t].op /\ job'[t].next = job[t].next
          BY <3>1, PlannedFields DEF TypeInv
    <3>3. \A u \in Tunnels \ {t} : IsJob(job'[u]) /\ job'[u].op = job[u].op /\ job'[u].next = job[u].next
          BY <3>1, ShakenFields DEF TypeInv
    <3>4. JobsFit
          BY <3>1, <3>2, <3>3 DEF JobsFit, TypeInv, NextFits, Records
    <3> QED BY <1>0, <2>1, <3>4
  <2> QED BY <1>7, <2>2, <2>3 DEF Do
<1>8. ASSUME NEW t \in Tunnels, Fail(t)
      PROVE  TypeInv'
  <2>1. kind' = kind /\ stored' = stored /\ job' = Failed(t)
        BY <1>8 DEF Fail
  <2> QED BY <1>0, <1>3, <2>1
<1>9. ASSUME NEW t \in Tunnels, End(t)
      PROVE  TypeInv'
  <2>1. job' = [job EXCEPT ![t] = Idle] /\ kind' = kind
        BY <1>9 DEF End
  <2>2. IsJob(Idle) /\ Idle.op # "mutate"
        BY IdleFields
  <2>3. \/ stored' = stored
        \/ job[t].op = "mutate" /\ stored' = [stored EXCEPT ![t] = job[t].next]
        BY <1>9 DEF End
  <2>4. JobsFit
        BY <2>1, <2>2 DEF JobsFit, TypeInv, NextFits, Records
  <2>5. CASE stored' = stored
        BY <1>0, <2>1, <2>4, <2>5
  <2>6. CASE job[t].op = "mutate" /\ stored' = [stored EXCEPT ![t] = job[t].next]
        BY <1>a, <2>1, <2>4, <2>6 DEF TypeInv
  <2> QED BY <2>3, <2>5, <2>6
<1>10. ASSUME NEW t \in Tunnels, Write(t)
       PROVE  TypeInv'
  <2>1. kind[t] \in Kinds /\ kind' = kind
        BY <1>10 DEF Write, TypeInv
  <2>2. PICK rec \in Records(kind[t]) :
           \/ Start(t, "mutate", Removing[kind[t]], stored[t], rec) /\ UNCHANGED stored
           \/ stored' = [stored EXCEPT ![t] = rec] /\ UNCHANGED job
        BY <1>10 DEF Write
  <2>3. CASE stored' = [stored EXCEPT ![t] = rec] /\ UNCHANGED job
    <3>1. JobsFit
          BY <2>3 DEF JobsFit, TypeInv, NextFits, Records
    <3> QED BY <1>a, <2>1, <2>3, <3>1
  <2>4. CASE Start(t, "mutate", Removing[kind[t]], stored[t], rec) /\ UNCHANGED stored
    <3>1. JobsFit
          BY <2>1, <2>4, <1>1
    <3> QED BY <1>0, <2>1, <2>4, <3>1
  <2> QED BY <2>2, <2>3, <2>4
<1>11. ASSUME NEW t \in Tunnels, Delete(t)
       PROVE  TypeInv'
  <2>1. JobsFit
        BY <1>1, <1>11 DEF Delete
  <2> QED BY <1>0, <1>11, <2>1 DEF Delete
<1>12. CASE (\E t \in Tunnels : User(t)) \/ Vanish
  <2>1. job' = [u \in Tunnels |-> Shaken(job[u])]
        BY <1>12, ShakenJobs DEF User, Vanish
  <2>2. \A u \in Tunnels : IsJob(job'[u]) /\ job'[u].op = job[u].op /\ job'[u].next = job[u].next
        BY <2>1, ShakenFields DEF TypeInv
  <2>3. JobsFit
        BY <2>1, <2>2 DEF JobsFit, TypeInv, NextFits, Records
  <2> QED BY <1>0, <1>12, <2>3 DEF User, Vanish
<1>13. CASE Crash
  <2>1. IsJob(Idle) /\ Idle.op # "mutate"
        BY IdleFields
  <2>2. JobsFit
        BY <1>13, <2>1 DEF Crash, JobsFit, NextFits
  <2> QED BY <1>0, <1>13, <2>2 DEF Crash
<1>14. CASE UNCHANGED vars
  <2>1. JobsFit
        BY <1>14 DEF vars, JobsFit, TypeInv, NextFits, Records
  <2> QED BY <1>0, <1>14, <2>1 DEF vars
<1> QED BY <1>4, <1>5, <1>6, <1>7, <1>8, <1>9, <1>10, <1>11, <1>12, <1>13, <1>14 DEF Next

-----------------------------------------------------------------------------
(* What a call does to the kernel.                                         *)

LEMMA ObjFields ==
  ASSUME NEW part, NEW of, NEW key, NEW tag, NEW val
  PROVE  LET o == Obj(part, of, key, tag, val) IN
         o.part = part /\ o.of = of /\ o.key = key /\ o.tag = tag /\ o.val = val /\ IsObject(o)
BY DEF Obj, IsObject

Tagged(o, tag) == [o EXCEPT !.tag = tag]

LEMMA TaggedFields ==
  ASSUME NEW o, IsObject(o), NEW tag
  PROVE  LET k == Tagged(o, tag) IN
         k.part = o.part /\ k.of = o.of /\ k.key = o.key /\ k.tag = tag /\ k.val = o.val /\ IsObject(k)
BY DEF Tagged, IsObject

\* An object that the job of t may add.
MayAdd(t, o) ==
  /\ job[t].op = "apply" /\ ObjectAt(o) /\ o.tag # "user"
  /\ o.part # "key" => o.of = t
  /\ o.part = "key" => kind[t] = "ike" /\ Spec(t).auth # "psk" /\ o = PrivateKeyOf(Spec(t))

\* The record of a job is the one that is stored.
LEMMA SpecType ==
  ASSUME TypeInv, NEW t \in Tunnels, JobAt(t), Busy(t)
  PROVE  /\ kind[t] \in Kinds /\ stored[t] # None /\ Spec(t) = stored[t].s
         /\ Spec(t) \in Offers[kind[t]] /\ Spec(t).secret \notin Tunnels
<1>1. kind[t] \in Kinds /\ stored[t] # None /\ job[t].rec = stored[t] /\ stored[t] \in Records(kind[t])
      BY DEF TypeInv, JobAt
<1>2. stored[t].s \in Offers[kind[t]]
      BY <1>1 DEF Records
<1> QED BY <1>1, <1>2, TunnelObjectsAssumption DEF Spec

LEMMA OwnAdds ==
  ASSUME TypeInv, NEW t \in Tunnels, JobAt(t), job[t].op = "apply", NEW o, Own(t, o)
  PROVE  MayAdd(t, o)
<1>1. kind[t] \in Kinds /\ Spec(t).secret \notin Tunnels
      BY SpecType DEF Busy
<1>2. "key" \notin PartsOf[kind[t]]
      BY <1>1 DEF PartsOf, Kinds
<1>3. CASE o.of = t /\ o.part \in PartsOf[kind[t]]
  <2>1. o.part # "key"
        BY <1>2, <1>3
  <2>2. ObjectAt(o)
        BY <1>1, <1>3, <2>1 DEF Own, ObjectAt, Tags
  <2> QED BY <1>3, <2>1, <2>2 DEF Own, MayAdd
<1>4. CASE kind[t] = "ike" /\ Spec(t).auth # "psk" /\ o = PrivateKeyOf(Spec(t))
  <2>1. o.part = "key" /\ o.of = Spec(t).secret /\ o.tag = "th"
        BY <1>4 DEF PrivateKeyOf, Obj
  <2>2. ObjectAt(o)
        BY <1>1, <1>4, <2>1 DEF Own, ObjectAt, Tags
  <2> QED BY <1>4, <2>1, <2>2 DEF MayAdd
<1> QED BY <1>3, <1>4 DEF Own

LEMMA DeviceObjects ==
  ASSUME ObjectInv, NEW t \in Tunnels, NEW o \in Device(t)
  PROVE  o \in kernel /\ o.of = t /\ o.part \in {"peer", "allowed"} /\ o.tag # "user"
BY DEF Device, Mine

LEMMA ConfiguredObjects ==
  ASSUME ObjectInv, NEW t \in Tunnels, NEW s, NEW o \in Configured(t, s)
  PROVE  \/ o \in kernel /\ o.of = t /\ o.part \in {"peer", "allowed"} /\ o.tag # "user"
         \/ IsObject(o) /\ o.of = t /\ o.part \in {"peer", "allowed"} /\ o.tag = "th"
<1>1. o \in Claimed(t, s)
      BY DEF Configured
<1>2. CASE o \in Device(t)
      BY <1>2, DeviceObjects
<1>3. CASE \E p : o \in AllowedOf(t, p)
  <2> PICK p : o \in AllowedOf(t, p)
      BY <1>3
  <2> PICK ip : o = Obj("allowed", t, ip, "th", p.key)
      BY DEF AllowedOf
  <2> QED BY ObjFields
<1>4. CASE \E key : o = Obj("peer", t, <<key>>, "th", "")
  <2> PICK key : o = Obj("peer", t, <<key>>, "th", "")
      BY <1>4
  <2> QED BY DEF Obj, IsObject
<1> DEFINE D == Differing(t, s)
           Allowed(i) == {q \in AllowedOf(t, s.peers[i]) : \A j \in D : j > i => ~ TakenBy(q, s.peers[j])}
<1>5. \/ o \in {q \in Device(t) : \A i \in D : ~ TakenBy(q, s.peers[i])}
      \/ o \in UNION {Allowed(i) : i \in D}
      \/ o \in {Obj("peer", t, <<s.peers[i].key>>, "th", "") : i \in D}
      BY <1>1 DEF Claimed
<1> HIDE DEF D
<1>6. \/ o \in Device(t)
      \/ \E i \in D : o \in AllowedOf(t, s.peers[i])
      \/ \E i \in D : o = Obj("peer", t, <<s.peers[i].key>>, "th", "")
      BY <1>5
<1> QED BY <1>2, <1>3, <1>4, <1>6

LEMMA EffectAdds ==
  ASSUME TypeInv, ObjectInv, NEW t \in Tunnels, JobAt(t), Busy(t), NEW c \in job[t].plan,
         Effect(t, c), NEW o \in kernel', o \notin kernel
  PROVE  MayAdd(t, o)
<1>1. CallFits(t, c)
      BY DEF JobAt
<1>2. CASE c.do = "add" /\ c.o.part = "link"
  <2>1. PICK tag \in {"th", "none"} : o = Tagged(c.o, tag)
        BY <1>2 DEF Effect, Tagged
  <2>2. Own(t, c.o) /\ job[t].op = "apply"
        BY <1>1, <1>2 DEF CallFits
  <2>3. MayAdd(t, c.o)
        BY <2>2, OwnAdds
  <2>4. IsObject(c.o)
        BY <2>2 DEF Own
  <2>5. o.part = c.o.part /\ o.of = c.o.of /\ o.key = c.o.key /\ o.tag = tag /\ IsObject(o)
        BY <2>1, <2>4, TaggedFields
  <2> QED BY <1>2, <2>2, <2>3, <2>5 DEF MayAdd, ObjectAt, Keyed, Tags
<1>3. CASE c.do = "add" /\ c.o.part # "link"
  <2>1. o = c.o
        BY <1>3 DEF Effect
  <2> QED BY <1>1, <1>3, <2>1, OwnAdds DEF CallFits
<1>4. CASE c.do \in {"put", "replace"}
  <2>1. o = c.o
        BY <1>4 DEF Effect, Put
  <2> QED BY <1>1, <1>4, <2>1, OwnAdds DEF CallFits
<1>5. CASE c.do = "alias"
  <2>1. PICK p \in LinkOf(t) : o = Tagged(p, "th")
        BY <1>5 DEF Effect, Tagged
  <2>2. p \in kernel /\ p.part = "link" /\ p.of = t /\ ObjectAt(p)
        BY DEF LinkOf, ObjectInv
  <2>3. o.part = p.part /\ o.of = p.of /\ o.key = p.key /\ o.tag = "th" /\ IsObject(o)
        BY <2>1, <2>2, TaggedFields DEF ObjectAt
  <2>4. job[t].op = "apply"
        BY <1>1, <1>5 DEF CallFits
  <2> QED BY <2>2, <2>3, <2>4 DEF MayAdd, ObjectAt, Keyed, Tags
<1>6. CASE c.do = "configure"
  <2>1. o \in Configured(t, Spec(t))
        BY <1>6 DEF Effect
  <2>2. IsObject(o) /\ o.of = t /\ o.part \in {"peer", "allowed"} /\ o.tag = "th"
        BY <2>1, ConfiguredObjects
  <2>3. job[t].op = "apply" /\ kind[t] = "wg"
        BY <1>1, <1>6 DEF CallFits
  <2> QED BY <2>2, <2>3 DEF MayAdd, ObjectAt, Keyed, Tags, PartsOf, Kinds
<1>7. CASE c.do = "del"
      BY <1>7 DEF Effect, Deleted
<1> QED BY <1>1, <1>2, <1>3, <1>4, <1>5, <1>6, <1>7 DEF CallFits

LEMMA EffectRemoves ==
  ASSUME TypeInv, ObjectInv, NEW t \in Tunnels, JobAt(t), Busy(t), NEW c \in job[t].plan,
         Effect(t, c), NEW o \in kernel, o \notin kernel'
  PROVE  o.part # "key" => o.of = t
<1>1. CallFits(t, c)
      BY DEF JobAt
<1>2. CASE c.do = "add"
      BY <1>2 DEF Effect
<1>3. CASE c.do \in {"put", "replace"}
  <2>1. SameKey(o, c.o) /\ Own(t, c.o) /\ job[t].op = "apply"
        BY <1>1, <1>3 DEF Effect, Put, CallFits
  <2>2. MayAdd(t, c.o)
        BY <2>1, OwnAdds
  <2> QED BY <2>1, <2>2 DEF MayAdd, SameKey
<1>4. CASE c.do = "alias"
      BY <1>4 DEF Effect, LinkOf
<1>5. CASE c.do = "configure"
  <2>1. o \in Device(t)
        BY <1>5 DEF Effect
  <2> QED BY <2>1, DeviceObjects
<1>6. CASE c.do = "del"
  <2>1. c.o.part = "key" \/ c.o.of = t
        BY <1>1, <1>6 DEF CallFits
  <2>2. CASE c.o.part = "link"
        BY <1>6, <2>1, <2>2 DEF Effect, Deleted, Hanging
  <2>3. CASE c.o.part # "link"
        BY <1>6, <2>1, <2>3 DEF Effect, Deleted
  <2> QED BY <2>2, <2>3
<1> QED BY <1>1, <1>2, <1>3, <1>4, <1>5, <1>6 DEF CallFits

-----------------------------------------------------------------------------
(* Objects.                                                                *)

LEMMA KindKept == [Next]_vars => kind' = kind
BY DEF Next, vars, StartReconcile, Load, List, Do, Fail, End, Write, Delete, User, Crash, Vanish

LEMMA PartsKnown ==
  /\ PartsOf["link"] = {"link", "addr"}
  /\ PartsOf["wg"] = {"link", "addr", "peer", "allowed", "route", "rule"}
  /\ PartsOf["xfrm"] = {"link", "addr", "state", "policy"}
  /\ PartsOf["ike"] = {"link", "addr", "shared", "conn", "sa"}
  /\ PartsOf["srv6"] = {"route", "rule"}
BY DEF PartsOf

LEMMA UserObject ==
  ASSUME TypeInv, NEW t \in Tunnels, kind[t] # None, NEW o \in UserObjects(t)
  PROVE  /\ o.of = t /\ o.tag = "user" /\ o.part \in {"link", "route", "rule"}
         /\ o.part = "link" => ~ Busy(t) /\ LinkOf(t) = {}
         /\ ObjectAt(o)
<1>1. kind[t] \in Kinds
      BY DEF TypeInv
<1>2. CASE kind[t] # "srv6" /\ o = Obj("link", t, <<>>, "user", "") /\ ~ Busy(t) /\ LinkOf(t) = {}
  <2>1. o.part = "link" /\ o.of = t /\ o.key = <<>> /\ o.tag = "user" /\ IsObject(o)
        BY <1>2 DEF Obj, IsObject
  <2>2. "link" \in PartsOf[kind[t]]
        BY <1>1, <1>2, PartsKnown DEF Kinds
  <2>3. ObjectAt(o)
        BY <1>1, <2>1, <2>2 DEF ObjectAt, Keyed, Tags
  <2> QED BY <1>2, <2>1, <2>3
<1>3. ASSUME kind[t] \in {"wg", "srv6"}, NEW p, o = Obj("route", t, p, "user", "")
      PROVE  o.of = t /\ o.tag = "user" /\ o.part = "route" /\ ObjectAt(o)
  <2>1. o.part = "route" /\ o.of = t /\ o.tag = "user" /\ IsObject(o)
        BY <1>3 DEF Obj, IsObject
  <2>2. "route" \in PartsOf[kind[t]]
        BY <1>1, <1>3, PartsKnown DEF Kinds
  <2> QED BY <1>1, <2>1, <2>2 DEF ObjectAt, Keyed, Tags
<1>4. ASSUME kind[t] \in {"wg", "srv6"}, o = Obj("rule", t, <<"v4">>, "user", "")
      PROVE  o.of = t /\ o.tag = "user" /\ o.part = "rule" /\ ObjectAt(o)
  <2>1. o.part = "rule" /\ o.of = t /\ o.key = <<"v4">> /\ o.tag = "user" /\ IsObject(o)
        BY <1>4 DEF Obj, IsObject
  <2>2. "rule" \in PartsOf[kind[t]]
        BY <1>1, <1>4, PartsKnown DEF Kinds
  <2> QED BY <1>1, <2>1, <2>2 DEF ObjectAt, Keyed, Tags
<1>5. \/ kind[t] # "srv6" /\ o = Obj("link", t, <<>>, "user", "") /\ ~ Busy(t) /\ LinkOf(t) = {}
      \/ kind[t] \in {"wg", "srv6"} /\ \E p : o = Obj("route", t, p, "user", "")
      \/ kind[t] \in {"wg", "srv6"} /\ o = Obj("rule", t, <<"v4">>, "user", "")
      BY DEF UserObjects
<1> QED BY <1>2, <1>3, <1>4, <1>5

\* What hangs on a link goes with it.
LEMMA DeletedObjects ==
  ASSUME ObjectInv, NEW o, kernel' = Deleted(o), kind' = kind
  PROVE  ObjectInv'
<1>1. kernel' \subseteq kernel
      BY DEF Deleted
<1>2. (\A q \in kernel : ObjectAt(q))'
      BY <1>1 DEF ObjectInv, ObjectAt
<1>3. \A p, q \in kernel' : p.part = "link" /\ q.part = "link" /\ p.of = q.of => p = q
      BY <1>1 DEF ObjectInv
<1>4. ASSUME NEW q \in kernel', Hangs(q)
      PROVE  \E l \in kernel' : l.part = "link" /\ l.of = q.of
  <2>1. PICK l \in kernel : l.part = "link" /\ l.of = q.of
        BY <1>1, <1>4 DEF ObjectInv, LinkOf
  <2>2. CASE o.part # "link"
        BY <2>1, <2>2 DEF Deleted
  <2>3. CASE o.part = "link"
    <3>1. q \notin Hanging(o.of)
          BY <2>3 DEF Deleted
    <3>2. q.of # o.of
          BY <1>1, <1>4, <3>1 DEF Hanging, Hangs
    <3>3. l \in kernel'
          BY <2>1, <2>3, <3>2 DEF Deleted, Hanging
    <3> QED BY <2>1, <3>3
  <2> QED BY <2>2, <2>3
<1>5. (\A q \in kernel : Hangs(q) => LinkOf(q.of) # {})'
  <2>1. \A q : Hangs(q)' <=> Hangs(q)
        BY DEF Hangs
  <2> QED BY <1>4, <2>1 DEF LinkOf
<1> QED BY <1>2, <1>3, <1>5 DEF ObjectInv

\* Objects come that are no links, on top of one if they hang, and none that is a
\* link goes.
LEMMA MoreObjects ==
  ASSUME ObjectInv, kind' = kind,
         \A o \in kernel' \ kernel : ObjectAt(o) /\ o.part # "link" /\ (Hangs(o) => LinkOf(o.of) # {}),
         \A o \in kernel \ kernel' : o.part # "link"
  PROVE  ObjectInv'
<1>1. (\A q \in kernel : ObjectAt(q))'
      BY DEF ObjectInv, ObjectAt
<1>2. \A o : o.part = "link" => (o \in kernel <=> o \in kernel')
      OBVIOUS
<1>3. \A p, q \in kernel' : p.part = "link" /\ q.part = "link" /\ p.of = q.of => p = q
      BY <1>2 DEF ObjectInv
<1>4. (\A q \in kernel : Hangs(q) => LinkOf(q.of) # {})'
  <2>1. \A q : Hangs(q)' <=> Hangs(q)
        BY DEF Hangs
  <2>2. \A u : LinkOf(u)' = LinkOf(u)
        BY <1>2 DEF LinkOf
  <2> QED BY <2>1, <2>2 DEF ObjectInv
<1> QED BY <1>1, <1>3, <1>4 DEF ObjectInv

\* The link of t is the only object that comes or goes.
LEMMA NewLink ==
  ASSUME ObjectInv, kind' = kind, NEW t, NEW k, kernel' = (kernel \ LinkOf(t)) \cup {k},
         ObjectAt(k), k.part = "link", k.of = t
  PROVE  ObjectInv'
<1>1. (\A q \in kernel : ObjectAt(q))'
      BY DEF ObjectInv, ObjectAt
<1>2. \A p, q \in kernel' : p.part = "link" /\ q.part = "link" /\ p.of = q.of => p = q
      BY DEF ObjectInv, LinkOf
<1>3. (\A q \in kernel : Hangs(q) => LinkOf(q.of) # {})'
  <2>1. \A q : Hangs(q)' <=> Hangs(q)
        BY DEF Hangs
  <2>2. ~ Hangs(k)
        BY DEF Hangs
  <2>3. ASSUME NEW q \in kernel, Hangs(q)
        PROVE  \E l \in kernel' : l.part = "link" /\ l.of = q.of
    <3>1. PICK l \in kernel : l.part = "link" /\ l.of = q.of
          BY <2>3 DEF ObjectInv, LinkOf
    <3> QED BY <3>1 DEF LinkOf
  <2> QED BY <2>1, <2>2, <2>3 DEF LinkOf
<1> QED BY <1>1, <1>2, <1>3 DEF ObjectInv

LEMMA EffectObjects ==
  ASSUME TypeInv, ObjectInv, kind' = kind, NEW t \in Tunnels, JobAt(t), Busy(t), NEW c \in job[t].plan,
         ~ Impossible(t, c), Effect(t, c)
  PROVE  ObjectInv'
<1>1. CallFits(t, c) /\ kind[t] \in Kinds
      BY SpecType DEF JobAt
<1>2. \A o \in kernel' \ kernel : MayAdd(t, o)
      BY EffectAdds
<1>3. CASE c.do = "add" /\ c.o.part = "link"
  <2>1. PICK tag \in {"th", "none"} : kernel' = kernel \cup {Tagged(c.o, tag)}
        BY <1>3 DEF Effect, Tagged
  <2>2. MayAdd(t, c.o) /\ c.o.key = <<>> /\ IsObject(c.o)
        BY <1>1, <1>3, OwnAdds DEF CallFits, Own, Keyed
  <2>3. \A o \in kernel : ~ SameKey(o, c.o)
        BY <1>3 DEF Impossible
  <2>4. LinkOf(t) = {}
        BY <1>3, <2>2, <2>3 DEF LinkOf, SameKey, MayAdd, ObjectInv, ObjectAt, Keyed
  <2> DEFINE k == Tagged(c.o, tag)
  <2>5. k.part = "link" /\ k.of = t /\ k.key = <<>> /\ k.tag = tag /\ IsObject(k)
        BY <1>3, <2>2, TaggedFields DEF MayAdd
  <2>6. ObjectAt(k)
        BY <1>3, <2>2, <2>5 DEF MayAdd, ObjectAt, Keyed, Tags
  <2> HIDE DEF k
  <2> QED BY <2>1, <2>4, <2>5, <2>6, NewLink DEF k
<1>4. CASE c.do = "add" /\ c.o.part # "link"
  <2>1. kernel' = kernel \cup {c.o} /\ Own(t, c.o) /\ job[t].op = "apply" /\ c.o.part # "key"
        BY <1>1, <1>4 DEF Effect, CallFits
  <2>2. MayAdd(t, c.o)
        BY <2>1, OwnAdds
  <2>3. Hangs(c.o) => LinkOf(t) # {}
    <3>1. Hangs(c.o) => c.o.part \in {"addr", "route"} /\ kind[t] # "srv6"
          BY <1>1, <1>4, <2>1, <2>2 DEF Hangs, CallFits, MayAdd, ObjectAt, Kinds, PartsOf
    <3> QED BY <1>4, <3>1 DEF Impossible
  <2> QED BY <1>4, <2>1, <2>2, <2>3, MoreObjects DEF MayAdd
<1>5. CASE c.do \in {"put", "replace"}
  <2>1. /\ kernel' = {p \in kernel : ~ SameKey(p, c.o)} \cup {c.o} /\ Own(t, c.o) /\ job[t].op = "apply"
        /\ \/ c.o.part \in {"key", "shared", "conn", "sa"}
           \/ c.o.part = "route" /\ kind[t] = "srv6"
        BY <1>1, <1>5 DEF Effect, Put, CallFits
  <2>2. MayAdd(t, c.o)
        BY <2>1, OwnAdds
  <2>3. ~ Hangs(c.o)
        BY <2>1, <2>2 DEF Hangs, MayAdd
  <2> QED BY <2>1, <2>2, <2>3, MoreObjects DEF MayAdd, SameKey
<1>6. CASE c.do = "alias"
  <2>1. kernel' = (kernel \ LinkOf(t)) \cup {Tagged(o, "th") : o \in LinkOf(t)}
        BY <1>6 DEF Effect, Tagged
  <2>2. LinkOf(t) # {}
        BY <1>6 DEF Impossible
  <2>3. PICK l : LinkOf(t) = {l}
    <3>1. PICK l \in LinkOf(t) : TRUE
          BY <2>2
    <3>2. LinkOf(t) = {l}
          BY <3>1 DEF LinkOf, ObjectInv
    <3> QED BY <3>2
  <2>4. ObjectAt(l) /\ l.part = "link" /\ l.of = t
        BY <2>3 DEF LinkOf, ObjectInv
  <2> DEFINE k == Tagged(l, "th")
  <2>5. k.part = "link" /\ k.of = t /\ k.key = <<>> /\ k.tag = "th" /\ IsObject(k)
        BY <2>4, TaggedFields DEF ObjectAt, Keyed
  <2>6. ObjectAt(k)
        BY <2>4, <2>5 DEF ObjectAt, Keyed, Tags
  <2>7. kernel' = (kernel \ LinkOf(t)) \cup {k}
        BY <2>1, <2>3
  <2> HIDE DEF k
  <2> QED BY <2>5, <2>6, <2>7, NewLink
<1>7. CASE c.do = "configure"
  <2>1. kernel' = (kernel \ Device(t)) \cup Configured(t, Spec(t))
        BY <1>7 DEF Effect
  <2>2. LinkOf(t) # {}
        BY <1>7 DEF Impossible
  <2>3. \A o \in kernel' \ kernel : o.part \in {"peer", "allowed"} /\ o.of = t
        BY <2>1, ConfiguredObjects
  <2>4. \A o \in kernel \ kernel' : o.part # "link"
        BY <2>1, DeviceObjects
  <2> QED BY <1>2, <2>2, <2>3, <2>4, MoreObjects DEF MayAdd
<1>8. CASE c.do = "del"
      BY <1>8, DeletedObjects DEF Effect
<1> QED BY <1>1, <1>3, <1>4, <1>5, <1>6, <1>7, <1>8 DEF CallFits

LEMMA ObjectStep == TypeInv /\ ObjectInv /\ JobInv /\ [Next]_vars => ObjectInv'
<1> SUFFICES ASSUME TypeInv, ObjectInv, JobInv, [Next]_vars PROVE ObjectInv'
    OBVIOUS
<1>0. kind' = kind
      BY KindKept
<1>1. ASSUME kernel' = kernel
      PROVE  ObjectInv'
      BY <1>0, <1>1 DEF ObjectInv, ObjectAt, Hangs, LinkOf
<1>2. ASSUME NEW t \in Tunnels, Do(t)
      PROVE  ObjectInv'
  <2>1. PICK c \in job[t].plan : kernel' = kernel \/ (~ Impossible(t, c) /\ Effect(t, c))
        BY <1>2 DEF Do, Due
  <2>2. JobAt(t) /\ Busy(t)
        BY DEF JobInv, JobAt
  <2> QED BY <1>0, <1>1, <2>1, <2>2, EffectObjects
<1>3. ASSUME NEW t \in Tunnels, User(t)
      PROVE  ObjectInv'
  <2>1. PICK o \in UserObjects(t) : kernel' = kernel \cup {o}
        BY <1>3 DEF User
  <2>2. kind[t] # None
        BY <1>3 DEF User
  <2>3. /\ o.of = t /\ o.tag = "user" /\ o.part \in {"link", "route", "rule"}
        /\ o.part = "link" => LinkOf(t) = {}
        /\ ObjectAt(o)
        BY <2>2, UserObject
  <2>4. CASE o.part = "link"
        BY <1>0, <2>1, <2>3, <2>4, NewLink
  <2>5. CASE o.part # "link"
        BY <1>0, <2>1, <2>3, <2>5, MoreObjects DEF Hangs
  <2> QED BY <2>4, <2>5
<1>4. CASE Vanish
      BY <1>0, <1>4, DeletedObjects DEF Vanish
<1> QED BY <1>1, <1>2, <1>3, <1>4
        DEF Next, vars, StartReconcile, Load, List, Fail, End, Write, Delete, Crash

-----------------------------------------------------------------------------
(* Stages.                                                                 *)

LEMMA EndOfWhole ==
  ASSUME NEW S, NEW w \in Seq(S)
  PROVE  EndOf(w, w) /\ EndOf(<<>>, w)
<1>1. w = SubSeq(w, 0 + 1, Len(w)) /\ 0 \in 0..Len(w)
      OBVIOUS
<1>2. <<>> = SubSeq(w, Len(w) + 1, Len(w)) /\ Len(w) \in 0..Len(w)
      OBVIOUS
<1> QED BY <1>1, <1>2 DEF EndOf

\* The stages that are left begin somewhere in the whole.
LEMMA BeginsAt ==
  ASSUME NEW S, NEW w \in Seq(S), NEW d, EndOf(d, w), d # <<>>
  PROVE  \E i \in 1..Len(w) :
           /\ Len(d) = Len(w) - i + 1 /\ Head(d) = w[i]
           /\ Len(Tail(d)) = Len(w) - i /\ EndOf(Tail(d), w)
           /\ Tail(d) # <<>> => i + 1 \in 1..Len(w) /\ Head(Tail(d)) = w[i + 1]
<1>1. PICK n \in 0..Len(w) : d = SubSeq(w, n + 1, Len(w))
      BY DEF EndOf
<1>2. d \in Seq(S) /\ Len(d) = Len(w) - n
      BY <1>1
<1>3. n < Len(w)
      BY <1>1, <1>2
<1>4. PICK i \in 1..Len(w) : i = n + 1
      BY <1>3
<1>5. Head(d) = w[i] /\ Len(d) = Len(w) - i + 1
      BY <1>1, <1>2, <1>3, <1>4
<1>6. Tail(d) = SubSeq(w, i + 1, Len(w)) /\ Len(Tail(d)) = Len(w) - i
  <2>1. d = SubSeq(w, i, Len(w)) /\ i \in Nat
        BY <1>1, <1>4
  <2>2. Tail(d) = SubSeq(w, i + 1, Len(w))
        BY <1>4, <2>1
  <2>3. Len(Tail(d)) = Len(d) - 1
        BY <1>2
  <2> QED BY <1>5, <2>2, <2>3
<1>7. EndOf(Tail(d), w)
  <2>1. i \in 0..Len(w)
        BY <1>4
  <2>2. \E m \in 0..Len(w) : Tail(d) = SubSeq(w, m + 1, Len(w))
        BY <1>6, <2>1
  <2> QED BY <2>2 DEF EndOf
<1>8. Tail(d) # <<>> => i + 1 \in 1..Len(w) /\ Head(Tail(d)) = w[i + 1]
      BY <1>4, <1>6
<1> QED BY <1>4, <1>5, <1>6, <1>7, <1>8

LEMMA KindStages ==
  /\ Applying["link"] = <<"link", "addr", "observe">>
  /\ Applying["wg"] = <<"link", "peer", "addr", "route", "rule4", "rule6", "observe">>
  /\ Applying["xfrm"] = <<"preflight", "link", "addr", "state", "policy", "observe">>
  /\ Applying["ike"] = <<"preflight", "link", "addr", "secret", "conn", "sa", "observe">>
  /\ Applying["srv6"] = <<"feed", "route", "rule4", "rule6", "observe">>
  /\ Removing["link"] = <<"unlink">>
  /\ Removing["wg"] = <<"unroute", "unrule", "unlink">>
  /\ Removing["xfrm"] = <<"unstate", "unlink">>
  /\ Removing["ike"] = <<"unsa", "unconn", "unshared", "unkey", "unlink">>
  /\ Removing["srv6"] = <<"unroute", "unrule">>
BY DEF Applying, ApplyGRE, ApplyWireGuard, ApplyStaticXFRM, ApplyIKEv2, ApplySRv6,
       Removing, RemoveOwnedLink, RemoveWireGuard, RemoveStaticXFRM, RemoveIKEv2, RemoveSRv6

\* The stages of each kind.
ApplyStages(k) ==
  CASE k = "link" -> {"link", "addr", "observe"}
    [] k = "wg" -> {"link", "peer", "addr", "route", "rule4", "rule6", "observe"}
    [] k = "xfrm" -> {"preflight", "link", "addr", "state", "policy", "observe"}
    [] k = "ike" -> {"preflight", "link", "addr", "secret", "conn", "sa", "observe"}
    [] k = "srv6" -> {"feed", "route", "rule4", "rule6", "observe"}
RemoveStages(k) ==
  CASE k = "link" -> {"unlink"}
    [] k = "wg" -> {"unroute", "unrule", "unlink"}
    [] k = "xfrm" -> {"unstate", "unlink"}
    [] k = "ike" -> {"unsa", "unconn", "unshared", "unkey", "unlink"}
    [] k = "srv6" -> {"unroute", "unrule"}

LEMMA StageSets ==
  /\ ApplyStages("link") = {"link", "addr", "observe"}
  /\ ApplyStages("wg") = {"link", "peer", "addr", "route", "rule4", "rule6", "observe"}
  /\ ApplyStages("xfrm") = {"preflight", "link", "addr", "state", "policy", "observe"}
  /\ ApplyStages("ike") = {"preflight", "link", "addr", "secret", "conn", "sa", "observe"}
  /\ ApplyStages("srv6") = {"feed", "route", "rule4", "rule6", "observe"}
  /\ RemoveStages("link") = {"unlink"}
  /\ RemoveStages("wg") = {"unroute", "unrule", "unlink"}
  /\ RemoveStages("xfrm") = {"unstate", "unlink"}
  /\ RemoveStages("ike") = {"unsa", "unconn", "unshared", "unkey", "unlink"}
  /\ RemoveStages("srv6") = {"unroute", "unrule"}
BY DEF ApplyStages, RemoveStages

LEMMA ApplyingStages ==
  ASSUME NEW k \in Kinds
  PROVE  Applying[k] \in Seq(ApplyStages(k)) /\ \A i \in 1..Len(Applying[k]) : Applying[k][i] \in ApplyStages(k)
<1>1. CASE k = "link"
  <2> DEFINE w == <<"link", "addr", "observe">>
  <2>1. \A i \in 1..Len(w) : w[i] \in {"link", "addr", "observe"}
        OBVIOUS
  <2>0. w \in Seq({"link", "addr", "observe"})
        OBVIOUS
  <2>2. ApplyStages("link") = {"link", "addr", "observe"}
        BY StageSets
  <2>3. Applying["link"] = w
        BY KindStages
  <2> QED BY <1>1, <2>0, <2>1, <2>2, <2>3
<1>2. CASE k = "wg"
  <2> DEFINE w == <<"link", "peer", "addr", "route", "rule4", "rule6", "observe">>
  <2>1. \A i \in 1..Len(w) : w[i] \in {"link", "peer", "addr", "route", "rule4", "rule6", "observe"}
        OBVIOUS
  <2>0. w \in Seq({"link", "peer", "addr", "route", "rule4", "rule6", "observe"})
        OBVIOUS
  <2>2. ApplyStages("wg") = {"link", "peer", "addr", "route", "rule4", "rule6", "observe"}
        BY StageSets
  <2>3. Applying["wg"] = w
        BY KindStages
  <2> QED BY <1>2, <2>0, <2>1, <2>2, <2>3
<1>3. CASE k = "xfrm"
  <2> DEFINE w == <<"preflight", "link", "addr", "state", "policy", "observe">>
  <2>1. \A i \in 1..Len(w) : w[i] \in {"preflight", "link", "addr", "state", "policy", "observe"}
        OBVIOUS
  <2>0. w \in Seq({"preflight", "link", "addr", "state", "policy", "observe"})
        OBVIOUS
  <2>2. ApplyStages("xfrm") = {"preflight", "link", "addr", "state", "policy", "observe"}
        BY StageSets
  <2>3. Applying["xfrm"] = w
        BY KindStages
  <2> QED BY <1>3, <2>0, <2>1, <2>2, <2>3
<1>4. CASE k = "ike"
  <2> DEFINE w == <<"preflight", "link", "addr", "secret", "conn", "sa", "observe">>
  <2>1. \A i \in 1..Len(w) : w[i] \in {"preflight", "link", "addr", "secret", "conn", "sa", "observe"}
        OBVIOUS
  <2>0. w \in Seq({"preflight", "link", "addr", "secret", "conn", "sa", "observe"})
        OBVIOUS
  <2>2. ApplyStages("ike") = {"preflight", "link", "addr", "secret", "conn", "sa", "observe"}
        BY StageSets
  <2>3. Applying["ike"] = w
        BY KindStages
  <2> QED BY <1>4, <2>0, <2>1, <2>2, <2>3
<1>5. CASE k = "srv6"
  <2> DEFINE w == <<"feed", "route", "rule4", "rule6", "observe">>
  <2>1. \A i \in 1..Len(w) : w[i] \in {"feed", "route", "rule4", "rule6", "observe"}
        OBVIOUS
  <2>0. w \in Seq({"feed", "route", "rule4", "rule6", "observe"})
        OBVIOUS
  <2>2. ApplyStages("srv6") = {"feed", "route", "rule4", "rule6", "observe"}
        BY StageSets
  <2>3. Applying["srv6"] = w
        BY KindStages
  <2> QED BY <1>5, <2>0, <2>1, <2>2, <2>3
<1> QED BY <1>1, <1>2, <1>3, <1>4, <1>5 DEF Kinds

LEMMA RemovingStages ==
  ASSUME NEW k \in Kinds
  PROVE  Removing[k] \in Seq(RemoveStages(k)) /\ \A i \in 1..Len(Removing[k]) : Removing[k][i] \in RemoveStages(k)
<1>1. CASE k = "link"
  <2> DEFINE w == <<"unlink">>
  <2>1. \A i \in 1..Len(w) : w[i] \in {"unlink"}
        OBVIOUS
  <2>0. w \in Seq({"unlink"})
        OBVIOUS
  <2>2. RemoveStages("link") = {"unlink"}
        BY StageSets
  <2>3. Removing["link"] = w
        BY KindStages
  <2> QED BY <1>1, <2>0, <2>1, <2>2, <2>3
<1>2. CASE k = "wg"
  <2> DEFINE w == <<"unroute", "unrule", "unlink">>
  <2>1. \A i \in 1..Len(w) : w[i] \in {"unroute", "unrule", "unlink"}
        OBVIOUS
  <2>0. w \in Seq({"unroute", "unrule", "unlink"})
        OBVIOUS
  <2>2. RemoveStages("wg") = {"unroute", "unrule", "unlink"}
        BY StageSets
  <2>3. Removing["wg"] = w
        BY KindStages
  <2> QED BY <1>2, <2>0, <2>1, <2>2, <2>3
<1>3. CASE k = "xfrm"
  <2> DEFINE w == <<"unstate", "unlink">>
  <2>1. \A i \in 1..Len(w) : w[i] \in {"unstate", "unlink"}
        OBVIOUS
  <2>0. w \in Seq({"unstate", "unlink"})
        OBVIOUS
  <2>2. RemoveStages("xfrm") = {"unstate", "unlink"}
        BY StageSets
  <2>3. Removing["xfrm"] = w
        BY KindStages
  <2> QED BY <1>3, <2>0, <2>1, <2>2, <2>3
<1>4. CASE k = "ike"
  <2> DEFINE w == <<"unsa", "unconn", "unshared", "unkey", "unlink">>
  <2>1. \A i \in 1..Len(w) : w[i] \in {"unsa", "unconn", "unshared", "unkey", "unlink"}
        OBVIOUS
  <2>0. w \in Seq({"unsa", "unconn", "unshared", "unkey", "unlink"})
        OBVIOUS
  <2>2. RemoveStages("ike") = {"unsa", "unconn", "unshared", "unkey", "unlink"}
        BY StageSets
  <2>3. Removing["ike"] = w
        BY KindStages
  <2> QED BY <1>4, <2>0, <2>1, <2>2, <2>3
<1>5. CASE k = "srv6"
  <2> DEFINE w == <<"unroute", "unrule">>
  <2>1. \A i \in 1..Len(w) : w[i] \in {"unroute", "unrule"}
        OBVIOUS
  <2>0. w \in Seq({"unroute", "unrule"})
        OBVIOUS
  <2>2. RemoveStages("srv6") = {"unroute", "unrule"}
        BY StageSets
  <2>3. Removing["srv6"] = w
        BY KindStages
  <2> QED BY <1>5, <2>0, <2>1, <2>2, <2>3
<1> QED BY <1>1, <1>2, <1>3, <1>4, <1>5 DEF Kinds

StagesOf(t) == IF job[t].op = "apply" THEN ApplyStages(kind[t]) ELSE RemoveStages(kind[t])

\* The job of t has a stage left: one of its kind, and the rest are its stages too.
LEMMA StageKnown ==
  ASSUME TypeInv, NEW t \in Tunnels, JobAt(t), Busy(t), job[t].do # <<>>
  PROVE  /\ kind[t] \in Kinds /\ Whole(t) \in Seq(StagesOf(t))
         /\ \E i \in 1..Len(Whole(t)) :
              /\ Len(job[t].do) = Len(Whole(t)) - i + 1 /\ Stage(t) = Whole(t)[i]
              /\ Len(Tail(job[t].do)) = Len(Whole(t)) - i /\ EndOf(Tail(job[t].do), Whole(t))
              /\ Tail(job[t].do) # <<>> => i + 1 \in 1..Len(Whole(t)) /\ Head(Tail(job[t].do)) = Whole(t)[i + 1]
         /\ Stage(t) \in StagesOf(t)
<1>1. kind[t] \in Kinds
      BY SpecType
<1>2. Whole(t) \in Seq(StagesOf(t))
      BY <1>1, ApplyingStages, RemovingStages DEF Whole, StagesOf
<1>3. EndOf(job[t].do, Whole(t))
      BY DEF JobAt
<1>4. \E i \in 1..Len(Whole(t)) :
        /\ Len(job[t].do) = Len(Whole(t)) - i + 1 /\ Head(job[t].do) = Whole(t)[i]
        /\ Len(Tail(job[t].do)) = Len(Whole(t)) - i /\ EndOf(Tail(job[t].do), Whole(t))
        /\ Tail(job[t].do) # <<>> => i + 1 \in 1..Len(Whole(t)) /\ Head(Tail(job[t].do)) = Whole(t)[i + 1]
      BY <1>2, <1>3, BeginsAt
<1>5. Stage(t) = Head(job[t].do)
      BY DEF Stage
<1>6. Stage(t) \in StagesOf(t)
  <2>1. PICK i \in 1..Len(Whole(t)) : Head(job[t].do) = Whole(t)[i]
        BY <1>4
  <2> QED BY <1>2, <1>5, <2>1
<1> QED BY <1>1, <1>2, <1>4, <1>5, <1>6

\* Only the stage of the link comes before that of the peers.
LEMMA StageBefore ==
  ASSUME TypeInv, NEW t \in Tunnels, JobAt(t), Busy(t), job[t].do # <<>>, Tail(job[t].do) # <<>>,
         Head(Tail(job[t].do)) = "peer"
  PROVE  Stage(t) = "link" /\ job[t].op = "apply" /\ kind[t] = "wg"
<1>1. kind[t] \in Kinds /\ Whole(t) \in Seq(StagesOf(t))
      BY StageKnown
<1>2. PICK i \in 1..Len(Whole(t)) :
        Stage(t) = Whole(t)[i] /\ i + 1 \in 1..Len(Whole(t)) /\ Whole(t)[i + 1] = "peer"
      BY StageKnown
<1>3. "peer" \in StagesOf(t)
      BY <1>1, <1>2
<1>4. kind[t] = "wg" /\ job[t].op = "apply"
      BY <1>1, <1>3, StageSets DEF StagesOf, Kinds
<1>5. Whole(t) = <<"link", "peer", "addr", "route", "rule4", "rule6", "observe">>
      BY <1>4, KindStages DEF Whole
<1> DEFINE w == <<"link", "peer", "addr", "route", "rule4", "rule6", "observe">>
<1>6. Len(w) = 7 /\ \A j \in 1..7 : j + 1 \in 1..7 /\ w[j + 1] = "peer" => j = 1
      OBVIOUS
<1>7. w[1] = "link"
      OBVIOUS
<1> QED BY <1>2, <1>4, <1>5, <1>6, <1>7

-----------------------------------------------------------------------------
(* Plans.                                                                  *)

LEMMA CallsFields ==
  ASSUME NEW turn, NEW do, NEW objects, NEW c \in Calls(turn, do, objects)
  PROVE  c.turn = turn /\ c.do = do /\ c.o \in objects
BY DEF Calls

LEMMA CallsHave ==
  ASSUME NEW turn, NEW do, NEW objects, NEW o \in objects
  PROVE  \E c \in Calls(turn, do, objects) : c.o = o
<1> DEFINE c == [turn |-> turn, do |-> do, o |-> o]
<1>1. c \in Calls(turn, do, objects) /\ c.o = o
      BY DEF Calls
<1> QED BY <1>1

LEMMA MineObjects ==
  ASSUME ObjectInv, NEW t \in Tunnels, NEW part, NEW o \in Mine(t, part)
  PROVE  o \in kernel /\ o.part = part /\ o.of = t /\ o.tag # "user" /\ ObjectAt(o) /\ IsObject(o)
BY DEF Mine, ObjectInv, ObjectAt

LEMMA LinkObjects ==
  ASSUME ObjectInv, NEW t \in Tunnels, NEW o \in LinkOf(t)
  PROVE  /\ o \in kernel /\ o.part = "link" /\ o.of = t /\ ObjectAt(o) /\ IsObject(o)
         /\ ~ Strange(t) => o.tag = "th"
BY DEF LinkOf, ObjectInv, ObjectAt, Strange

\* What a record asks for.
LEMMA AddressObjects ==
  ASSUME NEW t, NEW s, NEW o \in AddressesOf(t, s)
  PROVE  o.part = "addr" /\ o.of = t /\ o.tag = "th" /\ IsObject(o)
<1>1. PICK key : o = Obj("addr", t, key, "th", "")
      BY DEF AddressesOf, LinkLocal
<1> QED BY <1>1 DEF Obj, IsObject

LEMMA RouteObjects ==
  ASSUME NEW t, NEW s, NEW feed, NEW o \in RoutesOf(t, s, feed)
  PROVE  o.part = "route" /\ o.of = t /\ o.tag \in {"th", "bare"} /\ IsObject(o)
<1>1. \A p : RealmKept(p) \in {"th", "bare"}
      BY DEF RealmKept
<1>2. PICK p, tag, val : o = Obj("route", t, p, tag, val) /\ tag \in {"th", "bare"}
  <2>1. CASE kind[t] = "srv6"
    <3>1. \/ \E p \in feed : o = Obj("route", t, p, RealmKept(p), s.sid)
          \/ o = Obj("route", t, SIDPrefix(s), "bare", "direct")
          BY <2>1 DEF RoutesOf, SRv6Routes, DirectRoute
    <3> QED BY <1>1, <3>1
  <2>2. CASE kind[t] # "srv6"
    <3>1. \E p : o = Obj("route", t, p, RealmKept(p), "")
          BY <2>2 DEF RoutesOf, WireGuardRoutes
    <3> QED BY <1>1, <3>1
  <2> QED BY <2>1, <2>2
<1> QED BY <1>2 DEF Obj, IsObject

LEMMA RuleObjects ==
  ASSUME NEW t, NEW s, NEW feed, NEW o \in RulesOf(t, s, feed)
  PROVE  o.part = "rule" /\ o.of = t /\ o.tag = "th" /\ IsObject(o)
<1>1. PICK key : o = Obj("rule", t, key, "th", "")
      BY DEF RulesOf
<1> QED BY <1>1 DEF Obj, IsObject

\* The rules of a WireGuard tunnel are for the families of its prefixes.
LEMMA RuleKeys ==
  ASSUME TypeInv, NEW t \in Tunnels, JobAt(t), Busy(t), kind[t] = "wg", NEW feed, NEW o \in RulesOf(t, Spec(t), feed)
  PROVE  o.key \in {<<"v4">>, <<"v6">>}
<1> DEFINE s == Spec(t)
           routes == RoutesOf(t, s, feed)
<1>1. PICK f \in Families(t, s, feed) : o = Obj("rule", t, <<f>>, "th", "")
      BY DEF RulesOf
<1>2. o.key = <<f>>
      BY <1>1 DEF Obj
<1>3. PICK q \in Keys(routes) : f = q[1]
      BY <1>1 DEF Families
<1>4. PICK r \in routes : q = r.key
      BY <1>3 DEF Keys
<1>5. r \in WireGuardRoutes(t, s)
      BY <1>4 DEF RoutesOf
<1>6. PICK p \in AllowedIPs(s) : r = Obj("route", t, p, RealmKept(p), "")
      BY <1>5 DEF WireGuardRoutes
<1>7. q = p
      BY <1>4, <1>6 DEF Obj
<1>8. PICK i \in DOMAIN s.peers : p \in s.peers[i].ips
      BY <1>6 DEF AllowedIPs, ToSet
<1>9. s \in Offers["wg"]
      BY SpecType
<1>10. p[1] \in {"v4", "v6"}
       BY <1>8, <1>9, TunnelObjectsAssumption
<1> QED BY <1>2, <1>3, <1>7, <1>10

LEMMA StateObjects ==
  ASSUME NEW t, NEW s, NEW o
  PROVE  /\ o \in StatesOf(t, s) => o.part = "state" /\ o.of = t /\ o.tag = "th" /\ IsObject(o)
         /\ o \in PoliciesOf(t, s) => o.part = "policy" /\ o.of = t /\ o.tag = "th" /\ IsObject(o)
BY DEF StatesOf, PoliciesOf, Obj, IsObject

LEMMA VICIObjects ==
  ASSUME NEW t, NEW s
  PROVE  /\ LET o == ConnectionOf(t, s) IN o.part = "conn" /\ o.of = t /\ o.key = <<>> /\ o.tag = "th" /\ IsObject(o)
         /\ LET o == SharedOf(t, s) IN o.part = "shared" /\ o.of = t /\ o.tag = "th" /\ IsObject(o)
         /\ LET o == SAOf(t) IN o.part = "sa" /\ o.of = t /\ o.tag = "th" /\ IsObject(o)
         /\ LET o == LinkObject(t, s) IN o.part = "link" /\ o.of = t /\ o.key = <<>> /\ o.tag = "th" /\ IsObject(o)
BY DEF ConnectionOf, SharedOf, SAOf, LinkObject, Obj, IsObject

LEMMA KeyObject ==
  ASSUME NEW s
  PROVE  LET o == PrivateKeyOf(s) IN o.part = "key" /\ o.of = s.secret /\ o.tag = "th" /\ IsObject(o)
BY DEF PrivateKeyOf, Obj, IsObject

\* A call that deletes what is one's own, or makes it.
Fits(t, c) ==
  /\ CallFits(t, c)
  /\ Stage(t) = "link" => c.o.part = "link"
  /\ c.o.part = "link" => \A o \in LinkOf(t) : o.tag # "user"
  /\ c.do = "replace" => \A o \in kernel : SameKey(o, c.o) => o.tag # "user"

LEMMA DeleteFits ==
  ASSUME NEW t \in Tunnels, Stage(t) # "link", NEW c, c.do = "del", IsObject(c.o),
         c.o.tag # "user", c.o.of = t \/ c.o.part = "key", c.o.part # "link"
  PROVE  Fits(t, c)
BY DEF Fits, CallFits

LEMMA MakeFits ==
  ASSUME NEW t \in Tunnels, Stage(t) # "link", job[t].op = "apply", NEW c, IsObject(c.o),
         c.o.part \in PartsOf[kind[t]], c.o.of = t, c.o.tag = "th" \/ (c.o.tag = "bare" /\ c.o.part = "route"),
         Keyed(kind[t], c.o),
         \/ c.do = "add" /\ c.o.part \in {"addr", "route", "rule", "state", "policy"}
         \/ c.do = "put" /\ c.o.part \in {"shared", "conn", "sa"}
  PROVE  Fits(t, c)
BY DEF Fits, CallFits, Own

LEMMA DiffFits ==
  ASSUME ObjectInv, NEW t \in Tunnels, Stage(t) # "link", job[t].op = "apply",
         NEW part \in {"addr", "rule"}, part \in PartsOf[kind[t]],
         NEW want, \A o \in want : o.part = part /\ o.of = t /\ o.tag = "th" /\ IsObject(o) /\ Keyed(kind[t], o),
         NEW have, have \subseteq Mine(t, part), NEW c \in DiffPlan(want, have)
  PROVE  Fits(t, c)
<1>1. CASE c \in Calls(1, "del", have \ want)
  <2>1. c.do = "del" /\ c.o \in Mine(t, part)
        BY <1>1, CallsFields
  <2>2. c.o.part = part /\ c.o.of = t /\ c.o.tag # "user" /\ IsObject(c.o)
        BY <2>1, MineObjects
  <2> QED BY <2>1, <2>2, DeleteFits
<1>2. CASE c \in Calls(2, "add", want \ have)
  <2>1. c.do = "add" /\ c.o \in want
        BY <1>2, CallsFields
  <2> QED BY <2>1, MakeFits
<1> QED BY <1>1, <1>2 DEF DiffPlan

LEMMA RouteFits ==
  ASSUME TypeInv, ObjectInv, NEW t \in Tunnels, Stage(t) = "route", job[t].op = "apply",
         kind[t] \in {"wg", "srv6"}, ~ Refused(t), NEW c \in Plan(t)
  PROVE  Fits(t, c)
<1> DEFINE want == RoutesOf(t, Spec(t), job[t].feed)
           have == Mine(t, "route")
<1>1. "route" \in PartsOf[kind[t]]
      BY PartsKnown
<1>2. \A o \in want : o.part = "route" /\ o.of = t /\ o.tag \in {"th", "bare"} /\ IsObject(o)
      BY RouteObjects
<1>3. \A o \in have : o.part = "route" /\ o.of = t /\ o.tag # "user" /\ IsObject(o)
      BY MineObjects
<1>4. ~ Foreign(t, want)
      BY DEF Refused
<1>5. c \in IF kind[t] = "srv6" THEN SRv6Plan(want, have) ELSE RoutePlan(want, have)
      BY DEF Plan
<1> HIDE DEF want, have
<1>6. \/ c.do = "del" /\ c.o \in have
      \/ c.do = "add" /\ c.o \in want
      \/ c.do = "replace" /\ c.o \in want /\ kind[t] = "srv6"
  <2>1. CASE kind[t] = "srv6"
        BY <1>5, <2>1, CallsFields DEF SRv6Plan
  <2>2. CASE kind[t] # "srv6"
        BY <1>5, <2>2, CallsFields DEF RoutePlan
  <2> QED BY <2>1, <2>2
<1>7. CASE c.do = "del" /\ c.o \in have
      BY <1>3, <1>7, DeleteFits
<1>8. CASE c.do = "add" /\ c.o \in want
      BY <1>1, <1>2, <1>8, MakeFits DEF Keyed
<1>9. CASE c.do = "replace" /\ c.o \in want /\ kind[t] = "srv6"
  <2>1. CallFits(t, c)
        BY <1>1, <1>2, <1>9 DEF CallFits, Own, Keyed
  <2>2. \A o \in kernel : SameKey(o, c.o) => o.tag # "user"
        BY <1>4, <1>9 DEF Foreign
  <2> QED BY <1>2, <1>9, <2>1, <2>2 DEF Fits
<1> QED BY <1>6, <1>7, <1>8, <1>9

LEMMA ReplaceFits ==
  ASSUME ObjectInv, NEW t \in Tunnels, Stage(t) # "link", job[t].op = "apply",
         NEW part \in {"state", "policy"}, part \in PartsOf[kind[t]],
         NEW want, \A o \in want : o.part = part /\ o.of = t /\ o.tag = "th" /\ IsObject(o),
         NEW c \in ReplacePlan(want, Mine(t, part))
  PROVE  Fits(t, c)
<1>1. \/ c.do = "del" /\ c.o \in Mine(t, part)
      \/ c.do = "add" /\ c.o \in want
      BY CallsFields DEF ReplacePlan
<1>2. CASE c.do = "del" /\ c.o \in Mine(t, part)
  <2>1. c.o.part = part /\ c.o.of = t /\ c.o.tag # "user" /\ IsObject(c.o)
        BY <1>2, MineObjects
  <2> QED BY <1>2, <2>1, DeleteFits
<1>3. CASE c.do = "add" /\ c.o \in want
      BY <1>3, MakeFits DEF Keyed
<1> QED BY <1>1, <1>2, <1>3

LEMMA LinkFits ==
  ASSUME TypeInv, ObjectInv, NEW t \in Tunnels, Stage(t) = "link", job[t].op = "apply",
         "link" \in PartsOf[kind[t]], kind[t] # "srv6", ~ Refused(t), NEW c \in Plan(t)
  PROVE  Fits(t, c)
<1> DEFINE want == LinkObject(t, Spec(t))
<1>1. want.part = "link" /\ want.of = t /\ want.key = <<>> /\ want.tag = "th" /\ IsObject(want)
      BY VICIObjects
<1>2. ~ Strange(t)
      BY DEF Refused
<1>3. \A o \in LinkOf(t) : o.tag = "th" /\ o.part = "link" /\ o.of = t /\ IsObject(o)
      BY <1>2, LinkObjects
<1>4. c \in LinkPlan(t)
      BY DEF Plan
<1> HIDE DEF want
<1>5. \/ c.do = "del" /\ c.o \in LinkOf(t)
      \/ c.do \in {"add", "alias"} /\ c.o = want
      BY <1>4, CallsFields DEF LinkPlan, want
<1>6. CallFits(t, c) /\ c.o.part = "link" /\ c.do # "replace"
      BY <1>1, <1>3, <1>5 DEF CallFits, Own, Keyed
<1> QED BY <1>3, <1>6 DEF Fits

\* Without a refusal, each call of a plan fits.
LEMMA PlanFits ==
  ASSUME TypeInv, ObjectInv, NEW t \in Tunnels, JobAt(t), Busy(t), job[t].do # <<>>, ~ Refused(t),
         NEW c \in Plan(t)
  PROVE  Fits(t, c)
<1> DEFINE s == Spec(t)
           routes == RoutesOf(t, s, job[t].feed)
<1>1. kind[t] \in Kinds /\ Stage(t) \in StagesOf(t)
      BY StageKnown
<1>2. Spec(t).secret \notin Tunnels
      BY SpecType
<1>3. job[t].op \in {"apply", "remove", "mutate"}
      BY DEF Busy, TypeInv, IsJob, Ops
<1>4. ASSUME Stage(t) # "link", NEW o \in kernel, o.part # "link", o.of = t \/ o.part = "key", o.tag # "user",
             c.do = "del", c.o = o
      PROVE  Fits(t, c)
  <2>1. IsObject(o)
        BY DEF ObjectInv, ObjectAt
  <2> QED BY <1>4, <2>1, DeleteFits
<1>5. ASSUME Stage(t) # "link", NEW turn, NEW part, part # "link", c \in Calls(turn, "del", Mine(t, part))
      PROVE  Fits(t, c)
  <2>1. c.do = "del" /\ c.o \in Mine(t, part)
        BY <1>5, CallsFields
  <2> QED BY <1>4, <1>5, <2>1, MineObjects
<1>6. CASE job[t].op = "apply"
  <2>1. Stage(t) \in ApplyStages(kind[t])
        BY <1>1, <1>6 DEF StagesOf
  <2>2. CASE Stage(t) = "link"
    <3>1. kind[t] # "srv6" /\ "link" \in PartsOf[kind[t]]
          BY <1>1, <2>1, <2>2, StageSets, PartsKnown DEF Kinds
    <3> QED BY <1>6, <2>2, <3>1, LinkFits
  <2>3. CASE Stage(t) = "addr"
    <3>1. "addr" \in PartsOf[kind[t]]
          BY <1>1, <2>1, <2>3, StageSets, PartsKnown DEF Kinds
    <3>2. c \in DiffPlan(AddressesOf(t, s), Mine(t, "addr"))
          BY <2>3 DEF Plan
    <3>3. \A o \in AddressesOf(t, s) : o.part = "addr" /\ o.of = t /\ o.tag = "th" /\ IsObject(o) /\ Keyed(kind[t], o)
          BY AddressObjects DEF Keyed
    <3> QED BY <1>6, <2>3, <3>1, <3>2, <3>3, DiffFits
  <2>4. CASE Stage(t) = "peer"
    <3>1. kind[t] = "wg"
          BY <1>1, <2>1, <2>4, StageSets DEF Kinds
    <3>2. c \in Calls(1, "configure", LinkOf(t))
          BY <2>4 DEF Plan
    <3>3. c.do = "configure" /\ c.o \in LinkOf(t)
          BY <3>2, CallsFields
    <3>4. IsObject(c.o)
          BY <3>3, LinkObjects
    <3>5. CallFits(t, c)
          BY <1>6, <3>1, <3>3, <3>4 DEF CallFits
    <3>6. \A o \in LinkOf(t) : o.tag # "user"
          BY <2>4 DEF JobAt
    <3> QED BY <2>4, <3>3, <3>5, <3>6 DEF Fits
  <2>5. CASE Stage(t) = "route"
    <3>1. kind[t] \in {"wg", "srv6"}
          BY <1>1, <2>1, <2>5, StageSets DEF Kinds
    <3> QED BY <1>6, <2>5, <3>1, RouteFits
  <2>6. CASE Stage(t) \in {"rule4", "rule6"}
    <3>1. "rule" \in PartsOf[kind[t]]
          BY <1>1, <2>1, <2>6, StageSets, PartsKnown DEF Kinds
    <3>2. \E f : c \in RulePlan(t, f)
          BY <2>6 DEF Plan
    <3>3. PICK f : c \in DiffPlan(OfFamily(f, RulesOf(t, s, job[t].feed)), OfFamily(f, Mine(t, "rule")))
          BY <3>2 DEF RulePlan
    <3>4. \A o \in OfFamily(f, RulesOf(t, s, job[t].feed)) :
            o.part = "rule" /\ o.of = t /\ o.tag = "th" /\ IsObject(o) /\ Keyed(kind[t], o)
          BY RuleObjects, RuleKeys DEF OfFamily, Keyed
    <3>5. OfFamily(f, Mine(t, "rule")) \subseteq Mine(t, "rule")
          BY DEF OfFamily
    <3> QED BY <1>6, <2>6, <3>1, <3>3, <3>4, <3>5, DiffFits
  <2>7. CASE Stage(t) = "state"
    <3>1. "state" \in PartsOf[kind[t]]
          BY <1>1, <2>1, <2>7, StageSets, PartsKnown DEF Kinds
    <3>2. c \in ReplacePlan(StatesOf(t, s), Mine(t, "state"))
          BY <2>7 DEF Plan
    <3>3. \A o \in StatesOf(t, s) : o.part = "state" /\ o.of = t /\ o.tag = "th" /\ IsObject(o)
          BY StateObjects
    <3> QED BY <1>6, <2>7, <3>1, <3>2, <3>3, ReplaceFits
  <2>8. CASE Stage(t) = "policy"
    <3>1. "policy" \in PartsOf[kind[t]]
          BY <1>1, <2>1, <2>8, StageSets, PartsKnown DEF Kinds
    <3>2. c \in ReplacePlan(PoliciesOf(t, s), Mine(t, "policy"))
          BY <2>8 DEF Plan
    <3>3. \A o \in PoliciesOf(t, s) : o.part = "policy" /\ o.of = t /\ o.tag = "th" /\ IsObject(o)
          BY StateObjects
    <3> QED BY <1>6, <2>8, <3>1, <3>2, <3>3, ReplaceFits
  <2>9. CASE Stage(t) \in {"secret", "conn", "sa"}
    <3>1. kind[t] = "ike"
          BY <1>1, <2>1, <2>9, StageSets DEF Kinds
    <3>2. {"shared", "conn", "sa"} \subseteq PartsOf[kind[t]]
          BY <3>1, PartsKnown
    <3>3. ASSUME NEW o, IsObject(o), o.part \in {"shared", "conn", "sa"}, o.of = t, o.tag = "th", c.do = "put", c.o = o,
                 o.part = "conn" => o.key = <<>>
          PROVE  Fits(t, c)
          BY <1>6, <2>9, <3>2, <3>3, MakeFits DEF Keyed
    <3>4. CASE Stage(t) = "conn"
      <4>1. c \in Calls(1, "put", {ConnectionOf(t, s)})
            BY <3>4 DEF Plan
      <4> QED BY <3>3, <4>1, CallsFields, VICIObjects
    <3>5. CASE Stage(t) = "sa"
      <4>1. c \in Calls(1, "put", {SAOf(t)})
            BY <3>5 DEF Plan
      <4> QED BY <3>3, <4>1, CallsFields, VICIObjects
    <3>6. CASE Stage(t) = "secret" /\ s.auth = "psk"
      <4>1. c \in Calls(1, "put", {SharedOf(t, s)})
            BY <3>6 DEF Plan, SecretPlan
      <4> QED BY <3>3, <4>1, CallsFields, VICIObjects
    <3>7. CASE Stage(t) = "secret" /\ s.auth # "psk"
      <4>1. c \in Calls(1, "del", Mine(t, "shared")) \cup Calls(2, "put", {PrivateKeyOf(s)})
            BY <3>7 DEF Plan, SecretPlan
      <4>2. CASE c \in Calls(1, "del", Mine(t, "shared"))
            BY <1>5, <3>7, <4>2
      <4>3. CASE c \in Calls(2, "put", {PrivateKeyOf(s)})
        <5>1. c.do = "put" /\ c.o = PrivateKeyOf(s)
              BY <4>3, CallsFields
        <5>2. c.o.part = "key" /\ c.o.tag = "th" /\ IsObject(c.o)
              BY <5>1, KeyObject
        <5>3. Own(t, c.o)
              BY <3>1, <3>7, <5>1, <5>2 DEF Own, Keyed
        <5>4. CallFits(t, c)
              BY <1>6, <5>1, <5>2, <5>3 DEF CallFits
        <5> QED BY <3>7, <5>1, <5>2, <5>4 DEF Fits
      <4> QED BY <4>1, <4>2, <4>3
    <3> QED BY <2>9, <3>4, <3>5, <3>6, <3>7
  <2>10. CASE Stage(t) \in {"observe", "preflight", "feed"}
    <3>1. Plan(t) = {}
          BY <2>10 DEF Plan
    <3> QED BY <3>1
  <2> QED BY <1>1, <2>1, <2>2, <2>3, <2>4, <2>5, <2>6, <2>7, <2>8, <2>9, <2>10, StageSets DEF Kinds
<1>7. CASE job[t].op # "apply"
  <2>1. Stage(t) \in RemoveStages(kind[t])
        BY <1>1, <1>7 DEF StagesOf
  <2>2. CASE Stage(t) = "unroute"
    <3>1. c \in Calls(1, "del", RoutesToRemove(t, s))
          BY <2>2 DEF Plan
    <3>2. c.do = "del" /\ c.o \in Mine(t, "route")
          BY <3>1, CallsFields DEF RoutesToRemove
    <3> QED BY <1>4, <2>2, <3>2, MineObjects
  <2>3. CASE Stage(t) = "unrule"
    <3>1. c \in Calls(1, "del", RulesToRemove(t))
          BY <2>3 DEF Plan
    <3>2. c.do = "del" /\ c.o \in Mine(t, "rule")
          BY <3>1, CallsFields DEF RulesToRemove
    <3> QED BY <1>4, <2>3, <3>2, MineObjects
  <2>4. CASE Stage(t) = "unstate"
    <3>1. c \in Calls(1, "del", Mine(t, "state")) \cup Calls(2, "del", Mine(t, "policy"))
          BY <2>4 DEF Plan
    <3> QED BY <1>5, <2>4, <3>1
  <2>5. CASE Stage(t) \in {"unsa", "unconn", "unshared"}
    <3>1. \E part \in {"sa", "conn", "shared"} : c \in Calls(1, "del", Mine(t, part))
          BY <2>5 DEF Plan
    <3> QED BY <1>5, <2>5, <3>1
  <2>6. CASE Stage(t) = "unkey"
    <3>1. c \in Calls(1, "del", LoadedKey(s))
          BY <2>6 DEF Plan
    <3>2. c.do = "del" /\ c.o \in LoadedKey(s)
          BY <3>1, CallsFields
    <3>3. c.o \in kernel /\ c.o = PrivateKeyOf(s)
          BY <3>2 DEF LoadedKey
    <3>4. c.o.part = "key" /\ c.o.tag = "th"
          BY <3>3, KeyObject
    <3> QED BY <1>4, <2>6, <3>2, <3>3, <3>4
  <2>7. CASE Stage(t) = "unlink"
    <3>1. c \in Calls(1, "del", LinkOf(t))
          BY <2>7 DEF Plan
    <3>2. c.do = "del" /\ c.o \in LinkOf(t)
          BY <3>1, CallsFields
    <3>3. ~ Strange(t)
          BY <2>7 DEF Refused
    <3>4. \A o \in LinkOf(t) : o.tag = "th" /\ o.part = "link" /\ o.of = t /\ IsObject(o)
          BY <3>3, LinkObjects
    <3> QED BY <2>7, <3>2, <3>4 DEF Fits, CallFits
  <2> QED BY <1>1, <2>1, <2>2, <2>3, <2>4, <2>5, <2>6, <2>7, StageSets DEF Kinds
<1> QED BY <1>6, <1>7

-----------------------------------------------------------------------------
(* Jobs.                                                                   *)

LEMMA CallFitsKept ==
  ASSUME NEW t \in Tunnels, NEW c, kind' = kind, job'[t].op = job[t].op, job'[t].rec = job[t].rec
  PROVE  CallFits(t, c)' <=> CallFits(t, c)
BY DEF CallFits, Own, Spec

\* What others do leaves a job as it is.
LEMMA JobFrame ==
  ASSUME TypeInv, NEW u \in Tunnels, JobAt(u), kind' = kind,
         stored'[u] = stored[u] \/ ~ Busy(u),
         job'[u] = job[u] \/ job'[u] = Shaken(job[u]),
         \A o \in kernel' \ kernel : o.tag = "user" =>
            ~ job'[u].alone /\ (o.part = "link" /\ o.of = u => ~ Busy(u)),
         job[u].op = "mutate" => \A v \in Tunnels \ {u} : ~ Busy(v)'
  PROVE  JobAt(u)'
<1>1. /\ job'[u].op = job[u].op /\ job'[u].do = job[u].do /\ job'[u].plan = job[u].plan
      /\ job'[u].rec = job[u].rec /\ (job'[u].alone => job[u].alone)
      BY ShakenFields DEF TypeInv
<1>2. (Busy(u)' <=> Busy(u)) /\ Stage(u)' = Stage(u) /\ Whole(u)' = Whole(u)
      BY <1>1 DEF Busy, Stage, Whole
<1>3. \A c : CallFits(u, c)' <=> CallFits(u, c)
      BY <1>1, CallFitsKept
<1>4. Busy(u) => \A o \in LinkOf(u)' : o.tag = "user" => o \in LinkOf(u)
      BY DEF LinkOf
<1>5. Careful(u)'
  <2>1. CASE ~ Busy(u)
        BY <1>1, <2>1 DEF Careful, JobAt
  <2>2. CASE Busy(u)
    <3>1. (\E c \in job'[u].plan : c.o.part = "link") => \A o \in LinkOf(u)' : o.tag # "user"
          BY <1>1, <1>4, <2>2 DEF Careful, JobAt
    <3>2. job'[u].alone => \A c \in job'[u].plan, o \in kernel' :
                              c.do = "replace" /\ SameKey(o, c.o) => o.tag # "user"
          BY <1>1 DEF Careful, JobAt
    <3>3. \A c, o : SameKey(o, c.o)' <=> SameKey(o, c.o)
          BY DEF SameKey
    <3> QED BY <3>1, <3>2, <3>3 DEF Careful
  <2> QED BY <2>1, <2>2
<1>6. Stage(u) = "peer" => \A o \in LinkOf(u)' : o.tag # "user"
  <2>1. Stage(u) = "peer" => Busy(u)
        BY DEF JobAt, Stage
  <2> QED BY <1>4, <2>1 DEF JobAt
<1>7. /\ ~ Busy(u) => job'[u].do = <<>> /\ job'[u].plan = {}
      /\ Busy(u) => stored'[u] # None /\ job'[u].rec = stored'[u] /\ EndOf(job'[u].do, Whole(u))
      /\ job'[u].plan # {} => job'[u].do # <<>>
      /\ \A c \in job'[u].plan : CallFits(u, c)
      /\ Stage(u) \in {"feed", "preflight", "observe"} => job'[u].plan = {}
      /\ Stage(u) = "link" => \A c \in job'[u].plan : c.o.part = "link"
      BY <1>1 DEF JobAt
<1> QED BY <1>1, <1>2, <1>3, <1>5, <1>6, <1>7 DEF JobAt

\* A job goes on: its plan changes, or its stage is over.
LEMMA JobProgress ==
  ASSUME TypeInv, NEW t \in Tunnels, JobAt(t), Busy(t), kind' = kind, stored'[t] = stored[t],
         job'[t].op = job[t].op, job'[t].rec = job[t].rec, job'[t].alone => job[t].alone,
         \/ job'[t].do = job[t].do /\ (job'[t].plan # {} => job[t].do # <<>> /\ Stage(t) \notin {"feed", "preflight", "observe"})
         \/ job[t].do # <<>> /\ job'[t].do = Tail(job[t].do) /\ job'[t].plan = {}
            /\ (Stage(t) = "link" => \A o \in LinkOf(t) : o.tag # "user")
         \/ job'[t].do = <<>> /\ job'[t].plan = {},
         \A c \in job'[t].plan :
            /\ CallFits(t, c)
            /\ Stage(t) = "link" => c.o.part = "link"
            /\ c.o.part = "link" => \A o \in LinkOf(t) : o.tag # "user"
            /\ job[t].alone /\ c.do = "replace" => \A o \in kernel : SameKey(o, c.o) => o.tag # "user",
         \A o \in kernel' \ kernel : o.tag # "user",
         job[t].op = "mutate" => \A v \in Tunnels \ {t} : ~ Busy(v)'
  PROVE  JobAt(t)'
<1>1. Busy(t)' /\ Whole(t)' = Whole(t)
      BY DEF Busy, Whole
<1>2. \A c : CallFits(t, c)' <=> CallFits(t, c)
      BY CallFitsKept
<1>3. \A o \in LinkOf(t)' : o.tag = "user" => o \in LinkOf(t)
      BY DEF LinkOf
<1>4. kind[t] \in Kinds /\ stored[t] # None /\ job[t].rec = stored[t]
      BY SpecType DEF JobAt
<1>5. Careful(t)'
  <2>1. (\E c \in job'[t].plan : c.o.part = "link") => \A o \in LinkOf(t)' : o.tag # "user"
        BY <1>3
  <2>2. job'[t].alone => \A c \in job'[t].plan, o \in kernel' :
                            c.do = "replace" /\ SameKey(o, c.o) => o.tag # "user"
        OBVIOUS
  <2>3. \A c, o : SameKey(o, c.o)' <=> SameKey(o, c.o)
        BY DEF SameKey
  <2> QED BY <2>1, <2>2, <2>3 DEF Careful
<1>6. EndOf(job'[t].do, Whole(t))
  <2>1. EndOf(job[t].do, Whole(t)) /\ EndOf(<<>>, Whole(t))
    <3>1. Whole(t) \in Seq(StagesOf(t))
          BY <1>4, ApplyingStages, RemovingStages DEF Whole, StagesOf
    <3> QED BY <3>1, EndOfWhole DEF JobAt
  <2>2. job[t].do # <<>> => EndOf(Tail(job[t].do), Whole(t))
        BY StageKnown
  <2> QED BY <2>1, <2>2
<1>7. /\ job'[t].plan # {} => job'[t].do # <<>>
      /\ Stage(t)' \in {"feed", "preflight", "observe"} => job'[t].plan = {}
      /\ Stage(t)' = "link" => \A c \in job'[t].plan : c.o.part = "link"
  <2>1. CASE job'[t].do = job[t].do
    <3>1. Stage(t)' = Stage(t)
          BY <2>1 DEF Stage
    <3> QED BY <2>1, <3>1
  <2>2. CASE job'[t].plan = {}
        BY <2>2
  <2> QED BY <2>1, <2>2
<1>8. Stage(t)' = "peer" => \A o \in LinkOf(t)' : o.tag # "user"
  <2>1. CASE job'[t].do = job[t].do
    <3>1. Stage(t)' = Stage(t)
          BY <2>1 DEF Stage
    <3> QED BY <1>3, <3>1 DEF JobAt
  <2>2. CASE job[t].do # <<>> /\ job'[t].do = Tail(job[t].do) /\ (Stage(t) = "link" => \A o \in LinkOf(t) : o.tag # "user")
    <3>1. Stage(t)' = "peer" => Tail(job[t].do) # <<>> /\ Head(Tail(job[t].do)) = "peer"
          BY <2>2 DEF Stage
    <3>2. Stage(t)' = "peer" => Stage(t) = "link"
          BY <2>2, <3>1, StageBefore
    <3> QED BY <1>3, <2>2, <3>2
  <2>3. CASE job'[t].do = <<>>
        BY <2>3 DEF Stage
  <2> QED BY <2>1, <2>2, <2>3
<1> QED BY <1>1, <1>2, <1>4, <1>5, <1>6, <1>7, <1>8 DEF JobAt

\* A job that begins.
LEMMA JobStarted ==
  ASSUME TypeInv, NEW t \in Tunnels, NEW op \in {"apply", "remove", "mutate"}, NEW next,
         stored[t] # None, kind' = kind, stored' = stored,
         Start(t, op, IF op = "apply" THEN Applying[kind[t]] ELSE Removing[kind[t]], stored[t], next),
         op = "mutate" => \A v \in Tunnels \ {t} : ~ Busy(v)'
  PROVE  JobAt(t)'
<1> DEFINE do == IF op = "apply" THEN Applying[kind[t]] ELSE Removing[kind[t]]
<1>1. job'[t] = Started(op, do, stored[t], next)
      BY DEF Start, Started, TypeInv
<1>2. job'[t].op = op /\ job'[t].do = do /\ job'[t].plan = {} /\ job'[t].rec = stored[t]
      BY <1>1, StartedFields DEF Ops
<1>3. kind[t] \in Kinds
      BY DEF TypeInv
<1>4. Whole(t)' = do /\ Busy(t)'
      BY <1>2 DEF Whole, Busy
<1>5. EndOf(do, do) /\ Stage(t)' # "peer"
  <2>1. CASE op = "apply"
    <3>1. do = Applying[kind[t]] /\ do \in Seq(ApplyStages(kind[t]))
          BY <1>3, <2>1, ApplyingStages
    <3>2. do # <<>> => Head(do) # "peer"
          BY <1>3, <3>1, KindStages DEF Kinds
    <3> QED BY <1>2, <3>1, <3>2, EndOfWhole DEF Stage
  <2>2. CASE op # "apply"
    <3>1. do = Removing[kind[t]] /\ do \in Seq(RemoveStages(kind[t]))
          BY <1>3, <2>2, RemovingStages
    <3>2. do # <<>> => Head(do) # "peer"
          BY <1>3, <3>1, KindStages DEF Kinds
    <3> QED BY <1>2, <3>1, <3>2, EndOfWhole DEF Stage
  <2> QED BY <2>1, <2>2
<1> QED BY <1>2, <1>4, <1>5 DEF JobAt, Careful

LEMMA JobIdle ==
  ASSUME NEW t \in Tunnels, job'[t] = Idle
  PROVE  JobAt(t)' /\ ~ Busy(t)'
BY IdleFields DEF JobAt, Busy, Careful, Stage

LEMMA JobFailed ==
  ASSUME TypeInv, JobInv, NEW t \in Tunnels, Busy(t), kind' = kind, stored' = stored, kernel' = kernel,
         job' = Failed(t)
  PROVE  JobInv'
<1>1. PICK do : /\ do \in {<<>>, Tail(job[t].do)}
                /\ job[t].do = <<>> => do = <<>>
                /\ job[t].op = "apply" => do = <<>> \/ Stage(t) = "route"
                /\ Failed(t) = [job EXCEPT ![t] = Broken(job[t], do)]
      BY FailedJob
<1>2. job'[t] = Broken(job[t], do) /\ \A u \in Tunnels \ {t} : job'[u] = job[u]
      BY <1>1 DEF TypeInv
<1>3. /\ job'[t].op = job[t].op /\ job'[t].rec = job[t].rec /\ job'[t].alone = job[t].alone
      /\ job'[t].do = do /\ job'[t].plan = {}
      BY <1>2, BrokenFields DEF TypeInv
<1>4. \A u \in Tunnels : Busy(u)' <=> Busy(u)
      BY <1>2, <1>3 DEF Busy
<1>5. ASSUME NEW u \in Tunnels \ {t}
      PROVE  JobAt(u)'
      BY <1>2, <1>4, JobFrame DEF JobInv, JobAt
<1>6. JobAt(t)'
  <2>1. Stage(t) # "link" \/ job[t].op = "apply"
    <3>1. CASE job[t].do = <<>>
          BY <3>1 DEF Stage
    <3>2. CASE job[t].do # <<>>
      <4>1. kind[t] \in Kinds /\ Stage(t) \in StagesOf(t)
            BY <3>2, StageKnown DEF JobInv
      <4> QED BY <4>1, StageSets DEF StagesOf, Kinds
    <3> QED BY <3>1, <3>2
  <2>2. \/ job[t].do # <<>> /\ do = Tail(job[t].do) /\ Stage(t) # "link"
        \/ do = <<>>
        BY <1>1, <2>1
  <2>3. JobAt(t)
        BY DEF JobInv
  <2>4. job[t].op = "mutate" => \A v \in Tunnels \ {t} : ~ Busy(v)'
        BY <1>4, <2>3 DEF JobAt
  <2> QED BY <1>3, <2>2, <2>3, <2>4, JobProgress
<1> QED BY <1>5, <1>6 DEF JobInv

LEMMA JobStep == TypeInv /\ ObjectInv /\ JobInv /\ [Next]_vars => JobInv'
<1> SUFFICES ASSUME TypeInv, ObjectInv, JobInv, [Next]_vars PROVE JobInv'
    OBVIOUS
<1>0. kind' = kind /\ \A t \in Tunnels : JobAt(t)
      BY KindKept DEF JobInv
<1>1. ASSUME NEW t \in Tunnels, NEW op \in {"apply", "remove", "mutate"}, NEW next,
             stored[t] # None, stored' = stored, kernel' = kernel, ~ Mutating,
             op = "mutate" => \A v \in Tunnels : ~ Busy(v),
             Start(t, op, IF op = "apply" THEN Applying[kind[t]] ELSE Removing[kind[t]], stored[t], next)
      PROVE  JobInv'
  <2>1. \A v \in Tunnels \ {t} : job'[v] = job[v] /\ (Busy(v)' <=> Busy(v))
        BY <1>1 DEF Start, TypeInv, Busy
  <2>2. JobAt(t)'
        BY <1>0, <1>1, <2>1, JobStarted
  <2>3. ASSUME NEW u \in Tunnels \ {t}
        PROVE  JobAt(u)'
    <3>1. job[u].op # "mutate"
          BY <1>1 DEF Mutating
    <3> QED BY <1>0, <1>1, <2>1, <3>1, JobFrame
  <2> QED BY <2>2, <2>3 DEF JobInv
<1>2. ASSUME NEW t \in Tunnels, StartReconcile(t)
      PROVE  JobInv'
  <2>1. stored' = stored /\ kernel' = kernel /\ ~ Mutating /\ stored[t] # None
        BY <1>2 DEF StartReconcile
  <2>2. \E op \in {"apply", "remove"} :
          Start(t, op, IF op = "apply" THEN Applying[kind[t]] ELSE Removing[kind[t]], stored[t], stored[t])
        BY <1>2 DEF StartReconcile
  <2> QED BY <1>1, <2>1, <2>2
<1>3. ASSUME NEW t \in Tunnels, Load(t)
      PROVE  JobInv'
  <2>1. PICK feed : job' = [job EXCEPT ![t] = Fed(job[t], feed, Tail(job[t].do))]
        BY <1>3, LoadJob
  <2>2. Stage(t) = "feed" /\ stored' = stored /\ kernel' = kernel
        BY <1>3 DEF Load
  <2>3. job[t].do # <<>> /\ Busy(t) /\ job[t].plan = {}
        BY <1>0, <2>2 DEF Stage, JobAt
  <2>4. job'[t] = Fed(job[t], feed, Tail(job[t].do)) /\ \A u \in Tunnels \ {t} : job'[u] = job[u]
        BY <2>1 DEF TypeInv
  <2>5. /\ job'[t].op = job[t].op /\ job'[t].rec = job[t].rec /\ job'[t].alone = job[t].alone
        /\ job'[t].do = Tail(job[t].do) /\ job'[t].plan = {}
        BY <2>3, <2>4, FedFields DEF TypeInv
  <2>6. \A u \in Tunnels : Busy(u)' <=> Busy(u)
        BY <2>4, <2>5 DEF Busy
  <2>7. \A u \in Tunnels : job[u].op = "mutate" => \A v \in Tunnels \ {u} : ~ Busy(v)'
        BY <1>0, <2>6 DEF JobAt
  <2>8. JobAt(t)'
        BY <1>0, <2>2, <2>3, <2>5, <2>7, JobProgress
  <2>9. \A u \in Tunnels \ {t} : JobAt(u)'
        BY <1>0, <2>2, <2>4, <2>7, JobFrame
  <2> QED BY <2>8, <2>9 DEF JobInv
<1>4. ASSUME NEW t \in Tunnels, List(t)
      PROVE  JobInv'
  <2>1. Stage(t) \notin {"feed", "end"} /\ job[t].plan = {} /\ stored' = stored /\ kernel' = kernel
        BY <1>4 DEF List
  <2>2. job[t].do # <<>> /\ Busy(t)
        BY <1>0, <2>1 DEF Stage, JobAt
  <2>3. CASE Refused(t)
        BY <1>0, <1>4, <2>1, <2>2, <2>3, JobFailed DEF List
  <2>4. CASE ~ Refused(t)
    <3> DEFINE do == IF Plan(t) = {} THEN Tail(job[t].do) ELSE job[t].do
    <3>1. job' = [job EXCEPT ![t] = Planned(job[t], Plan(t), do)]
          BY <1>4, <2>4, ListJob
    <3>2. job'[t] = Planned(job[t], Plan(t), do) /\ \A u \in Tunnels \ {t} : job'[u] = job[u]
          BY <3>1 DEF TypeInv
    <3>3. /\ job'[t].op = job[t].op /\ job'[t].rec = job[t].rec /\ job'[t].alone = job[t].alone
          /\ job'[t].do = do /\ job'[t].plan = Plan(t)
          BY <3>2, PlannedFields DEF TypeInv
    <3>4. \A u \in Tunnels : Busy(u)' <=> Busy(u)
          BY <3>2, <3>3 DEF Busy
    <3>5. \A u \in Tunnels : job[u].op = "mutate" => \A v \in Tunnels \ {u} : ~ Busy(v)'
          BY <1>0, <3>4 DEF JobAt
    <3>6. \A c \in Plan(t) : Fits(t, c)
          BY <1>0, <2>2, <2>4, PlanFits
    <3>7. Stage(t) = "link" => \A o \in LinkOf(t) : o.tag # "user"
          BY <2>4 DEF Refused, Strange
    <3>8. Stage(t) \in {"preflight", "observe"} => Plan(t) = {}
          BY DEF Plan
    <3>9. JobAt(t)'
          BY <1>0, <2>1, <2>2, <3>3, <3>5, <3>6, <3>7, <3>8, JobProgress DEF Fits
    <3>10. \A u \in Tunnels \ {t} : JobAt(u)'
          BY <1>0, <2>1, <3>2, <3>5, JobFrame
    <3> QED BY <3>9, <3>10 DEF JobInv
  <2> QED BY <2>3, <2>4
<1>5. ASSUME NEW t \in Tunnels, Do(t)
      PROVE  JobInv'
  <2>1. stored' = stored
        BY <1>5 DEF Do
  <2>2. PICK c \in job[t].plan :
          \/ job' = Failed(t) /\ kernel' = kernel
          \/ Effect(t, c) /\ job' = Disturbed(Made(t, c), t)
        BY <1>5 DEF Do, Due
  <2>3. job[t].do # <<>> /\ Busy(t) /\ Stage(t) \notin {"feed", "preflight", "observe"}
        BY <1>0, <2>2 DEF JobAt
  <2>4. CASE job' = Failed(t) /\ kernel' = kernel
        BY <1>0, <2>1, <2>3, <2>4, JobFailed
  <2>5. CASE Effect(t, c) /\ job' = Disturbed(Made(t, c), t)
    <3> DEFINE rest == job[t].plan \ {c}
               do == IF rest = {} THEN Tail(job[t].do) ELSE job[t].do
    <3>1. job'[t] = Planned(job[t], rest, do) /\ \A u \in Tunnels \ {t} : job'[u] = Shaken(job[u])
          BY <2>5, MadeJob
    <3>2. /\ job'[t].op = job[t].op /\ job'[t].rec = job[t].rec /\ job'[t].alone = job[t].alone
          /\ job'[t].do = do /\ job'[t].plan = rest
          BY <3>1, PlannedFields DEF TypeInv
    <3>3. \A u \in Tunnels \ {t} : job'[u].op = job[u].op
          BY <3>1, ShakenFields DEF TypeInv
    <3>4. \A u \in Tunnels : Busy(u)' <=> Busy(u)
          BY <3>2, <3>3 DEF Busy
    <3>5. \A u \in Tunnels : job[u].op = "mutate" => \A v \in Tunnels \ {u} : ~ Busy(v)'
          BY <1>0, <3>4 DEF JobAt
    <3>6. \A o \in kernel' \ kernel : o.tag # "user"
          BY <1>0, <2>3, <2>5, EffectAdds DEF MayAdd
    <3>7. Stage(t) = "link" => \A o \in LinkOf(t) : o.tag # "user"
          BY <1>0, <2>2 DEF JobAt, Careful
    <3>8. \A d \in rest : /\ CallFits(t, d)
                          /\ Stage(t) = "link" => d.o.part = "link"
                          /\ d.o.part = "link" => \A o \in LinkOf(t) : o.tag # "user"
                          /\ job[t].alone /\ d.do = "replace" => \A o \in kernel : SameKey(o, d.o) => o.tag # "user"
          BY <1>0 DEF JobAt, Careful
    <3>9. JobAt(t)'
          BY <1>0, <2>1, <2>3, <3>2, <3>5, <3>6, <3>7, <3>8, JobProgress
    <3>10. \A u \in Tunnels \ {t} : JobAt(u)'
          BY <1>0, <2>1, <3>1, <3>5, <3>6, JobFrame
    <3> QED BY <3>9, <3>10 DEF JobInv
  <2> QED BY <2>2, <2>4, <2>5
<1>6. ASSUME NEW t \in Tunnels, Fail(t)
      PROVE  JobInv'
  <2>1. Busy(t)
        BY <1>0, <1>6 DEF Fail, JobAt
  <2> QED BY <1>0, <1>6, <2>1, JobFailed DEF Fail
<1>7. ASSUME NEW t \in Tunnels, End(t)
      PROVE  JobInv'
  <2>1. job'[t] = Idle /\ kernel' = kernel /\ \A u \in Tunnels \ {t} : job'[u] = job[u]
        BY <1>7 DEF End, TypeInv
  <2>2. \A u \in Tunnels \ {t} : stored'[u] = stored[u]
        BY <1>7 DEF End, TypeInv
  <2>3. JobAt(t)' /\ ~ Busy(t)'
        BY <2>1, JobIdle
  <2>4. \A u \in Tunnels : job[u].op = "mutate" => \A v \in Tunnels \ {u} : ~ Busy(v)'
        BY <1>0, <2>1, <2>3 DEF JobAt, Busy
  <2>5. \A u \in Tunnels \ {t} : JobAt(u)'
        BY <1>0, <2>1, <2>2, <2>4, JobFrame
  <2> QED BY <2>3, <2>5 DEF JobInv
<1>8. ASSUME NEW t \in Tunnels, Write(t)
      PROVE  JobInv'
  <2>1. (\A v \in Tunnels : ~ Busy(v)) /\ kernel' = kernel
        BY <1>8 DEF Write, Quiet
  <2>2. ~ Mutating
        BY <2>1 DEF Mutating, Busy
  <2>3. PICK rec :
          \/ stored[t] # None /\ Start(t, "mutate", Removing[kind[t]], stored[t], rec) /\ UNCHANGED stored
          \/ stored' = [stored EXCEPT ![t] = rec] /\ UNCHANGED job
        BY <1>8 DEF Write
  <2>4. CASE stored[t] # None /\ Start(t, "mutate", Removing[kind[t]], stored[t], rec) /\ UNCHANGED stored
        BY <1>1, <2>1, <2>2, <2>4
  <2>5. CASE stored' = [stored EXCEPT ![t] = rec] /\ UNCHANGED job
    <3>1. \A u \in Tunnels : job'[u] = job[u] /\ job[u].op # "mutate"
          BY <2>1, <2>5 DEF Busy
    <3>2. \A u \in Tunnels : JobAt(u)'
          BY <1>0, <2>1, <3>1, JobFrame
    <3> QED BY <3>2 DEF JobInv
  <2> QED BY <2>3, <2>4, <2>5
<1>9. ASSUME NEW t \in Tunnels, Delete(t)
      PROVE  JobInv'
  <2>1. (\A v \in Tunnels : ~ Busy(v)) /\ kernel' = kernel /\ stored' = stored /\ stored[t] # None
        /\ Start(t, "mutate", Removing[kind[t]], stored[t], None)
        BY <1>9 DEF Delete, Quiet
  <2>2. ~ Mutating
        BY <2>1 DEF Mutating, Busy
  <2> QED BY <1>1, <2>1, <2>2
<1>10. ASSUME stored' = stored, job' = AllDisturbed,
              \A o \in kernel' \ kernel : o.tag = "user" =>
                \A u \in Tunnels : o.part = "link" /\ o.of = u => ~ Busy(u)
       PROVE  JobInv'
  <2>1. \A u \in Tunnels : job'[u] = Shaken(job[u])
        BY <1>10, ShakenJobs
  <2>2. \A u \in Tunnels : job'[u].op = job[u].op /\ ~ job'[u].alone
        BY <2>1, ShakenFields DEF TypeInv
  <2>3. \A u \in Tunnels : job[u].op = "mutate" => \A v \in Tunnels \ {u} : ~ Busy(v)'
        BY <1>0, <2>2 DEF JobAt, Busy
  <2>4. \A u \in Tunnels : JobAt(u)'
        BY <1>0, <1>10, <2>1, <2>2, <2>3, JobFrame
  <2> QED BY <2>4 DEF JobInv
<1>11. ASSUME NEW t \in Tunnels, User(t)
       PROVE  JobInv'
  <2>1. PICK o \in UserObjects(t) : kernel' = kernel \cup {o}
        BY <1>11 DEF User
  <2>2. kind[t] # None /\ stored' = stored /\ job' = AllDisturbed
        BY <1>11 DEF User
  <2>3. o.of = t /\ (o.part = "link" => ~ Busy(t))
        BY <2>2, UserObject
  <2> QED BY <1>10, <2>1, <2>2, <2>3
<1>12. CASE Vanish
  <2>1. kernel' \subseteq kernel /\ stored' = stored /\ job' = AllDisturbed
        BY <1>12 DEF Vanish, Deleted
  <2> QED BY <1>10, <2>1
<1>13. CASE Crash
  <2>1. \A u \in Tunnels : job'[u] = Idle
        BY <1>13 DEF Crash
  <2> QED BY <2>1, JobIdle DEF JobInv
<1>14. CASE UNCHANGED vars
  <2>1. kernel' = kernel /\ stored' = stored /\ job' = job
        BY <1>14 DEF vars
  <2>2. \A u \in Tunnels : job[u].op = "mutate" => \A v \in Tunnels \ {u} : ~ Busy(v)'
        BY <1>0, <2>1 DEF JobAt, Busy
  <2>3. \A u \in Tunnels : JobAt(u)'
        BY <1>0, <2>1, <2>2, JobFrame
  <2> QED BY <2>3 DEF JobInv
<1> QED BY <1>2, <1>3, <1>4, <1>5, <1>6, <1>7, <1>8, <1>9, <1>11, <1>12, <1>13, <1>14 DEF Next

-----------------------------------------------------------------------------
(* Removals.                                                               *)

LEMMA RemovesBusy ==
  ASSUME TypeInv, NEW t \in Tunnels, JobAt(t), Removes(t)
  PROVE  /\ Busy(t) /\ Whole(t) = Removing[kind[t]] /\ kind[t] \in Kinds
         /\ job[t].do # <<>> => Stage(t) \in RemoveStages(kind[t]) /\ Stage(t) \in Stages
<1>1. Busy(t) /\ job[t].op # "apply"
      BY DEF Removes, Busy
<1>2. kind[t] \in Kinds /\ Whole(t) = Removing[kind[t]]
      BY <1>1, SpecType DEF Whole
<1>3. job[t].do # <<>> => Stage(t) \in RemoveStages(kind[t])
      BY <1>1, StageKnown DEF StagesOf
<1>4. RemoveStages(kind[t]) \subseteq Stages
      BY <1>2, StageSets DEF Kinds, Stages
<1> QED BY <1>1, <1>2, <1>3, <1>4

\* Nothing comes that a removal has to take away, unless a key is loaded again.
LEMMA TargetsShrink ==
  ASSUME NEW t \in Tunnels, kind' = kind,
         job'[t].op = job[t].op, job'[t].rec = job[t].rec, job'[t].alone => job[t].alone,
         \A o \in kernel' \ kernel : o.of = t => o.part = "key" \/ (o.tag = "user" /\ o.part # "link"),
         \A o \in kernel' \ kernel : o.part = "key" => ~ job'[t].alone /\ job[t].op # "mutate"
  PROVE  /\ \A stage \in Stages : Targets(t, stage)' \subseteq Targets(t, stage)
         /\ Strange(t)' => Strange(t)
<1>1. ASSUME NEW part, part # "key"
      PROVE  Mine(t, part)' \subseteq Mine(t, part)
      BY <1>1 DEF Mine
<1>2. LinkOf(t)' \subseteq LinkOf(t)
      BY DEF LinkOf
<1>3. job'[t].alone \/ job[t].op = "mutate" => LoadedKey(Spec(t))' \subseteq LoadedKey(Spec(t))
  <2>1. Spec(t)' = Spec(t) /\ PrivateKeyOf(Spec(t))' = PrivateKeyOf(Spec(t))
        BY DEF Spec, PrivateKeyOf, Obj
  <2>2. PrivateKeyOf(Spec(t)).part = "key"
        BY KeyObject
  <2> QED BY <2>1, <2>2 DEF LoadedKey
<1>4. ASSUME NEW stage \in Stages
      PROVE  Targets(t, stage)' \subseteq Targets(t, stage)
  <2>1. CASE stage = "unroute"
        BY <1>1, <2>1 DEF Targets
  <2>2. CASE stage = "unrule"
        BY <1>1, <2>2 DEF Targets
  <2>3. CASE stage = "unstate"
    <3>1. Mine(t, "state")' \subseteq Mine(t, "state") /\ Mine(t, "policy")' \subseteq Mine(t, "policy")
          BY <1>1
    <3> QED BY <2>3, <3>1 DEF Targets
  <2>4. CASE stage = "unsa"
        BY <1>1, <2>4 DEF Targets
  <2>5. CASE stage = "unconn"
        BY <1>1, <2>5 DEF Targets
  <2>6. CASE stage = "unshared"
        BY <1>1, <2>6 DEF Targets
  <2>7. CASE stage = "unkey"
        BY <1>3, <2>7 DEF Targets
  <2>8. CASE stage = "unlink"
        BY <1>2, <2>8 DEF Targets
  <2> QED BY <2>1, <2>2, <2>3, <2>4, <2>5, <2>6, <2>7, <2>8 DEF Stages
<1> QED BY <1>2, <1>4 DEF Strange

\* What others do leaves a removal as it is.
LEMMA RemovalFrame ==
  ASSUME TypeInv, NEW u \in Tunnels, JobAt(u), RemovalAt(u), kind' = kind,
         job'[u] = job[u] \/ job'[u] = Shaken(job[u]),
         \A o \in kernel' \ kernel : o.of = u /\ Busy(u) => o.part = "key" \/ (o.tag = "user" /\ o.part # "link"),
         \A o \in kernel' \ kernel : o.part = "key" => ~ job'[u].alone /\ job[u].op # "mutate"
  PROVE  RemovalAt(u)'
<1>1. /\ job'[u].op = job[u].op /\ job'[u].do = job[u].do /\ job'[u].plan = job[u].plan
      /\ job'[u].rec = job[u].rec /\ job'[u].err = job[u].err /\ (job'[u].alone => job[u].alone)
      BY ShakenFields DEF TypeInv
<1>2. SUFFICES ASSUME Removes(u) PROVE RemovalAt(u)'
      BY <1>1 DEF RemovalAt, Removes
<1>3. Busy(u) /\ (job[u].do # <<>> => Stage(u) \in Stages)
      BY <1>2, RemovesBusy
<1>4. /\ \A stage \in Stages : Targets(u, stage)' \subseteq Targets(u, stage)
      /\ Strange(u)' => Strange(u)
      BY <1>1, <1>3, TargetsShrink
<1>5. (\A stage : Over(u, stage)' <=> Over(u, stage)) /\ Stage(u)' = Stage(u)
      BY <1>1 DEF Over, Stage
<1>6. job[u].plan # {} => job[u].do # <<>>
      BY DEF JobAt
<1> QED BY <1>1, <1>2, <1>3, <1>4, <1>5, <1>6 DEF RemovalAt

\* A stage is over when it is the last one or was over before.
LEMMA OverTail ==
  ASSUME TypeInv, NEW t \in Tunnels, JobAt(t), Removes(t), job[t].do # <<>>, kind' = kind,
         job'[t].do = Tail(job[t].do)
  PROVE  \A stage : Over(t, stage)' => Over(t, stage) \/ stage = Stage(t)
<1> DEFINE w == Removing[kind[t]]
<1>1. Whole(t) = w /\ Busy(t)
      BY RemovesBusy
<1>2. PICK i \in 1..Len(w) : /\ Len(job[t].do) = Len(w) - i + 1 /\ Stage(t) = w[i]
                             /\ Len(Tail(job[t].do)) = Len(w) - i
      BY <1>1, StageKnown
<1>3. Len(w) \in Nat
      BY <1>1, StageKnown
<1>4. Len(w) - Len(job[t].do) = i - 1 /\ Len(w) - Len(Tail(job[t].do)) = i
      BY <1>2, <1>3
<1> HIDE DEF w
<1>5. \A stage : Over(t, stage) <=> \E k \in 1..(i - 1) : w[k] = stage
      BY <1>4 DEF Over, w
<1>6. \A stage : Over(t, stage)' <=> \E k \in 1..i : w[k] = stage
      BY <1>4 DEF Over, w
<1> QED BY <1>2, <1>5, <1>6

\* A removal goes on.
LEMMA RemovalProgress ==
  ASSUME TypeInv, NEW t \in Tunnels, JobAt(t), RemovalAt(t), Removes(t), kind' = kind, job[t].do # <<>>,
         job'[t].op = job[t].op, job'[t].rec = job[t].rec, job'[t].err = job[t].err, job'[t].alone => job[t].alone,
         kernel' \subseteq kernel,
         NEW now, now = Stage(t),
         \/ /\ job'[t].do = job[t].do
            /\ \A c \in job'[t].plan : c.do = "del"
            /\ \A o \in Targets(t, now)' : \E c \in job'[t].plan : c.o = o
         \/ job'[t].do = Tail(job[t].do) /\ job'[t].plan = {} /\ Targets(t, now)' = {},
         now = "unroute" => ~ Strange(t) \/ kind[t] = "srv6"
  PROVE  RemovalAt(t)'
<1>1. /\ \A stage \in Stages : Targets(t, stage)' \subseteq Targets(t, stage)
      /\ Strange(t)' => Strange(t)
      BY TargetsShrink
<1>2. Stage(t) \in Stages
      BY RemovesBusy
<1>3. CASE job'[t].do = job[t].do /\ (\A c \in job'[t].plan : c.do = "del")
           /\ (\A o \in Targets(t, now)' : \E c \in job'[t].plan : c.o = o)
  <2>1. (\A stage : Over(t, stage)' <=> Over(t, stage)) /\ Stage(t)' = now
        BY <1>3 DEF Over, Stage
  <2>2. \A stage \in Stages : Over(t, stage)' => Targets(t, stage)' = {}
        BY <1>1, <2>1 DEF RemovalAt
  <2>3. Targets(t, Stage(t))' = Targets(t, now)'
        BY <2>1 DEF Targets, Mine, LoadedKey, Spec, LinkOf
  <2>4. \A o \in Targets(t, Stage(t))' : \E c \in job'[t].plan : c.o = o
        BY <1>3, <2>3
  <2>5. Over(t, "unroute")' \/ (job'[t].plan # {} /\ Stage(t)' = "unroute") => ~ Strange(t)' \/ kind'[t] = "srv6"
        BY <1>1, <2>1 DEF RemovalAt
  <2> QED BY <1>3, <2>2, <2>4, <2>5 DEF RemovalAt
<1>4. CASE job'[t].do = Tail(job[t].do) /\ job'[t].plan = {} /\ Targets(t, now)' = {}
  <2>1. \A stage : Over(t, stage)' => Over(t, stage) \/ stage = now
        BY <1>4, OverTail
  <2>2. \A stage \in Stages : Over(t, stage)' => Targets(t, stage)' = {}
        BY <1>1, <1>4, <2>1 DEF RemovalAt
  <2>3. Over(t, "unroute")' => ~ Strange(t)' \/ kind'[t] = "srv6"
        BY <1>1, <2>1 DEF RemovalAt
  <2> QED BY <1>4, <2>2, <2>3 DEF RemovalAt
<1> QED BY <1>3, <1>4

\* The calls of a stage that removes are about all there is to remove.
LEMMA PlanCovers ==
  ASSUME TypeInv, ObjectInv, NEW t \in Tunnels, JobAt(t), RemovalAt(t), Removes(t),
         job[t].do # <<>>, ~ Refused(t)
  PROVE  /\ \A c \in Plan(t) : c.do = "del"
         /\ \A o \in Targets(t, Stage(t)) : \E c \in Plan(t) : c.o = o
<1> DEFINE Covers(objects) == \A o \in objects : \E c \in Plan(t) : c.o = o
           Deletes == \A c \in Plan(t) : c.do = "del"
<1>1. Stage(t) \in Stages /\ Stage(t) \in RemoveStages(kind[t]) /\ kind[t] \in Kinds /\ Busy(t)
      /\ Whole(t) = Removing[kind[t]]
      BY RemovesBusy
<1>2. ASSUME NEW objects, Plan(t) = Calls(1, "del", objects)
      PROVE  Deletes /\ Covers(objects)
      BY <1>2, CallsFields, CallsHave
<1>3. CASE Stage(t) = "unroute"
  <2>1. Plan(t) = Calls(1, "del", RoutesToRemove(t, Spec(t)))
        BY <1>3 DEF Plan
  <2>2. Targets(t, "unroute") \subseteq RoutesToRemove(t, Spec(t))
        BY DEF Targets, RoutesToRemove
  <2> QED BY <1>2, <1>3, <2>1, <2>2
<1>4. CASE Stage(t) = "unrule"
  <2>1. Plan(t) = Calls(1, "del", RulesToRemove(t))
        BY <1>4 DEF Plan
  <2>2. kind[t] \in {"wg", "srv6"}
        BY <1>1, <1>4, StageSets DEF Kinds
  <2>3. ~ Strange(t)
    <3>1. CASE kind[t] = "wg"
      <4>1. Removing[kind[t]] = <<"unroute", "unrule", "unlink">>
            BY <3>1, KindStages
      <4> DEFINE w == Removing[kind[t]]
      <4>0. PICK i \in 1..Len(w) : Len(job[t].do) = Len(w) - i + 1 /\ Stage(t) = w[i]
            BY <1>1, StageKnown
      <4>2. i \in 1..3 /\ Len(job[t].do) = 3 - i + 1 /\ Stage(t) = <<"unroute", "unrule", "unlink">>[i]
            BY <4>0, <4>1
      <4>3. i = 2
            BY <1>4, <4>2
      <4>4. Len(Removing[kind[t]]) - Len(job[t].do) = 1
            BY <4>1, <4>2, <4>3
      <4>5. Over(t, "unroute")
            BY <4>1, <4>4 DEF Over
      <4> QED BY <3>1, <4>5 DEF RemovalAt
    <3>2. CASE kind[t] = "srv6"
      <4>1. SUFFICES ASSUME NEW o \in LinkOf(t) PROVE FALSE
            BY DEF Strange
      <4>2. o.part = "link" /\ o.of = t /\ ObjectAt(o)
            BY LinkObjects
      <4> QED BY <3>2, <4>2, PartsKnown DEF ObjectAt
    <3> QED BY <2>2, <3>1, <3>2
  <2>4. Targets(t, "unrule") = RulesToRemove(t)
        BY <2>3 DEF Targets, RulesToRemove
  <2> QED BY <1>2, <1>4, <2>1, <2>4
<1>5. CASE Stage(t) = "unstate"
  <2> DEFINE states == Calls(1, "del", Mine(t, "state"))
             policies == Calls(2, "del", Mine(t, "policy"))
  <2>1. Plan(t) = states \cup policies
        BY <1>5 DEF Plan
  <2>2. (\A c \in states : c.do = "del") /\ (\A c \in policies : c.do = "del")
        BY CallsFields
  <2>3. /\ \A o \in Mine(t, "state") : \E c \in states : c.o = o
        /\ \A o \in Mine(t, "policy") : \E c \in policies : c.o = o
        BY CallsHave
  <2>4. Targets(t, "unstate") = Mine(t, "state") \cup Mine(t, "policy")
        BY DEF Targets
  <2> HIDE DEF states, policies
  <2> QED BY <1>5, <2>1, <2>2, <2>3, <2>4
<1>6. CASE Stage(t) = "unsa"
  <2>1. Plan(t) = Calls(1, "del", Mine(t, "sa")) /\ Targets(t, "unsa") = Mine(t, "sa")
        BY <1>6 DEF Plan, Targets
  <2> QED BY <1>2, <1>6, <2>1
<1>7. CASE Stage(t) = "unconn"
  <2>1. Plan(t) = Calls(1, "del", Mine(t, "conn")) /\ Targets(t, "unconn") = Mine(t, "conn")
        BY <1>7 DEF Plan, Targets
  <2> QED BY <1>2, <1>7, <2>1
<1>8. CASE Stage(t) = "unshared"
  <2>1. Plan(t) = Calls(1, "del", Mine(t, "shared")) /\ Targets(t, "unshared") = Mine(t, "shared")
        BY <1>8 DEF Plan, Targets
  <2> QED BY <1>2, <1>8, <2>1
<1>9. CASE Stage(t) = "unkey"
  <2>1. Plan(t) = Calls(1, "del", LoadedKey(Spec(t)))
        BY <1>9 DEF Plan
  <2>2. Targets(t, "unkey") \subseteq LoadedKey(Spec(t))
        BY DEF Targets
  <2> QED BY <1>2, <1>9, <2>1, <2>2
<1>10. CASE Stage(t) = "unlink"
  <2>1. Plan(t) = Calls(1, "del", LinkOf(t)) /\ Targets(t, "unlink") = LinkOf(t)
        BY <1>10 DEF Plan, Targets
  <2> QED BY <1>2, <1>10, <2>1
<1> QED BY <1>1, <1>3, <1>4, <1>5, <1>6, <1>7, <1>8, <1>9, <1>10 DEF Stages

LEMMA RemovalStarted ==
  ASSUME TypeInv, NEW t \in Tunnels, NEW op \in {"apply", "remove", "mutate"}, NEW next, kind' = kind,
         Start(t, op, IF op = "apply" THEN Applying[kind[t]] ELSE Removing[kind[t]], stored[t], next)
  PROVE  RemovalAt(t)'
<1> DEFINE do == IF op = "apply" THEN Applying[kind[t]] ELSE Removing[kind[t]]
<1>1. job'[t] = Started(op, do, stored[t], next)
      BY DEF Start, Started, TypeInv
<1>2. job'[t].op = op /\ job'[t].do = do /\ job'[t].plan = {}
      BY <1>1, StartedFields DEF Ops
<1>3. CASE op = "apply"
      BY <1>2, <1>3 DEF RemovalAt, Removes
<1>4. CASE op # "apply"
  <2>1. job'[t].do = Removing[kind'[t]]
        BY <1>2, <1>4
  <2>2. \A n : n \in 1..Len(Removing[kind'[t]]) - Len(job'[t].do) => FALSE
        BY <2>1
  <2>3. \A stage : ~ Over(t, stage)'
        BY <2>2 DEF Over
  <2> QED BY <1>2, <2>3 DEF RemovalAt
<1> QED BY <1>3, <1>4

LEMMA RemovalFailed ==
  ASSUME TypeInv, JobInv, RemovalInv, NEW t \in Tunnels, Busy(t), kind' = kind, kernel' = kernel,
         job' = Failed(t)
  PROVE  RemovalInv'
<1>1. PICK do : Failed(t) = [job EXCEPT ![t] = Broken(job[t], do)]
      BY FailedJob
<1>2. job'[t] = Broken(job[t], do) /\ \A u \in Tunnels \ {t} : job'[u] = job[u]
      BY <1>1 DEF TypeInv
<1>3. RemovalAt(t)'
  <2>1. job'[t].err
        BY <1>2, BrokenFields DEF TypeInv
  <2> QED BY <2>1 DEF RemovalAt, Removes
<1>4. ASSUME NEW u \in Tunnels \ {t}
      PROVE  RemovalAt(u)'
      BY <1>2, RemovalFrame DEF JobInv, RemovalInv
<1> QED BY <1>3, <1>4 DEF RemovalInv

\* A list that is not refused.
LEMMA RemovalListed ==
  ASSUME TypeInv, ObjectInv, JobInv, RemovalInv, NEW t \in Tunnels, List(t), ~ Refused(t), kind' = kind
  PROVE  RemovalInv'
<1> DEFINE do == IF Plan(t) = {} THEN Tail(job[t].do) ELSE job[t].do
<1>0. JobAt(t) /\ RemovalAt(t)
      BY DEF JobInv, RemovalInv
<1>1. Stage(t) \notin {"feed", "end"} /\ kernel' = kernel
      BY DEF List
<1>2. job[t].do # <<>> /\ Busy(t)
      BY <1>0, <1>1 DEF Stage, JobAt
<1>3. job'[t] = Planned(job[t], Plan(t), do) /\ \A u \in Tunnels \ {t} : job'[u] = job[u]
      BY ListJob DEF TypeInv
<1>4. /\ job'[t].op = job[t].op /\ job'[t].rec = job[t].rec /\ job'[t].alone = job[t].alone
      /\ job'[t].do = do /\ job'[t].plan = Plan(t) /\ job'[t].err = job[t].err
      BY <1>3, PlannedFields DEF TypeInv
<1>5. RemovalAt(t)'
  <2>1. CASE ~ Removes(t)
        BY <1>4, <2>1 DEF RemovalAt, Removes
  <2>2. CASE Removes(t)
    <3>0. PICK now : now = Stage(t)
          OBVIOUS
    <3>1. now \in Stages
          BY <1>0, <1>2, <2>2, <3>0, RemovesBusy
    <3>2. \A stage \in Stages : Targets(t, stage)' \subseteq Targets(t, stage)
          BY <1>1, <1>4, TargetsShrink
    <3>3. (\A c \in Plan(t) : c.do = "del") /\ \A o \in Targets(t, now) : \E c \in Plan(t) : c.o = o
          BY <1>0, <1>2, <2>2, <3>0, PlanCovers
    <3>4. now = "unroute" => ~ Strange(t)
          BY <3>0 DEF Refused
    <3>5. \A o \in Targets(t, now)' : \E c \in job'[t].plan : c.o = o
          BY <1>4, <3>1, <3>2, <3>3
    <3>7. CASE Plan(t) = {}
      <4>1. job'[t].do = Tail(job[t].do) /\ job'[t].plan = {} /\ Targets(t, now)' = {}
            BY <1>4, <3>5, <3>7
      <4> QED BY <1>0, <1>1, <1>2, <1>4, <2>2, <3>4, <3>0, <4>1, RemovalProgress
    <3>8. CASE Plan(t) # {}
      <4>1. job'[t].do = job[t].do /\ \A c \in job'[t].plan : c.do = "del"
            BY <1>4, <3>3, <3>8
      <4> QED BY <1>0, <1>1, <1>2, <1>4, <2>2, <3>4, <3>5, <3>0, <4>1, RemovalProgress
    <3> QED BY <3>7, <3>8
  <2> QED BY <2>1, <2>2
<1>6. ASSUME NEW u \in Tunnels \ {t}
      PROVE  RemovalAt(u)'
      BY <1>1, <1>3, RemovalFrame DEF JobInv, RemovalInv
<1> QED BY <1>5, <1>6 DEF RemovalInv

LEMMA DeletedShrinks ==
  ASSUME NEW o, kernel' = Deleted(o)
  PROVE  kernel' \subseteq kernel /\ o \notin kernel'
BY DEF Deleted, Hanging

\* A call that is made.
LEMMA RemovalCalled ==
  ASSUME TypeInv, ObjectInv, JobInv, RemovalInv, NEW t \in Tunnels, NEW c \in job[t].plan, kind' = kind,
         Effect(t, c), job' = Disturbed(Made(t, c), t)
  PROVE  RemovalInv'
<1> DEFINE rest == job[t].plan \ {c}
           do == IF rest = {} THEN Tail(job[t].do) ELSE job[t].do
<1>0. JobAt(t) /\ RemovalAt(t)
      BY DEF JobInv, RemovalInv
<1>1. job[t].do # <<>> /\ Busy(t)
      BY <1>0 DEF JobAt
<1>2. job'[t] = Planned(job[t], rest, do) /\ \A u \in Tunnels \ {t} : job'[u] = Shaken(job[u])
      BY MadeJob
<1>3. /\ job'[t].op = job[t].op /\ job'[t].rec = job[t].rec /\ job'[t].alone = job[t].alone
      /\ job'[t].do = do /\ job'[t].plan = rest /\ job'[t].err = job[t].err
      BY <1>2, PlannedFields DEF TypeInv
<1>4. RemovalAt(t)'
  <2>1. CASE ~ Removes(t)
        BY <1>3, <2>1 DEF RemovalAt, Removes
  <2>2. CASE Removes(t)
    <3>0. PICK now : now = Stage(t)
          OBVIOUS
    <3>1. now \in Stages
          BY <1>0, <1>1, <2>2, <3>0, RemovesBusy
    <3>2. /\ \A d \in job[t].plan : d.do = "del"
          /\ \A o \in Targets(t, now) : \E d \in job[t].plan : d.o = o
          /\ now = "unroute" => ~ Strange(t) \/ kind[t] = "srv6"
          BY <1>0, <2>2, <3>0 DEF RemovalAt
    <3>3. kernel' \subseteq kernel /\ c.o \notin kernel'
      <4>1. kernel' = Deleted(c.o)
            BY <3>2 DEF Effect
      <4> QED BY <4>1, DeletedShrinks
    <3>4. \A stage \in Stages : Targets(t, stage)' \subseteq Targets(t, stage)
          BY <1>3, <3>3, TargetsShrink
    <3>5. \A stage \in Stages : Targets(t, stage)' \subseteq kernel'
          BY DEF Stages, Targets, Mine, LinkOf, LoadedKey
    <3>6. \A o \in Targets(t, now)' : \E d \in rest : d.o = o
          BY <3>1, <3>2, <3>3, <3>4, <3>5
    <3>8. CASE rest = {}
      <4>1. job'[t].do = Tail(job[t].do) /\ job'[t].plan = {} /\ Targets(t, now)' = {}
            BY <1>3, <3>6, <3>8
      <4> QED BY <1>0, <1>1, <1>3, <2>2, <3>2, <3>0, <3>3, <4>1, RemovalProgress
    <3>9. CASE rest # {}
      <4>1. /\ job'[t].do = job[t].do /\ \A d \in job'[t].plan : d.do = "del"
            /\ \A o \in Targets(t, now)' : \E d \in job'[t].plan : d.o = o
            BY <1>3, <3>2, <3>6, <3>9
      <4> QED BY <1>0, <1>1, <1>3, <2>2, <3>2, <3>0, <3>3, <4>1, RemovalProgress
    <3> QED BY <3>8, <3>9
  <2> QED BY <2>1, <2>2
<1>5. ASSUME NEW u \in Tunnels \ {t}
      PROVE  RemovalAt(u)'
  <2>1. JobAt(u) /\ RemovalAt(u)
        BY DEF JobInv, RemovalInv
  <2>2. \A o \in kernel' \ kernel : MayAdd(t, o)
        BY <1>0, <1>1, EffectAdds
  <2>3. job[u].op # "mutate"
        BY <1>1, <2>1 DEF JobAt
  <2>4. ~ job'[u].alone
        BY <1>2, ShakenFields DEF TypeInv
  <2>5. \A o \in kernel' \ kernel : o.of = u /\ Busy(u) => o.part = "key"
        BY <2>2 DEF MayAdd
  <2> QED BY <1>2, <2>1, <2>3, <2>4, <2>5, RemovalFrame
<1> QED BY <1>4, <1>5 DEF RemovalInv

LEMMA RemovalStep == TypeInv /\ ObjectInv /\ JobInv /\ RemovalInv /\ [Next]_vars => RemovalInv'
<1> SUFFICES ASSUME TypeInv, ObjectInv, JobInv, RemovalInv, [Next]_vars PROVE RemovalInv'
    OBVIOUS
<1>0. kind' = kind /\ \A t \in Tunnels : JobAt(t) /\ RemovalAt(t)
      BY KindKept DEF JobInv, RemovalInv
<1>1. ASSUME NEW t \in Tunnels, NEW op \in {"apply", "remove", "mutate"}, NEW next, kernel' = kernel,
             Start(t, op, IF op = "apply" THEN Applying[kind[t]] ELSE Removing[kind[t]], stored[t], next)
      PROVE  RemovalInv'
  <2>1. \A v \in Tunnels \ {t} : job'[v] = job[v]
        BY <1>1 DEF Start, TypeInv
  <2>2. RemovalAt(t)'
        BY <1>0, <1>1, RemovalStarted
  <2>3. ASSUME NEW u \in Tunnels \ {t}
        PROVE  RemovalAt(u)'
        BY <1>0, <1>1, <2>1, RemovalFrame
  <2> QED BY <2>2, <2>3 DEF RemovalInv
<1>2. ASSUME NEW t \in Tunnels, StartReconcile(t)
      PROVE  RemovalInv'
  <2>1. kernel' = kernel
        BY <1>2 DEF StartReconcile
  <2>2. \E op \in {"apply", "remove"} :
          Start(t, op, IF op = "apply" THEN Applying[kind[t]] ELSE Removing[kind[t]], stored[t], stored[t])
        BY <1>2 DEF StartReconcile
  <2> QED BY <1>1, <2>1, <2>2
<1>3. ASSUME NEW t \in Tunnels, Load(t)
      PROVE  RemovalInv'
  <2>1. PICK feed : job' = [job EXCEPT ![t] = Fed(job[t], feed, Tail(job[t].do))]
        BY <1>3, LoadJob
  <2>2. Stage(t) = "feed" /\ kernel' = kernel
        BY <1>3 DEF Load
  <2>3. job'[t] = Fed(job[t], feed, Tail(job[t].do)) /\ \A u \in Tunnels \ {t} : job'[u] = job[u]
        BY <2>1 DEF TypeInv
  <2>4. ~ Removes(t)
    <3>1. job[t].do # <<>> /\ "feed" \notin Stages
          BY <2>2 DEF Stage, Stages
    <3> QED BY <1>0, <2>2, <3>1, RemovesBusy
  <2>5. job'[t].op = job[t].op /\ job'[t].err = job[t].err
        BY <2>3, FedFields DEF TypeInv
  <2>6. RemovalAt(t)'
        BY <2>4, <2>5 DEF RemovalAt, Removes
  <2>7. ASSUME NEW u \in Tunnels \ {t}
        PROVE  RemovalAt(u)'
        BY <1>0, <2>2, <2>3, RemovalFrame
  <2> QED BY <2>6, <2>7 DEF RemovalInv
<1>4. ASSUME NEW t \in Tunnels, List(t)
      PROVE  RemovalInv'
  <2>1. CASE Refused(t)
    <3>1. job' = Failed(t) /\ kernel' = kernel /\ Stage(t) # "end"
          BY <1>4, <2>1 DEF List
    <3>2. Busy(t)
          BY <1>0, <3>1 DEF Stage, JobAt
    <3> QED BY <1>0, <3>1, <3>2, RemovalFailed
  <2>2. CASE ~ Refused(t)
        BY <1>0, <1>4, <2>2, RemovalListed
  <2> QED BY <2>1, <2>2
<1>5. ASSUME NEW t \in Tunnels, Do(t)
      PROVE  RemovalInv'
  <2>1. PICK c \in job[t].plan :
          \/ job' = Failed(t) /\ kernel' = kernel
          \/ Effect(t, c) /\ job' = Disturbed(Made(t, c), t)
        BY <1>5 DEF Do, Due
  <2>2. Busy(t)
        BY <1>0 DEF JobAt
  <2> QED BY <1>0, <2>1, <2>2, RemovalFailed, RemovalCalled
<1>6. ASSUME NEW t \in Tunnels, Fail(t)
      PROVE  RemovalInv'
  <2>1. Busy(t) /\ kernel' = kernel /\ job' = Failed(t)
        BY <1>0, <1>6 DEF Fail, JobAt
  <2> QED BY <1>0, <2>1, RemovalFailed
<1>7. ASSUME NEW t \in Tunnels, End(t)
      PROVE  RemovalInv'
  <2>1. job'[t] = Idle /\ kernel' = kernel /\ \A u \in Tunnels \ {t} : job'[u] = job[u]
        BY <1>7 DEF End, TypeInv
  <2>2. RemovalAt(t)'
        BY <2>1, IdleFields DEF RemovalAt, Removes
  <2>3. ASSUME NEW u \in Tunnels \ {t}
        PROVE  RemovalAt(u)'
        BY <1>0, <2>1, RemovalFrame
  <2> QED BY <2>2, <2>3 DEF RemovalInv
<1>8. ASSUME NEW t \in Tunnels, Write(t)
      PROVE  RemovalInv'
  <2>1. kernel' = kernel
        BY <1>8 DEF Write
  <2>2. PICK rec : \/ Start(t, "mutate", Removing[kind[t]], stored[t], rec)
                   \/ UNCHANGED job
        BY <1>8 DEF Write
  <2>3. CASE Start(t, "mutate", Removing[kind[t]], stored[t], rec)
        BY <1>1, <2>1, <2>3
  <2>4. CASE UNCHANGED job
    <3>1. \A u \in Tunnels : RemovalAt(u)'
          BY <1>0, <2>1, <2>4, RemovalFrame
    <3> QED BY <3>1 DEF RemovalInv
  <2> QED BY <2>2, <2>3, <2>4
<1>9. ASSUME NEW t \in Tunnels, Delete(t)
      PROVE  RemovalInv'
  <2>1. kernel' = kernel /\ Start(t, "mutate", Removing[kind[t]], stored[t], None)
        BY <1>9 DEF Delete
  <2> QED BY <1>1, <2>1
<1>10. ASSUME job' = AllDisturbed,
              \A o \in kernel' \ kernel : o.part # "key" /\ \A u \in Tunnels :
                o.of = u /\ Busy(u) => o.tag = "user" /\ o.part # "link"
       PROVE  RemovalInv'
  <2>1. \A u \in Tunnels : job'[u] = Shaken(job[u])
        BY <1>10, ShakenJobs
  <2>2. \A u \in Tunnels : RemovalAt(u)'
        BY <1>0, <1>10, <2>1, RemovalFrame
  <2> QED BY <2>2 DEF RemovalInv
<1>11. ASSUME NEW t \in Tunnels, User(t)
       PROVE  RemovalInv'
  <2>1. PICK o \in UserObjects(t) : kernel' = kernel \cup {o}
        BY <1>11 DEF User
  <2>2. kind[t] # None /\ job' = AllDisturbed
        BY <1>11 DEF User
  <2>3. /\ o.of = t /\ o.tag = "user" /\ o.part \in {"link", "route", "rule"}
        /\ o.part = "link" => ~ Busy(t)
        BY <2>2, UserObject
  <2> QED BY <1>10, <2>1, <2>2, <2>3
<1>12. CASE Vanish
  <2>1. kernel' \subseteq kernel /\ job' = AllDisturbed
        BY <1>12 DEF Vanish, Deleted
  <2> QED BY <1>10, <2>1
<1>13. CASE Crash
  <2>1. \A u \in Tunnels : job'[u] = Idle
        BY <1>13 DEF Crash
  <2>2. \A u \in Tunnels : RemovalAt(u)'
        BY <2>1, IdleFields DEF RemovalAt, Removes
  <2> QED BY <2>2 DEF RemovalInv
<1>14. CASE UNCHANGED vars
  <2>1. kernel' = kernel /\ job' = job
        BY <1>14 DEF vars
  <2>2. \A u \in Tunnels : RemovalAt(u)'
        BY <1>0, <2>1, RemovalFrame
  <2> QED BY <2>2 DEF RemovalInv
<1> QED BY <1>2, <1>3, <1>4, <1>5, <1>6, <1>7, <1>8, <1>9, <1>11, <1>12, <1>13, <1>14 DEF Next

\* A removal that is over has left nothing.
LEMMA RemovedAll ==
  ASSUME TypeInv, ObjectInv, NEW t \in Tunnels, JobAt(t), RemovalAt(t), Removes(t), job[t].do = <<>>
  PROVE  /\ Traces(t) = {}
         /\ kind[t] = "ike" /\ Spec(t).auth # "psk" /\ (job[t].alone \/ job[t].op = "mutate") =>
              PrivateKeyOf(Spec(t)) \notin kernel
<1> DEFINE w == Removing[kind[t]]
<1>1. kind[t] \in Kinds
      BY RemovesBusy
<1>2. Len(w) - Len(job[t].do) = Len(w)
  <2>1. Len(w) \in Nat
        BY <1>1, RemovingStages
  <2> QED BY <2>1
<1>3. \A i \in 1..Len(w) : Over(t, w[i])
      BY <1>2 DEF Over
<1>4. \A i \in 1..Len(w) : w[i] \in Stages => Targets(t, w[i]) = {}
      BY <1>3 DEF RemovalAt
<1>5. ASSUME NEW o \in Traces(t)
      PROVE  o \in kernel /\ o.of = t /\ ObjectAt(o) /\ o.part \in PartsOf[kind[t]]
             /\ (o.part = "link" => o \in LinkOf(t))
             /\ (o.part \in {"addr", "peer", "allowed"} => LinkOf(t) # {})
             /\ (o.part \notin {"link", "route"} => o.tag = "th" /\ o \in Mine(t, o.part))
             /\ (o.part = "route" => o.tag = "th" /\ o \in Mine(t, "route"))
  <2>1. o \in kernel /\ o.of = t /\ o.tag \in {"th", "none"} /\ ObjectAt(o)
        BY DEF Traces, ObjectInv
  <2>2. o.part \in PartsOf[kind[t]] /\ (o.part # "link" => o.tag = "th")
        BY <2>1 DEF ObjectAt
  <2>3. o.part \in {"addr", "peer", "allowed"} => LinkOf(t) # {}
        BY <2>1 DEF ObjectInv, Hangs
  <2> QED BY <2>1, <2>2, <2>3 DEF LinkOf, Mine
<1>6. CASE kind[t] = "link"
  <2>1. w[1] = "unlink" /\ Len(w) = 1
        BY <1>6, KindStages
  <2>2. LinkOf(t) = {}
        BY <1>4, <2>1 DEF Targets, Stages
  <2> QED BY <1>5, <1>6, <2>2, PartsKnown
<1>7. CASE kind[t] = "wg"
  <2>1. w[1] = "unroute" /\ w[2] = "unrule" /\ w[3] = "unlink" /\ Len(w) = 3
        BY <1>7, KindStages
  <2>2. LinkOf(t) = {} /\ {o \in Mine(t, "route") : o.tag = "th"} = {} /\ Mine(t, "rule") = {}
    <3>1. Targets(t, "unroute") = {} /\ Targets(t, "unrule") = {} /\ Targets(t, "unlink") = {}
          BY <1>4, <2>1 DEF Stages
    <3> QED BY <3>1 DEF Targets
  <2> QED BY <1>5, <1>7, <2>2, PartsKnown
<1>8. CASE kind[t] = "xfrm"
  <2>1. w[1] = "unstate" /\ w[2] = "unlink" /\ Len(w) = 2
        BY <1>8, KindStages
  <2>2. LinkOf(t) = {} /\ Mine(t, "state") = {} /\ Mine(t, "policy") = {}
    <3>1. Targets(t, "unstate") = {} /\ Targets(t, "unlink") = {}
          BY <1>4, <2>1 DEF Stages
    <3> QED BY <3>1 DEF Targets
  <2> QED BY <1>5, <1>8, <2>2, PartsKnown
<1>9. CASE kind[t] = "ike"
  <2>1. w[1] = "unsa" /\ w[2] = "unconn" /\ w[3] = "unshared" /\ w[4] = "unkey" /\ w[5] = "unlink" /\ Len(w) = 5
        BY <1>9, KindStages
  <2>2. /\ Targets(t, "unsa") = {} /\ Targets(t, "unconn") = {} /\ Targets(t, "unshared") = {}
        /\ Targets(t, "unkey") = {} /\ Targets(t, "unlink") = {}
        BY <1>4, <2>1 DEF Stages
  <2>3. LinkOf(t) = {} /\ Mine(t, "sa") = {} /\ Mine(t, "conn") = {} /\ Mine(t, "shared") = {}
        BY <2>2 DEF Targets
  <2>4. job[t].alone \/ job[t].op = "mutate" => LoadedKey(Spec(t)) = {}
        BY <2>2 DEF Targets
  <2>5. Traces(t) = {}
        BY <1>5, <1>9, <2>3, PartsKnown
  <2> QED BY <2>4, <2>5 DEF LoadedKey
<1>10. CASE kind[t] = "srv6"
  <2>1. w[1] = "unroute" /\ w[2] = "unrule" /\ Len(w) = 2
        BY <1>10, KindStages
  <2>2. {o \in Mine(t, "route") : o.tag = "th"} = {} /\ Mine(t, "rule") = {}
    <3>1. Targets(t, "unroute") = {} /\ Targets(t, "unrule") = {}
          BY <1>4, <2>1 DEF Stages
    <3> QED BY <3>1 DEF Targets
  <2> QED BY <1>5, <1>10, <2>2, PartsKnown
<1> QED BY <1>1, <1>6, <1>7, <1>8, <1>9, <1>10 DEF Kinds

-----------------------------------------------------------------------------
(* Objects and their records.                                              *)

LEMMA AccountStep ==
  TypeInv /\ ObjectInv /\ AccountInv /\ JobInv /\ RemovalInv /\ [Next]_vars => AccountInv'
<1> SUFFICES ASSUME TypeInv, ObjectInv, AccountInv, JobInv, RemovalInv, [Next]_vars PROVE AccountInv'
    OBVIOUS
<1>0. kind' = kind /\ \A t \in Tunnels : JobAt(t) /\ RemovalAt(t)
      BY KindKept DEF JobInv, RemovalInv
<1>1. ASSUME stored' = stored,
             \A o \in kernel' \ kernel : o.tag = "user" /\ o.part # "key"
      PROVE  AccountInv'
  <2>1. \A s : PrivateKeyOf(s)' = PrivateKeyOf(s)
        BY DEF PrivateKeyOf, Obj
  <2> QED BY <1>0, <1>1, <2>1 DEF AccountInv
<1>2. ASSUME NEW t \in Tunnels, Do(t)
      PROVE  AccountInv'
  <2>1. stored' = stored
        BY <1>2 DEF Do
  <2>2. PICK c \in job[t].plan : kernel' = kernel \/ Effect(t, c)
        BY <1>2 DEF Do, Due
  <2>3. Busy(t)
        BY <1>0 DEF JobAt
  <2>4. \A o \in kernel' \ kernel : MayAdd(t, o)
        BY <1>0, <2>2, <2>3, EffectAdds
  <2>5. stored[t] # None /\ Spec(t) = stored[t].s
        BY <1>0, <2>3, SpecType
  <2>6. \A o \in kernel' \ kernel : o.part # "key" => o.of = t
        BY <2>4 DEF MayAdd
  <2>7. \A o \in kernel' \ kernel : o.part = "key" =>
          kind[t] = "ike" /\ stored[t].s.auth # "psk" /\ PrivateKeyOf(stored[t].s) = o
        BY <2>4, <2>5 DEF MayAdd
  <2>8. \A o \in kernel' : o.part # "key" /\ o.tag \in {"th", "none"} => stored[o.of] # None
        BY <2>5, <2>6 DEF AccountInv
  <2>9. \A o \in kernel' : o.part = "key" =>
          \E u \in Tunnels : /\ stored[u] # None /\ kind[u] = "ike"
                             /\ stored[u].s.auth # "psk" /\ PrivateKeyOf(stored[u].s) = o
        BY <2>5, <2>7 DEF AccountInv
  <2> QED BY <1>0, <2>1, <2>8, <2>9 DEF AccountInv, PrivateKeyOf, Obj
<1>3. ASSUME NEW t \in Tunnels, End(t)
      PROVE  AccountInv'
  <2>1. kernel' = kernel
        BY <1>3 DEF End
  <2>2. CASE job[t].op = "mutate" /\ ~ job[t].err
    <3>1. Removes(t) /\ Stage(t) = "end"
          BY <1>3, <2>2 DEF Removes, End
    <3>2. job[t].do = <<>>
      <4>1. "end" \notin Stages
            BY DEF Stages
      <4> QED BY <1>0, <3>1, <4>1, RemovesBusy
    <3>3. /\ Traces(t) = {}
          /\ kind[t] = "ike" /\ Spec(t).auth # "psk" => PrivateKeyOf(Spec(t)) \notin kernel
          BY <1>0, <2>2, <3>1, <3>2, RemovedAll
    <3>4. Spec(t) = stored[t].s
          BY <1>0, <3>1, RemovesBusy, SpecType
    <3>5. \A u \in Tunnels \ {t} : stored'[u] = stored[u]
          BY <1>3, <2>2 DEF End, TypeInv
    <3>6. \A o \in kernel : o.part # "key" /\ o.tag \in {"th", "none"} => o.of \in Tunnels \ {t}
          BY <3>3 DEF Traces, ObjectInv, ObjectAt
    <3>7. \A o \in kernel : o.part = "key" =>
            \E u \in Tunnels \ {t} : /\ stored[u] # None /\ kind[u] = "ike"
                                     /\ stored[u].s.auth # "psk" /\ PrivateKeyOf(stored[u].s) = o
          BY <3>3, <3>4 DEF AccountInv
    <3>8. \A o \in kernel : o.part # "key" /\ o.tag \in {"th", "none"} => stored'[o.of] # None
          BY <3>5, <3>6 DEF AccountInv
    <3>9. \A o \in kernel : o.part = "key" =>
            \E u \in Tunnels : /\ stored'[u] # None /\ kind[u] = "ike"
                               /\ stored'[u].s.auth # "psk" /\ PrivateKeyOf(stored'[u].s) = o
          BY <3>5, <3>7
    <3> QED BY <1>0, <2>1, <3>8, <3>9 DEF AccountInv, PrivateKeyOf, Obj
  <2>3. CASE ~ (job[t].op = "mutate" /\ ~ job[t].err)
        BY <1>1, <1>3, <2>1, <2>3 DEF End
  <2> QED BY <2>2, <2>3
<1>4. ASSUME NEW t \in Tunnels, Write(t)
      PROVE  AccountInv'
  <2>1. kernel' = kernel /\ kind[t] \in Kinds
        BY <1>4 DEF Write, TypeInv
  <2>2. PICK rec \in Records(kind[t]) :
          \/ stored' = stored
          \/ /\ stored' = [stored EXCEPT ![t] = rec]
             /\ stored[t] = None \/ kind[t] # "ike" \/ rec.s = stored[t].s
        BY <1>4 DEF Write, Cleanup
  <2>3. CASE stored' = stored
        BY <1>1, <2>1, <2>3
  <2>4. CASE /\ stored' = [stored EXCEPT ![t] = rec]
             /\ stored[t] = None \/ kind[t] # "ike" \/ rec.s = stored[t].s
    <3>1. stored'[t] = rec /\ rec # None /\ \A u \in Tunnels \ {t} : stored'[u] = stored[u]
          BY <2>1, <2>4, NoneNoRecord DEF TypeInv
    <3>2. \A o \in kernel : o.part # "key" => o.of \in Tunnels
          BY DEF ObjectInv, ObjectAt
    <3>3. \A u \in Tunnels : stored[u] # None => stored'[u] # None
          BY <3>1
    <3>4. \A u \in Tunnels : stored[u] # None /\ kind[u] = "ike" => stored'[u].s = stored[u].s
          BY <2>4, <3>1
    <3>5. \A o \in kernel : o.part # "key" /\ o.tag \in {"th", "none"} => stored'[o.of] # None
          BY <3>2, <3>3 DEF AccountInv
    <3>6. \A o \in kernel : o.part = "key" =>
            \E u \in Tunnels : /\ stored'[u] # None /\ kind[u] = "ike"
                               /\ stored'[u].s.auth # "psk" /\ PrivateKeyOf(stored'[u].s) = o
          BY <3>3, <3>4 DEF AccountInv
    <3> QED BY <1>0, <2>1, <3>5, <3>6 DEF AccountInv, PrivateKeyOf, Obj
  <2> QED BY <2>2, <2>3, <2>4
<1>5. ASSUME NEW t \in Tunnels, User(t)
      PROVE  AccountInv'
  <2>1. PICK o \in UserObjects(t) : kernel' = kernel \cup {o}
        BY <1>5 DEF User
  <2>2. kind[t] # None /\ stored' = stored
        BY <1>5 DEF User
  <2>3. o.tag = "user" /\ o.part # "key"
        BY <2>2, UserObject
  <2> QED BY <1>1, <2>1, <2>2, <2>3
<1>6. CASE Vanish
  <2>1. kernel' \subseteq kernel /\ stored' = stored
        BY <1>6 DEF Vanish, Deleted
  <2> QED BY <1>1, <2>1
<1>7. ASSUME NEW t \in Tunnels, StartReconcile(t) \/ Load(t) \/ List(t) \/ Fail(t) \/ Delete(t)
      PROVE  AccountInv'
  <2>1. kernel' = kernel /\ stored' = stored
        BY <1>7 DEF StartReconcile, Load, List, Fail, Delete
  <2> QED BY <1>1, <2>1
<1>8. CASE Crash \/ UNCHANGED vars
  <2>1. kernel' = kernel /\ stored' = stored
        BY <1>8 DEF Crash, vars
  <2> QED BY <1>1, <2>1
<1> QED BY <1>2, <1>3, <1>4, <1>5, <1>6, <1>7, <1>8 DEF Next

-----------------------------------------------------------------------------
(* Applications: the stages.                                               *)

LEMMA AppliesBusy ==
  ASSUME TypeInv, NEW t \in Tunnels, JobAt(t), job[t].op = "apply"
  PROVE  /\ Busy(t) /\ Whole(t) = Applying[kind[t]] /\ kind[t] \in Kinds
         /\ job[t].do # <<>> => Stage(t) \in ApplyStages(kind[t])
<1>1. Busy(t)
      BY DEF Busy
<1>2. kind[t] \in Kinds /\ Whole(t) = Applying[kind[t]]
      BY <1>1, SpecType DEF Whole
<1>3. job[t].do # <<>> => Stage(t) \in ApplyStages(kind[t])
      BY <1>1, StageKnown DEF StagesOf
<1> QED BY <1>1, <1>2, <1>3

\* No stage comes twice, nothing is achieved before the link is there, the
\* peers come after the link, and the observation comes last.
Ordered(w) ==
  /\ Len(w) \in Nat /\ 1 < Len(w)
  /\ \A i, j \in 1..Len(w) : w[i] = w[j] => i = j
  /\ \A i, j \in 1..Len(w) : w[j] = "link" /\ i < j => w[i] = "preflight"
  /\ \A i \in 1..Len(w) : w[i] = "peer" => \E j \in 1..Len(w) : j < i /\ w[j] = "link"
  /\ w[Len(w)] = "observe"

LEMMA ApplyOrdered ==
  ASSUME NEW k \in Kinds
  PROVE  Ordered(Applying[k])
<1>1. CASE k = "link"
  <2> DEFINE w == <<"link", "addr", "observe">>
  <2>1. Len(w) = 3 /\ w[1] = "link" /\ w[2] = "addr" /\ w[3] = "observe"
        OBVIOUS
  <2> HIDE DEF w
  <2>2. Ordered(w)
        BY <2>1 DEF Ordered
  <2> QED BY <1>1, <2>2, KindStages DEF w
<1>2. CASE k = "wg"
  <2> DEFINE w == <<"link", "peer", "addr", "route", "rule4", "rule6", "observe">>
  <2>1. /\ Len(w) = 7 /\ w[1] = "link" /\ w[2] = "peer" /\ w[3] = "addr" /\ w[4] = "route"
        /\ w[5] = "rule4" /\ w[6] = "rule6" /\ w[7] = "observe"
        OBVIOUS
  <2> HIDE DEF w
  <2>2. Ordered(w)
        BY <2>1 DEF Ordered
  <2> QED BY <1>2, <2>2, KindStages DEF w
<1>3. CASE k = "xfrm"
  <2> DEFINE w == <<"preflight", "link", "addr", "state", "policy", "observe">>
  <2>1. /\ Len(w) = 6 /\ w[1] = "preflight" /\ w[2] = "link" /\ w[3] = "addr" /\ w[4] = "state"
        /\ w[5] = "policy" /\ w[6] = "observe"
        OBVIOUS
  <2> HIDE DEF w
  <2>2. Ordered(w)
        BY <2>1 DEF Ordered
  <2> QED BY <1>3, <2>2, KindStages DEF w
<1>4. CASE k = "ike"
  <2> DEFINE w == <<"preflight", "link", "addr", "secret", "conn", "sa", "observe">>
  <2>1. /\ Len(w) = 7 /\ w[1] = "preflight" /\ w[2] = "link" /\ w[3] = "addr" /\ w[4] = "secret"
        /\ w[5] = "conn" /\ w[6] = "sa" /\ w[7] = "observe"
        OBVIOUS
  <2> HIDE DEF w
  <2>2. Ordered(w)
        BY <2>1 DEF Ordered
  <2> QED BY <1>4, <2>2, KindStages DEF w
<1>5. CASE k = "srv6"
  <2> DEFINE w == <<"feed", "route", "rule4", "rule6", "observe">>
  <2>1. Len(w) = 5 /\ w[1] = "feed" /\ w[2] = "route" /\ w[3] = "rule4" /\ w[4] = "rule6" /\ w[5] = "observe"
        OBVIOUS
  <2> HIDE DEF w
  <2>2. Ordered(w)
        BY <2>1 DEF Ordered
  <2> QED BY <1>5, <2>2, KindStages DEF w
<1> QED BY <1>1, <1>2, <1>3, <1>4, <1>5 DEF Kinds

\* What is over when a stage is under way.
LEMMA DoneNow ==
  ASSUME TypeInv, NEW t \in Tunnels, JobAt(t), job[t].op = "apply", job[t].do # <<>>
  PROVE  /\ ~ Done(t, Stage(t))
         /\ Stage(t) = "link" => \A stage \in Achieving : ~ Done(t, stage)
         /\ Stage(t) = "peer" => Done(t, "link")
         /\ Tail(job[t].do) = <<>> <=> Stage(t) = "observe"
<1> DEFINE w == Applying[kind[t]]
<1>1. Whole(t) = w /\ Busy(t) /\ Ordered(w)
      BY AppliesBusy, ApplyOrdered
<1>2. PICK i \in 1..Len(w) : /\ Len(job[t].do) = Len(w) - i + 1 /\ Stage(t) = w[i]
                             /\ Len(Tail(job[t].do)) = Len(w) - i
                             /\ Tail(job[t].do) # <<>> => i + 1 \in 1..Len(w)
      BY <1>1, StageKnown
<1>3. Len(w) \in Nat /\ Len(w) - Len(job[t].do) = i - 1
      BY <1>1, <1>2 DEF Ordered
<1> HIDE DEF w
<1>4. \A stage : Done(t, stage) <=> \E k \in 1..(i - 1) : w[k] = stage
      BY <1>3 DEF Done, w
<1>5. ~ Done(t, Stage(t))
      BY <1>1, <1>2, <1>3, <1>4 DEF Ordered
<1>6. Stage(t) = "link" => \A stage \in Achieving : ~ Done(t, stage)
  <2>1. "preflight" \notin Achieving
        BY DEF Achieving, Ways
  <2>2. w[i] = "link" => \A k \in 1..(i - 1) : w[k] = "preflight"
        BY <1>1, <1>3 DEF Ordered
  <2> QED BY <1>2, <1>4, <2>1, <2>2
<1>7. Stage(t) = "peer" => Done(t, "link")
  <2>1. w[i] = "peer" => \E k \in 1..Len(w) : k < i /\ w[k] = "link"
        BY <1>1 DEF Ordered
  <2>2. w[i] = "peer" => \E k \in 1..(i - 1) : w[k] = "link"
        BY <1>3, <2>1
  <2> QED BY <1>2, <1>4, <2>2
<1>8. Tail(job[t].do) = <<>> <=> i = Len(w)
  <2>1. Len(<<>>) = 0
        OBVIOUS
  <2>2. Tail(job[t].do) = <<>> => Len(w) - i = 0
        BY <1>2, <2>1, Zenon
  <2>3. i \in Int /\ (i = Len(w) => i + 1 \notin 1..Len(w))
        BY <1>2, <1>3
  <2> QED BY <1>2, <1>3, <2>2, <2>3
<1>9. i = Len(w) <=> w[i] = "observe"
      BY <1>1, <1>3 DEF Ordered
<1> QED BY <1>2, <1>5, <1>6, <1>7, <1>8, <1>9

\* A stage is over when it is the last one or was over before.
LEMMA DoneTail ==
  ASSUME TypeInv, NEW t \in Tunnels, JobAt(t), job[t].op = "apply", job[t].do # <<>>, kind' = kind,
         job'[t].do = Tail(job[t].do)
  PROVE  \A stage : Done(t, stage)' => Done(t, stage) \/ stage = Stage(t)
<1> DEFINE w == Applying[kind[t]]
<1>1. Whole(t) = w /\ Busy(t)
      BY AppliesBusy
<1>2. PICK i \in 1..Len(w) : /\ Len(job[t].do) = Len(w) - i + 1 /\ Stage(t) = w[i]
                             /\ Len(Tail(job[t].do)) = Len(w) - i
      BY <1>1, StageKnown
<1>3. Len(w) \in Nat
      BY <1>1, StageKnown
<1>4. Len(w) - Len(job[t].do) = i - 1 /\ Len(w) - Len(Tail(job[t].do)) = i
      BY <1>2, <1>3
<1> HIDE DEF w
<1>5. \A stage : Done(t, stage) <=> \E k \in 1..(i - 1) : w[k] = stage
      BY <1>4 DEF Done, w
<1>6. \A stage : Done(t, stage)' <=> \E k \in 1..i : w[k] = stage
      BY <1>4 DEF Done, w
<1> QED BY <1>2, <1>5, <1>6

-----------------------------------------------------------------------------
(* Applications: what a stage achieves.                                    *)

\* What a record asks for, of any feed.
LEMMA RoutesSame ==
  ASSUME NEW t \in Tunnels, kind' = kind, NEW s, NEW feed
  PROVE  /\ RoutesOf(t, s, feed)' = RoutesOf(t, s, feed) /\ SRv6Routes(t, s, feed)' = SRv6Routes(t, s, feed)
         /\ RulesOf(t, s, feed)' = RulesOf(t, s, feed)
<1>1. SRv6Routes(t, s, feed)' = SRv6Routes(t, s, feed)
      BY DEF SRv6Routes, DirectRoute, RealmKept, SIDPrefix, Obj
<1>2. RoutesOf(t, s, feed)' = RoutesOf(t, s, feed)
      BY <1>1 DEF RoutesOf, WireGuardRoutes, AllowedIPs, RealmKept, Obj
<1> DEFINE keys == Keys(RoutesOf(t, s, feed))
<1>3. keys' = keys
      BY <1>2 DEF Keys
<1> HIDE DEF keys
<1>4. {q \in keys : kind[t] = "srv6" \/ q[2] = "0"}' = {q \in keys : kind[t] = "srv6" \/ q[2] = "0"}
      BY <1>3
<1>5. Families(t, s, feed)' = Families(t, s, feed)
      BY <1>4 DEF Families, keys
<1> QED BY <1>1, <1>2, <1>5 DEF RulesOf, Obj

\* What a record asks for does not change under its job.
LEMMA AsksSame ==
  ASSUME NEW t \in Tunnels, kind' = kind, job'[t].rec = job[t].rec, job'[t].feed = job[t].feed
  PROVE  /\ Spec(t)' = Spec(t)
         /\ \A stage \in Ways : Wanted(t, stage)' = Wanted(t, stage)
<1>1. Spec(t)' = Spec(t)
      BY DEF Spec
<1>2. ASSUME NEW s, NEW feed
      PROVE  RoutesOf(t, s, feed)' = RoutesOf(t, s, feed) /\ RulesOf(t, s, feed)' = RulesOf(t, s, feed)
      BY RoutesSame
<1>3. ASSUME NEW stage \in Ways
      PROVE  Wanted(t, stage)' = Wanted(t, stage)
  <2>1. CASE stage = "addr"
        BY <1>1, <2>1 DEF Wanted, AddressesOf, LinkLocal, Obj
  <2>2. CASE stage = "route"
        BY <1>1, <1>2, <2>2 DEF Wanted
  <2>3. CASE stage = "rule4"
        BY <1>1, <1>2, <2>3 DEF Wanted, OfFamily
  <2>4. CASE stage = "rule6"
        BY <1>1, <1>2, <2>4 DEF Wanted, OfFamily
  <2>5. CASE stage = "state"
        BY <1>1, <2>5 DEF Wanted, StatesOf, Obj
  <2>6. CASE stage = "policy"
        BY <1>1, <2>6 DEF Wanted, PoliciesOf, Obj
  <2>7. CASE stage = "secret"
        BY <1>1, <2>7 DEF Wanted, Secret, SharedOf, PrivateKeyOf, Obj
  <2>8. CASE stage = "conn"
        BY <1>1, <2>8 DEF Wanted, ConnectionOf, Obj
  <2> QED BY <2>1, <2>2, <2>3, <2>4, <2>5, <2>6, <2>7, <2>8 DEF Ways
<1> QED BY <1>1, <1>3

LEMMA ConcernsSame ==
  /\ \A stage, o : Concerns(stage, o)' <=> Concerns(stage, o)
  /\ \A o, p : SameKey(o, p)' <=> SameKey(o, p)
BY DEF Concerns, SameKey

LEMMA UnwantedSame ==
  ASSUME NEW t \in Tunnels, kind' = kind, job'[t].rec = job[t].rec, job'[t].feed = job[t].feed, NEW stage \in Ways
  PROVE  \A o : Unwanted(t, stage, o)' <=> Unwanted(t, stage, o)
BY AsksSame, ConcernsSame DEF Unwanted

\* An object that a record asks for is the concern of the stage that makes it.
LEMMA WantedConcerned ==
  ASSUME NEW t \in Tunnels, NEW stage \in Ways, NEW w \in Wanted(t, stage)
  PROVE  Concerns(stage, w) /\ w.tag # "user" /\ (stage # "secret" => w.of = t)
<1>1. CASE stage = "addr"
      BY <1>1, AddressObjects DEF Wanted, Concerns
<1>2. CASE stage = "route"
      BY <1>2, RouteObjects DEF Wanted, Concerns
<1>3. CASE stage = "rule4"
      BY <1>3, RuleObjects DEF Wanted, Concerns, OfFamily
<1>4. CASE stage = "rule6"
      BY <1>4, RuleObjects DEF Wanted, Concerns, OfFamily
<1>5. CASE stage = "state"
      BY <1>5, StateObjects DEF Wanted, Concerns
<1>6. CASE stage = "policy"
      BY <1>6, StateObjects DEF Wanted, Concerns
<1>7. CASE stage = "secret"
      BY <1>7, VICIObjects, KeyObject DEF Wanted, Concerns, Secret
<1>8. CASE stage = "conn"
      BY <1>8, VICIObjects DEF Wanted, Concerns
<1> QED BY <1>1, <1>2, <1>3, <1>4, <1>5, <1>6, <1>7, <1>8 DEF Ways

\* An object is the concern of one stage, by its part and its key.
LEMMA ConcernsOne ==
  ASSUME NEW o, NEW r \in Achieving, NEW s \in Achieving, Concerns(r, o), Concerns(s, o)
  PROVE  r = s
<1>1. ASSUME NEW q \in Achieving, Concerns(q, o)
      PROVE  q = CASE o.part = "link" -> "link"
                   [] o.part \in {"peer", "allowed"} -> "peer"
                   [] o.part = "rule" /\ o.key = <<"v4">> -> "rule4"
                   [] o.part = "rule" /\ o.key # <<"v4">> -> "rule6"
                   [] o.part \in {"shared", "key"} -> "secret"
                   [] OTHER -> o.part
  <2>1. CASE q \in {"link", "peer", "secret"}
        BY <1>1, <2>1 DEF Concerns
  <2>2. CASE q \in {"rule4", "rule6"}
    <3>1. <<"v4">> # <<"v6">>
          OBVIOUS
    <3> QED BY <1>1, <2>2, <3>1 DEF Concerns
  <2>3. CASE q \in {"addr", "route", "state", "policy", "conn"}
        BY <1>1, <2>3 DEF Concerns
  <2> QED BY <2>1, <2>2, <2>3 DEF Achieving, Ways
<1> QED BY <1>1

LEMMA SameKeyConcerns ==
  ASSUME NEW stage, NEW o, NEW p, SameKey(o, p), Concerns(stage, p)
  PROVE  Concerns(stage, o)
BY DEF SameKey, Concerns

\* What a stage has achieved lasts as long as the objects it is about.
LEMMA GoalKept ==
  ASSUME NEW t \in Tunnels, NEW stage \in Achieving, Goal(t, stage),
         kind' = kind, job'[t].rec = job[t].rec, job'[t].feed = job[t].feed,
         \A o : Concerns(stage, o) => (o \in kernel <=> o \in kernel')
  PROVE  Goal(t, stage)'
<1>1. Spec(t)' = Spec(t)
      BY AsksSame
<1>2. CASE stage = "link"
  <2>1. LinkOf(t)' = LinkOf(t)
        BY <1>2 DEF LinkOf, Concerns
  <2>2. LinkObject(t, Spec(t))' = LinkObject(t, Spec(t))
        BY <1>1 DEF LinkObject, Obj
  <2>3. stage \notin Ways
        BY <1>2 DEF Ways
  <2> QED BY <1>2, <2>1, <2>2, <2>3 DEF Goal
<1>3. CASE stage = "peer"
  <2>1. Mine(t, "peer")' = Mine(t, "peer") /\ Mine(t, "allowed")' = Mine(t, "allowed")
        BY <1>3 DEF Mine, Concerns
  <2>2. Device(t)' = Device(t)
        BY <2>1 DEF Device
  <2>3. DeviceOf(t, Spec(t))' = DeviceOf(t, Spec(t)) /\ (Disjoint(Spec(t))' <=> Disjoint(Spec(t)))
        BY <1>1 DEF DeviceOf, PeersOf, AllowedOf, Disjoint, Obj
  <2>4. stage \notin Ways
        BY <1>3 DEF Ways
  <2> QED BY <1>3, <2>2, <2>3, <2>4 DEF Goal
<1>4. CASE stage \in Ways
  <2>1. Wanted(t, stage)' = Wanted(t, stage)
        BY <1>4, AsksSame
  <2>2. \A o : Unwanted(t, stage, o)' <=> Unwanted(t, stage, o)
        BY <1>4, UnwantedSame
  <2>3. \A o : Unwanted(t, stage, o) => Concerns(stage, o)
        BY DEF Unwanted
  <2>4. \A w \in Wanted(t, stage) : Concerns(stage, w)
        BY <1>4, WantedConcerned
  <2>5. stage # "link" /\ stage # "peer"
        BY <1>4 DEF Ways
  <2> QED BY <1>4, <2>1, <2>2, <2>3, <2>4, <2>5 DEF Goal
<1> QED BY <1>2, <1>3, <1>4 DEF Achieving

\* A plan that leads to the goal has reached it when no call is left.
LEMMA Reached ==
  ASSUME NEW t \in Tunnels, NEW stage \in Achieving, Leads(t, stage, {})
  PROVE  Goal(t, stage)
BY DEF Achieving, Leads, LinkLeads, PeerLeads, WayLeads, Goal

-----------------------------------------------------------------------------
(* Applications: what a call does for the goal.                            *)

\* A call of a stage touches only what the stage is about.
LEMMA WayTouches ==
  ASSUME NEW t \in Tunnels, NEW stage \in Ways, NEW c, c.do \in {"add", "put", "del"}, Concerns(stage, c.o),
         Effect(t, c)
  PROVE  /\ c.o.part # "link"
         /\ \A o : ~ Concerns(stage, o) => (o \in kernel <=> o \in kernel')
<1>1. c.o.part # "link"
      BY DEF Ways, Concerns
<1>2. CASE c.do = "add"
      BY <1>1, <1>2 DEF Effect
<1>3. CASE c.do = "put"
  <2>1. \A o : SameKey(o, c.o) => Concerns(stage, o)
        BY SameKeyConcerns
  <2> QED BY <1>1, <1>3, <2>1 DEF Effect, Put
<1>4. CASE c.do = "del"
      BY <1>1, <1>4 DEF Effect, Deleted
<1> QED BY <1>1, <1>2, <1>3, <1>4

LEMMA WayCalled ==
  ASSUME NEW t \in Tunnels, NEW stage \in Ways, NEW plan, WayLeads(t, stage, plan),
         NEW c \in plan, \A d \in plan : c.turn <= d.turn, Effect(t, c),
         kind' = kind, job'[t].rec = job[t].rec, job'[t].feed = job[t].feed
  PROVE  WayLeads(t, stage, plan \ {c})'
<1> DEFINE rest == plan \ {c}
<1>1. /\ c.do \in {"add", "put", "del"} /\ Concerns(stage, c.o) /\ c.o.part # "link"
      /\ c.do # "del" => c.o \in Wanted(t, stage)
      /\ c.do = "put" => Wanted(t, stage) = {c.o}
  <2>1. c.do \in {"add", "put", "del"} /\ Concerns(stage, c.o)
        BY DEF WayLeads
  <2>2. c.o.part # "link"
        BY <2>1, WayTouches
  <2> QED BY <2>1, <2>2 DEF WayLeads
<1>2. ASSUME NEW d \in plan, d.do = "del", d.o \in Wanted(t, stage)
      PROVE  \E e \in rest : e.do = "add" /\ e.o = d.o /\ d.turn < e.turn
  <2>1. PICK e \in plan : e.do = "add" /\ e.o = d.o /\ d.turn < e.turn
        BY <1>2 DEF WayLeads
  <2>2. c.turn <= d.turn /\ c.turn \in {1, 2} /\ d.turn \in {1, 2}
        BY DEF WayLeads
  <2>3. e # c
        BY <2>1, <2>2
  <2> QED BY <2>1, <2>3
<1>3. ASSUME NEW w \in Wanted(t, stage)
      PROVE  w \in kernel' \/ \E d \in rest : d.do \in {"add", "put"} /\ d.o = w
  <2>1. CASE c.do = "add"
    <3>1. kernel' = kernel \cup {c.o}
          BY <1>1, <2>1 DEF Effect
    <3> QED BY <3>1 DEF WayLeads
  <2>2. CASE c.do = "put"
        BY <1>1, <2>2 DEF Effect, Put
  <2>3. CASE c.do = "del"
    <3>1. kernel' = kernel \ {c.o}
          BY <1>1, <2>3 DEF Effect, Deleted
    <3>2. CASE w = c.o
          BY <1>2, <2>3, <3>2
    <3>3. CASE w # c.o
      <4>1. w \in kernel \/ \E d \in plan : d.do \in {"add", "put"} /\ d.o = w
            BY DEF WayLeads
      <4> QED BY <2>3, <3>1, <3>3, <4>1
    <3> QED BY <3>2, <3>3
  <2> QED BY <1>1, <2>1, <2>2, <2>3
<1>4. ASSUME NEW o \in kernel', Unwanted(t, stage, o)
      PROVE  \E d \in rest : (d.do = "del" /\ d.o = o) \/ (d.do = "put" /\ SameKey(d.o, o))
  <2>1. o \notin Wanted(t, stage)
        BY <1>4 DEF Unwanted
  <2>2. o \in kernel
    <3>1. CASE c.do = "del"
          BY <1>1, <1>4, <3>1 DEF Effect, Deleted
    <3>2. CASE c.do = "add"
          BY <1>1, <1>4, <2>1, <3>2 DEF Effect
    <3>3. CASE c.do = "put"
          BY <1>1, <1>4, <2>1, <3>3 DEF Effect, Put
    <3> QED BY <1>1, <3>1, <3>2, <3>3
  <2>3. PICK d \in plan : (d.do = "del" /\ d.o = o) \/ (d.do = "put" /\ SameKey(d.o, o))
        BY <1>4, <2>2 DEF WayLeads
  <2>4. CASE c.do = "del"
    <3>1. o # c.o
          BY <1>1, <1>4, <2>4 DEF Effect, Deleted
    <3> QED BY <2>3, <2>4, <3>1
  <2>5. CASE c.do = "add"
        BY <2>3, <2>5
  <2>6. CASE c.do = "put"
    <3>1. ~ SameKey(o, c.o)
      <4>1. o # c.o
            BY <1>1, <2>1, <2>6
      <4> QED BY <1>4, <2>6, <4>1 DEF Effect, Put
    <3>2. ~ SameKey(c.o, o)
          BY <3>1 DEF SameKey
    <3>3. d.do = "put" => d.o = c.o
          BY <1>1, <2>6 DEF WayLeads
    <3> QED BY <2>3, <2>6, <3>2, <3>3
  <2> QED BY <1>1, <2>4, <2>5, <2>6
<1>5. \A d \in rest : /\ d.do \in {"add", "put", "del"} /\ Concerns(stage, d.o) /\ d.turn \in {1, 2}
                      /\ d.do # "del" => d.o \in Wanted(t, stage)
                      /\ d.do = "put" => Wanted(t, stage) = {d.o}
      BY DEF WayLeads
<1>6. Wanted(t, stage)' = Wanted(t, stage) /\ \A o : Unwanted(t, stage, o)' <=> Unwanted(t, stage, o)
      BY AsksSame, UnwantedSame
<1> HIDE DEF rest
<1>7. WayLeads(t, stage, rest)'
      BY <1>2, <1>3, <1>4, <1>5, <1>6, ConcernsSame DEF WayLeads, rest
<1> QED BY <1>7 DEF rest

\* A device that has been configured is the one that the record asks for:
\* buildWireGuardConfiguration names the peers that differ, and no two peers
\* of a record have a key in common.
LEMMA DeviceConfigured ==
  ASSUME TypeInv, ObjectInv, NEW t \in Tunnels, NEW s \in Offers["wg"], Disjoint(s)
  PROVE  Configured(t, s) = DeviceOf(t, s)
<1> DEFINE D == Differing(t, s)
           P(i) == Obj("peer", t, <<s.peers[i].key>>, "th", "")
           Kept == {o \in Device(t) : \A i \in D : ~ TakenBy(o, s.peers[i])}
           New(i) == {o \in AllowedOf(t, s.peers[i]) : \A j \in D : j > i => ~ TakenBy(o, s.peers[j])}
<1>1. \A i, j \in DOMAIN s.peers : i # j => s.peers[i].key # s.peers[j].key /\ s.peers[i].ips \cap s.peers[j].ips = {}
      BY TunnelObjectsAssumption DEF Disjoint
<1>2. D \subseteq DOMAIN s.peers /\ \A i \in DOMAIN s.peers \ D : PeerMatches(t, s.peers[i])
      BY DEF Differing
<1>3. \A p : p \in ToSet(s.peers) <=> \E i \in DOMAIN s.peers : p = s.peers[i]
      BY DEF ToSet
<1>4. \A o : o \in PeersOf(t, s) <=> \E i \in DOMAIN s.peers : o = P(i)
      BY <1>3 DEF PeersOf
<1>5. \A o : o \in DeviceOf(t, s) <=> o \in PeersOf(t, s) \/ \E i \in DOMAIN s.peers : o \in AllowedOf(t, s.peers[i])
      BY <1>3 DEF DeviceOf
<1>6. \A i : P(i).part = "peer" /\ P(i).of = t /\ P(i).tag = "th"
      BY DEF Obj
<1>7. \A p : \A o \in AllowedOf(t, p) :
        o.part = "allowed" /\ o.of = t /\ o.tag = "th" /\ o.val = p.key /\ o.key \in p.ips
      BY DEF AllowedOf, Obj
<1>8. \A o : o \in Claimed(t, s) <=> o \in Kept \/ (\E i \in D : o = P(i)) \/ \E i \in D : o \in New(i)
      BY DEF Claimed
<1>9. \A o : o \in Configured(t, s) <=>
        o \in Claimed(t, s) /\ (o \in PeersOf(t, s) \/ (o.part = "allowed" /\ \E i \in DOMAIN s.peers : o.val = s.peers[i].key))
      BY <1>3 DEF Configured
<1> HIDE DEF D, P
<1>10. ASSUME NEW i \in DOMAIN s.peers
       PROVE  P(i) \in Configured(t, s)
  <2>1. P(i) \in PeersOf(t, s)
        BY <1>4, <1>10
  <2>2. CASE i \in D
        BY <1>8, <1>9, <2>1, <2>2
  <2>3. CASE i \notin D
    <3>1. P(i) \in kernel
          BY <1>2, <1>10, <2>3 DEF PeerMatches, P
    <3>2. P(i) \in Device(t)
          BY <1>6, <3>1 DEF Device, Mine
    <3>3. P(i) \in Kept
          BY <1>6, <3>2 DEF TakenBy
    <3> QED BY <1>8, <1>9, <2>1, <3>3
  <2> QED BY <2>2, <2>3
<1>11. ASSUME NEW i \in DOMAIN s.peers, NEW o \in AllowedOf(t, s.peers[i])
       PROVE  o \in Configured(t, s)
  <2>1. o.part = "allowed" /\ o.val = s.peers[i].key /\ o.key \in s.peers[i].ips
        BY <1>7
  <2>2. \A j \in DOMAIN s.peers : j # i => ~ TakenBy(o, s.peers[j])
        BY <1>1, <2>1 DEF TakenBy
  <2>3. CASE i \in D
    <3>1. o \in New(i)
      <4>1. \A j \in D : j > i => j # i
        <5>1. DOMAIN s.peers \subseteq Int
              BY TunnelObjectsAssumption
        <5> QED BY <1>2, <5>1
      <4> QED BY <1>2, <2>2, <4>1
    <3> QED BY <1>8, <1>9, <2>1, <2>3, <3>1
  <2>4. CASE i \notin D
    <3>1. o \in Mine(t, "allowed")
          BY <1>2, <2>4 DEF PeerMatches
    <3>2. o \in Kept
          BY <1>2, <2>2, <2>4, <3>1 DEF Device
    <3> QED BY <1>8, <1>9, <2>1, <3>2
  <2> QED BY <2>3, <2>4
<1>12. ASSUME NEW o \in Configured(t, s)
       PROVE  o \in DeviceOf(t, s)
  <2>1. CASE o \in PeersOf(t, s)
        BY <1>5, <2>1
  <2>2. CASE o.part = "allowed" /\ \E i \in DOMAIN s.peers : o.val = s.peers[i].key
    <3>1. PICK i \in DOMAIN s.peers : o.val = s.peers[i].key
          BY <2>2
    <3>2. \/ o \in Kept
          \/ \E j \in D : o \in AllowedOf(t, s.peers[j])
          BY <1>6, <1>8, <1>9, <2>2
    <3>3. CASE o \in Kept
      <4>1. i \notin D
            BY <2>2, <3>1, <3>3 DEF TakenBy
      <4>2. o \in Mine(t, "allowed")
            BY <2>2, <3>3 DEF Device, Mine
      <4>3. o \in AllowedOf(t, s.peers[i])
            BY <1>2, <3>1, <4>1, <4>2 DEF PeerMatches
      <4> QED BY <1>5, <4>3
    <3> QED BY <1>2, <1>5, <3>2, <3>3
  <2> QED BY <1>9, <2>1, <2>2
<1> QED BY <1>4, <1>5, <1>10, <1>11, <1>12

LEMMA PeerCalled ==
  ASSUME TypeInv, ObjectInv, NEW t \in Tunnels, JobAt(t), Busy(t), kind[t] = "wg",
         NEW plan, PeerLeads(t, plan), NEW c \in plan, Effect(t, c),
         kind' = kind, job'[t].rec = job[t].rec, job'[t].feed = job[t].feed
  PROVE  /\ PeerLeads(t, plan \ {c})'
         /\ \A o : ~ Concerns("peer", o) => (o \in kernel <=> o \in kernel')
<1> DEFINE s == Spec(t)
           after == Configured(t, s)
<1>1. s \in Offers["wg"]
      BY SpecType
<1>2. c.do = "configure" /\ \A d \in plan \ {c} : d.do = "configure"
      BY DEF PeerLeads
<1>3. kernel' = (kernel \ Device(t)) \cup after
      BY <1>2 DEF Effect
<1>4. \A o \in after : o.of = t /\ o.part \in {"peer", "allowed"} /\ o.tag # "user"
      BY ConfiguredObjects
<1>5. \A o \in Device(t) : o.part \in {"peer", "allowed"}
      BY DeviceObjects
<1>6. \A o : ~ Concerns("peer", o) => (o \in kernel <=> o \in kernel')
      BY <1>3, <1>4, <1>5 DEF Concerns
<1>7. \A o : o \in Device(t)' <=> o \in kernel' /\ o.of = t /\ o.part \in {"peer", "allowed"} /\ o.tag # "user"
      BY DEF Device, Mine
<1>8. \A o : o \in Device(t) <=> o \in kernel /\ o.of = t /\ o.part \in {"peer", "allowed"} /\ o.tag # "user"
      BY DEF Device, Mine
<1> HIDE DEF after, s
<1>9. Device(t)' = after
  <2>1. \A o : o \in Device(t)' <=> o \in after
        BY <1>3, <1>4, <1>7, <1>8
  <2> QED BY <2>1
<1>10. Spec(t)' = s
       BY AsksSame DEF s
<1>11. Disjoint(s) => after = DeviceOf(t, s)
       BY <1>1, DeviceConfigured DEF after
<1>12. DeviceOf(t, Spec(t))' = DeviceOf(t, s) /\ (Disjoint(Spec(t))' <=> Disjoint(s))
       BY <1>10 DEF DeviceOf, PeersOf, AllowedOf, Disjoint, Obj
<1>13. PeerLeads(t, plan \ {c})'
       BY <1>2, <1>9, <1>11, <1>12 DEF PeerLeads
<1> QED BY <1>6, <1>13

\* The name of a link, its tag changed, is still the name of a link.
LEMMA AliasedLink ==
  ASSUME NEW t, NEW s, NEW tag
  PROVE  LET want == LinkObject(t, s) IN
         /\ Tagged(want, "th") = want
         /\ Tagged(Tagged(want, tag), "th") = want
<1>1. \A old, new : Tagged(Obj("link", t, <<>>, old, s.imm), new) = Obj("link", t, <<>>, new, s.imm)
      BY DEF Obj, Tagged
<1> QED BY <1>1 DEF LinkObject

LEMMA LinkCalled ==
  ASSUME TypeInv, ObjectInv, NEW t \in Tunnels, JobAt(t), Busy(t),
         NEW c \in job[t].plan, \A d \in job[t].plan : c.turn <= d.turn,
         LinkLeads(t, job[t].plan), ~ Impossible(t, c), Effect(t, c), NEW rest, rest = job[t].plan \ {c},
         kind' = kind, job'[t].rec = job[t].rec, job'[t].feed = job[t].feed
  PROVE  LinkLeads(t, rest)'
<1> DEFINE want == LinkObject(t, Spec(t))
           plan == job[t].plan
           Pending(do) == \E d \in rest : d.do = do
<1>1. \A d \in plan : \/ d.do = "del" /\ d.turn = 1
                      \/ d.do = "add" /\ d.turn = 2 /\ d.o = want
                      \/ d.do = "alias" /\ d.turn = 3
      BY DEF LinkLeads
<1>2. /\ \E d \in plan : d.do = "alias"
      /\ ~ (\E d \in plan : d.do = "add") =>
           ~ (\E d \in plan : d.do = "del") /\ \A o \in LinkOf(t) : Tagged(o, "th") = want
      BY DEF LinkLeads, Tagged
<1>3. want.part = "link" /\ want.of = t /\ want.key = <<>> /\ want.tag = "th" /\ IsObject(want)
      BY VICIObjects
<1>4. LinkObject(t, Spec(t))' = want
      BY AsksSame DEF LinkObject, Obj
<1>5. \A o : o \in LinkOf(t)' <=> o \in kernel' /\ o.part = "link" /\ o.of = t
      BY DEF LinkOf
<1> HIDE DEF want
<1>6. SUFFICES /\ rest = {} => LinkOf(t)' = {want}
               /\ rest # {} => Pending("alias")
               /\ rest # {} /\ ~ Pending("add") => ~ Pending("del") /\ \A o \in LinkOf(t)' : Tagged(o, "th") = want
      BY <1>1, <1>4 DEF LinkLeads, Tagged
<1>7. CASE c.do = "del"
  <2>1. Pending("alias") /\ Pending("add")
        BY <1>2, <1>7
  <2> QED BY <2>1
<1>8. CASE c.do = "add"
  <2>1. c.o = want
        BY <1>1, <1>8
  <2>2. PICK tag \in {"th", "none"} : kernel' = kernel \cup {Tagged(want, tag)}
        BY <1>3, <1>8, <2>1 DEF Effect, Tagged
  <2>3. \A o \in kernel : ~ SameKey(o, want)
        BY <1>3, <1>8, <2>1 DEF Impossible
  <2>4. LinkOf(t) = {}
        BY <1>3, <2>3 DEF LinkOf, SameKey, ObjectInv, ObjectAt, Keyed
  <2>5. \A o \in LinkOf(t)' : o = Tagged(want, tag)
        BY <1>5, <2>2, <2>4 DEF LinkOf
  <2>6. Tagged(Tagged(want, tag), "th") = want
        BY AliasedLink DEF want
  <2>7. ~ Pending("del") /\ Pending("alias")
        BY <1>1, <1>2, <1>8
  <2> QED BY <2>5, <2>6, <2>7
<1>9. CASE c.do = "alias"
  <2>1. ~ (\E d \in plan : d.do \in {"add", "del"})
        BY <1>1, <1>9
  <2>2. \A o \in LinkOf(t) : Tagged(o, "th") = want
        BY <1>2, <2>1
  <2>3. LinkOf(t) # {}
        BY <1>9 DEF Impossible
  <2>4. kernel' = (kernel \ LinkOf(t)) \cup {Tagged(o, "th") : o \in LinkOf(t)}
        BY <1>9 DEF Effect, Tagged
  <2>5. kernel' = (kernel \ LinkOf(t)) \cup {want}
    <3>1. {Tagged(o, "th") : o \in LinkOf(t)} = {want}
          BY <2>2, <2>3
    <3> QED BY <2>4, <3>1
  <2>6. LinkOf(t)' = {want}
        BY <1>3, <1>5, <2>5 DEF LinkOf
  <2>7. Tagged(want, "th") = want
        BY AliasedLink DEF want
  <2>8. rest # {} => Pending("alias")
        BY <1>1, <2>1
  <2> QED BY <2>1, <2>6, <2>7, <2>8
<1> QED BY <1>1, <1>7, <1>8, <1>9

\* A call that is made leads on.
LEMMA CallLeads ==
  ASSUME TypeInv, ObjectInv, NEW t \in Tunnels, JobAt(t), Applies(t), kind[t] # "srv6",
         NEW now, now = Stage(t), Leads(t, now, job[t].plan), NEW c \in Due(t), ~ Impossible(t, c), Effect(t, c),
         NEW rest, rest = job[t].plan \ {c},
         kind' = kind, job'[t].rec = job[t].rec, job'[t].feed = job[t].feed
  PROVE  /\ Leads(t, now, rest)'
         /\ \A stage \in Achieving : Done(t, stage) /\ stage # now /\ Goal(t, stage) => Goal(t, stage)'
<1>0. /\ Busy(t) /\ c \in job[t].plan /\ \A d \in job[t].plan : c.turn <= d.turn
      /\ job[t].do # <<>> /\ job[t].op = "apply"
      BY DEF Applies, Due, Busy, JobAt
<1>1. now \in ApplyStages(kind[t]) /\ kind[t] \in Kinds
      BY <1>0, AppliesBusy
<1>2. ASSUME now \in Achieving, \A o : ~ Concerns(now, o) => (o \in kernel <=> o \in kernel'),
             NEW stage \in Achieving, stage # now, Goal(t, stage)
      PROVE  Goal(t, stage)'
  <2>1. \A o : Concerns(stage, o) => ~ Concerns(now, o)
        BY <1>2, ConcernsOne
  <2> QED BY <1>2, <2>1, GoalKept
<1>3. CASE now = "link"
  <2>1. LinkLeads(t, rest)'
    <3>1. LinkLeads(t, job[t].plan)
          BY <1>3 DEF Leads
    <3> QED BY <1>0, <3>1, LinkCalled
  <2>2. \A stage \in Achieving : ~ Done(t, stage)
        BY <1>0, <1>3, DoneNow
  <2> QED BY <1>3, <2>1, <2>2 DEF Leads, Ways
<1>4. CASE now = "peer"
  <2>1. kind[t] = "wg"
        BY <1>1, <1>4, StageSets DEF Kinds
  <2>2. PeerLeads(t, job[t].plan)
        BY <1>4 DEF Leads
  <2>3. PeerLeads(t, rest)' /\ \A o : ~ Concerns("peer", o) => (o \in kernel <=> o \in kernel')
        BY <1>0, <2>1, <2>2, PeerCalled
  <2>4. now \in Achieving
        BY <1>4 DEF Achieving
  <2> QED BY <1>2, <1>4, <2>3, <2>4 DEF Leads, Ways
<1>5. CASE now \in Ways
  <2>1. WayLeads(t, now, job[t].plan)
        BY <1>5 DEF Leads
  <2>2. WayLeads(t, now, rest)'
        BY <1>0, <1>5, <2>1, WayCalled
  <2>3. c.do \in {"add", "put", "del"} /\ Concerns(now, c.o)
        BY <1>0, <2>1 DEF WayLeads
  <2>4. \A o : ~ Concerns(now, o) => (o \in kernel <=> o \in kernel')
        BY <1>5, <2>3, WayTouches
  <2>5. now \in Achieving
        BY <1>5 DEF Achieving
  <2> QED BY <1>2, <1>5, <2>2, <2>4, <2>5 DEF Leads, Ways
<1>6. CASE now = "sa"
  <2>1. \A d \in job[t].plan : d.do = "put" /\ d.o.part = "sa"
        BY <1>6 DEF Leads
  <2>2. kernel' = {p \in kernel : ~ SameKey(p, c.o)} \cup {c.o}
        BY <1>0, <2>1 DEF Effect, Put
  <2>3. \A o : o.part # "sa" => (o \in kernel <=> o \in kernel')
        BY <1>0, <2>1, <2>2 DEF SameKey
  <2>4. \A stage \in Achieving : \A o : Concerns(stage, o) => o.part # "sa"
        BY DEF Achieving, Ways, Concerns
  <2>5. \A stage \in Achieving : Goal(t, stage) => Goal(t, stage)'
        BY <2>3, <2>4, GoalKept
  <2>6. Leads(t, now, rest)'
        BY <1>6, <2>1 DEF Leads, Ways
  <2> QED BY <2>5, <2>6
<1>7. CASE now \in {"preflight", "observe"}
      BY <1>0, <1>7 DEF JobAt
<1> QED BY <1>1, <1>3, <1>4, <1>5, <1>6, <1>7, StageSets DEF Kinds, Ways

\* What is listed leads to the goal: reconcileAddresses, the routes and the
\* rules, the states and the policies, the secret and the connection.
LEMMA DiffLeads ==
  ASSUME NEW t \in Tunnels, NEW stage \in Ways, NEW want, want = Wanted(t, stage),
         NEW have, have \subseteq kernel, \A o \in have : Concerns(stage, o),
         \A o \in kernel : Unwanted(t, stage, o) => o \in have
  PROVE  WayLeads(t, stage, DiffPlan(want, have))
<1> DEFINE dels == Calls(1, "del", have \ want)
           adds == Calls(2, "add", want \ have)
<1>1. \A c \in dels : c.turn = 1 /\ c.do = "del" /\ c.o \in have \ want
      BY CallsFields
<1>2. \A c \in adds : c.turn = 2 /\ c.do = "add" /\ c.o \in want \ have
      BY CallsFields
<1>3. \A o \in have \ want : \E c \in dels : c.o = o
      BY CallsHave
<1>4. \A o \in want \ have : \E c \in adds : c.o = o
      BY CallsHave
<1>5. \A w \in want : Concerns(stage, w)
      BY WantedConcerned
<1>6. \A o : Unwanted(t, stage, o) => o \notin want
      BY DEF Unwanted
<1> HIDE DEF dels, adds
<1>7. WayLeads(t, stage, dels \cup adds)
      BY <1>1, <1>2, <1>3, <1>4, <1>5, <1>6 DEF WayLeads
<1> QED BY <1>7 DEF DiffPlan, dels, adds

LEMMA RoutesLead ==
  ASSUME ObjectInv, NEW t \in Tunnels, NEW want, want = Wanted(t, "route"),
         NEW have, have = Mine(t, "route")
  PROVE  WayLeads(t, "route", RoutePlan(want, have))
<1> DEFINE same == {o \in have \cap want : o.tag = "th"}
           gone == {o \in have \ same : o.tag = "th" \/ o.key \in Keys(want)}
           dels == Calls(1, "del", gone)
           adds == Calls(2, "add", want \ same)
<1> HIDE DEF same, gone
<1>1. \A c \in dels : c.turn = 1 /\ c.do = "del" /\ c.o \in gone
      BY CallsFields
<1>2. \A c \in adds : c.turn = 2 /\ c.do = "add" /\ c.o \in want \ same
      BY CallsFields
<1>3. \A o \in gone : \E c \in dels : c.o = o
      BY CallsHave
<1>4. \A o \in want \ same : \E c \in adds : c.o = o
      BY CallsHave
<1>5. (\A w \in want : Concerns("route", w)) /\ "route" \in Ways
      BY WantedConcerned DEF Ways
<1>6. \A o \in have : Concerns("route", o) /\ o \in kernel
      BY MineObjects DEF Concerns
<1>7. ASSUME NEW o \in kernel, Unwanted(t, "route", o)
      PROVE  o \in gone
  <2>1. o \in have /\ o \notin want /\ o.tag \notin {"user", "bare"} /\ o.part = "route"
        BY <1>7 DEF Unwanted, Mine, Concerns
  <2>2. o.tag = "th"
        BY <2>1 DEF ObjectInv, ObjectAt, Tags
  <2> QED BY <2>1, <2>2 DEF same, gone
<1>8. same \subseteq have /\ gone \subseteq have \ same
      BY DEF same, gone
<1> HIDE DEF dels, adds
<1>9. WayLeads(t, "route", dels \cup adds)
      BY <1>1, <1>2, <1>3, <1>4, <1>5, <1>6, <1>7, <1>8 DEF WayLeads
<1> QED BY <1>9 DEF RoutePlan, same, gone, dels, adds

LEMMA ReplacesLead ==
  ASSUME ObjectInv, NEW t \in Tunnels, NEW stage \in {"state", "policy"}, NEW want, want = Wanted(t, stage),
         NEW have, have = Mine(t, stage)
  PROVE  WayLeads(t, stage, ReplacePlan(want, have))
<1> DEFINE old == {o \in have \ want : o.key \in Keys(want)}
           more == {o \in have : o.key \notin Keys(want)}
           olds == Calls(1, "del", old)
           adds == Calls(1, "add", want \ have)
           mores == Calls(2, "del", more)
<1> HIDE DEF old, more
<1>1. \A c \in olds : c.turn = 1 /\ c.do = "del" /\ c.o \in old
      BY CallsFields
<1>2. \A c \in adds : c.turn = 1 /\ c.do = "add" /\ c.o \in want \ have
      BY CallsFields
<1>3. \A c \in mores : c.turn = 2 /\ c.do = "del" /\ c.o \in more
      BY CallsFields
<1>4. \A o \in old : \E c \in olds : c.o = o
      BY CallsHave
<1>5. \A o \in want \ have : \E c \in adds : c.o = o
      BY CallsHave
<1>6. \A o \in more : \E c \in mores : c.o = o
      BY CallsHave
<1>7. (\A w \in want : Concerns(stage, w)) /\ stage \in Ways
      BY WantedConcerned DEF Ways
<1>8. \A o \in have : Concerns(stage, o) /\ o \in kernel
      BY MineObjects DEF Concerns
<1>9. \A o \in kernel : Unwanted(t, stage, o) => o \in have \ want
      BY DEF Unwanted, Mine, Concerns
<1>10. have \ want \subseteq old \cup more /\ old \subseteq have \ want /\ more \subseteq have \ want
       BY DEF Keys, old, more
<1> HIDE DEF olds, adds, mores
<1>11. WayLeads(t, stage, (olds \cup adds) \cup mores)
       BY <1>1, <1>2, <1>3, <1>4, <1>5, <1>6, <1>7, <1>8, <1>9, <1>10 DEF WayLeads
<1> QED BY <1>11 DEF ReplacePlan, old, more, olds, adds, mores

LEMMA SecretsLead ==
  ASSUME ObjectInv, NEW t \in Tunnels
  PROVE  WayLeads(t, "secret", SecretPlan(t, Spec(t)))
<1> DEFINE s == Spec(t)
           want == Wanted(t, "secret")
           dels == Calls(1, "del", Mine(t, "shared"))
           puts(turn) == Calls(turn, "put", {Secret(t, s)})
<1>1. want = {Secret(t, s)} /\ Concerns("secret", Secret(t, s)) /\ "secret" \in Ways
  <2>1. want = {Secret(t, s)} /\ "secret" \in Ways
        BY DEF Wanted, Ways
  <2> QED BY <2>1, WantedConcerned
<1>2. \A turn \in {1, 2} : /\ \A c \in puts(turn) : c.turn = turn /\ c.do = "put" /\ c.o = Secret(t, s)
                           /\ \E c \in puts(turn) : c.o = Secret(t, s)
      BY CallsFields, CallsHave
<1>3. \A c \in dels : c.turn = 1 /\ c.do = "del" /\ c.o \in Mine(t, "shared")
      BY CallsFields
<1>4. \A o \in Mine(t, "shared") : \E c \in dels : c.o = o
      BY CallsHave
<1>5. \A o \in Mine(t, "shared") : o.part = "shared" /\ Concerns("secret", o)
      BY MineObjects DEF Concerns
<1>6. CASE s.auth = "psk"
  <2>1. SecretPlan(t, s) = puts(1)
        BY <1>6 DEF SecretPlan, Secret
  <2>2. \A o : ~ Unwanted(t, "secret", o)
        BY <1>6 DEF Unwanted
  <2> HIDE DEF puts, want
  <2>3. WayLeads(t, "secret", puts(1))
        BY <1>1, <1>2, <2>2 DEF WayLeads, want
  <2> QED BY <2>1, <2>3
<1>7. CASE s.auth # "psk"
  <2>1. SecretPlan(t, s) = dels \cup puts(2)
        BY <1>7 DEF SecretPlan, Secret
  <2>2. \A o \in kernel : Unwanted(t, "secret", o) => o \in Mine(t, "shared")
        BY DEF Unwanted, Mine
  <2>3. Secret(t, s).part = "key"
        BY <1>7, KeyObject DEF Secret
  <2> HIDE DEF puts, dels, want
  <2>4. WayLeads(t, "secret", dels \cup puts(2))
        BY <1>1, <1>2, <1>3, <1>4, <1>5, <2>2, <2>3 DEF WayLeads, want
  <2> QED BY <2>1, <2>4
<1> QED BY <1>6, <1>7

LEMMA ConnectionsLead ==
  ASSUME ObjectInv, NEW t \in Tunnels
  PROVE  WayLeads(t, "conn", Calls(1, "put", {ConnectionOf(t, Spec(t))}))
<1> DEFINE want == ConnectionOf(t, Spec(t))
           plan == Calls(1, "put", {want})
<1>1. Wanted(t, "conn") = {want} /\ "conn" \in Ways
      BY DEF Wanted, Ways
<1>2. want.part = "conn" /\ want.of = t /\ want.key = <<>>
      BY VICIObjects
<1>3. \A c \in plan : c.turn = 1 /\ c.do = "put" /\ c.o = want
      BY CallsFields
<1>4. \E c \in plan : c.o = want
      BY CallsHave
<1>5. \A o \in kernel : Unwanted(t, "conn", o) => SameKey(want, o)
      BY <1>2 DEF Unwanted, Concerns, SameKey, ObjectInv, ObjectAt, Keyed
<1>6. Concerns("conn", want)
      BY <1>2 DEF Concerns
<1> HIDE DEF want, plan
<1>7. WayLeads(t, "conn", plan)
      BY <1>1, <1>3, <1>4, <1>5, <1>6 DEF WayLeads
<1> QED BY <1>7 DEF plan, want

LEMMA LinksLead ==
  ASSUME ObjectInv, NEW t \in Tunnels
  PROVE  LinkLeads(t, LinkPlan(t))
<1> DEFINE want == LinkObject(t, Spec(t))
           dels == Calls(1, "del", LinkOf(t))
           adds == Calls(2, "add", {want})
           aliases == Calls(3, "alias", {want})
<1>1. want.part = "link" /\ want.of = t
      BY VICIObjects
<1>2. CASE want \in kernel
  <2>1. LinkPlan(t) = {}
        BY <1>2 DEF LinkPlan
  <2>2. LinkOf(t) = {want}
        BY <1>1, <1>2 DEF LinkOf, ObjectInv
  <2> QED BY <2>1, <2>2 DEF LinkLeads
<1>3. CASE want \notin kernel
  <2>1. LinkPlan(t) = (dels \cup adds) \cup aliases
        BY <1>3 DEF LinkPlan
  <2>2. /\ \A c \in dels : c.turn = 1 /\ c.do = "del"
        /\ \A c \in adds : c.turn = 2 /\ c.do = "add" /\ c.o = want
        /\ \A c \in aliases : c.turn = 3 /\ c.do = "alias"
        BY CallsFields
  <2>3. (\E c \in adds : c.o = want) /\ \E c \in aliases : c.o = want
        BY CallsHave
  <2> HIDE DEF want, dels, adds, aliases
  <2>4. LinkLeads(t, (dels \cup adds) \cup aliases)
        BY <2>2, <2>3 DEF LinkLeads, want
  <2> QED BY <2>1, <2>4
<1> QED BY <1>2, <1>3

LEMMA PeersLead ==
  ASSUME NEW t \in Tunnels, LinkOf(t) # {}, Stage(t) = "peer"
  PROVE  PeerLeads(t, Plan(t))
<1>1. Plan(t) = IF Device(t) = DeviceOf(t, Spec(t)) THEN {} ELSE Calls(1, "configure", LinkOf(t))
      BY DEF Plan
<1>2. CASE Device(t) = DeviceOf(t, Spec(t))
      BY <1>1, <1>2 DEF PeerLeads
<1>3. CASE Device(t) # DeviceOf(t, Spec(t))
  <2>1. Plan(t) = Calls(1, "configure", LinkOf(t))
        BY <1>1, <1>3
  <2>2. \A c \in Plan(t) : c.do = "configure"
        BY <2>1, CallsFields
  <2>3. Plan(t) # {}
    <3>1. PICK o \in LinkOf(t) : TRUE
          OBVIOUS
    <3> QED BY <2>1, <3>1, CallsHave
  <2> QED BY <2>2, <2>3 DEF PeerLeads
<1> QED BY <1>2, <1>3

\* A list that is not refused plans what leads to the goal of its stage.
LEMMA ListLeads ==
  ASSUME TypeInv, ObjectInv, NEW t \in Tunnels, JobAt(t), Applies(t), ApplyAt(t), kind[t] # "srv6",
         job[t].do # <<>>, NEW now, now = Stage(t)
  PROVE  Leads(t, now, Plan(t))
<1> DEFINE s == Spec(t)
<1>0. job[t].op = "apply" /\ now \in ApplyStages(kind[t]) /\ kind[t] \in Kinds
      BY AppliesBusy DEF Applies
<1>1. ASSUME now \in Ways, WayLeads(t, now, Plan(t))
      PROVE  Leads(t, now, Plan(t))
      BY <1>1 DEF Leads, Ways
<1>2. CASE now = "link"
  <2>1. Plan(t) = LinkPlan(t)
        BY <1>2 DEF Plan
  <2> QED BY <1>2, <2>1, LinksLead DEF Leads, Ways
<1>3. CASE now = "peer"
  <2>1. Done(t, "link")
        BY <1>0, <1>3, DoneNow
  <2>2. Goal(t, "link")
        BY <2>1 DEF ApplyAt, Achieving
  <2>3. LinkOf(t) # {}
        BY <2>2 DEF Goal
  <2> QED BY <1>3, <2>3, PeersLead DEF Leads, Ways
<1>4. CASE now = "addr"
  <2>1. Plan(t) = DiffPlan(AddressesOf(t, s), Mine(t, "addr")) /\ now \in Ways
        BY <1>4 DEF Plan, Ways
  <2>2. Wanted(t, now) = AddressesOf(t, s)
        BY <1>4 DEF Wanted
  <2>3. Mine(t, "addr") \subseteq kernel /\ \A o \in Mine(t, "addr") : Concerns(now, o)
        BY <1>4, MineObjects DEF Concerns
  <2>4. \A o \in kernel : Unwanted(t, now, o) => o \in Mine(t, "addr")
        BY <1>4 DEF Unwanted, Concerns, Mine
  <2> QED BY <1>1, <2>1, <2>2, <2>3, <2>4, DiffLeads
<1>5. ASSUME NEW f \in {"v4", "v6"}, now = IF f = "v4" THEN "rule4" ELSE "rule6"
      PROVE  Leads(t, now, Plan(t))
  <2> DEFINE want == OfFamily(f, RulesOf(t, s, job[t].feed))
             have == OfFamily(f, Mine(t, "rule"))
  <2>1. Plan(t) = DiffPlan(want, have) /\ now \in Ways
        BY <1>5 DEF Plan, RulePlan, Ways
  <2>2. Wanted(t, now) = want
        BY <1>5 DEF Wanted
  <2>3. \A o : Concerns(now, o) <=> o.part = "rule" /\ o.key = <<f>>
        BY <1>5 DEF Concerns
  <2>4. have \subseteq kernel /\ \A o \in have : Concerns(now, o)
        BY <2>3, MineObjects DEF OfFamily
  <2>5. \A o \in kernel : Unwanted(t, now, o) => o \in have
        BY <2>3 DEF Unwanted, Mine, OfFamily
  <2> HIDE DEF want, have
  <2> QED BY <1>1, <2>1, <2>2, <2>4, <2>5, DiffLeads
<1>6. CASE now = "route"
  <2>1. Plan(t) = RoutePlan(RoutesOf(t, s, job[t].feed), Mine(t, "route")) /\ now \in Ways
        BY <1>6 DEF Plan, Ways
  <2>2. Wanted(t, "route") = RoutesOf(t, s, job[t].feed)
        BY DEF Wanted
  <2> QED BY <1>1, <1>6, <2>1, <2>2, RoutesLead
<1>7. CASE now = "state"
  <2>1. Plan(t) = ReplacePlan(StatesOf(t, s), Mine(t, "state")) /\ now \in Ways
        BY <1>7 DEF Plan, Ways
  <2>2. Wanted(t, "state") = StatesOf(t, s)
        BY DEF Wanted
  <2> QED BY <1>1, <1>7, <2>1, <2>2, ReplacesLead
<1>8. CASE now = "policy"
  <2>1. Plan(t) = ReplacePlan(PoliciesOf(t, s), Mine(t, "policy")) /\ now \in Ways
        BY <1>8 DEF Plan, Ways
  <2>2. Wanted(t, "policy") = PoliciesOf(t, s)
        BY DEF Wanted
  <2> QED BY <1>1, <1>8, <2>1, <2>2, ReplacesLead
<1>9. CASE now = "secret"
  <2>1. Plan(t) = SecretPlan(t, s) /\ now \in Ways
        BY <1>9 DEF Plan, Ways
  <2> QED BY <1>1, <1>9, <2>1, SecretsLead
<1>10. CASE now = "conn"
  <2>1. Plan(t) = Calls(1, "put", {ConnectionOf(t, s)}) /\ now \in Ways
        BY <1>10 DEF Plan, Ways
  <2> QED BY <1>1, <1>10, <2>1, ConnectionsLead
<1>11. CASE now = "sa"
  <2>1. Plan(t) \subseteq Calls(1, "put", {SAOf(t)})
        BY <1>11 DEF Plan
  <2>2. \A c \in Plan(t) : c.do = "put" /\ c.o.part = "sa"
        BY <2>1, CallsFields, VICIObjects
  <2> QED BY <1>11, <2>2 DEF Leads, Ways
<1>12. CASE now \in {"preflight", "observe"}
       BY <1>12 DEF Leads, Ways
<1>13. now \in {"link", "peer", "addr", "rule4", "rule6", "route", "state", "policy", "secret", "conn", "sa",
                "preflight", "observe"}
       BY <1>0, StageSets DEF Kinds
<1> QED BY <1>2, <1>3, <1>4, <1>5, <1>6, <1>7, <1>8, <1>9, <1>10, <1>11, <1>12, <1>13

-----------------------------------------------------------------------------
(* Applications: every step.                                               *)

LEMMA ObservedSame ==
  ASSUME NEW t \in Tunnels, kind' = kind, kernel' = kernel, NEW s, NEW feed
  PROVE  ObservedSRv6(t, s, feed)' <=> ObservedSRv6(t, s, feed)
<1>1. SRv6Routes(t, s, feed)' = SRv6Routes(t, s, feed) /\ RulesOf(t, s, feed)' = RulesOf(t, s, feed)
      BY RoutesSame
<1>2. Mine(t, "route")' = Mine(t, "route")
      BY DEF Mine
<1>3. Foreign(t, SRv6Routes(t, s, feed))' <=> Foreign(t, SRv6Routes(t, s, feed))
      BY <1>1, ConcernsSame DEF Foreign
<1>4. LeftBehind(t, s, feed)' <=> LeftBehind(t, s, feed)
      BY <1>2 DEF LeftBehind, SIDPrefix
<1> QED BY <1>1, <1>2, <1>3, <1>4 DEF ObservedSRv6

LEMMA LeadsSame ==
  ASSUME NEW t \in Tunnels, kind' = kind, kernel' = kernel,
         job'[t].rec = job[t].rec, job'[t].feed = job[t].feed, NEW stage, NEW plan, Leads(t, stage, plan)
  PROVE  Leads(t, stage, plan)'
<1>1. Spec(t)' = Spec(t)
      BY AsksSame
<1>2. LinkLeads(t, plan) => LinkLeads(t, plan)'
  <2>1. LinkOf(t)' = LinkOf(t)
        BY DEF LinkOf
  <2>2. LinkObject(t, Spec(t))' = LinkObject(t, Spec(t))
        BY <1>1 DEF LinkObject, Obj
  <2> QED BY <2>1, <2>2 DEF LinkLeads
<1>3. PeerLeads(t, plan) => PeerLeads(t, plan)'
  <2>1. Device(t)' = Device(t)
        BY DEF Mine, Device
  <2>2. DeviceOf(t, Spec(t))' = DeviceOf(t, Spec(t)) /\ (Disjoint(Spec(t))' <=> Disjoint(Spec(t)))
        BY <1>1 DEF DeviceOf, PeersOf, AllowedOf, Disjoint, Obj
  <2> QED BY <2>1, <2>2 DEF PeerLeads
<1>4. ASSUME stage \in Ways, WayLeads(t, stage, plan) PROVE WayLeads(t, stage, plan)'
  <2>1. Wanted(t, stage)' = Wanted(t, stage)
        BY <1>4, AsksSame
  <2>2. \A o : Unwanted(t, stage, o)' <=> Unwanted(t, stage, o)
        BY <1>4, UnwantedSame
  <2> QED BY <1>4, <2>1, <2>2, ConcernsSame DEF WayLeads
<1> QED BY <1>2, <1>3, <1>4 DEF Leads, Ways

\* What leaves the kernel and the job alone leaves an application as it is.
LEMMA ApplyFrame ==
  ASSUME TypeInv, NEW u \in Tunnels, JobAt(u), ApplyAt(u), kind' = kind,
         \/ kernel' = kernel /\ job'[u] = job[u]
         \/ ~ Applies(u)'
  PROVE  ApplyAt(u)'
<1>1. CASE ~ Applies(u)'
      BY <1>1 DEF ApplyAt
<1>2. CASE kernel' = kernel /\ job'[u] = job[u]
  <2>1. SUFFICES ASSUME Applies(u) PROVE ApplyAt(u)'
        BY <1>2 DEF ApplyAt, Applies
  <2>2. \A stage : Done(u, stage)' <=> Done(u, stage)
        BY <1>2 DEF Done
  <2>3. Stage(u)' = Stage(u) /\ Spec(u)' = Spec(u)
        BY <1>2 DEF Stage, Spec
  <2>4. \A stage \in Achieving : Goal(u, stage) => Goal(u, stage)'
        BY <1>2, GoalKept
  <2>5. CASE kind[u] # "srv6"
    <3>1. job[u].plan # {} => Leads(u, Stage(u), job[u].plan)
          BY <2>1, <2>5 DEF ApplyAt
    <3>2. ASSUME NEW stage, stage = Stage(u), NEW plan, plan = job[u].plan, Leads(u, stage, plan)
          PROVE  Leads(u, stage, plan)'
          BY <1>2, <3>2, LeadsSame
    <3>3. job[u].plan # {} => Leads(u, Stage(u), job[u].plan)'
          BY <1>2, <2>3, <3>1, <3>2
    <3> QED BY <1>2, <2>1, <2>2, <2>4, <2>5, <3>3 DEF ApplyAt
  <2>6. CASE kind[u] = "srv6"
    <3>1. ASSUME NEW s, s = Spec(u), NEW feed, feed = job[u].feed, ObservedSRv6(u, s, feed)
          PROVE  ObservedSRv6(u, s, feed)'
          BY <1>2, <3>1, ObservedSame
    <3>2. job[u].do = <<>> => ObservedSRv6(u, Spec(u), job[u].feed)'
          BY <1>2, <2>1, <2>3, <2>6, <3>1 DEF ApplyAt
    <3> QED BY <1>2, <2>6, <3>2 DEF ApplyAt
  <2> QED BY <2>5, <2>6
<1> QED BY <1>1, <1>2

\* A stage that has planned its calls or made one of them goes on to its goal.
LEMMA ApplyProgress ==
  ASSUME TypeInv, NEW t \in Tunnels, JobAt(t), Applies(t), ApplyAt(t), job[t].do # <<>>, kind' = kind,
         kind[t] # "srv6", NEW now, now = Stage(t), NEW rest, Leads(t, now, rest)',
         job'[t] = Planned(job[t], rest, IF rest = {} THEN Tail(job[t].do) ELSE job[t].do),
         \A stage \in Achieving : Done(t, stage) /\ stage # now /\ Goal(t, stage) => Goal(t, stage)'
  PROVE  ApplyAt(t)'
<1>1. job[t].op = "apply" /\ IsJob(job[t])
      BY DEF Applies, TypeInv
<1>2. /\ job'[t].plan = rest
      /\ job'[t].do = IF rest = {} THEN Tail(job[t].do) ELSE job[t].do
      BY <1>1, PlannedFields
<1>3. \A stage : Done(t, stage) => stage # now
      BY <1>1, DoneNow
<1>4. \A stage \in Achieving : Done(t, stage) => Goal(t, stage)'
      BY <1>3 DEF ApplyAt
<1>5. CASE rest = {}
  <2>1. job'[t].do = Tail(job[t].do)
        BY <1>2, <1>5
  <2>2. \A stage : Done(t, stage)' => Done(t, stage) \/ stage = now
        BY <1>1, <2>1, DoneTail
  <2>3. now \in Achieving => Goal(t, now)'
        BY <1>5 DEF Achieving, Leads, LinkLeads, PeerLeads, WayLeads, Goal
  <2> QED BY <1>2, <1>4, <1>5, <2>2, <2>3 DEF ApplyAt
<1>6. CASE rest # {}
  <2>1. \A stage : Done(t, stage)' <=> Done(t, stage)
        BY <1>2, <1>6 DEF Done
  <2>2. Stage(t)' = now
        BY <1>2, <1>6 DEF Stage
  <2> QED BY <1>2, <1>4, <2>1, <2>2 DEF ApplyAt
<1> QED BY <1>5, <1>6

LEMMA ApplyListed ==
  ASSUME TypeInv, ObjectInv, NEW t \in Tunnels, JobAt(t), ApplyAt(t), List(t), ~ Refused(t), kind' = kind
  PROVE  ApplyAt(t)'
<1> DEFINE plan == Plan(t)
           do == IF plan = {} THEN Tail(job[t].do) ELSE job[t].do
<1>1. job'[t] = Planned(job[t], plan, do) /\ kernel' = kernel
      BY ListJob DEF List, TypeInv
<1>2. IsJob(job[t])
      BY DEF TypeInv
<1>3. /\ job'[t].op = job[t].op /\ job'[t].rec = job[t].rec /\ job'[t].feed = job[t].feed
      /\ job'[t].err = job[t].err /\ job'[t].alone = job[t].alone /\ job'[t].do = do /\ job'[t].plan = plan
      BY <1>1, <1>2, PlannedFields
<1>4. job[t].do # <<>>
      BY DEF List, Stage
<1> SUFFICES ASSUME Applies(t) PROVE ApplyAt(t)'
    BY <1>3 DEF ApplyAt, Applies
<1>5. CASE kind[t] # "srv6"
  <2>1. PICK now : now = Stage(t)
        OBVIOUS
  <2>2. PICK rest : rest = plan
        OBVIOUS
  <2>3. Leads(t, now, rest)
        BY <1>4, <1>5, <2>1, <2>2, ListLeads
  <2>4. Leads(t, now, rest)'
        BY <1>1, <1>3, <2>3, LeadsSame
  <2>5. \A stage \in Achieving : Goal(t, stage) => Goal(t, stage)'
        BY <1>1, <1>3, GoalKept
  <2>6. job'[t] = Planned(job[t], rest, IF rest = {} THEN Tail(job[t].do) ELSE job[t].do)
        BY <1>1, <2>2
  <2> HIDE DEF plan, do
  <2> QED BY <1>4, <1>5, <2>1, <2>4, <2>5, <2>6, ApplyProgress
<1>6. CASE kind[t] = "srv6"
  <2> SUFFICES ASSUME job'[t].do = <<>> PROVE ObservedSRv6(t, Spec(t), job[t].feed)'
      BY <1>6 DEF ApplyAt
  <2>1. Tail(job[t].do) = <<>>
        BY <1>3, <1>4
  <2>2. Stage(t) = "observe"
        BY <1>4, <2>1, DoneNow DEF Applies
  <2>3. ObservedSRv6(t, Spec(t), job[t].feed)
        BY <1>6, <2>2 DEF Refused, Observed
  <2>4. ASSUME NEW s, s = Spec(t), NEW feed, feed = job[t].feed
        PROVE  ObservedSRv6(t, s, feed)'
        BY <1>1, <2>3, <2>4, ObservedSame
  <2>5. Spec(t)' = Spec(t)
        BY <1>3, AsksSame
  <2> QED BY <1>3, <2>4, <2>5
<1> QED BY <1>5, <1>6

LEMMA ApplyCalled ==
  ASSUME TypeInv, ObjectInv, NEW t \in Tunnels, JobAt(t), ApplyAt(t), NEW c \in Due(t), kind' = kind,
         ~ Impossible(t, c), Effect(t, c), job' = Disturbed(Made(t, c), t)
  PROVE  ApplyAt(t)'
<1> DEFINE gone == job[t].plan \ {c}
<1>1. job'[t] = Planned(job[t], gone, IF gone = {} THEN Tail(job[t].do) ELSE job[t].do)
      BY MadeJob
<1>2. IsJob(job[t]) /\ c \in job[t].plan
      BY DEF TypeInv, Due
<1>3. /\ job'[t].op = job[t].op /\ job'[t].rec = job[t].rec /\ job'[t].feed = job[t].feed
      /\ job'[t].err = job[t].err /\ job'[t].alone = job[t].alone
      /\ job'[t].do = IF gone = {} THEN Tail(job[t].do) ELSE job[t].do
      BY <1>1, <1>2, PlannedFields
<1>4. job[t].do # <<>>
      BY <1>2 DEF JobAt
<1> SUFFICES ASSUME Applies(t) PROVE ApplyAt(t)'
    BY <1>3 DEF ApplyAt, Applies
<1>5. CASE kind[t] # "srv6"
  <2>1. PICK now : now = Stage(t)
        OBVIOUS
  <2>2. PICK rest : rest = gone
        OBVIOUS
  <2>3. Leads(t, now, job[t].plan)
        BY <1>2, <1>5, <2>1 DEF ApplyAt
  <2>4. rest = job[t].plan \ {c} /\ job'[t] = Planned(job[t], rest, IF rest = {} THEN Tail(job[t].do) ELSE job[t].do)
        BY <1>1, <2>2
  <2> HIDE DEF gone
  <2>5. /\ Leads(t, now, rest)'
        /\ \A stage \in Achieving : Done(t, stage) /\ stage # now /\ Goal(t, stage) => Goal(t, stage)'
        BY <1>3, <1>5, <2>1, <2>3, <2>4, CallLeads
  <2> QED BY <1>4, <1>5, <2>1, <2>4, <2>5, ApplyProgress
<1>6. CASE kind[t] = "srv6"
  <2>1. Stage(t) # "observe"
        BY <1>2 DEF JobAt
  <2>2. job'[t].do # <<>>
        BY <1>3, <1>4, <2>1, DoneNow DEF Applies
  <2> QED BY <1>6, <2>2 DEF ApplyAt
<1> QED BY <1>5, <1>6

LEMMA ApplyStarted ==
  ASSUME TypeInv, NEW t \in Tunnels, NEW op \in {"apply", "remove", "mutate"}, NEW next, kind' = kind,
         kind[t] \in Kinds,
         Start(t, op, IF op = "apply" THEN Applying[kind[t]] ELSE Removing[kind[t]], stored[t], next)
  PROVE  ApplyAt(t)'
<1> DEFINE do == IF op = "apply" THEN Applying[kind[t]] ELSE Removing[kind[t]]
<1>1. job'[t] = Started(op, do, stored[t], next)
      BY DEF Start, Started, TypeInv
<1>2. job'[t].op = op /\ job'[t].do = do /\ job'[t].plan = {}
      BY <1>1, StartedFields DEF Ops
<1>3. CASE op = "apply"
  <2>1. job'[t].do = Applying[kind'[t]]
        BY <1>2, <1>3
  <2>2. \A n : n \in 1..Len(Applying[kind'[t]]) - Len(job'[t].do) => FALSE
        BY <2>1
  <2>3. \A stage : ~ Done(t, stage)'
        BY <2>2 DEF Done
  <2>4. job'[t].do # <<>>
    <3>1. Ordered(Applying[kind[t]])
          BY ApplyOrdered
    <3>2. Len(<<>>) = 0
          OBVIOUS
    <3> QED BY <2>1, <3>1, <3>2 DEF Ordered
  <2> QED BY <1>2, <2>3, <2>4 DEF ApplyAt
<1>4. CASE op # "apply"
      BY <1>2, <1>4 DEF ApplyAt, Applies
<1> QED BY <1>3, <1>4

\* The feed is there before anything is compared with it.
LEMMA ApplyLoaded ==
  ASSUME TypeInv, NEW t \in Tunnels, JobAt(t), ApplyAt(t), Load(t), kind' = kind
  PROVE  ApplyAt(t)'
<1>1. PICK feed : job' = [job EXCEPT ![t] = Fed(job[t], feed, Tail(job[t].do))]
      BY LoadJob
<1>2. job'[t] = Fed(job[t], feed, Tail(job[t].do)) /\ IsJob(job[t])
      BY <1>1 DEF TypeInv
<1>3. job'[t].op = job[t].op /\ job'[t].do = Tail(job[t].do)
      BY <1>2, FedFields
<1> SUFFICES ASSUME job[t].op = "apply" PROVE ApplyAt(t)'
    BY <1>3 DEF ApplyAt, Applies
<1>4. Stage(t) = "feed" /\ job[t].do # <<>>
      BY DEF Load, Stage
<1>5. kind[t] = "srv6"
  <2>1. "feed" \in ApplyStages(kind[t]) /\ kind[t] \in Kinds
        BY <1>4, AppliesBusy
  <2> QED BY <2>1, StageSets DEF Kinds
<1>6. job'[t].do # <<>>
      BY <1>3, <1>4, DoneNow
<1> QED BY <1>5, <1>6 DEF ApplyAt

LEMMA ApplyFailed ==
  ASSUME TypeInv, JobInv, ApplyInv, NEW t \in Tunnels, kind' = kind, kernel' = kernel, job' = Failed(t)
  PROVE  ApplyInv'
<1>1. PICK do : Failed(t) = [job EXCEPT ![t] = Broken(job[t], do)]
      BY FailedJob
<1>2. job'[t] = Broken(job[t], do) /\ \A u \in Tunnels \ {t} : job'[u] = job[u]
      BY <1>1 DEF TypeInv
<1>3. job'[t].err
      BY <1>2, BrokenFields DEF TypeInv
<1>4. ASSUME NEW u \in Tunnels \ {t}
      PROVE  ApplyAt(u)'
      BY <1>2, ApplyFrame DEF JobInv, ApplyInv
<1> QED BY <1>3, <1>4 DEF ApplyInv, ApplyAt, Applies

LEMMA ApplyStep == TypeInv /\ ObjectInv /\ JobInv /\ ApplyInv /\ [Next]_vars => ApplyInv'
<1> SUFFICES ASSUME TypeInv, ObjectInv, JobInv, ApplyInv, [Next]_vars PROVE ApplyInv'
    OBVIOUS
<1>0. kind' = kind /\ \A t \in Tunnels : JobAt(t) /\ ApplyAt(t)
      BY KindKept DEF JobInv, ApplyInv
\* A step of one job that leaves the kernel alone.
<1>1. ASSUME NEW t \in Tunnels, kernel' = kernel, \A v \in Tunnels \ {t} : job'[v] = job[v], ApplyAt(t)'
      PROVE  ApplyInv'
  <2>1. ASSUME NEW u \in Tunnels \ {t}
        PROVE  ApplyAt(u)'
        BY <1>0, <1>1, ApplyFrame
  <2> QED BY <1>1, <2>1 DEF ApplyInv
<1>2. ASSUME NEW t \in Tunnels, NEW op \in {"apply", "remove", "mutate"}, NEW next, kernel' = kernel,
             stored[t] # None,
             Start(t, op, IF op = "apply" THEN Applying[kind[t]] ELSE Removing[kind[t]], stored[t], next)
      PROVE  ApplyInv'
  <2>1. \A v \in Tunnels \ {t} : job'[v] = job[v]
        BY <1>2 DEF Start, TypeInv
  <2>2. ApplyAt(t)'
        BY <1>0, <1>2, ApplyStarted DEF TypeInv
  <2> QED BY <1>1, <1>2, <2>1, <2>2
<1>3. ASSUME NEW t \in Tunnels, StartReconcile(t)
      PROVE  ApplyInv'
  <2>1. kernel' = kernel /\ stored[t] # None
        BY <1>3 DEF StartReconcile
  <2>2. \E op \in {"apply", "remove"} :
          Start(t, op, IF op = "apply" THEN Applying[kind[t]] ELSE Removing[kind[t]], stored[t], stored[t])
        BY <1>3 DEF StartReconcile
  <2> QED BY <1>2, <2>1, <2>2
<1>4. ASSUME NEW t \in Tunnels, Load(t)
      PROVE  ApplyInv'
  <2>1. PICK feed : job' = [job EXCEPT ![t] = Fed(job[t], feed, Tail(job[t].do))]
        BY <1>4, LoadJob
  <2>2. kernel' = kernel /\ \A u \in Tunnels \ {t} : job'[u] = job[u]
        BY <1>4, <2>1 DEF Load, TypeInv
  <2>3. ApplyAt(t)'
        BY <1>0, <1>4, ApplyLoaded
  <2> QED BY <1>1, <2>2, <2>3
<1>5. ASSUME NEW t \in Tunnels, List(t)
      PROVE  ApplyInv'
  <2>1. kernel' = kernel
        BY <1>5 DEF List
  <2>2. CASE Refused(t)
        BY <1>0, <1>5, <2>1, <2>2, ApplyFailed DEF List
  <2>3. CASE ~ Refused(t)
    <3>1. \A u \in Tunnels \ {t} : job'[u] = job[u]
          BY <1>5, <2>3, ListJob DEF TypeInv
    <3>2. ApplyAt(t)'
          BY <1>0, <1>5, <2>3, ApplyListed
    <3> QED BY <1>1, <2>1, <3>1, <3>2
  <2> QED BY <2>2, <2>3
<1>6. ASSUME NEW t \in Tunnels, Do(t)
      PROVE  ApplyInv'
  <2>1. PICK c \in Due(t) :
          \/ job' = Failed(t) /\ kernel' = kernel
          \/ ~ Impossible(t, c) /\ Effect(t, c) /\ job' = Disturbed(Made(t, c), t)
        BY <1>6 DEF Do
  <2>2. CASE job' = Failed(t) /\ kernel' = kernel
        BY <1>0, <2>2, ApplyFailed
  <2>3. CASE ~ Impossible(t, c) /\ Effect(t, c) /\ job' = Disturbed(Made(t, c), t)
    <3>1. ApplyAt(t)'
          BY <1>0, <2>3, ApplyCalled
    <3>2. \A u \in Tunnels \ {t} : job'[u] = Shaken(job[u])
          BY <2>3, MadeJob
    <3>3. ASSUME NEW u \in Tunnels \ {t}
          PROVE  ApplyAt(u)'
          BY <3>2, ShakenFields DEF ApplyAt, Applies, TypeInv
    <3> QED BY <3>1, <3>3 DEF ApplyInv
  <2> QED BY <2>1, <2>2, <2>3
<1>7. ASSUME NEW t \in Tunnels, Fail(t)
      PROVE  ApplyInv'
      BY <1>0, <1>7, ApplyFailed DEF Fail
<1>8. ASSUME NEW t \in Tunnels, End(t)
      PROVE  ApplyInv'
  <2>1. job'[t] = Idle /\ kernel' = kernel /\ \A u \in Tunnels \ {t} : job'[u] = job[u]
        BY <1>8 DEF End, TypeInv
  <2>2. ApplyAt(t)'
        BY <2>1, IdleFields DEF ApplyAt, Applies
  <2> QED BY <1>1, <2>1, <2>2
<1>9. ASSUME kernel' = kernel, job' = job
      PROVE  ApplyInv'
  <2>1. \A u \in Tunnels : ApplyAt(u)'
        BY <1>0, <1>9, ApplyFrame
  <2> QED BY <2>1 DEF ApplyInv
<1>10. ASSUME NEW t \in Tunnels, Write(t)
       PROVE  ApplyInv'
  <2>1. kernel' = kernel
        BY <1>10 DEF Write
  <2>2. PICK rec : \/ stored[t] # None /\ Start(t, "mutate", Removing[kind[t]], stored[t], rec)
                   \/ UNCHANGED job
        BY <1>10 DEF Write
  <2> QED BY <1>2, <1>9, <2>1, <2>2
<1>11. ASSUME NEW t \in Tunnels, Delete(t)
       PROVE  ApplyInv'
  <2>1. kernel' = kernel /\ stored[t] # None /\ Start(t, "mutate", Removing[kind[t]], stored[t], None)
        BY <1>11 DEF Delete
  <2> QED BY <1>2, <2>1
<1>12. ASSUME job' = AllDisturbed
       PROVE  ApplyInv'
  <2>1. \A u \in Tunnels : job'[u] = Shaken(job[u])
        BY <1>12, ShakenJobs
  <2> QED BY <2>1, ShakenFields DEF ApplyInv, ApplyAt, Applies, TypeInv
<1>13. CASE Crash
  <2>1. \A u \in Tunnels : job'[u] = Idle
        BY <1>13 DEF Crash
  <2> QED BY <2>1, IdleFields DEF ApplyInv, ApplyAt, Applies
<1>14. CASE UNCHANGED vars
       BY <1>9, <1>14 DEF vars
<1>15. CASE Vanish \/ \E t \in Tunnels : User(t)
       BY <1>12, <1>15 DEF Vanish, User
<1> QED BY <1>3, <1>4, <1>5, <1>6, <1>7, <1>8, <1>10, <1>11, <1>13, <1>14, <1>15 DEF Next

-----------------------------------------------------------------------------
(* Applications: what one that succeeds has made.                          *)

\* Each stage of a kind is somewhere in its applications.
LEMMA ApplyingAll ==
  ASSUME NEW k \in Kinds, NEW stage \in ApplyStages(k)
  PROVE  \E i \in 1..Len(Applying[k]) : Applying[k][i] = stage
<1>1. CASE k = "link"
  <2> DEFINE w == <<"link", "addr", "observe">>
  <2>1. stage \in {"link", "addr", "observe"}
        BY <1>1, StageSets
  <2>2. Len(w) = 3 /\ w[1] = "link" /\ w[2] = "addr" /\ w[3] = "observe"
        OBVIOUS
  <2> HIDE DEF w
  <2>3. \E i \in 1..Len(w) : w[i] = stage
        BY <2>1, <2>2
  <2> QED BY <1>1, <2>3, KindStages DEF w
<1>2. CASE k = "wg"
  <2> DEFINE w == <<"link", "peer", "addr", "route", "rule4", "rule6", "observe">>
  <2>1. stage \in {"link", "peer", "addr", "route", "rule4", "rule6", "observe"}
        BY <1>2, StageSets
  <2>2. /\ Len(w) = 7 /\ w[1] = "link" /\ w[2] = "peer" /\ w[3] = "addr" /\ w[4] = "route"
        /\ w[5] = "rule4" /\ w[6] = "rule6" /\ w[7] = "observe"
        OBVIOUS
  <2> HIDE DEF w
  <2>3. \E i \in 1..Len(w) : w[i] = stage
        BY <2>1, <2>2
  <2> QED BY <1>2, <2>3, KindStages DEF w
<1>3. CASE k = "xfrm"
  <2> DEFINE w == <<"preflight", "link", "addr", "state", "policy", "observe">>
  <2>1. stage \in {"preflight", "link", "addr", "state", "policy", "observe"}
        BY <1>3, StageSets
  <2>2. /\ Len(w) = 6 /\ w[1] = "preflight" /\ w[2] = "link" /\ w[3] = "addr" /\ w[4] = "state"
        /\ w[5] = "policy" /\ w[6] = "observe"
        OBVIOUS
  <2> HIDE DEF w
  <2>3. \E i \in 1..Len(w) : w[i] = stage
        BY <2>1, <2>2
  <2> QED BY <1>3, <2>3, KindStages DEF w
<1>4. CASE k = "ike"
  <2> DEFINE w == <<"preflight", "link", "addr", "secret", "conn", "sa", "observe">>
  <2>1. stage \in {"preflight", "link", "addr", "secret", "conn", "sa", "observe"}
        BY <1>4, StageSets
  <2>2. /\ Len(w) = 7 /\ w[1] = "preflight" /\ w[2] = "link" /\ w[3] = "addr" /\ w[4] = "secret"
        /\ w[5] = "conn" /\ w[6] = "sa" /\ w[7] = "observe"
        OBVIOUS
  <2> HIDE DEF w
  <2>3. \E i \in 1..Len(w) : w[i] = stage
        BY <2>1, <2>2
  <2> QED BY <1>4, <2>3, KindStages DEF w
<1>5. CASE k = "srv6"
  <2> DEFINE w == <<"feed", "route", "rule4", "rule6", "observe">>
  <2>1. stage \in {"feed", "route", "rule4", "rule6", "observe"}
        BY <1>5, StageSets
  <2>2. /\ Len(w) = 5 /\ w[1] = "feed" /\ w[2] = "route" /\ w[3] = "rule4" /\ w[4] = "rule6"
        /\ w[5] = "observe"
        OBVIOUS
  <2> HIDE DEF w
  <2>3. \E i \in 1..Len(w) : w[i] = stage
        BY <2>1, <2>2
  <2> QED BY <1>5, <2>3, KindStages DEF w
<1> QED BY <1>1, <1>2, <1>3, <1>4, <1>5 DEF Kinds

\* When no stage is left, each has been gone through.
LEMMA AllDone ==
  ASSUME TypeInv, NEW t \in Tunnels, JobAt(t), Applies(t), job[t].do = <<>>, NEW stage \in ApplyStages(kind[t])
  PROVE  Done(t, stage)
<1> DEFINE w == Applying[kind[t]]
<1>1. kind[t] \in Kinds
      BY AppliesBusy DEF Applies
<1>2. Len(w) \in Nat
      BY <1>1, ApplyOrdered DEF Ordered
<1>3. Len(<<>>) = 0
      OBVIOUS
<1>4. PICK i \in 1..Len(w) : w[i] = stage
      BY <1>1, ApplyingAll
<1> HIDE DEF w
<1>5. Len(w) - Len(job[t].do) = Len(w)
      BY <1>2, <1>3
<1> QED BY <1>4, <1>5 DEF Done, w

\* A stage that is over has left just what is wanted of the objects it is about.
LEMMA GoalJust ==
  ASSUME ObjectInv, NEW t \in Tunnels, NEW stage \in {"addr", "state", "policy", "conn"}, Goal(t, stage)
  PROVE  Mine(t, stage) = Wanted(t, stage)
<1>1. stage \in Ways /\ stage # "route" /\ stage # "secret"
      BY DEF Ways
<1>2. Wanted(t, stage) \subseteq kernel /\ \A o \in kernel : ~ Unwanted(t, stage, o)
      BY <1>1 DEF Goal
<1>3. \A o \in Wanted(t, stage) : o.part = stage /\ o.tag # "user" /\ o.of = t
      BY <1>1, WantedConcerned DEF Concerns
<1>4. \A o \in Mine(t, stage) : o \in kernel /\ o.of = t /\ o.tag # "user" /\ Concerns(stage, o)
      BY DEF Mine, Concerns
<1>5. \A o \in Mine(t, stage) : o \in Wanted(t, stage)
      BY <1>1, <1>2, <1>4 DEF Unwanted
<1> QED BY <1>2, <1>3, <1>5 DEF Mine

LEMMA RulesJust ==
  ASSUME TypeInv, ObjectInv, NEW t \in Tunnels, JobAt(t), Busy(t), kind[t] = "wg",
         Goal(t, "rule4"), Goal(t, "rule6")
  PROVE  Mine(t, "rule") = RulesOf(t, Spec(t), job[t].feed)
<1> DEFINE rules == RulesOf(t, Spec(t), job[t].feed)
<1>1. ASSUME NEW o \in rules
      PROVE  o \in Mine(t, "rule")
  <2>1. o.key \in {<<"v4">>, <<"v6">>}
        BY RuleKeys
  <2>2. o \in Wanted(t, "rule4") \cup Wanted(t, "rule6")
        BY <2>1 DEF Wanted, OfFamily
  <2>3. o \in kernel
        BY <2>2 DEF Goal, Ways
  <2> QED BY <2>3, RuleObjects DEF Mine
<1>2. ASSUME NEW o \in Mine(t, "rule")
      PROVE  o \in rules
  <2>1. o \in kernel /\ o.part = "rule" /\ o.of = t /\ o.tag # "user" /\ ObjectAt(o)
        BY <1>2, MineObjects
  <2>2. o.key \in {<<"v4">>, <<"v6">>}
        BY <2>1 DEF ObjectAt, Keyed
  <2>3. CASE o.key = <<"v4">>
    <3>1. o \in Wanted(t, "rule4")
          BY <2>1, <2>3 DEF Goal, Ways, Unwanted, Concerns
    <3> QED BY <3>1 DEF Wanted, OfFamily
  <2>4. CASE o.key = <<"v6">>
    <3>1. o \in Wanted(t, "rule6")
          BY <2>1, <2>4 DEF Goal, Ways, Unwanted, Concerns
    <3> QED BY <3>1 DEF Wanted, OfFamily
  <2> QED BY <2>2, <2>3, <2>4
<1> QED BY <1>1, <1>2

LEMMA AppliedExact ==
  ASSUME TypeInv, ObjectInv, NEW t \in Tunnels, JobAt(t), ApplyAt(t), Applies(t), job[t].do = <<>>
  PROVE  Exact(t, Spec(t), job[t].feed)
<1> DEFINE s == Spec(t)
           feed == job[t].feed
           routes == RoutesOf(t, s, feed)
<1>0. kind[t] \in Kinds /\ Busy(t)
      BY AppliesBusy DEF Applies
<1>1. ASSUME kind[t] # "srv6", NEW stage \in ApplyStages(kind[t]), stage \in Achieving
      PROVE  Goal(t, stage)
      BY <1>1, AllDone DEF ApplyAt
<1>2. CASE kind[t] = "srv6"
  <2>1. ObservedSRv6(t, s, feed)
        BY <1>2 DEF ApplyAt
  <2>2. routes = SRv6Routes(t, s, feed)
        BY <1>2 DEF RoutesOf
  <2>3. \A o \in Mine(t, "route") : o.tag \in {"th", "bare"}
    <3>1. ASSUME NEW o \in Mine(t, "route")
          PROVE  o.tag \in {"th", "bare"}
      <4>1. ObjectAt(o) /\ o.part = "route" /\ o.tag # "user"
            BY MineObjects
      <4> QED BY <4>1 DEF ObjectAt, Tags
    <3> QED BY <3>1
  <2> HIDE DEF s, feed, routes
  <2>4. routes \subseteq kernel /\ \A o \in Mine(t, "route") \ routes : o.tag = "bare"
        BY <2>1, <2>2, <2>3 DEF ObservedSRv6
  <2>5. Mine(t, "rule") = RulesOf(t, s, feed)
    <3>1. {o \in kernel : o.part = "rule" /\ o.of = t} = RulesOf(t, s, feed)
          BY <2>1 DEF ObservedSRv6
    <3>2. \A o \in RulesOf(t, s, feed) : o.tag = "th"
          BY RuleObjects
    <3> QED BY <3>1, <3>2 DEF Mine
  <2>6. Exact(t, s, feed)
        BY <1>2, <2>4, <2>5 DEF Exact, routes
  <2> QED BY <2>6 DEF s, feed
<1>3. CASE kind[t] # "srv6"
  <2>1. "link" \in ApplyStages(kind[t]) /\ "addr" \in ApplyStages(kind[t])
        BY <1>0, <1>3, StageSets DEF Kinds
  <2>2. Mine(t, "link") = {LinkObject(t, s)}
    <3>1. LinkOf(t) = {LinkObject(t, s)}
          BY <1>1, <1>3, <2>1 DEF Achieving, Goal
    <3>2. LinkObject(t, s).tag = "th"
          BY VICIObjects
    <3> QED BY <3>1, <3>2 DEF Mine, LinkOf
  <2>3. Mine(t, "addr") = AddressesOf(t, s)
    <3>1. Goal(t, "addr")
          BY <1>1, <1>3, <2>1 DEF Achieving, Ways
    <3> QED BY <3>1, GoalJust DEF Wanted
  <2>4. ASSUME kind[t] = "wg"
        PROVE  /\ Disjoint(s) => Device(t) = DeviceOf(t, s)
               /\ routes \subseteq kernel /\ \A o \in Mine(t, "route") \ routes : o.tag = "bare"
               /\ Mine(t, "rule") = RulesOf(t, s, feed)
    <3>1. {"peer", "route", "rule4", "rule6"} \subseteq ApplyStages(kind[t])
          BY <2>4, StageSets
    <3>2. Goal(t, "peer") /\ Goal(t, "route") /\ Goal(t, "rule4") /\ Goal(t, "rule6")
          BY <1>1, <1>3, <3>1 DEF Achieving, Ways
    <3>3. Disjoint(s) => Device(t) = DeviceOf(t, s)
          BY <3>2 DEF Goal
    <3>4. routes \subseteq kernel /\ \A o \in kernel : ~ Unwanted(t, "route", o)
          BY <3>2 DEF Goal, Ways, Wanted
    <3>5. \A o \in Mine(t, "route") \ routes : o.tag = "bare"
          BY <3>4 DEF Unwanted, Mine, Concerns, Wanted
    <3>6. Mine(t, "rule") = RulesOf(t, s, feed)
          BY <1>0, <2>4, <3>2, RulesJust
    <3> QED BY <3>3, <3>4, <3>5, <3>6
  <2>5. ASSUME kind[t] = "xfrm"
        PROVE  Mine(t, "state") = StatesOf(t, s) /\ Mine(t, "policy") = PoliciesOf(t, s)
    <3>1. {"state", "policy"} \subseteq ApplyStages(kind[t])
          BY <2>5, StageSets
    <3>2. Goal(t, "state") /\ Goal(t, "policy")
          BY <1>1, <1>3, <3>1 DEF Achieving, Ways
    <3> QED BY <3>2, GoalJust DEF Wanted
  <2>6. ASSUME kind[t] = "ike"
        PROVE  /\ Mine(t, "conn") = {ConnectionOf(t, s)} /\ Secret(t, s) \in kernel
               /\ s.auth # "psk" => Mine(t, "shared") = {}
    <3>1. {"secret", "conn"} \subseteq ApplyStages(kind[t])
          BY <2>6, StageSets
    <3>2. Goal(t, "secret") /\ Goal(t, "conn")
          BY <1>1, <1>3, <3>1 DEF Achieving, Ways
    <3>3. Secret(t, s) \in kernel /\ \A o \in kernel : ~ Unwanted(t, "secret", o)
          BY <3>2 DEF Goal, Ways, Wanted
    <3>4. ASSUME s.auth # "psk", NEW o \in Mine(t, "shared")
          PROVE  FALSE
      <4>1. o \in kernel /\ o.of = t /\ o.tag # "user" /\ o.part = "shared"
            BY <3>4 DEF Mine
      <4>2. o = PrivateKeyOf(s)
            BY <3>3, <3>4, <4>1 DEF Unwanted, Concerns, Wanted, Secret
      <4> QED BY <4>1, <4>2, KeyObject
    <3> QED BY <3>2, <3>3, <3>4, GoalJust DEF Wanted
  <2> HIDE DEF s, feed, routes
  <2>7. Exact(t, s, feed)
        BY <1>3, <2>2, <2>3, <2>4, <2>5, <2>6 DEF Exact, routes
  <2> QED BY <2>7 DEF s, feed
<1> QED BY <1>2, <1>3

-----------------------------------------------------------------------------
(* The objects of users.                                                   *)

LEMMA DeletedSpares ==
  ASSUME ObjectInv, NEW o, o.tag # "user", o.part = "link" => \A l \in LinkOf(o.of) : l.tag # "user",
         kernel' = Deleted(o), NEW p \in kernel, p \notin kernel'
  PROVE  p.tag # "user"
<1>1. ObjectAt(p)
      BY DEF ObjectInv
<1>2. CASE o.part = "link"
  <2>1. p \in Hanging(o.of)
        BY <1>2 DEF Deleted
  <2>2. p.part = "link" => p \in LinkOf(o.of)
        BY <2>1 DEF Hanging, LinkOf
  <2> QED BY <1>1, <1>2, <2>1, <2>2 DEF Hanging, ObjectAt
<1>3. CASE o.part # "link"
      BY <1>3 DEF Deleted
<1> QED BY <1>2, <1>3

LEMMA EffectSpares ==
  ASSUME ObjectInv, NEW t \in Tunnels, JobAt(t), NEW c \in Due(t), Effect(t, c),
         NEW o \in kernel, o \notin kernel', o.tag = "user"
  PROVE  LateReplace(o)
<1>1. c \in job[t].plan /\ CallFits(t, c) /\ ObjectAt(o)
      BY DEF Due, JobAt, ObjectInv
<1>2. c.o.part = "link" => \A l \in LinkOf(t) : l.tag # "user"
      BY <1>1 DEF JobAt, Careful
<1>3. CASE c.do = "add"
      BY <1>3 DEF Effect
<1>4. CASE c.do = "put"
  <2>1. SameKey(o, c.o) /\ c.o.part \in {"key", "shared", "conn", "sa"}
        BY <1>1, <1>4 DEF Effect, Put, CallFits
  <2> QED BY <1>1, <2>1 DEF SameKey, ObjectAt
<1>5. CASE c.do = "replace"
  <2>1. SameKey(o, c.o)
        BY <1>5 DEF Effect, Put
  <2>2. ~ job[t].alone
        BY <1>1, <1>5, <2>1 DEF JobAt, Careful
  <2> QED BY <1>5, <2>1, <2>2 DEF LateReplace, SameKey
<1>6. CASE c.do = "alias"
  <2>1. o \in LinkOf(t) /\ c.o.part = "link"
        BY <1>1, <1>6 DEF Effect, CallFits
  <2> QED BY <1>2, <2>1
<1>7. CASE c.do = "configure"
  <2>1. o \in Device(t)
        BY <1>7 DEF Effect
  <2> QED BY <2>1, DeviceObjects
<1>8. CASE c.do = "del"
  <2>1. kernel' = Deleted(c.o)
        BY <1>8 DEF Effect
  <2>2. c.o.tag # "user" /\ (c.o.part = "link" => c.o.of = t)
        BY <1>1, <1>8 DEF CallFits
  <2> QED BY <1>2, <2>1, <2>2, DeletedSpares
<1> QED BY <1>1, <1>3, <1>4, <1>5, <1>6, <1>7, <1>8 DEF CallFits

LEMMA ForeignStep ==
  ASSUME TypeInv, ObjectInv, JobInv, [Next]_vars, NEW o \in kernel \ kernel', o.tag = "user"
  PROVE  LateReplace(o)
<1>1. ASSUME NEW t \in Tunnels, Do(t)
      PROVE  LateReplace(o)
  <2>1. PICK c \in Due(t) : kernel' = kernel \/ Effect(t, c)
        BY <1>1 DEF Do
  <2>2. JobAt(t)
        BY DEF JobInv
  <2> QED BY <2>1, <2>2, EffectSpares
<1>2. CASE Vanish
  <2>1. PICK p \in kernel : p.tag # "user" /\ kernel' = Deleted(p)
        BY <1>2 DEF Vanish
  <2>2. p.part = "link" => \A l \in LinkOf(p.of) : l = p
        BY DEF LinkOf, ObjectInv
  <2> QED BY <2>1, <2>2, DeletedSpares
<1>3. ASSUME NEW t \in Tunnels, StartReconcile(t) \/ Load(t) \/ List(t) \/ Fail(t) \/ End(t) \/ Write(t) \/ Delete(t) \/ User(t)
      PROVE  FALSE
      BY <1>3 DEF StartReconcile, Load, List, Fail, End, Write, Delete, User
<1>4. CASE Crash \/ UNCHANGED vars
      BY <1>4 DEF Crash, vars
<1> QED BY <1>1, <1>2, <1>3, <1>4 DEF Next

-----------------------------------------------------------------------------
(* The inductive invariant, and what it gives.                             *)

LEMMA InitInv == Init => IInv
<1> SUFFICES ASSUME Init PROVE IInv
    OBVIOUS
<1> USE DEF Init
<1>1. PICK p \in Profiles :
        /\ kind = p.kind
        /\ \A t \in Tunnels : IF t \in p.on THEN stored[t] # None /\ stored[t].s \in Offers[kind[t]]
                              ELSE stored[t] = None
      OBVIOUS
<1>2. kind \in [Tunnels -> Kinds \cup {None}] /\ \A t \in p.on : kind[t] \in Kinds
      BY <1>1, TunnelObjectsAssumption
<1>3. \A t \in Tunnels : job[t] = Idle
      OBVIOUS
<1>4. ASSUME NEW t \in Tunnels, stored[t] # None
      PROVE  kind[t] \in Kinds /\ stored[t] \in Records(kind[t])
  <2>1. t \in p.on /\ stored[t].s \in Offers[kind[t]]
        BY <1>1, <1>4
  <2>2. stored[t] \in [s : UNION {Offers[k] : k \in Kinds}, on : {TRUE}]
        BY <1>4
  <2>3. stored[t] = [s |-> stored[t].s, on |-> stored[t].on] /\ stored[t].on \in BOOLEAN
        BY <2>2
  <2> QED BY <1>2, <2>1, <2>3 DEF Records
<1>5. TypeInv
  <2>1. stored = [t \in Tunnels |-> stored[t]] /\ job = [t \in Tunnels |-> job[t]]
        OBVIOUS
  <2>2. \A t \in Tunnels : IsJob(job[t]) /\ job[t].op # "mutate"
        BY <1>3, IdleFields
  <2> QED BY <1>2, <1>4, <2>1, <2>2 DEF TypeInv
<1>6. ObjectInv /\ AccountInv
      BY DEF ObjectInv, AccountInv
<1>7. JobInv
      BY <1>3, IdleFields DEF JobInv, JobAt, Busy, Careful, Stage
<1>8. RemovalInv
      BY <1>3, IdleFields DEF RemovalInv, RemovalAt, Removes
<1>9. ApplyInv
      BY <1>3, IdleFields DEF ApplyInv, ApplyAt, Applies
<1> QED BY <1>5, <1>6, <1>7, <1>8, <1>9 DEF IInv

LEMMA NextInv == IInv /\ [Next]_vars => IInv'
BY TypeStep, ObjectStep, AccountStep, JobStep, RemovalStep, ApplyStep DEF IInv

\* Objects and jobs stay what the backends know them as, every object can be
\* traced to a record, a removal has left nothing of the stages it went
\* through, and an application has achieved what its stages are for
\* (Backend.Apply and Backend.Remove of backend/linux).
THEOREM IInvCorrect == FairSpec => []IInv
<1>1. Init => IInv
      BY InitInv
<1>2. IInv /\ [Next]_vars => IInv'
      BY NextInv
<1> QED BY <1>1, <1>2, PTL DEF FairSpec

\* An application that reports success, and that nobody disturbed, has made
\* exactly what the record asks for (Backend.Apply; "Diff exact addresses,
\* routes, rules, peers, XFRM states, and policies", docs/ROADMAP.md:134).
THEOREM ReadyIsExactCorrect == FairSpec => []ReadyIsExact
<1>1. IInv => ReadyIsExact
  <2> SUFFICES ASSUME IInv, NEW t \in Tunnels, job[t].op = "apply", job[t].do = <<>>,
                      ~ job[t].err, job[t].alone
               PROVE  Exact(t, Spec(t), job[t].feed)
      BY DEF ReadyIsExact
  <2>1. Applies(t) /\ TypeInv /\ ObjectInv /\ JobAt(t) /\ ApplyAt(t)
        BY DEF Applies, IInv, JobInv, ApplyInv
  <2> QED BY <2>1, AppliedExact
<1> QED BY <1>1, IInvCorrect, PTL

\* A removal that reports success has left nothing that TH can tell: no object
\* of the tunnel, and for IKEv2 no private key in strongSwan (Backend.Remove).
THEOREM NothingLeftCorrect == FairSpec => []NothingLeft
<1>1. IInv => NothingLeft
  <2> SUFFICES ASSUME IInv, NEW t \in Tunnels, job[t].op \in {"remove", "mutate"}, job[t].do = <<>>,
                      ~ job[t].err, job[t].alone
               PROVE  Traces(t) = {} /\ (kind[t] = "ike" /\ Spec(t).auth # "psk" => PrivateKeyOf(Spec(t)) \notin kernel)
      BY DEF NothingLeft
  <2>1. Removes(t) /\ TypeInv /\ ObjectInv /\ JobAt(t) /\ RemovalAt(t)
        BY DEF Removes, IInv, JobInv, RemovalInv
  <2> QED BY <2>1, RemovedAll
<1> QED BY <1>1, IInvCorrect, PTL

\* No object outlives the record that could remove it (Reconciler.Delete and
\* requiresCleanupBeforeUpdate: the runtime is removed before the record is).
THEOREM AccountedCorrect == FairSpec => []Accounted
<1>1. IInv => Accounted
      BY DEF IInv, AccountInv, Accounted
<1> QED BY <1>1, IInvCorrect, PTL

\* TH takes no object of a user away, but for a route that appears after
\* reconcileSRv6Routes listed the table (assertManagedRouteClaimsAvailable,
\* ErrOwnershipConflict).
THEOREM ForeignStaysCorrect == FairSpec => ForeignStays
<1>1. IInv /\ [Next]_vars => [\A o \in kernel \ kernel' : o.tag = "user" => LateReplace(o)]_vars
      BY ForeignStep DEF IInv
<1> QED BY <1>1, IInvCorrect, PTL DEF FairSpec, ForeignStays
=============================================================================
