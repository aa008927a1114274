-------------------------- MODULE LinuxBackendProofs --------------------------
(***************************************************************************)
(* Proofs about LinuxBackend for every set of tunnels, versions, tables    *)
(* and budgets: the speaker that runs is the one that the tunnels call     *)
(* for, an operator's own routes and endpoints stay, and a changed policy  *)
(* is installed.  The first rests on an invariant about reconciliations    *)
(* that overtake each other while an old speaker is being closed.          *)
(***************************************************************************)
EXTENDS LinuxBackend, SequenceTheorems, TLAPS

Participation == [Tunnels -> Versions \cup {None}]
Speakers == [tunnels : Participation, port : [Tunnels -> {"live", "stale", "none"}]]
Stages == {"link", "unlink", "babelset", "refresh", "babel", "mptcpset", "mptcpall",
           "mptcprefresh", "mptcp", "save"}
Inside == {"closing", "build", "routes", "clear", "replace", "remove"}
Decided == {"routes", "clear", "replace", "remove"}
Locked == {"synced", "listed"}

EngineShape ==
  engine = [settings |-> engine.settings, tunnels |-> engine.tunnels, built |-> engine.built,
            speaker |-> engine.speaker, force |-> engine.force]
CallShape(x) ==
  x = [op |-> x.op, do |-> x.do, of |-> x.of, rec |-> x.rec, err |-> x.err, at |-> x.at,
       built |-> x.built, plan |-> x.plan]

TypeInv ==
  /\ stored \in [Tunnels -> Record \cup {None}]
  /\ disk \in Settings
  /\ left \in [Counted -> Nat]
  /\ EngineShape /\ engine.settings \in Settings /\ engine.tunnels \in Participation
  /\ engine.speaker # None => engine.speaker \in Speakers /\ engine.built \in Participation
  /\ calls = [c \in Callers |-> calls[c]]
  /\ \A c \in Callers : CallShape(calls[c])

\* A writer is alone.
GateInv == Writing => \A c \in Callers \ {"writer"} : calls[c].op = "none"

Changing(x) == x.op \in {"settings", "restore"}

\* Every "babelset" of a plan is followed by "babel".
WellFormed(s) ==
  /\ s \in Seq(Stages)
  /\ \A i \in DOMAIN s : s[i] = "babelset" => i + 1 \in DOMAIN s /\ s[i + 1] = "babel"
Without(s, stage) == \A i \in DOMAIN s : s[i] # stage

\* Settings are not its business.
Plain(s) == Without(s, "refresh") /\ Without(s, "save")

\* What a call may be about.  A reconciliation is about the stored record.
CallAt(c, x) ==
  /\ x.op = "none" => x.do = <<>>
  /\ c \in Tunnels => x.op \in {"none", "reconcile"}
  /\ c = "global" => x.op \in {"none", "global"}
  /\ c = "writer" => x.op \in {"none", "write", "delete", "settings", "restore"}
  /\ x.op = "reconcile" => x.of = c /\ c \in Tunnels /\ x.rec = stored[c] /\ x.rec \in Record
  /\ x.op \in {"write", "delete"} => x.of \in Tunnels /\ x.rec \in Record
  /\ Changing(x) => x.rec \in Settings
  /\ WellFormed(x.do)
  /\ x.op \in {"reconcile", "write", "delete"} \/ Without(x.do, "babelset")
  /\ Changing(x) \/ Plain(x.do)
CallInv == \A c \in Callers : CallAt(c, calls[c])

\* Who is in the middle of refreshSettings or reconcileSerialized holds the
\* mutex; the places of the MPTCP engine have one of their own.
PlaceAt(c, x) ==
  x.do # <<>> /\ x.at # "wait" =>
    /\ x.at \in Inside \cup {"moving"} \cup Locked
    /\ x.at \notin Locked => holder = c
    /\ x.at \in Locked => Head(x.do) \in {"mptcp", "mptcpall"}
    /\ x.at = "moving" => Head(x.do) = "refresh"
    /\ x.at \in Inside => Head(x.do) = "babel"
PlaceInv == \A c \in Callers : PlaceAt(c, calls[c])

\* c has still to compare the fingerprint.
Undecided(x) ==
  \E i \in DOMAIN x.do : x.do[i] = "babel" /\ ~ (i = 1 /\ x.at \in Decided)
Closing(x) == x.do # <<>> /\ x.at \in {"closing", "build"}

\* What a reconciliation makes of a tunnel.
Wanted(t) == IF stored[t].on THEN stored[t].v ELSE None

\* The fingerprint kept for a speaker may be older than the tunnels it was
\* built from; then they have been changed by a reconciliation, to what the
\* records say, and are what another one has still to compare.
BuiltInv ==
  engine.speaker # None =>
    /\ \A t \in Tunnels : engine.built[t] # engine.speaker.tunnels[t] =>
         engine.speaker.tunnels[t] = engine.tunnels[t] /\ engine.tunnels[t] = Wanted(t)
    /\ engine.speaker.tunnels # engine.tunnels \/ engine.built # engine.tunnels =>
         \E c \in Callers : Undecided(calls[c])
    /\ Writing => engine.built = engine.speaker.tunnels
    /\ Changing(calls["writer"]) => engine.speaker.tunnels = engine.tunnels

\* So it is with the fingerprint taken before an old speaker is closed.
ClosingInv ==
  \A c \in Callers : Closing(calls[c]) =>
    /\ engine.speaker = None /\ calls[c].built \in Participation
    /\ \A t \in Tunnels : calls[c].built[t] # engine.tunnels[t] => engine.tunnels[t] = Wanted(t)
    /\ calls[c].built # engine.tunnels => \E d \in Callers \ {c} : Undecided(calls[d])

SpeakerInv == TypeInv /\ GateInv /\ CallInv /\ PlaceInv /\ BuiltInv /\ ClosingInv

\* A route that is not TH's uses no tunnel.
RouteInv ==
  /\ routes = [n \in Tables |-> routes[n]]
  /\ \A n \in Tables : routes[n].owner # "th" => routes[n].via = {} /\ routes[n].w = 0

\* How far a change of settings is.
Ordered(s) ==
  /\ s \in Seq(Stages)
  /\ \A i \in DOMAIN s : s[i] = "refresh" => i = 1
  /\ \A i, j \in DOMAIN s : s[i] = "babel" /\ s[j] = "babel" => i = j
  /\ \A i \in DOMAIN s : s[i] \in {"refresh", "babel"} => uses.babel
  /\ \A i \in DOMAIN s : s[i] = "save" => i = Len(s)
Refreshed(x) == ~ (x.do # <<>> /\ Head(x.do) = "refresh" /\ x.at = "wait")
Reconciling(x) == \E i \in DOMAIN x.do : x.do[i] = "babel"
Saving(x) == \E i \in DOMAIN x.do : x.do[i] = "save"

SettingsInv ==
  LET x == calls["writer"] IN
  /\ Changing(x) => Ordered(x.do)
  /\ x.op = "restore" => x.rec = disk
  /\ x.op = "settings" => Saving(x) \/ x.rec = disk
  /\ uses.babel /\ ~ torn =>
       /\ ~ Changing(x) => engine.settings = disk
       /\ Changing(x) /\ Refreshed(x) => engine.settings = x.rec
       /\ x.op = "settings" /\ ~ Refreshed(x) => engine.settings = disk
       /\ x.op = "settings" /\ Refreshed(x) /\ Reconciling(x) /\ x.rec.policy # disk.policy => engine.force

-----------------------------------------------------------------------------
(* The stages of a call.                                                   *)

LEMMA Joined ==
  ASSUME NEW r, NEW s, WellFormed(r), WellFormed(s)
  PROVE  WellFormed(r \o s) /\ \A st : Without(r, st) /\ Without(s, st) => Without(r \o s, st)
<1>1. /\ r \in Seq(Stages) /\ s \in Seq(Stages)
      /\ Len(r) \in Nat /\ Len(s) \in Nat
      /\ DOMAIN r = 1..Len(r) /\ DOMAIN s = 1..Len(s)
  BY LenProperties DEF WellFormed
<1>2. /\ r \o s \in Seq(Stages) /\ Len(r \o s) = Len(r) + Len(s)
      /\ DOMAIN (r \o s) = 1..(Len(r) + Len(s))
      /\ \A i \in 1..(Len(r) + Len(s)) : (r \o s)[i] = IF i <= Len(r) THEN r[i] ELSE s[i - Len(r)]
  BY <1>1, ConcatProperties, LenProperties
<1> DEFINE rs == r \o s
<1>3. ASSUME NEW i \in DOMAIN rs, rs[i] = "babelset"
      PROVE  i + 1 \in DOMAIN rs /\ rs[i + 1] = "babel"
  <2>1. CASE i <= Len(r)
    <3>1. i \in DOMAIN r /\ r[i] = "babelset"
      BY <2>1, <1>1, <1>2, <1>3
    <3>2. i + 1 \in 1..Len(r) /\ r[i + 1] = "babel"
      BY <3>1, <1>1 DEF WellFormed
    <3> QED  BY <3>2, <1>1, <1>2
  <2>2. CASE i > Len(r)
    <3>1. i - Len(r) \in DOMAIN s /\ s[i - Len(r)] = "babelset"
      BY <2>2, <1>1, <1>2, <1>3
    <3>2. (i - Len(r)) + 1 \in 1..Len(s) /\ s[(i - Len(r)) + 1] = "babel"
      BY <3>1, <1>1 DEF WellFormed
    <3>3. (i + 1) - Len(r) = (i - Len(r)) + 1 /\ i + 1 \in 1..(Len(r) + Len(s)) /\ ~ (i + 1 <= Len(r))
      BY <3>2, <2>2, <1>1, <1>2, <1>3
    <3> QED  BY <3>2, <3>3, <1>2
  <2> QED  BY <2>1, <2>2, <1>1, <1>2
<1>4. ASSUME NEW st, Without(r, st), Without(s, st), NEW i \in DOMAIN rs
      PROVE  rs[i] # st
  <2>1. CASE i <= Len(r)
    BY <2>1, <1>1, <1>2, <1>4 DEF Without
  <2>2. CASE i > Len(r)
    <3>1. i - Len(r) \in DOMAIN s
      BY <2>2, <1>1, <1>2, <1>4
    <3> QED  BY <3>1, <2>2, <1>1, <1>2, <1>4 DEF Without
  <2> QED  BY <2>1, <2>2, <1>1, <1>2, <1>4
<1> QED  BY <1>2, <1>3, <1>4 DEF WellFormed, Without

\* What Backend.Apply, Remove, ReconcileGlobal and the changes of settings go
\* through: upsertTunnel and removeTunnel are followed by a reconciliation,
\* and only settings are refreshed.
LEMMA Plans ==
  /\ WellFormed(Applying) /\ Plain(Applying)
  /\ WellFormed(Removing) /\ Plain(Removing)
  /\ WellFormed(Global) /\ Plain(Global) /\ Without(Global, "babelset")
  /\ WellFormed(Restoring) /\ Without(Restoring, "babelset")
  /\ WellFormed(Updating) /\ Without(Updating, "babelset")
  /\ WellFormed(<<>>) /\ \A st : Without(<<>>, st)
<1> DEFINE Tame(s) == WellFormed(s) /\ Plain(s)
           Bare(s) == WellFormed(s) /\ Without(s, "babelset")
<1>1. WellFormed(<<>>) /\ \A st : Without(<<>>, st)
  BY DEF WellFormed, Without, Stages, Plain
<1>2. Tame(<<"link">>) /\ Tame(<<"unlink">>) /\ Bare(<<"save">>)
  BY DEF WellFormed, Without, Stages, Plain
<1>3. /\ Tame(<<"babelset", "babel">>) /\ Tame(<<"babel">>) /\ Bare(<<"babel">>)
      /\ Bare(<<"refresh", "babel">>)
  BY DEF WellFormed, Without, Stages, Plain
<1>4. /\ Tame(<<"mptcpset", "mptcp">>)
      /\ Tame(<<"mptcpall">>) /\ Bare(<<"mptcpall">>)
      /\ Bare(<<"mptcprefresh", "mptcp">>)
  BY DEF WellFormed, Without, Stages, Plain
<1>5. \A s : /\ Tame(s) => Tame(Babel(s)) /\ Tame(MPTCP(s))
             /\ Bare(s) => Bare(Babel(s)) /\ Bare(MPTCP(s))
  BY <1>1 DEF Babel, MPTCP, Plain
<1>6. \A r, s : /\ Tame(r) /\ Tame(s) => Tame(r \o s)
                /\ Bare(r) /\ Bare(s) => Bare(r \o s)
  BY Joined DEF Plain
<1>7. \A s : /\ Tame(s) => WellFormed(s) /\ Plain(s)
             /\ Bare(s) => WellFormed(s) /\ Without(s, "babelset")
  OBVIOUS
<1> HIDE DEF Tame, Bare
<1>8. Tame(Applying)
  <2>1. Tame(<<"link">> \o Babel(<<"babelset", "babel">>))
    BY <1>2, <1>3, <1>5, <1>6
  <2> QED  BY <2>1, <1>4, <1>5, <1>6 DEF Applying
<1>9. Tame(Removing)
  <2>1. Tame(MPTCP(<<"mptcpset", "mptcp">>) \o <<"unlink">>)
    BY <1>2, <1>4, <1>5, <1>6
  <2> QED  BY <2>1, <1>3, <1>5, <1>6 DEF Removing
<1>10. Tame(Global) /\ Bare(Global)
  BY <1>3, <1>4, <1>5, <1>6 DEF Global
<1>11. Bare(Restoring)
  BY <1>3, <1>4, <1>5, <1>6 DEF Restoring
<1>12. Updating = Restoring \o <<"save">>
  BY <1>7, <1>11, AppendIsConcat DEF Updating, WellFormed, Stages
<1>13. Bare(Updating)
  BY <1>2, <1>6, <1>11, <1>12
<1> QED  BY <1>1, <1>7, <1>8, <1>9, <1>10, <1>11, <1>13

\* What is left of a plan after its first stage.
LEMMA Rest ==
  ASSUME NEW s, WellFormed(s), s # <<>>
  PROVE  /\ Head(s) = s[1] /\ 1 \in DOMAIN s
         /\ WellFormed(Tail(s)) /\ \A st : Without(s, st) => Without(Tail(s), st)
         /\ \A i \in DOMAIN Tail(s) : i + 1 \in DOMAIN s /\ Tail(s)[i] = s[i + 1]
         /\ \A i \in DOMAIN s : i # 1 => i - 1 \in DOMAIN Tail(s) /\ Tail(s)[i - 1] = s[i]
<1>1. s \in Seq(Stages) /\ Len(s) \in Nat /\ DOMAIN s = 1..Len(s) /\ Len(s) # 0
  BY LenProperties, EmptySeq DEF WellFormed
<1>2. /\ Tail(s) \in Seq(Stages) /\ Len(Tail(s)) = Len(s) - 1
      /\ DOMAIN Tail(s) = 1..(Len(s) - 1)
      /\ \A i \in 1..(Len(s) - 1) : Tail(s)[i] = s[i + 1]
  BY <1>1, HeadTailProperties, LenProperties
<1>3. \A i \in DOMAIN Tail(s) : i + 1 \in DOMAIN s /\ Tail(s)[i] = s[i + 1]
  BY <1>1, <1>2
<1>4. \A i \in DOMAIN s : i # 1 => i - 1 \in DOMAIN Tail(s) /\ Tail(s)[i - 1] = s[i]
  <2> TAKE i \in DOMAIN s
  <2> HAVE i # 1
  <2>1. i - 1 \in 1..(Len(s) - 1) /\ (i - 1) + 1 = i
    BY <1>1
  <2> QED  BY <2>1, <1>2
<1>5. ASSUME NEW i \in DOMAIN Tail(s), Tail(s)[i] = "babelset"
      PROVE  i + 1 \in DOMAIN Tail(s) /\ Tail(s)[i + 1] = "babel"
  <2>1. i + 1 \in DOMAIN s /\ s[i + 1] = "babelset"
    BY <1>3, <1>5
  <2>2. (i + 1) + 1 \in DOMAIN s /\ s[(i + 1) + 1] = "babel"
    BY <2>1 DEF WellFormed
  <2>3. i + 1 \in 1..(Len(s) - 1)
    BY <2>2, <1>1, <1>2, <1>5
  <2> QED  BY <2>2, <2>3, <1>2
<1>6. Head(s) = s[1] /\ 1 \in DOMAIN s
  BY <1>1
<1>7. \A st : Without(s, st) => Without(Tail(s), st)
  BY <1>3 DEF Without
<1> QED  BY <1>2, <1>3, <1>4, <1>5, <1>6, <1>7 DEF WellFormed

-----------------------------------------------------------------------------
(* Calls that go on without a look at the fingerprint.                     *)

\* What changes of the engine when nobody builds a speaker.
EngineKept ==
  /\ EngineShape' /\ engine'.settings \in Settings
  /\ engine'.tunnels = engine.tunnels /\ engine'.built = engine.built
  /\ engine'.speaker # None =>
       /\ engine.speaker # None /\ engine'.speaker \in Speakers
       /\ engine'.speaker.tunnels = engine.speaker.tunnels

Replaced(c, y) ==
  /\ calls' = [d \in Callers |-> calls'[d]]
  /\ \A d \in Callers : calls'[d] = IF d = c THEN y ELSE calls[d]

MovesTo(c, y) ==
  /\ CallShape(y) /\ CallAt(c, y)
  /\ calls[c].op # "none" /\ (y.op = calls[c].op \/ (Changing(calls[c]) /\ Changing(y)))
  /\ ~ Closing(y)

\* What c has still to compare it does not forget, unless there is nothing to
\* compare it with.
Keeps(c, y) ==
  \/ Undecided(calls[c]) => Undecided(y) \/ Changing(calls[c])
  \/ engine.speaker = None /\ \A d \in Callers \ {c} : ~ Closing(calls[d])

\* Nobody else changes settings, or is busy at all, beside a change of settings.
LEMMA Alone ==
  ASSUME SpeakerInv, NEW c \in Callers, calls[c].op \notin {"none", "reconcile", "global"}
  PROVE  c = "writer" /\ Writing /\ \A d \in Callers \ {c} : calls[d].op = "none" /\ calls[d].do = <<>>
BY LinuxBackendAssumption DEF SpeakerInv, CallInv, CallAt, GateInv, Writing, Callers

\* A call that goes on keeps the invariant.
LEMMA CallGoesOn ==
  ASSUME SpeakerInv, NEW c \in Callers, NEW y, MovesTo(c, y), Keeps(c, y), Replaced(c, y),
         stored' = stored, disk' \in Settings, left' \in [Counted -> Nat], EngineKept,
         \A d \in Callers \ {c} : holder = d => holder' = d,
         y.do # <<>> /\ y.at # "wait" =>
           \/ y.at \in Locked /\ Head(y.do) \in {"mptcp", "mptcpall"}
           \/ holder' = c /\ y.at = "moving" /\ Head(y.do) = "refresh"
           \/ holder' = c /\ y.at \in {"replace", "remove"} /\ Head(y.do) = "babel"
  PROVE  SpeakerInv'
<1> DEFINE x == calls[c]
<1>1. /\ \A d \in Callers : calls'[d] = IF d = c THEN y ELSE calls[d]
      /\ calls' = [d \in Callers |-> calls'[d]]
      /\ "writer" \in Callers
  BY DEF Replaced, Callers
<1>2. \A d \in Callers : calls'[d].op = "none" <=> calls[d].op = "none"
  BY <1>1 DEF MovesTo, Changing
<1>3. /\ Writing' <=> Writing
      /\ Changing(calls'["writer"]) <=> Changing(calls["writer"])
  BY <1>1, <1>2 DEF Writing, MovesTo, Changing
<1>4. TypeInv'
  <2>1. /\ stored' \in [Tunnels -> Record \cup {None}] /\ disk' \in Settings /\ left' \in [Counted -> Nat]
    BY DEF SpeakerInv, TypeInv
  <2>2. EngineShape' /\ engine'.settings \in Settings /\ engine'.tunnels \in Participation
    BY DEF SpeakerInv, TypeInv, EngineKept
  <2>3. engine'.speaker # None => engine'.speaker \in Speakers /\ engine'.built \in Participation
    BY DEF SpeakerInv, TypeInv, EngineKept
  <2>4. \A d \in Callers : CallShape(calls'[d])
    BY <1>1 DEF SpeakerInv, TypeInv, MovesTo
  <2> QED  BY <1>1, <2>1, <2>2, <2>3, <2>4 DEF TypeInv
<1>5. GateInv'
  BY <1>2, <1>3 DEF SpeakerInv, GateInv
<1>6. CallInv'
  <2>1. \A d \in Callers : CallAt(d, calls'[d])
    BY <1>1 DEF SpeakerInv, CallInv, MovesTo
  <2>2. \A d \in Callers : \A z : CallAt(d, z) => CallAt(d, z)'
    BY DEF CallAt, Changing, WellFormed, Without, Plain
  <2> QED  BY <2>1, <2>2 DEF CallInv
<1>7. PlaceInv'
  <2> SUFFICES ASSUME NEW d \in Callers PROVE PlaceAt(d, calls[d])'
    BY DEF PlaceInv
  <2>1. CASE d = c
    BY <2>1, <1>1 DEF PlaceAt, Inside, Locked
  <2>2. CASE d # c
    BY <2>2, <1>1 DEF PlaceAt, SpeakerInv, PlaceInv
  <2> QED  BY <2>1, <2>2
<1>8. ASSUME Changing(x)
      PROVE  c = "writer" /\ Writing /\ \A d \in Callers \ {c} : calls[d].op = "none" /\ calls[d].do = <<>>
  BY <1>8, Alone DEF Changing
<1>9. (\E d \in Callers : Undecided(calls[d])) =>
        (\E d \in Callers : Undecided(calls'[d])) \/ Changing(x) \/ engine.speaker = None
  BY <1>1 DEF Keeps
<1>10. \A t : Wanted(t)' = Wanted(t)
  BY DEF Wanted
<1>11. BuiltInv'
  <2> SUFFICES ASSUME engine'.speaker # None PROVE BuiltInv'
    BY DEF BuiltInv
  <2>1. /\ engine.speaker # None
        /\ engine'.speaker.tunnels = engine.speaker.tunnels
        /\ engine'.tunnels = engine.tunnels /\ engine'.built = engine.built
    BY DEF EngineKept
  <2>2. \A t \in Tunnels : engine'.built[t] # engine'.speaker.tunnels[t] =>
          engine'.speaker.tunnels[t] = engine'.tunnels[t] /\ engine'.tunnels[t] = Wanted(t)'
    BY <2>1, <1>10 DEF SpeakerInv, BuiltInv
  <2>3. engine'.speaker.tunnels # engine'.tunnels \/ engine'.built # engine'.tunnels =>
          \E d \in Callers : Undecided(calls'[d])
    BY <2>1, <1>8, <1>9 DEF SpeakerInv, BuiltInv
  <2>4. Writing' => engine'.built = engine'.speaker.tunnels
    BY <2>1, <1>3 DEF SpeakerInv, BuiltInv
  <2>5. Changing(calls'["writer"]) => engine'.speaker.tunnels = engine'.tunnels
    BY <2>1, <1>3 DEF SpeakerInv, BuiltInv
  <2>6. \A d \in Callers : Undecided(calls'[d]) => Undecided(calls[d])'
    BY DEF Undecided
  <2> QED  BY <2>2, <2>3, <2>4, <2>5, <2>6 DEF BuiltInv, Changing
<1>12. ClosingInv'
  <2> SUFFICES ASSUME NEW d \in Callers, Closing(calls'[d])
               PROVE  /\ engine'.speaker = None /\ calls'[d].built \in Participation
                      /\ \A t \in Tunnels : calls'[d].built[t] # engine'.tunnels[t] => engine'.tunnels[t] = Wanted(t)'
                      /\ calls'[d].built # engine'.tunnels => \E e \in Callers \ {d} : Undecided(calls'[e])
    BY DEF ClosingInv, Closing, Undecided
  <2>1. d # c /\ calls'[d] = calls[d] /\ Closing(calls[d])
    BY <1>1 DEF MovesTo
  <2>2. ~ Changing(x)
    BY <1>8, <2>1 DEF Closing
  <2>3. /\ engine.speaker = None /\ calls[d].built \in Participation
        /\ \A t \in Tunnels : calls[d].built[t] # engine.tunnels[t] => engine.tunnels[t] = Wanted(t)
        /\ calls[d].built # engine.tunnels => \E e \in Callers \ {d} : Undecided(calls[e])
    BY <2>1 DEF SpeakerInv, ClosingInv
  <2>4. calls[d].built # engine.tunnels => \E e \in Callers \ {d} : Undecided(calls'[e])
    BY <2>1, <2>2, <2>3, <1>1 DEF Keeps
  <2> QED  BY <2>1, <2>3, <2>4, <1>10 DEF EngineKept
<1> QED  BY <1>4, <1>5, <1>6, <1>7, <1>11, <1>12 DEF SpeakerInv

Passed(c) == calls[c].do # <<>> /\ (Head(calls[c].do) # "babel" \/ calls[c].at \in Decided)

\* A stage that is over leaves the rest of the plan.
LEMMA AdvancedCall ==
  ASSUME SpeakerInv, NEW c \in Callers, calls[c].do # <<>>, NEW err, calls' = Advanced(c, err)
  PROVE  \E y : /\ Replaced(c, y) /\ MovesTo(c, y) /\ (Passed(c) => Keeps(c, y))
                /\ y.at = "wait" /\ y.do = Tail(calls[c].do) /\ y.op = calls[c].op
                /\ y.rec = calls[c].rec
<1> DEFINE x == calls[c]
           y == calls'[c]
<1>1. /\ CallShape(x) /\ CallAt(c, x) /\ x.do # <<>>
      /\ calls = [d \in Callers |-> calls[d]]
  BY DEF SpeakerInv, TypeInv, CallInv
<1>2. /\ calls' = [d \in Callers |-> calls'[d]]
      /\ \A d \in Callers \ {c} : calls'[d] = calls[d]
      /\ y.op = x.op /\ y.do = Tail(x.do) /\ y.at = "wait" /\ y.of = x.of /\ y.rec = x.rec
      /\ CallShape(y)
  BY <1>1 DEF Advanced, CallShape
<1>3. WellFormed(Tail(x.do)) /\ \A st : Without(x.do, st) => Without(Tail(x.do), st)
  BY <1>1, Rest DEF CallAt
<1> HIDE DEF y
<1>4. CallAt(c, y)
  BY <1>1, <1>2, <1>3 DEF CallAt, Changing, Plain
<1>5. ASSUME Passed(c), Undecided(x) PROVE Undecided(y)
  <2>1. PICK i \in DOMAIN x.do : x.do[i] = "babel" /\ ~ (i = 1 /\ x.at \in Decided)
    BY <1>5 DEF Undecided
  <2>2. i # 1
    BY <2>1, <1>1, <1>5, Rest DEF Passed, CallAt
  <2>3. i - 1 \in DOMAIN y.do /\ y.do[i - 1] = "babel"
    BY <2>1, <2>2, <1>1, <1>2, Rest DEF CallAt
  <2> QED  BY <2>3, <1>2 DEF Undecided, Decided
<1>6. MovesTo(c, y)
  <2>1. x.op # "none" /\ ~ Closing(y)
    BY <1>1, <1>2 DEF CallAt, Closing
  <2> QED  BY <2>1, <1>2, <1>4 DEF MovesTo
<1>7. Replaced(c, y)
  BY <1>2 DEF Replaced, y
<1>8. Passed(c) => Keeps(c, y)
  BY <1>5 DEF Keeps
<1> QED  BY <1>2, <1>6, <1>7, <1>8

\* A failing stage leaves the rest of the plan, too, or ends a change of
\* settings.
LEMMA FailedCall ==
  ASSUME SpeakerInv, NEW c \in Callers, calls[c].do # <<>>, calls' = Failed(c)
  PROVE  \E y : /\ Replaced(c, y) /\ MovesTo(c, y)
                /\ (Passed(c) \/ Changing(calls[c]) => Keeps(c, y))
                /\ (y.at = "wait" \/ y.do = <<>>)
<1> DEFINE x == calls[c]
           y == calls'[c]
<1>1. CASE ~ Changing(x)
  <2>1. calls' = Advanced(c, TRUE)
    BY <1>1 DEF Failed, Changing
  <2>2. PICK z : /\ Replaced(c, z) /\ MovesTo(c, z) /\ z.at = "wait"
                 /\ (Passed(c) => Keeps(c, z))
    BY <2>1, AdvancedCall
  <2> QED  BY <1>1, <2>2
<1>2. CASE Changing(x)
  <2>1. /\ c = "writer" /\ calls' = Stopped(c) /\ CallShape(x) /\ CallAt(c, x)
        /\ calls = [d \in Callers |-> calls[d]]
    BY <1>2, Alone DEF Failed, Changing, SpeakerInv, TypeInv, CallInv
  <2>2. CASE x.op = "settings"
    <3>1. /\ calls' = [d \in Callers |-> calls'[d]]
          /\ \A d \in Callers \ {c} : calls'[d] = calls[d]
          /\ y = Call("restore", Restoring, None, disk)
      BY <2>1, <2>2 DEF Stopped
    <3>2. /\ CallShape(y) /\ y.op = "restore" /\ y.do = Restoring /\ y.at = "wait" /\ y.rec = disk
      BY <3>1 DEF Call, Idle, CallShape
    <3> HIDE DEF y
    <3>3. CallAt(c, y)
      BY <3>2, <2>1, Plans, LinuxBackendAssumption DEF CallAt, Changing, SpeakerInv, TypeInv
    <3>4. MovesTo(c, y)
      BY <1>2, <2>2, <3>2, <3>3 DEF MovesTo, Changing, Closing
    <3>5. Replaced(c, y)
      BY <3>1 DEF Replaced, y
    <3> QED  BY <1>2, <3>2, <3>4, <3>5 DEF Keeps
  <2>3. CASE x.op # "settings"
    <3>1. /\ calls' = [d \in Callers |-> calls'[d]]
          /\ \A d \in Callers \ {c} : calls'[d] = calls[d]
          /\ y.op = x.op /\ y.do = <<>> /\ y.of = x.of /\ y.rec = x.rec /\ y.at = x.at
          /\ CallShape(y)
      BY <2>1, <2>3 DEF Stopped, CallShape
    <3> HIDE DEF y
    <3>2. CallAt(c, y)
      <4>1. WellFormed(<<>>) /\ Without(<<>>, "babelset") /\ Plain(<<>>)
        BY Plans DEF Plain
      <4> QED  BY <3>1, <2>1, <4>1 DEF CallAt, Changing
    <3>3. MovesTo(c, y)
      BY <1>2, <2>3, <3>1, <3>2 DEF MovesTo, Changing, Closing
    <3>4. Replaced(c, y)
      BY <3>1 DEF Replaced, y
    <3> QED  BY <1>2, <3>1, <3>3, <3>4 DEF Keeps
  <2> QED  BY <2>2, <2>3
<1> QED  BY <1>1, <1>2

-----------------------------------------------------------------------------
(* Steps that leave the fingerprint alone.                                 *)

LEMMA Spent ==
  ASSUME SpeakerInv, NEW what \in Counted, Spend(what) \/ UNCHANGED left
  PROVE  left' \in [Counted -> Nat]
BY DEF SpeakerInv, TypeInv, Spend

LEMMA EngineSame ==
  ASSUME SpeakerInv, engine' = engine
  PROVE  EngineKept
BY DEF SpeakerInv, TypeInv, EngineKept, EngineShape

\* The kernel takes a link away, and the speaker's socket with it.
LEMMA EngineUnplugged ==
  ASSUME SpeakerInv, NEW t, engine' = [engine EXCEPT !.speaker = Unplugged(@, t)]
  PROVE  EngineKept /\ engine'.settings = engine.settings /\ engine'.force = engine.force
<1>1. /\ EngineShape /\ engine.settings \in Settings
      /\ engine.speaker # None => engine.speaker \in Speakers
  BY DEF SpeakerInv, TypeInv
<1>2. engine' = [settings |-> engine.settings, tunnels |-> engine.tunnels, built |-> engine.built,
                 speaker |-> Unplugged(engine.speaker, t), force |-> engine.force]
  BY <1>1 DEF EngineShape
<1>3. Unplugged(engine.speaker, t) # None =>
        /\ engine.speaker # None
        /\ Unplugged(engine.speaker, t) \in Speakers
        /\ Unplugged(engine.speaker, t).tunnels = engine.speaker.tunnels
  BY <1>1 DEF Unplugged, Speakers
<1> QED  BY <1>1, <1>2, <1>3 DEF EngineKept, EngineShape

\* What happens around the calls.
LEMMA Around ==
  ASSUME SpeakerInv, calls' = calls, holder' = holder, stored' = stored, disk' = disk,
         left' \in [Counted -> Nat], EngineKept
  PROVE  SpeakerInv'
<1>1. TypeInv'
  BY DEF SpeakerInv, TypeInv, EngineKept
<1>2. GateInv' /\ PlaceInv'
  BY DEF SpeakerInv, GateInv, PlaceInv, PlaceAt, Writing
<1>3. CallInv'
  BY DEF SpeakerInv, CallInv, CallAt, Changing
<1>4. \A t : Wanted(t)' = Wanted(t)
  BY DEF Wanted
<1>5. BuiltInv'
  BY <1>4 DEF SpeakerInv, BuiltInv, EngineKept, Writing, Changing, Undecided
<1>6. ClosingInv'
  BY <1>4 DEF SpeakerInv, ClosingInv, EngineKept, Closing, Undecided
<1> QED  BY <1>1, <1>2, <1>3, <1>5, <1>6 DEF SpeakerInv

\* A call begins: a reader's while no writer runs, or a writer's while nothing
\* does, for which everything agrees.
LEMMA CallBegins ==
  ASSUME SpeakerInv, NEW c \in Callers, NEW y, Replaced(c, y), calls[c].op = "none",
         CallShape(y), y.op # "none", CallAt(c, y)', y.at = "wait",
         engine' = engine, holder' = holder, disk' = disk, left' \in [Counted -> Nat],
         stored' \in [Tunnels -> Record \cup {None}],
         \/ c # "writer" /\ ~ Writing /\ stored' = stored
         \/ c = "writer" /\ Quiet
  PROVE  SpeakerInv'
<1>1. /\ \A d \in Callers : calls'[d] = IF d = c THEN y ELSE calls[d]
      /\ calls' = [d \in Callers |-> calls'[d]]
      /\ "writer" \in Callers
  BY DEF Replaced, Callers
<1>2. TypeInv'
  BY <1>1 DEF SpeakerInv, TypeInv, EngineShape
<1>3. GateInv'
  BY <1>1 DEF SpeakerInv, GateInv, Writing, Quiet
<1>4. CallInv'
  <2> SUFFICES ASSUME NEW d \in Callers PROVE CallAt(d, calls[d])'
    BY DEF CallInv
  <2>1. CASE d = c
    BY <2>1, <1>1 DEF CallAt, Changing
  <2>2. CASE d # c
    <3>1. CallAt(d, calls[d]) /\ calls'[d] = calls[d]
      BY <2>2, <1>1 DEF SpeakerInv, CallInv
    <3>2. stored' = stored \/ calls[d].op = "none"
      BY <2>2 DEF Quiet
    <3> QED  BY <3>1, <3>2 DEF CallAt, Changing
  <2> QED  BY <2>1, <2>2
<1>5. PlaceInv'
  BY <1>1 DEF SpeakerInv, PlaceInv, PlaceAt
<1>6. ASSUME Quiet
      PROVE  /\ \A d \in Callers : ~ Undecided(calls[d]) /\ ~ Closing(calls[d])
             /\ engine.speaker # None => engine.speaker.tunnels = engine.tunnels /\ engine.built = engine.tunnels
  <2>1. \A d \in Callers : calls[d].do = <<>>
    BY <1>6 DEF Quiet, SpeakerInv, CallInv, CallAt
  <2>2. DOMAIN <<>> = {}
    OBVIOUS
  <2>3. \A d \in Callers : ~ Undecided(calls[d]) /\ ~ Closing(calls[d])
    BY <2>1, <2>2 DEF Undecided, Closing
  <2> QED  BY <2>3 DEF SpeakerInv, BuiltInv
<1>7. ~ Closing(y)
  BY DEF Closing
<1>8. \A d \in Callers : Undecided(calls[d]) => d # c /\ Undecided(calls'[d])
  <2>1. calls[c].do = <<>> /\ DOMAIN <<>> = {}
    BY DEF SpeakerInv, CallInv, CallAt
  <2> QED  BY <2>1, <1>1 DEF Undecided
<1>9. \A d \in Callers : Undecided(calls'[d]) <=> Undecided(calls[d])'
  BY DEF Undecided
<1>10. BuiltInv'
  <2> SUFFICES ASSUME engine.speaker # None
               PROVE  /\ \A t \in Tunnels : engine.built[t] # engine.speaker.tunnels[t] =>
                           engine.speaker.tunnels[t] = engine.tunnels[t] /\ engine.tunnels[t] = Wanted(t)'
                      /\ engine.speaker.tunnels # engine.tunnels \/ engine.built # engine.tunnels =>
                           \E d \in Callers : Undecided(calls[d])'
                      /\ Writing' => engine.built = engine.speaker.tunnels
                      /\ Changing(calls'["writer"]) => engine.speaker.tunnels = engine.tunnels
    BY DEF BuiltInv, Changing
  <2>1. CASE Quiet
    BY <2>1, <1>6
  <2>2. CASE c # "writer" /\ ~ Writing /\ stored' = stored
    <3>1. ~ Writing' /\ ~ Changing(calls'["writer"])
      BY <2>2, <1>1 DEF Writing, Changing
    <3>2. \A t : Wanted(t)' = Wanted(t)
      BY <2>2 DEF Wanted
    <3> QED  BY <3>1, <3>2, <1>8, <1>9 DEF SpeakerInv, BuiltInv
  <2> QED  BY <2>1, <2>2
<1>11. ClosingInv'
  <2> SUFFICES ASSUME NEW d \in Callers, Closing(calls'[d])
               PROVE  /\ engine.speaker = None /\ calls'[d].built \in Participation
                      /\ \A t \in Tunnels : calls'[d].built[t] # engine.tunnels[t] => engine.tunnels[t] = Wanted(t)'
                      /\ calls'[d].built # engine.tunnels => \E e \in Callers \ {d} : Undecided(calls'[e])
    BY <1>9 DEF ClosingInv, Closing
  <2>1. d # c /\ calls'[d] = calls[d] /\ Closing(calls[d])
    BY <1>1, <1>7
  <2>2. stored' = stored
    BY <2>1, <1>6
  <2>3. \A t : Wanted(t)' = Wanted(t)
    BY <2>2 DEF Wanted
  <2> QED  BY <2>1, <2>3, <1>8 DEF SpeakerInv, ClosingInv
<1> QED  BY <1>2, <1>3, <1>4, <1>5, <1>10, <1>11 DEF SpeakerInv

-----------------------------------------------------------------------------
(* The fingerprint: upsertTunnel and removeTunnel, and reconcileSerialized. *)

\* The mutex has one holder.
LEMMA OneInside ==
  ASSUME SpeakerInv, NEW c \in Callers, holder \in {None, c}
  PROVE  \A d \in Callers \ {c} :
           /\ calls[d].do # <<>> => calls[d].at \in {"wait"} \cup Locked
           /\ ~ Closing(calls[d])
BY LinuxBackendAssumption DEF SpeakerInv, PlaceInv, PlaceAt, Closing, Callers, Locked

LEMMA BabelSetStep ==
  ASSUME SpeakerInv, NEW c \in Callers, BabelSet(c)
  PROVE  SpeakerInv'
<1> DEFINE x == calls[c]
           v == IF x.rec.on /\ x.op # "delete" THEN x.rec.v ELSE None
<1>1. /\ x.do # <<>> /\ Head(x.do) = "babelset"
      /\ engine' = [engine EXCEPT !.tunnels[x.of] = v]
      /\ calls' = Advanced(c, FALSE)
      /\ stored' = stored /\ disk' = disk /\ holder' = holder /\ left' = left
  BY DEF BabelSet, Stage
<1>2. PICK y : /\ Replaced(c, y) /\ MovesTo(c, y) /\ y.at = "wait" /\ y.do = Tail(x.do)
               /\ y.op = x.op
  BY <1>1, AdvancedCall
<1>3. /\ CallAt(c, x) /\ 1 \in DOMAIN x.do /\ x.do[1] = "babelset"
      /\ x.op \in {"reconcile", "write", "delete"}
      /\ x.of \in Tunnels /\ x.rec \in Record
  <2>1. CallAt(c, x)
    BY DEF SpeakerInv, CallInv
  <2>2. 1 \in DOMAIN x.do /\ x.do[1] = "babelset"
    BY <1>1, <2>1, Rest DEF CallAt
  <2>3. x.op \in {"reconcile", "write", "delete"}
    BY <2>1, <2>2 DEF CallAt, Without
  <2> QED  BY <2>1, <2>2, <2>3 DEF CallAt
<1>4. Undecided(y)
  <2>1. 1 + 1 \in DOMAIN x.do /\ x.do[1 + 1] = "babel"
    BY <1>3 DEF CallAt, WellFormed
  <2>2. 1 \in DOMAIN y.do /\ y.do[1] = "babel"
    <3>1. \A i \in DOMAIN x.do : i # 1 => i - 1 \in DOMAIN Tail(x.do) /\ Tail(x.do)[i - 1] = x.do[i]
      BY <1>1, <1>3, Rest DEF CallAt
    <3>2. 1 + 1 # 1 /\ (1 + 1) - 1 = 1
      OBVIOUS
    <3> QED  BY <2>1, <3>1, <3>2, <1>2
  <2> QED  BY <2>2, <1>2 DEF Undecided, Decided
<1>5. /\ \A d \in Callers : calls'[d] = IF d = c THEN y ELSE calls[d]
      /\ calls' = [d \in Callers |-> calls'[d]]
      /\ "writer" \in Callers
  BY <1>2 DEF Replaced, Callers
<1>6. /\ EngineShape' /\ engine'.settings = engine.settings
      /\ engine'.built = engine.built /\ engine'.speaker = engine.speaker
      /\ engine'.tunnels \in Participation
      /\ engine'.tunnels[x.of] = v
      /\ \A t \in Tunnels : t # x.of => engine'.tunnels[t] = engine.tunnels[t]
  <2>1. EngineShape /\ engine.tunnels \in Participation
    BY DEF SpeakerInv, TypeInv
  <2>2. v \in Versions \cup {None}
    BY <1>3 DEF Record
  <2> HIDE DEF v
  <2>3. engine' = [settings |-> engine.settings, tunnels |-> [engine.tunnels EXCEPT ![x.of] = v],
                   built |-> engine.built, speaker |-> engine.speaker, force |-> engine.force]
    BY <2>1, <1>1 DEF EngineShape
  <2>4. /\ [engine.tunnels EXCEPT ![x.of] = v] \in Participation
        /\ [engine.tunnels EXCEPT ![x.of] = v][x.of] = v
        /\ \A t \in Tunnels : t # x.of => [engine.tunnels EXCEPT ![x.of] = v][t] = engine.tunnels[t]
    BY <2>1, <2>2, <1>3 DEF Participation
  <2> QED  BY <2>3, <2>4 DEF EngineShape
<1>7. \A t : Wanted(t)' = Wanted(t)
  BY <1>1 DEF Wanted
<1>8. x.op = "reconcile" => v = Wanted(x.of) /\ ~ Writing
  BY <1>3 DEF CallAt, Wanted, SpeakerInv, GateInv
<1>9. x.op # "reconcile" => c = "writer" /\ Writing /\ \A d \in Callers \ {c} : calls[d].do = <<>>
  BY <1>3, Alone
<1> HIDE DEF v
<1>10. TypeInv'
  BY <1>1, <1>2, <1>5, <1>6 DEF SpeakerInv, TypeInv, MovesTo
<1>11. GateInv'
  <2>1. \A d \in Callers : calls'[d].op = calls[d].op
    BY <1>2, <1>5
  <2> QED  BY <2>1, <1>5 DEF SpeakerInv, GateInv, Writing
<1>12. CallInv'
  <2>1. \A d \in Callers : CallAt(d, calls'[d])
    BY <1>2, <1>5 DEF SpeakerInv, CallInv, MovesTo
  <2>2. \A d \in Callers : CallAt(d, calls'[d]) => CallAt(d, calls[d])'
    BY <1>1 DEF CallAt, Changing
  <2> QED  BY <2>1, <2>2 DEF CallInv
<1>13. PlaceInv'
  BY <1>1, <1>2, <1>5 DEF SpeakerInv, PlaceInv, PlaceAt
<1>14. BuiltInv'
  <2> SUFFICES ASSUME engine.speaker # None
               PROVE  /\ \A t \in Tunnels : engine.built[t] # engine.speaker.tunnels[t] =>
                           engine.speaker.tunnels[t] = engine'.tunnels[t] /\ engine'.tunnels[t] = Wanted(t)
                      /\ \E d \in Callers : Undecided(calls'[d])
                      /\ Writing' => engine.built = engine.speaker.tunnels
                      /\ ~ Changing(calls'["writer"])
    BY <1>6, <1>7 DEF BuiltInv, Changing, Undecided
  <2>1. \A t \in Tunnels : engine.built[t] # engine.speaker.tunnels[t] =>
          engine.speaker.tunnels[t] = engine.tunnels[t] /\ engine.tunnels[t] = Wanted(t) /\ ~ Writing
    BY DEF SpeakerInv, BuiltInv
  <2>2. \A t \in Tunnels : engine.built[t] # engine.speaker.tunnels[t] =>
          engine.speaker.tunnels[t] = engine'.tunnels[t] /\ engine'.tunnels[t] = Wanted(t)
    BY <2>1, <1>3, <1>6, <1>8, <1>9
  <2>3. \E d \in Callers : Undecided(calls'[d])
    BY <1>4, <1>5
  <2>4. Writing' <=> Writing
    BY <1>2, <1>5 DEF Writing
  <2>5. ~ Changing(calls'["writer"])
    BY <1>2, <1>3, <1>5, <1>8, <1>9 DEF Changing, Writing
  <2> QED  BY <2>2, <2>3, <2>4, <2>5 DEF SpeakerInv, BuiltInv
<1>15. ClosingInv'
  <2> SUFFICES ASSUME NEW d \in Callers, Closing(calls'[d])
               PROVE  /\ engine.speaker = None /\ calls'[d].built \in Participation
                      /\ \A t \in Tunnels : calls'[d].built[t] # engine'.tunnels[t] => engine'.tunnels[t] = Wanted(t)
                      /\ \E e \in Callers \ {d} : Undecided(calls'[e])
    BY <1>6, <1>7 DEF ClosingInv, Closing, Undecided
  <2>1. d # c /\ calls'[d] = calls[d] /\ Closing(calls[d])
    BY <1>2, <1>5 DEF MovesTo
  <2>2. x.op = "reconcile"
    BY <2>1, <1>9 DEF Closing
  <2>3. /\ engine.speaker = None /\ calls[d].built \in Participation
        /\ \A t \in Tunnels : calls[d].built[t] # engine.tunnels[t] => engine.tunnels[t] = Wanted(t)
    BY <2>1 DEF SpeakerInv, ClosingInv
  <2> QED  BY <2>1, <2>2, <2>3, <1>3, <1>4, <1>5, <1>6, <1>8
<1> QED  BY <1>10, <1>11, <1>12, <1>13, <1>14, <1>15 DEF SpeakerInv

\* A caller that holds the mutex, or finds it free, takes a place in it.
LEMMA Entered ==
  ASSUME SpeakerInv, NEW c \in Callers, NEW y, Replaced(c, y), holder \in {None, c}, holder' = c,
         calls[c].do # <<>>, Head(calls[c].do) = "babel", CallShape(y),
         y.op = calls[c].op, y.do = calls[c].do, y.of = calls[c].of, y.rec = calls[c].rec,
         y.at \in Inside, stored' = stored, disk' = disk, left' \in [Counted -> Nat],
         EngineShape', engine'.settings = engine.settings, engine'.tunnels = engine.tunnels,
         engine'.speaker # None => engine'.speaker \in Speakers /\ engine'.built \in Participation
  PROVE  TypeInv' /\ GateInv' /\ CallInv' /\ PlaceInv'
<1>1. /\ \A d \in Callers : calls'[d] = IF d = c THEN y ELSE calls[d]
      /\ calls' = [d \in Callers |-> calls'[d]]
      /\ \A d \in Callers : calls'[d].op = calls[d].op
      /\ "writer" \in Callers
  BY DEF Replaced, Callers
<1>2. TypeInv'
  BY <1>1 DEF SpeakerInv, TypeInv
<1>3. GateInv'
  BY <1>1 DEF SpeakerInv, GateInv, Writing
<1>4. CallInv'
  <2>1. \A d \in Callers : CallAt(d, calls'[d])
    <3>1. CallAt(c, calls[c])
      BY DEF SpeakerInv, CallInv
    <3>2. CallAt(c, y)
      BY <3>1 DEF CallAt, Changing
    <3> QED  BY <3>2, <1>1 DEF SpeakerInv, CallInv
  <2>2. \A d \in Callers : CallAt(d, calls'[d]) => CallAt(d, calls[d])'
    BY DEF CallAt, Changing
  <2> QED  BY <2>1, <2>2 DEF CallInv
<1>5. PlaceInv'
  <2> SUFFICES ASSUME NEW d \in Callers PROVE PlaceAt(d, calls[d])'
    BY DEF PlaceInv
  <2>1. CASE d = c
    BY <2>1, <1>1 DEF PlaceAt, Inside, Locked
  <2>2. CASE d # c
    BY <2>2, <1>1, OneInside DEF PlaceAt, SpeakerInv, PlaceInv
  <2> QED  BY <2>1, <2>2
<1> QED  BY <1>2, <1>3, <1>4, <1>5

LEMMA DecideStep ==
  ASSUME SpeakerInv, NEW c \in Callers, Decide(c)
  PROVE  SpeakerInv'
<1> DEFINE x == calls[c]
           y == calls'[c]
<1>1. /\ x.do # <<>> /\ Head(x.do) = "babel" /\ x.at = "wait"
      /\ holder \in {None, c} /\ holder' = c
      /\ calls' = [calls EXCEPT ![c].built = engine.tunnels,
           ![c].at = IF ~ NeedBuild THEN "routes" ELSE IF engine.speaker = None THEN "build" ELSE "closing"]
      /\ engine' = IF NeedBuild THEN [engine EXCEPT !.speaker = None] ELSE engine
      /\ stored' = stored /\ disk' = disk /\ left' = left
  BY DEF Decide, Stage, Free
<1>2. /\ CallShape(x) /\ calls = [d \in Callers |-> calls[d]] /\ EngineShape
      /\ engine.tunnels \in Participation /\ engine.settings \in Settings
  BY DEF SpeakerInv, TypeInv
<1>3. /\ calls' = [d \in Callers |-> calls'[d]]
      /\ \A d \in Callers \ {c} : calls'[d] = calls[d]
      /\ y.op = x.op /\ y.do = x.do /\ y.of = x.of /\ y.rec = x.rec /\ y.built = engine.tunnels
      /\ y.at = IF ~ NeedBuild THEN "routes" ELSE IF engine.speaker = None THEN "build" ELSE "closing"
      /\ CallShape(y)
  BY <1>1, <1>2 DEF CallShape
<1> HIDE DEF y
<1>4. /\ EngineShape' /\ engine'.settings = engine.settings
      /\ engine'.tunnels = engine.tunnels /\ engine'.built = engine.built
      /\ NeedBuild => engine'.speaker = None
      /\ ~ NeedBuild => engine'.speaker = engine.speaker
  BY <1>1, <1>2 DEF EngineShape
<1>5. Replaced(c, y)
  BY <1>3 DEF Replaced, y
<1>6. y.at \in Inside
  BY <1>3 DEF Inside
<1>7. left' \in [Counted -> Nat] /\ (engine'.speaker # None => engine'.speaker \in Speakers /\ engine'.built \in Participation)
  BY <1>1, <1>4 DEF SpeakerInv, TypeInv
<1>8. TypeInv' /\ GateInv' /\ CallInv' /\ PlaceInv'
  BY <1>1, <1>3, <1>4, <1>5, <1>6, <1>7, Entered
<1>9. CASE NeedBuild
  <2>1. BuiltInv'
    BY <1>4, <1>9 DEF BuiltInv
  <2>2. ASSUME NEW d \in Callers, Closing(calls'[d]) PROVE d = c
    BY <2>2, <1>1, <1>3, OneInside
  <2>3. calls'[c].built = engine'.tunnels /\ engine'.speaker = None /\ calls'[c].built \in Participation
    BY <1>2, <1>3, <1>4, <1>9 DEF y
  <2>4. \A d \in Callers : Closing(calls'[d]) <=> Closing(calls[d])'
    BY DEF Closing
  <2>5. ClosingInv'
    BY <2>2, <2>3, <2>4 DEF ClosingInv
  <2> QED  BY <1>8, <2>1, <2>5 DEF SpeakerInv
<1>10. CASE ~ NeedBuild
  <2>1. engine.speaker # None /\ engine.built = engine.tunnels /\ engine.speaker \in Speakers
    BY <1>10 DEF NeedBuild, SameFingerprint, SpeakerInv, TypeInv
  <2>2. engine.speaker.tunnels = engine.tunnels
    <3>1. \A t \in Tunnels : engine.speaker.tunnels[t] = engine.tunnels[t]
      BY <2>1 DEF SpeakerInv, BuiltInv
    <3>2. engine.speaker.tunnels \in [Tunnels -> Versions \cup {None}]
      BY <2>1 DEF Speakers, Participation
    <3>3. engine.tunnels \in [Tunnels -> Versions \cup {None}]
      BY <1>2 DEF Participation
    <3> QED  BY <3>1, <3>2, <3>3
  <2>3. /\ engine'.speaker.tunnels = engine'.tunnels /\ engine'.built = engine'.tunnels
    BY <1>4, <1>10, <2>1, <2>2
  <2>4. BuiltInv'
    BY <2>3 DEF BuiltInv
  <2>5. \A d \in Callers : ~ Closing(calls'[d])
    <3>1. \A d \in Callers \ {c} : ~ Closing(calls[d])
      BY <1>1, OneInside
    <3>2. ~ Closing(y)
      BY <1>3, <1>10 DEF Closing
    <3> QED  BY <3>1, <3>2, <1>3 DEF y
  <2>6. ClosingInv'
    BY <2>5 DEF ClosingInv, Closing
  <2> QED  BY <1>8, <2>4, <2>6 DEF SpeakerInv
<1> QED  BY <1>9, <1>10

\* What Build and Install release the mutex with, without a speaker to compare.
LEMMA ReleasedStep ==
  ASSUME SpeakerInv, NEW c \in Callers, holder = c, holder' = None,
         calls[c].do # <<>>, Head(calls[c].do) = "babel" \/ Head(calls[c].do) = "refresh",
         calls' = Advanced(c, FALSE) \/ calls' = Failed(c),
         Passed(c) \/ engine.speaker = None,
         stored' = stored, disk' = disk, left' \in [Counted -> Nat], EngineKept
  PROVE  SpeakerInv'
<1>1. PICK y : /\ Replaced(c, y) /\ MovesTo(c, y) /\ (Passed(c) => Keeps(c, y))
               /\ (y.at = "wait" \/ y.do = <<>>)
  BY AdvancedCall, FailedCall
<1>2. Keeps(c, y)
  BY <1>1, OneInside DEF Keeps
<1>3. disk' \in Settings /\ \A d \in Callers \ {c} : holder = d => holder' = d
  BY DEF SpeakerInv, TypeInv
<1> QED  BY <1>1, <1>2, <1>3, CallGoesOn

LEMMA BuildStep ==
  ASSUME SpeakerInv, NEW c \in Callers, Build(c)
  PROVE  SpeakerInv'
<1> DEFINE x == calls[c]
           y == calls'[c]
<1>1. /\ x.do # <<>> /\ Head(x.do) = "babel" /\ x.at \in {"build", "closing"}
      /\ stored' = stored /\ disk' = disk
      /\ CallShape(x) /\ calls = [d \in Callers |-> calls[d]] /\ EngineShape
      /\ engine.tunnels \in Participation /\ engine.settings \in Settings
  BY DEF Build, Stage, SpeakerInv, TypeInv
<1>2. holder = c /\ Closing(x)
  BY <1>1 DEF SpeakerInv, PlaceInv, PlaceAt, Closing
<1>3. /\ engine.speaker = None /\ x.built \in Participation
      /\ \A t \in Tunnels : x.built[t] # engine.tunnels[t] => engine.tunnels[t] = Wanted(t)
      /\ x.built # engine.tunnels => \E d \in Callers \ {c} : Undecided(calls[d])
  BY <1>2 DEF SpeakerInv, ClosingInv
<1>4. ASSUME engine.tunnels = NoTunnels, engine' = [engine EXCEPT !.built = x.built],
             calls' = At(c, "clear"), holder' = holder, left' = left
      PROVE  SpeakerInv'
  <2>1. /\ calls' = [d \in Callers |-> calls'[d]]
        /\ \A d \in Callers \ {c} : calls'[d] = calls[d]
        /\ y.op = x.op /\ y.do = x.do /\ y.of = x.of /\ y.rec = x.rec /\ y.at = "clear"
        /\ CallShape(y)
    BY <1>1, <1>4 DEF CallShape, At
  <2> HIDE DEF y
  <2>2. /\ EngineShape' /\ engine'.settings = engine.settings
        /\ engine'.tunnels = engine.tunnels /\ engine'.speaker = None
    BY <1>1, <1>3, <1>4 DEF EngineShape
  <2>3. Replaced(c, y) /\ y.at \in Inside /\ left' \in [Counted -> Nat]
    BY <2>1, <1>4 DEF Replaced, y, Inside, SpeakerInv, TypeInv
  <2>4. TypeInv' /\ GateInv' /\ CallInv' /\ PlaceInv'
    BY <1>1, <1>2, <1>4, <2>1, <2>2, <2>3, Entered
  <2>5. \A d \in Callers : ~ Closing(calls'[d])
    <3>1. \A d \in Callers \ {c} : ~ Closing(calls[d])
      BY <1>2, OneInside
    <3>2. ~ Closing(y)
      BY <2>1 DEF Closing
    <3> QED  BY <3>1, <3>2, <2>1 DEF y
  <2> QED  BY <2>2, <2>4, <2>5 DEF SpeakerInv, BuiltInv, ClosingInv, Closing
<1>5. ASSUME engine' = [engine EXCEPT !.built = x.built, !.speaker = Speaker(engine.tunnels)],
             calls' = At(c, "routes"), holder' = holder, left' = left
      PROVE  SpeakerInv'
  <2>1. /\ calls' = [d \in Callers |-> calls'[d]]
        /\ \A d \in Callers \ {c} : calls'[d] = calls[d]
        /\ y.op = x.op /\ y.do = x.do /\ y.of = x.of /\ y.rec = x.rec /\ y.at = "routes"
        /\ CallShape(y)
    BY <1>1, <1>5 DEF CallShape, At
  <2> HIDE DEF y
  <2>2. Speaker(engine.tunnels) \in Speakers /\ Speaker(engine.tunnels).tunnels = engine.tunnels
    BY <1>1 DEF Speaker, Speakers
  <2>3. /\ EngineShape' /\ engine'.settings = engine.settings
        /\ engine'.tunnels = engine.tunnels /\ engine'.built = x.built
        /\ engine'.speaker = Speaker(engine.tunnels)
    BY <1>1, <1>5 DEF EngineShape
  <2>4. Replaced(c, y) /\ y.at \in Inside /\ left' \in [Counted -> Nat]
    BY <2>1, <1>5 DEF Replaced, y, Inside, SpeakerInv, TypeInv
  <2>5. TypeInv' /\ GateInv' /\ CallInv' /\ PlaceInv'
    BY <1>1, <1>2, <1>3, <1>5, <2>1, <2>2, <2>3, <2>4, Entered
  <2>6. \A d \in Callers : ~ Closing(calls'[d])
    <3>1. \A d \in Callers \ {c} : ~ Closing(calls[d])
      BY <1>2, OneInside
    <3>2. ~ Closing(y)
      BY <2>1 DEF Closing
    <3> QED  BY <3>1, <3>2, <2>1 DEF y
  <2>7. engine'.speaker.tunnels = engine'.tunnels
    BY <2>2, <2>3
  <2>8. \A t \in Tunnels : engine'.built[t] # engine'.tunnels[t] => engine'.tunnels[t] = Wanted(t)'
    BY <1>1, <1>3, <2>3 DEF Wanted
  <2>9. engine'.built # engine'.tunnels => \E d \in Callers \ {c} : Undecided(calls'[d])
    BY <1>3, <2>1, <2>3
  <2>10. ASSUME Writing' PROVE engine'.built = engine'.tunnels
    <3>1. Writing /\ x.op # "none"
      BY <2>10, <2>1, <1>1 DEF Writing, SpeakerInv, CallInv, CallAt, Callers
    <3>2. c = "writer"
      BY <3>1 DEF SpeakerInv, GateInv
    <3>3. \A d \in Callers \ {c} : calls[d].do = <<>>
      BY <3>1, <3>2 DEF SpeakerInv, GateInv, CallInv, CallAt
    <3>4. DOMAIN <<>> = {}
      OBVIOUS
    <3> QED  BY <3>3, <3>4, <1>3, <2>3 DEF Undecided
  <2>11. BuiltInv'
    BY <2>7, <2>8, <2>9, <2>10 DEF BuiltInv, Undecided
  <2>12. ClosingInv'
    BY <2>6 DEF ClosingInv, Closing
  <2> QED  BY <2>5, <2>11, <2>12 DEF SpeakerInv
<1>6. ASSUME Spend("fail"), calls' = Failed(c), holder' = None, engine' = engine
      PROVE  SpeakerInv'
  <2>1. left' \in [Counted -> Nat]
    BY <1>6, Spent DEF Counted
  <2> QED  BY <1>1, <1>2, <1>3, <1>6, <2>1, EngineSame, ReleasedStep
<1> QED  BY <1>4, <1>5, <1>6 DEF Build

-----------------------------------------------------------------------------
(* The other steps.                                                        *)

LEMMA Begun ==
  ASSUME SpeakerInv, NEW c \in Callers, NEW y, calls' = [calls EXCEPT ![c] = y]
  PROVE  Replaced(c, y)
BY DEF SpeakerInv, TypeInv, Replaced

LEMMA StartReconcileStep ==
  ASSUME SpeakerInv, NEW t \in Tunnels, StartReconcile(t)
  PROVE  SpeakerInv'
<1> DEFINE do == IF stored[t].on THEN Applying ELSE Removing
<1>1. /\ t \in Callers /\ t # "writer" /\ t # "global" /\ ~ Writing
      /\ calls[t].op = "none" /\ stored[t] \in Record
      /\ calls' = [calls EXCEPT ![t] = Call("reconcile", do, t, stored[t])]
      /\ stored' = stored /\ disk' = disk /\ engine' = engine /\ holder' = holder /\ left' = left
  BY LinuxBackendAssumption DEF StartReconcile, Callers, SpeakerInv, TypeInv, babel
<1> HIDE DEF do
<1>a. PICK y : y = Call("reconcile", do, t, stored[t])
  OBVIOUS
<1>b. /\ CallShape(y) /\ y.at = "wait"
      /\ y.op = "reconcile" /\ y.do = do /\ y.of = t /\ y.rec = stored[t]
  BY <1>a DEF Call, Idle, CallShape
<1>c. calls' = [calls EXCEPT ![t] = y]
  BY <1>1, <1>a
<1>2. Replaced(t, y)
  BY <1>1, <1>c, Begun
<1>3. WellFormed(y.do) /\ Plain(y.do)
  BY <1>b, Plans DEF do
<1>4. CallAt(t, y)'
  BY <1>1, <1>b, <1>3 DEF CallAt, Changing
<1>5. stored' \in [Tunnels -> Record \cup {None}] /\ left' \in [Counted -> Nat]
  BY <1>1 DEF SpeakerInv, TypeInv
<1> QED  BY <1>1, <1>b, <1>2, <1>4, <1>5, CallBegins

LEMMA StartGlobalStep ==
  ASSUME SpeakerInv, StartGlobal
  PROVE  SpeakerInv'
<1>1. /\ "global" \in Callers /\ "global" \notin Tunnels /\ ~ Writing
      /\ calls["global"].op = "none"
      /\ calls' = [calls EXCEPT !["global"] = Call("global", Global, None, None)]
      /\ stored' = stored /\ disk' = disk /\ engine' = engine /\ holder' = holder /\ left' = left
  BY LinuxBackendAssumption DEF StartGlobal, Callers, babel
<1>a. PICK y : y = Call("global", Global, None, None)
  OBVIOUS
<1>b. /\ CallShape(y) /\ y.at = "wait"
      /\ y.op = "global" /\ y.do = Global
  BY <1>a DEF Call, Idle, CallShape
<1>c. calls' = [calls EXCEPT !["global"] = y]
  BY <1>1, <1>a
<1>2. Replaced("global", y)
  BY <1>1, <1>c, Begun
<1>3. CallAt("global", y)'
  BY <1>1, <1>b, Plans DEF CallAt, Changing
<1>4. stored' \in [Tunnels -> Record \cup {None}] /\ left' \in [Counted -> Nat]
  BY <1>1 DEF SpeakerInv, TypeInv
<1> QED  BY <1>1, <1>b, <1>2, <1>3, <1>4, CallBegins

LEMMA WriterBegins ==
  ASSUME SpeakerInv, NEW op \in {"write", "delete", "settings"}, NEW do, NEW t, NEW rec, Quiet,
         calls' = [calls EXCEPT !["writer"] = Call(op, do, t, rec)],
         WellFormed(do),
         op = "settings" => Without(do, "babelset") /\ rec \in Settings,
         op # "settings" => Plain(do) /\ t \in Tunnels /\ rec \in Record,
         stored' \in [Tunnels -> Record \cup {None}],
         disk' = disk, engine' = engine, holder' = holder, left' \in [Counted -> Nat]
  PROVE  SpeakerInv'
<1>1. "writer" \in Callers /\ "writer" \notin Tunnels /\ calls["writer"].op = "none"
  BY LinuxBackendAssumption DEF Callers, Quiet
<1>a. PICK y : y = Call(op, do, t, rec)
  OBVIOUS
<1>b. /\ CallShape(y) /\ y.at = "wait"
      /\ y.op = op /\ y.do = do /\ y.of = t /\ y.rec = rec
  BY <1>a DEF Call, Idle, CallShape
<1>c. calls' = [calls EXCEPT !["writer"] = y]
  BY <1>1, <1>a
<1>2. Replaced("writer", y)
  BY <1>1, <1>c, Begun
<1>3. CallAt("writer", y)'
  BY <1>1, <1>b DEF CallAt, Changing
<1>4. y.op # "none"
  BY <1>b
<1> QED  BY <1>1, <1>b, <1>2, <1>3, <1>4, CallBegins

LEMMA StartWriteStep ==
  ASSUME SpeakerInv, NEW t \in Tunnels, StartWrite(t)
  PROVE  SpeakerInv'
<1>1. PICK rec \in Record :
        /\ stored' = [stored EXCEPT ![t] = rec]
        /\ calls' = [calls EXCEPT !["writer"] =
             Call("write", IF rec.on THEN Applying ELSE Removing, t, rec)]
  BY DEF StartWrite
<1>2. /\ Quiet /\ Spend("write")
      /\ disk' = disk /\ engine' = engine /\ holder' = holder
  BY DEF StartWrite, babel
<1>3. left' \in [Counted -> Nat] /\ stored' \in [Tunnels -> Record \cup {None}]
  BY <1>1, <1>2, Spent DEF Counted, SpeakerInv, TypeInv
<1>4. \A do : do = (IF rec.on THEN Applying ELSE Removing) => WellFormed(do) /\ Plain(do)
  BY Plans
<1> QED  BY <1>1, <1>2, <1>3, <1>4, WriterBegins

LEMMA StartDeleteStep ==
  ASSUME SpeakerInv, NEW t \in Tunnels, StartDelete(t)
  PROVE  SpeakerInv'
<1>1. /\ Quiet /\ Spend("write") /\ stored[t] \in Record
      /\ calls' = [calls EXCEPT !["writer"] = Call("delete", Removing, t, stored[t])]
      /\ stored' = stored /\ disk' = disk /\ engine' = engine /\ holder' = holder
  BY DEF StartDelete, babel, SpeakerInv, TypeInv
<1>2. left' \in [Counted -> Nat] /\ stored' \in [Tunnels -> Record \cup {None}]
  BY <1>1, Spent DEF Counted, SpeakerInv, TypeInv
<1> QED  BY <1>1, <1>2, Plans, WriterBegins

LEMMA StartSettingsStep ==
  ASSUME SpeakerInv, StartSettings
  PROVE  SpeakerInv'
<1>1. PICK s \in Choices \ {disk} :
        calls' = [calls EXCEPT !["writer"] = Call("settings", Updating, None, s)]
  BY DEF StartSettings
<1>2. /\ Quiet /\ Spend("settings")
      /\ stored' = stored /\ disk' = disk /\ engine' = engine /\ holder' = holder
  BY DEF StartSettings, babel
<1>3. left' \in [Counted -> Nat] /\ stored' \in [Tunnels -> Record \cup {None}] /\ s \in Settings
  BY <1>1, <1>2, Spent, LinuxBackendAssumption DEF Counted, SpeakerInv, TypeInv
<1> QED  BY <1>1, <1>2, <1>3, Plans, WriterBegins

\* A stage that has nothing to do with the speaker's fingerprint.
LEMMA StageStep ==
  ASSUME SpeakerInv, NEW c \in Callers, NEW err, calls[c].do # <<>>,
         Head(calls[c].do) # "babel", calls' = Advanced(c, err) \/ calls' = Failed(c),
         holder' = holder, stored' = stored, disk' \in Settings, left' \in [Counted -> Nat], EngineKept
  PROVE  SpeakerInv'
<1>1. PICK y : /\ Replaced(c, y) /\ MovesTo(c, y) /\ (Passed(c) => Keeps(c, y))
               /\ (y.at = "wait" \/ y.do = <<>>)
  BY AdvancedCall, FailedCall
<1>2. Keeps(c, y)
  BY <1>1 DEF Passed
<1>3. \A d \in Callers \ {c} : holder = d => holder' = d
  OBVIOUS
<1> QED  BY <1>1, <1>2, <1>3, CallGoesOn

LEMMA EasyStages ==
  ASSUME SpeakerInv, NEW c \in Callers,
         Link(c) \/ MptcpSet(c) \/ MptcpRefresh(c) \/ (MptcpList(c) /\ calls' = Advanced(c, FALSE))
           \/ MptcpDone(c) \/ Save(c)
  PROVE  SpeakerInv'
<1>1. /\ calls[c].do # <<>> /\ Head(calls[c].do) # "babel"
      /\ holder' = holder /\ stored' = stored /\ engine' = engine
      /\ UNCHANGED left \/ Spend("fail")
      /\ calls' = Advanced(c, FALSE) \/ calls' = Advanced(c, TRUE) \/ calls' = Failed(c)
  BY DEF Link, MptcpSet, MptcpRefresh, MptcpList, MptcpDone, Save, Stage, babel, kernel
<1>2. disk' \in Settings
  <2>1. CASE Save(c)
    <3>1. disk' = disk \/ disk' = calls[c].rec
      BY <2>1 DEF Save
    <3>2. calls[c].rec \in Settings
      <4>1. CallAt(c, calls[c]) /\ Head(calls[c].do) = "save"
        BY <2>1 DEF Save, Stage, SpeakerInv, CallInv
      <4>2. 1 \in DOMAIN calls[c].do /\ calls[c].do[1] = "save"
        BY <4>1, <1>1, Rest DEF CallAt
      <4> QED  BY <4>1, <4>2 DEF CallAt, Plain, Without
    <3> QED  BY <3>1, <3>2 DEF SpeakerInv, TypeInv
  <2>2. CASE ~ Save(c)
    BY <2>2 DEF Link, MptcpSet, MptcpRefresh, MptcpList, MptcpDone, SpeakerInv, TypeInv
  <2> QED  BY <2>1, <2>2
<1>3. left' \in [Counted -> Nat]
  BY <1>1, Spent DEF Counted
<1> QED  BY <1>1, <1>2, <1>3, EngineSame, StageStep

\* A call goes on within a stage.
Within(c, y) ==
  /\ Replaced(c, y) /\ CallShape(y) /\ calls[c].do # <<>>
  /\ y.op = calls[c].op /\ y.do = calls[c].do /\ y.of = calls[c].of /\ y.rec = calls[c].rec

LEMMA PlannedCall ==
  ASSUME SpeakerInv, NEW c \in Callers, NEW place, NEW plan, calls' = Planned(c, place, plan),
         calls[c].do # <<>>
  PROVE  \E y : Within(c, y) /\ y.at = place /\ y.plan = plan
<1>1. CallShape(calls[c]) /\ calls = [d \in Callers |-> calls[d]]
  BY DEF SpeakerInv, TypeInv
<1>2. PICK y : y = calls'[c]
  OBVIOUS
<1>3. /\ calls' = [d \in Callers |-> calls'[d]]
      /\ \A d \in Callers \ {c} : calls'[d] = calls[d]
      /\ y = [calls[c] EXCEPT !.at = place, !.plan = plan]
  BY <1>1, <1>2 DEF Planned
<1>4. /\ y.op = calls[c].op /\ y.do = calls[c].do /\ y.of = calls[c].of /\ y.rec = calls[c].rec
      /\ y.at = place /\ y.plan = plan /\ CallShape(y)
  BY <1>1, <1>3 DEF CallShape
<1>5. Within(c, y)
  BY <1>2, <1>3, <1>4 DEF Replaced, Within
<1> QED  BY <1>4, <1>5

\* At a place of the MPTCP engine, or at the routes.
LEMMA WithinStep ==
  ASSUME SpeakerInv, NEW c \in Callers, NEW y, Within(c, y),
         \/ y.at \in Locked /\ Head(y.do) \in {"mptcp", "mptcpall"}
         \/ y.at \in {"replace", "remove"} /\ Head(y.do) = "babel" /\ calls[c].at \in Decided
              /\ holder' = c,
         holder' = holder, stored' = stored, disk' = disk, engine' = engine,
         left' \in [Counted -> Nat]
  PROVE  SpeakerInv'
<1>1. /\ CallAt(c, calls[c]) /\ disk' \in Settings
  BY DEF SpeakerInv, CallInv, TypeInv
<1>2. CallAt(c, y) /\ y.op # "none" /\ y.do # <<>>
  BY <1>1 DEF CallAt, Changing, Within
<1>3. ~ Closing(y)
  BY DEF Closing, Locked
<1>4. MovesTo(c, y)
  BY <1>2, <1>3 DEF MovesTo, Within
<1>5. Head(y.do) = y.do[1] /\ 1 \in DOMAIN y.do
  BY <1>2, Rest DEF CallAt
<1>6. Undecided(calls[c]) => Undecided(y)
  BY <1>5 DEF Undecided, Within, Locked, Decided
<1>7. Keeps(c, y) /\ Replaced(c, y)
  BY <1>6 DEF Keeps, Within
<1>8. EngineKept
  BY EngineSame
<1>9. \A d \in Callers \ {c} : holder = d => holder' = d
  OBVIOUS
<1> QED  BY <1>1, <1>4, <1>7, <1>8, <1>9, CallGoesOn

LEMMA MptcpPlaces ==
  ASSUME SpeakerInv, NEW c \in Callers,
         \/ MptcpAll(c) \/ MptcpAdd(c) \/ MptcpDelete(c)
         \/ MptcpList(c) /\ calls' # Advanced(c, FALSE)
  PROVE  /\ \E y : Within(c, y) /\ y.at \in Locked
         /\ calls[c].do # <<>> /\ Head(calls[c].do) \in {"mptcp", "mptcpall"}
         /\ stored' = stored /\ disk' = disk /\ engine' = engine /\ holder' = holder
         /\ UNCHANGED left \/ Spend("fail")
<1>1. /\ calls[c].do # <<>> /\ Head(calls[c].do) \in {"mptcp", "mptcpall"}
      /\ stored' = stored /\ disk' = disk /\ engine' = engine /\ holder' = holder
      /\ UNCHANGED left \/ Spend("fail")
  BY DEF MptcpAll, MptcpAdd, MptcpDelete, MptcpList, Stage, babel
<1>2. \E plan : \E place \in Locked : calls' = Planned(c, place, plan)
  <2>0. CallShape(calls[c]) /\ calls = [d \in Callers |-> calls[d]]
    BY DEF SpeakerInv, TypeInv
  <2>1. CASE MptcpAll(c)
    <3>1. calls' = Planned(c, "synced", calls[c].plan)
      BY <2>0, <2>1 DEF MptcpAll, At, Planned, CallShape
    <3> QED  BY <3>1 DEF Locked
  <2>2. CASE MptcpList(c) /\ calls' # Advanced(c, FALSE)
    <3>1. calls' = Planned(c, "listed", [add |-> DesiredEndpoints \ endpoints, del |-> Orphans])
      BY <2>2 DEF MptcpList
    <3> QED  BY <3>1 DEF Locked
  <2>3. CASE MptcpAdd(c)
    <3>1. PICK e : calls' = [calls EXCEPT ![c].plan.add = @ \ {e}]
      BY <2>3 DEF MptcpAdd
    <3>2. calls[c].at = "listed"
      BY <2>3 DEF MptcpAdd
    <3>3. calls' = Planned(c, "listed", [calls[c].plan EXCEPT !.add = @ \ {e}])
      BY <2>0, <3>1, <3>2 DEF Planned, CallShape
    <3> QED  BY <3>3 DEF Locked
  <2>4. CASE MptcpDelete(c)
    <3>1. PICK e : calls' = [calls EXCEPT ![c].plan.del = @ \ {e}]
      BY <2>4 DEF MptcpDelete
    <3>2. calls[c].at = "listed"
      BY <2>4 DEF MptcpDelete
    <3>3. calls' = Planned(c, "listed", [calls[c].plan EXCEPT !.del = @ \ {e}])
      BY <2>0, <3>1, <3>2 DEF Planned, CallShape
    <3> QED  BY <3>3 DEF Locked
  <2> QED  BY <2>1, <2>2, <2>3, <2>4
<1> QED  BY <1>1, <1>2, PlannedCall

LEMMA MptcpStages ==
  ASSUME SpeakerInv, NEW c \in Callers,
         MptcpAll(c) \/ MptcpList(c) \/ MptcpAdd(c) \/ MptcpDelete(c)
  PROVE  SpeakerInv'
<1>1. CASE MptcpList(c) /\ calls' = Advanced(c, FALSE)
  BY <1>1, EasyStages
<1>2. CASE ~ (MptcpList(c) /\ calls' = Advanced(c, FALSE))
  <2>1. PICK y : Within(c, y) /\ y.at \in Locked
    BY <1>2, MptcpPlaces
  <2>2. /\ Head(calls[c].do) \in {"mptcp", "mptcpall"}
        /\ stored' = stored /\ disk' = disk /\ engine' = engine /\ holder' = holder
        /\ UNCHANGED left \/ Spend("fail")
    BY <1>2, MptcpPlaces
  <2>3. left' \in [Counted -> Nat]
    BY <2>2, Spent DEF Counted
  <2>4. Head(y.do) \in {"mptcp", "mptcpall"}
    BY <2>1, <2>2 DEF Within
  <2> QED  BY <2>1, <2>2, <2>3, <2>4, WithinStep
<1> QED  BY <1>1, <1>2

LEMMA UnlinkStep ==
  ASSUME SpeakerInv, NEW c \in Callers, Unlink(c)
  PROVE  SpeakerInv'
<1>1. /\ calls[c].do # <<>> /\ Head(calls[c].do) # "babel"
      /\ holder' = holder /\ stored' = stored /\ disk' = disk
      /\ UNCHANGED left \/ Spend("fail")
      /\ calls' = Advanced(c, FALSE) \/ calls' = Advanced(c, TRUE)
      /\ engine' = engine \/ engine' = [engine EXCEPT !.speaker = Unplugged(@, calls[c].of)]
  BY DEF Unlink, Stage, Vanished
<1>2. EngineKept
  BY <1>1, EngineSame, EngineUnplugged
<1>3. left' \in [Counted -> Nat] /\ disk' \in Settings
  BY <1>1, Spent DEF Counted, SpeakerInv, TypeInv
<1> QED  BY <1>1, <1>2, <1>3, StageStep

\* Who refreshes the settings changes them.
LEMMA Refreshing ==
  ASSUME SpeakerInv, NEW c \in Callers, Stage(c) = "refresh"
  PROVE  /\ calls[c].do # <<>> /\ Head(calls[c].do) = "refresh"
         /\ Changing(calls[c]) /\ calls[c].rec \in Settings
<1>1. calls[c].do # <<>> /\ Head(calls[c].do) = "refresh" /\ CallAt(c, calls[c])
  BY DEF Stage, SpeakerInv, CallInv
<1>2. 1 \in DOMAIN calls[c].do /\ calls[c].do[1] = "refresh"
  BY <1>1, Rest DEF CallAt
<1>3. Changing(calls[c])
  BY <1>1, <1>2 DEF CallAt, Plain, Without
<1> QED  BY <1>1, <1>3 DEF CallAt

LEMMA RefreshStep ==
  ASSUME SpeakerInv, NEW c \in Callers, Refresh(c)
  PROVE  SpeakerInv'
<1> DEFINE x == calls[c]
           y == calls'[c]
<1>1. /\ Stage(c) = "refresh" /\ x.at = "wait" /\ holder = None /\ holder' = c
      /\ engine' = [engine EXCEPT !.settings = x.rec,
                                  !.force = @ \/ x.rec.policy # engine.settings.policy]
      /\ calls' = At(c, "moving") \/ calls' = Advanced(c, FALSE)
      /\ stored' = stored /\ disk' = disk /\ left' = left
  BY DEF Refresh
<1>2. x.do # <<>> /\ Head(x.do) = "refresh" /\ Changing(x) /\ x.rec \in Settings
  BY <1>1, Refreshing
<1>3. EngineKept
  BY <1>1, <1>2 DEF SpeakerInv, TypeInv, EngineKept, EngineShape
<1>4. /\ disk' \in Settings /\ left' \in [Counted -> Nat]
      /\ \A d \in Callers \ {c} : holder = d => holder' = d
  BY <1>1, LinuxBackendAssumption DEF SpeakerInv, TypeInv, Callers
<1>5. CASE calls' = Advanced(c, FALSE)
  <2>1. PICK z : Replaced(c, z) /\ MovesTo(c, z) /\ (Passed(c) => Keeps(c, z)) /\ z.at = "wait"
    BY <1>2, <1>5, AdvancedCall
  <2>2. Keeps(c, z)
    BY <1>2, <2>1 DEF Passed
  <2> QED  BY <1>1, <1>3, <1>4, <2>1, <2>2, CallGoesOn
<1>6. CASE calls' = At(c, "moving")
  <2>1. /\ CallShape(x) /\ CallAt(c, x) /\ calls = [d \in Callers |-> calls[d]]
    BY DEF SpeakerInv, TypeInv, CallInv
  <2>2. /\ calls' = [d \in Callers |-> calls'[d]]
        /\ \A d \in Callers \ {c} : calls'[d] = calls[d]
        /\ y.op = x.op /\ y.do = x.do /\ y.of = x.of /\ y.rec = x.rec /\ y.at = "moving"
        /\ CallShape(y)
    BY <2>1, <1>6 DEF CallShape, At
  <2> HIDE DEF y
  <2>3. Replaced(c, y)
    BY <2>2 DEF Replaced, y
  <2>4. CallAt(c, y)
    BY <2>1, <2>2 DEF CallAt, Changing
  <2>5. MovesTo(c, y)
    BY <2>2, <2>4, <1>2 DEF MovesTo, Changing, Closing
  <2>6. Keeps(c, y)
    BY <2>2 DEF Keeps, Undecided, Decided
  <2> QED  BY <1>1, <1>2, <1>3, <1>4, <2>2, <2>3, <2>5, <2>6, CallGoesOn
<1> QED  BY <1>1, <1>5, <1>6

LEMMA MoveStep ==
  ASSUME SpeakerInv, NEW c \in Callers, Move(c)
  PROVE  SpeakerInv'
<1>1. /\ calls[c].do # <<>> /\ Head(calls[c].do) = "refresh" /\ calls[c].at = "moving"
      /\ stored' = stored /\ disk' = disk /\ engine' = engine
      /\ \/ calls' = Advanced(c, FALSE) /\ holder' = holder /\ left' = left
         \/ calls' = Failed(c) /\ holder' = None /\ Spend("fail")
  BY DEF Move, Stage
<1>2. holder = c /\ Passed(c) /\ disk' \in Settings
  BY <1>1 DEF SpeakerInv, PlaceInv, PlaceAt, Passed, TypeInv
<1>3. left' \in [Counted -> Nat]
  BY <1>1, Spent DEF Counted
<1>4. EngineKept
  BY <1>1, EngineSame
<1>5. CASE calls' = Advanced(c, FALSE) /\ holder' = holder
  BY <1>1, <1>2, <1>3, <1>4, <1>5, StageStep
<1>6. CASE calls' = Failed(c) /\ holder' = None
  BY <1>1, <1>2, <1>3, <1>4, <1>6, ReleasedStep
<1> QED  BY <1>1, <1>5, <1>6

LEMMA ReleasingStep ==
  ASSUME SpeakerInv, NEW c \in Callers,
         Clear(c) \/ (Compare(c) /\ holder' = None) \/ Replace(c) \/ Remove(c)
  PROVE  SpeakerInv'
<1>1. /\ calls[c].do # <<>> /\ Head(calls[c].do) = "babel"
      /\ calls[c].at \in {"clear", "routes", "replace", "remove"}
      /\ stored' = stored /\ disk' = disk
      /\ engine' = engine \/ engine' = [engine EXCEPT !.force = FALSE]
      /\ holder' = None
      /\ UNCHANGED left \/ Spend("fail")
  BY DEF Clear, Compare, Replace, Remove, Released, Stage
<1>2. holder = c /\ Passed(c)
  BY <1>1 DEF SpeakerInv, PlaceInv, PlaceAt, Passed, Decided, Locked
<1>3. left' \in [Counted -> Nat]
  BY <1>1, Spent DEF Counted
<1>4. EngineKept
  <2>1. CASE engine' = engine
    BY <2>1, EngineSame
  <2>2. CASE engine' = [engine EXCEPT !.force = FALSE]
    BY <2>2 DEF SpeakerInv, TypeInv, EngineKept, EngineShape
  <2> QED  BY <1>1, <2>1, <2>2
<1>5. calls' = Advanced(c, FALSE) \/ calls' = Failed(c)
  <2>1. c # None
    BY LinuxBackendAssumption DEF Callers
  <2> QED  BY <1>1, <1>2, <2>1 DEF Clear, Compare, Replace, Remove, Released
<1> QED  BY <1>1, <1>2, <1>3, <1>4, <1>5, ReleasedStep

\* installRoutes has found something to do.
LEMMA Planning ==
  ASSUME SpeakerInv, NEW c \in Callers, Compare(c), holder' # None
  PROVE  /\ \E y : /\ Within(c, y) /\ y.at \in {"replace", "remove"}
                   /\ y.plan = [route |-> Desired, listed |-> Current]
                   /\ y.at = "replace" => Desired # NoRoute
                   /\ y.at = "remove" => Desired = NoRoute
         /\ ~ Blocked /\ engine' = engine /\ holder' = holder /\ left' = left /\ torn' = torn
         /\ Head(calls[c].do) = "babel" /\ calls[c].at = "routes" /\ holder = c
<1>1. /\ ~ Blocked /\ engine' = engine /\ holder' = holder /\ left' = left /\ torn' = torn
      /\ calls[c].do # <<>> /\ Head(calls[c].do) = "babel" /\ calls[c].at = "routes"
      /\ calls' = Planned(c, IF Desired = NoRoute THEN "remove" ELSE "replace",
                          [route |-> Desired, listed |-> Current])
  BY DEF Compare, Released, Stage
<1>2. holder = c
  BY <1>1 DEF SpeakerInv, PlaceInv, PlaceAt, Locked
<1> QED  BY <1>1, <1>2, PlannedCall

LEMMA CompareStep ==
  ASSUME SpeakerInv, NEW c \in Callers, Compare(c)
  PROVE  SpeakerInv'
<1>1. CASE holder' = None
  BY <1>1, ReleasingStep
<1>2. CASE holder' # None
  <2>1. PICK y : Within(c, y) /\ y.at \in {"replace", "remove"}
    BY <1>2, Planning
  <2>2. /\ engine' = engine /\ holder' = holder /\ left' = left /\ holder' = c
        /\ Head(y.do) = "babel" /\ calls[c].at \in Decided
        /\ stored' = stored /\ disk' = disk /\ left' \in [Counted -> Nat]
    BY <1>2, <2>1, Planning DEF Compare, Within, Decided, SpeakerInv, TypeInv
  <2> QED  BY <2>1, <2>2, WithinStep
<1> QED  BY <1>1, <1>2

LEMMA IdleCall ==
  /\ CallShape(Idle) /\ Idle.op = "none" /\ Idle.do = <<>>
  /\ \A c : CallAt(c, Idle)
  /\ ~ Undecided(Idle) /\ ~ Closing(Idle)
<1>1. WellFormed(<<>>) /\ \A st : Without(<<>>, st)
  BY Plans
<1>2. Idle.op = "none" /\ Idle.do = <<>> /\ CallShape(Idle)
  BY DEF Idle, CallShape
<1>3. \A c : CallAt(c, Idle)
  BY <1>1, <1>2 DEF CallAt, Changing, Plain
<1>4. DOMAIN <<>> = {}
  OBVIOUS
<1>5. ~ Undecided(Idle) /\ ~ Closing(Idle)
  BY <1>2, <1>4 DEF Undecided, Closing
<1> QED  BY <1>2, <1>3, <1>5

LEMMA EndStep ==
  ASSUME SpeakerInv, NEW c \in Callers, End(c)
  PROVE  SpeakerInv'
<1> DEFINE x == calls[c]
<1>1. /\ x.op # "none" /\ x.do = <<>>
      /\ calls' = [calls EXCEPT ![c] = Idle]
      /\ stored' = IF x.op = "delete" /\ ~ x.err THEN [stored EXCEPT ![x.of] = None] ELSE stored
      /\ disk' = disk /\ engine' = engine /\ holder' = holder /\ left' = left
  BY DEF End, babel
<1>2. /\ calls' = [d \in Callers |-> calls'[d]]
      /\ \A d \in Callers : calls'[d] = IF d = c THEN Idle ELSE calls[d]
      /\ "writer" \in Callers
  BY <1>1 DEF SpeakerInv, TypeInv, Callers
<1>3. ~ Undecided(x) /\ ~ Closing(x)
  <2>1. DOMAIN <<>> = {}
    OBVIOUS
  <2> QED  BY <1>1, <2>1 DEF Undecided, Closing
<1>4. \A d \in Callers : (Undecided(calls'[d]) <=> Undecided(calls[d])) /\ (Closing(calls'[d]) <=> Closing(calls[d]))
  BY <1>2, <1>3, IdleCall
<1>5. \/ stored' = stored /\ \A t : Wanted(t)' = Wanted(t)
      \/ \A d \in Callers : ~ Undecided(calls[d]) /\ (d # c => calls[d].op = "none" /\ calls[d].do = <<>>)
  <2>1. CASE x.op = "delete"
    <3>1. \A d \in Callers \ {c} : calls[d].op = "none" /\ calls[d].do = <<>>
      BY <2>1, Alone
    <3>2. DOMAIN <<>> = {}
      OBVIOUS
    <3> QED  BY <3>1, <3>2, <1>3 DEF Undecided
  <2>2. CASE x.op # "delete"
    BY <2>2, <1>1 DEF Wanted
  <2> QED  BY <2>1, <2>2
<1>6. TypeInv'
  <2>1. stored' \in [Tunnels -> Record \cup {None}]
    BY <1>1 DEF SpeakerInv, TypeInv
  <2>2. \A d \in Callers : CallShape(calls'[d])
    BY <1>2, IdleCall DEF SpeakerInv, TypeInv
  <2> QED  BY <1>1, <1>2, <2>1, <2>2 DEF SpeakerInv, TypeInv, EngineShape
<1>7. GateInv'
  BY <1>1, <1>2, IdleCall DEF SpeakerInv, GateInv, Writing
<1>8. CallInv'
  <2> SUFFICES ASSUME NEW d \in Callers PROVE CallAt(d, calls[d])'
    BY DEF CallInv
  <2>1. CallAt(d, calls'[d])
    BY <1>2, IdleCall DEF SpeakerInv, CallInv
  <2>2. stored' = stored \/ calls'[d].op = "none"
    BY <1>2, <1>5, IdleCall
  <2> QED  BY <2>1, <2>2 DEF CallAt, Changing
<1>9. PlaceInv'
  <2> SUFFICES ASSUME NEW d \in Callers PROVE PlaceAt(d, calls[d])'
    BY DEF PlaceInv
  <2>1. PlaceAt(d, calls[d])
    BY DEF SpeakerInv, PlaceInv
  <2> QED  BY <2>1, <1>1, <1>2, IdleCall DEF PlaceAt
<1>10. Writing' => Writing
  BY <1>2, IdleCall DEF Writing
<1>11. Changing(calls'["writer"]) => Changing(calls["writer"])
  BY <1>2, IdleCall DEF Changing
<1>12. BuiltInv'
  <2> SUFFICES ASSUME engine.speaker # None
               PROVE  /\ \A t \in Tunnels : engine.built[t] # engine.speaker.tunnels[t] =>
                           engine.speaker.tunnels[t] = engine.tunnels[t] /\ engine.tunnels[t] = Wanted(t)'
                      /\ engine.speaker.tunnels # engine.tunnels \/ engine.built # engine.tunnels =>
                           \E d \in Callers : Undecided(calls'[d])
                      /\ Writing' => engine.built = engine.speaker.tunnels
                      /\ Changing(calls'["writer"]) => engine.speaker.tunnels = engine.tunnels
    BY <1>1 DEF BuiltInv, Changing, Undecided
  <2>1. /\ \A t \in Tunnels : engine.built[t] # engine.speaker.tunnels[t] =>
             engine.speaker.tunnels[t] = engine.tunnels[t] /\ engine.tunnels[t] = Wanted(t)
        /\ engine.speaker.tunnels # engine.tunnels \/ engine.built # engine.tunnels =>
             \E d \in Callers : Undecided(calls[d])
        /\ Writing => engine.built = engine.speaker.tunnels
        /\ Changing(calls["writer"]) => engine.speaker.tunnels = engine.tunnels
    BY DEF SpeakerInv, BuiltInv
  <2>2. CASE \A t : Wanted(t)' = Wanted(t)
    BY <2>1, <2>2, <1>4, <1>10, <1>11
  <2>3. CASE \A d \in Callers : ~ Undecided(calls[d])
    BY <2>1, <2>3, <1>10, <1>11
  <2> QED  BY <2>2, <2>3, <1>5
<1>13. ClosingInv'
  <2> SUFFICES ASSUME NEW d \in Callers, Closing(calls'[d])
               PROVE  /\ engine.speaker = None /\ calls'[d].built \in Participation
                      /\ \A t \in Tunnels : calls'[d].built[t] # engine.tunnels[t] => engine.tunnels[t] = Wanted(t)'
                      /\ calls'[d].built # engine.tunnels => \E e \in Callers \ {d} : Undecided(calls'[e])
    BY <1>1 DEF ClosingInv, Closing, Undecided
  <2>1. d # c /\ calls'[d] = calls[d] /\ Closing(calls[d])
    BY <1>2, <1>3, <1>4
  <2>2. \A t : Wanted(t)' = Wanted(t)
    BY <2>1, <1>5 DEF Closing
  <2> QED  BY <2>1, <2>2, <1>4 DEF SpeakerInv, ClosingInv
<1> QED  BY <1>6, <1>7, <1>8, <1>9, <1>12, <1>13 DEF SpeakerInv

\* A daemon that starts has no speaker and no call under way.
LEMMA FreshEngine ==
  ASSUME NEW s \in Settings, NEW e, e = NewEngine(s)
  PROVE  /\ e = [settings |-> e.settings, tunnels |-> e.tunnels, built |-> e.built,
                 speaker |-> e.speaker, force |-> e.force]
         /\ e.settings = s /\ e.tunnels \in Participation /\ e.speaker = None
BY DEF NewEngine, NoTunnels, Participation

LEMMA CrashStep ==
  ASSUME SpeakerInv, Crash
  PROVE  SpeakerInv'
<1>1. /\ engine' = NewEngine(disk) /\ calls' = [c \in Callers |-> Idle]
      /\ stored' = stored /\ disk' = disk /\ Spend("crash")
  BY DEF Crash
<1>2. disk \in Settings /\ stored \in [Tunnels -> Record \cup {None}] /\ left' \in [Counted -> Nat]
  BY <1>1, Spent DEF Counted, SpeakerInv, TypeInv
<1>3. EngineShape' /\ engine'.settings \in Settings /\ engine'.tunnels \in Participation /\ engine'.speaker = None
  BY <1>1, <1>2, FreshEngine DEF EngineShape
<1>4. \A c \in Callers : calls'[c] = Idle
  BY <1>1
<1>5. TypeInv'
  <2>1. calls' = [c \in Callers |-> calls'[c]] /\ \A c \in Callers : CallShape(calls'[c])
    BY <1>1, <1>4, IdleCall
  <2> QED  BY <1>1, <1>2, <1>3, <2>1 DEF TypeInv
<1>6. GateInv' /\ PlaceInv' /\ BuiltInv'
  BY <1>3, <1>4, IdleCall DEF GateInv, PlaceInv, PlaceAt, BuiltInv
<1>7. CallInv'
  <2>1. \A c \in Callers : CallAt(c, calls'[c])
    BY <1>4, IdleCall
  <2>2. \A c \in Callers : CallAt(c, calls'[c]) => CallAt(c, calls[c])'
    BY <1>1 DEF CallAt, Changing
  <2> QED  BY <2>1, <2>2 DEF CallInv
<1>8. ClosingInv'
  BY <1>4, IdleCall DEF ClosingInv, Closing
<1> QED  BY <1>5, <1>6, <1>7, <1>8 DEF SpeakerInv

LEMMA AroundStep ==
  ASSUME SpeakerInv,
         (\E t \in Tunnels : Vanish(t)) \/ Learn \/ Expire \/ Cool \/ UserAdds \/ UserRemoves
           \/ UNCHANGED vars
  PROVE  SpeakerInv'
<1>1. /\ calls' = calls /\ holder' = holder /\ stored' = stored /\ disk' = disk
      /\ UNCHANGED left \/ Spend("vanish") \/ Spend("learn") \/ Spend("user")
      /\ engine' = engine \/ \E t \in Tunnels : engine' = [engine EXCEPT !.speaker = Unplugged(@, t)]
  BY DEF Vanish, Vanished, Learn, Expire, Cool, UserAdds, UserRemoves, vars, kernel, babel
<1>2. EngineKept
  BY <1>1, EngineSame, EngineUnplugged
<1>3. left' \in [Counted -> Nat]
  BY <1>1, Spent DEF Counted
<1> QED  BY <1>1, <1>2, <1>3, Around

LEMMA SpeakerInit ==
  ASSUME Init
  PROVE  SpeakerInv
<1>1. PICK profile \in Profiles :
        /\ left = profile.left
        /\ stored = [t \in Tunnels |->
             IF t \in profile.first
             THEN [v |-> CHOOSE v \in Versions : TRUE, on |-> TRUE, opt |-> "follow"] ELSE None]
  BY DEF Init
<1>2. disk = Start /\ engine = NewEngine(disk) /\ calls = [c \in Callers |-> Idle]
  BY DEF Init
<1>3. disk \in Settings /\ left \in [Counted -> Nat]
  BY <1>1, <1>2, LinuxBackendAssumption
<1>4. stored \in [Tunnels -> Record \cup {None}]
  <2>1. (CHOOSE v \in Versions : TRUE) \in Versions
    BY LinuxBackendAssumption
  <2> QED  BY <1>1, <2>1 DEF Record
<1>5. EngineShape /\ engine.settings \in Settings /\ engine.tunnels \in Participation /\ engine.speaker = None
  BY <1>2, <1>3, FreshEngine DEF EngineShape
<1>6. \A c \in Callers : calls[c] = Idle
  BY <1>2
<1>7. TypeInv
  <2>1. calls = [c \in Callers |-> calls[c]] /\ \A c \in Callers : CallShape(calls[c])
    BY <1>2, <1>6, IdleCall
  <2> QED  BY <1>3, <1>4, <1>5, <2>1 DEF TypeInv
<1>8. GateInv /\ PlaceInv /\ BuiltInv /\ CallInv /\ ClosingInv
  BY <1>5, <1>6, IdleCall DEF GateInv, PlaceInv, PlaceAt, BuiltInv, CallInv, ClosingInv, Closing
<1> QED  BY <1>7, <1>8 DEF SpeakerInv

LEMMA SpeakerStep ==
  ASSUME SpeakerInv, [Next]_vars
  PROVE  SpeakerInv'
<1>1. ASSUME NEW t \in Tunnels, StartReconcile(t) \/ StartWrite(t) \/ StartDelete(t)
      PROVE  SpeakerInv'
  BY <1>1, StartReconcileStep, StartWriteStep, StartDeleteStep
<1>2. ASSUME NEW c \in Callers, Step(c)
      PROVE  SpeakerInv'
  BY <1>2, EasyStages, UnlinkStep, BabelSetStep, RefreshStep, MoveStep, DecideStep, BuildStep,
     ReleasingStep, CompareStep, MptcpStages, EndStep DEF Step
<1>3. ASSUME Environment \/ UNCHANGED vars
      PROVE  SpeakerInv'
  BY <1>3, AroundStep, CrashStep DEF Environment
<1> QED  BY <1>1, <1>2, <1>3, StartGlobalStep, StartSettingsStep DEF Next

\* The speaker that runs was built from the tunnels that take part, unless a
\* call has still to compare them (reconcileSerialized), for any number of
\* tunnels that change while older speakers are closed.
THEOREM SpeakerMatchesCorrect == Spec => []SpeakerMatches
<1>1. Init => SpeakerInv
  BY SpeakerInit
<1>2. SpeakerInv /\ [Next]_vars => SpeakerInv'
  BY SpeakerStep
<1>3. SpeakerInv => SpeakerMatches
  <2> SUFFICES ASSUME SpeakerInv, engine.speaker # None,
                      \A c \in Callers : "babel" \notin {calls[c].do[i] : i \in DOMAIN calls[c].do}
               PROVE  engine.speaker.tunnels = engine.tunnels
    BY DEF SpeakerMatches
  <2>1. \A c \in Callers : ~ Undecided(calls[c])
    BY DEF Undecided
  <2> QED  BY <2>1 DEF SpeakerInv, BuiltInv
<1> QED  BY <1>1, <1>2, <1>3, PTL DEF Spec

-----------------------------------------------------------------------------
(* Routes and endpoints of an operator.                                    *)

\* What installRoutes is about to write is a route of TH's, and the table
\* held nobody else's when it was listed; what reconcileLocked is about to
\* delete belongs to a tunnel.
PlanAt(x) ==
  /\ x.at = "replace" => x.plan.listed.owner # "user" /\ x.plan.route.owner = "th"
  /\ x.at = "remove" => x.plan.route = NoRoute
  /\ x.at = "listed" =>
       x.plan = [add |-> x.plan.add, del |-> x.plan.del] /\ <<None, None>> \notin x.plan.del
PlanInv == \A c \in Callers : PlanAt(calls[c])

LEMMA OthersPlans ==
  ASSUME PlanInv, NEW c \in Callers, NEW y, Replaced(c, y), PlanAt(y)
  PROVE  PlanInv'
<1>1. \A d \in Callers : PlanAt(calls'[d])
  BY DEF Replaced, PlanInv
<1>2. \A d \in Callers : PlanAt(calls'[d]) <=> PlanAt(calls[d])'
  BY DEF PlanAt
<1> QED  BY <1>1, <1>2 DEF PlanInv

\* A call that stops, goes to its next stage, or takes a place that has no plan.
LEMMA PlanPassed ==
  ASSUME SpeakerInv, PlanInv, NEW c \in Callers,
         \/ \E err : calls' = Advanced(c, err)
         \/ calls' = Failed(c)
         \/ \E place : place \notin {"replace", "remove", "listed"} /\ calls' = At(c, place)
         \/ \E place, b : place \notin {"replace", "remove", "listed"} /\ calls' = [calls EXCEPT ![c].built = b, ![c].at = place]
  PROVE  PlanInv'
<1> DEFINE x == calls[c]
<1>1. CallShape(x) /\ calls = [d \in Callers |-> calls[d]] /\ PlanAt(x)
  BY DEF SpeakerInv, TypeInv, PlanInv
<1>2. PICK y : y = calls'[c]
  OBVIOUS
<1>3. ASSUME NEW err, calls' = Advanced(c, err) PROVE PlanInv'
  <2>1. Replaced(c, y) /\ y.at = "wait"
    BY <1>1, <1>2, <1>3 DEF Advanced, Replaced, CallShape
  <2>2. PlanAt(y)
    BY <2>1 DEF PlanAt
  <2> QED  BY <2>1, <2>2, OthersPlans
<1>4. CASE calls' = Stopped(c)
  <2>1. CASE x.op = "settings"
    <3>1. Replaced(c, y) /\ y = Call("restore", Restoring, None, disk)
      BY <1>1, <1>2, <1>4, <2>1 DEF Stopped, Replaced
    <3>2. y.at = "wait"
      BY <3>1 DEF Call, Idle
    <3>3. PlanAt(y)
      BY <3>2 DEF PlanAt
    <3> QED  BY <3>1, <3>3, OthersPlans
  <2>2. CASE x.op # "settings"
    <3>1. Replaced(c, y) /\ y.at = x.at /\ y.plan = x.plan
      BY <1>1, <1>2, <1>4, <2>2 DEF Stopped, Replaced, CallShape
    <3>2. PlanAt(y)
      BY <3>1, <1>1 DEF PlanAt
    <3> QED  BY <3>1, <3>2, OthersPlans
  <2> QED  BY <2>1, <2>2
<1>5. ASSUME NEW place, place \notin {"replace", "remove", "listed"},
             calls' = At(c, place) \/ \E b : calls' = [calls EXCEPT ![c].built = b, ![c].at = place]
      PROVE  PlanInv'
  <2>1. Replaced(c, y) /\ y.at = place
    <3>1. CASE calls' = At(c, place)
      BY <1>1, <1>2, <3>1 DEF At, Replaced, CallShape
    <3>2. ASSUME NEW b, calls' = [calls EXCEPT ![c].built = b, ![c].at = place]
          PROVE  Replaced(c, y) /\ y.at = place
      BY <1>1, <1>2, <3>2 DEF Replaced, CallShape
    <3> QED  BY <1>5, <3>1, <3>2
  <2>2. PlanAt(y)
    BY <2>1, <1>5 DEF PlanAt
  <2> QED  BY <2>1, <2>2, OthersPlans
<1>6. calls' = Failed(c) => calls' = Stopped(c) \/ calls' = Advanced(c, TRUE)
  BY DEF Failed
<1> QED  BY <1>3, <1>4, <1>5, <1>6

LEMMA PlanOfList ==
  ASSUME SpeakerInv, PlanInv, NEW c \in Callers, MptcpList(c) \/ MptcpAdd(c) \/ MptcpDelete(c)
  PROVE  PlanInv'
<1> DEFINE x == calls[c]
<1>1. CallShape(x) /\ calls = [d \in Callers |-> calls[d]] /\ PlanAt(x)
  BY DEF SpeakerInv, TypeInv, PlanInv
<1>2. PICK y : y = calls'[c]
  OBVIOUS
<1>3. CASE MptcpList(c) /\ calls' = Advanced(c, FALSE)
  BY <1>3, PlanPassed
<1>4. CASE calls' = Planned(c, "listed", [add |-> DesiredEndpoints \ endpoints, del |-> Orphans])
  <2>1. <<None, None>> \notin Orphans
    BY LinuxBackendAssumption DEF Orphans, Owned
  <2>2. PICK plan : plan = [add |-> DesiredEndpoints \ endpoints, del |-> Orphans]
    OBVIOUS
  <2>3. plan = [add |-> plan.add, del |-> plan.del] /\ <<None, None>> \notin plan.del
    BY <2>1, <2>2
  <2>4. Replaced(c, y) /\ y.at = "listed" /\ y.plan = plan
    BY <1>1, <1>2, <1>4, <2>2 DEF Planned, Replaced, CallShape
  <2>5. PlanAt(y)
    BY <2>3, <2>4 DEF PlanAt
  <2> QED  BY <2>4, <2>5, OthersPlans
<1>5. CASE MptcpAdd(c)
  <2>1. PICK e : calls' = [calls EXCEPT ![c].plan.add = @ \ {e}]
    BY <1>5 DEF MptcpAdd
  <2>2. x.plan = [add |-> x.plan.add, del |-> x.plan.del] /\ <<None, None>> \notin x.plan.del /\ x.at = "listed"
    BY <1>1, <1>5 DEF MptcpAdd, PlanAt
  <2>3. Replaced(c, y) /\ y.at = x.at /\ y.plan = [x.plan EXCEPT !.add = @ \ {e}]
    BY <1>1, <1>2, <2>1 DEF Replaced, CallShape
  <2>4. PlanAt(y)
    BY <2>2, <2>3 DEF PlanAt
  <2> QED  BY <2>3, <2>4, OthersPlans
<1>6. CASE MptcpDelete(c)
  <2>1. PICK e : calls' = [calls EXCEPT ![c].plan.del = @ \ {e}]
    BY <1>6 DEF MptcpDelete
  <2>2. x.plan = [add |-> x.plan.add, del |-> x.plan.del] /\ <<None, None>> \notin x.plan.del /\ x.at = "listed"
    BY <1>1, <1>6 DEF MptcpDelete, PlanAt
  <2>3. Replaced(c, y) /\ y.at = x.at /\ y.plan = [x.plan EXCEPT !.del = @ \ {e}]
    BY <1>1, <1>2, <2>1 DEF Replaced, CallShape
  <2>4. PlanAt(y)
    BY <2>2, <2>3 DEF PlanAt
  <2> QED  BY <2>3, <2>4, OthersPlans
<1> QED  BY <1>3, <1>4, <1>5, <1>6 DEF MptcpList

LEMMA PlanOfCompare ==
  ASSUME SpeakerInv, RouteInv, PlanInv, NEW c \in Callers, Compare(c)
  PROVE  PlanInv'
<1>1. CASE holder' = None
  <2>1. c # None
    BY LinuxBackendAssumption DEF Callers
  <2>2. holder = c
    BY DEF Compare, Stage, SpeakerInv, PlaceInv, PlaceAt, Locked
  <2>3. calls' = Advanced(c, FALSE) \/ calls' = Failed(c)
    BY <1>1, <2>1, <2>2 DEF Compare, Released
  <2> QED  BY <2>3, PlanPassed
<1>2. CASE holder' # None
  <2>1. PICK y : /\ Within(c, y) /\ y.at \in {"replace", "remove"}
                 /\ y.plan = [route |-> Desired, listed |-> Current]
                 /\ y.at = "replace" => Desired # NoRoute
                 /\ y.at = "remove" => Desired = NoRoute
    BY <1>2, Planning
  <2>2. ~ Blocked
    BY <1>2, Planning
  <2>3. Desired # NoRoute => Desired.owner = "th" /\ Current.owner # "user"
    BY <2>2 DEF Desired, Route, Blocked
  <2>4. PlanAt(y)
    BY <2>1, <2>3 DEF PlanAt
  <2> QED  BY <2>1, <2>4, OthersPlans DEF Within
<1> QED  BY <1>1, <1>2

LEMMA PlanStep ==
  ASSUME SpeakerInv, RouteInv, PlanInv, [Next]_vars
  PROVE  PlanInv'
<1>0. calls = [d \in Callers |-> calls[d]] /\ "writer" \in Callers /\ "global" \in Callers
      /\ Tunnels \subseteq Callers
  BY DEF SpeakerInv, TypeInv, Callers
<1>1. ASSUME calls' = calls PROVE PlanInv'
  BY <1>1 DEF PlanInv, PlanAt
<1>2. ASSUME NEW c \in Callers, NEW y, calls' = [calls EXCEPT ![c] = y], y.at = "wait" PROVE PlanInv'
  <2>1. Replaced(c, y) /\ PlanAt(y)
    BY <1>0, <1>2 DEF Replaced, PlanAt
  <2> QED  BY <2>1, OthersPlans
<1>3. \A op, do, t, rec : Call(op, do, t, rec).at = "wait"
  BY DEF Call, Idle
<1>4. ASSUME NEW t \in Tunnels, StartReconcile(t) \/ StartWrite(t) \/ StartDelete(t) PROVE PlanInv'
  BY <1>0, <1>2, <1>3, <1>4 DEF StartReconcile, StartWrite, StartDelete
<1>5. ASSUME StartGlobal \/ StartSettings PROVE PlanInv'
  BY <1>0, <1>2, <1>3, <1>5 DEF StartGlobal, StartSettings
<1>6. ASSUME NEW c \in Callers, Step(c) PROVE PlanInv'
  <2>1. CASE Link(c) \/ Unlink(c) \/ BabelSet(c) \/ MptcpSet(c) \/ MptcpRefresh(c) \/ MptcpDone(c) \/ Save(c)
    <3>1. (\E err : calls' = Advanced(c, err)) \/ calls' = Failed(c)
      BY <2>1 DEF Link, Unlink, BabelSet, MptcpSet, MptcpRefresh, MptcpDone, Save
    <3> QED  BY <3>1, PlanPassed
  <2>2. CASE Refresh(c) \/ Move(c) \/ Build(c) \/ Clear(c) \/ MptcpAll(c)
    <3>1. \/ \E err : calls' = Advanced(c, err)
          \/ calls' = Failed(c)
          \/ calls' = At(c, "moving") \/ calls' = At(c, "clear") \/ calls' = At(c, "routes")
          \/ calls' = At(c, "synced")
      BY <2>2 DEF Refresh, Move, Build, Clear, MptcpAll, Released
    <3> QED  BY <3>1, PlanPassed
  <2>3. CASE Decide(c)
    <3>1. PICK place \in {"routes", "build", "closing"} :
            calls' = [calls EXCEPT ![c].built = engine.tunnels, ![c].at = place]
      BY <2>3 DEF Decide
    <3>2. \E b : calls' = [calls EXCEPT ![c].built = b, ![c].at = place]
      BY <3>1
    <3> QED  BY <3>2, PlanPassed
  <2>4. CASE Replace(c) \/ Remove(c)
    <3>1. calls' = Advanced(c, FALSE) \/ calls' = Failed(c)
      BY <2>4 DEF Replace, Remove, Released
    <3> QED  BY <3>1, PlanPassed
  <2>5. CASE End(c)
    <3>1. calls' = [calls EXCEPT ![c] = Idle] /\ Idle.at = "wait"
      BY <2>5 DEF End, Idle
    <3> QED  BY <3>1, <1>2
  <2> QED  BY <1>6, <2>1, <2>2, <2>3, <2>4, <2>5, PlanOfCompare, PlanOfList DEF Step
<1>7. ASSUME Environment PROVE PlanInv'
  <2>1. CASE Crash
    <3>1. Idle.at = "wait"
      BY DEF Idle
    <3>2. \A c \in Callers : calls'[c] = Idle
      BY <2>1 DEF Crash
    <3> QED  BY <3>1, <3>2 DEF PlanInv, PlanAt
  <2>2. CASE ~ Crash
    BY <1>1, <1>7, <2>2 DEF Environment, Vanish, Learn, Expire, Cool, UserAdds, UserRemoves
  <2> QED  BY <2>1, <2>2
<1> QED  BY <1>1, <1>4, <1>5, <1>6, <1>7 DEF Next, vars

\* What any step makes of a route.
RouteGoesOn(n) ==
  \/ routes'[n] = routes[n]
  \/ \E t : routes'[n] = Severed(routes[n], t)
  \/ routes'[n] = Cleared(routes[n])
  \/ \E c \in Callers :
       /\ Stage(c) = "babel" /\ calls[c].at = "replace" /\ n = engine.settings.table
       /\ routes'[n] = calls[c].plan.route
  \/ routes[n].owner # "user" /\ routes'[n] = Route("user", {}, 0)
  \/ routes'[n] = NoRoute /\ calls' = calls

LEMMA RoutesGoOn ==
  ASSUME RouteInv, [Next]_vars
  PROVE  routes' = [n \in Tables |-> routes'[n]] /\ \A n \in Tables : RouteGoesOn(n)
<1> DEFINE Goal == routes' = [n \in Tables |-> routes'[n]] /\ \A n \in Tables : RouteGoesOn(n)
<1>1. routes = [n \in Tables |-> routes[n]]
  BY DEF RouteInv
<1>2. ASSUME routes' = routes PROVE Goal
  BY <1>1, <1>2 DEF RouteGoesOn
<1>3. ASSUME NEW t, Vanished(t) PROVE Goal
  BY <1>3 DEF RouteGoesOn, Vanished
<1>4. ASSUME NEW c \in Callers, Unlink(c) PROVE Goal
  BY <1>2, <1>3, <1>4 DEF Unlink
<1>5. ASSUME NEW t \in Tunnels, Vanish(t) PROVE Goal
  BY <1>3, <1>5 DEF Vanish
<1>6. ASSUME NEW c \in Callers, Move(c) PROVE Goal
  <2>1. CASE routes' = [n \in Tables |-> IF n = engine.settings.table THEN routes[n] ELSE Cleared(routes[n])]
    BY <2>1 DEF RouteGoesOn
  <2> QED  BY <2>1, <1>2, <1>6 DEF Move
<1>7. ASSUME NEW c \in Callers, Clear(c) PROVE Goal
  <2>1. CASE routes' = [routes EXCEPT ![engine.settings.table] = Cleared(@)]
    BY <2>1, <1>1 DEF RouteGoesOn
  <2> QED  BY <2>1, <1>2, <1>7 DEF Clear
<1>8. ASSUME NEW c \in Callers, Compare(c) \/ Replace(c) \/ Remove(c) PROVE Goal
  <2>1. CASE Compare(c)
    BY <2>1, <1>2 DEF Compare, kernel
  <2>2. CASE Replace(c)
    <3>1. CASE routes' = [routes EXCEPT ![engine.settings.table] = calls[c].plan.route]
      <4>1. Stage(c) = "babel" /\ calls[c].at = "replace"
        BY <2>2 DEF Replace
      <4>2. ASSUME NEW n \in Tables PROVE RouteGoesOn(n)
        <5>1. routes'[n] = IF n = engine.settings.table THEN calls[c].plan.route ELSE routes[n]
          BY <3>1, <1>1
        <5> QED  BY <5>1, <4>1 DEF RouteGoesOn
      <4> QED  BY <3>1, <4>2, <1>1
    <3> QED  BY <3>1, <2>2, <1>2 DEF Replace
  <2>3. CASE Remove(c)
    <3>1. CASE routes' = [routes EXCEPT ![engine.settings.table] = Cleared(@)]
      BY <3>1, <1>1 DEF RouteGoesOn
    <3> QED  BY <3>1, <2>3, <1>2 DEF Remove
  <2> QED  BY <1>8, <2>1, <2>2, <2>3
<1>9. ASSUME UserAdds PROVE Goal
  <2>1. CASE /\ Current = NoRoute
             /\ routes' = [routes EXCEPT ![engine.settings.table] = Route("user", {}, 0)]
    <3>1. Current.owner # "user"
      BY <2>1 DEF NoRoute
    <3> QED  BY <2>1, <3>1, <1>1 DEF RouteGoesOn, Current
  <2> QED  BY <2>1, <1>2, <1>9 DEF UserAdds
<1>10. ASSUME UserRemoves PROVE Goal
  BY <1>1, <1>10 DEF UserRemoves, RouteGoesOn
<1>11. ASSUME NEW c \in Callers, Step(c) PROVE Goal
  <2>1. CASE Link(c) \/ BabelSet(c) \/ Refresh(c) \/ Decide(c) \/ Build(c) \/ MptcpSet(c) \/ MptcpAll(c)
              \/ MptcpRefresh(c) \/ MptcpList(c) \/ MptcpAdd(c) \/ MptcpDelete(c) \/ MptcpDone(c)
              \/ Save(c) \/ End(c)
    <3>1. routes' = routes
      BY <2>1 DEF Link, BabelSet, Refresh, Decide, Build, MptcpSet, MptcpAll, MptcpRefresh,
        MptcpList, MptcpAdd, MptcpDelete, MptcpDone, Save, End, kernel
    <3> QED  BY <3>1, <1>2
  <2> QED  BY <2>1, <1>4, <1>6, <1>7, <1>8, <1>11 DEF Step
<1>12. ASSUME Environment PROVE Goal
  <2>1. CASE Learn \/ Expire \/ Cool \/ Crash
    <3>1. routes' = routes
      BY <2>1 DEF Learn, Expire, Cool, Crash, kernel
    <3> QED  BY <3>1, <1>2
  <2> QED  BY <2>1, <1>5, <1>9, <1>10, <1>12 DEF Environment
<1>13. ASSUME NEW t \in Tunnels, StartReconcile(t) \/ StartWrite(t) \/ StartDelete(t) PROVE Goal
  BY <1>2, <1>13 DEF StartReconcile, StartWrite, StartDelete, kernel
<1>14. ASSUME StartGlobal \/ StartSettings \/ UNCHANGED vars PROVE Goal
  BY <1>2, <1>14 DEF StartGlobal, StartSettings, vars, kernel
<1> QED  BY <1>11, <1>12, <1>13, <1>14 DEF Next

LEMMA RouteStep ==
  ASSUME RouteInv, PlanInv, [Next]_vars
  PROVE  RouteInv'
<1>1. routes' = [n \in Tables |-> routes'[n]] /\ \A n \in Tables : RouteGoesOn(n)
  BY RoutesGoOn
<1>2. ASSUME NEW n \in Tables, routes'[n].owner # "th"
      PROVE  routes'[n].via = {} /\ routes'[n].w = 0
  <2> DEFINE r == routes[n]
  <2>1. r.owner # "th" => r.via = {} /\ r.w = 0
    BY DEF RouteInv
  <2>2. ASSUME NEW t, routes'[n] = Severed(r, t) PROVE routes'[n].via = {} /\ routes'[n].w = 0
    <3>1. CASE t \in r.via
      <4>1. r.owner = "th"
        BY <2>1, <3>1
      <4>2. routes'[n] = NoRoute
        BY <1>2, <2>2, <3>1, <4>1 DEF Severed, Route
      <4> QED  BY <4>2 DEF NoRoute
    <3>2. CASE t \notin r.via
      BY <1>2, <2>1, <2>2, <3>2 DEF Severed
    <3> QED  BY <3>1, <3>2
  <2>3. CASE routes'[n] = Cleared(r)
    BY <1>2, <2>1, <2>3 DEF Cleared, NoRoute
  <2>4. ~ \E c \in Callers : calls[c].at = "replace" /\ routes'[n] = calls[c].plan.route
    BY <1>2 DEF PlanInv, PlanAt
  <2>5. CASE routes'[n] = Route("user", {}, 0)
    BY <2>5 DEF Route
  <2>6. CASE routes'[n] = NoRoute
    BY <2>6 DEF NoRoute
  <2> HIDE DEF r
  <2> QED  BY <1>1, <1>2, <2>1, <2>2, <2>3, <2>4, <2>5, <2>6 DEF RouteGoesOn, r
<1> QED  BY <1>1, <1>2 DEF RouteInv

LEMMA EndpointKept ==
  ASSUME PlanInv, [Next]_vars, <<None, None>> \in endpoints
  PROVE  <<None, None>> \in endpoints'
<1>1. ASSUME NEW c \in Callers, MptcpAdd(c) \/ MptcpDelete(c) PROVE <<None, None>> \in endpoints'
  <2>1. calls[c].at = "listed" => <<None, None>> \notin calls[c].plan.del
    BY DEF PlanInv, PlanAt
  <2> QED  BY <1>1, <2>1 DEF MptcpAdd, MptcpDelete
<1>2. ASSUME UserAdds PROVE <<None, None>> \in endpoints'
  BY <1>2 DEF UserAdds
<1>3. ASSUME NEW c \in Callers, Step(c), ~ MptcpAdd(c), ~ MptcpDelete(c) PROVE endpoints' = endpoints
  BY <1>3 DEF Step, Link, Unlink, BabelSet, Refresh, Move, Decide, Build, Clear, Compare, Replace, Remove,
    MptcpSet, MptcpAll, MptcpRefresh, MptcpList, MptcpDone, Save, End, kernel
<1>4. ASSUME Environment, ~ UserAdds PROVE endpoints' = endpoints
  BY <1>4 DEF Environment, Vanish, Learn, Expire, Cool, UserRemoves, Crash, kernel
<1>5. ASSUME NEW t \in Tunnels, StartReconcile(t) \/ StartWrite(t) \/ StartDelete(t) PROVE endpoints' = endpoints
  BY <1>5 DEF StartReconcile, StartWrite, StartDelete, kernel
<1>6. ASSUME StartGlobal \/ StartSettings \/ UNCHANGED vars PROVE endpoints' = endpoints
  BY <1>6 DEF StartGlobal, StartSettings, vars, kernel
<1> QED  BY <1>1, <1>2, <1>3, <1>4, <1>5, <1>6 DEF Next

ForeignInv == SpeakerInv /\ RouteInv /\ PlanInv

LEMMA ForeignInit == Init => ForeignInv
<1>1. Init => RouteInv
  BY DEF Init, RouteInv, NoRoute
<1>2. Init => PlanInv
  <2>1. Idle.at = "wait"
    BY DEF Idle
  <2> QED  BY <2>1 DEF Init, PlanInv, PlanAt
<1> QED  BY <1>1, <1>2, SpeakerInit DEF ForeignInv

LEMMA ForeignStep == ForeignInv /\ [Next]_vars => ForeignInv'
BY SpeakerStep, RouteStep, PlanStep DEF ForeignInv

\* A route or an endpoint that an operator has added stays until the operator
\* takes it away (babelRouteDiff, ownedLocked, removeOwnedRoutes), for any
\* number of tables and tunnels; only a route that the operator adds after the
\* table was listed is lost to the RouteReplace that follows (installRoutes).
THEOREM ForeignStaysCorrect == Spec => ForeignStays
<1> DEFINE Foreign ==
      /\ \A n \in Tables : routes[n].owner = "user" =>
           \/ routes'[n].owner = "user"
           \/ routes'[n] = NoRoute /\ calls' = calls
           \/ LateReplace(n)
      /\ <<None, None>> \in endpoints => <<None, None>> \in endpoints'
<1>1. Init => ForeignInv
  BY ForeignInit
<1>2. ForeignInv /\ [Next]_vars => ForeignInv'
  BY ForeignStep
<1>3. ForeignInv /\ [Next]_vars => Foreign
  <2> SUFFICES ASSUME ForeignInv, [Next]_vars PROVE Foreign
    OBVIOUS
  <2>0. RouteInv /\ PlanInv
    BY DEF ForeignInv
  <2>1. ASSUME NEW n \in Tables, routes[n].owner = "user"
        PROVE  routes'[n].owner = "user" \/ (routes'[n] = NoRoute /\ calls' = calls) \/ LateReplace(n)
    <3>1. RouteGoesOn(n)
      BY <2>0, RoutesGoOn
    <3>2. routes[n].via = {}
      BY <2>0, <2>1 DEF RouteInv
    <3>3. ASSUME NEW c \in Callers, Stage(c) = "babel", calls[c].at = "replace",
                 n = engine.settings.table, routes'[n] = calls[c].plan.route
          PROVE  LateReplace(n)
      <4>1. calls[c].plan.listed.owner # "user"
        BY <2>0, <3>3 DEF PlanInv, PlanAt
      <4> QED  BY <3>3, <4>1 DEF LateReplace
    <3> QED  BY <2>1, <3>1, <3>2, <3>3 DEF RouteGoesOn, Severed, Cleared
  <2> QED  BY <2>0, <2>1, EndpointKept
<1>4. ForeignInv /\ [Next]_vars => [Foreign]_vars
  BY <1>3
<1> QED  BY <1>1, <1>2, <1>4, PTL DEF Spec, ForeignStays

-----------------------------------------------------------------------------
(* Changes of settings.                                                    *)

\* A plan that ends in nothing of Babel's is as ordered as its beginning.
LEMMA OrderedJoin ==
  ASSUME NEW r, NEW s, Ordered(r), Without(r, "save"), s \in Seq(Stages),
         Without(s, "refresh"), Without(s, "babel"), \A i \in DOMAIN s : s[i] = "save" => i = Len(s)
  PROVE  Ordered(r \o s) /\ (r # <<>> => r \o s # <<>> /\ Head(r \o s) = Head(r))
<1>1. /\ r \in Seq(Stages) /\ Len(r) \in Nat /\ Len(s) \in Nat
      /\ DOMAIN r = 1..Len(r) /\ DOMAIN s = 1..Len(s)
  BY LenProperties DEF Ordered
<1> DEFINE rs == r \o s
<1>2. /\ rs \in Seq(Stages) /\ Len(rs) = Len(r) + Len(s) /\ DOMAIN rs = 1..(Len(r) + Len(s))
      /\ \A i \in 1..(Len(r) + Len(s)) : rs[i] = IF i <= Len(r) THEN r[i] ELSE s[i - Len(r)]
  BY <1>1, ConcatProperties, LenProperties
<1> HIDE DEF rs
<1>3. \A i \in DOMAIN rs :
        \/ i \in DOMAIN r /\ rs[i] = r[i]
        \/ i - Len(r) \in DOMAIN s /\ rs[i] = s[i - Len(r)] /\ i > Len(r)
  BY <1>1, <1>2
<1>4. \A i \in DOMAIN rs : rs[i] \in {"refresh", "babel"} => i \in DOMAIN r /\ rs[i] = r[i]
  BY <1>3 DEF Without
<1>5. \A i \in DOMAIN rs : rs[i] = "save" => i = Len(rs)
  <2> SUFFICES ASSUME NEW i \in DOMAIN rs, rs[i] = "save" PROVE i = Len(rs)
    OBVIOUS
  <2>1. i - Len(r) \in DOMAIN s /\ s[i - Len(r)] = "save"
    BY <1>3 DEF Without
  <2>2. i - Len(r) = Len(s)
    BY <2>1
  <2> QED  BY <2>2, <1>1, <1>2
<1>6. Ordered(rs)
  BY <1>2, <1>4, <1>5 DEF Ordered
<1>7. ASSUME r # <<>> PROVE rs # <<>> /\ Head(rs) = Head(r)
  <2>1. 1 <= Len(r) /\ Head(r) = r[1]
    BY <1>1, <1>7, EmptySeq
  <2>2. rs[1] = r[1] /\ Len(rs) # 0
    BY <2>1, <1>1, <1>2
  <2> QED  BY <2>1, <2>2, <1>2
<1> QED  BY <1>6, <1>7 DEF rs

LEMMA SettingsPlans ==
  /\ Ordered(<<>>)
  /\ Ordered(Restoring) /\ Ordered(Updating)
  /\ \E i \in DOMAIN Updating : Updating[i] = "save"
  /\ uses.babel => Restoring # <<>> /\ Head(Restoring) = "refresh"
  /\ uses.babel => Updating # <<>> /\ Head(Updating) = "refresh"
<1> DEFINE r == Babel(<<"refresh", "babel">>)
           s == MPTCP(<<"mptcprefresh", "mptcp">>)
           final == <<"save">>
<1>1. Ordered(<<>>)
  BY DEF Ordered, Stages
<1>2. Ordered(r) /\ Without(r, "save") /\ WellFormed(r) /\ (uses.babel => r # <<>> /\ Head(r) = "refresh")
  <2>1. CASE uses.babel
    <3> DEFINE q == <<"refresh", "babel">>
    <3>1. r = q
      BY <2>1 DEF Babel
    <3>2. q \in Seq(Stages) /\ Len(q) = 2 /\ DOMAIN q = 1..2 /\ q[1] = "refresh" /\ q[2] = "babel"
      BY DEF Stages
    <3>3. q # <<>> /\ Head(q) = "refresh"
      OBVIOUS
    <3> HIDE DEF q
    <3>4. Ordered(q)
      BY <2>1, <3>2 DEF Ordered
    <3>5. Without(q, "save") /\ WellFormed(q)
      BY <3>2 DEF Without, WellFormed
    <3> QED  BY <3>1, <3>3, <3>4, <3>5
  <2>2. CASE ~ uses.babel
    BY <1>1, <2>2, Plans DEF Babel
  <2> QED  BY <2>1, <2>2
<1>3. /\ s \in Seq(Stages) /\ Without(s, "refresh") /\ Without(s, "babel") /\ Without(s, "save")
      /\ WellFormed(s)
  <2> DEFINE q == <<"mptcprefresh", "mptcp">>
  <2>1. q \in Seq(Stages) /\ Len(q) = 2 /\ DOMAIN q = 1..2 /\ q[1] = "mptcprefresh" /\ q[2] = "mptcp"
    BY DEF Stages
  <2>2. s = q \/ s = <<>>
    BY DEF MPTCP
  <2> HIDE DEF q, s
  <2>3. Without(q, "refresh") /\ Without(q, "babel") /\ Without(q, "save") /\ WellFormed(q)
    BY <2>1 DEF Without, WellFormed
  <2> QED  BY <2>2, <2>3, Plans DEF WellFormed
<1>4. \A i \in DOMAIN s : s[i] = "save" => i = Len(s)
  BY <1>3 DEF Without
<1>5. Restoring = r \o s
  BY DEF Restoring
<1> HIDE DEF r, s
<1>6. Ordered(Restoring) /\ (uses.babel => Restoring # <<>> /\ Head(Restoring) = "refresh")
  BY <1>2, <1>3, <1>4, <1>5, OrderedJoin
<1>7. Without(Restoring, "save")
  BY <1>2, <1>3, <1>5, Joined
<1>8. /\ final \in Seq(Stages) /\ Without(final, "refresh") /\ Without(final, "babel")
      /\ \A i \in DOMAIN final : final[i] = "save" => i = Len(final)
      /\ Len(final) = 1 /\ final[1] = "save"
  BY DEF Stages, Without
<1>9. Restoring \in Seq(Stages)
  BY <1>6 DEF Ordered
<1>10. Updating = Restoring \o final
  BY <1>9, AppendIsConcat DEF Updating, Stages
<1> HIDE DEF final
<1>11. Ordered(Updating) /\ (uses.babel => Updating # <<>> /\ Head(Updating) = "refresh")
  BY <1>6, <1>7, <1>8, <1>10, OrderedJoin
<1>12. \E i \in DOMAIN Updating : Updating[i] = "save"
  <2>1. Len(Restoring) \in Nat
    BY <1>9, LenProperties
  <2>2. /\ Updating \in Seq(Stages) /\ Len(Updating) = Len(Restoring) + 1
        /\ Updating[Len(Restoring) + 1] = "save"
    BY <1>9, AppendProperties DEF Updating, Stages
  <2>3. Len(Restoring) + 1 \in DOMAIN Updating
    BY <2>1, <2>2, LenProperties
  <2> QED  BY <2>2, <2>3
<1> QED  BY <1>1, <1>6, <1>11, <1>12

\* What is left of such a plan after its first stage.
LEMMA OrderedRest ==
  ASSUME NEW s, Ordered(s), s # <<>>
  PROVE  /\ Ordered(Tail(s)) /\ Without(Tail(s), "refresh")
         /\ Head(s) = "babel" => Without(Tail(s), "babel")
         /\ Head(s) = "save" => Tail(s) = <<>>
         /\ Head(s) \in {"refresh", "babel"} => uses.babel
         /\ (\E i \in DOMAIN Tail(s) : Tail(s)[i] = "babel") => \E i \in DOMAIN s : s[i] = "babel"
         /\ Head(s) # "save" /\ (\E i \in DOMAIN s : s[i] = "save") =>
              \E i \in DOMAIN Tail(s) : Tail(s)[i] = "save"
<1>1. s \in Seq(Stages) /\ Len(s) \in Nat /\ DOMAIN s = 1..Len(s) /\ Len(s) # 0
  BY LenProperties, EmptySeq DEF Ordered
<1> DEFINE r == Tail(s)
<1>2. /\ r \in Seq(Stages) /\ Len(r) = Len(s) - 1 /\ DOMAIN r = 1..(Len(s) - 1)
      /\ \A i \in 1..(Len(s) - 1) : r[i] = s[i + 1]
  BY <1>1, HeadTailProperties, LenProperties
<1>3. Head(s) = s[1] /\ 1 \in DOMAIN s
  BY <1>1
<1> HIDE DEF r
<1>4. \A i \in DOMAIN r : i + 1 \in DOMAIN s /\ i + 1 # 1 /\ r[i] = s[i + 1]
  BY <1>1, <1>2
<1>5. Without(r, "refresh")
  BY <1>4 DEF Ordered, Without
<1>6. Head(s) = "babel" => Without(r, "babel")
  BY <1>3, <1>4 DEF Ordered, Without
<1>7. \A i, j \in DOMAIN r : i + 1 = j + 1 => i = j
  BY <1>2
<1>8. \A i, j \in DOMAIN r : r[i] = "babel" /\ r[j] = "babel" => i = j
  BY <1>4, <1>7 DEF Ordered
<1>9. \A i \in DOMAIN r : r[i] = "save" => i = Len(r)
  <2> TAKE i \in DOMAIN r
  <2> HAVE r[i] = "save"
  <2>1. i + 1 = Len(s)
    BY <1>4 DEF Ordered
  <2> QED  BY <2>1, <1>1, <1>2
<1>10. Ordered(r)
  <2>1. \A i \in DOMAIN r : r[i] \in {"refresh", "babel"} => uses.babel
    BY <1>4 DEF Ordered
  <2> QED  BY <1>2, <1>5, <1>8, <1>9, <2>1 DEF Ordered, Without
<1>11. ASSUME Head(s) = "save" PROVE r = <<>>
  <2>1. Len(s) = 1
    BY <1>3, <1>11 DEF Ordered
  <2> QED  BY <2>1, <1>2, EmptySeq
<1>12. ASSUME Head(s) # "save", NEW i \in DOMAIN s, s[i] = "save"
       PROVE  \E j \in DOMAIN r : r[j] = "save"
  <2>1. i # 1
    BY <1>3, <1>12
  <2>2. i - 1 \in 1..(Len(s) - 1) /\ (i - 1) + 1 = i
    BY <2>1, <1>1
  <2> QED  BY <2>2, <1>2, <1>12
<1>13. Head(s) \in {"refresh", "babel"} => uses.babel
  BY <1>3 DEF Ordered
<1> QED  BY <1>4, <1>5, <1>6, <1>10, <1>11, <1>12, <1>13 DEF r

LEMMA SettingsHold ==
  ASSUME NEW y, y = calls'["writer"], uses' = uses,
         Changing(y) => Ordered(y.do),
         y.op = "restore" => y.rec = disk',
         y.op = "settings" => Saving(y) \/ y.rec = disk',
         uses.babel /\ ~ torn' =>
           /\ ~ Changing(y) => engine'.settings = disk'
           /\ Changing(y) /\ Refreshed(y) => engine'.settings = y.rec
           /\ y.op = "settings" /\ ~ Refreshed(y) => engine'.settings = disk'
           /\ y.op = "settings" /\ Refreshed(y) /\ Reconciling(y) /\ y.rec.policy # disk'.policy => engine'.force
  PROVE  SettingsInv'
<1>1. Ordered(y.do) => Ordered(y.do)'
  BY DEF Ordered
<1> QED  BY <1>1 DEF SettingsInv, Changing, Saving, Refreshed, Reconciling

\* Nobody but the writer of settings changes what concerns them.
LEMMA SettingsUntouched ==
  ASSUME SettingsInv, calls'["writer"] = calls["writer"], uses' = uses, disk' = disk, torn' = torn,
         engine'.settings = engine.settings,
         engine'.force = engine.force \/ calls["writer"].op # "settings"
  PROVE  SettingsInv'
<1>1. PICK y : y = calls'["writer"]
  OBVIOUS
<1>2. y = calls["writer"]
  BY <1>1
<1> QED  BY <1>1, <1>2, SettingsHold DEF SettingsInv

LEMMA SettingsUnconcerned ==
  ASSUME SettingsInv, ~ Changing(calls["writer"]), ~ Changing(calls'["writer"]), uses' = uses, disk' = disk,
         ~ torn' => ~ torn, engine'.settings = engine.settings
  PROVE  SettingsInv'
<1>1. PICK y : y = calls'["writer"]
  OBVIOUS
<1>2. y.op # "settings" /\ y.op # "restore" /\ ~ Changing(y)
  BY <1>1 DEF Changing
<1>3. uses.babel /\ ~ torn' => engine'.settings = disk'
  BY DEF SettingsInv
<1> QED  BY <1>1, <1>2, <1>3, SettingsHold

\* The end of a stage of a change of settings.
LEMMA SettingsAdvanced ==
  ASSUME SpeakerInv, SettingsInv, NEW err, calls' = Advanced("writer", err), Changing(calls["writer"]),
         calls["writer"].do # <<>>, Refreshed(calls["writer"]),
         uses' = uses, torn' = torn, engine'.settings = engine.settings,
         Head(calls["writer"].do) = "babel" \/ engine'.force = engine.force,
         IF Head(calls["writer"].do) = "save" THEN disk' = calls["writer"].rec ELSE disk' = disk
  PROVE  SettingsInv'
<1> DEFINE x == calls["writer"]
<1>0. "writer" \in Callers
  BY DEF Callers
<1>1. PICK y : y = calls'["writer"]
  OBVIOUS
<1>2. y.op = x.op /\ y.do = Tail(x.do) /\ y.rec = x.rec /\ y.at = "wait"
  <2>1. CallShape(x) /\ calls = [d \in Callers |-> calls[d]]
    BY <1>0 DEF SpeakerInv, TypeInv
  <2> QED  BY <1>0, <1>1, <2>1 DEF Advanced, CallShape
<1>3. Ordered(x.do)
  BY DEF SettingsInv
<1>4. /\ Ordered(y.do) /\ Without(y.do, "refresh")
      /\ Head(x.do) = "babel" => Without(y.do, "babel")
      /\ Head(x.do) = "save" => y.do = <<>>
  BY <1>2, <1>3, OrderedRest
<1>5. Reconciling(y) => Reconciling(x)
  BY <1>2, <1>3, OrderedRest DEF Reconciling
<1>6. Head(x.do) = "babel" => ~ Reconciling(y)
  BY <1>4 DEF Reconciling, Without
<1>7. Head(x.do) # "save" /\ Saving(x) => Saving(y)
  BY <1>2, <1>3, OrderedRest DEF Saving
<1>8. Refreshed(y)
  <2> SUFFICES ASSUME y.do # <<>> PROVE Head(y.do) # "refresh"
    BY DEF Refreshed
  <2>1. Head(y.do) = y.do[1] /\ 1 \in DOMAIN y.do
    BY <1>4, EmptySeq, LenProperties DEF Ordered
  <2> QED  BY <2>1, <1>4 DEF Without
<1>9. Head(x.do) = "save" => ~ Reconciling(y)
  <2>1. DOMAIN <<>> = {}
    OBVIOUS
  <2> QED  BY <2>1, <1>4 DEF Reconciling
<1>10. /\ x.op = "restore" => x.rec = disk
       /\ x.op = "settings" => Saving(x) \/ x.rec = disk
       /\ uses.babel /\ ~ torn =>
            /\ engine.settings = x.rec
            /\ x.op = "settings" /\ Reconciling(x) /\ x.rec.policy # disk.policy => engine.force
  BY DEF SettingsInv
<1>11. y.op = "restore" => y.rec = disk'
  BY <1>2, <1>10
<1>12. y.op = "settings" => Saving(y) \/ y.rec = disk'
  BY <1>2, <1>7, <1>10
<1>13. uses.babel /\ ~ torn' =>
         /\ engine'.settings = y.rec
         /\ y.op = "settings" /\ Reconciling(y) /\ y.rec.policy # disk'.policy => engine'.force
  BY <1>2, <1>5, <1>6, <1>9, <1>10
<1>14. Changing(y)
  BY <1>2 DEF Changing
<1> QED  BY <1>1, <1>4, <1>8, <1>11, <1>12, <1>13, <1>14, SettingsHold

\* A stage that fails ends the change, and the settings of the file come back;
\* one that fails then is the end of it.
LEMMA SettingsStopped ==
  ASSUME SpeakerInv, SettingsInv, calls' = Failed("writer"), Changing(calls["writer"]),
         calls["writer"].do # <<>>,
         uses' = uses, disk' = disk, engine'.settings = engine.settings,
         \/ torn' = TornBy("writer")
         \/ torn' = torn /\ Refreshed(calls["writer"])
  PROVE  SettingsInv'
<1> DEFINE x == calls["writer"]
<1>0. "writer" \in Callers
  BY DEF Callers
<1>1. PICK y : y = calls'["writer"]
  OBVIOUS
<1>2. CallShape(x) /\ calls = [d \in Callers |-> calls[d]] /\ calls' = Stopped("writer")
  BY <1>0 DEF SpeakerInv, TypeInv, Failed, Changing
<1>3. CASE x.op = "settings"
  <2>1. y = Call("restore", Restoring, None, disk)
    BY <1>0, <1>1, <1>2, <1>3 DEF Stopped
  <2>2. y.op = "restore" /\ y.do = Restoring /\ y.rec = disk' /\ y.at = "wait"
    BY <2>1 DEF Call, Idle
  <2>3. Ordered(y.do) /\ (uses.babel => ~ Refreshed(y))
    BY <2>2, SettingsPlans DEF Refreshed
  <2>4. Changing(y) /\ y.op # "settings"
    BY <2>2 DEF Changing
  <2> QED  BY <1>1, <2>2, <2>3, <2>4, SettingsHold
<1>4. CASE x.op = "restore"
  <2>1. y.op = "restore" /\ y.do = <<>> /\ y.rec = x.rec
    BY <1>0, <1>1, <1>2, <1>4 DEF Stopped, CallShape
  <2>2. Ordered(y.do) /\ y.rec = disk' /\ Changing(y) /\ y.op # "settings"
    BY <2>1, <1>4, SettingsPlans DEF SettingsInv, Changing
  <2>3. ~ torn' => ~ torn /\ Refreshed(x)
    BY <1>4 DEF TornBy
  <2>4. uses.babel /\ ~ torn' => engine'.settings = y.rec
    BY <2>1, <2>3 DEF SettingsInv
  <2> QED  BY <1>1, <2>2, <2>4, SettingsHold
<1> QED  BY <1>3, <1>4 DEF Changing

\* A step of somebody who is not the writer.
LEMMA OthersOp ==
  ASSUME SpeakerInv, NEW c \in Callers, c # "writer", calls[c].op # "none"
  PROVE  calls["writer"].op = "none"
BY DEF SpeakerInv, GateInv, Writing

\* What a step of a call does to the settings, unless it is their refresh.
Stepped(c) ==
  /\ uses' = uses /\ engine'.settings = engine.settings
  /\ calls[c].do # <<>> /\ Refreshed(calls[c])
  /\ \/ /\ \E err \in BOOLEAN : calls' = Advanced(c, err)
        /\ torn' = torn
        /\ Head(calls[c].do) = "babel" \/ engine'.force = engine.force
        /\ IF Head(calls[c].do) = "save" THEN disk' = calls[c].rec ELSE disk' = disk
     \/ /\ calls' = Failed(c) /\ disk' = disk
        /\ torn' = TornBy(c) \/ torn' = torn

LEMMA SteppedHolds ==
  ASSUME SpeakerInv, SettingsInv, NEW c \in Callers, Stepped(c)
  PROVE  SettingsInv'
<1> DEFINE x == calls[c]
<1>1. CallShape(x) /\ CallAt(c, x) /\ x.op # "none" /\ calls = [d \in Callers |-> calls[d]]
  BY DEF SpeakerInv, TypeInv, CallInv, CallAt, Stepped
<1>2. CASE Changing(x)
  <2>1. c = "writer"
    BY <1>2, Alone DEF Changing
  <2> QED  BY <2>1, <1>2, SettingsAdvanced, SettingsStopped DEF Stepped
<1>3. CASE ~ Changing(x)
  <2>1. \E err \in BOOLEAN : calls' = Advanced(c, err)
    BY <1>3 DEF Stepped, Failed, Changing
  <2>2. /\ calls'[c].op = x.op
        /\ \A d \in Callers \ {c} : calls'[d] = calls[d]
    BY <2>1, <1>1 DEF Advanced, CallShape
  <2>3. Head(x.do) # "save"
    <3>1. Head(x.do) = x.do[1] /\ 1 \in DOMAIN x.do
      BY <1>1, Rest DEF Stepped, CallAt
    <3> QED  BY <3>1, <1>1, <1>3 DEF CallAt, Plain, Without
  <2>4. disk' = disk /\ uses' = uses /\ engine'.settings = engine.settings
    BY <2>3 DEF Stepped
  <2>6. ~ torn' => ~ torn
    <3>1. torn' = torn \/ torn' = TornBy(c)
      BY DEF Stepped
    <3> QED  BY <3>1 DEF TornBy
  <2>5. ~ Changing(calls["writer"]) /\ ~ Changing(calls'["writer"])
    <3>1. CASE c = "writer"
      BY <3>1, <1>3, <2>2 DEF Changing
    <3>2. CASE c # "writer"
      BY <3>2, <1>1, <2>2, OthersOp DEF Changing, Callers
    <3> QED  BY <3>1, <3>2
  <2> QED  BY <2>4, <2>6, <2>5, SettingsUnconcerned
<1> QED  BY <1>2, <1>3

\* A step of one call that changes neither the settings nor how far it is with
\* them.
LEMMA PlacedHolds ==
  ASSUME SpeakerInv, SettingsInv, NEW c \in Callers, NEW y, Replaced(c, y),
         calls[c].do # <<>>, Refreshed(calls[c]), Refreshed(y),
         y.op = calls[c].op, y.do = calls[c].do, y.rec = calls[c].rec,
         uses' = uses, disk' = disk, torn' = torn,
         engine'.settings = engine.settings, engine'.force = engine.force
  PROVE  SettingsInv'
<1>1. CASE c = "writer"
  <2>1. y = calls'["writer"]
    BY <1>1 DEF Replaced
  <2> QED  BY <1>1, <2>1, SettingsHold DEF SettingsInv, Changing, Saving, Reconciling
<1>2. CASE c # "writer"
  <2>1. calls'["writer"] = calls["writer"]
    BY <1>2 DEF Replaced, Callers
  <2> QED  BY <2>1, SettingsUntouched
<1> QED  BY <1>1, <1>2

LEMMA SettingsOfStage ==
  ASSUME SpeakerInv, SettingsInv, NEW c \in Callers, 
         Link(c) \/ Unlink(c) \/ BabelSet(c) \/ MptcpSet(c) \/ MptcpRefresh(c)
           \/ (MptcpList(c) /\ calls' = Advanced(c, FALSE)) \/ MptcpDone(c) \/ Save(c)
  PROVE  SettingsInv'
<1>1. /\ calls[c].do # <<>>
      /\ Head(calls[c].do) # "refresh"
      /\ uses' = uses /\ torn' = torn
      /\ \/ \E err \in BOOLEAN : calls' = Advanced(c, err)
         \/ calls' = Failed(c) /\ disk' = disk
  BY DEF Link, Unlink, BabelSet, MptcpSet, MptcpRefresh, MptcpList, MptcpDone, Save, Stage
<1>2. \/ calls' = Failed(c) /\ disk' = disk
      \/ IF Head(calls[c].do) = "save" THEN disk' = calls[c].rec ELSE disk' = disk
  BY DEF Link, Unlink, BabelSet, MptcpSet, MptcpRefresh, MptcpList, MptcpDone, Save, Stage
<1>3. engine'.settings = engine.settings /\ engine'.force = engine.force
  <2>1. CASE Unlink(c)
    <3>1. engine' = engine \/ engine' = [engine EXCEPT !.speaker = Unplugged(@, calls[c].of)]
      BY <2>1 DEF Unlink, Vanished
    <3> QED  BY <3>1, EngineUnplugged
  <2>2. CASE BabelSet(c)
    <3>1. PICK t, v : engine' = [engine EXCEPT !.tunnels[t] = v]
      BY <2>2 DEF BabelSet
    <3> QED  BY <3>1 DEF SpeakerInv, TypeInv, EngineShape
  <2>3. CASE Link(c) \/ MptcpSet(c) \/ MptcpRefresh(c) \/ MptcpList(c) \/ MptcpDone(c) \/ Save(c)
    BY <2>3 DEF Link, MptcpSet, MptcpRefresh, MptcpList, MptcpDone, Save, babel
  <2> QED  BY <2>1, <2>2, <2>3
<1>4. Stepped(c)
  BY <1>1, <1>2, <1>3 DEF Stepped, Refreshed
<1> QED  BY <1>4, SteppedHolds

\* A place of the MPTCP engine, or of installRoutes, is nothing to the settings.
LEMMA SettingsWithin ==
  ASSUME SpeakerInv, SettingsInv, NEW c \in Callers,
         \/ MptcpAll(c) \/ MptcpAdd(c) \/ MptcpDelete(c)
         \/ MptcpList(c) /\ calls' # Advanced(c, FALSE)
         \/ Compare(c) /\ holder' # None
  PROVE  SettingsInv'
<1>1. /\ uses' = uses /\ disk' = disk /\ torn' = torn /\ engine' = engine
      /\ Head(calls[c].do) \in {"mptcp", "mptcpall", "babel"}
      /\ \E y : Within(c, y)
  <2>1. CASE Compare(c) /\ holder' # None
    BY <2>1, Planning DEF Compare
  <2>2. CASE ~ (Compare(c) /\ holder' # None)
    BY <2>2, MptcpPlaces DEF MptcpAll, MptcpAdd, MptcpDelete, MptcpList
  <2> QED  BY <2>1, <2>2
<1>2. PICK y : Within(c, y)
  BY <1>1
<1>3. Refreshed(calls[c]) /\ Refreshed(y)
  BY <1>1, <1>2 DEF Refreshed, Within
<1> QED  BY <1>1, <1>2, <1>3, PlacedHolds DEF Within

LEMMA SettingsOfRelease ==
  ASSUME SpeakerInv, SettingsInv, NEW c \in Callers,
         Move(c) \/ Clear(c) \/ (Compare(c) /\ holder' = None) \/ Replace(c) \/ Remove(c)
  PROVE  SettingsInv'
<1>1. /\ calls[c].do # <<>> /\ Refreshed(calls[c])
      /\ Head(calls[c].do) \in {"refresh", "babel"}
      /\ uses' = uses /\ disk' = disk
      /\ engine'.settings = engine.settings
      /\ Head(calls[c].do) = "babel" \/ engine'.force = engine.force
      /\ \/ calls' = Advanced(c, FALSE) /\ torn' = torn
         \/ calls' = Failed(c) /\ torn' = TornBy(c)
  <2>1. CASE Move(c)
    BY <2>1 DEF Move, Stage, Refreshed
  <2>2. CASE Clear(c)
    BY <2>2 DEF Clear, Released, Stage, Refreshed
  <2>3. CASE (Compare(c) /\ holder' = None) \/ Replace(c) \/ Remove(c)
    <3>1. engine' = engine \/ engine' = [engine EXCEPT !.force = FALSE]
      BY <2>3 DEF Compare, Replace, Remove
    <3>2. engine'.settings = engine.settings
      BY <3>1 DEF SpeakerInv, TypeInv, EngineShape
    <3>3. Stage(c) = "babel" /\ calls[c].at # "wait" /\ calls[c].at \notin Locked
      BY <2>3 DEF Compare, Replace, Remove, Locked
    <3>4. holder = c /\ c # None
      BY <3>3, LinuxBackendAssumption DEF Stage, SpeakerInv, PlaceInv, PlaceAt, Callers
    <3>5. \/ calls' = Advanced(c, FALSE) /\ torn' = torn
          \/ calls' = Failed(c) /\ torn' = TornBy(c)
      BY <2>3, <3>4 DEF Compare, Replace, Remove, Released
    <3>6. uses' = uses /\ disk' = disk
      BY <2>3 DEF Compare, Replace, Remove
    <3> QED  BY <3>2, <3>3, <3>5, <3>6 DEF Stage, Refreshed
  <2> QED  BY <2>1, <2>2, <2>3
<1>2. Stepped(c)
  BY <1>1 DEF Stepped
<1> QED  BY <1>2, SteppedHolds

LEMMA SettingsOfBuild ==
  ASSUME SpeakerInv, SettingsInv, NEW c \in Callers, Decide(c) \/ Build(c)
  PROVE  SettingsInv'
<1> DEFINE x == calls[c]
<1>1. /\ x.do # <<>> /\ Head(x.do) = "babel" /\ Refreshed(x)
      /\ uses' = uses /\ disk' = disk
      /\ CallShape(x) /\ calls = [d \in Callers |-> calls[d]]
      /\ EngineShape
  BY DEF Decide, Build, Stage, Refreshed, SpeakerInv, TypeInv
<1>2. engine'.settings = engine.settings /\ engine'.force = engine.force
  <2>1. \/ engine' = engine \/ engine' = [engine EXCEPT !.speaker = None]
        \/ \E b : engine' = [engine EXCEPT !.built = b]
        \/ \E b, s : engine' = [engine EXCEPT !.built = b, !.speaker = s]
    BY DEF Decide, Build
  <2> QED  BY <1>1, <2>1 DEF EngineShape
<1>3. CASE Build(c) /\ calls' = Failed(c) /\ torn' = TornBy(c)
  <2>1. Stepped(c)
    BY <1>1, <1>2, <1>3 DEF Stepped
  <2> QED  BY <2>1, SteppedHolds
<1>4. ASSUME torn' = torn, NEW place \in Inside,
             \/ calls' = At(c, place)
             \/ calls' = [calls EXCEPT ![c].built = engine.tunnels, ![c].at = place]
      PROVE  SettingsInv'
  <2>1. PICK y : y = calls'[c]
    OBVIOUS
  <2>2. /\ calls' = [d \in Callers |-> calls'[d]]
        /\ \A d \in Callers \ {c} : calls'[d] = calls[d]
        /\ y.op = x.op /\ y.do = x.do /\ y.rec = x.rec /\ y.at = place
    <3>1. CASE calls' = At(c, place)
      BY <2>1, <1>1, <3>1 DEF At, CallShape
    <3>2. CASE calls' = [calls EXCEPT ![c].built = engine.tunnels, ![c].at = place]
      BY <2>1, <1>1, <3>2 DEF CallShape
    <3> QED  BY <1>4, <3>1, <3>2
  <2>3. Replaced(c, y)
    BY <2>1, <2>2 DEF Replaced
  <2>4. Refreshed(y)
    BY <2>2, <1>1 DEF Refreshed
  <2> QED  BY <1>1, <1>2, <1>4, <2>2, <2>3, <2>4, PlacedHolds
<1>5. CASE Decide(c)
  <2>1. PICK place \in Inside :
          calls' = [calls EXCEPT ![c].built = engine.tunnels, ![c].at = place]
    BY <1>5 DEF Decide, Inside
  <2>2. torn' = torn
    BY <1>5 DEF Decide
  <2> QED  BY <2>1, <2>2, <1>4
<1>6. CASE Build(c) /\ torn' = torn /\ (calls' = At(c, "clear") \/ calls' = At(c, "routes"))
  BY <1>4, <1>6 DEF Inside
<1> QED  BY <1>3, <1>5, <1>6 DEF Build

LEMMA SettingsOfRefresh ==
  ASSUME SpeakerInv, SettingsInv, NEW c \in Callers, Refresh(c)
  PROVE  SettingsInv'
<1> DEFINE x == calls["writer"]
<1>0. Changing(calls[c]) /\ calls[c].do # <<>> /\ Head(calls[c].do) = "refresh" /\ c = "writer"
  <2>1. Changing(calls[c]) /\ calls[c].do # <<>> /\ Head(calls[c].do) = "refresh"
    BY Refreshing DEF Refresh
  <2> QED  BY <2>1, Alone DEF Changing
<1>1. /\ CallShape(x) /\ calls = [d \in Callers |-> calls[d]] /\ EngineShape /\ x.at = "wait"
      /\ engine' = [engine EXCEPT !.settings = x.rec,
                                  !.force = @ \/ x.rec.policy # engine.settings.policy]
      /\ calls' = At("writer", "moving") \/ calls' = Advanced("writer", FALSE)
      /\ uses' = uses /\ disk' = disk /\ torn' = torn
  BY <1>0 DEF Refresh, SpeakerInv, TypeInv
<1>2. /\ engine'.settings = x.rec
      /\ engine'.force <=> (engine.force \/ x.rec.policy # engine.settings.policy)
  BY <1>1 DEF EngineShape
<1>3. PICK y : y = calls'["writer"]
  OBVIOUS
<1>4. /\ y.op = x.op /\ y.rec = x.rec
      /\ (y.do = x.do /\ y.at = "moving") \/ y.do = Tail(x.do)
  <2>0. "writer" \in Callers
    BY DEF Callers
  <2>1. CASE calls' = At("writer", "moving")
    BY <1>1, <1>3, <2>0, <2>1 DEF At, CallShape
  <2>2. CASE calls' = Advanced("writer", FALSE)
    BY <1>1, <1>3, <2>0, <2>2 DEF Advanced, CallShape
  <2> QED  BY <1>1, <2>1, <2>2
<1>5. Ordered(x.do)
  BY <1>0 DEF SettingsInv
<1>6. Ordered(y.do) /\ Refreshed(y) /\ (Saving(x) => Saving(y))
  <2>1. CASE y.do = x.do /\ y.at = "moving"
    BY <2>1, <1>5 DEF Refreshed, Saving
  <2>2. CASE y.do = Tail(x.do)
    <3>1. Ordered(y.do) /\ Without(y.do, "refresh")
      BY <2>2, <1>0, <1>5, OrderedRest
    <3>2. Saving(x) => Saving(y)
      BY <2>2, <1>0, <1>5, OrderedRest DEF Saving
    <3>3. y.do # <<>> => Head(y.do) = y.do[1] /\ 1 \in DOMAIN y.do
      BY <3>1, EmptySeq, LenProperties DEF Ordered
    <3> QED  BY <3>1, <3>2, <3>3 DEF Refreshed, Without
  <2> QED  BY <1>4, <2>1, <2>2
<1>7. y.op = "settings" => Saving(y) \/ y.rec = disk'
  BY <1>1, <1>4, <1>6 DEF SettingsInv
<1>8. y.op = "restore" => y.rec = disk'
  BY <1>1, <1>4 DEF SettingsInv
<1>9. ~ Refreshed(x)
  BY <1>0, <1>1 DEF Refreshed
<1>10. uses.babel /\ ~ torn' /\ y.op = "settings" /\ y.rec.policy # disk'.policy => engine'.force
  BY <1>1, <1>2, <1>4, <1>9 DEF SettingsInv
<1>11. Changing(y)
  BY <1>0, <1>4 DEF Changing
<1> QED  BY <1>1, <1>2, <1>3, <1>4, <1>6, <1>7, <1>8, <1>10, <1>11, SettingsHold

LEMMA SettingsOfEnd ==
  ASSUME SpeakerInv, SettingsInv, NEW c \in Callers, End(c)
  PROVE  SettingsInv'
<1>1. /\ calls[c].op # "none" /\ calls[c].do = <<>>
      /\ calls' = [calls EXCEPT ![c] = Idle]
      /\ uses' = uses /\ disk' = disk /\ torn' = torn /\ engine' = engine
      /\ calls = [d \in Callers |-> calls[d]] /\ "writer" \in Callers
  BY DEF End, babel, SpeakerInv, TypeInv, Callers
<1>2. CASE c # "writer"
  BY <1>1, <1>2, SettingsUntouched
<1>3. CASE c = "writer"
  <2> DEFINE x == calls["writer"]
  <2>1. PICK y : y = calls'["writer"]
    OBVIOUS
  <2>2. y.op = "none" /\ ~ Changing(y)
    BY <2>1, <1>1, <1>3, IdleCall DEF Changing
  <2>3. Refreshed(x) /\ ~ Saving(x)
    <3>1. DOMAIN <<>> = {}
      OBVIOUS
    <3> QED  BY <3>1, <1>1, <1>3 DEF Refreshed, Saving
  <2>4. uses.babel /\ ~ torn' => engine'.settings = disk'
    BY <1>1, <2>3 DEF SettingsInv, Changing
  <2> QED  BY <1>1, <2>1, <2>2, <2>4, SettingsHold
<1> QED  BY <1>2, <1>3

LEMMA SettingsOfStart ==
  ASSUME SpeakerInv, SettingsInv,
         \/ \E t \in Tunnels : StartReconcile(t) \/ StartWrite(t) \/ StartDelete(t)
         \/ StartGlobal \/ StartSettings
  PROVE  SettingsInv'
<1>1. /\ uses' = uses /\ disk' = disk /\ torn' = torn /\ engine' = engine
      /\ calls = [d \in Callers |-> calls[d]] /\ "writer" \in Callers
      /\ "writer" \notin Tunnels
  BY LinuxBackendAssumption DEF StartReconcile, StartWrite, StartDelete, StartGlobal, StartSettings, babel,
    SpeakerInv, TypeInv, Callers
<1>2. CASE (\E t \in Tunnels : StartReconcile(t)) \/ StartGlobal
  <2>1. calls'["writer"] = calls["writer"]
    BY <1>1, <1>2 DEF StartReconcile, StartGlobal
  <2> QED  BY <1>1, <2>1, SettingsUntouched
<1>3. CASE \E t \in Tunnels : StartWrite(t) \/ StartDelete(t)
  <2>0. PICK op \in {"write", "delete"} : \E do, t, rec : calls' = [calls EXCEPT !["writer"] = Call(op, do, t, rec)]
    BY <1>3 DEF StartWrite, StartDelete
  <2>1. PICK do, t, rec : calls' = [calls EXCEPT !["writer"] = Call(op, do, t, rec)]
    BY <2>0
  <2>2. PICK y : y = Call(op, do, t, rec)
    OBVIOUS
  <2>3. y.op = op
    BY <2>2 DEF Call, Idle
  <2>4. calls'["writer"].op = op
    BY <1>1, <2>1, <2>2, <2>3
  <2>5. calls["writer"].op = "none"
    BY <1>1, <1>3 DEF StartWrite, StartDelete, Quiet
  <2> QED  BY <1>1, <2>4, <2>5, SettingsUnconcerned DEF Changing
<1>4. CASE StartSettings
  <2>1. PICK s : calls' = [calls EXCEPT !["writer"] = Call("settings", Updating, None, s)]
    BY <1>4 DEF StartSettings
  <2>2. calls["writer"].op = "none"
    BY <1>1, <1>4 DEF StartSettings, Quiet
  <2>3. PICK y : y = calls'["writer"]
    OBVIOUS
  <2>4. y = Call("settings", Updating, None, s)
    BY <1>1, <2>1, <2>3
  <2>5. y.op = "settings" /\ y.do = Updating /\ y.rec = s /\ y.at = "wait"
    BY <2>4 DEF Call, Idle
  <2>6. Ordered(y.do) /\ Saving(y) /\ (uses.babel => ~ Refreshed(y))
    BY <2>5, SettingsPlans DEF Saving, Refreshed
  <2>7. uses.babel /\ ~ torn' => engine'.settings = disk'
    BY <1>1, <2>2 DEF SettingsInv, Changing
  <2> QED  BY <1>1, <2>3, <2>5, <2>6, <2>7, SettingsHold DEF Changing
<1> QED  BY <1>2, <1>3, <1>4

LEMMA SettingsOfEnvironment ==
  ASSUME SpeakerInv, SettingsInv, Environment \/ UNCHANGED vars
  PROVE  SettingsInv'
<1>1. CASE Crash
  <2>1. /\ uses' = uses /\ disk' = disk /\ engine' = NewEngine(disk)
        /\ calls' = [c \in Callers |-> Idle] /\ "writer" \in Callers
    BY <1>1 DEF Crash, Callers
  <2>2. engine'.settings = disk'
    BY <2>1 DEF NewEngine
  <2>3. PICK y : y = calls'["writer"]
    OBVIOUS
  <2>4. y.op = "none" /\ ~ Changing(y)
    BY <2>1, <2>3, IdleCall DEF Changing
  <2> QED  BY <2>1, <2>2, <2>3, <2>4, SettingsHold
<1>2. CASE ~ Crash
  <2>1. /\ uses' = uses /\ disk' = disk /\ torn' = torn /\ calls' = calls
        /\ engine' = engine \/ \E t \in Tunnels : engine' = [engine EXCEPT !.speaker = Unplugged(@, t)]
    BY <1>2 DEF Environment, Vanish, Vanished, Learn, Expire, Cool, UserAdds, UserRemoves, vars, kernel, babel
  <2>2. engine'.settings = engine.settings /\ engine'.force = engine.force
    BY <2>1, EngineUnplugged
  <2> QED  BY <2>1, <2>2, SettingsUntouched
<1> QED  BY <1>1, <1>2

LEMMA SettingsStep ==
  ASSUME SpeakerInv, SettingsInv, [Next]_vars
  PROVE  SettingsInv'
<1>1. ASSUME NEW c \in Callers, Step(c)
      PROVE  SettingsInv'
  BY <1>1, SettingsOfStage, SettingsWithin, SettingsOfRelease, SettingsOfBuild, SettingsOfRefresh,
     SettingsOfEnd DEF Step
<1> QED  BY <1>1, SettingsOfStart, SettingsOfEnvironment DEF Next

LEMMA SettingsInit ==
  ASSUME Init
  PROVE  SettingsInv
<1>1. /\ engine = NewEngine(disk) /\ calls = [c \in Callers |-> Idle] /\ "writer" \in Callers
  BY DEF Init, Callers
<1>2. engine.settings = disk
  BY <1>1 DEF NewEngine
<1>3. calls["writer"].op = "none"
  BY <1>1, IdleCall
<1> QED  BY <1>2, <1>3 DEF SettingsInv, Changing

\* The call that changed the weighting policy has the new weights installed,
\* although a measurement that changed as much would be damped.
LEMMA PolicyStep ==
  ASSUME ForeignInv, SettingsInv, NEW c \in Callers, Compare(c) \/ Replace(c) \/ Remove(c),
         calls' = Advanced(c, FALSE),
         calls[c].op = "settings", calls[c].rec.policy # disk.policy, ~ torn
  PROVE  routes'[engine.settings.table].w = Aim(c).w
<1> DEFINE x == calls[c]
           n == engine.settings.table
<1>0. SpeakerInv /\ RouteInv /\ PlanInv
  BY DEF ForeignInv
<1>1. /\ c = "writer" /\ x.do # <<>> /\ Head(x.do) = "babel"
      /\ x.at \in {"routes", "replace", "remove"}
  BY <1>0, Alone DEF Compare, Replace, Remove, Stage
<1>2. Ordered(x.do) /\ uses.babel
  <2>1. Ordered(x.do)
    BY <1>1 DEF SettingsInv, Changing
  <2> QED  BY <2>1, <1>1, OrderedRest
<1>3. Reconciling(x) /\ Refreshed(x)
  <2>1. Head(x.do) = x.do[1] /\ 1 \in DOMAIN x.do
    BY <1>1, <1>2, EmptySeq, LenProperties DEF Ordered
  <2> QED  BY <2>1, <1>1 DEF Reconciling, Refreshed
<1>4. engine.force
  BY <1>1, <1>2, <1>3 DEF SettingsInv
<1>5. ~ Damped
  BY <1>4 DEF Damped
<1>6. calls'[c].op = "settings" /\ calls'[c].at = "wait"
  <2>1. CallShape(x) /\ calls = [d \in Callers |-> calls[d]]
    BY <1>0 DEF SpeakerInv, TypeInv
  <2> QED  BY <2>1 DEF Advanced, CallShape
<1>7. calls' # Failed(c)
  <2>1. CASE calls' = Failed(c)
    <3>1. calls' = [calls EXCEPT ![c] = Call("restore", Restoring, None, disk)]
      BY <2>1 DEF Failed, Stopped
    <3>2. Call("restore", Restoring, None, disk).op = "restore"
      BY DEF Call, Idle
    <3>3. calls = [d \in Callers |-> calls[d]]
      BY <1>0 DEF SpeakerInv, TypeInv
    <3> QED  BY <3>1, <3>2, <3>3, <1>6
  <2> QED  BY <2>1
<1>8. n \in Tables /\ routes = [m \in Tables |-> routes[m]]
  BY <1>0 DEF SpeakerInv, TypeInv, Settings, RouteInv
<1>9. CASE Compare(c)
  <2>1. holder' = None
    <3> SUFFICES ASSUME holder' # None PROVE FALSE
      OBVIOUS
    <3>1. PICK y : Within(c, y) /\ y.at \in {"replace", "remove"}
      BY <1>0, <1>9, Planning
    <3> QED  BY <3>1, <1>6 DEF Within, Replaced
  <2>2. holder = c /\ c # None
    BY <1>0, <1>1, <1>9, LinuxBackendAssumption DEF Compare, Stage, SpeakerInv, PlaceInv, PlaceAt, Locked, Callers
  <2>3. Undue /\ routes' = routes /\ x.at = "routes"
    BY <1>7, <1>9, <2>1, <2>2 DEF Compare, Released, kernel
  <2>4. CASE Current = Desired
    BY <2>3, <2>4 DEF Current, Aim
  <2>5. CASE Desired = NoRoute /\ Current.owner # "th"
    <3>1. Current.w = 0
      BY <1>0, <1>8, <2>5 DEF Current, RouteInv
    <3> QED  BY <2>3, <2>5, <3>1 DEF Current, Aim, NoRoute
  <2> QED  BY <1>5, <2>3, <2>4, <2>5 DEF Undue
<1>10. CASE Replace(c)
  <2>1. routes' = [routes EXCEPT ![n] = x.plan.route] /\ x.at = "replace"
    BY <1>7, <1>10 DEF Replace, Released
  <2>2. routes'[n] = x.plan.route
    BY <2>1, <1>8
  <2> QED  BY <2>1, <2>2 DEF Aim
<1>11. CASE Remove(c)
  <2>1. routes' = [routes EXCEPT ![n] = Cleared(@)] /\ x.at = "remove"
    BY <1>7, <1>11 DEF Remove, Released
  <2>2. routes'[n] = Cleared(routes[n]) /\ x.plan.route = NoRoute
    BY <2>1, <1>0, <1>8 DEF PlanInv, PlanAt
  <2>3. routes'[n].w = 0
    BY <2>2, <1>0, <1>8 DEF Cleared, NoRoute, RouteInv
  <2> QED  BY <2>1, <2>2, <2>3 DEF Aim, NoRoute
<1> QED  BY <1>9, <1>10, <1>11

PolicyInv == ForeignInv /\ SettingsInv

\* A change of the weighting policy that goes through is in the kernel,
\* whatever failed, vanished or was measured before (refreshSettings,
\* forceWeightRefresh, installRoutes).
THEOREM PolicyInstalledCorrect == Spec => PolicyInstalled
<1> DEFINE Installed ==
      \A c \in Callers :
        /\ Compare(c) \/ Replace(c) \/ Remove(c)
        /\ calls' = Advanced(c, FALSE)
        /\ calls[c].op = "settings" /\ calls[c].rec.policy # disk.policy /\ ~ torn
        => routes'[engine.settings.table].w = Aim(c).w
<1>1. Init => PolicyInv
  BY ForeignInit, SettingsInit DEF PolicyInv
<1>2. PolicyInv /\ [Next]_vars => PolicyInv'
  <2>1. ForeignInv => SpeakerInv
    BY DEF ForeignInv
  <2> QED  BY <2>1, ForeignStep, SettingsStep DEF PolicyInv
<1>3. PolicyInv /\ [Next]_vars => [Installed]_vars
  BY PolicyStep DEF PolicyInv
<1> QED  BY <1>1, <1>2, <1>3, PTL DEF Spec, PolicyInstalled
=============================================================================
