----------------------------- MODULE GatewayProofs -----------------------------
(***************************************************************************)
(* Safety theorems of Gateway, for any sessions, requests, scopes, values  *)
(* of ttl_secs and modes of sync and reflect.                              *)
(***************************************************************************)
EXTENDS Gateway, FiniteSetTheorems, TLAPS

-----------------------------------------------------------------------------
(* The table of operations *)

LEMMA EngineDomain ==
  DOMAIN Engine = DOMAIN EngineBranches \cup DOMAIN EngineBranchEnds
                  \cup DOMAIN EngineSync \cup DOMAIN EngineReflect
BY DEF Engine, ++

\* What authorizes nothing is no operation of the table.
LEMMA NotOfEngine ==
  \A o \in {"create_session", "revoke_session", "validate_session",
            "active_session_count", "health", "ready", "metrics"} : o \notin DOMAIN Engine
BY EngineDomain DEF EngineBranches, EngineBranchEnds, EngineSync, EngineReflect

\* An operation that emits an event changes something, and its event is no denial.
Announced(table) ==
  \A o \in DOMAIN table : table[o].event # None =>
    table[o].changes /\ table[o].event # "PolicyDenied"

LEMMA EventsOfChanges == Announced(Engine)
<1>1. Announced(EngineBranches)
  BY DEF Announced, EngineBranches, Operation, Read
<1>2. Announced(EngineBranchEnds)
  BY DEF Announced, EngineBranchEnds, Operation, Read
<1>3. Announced(EngineSync)
  BY DEF Announced, EngineSync, Operation, Read
<1>4. Announced(EngineReflect)
  BY DEF Announced, EngineReflect, Operation, Read
<1> QED
  BY <1>1, <1>2, <1>3, <1>4, EngineDomain DEF Announced, Engine, ++

\* What the three tables say of health and metrics.
LEMMA MetricsAreHttp ==
  /\ "health" \in DOMAIN Handler["grpc"] /\ "metrics" \notin DOMAIN Handler["grpc"]
  /\ \A p \in {"http", "metrics"} : "metrics" \in Public[p] /\ Handler[p]["metrics"] = {}
<1>1. DOMAIN Grpc =
        DOMAIN GrpcSessions \cup DOMAIN GrpcForks \cup DOMAIN GrpcBranchLookups \cup DOMAIN GrpcBranchEnds
        \cup DOMAIN GrpcDiffAndSync \cup DOMAIN GrpcSyncMoves \cup DOMAIN GrpcStatusAndReflect
        \cup DOMAIN GrpcReflectReads \cup DOMAIN GrpcContradictionsAndCount
  BY DEF Grpc, ++
<1>2. "health" \in DOMAIN Grpc /\ "metrics" \notin DOMAIN Grpc
  BY <1>1 DEF GrpcSessions, GrpcForks, GrpcBranchLookups, GrpcBranchEnds, GrpcDiffAndSync,
     GrpcSyncMoves, GrpcStatusAndReflect, GrpcReflectReads, GrpcContradictionsAndCount
<1>3. "metrics" \in DOMAIN HttpPublic /\ HttpPublic["metrics"] = {}
  BY DEF HttpPublic
<1>4. DOMAIN Http = DOMAIN HttpPublic \cup DOMAIN HttpSessions \cup DOMAIN HttpBranches
                    \cup DOMAIN HttpSync \cup DOMAIN HttpReflect
  BY DEF Http, ++
<1>5. Http["metrics"] = HttpPublic["metrics"]
  BY <1>3 DEF Http, ++
<1> QED
  BY <1>2, <1>3, <1>5 DEF Handler, Public, MetricsPort

\* Of two tables in one, the first says what it says.
LEMMA FirstTable ==
  ASSUME NEW f, NEW g, NEW x \in DOMAIN f
  PROVE  x \in DOMAIN (f ++ g) /\ (f ++ g)[x] = f[x]
BY DEF ++

\* The answer of a session that was created or revoked is always encoded.
LEMMA SessionsAreEncoded ==
  \A p \in DOMAIN Handler, o \in {"create_session", "revoke_session"} :
    o \in DOMAIN Handler[p] => "unencodable" \notin Handler[p][o]
<1>1. \A o \in {"create_session", "revoke_session"} :
        o \in DOMAIN GrpcSessions /\ "unencodable" \notin GrpcSessions[o]
  BY DEF GrpcSessions
<1>2. ASSUME NEW o \in {"create_session", "revoke_session"} PROVE Grpc[o] = GrpcSessions[o]
  <2> DEFINE f == GrpcSessions ++ GrpcForks ++ GrpcBranchLookups ++ GrpcBranchEnds
             g == f ++ GrpcDiffAndSync ++ GrpcSyncMoves ++ GrpcStatusAndReflect
  <2>1. o \in DOMAIN f /\ f[o] = GrpcSessions[o]
    BY <1>1, FirstTable
  <2>2. o \in DOMAIN g /\ g[o] = f[o]
    <3> HIDE DEF f
    <3> QED
      BY <2>1, FirstTable
  <2>3. Grpc = g ++ GrpcReflectReads ++ GrpcContradictionsAndCount
    BY DEF Grpc
  <2> HIDE DEF f, g
  <2> QED
    BY <2>1, <2>2, <2>3, FirstTable
<1>3. /\ "create_session" \in DOMAIN HttpPublic /\ "unencodable" \notin HttpPublic["create_session"]
      /\ "revoke_session" \notin DOMAIN HttpPublic
  BY DEF HttpPublic
<1>4. "revoke_session" \in DOMAIN HttpSessions /\ "unencodable" \notin HttpSessions["revoke_session"]
  BY DEF HttpSessions
<1>5. /\ Http["create_session"] = HttpPublic["create_session"]
      /\ Http["revoke_session"] = HttpSessions["revoke_session"]
  BY <1>3, <1>4 DEF Http, ++
<1>6. ASSUME NEW o \in {"create_session", "revoke_session"}
      PROVE  /\ "unencodable" \notin Handler["grpc"][o]
             /\ "unencodable" \notin Handler["http"][o]
             /\ o \notin DOMAIN Handler["metrics"]
  BY <1>1, <1>2, <1>3, <1>4, <1>5 DEF Handler, MetricsPort
<1> QED
  BY <1>6 DEF Handler

-----------------------------------------------------------------------------
(* The inductive invariant *)

Protocol == {"grpc", "http", "metrics"}

Shape ==
  /\ now \in Int
  /\ status \in [Session -> {"none", "active", "revoked"}]
  /\ expires \in [Session -> Int]
  /\ applied \subseteq Request
  /\ pc \in [Request -> Phase]
  /\ reply \in [Request -> Reply]
  /\ proto \in [Request -> Protocol]
  /\ op \in [Request -> Op \cup {"health"}]
  /\ caller \in [Request -> Session \cup {None}]
  /\ input \in [Request -> Ttl \cup Session \cup {None}]
  /\ late \in [Request -> BOOLEAN]

Early    == {"idle", "arrived", "known", "admitted", "authorized", "scraped", "rendering"}
Answered == {"answering", "observing", "measuring", "done"}

\* What is answered of a request, on its way out or gone, is what happened.
Told(r) ==
  /\ reply[r] \notin {"internal", "dropped"} =>
       (r \in applied <=> reply[r] = "ok" /\ Changes(op[r]))
  /\ reply[r] = "internal" /\ r \in applied => op[r] \in DOMAIN Engine
  /\ reply[r] = "denied" => <<r, "PolicyDenied">> \in events
  /\ reply[r] = "ok" /\ r \in applied /\ Kind(r) # None => <<r, Kind(r)>> \in events

\* The request of a session that has ended is stopped by the next check: at the
\* edge, or by authorize, which all that is past the edge has still to meet.
TurnedAway(r) ==
  /\ caller[r] \in Session /\ ~Live(caller[r]) /\ ~IsPublic(r)
  /\ pc[r] \in {"arrived", "known", "admitted", "answering", "observing", "measuring", "done"}
  /\ pc[r] \in {"known", "admitted"} => op[r] \in DOMAIN Engine
  /\ reply[r] \notin {"ok", "denied", "disabled"}
  /\ r \notin applied

\* Its session was there when authorize let it pass, and its scopes never change.
Entitled(r) == caller[r] \in Session /\ Allowed(caller[r], op[r])

\* What is known of a request where its handler is.
Sound(r) ==
  /\ pc[r] \in Early => r \notin applied /\ reply[r] = "none" /\ \A e \in events : e[1] # r
  /\ pc[r] \in {"scraped", "rendering"} => op[r] = "metrics"
  /\ pc[r] = "authorized" => op[r] \in DOMAIN Engine
  /\ pc[r] = "emitting" =>
       /\ \A e \in events : e[1] # r
       /\ \/ reply[r] = "ok" /\ r \in applied /\ Changes(op[r]) /\ Kind(r) # "PolicyDenied"
          \/ reply[r] = "denied" /\ r \notin applied
  /\ pc[r] \in Answered => Told(r)
  /\ \A e \in events : e[1] = r =>
       /\ e[2] # "PolicyDenied" <=> r \in applied
       /\ e[2] = "PolicyDenied" => reply[r] \in {"denied", "dropped"}
  /\ op[r] \in DOMAIN Engine /\ (pc[r] = "authorized" \/ r \in applied) => Entitled(r)
  /\ late[r] => TurnedAway(r)
  /\ pc[r] # "idle" =>
       /\ input[r] \in Input(op[r])
       /\ caller[r] # None =>
            caller[r] \in Session /\ status[caller[r]] # "none" /\ ~IsPublic(r)
  /\ op[r] \in DOMAIN Handler[proto[r]]

IInv == Shape /\ (\A e \in events : e[1] \in Request) /\ \A r \in Request : Sound(r)

-----------------------------------------------------------------------------
LEMMA LifetimeAtLeastOne == Shape => \A r \in Request :
  op[r] = "create_session" /\ input[r] \in Ttl \cup {None} => Lifetime(r) \in Int /\ Lifetime(r) >= 1
<1> SUFFICES ASSUME Shape, NEW r \in Request, input[r] \in Ttl \cup {None}
             PROVE  Lifetime(r) \in Int /\ Lifetime(r) >= 1
  OBVIOUS
<1>1. TtlBits \in Nat /\ TtlBits - 1 \in Nat
  BY TtlAssumption
<1>2. 2^TtlBits \in Int /\ 2^(TtlBits - 1) \in Int
  BY <1>1
<1>3. DefaultTtl \in Int /\ \A t \in Ttl : t \in Int
  BY <1>2, TtlAssumption
<1>4. \A t \in Ttl : Signed(t) \in Int
  BY <1>2, <1>3 DEF Signed
<1>5. Asks(r) \in Int
  BY <1>3, <1>4 DEF Asks
<1> QED
  BY <1>5 DEF Lifetime

LEMMA InitInvariant == Init => IInv
<1> SUFFICES ASSUME Init PROVE IInv
  OBVIOUS
<1>1. Shape
  BY SessionAssumption, ConfigAssumption DEF Init, Shape, Phase, Reply, Protocol
<1>2. \A r \in Request : Sound(r)
  BY MetricsAreHttp DEF Init, Sound, Early, Answered
<1> QED
  BY <1>1, <1>2 DEF IInv, Init

\* A request whose own part of the state does not change stays sound, as long
\* as no session comes back to life.
Unchanged(q) ==
  /\ pc'[q] = pc[q] /\ reply'[q] = reply[q]
  /\ proto'[q] = proto[q] /\ op'[q] = op[q] /\ caller'[q] = caller[q]
  /\ late'[q] => late[q] \/ (Unchecked(q) /\ ~Live(caller[q])')
  /\ input'[q] = input[q]
  /\ q \in applied' <=> q \in applied
  /\ \A e : e[1] = q => (e \in events' <=> e \in events)

Buried ==
  \A s \in Session : status[s] # "none" =>
    status'[s] # "none" /\ (~Live(s) => ~Live(s)')

LEMMA SoundStays ==
  ASSUME NEW q \in Request, Sound(q), Unchanged(q), Buried
  PROVE  Sound(q)'
<1>1. Kind(q)' = Kind(q)
  BY DEF Unchanged, Kind
<1>2. pc[q] \in Answered => Told(q)'
  BY <1>1 DEF Unchanged, Sound, Told, Changes, Absent
<1>3. ~IsPublic(q)' <=> ~IsPublic(q)
  BY DEF Unchanged, IsPublic
<1>4. ASSUME late[q] PROVE TurnedAway(q)'
  <2>1. TurnedAway(q) /\ status[caller[q]] # "none" /\ ~Live(caller[q])'
    BY <1>4, SessionAssumption DEF Unchanged, Sound, TurnedAway, Buried
  <2> QED
    BY <1>3, <2>1 DEF Unchanged, TurnedAway
<1>5. ASSUME Unchecked(q), ~Live(caller[q])' PROVE TurnedAway(q)'
  BY <1>3, <1>5 DEF Unchanged, Sound, Unchecked, TurnedAway, Early
<1>6. late'[q] => TurnedAway(q)'
  BY <1>4, <1>5 DEF Unchanged
<1>7. pc'[q] # "idle" /\ caller'[q] # None =>
        caller'[q] \in Session /\ status'[caller'[q]] # "none" /\ ~IsPublic(q)'
  BY <1>3 DEF Unchanged, Sound, Buried
<1> QED
  BY <1>1, <1>2, <1>6, <1>7 DEF Unchanged, Sound, Changes, Absent, Entitled

-----------------------------------------------------------------------------
(* Steps that change nothing but where a handler is and what it answers *)

LEMMA QuietStep ==
  ASSUME IInv, NEW r \in Request, NEW p \in Phase, NEW h \in Reply,
         pc' = [pc EXCEPT ![r] = p], reply' = [reply EXCEPT ![r] = h],
         UNCHANGED <<guardVars, effectVars, callVars, late>>, Sound(r)'
  PROVE  IInv'
<1> USE DEF guardVars, effectVars, callVars
<1>1. Shape'
  BY DEF IInv, Shape
<1>2. Buried
  BY DEF Buried, Live
<1>3. \A q \in Request \ {r} : Unchanged(q)
  BY DEF IInv, Shape, Unchanged
<1>4. \A q \in Request \ {r} : Sound(q)'
  BY <1>2, <1>3, SoundStays DEF IInv
<1> QED
  BY <1>1, <1>4 DEF IInv

\* The handler goes on, and has no answer yet.
LEMMA OnStep ==
  ASSUME IInv, NEW r \in Request, NEW p \in Early \ {"idle", "arrived"},
         pc[r] \in Early \ {"idle"}, Goto(r, p),
         late[r] => p \in {"known", "admitted"} /\ op[r] \in DOMAIN Engine,
         p \in {"scraped", "rendering"} => op[r] = "metrics",
         p = "authorized" => op[r] \in DOMAIN Engine /\ Entitled(r),
         UNCHANGED <<guardVars, effectVars, callVars, late>>
  PROVE  IInv'
<1> USE DEF guardVars, effectVars, callVars
<1>1. pc'[r] = p /\ p \in Phase /\ reply[r] \in Reply /\ reply' = [reply EXCEPT ![r] = reply[r]]
  BY DEF Goto, IInv, Shape, Early, Phase
<1>2. p \notin Answered /\ p # "emitting"
  BY DEF Early, Answered
<1>3. late[r] => TurnedAway(r)'
  BY <1>1 DEF IInv, Sound, TurnedAway, IsPublic, Live
<1>4. pc[r] \in Early /\ pc[r] # "idle" /\ reply'[r] = reply[r]
  BY <1>1 DEF Goto
<1>5. Sound(r)'
  BY <1>1, <1>2, <1>3, <1>4 DEF IInv, Sound, Entitled, IsPublic
<1> QED
  BY <1>1, <1>5, QuietStep DEF Goto

\* The handler has refused, or done nothing that changes anything.
LEMMA EmptyHanded ==
  ASSUME IInv, NEW r \in Request, NEW p \in Answered, NEW h \in Reply \ {"denied"},
         pc[r] \in Early \ {"idle"}, pc' = [pc EXCEPT ![r] = p], reply' = [reply EXCEPT ![r] = h],
         h = "ok" => ~Changes(op[r]),
         late[r] => h \notin {"ok", "disabled"},
         UNCHANGED <<guardVars, effectVars, callVars, late>>
  PROVE  IInv'
<1> USE DEF guardVars, effectVars, callVars
<1>1. pc'[r] = p /\ p \in Phase /\ reply'[r] = h /\ r \notin applied
  BY DEF IInv, Shape, Answered, Phase, Sound
<1>2. Told(r)'
  BY <1>1 DEF Told, Changes, Absent
<1>3. late[r] => TurnedAway(r)'
  BY <1>1 DEF IInv, Sound, TurnedAway, IsPublic, Live, Answered
<1>4. p \notin Early /\ p \notin {"scraped", "rendering", "authorized", "emitting", "idle"}
  BY DEF Early, Answered
<1>5. Sound(r)'
  BY <1>1, <1>2, <1>3, <1>4 DEF IInv, Sound, IsPublic, Entitled
<1> QED
  BY <1>1, <1>5, QuietStep

-----------------------------------------------------------------------------
(* Every action preserves the invariant *)

\* Where a handler that has its answer goes.
Leaves(r) == IF proto[r] = "http" THEN "observing" ELSE "done"

\* Past the edge only what authorizes can still be too late.
LEMMA LateIsTurnedAway ==
  ASSUME IInv, NEW r \in Request, late[r]
  PROVE  /\ TurnedAway(r)
         /\ pc[r] \notin {"authorized", "emitting", "scraped", "rendering"}
         /\ pc[r] \in {"known", "admitted"} => op[r] \in DOMAIN Engine
BY DEF IInv, Sound, TurnedAway

\* The sessions that have ended by now are too late.
LEMMA Overtaken ==
  ASSUME Shape, NEW ended, Overtakes(ended), NEW q \in Request, late'[q]
  PROVE  late[q] \/ (Unchecked(q) /\ caller[q] \in ended)
BY DEF Overtakes

LEMMA TickPreserves == IInv /\ Tick => IInv'
<1> SUFFICES ASSUME IInv, Tick PROVE IInv'
  OBVIOUS
<1> USE DEF Tick, effectVars, callVars, pageVars
<1>1. Shape'
  BY DEF IInv, Shape, Overtakes
<1>2. Buried
  BY DEF IInv, Shape, Buried, Live
<1>3. ASSUME NEW q \in Request PROVE Sound(q)'
  <2>1. ASSUME late'[q] PROVE late[q] \/ (Unchecked(q) /\ ~Live(caller[q])')
    <3>1. late[q] \/ (Unchecked(q) /\ caller[q] \in {s \in Session : expires[s] <= now + 1})
      BY <2>1, Overtaken DEF IInv
    <3> QED
      BY <3>1 DEF IInv, Shape, Live
  <2>2. Unchanged(q)
    BY <2>1 DEF Unchanged
  <2> QED
    BY <1>2, <2>2, SoundStays DEF IInv
<1> QED
  BY <1>1, <1>3 DEF IInv

LEMMA AuthenticatePreserves ==
  ASSUME IInv, NEW r \in Request, Authenticate(r) PROVE IInv'
<1>1. pc[r] = "arrived" /\ pc[r] \in Early
  BY DEF Authenticate, Early
<1>2. UNCHANGED <<guardVars, effectVars, callVars, late>>
  BY DEF Authenticate
<1>3. CASE (IsPublic(r) \/ Live(caller[r])) /\ Goto(r, "known")
  <2>1. ~late[r]
    BY <1>3, LateIsTurnedAway DEF TurnedAway
  <2> QED
    BY <1>1, <1>2, <1>3, <2>1, OnStep DEF Early
<1>4. CASE Answer(r, "unauthorized")
  <2>1. Leaves(r) \in Answered /\ "unauthorized" \in Reply \ {"denied"}
    BY DEF Leaves, Answered, Reply
  <2> QED
    BY <1>1, <1>2, <1>4, <2>1, EmptyHanded DEF Answer, Leaves
<1> QED
  BY <1>3, <1>4 DEF Authenticate

LEMMA RateLimitPreserves ==
  ASSUME IInv, NEW r \in Request, RateLimit(r) PROVE IInv'
<1>1. /\ pc' = [pc EXCEPT ![r] = Leaves(r)] /\ reply' = [reply EXCEPT ![r] = "limited"]
      /\ UNCHANGED <<guardVars, effectVars, callVars, late>> /\ pc[r] \in Early \ {"idle"}
  BY DEF RateLimit, Answer, Leaves, Early
<1>2. Leaves(r) \in Answered
  BY DEF Leaves, Answered
<1>3. "limited" \in Reply \ {"denied"}
  BY DEF Reply
<1> QED
  BY <1>1, <1>2, <1>3, EmptyHanded

LEMMA ReadInputPreserves ==
  ASSUME IInv, NEW r \in Request, ReadInput(r) PROVE IInv'
<1>1. /\ pc[r] = "known" /\ pc[r] \in Early
      /\ late[r] => op[r] \in DOMAIN Engine
      /\ UNCHANGED <<guardVars, effectVars, callVars, late>>
  BY LateIsTurnedAway DEF ReadInput, Early
<1>2. CASE Goto(r, "admitted")
  BY <1>1, <1>2, OnStep DEF Early
<1>3. CASE Answer(r, "invalid")
  <2>1. Leaves(r) \in Answered
    BY DEF Leaves, Answered
  <2>2. "invalid" \in Reply \ {"denied"}
    BY DEF Reply
  <2> QED
    BY <1>1, <1>3, <2>1, <2>2, EmptyHanded DEF Answer, Leaves
<1> QED
  BY <1>2, <1>3 DEF ReadInput

\* A handler that has its answer keeps it, or makes an error of a good one.
LEMMA Outbound ==
  ASSUME IInv, NEW r \in Request, NEW p \in {"observing", "measuring", "done"}, NEW h \in Reply,
         pc[r] \in Answered, pc' = [pc EXCEPT ![r] = p], reply' = [reply EXCEPT ![r] = h],
         \/ h = reply[r]
         \/ h = "internal" /\ reply[r] = "ok" /\ MayBe(r, "unencodable"),
         UNCHANGED <<guardVars, effectVars, callVars, late>>
  PROVE  IInv'
<1> USE DEF guardVars, effectVars, callVars
<1>1. pc'[r] = p /\ reply'[r] = h /\ p \in Phase /\ p \in Answered
  BY DEF IInv, Shape, Answered, Phase
<1>2. p \notin Early /\ p \notin {"scraped", "rendering", "authorized", "emitting"}
      /\ pc[r] # "idle"
  BY DEF Early, Answered
<1>3. MayBe(r, "unencodable") => op[r] \notin {"create_session", "revoke_session"}
  BY SessionsAreEncoded DEF MayBe, IInv, Shape, Sound, Handler, Protocol
<1>4. Told(r)'
  BY <1>1, <1>3 DEF IInv, Sound, Told, Changes, Absent, Kind
<1>5. late[r] => TurnedAway(r)'
  BY <1>1 DEF IInv, Sound, TurnedAway, IsPublic, Live
<1>6. Sound(r)'
  BY <1>1, <1>2, <1>4, <1>5 DEF IInv, Sound, Entitled, IsPublic
<1> QED
  BY <1>1, <1>6, QuietStep

LEMMA EncodePreserves ==
  ASSUME IInv, NEW r \in Request, Encode(r) PROVE IInv'
<1>1. pc[r] \in Answered /\ UNCHANGED <<guardVars, effectVars, callVars, late>>
  BY DEF Encode, Answered
<1>2. Leaves(r) \in {"observing", "measuring", "done"}
  BY DEF Leaves
<1>3. reply[r] \in Reply /\ "internal" \in Reply
  BY DEF IInv, Shape, Reply
<1>4. CASE Answer(r, reply[r])
  BY <1>1, <1>2, <1>3, <1>4, Outbound DEF Answer, Leaves
<1>5. CASE reply[r] = "ok" /\ MayBe(r, "unencodable") /\ Answer(r, "internal")
  BY <1>1, <1>2, <1>3, <1>5, Outbound DEF Answer, Leaves
<1> QED
  BY <1>4, <1>5 DEF Encode

LEMMA ObservePreserves ==
  ASSUME IInv, NEW r \in Request, Observe(r) \/ Measure(r) PROVE IInv'
<1>1. pc[r] \in Answered /\ UNCHANGED <<guardVars, effectVars, callVars, late>>
  BY DEF Observe, Measure, Answered
<1>2. PICK p \in {"measuring", "done"} : Goto(r, p)
  BY DEF Observe, Measure
<1>3. reply[r] \in Reply /\ reply' = [reply EXCEPT ![r] = reply[r]]
  BY <1>2 DEF IInv, Shape, Goto
<1> QED
  BY <1>1, <1>2, <1>3, Outbound DEF Goto

LEMMA DisconnectPreserves ==
  ASSUME IInv, NEW r \in Request, Disconnect(r) PROVE IInv'
<1> USE DEF guardVars, effectVars, callVars
<1>1. /\ pc' = [pc EXCEPT ![r] = "done"] /\ reply' = [reply EXCEPT ![r] = "dropped"]
      /\ UNCHANGED <<guardVars, effectVars, callVars, late>>
      /\ pc[r] # "idle" /\ "done" \in Phase /\ "dropped" \in Reply
  BY DEF Disconnect, InFlight, Phase, Reply
<1>2. pc'[r] = "done" /\ reply'[r] = "dropped"
  BY <1>1 DEF IInv, Shape
<1>3. late[r] => TurnedAway(r)'
  BY <1>1, <1>2, LateIsTurnedAway DEF TurnedAway, IsPublic, Live
<1>4. Told(r)'
  BY <1>1, <1>2 DEF Told
<1>5. Sound(r)'
  BY <1>1, <1>2, <1>3, <1>4 DEF IInv, Sound, Early, Entitled, IsPublic
<1> QED
  BY <1>1, <1>5, QuietStep

\* The operation had nothing to change, or there was no engine to change it.
LEMMA ResultPreserves ==
  ASSUME IInv, NEW r \in Request, NEW h \in Reply \ {"denied"}, Result(r, h),
         pc[r] \in {"admitted", "rendering", "authorized"}, h = "ok" => ~Changes(op[r]),
         pc[r] = "admitted" => op[r] \notin DOMAIN Engine \/ h \in {"unauthorized", "internal"},
         UNCHANGED <<guardVars, effectVars, callVars, late>>
  PROVE  IInv'
<1>1. pc[r] \in Early /\ pc[r] # "idle" /\ "answering" \in Answered
  BY DEF Early, Answered
<1>2. late[r] => h \notin {"ok", "disabled"}
  BY LateIsTurnedAway
<1> QED
  BY <1>1, <1>2, EmptyHanded DEF Result

LEMMA ReadOnlyPreserves ==
  ASSUME IInv, NEW r \in Request, Whoami(r) \/ CountSessions(r) \/ Health(r) \/ Render(r)
  PROVE  IInv'
<1>1. /\ op[r] \in {"validate_session", "active_session_count", "health", "ready", "metrics"}
      /\ pc[r] \in {"admitted", "rendering"}
      /\ UNCHANGED <<guardVars, effectVars, callVars, late>>
  BY DEF Whoami, CountSessions, Health, Render, Asked, IInv, Sound, pageVars
<1>2. ~Changes(op[r]) /\ op[r] \notin DOMAIN Engine
  BY <1>1, NotOfEngine DEF Changes
<1>3. PICK h \in {"ok", "internal", "unhealthy"} : Result(r, h)
  BY DEF Whoami, CountSessions, Health, Render
<1>4. h \in Reply \ {"denied"}
  BY DEF Reply
<1> QED
  BY <1>1, <1>2, <1>3, <1>4, ResultPreserves

LEMMA ScrapePreserves ==
  ASSUME IInv, NEW r \in Request, Scrape(r) \/ ScrapeSet(r) PROVE IInv'
<1>1. /\ op[r] = "metrics" /\ pc[r] \in {"admitted", "scraped"}
      /\ UNCHANGED <<guardVars, effectVars, callVars, late>>
  BY DEF Scrape, ScrapeSet, Asked, IInv, Sound, pageVars
<1>2. PICK p \in {"scraped", "rendering"} : Goto(r, p)
  BY DEF Scrape, ScrapeSet
<1>3. pc[r] \in Early /\ ~late[r] /\ p \in Early \ {"idle", "arrived"}
  BY <1>1, LateIsTurnedAway, NotOfEngine DEF Early
<1> QED
  BY <1>1, <1>2, <1>3, OnStep

LEMMA AuthorizePreserves ==
  ASSUME IInv, NEW r \in Request, Authorize(r) PROVE IInv'
<1> USE DEF guardVars, effectVars, callVars
<1>1. /\ pc[r] = "admitted" /\ pc[r] \in Early /\ op[r] \in DOMAIN Engine
      /\ UNCHANGED <<guardVars, effectVars, callVars, late>>
  BY DEF Authorize, Early
<1>2. Valid(caller[r]) => ~late[r] /\ caller[r] \in Session
  BY LateIsTurnedAway DEF Valid, TurnedAway, Live
<1>3. CASE Result(r, "unauthorized") \/ Result(r, "internal")
  <2>1. "unauthorized" \in Reply \ {"denied"} /\ "internal" \in Reply \ {"denied"}
    BY DEF Reply
  <2> QED
    BY <1>1, <1>3, <2>1, ResultPreserves
<1>4. CASE Valid(caller[r]) /\ Allowed(caller[r], op[r]) /\ Goto(r, "authorized")
  BY <1>1, <1>2, <1>4, OnStep DEF Early, Entitled
<1>5. CASE Valid(caller[r]) /\ Denies(r)
  <2>1. pc'[r] = "emitting" /\ reply'[r] = "denied" /\ "emitting" \in Phase /\ "denied" \in Reply
    BY <1>5 DEF Denies, IInv, Shape, Phase, Reply
  <2>2. Sound(r)'
    BY <1>1, <1>2, <1>5, <2>1 DEF IInv, Sound, Early, Answered, IsPublic
  <2> QED
    BY <1>1, <1>5, <2>1, <2>2, QuietStep DEF Denies
<1> QED
  BY <1>3, <1>4, <1>5 DEF Authorize

LEMMA WithoutEnginePreserves ==
  ASSUME IInv, NEW r \in Request, WithoutEngine(r) PROVE IInv'
<1>1. /\ pc[r] = "authorized" /\ op[r] \in DOMAIN Engine /\ Absent(op[r])
      /\ UNCHANGED <<guardVars, effectVars, callVars, late>>
  BY DEF WithoutEngine, IInv, Sound
<1>2. ~Changes(op[r])
  BY <1>1 DEF Changes
<1>3. PICK h \in {"ok", "disabled"} : Result(r, h)
  BY DEF WithoutEngine
<1>4. h \in Reply \ {"denied"}
  BY DEF Reply
<1> QED
  BY <1>1, <1>2, <1>3, <1>4, ResultPreserves

\* A step of one request leaves the others sound.
LEMMA OwnStep ==
  ASSUME IInv, NEW r \in Request, Shape', Buried, Sound(r)',
         \A q \in Request \ {r} : Unchanged(q), \A e \in events' : e[1] \in Request
  PROVE  IInv'
<1>1. \A q \in Request \ {r} : Sound(q)'
  BY SoundStays DEF IInv
<1> QED
  BY <1>1 DEF IInv

LEMMA CreateSessionPreserves ==
  ASSUME IInv, NEW r \in Request, CreateSession(r) PROVE IInv'
<1> USE DEF effectVars, callVars, pageVars
<1>1. /\ pc[r] = "admitted" /\ pc[r] \in Early /\ op[r] = "create_session"
      /\ UNCHANGED <<now, events, callVars, late>>
  BY DEF CreateSession, Asked, Early
<1>2. op[r] \notin DOMAIN Engine /\ ~late[r]
  BY <1>1, NotOfEngine, LateIsTurnedAway
<1>3. ASSUME NEW s \in Session, status[s] = "none",
             status' = [status EXCEPT ![s] = "active"],
             expires' = [expires EXCEPT ![s] = now + TicksPerSecond * Lifetime(r)],
             applied' = applied \cup {r},
             pc' = [pc EXCEPT ![r] = "emitting"], reply' = [reply EXCEPT ![r] = "ok"]
      PROVE  IInv'
  <2>1. input[r] \in Ttl \cup {None}
    BY <1>1 DEF IInv, Sound, Input
  <2>2. Lifetime(r) \in Int
    BY <1>1, <2>1, LifetimeAtLeastOne DEF IInv
  <2>3. now + TicksPerSecond * Lifetime(r) \in Int
    BY <2>2 DEF IInv, Shape, TicksPerSecond
  <2>4. pc'[r] = "emitting" /\ reply'[r] = "ok" /\ "emitting" \in Phase /\ "ok" \in Reply
    BY <1>3 DEF IInv, Shape, Phase, Reply
  <2>5. Shape'
    BY <1>1, <1>3, <2>3, <2>4 DEF IInv, Shape
  <2>6. Buried
    BY <1>1, <1>3 DEF IInv, Shape, Buried, Live
  <2>7. \A q \in Request \ {r} : Unchanged(q)
    BY <1>1, <1>3 DEF IInv, Shape, Unchanged
  <2>8. Kind(r)' = "SessionCreated" /\ Changes(op[r])'
    BY <1>1, <1>2, <2>4 DEF Kind, Changes
  <2>9. Sound(r)'
    BY <1>1, <1>2, <1>3, <2>4, <2>6, <2>8 DEF IInv, Sound, Early, Answered, IsPublic, Buried
  <2> QED
    BY <1>1, <2>5, <2>6, <2>7, <2>9, OwnStep DEF IInv
<1>4. ASSUME Result(r, "internal"), UNCHANGED <<status, expires, applied>>
      PROVE  IInv'
  <2>1. "internal" \in Reply \ {"denied"}
    BY DEF Reply
  <2> QED
    BY <1>1, <1>2, <1>4, <2>1, ResultPreserves DEF guardVars
<1> QED
  BY <1>3, <1>4 DEF CreateSession

LEMMA RevokeSessionPreserves ==
  ASSUME IInv, NEW r \in Request, RevokeSession(r) PROVE IInv'
<1> USE DEF effectVars, callVars, pageVars
<1>1. /\ pc[r] = "admitted" /\ pc[r] \in Early /\ op[r] = "revoke_session"
      /\ UNCHANGED <<now, expires, events, callVars>>
  BY DEF RevokeSession, Asked, Early
<1>2. op[r] \notin DOMAIN Engine /\ ~late[r]
  BY <1>1, NotOfEngine, LateIsTurnedAway
<1>3. ASSUME status[input[r]] # "none", status' = [status EXCEPT ![input[r]] = "revoked"],
             Overtakes({input[r]}), applied' = applied \cup {r}, Result(r, "ok")
      PROVE  IInv'
  <2>1. input[r] \in Session
    BY <1>1 DEF IInv, Sound, Input
  <2>2. pc'[r] = "answering" /\ reply'[r] = "ok" /\ "answering" \in Phase /\ "ok" \in Reply
    BY <1>3 DEF IInv, Shape, Phase, Reply, Result
  <2>3. Shape'
    BY <1>1, <1>3, <2>1, <2>2 DEF IInv, Shape, Result, Overtakes
  <2>4. Buried /\ ~Live(input[r])'
    BY <1>1, <1>3, <2>1 DEF IInv, Shape, Buried, Live
  <2>5. ASSUME NEW q \in Request \ {r} PROVE Unchanged(q)
    <3>1. late'[q] => late[q] \/ (Unchecked(q) /\ ~Live(caller[q])')
      BY <1>1, <1>3, <2>4, Overtaken DEF IInv
    <3>2. pc'[q] = pc[q] /\ reply'[q] = reply[q]
      BY <1>3 DEF IInv, Shape, Result
    <3> QED
      BY <1>1, <1>3, <3>1, <3>2 DEF IInv, Unchanged
  <2>6. ~late'[r]
    BY <1>1, <1>2, <1>3, Overtaken DEF IInv, Unchecked
  <2>7. Kind(r)' = None /\ Changes(op[r])'
    BY <1>1, <1>2, <2>2 DEF Kind, Changes
  <2>8. Told(r)'
    BY <1>1, <1>3, <2>2, <2>7 DEF Told
  <2>9. Sound(r)'
    BY <1>1, <1>2, <1>3, <2>2, <2>4, <2>6, <2>8 DEF IInv, Sound, Early, Answered, IsPublic, Buried
  <2> QED
    BY <1>1, <2>3, <2>4, <2>5, <2>9, OwnStep DEF IInv
<1>4. ASSUME Result(r, "internal"), UNCHANGED <<status, late, applied>>
      PROVE  IInv'
  <2>1. "internal" \in Reply \ {"denied"}
    BY DEF Reply
  <2> QED
    BY <1>1, <1>2, <1>4, <2>1, ResultPreserves DEF guardVars
<1> QED
  BY <1>3, <1>4 DEF RevokeSession

LEMMA CallPreserves ==
  ASSUME IInv, NEW r \in Request, Call(r) PROVE IInv'
<1> USE DEF guardVars, callVars
<1>1. /\ pc[r] = "authorized" /\ pc[r] \in Early /\ ~Absent(op[r]) /\ ~late[r]
      /\ op[r] \in DOMAIN Engine
      /\ UNCHANGED <<guardVars, events, callVars, late>>
  BY LateIsTurnedAway DEF Call, Early, IInv, Sound
<1>2. op[r] # "create_session"
  BY <1>1, NotOfEngine
<1>3. applied' = IF Engine[op[r]].changes THEN applied \cup {r} ELSE applied
  BY DEF Call
<1>4. PICK p \in {"answering", "emitting"} :
        /\ pc' = [pc EXCEPT ![r] = p] /\ reply' = [reply EXCEPT ![r] = "ok"]
        /\ p = "answering" <=> Engine[op[r]].event = None
  <2>1. CASE Engine[op[r]].event = None
    BY <2>1 DEF Call, Result
  <2>2. CASE Engine[op[r]].event # None
    BY <2>2 DEF Call
  <2> QED
    BY <2>1, <2>2
<1>5. pc'[r] = p /\ reply'[r] = "ok" /\ p \in Phase /\ "ok" \in Reply
  BY <1>4 DEF IInv, Shape, Phase, Reply
<1>6. Shape'
  BY <1>1, <1>3, <1>4, <1>5 DEF IInv, Shape
<1>7. Buried
  BY <1>1 DEF Buried, Live
<1>8. \A q \in Request \ {r} : Unchanged(q)
  BY <1>1, <1>3, <1>4 DEF IInv, Shape, Unchanged
<1>9. Kind(r)' = Engine[op[r]].event
  BY <1>1, <1>2, <1>5 DEF Kind
<1>10. Changes(op[r])' <=> Engine[op[r]].changes
  BY <1>1 DEF Changes, Absent
<1>11. r \notin applied /\ (r \in applied' <=> Engine[op[r]].changes)
  BY <1>1, <1>3 DEF IInv, Sound
<1>12. CASE p = "answering"
  <2>1. Told(r)'
    BY <1>4, <1>5, <1>9, <1>10, <1>11, <1>12 DEF Told
  <2>2. Sound(r)'
    BY <1>1, <1>5, <1>12, <2>1 DEF IInv, Sound, Early, Answered, Entitled, IsPublic
  <2> QED
    BY <1>1, <1>6, <1>7, <1>8, <2>2, OwnStep DEF IInv
<1>13. CASE p = "emitting"
  <2>1. Engine[op[r]].changes /\ Kind(r)' # "PolicyDenied"
    BY <1>1, <1>4, <1>9, <1>13, EventsOfChanges DEF Announced
  <2>2. Sound(r)'
    BY <1>1, <1>5, <1>10, <1>11, <1>13, <2>1 DEF IInv, Sound, Early, Answered, Entitled, IsPublic
  <2> QED
    BY <1>1, <1>6, <1>7, <1>8, <2>2, OwnStep DEF IInv
<1> QED
  BY <1>12, <1>13

LEMMA CallErrorPreserves ==
  ASSUME IInv, NEW r \in Request, CallError(r) PROVE IInv'
<1> USE DEF guardVars, callVars
<1>1. /\ pc[r] = "authorized" /\ pc[r] \in Early /\ ~late[r] /\ op[r] \in DOMAIN Engine
      /\ UNCHANGED <<guardVars, events, callVars, late>>
      /\ applied' \in {applied, applied \cup {r}}
      /\ pc' = [pc EXCEPT ![r] = "answering"] /\ reply' = [reply EXCEPT ![r] = "internal"]
  BY LateIsTurnedAway DEF CallError, Result, Early, IInv, Sound
<1>2. pc'[r] = "answering" /\ reply'[r] = "internal" /\ "answering" \in Phase /\ "internal" \in Reply
  BY <1>1 DEF IInv, Shape, Phase, Reply
<1>3. Shape'
  BY <1>1, <1>2 DEF IInv, Shape
<1>4. Buried
  BY <1>1 DEF Buried, Live
<1>5. \A q \in Request \ {r} : Unchanged(q)
  BY <1>1 DEF IInv, Shape, Unchanged
<1>6. Told(r)'
  BY <1>1, <1>2 DEF Told
<1>7. Sound(r)'
  BY <1>1, <1>2, <1>6 DEF IInv, Sound, Early, Answered, Entitled, IsPublic
<1> QED
  BY <1>1, <1>3, <1>4, <1>5, <1>7, OwnStep DEF IInv

LEMMA EmitPreserves ==
  ASSUME IInv, NEW r \in Request, Emit(r) PROVE IInv'
<1> USE DEF guardVars, callVars
<1>1. /\ pc[r] = "emitting" /\ ~late[r] /\ "answering" \in Phase
      /\ UNCHANGED <<guardVars, applied, callVars, late, reply>>
      /\ events' = events \cup {<<r, Kind(r)>>}
      /\ pc' = [pc EXCEPT ![r] = "answering"]
  BY LateIsTurnedAway DEF Emit, Goto, Phase
<1>2. pc'[r] = "answering" /\ Kind(r)' = Kind(r)
  BY <1>1 DEF IInv, Shape, Kind
<1>3. Shape'
  BY <1>1 DEF IInv, Shape
<1>4. Buried
  BY <1>1 DEF Buried, Live
<1>5. \A q \in Request \ {r} : Unchanged(q)
  BY <1>1 DEF IInv, Shape, Unchanged
<1>6. /\ \A e \in events : e[1] # r
      /\ \/ reply[r] = "ok" /\ r \in applied /\ Changes(op[r]) /\ Kind(r) # "PolicyDenied"
         \/ reply[r] = "denied" /\ r \notin applied /\ Kind(r) = "PolicyDenied"
  BY <1>1 DEF IInv, Sound, Kind
<1>7. Told(r)'
  BY <1>1, <1>2, <1>6 DEF Told, Changes, Absent
<1>8. \A e \in events' : e[1] = r => e[2] = Kind(r)
  BY <1>1, <1>6
<1>9. Sound(r)'
  BY <1>1, <1>2, <1>6, <1>7, <1>8 DEF IInv, Sound, Early, Answered, Entitled, IsPublic
<1> QED
  BY <1>1, <1>3, <1>4, <1>5, <1>9, OwnStep DEF IInv

LEMMA ArrivePreserves ==
  ASSUME IInv, NEW r \in Request, Arrive(r) PROVE IInv'
<1> USE DEF guardVars, effectVars
<1>1. PICK p \in DOMAIN Handler, o \in Op, s \in Session \cup {None} :
        \E i \in Input(o) :
          /\ o \in DOMAIN Handler[p]
          /\ o \in Public[p] <=> s = None
          /\ s # None => status[s] # "none"
          /\ input' = [input EXCEPT ![r] = i]
          /\ proto' = [proto EXCEPT ![r] = p]
          /\ op' = [op EXCEPT ![r] = o]
          /\ caller' = [caller EXCEPT ![r] = s]
          /\ late' = [late EXCEPT ![r] = s # None /\ ~Live(s)]
  BY DEF Arrive
<1>2. PICK i \in Input(o) : input' = [input EXCEPT ![r] = i]
  BY <1>1
<1>3. /\ pc[r] = "idle" /\ pc[r] \in Early
      /\ pc' = [pc EXCEPT ![r] = "arrived"] /\ "arrived" \in Phase
      /\ UNCHANGED <<guardVars, effectVars, reply>>
  BY DEF Arrive, Goto, Early, Phase
<1>4. p \in Protocol /\ i \in Ttl \cup Session \cup {None}
  BY <1>2 DEF Handler, Protocol, Input
<1>5. Shape'
  BY <1>1, <1>2, <1>3, <1>4 DEF IInv, Shape
<1>6. Buried
  BY <1>3 DEF Buried, Live
<1>7. \A q \in Request \ {r} : Unchanged(q)
  BY <1>1, <1>2, <1>3 DEF IInv, Shape, Unchanged, Protocol
<1>8. /\ pc'[r] = "arrived" /\ op'[r] = o /\ input'[r] = i /\ caller'[r] = s /\ proto'[r] = p
      /\ late'[r] <=> s # None /\ ~Live(s)
  BY <1>1, <1>2, <1>3 DEF IInv, Shape
<1>9. r \notin applied /\ reply[r] = "none" /\ \A e \in events : e[1] # r
  BY <1>3 DEF IInv, Sound
<1>10. late'[r] => TurnedAway(r)'
  BY <1>1, <1>2, <1>3, <1>8, <1>9 DEF TurnedAway, IsPublic, Live
<1>11. Sound(r)'
  BY <1>1, <1>2, <1>3, <1>8, <1>9, <1>10 DEF Sound, Early, Answered, IsPublic
<1> QED
  BY <1>3, <1>5, <1>6, <1>7, <1>11, OwnStep DEF IInv

-----------------------------------------------------------------------------
(* Theorems *)

LEMMA StepInvariant == IInv /\ [Next]_vars => IInv'
<1> SUFFICES ASSUME IInv, [Next]_vars PROVE IInv'
  OBVIOUS
<1>1. CASE Tick
  BY <1>1, TickPreserves
<1>2. ASSUME NEW r \in Request, Arrive(r) \/ RateLimit(r) \/ Disconnect(r) PROVE IInv'
  BY <1>2, ArrivePreserves, RateLimitPreserves, DisconnectPreserves
<1>3. ASSUME NEW r \in Request, Handle(r) PROVE IInv'
  <2>1. CASE Authenticate(r) \/ ReadInput(r) \/ Encode(r) \/ Observe(r) \/ Measure(r)
    BY <2>1, AuthenticatePreserves, ReadInputPreserves, EncodePreserves, ObservePreserves
  <2>2. CASE Whoami(r) \/ CountSessions(r) \/ Health(r) \/ Render(r) \/ Scrape(r) \/ ScrapeSet(r)
    BY <2>2, ReadOnlyPreserves, ScrapePreserves
  <2>3. CASE CreateSession(r) \/ RevokeSession(r)
    BY <2>3, CreateSessionPreserves, RevokeSessionPreserves
  <2>4. CASE Authorize(r) \/ WithoutEngine(r) \/ Call(r) \/ CallError(r) \/ Emit(r)
    BY <2>4, AuthorizePreserves, WithoutEnginePreserves, CallPreserves, CallErrorPreserves,
       EmitPreserves
  <2> QED
    BY <1>3, <2>1, <2>2, <2>3, <2>4 DEF Handle
<1>4. CASE UNCHANGED vars
  <2> USE <1>4 DEF vars, guardVars, effectVars, callVars
  <2>1. Shape'
    BY DEF IInv, Shape
  <2>2. Buried /\ \A q \in Request : Unchanged(q)
    BY DEF Buried, Unchanged, Live
  <2>3. \A q \in Request : Sound(q)'
    BY <2>2, SoundStays DEF IInv
  <2> QED
    BY <2>1, <2>3 DEF IInv
<1> QED
  BY <1>1, <1>2, <1>3, <1>4 DEF Next

\* Wherever a handler is, what it has done, emitted and answered so far fits,
\* and the request of a session that has ended is turned away by the next check.
THEOREM Invariance == Spec => []IInv
BY InitInvariant, StepInvariant, PTL DEF Spec

\* What scope_matches grants: everything, or a right of the operation's family.
LEMMA AllowedByScope ==
  ASSUME NEW s \in Session, NEW o \in DOMAIN Engine, Allowed(s, o)
  PROVE  \E g \in ScopesOf[s] :
           g = All \/ (g[1] = Engine[o].family /\ g[2] \in Engine[o].rights \cup {"*"})
<1>1. PICK g \in ScopesOf[s], a \in Accepted(o) : ScopeMatches(g, a)
  BY DEF Allowed
<1>2. g \in STRING \X STRING
  BY ScopesAssumption
<1>3. CASE a = All
  <2>1. g = All \/ (g[1] = "*" /\ g[2] = "*")
    BY <1>1, <1>3 DEF ScopeMatches, All
  <2> QED
    BY <1>2, <2>1 DEF All
<1>4. CASE a # All
  <2>1. PICK right \in Engine[o].rights \cup {"*"} : a = <<Engine[o].family, right>>
    BY <1>4 DEF Accepted
  <2> QED
    BY <1>1, <1>2, <2>1 DEF ScopeMatches
<1> QED
  BY <1>3, <1>4

\* Only a session that is alive when it is checked for the last time, and whose
\* scopes grant it, gets anything done: auth_middleware, session_from_request
\* and authorize together.
THEOREM OnlyTheEntitledHolds == Spec => []OnlyTheEntitled
<1>1. IInv => EndedIsOut
  BY DEF IInv, Sound, TurnedAway, EndedIsOut
<1>2. IInv => ChangesNeedScope
  BY AllowedByScope DEF IInv, Shape, Sound, Entitled, ChangesNeedScope
<1> QED
  BY <1>1, <1>2, Invariance, PTL DEF OnlyTheEntitled

\* What was done, what was emitted to plugins and what was answered agree, in
\* every handler, whichever layer refused the request or failed.
THEOREM AnswersAreTrueHolds == Spec => []AnswersAreTrue
<1>1. IInv => EffectsAgreeWithAnswers
  BY DEF IInv, Sound, Told, Answered, Over, EffectsAgreeWithAnswers
<1>2. IInv => EventsAgreeWithAnswers
  BY DEF IInv, Sound, Told, Answered, Over, EventsAgreeWithAnswers
<1> QED
  BY <1>1, <1>2, Invariance, PTL DEF AnswersAreTrue

\* A session is created with a second of life at least, for any value of
\* ttl_secs, those that are negative as an i64 included.
THEOREM NeverBornDeadHolds == Spec => NeverBornDead
<1>1. ASSUME IInv, [Next]_vars, NEW s \in Session, status[s] = "none", status'[s] = "active"
      PROVE  expires'[s] >= now + TicksPerSecond
  <2>2. PICK r \in Request : CreateSession(r) \/ RevokeSession(r)
    BY <1>1 DEF Next, Handle, Arrive, RateLimit, Disconnect, Tick, vars, guardVars, Authenticate,
       ReadInput, Encode, Observe, Measure, Whoami, CountSessions, Health, Scrape, ScrapeSet,
       Render, Authorize, WithoutEngine, Call, CallError, Emit
  <2>3. CreateSession(r)
    BY <1>1, <2>2 DEF RevokeSession, IInv, Shape
  <2>4. status'[s] # status[s]
    BY <1>1
  <2>5. expires'[s] = now + TicksPerSecond * Lifetime(r)
    BY <1>1, <2>3, <2>4 DEF CreateSession, IInv, Shape
  <2>6. input[r] \in Ttl \cup {None} /\ op[r] = "create_session"
    BY <1>1, <2>3 DEF CreateSession, Asked, IInv, Sound, Input
  <2>7. Lifetime(r) \in Int /\ Lifetime(r) >= 1
    BY <1>1, <2>6, LifetimeAtLeastOne DEF IInv
  <2> QED
    BY <1>1, <2>5, <2>7 DEF TicksPerSecond, IInv, Shape
<1>2. IInv /\ [Next]_vars =>
        [\A s \in Session : status[s] = "none" /\ status'[s] = "active" =>
           expires'[s] >= now + TicksPerSecond]_vars
  BY <1>1
<1> QED
  BY <1>2, Invariance, PTL DEF Spec, NeverBornDead

-----------------------------------------------------------------------------
(* The gauge of active sessions *)

Count     == 0..Cardinality(Session)
Uncounted == {"idle", "arrived", "known", "admitted"}

\* The page shows what was counted for it, or what a request beside it has set.
Fresh(r) ==
  shown[r][2] # None =>
    \/ shown[r][3] = r /\ shown[r][1] = shown[r][2]
    \/ shown[r][3] \in beside[r]

\* What a request has counted, what it will emit, and what the gauge then shows.
Page(r) ==
  /\ counted[r] \in Count \cup {None}
  /\ pc[r] \in Uncounted => counted[r] = None
  /\ pc[r] \in {"observing", "measuring"} => OverHttp(r)
  /\ pc[r] \in {"scraped", "measuring"} => counted[r] \in Count
  /\ pc[r] = "rendering" /\ counted[r] # None =>
       (setter = r /\ gauge = counted[r]) \/ setter \in beside[r]
  /\ pc[r] = "emitting" => Kind(r) \in Events \ {None} /\ op[r] # "metrics"
  /\ op[r] = "metrics" /\ pc[r] \in Answered /\ reply[r] # "dropped" => Fresh(r)

\* HTTP requests that are in flight together know of each other.
Besides ==
  \A r, q \in Request :
    r # q /\ InFlight(r) /\ OverHttp(r) /\ InFlight(q) /\ OverHttp(q) => q \in beside[r]

Ranges ==
  /\ now \in 0..MaxTick /\ gauge \in Count /\ setter \in Request \cup {None}
  /\ events \subseteq Request \X (Events \ {None})
  /\ counted \in [Request -> Count \cup {None}] /\ DOMAIN shown = Request
  /\ beside \in [Request -> SUBSET Request]

GaugeInv == Ranges /\ Besides /\ \A r \in Request : Page(r)

LEMMA CountsSessions == Cardinality(Active) \in Count /\ 0 \in Count
<1>1. Active \subseteq Session
  BY DEF Active
<1>2. /\ Cardinality(Session) \in Nat /\ Cardinality(Active) \in Nat
      /\ Cardinality(Active) <= Cardinality(Session)
  BY <1>1, SessionAssumption, FS_Subset, FS_CardinalityType
<1> QED
  BY <1>2 DEF Count

\* A metrics request is over HTTP, and nothing refuses it.
LEMMA MetricsPasses ==
  ASSUME IInv, NEW r \in Request, op[r] = "metrics"
  PROVE  OverHttp(r) /\ IsPublic(r) /\ ~MayBe(r, "invalid")
<1>1. proto[r] \in {"grpc", "http", "metrics"}
  BY DEF IInv, Shape, Protocol
<1> QED
  BY <1>1, MetricsAreHttp DEF IInv, Sound, OverHttp, IsPublic, MayBe

LEMMA InitGauge == Init => GaugeInv
<1> SUFFICES ASSUME Init PROVE GaugeInv
  OBVIOUS
<1>1. 0 \in 0..MaxTick /\ 0 \in Count
  BY ConfigAssumption, CountsSessions
<1>2. Ranges
  BY <1>1 DEF Init, Ranges
<1>3. \A r \in Request : Page(r)
  BY MetricsAreHttp DEF Init, Page, Uncounted, Answered
<1>4. Besides
  BY DEF Init, Besides, InFlight
<1> QED
  BY <1>2, <1>3, <1>4 DEF GaugeInv

\* A request that takes no step keeps its page, if only those beside it set the gauge.
LEMMA PageStays ==
  ASSUME NEW q \in Request, Page(q),
         pc'[q] = pc[q], reply'[q] = reply[q], proto'[q] = proto[q], op'[q] = op[q],
         counted'[q] = counted[q], shown'[q] = shown[q], beside[q] \subseteq beside'[q],
         \/ UNCHANGED gaugeVars
         \/ pc[q] = "rendering" => setter' \in beside'[q]
  PROVE  Page(q)'
<1>1. Kind(q)' = Kind(q)
  BY DEF Kind
<1>2. Fresh(q) => Fresh(q)'
  BY DEF Fresh
<1> QED
  BY <1>1, <1>2 DEF Page, OverHttp, gaugeVars

LEMMA BesidesStay ==
  ASSUME Besides, UNCHANGED <<proto, beside>>, \A q \in Request : InFlight(q)' => InFlight(q)
  PROVE  Besides'
BY DEF Besides, OverHttp

\* A handler goes on without a look at the gauge.
LEMMA PlainStep ==
  ASSUME IInv, GaugeInv, NEW r \in Request, InFlight(r),
         NEW p \in Phase \ {"scraped", "rendering", "measuring"}, NEW h \in Reply,
         pc' = [pc EXCEPT ![r] = p], reply' = [reply EXCEPT ![r] = h],
         UNCHANGED <<now, callVars, pageVars, gaugeVars>>,
         events' = events \/ (pc[r] = "emitting" /\ events' = events \cup {<<r, Kind(r)>>}),
         p \in Uncounted => pc[r] \in Uncounted,
         p = "observing" => OverHttp(r),
         p = "emitting" => Kind(r)' \in Events \ {None} /\ op[r] # "metrics",
         op[r] = "metrics" /\ p \in Answered /\ h # "dropped" => pc[r] \in Answered /\ reply[r] # "dropped"
  PROVE  GaugeInv'
<1> USE DEF callVars, pageVars, gaugeVars
<1>1. pc'[r] = p /\ reply'[r] = h /\ \A q \in Request \ {r} : pc'[q] = pc[q] /\ reply'[q] = reply[q]
  BY DEF IInv, Shape
<1>2. Ranges'
  BY DEF GaugeInv, Ranges, Page
<1>3. \A q \in Request \ {r} : Page(q)'
  BY <1>1, PageStays DEF GaugeInv
<1>4. Page(r)'
  BY <1>1 DEF GaugeInv, Page, Fresh, OverHttp
<1>5. Besides'
  BY <1>1, BesidesStay DEF InFlight, GaugeInv
<1> QED
  BY <1>2, <1>3, <1>4, <1>5 DEF GaugeInv

\* A handler answers. Nothing answers a metrics request before its page is rendered.
LEMMA AnswerKeepsGauge ==
  ASSUME IInv, GaugeInv, NEW r \in Request, InFlight(r), NEW h \in Reply, Answer(r, h),
         UNCHANGED <<now, events, callVars, pageVars, gaugeVars>>,
         op[r] = "metrics" /\ h # "dropped" => pc[r] \in Answered /\ reply[r] # "dropped"
  PROVE  GaugeInv'
<1>1. Leaves(r) \in Phase \ {"scraped", "rendering", "measuring", "emitting"}
  BY DEF Leaves, Phase
<1>2. Leaves(r) \notin Uncounted /\ (Leaves(r) = "observing" => OverHttp(r))
  BY DEF Leaves, Uncounted, OverHttp
<1>3. pc' = [pc EXCEPT ![r] = Leaves(r)] /\ reply' = [reply EXCEPT ![r] = h]
  BY DEF Answer, Leaves
<1> QED
  BY <1>1, <1>2, <1>3, PlainStep

LEMMA ResultKeepsGauge ==
  ASSUME IInv, GaugeInv, NEW r \in Request, InFlight(r), NEW h \in Reply, Result(r, h),
         UNCHANGED <<now, events, callVars, pageVars, gaugeVars>>, op[r] # "metrics"
  PROVE  GaugeInv'
<1>1. "answering" \in Phase \ {"scraped", "rendering", "measuring", "emitting"} /\ "answering" \notin Uncounted
  BY DEF Phase, Uncounted
<1> QED
  BY <1>1, PlainStep DEF Result

\* A handler goes on to its call.
LEMMA GotoKeepsGauge ==
  ASSUME IInv, GaugeInv, NEW r \in Request, pc[r] \in Uncounted \ {"idle"},
         NEW p \in {"known", "admitted", "authorized"}, Goto(r, p),
         UNCHANGED <<now, events, callVars, pageVars, gaugeVars>>
  PROVE  GaugeInv'
<1>1. p \in Phase \ {"scraped", "rendering", "measuring"} /\ p \notin {"observing", "emitting"} \cup Answered
      /\ InFlight(r)
  BY DEF Phase, InFlight, Uncounted, Answered
<1>2. reply[r] \in Reply /\ reply' = [reply EXCEPT ![r] = reply[r]]
  BY DEF IInv, Shape, Goto
<1> QED
  BY <1>1, <1>2, PlainStep DEF Goto

-----------------------------------------------------------------------------
(* Every action keeps what is known of the gauge *)

LEMMA TickKeepsGauge == GaugeInv /\ Tick => GaugeInv'
<1> SUFFICES ASSUME GaugeInv, Tick PROVE GaugeInv'
  OBVIOUS
<1> USE DEF Tick, effectVars, callVars, pageVars, gaugeVars
<1>1. Ranges'
  BY ConfigAssumption DEF GaugeInv, Ranges
<1>2. \A q \in Request : Page(q)'
  BY PageStays DEF GaugeInv
<1>3. Besides'
  BY BesidesStay DEF GaugeInv, InFlight
<1> QED
  BY <1>1, <1>2, <1>3 DEF GaugeInv

LEMMA EdgeKeepsGauge ==
  ASSUME IInv, GaugeInv, NEW r \in Request, Authenticate(r) \/ RateLimit(r) \/ ReadInput(r)
  PROVE  GaugeInv'
<1>1. /\ pc[r] \in Uncounted \ {"idle"} /\ InFlight(r)
      /\ UNCHANGED <<now, events, callVars, pageVars, gaugeVars>>
  BY DEF Authenticate, RateLimit, ReadInput, Uncounted, InFlight, guardVars, effectVars
<1>2. CASE Goto(r, "known") \/ Goto(r, "admitted")
  BY <1>1, <1>2, GotoKeepsGauge
<1>3. CASE ~(Goto(r, "known") \/ Goto(r, "admitted"))
  <2>1. PICK h \in {"unauthorized", "limited", "invalid"} : Answer(r, h)
    BY <1>3 DEF Authenticate, RateLimit, ReadInput
  <2>2. op[r] # "metrics"
    BY <1>3, MetricsPasses DEF Authenticate, RateLimit, ReadInput, GaugeInv, OverHttp
  <2>3. h \in Reply
    BY DEF Reply
  <2> QED
    BY <1>1, <2>1, <2>2, <2>3, AnswerKeepsGauge
<1> QED
  BY <1>2, <1>3

LEMMA EncodeKeepsGauge ==
  ASSUME IInv, GaugeInv, NEW r \in Request, Encode(r) PROVE GaugeInv'
<1>1. /\ InFlight(r) /\ pc[r] \in Answered
      /\ UNCHANGED <<now, events, callVars, pageVars, gaugeVars>>
  BY DEF Encode, InFlight, Answered, guardVars, effectVars
<1>2. reply[r] \in Reply /\ "internal" \in Reply
  BY DEF IInv, Shape, Reply
<1>3. CASE Answer(r, reply[r])
  BY <1>1, <1>2, <1>3, AnswerKeepsGauge
<1>4. CASE reply[r] = "ok" /\ Answer(r, "internal")
  BY <1>1, <1>2, <1>4, AnswerKeepsGauge
<1> QED
  BY <1>3, <1>4 DEF Encode

LEMMA DisconnectKeepsGauge ==
  ASSUME IInv, GaugeInv, NEW r \in Request, Disconnect(r) PROVE GaugeInv'
<1>1. "done" \in Phase \ {"scraped", "rendering", "measuring"} /\ "done" \notin Uncounted
      /\ "dropped" \in Reply
  BY DEF Phase, Uncounted, Reply
<1> QED
  BY <1>1, PlainStep DEF Disconnect, guardVars, effectVars

\* The operations that look at no gauge, up to their result.
LEMMA OperationKeepsGauge ==
  ASSUME IInv, GaugeInv, NEW r \in Request,
         \/ Whoami(r) \/ CreateSession(r) \/ RevokeSession(r) \/ Health(r)
         \/ Authorize(r) \/ WithoutEngine(r) \/ Call(r) \/ CallError(r)
  PROVE  GaugeInv'
<1>1. /\ InFlight(r) /\ UNCHANGED <<now, events, callVars, pageVars, gaugeVars>>
      /\ pc[r] \in {"admitted", "authorized"}
  BY DEF Whoami, CreateSession, RevokeSession, Health, Authorize, WithoutEngine, Call, CallError,
     Asked, InFlight, guardVars, effectVars
<1>2. op[r] # "metrics"
  BY NotOfEngine DEF Whoami, CreateSession, RevokeSession, Health, Authorize, WithoutEngine, Call,
     CallError, Asked, IInv, Sound
<1>3. CASE \E h \in Reply : Result(r, h)
  BY <1>1, <1>2, <1>3, ResultKeepsGauge
<1>4. CASE pc[r] = "admitted" /\ Goto(r, "authorized")
  BY <1>1, <1>4, GotoKeepsGauge DEF Uncounted
<1>5. ASSUME NEW h \in {"ok", "denied"},
             pc' = [pc EXCEPT ![r] = "emitting"], reply' = [reply EXCEPT ![r] = h],
             \/ h = "denied"
             \/ h = "ok" /\ op[r] = "create_session"
             \/ h = "ok" /\ op[r] \in DOMAIN Engine /\ Engine[op[r]].event # None
      PROVE  GaugeInv'
  <2>1. "emitting" \in Phase \ {"scraped", "rendering", "measuring"} /\ "emitting" \notin Uncounted
        /\ h \in Reply
    BY DEF Phase, Uncounted, Reply
  <2>2. reply'[r] = h /\ op'[r] = op[r]
    BY <1>1, <1>5 DEF IInv, Shape, callVars
  <2>3. op[r] \in DOMAIN Engine => op[r] # "create_session"
    BY NotOfEngine
  <2>4. Kind(r)' \in Events \ {None}
    BY <1>5, <2>2, <2>3, NoneAssumption DEF Kind, Events
  <2> QED
    BY <1>1, <1>2, <1>5, <2>1, <2>4, PlainStep DEF Answered
<1>6. CASE Whoami(r) \/ RevokeSession(r) \/ Health(r) \/ WithoutEngine(r) \/ CallError(r)
  BY <1>3, <1>6 DEF Whoami, RevokeSession, Health, WithoutEngine, CallError, Reply
<1>7. CASE CreateSession(r)
  BY <1>3, <1>5, <1>7 DEF CreateSession, Asked, Reply
<1>8. CASE Authorize(r)
  BY <1>3, <1>4, <1>5, <1>8 DEF Authorize, Denies, Reply
<1>9. CASE Call(r)
  <2>1. op[r] \in DOMAIN Engine
    BY <1>9 DEF Call, IInv, Sound
  <2> QED
    BY <1>3, <1>5, <1>9, <2>1 DEF Call, Reply
<1> QED
  BY <1>6, <1>7, <1>8, <1>9

LEMMA EmitKeepsGauge ==
  ASSUME IInv, GaugeInv, NEW r \in Request, Emit(r) PROVE GaugeInv'
<1>1. "answering" \in Phase \ {"scraped", "rendering", "measuring", "emitting"} /\ "answering" \notin Uncounted
  BY DEF Phase, Uncounted
<1>2. reply[r] \in Reply /\ reply' = [reply EXCEPT ![r] = reply[r]]
  BY DEF IInv, Shape, Emit, Goto
<1>3. op[r] # "metrics"
  BY DEF Emit, GaugeInv, Page
<1> QED
  BY <1>1, <1>2, <1>3, PlainStep DEF Emit, Goto, InFlight, guardVars

\* A step of a handler that looks at the gauge: what it needs to show of its own page.
LEMMA GaugeStep ==
  ASSUME IInv, GaugeInv, NEW r \in Request, InFlight(r), Ranges', Page(r)',
         UNCHANGED <<callVars>>,
         \A q \in Request \ {r} : /\ pc'[q] = pc[q] /\ reply'[q] = reply[q]
                                  /\ counted'[q] = counted[q] /\ shown'[q] = shown[q],
         UNCHANGED gaugeVars \/ (setter' = r /\ OverHttp(r))
  PROVE  GaugeInv'
<1> USE DEF callVars
<1>1. ASSUME NEW q \in Request \ {r}, pc[q] = "rendering", OverHttp(r) PROVE r \in beside[q]
  <2>1. InFlight(q) /\ OverHttp(q)
    BY <1>1, MetricsPasses DEF InFlight, IInv, Sound
  <2> QED
    BY <1>1, <2>1 DEF GaugeInv, Besides
<1>2. \A q \in Request \ {r} : Page(q)'
  BY <1>1, PageStays DEF GaugeInv
<1>3. Besides'
  BY BesidesStay DEF GaugeInv, InFlight
<1> QED
  BY <1>2, <1>3 DEF GaugeInv

\* metrics_middleware: the gauge is set by a request that is over HTTP itself.
LEMMA ObserveKeepsGauge ==
  ASSUME IInv, GaugeInv, NEW r \in Request, Observe(r) PROVE GaugeInv'
<1> USE DEF guardVars, effectVars, pageVars, gaugeVars
<1>1. /\ pc[r] = "observing" /\ InFlight(r) /\ pc[r] \in Answered /\ reply' = reply
      /\ UNCHANGED <<now, events, callVars, shown, gaugeVars>>
  BY DEF Observe, InFlight, Answered, Goto
<1>2. ASSUME counted' = [counted EXCEPT ![r] = Cardinality(Active)], Goto(r, "measuring")
      PROVE  GaugeInv'
  <2>1. pc'[r] = "measuring" /\ counted'[r] \in Count
    BY <1>2, CountsSessions DEF Goto, IInv, Shape, GaugeInv, Ranges
  <2>2. Page(r)'
    BY <1>1, <2>1 DEF GaugeInv, Page, Uncounted, Answered, Fresh, OverHttp, callVars
  <2>3. Ranges'
    BY <1>1, <1>2, <2>1, CountsSessions DEF GaugeInv, Ranges, callVars
  <2>4. \A q \in Request \ {r} : pc'[q] = pc[q] /\ counted'[q] = counted[q]
    BY <1>2 DEF Goto, IInv, Shape, GaugeInv, Ranges
  <2> QED
    BY <1>1, <2>2, <2>3, <2>4, GaugeStep
<1>3. ASSUME Goto(r, "done"), UNCHANGED counted PROVE GaugeInv'
  <2>1. "done" \in Phase \ {"scraped", "rendering", "measuring"} /\ "done" \notin Uncounted
    BY DEF Phase, Uncounted
  <2>2. reply[r] \in Reply /\ reply' = [reply EXCEPT ![r] = reply[r]]
    BY <1>1 DEF IInv, Shape
  <2> QED
    BY <1>1, <1>3, <2>1, <2>2, PlainStep DEF Goto
<1> QED
  BY <1>2, <1>3 DEF Observe

LEMMA MeasureKeepsGauge ==
  ASSUME IInv, GaugeInv, NEW r \in Request, Measure(r) PROVE GaugeInv'
<1> USE DEF guardVars, effectVars, pageVars, gaugeVars
<1>1. /\ pc[r] = "measuring" /\ InFlight(r) /\ reply' = reply
      /\ pc' = [pc EXCEPT ![r] = "done"] /\ counted' = [counted EXCEPT ![r] = None]
      /\ gauge' = counted[r] /\ setter' = r /\ UNCHANGED <<now, events, callVars, shown>>
  BY DEF Measure, Sets, InFlight, Goto
<1>2. gauge' \in Count /\ OverHttp(r)
  BY <1>1 DEF GaugeInv, Page
<1>3. pc'[r] = "done" /\ counted'[r] = None
  BY <1>1 DEF IInv, Shape, GaugeInv, Ranges
<1>4. Page(r)'
  BY <1>1, <1>3 DEF GaugeInv, Page, Uncounted, Answered, Fresh, OverHttp, callVars
<1>5. Ranges'
  BY <1>1, <1>2 DEF GaugeInv, Ranges, callVars
<1>6. \A q \in Request \ {r} : pc'[q] = pc[q] /\ counted'[q] = counted[q]
  BY <1>1 DEF IInv, Shape, GaugeInv, Ranges
<1> QED
  BY <1>1, <1>2, <1>4, <1>5, <1>6, GaugeStep

LEMMA CountSessionsKeepsGauge ==
  ASSUME IInv, GaugeInv, NEW r \in Request, CountSessions(r) PROVE GaugeInv'
<1> USE DEF guardVars, effectVars, pageVars, gaugeVars
<1>1. /\ pc[r] = "admitted" /\ InFlight(r) /\ op[r] = "active_session_count"
      /\ UNCHANGED <<now, events, callVars, shown, gaugeVars>>
  BY DEF CountSessions, Asked, InFlight
<1>2. ASSUME counted' = [counted EXCEPT ![r] = Cardinality(Active)], Result(r, "ok")
      PROVE  GaugeInv'
  <2>1. pc'[r] = "answering" /\ counted'[r] \in Count
    BY <1>2, CountsSessions DEF Result, IInv, Shape, GaugeInv, Ranges
  <2>2. Page(r)'
    BY <1>1, <2>1 DEF GaugeInv, Page, Uncounted, callVars
  <2>3. Ranges'
    BY <1>1, <1>2, <2>1, CountsSessions DEF GaugeInv, Ranges, callVars
  <2>4. \A q \in Request \ {r} : pc'[q] = pc[q] /\ counted'[q] = counted[q] /\ reply'[q] = reply[q]
    BY <1>2 DEF Result, IInv, Shape, GaugeInv, Ranges
  <2> QED
    BY <1>1, <2>2, <2>3, <2>4, GaugeStep
<1>3. ASSUME Result(r, "internal"), UNCHANGED counted PROVE GaugeInv'
  BY <1>1, <1>3, ResultKeepsGauge DEF Reply
<1> QED
  BY <1>2, <1>3 DEF CountSessions

\* The page of a metrics request: what it counts, sets and renders.
LEMMA ScrapeKeepsGauge ==
  ASSUME IInv, GaugeInv, NEW r \in Request, Scrape(r) PROVE GaugeInv'
<1> USE DEF guardVars, effectVars, pageVars, gaugeVars
<1>1. /\ pc[r] = "admitted" /\ InFlight(r) /\ op[r] = "metrics" /\ reply' = reply
      /\ counted[r] = None /\ UNCHANGED <<now, events, callVars, shown, gaugeVars>>
  BY DEF Scrape, Asked, InFlight, Goto, GaugeInv, Page, Uncounted
<1>2. PICK p \in {"scraped", "rendering"} :
        /\ pc' = [pc EXCEPT ![r] = p]
        /\ \/ p = "scraped" /\ counted' = [counted EXCEPT ![r] = Cardinality(Active)]
           \/ p = "rendering" /\ counted' = counted
  BY DEF Scrape, Goto
<1>3. /\ pc'[r] = p
      /\ p = "scraped" => counted'[r] \in Count
      /\ p = "rendering" => counted'[r] = None
  BY <1>1, <1>2, CountsSessions DEF IInv, Shape, GaugeInv, Ranges
<1>4. Page(r)'
  BY <1>1, <1>3 DEF GaugeInv, Page, Uncounted, Answered, OverHttp, callVars
<1>5. Ranges'
  BY <1>1, <1>2, CountsSessions DEF GaugeInv, Ranges, callVars
<1>6. \A q \in Request \ {r} : pc'[q] = pc[q] /\ counted'[q] = counted[q]
  BY <1>2 DEF IInv, Shape, GaugeInv, Ranges
<1> QED
  BY <1>1, <1>4, <1>5, <1>6, GaugeStep

LEMMA ScrapeSetKeepsGauge ==
  ASSUME IInv, GaugeInv, NEW r \in Request, ScrapeSet(r) PROVE GaugeInv'
<1> USE DEF guardVars, effectVars, pageVars, gaugeVars
<1>1. /\ pc[r] = "scraped" /\ InFlight(r) /\ reply' = reply /\ op[r] = "metrics"
      /\ pc' = [pc EXCEPT ![r] = "rendering"]
      /\ gauge' = counted[r] /\ setter' = r /\ UNCHANGED <<now, events, callVars, pageVars>>
  BY DEF ScrapeSet, Sets, InFlight, Goto, IInv, Sound
<1>2. gauge' \in Count /\ OverHttp(r)
  BY <1>1, MetricsPasses DEF GaugeInv, Page
<1>3. pc'[r] = "rendering" /\ \A q \in Request \ {r} : pc'[q] = pc[q]
  BY <1>1 DEF IInv, Shape
<1>4. Page(r)'
  BY <1>1, <1>3 DEF GaugeInv, Page, Uncounted, Answered, OverHttp, callVars
<1>5. Ranges'
  BY <1>1, <1>2 DEF GaugeInv, Ranges, callVars
<1> QED
  BY <1>1, <1>2, <1>3, <1>4, <1>5, GaugeStep

LEMMA RenderKeepsGauge ==
  ASSUME IInv, GaugeInv, NEW r \in Request, Render(r) PROVE GaugeInv'
<1> USE DEF guardVars, effectVars, gaugeVars
<1>1. /\ pc[r] = "rendering" /\ InFlight(r)
      /\ pc' = [pc EXCEPT ![r] = "answering"] /\ reply' = [reply EXCEPT ![r] = "ok"]
      /\ shown' = [shown EXCEPT ![r] = <<gauge, counted[r], setter>>]
      /\ UNCHANGED <<now, events, callVars, counted, gaugeVars>>
  BY DEF Render, Result, InFlight
<1>2. pc'[r] = "answering" /\ shown'[r] = <<gauge, counted[r], setter>>
  BY <1>1 DEF IInv, Shape, GaugeInv, Ranges
<1>3. Fresh(r)'
  BY <1>1, <1>2 DEF GaugeInv, Page, Fresh, callVars
<1>4. Page(r)'
  BY <1>1, <1>2, <1>3 DEF GaugeInv, Page, Uncounted, callVars
<1>5. Ranges'
  BY <1>1 DEF GaugeInv, Ranges, callVars
<1>6. \A q \in Request \ {r} : pc'[q] = pc[q] /\ reply'[q] = reply[q] /\ shown'[q] = shown[q]
  BY <1>1 DEF IInv, Shape
<1> QED
  BY <1>1, <1>4, <1>5, <1>6, GaugeStep

\* A request that comes in is beside those that are in flight.
LEMMA ArriveKeepsGauge ==
  ASSUME IInv, GaugeInv, NEW r \in Request, Arrive(r) PROVE GaugeInv'
<1> USE DEF guardVars, effectVars, pageVars, gaugeVars
<1>1. PICK p \in DOMAIN Handler, o \in Op, s \in Session \cup {None} :
        /\ o \in DOMAIN Handler[p]
        /\ proto' = [proto EXCEPT ![r] = p]
        /\ op' = [op EXCEPT ![r] = o]
        /\ beside' = [q \in Request |->
                        IF p = "grpc" THEN beside[q]
                        ELSE IF q = r THEN {q2 \in Request : InFlight(q2) /\ OverHttp(q2)}
                        ELSE IF InFlight(q) /\ OverHttp(q) THEN beside[q] \cup {r} ELSE beside[q]]
  BY DEF Arrive
<1>2. /\ pc[r] = "idle" /\ pc' = [pc EXCEPT ![r] = "arrived"] /\ reply' = reply
      /\ UNCHANGED <<now, events, pageVars, gaugeVars>>
  BY DEF Arrive, Goto
<1>3. /\ pc'[r] = "arrived" /\ proto'[r] = p /\ op'[r] = o
      /\ \A q \in Request \ {r} : pc'[q] = pc[q] /\ proto'[q] = proto[q] /\ op'[q] = op[q]
  BY <1>1, <1>2 DEF IInv, Shape
<1>4. \A q \in Request \ {r} : beside[q] \subseteq beside'[q]
  BY <1>1
<1>5. Ranges'
  <2>1. beside' \in [Request -> SUBSET Request]
    BY <1>1 DEF GaugeInv, Ranges
  <2> QED
    BY <1>2, <2>1 DEF GaugeInv, Ranges
<1>6. \A q \in Request \ {r} : Page(q)'
  BY <1>2, <1>3, <1>4, PageStays DEF GaugeInv
<1>7. Page(r)'
  BY <1>1, <1>2, <1>3 DEF GaugeInv, Page, Uncounted, Answered
<1>8. Besides'
  <2> SUFFICES ASSUME NEW a \in Request, NEW b \in Request, a # b,
                      InFlight(a)', OverHttp(a)', InFlight(b)', OverHttp(b)'
               PROVE  b \in beside'[a]
    BY DEF Besides
  <2>1. \A q \in Request \ {r} : (InFlight(q)' <=> InFlight(q)) /\ (OverHttp(q)' <=> OverHttp(q))
    BY <1>3 DEF InFlight, OverHttp
  <2>2. OverHttp(r)' => p # "grpc"
    BY <1>3 DEF OverHttp
  <2>3. CASE a = r
    BY <1>1, <2>1, <2>2, <2>3
  <2>4. CASE b = r
    BY <1>1, <2>1, <2>2, <2>4
  <2>5. CASE a # r /\ b # r
    BY <1>1, <2>1, <2>5 DEF GaugeInv, Besides
  <2> QED
    BY <2>3, <2>4, <2>5
<1> QED
  BY <1>5, <1>6, <1>7, <1>8 DEF GaugeInv

LEMMA StepKeepsGauge == IInv /\ GaugeInv /\ [Next]_vars => GaugeInv'
<1> SUFFICES ASSUME IInv, GaugeInv, [Next]_vars PROVE GaugeInv'
  OBVIOUS
<1>1. CASE Tick
  BY <1>1, TickKeepsGauge
<1>2. ASSUME NEW r \in Request, Arrive(r) \/ RateLimit(r) \/ Disconnect(r) PROVE GaugeInv'
  BY <1>2, ArriveKeepsGauge, EdgeKeepsGauge, DisconnectKeepsGauge
<1>3. ASSUME NEW r \in Request, Handle(r) PROVE GaugeInv'
  <2>1. CASE Authenticate(r) \/ ReadInput(r) \/ Encode(r) \/ Observe(r) \/ Measure(r)
    BY <2>1, EdgeKeepsGauge, EncodeKeepsGauge, ObserveKeepsGauge, MeasureKeepsGauge
  <2>2. CASE CountSessions(r) \/ Scrape(r) \/ ScrapeSet(r) \/ Render(r) \/ Emit(r)
    BY <2>2, CountSessionsKeepsGauge, ScrapeKeepsGauge, ScrapeSetKeepsGauge, RenderKeepsGauge,
       EmitKeepsGauge
  <2>3. CASE \/ Whoami(r) \/ CreateSession(r) \/ RevokeSession(r) \/ Health(r)
             \/ Authorize(r) \/ WithoutEngine(r) \/ Call(r) \/ CallError(r)
    BY <2>3, OperationKeepsGauge
  <2> QED
    BY <1>3, <2>1, <2>2, <2>3 DEF Handle
<1>4. CASE UNCHANGED vars
  <2> USE <1>4 DEF vars, guardVars, effectVars, callVars, pageVars, gaugeVars
  <2>1. Ranges'
    BY DEF GaugeInv, Ranges
  <2>2. \A q \in Request : Page(q)'
    BY PageStays DEF GaugeInv
  <2>3. Besides'
    BY BesidesStay DEF GaugeInv, InFlight
  <2> QED
    BY <2>1, <2>2, <2>3 DEF GaugeInv
<1> QED
  BY <1>1, <1>2, <1>3, <1>4 DEF Next

\* What is counted, set and rendered on the way to a metrics page, by whom, and
\* which requests are beside each other.
THEOREM GaugeInvariance == Spec => [](IInv /\ GaugeInv)
<1>1. IInv /\ GaugeInv /\ [Next]_vars => (IInv /\ GaugeInv)'
  BY StepInvariant, StepKeepsGauge
<1>2. Init => IInv /\ GaugeInv
  BY InitInvariant, InitGauge
<1> QED
  BY <1>1, <1>2, PTL DEF Spec

\* Every variable of the gateway has the type its declaration states.
THEOREM TypeCorrect == Spec => []TypeOK
<1>1. IInv /\ GaugeInv => TypeOK
  BY DEF IInv, Shape, Sound, GaugeInv, Ranges, Page, Count, TypeOK
<1> QED
  BY <1>1, GaugeInvariance, PTL

\* active_sessions counts every session guard would accept and none that has
\* been over for a second; and a metrics page shows the number counted for it or
\* one that a request running beside it has set, never one that was left behind.
THEOREM GaugeIsTrueHolds == Spec => []GaugeIsTrue
<1>1. ASSUME IInv, GaugeInv PROVE CountIsClose
  <2>1. now \in Int /\ \A s \in Session : expires[s] \in Int
    BY <1>1 DEF IInv, Shape
  <2>2. /\ (now \div TicksPerSecond) * TicksPerSecond <= now
        /\ now < (now \div TicksPerSecond) * TicksPerSecond + TicksPerSecond
        /\ (now \div TicksPerSecond) * TicksPerSecond \in Int
    BY <2>1 DEF TicksPerSecond
  <2>3. \A s \in Session : Live(s) => s \in Active
    BY <2>1, <2>2 DEF Live, Active
  <2>4. \A s \in Active : status[s] = "active" /\ now < expires[s] + TicksPerSecond
    BY <2>1, <2>2 DEF Active, TicksPerSecond
  <2> QED
    BY <2>3, <2>4 DEF CountIsClose
<1>2. IInv /\ GaugeInv => PageIsFresh
  BY DEF GaugeInv, Page, Fresh, Answered, Over, PageIsFresh
<1> QED
  BY <1>1, <1>2, GaugeInvariance, PTL DEF GaugeIsTrue

=============================================================================
