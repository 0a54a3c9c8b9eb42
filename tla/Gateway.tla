-------------------------------- MODULE Gateway --------------------------------
(***************************************************************************)
(* The requests of clawdb-server that ServerTx and MemoryIndex leave out:  *)
(* sessions, branches, sync, reflect, health and metrics, over gRPC and    *)
(* HTTP, and the operations of ClawDB they call.                           *)
(*                                                                         *)
(* All handlers have one shape: authenticate, read the input, call one     *)
(* operation, encode its result, answer. What differs from one to the next *)
(* is kept in tables: per protocol, what a handler may refuse before the   *)
(* call and fail to encode after it; per operation of ClawDB, the scopes   *)
(* authorize accepts, whether something changes, and the event it emits.   *)
(*                                                                         *)
(* A step of a handler is the code between two awaits. What a call of      *)
(* claw-branch, claw-sync or claw-reflect changes is kept as the set of    *)
(* requests whose change was made; the sessions of claw-guard are modelled *)
(* in full, in a time that advances by half seconds.                       *)
(***************************************************************************)
EXTENDS Integers, FiniteSets

CONSTANTS Session,      \* sessions: those guard has, and those it may create
          Existing,     \* those it has at first
          Request,      \* requests that clients send
          None,
          ScopesOf,     \* scopes a session is created with
          Op,           \* operations the requests ask for
          Ttl,          \* values of ttl_secs they ask for
          TtlBits,      \* width of ttl_secs; 64 in the code
          DefaultTtl,   \* 3600 in the code
          LocalOnly,    \* ClawDB::sync_local_only
          Reflect,      \* ClawDB::reflect is there
          MaxTick       \* BOUND on time

TicksPerSecond == 2

ASSUME SessionAssumption ==
  IsFiniteSet(Session) /\ Existing \subseteq Session /\ None \notin Session
ASSUME NoneAssumption == None \notin {"PolicyDenied", "SessionCreated"}
ASSUME ScopesAssumption == \A s \in Session : ScopesOf[s] \subseteq STRING \X STRING
ASSUME TtlAssumption ==
  /\ TtlBits \in Nat \ {0} /\ DefaultTtl \in 1..(2^(TtlBits - 1) - 1)
  /\ Ttl \subseteq 0..(2^TtlBits - 1)
ASSUME ConfigAssumption == LocalOnly \in BOOLEAN /\ Reflect \in BOOLEAN /\ MaxTick \in Nat

-----------------------------------------------------------------------------
\* Two tables in one. The provers know no definition of the @@ of TLC.
f ++ g == [x \in DOMAIN f \cup DOMAIN g |-> IF x \in DOMAIN f THEN f[x] ELSE g[x]]

(* What a gRPC handler may refuse before its call ("invalid") and fail to   *)
(* encode after it ("unencodable").                                         *)

GrpcSessions ==
  [health |-> {}, create_session |-> {"invalid"}, validate_session |-> {},
   revoke_session |-> {"invalid"}]

GrpcForks == [branch |-> {"invalid"}, merge |-> {"invalid"}]

GrpcBranchLookups ==
  [get_branch |-> {"invalid", "unencodable"}, get_branch_by_name |-> {"unencodable"},
   trunk_branch |-> {"unencodable"}]

GrpcBranchEnds ==
  [list_branches |-> {"unencodable"}, discard_branch |-> {"invalid"},
   archive_branch |-> {"invalid"}]

GrpcDiffAndSync == [diff |-> {"invalid", "unencodable"}, sync |-> {}]

GrpcSyncMoves ==
  [push_sync |-> {"unencodable"}, pull_sync |-> {"unencodable"},
   reconcile_sync |-> {"unencodable"}]

GrpcStatusAndReflect ==
  [sync_status |-> {"unencodable"}, reflect |-> {}, reflect_get_facts |-> {"unencodable"}]

GrpcReflectReads ==
  [reflect_list_jobs |-> {"unencodable"}, reflect_get_job |-> {"unencodable"},
   reflect_get_preferences |-> {"unencodable"}]

GrpcContradictionsAndCount ==
  [reflect_get_contradictions |-> {"unencodable"},
   reflect_resolve_contradiction |-> {"invalid", "unencodable"},
   active_session_count |-> {}]

Grpc == GrpcSessions ++ GrpcForks ++ GrpcBranchLookups ++ GrpcBranchEnds ++
        GrpcDiffAndSync ++ GrpcSyncMoves ++ GrpcStatusAndReflect ++
        GrpcReflectReads ++ GrpcContradictionsAndCount

-----------------------------------------------------------------------------
(* The same of an HTTP route: the Path, Query and Json extractors of its    *)
(* handler, and the Json of a result that is not the handler's own.         *)

HttpPublic ==
  [health |-> {}, ready |-> {}, metrics |-> {}, create_session |-> {"invalid"}]

HttpSessions ==
  [validate_session |-> {}, revoke_session |-> {"invalid"}, active_session_count |-> {}]

HttpBranches ==
  [branch |-> {"invalid"}, list_branches |-> {"unencodable"},
   get_branch |-> {"invalid", "unencodable"}, get_branch_by_name |-> {"unencodable"},
   trunk_branch |-> {"unencodable"}, merge |-> {"invalid", "unencodable"},
   diff |-> {"invalid", "unencodable"}, discard_branch |-> {"invalid"},
   archive_branch |-> {"invalid"}]

HttpSync ==
  [sync |-> {}, push_sync |-> {"unencodable"}, pull_sync |-> {"unencodable"},
   reconcile_sync |-> {"unencodable"}, sync_status |-> {"unencodable"}]

HttpReflect ==
  [reflect |-> {}, reflect_get_facts |-> {"unencodable"},
   reflect_list_jobs |-> {"invalid", "unencodable"}, reflect_get_job |-> {"unencodable"},
   reflect_get_preferences |-> {"unencodable"},
   reflect_get_contradictions |-> {"unencodable"},
   reflect_resolve_contradiction |-> {"invalid", "unencodable"}]

Http == HttpPublic ++ HttpSessions ++ HttpBranches ++ HttpSync ++ HttpReflect

\* The port of the metrics server serves nothing else, without middleware.
MetricsPort == [metrics |-> {}]

Handler == [grpc |-> Grpc, http |-> Http, metrics |-> MetricsPort]

\* Routes and RPCs that look at no token.
Public == [grpc |-> {"health"}, http |-> DOMAIN HttpPublic, metrics |-> {"metrics"}]

-----------------------------------------------------------------------------
(* Operations of ClawDB that authorize: the scopes accepted besides <f>:*   *)
(* and *, whether they change something, the event they emit.               *)

Operation(family, rights, changes, event) ==
  [family |-> family, rights |-> rights, changes |-> changes, event |-> event]

Read(family) == Operation(family, {"read"}, FALSE, None)

EngineBranches ==
  [branch             |-> Operation("branch", {"write"}, TRUE, "BranchCreated"),
   merge              |-> Operation("branch", {"write"}, TRUE, "BranchMerged"),
   get_branch         |-> Read("branch"),
   list_branches      |-> Read("branch"),
   get_branch_by_name |-> Read("branch"),
   trunk_branch       |-> Read("branch")]

EngineBranchEnds ==
  [diff           |-> Read("branch"),
   discard_branch |-> Operation("branch", {"write"}, TRUE, None),
   archive_branch |-> Operation("branch", {"write"}, TRUE, None)]

EngineSync ==
  [sync           |-> Operation("sync", {"write"}, TRUE, "SyncCompleted"),
   push_sync      |-> Operation("sync", {"write"}, TRUE, None),
   pull_sync      |-> Operation("sync", {"write"}, TRUE, None),
   reconcile_sync |-> Operation("sync", {"write"}, TRUE, None),
   sync_status    |-> Read("sync")]

EngineReflect ==
  [reflect                       |-> Operation("reflect", {"run", "write"}, TRUE, "ReflectCycleRun"),
   reflect_resolve_contradiction |-> Operation("reflect", {"write"}, TRUE, None),
   reflect_get_facts             |-> Read("reflect"),
   reflect_list_jobs             |-> Read("reflect"),
   reflect_get_job               |-> Read("reflect"),
   reflect_get_preferences       |-> Read("reflect"),
   reflect_get_contradictions    |-> Read("reflect")]

Engine == EngineBranches ++ EngineBranchEnds ++ EngineSync ++ EngineReflect

Events == {Engine[o].event : o \in DOMAIN Engine} \cup {"SessionCreated", "PolicyDenied"}

ASSUME OpAssumption == Op \subseteq DOMAIN Grpc \cup DOMAIN Http

-----------------------------------------------------------------------------
VARIABLES now,       \* half seconds
          status,    \* of each session in guard
          expires,   \* expires_at of each session, in half seconds
          applied,   \* requests whose change was made
          events,    \* what was emitted: <<request, kind>>
          gauge,     \* ServerMetrics::active_sessions
          setter,    \* HISTORY who set it last
          pc, proto, op, caller, input,  \* where a handler is, and what it was asked
          counted,   \* the active sessions it counted
          shown,     \* the gauge its metrics page shows, that count, and the setter
          reply,     \* what the client is answered
          late,      \* HISTORY the caller's session ended before it was last checked
          beside     \* HISTORY the HTTP requests in flight together with this one

guardVars  == <<now, status, expires>>
effectVars == <<applied, events>>
callVars   == <<proto, op, caller, input, beside>>
pageVars   == <<counted, shown>>
gaugeVars  == <<gauge, setter>>
vars == <<guardVars, effectVars, callVars, late, pageVars, gaugeVars, pc, reply>>

Reply == {"none", "ok", "unhealthy", "unauthorized", "denied", "limited",
          "invalid", "disabled", "internal", "dropped"}
Phase == {"idle", "arrived", "known", "admitted", "authorized", "emitting",
          "answering", "observing", "measuring", "done"} \cup {"scraped", "rendering"}

\* guard validates a session until it is revoked or expires.
Live(s) == s \in Session /\ status[s] = "active" /\ now < expires[s]

\* SELECT COUNT(*) ... expires_at > strftime('%s', 'now') * 1000: unrevoked, and
\* not expired before the current second began.
Active == {s \in Session : /\ status[s] = "active"
                           /\ expires[s] > (now \div TicksPerSecond) * TicksPerSecond}

Init ==
  /\ now = 0
  /\ status = [s \in Session |-> IF s \in Existing THEN "active" ELSE "none"]
  /\ expires \in {e \in [Session -> 0..(MaxTick + 1)] :
                    \A s \in Session : s \in Existing <=> e[s] > 0}
  /\ applied = {} /\ events = {} /\ gauge = 0 /\ setter = None
  /\ pc = [r \in Request |-> "idle"]
  /\ proto = [r \in Request |-> "grpc"]
  /\ op = [r \in Request |-> "health"]
  /\ caller = [r \in Request |-> None]
  /\ input = [r \in Request |-> None]
  /\ counted = [r \in Request |-> None]
  /\ shown = [r \in Request |-> None]
  /\ reply = [r \in Request |-> "none"]
  /\ late = [r \in Request |-> FALSE]
  /\ beside = [r \in Request |-> {}]

InFlight(r) == pc[r] \notin {"idle", "done"}
OverHttp(r) == proto[r] # "grpc"
IsPublic(r) == op[r] \in Public[proto[r]]

\* The session of r is going to be checked: at the edge, and once more where
\* the operation authorizes.
Unchecked(r) ==
  /\ caller[r] # None
  /\ pc[r] = "arrived" \/ (pc[r] \in {"known", "admitted"} /\ op[r] \in DOMAIN Engine)

\* Sessions end: those of requests that are not checked yet are too late.
Overtakes(ended) ==
  late' = [r \in Request |-> late[r] \/ (Unchecked(r) /\ caller[r] \in ended)]

\* BOUND: time ends at MaxTick.
Tick ==
  /\ now < MaxTick
  /\ now' = now + 1
  /\ Overtakes({s \in Session : expires[s] <= now + 1})
  /\ UNCHANGED <<status, expires, effectVars, callVars, pageVars, gaugeVars, pc, reply>>

-----------------------------------------------------------------------------
(* Steps of a handler's control *)

MayBe(r, failure) == failure \in Handler[proto[r]][op[r]]

Goto(r, phase) == pc' = [pc EXCEPT ![r] = phase] /\ UNCHANGED reply

\* The handler has its answer. Over HTTP it passes metrics_middleware.
Answer(r, how) ==
  /\ pc' = [pc EXCEPT ![r] = IF proto[r] = "http" THEN "observing" ELSE "done"]
  /\ reply' = [reply EXCEPT ![r] = how]

\* What an operation of ClawDB returned, on its way to be encoded.
Result(r, how) ==
  /\ pc' = [pc EXCEPT ![r] = "answering"]
  /\ reply' = [reply EXCEPT ![r] = how]

Input(o) ==
  IF o = "create_session" THEN Ttl \cup {None}
  ELSE IF o = "revoke_session" THEN Session ELSE {None}

\* A request comes in. ttl_secs may be left out of a JSON body, not of a message.
Arrive(r) ==
  /\ pc[r] = "idle"
  /\ \E p \in DOMAIN Handler, o \in Op, s \in Session \cup {None} :
       /\ o \in DOMAIN Handler[p]
       /\ o \in Public[p] <=> s = None
       /\ s # None => status[s] # "none"
       /\ \E i \in Input(o) :
            /\ p = "grpc" /\ o = "create_session" => i # None
            /\ input' = [input EXCEPT ![r] = i]
       /\ proto' = [proto EXCEPT ![r] = p]
       /\ op' = [op EXCEPT ![r] = o]
       /\ caller' = [caller EXCEPT ![r] = s]
       /\ late' = [late EXCEPT ![r] = s # None /\ ~Live(s)]
       /\ beside' = [q \in Request |->
                       IF p = "grpc" THEN beside[q]
                       ELSE IF q = r THEN {q2 \in Request : InFlight(q2) /\ OverHttp(q2)}
                       ELSE IF InFlight(q) /\ OverHttp(q) THEN beside[q] \cup {r} ELSE beside[q]]
  /\ Goto(r, "arrived")
  /\ UNCHANGED <<guardVars, effectVars, pageVars, gaugeVars>>

\* session_from_request, auth_middleware: the token is validated, if one is
\* asked for. An error of guard is answered like a session that has ended.
Authenticate(r) ==
  /\ pc[r] = "arrived"
  /\ \/ (IsPublic(r) \/ Live(caller[r])) /\ Goto(r, "known")
     \/ ~IsPublic(r) /\ Answer(r, "unauthorized")
  /\ UNCHANGED <<guardVars, effectVars, callVars, pageVars, late, gaugeVars>>

\* The limiters: over gRPC before the token is looked at, over HTTP after it,
\* and never on a public route.
RateLimit(r) ==
  /\ \/ proto[r] = "grpc" /\ pc[r] = "arrived"
     \/ proto[r] = "http" /\ pc[r] = "known" /\ ~IsPublic(r)
  /\ Answer(r, "limited")
  /\ UNCHANGED <<guardVars, effectVars, callVars, pageVars, late, gaugeVars>>

\* The handler reads its input.
ReadInput(r) ==
  /\ pc[r] = "known"
  /\ \/ Goto(r, "admitted")
     \/ MayBe(r, "invalid") /\ Answer(r, "invalid")
  /\ UNCHANGED <<guardVars, effectVars, callVars, pageVars, late, gaugeVars>>

\* The result is encoded, and the handler answers.
Encode(r) ==
  /\ pc[r] = "answering"
  /\ \/ Answer(r, reply[r])
     \/ reply[r] = "ok" /\ MayBe(r, "unencodable") /\ Answer(r, "internal")
  /\ UNCHANGED <<guardVars, effectVars, callVars, pageVars, late, gaugeVars>>

\* metrics_middleware, before the answer leaves: it counts the active sessions,
\* and sets the gauge in a later step. If the query fails it leaves it alone.
Observe(r) ==
  /\ pc[r] = "observing"
  /\ \/ /\ counted' = [counted EXCEPT ![r] = Cardinality(Active)]
        /\ Goto(r, "measuring")
     \/ Goto(r, "done") /\ UNCHANGED counted
  /\ UNCHANGED <<guardVars, effectVars, callVars, shown, late, gaugeVars>>

Sets(r, number) == gauge' = number /\ setter' = r

\* MUTANT of Measure: the gauge is incremented where it should be set.
MeasureAdds(r) ==
  /\ pc[r] = "measuring"
  /\ Sets(r, gauge + counted[r])
  /\ counted' = [counted EXCEPT ![r] = None]
  /\ Goto(r, "done")
  /\ UNCHANGED <<guardVars, effectVars, callVars, shown, late>>

Measure(r) ==
  /\ pc[r] = "measuring"
  /\ Sets(r, counted[r])
  /\ counted' = [counted EXCEPT ![r] = None]
  /\ Goto(r, "done")
  /\ UNCHANGED <<guardVars, effectVars, callVars, shown, late>>

\* The client goes away and its handler is dropped where it waits.
Disconnect(r) ==
  /\ InFlight(r)
  /\ pc' = [pc EXCEPT ![r] = "done"]
  /\ reply' = [reply EXCEPT ![r] = "dropped"]
  /\ UNCHANGED <<guardVars, effectVars, callVars, pageVars, late, gaugeVars>>

-----------------------------------------------------------------------------
(* Operations without authorize: the check of the token is all there is.    *)

Asked(r, o) == pc[r] = "admitted" /\ op[r] = o

\* whoami, ValidateSession: what the check of the token returned.
Whoami(r) ==
  /\ Asked(r, "validate_session")
  /\ Result(r, "ok")
  /\ UNCHANGED <<guardVars, effectVars, callVars, pageVars, late, gaugeVars>>

\* u64 as i64.
Signed(n) == IF n < 2^(TtlBits - 1) THEN n ELSE n - 2^TtlBits

\* What create_session makes of ttl_secs: 0 is the default over gRPC, none is
\* over HTTP.
Asks(r) ==
  IF input[r] = None \/ (proto[r] = "grpc" /\ input[r] = 0) THEN DefaultTtl
  ELSE Signed(input[r])

\* MUTANT of Lifetime: what was asked for is passed on as it is.
LifetimeAsGiven(r) == Asks(r)

\* ttl_secs.max(1), in seconds.
Lifetime(r) == IF Asks(r) < 1 THEN 1 ELSE Asks(r)

\* session_with_ttl, up to its event. The caller knows nothing of the session yet.
CreateSession(r) ==
  /\ Asked(r, "create_session")
  /\ \/ /\ \E s \in Session :
             /\ status[s] = "none"
             /\ status' = [status EXCEPT ![s] = "active"]
             /\ expires' = [expires EXCEPT ![s] = now + TicksPerSecond * Lifetime(r)]
        /\ applied' = applied \cup {r}
        /\ pc' = [pc EXCEPT ![r] = "emitting"]
        /\ reply' = [reply EXCEPT ![r] = "ok"]
     \/ Result(r, "internal") /\ UNCHANGED <<status, expires, applied>>
  /\ UNCHANGED <<now, events, callVars, pageVars, late, gaugeVars>>

RevokeSession(r) ==
  /\ Asked(r, "revoke_session")
  /\ \/ /\ status[input[r]] # "none"
        /\ status' = [status EXCEPT ![input[r]] = "revoked"]
        /\ Overtakes({input[r]})
        /\ applied' = applied \cup {r}
        /\ Result(r, "ok")
     \/ Result(r, "internal") /\ UNCHANGED <<status, late, applied>>
  /\ UNCHANGED <<now, expires, events, callVars, pageVars, gaugeVars>>

CountSessions(r) ==
  /\ Asked(r, "active_session_count")
  /\ \/ counted' = [counted EXCEPT ![r] = Cardinality(Active)] /\ Result(r, "ok")
     \/ Result(r, "internal") /\ UNCHANGED counted
  /\ UNCHANGED <<guardVars, effectVars, callVars, shown, late, gaugeVars>>

\* Only core and, unless local only, sync can be unwell; ready tells, health reports.
Health(r) ==
  /\ pc[r] = "admitted" /\ op[r] \in {"health", "ready"}
  /\ \/ Result(r, "ok")
     \/ op[r] = "ready" /\ Result(r, "unhealthy")
  /\ UNCHANGED <<guardVars, effectVars, callVars, pageVars, late, gaugeVars>>

\* metrics: count, set the gauge if that went well, render all metrics.
Scrape(r) ==
  /\ Asked(r, "metrics")
  /\ \/ /\ counted' = [counted EXCEPT ![r] = Cardinality(Active)]
        /\ Goto(r, "scraped")
     \/ Goto(r, "rendering") /\ UNCHANGED counted
  /\ UNCHANGED <<guardVars, effectVars, callVars, shown, late, gaugeVars>>

\* MUTANT of ScrapeSet: the gauge is left as it was.
ScrapeSetNothing(r) ==
  /\ pc[r] = "scraped"
  /\ Goto(r, "rendering")
  /\ UNCHANGED <<guardVars, effectVars, callVars, pageVars, late, gaugeVars>>

ScrapeSet(r) ==
  /\ pc[r] = "scraped"
  /\ Sets(r, counted[r])
  /\ Goto(r, "rendering")
  /\ UNCHANGED <<guardVars, effectVars, callVars, pageVars, late>>

Render(r) ==
  /\ pc[r] = "rendering"
  /\ shown' = [shown EXCEPT ![r] = <<gauge, counted[r], setter>>]
  /\ Result(r, "ok")
  /\ UNCHANGED <<guardVars, effectVars, callVars, counted, late, gaugeVars>>

-----------------------------------------------------------------------------
(* Operations of ClawDB that authorize *)

All == <<"*", "*">>

\* scope_matches, of two scopes <<family, right>>.
ScopeMatches(granted, required) ==
  \/ granted = All
  \/ granted = required
  \/ granted[2] = "*" /\ granted[1] = required[1]

Accepted(o) ==
  {<<Engine[o].family, right>> : right \in Engine[o].rights \cup {"*"}} \cup {All}

Allowed(s, o) == \E g \in ScopesOf[s], a \in Accepted(o) : ScopeMatches(g, a)

\* MUTANT of Valid: the session that the edge has checked is believed.
ValidAtEdge(s) == s \in Session

Valid(s) == Live(s)

Denies(r) ==
  /\ pc' = [pc EXCEPT ![r] = "emitting"]
  /\ reply' = [reply EXCEPT ![r] = "denied"]

\* authorize: the session is validated again, then its scopes are compared; a
\* denial is emitted before it is answered. An error of guard is passed on.
Authorize(r) ==
  /\ pc[r] = "admitted" /\ op[r] \in DOMAIN Engine
  /\ \/ ~Valid(caller[r]) /\ Result(r, "unauthorized")
     \/ Valid(caller[r]) /\ Allowed(caller[r], op[r]) /\ Goto(r, "authorized")
     \/ Valid(caller[r]) /\ ~Allowed(caller[r], op[r]) /\ Denies(r)
     \/ Result(r, "internal")
  /\ UNCHANGED <<guardVars, effectVars, callVars, pageVars, late, gaugeVars>>

\* What there is no engine for: reflect is skipped, so is sync when local only;
\* the other operations of reflect are refused.
Absent(o) ==
  \/ o = "sync" /\ LocalOnly
  \/ Engine[o].family = "reflect" /\ ~Reflect

WithoutEngine(r) ==
  /\ pc[r] = "authorized" /\ Absent(op[r])
  /\ Result(r, IF op[r] \in {"sync", "reflect"} THEN "ok" ELSE "disabled")
  /\ UNCHANGED <<guardVars, effectVars, callVars, pageVars, late, gaugeVars>>

\* The call of claw-branch, claw-sync or claw-reflect.
Call(r) ==
  /\ pc[r] = "authorized" /\ ~Absent(op[r])
  /\ applied' = IF Engine[op[r]].changes THEN applied \cup {r} ELSE applied
  /\ IF Engine[op[r]].event = None
       THEN Result(r, "ok")
       ELSE /\ pc' = [pc EXCEPT ![r] = "emitting"]
            /\ reply' = [reply EXCEPT ![r] = "ok"]
  /\ UNCHANGED <<guardVars, events, callVars, pageVars, late, gaugeVars>>

\* MUTANT of CallError: its error is ignored.
CallErrorIgnored(r) ==
  /\ pc[r] = "authorized" /\ ~Absent(op[r])
  /\ Result(r, "ok")
  /\ UNCHANGED <<guardVars, effectVars, callVars, pageVars, late, gaugeVars>>

\* It fails, and may have done what it was called for: a sync round pushes
\* before it pulls.
CallError(r) ==
  /\ pc[r] = "authorized" /\ ~Absent(op[r])
  /\ \/ UNCHANGED applied
     \/ Engine[op[r]].changes /\ applied' = applied \cup {r}
  /\ Result(r, "internal")
  /\ UNCHANGED <<guardVars, events, callVars, pageVars, late, gaugeVars>>

Kind(r) ==
  IF reply[r] = "denied" THEN "PolicyDenied"
  ELSE IF op[r] = "create_session" THEN "SessionCreated"
  ELSE IF op[r] \in DOMAIN Engine THEN Engine[op[r]].event ELSE None

\* ClawDB::emit, once it has the plugin manager.
Emit(r) ==
  /\ pc[r] = "emitting"
  /\ events' = events \cup {<<r, Kind(r)>>}
  /\ Goto(r, "answering")
  /\ UNCHANGED <<guardVars, applied, callVars, pageVars, late, gaugeVars>>

-----------------------------------------------------------------------------
Handle(r) ==
  \/ Authenticate(r) \/ ReadInput(r) \/ Encode(r) \/ Observe(r) \/ Measure(r)
  \/ Whoami(r) \/ CreateSession(r) \/ RevokeSession(r) \/ CountSessions(r)
  \/ Health(r) \/ Scrape(r) \/ ScrapeSet(r) \/ Render(r)
  \/ Authorize(r) \/ WithoutEngine(r) \/ Call(r) \/ CallError(r) \/ Emit(r)

Next ==
  \/ \E r \in Request : Arrive(r) \/ RateLimit(r) \/ Handle(r) \/ Disconnect(r)
  \/ Tick

Spec == Init /\ [][Next]_vars

-----------------------------------------------------------------------------
(* Properties *)

Over(r) == pc[r] = "done" /\ reply[r] # "dropped"

\* Every variable has the type its declaration states.
TypeOK ==
  /\ now \in 0..MaxTick
  /\ status \in [Session -> {"none", "active", "revoked"}]
  /\ \A s \in Session : expires[s] \in Int
  /\ applied \subseteq Request
  /\ events \subseteq Request \X (Events \ {None})
  /\ gauge \in 0..Cardinality(Session) /\ setter \in Request \cup {None}
  /\ \A r \in Request :
       /\ pc[r] \in Phase /\ reply[r] \in Reply
       /\ op[r] \in DOMAIN Handler[proto[r]]
       /\ caller[r] \in Session \cup {None}
       /\ input[r] \in Ttl \cup Session \cup {None}
       /\ counted[r] \in 0..Cardinality(Session) \cup {None}
       /\ late[r] \in BOOLEAN /\ beside[r] \subseteq Request

Changes(o) == IF o \in DOMAIN Engine THEN Engine[o].changes /\ ~Absent(o)
              ELSE o \in {"create_session", "revoke_session"}

\* What a client is told is what happened: of a request that was refused, for
\* whatever reason and by whichever layer, nothing was done; one that was done
\* says so. Only an internal error of branch, sync and reflect leaves it open:
\* of sessions none was created or revoked.
EffectsAgreeWithAnswers ==
  \A r \in Request : Over(r) =>
    IF reply[r] = "internal" THEN r \in applied => op[r] \in DOMAIN Engine
    ELSE r \in applied <=> reply[r] = "ok" /\ Changes(op[r])

\* Plugins and clients are told the same: an event of a change or a denial is
\* of one that took place, and one that was answered has its event.
EventsAgreeWithAnswers ==
  /\ \A e \in events :
       /\ e[2] # "PolicyDenied" <=> e[1] \in applied
       /\ e[2] = "PolicyDenied" => reply[e[1]] \in {"denied", "dropped"}
  /\ \A r \in Request : Over(r) =>
       /\ reply[r] = "denied" => <<r, "PolicyDenied">> \in events
       /\ reply[r] = "ok" /\ r \in applied /\ Kind(r) # None => <<r, Kind(r)>> \in events

\* What was done, what was emitted and what was answered agree, whatever failed
\* on the way.
AnswersAreTrue == EffectsAgreeWithAnswers /\ EventsAgreeWithAnswers

\* A session that ended, by revocation or by time, gets nothing out of the
\* requests whose last check was still to come, wherever they were: at the edge,
\* on every route that asks for a session, or between the edge and authorize.
EndedIsOut ==
  \A r \in Request : late[r] =>
    r \notin applied /\ reply[r] \notin {"ok", "denied", "disabled"}

\* Nothing of branches, sync or reflect changes for a session without a scope
\* that grants it.
ChangesNeedScope ==
  \A r \in applied : op[r] \in DOMAIN Engine =>
    \E g \in ScopesOf[caller[r]] :
      \/ g = All
      \/ g[1] = Engine[op[r]].family /\ g[2] \in Engine[op[r]].rights \cup {"*"}

\* Only a session that is alive when it is checked for the last time, and may,
\* gets anything done.
OnlyTheEntitled == EndedIsOut /\ ChangesNeedScope

\* No client is given a session that is over, whatever ttl_secs it asked for:
\* the cast to i64 of a large number is negative.
NeverBornDead ==
  [][\A s \in Session : status[s] = "none" /\ status'[s] = "active" =>
       expires'[s] >= now + TicksPerSecond]_vars

\* Every session guard would accept is counted, and none that was revoked or
\* has been over for a second.
CountIsClose ==
  /\ {s \in Session : Live(s)} \subseteq Active
  /\ \A s \in Active : status[s] = "active" /\ now < expires[s] + TicksPerSecond

\* A metrics page for which the sessions were counted shows that count, or one
\* that a request running beside it has put in its place: never one left behind
\* by a request that was over before.
PageIsFresh ==
  \A r \in Request : Over(r) /\ op[r] = "metrics" /\ shown[r][2] # None =>
    \/ shown[r][3] = r /\ shown[r][1] = shown[r][2]
    \/ shown[r][3] \in beside[r]

\* The number of active sessions that is shown is one that was true a moment ago.
GaugeIsTrue == CountIsClose /\ PageIsFresh

=============================================================================
