----------------------------- MODULE PluginEvents -----------------------------
(***************************************************************************)
(* How the effects of engine calls reach plugins. A call applies its       *)
(* effect, then awaits the mutex of the PluginManager to send one event to *)
(* a bounded broadcast channel (ClawDB::emit). One background task, the    *)
(* dispatcher, receives an event, awaits the same mutex, and keeps it      *)
(* while every plugin in turn handles the event (PluginManager::dispatch). *)
(*                                                                         *)
(* An event is identified with the call that sends it. The mutex is        *)
(* tokio's: it is given to whoever waits in the order they came. A plugin  *)
(* handler always returns; what it returns is ignored by the code.         *)
(* ClawDB::close does not reach the dispatcher: it has no action here.     *)
(***************************************************************************)
EXTENDS Naturals, Sequences, SequencesExt

CONSTANTS Call,        \* engine calls that reach the database
          Dispatcher,  \* the task spawned by ClawDB::new
          None,        \* nobody, nothing
          Plugins,     \* how many shared libraries are in plugins_dir
          Capacity     \* of the broadcast channel (256 in the code)

ASSUME CallAssumption     == Dispatcher \notin Call /\ None \notin Call \cup {Dispatcher}
ASSUME PluginsAssumption  == Plugins \in Nat
ASSUME CapacityAssumption == Capacity \in Nat \ {0}

VARIABLES loaded,     \* how many plugins were loaded from them
          pc,         \* where a call is
          applied,    \* calls whose effect is durable
          refused,    \* calls that authorize denied
          reply,      \* what a call returned
          holder,     \* who holds the mutex of the plugin manager
          waiters,    \* who waits for it, first come first served
          sent,       \* every event sent to the channel, in order
          buffer,     \* events the receiver has not taken yet
          lagged,     \* the channel has overwritten one of those
          dispatcher, \* where the dispatcher is
          current,    \* the event it has received and not finished with
          turn,       \* the plugin that handles it next
          seen        \* the events each plugin was handed, in order

callVars    == <<pc, applied, refused, reply>>
mutexVars   == <<holder, waiters>>
channelVars == <<sent, buffer, lagged>>
taskVars    == <<dispatcher, current, turn, seen, loaded>>
vars == <<callVars, mutexVars, channelVars, taskVars>>

\* load_from_dir, in the order of the directory, returns at the first library
\* that is no plugin and keeps those before it; ClawDB::new ignores the error.
LoadFromDir == loaded \in 0..Plugins

Init ==
  /\ LoadFromDir
  /\ pc = [c \in Call |-> "running"]
  /\ applied = {} /\ refused = {}
  /\ reply = [c \in Call |-> "none"]
  /\ holder = None /\ waiters = <<>>
  /\ sent = <<>> /\ buffer = <<>> /\ lagged = FALSE
  /\ dispatcher = "receiving" /\ current = None /\ turn = 1
  /\ seen = [p \in 1..loaded |-> <<>>]

-----------------------------------------------------------------------------
(* An engine call *)

\* MUTANT of Apply: the event is announced before the effect.
ApplyAfterEmit(c) ==
  /\ pc[c] = "running"
  /\ pc' = [pc EXCEPT ![c] = "announcing"]
  /\ UNCHANGED <<applied, refused, reply, mutexVars, channelVars, taskVars>>

\* remember_typed: the memory is durable in core (and its vector upsert awaited).
Apply(c) ==
  /\ pc[c] = "running"
  /\ applied' = applied \cup {c}
  /\ pc' = [pc EXCEPT ![c] = "announcing"]
  /\ UNCHANGED <<refused, reply, mutexVars, channelVars, taskVars>>

\* authorize finds no scope for the call, which has no effect but has an event
\* to send all the same (PolicyDenied) before it fails.
Deny(c) ==
  /\ pc[c] = "running"
  /\ refused' = refused \cup {c}
  /\ pc' = [pc EXCEPT ![c] = "announcing"]
  /\ UNCHANGED <<applied, reply, mutexVars, channelVars, taskVars>>

\* The call fails before it has had any effect, and sends no event.
Fail(c) ==
  /\ pc[c] = "running"
  /\ pc' = [pc EXCEPT ![c] = "done"]
  /\ reply' = [reply EXCEPT ![c] = "error"]
  /\ UNCHANGED <<applied, refused, mutexVars, channelVars, taskVars>>

\* What the call returns once its event is sent.
Outcome(c) == IF c \in refused THEN "denied" ELSE "ok"

\* emit: the call queues for the mutex.
AwaitManager(c) ==
  /\ pc[c] = "announcing"
  /\ waiters' = Append(waiters, c)
  /\ pc' = [pc EXCEPT ![c] = "emitting"]
  /\ UNCHANGED <<applied, refused, reply, holder, channelVars, taskVars>>

\* MUTANT of Push: an unbounded channel.
PushUnbounded(e) ==
  IF dispatcher = "ended" THEN UNCHANGED <<buffer, lagged>>
  ELSE buffer' = Append(buffer, e) /\ UNCHANGED lagged

\* What broadcast::Sender::send does: the oldest event gives way when Capacity
\* of them are waiting; with no receiver left the event goes nowhere.
Push(e) ==
  IF dispatcher = "ended" THEN UNCHANGED <<buffer, lagged>>
  ELSE IF Len(buffer) < Capacity
       THEN buffer' = Append(buffer, e) /\ UNCHANGED lagged
       ELSE buffer' = Append(Tail(buffer), e) /\ lagged' = TRUE

\* emit has the mutex: it sends and lets go without another await, and the
\* call returns to its caller.
Emit(c) ==
  /\ pc[c] = "emitting"
  /\ holder = None /\ Head(waiters) = c
  /\ waiters' = Tail(waiters)
  /\ sent' = Append(sent, c)
  /\ Push(c)
  /\ pc' = [pc EXCEPT ![c] = "done"]
  /\ reply' = [reply EXCEPT ![c] = Outcome(c)]
  /\ UNCHANGED <<applied, refused, holder, taskVars>>

\* The client of a call goes away and the call is dropped at its await: its
\* effect may be there, its event is never sent.
Disconnect(c) ==
  /\ pc[c] # "done"
  /\ pc' = [pc EXCEPT ![c] = "done"]
  /\ reply' = [reply EXCEPT ![c] = "dropped"]
  /\ \/ \E i \in 1..Len(waiters) : waiters[i] = c /\ waiters' = RemoveAt(waiters, i)
     \/ c \notin ToSet(waiters) /\ UNCHANGED waiters
  /\ UNCHANGED <<applied, refused, holder, channelVars, taskVars>>

-----------------------------------------------------------------------------
(* The dispatcher: `while let Ok(event) = recv().await { lock; dispatch }` *)

\* recv gives the oldest event; the task goes on to wait for the mutex.
Receive ==
  /\ dispatcher = "receiving" /\ ~lagged /\ buffer # <<>>
  /\ current' = Head(buffer)
  /\ buffer' = Tail(buffer)
  /\ waiters' = Append(waiters, Dispatcher)
  /\ dispatcher' = "locking"
  /\ UNCHANGED <<callVars, holder, sent, lagged, turn, seen, loaded>>

\* MUTANT of Lag: the loop survives Err(Lagged) and goes on with what is left.
LagContinues ==
  /\ dispatcher = "receiving" /\ lagged
  /\ lagged' = FALSE
  /\ UNCHANGED <<callVars, mutexVars, sent, buffer, taskVars>>

\* recv gives Err(Lagged): the loop, and with it the receiver, is over.
Lag ==
  /\ dispatcher = "receiving" /\ lagged
  /\ dispatcher' = "ended"
  /\ buffer' = <<>>
  /\ lagged' = FALSE
  /\ UNCHANGED <<callVars, mutexVars, sent, current, turn, seen, loaded>>

Lock ==
  /\ dispatcher = "locking"
  /\ holder = None /\ Head(waiters) = Dispatcher
  /\ holder' = Dispatcher
  /\ waiters' = Tail(waiters)
  /\ dispatcher' = "dispatching"
  /\ UNCHANGED <<callVars, channelVars, current, turn, seen, loaded>>

\* dispatch: the next plugin handles the event, well or with an error.
OnEvent ==
  /\ dispatcher = "dispatching" /\ turn <= loaded
  /\ seen' = [seen EXCEPT ![turn] = Append(@, current)]
  /\ turn' = turn + 1
  /\ UNCHANGED <<callVars, mutexVars, channelVars, dispatcher, current, loaded>>

\* MUTANT of Unlock: the guard of the mutex outlives the loop's body.
UnlockForgotten ==
  /\ dispatcher = "dispatching" /\ turn > loaded
  /\ current' = None
  /\ turn' = 1
  /\ dispatcher' = "receiving"
  /\ UNCHANGED <<callVars, mutexVars, channelVars, seen, loaded>>

\* Every plugin is done: the mutex guard goes out of scope.
Unlock ==
  /\ dispatcher = "dispatching" /\ turn > loaded
  /\ holder' = None
  /\ current' = None
  /\ turn' = 1
  /\ dispatcher' = "receiving"
  /\ UNCHANGED <<callVars, waiters, channelVars, seen, loaded>>

-----------------------------------------------------------------------------
Run(c) == Apply(c) \/ Deny(c) \/ Fail(c) \/ AwaitManager(c) \/ Emit(c)

Dispatch == Receive \/ Lag \/ Lock \/ OnEvent \/ Unlock

Next == (\E c \in Call : Run(c) \/ Disconnect(c)) \/ Dispatch

Spec == Init /\ [][Next]_vars

\* The runtime polls each task again and again; the databases and the plugins
\* answer every call.
FairSpec == Spec /\ WF_vars(Dispatch) /\ \A c \in Call : WF_vars(Run(c))

-----------------------------------------------------------------------------
(* Properties *)

\* Every variable has the type its declaration states.
TypeOK ==
  /\ pc \in [Call -> {"running", "announcing", "emitting", "done"}]
  /\ applied \subseteq Call /\ refused \subseteq Call
  /\ reply \in [Call -> {"none", "ok", "denied", "error", "dropped"}]
  /\ holder \in {None, Dispatcher}
  /\ waiters \in Seq(Call \cup {Dispatcher})
  /\ sent \in Seq(Call)
  /\ buffer \in Seq(Call) /\ Len(buffer) <= Capacity
  /\ lagged \in BOOLEAN
  /\ dispatcher \in {"receiving", "locking", "dispatching", "ended"}
  /\ current \in Call \cup {None}
  /\ loaded \in 0..Plugins /\ turn \in 1..loaded + 1
  /\ seen \in [1..loaded -> Seq(Call)]

\* What a plugin was handed is what was sent, in the order it was sent, from
\* the first event on and with none left out: a dispatcher that falls behind
\* stops, it never skips.
SentOrder == \A p \in 1..loaded : IsPrefix(seen[p], sent)

\* Plugins are served in the order they were loaded: a later one is never
\* ahead of an earlier one, and never more than one event behind.
LoadOrder ==
  \A p, q \in 1..loaded : p < q =>
    /\ IsPrefix(seen[q], seen[p])
    /\ Len(seen[p]) <= Len(seen[q]) + 1

\* Every plugin sees a prefix of what was sent, in the order of loading.
PluginsSeePrefix == SentOrder /\ LoadOrder

\* A plugin never hears of an effect that is not durable: what it is told has
\* happened, or was denied to its caller.
HeardIsTrue ==
  \A p \in 1..loaded : ToSet(seen[p]) \subseteq applied \cup refused

\* A call that succeeded or was denied has sent its event, however busy the
\* manager was; one that failed or was dropped has not.
AckedIsSent == \A c \in Call : reply[c] \in {"ok", "denied"} <=> c \in ToSet(sent)

\* Plugins and clients are told the same story, and a true one.
EventsAreTrue == HeardIsTrue /\ AckedIsSent

\* No call waits for ever, neither for the mutex behind a dispatch nor behind
\* a call that was dropped while it queued.
EveryCallReturns == \A c \in Call : <>(pc[c] = "done")

\* ARCHITECTURE.md, Event Flow, step 3: plugin hooks are dispatched.
EveryEventDispatched ==
  \A c \in Call : c \in ToSet(sent) ~> \A p \in 1..loaded : c \in ToSet(seen[p])
=============================================================================
