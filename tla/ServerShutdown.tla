----------------------------- MODULE ServerShutdown -----------------------------
(***************************************************************************)
(* The end of a clawdb-server process: main selects between a signal and   *)
(* the exit of one of the three server tasks. After a signal it cancels    *)
(* the token the tasks listen to, joins them one after the other within a  *)
(* grace period, closes the engine, and only then looks at how the joining *)
(* went (RunningServers::shutdown). After the exit of a task it returns.   *)
(*                                                                         *)
(* A server drains: it stops accepting when it sees the token and ends     *)
(* when its requests are over. Requests are tasks of their own, which go   *)
(* on when their server fails, and are dropped when main returns.          *)
(***************************************************************************)
EXTENDS Naturals, Sequences, SequencesExt

CONSTANT MaxRequests   \* BOUND on the requests a server has at a time
ASSUME RequestsAssumption == MaxRequests \in Nat

Joins  == <<"grpc", "http", "metrics">>   \* in the order they are awaited
Server == ToSet(Joins)

VARIABLES main,       \* where main is
          cancelled,  \* RunningServers::shutdown, the token
          task,       \* of each server
          requests,   \* how many each server is serving
          next,       \* which task is awaited
          joined,     \* how the joining went
          branch, sync,  \* claw-branch and claw-sync
          exit,       \* what the process told its parent
          cut         \* requests were dropped by the end of the process

taskVars   == <<task, requests>>
engineVars == <<branch, sync>>
endVars    == <<exit, cut>>
vars == <<main, cancelled, taskVars, next, joined, engineVars, endVars>>

Over(s) == task[s] \in {"ended", "failed", "panicked"}

Init ==
  /\ main = "serving" /\ cancelled = FALSE
  /\ task = [s \in Server |-> "serving"]
  /\ requests = [s \in Server |-> 0]
  /\ next = 1 /\ joined = "none"
  /\ branch = "open" /\ sync = "open"
  /\ exit = "none" /\ cut = FALSE

-----------------------------------------------------------------------------
(* The servers *)

Running == main # "done"

Accept(s) ==
  /\ Running /\ task[s] = "serving" /\ requests[s] < MaxRequests
  /\ requests' = [requests EXCEPT ![s] = @ + 1]
  /\ UNCHANGED <<main, cancelled, task, next, joined, engineVars, endVars>>

Finish(s) ==
  /\ Running /\ requests[s] > 0
  /\ requests' = [requests EXCEPT ![s] = @ - 1]
  /\ UNCHANGED <<main, cancelled, task, next, joined, engineVars, endVars>>

Goes(s, how) ==
  /\ Running
  /\ task' = [task EXCEPT ![s] = how]
  /\ UNCHANGED <<main, cancelled, requests, next, joined, engineVars, endVars>>

\* with_graceful_shutdown: the token is seen, then the last request ends.
Drain(s)    == task[s] = "serving" /\ cancelled /\ Goes(s, "draining")
Ends(s)     == task[s] = "draining" /\ requests[s] = 0 /\ Goes(s, "ended")

\* serve returns an error, or its task panics.
Fails(s)    == ~Over(s) /\ (Goes(s, "failed") \/ Goes(s, "panicked"))

-----------------------------------------------------------------------------
(* main *)

\* main returns: the runtime drops every task that is left.
Return(how) ==
  /\ main' = "done"
  /\ exit' = how
  /\ cut' = (\E s \in Server : requests[s] > 0)
  /\ requests' = [s \in Server |-> 0]

\* select!, signal arm: shutdown cancels the token.
Signal ==
  /\ main = "serving"
  /\ cancelled' = TRUE
  /\ main' = "joining"
  /\ UNCHANGED <<taskVars, next, joined, engineVars, endVars>>

\* select!, the other arms: task_exit, and main returns with its result.
TaskExit(s) ==
  /\ main = "serving" /\ Over(s)
  /\ Return(IF task[s] = "ended" THEN "ok" ELSE "error")
  /\ UNCHANGED <<cancelled, task, next, joined, engineVars>>

Close(how) == main' = "closing" /\ joined' = how

\* MUTANT of Join: the first task that ends is enough.
JoinAny ==
  /\ main = "joining"
  /\ \E s \in Server : Over(s) /\ Close(IF task[s] = "ended" THEN "ok" ELSE "error")
  /\ UNCHANGED <<cancelled, taskVars, next, engineVars, endVars>>

\* The next task is over. A panicked one ends the joining there (`?` on the
\* JoinError); an error of a server is looked at when all three are joined.
Join ==
  /\ main = "joining" /\ Over(Joins[next])
  /\ IF task[Joins[next]] = "panicked"
       THEN Close("error") /\ UNCHANGED next
       ELSE IF next < Len(Joins)
       THEN next' = next + 1 /\ UNCHANGED <<main, joined>>
       ELSE /\ Close(IF \A s \in Server : task[s] = "ended" THEN "ok" ELSE "error")
            /\ UNCHANGED next
  /\ UNCHANGED <<cancelled, taskVars, engineVars, endVars>>

\* MUTANT of GraceOver: the grace period is only looked at between requests.
GraceOverWhenIdle ==
  /\ main = "joining" /\ \A s \in Server : requests[s] = 0
  /\ Close("timeout")
  /\ UNCHANGED <<cancelled, taskVars, next, engineVars, endVars>>

\* timeout(grace, ...): the tasks are left to themselves.
GraceOver ==
  /\ main = "joining"
  /\ Close("timeout")
  /\ UNCHANGED <<cancelled, taskVars, next, engineVars, endVars>>

\* MUTANT of CloseBranch: the error of the first call is kept for later.
CloseBranchGoesOn ==
  /\ main = "closing" /\ branch = "open"
  /\ \/ branch' = "closed" /\ UNCHANGED exit
     \/ branch' = "failed" /\ exit' = "error"
  /\ UNCHANGED <<main, cancelled, taskVars, next, joined, sync, cut>>

\* ClawDB::close, first call: an error is returned at once.
CloseBranch ==
  /\ main = "closing" /\ branch = "open"
  /\ \/ /\ branch' = "closed"
        /\ UNCHANGED <<main, requests, endVars>>
     \/ /\ branch' = "failed"
        /\ Return("error")
  /\ UNCHANGED <<cancelled, task, next, joined, sync>>

\* ClawDB::close, second call; then shutdown returns how the joining went.
CloseSync ==
  /\ main = "closing" /\ branch # "open"
  /\ \/ sync' = "closed" /\ Return(IF joined = "ok" THEN "ok" ELSE "error")
     \/ sync' = "failed" /\ Return("error")
  /\ UNCHANGED <<cancelled, task, next, joined, branch>>

\* The process is killed.
Kill ==
  /\ Running
  /\ Return("killed")
  /\ UNCHANGED <<cancelled, task, next, joined, engineVars>>

-----------------------------------------------------------------------------
Shutdown == Join \/ GraceOver \/ CloseBranch \/ CloseSync

Next ==
  \/ \E s \in Server : Accept(s) \/ Finish(s) \/ Drain(s) \/ Ends(s) \/ Fails(s)
  \/ \E s \in Server : TaskExit(s)
  \/ Signal \/ Shutdown \/ Kill

Spec == Init /\ [][Next]_vars

\* The clock of the grace period ticks and the engine's calls return; nothing
\* is assumed of requests, servers or signals.
FairSpec == Spec /\ WF_vars(Shutdown)

-----------------------------------------------------------------------------
(* Properties *)

\* Every variable has the type its declaration states; a process has told how it
\* went exactly when it is over, and serves nothing from then on.
TypeOK ==
  /\ main \in {"serving", "joining", "closing", "done"}
  /\ cancelled \in BOOLEAN
  /\ task \in [Server -> {"serving", "draining", "ended", "failed", "panicked"}]
  /\ requests \in [Server -> 0..MaxRequests]
  /\ next \in DOMAIN Joins
  /\ joined \in {"none", "ok", "error", "timeout"}
  /\ branch \in {"open", "closed", "failed"} /\ sync \in {"open", "closed", "failed"}
  /\ exit \in {"none", "ok", "error", "killed"}
  /\ cut \in BOOLEAN
  /\ main = "done" <=> exit # "none"
  /\ main = "done" => \A s \in Server : requests[s] = 0

\* A process that says it stopped well has answered every request it accepted
\* and none of them ran into a closing engine: a grace period that ran out, or
\* a server that did not end well, is never reported as success.
OkMeansDrained ==
  /\ exit = "ok" => ~cut
  /\ main = "closing" /\ joined = "ok" => \A s \in Server : Over(s) /\ requests[s] = 0

\* A process that says it stopped well after a signal has closed both engines.
OkMeansClosed == exit = "ok" /\ cancelled => branch = "closed" /\ sync = "closed"

\* Success means that the whole server was shut down, in its order.
OkMeansStopped == OkMeansDrained /\ OkMeansClosed

\* After a signal the process ends, even if no request and no server ever does.
ShutdownEnds == cancelled ~> main = "done"
=============================================================================
