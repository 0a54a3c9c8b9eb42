-------------------------- MODULE ServerShutdownProofs --------------------------
(***************************************************************************)
(* Safety theorems of ServerShutdown, for any number of requests.          *)
(***************************************************************************)
EXTENDS ServerShutdown, TLAPS

LEMMA JoinsAre == DOMAIN Joins = 1..3 /\ Len(Joins) = 3
BY DEF Joins

\* Before the end of the process nothing is told of it, and a server drains
\* only after the signal. What is joined as well stays so, and a server that
\* has ended has no request left.
Underway ==
  /\ main # "done" => exit = "none" /\ ~cut /\ branch # "failed"
  /\ main = "serving" => ~cancelled
  /\ main = "closing" /\ joined = "ok" => \A s \in Server : task[s] = "ended"
  /\ \A s \in Server : /\ task[s] \in {"draining", "ended"} => cancelled
                       /\ task[s] = "ended" => requests[s] = 0

IInv == TypeOK /\ Underway /\ OkMeansStopped

LEMMA InitInvariant == Init => IInv
<1> SUFFICES ASSUME Init PROVE IInv
  OBVIOUS
<1>1. TypeOK
  <2>1. 0 \in 0..MaxRequests /\ 1 \in DOMAIN Joins
    BY RequestsAssumption, JoinsAre
  <2> QED
    BY <2>1 DEF Init, TypeOK
<1>2. Underway
  BY DEF Init, Underway
<1>3. OkMeansStopped
  BY DEF Init, OkMeansStopped, OkMeansDrained, OkMeansClosed
<1> QED
  BY <1>1, <1>2, <1>3 DEF IInv

\* A step of a server or a request, with main where it was.
LEMMA ServingStep ==
  ASSUME IInv, Running, UNCHANGED <<main, cancelled, next, joined, engineVars, endVars>>,
         task' \in [Server -> {"serving", "draining", "ended", "failed", "panicked"}],
         requests' \in [Server -> 0..MaxRequests],
         \A s \in Server : /\ task[s] = "ended" => task'[s] = "ended"
                           /\ task'[s] \in {"draining", "ended"} => cancelled
                           /\ task'[s] = "ended" => requests'[s] = 0
  PROVE  IInv'
<1>1. TypeOK'
  BY DEF IInv, TypeOK, Running, engineVars, endVars
<1>2. Underway'
  BY DEF IInv, Underway, engineVars, endVars
<1>3. OkMeansStopped'
  BY <1>2 DEF IInv, Underway, OkMeansStopped, OkMeansDrained, OkMeansClosed, Running, Over, engineVars, endVars
<1> QED
  BY <1>1, <1>2, <1>3 DEF IInv

LEMMA RequestStep ==
  ASSUME IInv, NEW s \in Server, Accept(s) \/ Finish(s) PROVE IInv'
<1>1. /\ Running /\ UNCHANGED <<main, cancelled, next, joined, engineVars, endVars>> /\ task' = task
      /\ \/ task[s] = "serving" /\ requests[s] < MaxRequests /\ requests' = [requests EXCEPT ![s] = @ + 1]
         \/ requests[s] > 0 /\ requests' = [requests EXCEPT ![s] = @ - 1]
  BY DEF Accept, Finish
<1>2. requests \in [Server -> 0..MaxRequests] /\ MaxRequests \in Nat
  BY RequestsAssumption DEF IInv, TypeOK
<1>3. requests[s] \in 0..MaxRequests
  BY <1>2
<1>4. requests' \in [Server -> 0..MaxRequests] /\ \A u \in Server : u # s => requests'[u] = requests[u]
  BY <1>1, <1>2, <1>3
<1>5. task[s] # "ended"
  BY <1>1 DEF IInv, Underway
<1> QED
  BY <1>1, <1>4, <1>5, ServingStep DEF IInv, Underway, TypeOK

LEMMA TaskStep ==
  ASSUME IInv, NEW s \in Server, Drain(s) \/ Ends(s) \/ Fails(s) PROVE IInv'
<1>1. PICK how \in {"draining", "ended", "failed", "panicked"} :
        /\ Goes(s, how) /\ task[s] # "ended"
        /\ how \in {"draining", "ended"} => cancelled
        /\ how = "ended" => requests[s] = 0
  BY DEF Drain, Ends, Fails, Over, IInv, Underway
<1>2. /\ Running /\ UNCHANGED <<main, cancelled, requests, next, joined, engineVars, endVars>>
      /\ task' = [task EXCEPT ![s] = how]
  BY <1>1 DEF Goes
<1>3. /\ task' \in [Server -> {"serving", "draining", "ended", "failed", "panicked"}]
      /\ task'[s] = how /\ \A u \in Server : u # s => task'[u] = task[u]
  BY <1>2 DEF IInv, TypeOK
<1> QED
  BY <1>1, <1>2, <1>3, ServingStep DEF IInv, Underway, TypeOK

\* main returns, and says that all is well only if it is.
LEMMA ReturnStep ==
  ASSUME IInv, NEW how \in {"ok", "error", "killed"}, Return(how),
         UNCHANGED <<cancelled, task, next, joined>>,
         branch' \in {"open", "closed", "failed"}, sync' \in {"open", "closed", "failed"},
         how = "ok" => /\ \A s \in Server : requests[s] = 0
                       /\ cancelled => branch' = "closed" /\ sync' = "closed"
  PROVE  IInv'
<1>1. /\ main' = "done" /\ exit' = how /\ requests' = [s \in Server |-> 0]
      /\ cut' = (\E s \in Server : requests[s] > 0)
  BY DEF Return
<1>2. cut' \in BOOLEAN /\ (how = "ok" => ~cut')
  BY <1>1
<1>3. TypeOK'
  BY <1>1, <1>2, RequestsAssumption DEF IInv, TypeOK
<1>4. Underway'
  BY <1>1 DEF IInv, Underway
<1>5. OkMeansStopped'
  BY <1>1, <1>2 DEF OkMeansStopped, OkMeansDrained, OkMeansClosed
<1> QED
  BY <1>3, <1>4, <1>5 DEF IInv

\* A step of main that does not return.
LEMMA MainStep ==
  ASSUME IInv, UNCHANGED <<taskVars, endVars>>, main # "done", main' \in {"joining", "closing"},
         cancelled' \in BOOLEAN, cancelled => cancelled', next' \in DOMAIN Joins,
         joined' \in {"none", "ok", "error", "timeout"}, branch' \in {"open", "closed"}, sync' = sync,
         main' = "closing" /\ joined' = "ok" => \A s \in Server : task[s] = "ended"
  PROVE  IInv'
<1>1. TypeOK'
  BY DEF IInv, TypeOK, taskVars, endVars
<1>2. Underway'
  BY DEF IInv, Underway, taskVars, endVars
<1>3. OkMeansStopped'
  BY <1>2 DEF IInv, Underway, OkMeansStopped, OkMeansDrained, OkMeansClosed, Over, taskVars, endVars
<1> QED
  BY <1>1, <1>2, <1>3 DEF IInv

LEMMA StepInvariant == IInv /\ [Next]_vars => IInv'
<1> SUFFICES ASSUME IInv, [Next]_vars PROVE IInv'
  OBVIOUS
<1> USE DEF engineVars, taskVars, endVars
<1>1. ASSUME NEW s \in Server, TaskExit(s) PROVE IInv'
  <2>1. task[s] # "ended"
    BY <1>1 DEF TaskExit, IInv, Underway
  <2> QED
    BY <1>1, <2>1, ReturnStep DEF TaskExit, IInv, TypeOK
<1>2. CASE Signal
  BY <1>2, MainStep DEF Signal, IInv, TypeOK, Underway
<1>3. CASE Join
  <2>1. /\ main = "joining" /\ next \in 1..3 /\ branch # "failed"
        /\ UNCHANGED <<cancelled, taskVars, engineVars, endVars>>
    BY <1>3, JoinsAre DEF Join, IInv, TypeOK, Underway
  <2>2. CASE next' = next + 1 /\ next < 3 /\ UNCHANGED <<main, joined>>
    BY <2>1, <2>2, JoinsAre, MainStep DEF IInv, TypeOK, Underway
  <2>3. ASSUME NEW how \in {"ok", "error"}, Close(how), next' = next,
               how = "ok" => \A s \in Server : task[s] = "ended"
        PROVE  IInv'
    BY <2>1, <2>3, MainStep DEF Close, IInv, TypeOK, Underway
  <2>4. CASE Close("error") /\ next' = next
    BY <2>3, <2>4
  <2>5. CASE /\ Close(IF \A s \in Server : task[s] = "ended" THEN "ok" ELSE "error")
             /\ next' = next
    BY <2>3, <2>5
  <2> QED
    BY <1>3, <2>2, <2>4, <2>5, JoinsAre DEF Join
<1>4. CASE GraceOver
  BY <1>4, MainStep DEF GraceOver, Close, IInv, TypeOK, Underway
<1>5. CASE CloseBranch
  <2>1. CASE branch' = "closed" /\ UNCHANGED <<main, requests, endVars>>
    BY <1>5, <2>1, MainStep DEF CloseBranch, IInv, TypeOK, Underway
  <2>2. CASE branch' = "failed" /\ Return("error")
    BY <1>5, <2>2, ReturnStep DEF CloseBranch, IInv, TypeOK
  <2> QED
    BY <1>5, <2>1, <2>2 DEF CloseBranch
<1>6. CASE CloseSync
  <2>1. /\ main = "closing" /\ branch = "closed" /\ branch' = branch /\ UNCHANGED <<cancelled, task, next, joined>>
        /\ joined = "ok" => \A s \in Server : requests[s] = 0
    BY <1>6 DEF CloseSync, IInv, TypeOK, Underway
  <2>2. PICK how \in {"ok", "error"} :
          /\ Return(how) /\ sync' \in {"closed", "failed"}
          /\ how = "ok" => joined = "ok" /\ sync' = "closed"
    BY <1>6 DEF CloseSync
  <2> QED
    BY <2>1, <2>2, ReturnStep
<1>7. CASE Kill
  BY <1>7, ReturnStep DEF Kill, IInv, TypeOK
<1>8. CASE UNCHANGED vars
  BY <1>8 DEF vars, IInv, TypeOK, Underway, OkMeansStopped, OkMeansDrained, OkMeansClosed, Over
<1> QED
  BY <1>1, <1>2, <1>3, <1>4, <1>5, <1>6, <1>7, <1>8, RequestStep, TaskStep DEF Next, Shutdown

\* The invariant holds of every execution.
THEOREM Invariance == Spec => []IInv
BY InitInvariant, StepInvariant, PTL DEF Spec

\* Every variable keeps its type.
THEOREM TypeCorrect == Spec => []TypeOK
BY Invariance, PTL DEF IInv

\* A process that says it stopped well was drained and closed, in this order.
THEOREM OkMeansStoppedHolds == Spec => []OkMeansStopped
BY Invariance, PTL DEF IInv
=============================================================================
