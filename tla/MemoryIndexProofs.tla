--------------------------- MODULE MemoryIndexProofs ---------------------------
(***************************************************************************)
(* Safety theorems of MemoryIndex, for any set of requests, finite or not, *)
(* with or without claw-vector.                                            *)
(***************************************************************************)
EXTENDS MemoryIndex, TLAPS

-----------------------------------------------------------------------------
(* The inductive invariant *)

\* The store of an update or delete was reached.
Effective(v) == pc[v] = "written" \/ reply[v] = "ok"

\* What is known of a request where it is.
Progress(r) ==
  /\ pc[r] = "idle" => reply[r] = "none" /\ found[r] = {}
  /\ reply[r] # "none" => pc[r] = "done"
  /\ pc[r] = "inserted" => op[r] = "remember"
  /\ op[r] = "remember" /\ (pc[r] = "inserted" \/ Effective(r)) => r \in known
  /\ indexed[r] => r \in index
  /\ \A q \in past[r] : reply[q] = "ok"

\* Only a delete takes a memory out of the store.
LostByDelete ==
  \A m \in known : core[m] = None =>
    \E d \in Deletes(m) : Effective(d) \/ reply[d] = "dropped"

\* A content that an effective write was to replace is not in the store.
CoreIsFresh ==
  \A m \in Request : \A v \in Writes(m) : Effective(v) => core[m] \notin past[v]

IInv ==
  /\ TypeOK /\ IndexFollowsStore
  /\ \A r \in Request : Progress(r)
  /\ LostByDelete /\ CoreIsFresh /\ StoreReadsCurrent

-----------------------------------------------------------------------------
LEMMA InitInvariant == Init => IInv
<1> SUFFICES ASSUME Init PROVE IInv
  OBVIOUS
<1>1. TypeOK
  BY DEF Init, TypeOK, Phase, Op, Reply
<1>2. \A r \in Request : Progress(r)
  BY DEF Init, Progress, Effective
<1>3. CoreIsFresh
  BY DEF Init, CoreIsFresh, Effective, Writes, Deletes
<1>4. StoreReadsCurrent
  BY DEF Init, StoreReadsCurrent, Current
<1> QED
  BY <1>1, <1>2, <1>3, <1>4 DEF IInv, Init, IndexFollowsStore, LostByDelete

(* A step of one request *)

Step(r) ==
  \/ Arrive(r) \/ Authorize(r) \/ StoreError(r) \/ Disconnect(r)
  \/ InsertMemory(r) \/ IndexMemory(r)
  \/ UpdateMemory(r) \/ DeleteMemory(r) \/ Written(r)
  \/ Recall(r) \/ SearchIndex(r) \/ SearchStore(r)

LEMMA TypeStep ==
  ASSUME TypeOK, NEW r \in Request, Step(r)
  PROVE  TypeOK'
<1> USE DEF TypeOK, Phase, Op, Reply, storeVars, callVars, Goto, Answer
<1>1. CASE Arrive(r)
  BY <1>1 DEF Arrive
<1>2. CASE Authorize(r) \/ StoreError(r) \/ Disconnect(r) \/ Written(r)
  BY <1>2 DEF Authorize, StoreError, Disconnect, Written
<1>3. CASE InsertMemory(r)
  BY <1>3 DEF InsertMemory
<1>4. CASE IndexMemory(r)
  BY <1>4 DEF IndexMemory
<1>5. CASE UpdateMemory(r)
  BY <1>5 DEF UpdateMemory
<1>6. CASE DeleteMemory(r)
  BY <1>6 DEF DeleteMemory
<1>7. CASE Recall(r)
  BY <1>7 DEF Recall, Stored
<1>8. CASE SearchIndex(r)
  BY <1>8 DEF SearchIndex
<1>9. CASE SearchStore(r)
  BY <1>9 DEF SearchStore, Stored
<1> QED
  BY <1>1, <1>2, <1>3, <1>4, <1>5, <1>6, <1>7, <1>8, <1>9 DEF Step

\* What a step leaves as it is: the other requests, what this one asked for,
\* and what was answered.
LEMMA Frame ==
  ASSUME TypeOK, NEW r \in Request, Progress(r), Step(r)
  PROVE  /\ enabled' = enabled /\ known \subseteq known' /\ index \subseteq index'
         /\ \A q \in Request \ {r} :
              /\ pc'[q] = pc[q] /\ reply'[q] = reply[q] /\ op'[q] = op[q] /\ past'[q] = past[q]
              /\ wanted'[q] = wanted[q] /\ found'[q] = found[q] /\ indexed'[q] = indexed[q]
         /\ pc[r] # "idle" => op'[r] = op[r] /\ past'[r] = past[r]
         /\ pc[r] # "idle" /\ op[r] # "recall" => wanted'[r] = wanted[r]
         /\ reply[r] = "none" /\ pc[r] # "done"
<1> USE DEF TypeOK, storeVars, callVars, Goto, Answer
<1>1. pc[r] # "done" /\ reply[r] = "none"
  BY DEF Step, Progress, Arrive, Authorize, StoreError, Disconnect, InsertMemory, IndexMemory,
     UpdateMemory, DeleteMemory, Written, Recall, SearchIndex, SearchStore
<1>2. CASE Arrive(r)
  BY <1>1, <1>2 DEF Arrive
<1>3. CASE Authorize(r) \/ StoreError(r) \/ Disconnect(r) \/ Written(r)
  BY <1>1, <1>3 DEF Authorize, StoreError, Disconnect, Written
<1>4. CASE InsertMemory(r) \/ IndexMemory(r)
  BY <1>1, <1>4 DEF InsertMemory, IndexMemory
<1>5. CASE UpdateMemory(r) \/ DeleteMemory(r)
  BY <1>1, <1>5 DEF UpdateMemory, DeleteMemory
<1>6. CASE Recall(r)
  BY <1>1, <1>6 DEF Recall
<1>7. CASE SearchIndex(r) \/ SearchStore(r)
  BY <1>1, <1>7 DEF SearchIndex, SearchStore
<1> QED
  BY <1>2, <1>3, <1>4, <1>5, <1>6, <1>7 DEF Step

LEMMA ProgressStep ==
  ASSUME TypeOK, \A q \in Request : Progress(q), NEW r \in Request, Step(r)
  PROVE  \A q \in Request : Progress(q)'
<1> USE DEF Progress, Effective
<1>1. \A q \in Request : reply[q] = "ok" => reply'[q] = "ok"
  BY Frame
<1>2. \A q \in Request \ {r} : Progress(q)'
  BY Frame, <1>1 DEF TypeOK
<1>3. Progress(r)'
  <2> USE DEF TypeOK, storeVars, callVars, Goto, Answer
  <2>1. CASE Arrive(r)
    BY <2>1, <1>1 DEF Arrive
  <2>2. CASE Authorize(r) \/ StoreError(r) \/ Disconnect(r) \/ Written(r)
    BY <2>2, <1>1 DEF Authorize, StoreError, Disconnect, Written
  <2>3. CASE InsertMemory(r) \/ IndexMemory(r)
    BY <2>3, <1>1 DEF InsertMemory, IndexMemory
  <2>4. CASE UpdateMemory(r) \/ DeleteMemory(r)
    BY <2>4, <1>1 DEF UpdateMemory, DeleteMemory
  <2>5. CASE Recall(r)
    BY <2>5, <1>1 DEF Recall
  <2>6. CASE SearchIndex(r) \/ SearchStore(r)
    BY <2>6, <1>1 DEF SearchIndex, SearchStore
  <2> QED
    BY <2>1, <2>2, <2>3, <2>4, <2>5, <2>6 DEF Step
<1> QED
  BY <1>2, <1>3

LEMMA IndexStep ==
  ASSUME TypeOK, IndexFollowsStore, NEW r \in Request, Progress(r), Step(r)
  PROVE  IndexFollowsStore'
<1>1. CASE IndexMemory(r)
  BY <1>1 DEF IndexMemory, Progress, IndexFollowsStore
<1>2. CASE ~IndexMemory(r)
  <2>1. index' = index
    BY <1>2 DEF Step, Arrive, Authorize, StoreError, Disconnect, InsertMemory, UpdateMemory,
       DeleteMemory, Written, Recall, SearchIndex, SearchStore, storeVars
  <2> QED
    BY <2>1, Frame DEF IndexFollowsStore
<1> QED
  BY <1>1, <1>2

\* The writes of a memory that were effective, or dropped, stay so.
LEMMA WritesStay ==
  ASSUME TypeOK, NEW r \in Request, Progress(r), Step(r), NEW m \in Request,
         NEW v \in Request, pc[v] # "idle"
  PROVE  /\ v \in Writes(m) => v \in Writes(m)'
         /\ v \in Deletes(m) => v \in Deletes(m)'
         /\ v \in Writes(m)' => v \in Writes(m)
BY Frame DEF Writes, Deletes

LEMMA LostStep ==
  ASSUME TypeOK, \A q \in Request : Progress(q), LostByDelete, NEW r \in Request, Step(r)
  PROVE  LostByDelete'
<1> SUFFICES ASSUME NEW m \in known', core'[m] = None
             PROVE  \E d \in Deletes(m)' : Effective(d)' \/ reply'[d] = "dropped"
  BY DEF LostByDelete
<1>0. m \in Request
  BY TypeStep DEF TypeOK
<1>1. CASE m \in known /\ core[m] = None
  <2>1. PICK d \in Deletes(m) : Effective(d) \/ reply[d] = "dropped"
    BY <1>1 DEF LostByDelete
  <2>2. d \in Request /\ pc[d] # "idle"
    BY <2>1 DEF Deletes, Effective, Progress
  <2>3. d \in Deletes(m)'
    BY <2>2, <1>0, <2>1, WritesStay
  <2>4. d # r => pc'[d] = pc[d] /\ reply'[d] = reply[d]
    BY Frame, <2>2
  <2>5. d = r => pc[r] = "written"
    BY <2>1, Frame DEF Effective
  <2>6. pc[r] = "written" => reply'[r] \in {"ok", "dropped"}
    BY DEF Step, Arrive, Authorize, StoreError, Disconnect, InsertMemory, IndexMemory, UpdateMemory,
       DeleteMemory, Written, Recall, SearchIndex, SearchStore, Answer, TypeOK
  <2> QED
    BY <2>1, <2>3, <2>4, <2>5, <2>6 DEF Effective
<1>2. CASE m \notin known
  <2>1. InsertMemory(r) /\ m = r
    BY <1>2 DEF Step, Arrive, Authorize, StoreError, Disconnect, InsertMemory, IndexMemory,
       UpdateMemory, DeleteMemory, Written, Recall, SearchIndex, SearchStore, storeVars
  <2> QED
    BY <1>0, <2>1, NoneAssumption DEF InsertMemory, TypeOK
<1>3. CASE core[m] # None
  <2>1. DeleteMemory(r) /\ m \in wanted[r]
    BY <1>0, <1>3, NoneAssumption DEF Step, Arrive, Authorize, StoreError, Disconnect, InsertMemory,
       IndexMemory, UpdateMemory, DeleteMemory, Written, Recall, SearchIndex, SearchStore,
       storeVars, TypeOK
  <2>2. r \in Deletes(m)' /\ pc'[r] = "written"
    BY <2>1 DEF DeleteMemory, Deletes, Goto, callVars, TypeOK
  <2> QED
    BY <2>2 DEF Effective
<1> QED
  BY <1>1, <1>2, <1>3

\* A step writes no content that was acknowledged before.
LEMMA NewContent ==
  ASSUME TypeOK, \A q \in Request : Progress(q), NEW r \in Request, Step(r), NEW m \in Request,
         NEW v \in Request
  PROVE  /\ core'[m] \in {core[m], None, r}
         /\ None \notin past[v] /\ r \notin past[v]
<1>1. core'[m] \in {core[m], None, r}
  BY DEF Step, Arrive, Authorize, StoreError, Disconnect, InsertMemory, IndexMemory, UpdateMemory,
     DeleteMemory, Written, Recall, SearchIndex, SearchStore, storeVars, TypeOK
<1>2. r \notin past[v]
  BY Frame DEF Progress
<1> QED
  BY <1>1, <1>2, NoneAssumption DEF TypeOK

LEMMA FreshStep ==
  ASSUME TypeOK, \A q \in Request : Progress(q), CoreIsFresh, NEW r \in Request, Step(r)
  PROVE  CoreIsFresh'
<1> SUFFICES ASSUME NEW m \in Request, NEW v \in Writes(m)', Effective(v)'
             PROVE  core'[m] \notin past'[v]
  BY DEF CoreIsFresh
<1>0. v \in Request
  BY DEF Writes, Deletes
<1>1. CASE Effective(v)
  <2>1. pc[v] # "idle"
    BY <1>0, <1>1 DEF Effective, Progress
  <2>2. v \in Writes(m) /\ past'[v] = past[v]
    BY <1>0, <2>1, WritesStay, Frame
  <2> QED
    BY <1>0, <1>1, <2>2, NewContent DEF CoreIsFresh
<1>2. CASE ~Effective(v)
  <2>1. v = r
    BY <1>0, <1>2, Frame DEF Effective
  <2>2. UpdateMemory(r) \/ DeleteMemory(r)
    BY <1>2, <2>1 DEF Effective, Writes, Deletes, Step, Arrive, Authorize, StoreError, Disconnect,
       InsertMemory, IndexMemory, Written, Recall, SearchIndex, SearchStore, callVars, Goto, Answer,
       TypeOK, Progress
  <2>3. m \in wanted[r] /\ past'[r] = past[r]
    BY <2>1, <2>2 DEF Writes, Deletes, UpdateMemory, DeleteMemory, callVars
  <2>4. core'[m] \in {None, r}
    BY <2>2, <2>3 DEF UpdateMemory, DeleteMemory, Stored
  <2> QED
    BY <2>1, <2>3, <2>4, NewContent
<1> QED
  BY <1>1, <1>2

LEMMA CurrentStep ==
  ASSUME TypeOK, \A q \in Request : Progress(q), CoreIsFresh, StoreReadsCurrent,
         NEW r \in Request, Step(r)
  PROVE  StoreReadsCurrent'
<1> SUFFICES ASSUME NEW q \in Request, op'[q] \in {"recall", "fts"} \/ ~enabled', NEW f \in found'[q],
                    NEW v \in Writes(f[1])', v \in past'[q], f[2] \in past'[v]
             PROVE  FALSE
  BY DEF StoreReadsCurrent, Current, Overtaken
<1>0. v \in Request /\ f \in Request \X Request
  BY TypeStep DEF TypeOK, Writes, Deletes
<1>1. CASE f \in found[q]
  <2>1. pc[q] # "idle"
    BY <1>1 DEF Progress
  <2>2. op'[q] = op[q] /\ past'[q] = past[q] /\ enabled' = enabled
    BY <2>1, Frame
  <2>3. reply[v] = "ok" /\ pc[v] # "idle"
    BY <1>0, <2>2 DEF Progress
  <2>4. v \in Writes(f[1]) /\ past'[v] = past[v]
    BY <1>0, <2>3, WritesStay, Frame
  <2> QED
    BY <1>1, <2>2, <2>4 DEF StoreReadsCurrent, Current, Overtaken
<1>2. CASE f \notin found[q]
  <2>1. q = r /\ (Recall(r) \/ SearchStore(r))
    <3>1. q = r
      BY <1>2, Frame
    <3>2. Recall(r) \/ SearchStore(r) \/ SearchIndex(r)
      BY <1>2, <3>1 DEF Step, Arrive, Authorize, StoreError, Disconnect, InsertMemory, IndexMemory,
         UpdateMemory, DeleteMemory, Written
    <3> QED
      BY <3>1, <3>2 DEF SearchIndex, callVars
  <2>2. f[2] = core[f[1]] /\ pc[r] = "authorized"
    BY <1>2, <2>1 DEF Recall, SearchStore, TypeOK
  <2>3. v \in past[r] /\ reply[v] = "ok" /\ pc[v] # "idle"
    BY <1>0, <2>1, <2>2, Frame DEF Progress
  <2>4. v \in Writes(f[1]) /\ past'[v] = past[v]
    BY <1>0, <2>3, WritesStay, Frame
  <2> QED
    BY <1>0, <2>2, <2>3, <2>4 DEF CoreIsFresh, Effective
<1> QED
  BY <1>1, <1>2

LEMMA StepInvariant == IInv /\ [Next]_vars => IInv'
<1> SUFFICES ASSUME IInv, [Next]_vars PROVE IInv'
  OBVIOUS
<1> USE DEF IInv
<1>1. ASSUME NEW r \in Request, Step(r) PROVE IInv'
  BY <1>1, TypeStep, IndexStep, ProgressStep, LostStep, FreshStep, CurrentStep
<1>2. CASE UNCHANGED vars
  BY <1>2 DEF vars, storeVars, callVars, TypeOK, IndexFollowsStore, Progress, Effective, LostByDelete,
     CoreIsFresh, StoreReadsCurrent, Current, Overtaken, Writes, Deletes
<1> QED
  BY <1>1, <1>2 DEF Next, Step

-----------------------------------------------------------------------------
(* Theorems *)

\* The invariant of the memory operations, for every interleaving of requests,
\* failures of either store and disconnections.
THEOREM Invariance == Spec => []IInv
BY InitInvariant, StepInvariant, PTL DEF Spec

\* Every variable keeps its type.
THEOREM TypeCorrect == Spec => []TypeOK
BY Invariance, PTL DEF IInv

\* remember_typed inserts before it indexes, and nothing else indexes: the
\* index never has a memory that was not durable first.
THEOREM IndexFollowsStoreHolds == Spec => []IndexFollowsStore
BY Invariance, PTL DEF IInv

\* What remember_typed answers, "indexed" and the id of a memory, stays true
\* until somebody deletes the memory.
THEOREM RememberIsTrueHolds == Spec => []RememberIsTrue
<1>1. IInv => IndexedIsTrue
  BY DEF IInv, Progress, IndexedIsTrue
<1>2. IInv => RememberedIsKept
  <2> SUFFICES ASSUME IInv, NEW r \in Request, op[r] = "remember", reply[r] = "ok", r \notin Stored
               PROVE  \E d \in Deletes(r) : pc[d] = "written" \/ reply[d] \in {"ok", "dropped"}
    BY DEF RememberedIsKept
  <2>1. r \in known /\ core[r] = None
    BY DEF IInv, Progress, Effective, Stored
  <2> QED
    BY <2>1 DEF IInv, LostByDelete, Effective
<1> QED
  BY <1>1, <1>2, Invariance, PTL DEF RememberIsTrue

\* recall, full-text search and list_memories show nothing that an acknowledged
\* update or delete had replaced before they were sent.
THEOREM StoreReadsCurrentHolds == Spec => []StoreReadsCurrent
BY Invariance, PTL DEF IInv
=============================================================================
