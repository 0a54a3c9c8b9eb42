------------------------------ MODULE MemoryIndex ------------------------------
(***************************************************************************)
(* The memory operations of the engine, outside of transactions: remember, *)
(* update, delete, recall and search, running concurrently over claw-core  *)
(* (the store) and claw-vector (the semantic index), which share nothing   *)
(* but what remember writes to both.                                       *)
(*                                                                         *)
(* A memory is identified with the request that remembered it, a content   *)
(* with the request (remember or update) that wrote it. A request runs     *)
(* authorize, then one or more calls of the stores, with an await before   *)
(* each of them: its client, or the process, may be gone at any of these   *)
(* points. Nothing of a request outlives the process but what it wrote, so *)
(* a crash is the disconnection of every client at once.                   *)
(*                                                                         *)
(* Which of the memories a query finds is left open, and ranking, top_k    *)
(* and filters with it. Sessions are those of ServerTx, and the events     *)
(* that remember and search send are those of PluginEvents.                *)
(***************************************************************************)
EXTENDS Naturals, FiniteSets

CONSTANTS Request,        \* requests that clients send
          None            \* no content

ASSUME NoneAssumption == None \notin Request

VARIABLES enabled,   \* config.vector.enabled, as it was when the engine was made
          core,      \* content of each memory in claw-core, or None
          known,     \* memories ever inserted there, deleted since or not
          index,     \* memories that claw-vector has, as they were remembered
          pc, op,
          wanted,    \* memories an update, delete or recall still has to do
          found,     \* <<memory, content>> pairs a recall or search has read
          indexed,   \* RememberResult::indexed
          reply,     \* what the client was answered
          past       \* requests answered "ok" before a request arrived

storeVars == <<core, known, index>>
callVars  == <<enabled, op, past>>
vars == <<storeVars, callVars, pc, wanted, found, indexed, reply>>

Op    == {"remember", "update", "delete", "recall", "semantic", "fts"}
Phase == {"idle", "arrived", "authorized", "inserted", "written", "done"}
Reply == {"none", "ok", "refused", "error", "dropped"}

Init ==
  /\ enabled \in BOOLEAN
  /\ core = [m \in Request |-> None] /\ known = {} /\ index = {}
  /\ pc = [r \in Request |-> "idle"]
  /\ op = [r \in Request |-> "remember"]
  /\ wanted = [r \in Request |-> {}]
  /\ found = [r \in Request |-> {}]
  /\ indexed = [r \in Request |-> FALSE]
  /\ reply = [r \in Request |-> "none"]
  /\ past = [r \in Request |-> {}]

Goto(r, phase) == pc' = [pc EXCEPT ![r] = phase] /\ UNCHANGED reply

Answer(r, how) ==
  /\ pc' = [pc EXCEPT ![r] = "done"]
  /\ reply' = [reply EXCEPT ![r] = how]

Stored == {m \in Request : core[m] # None}

-----------------------------------------------------------------------------
(* Clients name memories whose id some answer could have told them. *)

Arrive(r) ==
  /\ pc[r] = "idle"
  /\ \E o \in Op, W \in SUBSET known :
       /\ (W # {}) <=> o \in {"update", "delete", "recall"}
       /\ Cardinality(W) <= 1 \/ o = "recall"
       /\ op' = [op EXCEPT ![r] = o]
       /\ wanted' = [wanted EXCEPT ![r] = W]
  /\ past' = [past EXCEPT ![r] = {q \in Request : reply[q] = "ok"}]
  /\ Goto(r, "arrived")
  /\ UNCHANGED <<enabled, storeVars, found, indexed>>

\* ClawDB::authorize: the session is valid and has one of the scopes, or not.
Authorize(r) ==
  /\ pc[r] = "arrived"
  /\ Goto(r, "authorized") \/ Answer(r, "refused")
  /\ UNCHANGED <<storeVars, callVars, wanted, found, indexed>>

\* The call of a store fails and its error is returned, a memory that is not
\* there included. (Not so for the upsert of remember, see IndexMemory.)
StoreError(r) ==
  /\ pc[r] = "authorized"
  /\ Answer(r, "error")
  /\ UNCHANGED <<storeVars, callVars, wanted, found, indexed>>

-----------------------------------------------------------------------------
(* Writing *)

\* MUTANT of InsertMemory: the error of the insert is ignored.
InsertMemoryIgnoresError(r) ==
  /\ pc[r] = "authorized" /\ op[r] = "remember"
  /\ \/ core' = [core EXCEPT ![r] = r] /\ known' = known \cup {r}
     \/ UNCHANGED <<core, known>>
  /\ Goto(r, "inserted")
  /\ UNCHANGED <<index, callVars, wanted, found, indexed>>

\* remember_typed, first store.
InsertMemory(r) ==
  /\ pc[r] = "authorized" /\ op[r] = "remember"
  /\ core' = [core EXCEPT ![r] = r]
  /\ known' = known \cup {r}
  /\ Goto(r, "inserted")
  /\ UNCHANGED <<index, callVars, wanted, found, indexed>>

\* MUTANT of IndexMemory: indexed says that there is an index.
IndexMemoryAssumed(r) ==
  /\ pc[r] = "inserted"
  /\ index' \in IF enabled THEN {index, index \cup {r}} ELSE {index}
  /\ indexed' = [indexed EXCEPT ![r] = enabled]
  /\ Goto(r, "written")
  /\ UNCHANGED <<core, known, callVars, wanted, found>>

\* remember_typed, second store: a failed upsert is logged, and told only by
\* the indexed flag of a result that is Ok all the same.
IndexMemory(r) ==
  /\ pc[r] = "inserted"
  /\ \/ /\ enabled
        /\ index' = index \cup {r}
        /\ indexed' = [indexed EXCEPT ![r] = TRUE]
     \/ UNCHANGED <<index, indexed>>
  /\ Goto(r, "written")
  /\ UNCHANGED <<core, known, callVars, wanted, found>>

\* The write is done (remember has its event to send): the result is returned.
Written(r) ==
  /\ pc[r] = "written"
  /\ Answer(r, "ok")
  /\ UNCHANGED <<storeVars, callVars, wanted, found, indexed>>

\* MUTANT of UpdateMemory: the client is answered before the write.
UpdateMemoryLater(r) ==
  /\ op[r] = "update"
  /\ \/ pc[r] = "authorized" /\ Answer(r, "ok") /\ UNCHANGED <<core, wanted>>
     \/ /\ reply[r] = "ok"
        /\ core' = [m \in Request |-> IF m \in wanted[r] \cap Stored THEN r ELSE core[m]]
        /\ wanted' = [wanted EXCEPT ![r] = {}]
        /\ UNCHANGED <<pc, reply>>
  /\ UNCHANGED <<known, index, callVars, found, indexed>>

\* update_memory writes the store only; claw-core has no row to update when
\* the memory was deleted, and may or may not say so.
UpdateMemory(r) ==
  /\ pc[r] = "authorized" /\ op[r] = "update"
  /\ core' = [m \in Request |-> IF m \in wanted[r] \cap Stored THEN r ELSE core[m]]
  /\ Goto(r, "written")
  /\ UNCHANGED <<known, index, callVars, wanted, found, indexed>>

\* delete_memory deletes from the store only.
DeleteMemory(r) ==
  /\ pc[r] = "authorized" /\ op[r] = "delete"
  /\ core' = [m \in Request |-> IF m \in wanted[r] THEN None ELSE core[m]]
  /\ Goto(r, "written")
  /\ UNCHANGED <<known, index, callVars, wanted, found, indexed>>

-----------------------------------------------------------------------------
(* Reading *)

\* MUTANT of Recall: a memory that is not there is read as an empty one.
RecallMissing(r) ==
  /\ pc[r] = "authorized" /\ op[r] = "recall"
  /\ \E m \in wanted[r] :
       /\ found' = [found EXCEPT ![r] = @ \cup {<<m, core[m]>>}]
       /\ wanted' = [wanted EXCEPT ![r] = @ \ {m}]
       /\ IF wanted[r] = {m} THEN Answer(r, "ok") ELSE UNCHANGED <<pc, reply>>
  /\ UNCHANGED <<storeVars, callVars, indexed>>

\* recall gets one memory after the other; recall_one is the case of one.
Recall(r) ==
  /\ pc[r] = "authorized" /\ op[r] = "recall"
  /\ \E m \in wanted[r] \cap Stored :
       /\ found' = [found EXCEPT ![r] = @ \cup {<<m, core[m]>>}]
       /\ wanted' = [wanted EXCEPT ![r] = @ \ {m}]
       /\ IF wanted[r] = {m} THEN Answer(r, "ok") ELSE UNCHANGED <<pc, reply>>
  /\ UNCHANGED <<storeVars, callVars, indexed>>

\* A semantic search is answered from the index alone.
SearchIndex(r) ==
  /\ pc[r] = "authorized" /\ op[r] = "semantic" /\ enabled
  /\ \E hits \in SUBSET index : found' = [found EXCEPT ![r] = {<<m, m>> : m \in hits}]
  /\ Answer(r, "ok")
  /\ UNCHANGED <<storeVars, callVars, wanted, indexed>>

\* A full-text search, any search when there is no index, or list_memories:
\* one query of the store.
SearchStore(r) ==
  /\ pc[r] = "authorized"
  /\ op[r] = "fts" \/ (op[r] = "semantic" /\ ~enabled)
  /\ \E hits \in SUBSET Stored :
       found' = [found EXCEPT ![r] = {<<m, core[m]>> : m \in hits}]
  /\ Answer(r, "ok")
  /\ UNCHANGED <<storeVars, callVars, wanted, indexed>>

\* The client, or the process, goes away.
Disconnect(r) ==
  /\ pc[r] \notin {"idle", "done"}
  /\ Answer(r, "dropped")
  /\ UNCHANGED <<storeVars, callVars, wanted, found, indexed>>

Next ==
  \E r \in Request :
    \/ Arrive(r) \/ Authorize(r) \/ StoreError(r) \/ Disconnect(r)
    \/ InsertMemory(r) \/ IndexMemory(r)
    \/ UpdateMemory(r) \/ DeleteMemory(r) \/ Written(r)
    \/ Recall(r) \/ SearchIndex(r) \/ SearchStore(r)

Spec == Init /\ [][Next]_vars

-----------------------------------------------------------------------------
(* Properties *)

\* Every variable has the type its declaration states; what was found is there.
TypeOK ==
  /\ enabled \in BOOLEAN
  /\ core \in [Request -> Request \cup {None}]
  /\ known \subseteq Request /\ index \subseteq Request
  /\ pc \in [Request -> Phase]
  /\ op \in [Request -> Op]
  /\ wanted \in [Request -> SUBSET Request]
  /\ found \in [Request -> SUBSET (Request \X Request)]
  /\ indexed \in [Request -> BOOLEAN]
  /\ reply \in [Request -> Reply]
  /\ past \in [Request -> SUBSET Request]

\* The index only knows memories that were durable before, whichever call of
\* remember fails and wherever its client goes away.
IndexFollowsStore == index \subseteq known

\* A client that was told "indexed" can find its memory in the index, for good:
\* no other operation takes it out.
IndexedIsTrue == \A r \in Request : indexed[r] /\ reply[r] = "ok" => r \in index

\* A client that was told its memory id can recall it until someone deletes it,
\* whatever happened to the index: an error of a delete means that it is there.
Deletes(m) == {d \in Request : op[d] = "delete" /\ m \in wanted[d]}
RememberedIsKept ==
  \A r \in Request :
    op[r] = "remember" /\ reply[r] = "ok" /\ r \notin Stored
      => \E d \in Deletes(r) : pc[d] = "written" \/ reply[d] \in {"ok", "dropped"}

\* What remember answers stays true of both stores.
RememberIsTrue == IndexedIsTrue /\ RememberedIsKept

\* Content w of memory m was overtaken before r arrived: a write of m came
\* after w was acknowledged, and was acknowledged itself before r arrived.
Writes(m)         == Deletes(m) \cup {u \in Request : op[u] = "update" /\ m \in wanted[u]}
Overtaken(r, m, w) == \E v \in Writes(m) : v \in past[r] /\ w \in past[v]
Current(r)        == \A f \in found[r] : ~Overtaken(r, f[1], f[2])

\* recall and full-text search never show a content that an acknowledged update
\* had replaced, or a memory that an acknowledged delete had removed, before
\* the reader sent its request.
StoreReadsCurrent ==
  \A r \in Request :
    op[r] \in {"recall", "fts"} \/ ~enabled => Current(r)

\* The same of semantic search: "delete_memory: Delete a memory" and
\* "update_memory: Update memory content" (clawdb/README.md) are what a search
\* sent afterwards should see.
SearchReadsCurrent == \A r \in Request : Current(r)
=============================================================================
