------------------------------- MODULE ServerTx -------------------------------
(***************************************************************************)
(* Server-side transactions of clawdb-server: begin, stage, commit and     *)
(* rollback requests over gRPC and HTTP, running concurrently over one     *)
(* in-memory map of open transactions (AppState::transactions), and the    *)
(* engine transaction a commit or a rollback opens over claw-core and      *)
(* claw-vector.                                                            *)
(*                                                                         *)
(* A request is a member of Request and is served once, by a handler whose *)
(* local variables are pc, op, caller, tx, batch, wrote, upserts, reply.   *)
(* A step of a handler is the code between two of its awaits: the other    *)
(* handlers, a revocation, a disconnect or a crash may come in between.    *)
(*                                                                         *)
(* A staged memory is identified with the request that staged it, and a    *)
(* stored row with the pair <<s, r>>: the memory staged by s, inserted by  *)
(* the commit r (ClawTransaction::remember_typed draws a fresh row id on   *)
(* every insert, so two commits of one staged memory give two rows).       *)
(* The Vec of staged memories is kept as a set: its order is not observed. *)
(* Metrics, log lines and the PolicyDenied event are left out, and so are  *)
(* requests the server cannot parse: they change nothing. An error of the  *)
(* core commit is taken to mean that claw-core stored nothing.             *)
(***************************************************************************)
EXTENDS Naturals, FiniteSets

CONSTANTS Session,        \* sessions that guard issued
          Writer,         \* those whose scopes let them write memories
          Tx,             \* transaction ids (Uuid::new_v4)
          Request,        \* requests that clients send
          None,           \* no session presented / no transaction named
          VectorEnabled   \* config.vector.enabled

ASSUME SessionAssumption == Writer \subseteq Session /\ None \notin Session
ASSUME TxAssumption      == None \notin Tx
ASSUME VectorAssumption  == VectorEnabled \in BOOLEAN

VARIABLES live,      \* sessions guard still validates (not revoked, not expired)
          begun,     \* ids handed out by begin so far
          open,      \* keys of AppState::transactions
          owner,     \* session stored in an open transaction's entry
          staged,    \* memories staged in an open transaction's entry
          core,      \* rows durable in claw-core
          vector,    \* rows present in the claw-vector index
          pc, op, caller, tx,   \* where a handler is, and what it was asked
          batch,     \* staged memories a handler moved out of the map
          wrote,     \* memories inserted in the handler's open core transaction
          upserts,   \* ClawTransaction::pending_vector_upserts
          reply      \* what the client was answered

sessionVars == <<live>>
mapVars     == <<begun, open, owner, staged>>
storeVars   == <<core, vector>>
callVars    == <<op, caller>>
workVars    == <<batch, wrote, upserts>>
vars == <<sessionVars, mapVars, storeVars, callVars, workVars, pc, tx, reply>>

Op    == {"begin", "stage", "commit", "rollback"}
Phase == {"idle", "arrived", "admitted", "claimed", "writing", "flushing", "done"}
Reply == {"none", "ok", "not_found", "unauthorized", "denied", "limited",
          "internal", "dropped"}

Init ==
  /\ live = Session
  /\ begun = {} /\ open = {}
  /\ owner = [t \in Tx |-> None]
  /\ staged = [t \in Tx |-> {}]
  /\ core = {} /\ vector = {}
  /\ pc = [r \in Request |-> "idle"]
  /\ op = [r \in Request |-> "begin"]
  /\ caller = [r \in Request |-> None]
  /\ tx = [r \in Request |-> None]
  /\ batch = [r \in Request |-> {}]
  /\ wrote = [r \in Request |-> {}]
  /\ upserts = [r \in Request |-> {}]
  /\ reply = [r \in Request |-> "none"]

-----------------------------------------------------------------------------
(* Steps a handler's control takes *)

Goto(r, phase) == pc' = [pc EXCEPT ![r] = phase] /\ UNCHANGED reply

Answer(r, how) ==
  /\ pc' = [pc EXCEPT ![r] = "done"]
  /\ reply' = [reply EXCEPT ![r] = how]

\* Leaving a handler drops its ClawTransaction: what it inserted and did not
\* commit is rolled back, and what it had queued for the index is forgotten.
DropTransaction(r) ==
  /\ wrote' = [wrote EXCEPT ![r] = {}]
  /\ upserts' = [upserts EXCEPT ![r] = {}]
  /\ UNCHANGED batch

Rows(r) == {s \in Request : <<s, r>> \in core}

InFlight(r) == pc[r] \notin {"idle", "done"}

\* BOUND: begins that reach the server never outnumber the ids of Tx.
IdLeft == Cardinality({r \in Request : op[r] = "begin" /\ pc[r] # "idle"})
            < Cardinality(Tx)

-----------------------------------------------------------------------------
(* Requests arrive: begin needs the id of no transaction; the others name   *)
(* one that some begin handed out, open or not.                             *)

\* Every HTTP route under /v1/tx carries a bearer token.
ArriveHttp(r) ==
  /\ pc[r] = "idle"
  /\ \E o \in Op, s \in Session, t \in Tx \cup {None} :
       /\ IF o = "begin" THEN t = None /\ IdLeft ELSE t \in begun
       /\ op' = [op EXCEPT ![r] = o]
       /\ caller' = [caller EXCEPT ![r] = s]
       /\ tx' = [tx EXCEPT ![r] = t]
  /\ Goto(r, "arrived")
  /\ UNCHANGED <<sessionVars, mapVars, storeVars, workVars>>

\* Over gRPC only BeginTx looks at the session token; TxRemember, CommitTx and
\* RollbackTx are served from the transaction id alone.
ArriveGrpc(r) ==
  /\ pc[r] = "idle"
  /\ \E o \in Op, s \in Session \cup {None}, t \in Tx \cup {None} :
       /\ IF o = "begin" THEN s # None /\ t = None /\ IdLeft ELSE s = None /\ t \in begun
       /\ op' = [op EXCEPT ![r] = o]
       /\ caller' = [caller EXCEPT ![r] = s]
       /\ tx' = [tx EXCEPT ![r] = t]
  /\ Goto(r, "arrived")
  /\ UNCHANGED <<sessionVars, mapVars, storeVars, workVars>>

\* The token of the caller is validated before the handler runs; an error of
\* guard is answered like a session that has ended. The session may be revoked
\* between this step and the next one.
Authenticate(r) ==
  /\ pc[r] = "arrived"
  /\ \/ caller[r] \in live \cup {None} /\ Goto(r, "admitted")
     \/ caller[r] # None /\ Answer(r, "unauthorized")
  /\ UNCHANGED <<sessionVars, mapVars, storeVars, callVars, workVars, tx>>

\* The rate limiter answers in the handler's place: before the token is looked
\* at over gRPC; over HTTP after it, so that limiting the request of an ended
\* session as well is one answer too many, which changes nothing else.
RateLimit(r) ==
  /\ pc[r] = "arrived"
  /\ Answer(r, "limited")
  /\ UNCHANGED <<sessionVars, mapVars, storeVars, callVars, workVars, tx>>

-----------------------------------------------------------------------------
(* Handlers, one critical section of the map's mutex each *)

\* MUTANT of BeginTx: the id is not recorded as used.
BeginTxUnrecorded(r) ==
  /\ pc[r] = "admitted" /\ op[r] = "begin"
  /\ \E t \in Tx \ open :
       /\ open' = open \cup {t}
       /\ owner' = [owner EXCEPT ![t] = caller[r]]
       /\ staged' = [staged EXCEPT ![t] = {}]
       /\ tx' = [tx EXCEPT ![r] = t]
  /\ Answer(r, "ok")
  /\ UNCHANGED <<begun, sessionVars, storeVars, callVars, workVars>>

\* begin_tx / begin_transaction: a new id, an entry holding the session.
BeginTx(r) ==
  /\ pc[r] = "admitted" /\ op[r] = "begin"
  /\ \E t \in Tx \ begun :
       /\ begun' = begun \cup {t}
       /\ open' = open \cup {t}
       /\ owner' = [owner EXCEPT ![t] = caller[r]]
       /\ staged' = [staged EXCEPT ![t] = {}]
       /\ tx' = [tx EXCEPT ![r] = t]
  /\ Answer(r, "ok")
  /\ UNCHANGED <<sessionVars, storeVars, callVars, workVars>>

\* tx_remember(_typed): push on the entry, under the lock.
TxRemember(r) ==
  /\ pc[r] = "admitted" /\ op[r] = "stage"
  /\ tx[r] \in open
  /\ staged' = [staged EXCEPT ![tx[r]] = @ \cup {r}]
  /\ Answer(r, "ok")
  /\ UNCHANGED <<begun, open, owner, sessionVars, storeVars, callVars,
                 workVars, tx>>

\* stage, commit and rollback find no entry under the id.
TxNotFound(r) ==
  /\ pc[r] = "admitted" /\ op[r] # "begin"
  /\ tx[r] \notin open
  /\ Answer(r, "not_found")
  /\ UNCHANGED <<sessionVars, mapVars, storeVars, callVars, workVars, tx>>

\* MUTANT of TakeTx: the entry is read (get) where it should be removed.
TakeTxKeepsEntry(r) ==
  /\ pc[r] = "admitted" /\ op[r] \in {"commit", "rollback"}
  /\ tx[r] \in open
  /\ batch' = [batch EXCEPT ![r] = staged[tx[r]]]
  /\ Goto(r, "claimed")
  /\ UNCHANGED <<mapVars, wrote, upserts, sessionVars, storeVars, callVars, tx>>

\* commit_tx and rollback_tx start by removing the entry: from here on the
\* handler alone holds the transaction, and no failure puts it back.
TakeTx(r) ==
  /\ pc[r] = "admitted" /\ op[r] \in {"commit", "rollback"}
  /\ tx[r] \in open
  /\ open' = open \ {tx[r]}
  /\ batch' = [batch EXCEPT ![r] = staged[tx[r]]]
  /\ staged' = [staged EXCEPT ![tx[r]] = {}]
  /\ Goto(r, "claimed")
  /\ UNCHANGED <<begun, owner, wrote, upserts, sessionVars, storeVars,
                 callVars, tx>>

-----------------------------------------------------------------------------
(* The engine transaction *)

\* ClawDB::authorize, on the session kept in the entry (not the caller's).
Valid(s)      == s \in live
MayWrite(s)   == s \in Writer
AuthorizedAnyScope(s) == Valid(s)        \* MUTANT of Authorized
AuthorizedByCopy(s)   == MayWrite(s)     \* MUTANT of Authorized: no guard call
Authorized(s) == Valid(s) /\ MayWrite(s)

\* ClawDB::transaction: authorize, then open the core transaction.
Transaction(r) ==
  /\ pc[r] = "claimed"
  /\ Authorized(owner[tx[r]])
  /\ Goto(r, "writing")
  /\ UNCHANGED <<sessionVars, mapVars, storeVars, callVars, workVars, tx>>

\* ClawDB::transaction fails: session not valid any more, no write scope, or
\* an error of guard or core. The entry is already gone from the map.
TransactionError(r) ==
  /\ pc[r] = "claimed"
  /\ \/ ~Valid(owner[tx[r]]) /\ Answer(r, "unauthorized")
     \/ Valid(owner[tx[r]]) /\ ~MayWrite(owner[tx[r]]) /\ Answer(r, "denied")
     \/ Answer(r, "internal")
  /\ UNCHANGED <<sessionVars, mapVars, storeVars, callVars, workVars, tx>>

\* MUTANT of InsertMemory: the insert goes to the engine, not to its transaction.
InsertMemoryAutocommit(r) ==
  /\ pc[r] = "writing" /\ op[r] = "commit"
  /\ \E s \in batch[r] \ wrote[r] :
       /\ wrote' = [wrote EXCEPT ![r] = @ \cup {s}]
       /\ upserts' = [upserts EXCEPT ![r] = @ \cup {s}]
       /\ core' = core \cup {<<s, r>>}
  /\ UNCHANGED <<vector, sessionVars, mapVars, callVars, batch, pc, tx, reply>>

\* MUTANT of InsertMemory: the memory is indexed as soon as it is inserted.
InsertMemoryIndexes(r) ==
  /\ pc[r] = "writing" /\ op[r] = "commit"
  /\ \E s \in batch[r] \ wrote[r] :
       /\ wrote' = [wrote EXCEPT ![r] = @ \cup {s}]
       /\ vector' = vector \cup {<<s, r>>}
  /\ UNCHANGED <<core, upserts, sessionVars, mapVars, callVars, batch, pc, tx, reply>>

\* ClawTransaction::remember_typed inserts in the core transaction and queues
\* the vector upsert.
InsertMemory(r) ==
  /\ pc[r] = "writing" /\ op[r] = "commit"
  /\ \E s \in batch[r] \ wrote[r] :
       /\ wrote' = [wrote EXCEPT ![r] = @ \cup {s}]
       /\ upserts' = [upserts EXCEPT ![r] = @ \cup {s}]
  /\ UNCHANGED <<sessionVars, mapVars, storeVars, callVars, batch, pc, tx, reply>>

\* An insert fails: the handler returns and the transaction is dropped.
InsertError(r) ==
  /\ pc[r] = "writing" /\ op[r] = "commit"
  /\ wrote[r] # batch[r]
  /\ Answer(r, "internal")
  /\ DropTransaction(r)
  /\ UNCHANGED <<sessionVars, mapVars, storeVars, callVars, tx>>

\* ClawTransaction::commit, first half: the core transaction becomes durable.
CoreCommit(r) ==
  /\ pc[r] = "writing" /\ op[r] = "commit"
  /\ wrote[r] = batch[r]
  /\ core' = core \cup (wrote[r] \X {r})
  /\ wrote' = [wrote EXCEPT ![r] = {}]
  /\ Goto(r, "flushing")
  /\ UNCHANGED <<vector, batch, upserts, sessionVars, mapVars, callVars, tx>>

CoreCommitError(r) ==
  /\ pc[r] = "writing" /\ op[r] = "commit"
  /\ wrote[r] = batch[r]
  /\ Answer(r, "internal")
  /\ DropTransaction(r)
  /\ UNCHANGED <<sessionVars, mapVars, storeVars, callVars, tx>>

\* ClawTransaction::commit, second half: one upsert per memory; a failure is
\* logged and the loop goes on.
FlushUpsert(r) ==
  /\ pc[r] = "flushing" /\ VectorEnabled
  /\ \E s \in upserts[r] :
       /\ upserts' = [upserts EXCEPT ![r] = @ \ {s}]
       /\ vector' \in {vector, vector \cup {<<s, r>>}}
  /\ UNCHANGED <<core, batch, wrote, sessionVars, mapVars, callVars, pc, tx, reply>>

\* MUTANT of FlushDone: the answer waits until every memory is in the index.
FlushDoneAwaitsIndex(r) ==
  /\ pc[r] = "flushing"
  /\ ~VectorEnabled \/ batch[r] \X {r} \subseteq vector
  /\ Answer(r, "ok")
  /\ DropTransaction(r)
  /\ UNCHANGED <<sessionVars, mapVars, storeVars, callVars, tx>>

\* The queue is empty, or there is no index: the commit is answered as done.
FlushDone(r) ==
  /\ pc[r] = "flushing"
  /\ upserts[r] = {} \/ ~VectorEnabled
  /\ Answer(r, "ok")
  /\ DropTransaction(r)
  /\ UNCHANGED <<sessionVars, mapVars, storeVars, callVars, tx>>

\* rollback_tx rolls back the (empty) core transaction it has just opened; it
\* may fail, and the staged memories are forgotten either way.
Rollback(r) ==
  /\ pc[r] = "writing" /\ op[r] = "rollback"
  /\ Answer(r, "ok") \/ Answer(r, "internal")
  /\ DropTransaction(r)
  /\ UNCHANGED <<sessionVars, mapVars, storeVars, callVars, tx>>

-----------------------------------------------------------------------------
(* What happens around the handlers *)

\* revoke_session, or the expiry of a session: guard stops validating it.
EndSession(s) ==
  /\ s \in live
  /\ live' = live \ {s}
  /\ UNCHANGED <<mapVars, storeVars, callVars, workVars, pc, tx, reply>>

\* The client goes away: the server framework drops the handler's future at
\* the await it has reached.
Disconnect(r) ==
  /\ InFlight(r)
  /\ Answer(r, "dropped")
  /\ DropTransaction(r)
  /\ UNCHANGED <<sessionVars, mapVars, storeVars, callVars, tx>>

\* The process dies and is started again: the map and every handler are gone,
\* the databases stay.
Crash ==
  /\ open # {} \/ \E r \in Request : InFlight(r)
  /\ open' = {}
  /\ staged' = [t \in Tx |-> {}]
  /\ pc' = [r \in Request |-> IF InFlight(r) THEN "done" ELSE pc[r]]
  /\ reply' = [r \in Request |-> IF InFlight(r) THEN "dropped" ELSE reply[r]]
  /\ wrote' = [r \in Request |-> {}]
  /\ upserts' = [r \in Request |-> {}]
  /\ UNCHANGED <<begun, owner, batch, sessionVars, storeVars, callVars, tx>>

-----------------------------------------------------------------------------
Serve(r) ==
  \/ Authenticate(r) \/ BeginTx(r) \/ TxRemember(r) \/ TxNotFound(r)
  \/ TakeTx(r) \/ Transaction(r) \/ TransactionError(r)
  \/ InsertMemory(r) \/ InsertError(r) \/ CoreCommit(r) \/ CoreCommitError(r)
  \/ FlushUpsert(r) \/ FlushDone(r) \/ Rollback(r)

Next ==
  \/ \E r \in Request :
       ArriveHttp(r) \/ ArriveGrpc(r) \/ RateLimit(r) \/ Serve(r) \/ Disconnect(r)
  \/ \E s \in Session : EndSession(s)
  \/ Crash

Spec == Init /\ [][Next]_vars

\* The runtime polls every handler whose await is ready, and the embedded
\* databases answer every call, with a result or with an error.
FairSpec == Spec /\ \A r \in Request : WF_vars(Serve(r))

-----------------------------------------------------------------------------
(* Properties *)

\* Every variable has the type its declaration states.
TypeOK ==
  /\ live \subseteq Session
  /\ begun \subseteq Tx /\ open \subseteq begun
  /\ owner \in [Tx -> Session \cup {None}]
  /\ staged \in [Tx -> SUBSET Request]
  /\ core \subseteq Request \X Request
  /\ vector \subseteq Request \X Request
  /\ pc \in [Request -> Phase]
  /\ op \in [Request -> Op]
  /\ caller \in [Request -> Session \cup {None}]
  /\ tx \in [Request -> Tx \cup {None}]
  /\ batch \in [Request -> SUBSET Request]
  /\ wrote \in [Request -> SUBSET Request]
  /\ upserts \in [Request -> SUBSET Request]
  /\ reply \in [Request -> Reply]

\* A commit stores every memory it took out of the map or none of them,
\* whatever insert fails, whoever disconnects, and wherever a crash falls
\* (commit_tx inserts one by one inside a core transaction).
AtomicCommit == \A r \in Request : Rows(r) \in {{}, batch[r]}

\* A staged memory becomes at most one row, however many commits of its
\* transaction race (the entry is removed before anything is inserted).
AtMostOnce ==
  \A s, r1, r2 \in Request :
    <<s, r1>> \in core /\ <<s, r2>> \in core => r1 = r2

\* A client that was told "committed" has, durable, every memory of the
\* transaction whose staging was acknowledged to anyone.
CommitDurable ==
  \A r, s \in Request :
    /\ op[r] = "commit" /\ reply[r] = "ok"
    /\ op[s] = "stage" /\ reply[s] = "ok" /\ tx[s] = tx[r]
    => <<s, r>> \in core

\* A client that was told "rolled back" never sees a row of the transaction,
\* whatever other commit or stage of it is answered before or after.
RollbackFinal ==
  \A r, q \in Request :
    op[r] = "rollback" /\ reply[r] = "ok" /\ tx[q] = tx[r] => Rows(q) = {}

\* An error answered to a commit means that it stored nothing: the failures
\* after the core commit (vector upserts) are not reported as errors.
ErrorStoresNothing ==
  \A r \in Request : reply[r] \notin {"none", "ok", "dropped"} => Rows(r) = {}

\* The semantic index never runs ahead of the store: it only points at rows
\* that are durable, even when a commit fails or the process dies.
IndexFollowsCore == vector \subseteq core

\* Only sessions with a write scope store memories, although neither begin
\* nor stage asks for one and the caller of commit may be someone else.
OnlyWritersStore ==
  \A r \in Request : Rows(r) # {} => owner[tx[r]] \in Writer

\* Once the session of a transaction is over and no commit of it has got past
\* authorize, no step stores or indexes a row of it any more.
Ended(r) ==
  /\ tx[r] # None /\ owner[tx[r]] \notin live
  /\ \A q \in Request : tx[q] = tx[r] => pc[q] \notin {"writing", "flushing"}
StaysEnded ==
  \A r \in Request : Ended(r) =>
    \A q \in Request : tx[q] = tx[r] =>
      Rows(q)' = Rows(q) /\ pc'[q] \notin {"writing", "flushing"}
EndedSessionStoresNothing == [][StaysEnded]_vars

\* ARCHITECTURE.md, Transaction Model, step 4: on error every touched subsystem
\* is compensated; so a commit reported as done has its memories in both stores.
CommitIndexed ==
  \A r \in Request :
    VectorEnabled /\ op[r] = "commit" /\ reply[r] = "ok"
      => \A s \in Rows(r) : <<s, r>> \in vector

\* Every request that reaches the server gets an answer: no handler waits
\* for the map, for another handler or for a flush that does not end.
EveryRequestAnswered ==
  \A r \in Request : pc[r] = "arrived" ~> pc[r] = "done"

-----------------------------------------------------------------------------
(* The server implements AtomicTx: a transaction is open while its entry is  *)
(* in the map or a handler that took it may still commit it.                 *)

Undecided(r) == pc[r] \in {"claimed", "writing"}
Holds(r, t)  == Undecided(r) /\ tx[r] = t
Held(t)      == t \in open \/ \E r \in Request : Holds(r, t)

\* The memories of a transaction, in its entry or with the handler that took it.
Collected(t) == {s \in Request :
                   s \in staged[t] \/ \E r \in Request : Holds(r, t) /\ s \in batch[r]}

statusBar == [t \in Tx |-> IF t \notin begun THEN "unused"
                           ELSE IF Held(t) THEN "open" ELSE "closed"]
collectedBar == [t \in Tx |-> Collected(t)]
storedBar == {s \in Request : \E r \in Request : <<s, r>> \in core}

\* What clients see of commit, rollback, failures and crashes together is a
\* transaction that happens in one step or not at all.
A == INSTANCE AtomicTx WITH Memory <- Request, status <- statusBar,
                            collected <- collectedBar, stored <- storedBar
ImplementsAtomicTx == A!Spec
=============================================================================
