---------------------------- MODULE ServerTxProofs ----------------------------
(***************************************************************************)
(* Safety of server transactions, for every set of sessions, transactions  *)
(* and requests. The argument is the inductive invariant of ServerTxInv;   *)
(* its preservation is proved action by action. The last part shows that   *)
(* ServerTx implements AtomicTx.                                           *)
(***************************************************************************)
EXTENDS ServerTxInv, TLAPS

USE SessionAssumption, TxAssumption, VectorAssumption

\* Every variable keeps its type, whatever requests, failures, disconnects,
\* revocations and crashes happen.
THEOREM TypeCorrect == Spec => []TypeOK
<1>1. Init => TypeOK
  BY DEF Init, TypeOK, Phase, Op, Reply
<1>2. TypeOK /\ [Next]_vars => TypeOK'
  <2> SUFFICES ASSUME TypeOK, [Next]_vars PROVE TypeOK'
    OBVIOUS
  <2> USE DEF TypeOK, Phase, Op, Reply, Goto, Answer, DropTransaction,
              sessionVars, mapVars, storeVars, callVars, workVars
  <2>1. ASSUME NEW r \in Request, ArriveHttp(r) PROVE TypeOK'
    BY <2>1 DEF ArriveHttp
  <2>2. ASSUME NEW r \in Request, ArriveGrpc(r) PROVE TypeOK'
    BY <2>2 DEF ArriveGrpc
  <2>3. ASSUME NEW r \in Request, RateLimit(r) PROVE TypeOK'
    BY <2>3 DEF RateLimit
  <2>4. ASSUME NEW r \in Request, Authenticate(r) PROVE TypeOK'
    BY <2>4 DEF Authenticate
  <2>5. ASSUME NEW r \in Request, BeginTx(r) PROVE TypeOK'
    BY <2>5 DEF BeginTx
  <2>6. ASSUME NEW r \in Request, TxRemember(r) PROVE TypeOK'
    BY <2>6 DEF TxRemember
  <2>7. ASSUME NEW r \in Request, TxNotFound(r) PROVE TypeOK'
    BY <2>7 DEF TxNotFound
  <2>8. ASSUME NEW r \in Request, TakeTx(r) PROVE TypeOK'
    BY <2>8 DEF TakeTx
  <2>9. ASSUME NEW r \in Request, Transaction(r) PROVE TypeOK'
    BY <2>9 DEF Transaction
  <2>10. ASSUME NEW r \in Request, TransactionError(r) PROVE TypeOK'
    BY <2>10 DEF TransactionError
  <2>11. ASSUME NEW r \in Request, InsertMemory(r) PROVE TypeOK'
    BY <2>11 DEF InsertMemory
  <2>12. ASSUME NEW r \in Request, InsertError(r) PROVE TypeOK'
    BY <2>12 DEF InsertError
  <2>13. ASSUME NEW r \in Request, CoreCommit(r) PROVE TypeOK'
    BY <2>13 DEF CoreCommit
  <2>14. ASSUME NEW r \in Request, CoreCommitError(r) PROVE TypeOK'
    BY <2>14 DEF CoreCommitError
  <2>15. ASSUME NEW r \in Request, FlushUpsert(r) PROVE TypeOK'
    BY <2>15 DEF FlushUpsert
  <2>16. ASSUME NEW r \in Request, FlushDone(r) PROVE TypeOK'
    BY <2>16 DEF FlushDone
  <2>17. ASSUME NEW r \in Request, Rollback(r) PROVE TypeOK'
    BY <2>17 DEF Rollback
  <2>18. ASSUME NEW r \in Request, Disconnect(r) PROVE TypeOK'
    BY <2>18 DEF Disconnect
  <2>19. ASSUME NEW s \in Session, EndSession(s) PROVE TypeOK'
    BY <2>19 DEF EndSession
  <2>20. CASE Crash
    BY <2>20 DEF Crash
  <2>21. CASE UNCHANGED vars
    BY <2>21 DEF vars
  <2> QED
    BY <2>1, <2>2, <2>3, <2>4, <2>5, <2>6, <2>7, <2>8, <2>9, <2>10, <2>11,
       <2>12, <2>13, <2>14, <2>15, <2>16, <2>17, <2>18, <2>19, <2>20, <2>21
       DEF Next, Serve
<1>3. QED
  BY <1>1, <1>2, PTL DEF Spec

\* ---- invariant ----
-----------------------------------------------------------------------------
(* Steps that leave the map, the batches and the rows alone, and move         *)
(* handlers on without taking a transaction: most steps of most handlers.     *)

Moves(q) ==
  /\ pc[q] \notin {"idle", "done"} /\ pc'[q] \in {"admitted", "writing", "done"}
  /\ pc'[q] = "admitted" => pc[q] = "arrived"
  /\ pc'[q] = "writing"  => pc[q] = "claimed"
  /\ (reply'[q] # "none") <=> (pc'[q] = "done")
  /\ reply'[q] = "ok" => Holding(q)
  /\ reply'[q] = "ok" /\ op[q] = "commit" => pc[q] = "flushing"
  /\ pc[q] = "flushing" => reply'[q] \in {"ok", "dropped"}

Quiet ==
  /\ UNCHANGED <<mapVars, core, op, tx, batch>>
  /\ \A q \in Request : (pc'[q] = pc[q] /\ reply'[q] = reply[q]) \/ Moves(q)

LEMMA QuietStep ==
  ASSUME IInv, TypeOK', Quiet
  PROVE  /\ AnsweredWhenDone' /\ NamesBegun' /\ EntriesShape' /\ BatchShape'
         /\ TakersShape' /\ OneTaker' /\ RowsShape' /\ StagedKept'
         /\ ErrorStoresNothing'
         /\ \A q \in Request : Rows(q)' = Rows(q)
<1> USE DEF IInv, Quiet, Moves, mapVars
<1>1. \A q \in Request : Rows(q)' = Rows(q)
  BY DEF Rows
<1>2. \A q \in Request : Took(q)' => Took(q)
  BY <1>1 DEF Took, Holding, Acknowledged
<1>3. AnsweredWhenDone'
  BY DEF AnsweredWhenDone
<1>4. NamesBegun'
  BY DEF NamesBegun
<1>5. EntriesShape'
  BY DEF EntriesShape, TypeOK
<1>6. BatchShape'
  BY DEF BatchShape, TypeOK
<1>7. TakersShape'
  BY <1>2 DEF TakersShape
<1>8. OneTaker'
  BY <1>2 DEF OneTaker
<1>9. RowsShape'
  BY <1>1 DEF RowsShape
<1>10. StagedKept'
  <2>1. \A s \in Request : op'[s] = "stage" /\ reply'[s] = "ok" => op[s] = "stage" /\ reply[s] = "ok"
    BY DEF TakersShape, Took
  <2> QED
    BY <1>2, <2>1 DEF StagedKept
<1>11. ErrorStoresNothing'
  BY <1>1 DEF ErrorStoresNothing, RowsShape
<1> QED
  BY <1>1, <1>3, <1>4, <1>5, <1>6, <1>7, <1>8, <1>9, <1>10, <1>11

LEMMA RateLimitStep ==
  ASSUME IInv, TypeOK', NEW r \in Request, RateLimit(r)
  PROVE  IInv'
<1> USE DEF IInv
<1>1. Quiet
  BY DEF Quiet, Moves, Holding, TypeOK, AnsweredWhenDone, RateLimit, Goto, Answer, DropTransaction, sessionVars, mapVars, storeVars, callVars, workVars
<1>2. WorkShape'
  BY DEF RateLimit, Goto, Answer, DropTransaction, sessionVars, mapVars, storeVars, callVars, workVars, WorkShape, TypeOK
<1>3. WritersWrite'
  BY QuietStep, <1>1 DEF WritersWrite, TypeOK, RateLimit, Goto, Answer, DropTransaction, sessionVars, mapVars, storeVars, callVars, workVars
<1>4. IndexFollowsCore'
  BY DEF RateLimit, storeVars, IndexFollowsCore
<1> QED
  BY QuietStep, <1>1, <1>2, <1>3, <1>4

LEMMA AuthenticateStep ==
  ASSUME IInv, TypeOK', NEW r \in Request, Authenticate(r)
  PROVE  IInv'
<1> USE DEF IInv
<1>1. Quiet
  BY DEF Quiet, Moves, Holding, TypeOK, AnsweredWhenDone, Authenticate, Goto, Answer, DropTransaction, sessionVars, mapVars, storeVars, callVars, workVars
<1>2. WorkShape'
  BY DEF Authenticate, Goto, Answer, DropTransaction, sessionVars, mapVars, storeVars, callVars, workVars, WorkShape, TypeOK
<1>3. WritersWrite'
  BY QuietStep, <1>1 DEF WritersWrite, TypeOK, Authenticate, Goto, Answer, DropTransaction, sessionVars, mapVars, storeVars, callVars, workVars
<1>4. IndexFollowsCore'
  BY DEF Authenticate, storeVars, IndexFollowsCore
<1> QED
  BY QuietStep, <1>1, <1>2, <1>3, <1>4

LEMMA TxNotFoundStep ==
  ASSUME IInv, TypeOK', NEW r \in Request, TxNotFound(r)
  PROVE  IInv'
<1> USE DEF IInv
<1>1. Quiet
  BY DEF Quiet, Moves, Holding, TypeOK, AnsweredWhenDone, TxNotFound, Goto, Answer, DropTransaction, sessionVars, mapVars, storeVars, callVars, workVars
<1>2. WorkShape'
  BY DEF TxNotFound, Goto, Answer, DropTransaction, sessionVars, mapVars, storeVars, callVars, workVars, WorkShape, TypeOK
<1>3. WritersWrite'
  BY QuietStep, <1>1 DEF WritersWrite, TypeOK, TxNotFound, Goto, Answer, DropTransaction, sessionVars, mapVars, storeVars, callVars, workVars
<1>4. IndexFollowsCore'
  BY DEF TxNotFound, storeVars, IndexFollowsCore
<1> QED
  BY QuietStep, <1>1, <1>2, <1>3, <1>4

LEMMA TransactionStep ==
  ASSUME IInv, TypeOK', NEW r \in Request, Transaction(r)
  PROVE  IInv'
<1> USE DEF IInv
<1>1. Quiet
  BY DEF Quiet, Moves, Holding, TypeOK, AnsweredWhenDone, Transaction, Goto, Answer, DropTransaction, sessionVars, mapVars, storeVars, callVars, workVars
<1>2. WorkShape'
  <2>1. wrote[r] = {} /\ upserts[r] = {} /\ pc' = [pc EXCEPT ![r] = "writing"]
        /\ UNCHANGED <<batch, wrote, upserts>>
    BY DEF Transaction, Goto, workVars, WorkShape
  <2>2. \A q \in Request : pc'[q] = IF q = r THEN "writing" ELSE pc[q]
    BY <2>1 DEF TypeOK
  <2>3. pc[r] # "writing" /\ pc[r] # "flushing"
    BY DEF Transaction
  <2> QED
    BY <2>1, <2>2, <2>3 DEF WorkShape
<1>3. WritersWrite'
  BY QuietStep, <1>1 DEF WritersWrite, Authorized, MayWrite, TypeOK, Transaction, Goto, Answer, DropTransaction, sessionVars, mapVars, storeVars, callVars, workVars
<1>4. IndexFollowsCore'
  BY DEF Transaction, storeVars, IndexFollowsCore
<1> QED
  BY QuietStep, <1>1, <1>2, <1>3, <1>4

LEMMA TransactionErrorStep ==
  ASSUME IInv, TypeOK', NEW r \in Request, TransactionError(r)
  PROVE  IInv'
<1> USE DEF IInv
<1>1. Quiet
  BY DEF Quiet, Moves, Holding, TypeOK, AnsweredWhenDone, TransactionError, Goto, Answer, DropTransaction, sessionVars, mapVars, storeVars, callVars, workVars
<1>2. WorkShape'
  BY DEF TransactionError, Goto, Answer, DropTransaction, sessionVars, mapVars, storeVars, callVars, workVars, WorkShape, TypeOK
<1>3. WritersWrite'
  BY QuietStep, <1>1 DEF WritersWrite, TypeOK, TransactionError, Goto, Answer, DropTransaction, sessionVars, mapVars, storeVars, callVars, workVars
<1>4. IndexFollowsCore'
  BY DEF TransactionError, storeVars, IndexFollowsCore
<1> QED
  BY QuietStep, <1>1, <1>2, <1>3, <1>4

LEMMA InsertMemoryStep ==
  ASSUME IInv, TypeOK', NEW r \in Request, InsertMemory(r)
  PROVE  IInv'
<1> USE DEF IInv
<1>1. Quiet
  BY DEF Quiet, Moves, Holding, TypeOK, AnsweredWhenDone, InsertMemory, Goto, Answer, DropTransaction, sessionVars, mapVars, storeVars, callVars, workVars
<1>2. WorkShape'
  <2>1. PICK s \in batch[r] \ wrote[r] :
          /\ wrote' = [wrote EXCEPT ![r] = wrote[r] \cup {s}]
          /\ upserts' = [upserts EXCEPT ![r] = upserts[r] \cup {s}]
    BY DEF InsertMemory
  <2>2. pc[r] = "writing" /\ UNCHANGED <<pc, batch>>
    BY DEF InsertMemory
  <2>3. wrote'[r] = upserts'[r] /\ wrote'[r] \subseteq batch[r]
    BY <2>1, <2>2 DEF WorkShape, TypeOK
  <2>4. \A q \in Request : q # r => wrote'[q] = wrote[q] /\ upserts'[q] = upserts[q]
    BY <2>1 DEF TypeOK
  <2>5. ASSUME NEW q \in Request
        PROVE  /\ wrote'[q] \subseteq batch[q] /\ upserts'[q] \subseteq batch[q]
               /\ pc[q] # "writing" => wrote'[q] = {}
               /\ pc[q] = "writing" => upserts'[q] = wrote'[q]
               /\ pc[q] \notin {"writing", "flushing"} => upserts'[q] = {}
    BY <2>2, <2>3, <2>4 DEF WorkShape
  <2> QED
    BY <2>2, <2>5 DEF WorkShape
<1>3. WritersWrite'
  BY QuietStep, <1>1 DEF WritersWrite, TypeOK, InsertMemory, Goto, Answer, DropTransaction, sessionVars, mapVars, storeVars, callVars, workVars
<1>4. IndexFollowsCore'
  BY DEF InsertMemory, storeVars, IndexFollowsCore
<1> QED
  BY QuietStep, <1>1, <1>2, <1>3, <1>4

LEMMA InsertErrorStep ==
  ASSUME IInv, TypeOK', NEW r \in Request, InsertError(r)
  PROVE  IInv'
<1> USE DEF IInv
<1>1. Quiet
  BY DEF Quiet, Moves, Holding, TypeOK, AnsweredWhenDone, InsertError, Goto, Answer, DropTransaction, sessionVars, mapVars, storeVars, callVars, workVars
<1>2. WorkShape'
  BY DEF InsertError, Goto, Answer, DropTransaction, sessionVars, mapVars, storeVars, callVars, workVars, WorkShape, TypeOK
<1>3. WritersWrite'
  BY QuietStep, <1>1 DEF WritersWrite, TypeOK, InsertError, Goto, Answer, DropTransaction, sessionVars, mapVars, storeVars, callVars, workVars
<1>4. IndexFollowsCore'
  BY DEF InsertError, storeVars, IndexFollowsCore
<1> QED
  BY QuietStep, <1>1, <1>2, <1>3, <1>4

LEMMA CoreCommitErrorStep ==
  ASSUME IInv, TypeOK', NEW r \in Request, CoreCommitError(r)
  PROVE  IInv'
<1> USE DEF IInv
<1>1. Quiet
  BY DEF Quiet, Moves, Holding, TypeOK, AnsweredWhenDone, CoreCommitError, Goto, Answer, DropTransaction, sessionVars, mapVars, storeVars, callVars, workVars
<1>2. WorkShape'
  BY DEF CoreCommitError, Goto, Answer, DropTransaction, sessionVars, mapVars, storeVars, callVars, workVars, WorkShape, TypeOK
<1>3. WritersWrite'
  BY QuietStep, <1>1 DEF WritersWrite, TypeOK, CoreCommitError, Goto, Answer, DropTransaction, sessionVars, mapVars, storeVars, callVars, workVars
<1>4. IndexFollowsCore'
  BY DEF CoreCommitError, storeVars, IndexFollowsCore
<1> QED
  BY QuietStep, <1>1, <1>2, <1>3, <1>4

LEMMA FlushUpsertStep ==
  ASSUME IInv, TypeOK', NEW r \in Request, FlushUpsert(r)
  PROVE  IInv'
<1> USE DEF IInv
<1>1. Quiet
  BY DEF Quiet, Moves, Holding, TypeOK, AnsweredWhenDone, FlushUpsert, Goto, Answer, DropTransaction, sessionVars, mapVars, storeVars, callVars, workVars
<1>2. WorkShape'
  BY DEF FlushUpsert, Goto, Answer, DropTransaction, sessionVars, mapVars, storeVars, callVars, workVars, WorkShape, TypeOK
<1>3. WritersWrite'
  BY QuietStep, <1>1 DEF WritersWrite, TypeOK, FlushUpsert, Goto, Answer, DropTransaction, sessionVars, mapVars, storeVars, callVars, workVars
<1>4. IndexFollowsCore'
  <2>1. \A s \in upserts[r] : <<s, r>> \in core
    BY DEF FlushUpsert, WorkShape, RowsShape, Rows
  <2> QED
    BY <2>1 DEF FlushUpsert, IndexFollowsCore
<1> QED
  BY QuietStep, <1>1, <1>2, <1>3, <1>4

LEMMA FlushDoneStep ==
  ASSUME IInv, TypeOK', NEW r \in Request, FlushDone(r)
  PROVE  IInv'
<1> USE DEF IInv
<1>1. Quiet
  BY DEF Quiet, Moves, Holding, TypeOK, AnsweredWhenDone, FlushDone, Goto, Answer, DropTransaction, sessionVars, mapVars, storeVars, callVars, workVars
<1>2. WorkShape'
  BY DEF FlushDone, Goto, Answer, DropTransaction, sessionVars, mapVars, storeVars, callVars, workVars, WorkShape, TypeOK
<1>3. WritersWrite'
  BY QuietStep, <1>1 DEF WritersWrite, TypeOK, FlushDone, Goto, Answer, DropTransaction, sessionVars, mapVars, storeVars, callVars, workVars
<1>4. IndexFollowsCore'
  BY DEF FlushDone, storeVars, IndexFollowsCore
<1> QED
  BY QuietStep, <1>1, <1>2, <1>3, <1>4

LEMMA RollbackStep ==
  ASSUME IInv, TypeOK', NEW r \in Request, Rollback(r)
  PROVE  IInv'
<1> USE DEF IInv
<1>1. Quiet
  BY DEF Quiet, Moves, Holding, TypeOK, AnsweredWhenDone, Rollback, Goto, Answer, DropTransaction, sessionVars, mapVars, storeVars, callVars, workVars
<1>2. WorkShape'
  BY DEF Rollback, Goto, Answer, DropTransaction, sessionVars, mapVars, storeVars, callVars, workVars, WorkShape, TypeOK
<1>3. WritersWrite'
  BY QuietStep, <1>1 DEF WritersWrite, TypeOK, Rollback, Goto, Answer, DropTransaction, sessionVars, mapVars, storeVars, callVars, workVars
<1>4. IndexFollowsCore'
  BY DEF Rollback, storeVars, IndexFollowsCore
<1> QED
  BY QuietStep, <1>1, <1>2, <1>3, <1>4

LEMMA DisconnectStep ==
  ASSUME IInv, TypeOK', NEW r \in Request, Disconnect(r)
  PROVE  IInv'
<1> USE DEF IInv
<1>1. Quiet
  BY DEF Quiet, Moves, Holding, TypeOK, AnsweredWhenDone, Disconnect, Goto, Answer, DropTransaction, sessionVars, mapVars, storeVars, callVars, workVars, InFlight
<1>2. WorkShape'
  BY DEF Disconnect, Goto, Answer, DropTransaction, sessionVars, mapVars, storeVars, callVars, workVars, InFlight, WorkShape, TypeOK
<1>3. WritersWrite'
  BY QuietStep, <1>1 DEF WritersWrite, TypeOK, Disconnect, Goto, Answer, DropTransaction, sessionVars, mapVars, storeVars, callVars, workVars, InFlight
<1>4. IndexFollowsCore'
  BY DEF Disconnect, storeVars, IndexFollowsCore
<1> QED
  BY QuietStep, <1>1, <1>2, <1>3, <1>4

LEMMA EndSessionStep ==
  ASSUME IInv, TypeOK', NEW s \in Session, EndSession(s)
  PROVE  IInv'
<1>1. Quiet
  BY DEF Quiet, EndSession, callVars, workVars, storeVars
<1>2. WorkShape' /\ IndexFollowsCore'
  BY DEF IInv, EndSession, workVars, storeVars, WorkShape, IndexFollowsCore
<1>3. WritersWrite'
  BY QuietStep, <1>1 DEF IInv, WritersWrite, EndSession, mapVars
<1> QED
  BY QuietStep, <1>1, <1>2, <1>3 DEF IInv

-----------------------------------------------------------------------------
(* The other steps: a request arrives, a transaction is begun, staged into,   *)
(* taken or committed, and a crash.                                           *)

LEMMA ArriveStep ==
  ASSUME IInv, TypeOK', NEW r \in Request, ArriveHttp(r) \/ ArriveGrpc(r)
  PROVE  IInv'
<1> USE DEF IInv, ArriveHttp, ArriveGrpc, Goto, Answer, DropTransaction, sessionVars, mapVars, storeVars, callVars, workVars
<1>1. \A q \in Request : Rows(q)' = Rows(q)
  BY DEF Rows
<1>2. \A q \in Request : Took(q)' => Took(q) /\ q # r
  BY <1>1 DEF Took, Holding, Acknowledged, RowsShape, AnsweredWhenDone, TypeOK
<1>3. AnsweredWhenDone'
  BY DEF AnsweredWhenDone, TypeOK
<1>4. NamesBegun'
  BY DEF NamesBegun, TypeOK
<1>5. EntriesShape'
  BY DEF EntriesShape, TypeOK
<1>6. BatchShape'
  BY DEF BatchShape, EntriesShape, TypeOK
<1>7. WorkShape'
  BY DEF WorkShape, BatchShape, TypeOK
<1>8. TakersShape'
  BY <1>2 DEF TakersShape, NamesBegun, TypeOK
<1>9. OneTaker'
  BY <1>2 DEF OneTaker, TakersShape, TypeOK
<1>10. RowsShape'
  BY <1>1 DEF RowsShape, BatchShape, WorkShape, AnsweredWhenDone, TypeOK
<1>11. StagedKept'
  BY <1>2 DEF StagedKept, NamesBegun, TakersShape, AnsweredWhenDone, TypeOK
<1>12. WritersWrite'
  BY <1>1 DEF WritersWrite, RowsShape, TakersShape, Took, Holding, TypeOK
<1>13. ErrorStoresNothing'
  BY <1>1 DEF ErrorStoresNothing, RowsShape, AnsweredWhenDone, TypeOK
<1>14. IndexFollowsCore'
  BY DEF IndexFollowsCore
<1> QED
  BY <1>3, <1>4, <1>5, <1>6, <1>7, <1>8, <1>9, <1>10, <1>11, <1>12,
     <1>13, <1>14

LEMMA BeginTxStep ==
  ASSUME IInv, TypeOK', NEW r \in Request, BeginTx(r)
  PROVE  IInv'
<1> USE DEF IInv, BeginTx, Goto, Answer, DropTransaction, sessionVars, mapVars, storeVars, callVars, workVars
<1>1. \A q \in Request : Rows(q)' = Rows(q)
  BY DEF Rows
<1>2. \A q \in Request : Took(q)' => Took(q)
  BY <1>1 DEF Took, Holding, Acknowledged, RowsShape, AnsweredWhenDone, TypeOK
<1>3. AnsweredWhenDone'
  BY DEF AnsweredWhenDone, TypeOK
<1>4. NamesBegun'
  BY DEF NamesBegun, TypeOK
<1>5. EntriesShape'
  BY DEF EntriesShape, TypeOK
<1>6. BatchShape'
  BY DEF BatchShape, EntriesShape, TypeOK
<1>7. WorkShape'
  BY DEF WorkShape, BatchShape, TypeOK
<1>8. TakersShape'
  BY <1>2 DEF TakersShape, NamesBegun, TypeOK
<1>9. OneTaker'
  BY <1>2 DEF OneTaker, TakersShape, TypeOK
<1>10. RowsShape'
  BY <1>1 DEF RowsShape, BatchShape, WorkShape, AnsweredWhenDone, TypeOK
<1>11. StagedKept'
  BY <1>2 DEF StagedKept, NamesBegun, TakersShape, AnsweredWhenDone, TypeOK
<1>12. WritersWrite'
  BY <1>1 DEF WritersWrite, RowsShape, TakersShape, Took, Holding, TypeOK
<1>13. ErrorStoresNothing'
  BY <1>1 DEF ErrorStoresNothing, RowsShape, AnsweredWhenDone, TypeOK
<1>14. IndexFollowsCore'
  BY DEF IndexFollowsCore
<1> QED
  BY <1>3, <1>4, <1>5, <1>6, <1>7, <1>8, <1>9, <1>10, <1>11, <1>12,
     <1>13, <1>14

LEMMA TxRememberStep ==
  ASSUME IInv, TypeOK', NEW r \in Request, TxRemember(r)
  PROVE  IInv'
<1> USE DEF IInv, TxRemember, Goto, Answer, DropTransaction, sessionVars, mapVars, storeVars, callVars, workVars
<1>1. \A q \in Request : Rows(q)' = Rows(q)
  BY DEF Rows
<1>2. \A q \in Request : Took(q)' => Took(q)
  BY <1>1 DEF Took, Holding, Acknowledged, RowsShape, AnsweredWhenDone, TypeOK
<1>3. AnsweredWhenDone'
  BY DEF AnsweredWhenDone, TypeOK
<1>4. NamesBegun'
  BY DEF NamesBegun, TypeOK
<1>5. EntriesShape'
  BY DEF EntriesShape, TypeOK
<1>6. BatchShape'
  BY DEF BatchShape, EntriesShape, TypeOK
<1>7. WorkShape'
  BY DEF WorkShape, BatchShape, TypeOK
<1>8. TakersShape'
  BY <1>2 DEF TakersShape, NamesBegun, TypeOK
<1>9. OneTaker'
  BY <1>2 DEF OneTaker, TakersShape, TypeOK
<1>10. RowsShape'
  BY <1>1 DEF RowsShape, BatchShape, WorkShape, AnsweredWhenDone, TypeOK
<1>11. StagedKept'
  BY <1>2 DEF StagedKept, NamesBegun, TakersShape, AnsweredWhenDone, TypeOK
<1>12. WritersWrite'
  BY <1>1 DEF WritersWrite, RowsShape, TakersShape, Took, Holding, TypeOK
<1>13. ErrorStoresNothing'
  BY <1>1 DEF ErrorStoresNothing, RowsShape, AnsweredWhenDone, TypeOK
<1>14. IndexFollowsCore'
  BY DEF IndexFollowsCore
<1> QED
  BY <1>3, <1>4, <1>5, <1>6, <1>7, <1>8, <1>9, <1>10, <1>11, <1>12,
     <1>13, <1>14

LEMMA TakeTxStep ==
  ASSUME IInv, TypeOK', NEW r \in Request, TakeTx(r)
  PROVE  IInv'
<1> USE DEF IInv, TakeTx, Goto, Answer, DropTransaction, sessionVars, mapVars, storeVars, callVars, workVars
<1>1. \A q \in Request : Rows(q)' = Rows(q)
  BY DEF Rows
<1>2. \A q \in Request : Took(q)' => Took(q) \/ q = r
  BY <1>1 DEF Took, Holding, Acknowledged, RowsShape, AnsweredWhenDone, TypeOK
<1>3. AnsweredWhenDone'
  BY DEF AnsweredWhenDone, TypeOK
<1>4. NamesBegun'
  BY DEF NamesBegun, TypeOK
<1>5. EntriesShape'
  BY DEF EntriesShape, TypeOK
<1>6. BatchShape'
  BY DEF BatchShape, EntriesShape, TypeOK
<1>7. WorkShape'
  BY DEF WorkShape, BatchShape, TypeOK
<1>8. TakersShape'
  BY <1>2 DEF TakersShape, NamesBegun, TypeOK
<1>9. OneTaker'
  BY <1>2 DEF OneTaker, TakersShape, TypeOK
<1>10. RowsShape'
  BY <1>1 DEF RowsShape, BatchShape, WorkShape, AnsweredWhenDone, TypeOK
<1>11. StagedKept'
  BY <1>2 DEF StagedKept, NamesBegun, TakersShape, AnsweredWhenDone, TypeOK
<1>12. WritersWrite'
  BY <1>1 DEF WritersWrite, RowsShape, TakersShape, Took, Holding, TypeOK
<1>13. ErrorStoresNothing'
  BY <1>1 DEF ErrorStoresNothing, RowsShape, AnsweredWhenDone, TypeOK
<1>14. IndexFollowsCore'
  BY DEF IndexFollowsCore
<1> QED
  BY <1>3, <1>4, <1>5, <1>6, <1>7, <1>8, <1>9, <1>10, <1>11, <1>12,
     <1>13, <1>14

LEMMA CoreCommitStep ==
  ASSUME IInv, TypeOK', NEW r \in Request, CoreCommit(r)
  PROVE  IInv'
<1> USE DEF IInv, CoreCommit, Goto, Answer, DropTransaction, sessionVars, mapVars, storeVars, callVars, workVars
<1>1. \A q \in Request : Rows(q)' = IF q = r THEN batch[r] ELSE Rows(q)
  <2>1. Rows(r) = {} /\ wrote[r] = batch[r] /\ batch[r] \subseteq Request
    BY DEF RowsShape, TypeOK
  <2>2. \A s, q \in Request : <<s, q>> \in core' <=> <<s, q>> \in core \/ (q = r /\ s \in batch[r])
    BY <2>1
  <2>3. \A q \in Request : q # r => Rows(q)' = Rows(q)
    BY <2>2 DEF Rows
  <2>4. \A s \in Request : <<s, r>> \notin core
    BY <2>1 DEF Rows
  <2>5. Rows(r)' = batch[r]
    BY <2>1, <2>2, <2>4 DEF Rows
  <2> QED
    BY <2>3, <2>5
<1>2. \A q \in Request : Took(q)' => Took(q)
  BY <1>1 DEF Took, Holding, Acknowledged, RowsShape, AnsweredWhenDone, TypeOK
<1>3. AnsweredWhenDone'
  BY DEF AnsweredWhenDone, TypeOK
<1>4. NamesBegun'
  BY DEF NamesBegun, TypeOK
<1>5. EntriesShape'
  BY DEF EntriesShape, TypeOK
<1>6. BatchShape'
  BY DEF BatchShape, EntriesShape, TypeOK
<1>7. WorkShape'
  BY DEF WorkShape, BatchShape, TypeOK
<1>8. TakersShape'
  BY <1>2 DEF TakersShape, Took, Holding, TypeOK
<1>9. OneTaker'
  BY <1>2 DEF OneTaker, TakersShape, TypeOK
<1>10. RowsShape'
  BY <1>1 DEF RowsShape, BatchShape, WorkShape, AnsweredWhenDone, TypeOK
<1>11. StagedKept'
  BY <1>2 DEF StagedKept, NamesBegun, TakersShape, AnsweredWhenDone, TypeOK
<1>12. WritersWrite'
  BY <1>1 DEF WritersWrite, RowsShape, TakersShape, Took, Holding, TypeOK
<1>13. ErrorStoresNothing'
  BY <1>1 DEF ErrorStoresNothing, RowsShape, AnsweredWhenDone, TypeOK
<1>14. IndexFollowsCore'
  BY DEF IndexFollowsCore
<1> QED
  BY <1>3, <1>4, <1>5, <1>6, <1>7, <1>8, <1>9, <1>10, <1>11, <1>12,
     <1>13, <1>14

LEMMA CrashStep ==
  ASSUME IInv, TypeOK', Crash
  PROVE  IInv'
<1> USE DEF IInv, Crash, InFlight, Goto, Answer, DropTransaction, sessionVars, mapVars, storeVars, callVars, workVars
<1>1. \A q \in Request : Rows(q)' = Rows(q)
  BY DEF Rows
<1>2. \A q \in Request : Took(q)' => Took(q)
  BY <1>1 DEF Took, Holding, Acknowledged, RowsShape, AnsweredWhenDone, TypeOK
<1>3. AnsweredWhenDone'
  BY DEF AnsweredWhenDone, TypeOK
<1>4. NamesBegun'
  BY DEF NamesBegun, TypeOK
<1>5. EntriesShape'
  BY DEF EntriesShape, TypeOK
<1>6. BatchShape'
  BY DEF BatchShape, EntriesShape, TypeOK
<1>7. WorkShape'
  BY DEF WorkShape, BatchShape, TypeOK
<1>8. TakersShape'
  BY <1>2 DEF TakersShape, NamesBegun, TypeOK
<1>9. OneTaker'
  BY <1>2 DEF OneTaker, TakersShape, TypeOK
<1>10. RowsShape'
  BY <1>1 DEF RowsShape, BatchShape, WorkShape, AnsweredWhenDone, TypeOK
<1>11. StagedKept'
  BY <1>2 DEF StagedKept, NamesBegun, TakersShape, AnsweredWhenDone, TypeOK
<1>12. WritersWrite'
  BY <1>1 DEF WritersWrite, RowsShape, TakersShape, Took, Holding, TypeOK
<1>13. ErrorStoresNothing'
  BY <1>1 DEF ErrorStoresNothing, RowsShape, AnsweredWhenDone, TypeOK
<1>14. IndexFollowsCore'
  BY DEF IndexFollowsCore
<1> QED
  BY <1>3, <1>4, <1>5, <1>6, <1>7, <1>8, <1>9, <1>10, <1>11, <1>12,
     <1>13, <1>14

LEMMA StutterStep ==
  ASSUME IInv, UNCHANGED vars
  PROVE  IInv'
<1>1. Quiet
  BY DEF Quiet, vars, mapVars, storeVars, callVars, workVars
<1>2. TypeOK' /\ WorkShape' /\ IndexFollowsCore'
  BY DEF IInv, TypeOK, WorkShape, IndexFollowsCore, vars, sessionVars, mapVars,
         storeVars, callVars, workVars
<1>3. WritersWrite'
  BY QuietStep, <1>1, <1>2 DEF IInv, WritersWrite, vars, mapVars
<1> QED
  BY QuietStep, <1>1, <1>2, <1>3 DEF IInv

\* The inductive invariant holds in every reachable state.
THEOREM Invariance == Spec => []IInv
<1>1. Init => IInv
  <2> SUFFICES ASSUME Init PROVE IInv
    OBVIOUS
  <2>1. TypeOK
    BY DEF Init, TypeOK, Phase, Op, Reply
  <2>2. \A r \in Request : Rows(r) = {} /\ ~Took(r)
    BY DEF Init, Rows, Took, Holding, Acknowledged
  <2> QED
    BY <2>1, <2>2 DEF Init, IInv, AnsweredWhenDone, NamesBegun, EntriesShape,
       BatchShape, WorkShape, TakersShape, OneTaker, RowsShape, StagedKept,
       WritersWrite, ErrorStoresNothing, IndexFollowsCore
<1>2. TypeOK /\ TypeOK' /\ IInv /\ [Next]_vars => IInv'
  BY ArriveStep, RateLimitStep, AuthenticateStep, BeginTxStep, TxRememberStep,
     TxNotFoundStep, TakeTxStep, TransactionStep, TransactionErrorStep,
     InsertMemoryStep, InsertErrorStep, CoreCommitStep, CoreCommitErrorStep,
     FlushUpsertStep, FlushDoneStep, RollbackStep, DisconnectStep,
     EndSessionStep, CrashStep, StutterStep
  DEF Next, Serve
<1>3. QED
  BY <1>1, <1>2, TypeCorrect, PTL DEF Spec

-----------------------------------------------------------------------------
(* What the invariant says to clients                                         *)

\* All or nothing, for every number of staged memories and every failure.
THEOREM CommitsAreAtomic == Spec => []AtomicCommit
<1>1. IInv => AtomicCommit
  BY DEF IInv, RowsShape, AtomicCommit
<1> QED
  BY <1>1, Invariance, PTL

\* Racing commits never store a staged memory twice.
THEOREM NoDoubleInsert == Spec => []AtMostOnce
<1>1. IInv => AtMostOnce
  <2> SUFFICES ASSUME IInv, NEW s \in Request, NEW r1 \in Request, NEW r2 \in Request,
                      <<s, r1>> \in core, <<s, r2>> \in core
               PROVE  r1 = r2
    BY DEF AtMostOnce
  <2>1. s \in Rows(r1) /\ s \in Rows(r2)
    BY DEF Rows
  <2>2. s \in batch[r1] /\ s \in batch[r2]
    BY <2>1 DEF IInv, RowsShape
  <2>3. tx[r1] = tx[r2]
    BY <2>2 DEF IInv, BatchShape
  <2>4. Took(r1) /\ Took(r2)
    BY <2>1 DEF Took
  <2> QED
    BY <2>3, <2>4 DEF IInv, OneTaker
<1> QED
  BY <1>1, Invariance, PTL

\* "Committed" means durable, with everything whose staging was acknowledged.
THEOREM AcknowledgedCommitIsDurable == Spec => []CommitDurable
<1>1. IInv => CommitDurable
  <2> SUFFICES ASSUME IInv, NEW r \in Request, NEW s \in Request,
                      op[r] = "commit", reply[r] = "ok",
                      op[s] = "stage", reply[s] = "ok", tx[s] = tx[r]
               PROVE  <<s, r>> \in core
    BY DEF CommitDurable
  <2>1. s \in batch[r]
    BY DEF IInv, StagedKept, Took, Acknowledged
  <2>2. Rows(r) = batch[r]
    BY DEF IInv, RowsShape
  <2> QED
    BY <2>1, <2>2 DEF Rows
<1> QED
  BY <1>1, Invariance, PTL

\* "Rolled back" means that no row of the transaction exists or will exist.
THEOREM AcknowledgedRollbackIsFinal == Spec => []RollbackFinal
<1>1. IInv => RollbackFinal
  <2> SUFFICES ASSUME IInv, NEW r \in Request, NEW q \in Request,
                      op[r] = "rollback", reply[r] = "ok", tx[q] = tx[r],
                      Rows(q) # {}
               PROVE  FALSE
    BY DEF RollbackFinal
  <2>1. Took(r) /\ Took(q)
    BY DEF Took, Acknowledged
  <2>2. q = r
    BY <2>1 DEF IInv, OneTaker
  <2> QED
    BY <2>2 DEF IInv, RowsShape
<1> QED
  BY <1>1, Invariance, PTL

\* The index never points at a row that is not durable, and an error answered
\* to a commit never hides a stored memory.
THEOREM IndexAndErrorsAreHonest == Spec => [](IndexFollowsCore /\ ErrorStoresNothing)
<1>1. IInv => IndexFollowsCore /\ ErrorStoresNothing
  BY DEF IInv
<1> QED
  BY <1>1, Invariance, PTL

\* No row is stored for a session without a write scope.
THEOREM StoresNeedScope == Spec => []OnlyWritersStore
<1>1. IInv => OnlyWritersStore
  BY DEF IInv, WritersWrite, OnlyWritersStore
<1> QED
  BY <1>1, Invariance, PTL

\* After a session has ended, and once no commit of a transaction of its own is
\* past authorize, no step stores or flushes a row of that transaction.
THEOREM EndedSessionsAreInert == Spec => EndedSessionStoresNothing
<1>1. ASSUME TypeOK, Next, NEW r \in Request, Ended(r),
             NEW q \in Request, tx[q] = tx[r]
      PROVE  Rows(q)' = Rows(q) /\ pc'[q] \notin {"writing", "flushing"}
  <2>1. pc[q] \notin {"writing", "flushing"} /\ owner[tx[q]] \notin live
    BY <1>1 DEF Ended
  <2>2. pc'[q] \in {"writing", "flushing"} =>
          pc[q] \in {"writing", "flushing"} \/ Transaction(q)
    <3>1. ASSUME NEW p \in Request,
                 ArriveHttp(p) \/ ArriveGrpc(p) \/ RateLimit(p) \/ Disconnect(p)
          PROVE  pc'[q] \notin {"writing", "flushing"} \/ pc'[q] = pc[q]
      BY <3>1, <1>1 DEF ArriveHttp, ArriveGrpc, RateLimit, Disconnect, Goto, Answer, TypeOK
    <3>2. ASSUME NEW p \in Request, Serve(p), ~Transaction(p)
          PROVE  pc'[q] \in {"writing", "flushing"} => pc[q] \in {"writing", "flushing"}
      BY <3>2, <1>1 DEF Serve, Authenticate, BeginTx, TxRemember, TxNotFound, TakeTx,
         TransactionError, InsertMemory, InsertError, CoreCommit, CoreCommitError,
         FlushUpsert, FlushDone, Rollback, Goto, Answer, TypeOK
    <3>3. ASSUME NEW p \in Request, Transaction(p), p # q
          PROVE  pc'[q] = pc[q]
      BY <3>3, <1>1 DEF Transaction, Goto, TypeOK
    <3>4. ASSUME (\E s \in Session : EndSession(s)) \/ Crash
          PROVE  pc'[q] \notin {"writing", "flushing"} \/ pc'[q] = pc[q]
      BY <3>4, <1>1 DEF EndSession, Crash, InFlight, TypeOK
    <3> QED
      BY <3>1, <3>2, <3>3, <3>4, <1>1 DEF Next
  <2>3. ~Transaction(q)
    BY <2>1 DEF Transaction, Authorized, Valid
  <2>4. core' = core \/ \E p \in Request : CoreCommit(p)
    BY <1>1 DEF Next, Serve, ArriveHttp, ArriveGrpc, RateLimit, Authenticate, BeginTx,
       TxRemember, TxNotFound, TakeTx, Transaction, TransactionError, InsertMemory,
       InsertError, CoreCommitError, FlushUpsert, FlushDone, Rollback, Disconnect,
       EndSession, Crash, storeVars
  <2>5. ASSUME NEW p \in Request, CoreCommit(p)
        PROVE  Rows(q)' = Rows(q)
    <3>1. p # q
      BY <2>1, <2>5 DEF CoreCommit
    <3>2. \A s \in Request : <<s, q>> \in core' <=> <<s, q>> \in core
      BY <2>5, <3>1 DEF CoreCommit
    <3> QED
      BY <3>2 DEF Rows
  <2> QED
    BY <2>1, <2>2, <2>3, <2>4, <2>5 DEF Rows
<1>2. TypeOK /\ [Next]_vars => [StaysEnded]_vars
  BY <1>1 DEF StaysEnded
<1>3. QED
  BY <1>2, TypeCorrect, PTL DEF Spec, EndedSessionStoresNothing

-----------------------------------------------------------------------------
(* Every step of ServerTx is a step of AtomicTx, or changes nothing that    *)
(* AtomicTx sees.                                                           *)

\* A transaction nobody holds has nothing collected; one that a handler holds
\* has the handler's batch; one in the map has its entry.
CollectedIs(t) ==
  /\ ~Held(t) => Collected(t) = {}
  /\ t \in open => Collected(t) = staged[t] /\ \A q \in Request : ~Holds(q, t)
  /\ \A r \in Request : Holds(r, t) => Collected(t) = batch[r]

AllCollected == \A t \in Tx : CollectedIs(t)

LEMMA CollectedValue == IInv => AllCollected
<1> SUFFICES ASSUME IInv, NEW t \in Tx PROVE CollectedIs(t)
  BY DEF AllCollected
<1>1. t \notin open => staged[t] = {}
  BY DEF IInv, EntriesShape
<1>2. \A q \in Request : Holds(q, t) => Took(q) /\ tx[q] = t
  BY DEF Holds, Undecided, Took, Holding
<1>3. t \in open => \A q \in Request : ~Holds(q, t)
  BY <1>2 DEF IInv, TakersShape
<1>4. \A r, q \in Request : Holds(r, t) /\ Holds(q, t) => r = q
  BY <1>2 DEF IInv, OneTaker
<1>5. staged[t] \subseteq Request /\ \A r \in Request : batch[r] \subseteq Request
  BY DEF IInv, TypeOK
<1>6. ~Held(t) => Collected(t) = {}
  BY <1>1 DEF Held, Collected
<1>7. t \in open => Collected(t) = staged[t]
  BY <1>3, <1>5 DEF Collected
<1>8. ASSUME NEW r \in Request, Holds(r, t)
      PROVE  Collected(t) = batch[r]
  BY <1>1, <1>3, <1>4, <1>5, <1>8 DEF Collected
<1> QED
  BY <1>3, <1>6, <1>7, <1>8 DEF CollectedIs

LEMMA CollectedValueNext == IInv' => AllCollected'
  BY CollectedValue, PTL

-----------------------------------------------------------------------------
(* Steps that can only close transactions without storing anything.          *)

Shrinks ==
  /\ begun' = begun /\ core' = core /\ open' \subseteq open
  /\ \A t \in open' : staged'[t] = staged[t]
  /\ \A q \in Request : Undecided(q)' => Undecided(q) /\ tx'[q] = tx[q] /\ batch'[q] = batch[q]

LEMMA ShrinkRefines ==
  ASSUME IInv, IInv', Shrinks
  PROVE  A!Next
<1> DEFINE T == {t \in Tx : Held(t) /\ ~Held(t)'}
<1>1. ASSUME NEW t \in Tx
      PROVE  /\ Held(t)' => Held(t)
             /\ Collected(t)' = IF Held(t)' THEN Collected(t) ELSE {}
  <2>1. CASE t \in open'
    <3>1. Collected(t) = staged[t] /\ Collected(t)' = staged'[t]
      BY <2>1, CollectedValue, CollectedValueNext DEF Shrinks, CollectedIs, AllCollected
    <3> QED
      BY <2>1, <3>1 DEF Shrinks, Held
  <2>2. ASSUME NEW r \in Request, Holds(r, t)'
        PROVE  Held(t) /\ Held(t)' /\ Collected(t)' = Collected(t)
    <3>1. Holds(r, t) /\ batch'[r] = batch[r]
      BY <2>2 DEF Shrinks, Holds
    <3>2. Collected(t) = batch[r] /\ Collected(t)' = batch'[r]
      BY <2>2, <3>1, CollectedValue, CollectedValueNext DEF CollectedIs, AllCollected
    <3> QED
      BY <2>2, <3>1, <3>2 DEF Held
  <2>3. CASE ~Held(t)'
    BY <2>3, CollectedValueNext DEF CollectedIs, AllCollected
  <2> QED
    BY <2>1, <2>2, <2>3 DEF Held
<1>2. \A t \in Tx : Held(t) => t \in begun
  BY DEF IInv, TypeOK, TakersShape, Took, Holding, Held, Holds, Undecided
<1>3. \A t \in T : statusBar[t] = "open"
  BY <1>2 DEF statusBar
<1>4. statusBar' = [t \in Tx |-> IF t \in T THEN "closed" ELSE statusBar[t]]
  BY <1>1, <1>2 DEF statusBar, Shrinks
<1>5. \A t \in Tx : Collected(t)' = IF t \in T THEN {} ELSE Collected(t)
  BY <1>1, CollectedValue DEF CollectedIs, AllCollected
<1>6. collectedBar' = [t \in Tx |-> IF t \in T THEN {} ELSE collectedBar[t]]
  BY <1>5 DEF collectedBar
<1>7. storedBar' = storedBar
  BY DEF storedBar, Shrinks
<1>8. A!Discard(T)
  BY <1>3, <1>4, <1>6, <1>7 DEF A!Discard
<1> QED
  BY <1>8 DEF A!Next

\* Arrivals, handler steps between the map and the core commit, answers,
\* revocations and crashes.
LEMMA ShrinkingSteps ==
  ASSUME IInv, Next,
         ~ \E r \in Request : BeginTx(r) \/ TxRemember(r) \/ TakeTx(r) \/ CoreCommit(r)
  PROVE  Shrinks
<1> USE DEF IInv, TypeOK, Shrinks, Undecided, Goto, Answer, DropTransaction,
            mapVars, storeVars, callVars, workVars
<1>1. ASSUME NEW r \in Request, ArriveHttp(r) \/ ArriveGrpc(r) \/ RateLimit(r)
      PROVE  Shrinks
  BY <1>1 DEF ArriveHttp, ArriveGrpc, RateLimit
<1>2. ASSUME NEW r \in Request, Authenticate(r) \/ TxNotFound(r)
      PROVE  Shrinks
  BY <1>2 DEF Authenticate, TxNotFound
<1>3. ASSUME NEW r \in Request, Transaction(r) \/ TransactionError(r)
      PROVE  Shrinks
  BY <1>3 DEF Transaction, TransactionError
<1>4. ASSUME NEW r \in Request, InsertMemory(r) \/ InsertError(r)
      PROVE  Shrinks
  BY <1>4 DEF InsertMemory, InsertError
<1>5. ASSUME NEW r \in Request, CoreCommitError(r) \/ Rollback(r)
      PROVE  Shrinks
  BY <1>5 DEF CoreCommitError, Rollback
<1>6. ASSUME NEW r \in Request, FlushUpsert(r) \/ FlushDone(r)
      PROVE  Shrinks
  BY <1>6 DEF FlushUpsert, FlushDone
<1>7. ASSUME NEW r \in Request, Disconnect(r)
      PROVE  Shrinks
  BY <1>7 DEF Disconnect
<1>8. ASSUME NEW s \in Session, EndSession(s)
      PROVE  Shrinks
  BY <1>8 DEF EndSession
<1>9. CASE Crash
  BY <1>9 DEF Crash, InFlight
<1> QED
  BY <1>1, <1>2, <1>3, <1>4, <1>5, <1>6, <1>7, <1>8, <1>9 DEF Next, Serve

-----------------------------------------------------------------------------
(* The steps AtomicTx has a name for, and the one it does not see.           *)

LEMMA BeginRefines ==
  ASSUME IInv, NEW r \in Request, BeginTx(r)
  PROVE  A!Next
<1> USE DEF IInv, TypeOK, BeginTx, Answer
<1>1. PICK t \in Tx \ begun :
        /\ begun' = begun \cup {t} /\ open' = open \cup {t}
        /\ staged' = [staged EXCEPT ![t] = {}]
  BY DEF BeginTx
<1>2. UNCHANGED <<batch, core>> /\ \A q \in Request : \A u \in Tx : Holds(q, u)' <=> Holds(q, u)
  BY DEF Holds, Undecided, storeVars, workVars
<1>3. staged[t] = {}
  BY <1>1 DEF EntriesShape
<1>4. staged' = staged
  BY <1>1, <1>3
<1>5. collectedBar' = collectedBar /\ storedBar' = storedBar
  BY <1>2, <1>4 DEF collectedBar, Collected, storedBar
<1>6. statusBar[t] = "unused"
  BY <1>1 DEF statusBar
<1>7. statusBar' = [statusBar EXCEPT ![t] = "open"]
  BY <1>1, <1>2 DEF statusBar, Held
<1>8. A!Begin(t)
  BY <1>1, <1>5, <1>6, <1>7 DEF A!Begin
<1> QED
  BY <1>1, <1>8 DEF A!Next

LEMMA RememberRefines ==
  ASSUME IInv, NEW r \in Request, TxRemember(r)
  PROVE  A!Next
<1> USE DEF IInv, TypeOK
<1>1. /\ op[r] = "stage" /\ pc[r] = "admitted" /\ tx[r] \in open /\ tx[r] \in Tx
      /\ staged' = [staged EXCEPT ![tx[r]] = staged[tx[r]] \cup {r}]
      /\ UNCHANGED <<begun, open, core, batch, tx>>
      /\ pc' = [pc EXCEPT ![r] = "done"]
  BY DEF TxRemember, Answer, storeVars, workVars
<1>2. \A q \in Request : \A u \in Tx : Holds(q, u)' <=> Holds(q, u)
  BY <1>1 DEF Holds, Undecided
<1>3. statusBar' = statusBar /\ storedBar' = storedBar
  BY <1>1, <1>2 DEF statusBar, Held, storedBar
<1>4. statusBar[tx[r]] = "open"
  BY <1>1 DEF statusBar, Held
<1>5. \A q \in Request : r \notin batch[q] /\ <<r, q>> \notin core
  BY <1>1 DEF BatchShape, RowsShape, Rows
<1>6. \A u \in Tx : r \notin staged[u]
  BY <1>1 DEF EntriesShape
<1>7. r \notin storedBar /\ \A u \in Tx : r \notin collectedBar[u]
  BY <1>5, <1>6 DEF storedBar, collectedBar, Collected
<1>8. \A u \in Tx : Collected(u)' = IF u = tx[r] THEN Collected(u) \cup {r} ELSE Collected(u)
  BY <1>1, <1>2 DEF Collected
<1>9. collectedBar' = [collectedBar EXCEPT ![tx[r]] = collectedBar[tx[r]] \cup {r}]
  BY <1>1, <1>8 DEF collectedBar
<1>10. A!Collect(tx[r], r)
  BY <1>1, <1>3, <1>4, <1>7, <1>9 DEF A!Collect
<1> QED
  BY <1>1, <1>10 DEF A!Next

\* Taking the entry moves what was collected from the map into the handler.
LEMMA TakeStutters ==
  ASSUME IInv, IInv', NEW r \in Request, TakeTx(r)
  PROVE  UNCHANGED A!atomicVars
<1> USE DEF IInv, TypeOK
<1>1. /\ tx[r] \in open /\ tx[r] \in Tx /\ open' = open \ {tx[r]}
      /\ batch' = [batch EXCEPT ![r] = staged[tx[r]]]
      /\ staged' = [staged EXCEPT ![tx[r]] = {}]
      /\ pc[r] = "admitted" /\ pc' = [pc EXCEPT ![r] = "claimed"]
      /\ UNCHANGED <<begun, core, tx>>
  BY DEF TakeTx, Goto, storeVars
<1>2. Holds(r, tx[r])' /\ \A q \in Request : \A u \in Tx : q # r \/ u # tx[r] => Holds(q, u)' = Holds(q, u)
  BY <1>1 DEF Holds, Undecided
<1>3. \A u \in Tx : Held(u)' <=> Held(u)
  <2>1. ASSUME NEW u \in Tx, u = tx[r] PROVE Held(u)' <=> Held(u)
    <3>1. Held(u)' /\ Held(u)
      BY <1>1, <1>2, <2>1, Zenon DEF Held
    <3> QED
      BY <3>1, Zenon
  <2>2. ASSUME NEW u \in Tx, u # tx[r] PROVE Held(u)' <=> Held(u)
    <3>1. u \in open' <=> u \in open
      BY <1>1, <2>2
    <3> QED
      BY <1>2, <2>2, <3>1, Zenon DEF Held
  <2> QED
    BY <2>1, <2>2, Zenon
<1>4. \A u \in Tx : Collected(u)' = Collected(u)
  <2>1. Collected(tx[r]) = staged[tx[r]] /\ Collected(tx[r])' = batch'[r]
    BY <1>1, <1>2, CollectedValue, CollectedValueNext DEF CollectedIs, AllCollected
  <2>2. \A u \in Tx : u # tx[r] => Collected(u)' = Collected(u)
    BY <1>1, <1>2 DEF Collected, Holds
  <2> QED
    BY <1>1, <2>1, <2>2
<1> QED
  BY <1>1, <1>3, <1>4 DEF A!atomicVars, statusBar, collectedBar, storedBar

LEMMA CommitRefines ==
  ASSUME IInv, IInv', NEW r \in Request, CoreCommit(r)
  PROVE  A!Next
<1> USE DEF IInv, TypeOK
<1>0. PICK t \in Tx : t = tx[r]
  BY DEF CoreCommit, TakersShape, Took, Holding
<1>1. /\ pc[r] = "writing" /\ pc' = [pc EXCEPT ![r] = "flushing"]
      /\ wrote[r] = batch[r] /\ core' = core \cup (batch[r] \X {r})
      /\ UNCHANGED <<begun, open, staged, batch, tx>>
  BY DEF CoreCommit, Goto, mapVars
<1>2. Took(r) /\ Holds(r, t)
  BY <1>0, <1>1 DEF Took, Holding, Holds, Undecided
<1>3. t \in begun /\ t \notin open
  BY <1>0, <1>2 DEF TakersShape
<1>4. \A q \in Request : \A u \in Tx : Holds(q, u)' <=> Holds(q, u) /\ q # r
  BY <1>1 DEF Holds, Undecided
<1>5. \A q \in Request : Holds(q, t) => q = r
  BY <1>0, <1>2 DEF OneTaker, Took, Holding, Holds, Undecided
<1>6. \A u \in Tx : Held(u)' <=> Held(u) /\ u # t
  <2>1. \A u \in Tx : Holds(r, u) => u = t
    BY <1>0 DEF Holds
  <2> QED
    BY <1>1, <1>3, <1>4, <1>5, <2>1 DEF Held
<1>7. statusBar[t] = "open" /\ statusBar' = [statusBar EXCEPT ![t] = "closed"]
  <2>1. Held(t)
    BY <1>2 DEF Held
  <2>2. begun' = begun
    BY <1>1
  <2> QED
    BY ONLY <1>3, <1>6, <2>1, <2>2 DEF statusBar
<1>8. \A u \in Tx : u # t => Collected(u)' = Collected(u)
  BY <1>0, <1>1, <1>2, <1>4, <1>5 DEF Collected, Holds
<1>9. Collected(t)' = {} /\ Collected(t) = batch[r]
  BY <1>2, <1>3, <1>6, CollectedValue, CollectedValueNext DEF CollectedIs, AllCollected
<1>10. collectedBar' = [collectedBar EXCEPT ![t] = {}] /\ collectedBar[t] = batch[r]
  BY <1>8, <1>9 DEF collectedBar
<1>11. storedBar' = storedBar \cup batch[r]
  BY <1>1 DEF storedBar
<1>12. A!Commit(t)
  BY <1>7, <1>10, <1>11 DEF A!Commit
<1> QED
  BY <1>3, <1>12 DEF A!Next

\* Every behaviour of the server, seen through the mapping, is one of AtomicTx.
THEOREM ServerImplementsAtomicTx == Spec => ImplementsAtomicTx
<1>1. Init => A!Init
  BY DEF Init, A!Init, statusBar, collectedBar, Collected, storedBar, Held, Holds, Undecided
<1>2. IInv /\ IInv' /\ [Next]_vars => [A!Next]_A!atomicVars
  <2> SUFFICES ASSUME IInv, IInv', [Next]_vars PROVE [A!Next]_A!atomicVars
    OBVIOUS
  <2>1. CASE UNCHANGED vars
    BY <2>1 DEF vars, mapVars, storeVars, workVars, A!atomicVars, statusBar,
       collectedBar, Collected, storedBar, Held, Holds, Undecided
  <2>2. CASE Next
    BY <2>2, ShrinkingSteps, ShrinkRefines, BeginRefines, RememberRefines,
       TakeStutters, CommitRefines
  <2> QED
    BY <2>1, <2>2
<1>3. QED
  BY <1>1, <1>2, Invariance, PTL DEF Spec, ImplementsAtomicTx, A!Spec
=============================================================================
