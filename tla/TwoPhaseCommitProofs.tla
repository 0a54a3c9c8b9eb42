-------------------------- MODULE TwoPhaseCommitProofs --------------------------
(***************************************************************************)
(* Safety theorems of TwoPhaseCommit, for any transactions, keys, calls and *)
(* deployments.                                                            *)
(***************************************************************************)
EXTENDS TwoPhaseCommit, FiniteSetTheorems, TLAPS

-----------------------------------------------------------------------------
(* The inductive invariant *)

CommitAt   == {"upserts", "core committed", "drop snapshot"}
RollbackAt == {"core rollback", "core rolled back", "restore snapshot", "rolled back"}
CoreEnded  == {"core committed", "core rolled back"}
CoreCommitted == {"core committed", "drop snapshot"}
BusyAt     == CommitAt \cup RollbackAt \cup {"snapshot"}

TxState ==
  [status : {"none", "refused", "beginning", "Active", "Committing", "RollingBack",
             "Committed", "RolledBack"},
   core : BOOLEAN, buffer : Seq(Key), snapshot : BOOLEAN]
CallState ==
  [op : {None, "begin", "buffer", "commit", "rollback", "timeout"}, tx : Tx \cup {None},
   at : {"idle", "lock", "next"} \cup BusyAt, todo : Seq(Key), stale : SUBSET Tx,
   key : Key \cup {None}]

Types ==
  /\ tx \in [Tx -> TxState] /\ call \in [Call -> CallState]
  /\ buffered \in [Tx -> SUBSET Key]
  /\ log \in Seq(Tx) /\ Len(log) <= MaxLog
  /\ core_open \in Tx \cup {None} /\ core_done \subseteq Tx
  /\ applied \subseteq Tx \X Key
  /\ acks \subseteq Tx \X {"committed", "failed", "rolled back"}
  /\ slips \subseteq {"begin dropped", "dropped", "ROLLBACK failed"}

\* What a call is doing says what state it finds its transaction in.
Working(c) ==
  /\ call[c].at \in {"idle", "next"} <=> Of(c) = None
  /\ At(c, "next") => call[c].op = "timeout"
  /\ At(c, "lock") /\ call[c].op = "buffer" => call[c].key \in Key
  /\ At(c, "snapshot") => call[c].op = "begin" /\ tx[Of(c)].status = "beginning"
  /\ At(c, "lock") => call[c].op # "begin" /\ tx[Of(c)].status \notin {"none", "refused", "beginning"}
  /\ call[c].at \in CommitAt => call[c].op = "commit" /\ tx[Of(c)].status = "Committing"
  /\ call[c].at \in RollbackAt =>
       call[c].op \in {"commit", "rollback", "timeout"} /\ tx[Of(c)].status = "RollingBack"

Elements(seq) == {seq[i] : i \in DOMAIN seq}

\* A commit in phase 2 still has what claw-vector has not, and will end what
\* is open in claw-core.
Carries(c) ==
  /\ Has("vector") /\ call[c].at \in CommitAt =>
       \A key \in buffered[Of(c)] : <<Of(c), key>> \in applied \/ key \in Elements(call[c].todo)
  /\ call[c].at \in CoreCommitted => call[c].todo = <<>>
  /\ Has("core") /\ At(c, "upserts") => tx[Of(c)].core
  /\ call[c].at \in {"drop snapshot", "restore snapshot", "rolled back"} => ~tx[Of(c)].core

CallInv(c) == Working(c) /\ Carries(c)

Busy(c, t) == Of(c) = t /\ call[c].at \in BusyAt

\* The mutex of a transaction.
OneAtWork == \A t \in Tx : \A c, d \in Call : Busy(c, t) /\ Busy(d, t) => c = d

CallAt(t, where) == \E c \in Call : Of(c) = t /\ call[c].at \in where

\* A commit that has failed and is rolling back.
FailingCommit(t) == \E c \in Call : Of(c) = t /\ call[c].op = "commit" /\ call[c].at \in RollbackAt

Unborn == {"none", "refused", "beginning"}

\* The two maps of the manager, and what callers wrote.
MapsOf(t) ==
  /\ t \in active <=> Open(t)
  /\ t \in active => write_set[t] = buffered[t]
  /\ tx[t].status \in Unborn => buffered[t] = {}

AnswersOf(t) ==
  /\ <<t, "committed">> \in acks => tx[t].status = "Committed"
  /\ <<t, "failed">> \in acks \/ <<t, "rolled back">> \in acks => tx[t].status = "RolledBack"
  /\ ~(<<t, "failed">> \in acks /\ <<t, "rolled back">> \in acks)

\* What the manager knows of a transaction in claw-core is true while no call
\* was dropped; that it knows of the one that is open, while no begin was.
CoreOf(t) ==
  /\ Has("core") /\ tx[t].status \in {"beginning", "Active"} => tx[t].core
  /\ tx[t].core => tx[t].status \in {"beginning", "Active", "Committing", "RollingBack"}
  /\ NoDrop /\ tx[t].core => core_open = t \/ CallAt(t, CoreEnded)
  /\ slips \subseteq {"dropped"} /\ core_open = t =>
       /\ tx[t].core /\ ~CallAt(t, CoreEnded)
       /\ tx[t].status = "beginning" => CallAt(t, {"snapshot"})
  /\ NoDrop /\ t \in core_done => tx[t].status = "Committed" \/ CallAt(t, CoreCommitted)
  /\ NoDrop /\ Has("core") /\ (tx[t].status = "Committed" \/ CallAt(t, CoreCommitted)) => t \in core_done

\* Writes go from the buffer through a commit to claw-vector. What is there of
\* a transaction that was not committed is of a commit that failed.
WritesOf(t) ==
  /\ tx[t].status = "Active" => buffered[t] \subseteq Elements(tx[t].buffer)
  /\ Has("vector") /\ tx[t].status = "Committed" => \A key \in buffered[t] : <<t, key>> \in applied
  /\ NoDrop /\ tx[t].status = "Committing" => CallAt(t, CommitAt)
  /\ NoDrop /\ (\E key \in Key : <<t, key>> \in applied) =>
       \/ tx[t].status \in {"Committing", "Committed"}
       \/ <<t, "failed">> \in acks
       \/ FailingCommit(t)

TxInv(t) == MapsOf(t) /\ AnswersOf(t) /\ CoreOf(t) /\ WritesOf(t)

IInv ==
  /\ Types /\ OneAtWork /\ DOMAIN write_set = active /\ active \subseteq Tx
  /\ \A c \in Call : CallInv(c)
  /\ \A t \in Tx : TxInv(t)

LEMMA InitInvariant == Init => IInv
<1> SUFFICES ASSUME Init PROVE IInv
  OBVIOUS
<1> USE DEF Init, NoTx, NoCall
<1>1. Types
  BY BoundsAssumption DEF Types, TxState, CallState, BusyAt
<1>2. \A c \in Call : CallInv(c)
  BY DEF CallInv, Working, Carries, At, Of, CommitAt, RollbackAt, CoreCommitted
<1>3. OneAtWork
  BY DEF OneAtWork, Busy, Of, BusyAt, CommitAt, RollbackAt
<1>4. ASSUME NEW t \in Tx PROVE TxInv(t)
  <2>1. MapsOf(t) /\ AnswersOf(t)
    BY DEF MapsOf, AnswersOf, Open, Unborn
  <2>2. CoreOf(t)
    BY TxAssumption DEF CoreOf, CallAt, CoreEnded, CoreCommitted
  <2>3. WritesOf(t)
    BY DEF WritesOf
  <2> QED
    BY <2>1, <2>2, <2>3 DEF TxInv
<1> QED
  BY <1>1, <1>2, <1>3, <1>4 DEF IInv, NoWrites

-----------------------------------------------------------------------------
(* What a step does to the call that takes it and to its transaction *)

CallIs(c, op, t, at, todo, key) ==
  /\ call' \in [Call -> CallState]
  /\ \A d \in Call : d # c => call'[d] = call[d]
  /\ call'[c].op = op /\ call'[c].tx = t /\ call'[c].at = at
  /\ call'[c].todo = todo /\ call'[c].key = key

TxIs(t, status, core, buffer) ==
  /\ tx' \in [Tx -> TxState]
  /\ \A u \in Tx : u # t => tx'[u] = tx[u]
  /\ tx'[t].status = status /\ tx'[t].core = core /\ tx'[t].buffer = buffer

Moves(c, at, todo) == CallIs(c, call[c].op, Of(c), at, todo, call[c].key)

LEMMA CallUpdated ==
  ASSUME Types, NEW c \in Call, NEW r \in CallState, call' = [call EXCEPT ![c] = r]
  PROVE  CallIs(c, r.op, r.tx, r.at, r.todo, r.key)
BY DEF Types, CallIs

LEMMA TxUpdated ==
  ASSUME Types, NEW t \in Tx, NEW r \in TxState, tx' = [tx EXCEPT ![t] = r]
  PROVE  TxIs(t, r.status, r.core, r.buffer)
BY DEF Types, TxIs

LEMMA EmptyBuffer == <<>> \in Seq(Key)
  OBVIOUS

LEMMA GoesShape ==
  ASSUME Types, NEW c \in Call, NEW at \in {"next"} \cup BusyAt, Goes(c, at)
  PROVE  Moves(c, at, call[c].todo)
<1> DEFINE r == [call[c] EXCEPT !.at = at]
<1>1. r \in CallState /\ r.at = at /\ r.op = call[c].op /\ r.tx = Of(c) /\ r.todo = call[c].todo
      /\ r.key = call[c].key
  BY DEF Types, CallState, Of
<1>2. call' = [call EXCEPT ![c] = r]
  BY DEF Goes
<1> HIDE DEF r
<1>3. CallIs(c, r.op, r.tx, r.at, r.todo, r.key)
  BY <1>1, <1>2, CallUpdated
<1> QED
  BY <1>1, <1>3 DEF Moves

LEMMA ReturnsShape ==
  ASSUME Types, NEW c \in Call, Returns(c)
  PROVE  CallIs(c, None, None, "idle", <<>>, None)
<1>1. NoCall \in CallState
  BY EmptyBuffer DEF NoCall, CallState
<1>2. CallIs(c, NoCall.op, NoCall.tx, NoCall.at, NoCall.todo, NoCall.key)
  BY <1>1, CallUpdated DEF Returns
<1> QED
  BY <1>2 DEF NoCall

\* A rollback returns, or timeout_stale goes on to the next transaction.
LEMMA EndsShape ==
  ASSUME Types, NEW c \in Call, Ends(c)
  PROVE  \E op, key, todo : \E at \in {"idle", "next"} :
           CallIs(c, op, None, at, todo, key) /\ (at = "next" => op = "timeout")
<1>1. CASE call[c].op = "timeout"
  <2> DEFINE r == [call[c] EXCEPT !.at = "next", !.tx = None]
  <2>1. r \in CallState /\ r.at = "next" /\ r.tx = None /\ r.op = "timeout"
    BY <1>1 DEF Types, CallState
  <2>2. call' = [call EXCEPT ![c] = r]
    BY <1>1 DEF Ends
  <2> HIDE DEF r
  <2>3. CallIs(c, "timeout", None, "next", r.todo, r.key)
    BY <2>1, <2>2, CallUpdated
  <2> QED
    BY <2>3
<1>2. CASE call[c].op # "timeout"
  <2>1. CallIs(c, None, None, "idle", <<>>, None)
    BY <1>2, ReturnsShape DEF Ends
  <2> QED
    BY <2>1
<1> QED
  BY <1>1, <1>2

LEMMA StatusShape ==
  ASSUME Types, NEW c \in Call, Of(c) \in Tx,
         NEW status \in {"RollingBack", "Committed", "RolledBack"}, Status(c, status)
  PROVE  TxIs(Of(c), status, tx[Of(c)].core, tx[Of(c)].buffer)
<1> DEFINE t == Of(c)
           r == [tx[t] EXCEPT !.status = status]
<1>1. r \in TxState /\ r.status = status /\ r.core = tx[t].core /\ r.buffer = tx[t].buffer
  BY DEF Types, TxState
<1>2. tx' = [tx EXCEPT ![t] = r]
  BY DEF Status
<1> HIDE DEF r
<1>3. TxIs(t, r.status, r.core, r.buffer)
  BY <1>1, <1>2, TxUpdated
<1> QED
  BY <1>1, <1>3

\* A step of phase 2 that fails.
LEMMA FailsShape ==
  ASSUME Types, NEW c \in Call, Of(c) \in Tx, Fails(c)
  PROVE  /\ Moves(c, "core rollback", <<>>)
         /\ TxIs(Of(c), "RollingBack", tx[Of(c)].core, tx[Of(c)].buffer)
<1> DEFINE r == [call[c] EXCEPT !.at = "core rollback", !.todo = <<>>]
<1>1. r \in CallState /\ r.at = "core rollback" /\ r.op = call[c].op /\ r.tx = Of(c)
      /\ r.todo = <<>> /\ r.key = call[c].key
  BY EmptyBuffer DEF Types, CallState, Of, BusyAt, RollbackAt
<1>2. call' = [call EXCEPT ![c] = r]
  BY DEF Fails
<1> HIDE DEF r
<1>3. CallIs(c, r.op, r.tx, r.at, r.todo, r.key)
  BY <1>1, <1>2, CallUpdated
<1> QED
  BY <1>1, <1>3, StatusShape DEF Fails, Moves

-----------------------------------------------------------------------------
(* The mutex, and what it keeps from the other calls *)

Alone(c, t) == \A d \in Call : d # c => ~Busy(d, t)

LEMMA BusyAlone ==
  ASSUME IInv, NEW c \in Call, call[c].at \in BusyAt
  PROVE  Of(c) \in Tx /\ Alone(c, Of(c))
<1>1. Of(c) \in Tx
  BY DEF IInv, CallInv, Types, CallState, Working, Of, BusyAt, CommitAt, RollbackAt
<1> QED
  BY <1>1 DEF IInv, CallInv, OneAtWork, Busy, Alone

LEMMA BusyTx == ASSUME IInv, NEW c \in Call, call[c].at \in BusyAt \cup {"lock"} PROVE Of(c) \in Tx
BY DEF IInv, CallInv, Types, CallState, Working, Of, BusyAt, CommitAt, RollbackAt

LEMMA LockAlone ==
  ASSUME IInv, NEW c \in Call, NEW op, Locks(c, op)
  PROVE  Of(c) \in Tx /\ Alone(c, Of(c))
<1>1. At(c, "lock") /\ Of(c) \in Tx
  BY DEF IInv, CallInv, Types, CallState, Working, Of, Locks, At
<1>2. ASSUME NEW d \in Call PROVE ~Busy(d, Of(c))
  <2>1. call[d].at # "snapshot" \/ Of(d) # Of(c)
    BY <1>1 DEF IInv, CallInv, Working, At
  <2> QED
    BY <2>1 DEF Locks, Locked, Busy, BusyAt, AtWork, CommitAt, RollbackAt
<1> QED
  BY <1>1, <1>2 DEF Alone

\* Nothing changes for a transaction.
Same(t) ==
  /\ CallAt(t, {"snapshot"})' <=> CallAt(t, {"snapshot"})
  /\ CallAt(t, CoreEnded)' <=> CallAt(t, CoreEnded)
  /\ CallAt(t, CoreCommitted)' <=> CallAt(t, CoreCommitted)
  /\ CallAt(t, CommitAt)' <=> CallAt(t, CommitAt)
  /\ FailingCommit(t)' <=> FailingCommit(t)

\* The one call that is at work on a transaction, if it is at work on it.
Sees(t, u, op, at) ==
  /\ CallAt(t, {"snapshot"}) <=> (u = t /\ at = "snapshot")
  /\ CallAt(t, CoreEnded) <=> (u = t /\ at \in CoreEnded)
  /\ CallAt(t, CoreCommitted) <=> (u = t /\ at \in CoreCommitted)
  /\ CallAt(t, CommitAt) <=> (u = t /\ at \in CommitAt)
  /\ FailingCommit(t) <=> (u = t /\ op = "commit" /\ at \in RollbackAt)

\* A transaction about which a step changes nothing.
Untouched(t) ==
  /\ tx'[t] = tx[t]
  /\ t \in active' <=> t \in active
  /\ t \in active => write_set'[t] = write_set[t]
  /\ buffered'[t] = buffered[t]
  /\ \A answer : <<t, answer>> \in acks' <=> <<t, answer>> \in acks
  /\ \A key : <<t, key>> \in applied' <=> <<t, key>> \in applied
  /\ NoDrop => (t \in core_done' <=> t \in core_done)
  /\ core_open' = t => core_open = t
  /\ NoDrop /\ core_open = t => core_open' = t

LEMMA UntouchedStep ==
  ASSUME NEW t \in Tx, TxInv(t), Same(t), Untouched(t), components' = components, slips \subseteq slips'
  PROVE  TxInv(t)'
<1>1. MapsOf(t)' /\ AnswersOf(t)'
  BY DEF TxInv, MapsOf, AnswersOf, Untouched, Open, Unborn
<1>2. CoreOf(t)'
  <2>1. NoDrop' => NoDrop
    BY DEF NoDrop
  <2>2. slips' \subseteq {"dropped"} => slips \subseteq {"dropped"}
    OBVIOUS
  <2> QED
    BY <2>1, <2>2 DEF TxInv, CoreOf, Untouched, Same, Has
<1>3. WritesOf(t)'
  BY DEF TxInv, WritesOf, Untouched, Same, NoDrop, Has
<1> QED
  BY <1>1, <1>2, <1>3 DEF TxInv

LEMMA AloneSees ==
  ASSUME NEW c \in Call, NEW t \in Tx, Alone(c, t) PROVE Sees(t, Of(c), call[c].op, call[c].at)
<1>1. ASSUME NEW d \in Call, Of(d) = t, call[d].at \in BusyAt PROVE d = c
  BY <1>1 DEF Alone, Busy
<1>2. ASSUME NEW where \in SUBSET BusyAt PROVE CallAt(t, where) <=> (Of(c) = t /\ call[c].at \in where)
  BY <1>1 DEF CallAt
<1>3. FailingCommit(t) <=> (Of(c) = t /\ call[c].op = "commit" /\ call[c].at \in RollbackAt)
  BY <1>1 DEF FailingCommit, BusyAt
<1>4. {"snapshot"} \subseteq BusyAt /\ CoreEnded \subseteq BusyAt /\ CoreCommitted \subseteq BusyAt
      /\ CommitAt \subseteq BusyAt
  BY DEF BusyAt, CommitAt, RollbackAt, CoreEnded, CoreCommitted
<1> QED
  BY <1>2, <1>3, <1>4 DEF Sees

\* A step of a call that is alone at work on its transaction: the invariant
\* holds of all the others.
LEMMA OthersStep ==
  ASSUME IInv, NEW c \in Call, NEW t \in Tx, Alone(c, t), Of(c) \in {t, None},
         NEW op, NEW u \in {t, None}, NEW at, NEW todo, NEW key, CallIs(c, op, u, at, todo, key),
         u = None => at \in {"idle", "next"},
         \A v \in Tx : v # t => Untouched(v),
         components' = components, slips \subseteq slips',
         tx[t].status = "none" \/ tx'[t].status \notin Unborn
  PROVE  /\ OneAtWork'
         /\ \A d \in Call : d # c => CallInv(d)'
         /\ \A v \in Tx : v # t => TxInv(v)'
         /\ Sees(t, Of(c), call[c].op, call[c].at)
         /\ Sees(t, u, op, at)'
<1>0. t # None
  BY TxAssumption
<1>1. /\ \A d \in Call : d # c => call'[d] = call[d] /\ Of(d)' = Of(d)
      /\ Of(c)' = u /\ call'[c].at = at
  BY DEF CallIs, Of
<1>2. OneAtWork'
  <2> SUFFICES ASSUME NEW v \in Tx, NEW d \in Call, NEW e \in Call, Busy(d, v)', Busy(e, v)', d # e
               PROVE  FALSE
    BY DEF OneAtWork
  <2>1. CASE d # c /\ e # c
    BY <1>1, <2>1 DEF IInv, CallInv, OneAtWork, Busy
  <2>2. CASE d = c \/ e = c
    BY <1>0, <1>1, <2>2 DEF Alone, Busy, BusyAt, CommitAt, RollbackAt
  <2> QED
    BY <2>1, <2>2
<1>3. ASSUME NEW d \in Call, d # c PROVE CallInv(d)'
  <2>0. call'[d] = call[d] /\ Of(d)' = Of(d) /\ Working(d)
    BY <1>1, <1>3 DEF IInv, CallInv
  <2>1. CASE Of(d) # t /\ Of(d) \in Tx
    <3>1. Untouched(Of(d))
      BY <2>1
    <3>2. Working(d)'
      BY <2>0, <3>1 DEF Untouched, Working, At, CommitAt, RollbackAt, Unborn
    <3>3. Carries(d)'
      BY <2>0, <3>1 DEF IInv, CallInv, Carries, Untouched, At, Has, CommitAt, CoreCommitted
    <3> QED
      BY <3>2, <3>3 DEF CallInv
  <2>2. CASE Of(d) = t \/ Of(d) = None
    <3>1. call[d].at \in {"lock", "idle", "next"}
      BY <1>0, <1>3, <2>0, <2>2 DEF IInv, Types, CallState, Alone, Busy, Working
    <3>2. Working(d)'
      BY <1>0, <2>0, <2>2, <3>1 DEF Working, At, CommitAt, RollbackAt, Unborn
    <3>3. Carries(d)'
      BY <2>0, <3>1 DEF Carries, At, CommitAt, CoreCommitted
    <3> QED
      BY <3>2, <3>3 DEF CallInv
  <2> QED
    BY <2>1, <2>2 DEF IInv, Types, CallState, Of
<1>4. ASSUME NEW v \in Tx, v # t PROVE TxInv(v)'
  <2>1. Of(c) # v /\ Of(c)' # v
    BY <1>1, <1>4, TxAssumption
  <2>2. ASSUME NEW where PROVE CallAt(v, where)' <=> CallAt(v, where)
    BY <1>1, <2>1 DEF CallAt
  <2>3. FailingCommit(v)' <=> FailingCommit(v)
    BY <1>1, <2>1 DEF FailingCommit
  <2>4. Same(v)
    BY <2>2, <2>3 DEF Same
  <2> QED
    BY <1>4, <2>4, UntouchedStep DEF IInv
<1>5. Sees(t, u, op, at)'
  <2>1. ASSUME NEW d \in Call, Of(d)' = t, call'[d].at \in BusyAt PROVE d = c
    BY <1>1, <2>1 DEF Alone, Busy
  <2>2. ASSUME NEW where \in SUBSET BusyAt PROVE CallAt(t, where)' <=> (u = t /\ at \in where)
    BY <1>1, <2>1 DEF CallAt
  <2>3. FailingCommit(t)' <=> (u = t /\ op = "commit" /\ at \in RollbackAt)
    BY <1>1, <2>1 DEF FailingCommit, CallIs, BusyAt
  <2> QED
    BY <2>2, <2>3 DEF Sees, BusyAt, CommitAt, RollbackAt, CoreEnded, CoreCommitted
<1>6. Sees(t, Of(c), call[c].op, call[c].at)
  BY AloneSees
<1> QED
  BY <1>2, <1>3, <1>4, <1>5, <1>6

\* A step of a call that is not at work before or after it.
Quiet(c) ==
  /\ UNCHANGED <<tx, active, write_set, coreVars, applied, components, acks, buffered, slips>>
  /\ \A d \in Call : d # c => call'[d] = call[d]
  /\ call[c].at \notin BusyAt /\ call'[c].at \notin BusyAt

LEMMA QuietStep ==
  ASSUME IInv, NEW c \in Call, Types', Quiet(c), CallInv(c)'
  PROVE  IInv'
<1>1. /\ tx' = tx /\ active' = active /\ write_set' = write_set /\ core_open' = core_open
      /\ core_done' = core_done /\ applied' = applied /\ components' = components
      /\ acks' = acks /\ buffered' = buffered /\ slips' = slips
      /\ \A d \in Call : d # c => call'[d] = call[d] /\ Of(d)' = Of(d)
      /\ call[c].at \notin BusyAt /\ call'[c].at \notin BusyAt
  BY DEF Quiet, coreVars, Of
<1>2. ASSUME NEW d \in Call, d # c PROVE CallInv(d)'
  BY <1>1, <1>2 DEF IInv, CallInv, Working, Carries, At, Has
<1>3. ASSUME NEW t \in Tx PROVE TxInv(t)'
  <2>1. ASSUME NEW where \in SUBSET BusyAt PROVE CallAt(t, where)' <=> CallAt(t, where)
    BY <1>1 DEF CallAt
  <2>2. FailingCommit(t)' <=> FailingCommit(t)
    BY <1>1 DEF FailingCommit, BusyAt
  <2>3. Same(t)
    BY <2>1, <2>2 DEF Same, BusyAt, CommitAt, RollbackAt, CoreEnded, CoreCommitted
  <2>4. Untouched(t)
    BY <1>1 DEF Untouched
  <2> QED
    BY <1>1, <2>3, <2>4, UntouchedStep DEF IInv
<1>4. OneAtWork'
  BY <1>1 DEF IInv, OneAtWork, Busy
<1> QED
  BY <1>1, <1>2, <1>3, <1>4 DEF IInv

\* The steps in which a call waits for the mutex, looks for the next stale
\* transaction, or returns without having done anything.
LEMMA CallsStep ==
  ASSUME IInv, NEW c \in Call, NEW t \in Tx, NEW op \in {"commit", "rollback", "buffer"},
         NEW key \in Key \cup {None}, op = "buffer" => key \in Key, Calls(c, op, t, key)
  PROVE  Types' /\ Quiet(c) /\ CallInv(c)'
<1> DEFINE r == [call[c] EXCEPT !.op = op, !.tx = t, !.at = "lock", !.key = key]
<1>1. /\ r \in CallState /\ r.op = op /\ r.tx = t /\ r.at = "lock" /\ r.key = key
  BY DEF IInv, Types, CallState
<1>2. call' = [call EXCEPT ![c] = r] /\ At(c, "idle") /\ t \in active
  BY DEF Calls
<1> HIDE DEF r
<1>3. CallIs(c, op, t, "lock", r.todo, key)
  BY <1>1, <1>2, CallUpdated DEF IInv
<1>4. UNCHANGED <<txVars, coreVars, applied, components, history>>
  BY DEF Calls
<1>5. Types' /\ Quiet(c)
  BY <1>2, <1>3, <1>4 DEF IInv, Types, Quiet, CallIs, At, txVars, coreVars, history, BusyAt, CommitAt, RollbackAt
<1>6. tx[t].status \notin Unborn
  BY <1>2 DEF IInv, TxInv, MapsOf, Open, Unborn
<1>7. CallInv(c)'
  <2>1. Working(c)'
    BY <1>3, <1>4, <1>6, TxAssumption DEF CallIs, Working, At, Of, Unborn, CommitAt, RollbackAt, txVars
  <2>2. Carries(c)'
    BY <1>3 DEF CallIs, Carries, At, CommitAt, CoreCommitted
  <2> QED
    BY <2>1, <2>2 DEF CallInv
<1> QED
  BY <1>5, <1>7

LEMMA TimeoutStep ==
  ASSUME IInv, NEW c \in Call, TimeoutScans(c) \/ TimeoutNext(c)
  PROVE  Types' /\ Quiet(c) /\ CallInv(c)'
<1>0. UNCHANGED <<txVars, coreVars, applied, components, history>> /\ call[c].at \in {"idle", "next"}
  BY DEF TimeoutScans, TimeoutNext, At
<1>1. ASSUME NEW op, NEW t \in Tx \cup {None}, NEW todo, NEW key, NEW at \in {"idle", "next", "lock"},
             CallIs(c, op, t, at, todo, key), at = "lock" <=> t # None,
             at = "lock" => t \in active, at # "idle" => op = "timeout"
      PROVE  Types' /\ Quiet(c) /\ CallInv(c)'
  <2>1. Types' /\ Quiet(c)
    BY <1>0, <1>1 DEF IInv, Types, Quiet, CallIs, txVars, coreVars, history, BusyAt, CommitAt, RollbackAt
  <2>2. at = "lock" => tx[t].status \notin Unborn
    BY <1>1 DEF IInv, TxInv, MapsOf, Open, Unborn
  <2>3. CallInv(c)'
    <3>1. Working(c)'
      BY <1>0, <1>1, <2>2 DEF CallIs, Working, At, Of, Unborn, CommitAt, RollbackAt, txVars
    <3>2. Carries(c)'
      BY <1>1 DEF CallIs, Carries, At, CommitAt, CoreCommitted
    <3> QED
      BY <3>1, <3>2 DEF CallInv
  <2> QED
    BY <2>1, <2>3
<1>2. CASE TimeoutScans(c)
  <2>1. PICK stale \in SUBSET (DOMAIN write_set) :
          call' = [call EXCEPT ![c].op = "timeout", ![c].at = "next", ![c].stale = stale]
    BY <1>2 DEF TimeoutScans
  <2> DEFINE r == [call[c] EXCEPT !.op = "timeout", !.at = "next", !.stale = stale]
  <2>2. stale \in SUBSET Tx
    BY DEF IInv
  <2>3. r \in CallState /\ r.at = "next" /\ r.op = "timeout" /\ r.tx = Of(c)
    BY <2>2 DEF IInv, Types, CallState, Of
  <2>4. call' = [call EXCEPT ![c] = r] /\ Of(c) = None
    BY <1>0, <2>1 DEF IInv, CallInv, Working
  <2> HIDE DEF r
  <2>5. CallIs(c, "timeout", None, "next", r.todo, r.key)
    BY <2>3, <2>4, CallUpdated DEF IInv
  <2> QED
    BY <1>1, <2>5
<1>3. CASE TimeoutNext(c)
  <2>1. CASE Returns(c)
    <3>1. CallIs(c, None, None, "idle", <<>>, None)
      BY <2>1, ReturnsShape DEF IInv
    <3> QED
      BY <1>1, <3>1
  <2>2. ASSUME NEW t \in call[c].stale,
               call' = [call EXCEPT ![c].stale = @ \ {t},
                                    ![c].tx = IF t \in active THEN t ELSE None,
                                    ![c].at = IF t \in active THEN "lock" ELSE "next"]
        PROVE  Types' /\ Quiet(c) /\ CallInv(c)'
    <3> DEFINE u == IF t \in active THEN t ELSE None
               at == IF t \in active THEN "lock" ELSE "next"
               r == [call[c] EXCEPT !.stale = @ \ {t}, !.tx = u, !.at = at]
    <3>1. t \in Tx
      BY DEF IInv, Types, CallState
    <3>2. r \in CallState /\ r.at = at /\ r.op = call[c].op /\ r.tx = u
      BY <3>1 DEF IInv, Types, CallState
    <3>3. call' = [call EXCEPT ![c] = r]
      BY <2>2
    <3> HIDE DEF r
    <3>4. CallIs(c, call[c].op, u, at, r.todo, r.key)
      BY <3>2, <3>3, CallUpdated DEF IInv
    <3>5. call[c].op = "timeout"
      BY <1>3 DEF TimeoutNext, IInv, CallInv, Working
    <3>6. /\ u \in Tx \cup {None} /\ at \in {"idle", "next", "lock"}
          /\ at = "lock" <=> u # None
          /\ at = "lock" => u \in active
          /\ at # "idle"
      BY <3>1, TxAssumption
    <3> HIDE DEF u, at
    <3> QED
      BY <1>1, <3>1, <3>4, <3>5, <3>6
  <2> QED
    BY <1>3, <2>1, <2>2 DEF TimeoutNext
<1> QED
  BY <1>2, <1>3

\* A call that was not at work returns, or ends one of the transactions of
\* timeout_stale.
LEMMA ReturnsQuietly ==
  ASSUME IInv, NEW c \in Call, call[c].at \notin BusyAt, Returns(c) \/ Ends(c),
         UNCHANGED <<tx, active, write_set, log, coreVars, applied, components, acks, buffered, slips>>
  PROVE  IInv'
<1>1. PICK op, key, todo : \E at \in {"idle", "next"} :
        CallIs(c, op, None, at, todo, key) /\ (at = "next" => op = "timeout")
  BY ReturnsShape, EndsShape DEF IInv
<1>2. PICK at \in {"idle", "next"} : CallIs(c, op, None, at, todo, key) /\ (at = "next" => op = "timeout")
  BY <1>1
<1>3. Quiet(c) /\ Types'
  BY <1>2 DEF Quiet, CallIs, IInv, Types, coreVars, BusyAt, CommitAt, RollbackAt
<1>4. CallInv(c)'
  BY <1>2, TxAssumption DEF CallIs, CallInv, Working, Carries, At, Of, CommitAt, RollbackAt, CoreCommitted
<1> QED
  BY <1>3, <1>4, QuietStep

-----------------------------------------------------------------------------
(* begin *)

LEMMA BeginCoreShape ==
  ASSUME Types, NEW c \in Call, NEW t \in Tx, BeginCore(c, t)
  PROVE  \/ /\ TxIs(t, "refused", tx[t].core, tx[t].buffer)
            /\ call' = call /\ core_open' = core_open
         \/ /\ TxIs(t, "beginning", IF Has("core") THEN TRUE ELSE tx[t].core, tx[t].buffer)
            /\ CallIs(c, "begin", t, "snapshot", call[c].todo, call[c].key)
            /\ core_open' = (IF Has("core") THEN t ELSE core_open)
            /\ Has("core") => core_open = None
<1> DEFINE r == [call[c] EXCEPT !.op = "begin", !.tx = t, !.at = "snapshot"]
           refused == [tx[t] EXCEPT !.status = "refused"]
           begun == [tx[t] EXCEPT !.status = "beginning"]
           held  == [tx[t] EXCEPT !.status = "beginning", !.core = TRUE]
<1>1. /\ r \in CallState /\ r.op = "begin" /\ r.tx = t /\ r.at = "snapshot"
      /\ r.todo = call[c].todo /\ r.key = call[c].key
  BY DEF Types, CallState, BusyAt
<1>2. /\ refused \in TxState /\ refused.status = "refused" /\ refused.core = tx[t].core
      /\ refused.buffer = tx[t].buffer
  BY DEF Types, TxState
<1>3. /\ begun \in TxState /\ begun.status = "beginning" /\ begun.core = tx[t].core
      /\ begun.buffer = tx[t].buffer
  BY DEF Types, TxState
<1>4. /\ held \in TxState /\ held.status = "beginning" /\ held.core = TRUE
      /\ held.buffer = tx[t].buffer
  BY DEF Types, TxState
<1>5. ASSUME call' = [call EXCEPT ![c].op = "begin", ![c].tx = t, ![c].at = "snapshot"]
      PROVE  CallIs(c, "begin", t, "snapshot", call[c].todo, call[c].key)
  <2>1. call' = [call EXCEPT ![c] = r]
    BY <1>5
  <2> HIDE DEF r
  <2>2. CallIs(c, r.op, r.tx, r.at, r.todo, r.key)
    BY <1>1, <2>1, CallUpdated
  <2> QED
    BY <1>1, <2>2
<1>6. ASSUME tx' = [tx EXCEPT ![t].status = "beginning", ![t].core = TRUE]
      PROVE  TxIs(t, "beginning", TRUE, tx[t].buffer)
  <2>1. tx' = [tx EXCEPT ![t] = held]
    BY <1>6
  <2> HIDE DEF held
  <2> QED
    BY <1>4, <2>1, TxUpdated
<1>7. ASSUME tx' = [tx EXCEPT ![t].status = "beginning"]
      PROVE  TxIs(t, "beginning", tx[t].core, tx[t].buffer)
  <2>1. tx' = [tx EXCEPT ![t] = begun]
    BY <1>7
  <2> HIDE DEF begun
  <2> QED
    BY <1>3, <2>1, TxUpdated
<1>8. ASSUME tx' = [tx EXCEPT ![t].status = "refused"]
      PROVE  TxIs(t, "refused", tx[t].core, tx[t].buffer)
  <2>1. tx' = [tx EXCEPT ![t] = refused]
    BY <1>8
  <2> HIDE DEF refused
  <2> QED
    BY <1>2, <2>1, TxUpdated
<1> HIDE DEF r, refused, begun, held
<1> QED
  BY <1>5, <1>6, <1>7, <1>8 DEF BeginCore

LEMMA BeginCoreStep ==
  ASSUME IInv, NEW c \in Call, NEW t \in Tx, BeginCore(c, t) PROVE IInv'
<1>0. /\ active' = active /\ write_set' = write_set /\ log' = log /\ core_done' = core_done
      /\ applied' = applied /\ components' = components /\ acks' = acks
      /\ buffered' = buffered /\ slips' = slips
      /\ call[c].at = "idle" /\ Of(c) = None /\ tx[t].status = "none" /\ Types /\ t # None
  BY TxAssumption DEF BeginCore, history, At, IInv, CallInv, Working
<1>1. /\ ~tx[t].core /\ buffered[t] = {} /\ t \notin active
      /\ \A answer : <<t, answer>> \notin acks
      /\ \A d \in Call : Of(d) # t
  <2>1. \A d \in Call : Of(d) # t
    BY <1>0 DEF IInv, CallInv, Types, CallState, Working, At, Of, BusyAt, CommitAt, RollbackAt, Unborn
  <2>2. ~tx[t].core /\ buffered[t] = {} /\ t \notin active
    BY <1>0 DEF IInv, TxInv, CoreOf, MapsOf, Open, Unborn
  <2>3. \A answer : <<t, answer>> \notin acks
    BY <1>0 DEF IInv, Types, TxInv, AnswersOf
  <2> QED
    BY <2>1, <2>2, <2>3
<1>2. Alone(c, t) /\ ~CallAt(t, CommitAt) /\ ~CallAt(t, CoreEnded) /\ ~CallAt(t, CoreCommitted)
      /\ ~FailingCommit(t)
  BY <1>1 DEF Alone, Busy, CallAt, FailingCommit
<1>3. CASE TxIs(t, "refused", tx[t].core, tx[t].buffer) /\ call' = call /\ core_open' = core_open
  <2>1. CallIs(c, call[c].op, None, "idle", call[c].todo, call[c].key)
    BY <1>0, <1>3 DEF CallIs, Of, Types
  <2>2. \A v \in Tx : v # t => Untouched(v)
    BY <1>0, <1>3 DEF Untouched, TxIs
  <2>3. /\ OneAtWork' /\ (\A d \in Call : d # c => CallInv(d)') /\ (\A v \in Tx : v # t => TxInv(v)')
        /\ \E op : Sees(t, None, op, "idle")'
    BY <1>0, <1>2, <2>1, <2>2, OthersStep
  <2>4. Types'
    BY <1>0, <1>3 DEF IInv, Types, TxIs
  <2>5. CallInv(c)'
    BY <1>0, <1>3 DEF IInv, CallInv, Working, Carries, Of, At, CommitAt, RollbackAt, CoreCommitted
  <2>6. TxInv(t)'
    <3>1. MapsOf(t)' /\ AnswersOf(t)'
      BY <1>0, <1>1, <1>3 DEF MapsOf, AnswersOf, Open, Unborn, TxIs
    <3>2. CoreOf(t)'
      BY <1>0, <1>1, <1>2, <1>3, <2>3 DEF IInv, TxInv, CoreOf, Sees, NoDrop, Has, TxIs
    <3>3. WritesOf(t)'
      BY <1>0, <1>1, <1>2, <1>3 DEF IInv, TxInv, WritesOf, NoDrop, Has, TxIs
    <3> QED
      BY <3>1, <3>2, <3>3 DEF TxInv
  <2> QED
    BY <1>0, <2>3, <2>4, <2>5, <2>6 DEF IInv
<1>4. CASE /\ TxIs(t, "beginning", IF Has("core") THEN TRUE ELSE tx[t].core, tx[t].buffer)
           /\ CallIs(c, "begin", t, "snapshot", call[c].todo, call[c].key)
           /\ core_open' = (IF Has("core") THEN t ELSE core_open)
           /\ Has("core") => core_open = None
  <2>1. /\ tx' \in [Tx -> TxState] /\ \A v \in Tx : v # t => tx'[v] = tx[v]
        /\ tx'[t].status = "beginning" /\ tx'[t].buffer = tx[t].buffer
        /\ tx'[t].core <=> Has("core")
    BY <1>1, <1>4 DEF TxIs
  <2>2. \A v \in Tx : v # t => Untouched(v)
    BY <1>0, <1>4, <2>1, TxAssumption DEF Untouched
  <2>3. /\ OneAtWork' /\ (\A d \in Call : d # c => CallInv(d)') /\ (\A v \in Tx : v # t => TxInv(v)')
        /\ Sees(t, t, "begin", "snapshot")'
    BY <1>0, <1>2, <1>4, <2>2, OthersStep
  <2>4. Types'
    BY <1>0, <1>4, <2>1 DEF IInv, Types, CallIs
  <2>5. CallInv(c)'
    BY <1>0, <1>4, <2>1 DEF CallInv, Working, Carries, Of, At, CommitAt, RollbackAt, CoreCommitted, CallIs
  <2>6. TxInv(t)'
    <3>1. MapsOf(t)' /\ AnswersOf(t)'
      BY <1>0, <1>1, <2>1 DEF MapsOf, AnswersOf, Open, Unborn
    <3>2. CoreOf(t)'
      BY <1>0, <1>1, <1>2, <1>4, <2>1, <2>3 DEF IInv, TxInv, CoreOf, Sees, NoDrop, Has, CoreEnded, CoreCommitted
    <3>3. WritesOf(t)'
      BY <1>0, <1>1, <1>2, <2>1 DEF IInv, TxInv, WritesOf, NoDrop, Has
    <3> QED
      BY <3>1, <3>2, <3>3 DEF TxInv
  <2> QED
    BY <1>0, <2>3, <2>4, <2>5, <2>6 DEF IInv
<1> QED
  BY <1>0, <1>3, <1>4, BeginCoreShape

LEMMA BeginRegistersStep ==
  ASSUME IInv, NEW c \in Call, NEW t \in Tx, t = Of(c), BeginRegisters(c) PROVE IInv'
<1>0. /\ log' = log /\ core_open' = core_open /\ core_done' = core_done
      /\ applied' = applied /\ components' = components /\ acks' = acks
      /\ buffered' = buffered /\ slips' = slips /\ active' = active \cup {t}
      /\ write_set' = Registered(t)
      /\ call[c].at = "snapshot" /\ tx[t].status = "beginning" /\ Types /\ t # None
      /\ Alone(c, t)
  <2>1. call[c].at = "snapshot"
    BY DEF BeginRegisters, At
  <2>2. Alone(c, t)
    BY <2>1, BusyAlone DEF BusyAt
  <2> QED
    BY <2>1, <2>2, TxAssumption DEF BeginRegisters, coreVars, history, At, IInv, CallInv, Working
<1>1. /\ buffered[t] = {} /\ t \notin active
      /\ \A answer : <<t, answer>> \notin acks
  <2>1. buffered[t] = {} /\ t \notin active
    BY <1>0 DEF IInv, TxInv, MapsOf, Open, Unborn
  <2>2. \A answer : <<t, answer>> \notin acks
    BY <1>0 DEF IInv, Types, TxInv, AnswersOf
  <2> QED
    BY <2>1, <2>2
<1>2. TxIs(t, "Active", tx[t].core, tx[t].buffer)
  <2>1. PICK taken \in {FALSE, Has("branch")} :
          tx' = [tx EXCEPT ![t].status = "Active", ![t].snapshot = taken]
    BY DEF BeginRegisters
  <2> DEFINE r == [tx[t] EXCEPT !.status = "Active", !.snapshot = taken]
  <2>2. taken \in BOOLEAN
    <3>1. taken = FALSE \/ taken = Has("branch")
      OBVIOUS
    <3>2. Has("branch") \in BOOLEAN
      BY DEF Has
    <3> QED
      BY <3>1, <3>2
  <2>3. r \in TxState /\ r.status = "Active" /\ r.core = tx[t].core /\ r.buffer = tx[t].buffer
    BY <1>0, <2>2 DEF Types, TxState
  <2>4. tx' = [tx EXCEPT ![t] = r]
    BY <2>1
  <2> HIDE DEF r
  <2> QED
    BY <1>0, <2>3, <2>4, TxUpdated
<1>3. CallIs(c, None, None, "idle", <<>>, None)
  BY <1>0, ReturnsShape DEF BeginRegisters
<1>4. \A v \in Tx : v # t => Untouched(v)
  BY <1>0, <1>2 DEF IInv, Untouched, TxIs, Registered
<1>5. /\ OneAtWork' /\ (\A d \in Call : d # c => CallInv(d)') /\ (\A v \in Tx : v # t => TxInv(v)')
      /\ Sees(t, t, call[c].op, "snapshot") /\ Sees(t, None, None, "idle")'
  BY <1>0, <1>2, <1>3, <1>4, OthersStep DEF TxIs, Unborn
<1>6. Types'
  BY <1>0, <1>2, <1>3 DEF Types, TxIs, CallIs
<1>7. CallInv(c)'
  BY <1>3 DEF CallInv, Working, Carries, Of, At, CommitAt, RollbackAt, CoreCommitted, CallIs
<1>8. TxInv(t)'
  <2>1. MapsOf(t)' /\ AnswersOf(t)'
    BY <1>0, <1>1, <1>2 DEF MapsOf, AnswersOf, Open, Unborn, TxIs, Registered
  <2>2. CoreOf(t)'
    BY <1>0, <1>2, <1>5 DEF IInv, TxInv, CoreOf, Sees, NoDrop, Has, TxIs, CoreEnded, CoreCommitted
  <2>3. WritesOf(t)'
    BY <1>0, <1>1, <1>2, <1>5 DEF IInv, TxInv, WritesOf, Sees, NoDrop, Has, TxIs, RollbackAt
  <2> QED
    BY <2>1, <2>2, <2>3 DEF TxInv
<1>9. DOMAIN write_set' = active' /\ active' \subseteq Tx
  BY <1>0 DEF IInv, Registered
<1> QED
  BY <1>5, <1>6, <1>7, <1>8, <1>9 DEF IInv

-----------------------------------------------------------------------------
(* buffer and commit *)

LEMMA AppendElements ==
  ASSUME NEW seq \in Seq(Key), NEW key \in Key
  PROVE  Append(seq, key) \in Seq(Key) /\ Elements(Append(seq, key)) = Elements(seq) \cup {key}
<1>1. Append(seq, key) \in Seq(Key) /\ Len(Append(seq, key)) = Len(seq) + 1
  OBVIOUS
<1>2. Append(seq, key)[Len(seq) + 1] = key /\ \A i \in 1..Len(seq) : Append(seq, key)[i] = seq[i]
  OBVIOUS
<1>3. DOMAIN seq = 1..Len(seq) /\ DOMAIN Append(seq, key) = 1..(Len(seq) + 1) /\ Len(seq) \in Nat
  BY <1>1
<1>4. \A i \in 1..(Len(seq) + 1) : i \in 1..Len(seq) \/ i = Len(seq) + 1
  BY <1>3
<1>5. 1..Len(seq) \subseteq 1..(Len(seq) + 1) /\ Len(seq) + 1 \in 1..(Len(seq) + 1)
  BY <1>3
<1>6. ASSUME NEW e PROVE e \in Elements(Append(seq, key)) <=> e \in Elements(seq) \cup {key}
  BY <1>2, <1>3, <1>4, <1>5 DEF Elements
<1> QED
  BY <1>1, <1>6

LEMMA TailElements ==
  ASSUME NEW seq \in Seq(Key), seq # <<>>
  PROVE  Head(seq) \in Key /\ Tail(seq) \in Seq(Key) /\ Elements(seq) \subseteq {Head(seq)} \cup Elements(Tail(seq))
<1>1. Head(seq) \in Key /\ Tail(seq) \in Seq(Key) /\ Len(Tail(seq)) = Len(seq) - 1
  OBVIOUS
<1>2. ASSUME NEW i \in DOMAIN seq, i # 1 PROVE i - 1 \in DOMAIN Tail(seq) /\ Tail(seq)[i - 1] = seq[i]
  BY <1>1, <1>2
<1>3. seq[1] = Head(seq)
  OBVIOUS
<1>4. ASSUME NEW i \in DOMAIN seq PROVE seq[i] \in {Head(seq)} \cup Elements(Tail(seq))
  BY <1>2, <1>3 DEF Elements
<1> QED
  BY <1>1, <1>4 DEF Elements

LEMMA BufferStep ==
  ASSUME IInv, NEW c \in Call, NEW t \in Tx, t = Of(c), Buffer(c) PROVE IInv'
<1>0. /\ log' = log /\ core_open' = core_open /\ core_done' = core_done /\ active' = active
      /\ applied' = applied /\ components' = components /\ acks' = acks /\ slips' = slips
      /\ call[c].at = "lock" /\ Types /\ t # None /\ Alone(c, t) /\ Returns(c) /\ call[c].key \in Key
  BY TxAssumption, LockAlone DEF Buffer, Locks, coreVars, At, IInv, CallInv, Working
<1>1. CASE UNCHANGED <<tx, write_set, buffered>>
  BY <1>0, <1>1, ReturnsQuietly DEF coreVars, BusyAt, CommitAt, RollbackAt
<1>2. CASE /\ tx[t].status = "Active"
           /\ tx' = [tx EXCEPT ![t].buffer = Append(@, call[c].key)]
           /\ write_set' = Extended(t, call[c].key)
           /\ buffered' = [buffered EXCEPT ![t] = @ \cup {call[c].key}]
  <2>1. tx[t].buffer \in Seq(Key) /\ t \in active
    BY <1>0, <1>2 DEF Types, TxState, IInv, TxInv, MapsOf, Open
  <2>2. /\ Append(tx[t].buffer, call[c].key) \in Seq(Key)
        /\ Elements(Append(tx[t].buffer, call[c].key)) = Elements(tx[t].buffer) \cup {call[c].key}
    BY <1>0, <2>1, AppendElements
  <2>3. TxIs(t, "Active", tx[t].core, Append(tx[t].buffer, call[c].key))
    <3> DEFINE r == [tx[t] EXCEPT !.buffer = Append(@, call[c].key)]
    <3>1. r \in TxState /\ r.status = "Active" /\ r.core = tx[t].core /\ r.buffer = Append(tx[t].buffer, call[c].key)
      BY <1>0, <1>2, <2>2 DEF Types, TxState
    <3>2. tx' = [tx EXCEPT ![t] = r]
      BY <1>2
    <3> HIDE DEF r
    <3> QED
      BY <1>0, <3>1, <3>2, TxUpdated
  <2>4. CallIs(c, None, None, "idle", <<>>, None)
    BY <1>0, ReturnsShape
  <2>5. /\ buffered' \in [Tx -> SUBSET Key] /\ buffered'[t] = buffered[t] \cup {call[c].key}
        /\ \A v \in Tx : v # t => buffered'[v] = buffered[v]
        /\ write_set'[t] = write_set[t] \cup {call[c].key}
        /\ \A v \in active : v # t => write_set'[v] = write_set[v]
        /\ DOMAIN write_set' = active
    BY <1>0, <1>2, <2>1 DEF Types, Extended, IInv
  <2>6. \A v \in Tx : v # t => Untouched(v)
    BY <1>0, <2>3, <2>5 DEF Untouched, TxIs
  <2>7. /\ OneAtWork' /\ (\A d \in Call : d # c => CallInv(d)') /\ (\A v \in Tx : v # t => TxInv(v)')
        /\ Sees(t, t, call[c].op, "lock") /\ Sees(t, None, None, "idle")'
    BY <1>0, <2>3, <2>4, <2>6, OthersStep DEF TxIs, Unborn
  <2>8. Types'
    BY <1>0, <2>3, <2>4, <2>5 DEF Types, TxIs, CallIs
  <2>9. CallInv(c)'
    BY <2>4 DEF CallInv, Working, Carries, Of, At, CommitAt, RollbackAt, CoreCommitted, CallIs
  <2>10. TxInv(t)'
    <3>1. MapsOf(t)' /\ AnswersOf(t)'
      BY <1>0, <1>2, <2>1, <2>3, <2>5 DEF IInv, TxInv, MapsOf, AnswersOf, Open, Unborn, TxIs
    <3>2. CoreOf(t)'
      BY <1>0, <1>2, <2>3, <2>7 DEF IInv, TxInv, CoreOf, Sees, NoDrop, Has, TxIs, CoreEnded, CoreCommitted
    <3>3. WritesOf(t)'
      BY <1>0, <1>2, <2>2, <2>3, <2>5, <2>7 DEF IInv, TxInv, WritesOf, Sees, NoDrop, Has, TxIs, RollbackAt
    <3> QED
      BY <3>1, <3>2, <3>3 DEF TxInv
  <2> QED
    BY <1>0, <2>5, <2>7, <2>8, <2>9, <2>10 DEF IInv
<1> QED
  BY <1>1, <1>2 DEF Buffer

LEMMA CommitPreparesStep ==
  ASSUME IInv, NEW c \in Call, NEW t \in Tx, t = Of(c), CommitPrepares(c) PROVE IInv'
<1>0. /\ log' = log /\ core_open' = core_open /\ core_done' = core_done /\ active' = active
      /\ write_set' = write_set /\ buffered' = buffered
      /\ applied' = applied /\ components' = components /\ acks' = acks /\ slips' = slips
      /\ call[c].at = "lock" /\ Types /\ t # None /\ Alone(c, t) /\ call[c].op = "commit"
  BY TxAssumption, LockAlone DEF CommitPrepares, Locks, coreVars, history, At, IInv
<1>1. CASE Returns(c) /\ tx' = tx
  BY <1>0, <1>1, ReturnsQuietly DEF coreVars, BusyAt, CommitAt, RollbackAt
<1> DEFINE todo == IF Has("vector") THEN tx[t].buffer ELSE <<>>
           left == IF Has("vector") THEN <<>> ELSE tx[t].buffer
<1>2. CASE /\ tx[t].status = "Active"
           /\ call' = [call EXCEPT ![c].at = "upserts", ![c].todo = todo]
           /\ tx' = [tx EXCEPT ![t].status = "Committing", ![t].buffer = left]
  <2>1. todo \in Seq(Key) /\ left \in Seq(Key) /\ t \in active
    BY <1>0, <1>2, EmptyBuffer DEF Types, TxState, IInv, TxInv, MapsOf, Open
  <2>2. TxIs(t, "Committing", tx[t].core, left)
    <3> DEFINE r == [tx[t] EXCEPT !.status = "Committing", !.buffer = left]
    <3>1. r \in TxState /\ r.status = "Committing" /\ r.core = tx[t].core /\ r.buffer = left
      BY <1>0, <2>1 DEF Types, TxState
    <3>2. tx' = [tx EXCEPT ![t] = r]
      BY <1>2
    <3> HIDE DEF r, left
    <3> QED
      BY <1>0, <3>1, <3>2, TxUpdated
  <2>3. CallIs(c, "commit", t, "upserts", todo, call[c].key)
    <3> DEFINE r == [call[c] EXCEPT !.at = "upserts", !.todo = todo]
    <3>1. /\ r \in CallState /\ r.op = "commit" /\ r.tx = t /\ r.at = "upserts" /\ r.todo = todo
          /\ r.key = call[c].key
      BY <1>0, <2>1 DEF Types, CallState, BusyAt, CommitAt, Of
    <3>2. call' = [call EXCEPT ![c] = r]
      BY <1>2
    <3> HIDE DEF r, todo
    <3> QED
      BY <1>0, <3>1, <3>2, CallUpdated
  <2>4. \A v \in Tx : v # t => Untouched(v)
    BY <1>0, <2>2 DEF Untouched, TxIs
  <2>5. /\ OneAtWork' /\ (\A d \in Call : d # c => CallInv(d)') /\ (\A v \in Tx : v # t => TxInv(v)')
        /\ Sees(t, t, call[c].op, "lock") /\ Sees(t, t, "commit", "upserts")'
    BY <1>0, <2>2, <2>3, <2>4, OthersStep DEF TxIs, Unborn
  <2>6. Types'
    BY <1>0, <2>2, <2>3 DEF Types, TxIs, CallIs
  <2>7. CallInv(c)'
    <3>1. Working(c)'
      BY <1>0, <2>2, <2>3 DEF Working, Of, At, CommitAt, RollbackAt, CallIs, TxIs
    <3>2. buffered[t] \subseteq Elements(tx[t].buffer) /\ (Has("core") => tx[t].core)
      BY <1>2 DEF IInv, TxInv, WritesOf, CoreOf
    <3>3. Carries(c)'
      BY <1>0, <2>2, <2>3, <3>2 DEF Carries, Of, At, Has, CoreCommitted, CallIs, TxIs
    <3> QED
      BY <3>1, <3>3 DEF CallInv
  <2>8. TxInv(t)'
    <3>1. MapsOf(t)' /\ AnswersOf(t)'
      BY <1>0, <1>2, <2>1, <2>2 DEF IInv, TxInv, MapsOf, AnswersOf, Open, Unborn, TxIs
    <3>2. CoreOf(t)'
      BY <1>0, <1>2, <2>2, <2>5 DEF IInv, TxInv, CoreOf, Sees, NoDrop, Has, TxIs, CoreEnded, CoreCommitted
    <3>3. WritesOf(t)'
      BY <1>0, <2>2, <2>5 DEF WritesOf, Sees, TxIs, CommitAt
    <3> QED
      BY <3>1, <3>2, <3>3 DEF TxInv
  <2> QED
    BY <1>0, <2>5, <2>6, <2>7, <2>8 DEF IInv
<1>3. (tx[t].status # "Active" \/ ~Prepared(t)) \/ (tx[t].status = "Active" /\ Prepared(t))
  OBVIOUS
<1> QED
  BY <1>1, <1>2, <1>3 DEF CommitPrepares

\* A step of phase 2 that fails: the transaction is now one that failed.
LEMMA FailsStep ==
  ASSUME IInv, NEW c \in Call, NEW t \in Tx, t = Of(c), call[c].at = "upserts", Fails(c),
         UNCHANGED <<active, write_set, log, coreVars, applied, components, history>>
  PROVE  IInv'
<1>0. /\ log' = log /\ core_open' = core_open /\ core_done' = core_done /\ active' = active
      /\ write_set' = write_set /\ buffered' = buffered
      /\ applied' = applied /\ components' = components /\ acks' = acks /\ slips' = slips
      /\ Types /\ t # None /\ Alone(c, t) /\ call[c].op = "commit" /\ tx[t].status = "Committing"
  BY TxAssumption, BusyAlone DEF coreVars, history, IInv, CallInv, Working, BusyAt, CommitAt
<1>1. /\ CallIs(c, "commit", t, "core rollback", <<>>, call[c].key)
      /\ TxIs(t, "RollingBack", tx[t].core, tx[t].buffer)
  BY <1>0, FailsShape DEF Moves
<1>2. \A v \in Tx : v # t => Untouched(v)
  BY <1>0, <1>1 DEF Untouched, TxIs
<1>3. /\ OneAtWork' /\ (\A d \in Call : d # c => CallInv(d)') /\ (\A v \in Tx : v # t => TxInv(v)')
      /\ Sees(t, t, call[c].op, "upserts") /\ Sees(t, t, "commit", "core rollback")'
  BY <1>0, <1>1, <1>2, OthersStep DEF TxIs, Unborn
<1>4. Types'
  BY <1>0, <1>1 DEF Types, TxIs, CallIs
<1>5. CallInv(c)'
  BY <1>0, <1>1 DEF CallInv, Working, Carries, Of, At, CommitAt, RollbackAt, CoreCommitted, CallIs, TxIs
<1>6. TxInv(t)'
  <2>1. MapsOf(t)' /\ AnswersOf(t)'
    BY <1>0, <1>1 DEF IInv, TxInv, MapsOf, AnswersOf, Open, Unborn, TxIs
  <2>2. CoreOf(t)'
    BY <1>0, <1>1, <1>3 DEF IInv, TxInv, CoreOf, Sees, NoDrop, Has, TxIs, CoreEnded, CoreCommitted
  <2>3. WritesOf(t)'
    BY <1>0, <1>1, <1>3 DEF WritesOf, Sees, TxIs, RollbackAt
  <2> QED
    BY <2>1, <2>2, <2>3 DEF TxInv
<1> QED
  BY <1>0, <1>3, <1>4, <1>5, <1>6 DEF IInv

LEMMA UpsertStep ==
  ASSUME IInv, NEW c \in Call, NEW t \in Tx, t = Of(c), Upsert(c) PROVE IInv'
<1>0. /\ log' = log /\ core_open' = core_open /\ core_done' = core_done /\ active' = active
      /\ write_set' = write_set /\ buffered' = buffered
      /\ components' = components /\ acks' = acks /\ slips' = slips
      /\ Types /\ t # None /\ Alone(c, t) /\ call[c].op = "commit" /\ tx[t].status = "Committing"
      /\ call[c].at = "upserts" /\ call[c].todo # <<>>
  <2>1. call[c].at = "upserts"
    BY DEF Upsert, At
  <2>2. Alone(c, t) /\ call[c].op = "commit" /\ tx[t].status = "Committing"
    BY <2>1, BusyAlone DEF BusyAt, CommitAt, IInv, CallInv, Working
  <2> QED
    BY <2>1, <2>2, TxAssumption DEF Upsert, coreVars, history, IInv
<1> DEFINE key == Head(call[c].todo)
           todo == Tail(call[c].todo)
<1>1. CASE Fails(c) /\ applied' = applied
  BY <1>0, <1>1, FailsStep DEF coreVars, history
<1>2. CASE /\ applied' = applied \cup {<<t, key>>}
           /\ call' = [call EXCEPT ![c].todo = Tail(@)]
           /\ tx' = tx
  <2>1. key \in Key /\ todo \in Seq(Key) /\ Elements(call[c].todo) \subseteq {key} \cup Elements(todo)
    <3>1. call[c].todo \in Seq(Key)
      BY <1>0 DEF Types, CallState
    <3> QED
      BY <1>0, <3>1, TailElements
  <2>2. CallIs(c, "commit", t, "upserts", todo, call[c].key)
    <3> DEFINE r == [call[c] EXCEPT !.todo = todo]
    <3>1. /\ r \in CallState /\ r.op = "commit" /\ r.tx = t /\ r.at = "upserts" /\ r.todo = todo
          /\ r.key = call[c].key
      BY <1>0, <2>1 DEF Types, CallState, Of
    <3>2. call' = [call EXCEPT ![c] = r]
      BY <1>2
    <3> HIDE DEF r, todo
    <3> QED
      BY <1>0, <3>1, <3>2, CallUpdated
  <2> HIDE DEF key, todo
  <2>3. \A v \in Tx : v # t => Untouched(v)
    BY <1>0, <1>2 DEF Untouched
  <2>4. /\ OneAtWork' /\ (\A d \in Call : d # c => CallInv(d)') /\ (\A v \in Tx : v # t => TxInv(v)')
        /\ Sees(t, t, call[c].op, "upserts") /\ \E op : op = "commit" /\ Sees(t, t, op, "upserts")'
    BY <1>0, <1>2, <2>2, <2>3, OthersStep DEF Unborn
  <2>5. Types'
    <3>1. applied' \subseteq Tx \X Key
      <4>1. applied \subseteq Tx \X Key /\ <<t, key>> \in Tx \X Key
        BY <1>0, <2>1 DEF Types
      <4> QED
        BY <1>2, <4>1
    <3> QED
      BY <1>0, <1>2, <2>2, <3>1 DEF Types, CallIs
  <2>6. CallInv(c)'
    <3>1. Working(c)'
      BY <1>0, <1>2, <2>2 DEF Working, Of, At, CommitAt, RollbackAt, CallIs
    <3>2. Has("vector") => \A k \in buffered[t] : <<t, k>> \in applied \/ k \in Elements(call[c].todo)
      BY <1>0 DEF IInv, CallInv, Carries, CommitAt
    <3>3. Has("vector") => \A k \in buffered[t] : <<t, k>> \in applied' \/ k \in Elements(todo)
      BY <1>2, <2>1, <3>2
    <3>4. Has("core") => tx[t].core
      BY <1>0 DEF IInv, CallInv, Carries, At
    <3>5. Carries(c)'
      BY <1>0, <1>2, <2>2, <3>3, <3>4 DEF Carries, Of, At, Has, CoreCommitted, CallIs
    <3> QED
      BY <3>1, <3>5 DEF CallInv
  <2>7. TxInv(t)'
    <3>1. MapsOf(t)' /\ AnswersOf(t)'
      BY <1>0, <1>2 DEF IInv, TxInv, MapsOf, AnswersOf, Open, Unborn
    <3>2. CoreOf(t)'
      BY <1>0, <1>2, <2>4 DEF IInv, TxInv, CoreOf, Sees, NoDrop, Has, CoreEnded, CoreCommitted
    <3>3. WritesOf(t)'
      BY <1>0, <1>2, <2>4 DEF WritesOf, Sees, CommitAt
    <3> QED
      BY <3>1, <3>2, <3>3 DEF TxInv
  <2> QED
    BY <1>0, <2>4, <2>5, <2>6, <2>7 DEF IInv
<1> QED
  BY <1>0, <1>1, <1>2 DEF Upsert

LEMMA CommitCoreStep ==
  ASSUME IInv, NEW c \in Call, NEW t \in Tx, t = Of(c), CommitCore(c) PROVE IInv'
<1>0. /\ log' = log /\ active' = active /\ applied' = applied
      /\ write_set' = write_set /\ buffered' = buffered
      /\ components' = components /\ acks' = acks /\ slips' = slips
      /\ Types /\ t # None /\ Alone(c, t) /\ call[c].op = "commit" /\ tx[t].status = "Committing"
      /\ call[c].at = "upserts" /\ call[c].todo = <<>>
      /\ Sees(t, t, call[c].op, "upserts")
  <2>1. call[c].at = "upserts"
    BY DEF CommitCore, At
  <2>2. Alone(c, t) /\ call[c].op = "commit" /\ tx[t].status = "Committing"
    BY <2>1, BusyAlone DEF BusyAt, CommitAt, IInv, CallInv, Working
  <2>3. Sees(t, t, call[c].op, "upserts")
    BY <2>1, <2>2, AloneSees
  <2> QED
    BY <2>1, <2>2, <2>3, TxAssumption DEF CommitCore, history, IInv
<1>1. CASE Fails(c) /\ UNCHANGED coreVars
  BY <1>0, <1>1, FailsStep DEF history
<1>2. NoDrop /\ tx[t].core => core_open = t
  BY <1>0 DEF IInv, TxInv, CoreOf, Sees, CoreEnded
<1>3. (Has("core") => tx[t].core) /\ (Has("vector") => \A key \in buffered[t] : <<t, key>> \in applied)
  <2>1. Elements(call[c].todo) = {}
    BY <1>0 DEF Elements
  <2> QED
    BY <1>0, <2>1 DEF IInv, CallInv, Carries, At, CommitAt
<1>4. CASE /\ Goes(c, "core committed") /\ tx' = tx
           /\ \/ ~tx[t].core /\ core_open' = core_open /\ core_done' = core_done
              \/ tx[t].core /\ core_open' = None /\ core_done' = core_done \cup {core_open} /\ core_open # None
  <2>1. CallIs(c, "commit", t, "core committed", <<>>, call[c].key)
    BY <1>0, <1>4, GoesShape DEF Moves, BusyAt, CommitAt
  <2>2. \A v \in Tx : v # t => Untouched(v)
    <3>1. ASSUME NEW v \in Tx, v # t, NoDrop
          PROVE  (v \in core_done' <=> v \in core_done) /\ (core_open' = v <=> core_open = v)
      BY <1>2, <1>4, <3>1, TxAssumption
    <3>2. ASSUME NEW v \in Tx PROVE core_open' = v => core_open = v
      BY <1>4, TxAssumption
    <3> QED
      BY <1>0, <1>4, <3>1, <3>2 DEF Untouched
  <2>3. /\ OneAtWork' /\ (\A d \in Call : d # c => CallInv(d)') /\ (\A v \in Tx : v # t => TxInv(v)')
        /\ Sees(t, t, "commit", "core committed")'
    BY <1>0, <1>4, <2>1, <2>2, OthersStep DEF Unborn
  <2>4. Types'
    BY <1>0, <1>4, <2>1 DEF Types, CallIs
  <2>5. CallInv(c)'
    <3>1. Working(c)'
      BY <1>0, <1>4, <2>1 DEF Working, Of, At, CommitAt, RollbackAt, CallIs
    <3>2. Carries(c)'
      BY <1>0, <1>3, <1>4, <2>1 DEF Carries, Of, At, Has, CallIs
    <3> QED
      BY <3>1, <3>2 DEF CallInv
  <2>6. TxInv(t)'
    <3>1. MapsOf(t)' /\ AnswersOf(t)'
      BY <1>0, <1>4 DEF IInv, TxInv, MapsOf, AnswersOf, Open, Unborn
    <3>2. CoreOf(t)'
      BY <1>0, <1>2, <1>3, <1>4, <2>3 DEF IInv, TxInv, CoreOf, Sees, NoDrop, Has, CoreEnded, CoreCommitted
    <3>3. WritesOf(t)'
      BY <1>0, <1>4, <2>3 DEF WritesOf, Sees, CommitAt
    <3> QED
      BY <3>1, <3>2, <3>3 DEF TxInv
  <2> QED
    BY <1>0, <2>3, <2>4, <2>5, <2>6 DEF IInv
<1> QED
  BY <1>0, <1>1, <1>4 DEF CommitCore, coreVars

LEMMA CommitDropsSnapshotStep ==
  ASSUME IInv, NEW c \in Call, NEW t \in Tx, t = Of(c), CommitDropsSnapshot(c) PROVE IInv'
<1>0. /\ log' = log /\ core_open' = core_open /\ core_done' = core_done /\ active' = active
      /\ write_set' = write_set /\ buffered' = buffered
      /\ applied' = applied /\ components' = components /\ acks' = acks /\ slips' = slips
      /\ Types /\ t # None /\ Alone(c, t) /\ call[c].op = "commit" /\ tx[t].status = "Committing"
      /\ call[c].at = "core committed" /\ Sees(t, t, call[c].op, "core committed")
  <2>1. call[c].at = "core committed"
    BY DEF CommitDropsSnapshot, At
  <2>2. Alone(c, t) /\ call[c].op = "commit" /\ tx[t].status = "Committing"
    BY <2>1, BusyAlone DEF BusyAt, CommitAt, IInv, CallInv, Working
  <2>3. Sees(t, t, call[c].op, "core committed")
    BY <2>1, <2>2, AloneSees
  <2> QED
    BY <2>1, <2>2, <2>3, TxAssumption DEF CommitDropsSnapshot, coreVars, history, IInv
<1>1. CallIs(c, "commit", t, "drop snapshot", call[c].todo, call[c].key)
  BY <1>0, GoesShape DEF CommitDropsSnapshot, Moves, BusyAt, CommitAt
<1>2. TxIs(t, "Committing", FALSE, tx[t].buffer)
  <2> DEFINE r == [tx[t] EXCEPT !.core = FALSE, !.snapshot = FALSE]
  <2>1. r \in TxState /\ r.status = "Committing" /\ r.core = FALSE /\ r.buffer = tx[t].buffer
    BY <1>0 DEF Types, TxState
  <2>2. tx' = [tx EXCEPT ![t] = r]
    BY DEF CommitDropsSnapshot
  <2> HIDE DEF r
  <2> QED
    BY <1>0, <2>1, <2>2, TxUpdated
<1>3. \A v \in Tx : v # t => Untouched(v)
  BY <1>0, <1>2 DEF Untouched, TxIs
<1>4. /\ OneAtWork' /\ (\A d \in Call : d # c => CallInv(d)') /\ (\A v \in Tx : v # t => TxInv(v)')
      /\ Sees(t, t, "commit", "drop snapshot")'
  BY <1>0, <1>1, <1>2, <1>3, OthersStep DEF TxIs, Unborn
<1>5. Types'
  BY <1>0, <1>1, <1>2 DEF Types, TxIs, CallIs
<1>6. CallInv(c)'
  <2>1. Working(c)'
    BY <1>0, <1>1, <1>2 DEF Working, Of, At, CommitAt, RollbackAt, CallIs, TxIs
  <2>2. Carries(c)'
    BY <1>0, <1>1, <1>2 DEF IInv, CallInv, Carries, Of, At, Has, CommitAt, CoreCommitted, CallIs, TxIs
  <2> QED
    BY <2>1, <2>2 DEF CallInv
<1>7. TxInv(t)'
  <2>1. MapsOf(t)' /\ AnswersOf(t)'
    BY <1>0, <1>2 DEF IInv, TxInv, MapsOf, AnswersOf, Open, Unborn, TxIs
  <2>2. CoreOf(t)'
    BY <1>0, <1>2, <1>4 DEF IInv, TxInv, CoreOf, Sees, NoDrop, Has, TxIs, CoreEnded, CoreCommitted
  <2>3. WritesOf(t)'
    BY <1>0, <1>2, <1>4 DEF WritesOf, Sees, TxIs, CommitAt
  <2> QED
    BY <2>1, <2>2, <2>3 DEF TxInv
<1> QED
  BY <1>0, <1>4, <1>5, <1>6, <1>7 DEF IInv

LEMMA AppendedType ==
  ASSUME Types, NEW t \in Tx PROVE Appended(t) \in Seq(Tx) /\ Len(Appended(t)) <= MaxLog
<1>1. log \in Seq(Tx) /\ Len(log) \in Nat /\ Len(log) <= MaxLog /\ MaxLog \in Nat \ {0}
  <2>1. log \in Seq(Tx) /\ Len(log) <= MaxLog
    BY DEF Types
  <2> QED
    BY <2>1, BoundsAssumption
<1>2. CASE Len(log) >= MaxLog
  <2>1. log # <<>>
    BY <1>1, <1>2
  <2>2. Tail(log) \in Seq(Tx) /\ Len(Tail(log)) = Len(log) - 1
    BY <1>1, <2>1
  <2> QED
    BY <1>1, <1>2, <2>2 DEF Appended
<1>3. CASE ~(Len(log) >= MaxLog)
  BY <1>1, <1>3 DEF Appended
<1> QED
  BY <1>2, <1>3

LEMMA CommittedStep ==
  ASSUME IInv, NEW c \in Call, NEW t \in Tx, t = Of(c), Committed(c) PROVE IInv'
<1>0. /\ core_open' = core_open /\ core_done' = core_done
      /\ active' = active \ {t} /\ write_set' = Deregistered(t) /\ buffered' = buffered
      /\ applied' = applied /\ components' = components /\ slips' = slips
      /\ acks' = acks \cup {<<t, "committed">>} /\ log' = Appended(t)
      /\ Types /\ t # None /\ Alone(c, t) /\ call[c].op = "commit" /\ tx[t].status = "Committing"
      /\ call[c].at = "drop snapshot" /\ Sees(t, t, call[c].op, "drop snapshot")
  <2>1. call[c].at = "drop snapshot"
    BY DEF Committed, At
  <2>2. Alone(c, t) /\ call[c].op = "commit" /\ tx[t].status = "Committing"
    BY <2>1, BusyAlone DEF BusyAt, CommitAt, IInv, CallInv, Working
  <2>3. Sees(t, t, call[c].op, "drop snapshot")
    BY <2>1, <2>2, AloneSees
  <2> QED
    BY <2>1, <2>2, <2>3, TxAssumption DEF Committed, Forgets, coreVars, IInv
<1>1. CallIs(c, None, None, "idle", <<>>, None)
  BY <1>0, ReturnsShape DEF Committed
<1>2. TxIs(t, "Committed", tx[t].core, tx[t].buffer)
  BY <1>0, StatusShape DEF Committed
<1>3. \A v \in active' : v \in active /\ v # t /\ write_set'[v] = write_set[v]
  BY <1>0 DEF IInv, Deregistered
<1>4. \A v \in Tx : v # t => Untouched(v)
  BY <1>0, <1>2, <1>3 DEF Untouched, TxIs
<1>5. /\ OneAtWork' /\ (\A d \in Call : d # c => CallInv(d)') /\ (\A v \in Tx : v # t => TxInv(v)')
      /\ Sees(t, None, None, "idle")'
  BY <1>0, <1>1, <1>2, <1>4, OthersStep DEF TxIs, Unborn
<1>6. Types'
  <2>1. acks' \subseteq Tx \X {"committed", "failed", "rolled back"}
    <3>1. acks \subseteq Tx \X {"committed", "failed", "rolled back"}
          /\ <<t, "committed">> \in Tx \X {"committed", "failed", "rolled back"}
      BY <1>0 DEF Types
    <3> QED
      BY <1>0, <3>1
  <2>2. log' \in Seq(Tx) /\ Len(log') <= MaxLog
    BY <1>0, AppendedType
  <2> QED
    BY <1>0, <1>1, <1>2, <2>1, <2>2 DEF Types, TxIs, CallIs
<1>7. CallInv(c)'
  BY <1>1 DEF CallInv, Working, Carries, Of, At, CommitAt, RollbackAt, CoreCommitted, CallIs
<1>8. TxInv(t)'
  <2>1. ~tx[t].core
    BY <1>0 DEF IInv, CallInv, Carries
  <2>2. MapsOf(t)' /\ AnswersOf(t)'
    BY <1>0, <1>2 DEF IInv, TxInv, MapsOf, AnswersOf, Open, Unborn, TxIs
  <2>3. CoreOf(t)'
    BY <1>0, <1>2, <1>5, <2>1 DEF IInv, TxInv, CoreOf, Sees, NoDrop, Has, TxIs, CoreEnded, CoreCommitted
  <2>4. WritesOf(t)'
    <3>1. Has("vector") => \A key \in buffered[t] : <<t, key>> \in applied
      <4>0. call[c].todo = <<>>
        BY <1>0 DEF IInv, CallInv, Carries, CoreCommitted
      <4>1. Elements(call[c].todo) = {}
        BY <4>0 DEF Elements
      <4> QED
        BY <1>0, <4>1 DEF IInv, CallInv, Carries, CommitAt
    <3> QED
      BY <1>0, <1>2, <3>1 DEF WritesOf, TxIs, Has
  <2> QED
    BY <2>2, <2>3, <2>4 DEF TxInv
<1>9. DOMAIN write_set' = active' /\ active' \subseteq Tx
  BY <1>0 DEF IInv, Deregistered
<1> QED
  BY <1>5, <1>6, <1>7, <1>8, <1>9 DEF IInv

-----------------------------------------------------------------------------
(* rollback and timeout_stale *)

LEMMA RollbackStartsStep ==
  ASSUME IInv, NEW c \in Call, NEW t \in Tx, t = Of(c), RollbackStarts(c) PROVE IInv'
<1>0. /\ log' = log /\ core_open' = core_open /\ core_done' = core_done /\ active' = active
      /\ write_set' = write_set /\ buffered' = buffered
      /\ applied' = applied /\ components' = components /\ acks' = acks /\ slips' = slips
      /\ call[c].at = "lock" /\ Types /\ t # None /\ Alone(c, t)
      /\ call[c].op \in {"rollback", "timeout"} /\ tx[t].status \notin Unborn
      /\ Sees(t, t, call[c].op, "lock")
  <2>1. call[c].at = "lock" /\ Alone(c, t)
    BY LockAlone DEF RollbackStarts, Locks, At
  <2>2. Sees(t, t, call[c].op, "lock")
    BY <2>1, AloneSees
  <2>3. call[c].op \in {"rollback", "timeout"} /\ tx[t].status \notin Unborn
    <3>1. call[c].op \in {"rollback", "timeout"}
      BY DEF RollbackStarts, Locks
    <3>2. Working(c)
      BY DEF IInv, CallInv
    <3> QED
      BY <2>1, <3>1, <3>2 DEF Working, At, Unborn
  <2> QED
    BY <2>1, <2>2, <2>3, TxAssumption DEF RollbackStarts, coreVars, history, IInv
<1>1. CASE Ends(c) /\ tx' = tx
  BY <1>0, <1>1, ReturnsQuietly DEF coreVars, BusyAt, CommitAt, RollbackAt
<1>2. CASE /\ tx[t].status \notin {"Committed", "RolledBack"}
           /\ Status(c, "RollingBack") /\ Goes(c, "core rollback")
  <2>1. CallIs(c, call[c].op, t, "core rollback", call[c].todo, call[c].key)
    BY <1>0, <1>2, GoesShape DEF Moves, BusyAt, RollbackAt
  <2>2. TxIs(t, "RollingBack", tx[t].core, tx[t].buffer)
    BY <1>0, <1>2, StatusShape
  <2>3. tx[t].status \in {"Active", "Committing", "RollingBack"} /\ t \in active
    BY <1>0, <1>2 DEF IInv, TxInv, MapsOf, Types, TxState, Open, Unborn
  <2>4. \A v \in Tx : v # t => Untouched(v)
    BY <1>0, <2>2 DEF Untouched, TxIs
  <2>5. /\ OneAtWork' /\ (\A d \in Call : d # c => CallInv(d)') /\ (\A v \in Tx : v # t => TxInv(v)')
        /\ \E op : Sees(t, t, op, "core rollback")'
    BY <1>0, <2>1, <2>2, <2>4, OthersStep DEF TxIs, Unborn
  <2>6. Types'
    BY <1>0, <2>1, <2>2 DEF Types, TxIs, CallIs
  <2>7. CallInv(c)'
    BY <1>0, <2>1, <2>2 DEF CallInv, Working, Carries, Of, At, CommitAt, RollbackAt, CoreCommitted,
       CallIs, TxIs
  <2>8. TxInv(t)'
    <3>1. MapsOf(t)' /\ AnswersOf(t)'
      BY <1>0, <2>2, <2>3 DEF IInv, TxInv, MapsOf, AnswersOf, Open, Unborn, TxIs
    <3>2. CoreOf(t)'
      BY <1>0, <2>2, <2>3, <2>5 DEF IInv, TxInv, CoreOf, Sees, NoDrop, Has, TxIs, CoreEnded, CoreCommitted
    <3>3. NoDrop => ~\E key \in Key : <<t, key>> \in applied
      BY <1>0, <2>3 DEF IInv, TxInv, WritesOf, AnswersOf, Sees, CommitAt, RollbackAt
    <3>4. WritesOf(t)'
      BY <1>0, <2>2, <3>3 DEF WritesOf, TxIs, NoDrop
    <3> QED
      BY <3>1, <3>2, <3>4 DEF TxInv
  <2> QED
    BY <1>0, <2>5, <2>6, <2>7, <2>8 DEF IInv
<1>3. tx[t].status \in {"Committed", "RolledBack"} \/ tx[t].status \notin {"Committed", "RolledBack"}
  OBVIOUS
<1> QED
  BY <1>1, <1>2, <1>3 DEF RollbackStarts

\* What a call finds that is rolling a transaction back.
LEMMA RollingFacts ==
  ASSUME IInv, NEW c \in Call, NEW t \in Tx, t = Of(c), call[c].at \in RollbackAt
  PROVE  /\ Types /\ t # None /\ Alone(c, t) /\ tx[t].status = "RollingBack"
         /\ call[c].op \in {"commit", "rollback", "timeout"}
         /\ Sees(t, t, call[c].op, call[c].at) /\ t \in active
<1>1. Alone(c, t)
  BY BusyAlone DEF BusyAt
<1>2. Sees(t, t, call[c].op, call[c].at)
  BY <1>1, AloneSees
<1>3. call[c].op \in {"commit", "rollback", "timeout"} /\ tx[t].status = "RollingBack"
  BY DEF IInv, CallInv, Working
<1>4. t \in active
  BY <1>3 DEF IInv, TxInv, MapsOf, Open
<1> QED
  BY <1>1, <1>2, <1>3, <1>4, TxAssumption DEF IInv

LEMMA RollbackCoreStep ==
  ASSUME IInv, NEW c \in Call, NEW t \in Tx, t = Of(c), RollbackCore(c) PROVE IInv'
<1>0. /\ log' = log /\ active' = active /\ applied' = applied /\ tx' = tx
      /\ write_set' = write_set /\ buffered' = buffered /\ core_done' = core_done
      /\ components' = components /\ acks' = acks /\ slips \subseteq slips'
      /\ slips' \subseteq slips \cup {"ROLLBACK failed"}
      /\ \/ ~tx[t].core /\ core_open' = core_open
         \/ tx[t].core /\ core_open' = None
         \/ core_open' = core_open /\ "ROLLBACK failed" \in slips'
      /\ call[c].at = "core rollback"
  BY DEF RollbackCore, At, txVars
<1>1. /\ Types /\ t # None /\ Alone(c, t) /\ tx[t].status = "RollingBack"
      /\ call[c].op \in {"commit", "rollback", "timeout"}
      /\ Sees(t, t, call[c].op, "core rollback") /\ t \in active
  BY <1>0, RollingFacts DEF RollbackAt
<1>2. NoDrop /\ tx[t].core => core_open = t
  BY <1>1 DEF IInv, TxInv, CoreOf, Sees, CoreEnded
<1>3. PICK op : op = call[c].op
  OBVIOUS
<1>4. CallIs(c, op, t, "core rolled back", call[c].todo, call[c].key)
  BY <1>1, <1>3, GoesShape DEF RollbackCore, Moves, BusyAt, RollbackAt
<1>5. \A v \in Tx : v # t => Untouched(v)
  <2>1. ASSUME NEW v \in Tx, v # t, NoDrop PROVE core_open' = v <=> core_open = v
    BY <1>0, <1>2, <2>1, TxAssumption
  <2>2. ASSUME NEW v \in Tx PROVE core_open' = v => core_open = v
    BY <1>0, TxAssumption
  <2> QED
    BY <1>0, <2>1, <2>2 DEF Untouched
<1>6. /\ OneAtWork' /\ (\A d \in Call : d # c => CallInv(d)') /\ (\A v \in Tx : v # t => TxInv(v)')
      /\ Sees(t, t, op, "core rolled back")'
  BY <1>0, <1>1, <1>4, <1>5, OthersStep DEF Unborn
<1>7. Types'
  BY <1>0, <1>1, <1>4 DEF Types, CallIs
<1>8. CallInv(c)'
  BY <1>0, <1>1, <1>3, <1>4 DEF CallInv, Working, Carries, Of, At, CommitAt, RollbackAt, CoreCommitted, CallIs
<1>9. TxInv(t)'
  <2>1. MapsOf(t)' /\ AnswersOf(t)'
    BY <1>0, <1>1 DEF IInv, TxInv, MapsOf, AnswersOf, Open, Unborn
  <2>2. CoreOf(t)'
    BY <1>0, <1>1, <1>6 DEF IInv, TxInv, CoreOf, Sees, NoDrop, Has, CoreEnded, CoreCommitted
  <2>3. WritesOf(t)'
    BY <1>0, <1>1, <1>3, <1>6 DEF IInv, TxInv, WritesOf, Sees, NoDrop, RollbackAt
  <2> QED
    BY <2>1, <2>2, <2>3 DEF TxInv
<1> QED
  BY <1>0, <1>6, <1>7, <1>8, <1>9 DEF IInv

LEMMA RollbackClearsStep ==
  ASSUME IInv, NEW c \in Call, NEW t \in Tx, t = Of(c), RollbackClears(c) PROVE IInv'
<1>0. /\ log' = log /\ active' = active /\ applied' = applied
      /\ write_set' = write_set /\ buffered' = buffered /\ core_done' = core_done
      /\ core_open' = core_open /\ components' = components /\ acks' = acks /\ slips' = slips
      /\ call[c].at = "core rolled back"
      /\ \E at \in {"restore snapshot", "rolled back"} : Goes(c, at)
  BY DEF RollbackClears, At, coreVars, history
<1>1. /\ Types /\ t # None /\ Alone(c, t) /\ tx[t].status = "RollingBack"
      /\ call[c].op \in {"commit", "rollback", "timeout"}
      /\ Sees(t, t, call[c].op, "core rolled back") /\ t \in active
  BY <1>0, RollingFacts DEF RollbackAt
<1>2. PICK op : op = call[c].op
  OBVIOUS
<1>3. PICK at \in {"restore snapshot", "rolled back"} : Goes(c, at)
  BY <1>0
<1>4. CallIs(c, op, t, at, call[c].todo, call[c].key)
  BY <1>1, <1>2, <1>3, GoesShape DEF Moves, BusyAt, RollbackAt
<1>5. TxIs(t, "RollingBack", FALSE, <<>>)
  <2> DEFINE r == [tx[t] EXCEPT !.core = FALSE, !.buffer = <<>>, !.snapshot = FALSE]
  <2>1. r \in TxState /\ r.status = "RollingBack" /\ r.core = FALSE /\ r.buffer = <<>>
    BY <1>1, EmptyBuffer DEF Types, TxState
  <2>2. tx' = [tx EXCEPT ![t] = r]
    BY DEF RollbackClears
  <2> HIDE DEF r
  <2> QED
    BY <1>1, <2>1, <2>2, TxUpdated
<1>6. \A v \in Tx : v # t => Untouched(v)
  BY <1>0, <1>5 DEF Untouched, TxIs
<1>7. /\ OneAtWork' /\ (\A d \in Call : d # c => CallInv(d)') /\ (\A v \in Tx : v # t => TxInv(v)')
      /\ Sees(t, t, op, at)'
  BY <1>0, <1>1, <1>4, <1>5, <1>6, OthersStep DEF TxIs, Unborn
<1>8. Types'
  BY <1>0, <1>1, <1>4, <1>5 DEF Types, TxIs, CallIs
<1>9. CallInv(c)'
  BY <1>0, <1>1, <1>2, <1>4, <1>5 DEF CallInv, Working, Carries, Of, At, CommitAt, RollbackAt,
     CoreCommitted, CallIs, TxIs
<1>10. TxInv(t)'
  <2>1. MapsOf(t)' /\ AnswersOf(t)'
    BY <1>0, <1>1, <1>5 DEF IInv, TxInv, MapsOf, AnswersOf, Open, Unborn, TxIs
  <2>2. CoreOf(t)'
    BY <1>0, <1>1, <1>5, <1>7 DEF IInv, TxInv, CoreOf, Sees, NoDrop, Has, TxIs, CoreEnded, CoreCommitted
  <2>3. WritesOf(t)'
    BY <1>0, <1>1, <1>2, <1>5, <1>7 DEF IInv, TxInv, WritesOf, Sees, NoDrop, RollbackAt, TxIs
  <2> QED
    BY <2>1, <2>2, <2>3 DEF TxInv
<1> QED
  BY <1>0, <1>7, <1>8, <1>9, <1>10 DEF IInv

LEMMA RestoreSnapshotStep ==
  ASSUME IInv, NEW c \in Call, NEW t \in Tx, t = Of(c), RestoreSnapshot(c) PROVE IInv'
<1>0. /\ log' = log /\ active' = active /\ applied' = applied /\ tx' = tx
      /\ write_set' = write_set /\ buffered' = buffered /\ core_done' = core_done
      /\ core_open' = core_open /\ components' = components /\ acks' = acks /\ slips' = slips
      /\ call[c].at = "restore snapshot"
      /\ Goes(c, "rolled back") \/ (call[c].op # "commit" /\ Ends(c))
  BY DEF RestoreSnapshot, At, txVars, coreVars, history
<1>1. /\ Types /\ t # None /\ Alone(c, t) /\ tx[t].status = "RollingBack"
      /\ call[c].op \in {"commit", "rollback", "timeout"}
      /\ Sees(t, t, call[c].op, "restore snapshot") /\ t \in active
  BY <1>0, RollingFacts DEF RollbackAt
<1>2. ~tx[t].core
  BY <1>0 DEF IInv, CallInv, Carries
<1>3. \A v \in Tx : v # t => Untouched(v)
  BY <1>0 DEF Untouched
<1>4. \E op, u, at, todo, key :
        /\ CallIs(c, op, u, at, todo, key)
        /\ \/ u = t /\ at = "rolled back" /\ op = call[c].op
           \/ u = None /\ at \in {"idle", "next"} /\ (at = "next" => op = "timeout") /\ call[c].op # "commit"
  <2>1. CASE Goes(c, "rolled back")
    <3>1. CallIs(c, call[c].op, t, "rolled back", call[c].todo, call[c].key)
      BY <1>1, <2>1, GoesShape DEF Moves, BusyAt, RollbackAt
    <3> QED
      BY <3>1
  <2>2. CASE call[c].op # "commit" /\ Ends(c)
    BY <1>1, <2>2, EndsShape
  <2> QED
    BY <1>0, <2>1, <2>2
<1>5. PICK op, u, at, todo, key :
        /\ CallIs(c, op, u, at, todo, key)
        /\ \/ u = t /\ at = "rolled back" /\ op = call[c].op
           \/ u = None /\ at \in {"idle", "next"} /\ (at = "next" => op = "timeout") /\ call[c].op # "commit"
  BY <1>4
<1>6. /\ OneAtWork' /\ (\A d \in Call : d # c => CallInv(d)') /\ (\A v \in Tx : v # t => TxInv(v)')
      /\ Sees(t, u, op, at)'
  <2>1. u \in {t, None} /\ (u = None => at \in {"idle", "next"})
    BY <1>1, <1>5
  <2> QED
    BY <1>0, <1>1, <1>3, <1>5, <2>1, OthersStep DEF Unborn
<1>7. Types'
  BY <1>0, <1>1, <1>5 DEF Types, CallIs
<1>8. CallInv(c)'
  BY <1>0, <1>1, <1>2, <1>5 DEF CallInv, Working, Carries, Of, At, CommitAt, RollbackAt, CoreCommitted, CallIs
<1>9. TxInv(t)'
  <2>1. MapsOf(t)' /\ AnswersOf(t)'
    BY <1>0, <1>1 DEF IInv, TxInv, MapsOf, AnswersOf, Open, Unborn
  <2>2. CoreOf(t)'
    BY <1>0, <1>1, <1>2, <1>5, <1>6 DEF IInv, TxInv, CoreOf, Sees, NoDrop, Has, CoreEnded, CoreCommitted
  <2>3. WritesOf(t)'
    BY <1>0, <1>1, <1>5, <1>6 DEF IInv, TxInv, WritesOf, Sees, NoDrop, RollbackAt
  <2> QED
    BY <2>1, <2>2, <2>3 DEF TxInv
<1> QED
  BY <1>0, <1>6, <1>7, <1>8, <1>9 DEF IInv

LEMMA RolledBackStep ==
  ASSUME IInv, NEW c \in Call, NEW t \in Tx, t = Of(c), RolledBack(c) PROVE IInv'
<1> DEFINE answer == IF call[c].op = "commit" THEN "failed" ELSE "rolled back"
<1>0. /\ core_open' = core_open /\ core_done' = core_done /\ log' = log
      /\ active' = active \ {t} /\ write_set' = Deregistered(t) /\ buffered' = buffered
      /\ applied' = applied /\ components' = components /\ slips' = slips
      /\ acks' = acks \cup {<<t, answer>>}
      /\ call[c].at = "rolled back" /\ Status(c, "RolledBack") /\ Ends(c)
  BY DEF RolledBack, Forgets, coreVars, At
<1>1. /\ Types /\ t # None /\ Alone(c, t) /\ tx[t].status = "RollingBack"
      /\ call[c].op \in {"commit", "rollback", "timeout"}
      /\ Sees(t, t, call[c].op, "rolled back") /\ t \in active
  BY <1>0, RollingFacts DEF RollbackAt
<1>2. ~tx[t].core
  BY <1>0 DEF IInv, CallInv, Carries
<1>3. TxIs(t, "RolledBack", tx[t].core, tx[t].buffer)
  BY <1>0, <1>1, StatusShape
<1>4. PICK op, key, todo : \E at \in {"idle", "next"} :
        CallIs(c, op, None, at, todo, key) /\ (at = "next" => op = "timeout")
  BY <1>0, <1>1, EndsShape
<1>5. PICK at \in {"idle", "next"} : CallIs(c, op, None, at, todo, key) /\ (at = "next" => op = "timeout")
  BY <1>4
<1>6. \A v \in active' : v \in active /\ v # t /\ write_set'[v] = write_set[v]
  BY <1>0 DEF IInv, Deregistered
<1>7. \A v \in Tx : v # t => Untouched(v)
  BY <1>0, <1>3, <1>6 DEF Untouched, TxIs
<1>8. /\ OneAtWork' /\ (\A d \in Call : d # c => CallInv(d)') /\ (\A v \in Tx : v # t => TxInv(v)')
      /\ Sees(t, None, op, at)'
  BY <1>0, <1>1, <1>3, <1>5, <1>7, OthersStep DEF TxIs, Unborn
<1>9. Types'
  <2>1. acks' \subseteq Tx \X {"committed", "failed", "rolled back"}
    <3>1. acks \subseteq Tx \X {"committed", "failed", "rolled back"}
          /\ <<t, answer>> \in Tx \X {"committed", "failed", "rolled back"}
      BY <1>1 DEF Types
    <3> QED
      BY <1>0, <3>1
  <2> QED
    BY <1>0, <1>1, <1>3, <1>5, <2>1 DEF Types, TxIs, CallIs
<1>10. CallInv(c)'
  BY <1>1, <1>5 DEF CallInv, Working, Carries, Of, At, CommitAt, RollbackAt, CoreCommitted, CallIs
<1>11. TxInv(t)'
  <2>0. \A other : <<t, other>> \notin acks
    BY <1>1 DEF IInv, Types, TxInv, AnswersOf
  <2>1. MapsOf(t)' /\ AnswersOf(t)'
    BY <1>0, <1>1, <1>3, <2>0 DEF IInv, TxInv, MapsOf, AnswersOf, Open, Unborn, TxIs
  <2>2. CoreOf(t)'
    BY <1>0, <1>1, <1>2, <1>3, <1>8 DEF IInv, TxInv, CoreOf, Sees, NoDrop, Has, TxIs, CoreEnded, CoreCommitted
  <2>3. WritesOf(t)'
    BY <1>0, <1>1, <1>3, <2>0 DEF IInv, TxInv, WritesOf, Sees, NoDrop, RollbackAt, TxIs
  <2> QED
    BY <2>1, <2>2, <2>3 DEF TxInv
<1>12. DOMAIN write_set' = active' /\ active' \subseteq Tx
  BY <1>0 DEF IInv, Deregistered
<1> QED
  BY <1>8, <1>9, <1>10, <1>11, <1>12 DEF IInv

\* A call at work is dropped: the mutex is released, whatever was done.
LEMMA DropStep ==
  ASSUME IInv, NEW c \in Call, Drop(c) PROVE IInv'
<1>0. /\ log' = log /\ active' = active /\ applied' = applied /\ tx' = tx
      /\ write_set' = write_set /\ buffered' = buffered /\ core_done' = core_done
      /\ core_open' = core_open /\ components' = components /\ acks' = acks
      /\ Returns(c) /\ call[c].at # "idle" /\ Types
      /\ \/ call[c].at \in {"lock", "next"} /\ slips' = slips
         \/ call[c].at \notin {"lock", "next"} /\ slips' = slips \cup {Slip(c)}
  BY DEF Drop, At, txVars, coreVars, IInv
<1>1. CASE call[c].at \in {"lock", "next"} /\ slips' = slips
  BY <1>0, <1>1, ReturnsQuietly DEF coreVars, BusyAt, CommitAt, RollbackAt
<1>2. CASE call[c].at \notin {"lock", "next"} /\ slips' = slips \cup {Slip(c)}
  <2>1. call[c].at \in BusyAt
    BY <1>0, <1>2 DEF Types, CallState
  <2>2. PICK t \in Tx : t = Of(c) /\ Alone(c, t)
    BY <2>1, BusyAlone
  <2>3. CallIs(c, None, None, "idle", <<>>, None)
    BY <1>0, ReturnsShape
  <2>4. \A v \in Tx : v # t => Untouched(v)
    BY <1>0 DEF Untouched
  <2>5. OneAtWork' /\ \A d \in Call : d # c => Working(d)'
    <3>1. \A d \in Call : d # c => call'[d] = call[d]
      BY <2>3 DEF CallIs
    <3>2. OneAtWork'
      BY <2>2, <2>3, <3>1, TxAssumption DEF IInv, OneAtWork, Busy, Alone, CallIs, Of
    <3>3. ASSUME NEW d \in Call, d # c PROVE Working(d)'
      BY <1>0, <3>1, <3>3 DEF IInv, CallInv, Working, Of, At
    <3> QED
      BY <3>2, <3>3
  <2>6. ASSUME NEW d \in Call, d # c PROVE CallInv(d)'
    <3>1. call'[d] = call[d]
      BY <2>3, <2>6 DEF CallIs
    <3>2. Carries(d)'
      BY <1>0, <2>6, <3>1 DEF IInv, CallInv, Carries, Of, At, Has
    <3> QED
      BY <2>5, <2>6, <3>2 DEF CallInv
  <2>7. CallInv(c)'
    BY <2>3 DEF CallInv, Working, Carries, Of, At, CommitAt, RollbackAt, CoreCommitted, CallIs
  <2>8. ASSUME NEW v \in Tx PROVE TxInv(v)'
    <3>1. ~NoDrop' /\ (slips' \subseteq {"dropped"} => slips \subseteq {"dropped"} /\ ~At(c, "snapshot"))
      BY <1>2 DEF NoDrop, Slip
    <3>2. MapsOf(v)' /\ AnswersOf(v)'
      BY <1>0 DEF IInv, TxInv, MapsOf, AnswersOf, Open, Unborn
    <3>3. CallAt(v, CoreEnded)' => CallAt(v, CoreEnded)
      BY <2>3, TxAssumption DEF CallAt, CallIs, Of, CoreEnded
    <3>4. CallAt(v, {"snapshot"}) /\ ~At(c, "snapshot") => CallAt(v, {"snapshot"})'
      BY <2>3 DEF CallAt, CallIs, Of, At
    <3>5. CoreOf(v)'
      BY <1>0, <3>1, <3>3, <3>4 DEF IInv, TxInv, CoreOf, Has
    <3>6. WritesOf(v)'
      BY <1>0, <3>1 DEF IInv, TxInv, WritesOf, Has
    <3> QED
      BY <3>2, <3>5, <3>6 DEF TxInv
  <2>9. Types'
    BY <1>0, <1>2, <2>3 DEF Types, CallIs, Slip
  <2> QED
    BY <1>0, <2>5, <2>6, <2>7, <2>8, <2>9 DEF IInv
<1> QED
  BY <1>0, <1>1, <1>2

-----------------------------------------------------------------------------
(* The theorems *)

LEMMA InductiveStep == IInv /\ [Next]_vars => IInv'
<1> SUFFICES ASSUME IInv, [Next]_vars PROVE IInv'
  OBVIOUS
<1>1. ASSUME NEW c \in Call, NEW t \in Tx, BeginCore(c, t) PROVE IInv'
  BY <1>1, BeginCoreStep
<1>2. ASSUME NEW c \in Call, NEW t \in Tx,
             \/ Calls(c, "commit", t, None) \/ Calls(c, "rollback", t, None)
             \/ \E key \in Key : Calls(c, "buffer", t, key)
      PROVE  IInv'
  <2>1. Types' /\ Quiet(c) /\ CallInv(c)'
    BY <1>2, CallsStep
  <2> QED
    BY <2>1, QuietStep
<1>3. ASSUME NEW c \in Call, TimeoutScans(c) \/ TimeoutNext(c) PROVE IInv'
  BY <1>3, TimeoutStep, QuietStep
<1>4. ASSUME NEW c \in Call,
             \/ BeginRegisters(c) \/ Buffer(c)
             \/ CommitPrepares(c) \/ Upsert(c) \/ CommitCore(c) \/ CommitDropsSnapshot(c) \/ Committed(c)
             \/ RollbackStarts(c) \/ RollbackCore(c) \/ RollbackClears(c) \/ RestoreSnapshot(c)
             \/ RolledBack(c)
      PROVE  IInv'
  <2>1. call[c].at \in BusyAt \cup {"lock"}
    BY <1>4 DEF BeginRegisters, Buffer, CommitPrepares, Upsert, CommitCore, CommitDropsSnapshot,
       Committed, RollbackStarts, RollbackCore, RollbackClears, RestoreSnapshot, RolledBack, Locks,
       At, BusyAt, CommitAt, RollbackAt
  <2>2. PICK t \in Tx : t = Of(c)
    BY <2>1, BusyTx
  <2> QED
    BY <1>4, <2>2, BeginRegistersStep, BufferStep, CommitPreparesStep, UpsertStep, CommitCoreStep,
       CommitDropsSnapshotStep, CommittedStep, RollbackStartsStep, RollbackCoreStep,
       RollbackClearsStep, RestoreSnapshotStep, RolledBackStep
<1>5. ASSUME NEW c \in Call, Drop(c) PROVE IInv'
  BY <1>5, DropStep
<1>6. CASE UNCHANGED vars
  <2> USE <1>6 DEF vars, txVars, coreVars, history
  <2>1. Types' /\ OneAtWork' /\ DOMAIN write_set' = active' /\ active' \subseteq Tx
    BY DEF IInv, Types, OneAtWork, Busy, Of
  <2>2. ASSUME NEW c \in Call PROVE CallInv(c)'
    BY DEF IInv, CallInv, Working, Carries, Of, At, Has
  <2>3. ASSUME NEW t \in Tx PROVE TxInv(t)'
    <3>1. Same(t)
      BY DEF Same, CallAt, FailingCommit, Of
    <3>2. Untouched(t)
      BY DEF Untouched
    <3> QED
      BY <3>1, <3>2, UntouchedStep DEF IInv
  <2> QED
    BY <2>1, <2>2, <2>3 DEF IInv
<1> QED
  BY <1>1, <1>2, <1>3, <1>4, <1>5, <1>6 DEF Next

\* The inductive invariant: the status of a transaction, what the one call at
\* work on it is doing and what the two stores have of it agree.
THEOREM Invariance == Spec => []IInv
  BY InitInvariant, InductiveStep, PTL DEF Spec

\* The variables keep their types, and the log its bound.
THEOREM TypeCorrect == Spec => []TypeOK
<1>1. ASSUME IInv PROVE TypeOK
  <2> USE <1>1
  <2>1. active \subseteq Tx /\ DOMAIN write_set \subseteq Tx
    BY DEF IInv
  <2>2. \A t \in Tx : TxInv(t) /\ tx[t] \in TxState
    BY DEF IInv, Types
  <2>3. ASSUME NEW t \in Tx
        PROVE  /\ Open(t) \/ tx[t].status \in {"none", "beginning", "refused", "Committed", "RolledBack"}
               /\ tx[t].core \in BOOLEAN /\ tx[t].snapshot \in BOOLEAN /\ tx[t].buffer \in Seq(Key)
    BY <2>2 DEF TxState, Open
  <2>4. ASSUME NEW u \in DOMAIN write_set PROVE write_set[u] \subseteq Key
    BY DEF IInv, TxInv, MapsOf, Types
  <2> QED
    BY <2>1, <2>3, <2>4 DEF TypeOK, IInv, Types
<1> QED
  BY <1>1, Invariance, PTL

\* The two maps of the manager hold exactly the transactions that are open, after
\* any drop and any failure: one that blocks others can always be ended.
LEMMA BlockersCanBeEndedHolds == Spec => []BlockersCanBeEnded
<1>1. IInv => BlockersCanBeEnded
  BY DEF IInv, TxInv, MapsOf, Open, BlockersCanBeEnded
<1> QED
  BY <1>1, Invariance, PTL

\* No transaction is answered with two outcomes: a call that waited for the
\* mutex while another ended the transaction changes nothing.
THEOREM OneOutcomeHolds == Spec => []OneOutcome
<1>1. ASSUME IInv PROVE OneOutcome
  <2> SUFFICES ASSUME NEW t \in Tx
               PROVE  Cardinality({answer \in {"committed", "failed", "rolled back"} : <<t, answer>> \in acks}) <= 1
    BY DEF OneOutcome
  <2> DEFINE told == {answer \in {"committed", "failed", "rolled back"} : <<t, answer>> \in acks}
  <2>1. \A x, y \in told : x = y
    BY <1>1 DEF IInv, TxInv, AnswersOf
  <2> HIDE DEF told
  <2>2. told = {} \/ \E x : told = {x}
    BY <2>1
  <2>3. Cardinality(told) = 0 \/ Cardinality(told) = 1
    BY <2>2, FS_EmptySet, FS_Singleton
  <2>4. Cardinality(told) <= 1
    BY <2>3
  <2> QED
    BY <2>4 DEF told
<1> QED
  BY <1>1, Invariance, PTL

\* What callers were told is true of claw-core and of claw-vector, unless a
\* call was dropped.
THEOREM OutcomesAreTrueHolds == Spec => []OutcomesAreTrue
<1>1. ASSUME IInv PROVE OutcomesAreTrue
  <2>1. \A t \in Tx : TxInv(t)
    BY <1>1 DEF IInv
  <2>2. ASSUME NEW t \in Tx, tx[t].status = "RolledBack"
        PROVE  ~CallAt(t, CoreCommitted) /\ ~FailingCommit(t)
    BY <1>1, <2>2 DEF IInv, CallInv, Working, CallAt, FailingCommit, CoreCommitted, CommitAt
  <2>3. CommittedMeansAll
    BY <2>1 DEF CommittedMeansAll, TxInv, AnswersOf, CoreOf, WritesOf, NoDrop
  <2>4. RolledBackMeansNothing
    BY <2>1, <2>2 DEF RolledBackMeansNothing, TxInv, AnswersOf, CoreOf, WritesOf, NoDrop
  <2> QED
    BY <2>3, <2>4 DEF OutcomesAreTrue
<1> QED
  BY <1>1, Invariance, PTL

\* Whatever is open in claw-core is known to be, though calls were dropped in a
\* commit or rollback, unless a begin was dropped or a ROLLBACK failed.
LEMMA CoreIsReleasedHolds == Spec => []CoreIsReleased
<1>1. ASSUME IInv PROVE CoreIsReleased
  <2> SUFFICES ASSUME slips \subseteq {"dropped"}, core_open # None
               PROVE  /\ tx[core_open].core
                      /\ core_open \in active \/ \E c \in Call : call[c].op = "begin" /\ Of(c) = core_open
    BY DEF CoreIsReleased
  <2>1. PICK t \in Tx : t = core_open
    BY <1>1 DEF IInv, Types
  <2>2. TxInv(t)
    BY <1>1 DEF IInv
  <2>3. tx[t].core /\ (tx[t].status = "beginning" => CallAt(t, {"snapshot"}))
        /\ tx[t].status \in {"beginning", "Active", "Committing", "RollingBack"}
    BY <2>1, <2>2 DEF TxInv, CoreOf
  <2>4. CASE tx[t].status = "beginning"
    BY <1>1, <2>1, <2>3, <2>4 DEF IInv, CallInv, Working, CallAt, At
  <2>5. CASE tx[t].status # "beginning"
    BY <2>1, <2>2, <2>3, <2>5 DEF TxInv, MapsOf, Open
  <2> QED
    BY <2>4, <2>5
<1> QED
  BY <1>1, Invariance, PTL

\* Whoever keeps others from committing or beginning can be ended.
THEOREM OpenCanBeEndedHolds == Spec => []OpenCanBeEnded
<1>1. BlockersCanBeEnded /\ CoreIsReleased => OpenCanBeEnded
  BY DEF OpenCanBeEnded
<1> QED
  BY <1>1, BlockersCanBeEndedHolds, CoreIsReleasedHolds, PTL

\* A transaction enters phase 2 in CommitPrepares only, compared with the others,
\* and is written in only while it is Active.
Enters(t) == tx[t].status = "Active" /\ Prepared(t) /\ buffered' = buffered /\ \A u \in Tx : u # t => tx'[u] = tx[u]
StaysOut == \A t \in Tx : tx'[t].status = "Committing" =>
              tx[t].status = "Committing" /\ buffered'[t] = buffered[t]

LEMMA PhaseTwoStep == ASSUME IInv, [Next]_vars PROVE StaysOut \/ \E t \in Tx : Enters(t)
<1>0. Types
  BY DEF IInv
<1>1. ASSUME NEW c \in Call, NEW t \in Tx, BeginCore(c, t) PROVE StaysOut
  <2>1. buffered' = buffered
    BY <1>1 DEF BeginCore, history
  <2> QED
    BY <1>0, <1>1, <2>1, BeginCoreShape DEF TxIs, StaysOut
<1>2. ASSUME NEW c \in Call, BeginRegisters(c) PROVE StaysOut
  <2>1. buffered' = buffered
    BY <1>2 DEF BeginRegisters, history
  <2>2. PICK taken : tx' = [tx EXCEPT ![Of(c)].status = "Active", ![Of(c)].snapshot = taken]
    BY <1>2 DEF BeginRegisters
  <2>3. ASSUME NEW v \in Tx PROVE tx'[v] = tx[v] \/ tx'[v].status = "Active"
    BY <1>0, <2>2 DEF Types, TxState
  <2> QED
    BY <2>1, <2>3 DEF StaysOut
<1>3. ASSUME NEW c \in Call, Buffer(c) PROVE StaysOut
  <2>1. CASE tx[Of(c)].status = "Active"
    <3>1. /\ tx' = [tx EXCEPT ![Of(c)].buffer = Append(@, call[c].key)]
          /\ buffered' = [buffered EXCEPT ![Of(c)] = @ \cup {call[c].key}]
      BY <1>3, <2>1 DEF Buffer
    <3>2. ASSUME NEW v \in Tx
          PROVE  tx'[v].status = tx[v].status /\ (v # Of(c) => buffered'[v] = buffered[v])
      BY <1>0, <3>1 DEF Types, TxState
    <3> QED
      BY <2>1, <3>2 DEF StaysOut
  <2>2. CASE tx[Of(c)].status # "Active"
    BY <1>3, <2>2 DEF Buffer, StaysOut
  <2> QED
    BY <2>1, <2>2
<1>4. ASSUME NEW c \in Call, CommitPrepares(c) PROVE StaysOut \/ \E t \in Tx : Enters(t)
  <2>1. Of(c) \in Tx /\ buffered' = buffered
    BY <1>4, LockAlone DEF CommitPrepares, history
  <2>2. CASE tx' = tx
    BY <2>1, <2>2 DEF StaysOut
  <2>3. CASE tx[Of(c)].status = "Active" /\ Prepared(Of(c)) /\ tx' # tx
    BY <1>0, <1>4, <2>1, <2>3 DEF CommitPrepares, Enters, Types
  <2> QED
    BY <1>4, <2>2, <2>3 DEF CommitPrepares
<1>5. ASSUME NEW c \in Call, call[c].at \in BusyAt \cup {"lock"}, buffered' = buffered,
             NEW status \in {"RollingBack", "Committed", "RolledBack"}, Status(c, status)
      PROVE  StaysOut
  <2>1. Of(c) \in Tx
    BY <1>5, BusyTx
  <2> QED
    BY <1>0, <1>5, <2>1, StatusShape DEF TxIs, StaysOut
<1>6. ASSUME NEW c \in Call, Upsert(c) \/ CommitCore(c) \/ Committed(c) \/ RollbackStarts(c) \/ RolledBack(c)
      PROVE  StaysOut
  <2>1. call[c].at \in BusyAt \cup {"lock"} /\ buffered' = buffered
    BY <1>6 DEF Upsert, CommitCore, Committed, RollbackStarts, RolledBack, Locks, At, BusyAt,
       CommitAt, RollbackAt, history
  <2>2. tx' = tx \/ \E status \in {"RollingBack", "Committed", "RolledBack"} : Status(c, status)
    BY <1>6 DEF Upsert, CommitCore, Committed, RollbackStarts, RolledBack, Fails
  <2>3. CASE tx' = tx
    BY <2>1, <2>3 DEF StaysOut
  <2> QED
    BY <1>5, <2>1, <2>2, <2>3
<1>7. ASSUME NEW c \in Call, CommitDropsSnapshot(c) \/ RollbackClears(c) PROVE StaysOut
  <2>1. buffered' = buffered
    BY <1>7 DEF CommitDropsSnapshot, RollbackClears, history
  <2>2. ASSUME NEW v \in Tx PROVE tx'[v].status = tx[v].status
    <3>1. CASE CommitDropsSnapshot(c)
      <4>1. tx' = [tx EXCEPT ![Of(c)].core = FALSE, ![Of(c)].snapshot = FALSE]
        BY <3>1 DEF CommitDropsSnapshot
      <4> QED
        BY <1>0, <4>1 DEF Types, TxState
    <3>2. CASE RollbackClears(c)
      <4>1. tx' = [tx EXCEPT ![Of(c)] = [@ EXCEPT !.core = FALSE, !.buffer = <<>>, !.snapshot = FALSE]]
        BY <3>2 DEF RollbackClears
      <4> QED
        BY <1>0, <4>1 DEF Types, TxState
    <3> QED
      BY <1>7, <3>1, <3>2
  <2> QED
    BY <2>1, <2>2 DEF StaysOut
<1>8. CASE UNCHANGED <<tx, buffered>>
  BY <1>8 DEF StaysOut
<1>9. ASSUME NEW c \in Call, NEW t \in Tx, NEW op, NEW key, Calls(c, op, t, key)
      PROVE  UNCHANGED <<tx, buffered>>
  BY <1>9 DEF Calls, txVars, history
<1>10. ASSUME NEW c \in Call,
              RollbackCore(c) \/ RestoreSnapshot(c) \/ TimeoutScans(c) \/ TimeoutNext(c) \/ Drop(c)
       PROVE  UNCHANGED <<tx, buffered>>
  BY <1>10 DEF RollbackCore, RestoreSnapshot, TimeoutScans, TimeoutNext, Drop, txVars, history
<1>11. CASE UNCHANGED vars
  BY <1>8, <1>11 DEF vars, txVars, history
<1>12. CASE \E c \in Call, t \in Tx :
              \/ BeginCore(c, t) \/ Calls(c, "commit", t, None) \/ Calls(c, "rollback", t, None)
              \/ \E key \in Key : Len(tx[t].buffer) < MaxWrites /\ Calls(c, "buffer", t, key)
  BY <1>1, <1>8, <1>9, <1>12, Zenon
<1>13. CASE \E c \in Call :
              \/ BeginRegisters(c) \/ Buffer(c)
              \/ CommitPrepares(c) \/ Upsert(c) \/ CommitCore(c) \/ CommitDropsSnapshot(c) \/ Committed(c)
              \/ RollbackStarts(c) \/ RollbackCore(c) \/ RollbackClears(c) \/ RestoreSnapshot(c)
              \/ RolledBack(c) \/ TimeoutScans(c) \/ TimeoutNext(c) \/ Drop(c)
  BY <1>2, <1>3, <1>4, <1>6, <1>7, <1>8, <1>10, <1>13, Zenon
<1> QED
  BY <1>11, <1>12, <1>13, Zenon DEF Next

\* Two transactions in phase 2 have no key in common.
THEOREM NoTwoWritersHolds == Spec => []NoTwoWriters
<1>1. Init => NoTwoWriters
  BY DEF Init, NoTwoWriters
<1>2. ASSUME IInv, IInv', NoTwoWriters, [Next]_vars PROVE NoTwoWriters'
  <2> SUFFICES ASSUME NEW t \in Tx, NEW u \in Tx, t # u,
                      tx'[t].status = "Committing", tx'[u].status = "Committing"
               PROVE  buffered'[t] \cap buffered'[u] = {}
    BY <1>2 DEF NoTwoWriters, IInv
  <2>1. \A v \in Tx : /\ v \in active <=> Open(v)
                      /\ v \in active => v \in DOMAIN write_set /\ write_set[v] = buffered[v]
    BY <1>2 DEF IInv, TxInv, MapsOf
  <2>2. CASE StaysOut
    BY <1>2, <2>1, <2>2 DEF StaysOut, NoTwoWriters, Open
  <2>3. ASSUME NEW v \in Tx, Enters(v) PROVE buffered'[t] \cap buffered'[u] = {}
    <3>1. buffered' = buffered /\ \A w \in Tx : w # v => tx'[w] = tx[w]
      BY <2>3 DEF Enters
    <3>2. CASE t # v /\ u # v
      BY <1>2, <2>1, <3>1, <3>2 DEF NoTwoWriters, Open
    <3>3. ASSUME NEW w \in Tx, w # v, tx'[w].status = "Committing"
          PROVE  buffered[w] \cap buffered[v] = {}
      <4>1. w \in active
        BY <2>1, <3>1, <3>3 DEF Open
      <4>2. v \in active
        BY <2>1, <2>3 DEF Enters, Open
      <4> QED
        BY <2>1, <2>3, <3>3, <4>1, <4>2 DEF Enters, Prepared
    <3> QED
      BY <3>1, <3>2, <3>3
  <2> QED
    BY <1>2, <2>2, <2>3, PhaseTwoStep
<1> QED
  BY <1>1, <1>2, Invariance, PTL DEF Spec
=============================================================================
