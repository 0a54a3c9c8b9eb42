---------------------------- MODULE TwoPhaseCommit ----------------------------
(***************************************************************************)
(* The transaction manager of clawdb/src/transaction: transactions across  *)
(* claw-core, claw-vector and claw-branch. The crate does not compile it   *)
(* yet: this is the design as its code states it.                          *)
(*                                                                         *)
(* A call takes a handle of its transaction from the map, waits for the    *)
(* mutex of the transaction and keeps it until it returns: what is waiting *)
(* meets the transaction in whatever state the call before has left. A     *)
(* call whose caller goes away is dropped at an await: the mutex is        *)
(* released, and what was awaited may have had its effect or not.          *)
(*                                                                         *)
(* claw-core has one connection, so one open transaction at most, and its  *)
(* COMMIT and ROLLBACK end the one that is open, whoever sent it.          *)
(***************************************************************************)
EXTENDS Naturals, Sequences, FiniteSets

CONSTANTS Tx,          \* transactions
          Key,         \* keys a transaction writes
          Call,        \* calls at work at a time
          None,
          MaxWrites,   \* BOUND on the writes of a transaction
          MaxLog,      \* 8192 in the code
          Deployments  \* sets of components that the lifecycle manager has

ASSUME TxAssumption == None \notin Tx
ASSUME DeploymentsAssumption ==
  \A d \in Deployments : d \subseteq {"core", "vector", "branch"}
ASSUME BoundsAssumption == MaxWrites \in Nat /\ MaxLog \in Nat \ {0}

VARIABLES tx,          \* TxState: status, core_tx_begun, buffer and snapshot
          active,      \* TransactionManager::active
          write_set,   \* TransactionCoordinator::active, the write sets
          log,         \* TransactionLog
          call,        \* what each call is doing
          core_open,   \* the transaction open in claw-core
          core_done,   \* those it has committed
          applied,     \* writes claw-vector has
          components,  \* what the lifecycle manager has
          acks,        \* HISTORY what callers were told of a transaction
          buffered,    \* HISTORY what they wrote in it
          slips        \* HISTORY a call was dropped, a ROLLBACK failed

txVars    == <<tx, active, write_set, log>>
coreVars  == <<core_open, core_done>>
history   == <<acks, buffered, slips>>
vars      == <<txVars, call, coreVars, applied, components, history>>

Has(component) == component \in components

NoTx    == [status |-> "none", core |-> FALSE, buffer |-> <<>>, snapshot |-> FALSE]
NoCall  == [op |-> None, tx |-> None, at |-> "idle", todo |-> <<>>, stale |-> {}, key |-> None]
NoWrites == [t \in {} |-> {}]

Init ==
  /\ tx = [t \in Tx |-> NoTx] /\ active = {} /\ write_set = NoWrites /\ log = <<>>
  /\ call = [c \in Call |-> NoCall]
  /\ core_open = None /\ core_done = {} /\ applied = {}
  /\ components \in Deployments
  /\ acks = {} /\ buffered = [t \in Tx |-> {}] /\ slips = {}

Of(c)     == call[c].tx
At(c, at) == call[c].at = at
Goes(c, at) == call' = [call EXCEPT ![c].at = at]
Returns(c)  == call' = [call EXCEPT ![c] = NoCall]

\* TransactionCoordinator: register, extend_write_set, deregister.
Registered(t)    == [u \in DOMAIN write_set \cup {t} |-> IF u = t THEN {} ELSE write_set[u]]
Extended(t, key) == [u \in DOMAIN write_set |-> IF u = t THEN write_set[u] \cup {key} ELSE write_set[u]]
Deregistered(t)  == [u \in DOMAIN write_set \ {t} |-> write_set[u]]

\* MUTANT of Prepared: nobody else is compared with.
PreparedAlone(t) == TRUE

\* TransactionCoordinator::prepare: nobody else who is registered writes what
\* t writes.
Prepared(t) ==
  t \in DOMAIN write_set => \A u \in DOMAIN write_set \ {t} : write_set[u] \cap write_set[t] = {}

\* MUTANT of Appended: nothing leaves the window.
AppendedForGood(t) == Append(log, t)

\* TransactionLog::append, a rolling window.
Appended(t) == Append(IF Len(log) >= MaxLog THEN Tail(log) ELSE log, t)

-----------------------------------------------------------------------------
(* begin *)

\* BEGIN IMMEDIATE fails when a transaction is open, or of itself.
BeginCore(c, t) ==
  /\ At(c, "idle") /\ tx[t].status = "none"
  /\ \/ /\ Has("core") /\ core_open = None
        /\ core_open' = t
        /\ tx' = [tx EXCEPT ![t].status = "beginning", ![t].core = TRUE]
        /\ call' = [call EXCEPT ![c].op = "begin", ![c].tx = t, ![c].at = "snapshot"]
     \/ /\ Has("core")
        /\ tx' = [tx EXCEPT ![t].status = "refused"]
        /\ UNCHANGED <<core_open, call>>
     \/ /\ ~Has("core")
        /\ tx' = [tx EXCEPT ![t].status = "beginning"]
        /\ call' = [call EXCEPT ![c].op = "begin", ![c].tx = t, ![c].at = "snapshot"]
        /\ UNCHANGED core_open
  /\ UNCHANGED <<active, write_set, log, core_done, applied, components, history>>

\* The snapshot, whose failure is not fatal; then the two maps.
BeginRegisters(c) ==
  /\ At(c, "snapshot")
  /\ \E taken \in {FALSE, Has("branch")} :
       tx' = [tx EXCEPT ![Of(c)].status = "Active", ![Of(c)].snapshot = taken]
  /\ active' = active \cup {Of(c)}
  /\ write_set' = Registered(Of(c))
  /\ Returns(c)
  /\ UNCHANGED <<log, coreVars, applied, components, history>>

-----------------------------------------------------------------------------
(* The handle and the mutex *)

AtWork == {"upserts", "core commit", "core committed", "drop snapshot",
           "core rollback", "core rolled back", "restore snapshot", "rolled back"}

Locked(t) == \E c \in Call : Of(c) = t /\ call[c].at \in AtWork

\* get_handle: without the transaction the call returns an error.
Calls(c, op, t, key) ==
  /\ At(c, "idle") /\ t \in active
  /\ call' = [call EXCEPT ![c].op = op, ![c].tx = t, ![c].at = "lock", ![c].key = key]
  /\ UNCHANGED <<txVars, coreVars, applied, components, history>>

Locks(c, op) == At(c, "lock") /\ call[c].op \in op /\ ~Locked(Of(c))

Status(c, status) == tx' = [tx EXCEPT ![Of(c)].status = status]

\* buffer_vector_upsert
Buffer(c) ==
  /\ Locks(c, {"buffer"}) /\ Returns(c)
  /\ IF tx[Of(c)].status = "Active"
       THEN /\ tx' = [tx EXCEPT ![Of(c)].buffer = Append(@, call[c].key)]
            /\ write_set' = Extended(Of(c), call[c].key)
            /\ buffered' = [buffered EXCEPT ![Of(c)] = @ \cup {call[c].key}]
       ELSE UNCHANGED <<tx, write_set, buffered>>
  /\ UNCHANGED <<active, log, coreVars, applied, components, acks, slips>>

-----------------------------------------------------------------------------
(* commit *)

\* MUTANT of CommitPrepares: the status is not looked at under the lock.
CommitPreparesBlindly(c) ==
  /\ Locks(c, {"commit"}) /\ Prepared(Of(c))
  /\ call' = [call EXCEPT ![c].at = "upserts", ![c].todo = tx[Of(c)].buffer]
  /\ Status(c, "Committing")
  /\ UNCHANGED <<active, write_set, log, coreVars, applied, components, history>>

\* Refused when the transaction is not Active or in conflict: it stays as it
\* is. Otherwise phase 2 takes the buffer, if there is a component for it.
CommitPrepares(c) ==
  /\ Locks(c, {"commit"})
  /\ IF tx[Of(c)].status # "Active" \/ ~Prepared(Of(c))
       THEN Returns(c) /\ UNCHANGED tx
       ELSE /\ call' = [call EXCEPT ![c].at = "upserts",
                          ![c].todo = IF Has("vector") THEN tx[Of(c)].buffer ELSE <<>>]
            /\ tx' = [tx EXCEPT ![Of(c)].status = "Committing",
                                ![Of(c)].buffer = IF Has("vector") THEN <<>> ELSE @]
  /\ UNCHANGED <<active, write_set, log, coreVars, applied, components, history>>

\* A step of phase 2 fails: the rollback is attempted.
Fails(c) ==
  /\ Status(c, "RollingBack")
  /\ call' = [call EXCEPT ![c].at = "core rollback", ![c].todo = <<>>]

\* MUTANT of Upsert: an upsert that fails is passed over.
UpsertOrNot(c) ==
  /\ At(c, "upserts") /\ call[c].todo # <<>>
  /\ applied' \in {applied, applied \cup {<<Of(c), Head(call[c].todo)>>}}
  /\ call' = [call EXCEPT ![c].todo = Tail(@)]
  /\ UNCHANGED <<tx, active, write_set, log, coreVars, components, history>>

Upsert(c) ==
  /\ At(c, "upserts") /\ call[c].todo # <<>>
  /\ \/ /\ applied' = applied \cup {<<Of(c), Head(call[c].todo)>>}
        /\ call' = [call EXCEPT ![c].todo = Tail(@)]
        /\ UNCHANGED tx
     \/ Fails(c) /\ UNCHANGED applied
  /\ UNCHANGED <<active, write_set, log, coreVars, components, history>>

\* COMMIT ends whatever transaction is open.
CommitCore(c) ==
  /\ At(c, "upserts") /\ call[c].todo = <<>>
  /\ \/ /\ ~tx[Of(c)].core
        /\ Goes(c, "core committed") /\ UNCHANGED <<tx, coreVars>>
     \/ /\ tx[Of(c)].core /\ core_open # None
        /\ core_done' = core_done \cup {core_open} /\ core_open' = None
        /\ Goes(c, "core committed") /\ UNCHANGED tx
     \/ /\ tx[Of(c)].core
        /\ Fails(c) /\ UNCHANGED coreVars
  /\ UNCHANGED <<active, write_set, log, applied, components, history>>

\* COMMIT has returned; the snapshot is taken out of the state to be deleted.
CommitDropsSnapshot(c) ==
  /\ At(c, "core committed")
  /\ tx' = [tx EXCEPT ![Of(c)].core = FALSE, ![Of(c)].snapshot = FALSE]
  /\ Goes(c, "drop snapshot")
  /\ UNCHANGED <<active, write_set, log, coreVars, applied, components, history>>

\* MUTANT of Forgets: the coordinator keeps its record.
ForgetsHalf(c) == active' = active \ {Of(c)} /\ UNCHANGED write_set

Forgets(c) == active' = active \ {Of(c)} /\ write_set' = Deregistered(Of(c))

Committed(c) ==
  /\ At(c, "drop snapshot")
  /\ Status(c, "Committed")
  /\ Forgets(c)
  /\ log' = Appended(Of(c))
  /\ acks' = acks \cup {<<Of(c), "committed">>}
  /\ Returns(c)
  /\ UNCHANGED <<coreVars, applied, components, buffered, slips>>

-----------------------------------------------------------------------------
(* rollback, which timeout_stale calls for one transaction after the other *)

Ends(c) ==
  IF call[c].op = "timeout" THEN call' = [call EXCEPT ![c].at = "next", ![c].tx = None]
  ELSE Returns(c)

RollbackStarts(c) ==
  /\ Locks(c, {"rollback", "timeout"})
  /\ IF tx[Of(c)].status \in {"Committed", "RolledBack"}
       THEN Ends(c) /\ UNCHANGED tx
       ELSE Status(c, "RollingBack") /\ Goes(c, "core rollback")
  /\ UNCHANGED <<active, write_set, log, coreVars, applied, components, history>>

\* MUTANT of RollbackCore: left to the end of the connection.
RollbackCoreLater(c) ==
  /\ At(c, "core rollback")
  /\ Goes(c, "core rolled back")
  /\ UNCHANGED <<txVars, coreVars, applied, components, history>>

\* do_rollback. ROLLBACK ends whatever transaction is open; an error is logged.
RollbackCore(c) ==
  /\ At(c, "core rollback")
  /\ Goes(c, "core rolled back")
  /\ \/ ~tx[Of(c)].core /\ UNCHANGED <<core_open, slips>>
     \/ tx[Of(c)].core /\ core_open # None /\ core_open' = None /\ UNCHANGED slips
     \/ /\ tx[Of(c)].core
        /\ slips' = slips \cup {"ROLLBACK failed"} /\ UNCHANGED core_open
  /\ UNCHANGED <<txVars, core_done, applied, components, acks, buffered>>

\* ROLLBACK has returned; the buffer is cleared and the snapshot taken out.
RollbackClears(c) ==
  /\ At(c, "core rolled back")
  /\ tx' = [tx EXCEPT ![Of(c)] = [@ EXCEPT !.core = FALSE, !.buffer = <<>>, !.snapshot = FALSE]]
  /\ Goes(c, IF tx[Of(c)].snapshot THEN "restore snapshot" ELSE "rolled back")
  /\ UNCHANGED <<active, write_set, log, coreVars, applied, components, history>>

\* An error ends rollback with the transaction in the maps, RollingBack; the
\* rollback of a commit goes on.
RestoreSnapshot(c) ==
  /\ At(c, "restore snapshot")
  /\ Goes(c, "rolled back") \/ (call[c].op # "commit" /\ Ends(c))
  /\ UNCHANGED <<txVars, coreVars, applied, components, history>>

RolledBack(c) ==
  /\ At(c, "rolled back")
  /\ Status(c, "RolledBack")
  /\ Forgets(c)
  /\ acks' = acks \cup {<<Of(c), IF call[c].op = "commit" THEN "failed" ELSE "rolled back">>}
  /\ Ends(c)
  /\ UNCHANGED <<log, coreVars, applied, components, buffered, slips>>

\* timeout_stale: which transactions are old is read once.
TimeoutScans(c) ==
  /\ At(c, "idle")
  /\ \E stale \in SUBSET (DOMAIN write_set) :
       call' = [call EXCEPT ![c].op = "timeout", ![c].at = "next", ![c].stale = stale]
  /\ UNCHANGED <<txVars, coreVars, applied, components, history>>

TimeoutNext(c) ==
  /\ At(c, "next")
  /\ \/ call[c].stale = {} /\ Returns(c)
     \/ \E t \in call[c].stale :
          call' = [call EXCEPT ![c].stale = @ \ {t},
                               ![c].tx = IF t \in active THEN t ELSE None,
                               ![c].at = IF t \in active THEN "lock" ELSE "next"]
  /\ UNCHANGED <<txVars, coreVars, applied, components, history>>

-----------------------------------------------------------------------------
Slip(c) == IF At(c, "snapshot") THEN "begin dropped" ELSE "dropped"

\* The future of a call is dropped where it waits. BOUND: one begin, one other
\* call that was at work.
Drop(c) ==
  /\ ~At(c, "idle") /\ Returns(c)
  /\ \/ call[c].at \in {"lock", "next"} /\ UNCHANGED slips
     \/ call[c].at \notin {"lock", "next"} /\ Slip(c) \notin slips /\ slips' = slips \cup {Slip(c)}
  /\ UNCHANGED <<txVars, coreVars, applied, components, acks, buffered>>

Next ==
  \/ \E c \in Call, t \in Tx :
       \/ BeginCore(c, t) \/ Calls(c, "commit", t, None) \/ Calls(c, "rollback", t, None)
       \/ \E key \in Key : Len(tx[t].buffer) < MaxWrites /\ Calls(c, "buffer", t, key)
  \/ \E c \in Call :
       \/ BeginRegisters(c) \/ Buffer(c)
       \/ CommitPrepares(c) \/ Upsert(c) \/ CommitCore(c) \/ CommitDropsSnapshot(c) \/ Committed(c)
       \/ RollbackStarts(c) \/ RollbackCore(c) \/ RollbackClears(c) \/ RestoreSnapshot(c)
       \/ RolledBack(c) \/ TimeoutScans(c) \/ TimeoutNext(c) \/ Drop(c)

Spec == Init /\ [][Next]_vars

-----------------------------------------------------------------------------
(* Properties *)

Open(t) == tx[t].status \in {"Active", "Committing", "RollingBack"}

\* Every variable has the type its declaration states.
TypeOK ==
  /\ \A t \in Tx :
       /\ \/ Open(t)
          \/ tx[t].status \in {"none", "beginning", "refused", "Committed", "RolledBack"}
       /\ tx[t].core \in BOOLEAN /\ tx[t].snapshot \in BOOLEAN
       /\ tx[t].buffer \in Seq(Key)
  /\ active \subseteq Tx /\ DOMAIN write_set \subseteq Tx
  /\ \A u \in DOMAIN write_set : write_set[u] \subseteq Key
  /\ log \in Seq(Tx) /\ Len(log) <= MaxLog
  /\ core_open \in Tx \cup {None} /\ core_done \subseteq Tx
  /\ applied \subseteq Tx \X Key
  /\ slips \subseteq {"begin dropped", "dropped", "ROLLBACK failed"}

NoDrop == slips \subseteq {"ROLLBACK failed"}

\* Unless a call was dropped, a transaction that was answered as committed is
\* committed in claw-core and has all its writes in claw-vector.
CommittedMeansAll ==
  \A t \in Tx : <<t, "committed">> \in acks /\ NoDrop =>
    /\ Has("core") => t \in core_done
    /\ Has("vector") => \A key \in buffered[t] : <<t, key>> \in applied

\* Unless a call was dropped, a transaction that rollback or timeout_stale ended
\* has left nothing; one whose commit failed has left nothing in claw-core, but
\* may have left the vectors that were applied before the failure.
RolledBackMeansNothing ==
  \A t \in Tx : NoDrop =>
    /\ <<t, "rolled back">> \in acks => t \notin core_done /\ \A key \in Key : <<t, key>> \notin applied
    /\ <<t, "failed">> \in acks => t \notin core_done

\* What the manager answered of a transaction is true of both stores.
OutcomesAreTrue == CommittedMeansAll /\ RolledBackMeansNothing

\* No transaction has two outcomes, whatever was dropped: calls that waited for
\* the mutex while another ended the transaction change nothing.
OneOutcome ==
  \A t \in Tx : Cardinality({answer \in {"committed", "failed", "rolled back"} : <<t, answer>> \in acks}) <= 1

\* Two transactions in phase 2 have no key in common, though each was compared
\* with the other before it started.
NoTwoWriters ==
  \A t, u \in active :
    t # u /\ tx[t].status = "Committing" /\ tx[u].status = "Committing" =>
      buffered[t] \cap buffered[u] = {}

\* A transaction that is open, or whose write set refuses the commits of others,
\* can be ended: it has a handle, and rollback takes it on, whatever failed or
\* was dropped in it before. What is over blocks nobody.
BlockersCanBeEnded ==
  \A t \in Tx : Open(t) \/ t \in DOMAIN write_set =>
    t \in active /\ tx[t].status \notin {"Committed", "RolledBack"}

\* A transaction that is open in claw-core is one the manager knows to be, though
\* a commit or rollback was dropped between two of its steps: it will be ended
\* there, and begin works again. What leaves one open for good is a begin that is
\* dropped, and a ROLLBACK that fails.
CoreIsReleased ==
  slips \subseteq {"dropped"} /\ core_open # None =>
    /\ tx[core_open].core
    /\ core_open \in active \/ \E c \in Call : call[c].op = "begin" /\ Of(c) = core_open

\* No transaction is left open in the manager or in claw-core that nobody can
\* end, and that keeps others from committing or from beginning for good.
OpenCanBeEnded == BlockersCanBeEnded /\ CoreIsReleased
=============================================================================
