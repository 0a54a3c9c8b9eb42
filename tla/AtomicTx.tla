------------------------------- MODULE AtomicTx -------------------------------
(***************************************************************************)
(* What the transaction API of clawdb promises, with no server in sight: a *)
(* transaction is opened once, collects memories while it is open, and is  *)
(* closed once, by storing all the memories it collected in one step or by *)
(* storing none of them. Nothing is stored or withdrawn in any other way.  *)
(***************************************************************************)
CONSTANTS Tx, Memory

VARIABLES status,     \* of each transaction
          collected,  \* memories of each open transaction
          stored      \* memories that are durable

atomicVars == <<status, collected, stored>>

AtomicTypeOK ==
  /\ status \in [Tx -> {"unused", "open", "closed"}]
  /\ collected \in [Tx -> SUBSET Memory]
  /\ stored \subseteq Memory

Init ==
  /\ status = [t \in Tx |-> "unused"]
  /\ collected = [t \in Tx |-> {}]
  /\ stored = {}

Begin(t) ==
  /\ status[t] = "unused"
  /\ status' = [status EXCEPT ![t] = "open"]
  /\ UNCHANGED <<collected, stored>>

Collect(t, m) ==
  /\ status[t] = "open"
  /\ m \notin stored /\ \A u \in Tx : m \notin collected[u]
  /\ collected' = [collected EXCEPT ![t] = @ \cup {m}]
  /\ UNCHANGED <<status, stored>>

Commit(t) ==
  /\ status[t] = "open"
  /\ status' = [status EXCEPT ![t] = "closed"]
  /\ collected' = [collected EXCEPT ![t] = {}]
  /\ stored' = stored \cup collected[t]

\* One transaction is rolled back, or a crash loses every one that was open.
Discard(T) ==
  /\ \A t \in T : status[t] = "open"
  /\ status' = [t \in Tx |-> IF t \in T THEN "closed" ELSE status[t]]
  /\ collected' = [t \in Tx |-> IF t \in T THEN {} ELSE collected[t]]
  /\ UNCHANGED stored

Next ==
  \/ \E t \in Tx : Begin(t) \/ Commit(t) \/ \E m \in Memory : Collect(t, m)
  \/ \E T \in SUBSET Tx : Discard(T)

Spec == Init /\ [][Next]_atomicVars
=============================================================================
