----------------------------- MODULE CliRetryProofs -----------------------------
(***************************************************************************)
(* Safety theorems of CliRetry, for any commands, transactions and number  *)
(* of retries.                                                             *)
(***************************************************************************)
EXTENDS CliRetry, TLAPS

-----------------------------------------------------------------------------
(* The inductive invariant *)

\* The server's answer "ok" is on its way to the command, or was told.
Acked(c) == answer[c] = "ok" \/ outcome[c] = "ok"

Closes(c) == op[c] \in {"commit", "rollback"}

\* A command that was not started has asked for nothing and heard nothing.
Asked(c) ==
  /\ phase[c] = "idle" => answer[c] = "none" /\ outcome[c] = "none"
  /\ op[c] \in {"stage", "commit", "rollback"} => target[c] \in Tx

Started(A) == \A a \in A : phase[a[1]] # "idle"

\* Whatever the server has of a request comes from a command that was started.
AllStarted ==
  /\ Started(sent) /\ Started(taken) /\ Started(remembered) /\ Started(stored)
  /\ \A t \in Tx : Started(collected[t])
  /\ \A a \in taken : Closes(a[1])

\* What the server keeps was put there by an attempt that asked for it.
CollectedIsOpen ==
  \A t \in Tx : \A m \in collected[t] :
    status[t] = "open" /\ op[m[1]] = "stage" /\ target[m[1]] = t
StoredIsClosed ==
  \A m \in stored : op[m[1]] = "stage" /\ status[target[m[1]]] = "closed"
RememberedIsRemember == \A m \in remembered : op[m[1]] = "remember"

\* What an answer says of the transaction.
SettledIsClosed == \A c \in Command : Closes(c) /\ Acked(c) => status[target[c]] = "closed"
StagedIsCollected ==
  \A s \in Command : op[s] = "stage" /\ Acked(s) =>
    status[target[s]] = "closed" \/ \E m \in collected[target[s]] : m[1] = s
CommittedIsStored ==
  \A s, c \in Command :
    /\ op[s] = "stage" /\ Acked(s) /\ op[c] = "commit" /\ Acked(c) /\ target[c] = target[s]
    => \E m \in stored : m[1] = s
RolledBackIsGone ==
  \A c \in Command : op[c] = "rollback" /\ Acked(c) => \A m \in stored : target[m[1]] # target[c]

Kept == CollectedIsOpen /\ StoredIsClosed /\ RememberedIsRemember
Heard == SettledIsClosed /\ StagedIsCollected /\ CommittedIsStored /\ RolledBackIsGone
IInv == TypeOK /\ (\A c \in Command : Asked(c)) /\ AllStarted /\ Kept /\ Heard

LEMMA InitInvariant == Init => IInv
<1> SUFFICES ASSUME Init PROVE IInv
  OBVIOUS
<1>1. TypeOK
  BY RetriesAssumption DEF Init, TypeOK, Server!AtomicTypeOK, Op
<1>2. \A c \in Command : Asked(c) /\ ~Acked(c)
  BY DEF Init, Asked, Acked
<1>3. AllStarted /\ Kept
  BY DEF Init, AllStarted, Started, Kept, CollectedIsOpen, StoredIsClosed, RememberedIsRemember
<1> QED
  BY <1>1, <1>2, <1>3 DEF IInv, Heard, SettledIsClosed, StagedIsCollected, CommittedIsStored,
     RolledBackIsGone

-----------------------------------------------------------------------------
(* Types *)

\* Only Commit needs more than the types: its transaction is one of Tx.
LEMMA TypeStep == IInv /\ [Next]_vars => TypeOK'
<1> SUFFICES ASSUME TypeOK, \A c \in Command : Asked(c), [Next]_vars PROVE TypeOK'
  BY DEF IInv
<1> USE RetriesAssumption DEF TypeOK, Server!AtomicTypeOK, serverVars, askVars, loopVars, heardVars, Op
<1>1. ASSUME NEW c \in Command, Start(c) PROVE TypeOK'
  BY <1>1 DEF Start, Current, Attempt
<1>2. ASSUME NEW c \in Command, Receive(c) PROVE TypeOK'
  BY <1>2 DEF Receive, RetryOrGiveUp, End
<1>3. ASSUME NEW c \in Command, ConnectionError(c) PROVE TypeOK'
  BY <1>3 DEF ConnectionError, RetryOrGiveUp, End
<1>4. ASSUME NEW c \in Command, Resend(c) PROVE TypeOK'
  BY <1>4 DEF Resend, Current, Attempt
<1>5. ASSUME NEW c \in Command, Interrupt(c) PROVE TypeOK'
  BY <1>5 DEF Interrupt, End
<1>6. ASSUME NEW a \in Attempt, Lose(a) PROVE TypeOK'
  BY <1>6 DEF Lose
<1>7. ASSUME NEW a \in Attempt, Serve(a) PROVE TypeOK'
  <2>0. a[1] \in Command
    BY DEF Attempt
  <2> USE DEF Served, Reply, Decide
  <2>1. CASE ServeBegin(a)
    BY <2>0, <2>1 DEF ServeBegin, Server!Begin
  <2>2. CASE ServeStage(a)
    BY <2>0, <2>2 DEF ServeStage, Server!Collect
  <2>3. CASE Take(a) \/ ServeNotFound(a) \/ ServeRefused(a)
    BY <2>0, <2>3 DEF Take, ServeNotFound, ServeRefused
  <2>4. CASE ServeRemember(a)
    BY <2>0, <2>4 DEF ServeRemember
  <2>5. CASE Commit(a)
    BY <2>0, <2>5 DEF Commit, Server!Commit, Asked
  <2>6. CASE Rollback(a) \/ Forget(a)
    BY <2>0, <2>6 DEF Rollback, Forget, Server!Discard
  <2> QED
    BY <1>7, <2>1, <2>2, <2>3, <2>4, <2>5, <2>6 DEF Serve
<1>8. CASE Restart
  BY <1>8 DEF Restart, Server!Discard
<1>9. CASE UNCHANGED vars
  BY <1>9 DEF vars
<1> QED
  BY <1>1, <1>2, <1>3, <1>4, <1>5, <1>6, <1>7, <1>8, <1>9 DEF Next, Loop

-----------------------------------------------------------------------------
(* What was asked and started *)

\* A reply is heard only by a command that waits for it, and says "ok" only if
\* the server does.
LEMMA ReplyHeard ==
  ASSUME TypeOK, NEW a \in Attempt, NEW how, Reply(a, how), UNCHANGED loopVars,
         NEW c \in Command
  PROVE  /\ answer'[c] # answer[c] => c = a[1] /\ phase[c] = "waiting" /\ answer'[c] = how
         /\ Acked(c)' => Acked(c) \/ (c = a[1] /\ how = "ok")
<1>1. a[1] \in Command /\ outcome' = outcome /\ answer \in [Command -> {"none", "ok", "not_found", "refused", "error"}]
  BY DEF Attempt, loopVars, TypeOK
<1>2. CASE Listening(a)
  <2>1. phase[a[1]] = "waiting" /\ answer' = [answer EXCEPT ![a[1]] = how]
    BY <1>2 DEF Listening, Reply
  <2>2. answer'[c] = IF c = a[1] THEN how ELSE answer[c]
    BY <1>1, <2>1
  <2> QED
    BY <1>1, <2>1, <2>2 DEF Acked
<1>3. CASE ~Listening(a)
  <2>1. answer' = answer
    BY <1>3 DEF Reply
  <2> QED
    BY <1>1, <2>1 DEF Acked
<1> QED
  BY <1>2, <1>3

LEMMA AskedStep == IInv /\ [Next]_vars => \A c \in Command : Asked(c)'
<1> SUFFICES ASSUME IInv, [Next]_vars, NEW d \in Command PROVE Asked(d)'
  OBVIOUS
<1>0. TypeOK /\ Asked(d)
  BY DEF IInv
<1> USE <1>0 DEF Asked, loopVars, heardVars, askVars
<1>1. ASSUME NEW c \in Command, Start(c) PROVE Asked(d)'
  BY <1>1 DEF Start, TypeOK
<1>2. ASSUME NEW c \in Command, Loop(c) \/ Interrupt(c) PROVE Asked(d)'
  BY <1>2 DEF Loop, Receive, ConnectionError, Resend, Interrupt, RetryOrGiveUp, End, TypeOK
<1>3. ASSUME NEW a \in Attempt, Serve(a) PROVE Asked(d)'
  <2>1. UNCHANGED <<askVars, loopVars>>
    BY <1>3 DEF Serve, ServeBegin, ServeStage, Take, ServeNotFound, ServeRemember, ServeRefused,
       Commit, Rollback, Forget, Served, Decide
  <2>2. UNCHANGED answer \/ \E how : Reply(a, how)
    BY <1>3 DEF Serve, ServeBegin, ServeStage, Take, ServeNotFound, ServeRemember, ServeRefused,
       Commit, Rollback, Forget
  <2> QED
    BY <2>1, <2>2, ReplyHeard
<1>4. CASE Restart \/ UNCHANGED vars \/ \E a \in Attempt : Lose(a)
  BY <1>4 DEF Restart, vars, Lose
<1> QED
  BY <1>1, <1>2, <1>3, <1>4 DEF Next

LEMMA StartedStep == IInv /\ [Next]_vars => AllStarted'
<1> SUFFICES ASSUME IInv, [Next]_vars PROVE AllStarted'
  OBVIOUS
<1>0. TypeOK /\ AllStarted /\ (\A c \in Command : Asked(c)) /\ TypeOK'
  BY TypeStep DEF IInv
<1> USE <1>0 DEF AllStarted, Started, Closes, Attempt, serverVars, loopVars, askVars, heardVars
<1>1. ASSUME NEW c \in Command, Start(c) PROVE AllStarted'
  BY <1>1 DEF Start, Current, TypeOK, Server!AtomicTypeOK
<1>2. ASSUME NEW c \in Command, Loop(c) \/ Interrupt(c) PROVE AllStarted'
  BY <1>2 DEF Loop, Receive, ConnectionError, Resend, Interrupt, RetryOrGiveUp, End, Current,
     TypeOK, Server!AtomicTypeOK
<1>3. ASSUME NEW a \in Attempt, Serve(a) PROVE AllStarted'
  <2>1. CASE ServeBegin(a) \/ Take(a) \/ ServeNotFound(a) \/ ServeRemember(a) \/ ServeRefused(a)
    BY <2>1 DEF ServeBegin, Take, ServeNotFound, ServeRemember, ServeRefused, Served, Server!Begin
  <2>2. CASE ServeStage(a)
    BY <2>2 DEF ServeStage, Served, Server!Collect, TypeOK, Server!AtomicTypeOK
  <2>3. CASE Commit(a)
    BY <2>3 DEF Commit, Decide, Server!Commit, TypeOK, Server!AtomicTypeOK, Asked
  <2>4. CASE Rollback(a) \/ Forget(a)
    BY <2>4 DEF Rollback, Forget, Decide, Server!Discard
  <2> QED
    BY <1>3, <2>1, <2>2, <2>3, <2>4 DEF Serve
<1>4. CASE Restart \/ UNCHANGED vars \/ \E a \in Attempt : Lose(a)
  BY <1>4 DEF Restart, vars, Lose, Server!Discard
<1> QED
  BY <1>1, <1>2, <1>3, <1>4 DEF Next

-----------------------------------------------------------------------------
(* What the server keeps, and what an answer says of it *)

\* A step after which the server keeps what it kept, the transactions it had
\* open may be taken, and no user has heard more of a transaction.
Calm ==
  /\ UNCHANGED <<status, collected, stored, remembered, askVars>>
  /\ \A c \in Command : Acked(c)' => Acked(c)

LEMMA CalmStep == IInv /\ Calm => Kept' /\ Heard'
<1> SUFFICES ASSUME IInv, Calm PROVE Kept' /\ Heard'
  OBVIOUS
<1>1. op' = op /\ target' = target /\ status' = status /\ collected' = collected
      /\ stored' = stored /\ remembered' = remembered
  BY DEF Calm, askVars
<1>2. Kept'
  BY <1>1 DEF IInv, Kept, CollectedIsOpen, StoredIsClosed, RememberedIsRemember
<1>3. SettledIsClosed' /\ RolledBackIsGone'
  BY <1>1 DEF IInv, Calm, Heard, SettledIsClosed, RolledBackIsGone, Closes
<1>4. StagedIsCollected'
  BY <1>1 DEF IInv, Calm, Heard, StagedIsCollected
<1>5. CommittedIsStored'
  BY <1>1 DEF IInv, Calm, Heard, CommittedIsStored
<1> QED
  BY <1>2, <1>3, <1>4, <1>5 DEF Heard

LEMMA ClientIsCalm ==
  ASSUME IInv, NEW c \in Command, Loop(c) \/ Interrupt(c) PROVE Calm
<1>1. TypeOK
  BY DEF IInv
<1>2. UNCHANGED <<serverVars, askVars>>
  BY DEF Loop, Receive, ConnectionError, Resend, Interrupt
<1>3. ASSUME NEW d \in Command, Acked(d)' PROVE Acked(d)
  BY <1>1, <1>3 DEF Loop, Receive, ConnectionError, Resend, Interrupt, RetryOrGiveUp, End,
     heardVars, TypeOK, Acked
<1> QED
  BY <1>2, <1>3 DEF Calm, serverVars

LEMMA UnservedIsCalm ==
  ASSUME IInv, NEW a \in Attempt, Take(a) \/ ServeNotFound(a) \/ ServeRefused(a) \/ Lose(a)
  PROVE  Calm
<1>1. TypeOK
  BY DEF IInv
<1>2. UNCHANGED <<status, collected, stored, remembered, askVars, loopVars>>
  BY DEF Take, ServeNotFound, ServeRefused, Lose, Served, serverVars
<1>3. answer' = answer \/ \E how \in {"not_found", "refused", "error"} : Reply(a, how)
  BY DEF Take, ServeNotFound, ServeRefused, Lose, heardVars
<1>4. ASSUME NEW d \in Command, Acked(d)' PROVE Acked(d)
  <2>1. CASE answer' = answer
    BY <1>2, <1>4, <2>1 DEF Acked, loopVars
  <2>2. ASSUME NEW how \in {"not_found", "refused", "error"}, Reply(a, how) PROVE Acked(d)
    BY <1>1, <1>2, <1>4, <2>2, ReplyHeard
  <2> QED
    BY <1>3, <2>1, <2>2
<1> QED
  BY <1>2, <1>4 DEF Calm

\* A command that starts has heard nothing, and nothing is kept of it.
LEMMA StartStep == ASSUME IInv, NEW c \in Command, Start(c) PROVE Kept' /\ Heard'
<1>1. /\ status' = status /\ collected' = collected /\ stored' = stored
      /\ remembered' = remembered /\ answer' = answer /\ outcome' = outcome
      /\ phase[c] = "idle"
  BY DEF Start, serverVars, heardVars
<1>2. \A d \in Command : d # c => op'[d] = op[d] /\ target'[d] = target[d]
  BY DEF IInv, TypeOK, Start
<1>3. ~Acked(c)
  BY <1>1 DEF IInv, Asked, Acked
<1>4. \A d \in Command : Acked(d)' => Acked(d) /\ op'[d] = op[d] /\ target'[d] = target[d]
  BY <1>1, <1>2, <1>3 DEF Acked
<1>5. Kept'
  <2>1. \A m \in stored \cup remembered \cup UNION {collected[t] : t \in Tx} :
          op'[m[1]] = op[m[1]] /\ target'[m[1]] = target[m[1]]
    BY <1>1, <1>2 DEF IInv, AllStarted, Started, TypeOK, Server!AtomicTypeOK, Attempt
  <2> QED
    BY <1>1, <2>1 DEF IInv, Kept, CollectedIsOpen, StoredIsClosed, RememberedIsRemember
<1>6. SettledIsClosed'
  BY <1>1, <1>4 DEF IInv, Heard, SettledIsClosed, Closes
<1>7. StagedIsCollected'
  BY <1>1, <1>4 DEF IInv, Heard, StagedIsCollected
<1>8. CommittedIsStored'
  BY <1>1, <1>4 DEF IInv, Heard, CommittedIsStored
<1>9. RolledBackIsGone'
  <2>1. \A m \in stored : m[1] # c /\ m[1] \in Command
    BY <1>1 DEF IInv, AllStarted, Started, TypeOK, Server!AtomicTypeOK, Attempt
  <2> QED
    BY <1>1, <1>2, <1>4, <2>1 DEF IInv, Heard, RolledBackIsGone
<1> QED
  BY <1>5, <1>6, <1>7, <1>8, <1>9 DEF Heard

-----------------------------------------------------------------------------
(* The server's steps *)

LEMMA ServeBeginStep == ASSUME IInv, NEW a \in Attempt, ServeBegin(a) PROVE Kept' /\ Heard'
<1>0. TypeOK
  BY DEF IInv
<1>1. /\ collected' = collected /\ stored' = stored /\ remembered' = remembered
      /\ op' = op /\ target' = target /\ UNCHANGED loopVars
      /\ op[a[1]] = "begin" /\ Reply(a, "ok")
  BY DEF ServeBegin, Served, Server!Begin, askVars
<1>2. \A t \in Tx : status[t] \in {"open", "closed"} => status'[t] = status[t]
  BY <1>0 DEF ServeBegin, Server!Begin, TypeOK, Server!AtomicTypeOK
<1>3. \A c \in Command : Acked(c)' => Acked(c) \/ op[c] = "begin"
  BY <1>0, <1>1, ReplyHeard
<1>4. \A c \in Command : op[c] \in {"stage", "commit", "rollback"} => target[c] \in Tx
  BY DEF IInv, Asked
<1>5. Kept'
  <2>1. CollectedIsOpen' /\ RememberedIsRemember'
    BY <1>1, <1>2 DEF IInv, Kept, CollectedIsOpen, RememberedIsRemember
  <2>2. \A m \in stored : m[1] \in Command
    BY <1>0 DEF TypeOK, Server!AtomicTypeOK, Attempt
  <2>3. StoredIsClosed'
    BY <1>1, <1>2, <1>4, <2>2 DEF IInv, Kept, StoredIsClosed
  <2> QED
    BY <2>1, <2>3 DEF Kept
<1>6. SettledIsClosed'
  BY <1>1, <1>2, <1>3, <1>4 DEF IInv, Heard, SettledIsClosed, Closes
<1>7. StagedIsCollected'
  BY <1>1, <1>2, <1>3, <1>4 DEF IInv, Heard, StagedIsCollected
<1>8. CommittedIsStored' /\ RolledBackIsGone'
  BY <1>1, <1>3 DEF IInv, Heard, CommittedIsStored, RolledBackIsGone
<1> QED
  BY <1>5, <1>6, <1>7, <1>8 DEF Heard

\* A stage finds its transaction open, so nobody was told that it is settled.
LEMMA ServeStageStep == ASSUME IInv, NEW a \in Attempt, ServeStage(a) PROVE Kept' /\ Heard'
<1> DEFINE t == target[a[1]]
<1>0. TypeOK
  BY DEF IInv
<1>1. /\ status' = status /\ stored' = stored /\ remembered' = remembered
      /\ op' = op /\ target' = target /\ UNCHANGED loopVars
      /\ op[a[1]] = "stage" /\ Reply(a, "ok") /\ status[t] = "open"
  BY DEF ServeStage, Served, Server!Collect, askVars
<1>2. a[1] \in Command /\ t \in Tx
  BY <1>1 DEF IInv, Asked, Attempt
<1>3. collected' = [collected EXCEPT ![t] = @ \cup {a}]
  BY DEF ServeStage, Server!Collect
<1>4. \A u \in Tx : collected'[u] = IF u = t THEN collected[u] \cup {a} ELSE collected[u]
  BY <1>0, <1>2, <1>3 DEF TypeOK, Server!AtomicTypeOK
<1>5. \A c \in Command : Acked(c)' => Acked(c) \/ c = a[1]
  BY <1>0, <1>1, ReplyHeard
<1>6. Kept'
  <2>1. CollectedIsOpen'
    <3> SUFFICES ASSUME NEW u \in Tx, NEW m \in collected'[u]
                 PROVE  status[u] = "open" /\ op[m[1]] = "stage" /\ target[m[1]] = u
      BY <1>1 DEF CollectedIsOpen
    <3>1. m \in collected[u] \/ (u = t /\ m = a)
      BY <1>4
    <3> QED
      BY <1>1, <3>1 DEF IInv, Kept, CollectedIsOpen
  <2>2. StoredIsClosed' /\ RememberedIsRemember'
    BY <1>1 DEF IInv, Kept, StoredIsClosed, RememberedIsRemember
  <2> QED
    BY <2>1, <2>2 DEF Kept
<1>7. SettledIsClosed' /\ RolledBackIsGone'
  BY <1>1, <1>5 DEF IInv, Heard, SettledIsClosed, RolledBackIsGone, Closes
<1>8. StagedIsCollected'
  <2> SUFFICES ASSUME NEW s \in Command, op[s] = "stage", Acked(s)', status[target[s]] # "closed"
               PROVE  \E m \in collected'[target[s]] : m[1] = s
    BY <1>1 DEF StagedIsCollected
  <2>1. target[s] \in Tx
    BY DEF IInv, Asked
  <2>2. CASE s = a[1]
    BY <1>2, <1>4, <2>2
  <2>3. CASE Acked(s)
    BY <1>4, <2>1, <2>3 DEF IInv, Heard, StagedIsCollected
  <2> QED
    BY <1>5, <2>2, <2>3
<1>9. CommittedIsStored'
  <2> SUFFICES ASSUME NEW s \in Command, NEW c \in Command,
                      op[s] = "stage", Acked(s)', op[c] = "commit", Acked(c)', target[c] = target[s]
               PROVE  \E m \in stored : m[1] = s
    BY <1>1 DEF CommittedIsStored
  <2>1. Acked(c)
    BY <1>1, <1>5
  <2>2. status[target[c]] = "closed"
    BY <2>1 DEF IInv, Heard, SettledIsClosed, Closes
  <2>3. Acked(s)
    BY <1>1, <1>5, <2>2
  <2> QED
    BY <2>1, <2>3 DEF IInv, Heard, CommittedIsStored
<1> QED
  BY <1>6, <1>7, <1>8, <1>9 DEF Heard

LEMMA ServeRememberStep == ASSUME IInv, NEW a \in Attempt, ServeRemember(a) PROVE Kept' /\ Heard'
<1>0. TypeOK
  BY DEF IInv
<1>1. /\ status' = status /\ collected' = collected /\ stored' = stored
      /\ remembered' = remembered \cup {a} /\ op' = op /\ target' = target
      /\ UNCHANGED loopVars /\ op[a[1]] = "remember" /\ Reply(a, "ok")
  BY DEF ServeRemember, Served, askVars
<1>2. \A c \in Command : Acked(c)' => Acked(c) \/ op[c] = "remember"
  BY <1>0, <1>1, ReplyHeard
<1>3. Kept'
  BY <1>1 DEF IInv, Kept, CollectedIsOpen, StoredIsClosed, RememberedIsRemember
<1>4. SettledIsClosed' /\ RolledBackIsGone'
  BY <1>1, <1>2 DEF IInv, Heard, SettledIsClosed, RolledBackIsGone, Closes
<1>5. StagedIsCollected' /\ CommittedIsStored'
  BY <1>1, <1>2 DEF IInv, Heard, StagedIsCollected, CommittedIsStored
<1> QED
  BY <1>3, <1>4, <1>5 DEF Heard

\* A commit stores what was collected, and nobody was told "rolled back" of a
\* transaction that is still open.
LEMMA CommitStep == ASSUME IInv, NEW a \in Attempt, Commit(a) PROVE Kept' /\ Heard'
<1> DEFINE t == target[a[1]]
<1>0. TypeOK
  BY DEF IInv
<1>1. /\ remembered' = remembered /\ op' = op /\ target' = target /\ UNCHANGED loopVars
      /\ op[a[1]] = "commit" /\ Reply(a, "ok") /\ status[t] = "open"
      /\ stored' = stored \cup collected[t]
  BY DEF Commit, Decide, Server!Commit, askVars
<1>2. a[1] \in Command /\ t \in Tx
  BY <1>1 DEF IInv, Asked, Attempt
<1>3. \A u \in Tx : /\ status'[u] = IF u = t THEN "closed" ELSE status[u]
                    /\ collected'[u] = IF u = t THEN {} ELSE collected[u]
  BY <1>0, <1>2 DEF Commit, Server!Commit, TypeOK, Server!AtomicTypeOK
<1>4. \A c \in Command : Acked(c)' => Acked(c) \/ c = a[1]
  BY <1>0, <1>1, ReplyHeard
<1>5. \A c \in Command : op[c] \in {"stage", "commit", "rollback"} => target[c] \in Tx
  BY DEF IInv, Asked
<1>6. \A m \in collected[t] : op[m[1]] = "stage" /\ target[m[1]] = t
  BY <1>2 DEF IInv, Kept, CollectedIsOpen
<1>7. Kept'
  <2>1. CollectedIsOpen' /\ RememberedIsRemember'
    BY <1>1, <1>3 DEF IInv, Kept, CollectedIsOpen, RememberedIsRemember
  <2>2. StoredIsClosed'
    <3>1. \A m \in stored : m[1] \in Command /\ target[m[1]] \in Tx
      BY <1>0, <1>5 DEF IInv, Kept, StoredIsClosed, TypeOK, Server!AtomicTypeOK, Attempt
    <3> QED
      BY <1>1, <1>2, <1>3, <1>6, <3>1 DEF IInv, Kept, StoredIsClosed
  <2> QED
    BY <2>1, <2>2 DEF Kept
<1>8. SettledIsClosed'
  BY <1>1, <1>2, <1>3, <1>4, <1>5 DEF IInv, Heard, SettledIsClosed, Closes
<1>9. StagedIsCollected'
  BY <1>1, <1>2, <1>3, <1>4, <1>5 DEF IInv, Heard, StagedIsCollected
<1>10. CommittedIsStored'
  <2> SUFFICES ASSUME NEW s \in Command, NEW c \in Command,
                      op[s] = "stage", Acked(s)', op[c] = "commit", Acked(c)', target[c] = target[s]
               PROVE  \E m \in stored' : m[1] = s
    BY <1>1 DEF CommittedIsStored
  <2>1. Acked(s)
    BY <1>1, <1>4
  <2>2. CASE Acked(c)
    BY <1>1, <2>1, <2>2 DEF IInv, Heard, CommittedIsStored
  <2>3. CASE c = a[1]
    BY <1>1, <2>1, <2>3 DEF IInv, Heard, StagedIsCollected
  <2> QED
    BY <1>4, <2>2, <2>3
<1>11. RolledBackIsGone'
  <2> SUFFICES ASSUME NEW c \in Command, op[c] = "rollback", Acked(c)', NEW m \in stored'
               PROVE  target[m[1]] # target[c]
    BY <1>1 DEF RolledBackIsGone
  <2>1. Acked(c)
    BY <1>1, <1>4
  <2>2. target[c] # t
    BY <1>1, <2>1 DEF IInv, Heard, SettledIsClosed, Closes
  <2> QED
    BY <1>1, <1>6, <2>1, <2>2 DEF IInv, Heard, RolledBackIsGone
<1> QED
  BY <1>7, <1>8, <1>9, <1>10, <1>11 DEF Heard

\* Transactions that end without a commit: what was rolled back was open, so
\* nothing of it is stored.
LEMMA DiscardStep ==
  ASSUME IInv, NEW T \in SUBSET Tx, Server!Discard(T), UNCHANGED <<remembered, askVars>>,
         \A c \in Command : Acked(c)' => Acked(c) \/ (op[c] = "rollback" /\ target[c] \in T)
  PROVE  Kept' /\ Heard'
<1>0. TypeOK
  BY DEF IInv
<1>1. /\ stored' = stored /\ remembered' = remembered /\ op' = op /\ target' = target
      /\ \A t \in T : status[t] = "open"
  BY DEF Server!Discard, askVars
<1>2. \A t \in Tx : /\ status'[t] = IF t \in T THEN "closed" ELSE status[t]
                    /\ collected'[t] = IF t \in T THEN {} ELSE collected[t]
  BY DEF Server!Discard
<1>3. \A c \in Command : op[c] \in {"stage", "commit", "rollback"} => target[c] \in Tx
  BY DEF IInv, Asked
<1>4. \A m \in stored : m[1] \in Command
  BY <1>0 DEF TypeOK, Server!AtomicTypeOK, Attempt
<1>5. Kept'
  <2>1. CollectedIsOpen'
    BY <1>1, <1>2 DEF IInv, Kept, CollectedIsOpen
  <2>2. StoredIsClosed' /\ RememberedIsRemember'
    BY <1>1, <1>2, <1>3, <1>4 DEF IInv, Kept, StoredIsClosed, RememberedIsRemember
  <2> QED
    BY <2>1, <2>2 DEF Kept
<1>6. SettledIsClosed'
  BY <1>1, <1>2, <1>3 DEF IInv, Heard, SettledIsClosed, Closes
<1>7. StagedIsCollected'
  BY <1>1, <1>2, <1>3 DEF IInv, Heard, StagedIsCollected
<1>8. CommittedIsStored'
  BY <1>1 DEF IInv, Heard, CommittedIsStored
<1>9. RolledBackIsGone'
  BY <1>1 DEF IInv, Heard, RolledBackIsGone, Kept, StoredIsClosed
<1> QED
  BY <1>5, <1>6, <1>7, <1>8, <1>9 DEF Heard

LEMMA TakenIsDiscarded ==
  ASSUME IInv, NEW a \in Attempt, Rollback(a) \/ Forget(a) PROVE Kept' /\ Heard'
<1>0. TypeOK /\ a[1] \in Command
  BY DEF IInv, Attempt
<1> DEFINE t == target[a[1]]
<1>1. Server!Discard({t}) /\ UNCHANGED <<remembered, askVars, loopVars>>
  BY DEF Rollback, Forget, Decide
<1>2. t \in Tx
  <2>1. a \in taken
    BY DEF Rollback, Forget, Decide
  <2>2. op[a[1]] \in {"commit", "rollback"}
    BY <2>1 DEF IInv, AllStarted, Closes
  <2> QED
    BY <1>0, <2>2 DEF IInv, Asked
<1>3. \A c \in Command : Acked(c)' => Acked(c) \/ (op[c] = "rollback" /\ c = a[1])
  <2>1. CASE Rollback(a)
    BY <1>0, <1>1, <2>1, ReplyHeard DEF Rollback
  <2>2. CASE answer' = answer
    BY <1>1, <2>2 DEF Acked, loopVars
  <2>3. ASSUME NEW how \in {"refused", "error"}, Reply(a, how)
        PROVE  \A c \in Command : Acked(c)' => Acked(c)
    BY <1>0, <1>1, <2>3, ReplyHeard
  <2> QED
    BY <2>1, <2>2, <2>3 DEF Forget
<1> QED
  BY <1>1, <1>2, <1>3, DiscardStep

LEMMA RestartStep == ASSUME IInv, Restart PROVE Kept' /\ Heard'
<1> DEFINE T == {t \in Tx : status[t] = "open"}
<1>1. Server!Discard(T) /\ UNCHANGED <<remembered, askVars, loopVars, heardVars>>
  BY DEF Restart
<1>2. \A c \in Command : Acked(c)' => Acked(c)
  BY <1>1 DEF Acked, loopVars, heardVars
<1> QED
  BY <1>1, <1>2, DiscardStep

-----------------------------------------------------------------------------
(* The theorems *)

LEMMA InductiveStep == IInv /\ [Next]_vars => IInv'
<1> SUFFICES ASSUME IInv, [Next]_vars PROVE IInv'
  OBVIOUS
<1>1. Kept' /\ Heard'
  <2>1. ASSUME NEW c \in Command, Start(c) PROVE Kept' /\ Heard'
    BY <2>1, StartStep
  <2>2. ASSUME NEW c \in Command, Loop(c) \/ Interrupt(c) PROVE Kept' /\ Heard'
    BY <2>2, ClientIsCalm, CalmStep
  <2>3. ASSUME NEW a \in Attempt, Take(a) \/ ServeNotFound(a) \/ ServeRefused(a) \/ Lose(a)
        PROVE  Kept' /\ Heard'
    BY <2>3, UnservedIsCalm, CalmStep
  <2>4. ASSUME NEW a \in Attempt, ServeBegin(a) \/ ServeStage(a) \/ ServeRemember(a)
        PROVE  Kept' /\ Heard'
    BY <2>4, ServeBeginStep, ServeStageStep, ServeRememberStep
  <2>5. ASSUME NEW a \in Attempt, Commit(a) \/ Rollback(a) \/ Forget(a) PROVE Kept' /\ Heard'
    BY <2>5, CommitStep, TakenIsDiscarded
  <2>6. CASE Restart
    BY <2>6, RestartStep
  <2>7. CASE UNCHANGED vars
    <3>1. Calm
      BY <2>7 DEF Calm, vars, serverVars, askVars, loopVars, heardVars, Acked
    <3> QED
      BY <3>1, CalmStep
  <2> QED
    BY <2>1, <2>2, <2>3, <2>4, <2>5, <2>6, <2>7 DEF Next, Serve
<1>2. TypeOK' /\ AllStarted' /\ (\A c \in Command : Asked(c))'
  BY TypeStep, StartedStep, AskedStep
<1> QED
  BY <1>1, <1>2 DEF IInv

\* The inductive invariant: what the server keeps was put there by attempts
\* that asked for it, and what a command heard of a transaction is settled.
THEOREM Invariance == Spec => []IInv
  BY InitInvariant, InductiveStep, PTL DEF Spec

\* The variables keep their types; retry_json sends a request at most once and
\* MaxRetries times more.
THEOREM TypeCorrect == Spec => []TypeOK
<1>1. IInv => TypeOK
  BY DEF IInv
<1> QED
  BY <1>1, Invariance, PTL

\* "Staged" and "committed" mean stored, "rolled back" means that nothing is,
\* whatever retry_json sent again and the server served late or twice.
THEOREM ToldIsTrueHolds == Spec => []ToldIsTrue
<1>1. ASSUME IInv PROVE ToldIsTrue
  <2>1. StagedAndCommittedIsStored
    BY <1>1 DEF IInv, Heard, CommittedIsStored, StagedAndCommittedIsStored, Acked, Copies
  <2>2. RolledBackIsNotStored
    BY <1>1 DEF IInv, Heard, RolledBackIsGone, RolledBackIsNotStored, Acked, Copies, Kept,
       RememberedIsRemember
  <2> QED
    BY <2>1, <2>2 DEF ToldIsTrue
<1> QED
  BY <1>1, Invariance, PTL

\* After a commit or rollback was told done, what is stored of the transaction
\* does not change, in any step.
THEOREM SettledIsFinalHolds == Spec => SettledIsFinal
<1>1. ASSUME IInv, [Next]_vars PROVE [SettledStays]_vars
  <2> SUFFICES ASSUME NEW t \in Tx, Settled(t) PROVE Contents(t)' = Contents(t)
    BY DEF SettledStays
  <2>1. status[t] = "closed"
    BY <1>1 DEF Settled, IInv, Heard, SettledIsClosed, Closes, Acked
  <2>2. \A m \in stored : m[1] \in Command /\ phase[m[1]] # "idle"
    BY <1>1 DEF IInv, TypeOK, Server!AtomicTypeOK, Attempt, AllStarted, Started
  <2>3. ASSUME NEW c \in Command, Start(c) PROVE Contents(t)' = Contents(t)
    BY <1>1, <2>2, <2>3 DEF Start, Contents, serverVars, IInv, TypeOK
  <2>4. ASSUME NEW a \in Attempt, Commit(a) PROVE Contents(t)' = Contents(t)
    <3>1. a[1] \in Command /\ target[a[1]] \in Tx /\ target[a[1]] # t
      BY <1>1, <2>1, <2>4 DEF Commit, Server!Commit, Attempt, IInv, Asked
    <3>2. \A m \in collected[target[a[1]]] : target[m[1]] # t
      BY <1>1, <3>1 DEF IInv, Kept, CollectedIsOpen
    <3> QED
      BY <2>4, <3>2 DEF Commit, Decide, Server!Commit, Contents, askVars
  <2>5. CASE UNCHANGED <<stored, target>>
    BY <2>5 DEF Contents
  <2>6. (\E c \in Command : Start(c)) \/ (\E a \in Attempt : Commit(a)) \/ UNCHANGED <<stored, target>>
    BY <1>1 DEF Next, Loop, Serve, Receive, ConnectionError, Resend, Interrupt, ServeBegin, ServeStage,
       Take, ServeNotFound, ServeRemember, ServeRefused, Rollback, Forget, Restart, Lose, Served, Decide,
       Server!Begin, Server!Collect, Server!Discard, vars, serverVars, askVars
  <2> QED
    BY <2>3, <2>4, <2>5, <2>6
<1> QED
  BY <1>1, Invariance, PTL DEF Spec, SettledIsFinal
=============================================================================
