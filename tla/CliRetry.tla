-------------------------------- MODULE CliRetry --------------------------------
(***************************************************************************)
(* Commands of clawdb-cli against clawdb-server over connections that      *)
(* break. A command is one HTTP request that ClawDBClient sends again, up  *)
(* to MaxRetries times, after a connection error or an answer of 500 and   *)
(* more (retry_json). An attempt is the pair <<command, how many before>>. *)
(* When the connection of an attempt breaks, its request may be lost, may  *)
(* have been served, or may still be on its way and be served at any later *)
(* time, even after the command has ended.                                 *)
(*                                                                         *)
(* The server's transactions are those of AtomicTx, which ServerTx is      *)
(* proved to implement, with the one thing that clients see and AtomicTx   *)
(* hides: between the removal of the entry from the map and the outcome,   *)
(* the transaction is not found by anyone else. A memory is identified     *)
(* with the attempt that staged or remembered it.                          *)
(***************************************************************************)
EXTENDS Naturals, FiniteSets

CONSTANTS Command,     \* commands that users run
          Tx,          \* transaction ids
          None,        \* no transaction
          MaxRetries   \* RETRY_DELAYS.len(), 3 in the code

ASSUME TxAssumption      == None \notin Tx
ASSUME RetriesAssumption == MaxRetries \in Nat

VARIABLES status, collected, stored,  \* the server's transactions
          taken,       \* commits and rollbacks that removed their entry
          remembered,  \* memories stored outside of transactions
          sent,        \* attempts whose request may still reach the server
          op, target,  \* what a command does, and to which transaction
          phase, attempt,  \* where the loop of retry_json is
          answer,      \* the answer on its way to the current attempt
          given,       \* the transaction id that answer carries
          told,        \* transactions whose id a user was told
          outcome      \* what the command told its user

serverVars == <<status, collected, stored, taken, remembered>>
askVars    == <<op, target>>
loopVars   == <<phase, attempt, outcome>>
heardVars  == <<answer, given, told>>
vars == <<serverVars, sent, askVars, loopVars, heardVars>>

Op      == {"begin", "stage", "commit", "rollback", "remember"}
Attempt == Command \X (0..MaxRetries)

Server == INSTANCE AtomicTx WITH Memory <- Attempt

\* Commands that ended before may have begun transactions.
Init ==
  /\ told \in SUBSET Tx
  /\ status = [t \in Tx |-> IF t \in told THEN "open" ELSE "unused"]
  /\ collected = [t \in Tx |-> {}] /\ stored = {}
  /\ taken = {} /\ remembered = {} /\ sent = {}
  /\ op = [c \in Command |-> "begin"]
  /\ target = [c \in Command |-> None]
  /\ phase = [c \in Command |-> "idle"]
  /\ attempt = [c \in Command |-> 0]
  /\ answer = [c \in Command |-> "none"]
  /\ given = [c \in Command |-> None]
  /\ outcome = [c \in Command |-> "none"]

-----------------------------------------------------------------------------
(* The command line *)

Current(c)   == <<c, attempt[c]>>
Listening(a) == phase[a[1]] = "waiting" /\ a = Current(a[1])

\* BOUND: a begin is only run while Tx has an id for it.
IdLeft == \E t \in Tx : status[t] = "unused"

Start(c) ==
  /\ phase[c] = "idle"
  /\ \E o \in Op, t \in told \cup {None} :
       /\ t = None <=> o \in {"begin", "remember"}
       /\ o = "begin" => IdLeft
       /\ op' = [op EXCEPT ![c] = o]
       /\ target' = [target EXCEPT ![c] = t]
  /\ sent' = sent \cup {Current(c)}
  /\ phase' = [phase EXCEPT ![c] = "waiting"]
  /\ UNCHANGED <<serverVars, attempt, outcome, heardVars>>

End(c, how) ==
  /\ phase' = [phase EXCEPT ![c] = "done"]
  /\ outcome' = [outcome EXCEPT ![c] = how]
  /\ UNCHANGED attempt

\* MUTANT of RetryOrGiveUp: one retry too many (attempt <= len).
RetryOnceMore(c) ==
  IF attempt[c] <= MaxRetries
    THEN /\ phase' = [phase EXCEPT ![c] = "backoff"]
         /\ attempt' = [attempt EXCEPT ![c] = @ + 1]
         /\ UNCHANGED outcome
    ELSE End(c, "failed")

\* The guard of the retry arm, `attempt < RETRY_DELAYS.len()`.
RetryOrGiveUp(c) ==
  IF attempt[c] < MaxRetries
    THEN /\ phase' = [phase EXCEPT ![c] = "backoff"]
         /\ attempt' = [attempt EXCEPT ![c] = @ + 1]
         /\ UNCHANGED outcome
    ELSE End(c, "failed")

\* MUTANT of Receive: a retry that finds nothing to do counts as done.
ReceiveGoneAsDone(c) ==
  /\ phase[c] = "waiting" /\ answer[c] # "none"
  /\ CASE answer[c] = "error" -> RetryOrGiveUp(c)
       [] answer[c] = "not_found" /\ attempt[c] > 0 -> End(c, "ok")
       [] OTHER -> End(c, answer[c])
  /\ told' = told \cup ({given[c]} \ {None})
  /\ answer' = [answer EXCEPT ![c] = "none"]
  /\ UNCHANGED <<serverVars, sent, askVars, given>>

\* send_and_parse returns: a 5xx is retried, everything else is told as it is.
Receive(c) ==
  /\ phase[c] = "waiting" /\ answer[c] # "none"
  /\ IF answer[c] = "error" THEN RetryOrGiveUp(c) ELSE End(c, answer[c])
  /\ told' = told \cup ({given[c]} \ {None})
  /\ answer' = [answer EXCEPT ![c] = "none"]
  /\ UNCHANGED <<serverVars, sent, askVars, given>>

\* The connection breaks; what was on its way to the client is lost.
ConnectionError(c) ==
  /\ phase[c] = "waiting"
  /\ RetryOrGiveUp(c)
  /\ answer' = [answer EXCEPT ![c] = "none"]
  /\ given' = [given EXCEPT ![c] = None]
  /\ UNCHANGED <<serverVars, sent, askVars, told>>

\* The delay is over: the same request is sent again.
Resend(c) ==
  /\ phase[c] = "backoff"
  /\ phase' = [phase EXCEPT ![c] = "waiting"]
  /\ sent' = sent \cup {Current(c)}
  /\ UNCHANGED <<serverVars, askVars, attempt, outcome, heardVars>>

\* The user interrupts the command.
Interrupt(c) ==
  /\ phase[c] \in {"waiting", "backoff"}
  /\ End(c, "interrupted")
  /\ answer' = [answer EXCEPT ![c] = "none"]
  /\ UNCHANGED <<serverVars, sent, askVars, given, told>>

Lose(a) ==
  /\ a \in sent
  /\ sent' = sent \ {a}
  /\ UNCHANGED <<serverVars, askVars, loopVars, heardVars>>

-----------------------------------------------------------------------------
(* The server, one request of the command line after the other *)

Reply(a, how) ==
  answer' = IF Listening(a) THEN [answer EXCEPT ![a[1]] = how] ELSE answer

\* The request arrives, for an operation of one of the kinds.
Served(a, kinds) ==
  /\ a \in sent /\ op[a[1]] \in kinds
  /\ sent' = sent \ {a}
  /\ UNCHANGED <<askVars, loopVars>>

\* What the map of open transactions holds.
InMap(t) == status[t] = "open" /\ \A a \in taken : target[a[1]] # t

ServeBegin(a) ==
  /\ Served(a, {"begin"})
  /\ \E t \in Tx :
       /\ Server!Begin(t)
       /\ given' = IF Listening(a) THEN [given EXCEPT ![a[1]] = t] ELSE given
  /\ Reply(a, "ok")
  /\ UNCHANGED <<taken, remembered, told>>

ServeStage(a) ==
  /\ Served(a, {"stage"})
  /\ InMap(target[a[1]])
  /\ Server!Collect(target[a[1]], a)
  /\ Reply(a, "ok")
  /\ UNCHANGED <<taken, remembered, given, told>>

\* commit_transaction and rollback_transaction remove the entry.
Take(a) ==
  /\ Served(a, {"commit", "rollback"})
  /\ InMap(target[a[1]])
  /\ taken' = taken \cup {a}
  /\ UNCHANGED <<status, collected, stored, remembered, heardVars>>

ServeNotFound(a) ==
  /\ Served(a, {"stage", "commit", "rollback"})
  /\ ~InMap(target[a[1]])
  /\ Reply(a, "not_found")
  /\ UNCHANGED <<serverVars, given, told>>

\* remember stores a new memory whoever asked for it before.
ServeRemember(a) ==
  /\ Served(a, {"remember"})
  /\ remembered' = remembered \cup {a}
  /\ Reply(a, "ok")
  /\ UNCHANGED <<status, collected, stored, taken, given, told>>

\* No valid session, or over the rate limit: any request. An error of the
\* engine before it stored anything: remember.
ServeRefused(a) ==
  /\ \/ Served(a, Op) /\ Reply(a, "refused")
     \/ Served(a, {"remember"}) /\ Reply(a, "error")
  /\ UNCHANGED <<serverVars, given, told>>

\* The handler that holds the transaction ends.
Decide(a) ==
  /\ a \in taken
  /\ taken' = taken \ {a}
  /\ UNCHANGED <<remembered, sent, askVars, loopVars, given, told>>

Commit(a) ==
  /\ Decide(a) /\ op[a[1]] = "commit"
  /\ Server!Commit(target[a[1]])
  /\ Reply(a, "ok")

Rollback(a) ==
  /\ Decide(a) /\ op[a[1]] = "rollback"
  /\ Server!Discard({target[a[1]]})
  /\ Reply(a, "ok")

\* The engine refuses the session or fails, or the handler is dropped with its
\* connection: the transaction is gone all the same.
Forget(a) ==
  /\ Decide(a)
  /\ Server!Discard({target[a[1]]})
  /\ Reply(a, "refused") \/ Reply(a, "error") \/ UNCHANGED answer

Restart ==
  /\ \E t \in Tx : status[t] = "open"
  /\ Server!Discard({t \in Tx : status[t] = "open"})
  /\ taken' = {}
  /\ UNCHANGED <<remembered, sent, askVars, loopVars, heardVars>>

-----------------------------------------------------------------------------
Loop(c) == Receive(c) \/ ConnectionError(c) \/ Resend(c)

Serve(a) ==
  \/ ServeBegin(a) \/ ServeStage(a) \/ Take(a) \/ ServeNotFound(a)
  \/ ServeRemember(a) \/ ServeRefused(a)
  \/ Commit(a) \/ Rollback(a) \/ Forget(a)

Next ==
  \/ \E c \in Command : Start(c) \/ Loop(c) \/ Interrupt(c)
  \/ \E a \in Attempt : Serve(a) \/ Lose(a)
  \/ Restart

Spec == Init /\ [][Next]_vars

-----------------------------------------------------------------------------
(* Properties *)

\* Every variable has the type its declaration states, the attempts of a
\* command are within RETRY_DELAYS.
TypeOK ==
  /\ Server!AtomicTypeOK
  /\ taken \subseteq Attempt /\ remembered \subseteq Attempt /\ sent \subseteq Attempt
  /\ op \in [Command -> Op]
  /\ target \in [Command -> Tx \cup {None}]
  /\ phase \in [Command -> {"idle", "waiting", "backoff", "done"}]
  /\ attempt \in [Command -> 0..MaxRetries]
  /\ answer \in [Command -> {"none", "ok", "not_found", "refused", "error"}]
  /\ given \in [Command -> Tx \cup {None}] /\ told \subseteq Tx
  /\ outcome \in [Command -> {"none", "ok", "not_found", "refused", "failed", "interrupted"}]

Copies(c) == {m \in stored \cup remembered : m[1] = c}

\* A user who was told "staged" and then "committed" has the memory, whatever
\* was retried, served late or crashed in between.
StagedAndCommittedIsStored ==
  \A s, c \in Command :
    /\ op[s] = "stage" /\ outcome[s] = "ok"
    /\ op[c] = "commit" /\ outcome[c] = "ok" /\ target[c] = target[s]
    => Copies(s) # {}

\* A user who was told "rolled back" finds nothing of the transaction stored,
\* even by a commit that was given up before.
RolledBackIsNotStored ==
  \A c, s \in Command :
    op[c] = "rollback" /\ outcome[c] = "ok" /\ op[s] = "stage" /\ target[s] = target[c]
      => Copies(s) = {}

\* What users were told of a transaction is what is stored of it.
ToldIsTrue == StagedAndCommittedIsStored /\ RolledBackIsNotStored

\* Once a commit or rollback of a transaction was told done, no late attempt
\* of any command changes what is stored of it.
Contents(t) == {m \in stored : target[m[1]] = t}
Settled(t) ==
  \E c \in Command : target[c] = t /\ op[c] \in {"commit", "rollback"} /\ outcome[c] = "ok"
SettledStays == \A t \in Tx : Settled(t) => Contents(t)' = Contents(t)
SettledIsFinal == [][SettledStays]_vars
=============================================================================
