------------------------------ MODULE ServerTxInv ------------------------------
(***************************************************************************)
(* The inductive invariant behind the safety theorems about ServerTx. None *)
(* of the safety properties is inductive alone: AtMostOnce, for instance,  *)
(* needs that a transaction has one taker (OneTaker), which needs that a   *)
(* taken transaction is not in the map (TakersShape).                      *)
(***************************************************************************)
EXTENDS ServerTx

\* r is answered exactly when its handler is over.
AnsweredWhenDone == \A r \in Request : (reply[r] # "none") <=> (pc[r] = "done")

\* r has removed a transaction from the map and still holds it, or has used it
\* up: by storing rows, or by an acknowledged commit or rollback.
Acknowledged(r) == op[r] \in {"commit", "rollback"} /\ reply[r] = "ok"
Holding(r)      == pc[r] \in {"claimed", "writing", "flushing"}
Took(r)         == Holding(r) \/ Rows(r) # {} \/ Acknowledged(r)

\* Requests that got past the front door name a transaction that was begun.
NamesBegun == \A r \in Request : pc[r] # "idle" /\ op[r] # "begin" => tx[r] \in begun

\* An entry of the map holds memories staged for it, by requests that are over.
EntriesShape ==
  \A t \in Tx : \A s \in staged[t] :
    t \in open /\ pc[s] = "done" /\ op[s] = "stage" /\ tx[s] = t

\* What a handler moved out of the map are memories staged for its transaction.
BatchShape ==
  \A r \in Request : \A s \in batch[r] :
    /\ pc[s] = "done" /\ op[s] = "stage" /\ tx[s] = tx[r]
    /\ pc[r] \in {"claimed", "writing", "flushing", "done"}

\* The locals of a handler's engine transaction.
WorkShape ==
  \A r \in Request :
    /\ wrote[r] \subseteq batch[r] /\ upserts[r] \subseteq batch[r]
    /\ pc[r] # "writing" => wrote[r] = {}
    /\ pc[r] = "writing" => upserts[r] = wrote[r]
    /\ pc[r] \notin {"writing", "flushing"} => upserts[r] = {}

\* Who took a transaction is a commit or a rollback of one no longer in the map.
TakersShape ==
  \A r \in Request : Took(r) =>
    /\ op[r] \in {"commit", "rollback"}
    /\ tx[r] \in begun /\ tx[r] \notin open
    /\ pc[r] = "flushing" => op[r] = "commit"

OneTaker ==
  \A r, q \in Request : Took(r) /\ Took(q) /\ tx[r] = tx[q] => r = q

\* Rows appear with the commit of the core transaction, all together.
RowsShape ==
  \A r \in Request :
    /\ Rows(r) \in {{}, batch[r]}
    /\ Rows(r) # {} => op[r] = "commit" /\ pc[r] \in {"flushing", "done"}
    /\ pc[r] = "flushing" \/ (op[r] = "commit" /\ reply[r] = "ok")
         => Rows(r) = batch[r]

\* A staging that was acknowledged is in the entry, or with who took the entry
\* (or lost with a crash, and then nobody takes it).
StagedKept ==
  \A s \in Request : op[s] = "stage" /\ reply[s] = "ok" =>
    /\ tx[s] \in open => s \in staged[tx[s]]
    /\ \A r \in Request : Took(r) /\ tx[r] = tx[s] => s \in batch[r]

\* A handler that got past authorize acts for a session that may write.
WritersWrite ==
  \A r \in Request :
    pc[r] \in {"writing", "flushing"} \/ Rows(r) # {} => owner[tx[r]] \in Writer

IInv ==
  /\ TypeOK /\ AnsweredWhenDone /\ NamesBegun
  /\ EntriesShape /\ BatchShape /\ WorkShape
  /\ TakersShape /\ OneTaker /\ RowsShape /\ StagedKept
  /\ WritersWrite /\ ErrorStoresNothing /\ IndexFollowsCore
=============================================================================
