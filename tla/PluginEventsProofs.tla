-------------------------- MODULE PluginEventsProofs --------------------------
(***************************************************************************)
(* Safety theorems of PluginEvents, for any set of calls, any number of    *)
(* plugins and any capacity of the channel.                                *)
(***************************************************************************)
EXTENDS PluginEvents, SequenceTheorems, TLAPS

-----------------------------------------------------------------------------
(* Sequences *)

LEMMA PrefixByIndex ==
  ASSUME NEW S, NEW s \in Seq(S), NEW t \in Seq(S),
         Len(s) <= Len(t), \A i \in 1..Len(s) : s[i] = t[i]
  PROVE  IsPrefix(s, t)
BY DEF IsPrefix

LEMMA ToSetByIndex ==
  ASSUME NEW S, NEW s \in Seq(S)
  PROVE  ToSet(s) = {s[i] : i \in 1..Len(s)}
BY DEF ToSet

LEMMA ToSetAppend ==
  ASSUME NEW S, NEW s \in Seq(S), NEW e \in S
  PROVE  ToSet(Append(s, e)) = ToSet(s) \cup {e}
<1>1. Append(s, e) \in Seq(S) /\ Len(Append(s, e)) = Len(s) + 1 /\ Len(s) \in Nat
  BY AppendProperties, LenProperties
<1>2. /\ \A i \in 1..Len(s) : Append(s, e)[i] = s[i]
      /\ Append(s, e)[Len(s) + 1] = e
  BY AppendProperties
<1>3. ToSet(Append(s, e)) = {Append(s, e)[i] : i \in 1..(Len(s) + 1)}
  BY <1>1, ToSetByIndex
<1>4. ToSet(s) = {s[i] : i \in 1..Len(s)}
  BY ToSetByIndex
<1>5. ASSUME NEW x \in ToSet(Append(s, e)) PROVE x \in ToSet(s) \cup {e}
  BY <1>1, <1>2, <1>3, <1>4, <1>5
<1>6. ASSUME NEW x \in ToSet(s) \cup {e} PROVE x \in ToSet(Append(s, e))
  BY <1>1, <1>2, <1>3, <1>4, <1>6
<1> QED
  BY <1>5, <1>6

-----------------------------------------------------------------------------
(* The inductive invariant *)

\* The types the order of events needs.
Shape ==
  /\ pc \in [Call -> {"running", "announcing", "emitting", "done"}]
  /\ reply \in [Call -> {"none", "ok", "denied", "error", "dropped"}]
  /\ sent \in Seq(Call) /\ buffer \in Seq(Call)
  /\ lagged \in BOOLEAN
  /\ dispatcher \in {"receiving", "locking", "dispatching", "ended"}
  /\ loaded \in Nat /\ turn \in 1..(loaded + 1)
  /\ dispatcher \in {"locking", "dispatching"} => current \in Call
  /\ seen \in [1..loaded -> Seq(Call)]

\* The event in the hands of the dispatcher is still to come for plugin p.
Pending(p) == dispatcher = "locking" \/ (dispatcher = "dispatching" /\ turn <= p)

\* How many events have left the channel, as plugin p can tell.
Taken(p) == Len(seen[p]) + (IF Pending(p) THEN 1 ELSE 0)

\* What a plugin was handed, what it is about to be handed and what waits in
\* the channel is what was sent, unless the channel has overwritten something.
InOrder(p) ==
  /\ Taken(p) <= Len(sent)
  /\ \A i \in 1..Len(seen[p]) : seen[p][i] = sent[i]
  /\ Pending(p) => current = sent[Len(seen[p]) + 1]
  /\ ~lagged /\ dispatcher # "ended" =>
       /\ Len(sent) = Taken(p) + Len(buffer)
       /\ \A i \in 1..Len(buffer) : buffer[i] = sent[Taken(p) + i]

\* No plugin has been handed an event that another will never see.
InStep == \A p, q \in 1..loaded : Taken(p) = Taken(q)

TurnInv == dispatcher # "dispatching" => turn = 1

\* What is known of a call where it is.
Told(c) ==
  /\ pc[c] \in {"announcing", "emitting"} => c \in applied \cup refused
  /\ pc[c] # "done" => reply[c] = "none"
  /\ reply[c] \in {"ok", "denied"} <=> c \in ToSet(sent)
  /\ c \in ToSet(sent) => c \in applied \cup refused

IInv ==
  /\ Shape /\ TurnInv /\ InStep
  /\ \A p \in 1..loaded : InOrder(p)
  /\ \A c \in Call : Told(c)

LEMMA TakenCases ==
  ASSUME Shape, NEW p \in 1..loaded
  PROVE  /\ Len(seen[p]) \in Nat /\ Taken(p) \in Nat /\ Len(seen[p]) <= Taken(p)
         /\ Taken(p) = Len(seen[p]) \/ Taken(p) = Len(seen[p]) + 1
         /\ Pending(p) <=> Taken(p) = Len(seen[p]) + 1
<1>1. seen[p] \in Seq(Call) /\ Len(seen[p]) \in Nat
  BY LenProperties DEF Shape
<1>2. CASE Pending(p)
  BY <1>1, <1>2 DEF Taken
<1>3. CASE ~Pending(p)
  BY <1>1, <1>3 DEF Taken
<1> QED
  BY <1>1, <1>2, <1>3

LEMMA InitInvariant == Init => IInv
<1> SUFFICES ASSUME Init PROVE IInv
  OBVIOUS
<1>1. Shape
  <2>1. loaded \in Nat /\ turn \in 1..(loaded + 1)
    BY PluginsAssumption DEF Init, LoadFromDir
  <2>2. <<>> \in Seq(Call)
    OBVIOUS
  <2> QED
    BY <2>1, <2>2 DEF Init, Shape
<1>2. ToSet(sent) = {}
  BY DEF Init, ToSet
<1>3. \A c \in Call : Told(c)
  BY <1>2 DEF Init, Told
<1>4. \A p \in 1..loaded : InOrder(p) /\ Taken(p) = 0
  BY DEF Init, InOrder, Taken, Pending
<1> QED
  BY <1>1, <1>3, <1>4 DEF IInv, TurnInv, InStep, Init

-----------------------------------------------------------------------------
(* Steps of a call *)

\* A step that sends nothing leaves the channel and the dispatcher alone.
LEMMA SilentStep ==
  ASSUME IInv, NEW c \in Call, Apply(c) \/ Deny(c) \/ Fail(c) \/ AwaitManager(c) \/ Disconnect(c)
  PROVE  IInv'
<1> USE DEF callVars, mutexVars, channelVars, taskVars
<1>1. UNCHANGED <<channelVars, taskVars>>
  BY DEF Apply, Deny, Fail, AwaitManager, Disconnect
<1>2. Shape'
  BY <1>1 DEF IInv, Shape, Apply, Deny, Fail, AwaitManager, Disconnect
<1>3. TurnInv' /\ InStep' /\ \A p \in 1..loaded' : InOrder(p)'
  BY <1>1 DEF IInv, TurnInv, InStep, InOrder, Taken, Pending
<1>4. \A d \in Call : Told(d)'
  BY <1>1 DEF IInv, Shape, Told, Apply, Deny, Fail, AwaitManager, Disconnect
<1> QED
  BY <1>2, <1>3, <1>4 DEF IInv

\* What Push does to a channel somebody receives from.
LEMMA PushInOrder ==
  ASSUME IInv, NEW c \in Call, sent' = Append(sent, c), Push(c), UNCHANGED taskVars
  PROVE  /\ buffer' \in Seq(Call) /\ lagged' \in BOOLEAN
         /\ \A p \in 1..loaded : InOrder(p)'
<1> USE DEF taskVars
<1>1. /\ sent \in Seq(Call) /\ sent' \in Seq(Call)
      /\ Len(sent') = Len(sent) + 1 /\ Len(sent) \in Nat /\ sent'[Len(sent) + 1] = c
      /\ \A i \in 1..Len(sent) : sent'[i] = sent[i]
  BY AppendProperties, LenProperties DEF IInv, Shape
<1>2. /\ buffer \in Seq(Call) /\ Len(buffer) \in Nat /\ Append(buffer, c) \in Seq(Call)
      /\ Len(Append(buffer, c)) = Len(buffer) + 1 /\ Append(buffer, c)[Len(buffer) + 1] = c
      /\ \A i \in 1..Len(buffer) : Append(buffer, c)[i] = buffer[i]
  BY AppendProperties, LenProperties DEF IInv, Shape
<1>3. \A p \in 1..loaded : Len(seen[p]) \in Nat /\ Taken(p) \in Nat /\ Taken(p) >= Len(seen[p])
  BY LenProperties DEF IInv, Shape, Taken
<1>4. \A p \in 1..loaded : Taken(p)' = Taken(p) /\ (Pending(p)' <=> Pending(p))
  BY DEF Taken, Pending
<1>5. buffer' \in Seq(Call) /\ lagged' \in BOOLEAN
  <2>1. CASE dispatcher = "ended" \/ Len(buffer) < Capacity
    BY <2>1, <1>2 DEF Push, IInv, Shape
  <2>2. CASE ~(dispatcher = "ended" \/ Len(buffer) < Capacity)
    <3>1. buffer # <<>>
      BY <2>2, CapacityAssumption, EmptySeq
    <3>2. Tail(buffer) \in Seq(Call)
      BY <3>1, <1>2, HeadTailProperties
    <3>3. Append(Tail(buffer), c) \in Seq(Call)
      BY <3>2, AppendProperties
    <3> QED
      BY <2>2, <3>3 DEF Push
  <2> QED
    BY <2>1, <2>2
<1>6. ASSUME NEW p \in 1..loaded PROVE InOrder(p)'
  <2>1. Taken(p) <= Len(sent') /\ \A i \in 1..Len(seen[p]) : seen[p][i] = sent'[i]
    BY <1>1, <1>3 DEF IInv, InOrder
  <2>2. Pending(p) => Len(seen[p]) + 1 \in 1..Len(sent)
    <3>1. Pending(p) => Taken(p) = Len(seen[p]) + 1
      BY DEF Taken
    <3>2. Taken(p) <= Len(sent)
      BY DEF IInv, InOrder
    <3> QED
      BY <3>1, <3>2, <1>1, <1>3
  <2>3. Pending(p) => current = sent'[Len(seen[p]) + 1]
    BY <1>1, <2>2 DEF IInv, InOrder
  <2>4. ASSUME ~lagged', dispatcher # "ended"
        PROVE  /\ Len(sent') = Taken(p) + Len(buffer')
               /\ \A i \in 1..Len(buffer') : buffer'[i] = sent'[Taken(p) + i]
    <3>1. buffer' = Append(buffer, c) /\ ~lagged
      BY <2>4 DEF Push
    <3>2. /\ Len(sent) = Taken(p) + Len(buffer)
          /\ \A i \in 1..Len(buffer) : buffer[i] = sent[Taken(p) + i]
      BY <2>4, <3>1 DEF IInv, InOrder
    <3>3. \A i \in 1..Len(buffer) : Taken(p) + i \in 1..Len(sent)
      BY <3>2, <1>1, <1>2, <1>3
    <3> QED
      BY <3>1, <3>2, <3>3, <1>1, <1>2, <1>3
  <2> QED
    BY <2>1, <2>3, <2>4, <1>4 DEF InOrder
<1> QED
  BY <1>5, <1>6

LEMMA EmitStep ==
  ASSUME IInv, NEW c \in Call, Emit(c) PROVE IInv'
<1> USE DEF callVars, mutexVars, channelVars, taskVars
<1>1. UNCHANGED taskVars /\ sent' = Append(sent, c) /\ Push(c)
  BY DEF Emit
<1>2. buffer' \in Seq(Call) /\ lagged' \in BOOLEAN /\ \A p \in 1..loaded : InOrder(p)'
  BY <1>1, PushInOrder
<1>3. sent' \in Seq(Call) /\ ToSet(sent') = ToSet(sent) \cup {c}
  BY <1>1, ToSetAppend, AppendProperties DEF IInv, Shape
<1>4. Shape'
  BY <1>1, <1>2, <1>3 DEF IInv, Shape, Emit, Outcome
<1>5. TurnInv' /\ InStep' /\ loaded' = loaded
  BY <1>1 DEF IInv, TurnInv, InStep, Taken, Pending
<1>6. \A d \in Call : Told(d)'
  BY <1>1, <1>3 DEF IInv, Shape, Told, Emit, Outcome
<1> QED
  BY <1>2, <1>4, <1>5, <1>6 DEF IInv

-----------------------------------------------------------------------------
(* Steps of the dispatcher *)

\* They send nothing and do not touch the calls.
LEMMA CallsStay ==
  ASSUME IInv, UNCHANGED <<callVars, sent>> PROVE \A c \in Call : Told(c)'
BY DEF IInv, Told, callVars

LEMMA ReceiveStep == ASSUME IInv, Receive PROVE IInv'
<1> USE DEF callVars
<1>1. /\ buffer \in Seq(Call) /\ buffer # <<>> /\ Len(buffer) \in Nat /\ Len(buffer) >= 1
      /\ Head(buffer) = buffer[1] /\ buffer[1] \in Call
      /\ Tail(buffer) \in Seq(Call) /\ Len(Tail(buffer)) = Len(buffer) - 1
      /\ \A i \in 1..(Len(buffer) - 1) : Tail(buffer)[i] = buffer[i + 1]
  BY HeadTailProperties, LenProperties, EmptySeq DEF Receive, IInv, Shape
<1>2. Shape' /\ TurnInv' /\ \A c \in Call : Told(c)'
  BY <1>1, CallsStay DEF Receive, IInv, Shape, TurnInv
<1>3. \A p \in 1..loaded : /\ Len(seen[p]) \in Nat /\ ~Pending(p) /\ Pending(p)'
                           /\ Taken(p) = Len(seen[p]) /\ Taken(p)' = Len(seen[p]) + 1
  <2>1. \A p \in 1..loaded : ~Pending(p) /\ Pending(p)'
    BY DEF Receive, Pending
  <2>2. \A p \in 1..loaded : Taken(p)' = Len(seen[p]) + 1
    BY <2>1 DEF Receive, Taken
  <2> QED
    BY <2>1, <2>2, TakenCases DEF IInv
<1>4. ASSUME NEW p \in 1..loaded PROVE InOrder(p)'
  <2>1. /\ Len(sent) = Len(seen[p]) + Len(buffer)
        /\ \A i \in 1..Len(buffer) : buffer[i] = sent[Len(seen[p]) + i]
        /\ \A i \in 1..Len(seen[p]) : seen[p][i] = sent[i]
    <3>1. /\ Len(sent) = Taken(p) + Len(buffer)
          /\ \A i \in 1..Len(buffer) : buffer[i] = sent[Taken(p) + i]
          /\ \A i \in 1..Len(seen[p]) : seen[p][i] = sent[i]
      BY DEF Receive, IInv, InOrder
    <3>2. Taken(p) = Len(seen[p])
      BY <1>3
    <3> QED
      BY <3>1, <3>2
  <2>2. /\ buffer' = Tail(buffer) /\ current' = buffer[1] /\ seen' = seen /\ sent' = sent
    BY <1>1 DEF Receive
  <2>3. current' = sent[Len(seen[p]) + 1]
    BY <2>1, <2>2, <1>1
  <2>4. /\ Len(sent) = Len(seen[p]) + 1 + Len(Tail(buffer))
        /\ \A i \in 1..Len(Tail(buffer)) : Tail(buffer)[i] = sent[Len(seen[p]) + 1 + i]
    BY <2>1, <1>1, <1>3
  <2>5. Len(seen[p]) + 1 <= Len(sent)
    BY <2>1, <1>1, <1>3
  <2> QED
    BY <2>1, <2>2, <2>3, <2>4, <2>5, <1>3 DEF InOrder
<1>5. InStep' /\ loaded' = loaded
  BY <1>3 DEF Receive, IInv, InStep
<1> QED
  BY <1>2, <1>4, <1>5 DEF IInv

\* The receiver is over; what plugins were handed stays a prefix of what was sent.
LEMMA LagStep == ASSUME IInv, Lag PROVE IInv'
<1> USE DEF callVars, mutexVars
<1>1. Shape' /\ TurnInv' /\ \A c \in Call : Told(c)'
  <2>1. <<>> \in Seq(Call)
    OBVIOUS
  <2> QED
    BY <2>1, CallsStay DEF Lag, IInv, Shape, TurnInv
<1>2. \A p \in 1..loaded : ~Pending(p) /\ ~Pending(p)' /\ Taken(p)' = Taken(p)
  BY DEF Lag, Taken, Pending
<1>3. \A p \in 1..loaded : InOrder(p)'
  BY <1>2 DEF Lag, IInv, InOrder
<1>4. InStep' /\ loaded' = loaded
  BY <1>2 DEF Lag, IInv, InStep
<1> QED
  BY <1>1, <1>3, <1>4 DEF IInv

LEMMA LockStep == ASSUME IInv, Lock PROVE IInv'
<1> USE DEF callVars, channelVars
<1>1. Shape' /\ TurnInv' /\ \A c \in Call : Told(c)'
  BY CallsStay DEF Lock, IInv, Shape, TurnInv
<1>2. \A p \in 1..loaded : (Pending(p)' <=> Pending(p)) /\ Taken(p)' = Taken(p)
  BY DEF Lock, Taken, Pending, IInv, TurnInv
<1>3. \A p \in 1..loaded : InOrder(p)'
  BY <1>2 DEF Lock, IInv, InOrder
<1>4. InStep' /\ loaded' = loaded
  BY <1>2 DEF Lock, IInv, InStep
<1> QED
  BY <1>1, <1>3, <1>4 DEF IInv

LEMMA OnEventStep == ASSUME IInv, OnEvent PROVE IInv'
<1> USE DEF callVars, mutexVars, channelVars
<1>1. /\ turn \in 1..loaded /\ current \in Call /\ Len(seen[turn]) \in Nat
      /\ seen' = [seen EXCEPT ![turn] = Append(seen[turn], current)]
      /\ seen'[turn] = Append(seen[turn], current)
      /\ seen[turn] \in Seq(Call) /\ seen'[turn] \in Seq(Call)
      /\ Len(seen'[turn]) = Len(seen[turn]) + 1
      /\ seen'[turn][Len(seen[turn]) + 1] = current
      /\ \A i \in 1..Len(seen[turn]) : seen'[turn][i] = seen[turn][i]
      /\ \A p \in 1..loaded : p # turn => seen'[p] = seen[p]
  BY AppendProperties, LenProperties DEF OnEvent, IInv, Shape
<1>2. Shape' /\ TurnInv' /\ \A c \in Call : Told(c)'
  BY <1>1, CallsStay DEF OnEvent, IInv, Shape, TurnInv
<1>3. \A p \in 1..loaded : p # turn => (Pending(p)' <=> Pending(p))
  BY <1>1 DEF OnEvent, Pending, IInv, Shape
<1>4. \A p \in 1..loaded : p = turn => Pending(p) /\ ~Pending(p)'
  BY <1>1 DEF OnEvent, Pending, IInv, Shape
<1>5. ASSUME NEW p \in 1..loaded PROVE Taken(p)' = Taken(p)
  <2>1. CASE p # turn
    BY <2>1, <1>1, <1>3 DEF Taken
  <2>2. CASE p = turn
    <3>1. Taken(p) = Len(seen[p]) + 1
      BY <2>2, <1>4, TakenCases DEF IInv
    <3>2. Taken(p)' = Len(seen'[p])
      <4>1. Len(seen'[p]) \in Nat
        BY <2>2, <1>1
      <4>2. ~Pending(p)'
        BY <2>2, <1>4
      <4> QED
        BY <4>1, <4>2 DEF Taken
    <3> QED
      BY <2>2, <3>1, <3>2, <1>1
  <2> QED
    BY <2>1, <2>2
<1>6. ASSUME NEW p \in 1..loaded PROVE InOrder(p)'
  <2>1. CASE p # turn
    BY <2>1, <1>1, <1>3, <1>5 DEF OnEvent, IInv, InOrder
  <2>2. CASE p = turn
    <3>1. current = sent[Len(seen[turn]) + 1] /\ \A i \in 1..Len(seen[turn]) : seen[turn][i] = sent[i]
      BY <1>1, <1>4 DEF IInv, InOrder
    <3>2. \A i \in 1..Len(seen'[turn]) : seen'[turn][i] = sent[i]
      BY <3>1, <1>1
    <3>3. InOrder(turn) /\ sent' = sent /\ buffer' = buffer /\ lagged' = lagged /\ dispatcher' = dispatcher
      BY <1>1 DEF IInv, OnEvent
    <3>4. Taken(p)' = Taken(p) /\ ~Pending(p)'
      BY <2>2, <1>4, <1>5
    <3> QED
      BY <2>2, <3>2, <3>3, <3>4 DEF InOrder
  <2> QED
    BY <2>1, <2>2
<1>7. InStep' /\ loaded' = loaded
  BY <1>5 DEF OnEvent, IInv, InStep
<1> QED
  BY <1>2, <1>6, <1>7 DEF IInv

LEMMA UnlockStep == ASSUME IInv, Unlock PROVE IInv'
<1> USE DEF callVars, channelVars
<1>1. Shape' /\ TurnInv' /\ \A c \in Call : Told(c)'
  BY CallsStay DEF Unlock, IInv, Shape, TurnInv
<1>2. \A p \in 1..loaded : ~Pending(p) /\ ~Pending(p)' /\ Taken(p)' = Taken(p)
  BY DEF Unlock, Taken, Pending, IInv, Shape
<1>3. \A p \in 1..loaded : InOrder(p)'
  BY <1>2 DEF Unlock, IInv, InOrder
<1>4. InStep' /\ loaded' = loaded
  BY <1>2 DEF Unlock, IInv, InStep
<1> QED
  BY <1>1, <1>3, <1>4 DEF IInv

LEMMA StepInvariant == IInv /\ [Next]_vars => IInv'
<1> SUFFICES ASSUME IInv, [Next]_vars PROVE IInv'
  OBVIOUS
<1>1. ASSUME NEW c \in Call, Run(c) \/ Disconnect(c) PROVE IInv'
  BY <1>1, SilentStep, EmitStep DEF Run
<1>2. CASE Dispatch
  BY <1>2, ReceiveStep, LagStep, LockStep, OnEventStep, UnlockStep DEF Dispatch
<1>3. CASE UNCHANGED vars
  BY <1>3 DEF vars, callVars, mutexVars, channelVars, taskVars, IInv, Shape, TurnInv, InStep, InOrder,
     Taken, Pending, Told
<1> QED
  BY <1>1, <1>2, <1>3 DEF Next

-----------------------------------------------------------------------------
(* Theorems *)

\* What was sent is, in order, what each plugin was handed, what it is about to
\* be handed and what waits in the channel, until an event is overwritten.
THEOREM Invariance == Spec => []IInv
BY InitInvariant, StepInvariant, PTL DEF Spec

\* Every plugin sees a prefix of what ClawDB::emit sent, in the order it was
\* sent; PluginManager::dispatch serves the plugins in the order of loading.
THEOREM PluginsSeePrefixHolds == Spec => []PluginsSeePrefix
<1>1. ASSUME IInv, NEW p \in 1..loaded
      PROVE  /\ seen[p] \in Seq(Call) /\ sent \in Seq(Call)
             /\ Len(seen[p]) \in Nat /\ Len(sent) \in Nat /\ Len(seen[p]) <= Len(sent)
             /\ \A i \in 1..Len(seen[p]) : seen[p][i] = sent[i]
  <2>1. seen[p] \in Seq(Call) /\ sent \in Seq(Call) /\ Len(seen[p]) \in Nat /\ Len(sent) \in Nat
    BY <1>1, LenProperties DEF IInv, Shape
  <2>2. Len(seen[p]) <= Taken(p) /\ Taken(p) \in Nat
    BY <1>1, TakenCases DEF IInv
  <2>3. Taken(p) <= Len(sent) /\ \A i \in 1..Len(seen[p]) : seen[p][i] = sent[i]
    BY <1>1 DEF IInv, InOrder
  <2> QED
    BY <2>1, <2>2, <2>3
<1>2. IInv => SentOrder
  BY <1>1, PrefixByIndex DEF SentOrder
<1>3. ASSUME IInv, NEW p \in 1..loaded, NEW q \in 1..loaded, p < q
      PROVE  IsPrefix(seen[q], seen[p]) /\ Len(seen[p]) <= Len(seen[q]) + 1
  <2>1. Taken(p) = Taken(q) /\ (Pending(p) => Pending(q))
    BY <1>3 DEF IInv, Shape, InStep, Pending
  <2>2. Len(seen[q]) <= Len(seen[p]) /\ Len(seen[p]) <= Len(seen[q]) + 1
    BY <2>1, <1>3, TakenCases DEF IInv
  <2>3. \A i \in 1..Len(seen[q]) : seen[q][i] = seen[p][i]
    BY <2>2, <1>1, <1>3
  <2> QED
    BY <2>2, <2>3, <1>1, <1>3, PrefixByIndex
<1>4. IInv => LoadOrder
  BY <1>3 DEF LoadOrder
<1> QED
  BY <1>2, <1>4, Invariance, PTL DEF PluginsSeePrefix

\* Plugins hear of nothing that did not happen, and of everything a caller was
\* told has happened or was denied, an event was sent.
THEOREM EventsAreTrueHolds == Spec => []EventsAreTrue
<1>1. ASSUME IInv, NEW p \in 1..loaded, NEW c \in ToSet(seen[p])
      PROVE  c \in applied \cup refused
  <2>1. seen[p] \in Seq(Call) /\ sent \in Seq(Call) /\ Len(seen[p]) \in Nat /\ Len(sent) \in Nat
    BY <1>1, LenProperties DEF IInv, Shape
  <2>2. PICK i \in 1..Len(seen[p]) : c = seen[p][i]
    BY <1>1, <2>1, ToSetByIndex
  <2>3. Len(seen[p]) <= Taken(p) /\ Taken(p) \in Nat
    BY <1>1, TakenCases DEF IInv
  <2>4. i \in 1..Len(sent) /\ c = sent[i]
    BY <1>1, <2>1, <2>2, <2>3 DEF IInv, InOrder
  <2>5. c \in ToSet(sent) /\ c \in Call
    BY <2>1, <2>4, ToSetByIndex, ElementOfSeq
  <2> QED
    BY <1>1, <2>5 DEF IInv, Told
<1>2. IInv => HeardIsTrue
  BY <1>1 DEF HeardIsTrue
<1>3. IInv => AckedIsSent
  BY DEF IInv, Told, AckedIsSent
<1> QED
  BY <1>2, <1>3, Invariance, PTL DEF EventsAreTrue

-----------------------------------------------------------------------------
(* The queue for the mutex *)

LEMMA StillInTail ==
  ASSUME NEW S, NEW s \in Seq(S), s # <<>>, NEW e \in ToSet(s), e # Head(s)
  PROVE  e \in ToSet(Tail(s))
<1>1. /\ Tail(s) \in Seq(S) /\ Len(Tail(s)) = Len(s) - 1 /\ Len(s) \in Nat
      /\ \A i \in 1..Len(Tail(s)) : Tail(s)[i] = s[i + 1]
  BY HeadTailProperties, LenProperties
<1>2. PICK i \in 1..Len(s) : e = s[i]
  BY ToSetByIndex
<1>3. i # 1
  BY <1>2
<1>4. i - 1 \in 1..Len(Tail(s)) /\ Tail(s)[i - 1] = e
  BY <1>1, <1>2, <1>3
<1> QED
  BY <1>1, <1>4, ToSetByIndex

LEMMA StillWithout ==
  ASSUME NEW S, NEW s \in Seq(S), NEW i \in 1..Len(s)
  PROVE  /\ RemoveAt(s, i) \in Seq(S)
         /\ \A e \in ToSet(s) : e # s[i] => e \in ToSet(RemoveAt(s, i))
<1> DEFINE front == SubSeq(s, 1, i - 1)
           back  == SubSeq(s, i + 1, Len(s))
<1>1. Len(s) \in Nat /\ i \in Int /\ \A j \in 1..Len(s) : s[j] \in S
  BY LenProperties, ElementOfSeq
<1>2. /\ front \in Seq(S) /\ Len(front) = i - 1
      /\ \A j \in 1..(i - 1) : front[j] = s[j]
  <2>1. i - 1 \in Int /\ \A j \in 1..(i - 1) : s[j] \in S
    BY <1>1
  <2> QED
    BY <2>1, <1>1, SubSeqProperties
<1>3. /\ back \in Seq(S) /\ Len(back) = Len(s) - i
      /\ \A j \in 1..(Len(s) - i) : back[j] = s[i + j]
  <2>1. i + 1 \in Int /\ Len(s) \in Int /\ \A j \in (i + 1)..Len(s) : s[j] \in S
    BY <1>1
  <2>2. /\ back \in Seq(S) /\ Len(back) = IF i + 1 <= Len(s) THEN Len(s) - (i + 1) + 1 ELSE 0
        /\ \A j \in 1..(Len(s) - (i + 1) + 1) : back[j] = s[(i + 1) + j - 1]
    BY <2>1, SubSeqProperties
  <2> QED
    BY <2>2, <1>1
<1> HIDE DEF front, back
<1>4. /\ front \o back \in Seq(S) /\ Len(front \o back) = Len(s) - 1
      /\ \A j \in 1..(Len(s) - 1) : (front \o back)[j] = IF j <= i - 1 THEN front[j] ELSE back[j - (i - 1)]
  <2>1. Len(front) + Len(back) = Len(s) - 1
    BY <1>1, <1>2, <1>3
  <2>2. /\ front \o back \in Seq(S) /\ Len(front \o back) = Len(front) + Len(back)
        /\ \A j \in 1..(Len(front) + Len(back)) :
             (front \o back)[j] = IF j <= Len(front) THEN front[j] ELSE back[j - Len(front)]
    BY <1>2, <1>3, ConcatProperties
  <2> QED
    BY <1>2, <2>1, <2>2
<1>5. RemoveAt(s, i) = front \o back
  BY DEF RemoveAt, front, back
<1>6. ASSUME NEW e \in ToSet(s), e # s[i] PROVE e \in ToSet(front \o back)
  <2>1. PICK j \in 1..Len(s) : e = s[j]
    BY ToSetByIndex
  <2>2. CASE j < i
    <3>1. j \in 1..(Len(s) - 1) /\ (front \o back)[j] = e
      BY <1>1, <1>2, <1>4, <2>1, <2>2
    <3> QED
      BY <3>1, <1>4, ToSetByIndex
  <2>3. CASE j > i
    <3>1. /\ j - 1 \in 1..(Len(s) - 1) /\ ~(j - 1 <= i - 1) /\ (j - 1) - (i - 1) = j - i
          /\ j - i \in 1..(Len(s) - i) /\ i + (j - i) = j
      BY <1>1, <2>3
    <3>2. (front \o back)[j - 1] = back[j - i]
      BY <1>4, <3>1
    <3>3. back[j - i] = s[j]
      BY <1>3, <3>1
    <3> QED
      BY <2>1, <3>1, <3>2, <3>3, <1>4, ToSetByIndex
  <2> QED
    BY <1>1, <1>6, <2>1, <2>2, <2>3
<1> QED
  BY <1>4, <1>5, <1>6

\* Whoever waits for the mutex is in its queue.
Queue ==
  /\ \A c \in Call : pc[c] = "emitting" => c \in ToSet(waiters)
  /\ dispatcher = "locking" => Dispatcher \in ToSet(waiters)

Waiter == Call \cup {Dispatcher}

QueueInv == TypeOK /\ Queue

\* A new waiter goes to the end of the queue.
LEMMA Joins ==
  ASSUME QueueInv, NEW w \in Waiter
  PROVE  /\ Append(waiters, w) \in Seq(Waiter) /\ w \in ToSet(Append(waiters, w))
         /\ \A v \in ToSet(waiters) : v \in ToSet(Append(waiters, w))
<1>1. waiters \in Seq(Waiter)
  BY DEF QueueInv, TypeOK, Waiter
<1> QED
  BY <1>1, ToSetAppend, AppendProperties

\* Nobody but the first of the queue leaves it with the mutex.
LEMMA Leaves ==
  ASSUME QueueInv, NEW w \in ToSet(waiters), Head(waiters) = w
  PROVE  /\ Tail(waiters) \in Seq(Waiter)
         /\ \A v \in ToSet(waiters) : v # w => v \in ToSet(Tail(waiters))
<1>1. waiters \in Seq(Waiter)
  BY DEF QueueInv, TypeOK, Waiter
<1>2. waiters # <<>>
  BY <1>1, ToSetByIndex, EmptySeq
<1> QED
  BY <1>1, <1>2, StillInTail, HeadTailProperties

LEMMA InitQueue == Init => QueueInv
<1> SUFFICES ASSUME Init PROVE QueueInv
  OBVIOUS
<1>1. loaded \in Nat /\ loaded \in 0..Plugins /\ turn \in 1..(loaded + 1)
  BY PluginsAssumption DEF Init, LoadFromDir
<1>2. \A S : <<>> \in Seq(S) /\ Len(<<>>) = 0
  OBVIOUS
<1>3. Len(buffer) <= Capacity
  BY <1>2, CapacityAssumption DEF Init
<1>4. Queue
  BY DEF Init, Queue
<1> QED
  BY <1>1, <1>2, <1>3, <1>4 DEF Init, QueueInv, TypeOK

LEMMA CallQueues ==
  ASSUME QueueInv, NEW c \in Call,
         Apply(c) \/ Deny(c) \/ Fail(c) \/ AwaitManager(c) \/ Disconnect(c)
  PROVE  QueueInv'
<1> USE DEF mutexVars, channelVars, taskVars
<1>1. waiters \in Seq(Waiter) /\ UNCHANGED <<holder, channelVars, taskVars>>
  BY DEF QueueInv, TypeOK, Waiter, Apply, Deny, Fail, AwaitManager, Disconnect
<1>2. /\ pc' \in [Call -> {"running", "announcing", "emitting", "done"}]
      /\ applied' \subseteq Call /\ refused' \subseteq Call
      /\ reply' \in [Call -> {"none", "ok", "denied", "error", "dropped"}]
  BY DEF QueueInv, TypeOK, Apply, Deny, Fail, AwaitManager, Disconnect
<1>3. waiters' \in Seq(Waiter) /\ \A v \in ToSet(waiters) : v # c => v \in ToSet(waiters')
  <2>1. CASE UNCHANGED waiters
    BY <1>1, <2>1
  <2>2. CASE waiters' = Append(waiters, c)
    BY <2>2, Joins DEF Waiter
  <2>3. ASSUME NEW i \in 1..Len(waiters), waiters[i] = c, waiters' = RemoveAt(waiters, i)
        PROVE  waiters' \in Seq(Waiter) /\ \A v \in ToSet(waiters) : v # c => v \in ToSet(waiters')
    BY <1>1, <2>3, StillWithout
  <2> QED
    BY <2>1, <2>2, <2>3 DEF Apply, Deny, Fail, AwaitManager, Disconnect
<1>4. pc'[c] = "emitting" => c \in ToSet(waiters')
  BY Joins DEF QueueInv, TypeOK, Apply, Deny, Fail, AwaitManager, Disconnect, Waiter
<1>5. \A d \in Call \ {c} : pc'[d] = pc[d]
  BY DEF QueueInv, TypeOK, Apply, Deny, Fail, AwaitManager, Disconnect
<1>6. Queue'
  BY <1>1, <1>3, <1>4, <1>5, CallAssumption DEF QueueInv, Queue
<1>7. TypeOK'
  BY <1>1, <1>2, <1>3 DEF QueueInv, TypeOK, Waiter
<1> QED
  BY <1>6, <1>7 DEF QueueInv

LEMMA EmitQueues == ASSUME QueueInv, NEW c \in Call, Emit(c) PROVE QueueInv'
<1> USE DEF taskVars
<1>1. /\ pc[c] = "emitting" /\ Head(waiters) = c /\ waiters' = Tail(waiters)
      /\ sent' = Append(sent, c) /\ pc' = [pc EXCEPT ![c] = "done"]
      /\ reply' = [reply EXCEPT ![c] = Outcome(c)] /\ Push(c)
      /\ UNCHANGED <<applied, refused, holder, taskVars>>
  BY DEF Emit
<1>2. Outcome(c) \in {"none", "ok", "denied", "error", "dropped"}
  BY DEF Outcome
<1>3. c \in ToSet(waiters)
  BY <1>1 DEF QueueInv, Queue
<1>4. waiters' \in Seq(Waiter) /\ \A v \in ToSet(waiters) : v # c => v \in ToSet(waiters')
  BY <1>1, <1>3, Leaves
<1>5. Queue'
  BY <1>1, <1>4, CallAssumption DEF QueueInv, Queue, TypeOK
<1>6. sent' \in Seq(Call)
  BY <1>1, AppendProperties DEF QueueInv, TypeOK
<1>7. buffer' \in Seq(Call) /\ Len(buffer') <= Capacity /\ lagged' \in BOOLEAN
  <2>1. buffer \in Seq(Call) /\ Len(buffer) \in Nat /\ Capacity \in Nat \ {0}
    BY CapacityAssumption, LenProperties DEF QueueInv, TypeOK
  <2>2. CASE dispatcher = "ended"
    BY <1>1, <2>2 DEF Push, QueueInv, TypeOK
  <2>3. CASE dispatcher # "ended" /\ Len(buffer) < Capacity
    <3>1. buffer' = Append(buffer, c) /\ lagged' = lagged
      BY <1>1, <2>3 DEF Push
    <3> QED
      BY <2>1, <2>3, <3>1, AppendProperties DEF QueueInv, TypeOK
  <2>4. CASE dispatcher # "ended" /\ ~(Len(buffer) < Capacity)
    <3>1. buffer' = Append(Tail(buffer), c) /\ lagged' = TRUE
      BY <1>1, <2>4 DEF Push
    <3>2. buffer # <<>>
      BY <2>1, <2>4, EmptySeq
    <3>3. Tail(buffer) \in Seq(Call) /\ Len(Tail(buffer)) = Len(buffer) - 1
      BY <2>1, <3>2, HeadTailProperties
    <3>4. Len(buffer) <= Capacity
      BY DEF QueueInv, TypeOK
    <3> QED
      BY <2>1, <3>1, <3>3, <3>4, AppendProperties
  <2> QED
    BY <2>2, <2>3, <2>4
<1>8. TypeOK'
  BY <1>1, <1>2, <1>4, <1>6, <1>7 DEF QueueInv, TypeOK, Waiter
<1> QED
  BY <1>5, <1>8 DEF QueueInv

LEMMA DispatchQueues == ASSUME QueueInv, IInv, Dispatch PROVE QueueInv'
<1> USE DEF callVars, mutexVars, channelVars
<1>1. CASE Receive
  <2>1. /\ buffer \in Seq(Call) /\ buffer # <<>> /\ Len(buffer) \in Nat /\ Len(buffer) <= Capacity
        /\ Capacity \in Nat
    BY <1>1, CapacityAssumption, LenProperties DEF Receive, QueueInv, TypeOK
  <2>2. current' \in Call /\ buffer' \in Seq(Call) /\ Len(buffer') <= Capacity
    BY <1>1, <2>1, HeadTailProperties DEF Receive
  <2>3. /\ waiters' \in Seq(Waiter) /\ Dispatcher \in ToSet(waiters')
        /\ \A v \in ToSet(waiters) : v \in ToSet(waiters')
    BY <1>1, Joins DEF Receive, Waiter
  <2>4. Queue'
    BY <1>1, <2>3 DEF Receive, QueueInv, Queue
  <2>5. TypeOK'
    BY <1>1, <2>2, <2>3 DEF Receive, QueueInv, TypeOK, Waiter
  <2> QED
    BY <2>4, <2>5 DEF QueueInv
<1>2. CASE Lag
  <2>1. <<>> \in Seq(Call) /\ Len(<<>>) <= Capacity
    BY CapacityAssumption
  <2> QED
    BY <1>2, <2>1 DEF Lag, QueueInv, Queue, TypeOK
<1>3. CASE Lock
  <2>1. Dispatcher \in ToSet(waiters) /\ Head(waiters) = Dispatcher
    BY <1>3 DEF Lock, QueueInv, Queue
  <2>2. waiters' \in Seq(Waiter) /\ \A v \in ToSet(waiters) : v # Dispatcher => v \in ToSet(waiters')
    BY <1>3, <2>1, Leaves DEF Lock
  <2>3. Queue'
    BY <1>3, <2>2, CallAssumption DEF Lock, QueueInv, Queue
  <2>4. TypeOK'
    BY <1>3, <2>2 DEF Lock, QueueInv, TypeOK, Waiter
  <2> QED
    BY <2>3, <2>4 DEF QueueInv
<1>4. CASE OnEvent
  <2>1. turn \in 1..loaded /\ turn + 1 \in 1..(loaded + 1) /\ current \in Call
    BY <1>4 DEF OnEvent, IInv, Shape
  <2>2. seen[turn] \in Seq(Call)
    BY <2>1 DEF QueueInv, TypeOK
  <2>3. Append(seen[turn], current) \in Seq(Call)
    BY <2>1, <2>2, AppendProperties
  <2> QED
    BY <1>4, <2>1, <2>3 DEF OnEvent, QueueInv, Queue, TypeOK
<1>5. CASE Unlock
  <2>1. 1 \in 1..(loaded + 1)
    BY DEF IInv, Shape
  <2> QED
    BY <1>5, <2>1 DEF Unlock, QueueInv, Queue, TypeOK
<1> QED
  BY <1>1, <1>2, <1>3, <1>4, <1>5 DEF Dispatch

\* Every variable keeps its type: the queue of the mutex holds calls and the
\* dispatcher only, and the channel never more events than its capacity.
THEOREM TypeCorrect == Spec => []TypeOK
<1>1. IInv /\ QueueInv /\ [Next]_vars => QueueInv'
  <2> SUFFICES ASSUME IInv, QueueInv, [Next]_vars PROVE QueueInv'
    OBVIOUS
  <2>1. ASSUME NEW c \in Call, Run(c) \/ Disconnect(c) PROVE QueueInv'
    BY <2>1, CallQueues, EmitQueues DEF Run
  <2>2. CASE Dispatch
    BY <2>2, DispatchQueues
  <2>3. CASE UNCHANGED vars
    BY <2>3 DEF vars, callVars, mutexVars, channelVars, taskVars, QueueInv, Queue, TypeOK
  <2> QED
    BY <2>1, <2>2, <2>3 DEF Next
<1>2. QueueInv => TypeOK
  BY DEF QueueInv
<1> QED
  BY <1>1, <1>2, InitQueue, Invariance, PTL DEF Spec
=============================================================================
