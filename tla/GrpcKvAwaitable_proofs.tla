----------------------- MODULE GrpcKvAwaitable_proofs -----------------------
(***************************************************************************)
(* The theorems about GrpcKvAwaitable, for every set of transactions, every *)
(* bound MaxOps, and streams that may break or not:                         *)
(*   - the inductive invariant IInv, one lemma per action (each shows first  *)
(*     the types, then that the other transactions are framed out, then the *)
(*     conjuncts of the transaction that acts, then the queue);              *)
(*   - the safety properties, each a consequence of IInv;                    *)
(*   - that the specification implements KvCalls, step by step.              *)
(***************************************************************************)
EXTENDS GrpcKvAwaitable, TLAPS

\* The invariant holds initially.
LEMMA InitIInv == Init => IInv
  BY MaxOpsAssumption
  DEF Init, StreamInit, ReactorInit, IInv, TypeOK, StreamTypeOK, ReactorTypeOK, Places, OnThread,
      Reactions, NoReaction, Handlers, TxInv, Numbered, OnePlace, Named, Expected, Closing,
      Tails, Slots, InRequest, InClose, Queued, CompletionsMatch, MisuseOnlyAfterEarlyEnd

\* What the invariant says of one transaction depends on these values only.
SameTx(u) ==
    /\ writing'[u] = writing[u] /\ reading'[u] = reading[u] /\ wire'[u] = wire[u]
    /\ halfClosed'[u] = halfClosed[u] /\ released'[u] = released[u]
    /\ write_completed'[u] = write_completed[u] /\ read_completed'[u] = read_completed[u]
    /\ close_completed'[u] = close_completed[u]
    /\ onWrite'[u] = onWrite[u] /\ onRead'[u] = onRead[u] /\ onDone'[u] = onDone[u]
    /\ returning'[u] = returning[u]
    /\ pc'[u] = pc[u] /\ n'[u] = n[u]
    /\ Queued(u)' <=> Queued(u)

\* A step that leaves those values alone leaves the invariant alone.
LEMMA Frame == ASSUME NEW u \in Txs, TxInv(u), SameTx(u) PROVE TxInv(u)'
<1>1. Numbered(u)' BY DEF TxInv, SameTx, Numbered
<1>2. OnePlace(u)' BY DEF TxInv, SameTx, OnePlace, InRequest
<1>3. Named(u)' BY DEF TxInv, SameTx, Named
<1>4. Expected(u)' BY DEF TxInv, SameTx, Expected
<1>5. Closing(u)' BY DEF TxInv, SameTx, Closing, InRequest, InClose
<1>6. Tails(u)' BY DEF TxInv, SameTx, Tails
<1>7. QED BY <1>1, <1>2, <1>3, <1>4, <1>5, <1>6 DEF TxInv

\* Completions in the queue still match after a step that leaves the queue alone
\* and, for a transaction with a completion in it, what that completion is for.
LEMMA CompletionsFrame ==
  ASSUME TypeOK, CompletionsMatch, UNCHANGED queue,
         \A u \in Txs : Queued(u) => n'[u] = n[u] /\ (InRequest(u)' => InRequest(u))
  PROVE  CompletionsMatch'
<1>1. ASSUME NEW i \in 1 .. Len(queue) PROVE queue[i].tx \in Txs /\ Queued(queue[i].tx)
  <2>1. queue[i] \in Handlers BY DEF TypeOK
  <2>2. QED BY <2>1 DEF Handlers, Queued
<1>2. ASSUME NEW i \in 1 .. Len(queue)
      PROVE  /\ queue[i].op = n'[queue[i].tx]
             /\ InRequest(queue[i].tx)' /\ queue[i].ok => queue[i].reply = n'[queue[i].tx]
  <2>1. /\ queue[i].op = n[queue[i].tx]
        /\ InRequest(queue[i].tx) /\ queue[i].ok => queue[i].reply = n[queue[i].tx]
    BY DEF CompletionsMatch, InRequest
  <2>2. QED BY <1>1, <2>1 DEF InRequest
<1>3. QED BY <1>2 DEF CompletionsMatch, InRequest

\* What a callback leaves behind when its work is done: itself, in its slot.
LEMMA WorkDoneLeaves ==
  ASSUME ReactorTypeOK, NEW t \in Txs, NEW slot \in Slots, NEW op \in Nat, WorkDone(t, slot, op)
  PROVE  /\ returning' \in [Txs -> [Slots -> Nat]]
         /\ \A u \in Txs \ {t} : returning'[u] = returning[u]
         /\ returning'[t][slot] = op
         /\ \A other \in Slots \ {slot} : returning'[t][other] = returning[t][other]
BY DEF ReactorTypeOK, WorkDone

\* What is left when it returns: the others.
LEMMA ReturnLeaves ==
  ASSUME ReactorTypeOK, NEW t \in Txs, ReactionReturns(t)
  PROVE  /\ returning' \in [Txs -> [Slots -> Nat]]
         /\ \A u \in Txs \ {t} : returning'[u] = returning[u]
         /\ \A slot \in Slots : returning'[t][slot] \in {0, returning[t][slot]}
<1>1. PICK slot \in Slots : returning' = [returning EXCEPT ![t][slot] = 0]
  BY DEF ReactionReturns
<1>2. QED BY <1>1 DEF ReactorTypeOK

\* A coroutine starts on a stream nothing was started on yet.
LEMMA BeginIInv == ASSUME NEW t \in Txs, IInv, Begin(t) PROVE IInv'
<1> USE DEF Begin, streamVars, reactorVars, slotVars, reactionVars, clientVars
<1>1. TypeOK'
  <2>1. StreamTypeOK'
    BY DEF IInv, TypeOK, StreamTypeOK
  <2>2. ReactorTypeOK'
    BY DEF IInv, TypeOK, ReactorTypeOK, Reactions
  <2>3. n' \in [Txs -> 0 .. MaxOps + 1] /\ pc' \in [Txs -> Places]
    BY DEF IInv, TypeOK, Places, OnThread
  <2>4. QED BY <2>1, <2>2, <2>3 DEF IInv, TypeOK, Up
<1>2. \A u \in Txs : Queued(u)' <=> Queued(u)
  BY DEF Queued
<1>3. ASSUME NEW u \in Txs PROVE TxInv(u)'
  <2>1. CASE u # t
    BY <1>2, <2>1, Frame DEF SameTx, IInv, TypeOK, StreamTypeOK, ReactorTypeOK
  <2>2. CASE u = t
    <3> USE <1>2, <2>2 DEF IInv, TypeOK, TxInv
    <3>1. Numbered(u)'
      BY MaxOpsAssumption DEF Numbered
    <3>2. OnePlace(u)'
      BY DEF OnePlace, InRequest, Closing, InClose, StreamTypeOK, ReactorTypeOK
    <3>3. Named(u)'
      BY DEF Named, Numbered, OnePlace, InRequest, StreamTypeOK, ReactorTypeOK
    <3>4. Expected(u)'
      BY DEF Expected, Named, Numbered, OnePlace, InRequest, StreamTypeOK, ReactorTypeOK
    <3>5. Closing(u)'
      BY DEF Closing, InRequest, InClose, OnePlace, StreamTypeOK, ReactorTypeOK
    <3>6. Tails(u)'
      BY DEF Tails, Slots, Numbered, Closing, InClose, StreamTypeOK, ReactorTypeOK
    <3>7. QED BY <3>1, <3>2, <3>3, <3>4, <3>5, <3>6
  <2>3. QED BY <2>1, <2>2
<1>4. CompletionsMatch'
  BY CompletionsFrame DEF IInv, TypeOK, TxInv, Closing, OnePlace, InRequest, InClose
<1>5. MisuseOnlyAfterEarlyEnd'
  BY DEF IInv, TypeOK, StreamTypeOK, ReactorTypeOK, MisuseOnlyAfterEarlyEnd, Up
<1>6. QED BY <1>1, <1>3, <1>4, <1>5 DEF IInv

\* The slot of a finished request is reused: nothing of that request is left.
LEMMA InitiateRequestIInv == ASSUME NEW t \in Txs, IInv, InitiateRequest(t) PROVE IInv'
<1> USE DEF InitiateRequest, StoreWriteSlot, streamVars, reactorVars, slotVars, reactionVars, clientVars
<1>1. TypeOK'
  <2>1. StreamTypeOK'
    BY DEF IInv, TypeOK, StreamTypeOK
  <2>2. ReactorTypeOK'
    <3>1. n[t] + 1 \in Nat
      BY MaxOpsAssumption DEF IInv, TypeOK
    <3>2. QED BY <3>1 DEF IInv, TypeOK, ReactorTypeOK
  <2>3. n' \in [Txs -> 0 .. MaxOps + 1] /\ pc' \in [Txs -> Places]
    BY MaxOpsAssumption DEF IInv, TypeOK, TxInv, Numbered, Places, OnThread
  <2>4. QED BY <2>1, <2>2, <2>3 DEF IInv, TypeOK, Up
<1>2. \A u \in Txs : Queued(u)' <=> Queued(u)
  BY DEF Queued
<1>3. ASSUME NEW u \in Txs PROVE TxInv(u)'
  <2>1. CASE u # t
    BY <1>2, <2>1, Frame DEF SameTx, IInv, TypeOK, StreamTypeOK, ReactorTypeOK
  <2>2. CASE u = t
    <3> USE <1>2, <2>2 DEF IInv, TypeOK, TxInv
    <3>1. Numbered(u)'
      BY MaxOpsAssumption DEF Numbered
    <3>2. OnePlace(u)'
      BY DEF OnePlace, InRequest, Closing, InClose, StreamTypeOK, ReactorTypeOK
    <3>3. Named(u)'
      BY DEF Named, Numbered, OnePlace, InRequest, StreamTypeOK, ReactorTypeOK
    <3>4. Expected(u)'
      BY DEF Expected, Named, Numbered, OnePlace, InRequest, StreamTypeOK, ReactorTypeOK
    <3>5. Closing(u)'
      BY DEF Closing, InRequest, InClose, OnePlace, StreamTypeOK, ReactorTypeOK
    <3>6. Tails(u)'
      BY DEF Tails, Slots, Numbered, Closing, InClose, StreamTypeOK, ReactorTypeOK
    <3>7. QED BY <3>1, <3>2, <3>3, <3>4, <3>5, <3>6
  <2>3. QED BY <2>1, <2>2
<1>4. CompletionsMatch'
  BY CompletionsFrame DEF IInv, TypeOK, TxInv, Closing, OnePlace, InRequest, InClose
<1>5. MisuseOnlyAfterEarlyEnd'
  BY DEF IInv, TypeOK, StreamTypeOK, ReactorTypeOK, MisuseOnlyAfterEarlyEnd, Up
<1>6. QED BY <1>1, <1>3, <1>4, <1>5 DEF IInv

\* gRPC takes the write, or had released the call and the process is undefined.
LEMMA StartRequestIInv == ASSUME NEW t \in Txs, IInv, StartRequest(t) PROVE IInv'
<1> USE DEF StartRequest, WriteAllowed, StartWrite, streamVars, reactorVars, slotVars, reactionVars, clientVars
<1>1. TypeOK'
  <2>1. StreamTypeOK'
    <3>1. n[t] \in Nat
      BY MaxOpsAssumption DEF IInv, TypeOK
    <3>2. QED BY <3>1 DEF IInv, TypeOK, StreamTypeOK
  <2>2. ReactorTypeOK'
    BY DEF IInv, TypeOK, ReactorTypeOK, Reactions
  <2>3. n' \in [Txs -> 0 .. MaxOps + 1] /\ pc' \in [Txs -> Places]
    BY MaxOpsAssumption DEF IInv, TypeOK, TxInv, Numbered, Places, OnThread
  <2>4. QED BY <2>1, <2>2, <2>3 DEF IInv, TypeOK, Up
<1>2. \A u \in Txs : Queued(u)' <=> Queued(u)
  BY DEF Queued
<1>3. ASSUME NEW u \in Txs PROVE TxInv(u)'
  <2>1. CASE u # t
    BY <1>2, <2>1, Frame DEF SameTx, IInv, TypeOK, StreamTypeOK, ReactorTypeOK
  <2>2. CASE u = t
    <3> USE <1>2, <2>2 DEF IInv, TypeOK, TxInv
    <3>1. Numbered(u)'
      BY MaxOpsAssumption DEF Numbered
    <3>2. OnePlace(u)'
      BY DEF OnePlace, InRequest, Closing, InClose, StreamTypeOK, ReactorTypeOK
    <3>3. Named(u)'
      BY DEF Named, Numbered, OnePlace, InRequest, StreamTypeOK, ReactorTypeOK
    <3>4. Expected(u)'
      BY DEF Expected, Named, Numbered, OnePlace, InRequest, StreamTypeOK, ReactorTypeOK
    <3>5. Closing(u)'
      BY DEF Closing, InRequest, InClose, OnePlace, StreamTypeOK, ReactorTypeOK
    <3>6. Tails(u)'
      BY DEF Tails, Slots, Numbered, Closing, InClose, StreamTypeOK, ReactorTypeOK
    <3>7. QED BY <3>1, <3>2, <3>3, <3>4, <3>5, <3>6
  <2>3. QED BY <2>1, <2>2
<1>4. CompletionsMatch'
  BY CompletionsFrame DEF IInv, TypeOK, TxInv, Closing, OnePlace, InRequest, InClose
<1>5. MisuseOnlyAfterEarlyEnd'
  BY ZenonT(60) DEF IInv, TypeOK, StreamTypeOK, TxInv, OnePlace, Closing, InRequest, InClose,
     MisuseOnlyAfterEarlyEnd, Up
<1>6. QED BY <1>1, <1>3, <1>4, <1>5 DEF IInv

\* The close slot is filled, with a number no request had.
LEMMA InitiateCloseIInv == ASSUME NEW t \in Txs, IInv, InitiateClose(t) PROVE IInv'
<1> USE DEF InitiateClose, StoreCloseSlot, streamVars, reactorVars, slotVars, reactionVars, clientVars
<1>1. TypeOK'
  <2>1. StreamTypeOK'
    BY DEF IInv, TypeOK, StreamTypeOK
  <2>2. ReactorTypeOK'
    <3>1. n[t] + 1 \in Nat
      BY MaxOpsAssumption DEF IInv, TypeOK
    <3>2. QED BY <3>1 DEF IInv, TypeOK, ReactorTypeOK
  <2>3. n' \in [Txs -> 0 .. MaxOps + 1] /\ pc' \in [Txs -> Places]
    BY MaxOpsAssumption DEF IInv, TypeOK, TxInv, Numbered, Places, OnThread
  <2>4. QED BY <2>1, <2>2, <2>3 DEF IInv, TypeOK, Up
<1>2. \A u \in Txs : Queued(u)' <=> Queued(u)
  BY DEF Queued
<1>3. ASSUME NEW u \in Txs PROVE TxInv(u)'
  <2>1. CASE u # t
    BY <1>2, <2>1, Frame DEF SameTx, IInv, TypeOK, StreamTypeOK, ReactorTypeOK
  <2>2. CASE u = t
    <3> USE <1>2, <2>2 DEF IInv, TypeOK, TxInv
    <3>1. Numbered(u)'
      BY MaxOpsAssumption DEF Numbered
    <3>2. OnePlace(u)'
      BY DEF OnePlace, InRequest, Closing, InClose, StreamTypeOK, ReactorTypeOK
    <3>3. Named(u)'
      BY DEF Named, Numbered, OnePlace, InRequest, StreamTypeOK, ReactorTypeOK
    <3>4. Expected(u)'
      BY DEF Expected, Named, Numbered, OnePlace, InRequest, StreamTypeOK, ReactorTypeOK
    <3>5. Closing(u)'
      BY ZenonT(60) DEF Closing, InRequest, InClose, OnePlace, StreamTypeOK, ReactorTypeOK
    <3>6. Tails(u)'
      <4>1. close_completed[t] = 0 /\ returning[t]["close"] = 0
        BY DEF Tails, Closing, InClose
      <4>2. returning'[t] = returning[t] /\ n'[t] = n[t] + 1 /\ released'[t] = released[t]
            /\ write_completed'[t] = write_completed[t] /\ read_completed'[t] = read_completed[t]
        OBVIOUS
      <4>3. write_completed[t] \in Nat /\ read_completed[t] \in Nat /\ n[t] \in Nat
        BY MaxOpsAssumption DEF ReactorTypeOK
      <4> QED BY <4>1, <4>2, <4>3 DEF Tails
    <3>7. QED BY <3>1, <3>2, <3>3, <3>4, <3>5, <3>6
  <2>3. QED BY <2>1, <2>2
<1>4. CompletionsMatch'
  BY CompletionsFrame DEF IInv, TypeOK, TxInv, Closing, OnePlace, InRequest, InClose
<1>5. MisuseOnlyAfterEarlyEnd'
  BY DEF IInv, TypeOK, StreamTypeOK, ReactorTypeOK, MisuseOnlyAfterEarlyEnd, Up
<1>6. QED BY <1>1, <1>3, <1>4, <1>5 DEF IInv

\* The stream is half-closed, or had been released and the process is undefined.
LEMMA StartCloseIInv == ASSUME NEW t \in Txs, IInv, StartClose(t) PROVE IInv'
<1> USE DEF StartClose, WritesDoneAllowed, StartWritesDone, streamVars, reactorVars, slotVars, reactionVars, clientVars
<1>1. TypeOK'
  <2>1. StreamTypeOK'
    BY DEF IInv, TypeOK, StreamTypeOK
  <2>2. ReactorTypeOK'
    BY DEF IInv, TypeOK, ReactorTypeOK, Reactions
  <2>3. n' \in [Txs -> 0 .. MaxOps + 1] /\ pc' \in [Txs -> Places]
    BY DEF IInv, TypeOK, Places, OnThread
  <2>4. QED BY <2>1, <2>2, <2>3 DEF IInv, TypeOK, Up
<1>2. \A u \in Txs : Queued(u)' <=> Queued(u)
  BY DEF Queued
<1>3. ASSUME NEW u \in Txs PROVE TxInv(u)'
  <2>1. CASE u # t
    BY <1>2, <2>1, Frame DEF SameTx, IInv, TypeOK, StreamTypeOK, ReactorTypeOK
  <2>2. CASE u = t
    <3> USE <1>2, <2>2 DEF IInv, TypeOK, TxInv
    <3>1. Numbered(u)'
      BY MaxOpsAssumption DEF Numbered
    <3>2. OnePlace(u)'
      BY ZenonT(60) DEF OnePlace, InRequest, Closing, InClose, StreamTypeOK, ReactorTypeOK
    <3>3. Named(u)'
      BY DEF Named, Numbered, OnePlace, InRequest, StreamTypeOK, ReactorTypeOK
    <3>4. Expected(u)'
      BY DEF Expected, Named, Numbered, OnePlace, InRequest, StreamTypeOK, ReactorTypeOK
    <3>5. Closing(u)'
      BY DEF Closing, InRequest, InClose, OnePlace, StreamTypeOK, ReactorTypeOK
    <3>6. Tails(u)'
      BY DEF Tails, Slots, Numbered, Closing, InClose, StreamTypeOK, ReactorTypeOK
    <3>7. QED BY <3>1, <3>2, <3>3, <3>4, <3>5, <3>6
  <2>3. QED BY <2>1, <2>2
<1>4. CompletionsMatch'
  BY CompletionsFrame DEF IInv, TypeOK, TxInv, Closing, OnePlace, InRequest, InClose
<1>5. MisuseOnlyAfterEarlyEnd'
  BY ZenonT(60) DEF IInv, TypeOK, StreamTypeOK, TxInv, OnePlace, Closing, InRequest, InClose,
     MisuseOnlyAfterEarlyEnd, Up
<1>6. QED BY <1>1, <1>3, <1>4, <1>5 DEF IInv

\* The thread is given up: the call goes on where it is.
LEMMA SuspendIInv == ASSUME NEW t \in Txs, IInv, Suspend(t) PROVE IInv'
<1> USE DEF Suspend, streamVars, reactorVars, slotVars, reactionVars, clientVars
<1>1. TypeOK'
  <2>1. StreamTypeOK'
    BY DEF IInv, TypeOK, StreamTypeOK
  <2>2. ReactorTypeOK'
    BY DEF IInv, TypeOK, ReactorTypeOK, Reactions
  <2>3. n' \in [Txs -> 0 .. MaxOps + 1] /\ pc' \in [Txs -> Places]
    BY DEF IInv, TypeOK, Places, OnThread
  <2>4. QED BY <2>1, <2>2, <2>3 DEF IInv, TypeOK, Up
<1>2. \A u \in Txs : Queued(u)' <=> Queued(u)
  BY DEF Queued
<1>3. ASSUME NEW u \in Txs PROVE TxInv(u)'
  <2>1. CASE u # t
    BY <1>2, <2>1, Frame DEF SameTx, IInv, TypeOK, StreamTypeOK, ReactorTypeOK
  <2>2. CASE u = t
    <3> USE <1>2, <2>2 DEF IInv, TypeOK, TxInv
    <3>1. Numbered(u)'
      BY MaxOpsAssumption DEF Numbered
    <3>2. OnePlace(u)'
      BY DEF OnePlace, InRequest, Closing, InClose, StreamTypeOK, ReactorTypeOK
    <3>3. Named(u)'
      BY DEF Named, Numbered, OnePlace, InRequest, StreamTypeOK, ReactorTypeOK
    <3>4. Expected(u)'
      BY DEF Expected, Named, Numbered, OnePlace, InRequest, StreamTypeOK, ReactorTypeOK
    <3>5. Closing(u)'
      BY DEF Closing, InRequest, InClose, OnePlace, StreamTypeOK, ReactorTypeOK
    <3>6. Tails(u)'
      BY DEF Tails, Slots, Numbered, Closing, InClose, StreamTypeOK, ReactorTypeOK
    <3>7. QED BY <3>1, <3>2, <3>3, <3>4, <3>5, <3>6
  <2>3. QED BY <2>1, <2>2
<1>4. CompletionsMatch'
  BY CompletionsFrame DEF IInv, TypeOK, TxInv, Closing, OnePlace, InRequest, InClose
<1>5. MisuseOnlyAfterEarlyEnd'
  BY DEF IInv, TypeOK, StreamTypeOK, ReactorTypeOK, MisuseOnlyAfterEarlyEnd, Up
<1>6. QED BY <1>1, <1>3, <1>4, <1>5 DEF IInv

\* The transaction is destroyed: it is no longer in a close.
LEMMA EndIInv == ASSUME NEW t \in Txs, IInv, End(t) PROVE IInv'
<1> USE DEF End, streamVars, reactorVars, slotVars, reactionVars, clientVars
<1>1. TypeOK'
  <2>1. StreamTypeOK'
    BY DEF IInv, TypeOK, StreamTypeOK
  <2>2. ReactorTypeOK'
    BY DEF IInv, TypeOK, ReactorTypeOK, Reactions
  <2>3. n' \in [Txs -> 0 .. MaxOps + 1] /\ pc' \in [Txs -> Places]
    BY DEF IInv, TypeOK, Places, OnThread
  <2>4. QED BY <2>1, <2>2, <2>3 DEF IInv, TypeOK, Up
<1>2. \A u \in Txs : Queued(u)' <=> Queued(u)
  BY DEF Queued
<1>3. ASSUME NEW u \in Txs PROVE TxInv(u)'
  <2>1. CASE u # t
    BY <1>2, <2>1, Frame DEF SameTx, IInv, TypeOK, StreamTypeOK, ReactorTypeOK
  <2>2. CASE u = t
    <3> USE <1>2, <2>2 DEF IInv, TypeOK, TxInv
    <3>1. Numbered(u)'
      BY MaxOpsAssumption DEF Numbered
    <3>2. OnePlace(u)'
      BY DEF OnePlace, InRequest, Closing, InClose, StreamTypeOK, ReactorTypeOK
    <3>3. Named(u)'
      BY DEF Named, Numbered, OnePlace, InRequest, StreamTypeOK, ReactorTypeOK
    <3>4. Expected(u)'
      BY DEF Expected, Named, Numbered, OnePlace, InRequest, StreamTypeOK, ReactorTypeOK
    <3>5. Closing(u)'
      BY ZenonT(60) DEF Closing, InRequest, InClose, OnePlace, StreamTypeOK, ReactorTypeOK
    <3>6. Tails(u)'
      BY DEF Tails, Slots, Numbered, Closing, InClose, StreamTypeOK, ReactorTypeOK
    <3>7. QED BY <3>1, <3>2, <3>3, <3>4, <3>5, <3>6
  <2>3. QED BY <2>1, <2>2
<1>4. CompletionsMatch'
  BY CompletionsFrame DEF IInv, TypeOK, TxInv, Closing, OnePlace, InRequest, InClose
<1>5. MisuseOnlyAfterEarlyEnd'
  BY DEF IInv, TypeOK, StreamTypeOK, ReactorTypeOK, MisuseOnlyAfterEarlyEnd, Up
<1>6. QED BY <1>1, <1>3, <1>4, <1>5 DEF IInv

\* The read slot is filled for the request whose write is done.
LEMMA ArmReadIInv == ASSUME NEW t \in Txs, IInv, ArmRead(t) PROVE IInv'
<1> USE DEF ArmRead, StoreReadSlot, streamVars, reactorVars, slotVars, reactionVars, clientVars
<1>1. TypeOK'
  <2>1. StreamTypeOK'
    BY DEF IInv, TypeOK, StreamTypeOK
  <2>2. ReactorTypeOK'
    <3>1. onWrite[t] \in Reactions({"none", "called", "armed", "thrown"})
      BY DEF IInv, TypeOK, ReactorTypeOK
    <3>2. [onWrite[t] EXCEPT !.at = "armed"] \in Reactions({"none", "called", "armed", "thrown"})
      BY <3>1 DEF Reactions
    <3>3. onWrite[t].op \in Nat
      BY <3>1 DEF Reactions
    <3>4. QED BY <3>2, <3>3 DEF IInv, TypeOK, ReactorTypeOK
  <2>3. n' \in [Txs -> 0 .. MaxOps + 1] /\ pc' \in [Txs -> Places]
    BY DEF IInv, TypeOK, Places, OnThread
  <2>4. QED BY <2>1, <2>2, <2>3 DEF IInv, TypeOK, Up
<1>2. \A u \in Txs : Queued(u)' <=> Queued(u)
  BY DEF Queued
<1>3. ASSUME NEW u \in Txs PROVE TxInv(u)'
  <2>1. CASE u # t
    BY <1>2, <2>1, Frame DEF SameTx, IInv, TypeOK, StreamTypeOK, ReactorTypeOK
  <2>2. CASE u = t
    <3> USE <1>2, <2>2 DEF IInv, TypeOK, TxInv
    <3>1. Numbered(u)'
      BY MaxOpsAssumption DEF Numbered
    <3>2. OnePlace(u)'
      BY DEF OnePlace, InRequest, Closing, InClose, StreamTypeOK, ReactorTypeOK
    <3>3. Named(u)'
      BY DEF Named, Numbered, OnePlace, InRequest, StreamTypeOK, ReactorTypeOK
    <3>4. Expected(u)'
      BY DEF Expected, Named, Numbered, OnePlace, InRequest, StreamTypeOK, ReactorTypeOK
    <3>5. Closing(u)'
      BY DEF Closing, InRequest, InClose, OnePlace, StreamTypeOK, ReactorTypeOK
    <3>6. Tails(u)'
      <4>1. onWrite[t].op = n[t] /\ read_completed'[t] = n[t] /\ ~released[t]
        BY DEF Named, OnePlace, ReactorTypeOK
      <4>2. read_completed[t] \in Nat /\ n[t] \in Nat /\ returning[t]["read"] \in Nat
        BY MaxOpsAssumption DEF ReactorTypeOK, Slots
      <4>3. UNCHANGED <<returning, n, released, write_completed, close_completed, onDone>>
        OBVIOUS
      <4> QED BY <4>1, <4>2, <4>3 DEF Tails
    <3>7. QED BY <3>1, <3>2, <3>3, <3>4, <3>5, <3>6
  <2>3. QED BY <2>1, <2>2
<1>4. CompletionsMatch'
  BY CompletionsFrame DEF IInv, TypeOK, TxInv, Closing, OnePlace, InRequest, InClose
<1>5. MisuseOnlyAfterEarlyEnd'
  BY DEF IInv, TypeOK, StreamTypeOK, ReactorTypeOK, MisuseOnlyAfterEarlyEnd, Up
<1>6. QED BY <1>1, <1>3, <1>4, <1>5 DEF IInv

\* gRPC takes the read: no other is outstanding and the call is not released.
LEMMA IssueReadIInv == ASSUME NEW t \in Txs, IInv, IssueRead(t) PROVE IInv'
<1> USE DEF IssueRead, ReadAllowed, StartRead, NoReaction, streamVars, reactorVars, slotVars, reactionVars, clientVars
<1>1. TypeOK'
  <2>1. StreamTypeOK'
    BY DEF IInv, TypeOK, StreamTypeOK
  <2>2. ReactorTypeOK'
    <3>1. onWrite[t].op \in Nat /\ "write" \in Slots
      BY DEF IInv, TypeOK, ReactorTypeOK, Reactions, Slots
    <3>2. returning' \in [Txs -> [Slots -> Nat]]
      BY <3>1, WorkDoneLeaves DEF IInv, TypeOK
    <3>3. QED BY <3>2 DEF IInv, TypeOK, ReactorTypeOK, Reactions
  <2>3. n' \in [Txs -> 0 .. MaxOps + 1] /\ pc' \in [Txs -> Places]
    BY DEF IInv, TypeOK, Places, OnThread
  <2>4. QED BY <2>1, <2>2, <2>3 DEF IInv, TypeOK, Up
<1>2. \A u \in Txs : Queued(u)' <=> Queued(u)
  BY DEF Queued
<1>3. ASSUME NEW u \in Txs PROVE TxInv(u)'
  <2>0. /\ onWrite[t].op \in Nat /\ WorkDone(t, "write", onWrite[t].op)
        /\ u # t => returning'[u] = returning[u]
        /\ returning'[t]["write"] = onWrite[t].op
        /\ returning'[t]["read"] = returning[t]["read"]
        /\ returning'[t]["close"] = returning[t]["close"]
    <3>1. onWrite[t].op \in Nat
      BY DEF IInv, TypeOK, ReactorTypeOK, Reactions
    <3>2. QED BY <3>1, WorkDoneLeaves DEF IInv, TypeOK, Slots
  <2>1. CASE u # t
    BY <1>2, <2>0, <2>1, Frame DEF SameTx, IInv, TypeOK, StreamTypeOK, ReactorTypeOK
  <2>2. CASE u = t
    <3> USE <1>2, <2>2 DEF IInv, TypeOK, TxInv
    <3>1. Numbered(u)'
      BY MaxOpsAssumption DEF Numbered
    <3>2. OnePlace(u)'
      BY DEF OnePlace, InRequest, Closing, InClose, StreamTypeOK, ReactorTypeOK
    <3>3. Named(u)'
      BY DEF Named, Numbered, OnePlace, InRequest, StreamTypeOK, ReactorTypeOK
    <3>4. Expected(u)'
      BY DEF Expected, Named, Numbered, OnePlace, InRequest, StreamTypeOK, ReactorTypeOK
    <3>5. Closing(u)'
      BY DEF Closing, InRequest, InClose, OnePlace, StreamTypeOK, ReactorTypeOK
    <3>6. Tails(u)'
      <4>1. onWrite[t].op = n[t] /\ write_completed[t] = n[t] /\ ~released[t]
        BY DEF Named, OnePlace
      <4>2. UNCHANGED <<n, write_completed, read_completed, close_completed, onDone>>
            /\ released'[t] = released[t] /\ n[t] \in Nat
        BY MaxOpsAssumption
      <4> QED BY <2>0, <4>1, <4>2 DEF Tails
    <3>7. QED BY <3>1, <3>2, <3>3, <3>4, <3>5, <3>6
  <2>3. QED BY <2>1, <2>2
<1>4. CompletionsMatch'
  BY CompletionsFrame DEF IInv, TypeOK, TxInv, Closing, OnePlace, InRequest, InClose
<1>5. MisuseOnlyAfterEarlyEnd'
  BY DEF IInv, TypeOK, StreamTypeOK, TxInv, OnePlace, Closing, InRequest, InClose,
     MisuseOnlyAfterEarlyEnd, Up
<1>6. QED BY <1>1, <1>3, <1>4, <1>5 DEF IInv

\* The write callback throws: its frame stays, so the call is never released.
LEMMA ThrowOnWriteIInv == ASSUME NEW t \in Txs, IInv, ThrowOnWrite(t) PROVE IInv'
<1> USE DEF ThrowOnWrite, ThrowOnGrpcThread, streamVars, reactorVars, slotVars, reactionVars, clientVars
<1>1. TypeOK'
  <2>1. StreamTypeOK'
    BY DEF IInv, TypeOK, StreamTypeOK
  <2>2. ReactorTypeOK'
    <3>1. onWrite[t] \in Reactions({"none", "called", "armed", "thrown"})
      BY DEF IInv, TypeOK, ReactorTypeOK
    <3>2. [onWrite[t] EXCEPT !.at = "thrown"] \in Reactions({"none", "called", "armed", "thrown"})
      BY <3>1 DEF Reactions
    <3>3. onWrite[t].op \in Nat
      BY <3>1 DEF Reactions
    <3>4. QED BY <3>2, <3>3 DEF IInv, TypeOK, ReactorTypeOK
  <2>3. n' \in [Txs -> 0 .. MaxOps + 1] /\ pc' \in [Txs -> Places]
    BY DEF IInv, TypeOK, Places, OnThread
  <2>4. QED BY <2>1, <2>2, <2>3 DEF IInv, TypeOK, Up
<1>2. \A u \in Txs : Queued(u)' <=> Queued(u)
  BY DEF Queued
<1>3. ASSUME NEW u \in Txs PROVE TxInv(u)'
  <2>1. CASE u # t
    BY <1>2, <2>1, Frame DEF SameTx, IInv, TypeOK, StreamTypeOK, ReactorTypeOK
  <2>2. CASE u = t
    <3> USE <1>2, <2>2 DEF IInv, TypeOK, TxInv
    <3>1. Numbered(u)'
      BY MaxOpsAssumption DEF Numbered
    <3>2. OnePlace(u)'
      BY DEF OnePlace, InRequest, Closing, InClose, StreamTypeOK, ReactorTypeOK
    <3>3. Named(u)'
      BY DEF Named, Numbered, OnePlace, InRequest, StreamTypeOK, ReactorTypeOK
    <3>4. Expected(u)'
      BY DEF Expected, Named, Numbered, OnePlace, InRequest, StreamTypeOK, ReactorTypeOK
    <3>5. Closing(u)'
      BY DEF Closing, InRequest, InClose, OnePlace, StreamTypeOK, ReactorTypeOK
    <3>6. Tails(u)'
      BY DEF Tails, Slots, Numbered, Closing, InClose, StreamTypeOK, ReactorTypeOK
    <3>7. QED BY <3>1, <3>2, <3>3, <3>4, <3>5, <3>6
  <2>3. QED BY <2>1, <2>2
<1>4. CompletionsMatch'
  BY CompletionsFrame DEF IInv, TypeOK, TxInv, Closing, OnePlace, InRequest, InClose
<1>5. MisuseOnlyAfterEarlyEnd'
  BY DEF IInv, TypeOK, StreamTypeOK, ReactorTypeOK, MisuseOnlyAfterEarlyEnd, Up
<1>6. QED BY <1>1, <1>3, <1>4, <1>5 DEF IInv

\* The request moves from gRPC to its write callback, its reply onto the wire.
LEMMA WriteDoneIInv == ASSUME NEW t \in Txs, IInv, WriteDone(t) PROVE IInv'
<1> USE DEF WriteDone, OnWriteDone, WriteCompletes, streamVars, reactorVars, slotVars, reactionVars, clientVars
<1>1. TypeOK'
  <2>1. StreamTypeOK'
    <3>1. Append(wire[t], writing[t]) \in Seq(Nat)
      BY DEF IInv, TypeOK, StreamTypeOK
    <3>2. QED BY <3>1 DEF IInv, TypeOK, StreamTypeOK
  <2>2. ReactorTypeOK'
    <3>1. PICK ok \in BOOLEAN :
            onWrite' = [onWrite EXCEPT ![t] =
               [at |-> "called", op |-> write_completed[t], ok |-> ok, reply |-> 0]]
      OBVIOUS
    <3>2. QED BY <3>1 DEF IInv, TypeOK, ReactorTypeOK, Reactions
  <2>3. n' \in [Txs -> 0 .. MaxOps + 1] /\ pc' \in [Txs -> Places]
    BY DEF IInv, TypeOK, Places, OnThread
  <2>4. QED BY <2>1, <2>2, <2>3 DEF IInv, TypeOK, Up
<1>2. \A u \in Txs : Queued(u)' <=> Queued(u)
  BY DEF Queued
<1>3. ASSUME NEW u \in Txs PROVE TxInv(u)'
  <2>1. CASE u # t
    BY <1>2, <2>1, Frame DEF SameTx, IInv, TypeOK, StreamTypeOK, ReactorTypeOK
  <2>2. CASE u = t
    <3> USE <1>2, <2>2 DEF IInv, TypeOK, TxInv
    <3>1. Numbered(u)'
      BY MaxOpsAssumption DEF Numbered
    <3>2. OnePlace(u)'
      BY DEF OnePlace, InRequest, Closing, InClose, StreamTypeOK, ReactorTypeOK
    <3>3. Named(u)'
      BY DEF Named, Numbered, OnePlace, InRequest, StreamTypeOK, ReactorTypeOK
    <3>4. Expected(u)'
      <4>1. wire[t] = <<>>
        BY DEF Expected, OnePlace
      <4>2. wire'[t] \in {<<>>, <<writing[t]>>} /\ (wire'[t] # <<>> => onWrite'[t].at = "called" /\ onWrite'[t].ok)
        BY <4>1 DEF StreamTypeOK, ReactorTypeOK
      <4>3. writing[t] = n[t] /\ n'[t] = n[t]
        BY DEF Named
      <4>4. QED BY <4>2, <4>3 DEF Expected
    <3>5. Closing(u)'
      BY DEF Closing, InRequest, InClose, OnePlace, StreamTypeOK, ReactorTypeOK
    <3>6. Tails(u)'
      BY DEF Tails, Slots, Numbered, Closing, InClose, StreamTypeOK, ReactorTypeOK
    <3>7. QED BY <3>1, <3>2, <3>3, <3>4, <3>5, <3>6
  <2>3. QED BY <2>1, <2>2
<1>4. CompletionsMatch'
  BY CompletionsFrame DEF IInv, TypeOK, TxInv, Closing, OnePlace, InRequest, InClose
<1>5. MisuseOnlyAfterEarlyEnd'
  BY DEF IInv, TypeOK, StreamTypeOK, ReactorTypeOK, MisuseOnlyAfterEarlyEnd, Up
<1>6. QED BY <1>1, <1>3, <1>4, <1>5 DEF IInv

\* The reply moves from the wire to the read callback: it is that of the request.
LEMMA ReadDoneIInv == ASSUME NEW t \in Txs, IInv, ReadDone(t) PROVE IInv'
<1> USE DEF ReadDone, OnReadDone, ReadCompletes, streamVars, reactorVars, slotVars, reactionVars, clientVars
<1>1. TypeOK'
  <2>1. StreamTypeOK'
    <3>1. wire[t] # <<>> => Tail(wire[t]) \in Seq(Nat)
      BY DEF IInv, TypeOK, StreamTypeOK
    <3>2. QED BY <3>1 DEF IInv, TypeOK, StreamTypeOK
  <2>2. ReactorTypeOK'
    <3>1. wire[t] # <<>> => Head(wire[t]) \in Nat
      BY DEF IInv, TypeOK, StreamTypeOK
    <3>2. pair' \in [Txs -> Nat]
      BY <3>1 DEF IInv, TypeOK, ReactorTypeOK
    <3>3. PICK ok \in BOOLEAN :
            onRead' = [onRead EXCEPT ![t] =
               [at |-> "called", op |-> read_completed[t], ok |-> ok, reply |-> pair'[t]]]
      OBVIOUS
    <3>4. QED BY <3>2, <3>3 DEF IInv, TypeOK, ReactorTypeOK, Reactions
  <2>3. n' \in [Txs -> 0 .. MaxOps + 1] /\ pc' \in [Txs -> Places]
    BY DEF IInv, TypeOK, Places, OnThread
  <2>4. QED BY <2>1, <2>2, <2>3 DEF IInv, TypeOK, Up
<1>2. \A u \in Txs : Queued(u)' <=> Queued(u)
  BY DEF Queued
<1>3. ASSUME NEW u \in Txs PROVE TxInv(u)'
  <2>1. CASE u # t
    BY ZenonT(60), <1>2, <2>1, Frame DEF SameTx, IInv, TypeOK, StreamTypeOK, ReactorTypeOK
  <2>2. CASE u = t
    <3> USE <1>2, <2>2 DEF IInv, TypeOK, TxInv
    <3>1. Numbered(u)'
      BY MaxOpsAssumption DEF Numbered
    <3>2. OnePlace(u)'
      BY DEF OnePlace, InRequest, Closing, InClose, StreamTypeOK, ReactorTypeOK
    <3>3. Named(u)'
      <4>1. wire[t] # <<>> => Head(wire[t]) = n[t]
        BY DEF Expected
      <4>2. onRead'[t].ok => onRead'[t].reply = n[t]
        BY <4>1 DEF ReactorTypeOK
      <4>3. /\ onRead'[t].op = read_completed[t] /\ read_completed[t] = n[t]
            /\ writing[t] = 0 /\ onWrite[t].at = "none" /\ ~reading'[t]
        BY DEF Named, OnePlace, StreamTypeOK, ReactorTypeOK
      <4>4. QED BY <4>2, <4>3 DEF Named, Numbered, OnePlace, InRequest
    <3>4. Expected(u)'
      <4>0. Tail(<<n[t]>>) = <<>>
        OBVIOUS
      <4>1. wire[t] # <<>> => Tail(wire[t]) = <<>>
        BY <4>0 DEF Expected
      <4>2. wire'[t] = <<>>
        BY <4>1 DEF StreamTypeOK
      <4>3. QED BY <4>2 DEF Expected
    <3>5. Closing(u)'
      BY DEF Closing, InRequest, InClose, OnePlace, StreamTypeOK, ReactorTypeOK
    <3>6. Tails(u)'
      BY DEF Tails, Slots, Numbered, Closing, InClose, StreamTypeOK, ReactorTypeOK
    <3>7. QED BY <3>1, <3>2, <3>3, <3>4, <3>5, <3>6
  <2>3. QED BY <2>1, <2>2
<1>4. CompletionsMatch'
  BY CompletionsFrame DEF IInv, TypeOK, TxInv, Closing, OnePlace, InRequest, InClose
<1>5. MisuseOnlyAfterEarlyEnd'
  BY DEF IInv, TypeOK, StreamTypeOK, ReactorTypeOK, MisuseOnlyAfterEarlyEnd, Up
<1>6. QED BY <1>1, <1>3, <1>4, <1>5 DEF IInv

\* gRPC releases the call: nothing is in progress on it.
LEMMA CallDoneIInv == ASSUME NEW t \in Txs, IInv, CallDone(t) PROVE IInv'
<1> USE DEF CallDone, OnDone, ReleaseCall, streamVars, reactorVars, slotVars, reactionVars, clientVars
<1>1. TypeOK'
  <2>1. StreamTypeOK'
    BY DEF IInv, TypeOK, StreamTypeOK
  <2>2. ReactorTypeOK'
    BY DEF IInv, TypeOK, ReactorTypeOK, Reactions
  <2>3. n' \in [Txs -> 0 .. MaxOps + 1] /\ pc' \in [Txs -> Places]
    BY DEF IInv, TypeOK, Places, OnThread
  <2>4. QED BY <2>1, <2>2, <2>3 DEF IInv, TypeOK, Up
<1>2. \A u \in Txs : Queued(u)' <=> Queued(u)
  BY DEF Queued
<1>3. ASSUME NEW u \in Txs PROVE TxInv(u)'
  <2>1. CASE u # t
    BY <1>2, <2>1, Frame DEF SameTx, IInv, TypeOK, StreamTypeOK, ReactorTypeOK
  <2>2. CASE u = t
    <3> USE <1>2, <2>2 DEF IInv, TypeOK, TxInv
    <3>1. Numbered(u)'
      BY MaxOpsAssumption DEF Numbered
    <3>2. OnePlace(u)'
      BY DEF OnePlace, InRequest, Closing, InClose, StreamTypeOK, ReactorTypeOK
    <3>3. Named(u)'
      BY DEF Named, Numbered, OnePlace, InRequest, StreamTypeOK, ReactorTypeOK
    <3>4. Expected(u)'
      BY DEF Expected, Named, Numbered, OnePlace, InRequest, StreamTypeOK, ReactorTypeOK
    <3>5. Closing(u)'
      BY DEF Closing, InRequest, InClose, OnePlace, StreamTypeOK, ReactorTypeOK
    <3>6. Tails(u)'
      BY DEF Tails, Slots, Numbered, Closing, InClose, StreamTypeOK, ReactorTypeOK
    <3>7. QED BY <3>1, <3>2, <3>3, <3>4, <3>5, <3>6
  <2>3. QED BY <2>1, <2>2
<1>4. CompletionsMatch'
  BY CompletionsFrame DEF IInv, TypeOK, TxInv, Closing, OnePlace, InRequest, InClose
<1>5. MisuseOnlyAfterEarlyEnd'
  BY DEF IInv, TypeOK, StreamTypeOK, ReactorTypeOK, MisuseOnlyAfterEarlyEnd, Up
<1>6. QED BY <1>1, <1>3, <1>4, <1>5 DEF IInv

\* Only the status changes.
LEMMA ServerFinishesIInv == ASSUME NEW t \in Txs, IInv, ServerFinishes(t) PROVE IInv'
<1> USE DEF ServerFinishes, FinishStream, streamVars, reactorVars, slotVars, reactionVars, clientVars
<1>1. TypeOK'
  <2>1. StreamTypeOK'
    BY DEF IInv, TypeOK, StreamTypeOK
  <2>2. ReactorTypeOK'
    BY DEF IInv, TypeOK, ReactorTypeOK, Reactions
  <2>3. n' \in [Txs -> 0 .. MaxOps + 1] /\ pc' \in [Txs -> Places]
    BY DEF IInv, TypeOK, Places, OnThread
  <2>4. QED BY <2>1, <2>2, <2>3 DEF IInv, TypeOK, Up
<1>2. \A u \in Txs : Queued(u)' <=> Queued(u)
  BY DEF Queued
<1>3. ASSUME NEW u \in Txs PROVE TxInv(u)'
  <2>1. CASE u # t
    BY <1>2, <2>1, Frame DEF SameTx, IInv, TypeOK, StreamTypeOK, ReactorTypeOK
  <2>2. CASE u = t
    <3> USE <1>2, <2>2 DEF IInv, TypeOK, TxInv
    <3>1. Numbered(u)'
      BY MaxOpsAssumption DEF Numbered
    <3>2. OnePlace(u)'
      BY DEF OnePlace, InRequest, Closing, InClose, StreamTypeOK, ReactorTypeOK
    <3>3. Named(u)'
      BY DEF Named, Numbered, OnePlace, InRequest, StreamTypeOK, ReactorTypeOK
    <3>4. Expected(u)'
      BY DEF Expected, Named, Numbered, OnePlace, InRequest, StreamTypeOK, ReactorTypeOK
    <3>5. Closing(u)'
      BY DEF Closing, InRequest, InClose, OnePlace, StreamTypeOK, ReactorTypeOK
    <3>6. Tails(u)'
      BY DEF Tails, Slots, Numbered, Closing, InClose, StreamTypeOK, ReactorTypeOK
    <3>7. QED BY <3>1, <3>2, <3>3, <3>4, <3>5, <3>6
  <2>3. QED BY <2>1, <2>2
<1>4. CompletionsMatch'
  BY CompletionsFrame DEF IInv, TypeOK, TxInv, Closing, OnePlace, InRequest, InClose
<1>5. MisuseOnlyAfterEarlyEnd'
  BY DEF IInv, TypeOK, StreamTypeOK, ReactorTypeOK, MisuseOnlyAfterEarlyEnd, Up
<1>6. QED BY <1>1, <1>3, <1>4, <1>5 DEF IInv

\* A callback returns: nothing else changes.
LEMMA CallbackReturnsIInv == ASSUME NEW t \in Txs, IInv, CallbackReturns(t) PROVE IInv'
<1> USE DEF CallbackReturns, ReactionReturns, streamVars, reactorVars, slotVars, reactionVars, clientVars
<1>1. TypeOK'
  <2>1. StreamTypeOK'
    BY DEF IInv, TypeOK, StreamTypeOK
  <2>2. ReactorTypeOK'
    BY ReturnLeaves DEF IInv, TypeOK, ReactorTypeOK, Reactions
  <2>3. n' \in [Txs -> 0 .. MaxOps + 1] /\ pc' \in [Txs -> Places]
    BY DEF IInv, TypeOK, Places, OnThread
  <2>4. QED BY <2>1, <2>2, <2>3 DEF IInv, TypeOK, Up
<1>2. \A u \in Txs : Queued(u)' <=> Queued(u)
  BY DEF Queued
<1>3. ASSUME NEW u \in Txs PROVE TxInv(u)'
  <2>1. CASE u # t
    BY <1>2, <2>1, Frame, ReturnLeaves DEF SameTx, IInv, TypeOK, StreamTypeOK, ReactorTypeOK
  <2>2. CASE u = t
    <3> USE <1>2, <2>2 DEF IInv, TypeOK, TxInv
    <3>1. Numbered(u)'
      BY MaxOpsAssumption DEF Numbered
    <3>2. OnePlace(u)'
      BY DEF OnePlace, InRequest, Closing, InClose, StreamTypeOK, ReactorTypeOK
    <3>3. Named(u)'
      BY DEF Named, Numbered, OnePlace, InRequest, StreamTypeOK, ReactorTypeOK
    <3>4. Expected(u)'
      BY DEF Expected, Named, Numbered, OnePlace, InRequest, StreamTypeOK, ReactorTypeOK
    <3>5. Closing(u)'
      BY DEF Closing, InRequest, InClose, OnePlace, StreamTypeOK, ReactorTypeOK
    <3>6. Tails(u)'
      <4>1. \A slot \in Slots : returning'[t][slot] \in {0, returning[t][slot]}
        BY ReturnLeaves
      <4>2. write_completed[t] \in Nat /\ read_completed[t] \in Nat
        BY DEF ReactorTypeOK
      <4> QED BY <4>1, <4>2 DEF Tails, Slots
    <3>7. QED BY <3>1, <3>2, <3>3, <3>4, <3>5, <3>6
  <2>3. QED BY <2>1, <2>2
<1>4. CompletionsMatch'
  BY CompletionsFrame DEF IInv, TypeOK, TxInv, Closing, OnePlace, InRequest, InClose
<1>5. MisuseOnlyAfterEarlyEnd'
  BY DEF IInv, TypeOK, StreamTypeOK, ReactorTypeOK, MisuseOnlyAfterEarlyEnd, Up
<1>6. QED BY <1>1, <1>3, <1>4, <1>5 DEF IInv

\* The status changes and replies may be lost.
LEMMA StreamBreaksIInv == ASSUME NEW t \in Txs, IInv, StreamBreaks(t) PROVE IInv'
<1> USE DEF StreamBreaks, BreakStream, Exists, streamVars, reactorVars, slotVars, reactionVars, clientVars
<1>1. TypeOK'
  <2>1. StreamTypeOK'
    <3>1. wire[t] \in Seq(Nat) /\ <<>> \in Seq(Nat)
      BY DEF IInv, TypeOK, StreamTypeOK
    <3>2. PICK kept \in {wire[t], <<>>} : wire' = [wire EXCEPT ![t] = kept]
      OBVIOUS
    <3>3. wire' \in [Txs -> Seq(Nat)]
      BY ZenonT(60), <3>1, <3>2 DEF IInv, TypeOK, StreamTypeOK
    <3>4. status' \in [Txs -> {"open", "ok", "error"}]
      BY DEF IInv, TypeOK, StreamTypeOK
    <3>5. QED BY <3>3, <3>4 DEF IInv, TypeOK, StreamTypeOK
  <2>2. ReactorTypeOK'
    BY DEF IInv, TypeOK, ReactorTypeOK, Reactions
  <2>3. n' \in [Txs -> 0 .. MaxOps + 1] /\ pc' \in [Txs -> Places]
    BY DEF IInv, TypeOK, Places, OnThread
  <2>4. QED BY <2>1, <2>2, <2>3 DEF IInv, TypeOK, Up
<1>2. \A u \in Txs : Queued(u)' <=> Queued(u)
  BY DEF Queued
<1>3. ASSUME NEW u \in Txs PROVE TxInv(u)'
  <2>1. CASE u # t
    BY <1>2, <2>1, Frame DEF SameTx, IInv, TypeOK, StreamTypeOK, ReactorTypeOK
  <2>2. CASE u = t
    <3> USE <1>2, <2>2 DEF IInv, TypeOK, TxInv
    <3>1. Numbered(u)'
      BY MaxOpsAssumption DEF Numbered
    <3>2. OnePlace(u)'
      BY DEF OnePlace, InRequest, Closing, InClose, StreamTypeOK, ReactorTypeOK
    <3>3. Named(u)'
      BY DEF Named, Numbered, OnePlace, InRequest, StreamTypeOK, ReactorTypeOK
    <3>4. Expected(u)'
      BY DEF Expected, Named, Numbered, OnePlace, InRequest, StreamTypeOK, ReactorTypeOK
    <3>5. Closing(u)'
      BY DEF Closing, InRequest, InClose, OnePlace, StreamTypeOK, ReactorTypeOK
    <3>6. Tails(u)'
      BY DEF Tails, Slots, Numbered, Closing, InClose, StreamTypeOK, ReactorTypeOK
    <3>7. QED BY <3>1, <3>2, <3>3, <3>4, <3>5, <3>6
  <2>3. QED BY <2>1, <2>2
<1>4. CompletionsMatch'
  BY CompletionsFrame DEF IInv, TypeOK, TxInv, Closing, OnePlace, InRequest, InClose
<1>5. MisuseOnlyAfterEarlyEnd'
  BY DEF IInv, TypeOK, StreamTypeOK, ReactorTypeOK, MisuseOnlyAfterEarlyEnd, Up
<1>6. QED BY <1>1, <1>3, <1>4, <1>5 DEF IInv

\* What posting a handler does to the queue: it is the one more completion there.
LEMMA Posted ==
  ASSUME TypeOK, NEW h \in Handlers, queue' = Append(queue, h)
  PROVE  /\ queue' \in Seq(Handlers)
         /\ Len(queue') = Len(queue) + 1
         /\ \A i \in 1 .. Len(queue) : queue'[i] = queue[i]
         /\ queue'[Len(queue) + 1] = h
         /\ \A u \in Txs : Queued(u)' <=> (Queued(u) \/ u = h.tx)
<1>1. queue \in Seq(Handlers) BY DEF TypeOK
<1>2. /\ queue' \in Seq(Handlers)
      /\ Len(queue') = Len(queue) + 1
      /\ \A i \in 1 .. Len(queue) : queue'[i] = queue[i]
      /\ queue'[Len(queue) + 1] = h
  BY <1>1
<1>3. Len(queue) \in Nat BY <1>1
<1>4. \A u \in Txs : Queued(u)' <=> (Queued(u) \/ u = h.tx)
  BY <1>2, <1>3 DEF Queued
<1>5. QED BY <1>2, <1>4

\* Posting the completion of an awaited call that has none posted yet.
LEMMA PostedMatches ==
  ASSUME TypeOK, CompletionsMatch, NEW h \in Handlers, queue' = Append(queue, h),
         ~Queued(h.tx), h.op = n[h.tx], InRequest(h.tx) /\ h.ok => h.reply = n[h.tx],
         UNCHANGED <<n, pc>>
  PROVE  CompletionsMatch'
<1>1. /\ Len(queue') = Len(queue) + 1 /\ Len(queue) \in Nat
      /\ \A i \in 1 .. Len(queue) : queue'[i] = queue[i]
      /\ queue'[Len(queue) + 1] = h
  BY Posted DEF TypeOK
<1>2. ASSUME NEW i \in 1 .. Len(queue')
      PROVE  /\ queue'[i].op = n[queue'[i].tx]
             /\ (pc[queue'[i].tx] \in {"started", "awaiting"} /\ queue'[i].ok
                   => queue'[i].reply = n[queue'[i].tx])
  <2>1. CASE i \in 1 .. Len(queue) BY <1>1, <2>1 DEF CompletionsMatch
  <2>2. CASE i = Len(queue) + 1 BY <1>1, <2>2 DEF InRequest
  <2>3. QED BY <1>1, <2>1, <2>2
<1>3. ASSUME NEW i \in 1 .. Len(queue'), NEW j \in 1 .. Len(queue'),
             queue'[i].tx = queue'[j].tx
      PROVE  i = j
  <2>1. CASE i \in 1 .. Len(queue) /\ j \in 1 .. Len(queue)
    BY <1>1, <1>3, <2>1 DEF CompletionsMatch
  <2>2. CASE i = Len(queue) + 1 /\ j \in 1 .. Len(queue)
    BY <1>1, <1>3, <2>2 DEF Queued
  <2>3. CASE i \in 1 .. Len(queue) /\ j = Len(queue) + 1
    BY <1>1, <1>3, <2>3 DEF Queued
  <2>4. QED BY <1>1, <2>1, <2>2, <2>3
<1>4. QED BY <1>2, <1>3 DEF CompletionsMatch

\* What taking the oldest handler does to the queue.
LEMMA Taken ==
  ASSUME TypeOK, CompletionsMatch, queue # <<>>, queue' = Tail(queue)
  PROVE  /\ queue' \in Seq(Handlers)
         /\ Len(queue') = Len(queue) - 1
         /\ \A i \in 1 .. Len(queue') : queue'[i] = queue[i + 1]
         /\ Head(queue) = queue[1] /\ Head(queue) \in Handlers
         /\ Queued(Head(queue).tx)
         /\ \A u \in Txs : Queued(u)' <=> (Queued(u) /\ u # Head(queue).tx)
<1>1. queue \in Seq(Handlers) BY DEF TypeOK
<1>2. /\ queue' \in Seq(Handlers)
      /\ Len(queue') = Len(queue) - 1 /\ Len(queue) \in Nat /\ Len(queue) # 0
      /\ \A i \in 1 .. Len(queue') : queue'[i] = queue[i + 1]
      /\ Head(queue) = queue[1] /\ Head(queue) \in Handlers
  BY <1>1
<1>3. Queued(Head(queue).tx) BY <1>2 DEF Queued
<1>4. ASSUME NEW u \in Txs PROVE Queued(u)' <=> (Queued(u) /\ u # Head(queue).tx)
  <2>1. ASSUME Queued(u)' PROVE Queued(u) /\ u # Head(queue).tx
    <3>1. PICK i \in 1 .. Len(queue') : queue'[i].tx = u BY <2>1 DEF Queued
    <3>2. i + 1 \in 1 .. Len(queue) /\ queue[i + 1].tx = u /\ i + 1 # 1 BY <1>2, <3>1
    <3>3. u # queue[1].tx BY <1>2, <3>2 DEF CompletionsMatch
    <3>4. QED BY <1>2, <3>2, <3>3 DEF Queued
  <2>2. ASSUME Queued(u), u # Head(queue).tx PROVE Queued(u)'
    <3>1. PICK i \in 1 .. Len(queue) : queue[i].tx = u BY <2>2 DEF Queued
    <3>2. i # 1 BY <1>2, <2>2, <3>1
    <3>3. i - 1 \in 1 .. Len(queue') /\ queue'[i - 1] = queue[i] BY <1>2, <3>1, <3>2
    <3>4. QED BY <3>1, <3>3 DEF Queued
  <2>3. QED BY <2>1, <2>2
<1>5. QED BY <1>2, <1>3, <1>4

\* The rest of the queue still matches, if nothing changes for its transactions.
LEMMA TakenMatches ==
  ASSUME TypeOK, CompletionsMatch, queue # <<>>, queue' = Tail(queue), UNCHANGED n,
         \A u \in Txs : u # Head(queue).tx => pc'[u] = pc[u]
  PROVE  CompletionsMatch'
<1>1. /\ Len(queue') = Len(queue) - 1 /\ Len(queue) \in Nat
      /\ \A i \in 1 .. Len(queue') : queue'[i] = queue[i + 1]
      /\ Head(queue) = queue[1]
  BY Taken DEF TypeOK
<1>2. ASSUME NEW i \in 1 .. Len(queue')
      PROVE  /\ i + 1 \in 1 .. Len(queue) /\ queue'[i] = queue[i + 1]
             /\ pc'[queue'[i].tx] = pc[queue'[i].tx]
  <2>1. i + 1 \in 1 .. Len(queue) /\ queue'[i] = queue[i + 1] BY <1>1
  <2>2. queue[i + 1] \in Handlers BY <2>1 DEF TypeOK
  <2>3. queue[i + 1].tx \in Txs BY <2>2 DEF Handlers
  <2>4. queue[i + 1].tx # queue[1].tx BY <1>1, <2>1 DEF CompletionsMatch
  <2>5. QED BY <1>1, <2>1, <2>3, <2>4
<1>3. ASSUME NEW i \in 1 .. Len(queue')
      PROVE  /\ queue'[i].op = n[queue'[i].tx]
             /\ (pc'[queue'[i].tx] \in {"started", "awaiting"} /\ queue'[i].ok
                   => queue'[i].reply = n[queue'[i].tx])
  BY <1>2 DEF CompletionsMatch
<1>4. ASSUME NEW i \in 1 .. Len(queue'), NEW j \in 1 .. Len(queue'),
             queue'[i].tx = queue'[j].tx
      PROVE  i = j
  <2>1. i + 1 = j + 1 BY <1>2, <1>4 DEF CompletionsMatch
  <2>2. QED BY <2>1
<1>5. QED BY <1>3, <1>4 DEF CompletionsMatch

\* The request moves from the read callback to the queue.
LEMMA PostReplyIInv == ASSUME NEW t \in Txs, IInv, PostReply(t) PROVE IInv'
<1> DEFINE h == [tx |-> t, op |-> onRead[t].op, ok |-> onRead[t].ok, reply |-> onRead[t].reply]
<1>1. onRead[t] \in Reactions({"none", "called"}) /\ onRead[t].at = "called"
  BY DEF PostReply, IInv, TypeOK, ReactorTypeOK
<1>2. /\ ~Queued(t) /\ InRequest(t) /\ onRead[t].op = n[t] /\ n[t] # 0
      /\ onRead[t].ok => onRead[t].reply = n[t]
      /\ writing[t] = 0 /\ onWrite[t].at = "none" /\ ~reading[t] /\ ~released[t]
  BY <1>1 DEF IInv, TxInv, OnePlace, Named, Numbered, InRequest
<1>3. h \in Handlers
  BY <1>1, <1>2 DEF Reactions, Handlers
<1>4. queue' = Append(queue, h)
  BY DEF PostReply
<1>5. queue' \in Seq(Handlers) /\ \A u \in Txs : Queued(u)' <=> (Queued(u) \/ u = t)
  BY <1>3, <1>4, Posted DEF IInv
<1> HIDE DEF h
<1>6. /\ returning' \in [Txs -> [Slots -> Nat]]
      /\ \A u \in Txs \ {t} : returning'[u] = returning[u]
      /\ returning'[t]["read"] = n[t]
      /\ returning'[t]["write"] = returning[t]["write"]
      /\ returning'[t]["close"] = returning[t]["close"]
  <2>1. onRead[t].op \in Nat /\ WorkDone(t, "read", onRead[t].op)
    BY <1>1 DEF Reactions, PostReply
  <2>2. QED BY <1>2, <2>1, WorkDoneLeaves DEF IInv, TypeOK, Slots
<1>7. Tails(t)'
  <2>1. UNCHANGED <<n, write_completed, read_completed, close_completed, released, onDone>>
    BY DEF PostReply, slotVars, streamVars
  <2>2. read_completed[t] = n[t] /\ n[t] \in Nat
    BY <1>1, MaxOpsAssumption DEF IInv, TxInv, Named, TypeOK
  <2>3. Tails(t)
    BY DEF IInv, TxInv
  <2>4. ~released'[t]
    BY <1>2, <2>1
  <2>5. returning'[t]["read"] <= read_completed'[t] /\ read_completed'[t] <= n'[t]
    BY <1>6, <2>1, <2>2
  <2>6. returning'[t]["write"] <= write_completed'[t] /\ write_completed'[t] <= n'[t]
    BY <1>6, <2>1, <2>3 DEF Tails
  <2>7. returning'[t]["close"] = 0
    BY <1>2, <1>6, <2>3 DEF Tails
  <2>8. QED BY <2>4, <2>5, <2>6, <2>7 DEF Tails
<1>8. TypeOK'
  <2>1. onRead' \in [Txs -> Reactions({"none", "called"})]
    BY DEF PostReply, NoReaction, Reactions, IInv, TypeOK, ReactorTypeOK
  <2>2. QED
    BY <1>5, <1>6, <2>1 DEF PostReply, streamVars, slotVars, IInv, TypeOK, StreamTypeOK,
       ReactorTypeOK
<1>9. ASSUME NEW u \in Txs PROVE TxInv(u)'
  <2> USE DEF PostReply, streamVars, slotVars
  <2>1. CASE u # t
    BY <1>5, <1>6, <2>1, Frame DEF SameTx, IInv, TypeOK, ReactorTypeOK
  <2>2. CASE u = t
    <3> USE <1>2, <1>5, <2>2 DEF IInv, TxInv, NoReaction
    <3>1. onRead'[u] = NoReaction BY DEF TypeOK, ReactorTypeOK
    <3>2. Numbered(u)' BY DEF Numbered
    <3>3. OnePlace(u)' BY <3>1 DEF OnePlace
    <3>4. Named(u)' BY <3>1 DEF Named
    <3>5. Expected(u)' BY DEF Expected
    <3>6. Closing(u)' BY DEF Closing, InRequest, InClose
    <3>7. Tails(u)' BY <1>7
    <3>8. QED BY <3>2, <3>3, <3>4, <3>5, <3>6, <3>7
  <2>3. QED BY <2>1, <2>2
<1>10. CompletionsMatch'
  <2>1. h.tx = t /\ h.op = n[t] /\ (h.ok => h.reply = n[t])
    BY <1>2 DEF h
  <2>2. UNCHANGED <<n, pc>> BY DEF PostReply
  <2>3. QED BY <1>2, <1>3, <1>4, <2>1, <2>2, PostedMatches DEF IInv
<1>11. MisuseOnlyAfterEarlyEnd'
  BY DEF PostReply, streamVars, IInv, MisuseOnlyAfterEarlyEnd
<1>12. QED BY <1>8, <1>9, <1>10, <1>11 DEF IInv

\* The close moves from OnDone to the queue, or OnDone throws.
LEMMA CallCloseSlotIInv == ASSUME NEW t \in Txs, IInv, CallCloseSlot(t) PROVE IInv'
<1> DEFINE h == [tx |-> t, op |-> onDone[t].op, ok |-> onDone[t].ok, reply |-> 0]
<1>1. onDone[t] \in Reactions({"none", "called", "thrown"}) /\ onDone[t].at = "called"
  BY DEF CallCloseSlot, IInv, TypeOK, ReactorTypeOK
<1>2. /\ onDone[t].op # 0 => InClose(t) /\ ~Queued(t) /\ onDone[t].op = n[t] /\ released[t]
      /\ pc[t] \notin {"closed", "ended"}
  BY <1>1 DEF IInv, TxInv, Closing, InClose, InRequest
<1>3. /\ writing[t] = 0 /\ onWrite[t].at = "none" /\ ~reading[t] /\ onRead[t].at = "none"
      /\ released[t]
  BY <1>1 DEF IInv, TxInv, Closing, OnePlace
<1>4. CASE onDone[t].op # 0
  <2> USE <1>4 DEF CallCloseSlot, streamVars, slotVars
  <2>1. h \in Handlers
    BY <1>1 DEF Reactions, Handlers
  <2>2. queue' = Append(queue, h)
    OBVIOUS
  <2>3. queue' \in Seq(Handlers) /\ \A u \in Txs : Queued(u)' <=> (Queued(u) \/ u = t)
    BY <2>1, <2>2, Posted DEF IInv
  <2> HIDE DEF h
  <2>4. /\ returning' \in [Txs -> [Slots -> Nat]]
        /\ \A u \in Txs \ {t} : returning'[u] = returning[u]
        /\ returning'[t]["close"] = onDone[t].op
        /\ returning'[t]["write"] = returning[t]["write"]
        /\ returning'[t]["read"] = returning[t]["read"]
    <3>1. onDone[t].op \in Nat /\ WorkDone(t, "close", onDone[t].op)
      BY <1>1 DEF Reactions
    <3>2. QED BY <3>1, WorkDoneLeaves DEF IInv, TypeOK, Slots
  <2>5. TypeOK'
    <3>1. onDone' \in [Txs -> Reactions({"none", "called", "thrown"})]
      <4>1. NoReaction \in Reactions({"none", "called", "thrown"})
        BY DEF NoReaction, Reactions
      <4>2. QED BY <4>1 DEF IInv, TypeOK, ReactorTypeOK
    <3>2. QED BY <2>3, <2>4, <3>1 DEF IInv, TypeOK, StreamTypeOK, ReactorTypeOK
  <2>6. ASSUME NEW u \in Txs PROVE TxInv(u)'
    <3>1. CASE u # t
      BY <2>3, <2>4, <3>1, Frame DEF SameTx, IInv, TypeOK, ReactorTypeOK
    <3>2. CASE u = t
      <4> USE <1>2, <1>3, <2>3, <3>2 DEF IInv, TxInv, NoReaction
      <4>1. onDone'[u] = NoReaction BY DEF TypeOK, ReactorTypeOK
      <4>2. Numbered(u)' BY DEF Numbered
      <4>3. OnePlace(u)' BY DEF OnePlace
      <4>4. Named(u)' BY DEF Named
      <4>5. Expected(u)' BY DEF Expected
      <4>6. Closing(u)' BY <4>1 DEF Closing, InRequest, InClose
      <4>7. Tails(u)'
        <5>1. onDone[t].op = close_completed[t]
          BY <1>1 DEF Closing
        <5> QED BY <2>4, <4>1, <5>1 DEF Tails
      <4>8. QED BY <4>2, <4>3, <4>4, <4>5, <4>6, <4>7
    <3>3. QED BY <3>1, <3>2
  <2>7. CompletionsMatch'
    <3>1. h.tx = t /\ h.op = n[t] /\ ~InRequest(t)
      BY <1>2 DEF h, InRequest, InClose
    <3>2. UNCHANGED <<n, pc>> OBVIOUS
    <3>3. QED BY <1>2, <2>1, <2>2, <3>1, <3>2, PostedMatches DEF IInv
  <2>8. MisuseOnlyAfterEarlyEnd'
    BY DEF IInv, MisuseOnlyAfterEarlyEnd
  <2>9. QED BY <2>5, <2>6, <2>7, <2>8 DEF IInv
<1>5. CASE onDone[t].op = 0
  <2> USE <1>5 DEF CallCloseSlot, streamVars, slotVars, ThrowOnGrpcThread
  <2>1. TypeOK'
    <3>1. [onDone[t] EXCEPT !.at = "thrown"] \in Reactions({"none", "called", "thrown"})
      BY <1>1 DEF Reactions
    <3>2. onDone' \in [Txs -> Reactions({"none", "called", "thrown"})]
      BY <3>1 DEF IInv, TypeOK, ReactorTypeOK
    <3>3. QED BY <3>2 DEF IInv, TypeOK, StreamTypeOK, ReactorTypeOK
  <2>2. \A u \in Txs : Queued(u)' <=> Queued(u)
    BY DEF Queued
  <2>3. ASSUME NEW u \in Txs PROVE TxInv(u)'
    <3>1. CASE u # t
      BY <2>2, <3>1, Frame DEF SameTx, IInv, TypeOK, ReactorTypeOK
    <3>2. CASE u = t
      <4> USE <1>2, <1>3, <2>2, <3>2 DEF IInv, TxInv
      <4>1. onDone'[u].at = "thrown" BY <1>1 DEF TypeOK, ReactorTypeOK, Reactions
      <4>2. Numbered(u)' BY DEF Numbered
      <4>3. OnePlace(u)' BY DEF OnePlace
      <4>4. Named(u)' BY DEF Named
      <4>5. Expected(u)' BY DEF Expected
      <4>6. Closing(u)' BY <1>1, <4>1 DEF Closing, InRequest, InClose
      <4>7. Tails(u)' BY DEF Tails
      <4>8. QED BY <4>2, <4>3, <4>4, <4>5, <4>6, <4>7
    <3>3. QED BY <3>1, <3>2
  <2>4. CompletionsMatch'
    BY CompletionsFrame DEF IInv, InRequest
  <2>5. MisuseOnlyAfterEarlyEnd'
    BY DEF IInv, MisuseOnlyAfterEarlyEnd
  <2>6. QED BY <2>1, <2>3, <2>4, <2>5 DEF IInv
<1>6. QED BY <1>4, <1>5

\* The completion at the head of the queue is for a call its coroutine awaits,
\* so completing it is defined, and a close is complete when the call is released.
LEMMA RunHandlerIInv == ASSUME IInv, RunHandler PROVE IInv'
<1> DEFINE h == Head(queue)
<1> DEFINE t == h.tx
<1>1. queue # <<>> /\ queue' = Tail(queue) /\ Up /\ IoIdle
  BY DEF RunHandler
<1>2. /\ queue' \in Seq(Handlers) /\ h \in Handlers /\ h = queue[1] /\ Queued(t)
      /\ \A u \in Txs : Queued(u)' <=> (Queued(u) /\ u # t)
  BY <1>1, Taken DEF IInv
<1>3. t \in Txs /\ h.reply \in Nat
  BY <1>2 DEF Handlers
<1>4. h.op = n[t]
  <2>1. 1 \in 1 .. Len(queue) BY <1>1 DEF IInv, TypeOK
  <2>2. QED BY <1>2, <2>1 DEF IInv, CompletionsMatch
<1>5. pc[t] \in {"awaiting", "closing"}
  BY <1>1, <1>2, <1>3 DEF IInv, TxInv, Closing, InRequest, InClose, IoIdle, OnThread
<1>6. /\ UNCHANGED <<streamVars, reactorVars, n>>
      /\ CASE h.ok /\ pc[t] = "awaiting" ->
                /\ pc' = [pc EXCEPT ![t] = "running"]
                /\ got' = [got EXCEPT ![t] = h.reply] /\ UNCHANGED process
           [] h.ok /\ pc[t] = "closing" ->
                /\ pc' = [pc EXCEPT ![t] = "closed"] /\ UNCHANGED <<got, process>>
           [] ~h.ok -> process' = "terminated" /\ UNCHANGED <<pc, got>>
  BY <1>4, <1>5 DEF RunHandler
<1> HIDE DEF h, t
<1>7. pc' = pc \/ pc' = [pc EXCEPT ![t] = IF @ = "awaiting" THEN "running" ELSE "closed"]
  BY <1>5, <1>6
<1> USE DEF streamVars, reactorVars
<1>8. TypeOK'
  <2>1. process' \in {"up", "terminated"} /\ pc' \in [Txs -> Places] /\ got' \in [Txs -> Nat]
    BY <1>1, <1>3, <1>5, <1>6 DEF IInv, TypeOK, Places, OnThread, Up
  <2>2. QED BY <1>2, <1>6, <2>1 DEF IInv, TypeOK, StreamTypeOK, ReactorTypeOK
<1>9. ASSUME NEW u \in Txs PROVE TxInv(u)'
  <2>1. CASE u # t
    BY <1>2, <1>6, <1>7, <2>1, Frame DEF SameTx, IInv, TypeOK
  <2>2. CASE u = t
    <3>1. pc'[u] = pc[u] \/ pc'[u] = IF pc[u] = "awaiting" THEN "running" ELSE "closed"
      BY <1>3, <1>7, <2>2 DEF IInv, TypeOK
    <3> USE <1>2, <1>5, <1>6, <2>2, <3>1 DEF IInv, TxInv
    <3>2. Numbered(u)' BY DEF Numbered
    <3>3. OnePlace(u)' BY DEF OnePlace
    <3>4. Named(u)' BY DEF Named, OnePlace
    <3>5. Expected(u)' BY DEF Expected
    <3>6. Closing(u)' BY DEF Closing, InRequest, InClose
    <3>7. Tails(u)' BY DEF Tails
    <3>8. QED BY <3>2, <3>3, <3>4, <3>5, <3>6, <3>7
  <2>3. QED BY <2>1, <2>2
<1>10. CompletionsMatch'
  <2>1. \A u \in Txs : u # Head(queue).tx => pc'[u] = pc[u]
    BY <1>7 DEF IInv, TypeOK, h, t
  <2>2. QED BY <1>1, <1>6, <2>1, TakenMatches DEF IInv
<1>11. MisuseOnlyAfterEarlyEnd'
  BY <1>1, <1>6, <1>5 DEF MisuseOnlyAfterEarlyEnd, Up
<1>12. QED BY <1>8, <1>9, <1>10, <1>11 DEF IInv

\* A stuttering step.
LEMMA StutterIInv == ASSUME IInv, UNCHANGED vars PROVE IInv'
<1> USE DEF vars, streamVars, reactorVars, clientVars
<1>1. TypeOK' BY DEF IInv, TypeOK, StreamTypeOK, ReactorTypeOK
<1>2. \A u \in Txs : Queued(u)' <=> Queued(u) BY DEF Queued
<1>3. ASSUME NEW u \in Txs PROVE TxInv(u)' BY <1>2, Frame DEF SameTx, IInv
<1>4. CompletionsMatch' BY CompletionsFrame DEF IInv, InRequest
<1>5. MisuseOnlyAfterEarlyEnd' BY DEF IInv, MisuseOnlyAfterEarlyEnd
<1>6. QED BY <1>1, <1>3, <1>4, <1>5 DEF IInv

\* Every step preserves the invariant.
LEMMA NextIInv == IInv /\ [Next]_vars => IInv'
<1> SUFFICES ASSUME IInv, [Next]_vars PROVE IInv'
  OBVIOUS
<1>1. ASSUME IoStep PROVE IInv'
  BY <1>1, BeginIInv, InitiateRequestIInv, StartRequestIInv, InitiateCloseIInv, StartCloseIInv,
     SuspendIInv, EndIInv, RunHandlerIInv DEF IoStep
<1>2. ASSUME NEW t \in Txs, Callback(t) PROVE IInv'
  BY <1>2, ArmReadIInv, IssueReadIInv, ThrowOnWriteIInv, PostReplyIInv, CallCloseSlotIInv,
     CallbackReturnsIInv
  DEF Callback
<1>3. ASSUME NEW t \in Txs,
             \/ WriteDone(t) \/ ReadDone(t) \/ CallDone(t)
             \/ ServerFinishes(t) \/ StreamBreaks(t)
      PROVE  IInv'
  BY <1>3, WriteDoneIInv, ReadDoneIInv, CallDoneIInv, ServerFinishesIInv, StreamBreaksIInv
<1>4. CASE UNCHANGED vars BY <1>4, StutterIInv
<1>5. QED BY <1>1, <1>2, <1>3, <1>4 DEF Next

\* The inductive invariant holds in every state of every behaviour.
THEOREM Invariance == Spec => []IInv
BY InitIInv, NextIInv, PTL DEF Spec

-----------------------------------------------------------------------------
\* Every variable keeps its type; no handler is posted for an empty callback.
THEOREM TypeCorrect == Spec => []TypeOK
<1>1. IInv => TypeOK BY DEF IInv
<1>2. QED BY <1>1, Invariance, PTL

\* Every posted completion is the only one of its transaction, for the call
\* being awaited, with the reply to it: no stale pair_ reaches a coroutine.
THEOREM CompletionsAlwaysMatch == Spec => []CompletionsMatch
<1>1. IInv => CompletionsMatch BY DEF IInv
<1>2. QED BY <1>1, Invariance, PTL

\* The reactor's single slots are never overwritten while an operation is outstanding, nor
\* while its callback, on whatever thread, has something left to do; afterwards, under a
\* callback that has only to return, they are overwritten by later calls only.
THEOREM SlotsAlwaysOwned == Spec => []SlotsOwned
<1>1. IInv => SlotsOwned
  BY ZenonT(60) DEF IInv, TxInv, Named, Closing, InClose, Tails, SlotsOwned, TypeOK,
     ReactorTypeOK, Reactions, Slots
<1>2. QED BY <1>1, Invariance, PTL

\* A transaction is destroyed only when gRPC has released its call and nothing refers to its
\* reactor any more, but for the OnDone that let it go and has only to return.
THEOREM DestructionIsSafe == Spec => []DestroyedQuiescent
<1>1. IInv => DestroyedQuiescent
  BY ZenonT(60) DEF IInv, TxInv, OnePlace, Closing, Tails, InRequest, InClose, Queued,
     DestroyedQuiescent, TypeOK,
         StreamTypeOK, ReactorTypeOK, Slots, Handlers
<1>2. QED BY <1>1, Invariance, PTL

\* The rules of gRPC are broken only after the server ended a stream early.
THEOREM MisuseNeedsEarlyEnd == Spec => []MisuseOnlyAfterEarlyEnd
<1>1. IInv => MisuseOnlyAfterEarlyEnd BY DEF IInv
<1>2. QED BY <1>1, Invariance, PTL

-----------------------------------------------------------------------------
(* StaysUp: the process goes down only if a stream failed or ended early.    *)

\* What failed, wherever it is told of, failed because the stream had ended; a close
\* that failed, because it ended with an error.
Told(t) ==
    /\ released[t] => status[t] # "open"
    /\ onWrite[t].at = "called" /\ ~onWrite[t].ok => status[t] # "open"
    /\ onRead[t].at = "called" /\ ~onRead[t].ok => status[t] # "open"
    /\ onDone[t].at = "called" =>
          /\ onDone[t].ok \/ status[t] # "ok"
          /\ onDone[t].op = 0 => ~halfClosed[t]
    /\ \A i \in 1 .. Len(queue) : queue[i].tx = t /\ ~queue[i].ok =>
          status[t] # "open" /\ (InClose(t) => status[t] = "error")

AllTold == \A t \in Txs : Told(t)

\* The stream of a transaction ends once.
LEMMA EndsOnce ==
  ASSUME IInv, Next, NEW u \in Txs, status[u] # "open"
  PROVE  status'[u] = status[u]
BY ZenonT(60) DEF Next, IoStep, Begin, InitiateRequest, StartRequest, StartWrite, InitiateClose,
   StartClose,
       StartWritesDone, Suspend, End, RunHandler, Callback, ArmRead, IssueRead, StartRead,
       ThrowOnWrite, PostReply, CallCloseSlot, WriteDone, OnWriteDone, WriteCompletes, ReadDone,
       OnReadDone, ReadCompletes, CallDone, OnDone, ReleaseCall, ServerFinishes, FinishStream,
       StreamBreaks, BreakStream, CallbackReturns, streamVars, IInv, TypeOK, StreamTypeOK

\* The steps of the io_context thread but for the handlers.
LEMMA ClientTold ==
  ASSUME IInv, AllTold, NEW t \in Txs,
         \/ Begin(t) \/ InitiateRequest(t) \/ StartRequest(t) \/ InitiateClose(t)
         \/ StartClose(t) \/ Suspend(t) \/ End(t)
  PROVE  AllTold'
<1>1. /\ UNCHANGED <<status, released, onWrite, onRead, onDone, queue>>
  BY DEF Begin, InitiateRequest, StartRequest, StartWrite, InitiateClose, StartClose,
         StartWritesDone, Suspend, End, streamVars, reactorVars, reactionVars
<1>2. ASSUME NEW u \in Txs PROVE Told(u)'
  <2>1. halfClosed'[u] => halfClosed[u] \/ ~released[u]
    BY DEF Begin, InitiateRequest, StartRequest, StartWrite, InitiateClose, StartClose,
           StartWritesDone, WritesDoneAllowed, Suspend, End, streamVars, IInv, TypeOK, StreamTypeOK
  <2>2. onDone[u].at # "none" => released[u]
    BY DEF IInv, TxInv, Closing
  <2>3. InClose(u)' => InClose(u) \/ ~Queued(u)
    <3>1. pc[u] \notin {"started", "awaiting", "closeStored", "closeStarted", "closing"} => ~Queued(u)
      BY DEF IInv, TxInv, Closing, InRequest, InClose
    <3>2. QED
      BY <3>1 DEF Begin, InitiateRequest, StartRequest, InitiateClose, StartClose, Suspend, End,
                  InClose, IInv, TypeOK
  <2>4. QED BY <1>1, <2>1, <2>2, <2>3 DEF AllTold, Told, Queued
<1>3. QED BY <1>2 DEF AllTold

\* The steps of gRPC and of the callbacks that post nothing.
LEMMA GrpcTold ==
  ASSUME IInv, AllTold, Next, NEW t \in Txs,
         \/ ArmRead(t) \/ IssueRead(t) \/ ThrowOnWrite(t)
         \/ WriteDone(t) \/ ReadDone(t) \/ CallDone(t) \/ ServerFinishes(t) \/ StreamBreaks(t)
         \/ CallbackReturns(t)
  PROVE  AllTold'
<1>1. /\ UNCHANGED <<halfClosed, pc, queue>>
  BY DEF ArmRead, IssueRead, StartRead, ThrowOnWrite, WriteDone, OnWriteDone, WriteCompletes,
         ReadDone, OnReadDone, ReadCompletes, CallDone, OnDone, ReleaseCall, ServerFinishes,
         FinishStream, StreamBreaks, BreakStream, CallbackReturns, ReactionReturns, streamVars,
         clientVars
<1>2. ASSUME NEW u \in Txs PROVE Told(u)'
  <2> USE DEF IInv, TypeOK, StreamTypeOK, ReactorTypeOK, Reactions
  <2>1. status[u] # "open" => status'[u] = status[u]
    BY EndsOnce
  <2>2. /\ (released'[u] => status'[u] # "open")
        /\ (onWrite'[u].at = "called" /\ ~onWrite'[u].ok => status'[u] # "open")
    <3>1. ~released[u] /\ released'[u] => status[u] # "open"
      BY DEF ArmRead, IssueRead, StartRead, ThrowOnWrite, WriteDone, OnWriteDone, WriteCompletes,
             ReadDone, OnReadDone, ReadCompletes, CallDone, OnDone, ReleaseCall, ServerFinishes,
             FinishStream, StreamBreaks, BreakStream, CallbackReturns, ReactionReturns, streamVars
    <3>2. onWrite'[u] = onWrite[u] \/ onWrite'[u].at # "called" \/ onWrite'[u].ok
          \/ status[u] # "open"
      <4>1. CASE WriteDone(t)
        <5>1. PICK ok \in BOOLEAN : /\ ok \/ status[t] # "open"
                 /\ onWrite' = [onWrite EXCEPT ![t] =
                      [at |-> "called", op |-> write_completed[t], ok |-> ok, reply |-> 0]]
          BY <4>1 DEF WriteDone, OnWriteDone, WriteCompletes
        <5>2. QED BY <5>1
      <4>2. CASE ~WriteDone(t)
        <5>1. \/ UNCHANGED onWrite
              \/ /\ \A v \in Txs \ {t} : onWrite'[v] = onWrite[v]
                 /\ onWrite'[t].at \in {"none", "armed", "thrown"}
          <6>1. ArmRead(t) => onWrite'[t].at = "armed"
            BY DEF ArmRead
          <6>2. IssueRead(t) => onWrite'[t].at = "none"
            BY DEF IssueRead, NoReaction
          <6>3. ThrowOnWrite(t) => onWrite'[t].at = "thrown"
            BY DEF ThrowOnWrite
          <6>4. QED
            BY <4>2, <6>1, <6>2, <6>3
            DEF ArmRead, IssueRead, ThrowOnWrite, ReadDone, OnReadDone, CallDone, OnDone,
                ServerFinishes, StreamBreaks, CallbackReturns, ReactionReturns, reactorVars
        <5>2. QED BY <5>1
      <4>3. QED BY <4>1, <4>2
    <3>3. QED BY <2>1, <3>1, <3>2 DEF AllTold, Told
  <2>3. onRead'[u].at = "called" /\ ~onRead'[u].ok => status'[u] # "open"
    <3>1. onRead'[u] = onRead[u] \/ onRead'[u].ok \/ status[u] # "open"
      <4>1. CASE ReadDone(t)
        <5>1. PICK ok \in BOOLEAN : /\ ok \/ status[t] # "open"
                 /\ onRead' = [onRead EXCEPT ![t] =
                      [at |-> "called", op |-> read_completed[t], ok |-> ok, reply |-> pair'[t]]]
          BY <4>1 DEF ReadDone, OnReadDone, ReadCompletes
        <5>2. QED BY <5>1
      <4>2. CASE ~ReadDone(t)
        BY <4>2 DEF ArmRead, IssueRead, ThrowOnWrite, WriteDone, OnWriteDone, CallDone, OnDone,
                    ServerFinishes, StreamBreaks, CallbackReturns, ReactionReturns, reactorVars
      <4>3. QED BY <4>1, <4>2
    <3>2. QED BY <2>1, <3>1 DEF AllTold, Told
  <2>4. onDone'[u].at = "called" =>
          (onDone'[u].ok \/ status'[u] # "ok") /\ (onDone'[u].op = 0 => ~halfClosed'[u])
    <3>1. CASE CallDone(t) /\ u = t
      <4>1. onDone'[u].ok = (status[u] = "ok") /\ onDone'[u].op = close_completed[u]
            /\ status'[u] = status[u]
        BY <3>1 DEF CallDone, OnDone, ReleaseCall
      <4>2. close_completed[u] = 0 => ~halfClosed[u]
        BY DEF TxInv, Closing, Numbered, InClose
      <4>3. QED BY <1>1, <4>1, <4>2
    <3>2. CASE ~(CallDone(t) /\ u = t)
      <4>1. onDone'[u] = onDone[u]
        BY <3>2 DEF ArmRead, IssueRead, ThrowOnWrite, WriteDone, OnWriteDone, ReadDone, OnReadDone,
                    CallDone, OnDone, ServerFinishes, StreamBreaks, CallbackReturns,
                    ReactionReturns, reactorVars
      <4>2. onDone[u].at # "none" => released[u] BY DEF TxInv, Closing
      <4>3. QED BY <1>1, <2>1, <4>1, <4>2 DEF AllTold, Told
    <3>3. QED BY <3>1, <3>2
  <2>5. \A i \in 1 .. Len(queue') : queue'[i].tx = u /\ ~queue'[i].ok =>
          status'[u] # "open" /\ (InClose(u)' => status'[u] = "error")
    BY <1>1, <2>1 DEF AllTold, Told, InClose
  <2>6. QED BY <2>2, <2>3, <2>4, <2>5 DEF Told
<1>3. QED BY <1>2 DEF AllTold

\* A failure is told on: by the callbacks to the handler.
LEMMA PostTold ==
  ASSUME IInv, AllTold, NEW t \in Txs, PostReply(t) \/ CallCloseSlot(t)
  PROVE  AllTold'
<1>1. UNCHANGED <<status, released, halfClosed, onWrite, pc>>
  BY DEF PostReply, CallCloseSlot, streamVars
<1>2. ASSUME NEW u \in Txs
      PROVE  /\ onRead'[u] = onRead[u] \/ onRead'[u].at # "called"
             /\ onDone'[u] = onDone[u] \/ onDone'[u].at # "called"
  <2>1. CASE PostReply(t) BY <2>1 DEF PostReply, NoReaction, IInv, TypeOK, StreamTypeOK, ReactorTypeOK, Reactions
  <2>2. CASE CallCloseSlot(t)
    <3>1. onDone'[t].at # "called"
      <4>1. onDone[t] \in Reactions({"none", "called", "thrown"})
        BY DEF IInv, TypeOK, ReactorTypeOK
      <4>3. CASE onDone[t].op # 0
        BY <2>2, <4>3 DEF CallCloseSlot, NoReaction, IInv, TypeOK, ReactorTypeOK
      <4>4. CASE onDone[t].op = 0
        <5>1. onDone' = [onDone EXCEPT ![t].at = "thrown"] BY <2>2, <4>4 DEF CallCloseSlot
        <5>2. QED BY <4>1, <5>1 DEF Reactions, IInv, TypeOK, ReactorTypeOK
      <4>5. QED BY <4>3, <4>4
    <3>2. UNCHANGED onRead /\ (u # t => onDone'[u] = onDone[u])
      BY <2>2 DEF CallCloseSlot, IInv, TypeOK, StreamTypeOK, ReactorTypeOK, Reactions
    <3>3. QED BY <3>1, <3>2
  <2>3. QED BY <2>1, <2>2
<1>3. CASE UNCHANGED queue
  <2>1. ASSUME NEW u \in Txs PROVE Told(u)'
    BY <1>1, <1>2, <1>3 DEF AllTold, Told, InClose
  <2>2. QED BY <2>1 DEF AllTold
<1>4. CASE ~UNCHANGED queue
  <2>1. PICK h \in Handlers :
          /\ queue' = Append(queue, h) /\ h.tx = t
          /\ ~h.ok => status[t] # "open" /\ (InClose(t) => status[t] = "error")
    <3>1. CASE PostReply(t)
      <4> DEFINE h == [tx |-> t, op |-> onRead[t].op, ok |-> onRead[t].ok, reply |-> onRead[t].reply]
      <4>1. queue' = Append(queue, h) /\ onRead[t].at = "called" BY <3>1 DEF PostReply
      <4>2. InRequest(t) /\ onRead[t].op = n[t] /\ n[t] # 0
        BY <4>1 DEF IInv, TypeOK, TxInv, OnePlace, Named, Numbered, InRequest
      <4>3. h \in Handlers
        BY <4>2 DEF Handlers, IInv, TypeOK, StreamTypeOK, ReactorTypeOK, Reactions
      <4>4. ~h.ok => status[t] # "open" BY <4>1 DEF AllTold, Told
      <4>5. ~InClose(t) BY <4>2 DEF InRequest, InClose
      <4>6. h.tx = t OBVIOUS
      <4> HIDE DEF h
      <4>7. QED BY <4>1, <4>3, <4>4, <4>5, <4>6
    <3>2. CASE CallCloseSlot(t)
      <4> DEFINE h == [tx |-> t, op |-> onDone[t].op, ok |-> onDone[t].ok, reply |-> 0]
      <4>1. queue' = Append(queue, h) /\ onDone[t].at = "called" /\ onDone[t].op # 0
        BY <1>4, <3>2 DEF CallCloseSlot
      <4>2. h \in Handlers
        BY <4>1 DEF Handlers, IInv, TypeOK, StreamTypeOK, ReactorTypeOK, Reactions
      <4>3. released[t] BY <4>1 DEF IInv, TxInv, Closing
      <4>4. ~h.ok => status[t] = "error"
        BY <4>1, <4>3 DEF AllTold, Told, IInv, TypeOK, StreamTypeOK
      <4>5. h.tx = t OBVIOUS
      <4>6. status[t] = "error" => status[t] # "open" OBVIOUS
      <4> HIDE DEF h
      <4>7. QED BY <4>1, <4>2, <4>4, <4>5, <4>6
    <3>3. QED BY <3>1, <3>2
  <2>2. /\ Len(queue') = Len(queue) + 1 /\ Len(queue) \in Nat
        /\ \A i \in 1 .. Len(queue) : queue'[i] = queue[i]
        /\ queue'[Len(queue) + 1] = h
    <3>1. TypeOK BY DEF IInv
    <3>2. Len(queue) \in Nat BY <3>1 DEF TypeOK
    <3>3. QED BY <2>1, <3>1, <3>2, Posted
  <2>3. ASSUME NEW u \in Txs, NEW i \in 1 .. Len(queue')
        PROVE  queue'[i].tx = u /\ ~queue'[i].ok =>
                  status[u] # "open" /\ (InClose(u) => status[u] = "error")
    <3>1. CASE i \in 1 .. Len(queue)
      <4>1. queue'[i] = queue[i] BY <2>2, <3>1
      <4>2. QED BY <3>1, <4>1 DEF AllTold, Told
    <3>2. CASE i = Len(queue) + 1
      <4>1. queue'[i] = h BY <2>2, <3>2
      <4>2. QED BY <2>1, <4>1 DEF Handlers
    <3>3. QED BY <2>2, <3>1, <3>2
  <2>4. QED BY <1>1, <1>2, <2>3 DEF AllTold, Told, InClose
<1>5. QED BY <1>3, <1>4

\* The handlers take what they were told away.
LEMMA HandlerTold == ASSUME IInv, AllTold, RunHandler PROVE AllTold'
<1>1. UNCHANGED <<status, released, halfClosed, onWrite, onRead, onDone>>
  BY DEF RunHandler, streamVars, reactorVars
<1>2. /\ Len(queue') = Len(queue) - 1 /\ Len(queue) \in Nat
      /\ \A i \in 1 .. Len(queue') : queue'[i] = queue[i + 1]
  BY Taken DEF RunHandler, IInv, TypeOK
<1>3. ASSUME NEW u \in Txs PROVE InClose(u)' => InClose(u)
  BY DEF RunHandler, InClose, IInv, TypeOK
<1>4. ASSUME NEW u \in Txs, NEW i \in 1 .. Len(queue'), queue'[i].tx = u, ~queue'[i].ok
      PROVE  status[u] # "open" /\ (InClose(u) => status[u] = "error")
  <2>1. i + 1 \in 1 .. Len(queue) /\ queue'[i] = queue[i + 1] BY <1>2
  <2>2. QED BY <1>4, <2>1 DEF AllTold, Told
<1>5. QED BY <1>1, <1>3, <1>4 DEF AllTold, Told

LEMMA NextTold == IInv /\ AllTold /\ [Next]_vars => AllTold'
<1> SUFFICES ASSUME IInv, AllTold, [Next]_vars PROVE AllTold'
  OBVIOUS
<1>1. CASE UNCHANGED vars
  BY <1>1 DEF vars, streamVars, reactorVars, clientVars, AllTold, Told, InClose
<1>2. CASE Next
  BY <1>2, ClientTold, GrpcTold, PostTold, HandlerTold DEF Next, IoStep, Callback
<1>3. QED BY <1>1, <1>2

\* Whatever ends the process was told of a stream that failed or ended early.
LEMMA NextStaysUp == IInv /\ IInv' /\ AllTold /\ StaysUp /\ [Next]_vars => StaysUp'
<1> SUFFICES ASSUME IInv, IInv', AllTold, StaysUp, [Next]_vars PROVE StaysUp'
  OBVIOUS
<1>1. CASE UNCHANGED vars BY <1>1 DEF vars, streamVars, clientVars, StaysUp, Up
<1>2. CASE Next /\ process' = "up" BY <1>2 DEF StaysUp, Up
<1>3. CASE Next /\ process' = "undefined"
  <2>1. AllTold' BY NextTold
  <2>2. QED BY <1>3, <2>1 DEF IInv, MisuseOnlyAfterEarlyEnd, StaysUp, AllTold, Told
<1>4. CASE Next /\ process' = "terminated"
  <2>1. Up BY <1>4 DEF Next, IoStep, Begin, InitiateRequest, StartRequest, InitiateClose, StartClose,
       Suspend, End, RunHandler, Callback, ArmRead, IssueRead, ThrowOnWrite, PostReply,
       CallCloseSlot, WriteDone, ReadDone, CallDone, ServerFinishes, StreamBreaks,
       CallbackReturns
  <2>2. \/ \E t \in Txs : ThrowOnWrite(t) \/ (CallCloseSlot(t) /\ onDone[t].op = 0)
        \/ RunHandler /\ ~Head(queue).ok
    BY <1>4, <2>1
    DEF Next, IoStep, Begin, InitiateRequest, StartRequest, InitiateClose, StartClose,
       Suspend, End, RunHandler, Callback, ArmRead, IssueRead, PostReply,
       CallCloseSlot, WriteDone, ReadDone, CallDone, ServerFinishes, StreamBreaks,
       CallbackReturns, clientVars, Up
  <2>3. ASSUME NEW t \in Txs, ThrowOnWrite(t) PROVE StaysUp'
    <3>1. onWrite[t].at = "called" /\ ~onWrite[t].ok /\ InRequest(t)
      BY <2>3 DEF ThrowOnWrite, IInv, TxInv, OnePlace, Named, Numbered, InRequest
    <3>2. status[t] # "open" /\ ~halfClosed[t]
      BY <3>1 DEF AllTold, Told, IInv, TxInv, Closing, InRequest
    <3>3. QED BY <2>3, <3>2 DEF ThrowOnWrite, streamVars, StaysUp
  <2>4. ASSUME NEW t \in Txs, CallCloseSlot(t), onDone[t].op = 0 PROVE StaysUp'
    <3>1. status[t] # "open" /\ ~halfClosed[t]
      BY <2>4 DEF CallCloseSlot, AllTold, Told, IInv, TxInv, Closing
    <3>2. QED BY <2>4, <3>1 DEF CallCloseSlot, streamVars, StaysUp
  <2>5. ASSUME RunHandler, ~Head(queue).ok PROVE StaysUp'
    <3> DEFINE t == Head(queue).tx
    <3>1. 1 \in 1 .. Len(queue) /\ Head(queue) = queue[1] /\ Head(queue) \in Handlers /\ Queued(t)
      <4>1. queue \in Seq(Handlers) /\ queue # <<>> BY <2>5 DEF RunHandler, IInv, TypeOK
      <4>2. 1 \in 1 .. Len(queue) /\ Head(queue) = queue[1] /\ Head(queue) \in Handlers BY <4>1
      <4>3. QED BY <4>2 DEF Queued
    <3>2. t \in Txs BY <3>1 DEF Handlers
    <3>3. status[t] # "open" /\ (InClose(t) => status[t] = "error")
      BY <2>5, <3>1, <3>2 DEF AllTold, Told
    <3>4. InRequest(t) \/ InClose(t) BY <3>1, <3>2 DEF IInv, TxInv, Closing
    <3>5. InRequest(t) => ~halfClosed[t] BY <3>2 DEF IInv, TxInv, Closing, InRequest
    <3>6. QED BY <2>5, <3>2, <3>3, <3>4, <3>5 DEF RunHandler, streamVars, StaysUp
  <2>6. QED BY <2>2, <2>3, <2>4, <2>5
<1>5. QED BY <1>2, <1>3, <1>4, <1>1 DEF IInv, TypeOK

\* Nothing throws and nothing is undefined as long as the streams last: whatever takes
\* the process down can be traced to a stream that failed or ended before its half-close.
THEOREM StaysUpWhileStreamsLast == Spec => []StaysUp
<1>1. Init => AllTold /\ StaysUp
  BY DEF Init, StreamInit, ReactorInit, NoReaction, AllTold, Told, StaysUp, Up
<1>2. IInv /\ IInv' /\ (AllTold /\ StaysUp) /\ [Next]_vars => (AllTold /\ StaysUp)'
  BY NextTold, NextStaysUp
<1>3. QED BY <1>1, <1>2, Invariance, PTL DEF Spec

-----------------------------------------------------------------------------
(* No call is stranded: whoever waits, waits for something that can come.    *)

\* A request that was started is in one of the places of OnePlace or in the queue; a
\* read is awaited only for a reply that is there, or of a stream that has ended; a
\* close whose call was released has its completion in the callback or in the queue.
Somewhere(t) ==
    /\ InRequest(t) => \/ writing[t] # 0 \/ onWrite[t].at # "none"
                       \/ reading[t] \/ onRead[t].at # "none" \/ Queued(t)
    /\ onWrite[t].at = "armed" => onWrite[t].ok
    /\ reading[t] \/ (onWrite[t].at \in {"called", "armed"} /\ onWrite[t].ok)
          => wire[t] # <<>> \/ status[t] # "open"
    /\ pc[t] \in {"closeStarted", "closing"} /\ released[t]
          => Queued(t) \/ (onDone[t].at = "called" /\ onDone[t].op # 0)

AllSomewhere == Up => \A t \in Txs : Somewhere(t)

\* A transaction whose own state is untouched keeps its calls.
LEMMA SomewhereFrame ==
  ASSUME NEW u \in Txs, Somewhere(u), SameTx(u), status'[u] = status[u]
  PROVE  Somewhere(u)'
BY DEF Somewhere, SameTx, InRequest

\* A request starts in the hands of gRPC, a close on a call that was not released; what
\* does not start a call leaves its coroutine in none, or where it is.
LEMMA ClientSomewhere ==
  ASSUME IInv, AllSomewhere, NEW t \in Txs, Up',
         \/ Begin(t) \/ InitiateRequest(t) \/ StartRequest(t) \/ InitiateClose(t)
         \/ StartClose(t) \/ Suspend(t) \/ End(t)
  PROVE  \A u \in Txs : Somewhere(u)'
<1>1. UNCHANGED <<reading, wire, status, released, onWrite, onRead, onDone, queue>>
  BY DEF Begin, InitiateRequest, StartRequest, StartWrite, InitiateClose, StartClose,
         StartWritesDone, Suspend, End, streamVars, reactorVars, reactionVars
<1>2. \A u \in Txs : Queued(u)' <=> Queued(u)
  BY <1>1 DEF Queued
<1>3. Up
  BY DEF Begin, InitiateRequest, StartRequest, InitiateClose, StartClose, Suspend, End
<1>4. ASSUME NEW u \in Txs
      PROVE  /\ pc'[u] \in {"started", "awaiting"} =>
                  \/ pc[u] \in {"started", "awaiting"} /\ writing'[u] = writing[u]
                  \/ writing'[u] # 0
             /\ pc'[u] \in {"closeStarted", "closing"} =>
                  pc[u] \in {"closeStarted", "closing"} \/ ~released[u]
  <2> USE DEF IInv, TypeOK, StreamTypeOK
  <2>1. CASE StartRequest(t)
    <3>1. n[t] # 0
      BY <2>1 DEF StartRequest, TxInv, Numbered
    <3> QED BY <2>1, <3>1 DEF StartRequest, StartWrite, streamVars, Up
  <2>2. CASE StartClose(t)
    BY <2>2 DEF StartClose, StartWritesDone, WritesDoneAllowed, streamVars, Up
  <2>3. CASE Begin(t) \/ InitiateRequest(t) \/ InitiateClose(t) \/ End(t)
    BY <2>3 DEF Begin, InitiateRequest, InitiateClose, End, streamVars
  <2>4. CASE Suspend(t)
    BY <2>4 DEF Suspend, streamVars
  <2> QED BY <2>1, <2>2, <2>3, <2>4
<1>5. ASSUME NEW u \in Txs PROVE Somewhere(u)'
  <2>1. Somewhere(u)
    BY <1>3 DEF AllSomewhere
  <2> QED BY <1>1, <1>2, <1>4, <2>1 DEF Somewhere, InRequest
<1> QED BY <1>5

\* gRPC ends a write: its reply is coming, or the stream has ended.
LEMMA WriteDoneSomewhere ==
  ASSUME IInv, AllSomewhere, NEW t \in Txs, WriteDone(t)
  PROVE  \A u \in Txs : Somewhere(u)'
<1> USE DEF IInv, TypeOK, StreamTypeOK, ReactorTypeOK
<1>1. PICK ok \in BOOLEAN :
        /\ WriteCompletes(t, ok)
        /\ onWrite' = [onWrite EXCEPT ![t] =
              [at |-> "called", op |-> write_completed[t], ok |-> ok, reply |-> 0]]
        /\ UNCHANGED <<slotVars, pair, onRead, onDone, returning, clientVars>> /\ Up
  BY DEF WriteDone, OnWriteDone
<1>2. \A u \in Txs : Queued(u)' <=> Queued(u)
  BY <1>1 DEF Queued, clientVars
<1>3. ASSUME NEW u \in Txs, u # t PROVE Somewhere(u)'
  BY <1>1, <1>2, <1>3, SomewhereFrame DEF SameTx, WriteCompletes, clientVars, slotVars, AllSomewhere
<1>4. Somewhere(t)'
  <2>1. onWrite'[t].at = "called" /\ onWrite'[t].ok = ok /\ ~reading[t]
    BY <1>1 DEF TxInv, OnePlace, WriteCompletes
  <2>2. reading' = reading /\ status' = status /\ released' = released
    BY <1>1 DEF WriteCompletes
  <2>3. ok => wire'[t] # <<>> \/ status[t] # "open"
    <3>1. wire[t] \in Seq(Nat)
      OBVIOUS
    <3>2. ok /\ status[t] = "open" => wire'[t] = Append(wire[t], writing[t])
      BY <1>1 DEF WriteCompletes
    <3> QED BY <3>1, <3>2
  <2>4. ~(pc'[t] \in {"closeStarted", "closing"})
    BY <1>1 DEF TxInv, OnePlace, InRequest, WriteCompletes, clientVars
  <2> QED BY <2>1, <2>2, <2>3, <2>4 DEF Somewhere
<1> QED BY <1>3, <1>4

\* The other steps of gRPC and the server, and the callbacks that post nothing.
LEMMA GrpcSomewhere ==
  ASSUME IInv, AllSomewhere, NEW t \in Txs, Up',
         \/ ArmRead(t) \/ IssueRead(t) \/ ThrowOnWrite(t) \/ ReadDone(t) \/ CallDone(t)
         \/ ServerFinishes(t) \/ StreamBreaks(t) \/ CallbackReturns(t)
  PROVE  \A u \in Txs : Somewhere(u)'
<1> USE DEF IInv, TypeOK, StreamTypeOK, ReactorTypeOK
<1>1. UNCHANGED <<pc, n, queue, writing, halfClosed>> /\ Up
  BY DEF ArmRead, IssueRead, StartRead, ThrowOnWrite, ReadDone, OnReadDone, ReadCompletes,
         CallDone, OnDone, ReleaseCall, ServerFinishes, FinishStream, StreamBreaks, BreakStream,
         CallbackReturns, ReactionReturns, streamVars, clientVars
<1>2. \A u \in Txs : Queued(u)' <=> Queued(u)
  BY <1>1 DEF Queued
<1>3. Somewhere(t) /\ TxInv(t)
  BY <1>1 DEF AllSomewhere
<1>4. ASSUME NEW u \in Txs, u # t PROVE Somewhere(u)'
  <2>1. /\ reading'[u] = reading[u] /\ wire'[u] = wire[u] /\ status'[u] = status[u]
        /\ released'[u] = released[u] /\ onWrite'[u] = onWrite[u]
        /\ onRead'[u] = onRead[u] /\ onDone'[u] = onDone[u]
    BY SMTT(40), <1>4 DEF ArmRead, IssueRead, StartRead, ThrowOnWrite, ReadDone, OnReadDone,
       ReadCompletes,
                CallDone, OnDone, ReleaseCall, ServerFinishes, FinishStream, StreamBreaks,
                BreakStream, CallbackReturns, ReactionReturns, streamVars, reactorVars
  <2>2. Somewhere(u)
    BY <1>1 DEF AllSomewhere
  <2> QED BY <1>1, <1>2, <2>1, <2>2 DEF Somewhere, InRequest
<1>5. Somewhere(t)'
  <2>1. CASE ArmRead(t)
    <3>1. /\ onWrite[t].ok /\ onWrite[t].at = "called"
          /\ onWrite'[t].at = "armed" /\ onWrite'[t].ok = onWrite[t].ok
          /\ UNCHANGED <<streamVars, onRead, onDone>>
      BY <2>1 DEF ArmRead, Reactions
    <3> QED BY <1>1, <1>2, <1>3, <3>1 DEF Somewhere, streamVars
  <2>2. CASE IssueRead(t)
    <3>1. /\ onWrite[t].at = "armed" /\ onWrite'[t].at = "none" /\ reading'[t] = TRUE
          /\ UNCHANGED <<wire, status, released, onRead, onDone>>
      BY <2>2 DEF IssueRead, StartRead, Up, NoReaction
    <3> QED BY <1>1, <1>2, <1>3, <3>1 DEF Somewhere
  <2>3. CASE ThrowOnWrite(t)
    <3>1. /\ onWrite[t].at = "called" /\ onWrite'[t].at = "thrown"
          /\ UNCHANGED <<streamVars, onRead, onDone>>
      BY <2>3 DEF ThrowOnWrite, Reactions
    <3> QED BY <1>1, <1>2, <1>3, <3>1 DEF Somewhere, streamVars
  <2>4. CASE ReadDone(t)
    <3>1. /\ reading[t] /\ reading'[t] = FALSE /\ onRead'[t].at = "called"
          /\ UNCHANGED <<status, released, onWrite, onDone>>
      <4>1. PICK ok \in BOOLEAN :
              /\ ReadCompletes(t, ok)
              /\ onRead' = [onRead EXCEPT ![t] =
                    [at |-> "called", op |-> read_completed[t], ok |-> ok, reply |-> pair'[t]]]
        BY <2>4 DEF ReadDone, OnReadDone
      <4> QED BY <2>4, <4>1 DEF ReadDone, OnReadDone, ReadCompletes
    <3>2. onWrite[t].at = "none"
      BY <1>3, <3>1 DEF TxInv, OnePlace
    <3> QED BY <1>1, <1>2, <1>3, <3>1, <3>2 DEF Somewhere
  <2>5. CASE CallDone(t)
    <3>1. /\ UNCHANGED <<reading, wire, status, onWrite, onRead>>
          /\ onDone'[t].at = "called" /\ onDone'[t].op = close_completed[t]
      BY <2>5 DEF CallDone, OnDone, ReleaseCall
    <3>2. pc[t] \in {"closeStarted", "closing"} => close_completed[t] # 0
      BY <1>3 DEF TxInv, Closing, InClose, Numbered
    <3> QED BY <1>1, <1>2, <1>3, <3>1, <3>2 DEF Somewhere, InRequest
  <2>6. CASE ServerFinishes(t) \/ StreamBreaks(t)
    <3>1. /\ status'[t] # "open"
          /\ UNCHANGED <<reading, released, onWrite, onRead, onDone>>
      BY <2>6 DEF ServerFinishes, FinishStream, StreamBreaks, BreakStream, reactorVars
    <3> QED BY <1>1, <1>2, <1>3, <3>1 DEF Somewhere, InRequest
  <2>7. CASE CallbackReturns(t)
    <3>1. UNCHANGED <<streamVars, onWrite, onRead, onDone>>
      BY <2>7 DEF CallbackReturns, ReactionReturns
    <3> QED BY <1>1, <1>2, <1>3, <3>1 DEF Somewhere, InRequest, streamVars
  <2> QED BY <2>1, <2>2, <2>3, <2>4, <2>5, <2>6, <2>7
<1> QED BY <1>4, <1>5

\* A callback that is done with a call has put its completion into the queue.
LEMMA PostSomewhere ==
  ASSUME IInv, AllSomewhere, NEW t \in Txs, PostReply(t) \/ CallCloseSlot(t)
  PROVE  \A u \in Txs : Somewhere(u)'
<1> USE DEF IInv, TypeOK, StreamTypeOK, ReactorTypeOK
<1>1. UNCHANGED <<streamVars, onWrite, pc, n>> /\ Up
  BY DEF PostReply, CallCloseSlot
<1>2. \A u \in Txs : Queued(u) => Queued(u)'
  <2>1. queue' = queue \/ \E h : queue' = Append(queue, h)
    BY DEF PostReply, CallCloseSlot
  <2>2. CASE queue' = queue
    BY <2>2 DEF Queued
  <2>3. ASSUME NEW h, queue' = Append(queue, h) PROVE \A u \in Txs : Queued(u) => Queued(u)'
    <3>1. /\ Len(queue) \in Nat /\ Len(queue') = Len(queue) + 1
          /\ \A i \in 1 .. Len(queue) : queue'[i] = queue[i]
      BY <2>3
    <3>2. ASSUME NEW u \in Txs, NEW i \in 1 .. Len(queue), queue[i].tx = u PROVE Queued(u)'
      <4>1. i \in 1 .. Len(queue') /\ queue'[i].tx = u
        BY SMTT(40), <3>1, <3>2
      <4> QED BY <4>1 DEF Queued
    <3> QED BY <3>2 DEF Queued
  <2> QED BY <2>1, <2>2, <2>3
<1>3. ASSUME NEW u \in Txs, u # t PROVE Somewhere(u)'
  <2>1. onRead'[u] = onRead[u] /\ onDone'[u] = onDone[u]
    BY <1>3 DEF PostReply, CallCloseSlot
  <2>2. Somewhere(u)
    BY <1>1 DEF AllSomewhere
  <2> QED BY <1>1, <1>2, <2>1, <2>2 DEF Somewhere, InRequest, streamVars
<1>4. Somewhere(t) /\ TxInv(t)
  BY <1>1 DEF AllSomewhere
<1>5. \/ Queued(t)'
      \/ onRead' = onRead /\ onDone[t].op = 0
  <2>1. CASE PostReply(t)
    <3> DEFINE h == [tx |-> t, op |-> onRead[t].op, ok |-> onRead[t].ok, reply |-> onRead[t].reply]
    <3>1. queue' = Append(queue, h) /\ h.tx = t
      BY <2>1 DEF PostReply
    <3> HIDE DEF h
    <3>2. Len(queue) \in Nat /\ Len(queue') = Len(queue) + 1 /\ queue'[Len(queue) + 1] = h
      BY <3>1
    <3>3. Len(queue) + 1 \in 1 .. Len(queue') /\ queue'[Len(queue) + 1].tx = t
      BY <3>1, <3>2
    <3> QED BY Zenon, <3>3 DEF Queued
  <2>2. CASE CallCloseSlot(t) /\ onDone[t].op # 0
    <3> DEFINE h == [tx |-> t, op |-> onDone[t].op, ok |-> onDone[t].ok, reply |-> 0]
    <3>1. queue' = Append(queue, h) /\ h.tx = t
      BY <2>2 DEF CallCloseSlot
    <3> HIDE DEF h
    <3>2. Len(queue) \in Nat /\ Len(queue') = Len(queue) + 1 /\ queue'[Len(queue) + 1] = h
      BY <3>1
    <3>3. Len(queue) + 1 \in 1 .. Len(queue') /\ queue'[Len(queue) + 1].tx = t
      BY <3>1, <3>2
    <3> QED BY Zenon, <3>3 DEF Queued
  <2>3. CASE CallCloseSlot(t) /\ onDone[t].op = 0
    BY <2>3 DEF CallCloseSlot
  <2> QED BY <2>1, <2>2, <2>3
<1>6. Somewhere(t)'
  BY <1>1, <1>2, <1>4, <1>5 DEF Somewhere, InRequest, streamVars
<1> QED BY <1>3, <1>6

\* The coroutine whose completion leaves the queue is no longer in a call.
LEMMA HandlerSomewhere ==
  ASSUME IInv, AllSomewhere, RunHandler, Up'
  PROVE  \A u \in Txs : Somewhere(u)'
<1> DEFINE h == Head(queue)
<1>1. queue # <<>> /\ queue' = Tail(queue) /\ Up /\ UNCHANGED <<streamVars, reactorVars, n>>
  BY DEF RunHandler
<1>2. h \in Handlers /\ \A u \in Txs : Queued(u)' <=> (Queued(u) /\ u # h.tx)
  BY <1>1, Taken DEF IInv
<1>3. h.tx \in Txs
  BY <1>2 DEF Handlers
<1>4. \/ pc' = [pc EXCEPT ![h.tx] = "running"]
      \/ pc' = [pc EXCEPT ![h.tx] = "closed"]
  BY DEF RunHandler, Up
<1> HIDE DEF h
<1>5. ASSUME NEW u \in Txs PROVE Somewhere(u)'
  <2>1. Somewhere(u)
    BY <1>1 DEF AllSomewhere
  <2>2. CASE u # h.tx
    <3>1. pc'[u] = pc[u] /\ (Queued(u)' <=> Queued(u))
      BY <1>2, <1>4, <2>2 DEF IInv, TypeOK
    <3> QED BY <1>1, <2>1, <3>1 DEF Somewhere, InRequest, streamVars, reactorVars
  <2>3. CASE u = h.tx
    <3>1. pc'[u] \in {"running", "closed"}
      BY <1>3, <1>4, <2>3 DEF IInv, TypeOK
    <3> QED BY <1>1, <2>1, <3>1 DEF Somewhere, InRequest, streamVars, reactorVars
  <2> QED BY <2>2, <2>3
<1> QED BY <1>5

\* Every step keeps every call somewhere, or brings the process down.
LEMMA NextSomewhere == IInv /\ AllSomewhere /\ [Next]_vars => AllSomewhere'
<1> SUFFICES ASSUME IInv, AllSomewhere, [Next]_vars, Up' PROVE \A u \in Txs : Somewhere(u)'
  BY DEF AllSomewhere
<1>1. CASE UNCHANGED vars
  <2>1. Up /\ \A u \in Txs : Queued(u)' <=> Queued(u)
    BY <1>1 DEF vars, clientVars, Up, Queued
  <2> QED BY <1>1, <2>1 DEF vars, streamVars, reactorVars, clientVars, AllSomewhere, Somewhere,
     InRequest
<1>2. CASE Next
  BY <1>2, ClientSomewhere, WriteDoneSomewhere, GrpcSomewhere, PostSomewhere, HandlerSomewhere
  DEF Next, IoStep, Callback
<1> QED BY <1>1, <1>2

\* The next step of what the call of t waits for: the coroutine has the thread, or its
\* handler is in the queue, or a callback runs, or gRPC or the server has something to do
\* (before it releases a call, the callbacks that have only to return do so).
CanGoOn(t) ==
    \/ pc[t] \in OnThread \/ Queued(t)
    \/ onWrite[t].at \in {"called", "armed"} \/ onRead[t].at = "called" \/ onDone[t].at = "called"
    \/ writing[t] # 0
    \/ reading[t] /\ (wire[t] # <<>> \/ status[t] # "open")
    \/ status[t] = "open" /\ halfClosed[t] /\ wire[t] = <<>>
    \/ /\ status[t] # "open" /\ ~released[t] /\ writing[t] = 0 /\ ~reading[t]
       /\ onWrite[t].at = "none" /\ onRead[t].at = "none"

\* As long as the process is up, no call waits for nothing, but for the one whose write
\* failed and whose exception gRPC swallowed.
NoCallStranded == \A t \in Txs : Up /\ InCall(t) => CanGoOn(t) \/ Lost(t)

\* Whatever the order in which the io_context, the callbacks and gRPC come: a call in
\* progress is always one step away from going on.  (EveryCallSettles then needs fairness only.)
THEOREM NoCallStrandedProved == Spec => []NoCallStranded
<1>1. Init => AllSomewhere
  <2> SUFFICES ASSUME Init, NEW t \in Txs PROVE Somewhere(t)
    BY DEF AllSomewhere
  <2>1. ~reading[t] /\ ~released[t] /\ pc[t] = "unborn"
    BY DEF Init, StreamInit
  <2>2. onWrite[t].at = "none"
    BY DEF Init, ReactorInit, NoReaction
  <2> QED BY <2>1, <2>2 DEF Somewhere, InRequest
<1>2. IInv /\ AllSomewhere => NoCallStranded
  <2> SUFFICES ASSUME IInv, AllSomewhere, NEW t \in Txs, Up, InCall(t)
               PROVE  CanGoOn(t) \/ Lost(t)
    BY DEF NoCallStranded
  <2>1. Somewhere(t) /\ TxInv(t) /\ pc[t] \in Places /\ status[t] \in {"open", "ok", "error"}
    BY DEF AllSomewhere, IInv, TypeOK, StreamTypeOK
  <2>2. /\ onWrite[t].at \in {"none", "called", "armed", "thrown"}
        /\ onRead[t].at \in {"none", "called"}
    BY DEF IInv, TypeOK, ReactorTypeOK, Reactions
  <2>3. CASE pc[t] \in OnThread
    BY <2>3 DEF CanGoOn
  <2>4. CASE pc[t] = "awaiting"
    BY <2>1, <2>2, <2>4 DEF Somewhere, InRequest, CanGoOn, Lost
  <2>5. CASE pc[t] = "closing"
    <3>1. /\ writing[t] = 0 /\ ~reading[t] /\ onWrite[t].at = "none" /\ onRead[t].at = "none"
          /\ halfClosed[t]
      BY <2>1, <2>5 DEF TxInv, OnePlace, InRequest, Closing
    <3>2. wire[t] = <<>>
      BY <2>1, <3>1 DEF TxInv, Expected
    <3>3. CASE ~released[t]
      BY <3>1, <3>2, <3>3 DEF CanGoOn
    <3>4. CASE released[t]
      BY <2>1, <2>5, <3>4 DEF Somewhere, CanGoOn
    <3> QED BY <3>3, <3>4
  <2>6. pc[t] \notin {"unborn", "running", "closed", "ended"}
    BY DEF InCall, PhaseOf
  <2> QED BY <2>1, <2>3, <2>4, <2>5, <2>6 DEF Places
<1> QED BY <1>1, <1>2, NextSomewhere, Invariance, PTL DEF Spec

-----------------------------------------------------------------------------
(* GrpcKvAwaitable implements KvCalls.                                       *)

\* A move of one coroutine is a move of its phase.
LEMMA PhaseMoves ==
  ASSUME NEW t \in Txs, NEW p, pc \in [Txs -> Places], pc' = [pc EXCEPT ![t] = p]
  PROVE  [u \in Txs |-> PhaseOf(pc'[u])]
            = [[u \in Txs |-> PhaseOf(pc[u])] EXCEPT ![t] = PhaseOf(p)]
OBVIOUS

\* An idle io_context thread runs no coroutine.
LEMMA IdleMeansNobodyRuns == ASSUME IoIdle PROVE Calls!NobodyRuns
BY DEF IoIdle, OnThread, Calls!NobodyRuns, PhaseOf

\* Steps that leave the coroutines, their calls and their answers alone.
LEMMA SilentSteps ==
  ASSUME Up, UNCHANGED <<n, got>>,
         [u \in Txs |-> PhaseOf(pc'[u])] = [u \in Txs |-> PhaseOf(pc[u])]
  PROVE  [Calls!Next]_(Calls!vars)
<1>1. CASE Up' BY <1>1 DEF Calls!vars
<1>2. CASE ~Up' BY <1>2 DEF Calls!Next, Calls!Die
<1>3. QED BY <1>1, <1>2

\* Each step of the io_context thread is a step of KvCalls or invisible.
LEMMA IoStepRefines == ASSUME IInv, IoStep PROVE [Calls!Next]_(Calls!vars)
<1> USE DEF IInv, TypeOK
<1>1. ASSUME NEW t \in Txs, Begin(t) PROVE Calls!Begin(t)
  <2>1. [u \in Txs |-> PhaseOf(pc'[u])] = [[u \in Txs |-> PhaseOf(pc[u])] EXCEPT ![t] = "running"]
    BY <1>1, PhaseMoves DEF Begin, PhaseOf
  <2>2. PhaseOf(pc[t]) = "unborn" BY <1>1 DEF Begin, PhaseOf
  <2>3. QED BY <1>1, <2>1, <2>2, IdleMeansNobodyRuns DEF Begin, Calls!Begin, Up
<1>2. ASSUME NEW t \in Txs, InitiateRequest(t) PROVE Calls!Call(t, "calling")
  <2>1. [u \in Txs |-> PhaseOf(pc'[u])] = [[u \in Txs |-> PhaseOf(pc[u])] EXCEPT ![t] = "calling"]
    BY <1>2, PhaseMoves DEF InitiateRequest, PhaseOf
  <2>2. PhaseOf(pc[t]) = "running" BY <1>2 DEF InitiateRequest, PhaseOf
  <2>3. QED BY <1>2, <2>1, <2>2 DEF InitiateRequest, Calls!Call, Up
<1>3. ASSUME NEW t \in Txs, InitiateClose(t) PROVE Calls!Call(t, "closing")
  <2>1. [u \in Txs |-> PhaseOf(pc'[u])] = [[u \in Txs |-> PhaseOf(pc[u])] EXCEPT ![t] = "closing"]
    BY <1>3, PhaseMoves DEF InitiateClose, PhaseOf
  <2>2. PhaseOf(pc[t]) = "running" BY <1>3 DEF InitiateClose, PhaseOf
  <2>3. QED BY <1>3, <2>1, <2>2 DEF InitiateClose, Calls!Call, Up
<1>4. ASSUME NEW t \in Txs, End(t) PROVE Calls!End(t)
  <2>1. [u \in Txs |-> PhaseOf(pc'[u])] = [[u \in Txs |-> PhaseOf(pc[u])] EXCEPT ![t] = "ended"]
    BY <1>4, PhaseMoves DEF End, PhaseOf
  <2>2. PhaseOf(pc[t]) = "closed" BY <1>4 DEF End, PhaseOf
  <2>3. QED BY <1>4, <2>1, <2>2 DEF End, Calls!End, Up
<1>5. ASSUME NEW t \in Txs, StartRequest(t) \/ StartClose(t) \/ Suspend(t)
      PROVE  [Calls!Next]_(Calls!vars)
  <2>1. \A u \in Txs : PhaseOf(pc'[u]) = PhaseOf(pc[u])
    BY <1>5 DEF StartRequest, StartClose, Suspend, PhaseOf
  <2>2. UNCHANGED <<n, got>> /\ Up
    BY <1>5 DEF StartRequest, StartClose, Suspend
  <2>3. QED BY <2>1, <2>2, SilentSteps
<1>6. ASSUME RunHandler PROVE [Calls!Next]_(Calls!vars)
  <2> DEFINE h == Head(queue)
  <2>1. Up /\ IoIdle /\ UNCHANGED n BY <1>6 DEF RunHandler
  <2>2. h.tx \in Txs /\ h.op = n[h.tx] /\ (InRequest(h.tx) /\ h.ok => h.reply = n[h.tx])
    <3>1. h \in Handlers /\ h = queue[1] /\ 1 \in 1 .. Len(queue)
      BY <1>6 DEF RunHandler
    <3>2. QED BY <3>1 DEF Handlers, CompletionsMatch, InRequest
  <2>3. CASE h.ok /\ pc[h.tx] = "awaiting"
    <3>1. pc' = [pc EXCEPT ![h.tx] = "running"] /\ got' = [got EXCEPT ![h.tx] = n[h.tx]] /\ Up'
      BY <1>6, <2>1, <2>2, <2>3 DEF RunHandler, InRequest, Up
    <3>2. [u \in Txs |-> PhaseOf(pc'[u])]
             = [[u \in Txs |-> PhaseOf(pc[u])] EXCEPT ![h.tx] = "running"]
      BY <2>2, <3>1, PhaseMoves DEF PhaseOf
    <3>3. PhaseOf(pc[h.tx]) = "calling" BY <2>3 DEF PhaseOf
    <3> HIDE DEF h
    <3>4. Calls!Return(h.tx)
      BY <2>1, <2>2, <3>1, <3>2, <3>3, IdleMeansNobodyRuns DEF Calls!Return
    <3>5. QED BY <2>2, <3>4 DEF Calls!Next
  <2>4. CASE h.ok /\ pc[h.tx] = "closing"
    <3>1. pc' = [pc EXCEPT ![h.tx] = "closed"] /\ got' = got /\ Up'
      BY <1>6, <2>1, <2>2, <2>4 DEF RunHandler, Up
    <3>2. [u \in Txs |-> PhaseOf(pc'[u])]
             = [[u \in Txs |-> PhaseOf(pc[u])] EXCEPT ![h.tx] = "closed"]
      BY <2>2, <3>1, PhaseMoves DEF PhaseOf
    <3>3. PhaseOf(pc[h.tx]) = "closing" BY <2>4 DEF PhaseOf
    <3> HIDE DEF h
    <3>4. Calls!CloseReturn(h.tx)
      BY <2>1, <2>2, <3>1, <3>2, <3>3, IdleMeansNobodyRuns DEF Calls!CloseReturn
    <3>5. QED BY <2>2, <3>4 DEF Calls!Next
  <2>5. CASE ~(h.ok /\ pc[h.tx] \in {"awaiting", "closing"})
    <3>1. UNCHANGED <<pc, got>> BY <1>6, <2>5 DEF RunHandler
    <3>2. QED BY <2>1, <3>1, SilentSteps
  <2>6. QED BY <2>3, <2>4, <2>5
<1>7. QED BY <1>1, <1>2, <1>3, <1>4, <1>5, <1>6 DEF IoStep, Calls!Next

\* The callbacks and gRPC are invisible, but for the end of the process.
LEMMA NextRefines == IInv /\ [Next]_vars => [Calls!Next]_(Calls!vars)
<1> SUFFICES ASSUME IInv, [Next]_vars PROVE [Calls!Next]_(Calls!vars)
  OBVIOUS
<1>1. ASSUME NEW t \in Txs, Callback(t) PROVE [Calls!Next]_(Calls!vars)
  <2>1. Up /\ UNCHANGED <<pc, n, got>>
    BY <1>1 DEF Callback, ArmRead, IssueRead, ThrowOnWrite, PostReply, CallCloseSlot,
                CallbackReturns, clientVars
  <2>2. QED BY <2>1, SilentSteps
<1>2. ASSUME NEW t \in Txs,
             \/ WriteDone(t) \/ ReadDone(t) \/ CallDone(t)
             \/ ServerFinishes(t) \/ StreamBreaks(t)
      PROVE  [Calls!Next]_(Calls!vars)
  <2>1. Up /\ UNCHANGED <<pc, n, got>>
    BY <1>2 DEF WriteDone, ReadDone, CallDone, ServerFinishes, StreamBreaks,
       CallbackReturns, clientVars
  <2>2. QED BY <2>1, SilentSteps
<1>3. CASE UNCHANGED vars
  BY <1>3 DEF vars, clientVars, Calls!vars, Up
<1>4. QED BY <1>1, <1>2, <1>3, IoStepRefines DEF Next

\* The awaitables implement what KvCalls promises: each call returns at most once,
\* to its own coroutine, with its own answer, while no other coroutine runs.
THEOREM Refinement == Spec => KeepsPromise
<1>1. Init => Calls!Init
  BY DEF Init, Calls!Init, PhaseOf, Up
<1>2. QED BY <1>1, NextRefines, Invariance, PTL DEF Spec, KeepsPromise, Calls!Spec
=============================================================================
