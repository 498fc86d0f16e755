------------------------- MODULE KvSeekCallback_proofs -------------------------
(***************************************************************************)
(* Proofs about the callback tool: its chain of callbacks never breaks     *)
(* while the stream lasts, and main destroys the reactor when it may.      *)
(* The inductive invariant follows the one link of the chain from a write, *)
(* through its callback and the read, to the callback of the read.         *)
(***************************************************************************)
EXTENDS KvSeekCallback, TLAPS

\* The request whose reply comes next.
Due(t) == Len(received[t]) + 1

\* Before the first write and after the release of the call nothing is in progress;
\* nothing is ever half-closed; the context is stopped before main returns.
MainInv(t) ==
    /\ main[t] \in {"start", "stored", "undefined"} => received[t] = <<>> /\ ~stopped[t]
    /\ main[t] \in {"start", "stored", "undefined"} \/ released[t] =>
          writing[t] = 0 /\ ~reading[t] /\ frames[t] = {}
    /\ main[t] = "stored" => write_completed[t] = 1
    /\ main[t] \in {"returned", "destroyed"} => stopped[t]
    /\ main[t] = "undefined" => released[t]
    /\ released[t] => status[t] # "open"
    /\ ~halfClosed[t]

\* An operation that is outstanding is for the reply due, and its callback is in its slot.
Outstanding(t) ==
    /\ writing[t] # 0 => ~reading[t] /\ writing[t] = Due(t) /\ write_completed[t] = Due(t)
    /\ reading[t] => read_completed[t] = Due(t) /\ Due(t) <= Close
    /\ wire[t] # <<>> =>
          /\ wire[t] = <<Due(t)>>
          /\ reading[t] \/ \E f \in frames[t] : f.at # "last" /\ f.of = "write" /\ f.ok

\* A callback that is not about to return is the only one, nothing is outstanding
\* meanwhile, and it is for the reply due, or has just received the one before.
Link(t) ==
    \A f \in frames[t] : f.at # "last" =>
        /\ writing[t] = 0 /\ ~reading[t]
        /\ \A g \in frames[t] : g.at # "last" => f = g
        /\ ~f.ok => f.at = "called" /\ status[t] # "open"
        /\ f.of = "write" => f.op = Due(t)
        /\ f.of = "write" /\ f.at = "stored" => read_completed[t] = f.op
        /\ f.of = "read" /\ f.at = "called" => f.op = Due(t) /\ (f.ok => f.reply = f.op)
        /\ f.of = "read" /\ f.at = "stored" =>
              f.op = Len(received[t]) /\ f.op < Close /\ write_completed[t] = f.op + 1

\* If there is no link the chain has not begun, or has ended.
Unbroken(t) ==
    \/ main[t] \in {"start", "stored", "undefined"}
    \/ writing[t] # 0 \/ reading[t] \/ \E f \in frames[t] : f.at # "last"
    \/ Len(received[t]) = Close \/ status[t] # "open"

\* The replies came in order, and without a signal the last one stops the context.
Replies(t) ==
    /\ \A i \in 1 .. Len(received[t]) : received[t][i] = i
    /\ stopped[t] /\ ~signalled[t] => Len(received[t]) = Close

TxInv(t) == MainInv(t) /\ Outstanding(t) /\ Link(t) /\ Unbroken(t) /\ Replies(t)

IInv == TypeOK /\ \A t \in Txs : TxInv(t)

-----------------------------------------------------------------------------
LEMMA InitIInv == Init => IInv
BY DEF Init, StreamInit, IInv, TypeOK, StreamTypeOK, Frames, Close, TxInv, MainInv, Outstanding, Link,
       Unbroken, Replies, Due

\* What the invariant says of one tool depends on its own state only.
SameTx(u) ==
    /\ writing'[u] = writing[u] /\ reading'[u] = reading[u] /\ wire'[u] = wire[u]
    /\ halfClosed'[u] = halfClosed[u] /\ status'[u] = status[u] /\ released'[u] = released[u]
    /\ main'[u] = main[u] /\ stopped'[u] = stopped[u] /\ signalled'[u] = signalled[u]
    /\ write_completed'[u] = write_completed[u] /\ read_completed'[u] = read_completed[u]
    /\ frames'[u] = frames[u] /\ received'[u] = received[u]

LEMMA Frame == ASSUME NEW u \in Txs, TxInv(u), SameTx(u) PROVE TxInv(u)'
<1> USE DEF SameTx, TxInv
<1>1. MainInv(u)' BY DEF MainInv
<1>2. Outstanding(u)' BY DEF Outstanding, Due
<1>3. Link(u)' BY DEF Link, Due
<1>4. Unbroken(u)' BY DEF Unbroken
<1>5. Replies(u)' BY DEF Replies
<1>6. QED BY <1>1, <1>2, <1>3, <1>4, <1>5

-----------------------------------------------------------------------------
(* The main thread.                                                         *)

LEMMA MainStep ==
  ASSUME IInv, NEW t \in Txs, MainThread(t) \/ Signal(t)
  PROVE  IInv'
<1> USE DEF MainThread, StoreFirst, WriteFirst, StartWrite, WriteAllowed, Signal, RunReturns, Destroy,
            streamVars, IInv, TypeOK, StreamTypeOK
<1>1. TypeOK'
  <2> HIDE DEF MainThread, StoreFirst, WriteFirst, Signal, RunReturns, Destroy
  <2>1. CASE StoreFirst(t) BY <2>1 DEF StoreFirst, Close
  <2>2. CASE WriteFirst(t)
    <3>1. CASE WriteAllowed(t)
      <4>1. /\ main' = [main EXCEPT ![t] = "waiting"] /\ writing' = [writing EXCEPT ![t] = 1]
            /\ UNCHANGED <<reading, wire, halfClosed, status, released, stopped, signalled,
                           write_completed, read_completed, frames, received>>
        BY <2>2, <3>1 DEF WriteFirst
      <4>2. main' \in [Txs -> {"start", "stored", "waiting", "returned", "destroyed", "undefined"}]
        BY <4>1
      <4>3. writing' \in [Txs -> Nat] BY <4>1
      <4>4. QED BY <4>1, <4>2, <4>3
    <3>2. CASE ~WriteAllowed(t) BY <2>2, <3>2 DEF WriteFirst
    <3>3. QED BY <3>1, <3>2
  <2>3. CASE Signal(t) BY <2>3 DEF Signal
  <2>4. CASE RunReturns(t) BY <2>4 DEF RunReturns
  <2>5. CASE Destroy(t) BY <2>5 DEF Destroy
  <2>6. QED BY <2>1, <2>2, <2>3, <2>4, <2>5 DEF MainThread
<1>2. ASSUME NEW u \in Txs, u # t PROVE TxInv(u)'
  BY <1>2, Frame DEF SameTx
<1>3. TxInv(t)'
  <2> USE DEF TxInv
  <2>1. UNCHANGED <<received, frames, status, released, halfClosed, reading, wire>> OBVIOUS
  <2>2. MainInv(t)' BY <2>1 DEF MainInv
  <2>3. Outstanding(t)'
    <3>1. main[t] \in {"start", "stored"} => writing[t] = 0 /\ ~reading[t] /\ frames[t] = {} /\ Due(t) = 1
      BY DEF MainInv, Due
    <3>2. QED BY <2>1, <3>1 DEF MainInv, Outstanding, Due
  <2>4. Link(t)'
    <3>1. main[t] \in {"start", "stored"} => frames[t] = {} BY DEF MainInv
    <3>2. QED BY <2>1, <3>1 DEF Link, Due
  <2>5. Unbroken(t)' BY <2>1 DEF Unbroken, MainInv
  <2>6. Replies(t)' BY <2>1 DEF Replies, MainInv
  <2>7. QED BY <2>2, <2>3, <2>4, <2>5, <2>6
<1>4. QED BY <1>1, <1>2, <1>3

-----------------------------------------------------------------------------
(* gRPC.                                                                    *)

\* The stream ends, or its call is released.
LEMMA EndStep ==
  ASSUME IInv, NEW t \in Txs, StreamBreaks(t) \/ Release(t)
  PROVE  IInv'
<1> USE DEF StreamBreaks, BreakStream, Release, ReleaseCall, toolVars, IInv, TypeOK, StreamTypeOK
<1>1. TypeOK'
  <2>1. wire' \in [Txs -> Seq(Nat)]
    <3>1. wire[t] \in Seq(Nat) /\ <<>> \in Seq(Nat) OBVIOUS
    <3>2. UNCHANGED wire \/ \E kept \in {wire[t], <<>>} : wire' = [wire EXCEPT ![t] = kept] OBVIOUS
    <3>3. CASE UNCHANGED wire BY <3>3
    <3>4. CASE \E kept \in {wire[t], <<>>} : wire' = [wire EXCEPT ![t] = kept]
      <4>1. PICK kept \in {wire[t], <<>>} : wire' = [wire EXCEPT ![t] = kept] BY <3>4
      <4>2. kept \in Seq(Nat) BY <3>1
      <4>3. QED BY <4>1, <4>2
    <3>5. QED BY <3>2, <3>3, <3>4
  <2>2. status' \in [Txs -> {"open", "ok", "error"}] OBVIOUS
  <2>3. released' \in [Txs -> BOOLEAN] OBVIOUS
  <2>4. QED BY <2>1, <2>2, <2>3
<1>2. ASSUME NEW u \in Txs, u # t PROVE TxInv(u)'
  BY <1>2, Frame DEF SameTx
<1>3. TxInv(t)'
  <2> USE DEF TxInv
  <2>1. /\ UNCHANGED <<toolVars, writing, reading, halfClosed>>
        /\ status'[t] # "open" /\ wire'[t] \in {wire[t], <<>>}
        /\ released'[t] => released[t] \/ (writing[t] = 0 /\ ~reading[t] /\ frames[t] = {})
    OBVIOUS
  <2>2. MainInv(t)' BY <2>1 DEF MainInv, Alive
  <2>3. Outstanding(t)' BY <2>1 DEF Outstanding, Due
  <2>4. Link(t)' BY <2>1 DEF Link, Due
  <2>5. Unbroken(t)' BY <2>1 DEF Unbroken
  <2>6. Replies(t)' BY <2>1 DEF Replies
  <2>7. QED BY <2>2, <2>3, <2>4, <2>5, <2>6
<1>4. QED BY <1>1, <1>2, <1>3

\* OnWriteDone: the callback of the write that ended is in its slot.
LEMMA OnWriteDoneStep == ASSUME IInv, NEW t \in Txs, OnWriteDone(t) PROVE IInv'
<1>1. PICK ok \in BOOLEAN :
         /\ WriteCompletes(t, ok)
         /\ frames' = [frames EXCEPT ![t] = @ \cup {Called("write", write_completed[t], ok, 0)}]
  BY DEF OnWriteDone
<1> DEFINE f == Called("write", write_completed[t], ok, 0)
<1>2. /\ writing[t] # 0 /\ writing[t] = Due(t) /\ write_completed[t] = Due(t)
      /\ ~reading[t] /\ Due(t) \in 1 .. Close
      /\ \A g \in frames[t] : g.at = "last"
      /\ wire[t] = <<>> /\ ~released[t] /\ main[t] \notin {"start", "stored", "undefined"}
  <2>1. writing[t] # 0 BY <1>1 DEF WriteCompletes
  <2>2. Len(received[t]) \in Nat BY DEF IInv, TypeOK
  <2>3. QED BY <2>1, <2>2
    DEF IInv, TypeOK, TxInv, Outstanding, Link, MainInv, Due, Close
<1>3. f \in Frames /\ f.of = "write" /\ f.at = "called" /\ f.op = Due(t) /\ f.ok = ok
  BY <1>2 DEF Called, Frames, Close
<1>4. /\ UNCHANGED <<reading, halfClosed, status, released, main, stopped, signalled,
                     write_completed, read_completed, received>>
      /\ writing' = [writing EXCEPT ![t] = 0]
      /\ wire' = IF ok /\ status[t] = "open" THEN [wire EXCEPT ![t] = Append(@, writing[t])] ELSE wire
      /\ ok \/ status[t] # "open"
  BY <1>1 DEF OnWriteDone, WriteCompletes
<1>5. \A g : g \in frames'[t] <=> g \in frames[t] \/ g = f
  BY <1>1 DEF IInv, TypeOK
<1>6. wire'[t] = <<>> \/ (ok /\ wire'[t] = <<Due(t)>>)
  BY <1>2, <1>4 DEF IInv, TypeOK, StreamTypeOK
<1>7. TypeOK'
  <2>1. wire' \in [Txs -> Seq(Nat)]
    <3>1. Append(wire[t], writing[t]) \in Seq(Nat) BY DEF IInv, TypeOK, StreamTypeOK
    <3>2. QED BY <1>4, <3>1 DEF IInv, TypeOK, StreamTypeOK
  <2>2. frames' \in [Txs -> SUBSET Frames] BY <1>1, <1>3 DEF IInv, TypeOK
  <2>3. QED BY <1>4, <2>1, <2>2 DEF IInv, TypeOK, StreamTypeOK
<1>8. ASSUME NEW u \in Txs, u # t PROVE TxInv(u)'
  BY <1>1, <1>4, <1>8, Frame DEF SameTx, IInv, TypeOK, StreamTypeOK
<1>9. TxInv(t)'
  <2> HIDE DEF f
  <2>1. writing'[t] = 0 BY <1>4 DEF IInv, TypeOK, StreamTypeOK
  <2>2. MainInv(t)' BY <1>2, <1>4, <2>1 DEF MainInv, IInv, TxInv
  <2>3. Outstanding(t)' BY <1>2, <1>3, <1>4, <1>5, <1>6, <2>1 DEF Outstanding, Due
  <2>4. Link(t)' BY <1>2, <1>3, <1>4, <1>5, <2>1 DEF Link, Due
  <2>5. Unbroken(t)' BY <1>3, <1>5 DEF Unbroken
  <2>6. Replies(t)' BY <1>4 DEF Replies, IInv, TxInv
  <2>7. QED BY <2>2, <2>3, <2>4, <2>5, <2>6 DEF TxInv
<1>10. QED BY <1>7, <1>8, <1>9 DEF IInv

\* OnReadDone: likewise, and the reply is the one that is due.
LEMMA OnReadDoneStep == ASSUME IInv, NEW t \in Txs, OnReadDone(t) PROVE IInv'
<1>1. PICK ok \in BOOLEAN :
         /\ ReadCompletes(t, ok)
         /\ frames' = [frames EXCEPT ![t] = @ \cup
               {Called("read", read_completed[t], ok, IF ok THEN Head(wire[t]) ELSE 0)}]
  BY DEF OnReadDone
<1> DEFINE f == Called("read", read_completed[t], ok, IF ok THEN Head(wire[t]) ELSE 0)
<1>2. /\ writing[t] = 0 /\ reading[t] /\ read_completed[t] = Due(t) /\ Due(t) \in 1 .. Close
      /\ \A g \in frames[t] : g.at = "last"
      /\ ~released[t] /\ main[t] \notin {"start", "stored", "undefined"}
  <2>1. reading[t] BY <1>1 DEF ReadCompletes
  <2>2. Len(received[t]) \in Nat BY DEF IInv, TypeOK
  <2>3. QED BY <2>1, <2>2 DEF IInv, TypeOK, TxInv, Outstanding, Link, MainInv, Due, Close
<1>3. ok => wire[t] = <<Due(t)>> /\ Head(wire[t]) = Due(t)
  <2>1. ok => wire[t] = <<Due(t)>> BY <1>1 DEF ReadCompletes, IInv, TxInv, Outstanding
  <2>2. QED BY <2>1
<1>4. f \in Frames /\ f.of = "read" /\ f.at = "called" /\ f.op = Due(t) /\ f.ok = ok
      /\ (ok => f.reply = Due(t))
  BY <1>2, <1>3 DEF Called, Frames, Close
<1>5. /\ UNCHANGED <<writing, halfClosed, status, released, main, stopped, signalled,
                     write_completed, read_completed, received>>
      /\ reading' = [reading EXCEPT ![t] = FALSE]
      /\ wire' = IF ok THEN [wire EXCEPT ![t] = Tail(@)] ELSE wire
      /\ ok \/ (wire[t] = <<>> /\ status[t] # "open")
  BY <1>1 DEF OnReadDone, ReadCompletes
<1>6. \A g : g \in frames'[t] <=> g \in frames[t] \/ g = f
  BY <1>1 DEF IInv, TypeOK
<1>7. wire'[t] = <<>> /\ wire' \in [Txs -> Seq(Nat)]
  <2>1. Tail(<<Due(t)>>) = <<>> /\ <<>> \in Seq(Nat) OBVIOUS
  <2>2. QED BY <1>3, <1>5, <2>1 DEF IInv, TypeOK, StreamTypeOK
<1>8. TypeOK'
  <2>1. frames' \in [Txs -> SUBSET Frames] BY <1>1, <1>4 DEF IInv, TypeOK
  <2>2. QED BY <1>5, <1>7, <2>1 DEF IInv, TypeOK, StreamTypeOK
<1>9. ASSUME NEW u \in Txs, u # t PROVE TxInv(u)'
  BY <1>1, <1>5, <1>9, Frame DEF SameTx, IInv, TypeOK, StreamTypeOK
<1>10. TxInv(t)'
  <2> HIDE DEF f
  <2>1. ~reading'[t] BY <1>5 DEF IInv, TypeOK, StreamTypeOK
  <2>2. MainInv(t)' BY <1>2, <1>5, <2>1 DEF MainInv, IInv, TxInv
  <2>3. Outstanding(t)' BY <1>2, <1>5, <1>7, <2>1 DEF Outstanding, Due
  <2>4. Link(t)' BY <1>2, <1>4, <1>5, <1>6, <2>1 DEF Link, Due
  <2>5. Unbroken(t)' BY <1>4, <1>6 DEF Unbroken
  <2>6. Replies(t)' BY <1>5 DEF Replies, IInv, TxInv
  <2>7. QED BY <2>2, <2>3, <2>4, <2>5, <2>6 DEF TxInv
<1>11. QED BY <1>8, <1>9, <1>10 DEF IInv

-----------------------------------------------------------------------------
(* The callbacks.                                                           *)

\* A callback that moves on is replaced by itself in its new place.
LEMMA MovedFrames ==
  ASSUME TypeOK, NEW t \in Txs, NEW f \in frames[t], NEW at \in {"called", "stored", "last"},
         Moved(t, f, at)
  PROVE  /\ frames' \in [Txs -> SUBSET Frames]
         /\ \A u \in Txs : u # t => frames'[u] = frames[u]
         /\ \E m \in Frames :
               /\ m.at = at /\ m.of = f.of /\ m.op = f.op /\ m.ok = f.ok /\ m.reply = f.reply
               /\ \A g : g \in frames'[t] <=> (g \in frames[t] /\ g # f) \/ g = m
<1> DEFINE m == [f EXCEPT !.at = at]
<1>1. f \in Frames BY DEF TypeOK
<1>2. /\ m \in Frames
      /\ m.at = at /\ m.of = f.of /\ m.op = f.op /\ m.ok = f.ok /\ m.reply = f.reply
  BY <1>1 DEF Frames
<1>3. frames' = [frames EXCEPT ![t] = (@ \ {f}) \cup {m}] BY DEF Moved
<1> HIDE DEF m
<1>4. \A g : g \in frames'[t] <=> (g \in frames[t] /\ g # f) \/ g = m
  BY <1>3 DEF TypeOK
<1>5. frames' \in [Txs -> SUBSET Frames] BY <1>2, <1>3 DEF TypeOK
<1>6. \A u \in Txs : u # t => frames'[u] = frames[u] BY <1>3 DEF TypeOK
<1>7. QED BY <1>2, <1>4, <1>5, <1>6

\* While a callback has something to do, nothing else is in progress.
LEMMA ActingAlone ==
  ASSUME IInv, NEW t \in Txs, NEW f \in frames[t], f.at # "last"
  PROVE  /\ f \in Frames /\ Len(received[t]) \in Nat
         /\ writing[t] = 0 /\ ~reading[t] /\ ~released[t] /\ ~halfClosed[t]
         /\ main[t] \notin {"start", "stored", "undefined"}
         /\ \A g \in frames[t] : g # f => g.at = "last"
BY DEF IInv, TypeOK, TxInv, Link, MainInv

\* An operation failed: the chain ends here.
LEMMA FailStep == ASSUME IInv, NEW t \in Txs, NEW f \in frames[t], Fail(t, f) PROVE IInv'
<1>1. /\ f.at = "called" /\ ~f.ok /\ Moved(t, f, "last")
      /\ UNCHANGED <<streamVars, main, stopped, signalled, write_completed, read_completed, received>>
  BY DEF Fail
<1>2. status[t] # "open" BY <1>1 DEF IInv, TxInv, Link
<1>3. TypeOK' BY <1>1, MovedFrames DEF IInv, TypeOK, StreamTypeOK, streamVars
<1>4. ASSUME NEW u \in Txs, u # t PROVE TxInv(u)'
  BY <1>1, <1>4, MovedFrames, Frame DEF SameTx, IInv, streamVars
<1>5. TxInv(t)'
  <2>1. \A g \in frames'[t] : g.at = "last"
    BY <1>1, MovedFrames, ActingAlone DEF IInv
  <2>2. MainInv(t)' BY <1>1, ActingAlone DEF MainInv, streamVars, IInv, TxInv
  <2>3. Outstanding(t)'
    BY <1>1, ActingAlone DEF Outstanding, Due, Link, streamVars, IInv, TxInv
  <2>4. Link(t)' BY <2>1 DEF Link
  <2>5. Unbroken(t)' BY <1>1, <1>2 DEF Unbroken, streamVars
  <2>6. Replies(t)' BY <1>1 DEF Replies, IInv, TxInv
  <2>7. QED BY <2>2, <2>3, <2>4, <2>5, <2>6 DEF TxInv
<1>6. QED BY <1>3, <1>4, <1>5 DEF IInv

\* The write callback stores the read callback.
LEMMA StoreReadStep == ASSUME IInv, NEW t \in Txs, NEW f \in frames[t], StoreRead(t, f) PROVE IInv'
<1>1. /\ f.of = "write" /\ f.at = "called" /\ f.ok /\ Moved(t, f, "stored")
      /\ read_completed' = [read_completed EXCEPT ![t] = f.op]
      /\ UNCHANGED <<streamVars, main, stopped, signalled, write_completed, received>>
  BY DEF StoreRead
<1>2. f.op = Due(t) /\ f.op \in 1 .. Close
  BY <1>1, ActingAlone DEF Frames, IInv, TxInv, Link
<1>3. TypeOK'
  <2>1. read_completed' \in [Txs -> 0 .. Close] BY <1>1, <1>2 DEF IInv, TypeOK, Close
  <2>2. QED BY <1>1, <2>1, MovedFrames DEF IInv, TypeOK, StreamTypeOK, streamVars
<1>4. ASSUME NEW u \in Txs, u # t PROVE TxInv(u)'
  <2>1. read_completed'[u] = read_completed[u] BY <1>1, <1>4 DEF IInv, TypeOK
  <2>2. QED BY <1>1, <1>4, <2>1, MovedFrames, Frame DEF SameTx, IInv, streamVars
<1>5. TxInv(t)'
  <2>1. PICK m \in Frames :
          /\ m.at = "stored" /\ m.of = "write" /\ m.op = f.op /\ m.ok = f.ok
          /\ \A g : g \in frames'[t] <=> (g \in frames[t] /\ g # f) \/ g = m
    <3>1. TypeOK BY DEF IInv
    <3>2. Moved(t, f, "stored") /\ f.of = "write" BY <1>1
    <3>3. \E m \in Frames :
             /\ m.at = "stored" /\ m.of = f.of /\ m.op = f.op /\ m.ok = f.ok /\ m.reply = f.reply
             /\ \A g : g \in frames'[t] <=> (g \in frames[t] /\ g # f) \/ g = m
      BY <3>1, <3>2, MovedFrames
    <3>4. QED BY <3>2, <3>3
  <2>2. read_completed'[t] = f.op BY <1>1 DEF IInv, TypeOK
  <2>3. MainInv(t)' BY <1>1, ActingAlone DEF MainInv, streamVars, IInv, TxInv
  <2>4. Outstanding(t)'
    BY <1>1, <2>1, ActingAlone DEF Outstanding, Due, streamVars, IInv, TxInv
  <2>5. Link(t)'
    <3>1. ASSUME NEW g \in frames'[t], g.at # "last" PROVE g = m
      BY <1>1, <2>1, <3>1, ActingAlone
    <3>2. writing'[t] = 0 /\ ~reading'[t] BY <1>1, ActingAlone DEF streamVars
    <3>3. m.op = Due(t)' BY <1>1, <1>2, <2>1 DEF Due
    <3>4. QED BY <1>1, <2>1, <2>2, <3>1, <3>2, <3>3 DEF Link
  <2>6. Unbroken(t)' BY <2>1 DEF Unbroken
  <2>7. Replies(t)' BY <1>1 DEF Replies, IInv, TxInv
  <2>8. QED BY <2>3, <2>4, <2>5, <2>6, <2>7 DEF TxInv
<1>6. QED BY <1>3, <1>4, <1>5 DEF IInv

\* ... and starts the read.
LEMMA StartReadOfStep == ASSUME IInv, NEW t \in Txs, NEW f \in frames[t], StartReadOf(t, f) PROVE IInv'
<1>1. /\ f.of = "write" /\ f.at = "stored" /\ Moved(t, f, "last")
      /\ reading' = [reading EXCEPT ![t] = TRUE]
      /\ UNCHANGED <<writing, wire, halfClosed, status, released, main, stopped, signalled,
                     write_completed, read_completed, received>>
  BY DEF StartReadOf, StartRead
<1>2. f.op = Due(t) /\ read_completed[t] = Due(t) /\ Due(t) <= Close
  BY <1>1, ActingAlone DEF Frames, IInv, TxInv, Link, Close
<1>3. TypeOK' BY <1>1, MovedFrames DEF IInv, TypeOK, StreamTypeOK
<1>4. ASSUME NEW u \in Txs, u # t PROVE TxInv(u)'
  <2>1. reading'[u] = reading[u] BY <1>1, <1>4 DEF IInv, TypeOK, StreamTypeOK
  <2>2. frames'[u] = frames[u] BY <1>1, <1>4 DEF Moved, IInv, TypeOK
  <2>3. TxInv(u) BY DEF IInv
  <2>4. SameTx(u) BY <1>1, <2>1, <2>2 DEF SameTx
  <2>5. QED BY <2>3, <2>4, Frame
<1>5. TxInv(t)'
  <2>1. \A g \in frames'[t] : g.at = "last"
    BY <1>1, MovedFrames, ActingAlone DEF IInv
  <2>2. reading'[t] BY <1>1 DEF IInv, TypeOK, StreamTypeOK
  <2>3. MainInv(t)' BY <1>1, ActingAlone DEF MainInv, IInv, TxInv
  <2>4. Outstanding(t)'
    BY <1>1, <1>2, <2>2, ActingAlone DEF Outstanding, Due, IInv, TxInv
  <2>5. Link(t)' BY <2>1 DEF Link
  <2>6. Unbroken(t)' BY <2>2 DEF Unbroken
  <2>7. Replies(t)' BY <1>1 DEF Replies, IInv, TxInv
  <2>8. QED BY <2>3, <2>4, <2>5, <2>6, <2>7 DEF TxInv
<1>6. QED BY <1>3, <1>4, <1>5 DEF IInv

\* A read callback takes its reply.
LEMMA ReplyTaken ==
  ASSUME IInv, NEW t \in Txs, NEW f \in frames[t], f.of = "read", f.at = "called", f.ok,
         received' = [received EXCEPT ![t] = Append(@, f.reply)]
  PROVE  /\ received' \in [Txs -> Seq(0 .. Close)]
         /\ \A u \in Txs : u # t => received'[u] = received[u]
         /\ Len(received'[t]) = Due(t) /\ f.op = Due(t) /\ f.op \in 1 .. Close
         /\ received'[t] # <<>>
         /\ \A i \in 1 .. Len(received'[t]) : received'[t][i] = i
<1>1. f.op = Due(t) /\ f.reply = Due(t) /\ f.op \in 1 .. Close /\ f.reply \in 0 .. Close
  BY ActingAlone DEF Frames, IInv, TxInv, Link
<1>2. received[t] \in Seq(0 .. Close) /\ \A i \in 1 .. Len(received[t]) : received[t][i] = i
  BY DEF IInv, TypeOK, TxInv, Replies
<1>3. received'[t] = Append(received[t], f.reply) BY DEF IInv, TypeOK
<1>4. /\ Append(received[t], f.reply) \in Seq(0 .. Close)
      /\ Len(received'[t]) = Len(received[t]) + 1 /\ Len(received[t]) \in Nat
      /\ \A i \in 1 .. Len(received[t]) : received'[t][i] = received[t][i]
      /\ received'[t][Len(received[t]) + 1] = f.reply
  BY <1>1, <1>2, <1>3
<1>5. \A i \in 1 .. Len(received'[t]) : received'[t][i] = i BY <1>1, <1>2, <1>4 DEF Due
<1>6. received' \in [Txs -> Seq(0 .. Close)] BY <1>4 DEF IInv, TypeOK
<1>7. received'[t] # <<>> BY <1>1, <1>3, <1>2
<1>8. QED BY <1>1, <1>4, <1>5, <1>6, <1>7 DEF Due, IInv, TypeOK

\* ... and stores the callback of the next write,
LEMMA StoreNextWriteStep ==
  ASSUME IInv, NEW t \in Txs, NEW f \in frames[t], StoreNextWrite(t, f) PROVE IInv'
<1>1. /\ f.of = "read" /\ f.at = "called" /\ f.ok /\ f.op # Close /\ Moved(t, f, "stored")
      /\ received' = [received EXCEPT ![t] = Append(@, f.reply)]
      /\ write_completed' = [write_completed EXCEPT ![t] = f.op + 1]
      /\ UNCHANGED <<streamVars, main, stopped, signalled, read_completed>>
  BY DEF StoreNextWrite
<1>2. /\ received' \in [Txs -> Seq(0 .. Close)]
      /\ \A u \in Txs : u # t => received'[u] = received[u]
      /\ Len(received'[t]) = Due(t) /\ f.op = Due(t) /\ f.op \in 1 .. Close
      /\ received'[t] # <<>>
      /\ \A i \in 1 .. Len(received'[t]) : received'[t][i] = i
  BY <1>1, ReplyTaken
<1>3. f.op < Close /\ f.op + 1 \in 0 .. Close BY <1>1, <1>2 DEF Close
<1>4. TypeOK'
  <2>1. write_completed' \in [Txs -> 0 .. Close] BY <1>1, <1>3 DEF IInv, TypeOK
  <2>2. QED BY <1>1, <1>2, <2>1, MovedFrames DEF IInv, TypeOK, StreamTypeOK, streamVars
<1>5. ASSUME NEW u \in Txs, u # t PROVE TxInv(u)'
  <2>1. write_completed'[u] = write_completed[u] BY <1>1, <1>5 DEF IInv, TypeOK
  <2>2. QED BY <1>1, <1>2, <1>5, <2>1, MovedFrames, Frame DEF SameTx, IInv, streamVars
<1>6. TxInv(t)'
  <2>1. PICK m \in Frames :
          /\ m.at = "stored" /\ m.of = "read" /\ m.op = f.op /\ m.ok = f.ok
          /\ \A g : g \in frames'[t] <=> (g \in frames[t] /\ g # f) \/ g = m
    <3>1. TypeOK BY DEF IInv
    <3>2. Moved(t, f, "stored") /\ f.of = "read" BY <1>1
    <3>3. \E m \in Frames :
             /\ m.at = "stored" /\ m.of = f.of /\ m.op = f.op /\ m.ok = f.ok /\ m.reply = f.reply
             /\ \A g : g \in frames'[t] <=> (g \in frames[t] /\ g # f) \/ g = m
      BY <3>1, <3>2, MovedFrames
    <3>4. QED BY <3>2, <3>3
  <2>2. write_completed'[t] = f.op + 1 BY <1>1 DEF IInv, TypeOK
  <2>3. wire[t] = <<>>
    BY <1>1, ActingAlone DEF Outstanding, IInv, TxInv
  <2>4. MainInv(t)' BY <1>1, ActingAlone DEF MainInv, streamVars, IInv, TxInv
  <2>5. Outstanding(t)'
    BY <1>1, <2>3, ActingAlone DEF Outstanding, Due, streamVars
  <2>6. Link(t)'
    <3>1. ASSUME NEW g \in frames'[t], g.at # "last" PROVE g = m
      BY <1>1, <2>1, <3>1, ActingAlone
    <3>2. writing'[t] = 0 /\ ~reading'[t] BY <1>1, ActingAlone DEF streamVars
    <3>3. m.op = Len(received'[t]) /\ m.op < Close /\ write_completed'[t] = m.op + 1
      BY <1>2, <1>3, <2>1, <2>2
    <3>4. QED BY <1>1, <2>1, <3>1, <3>2, <3>3 DEF Link
  <2>7. Unbroken(t)' BY <2>1 DEF Unbroken
  <2>8. Replies(t)'
    <3>1. ~stopped[t] \/ signalled[t]
      BY <1>2, <1>3, ActingAlone DEF Replies, IInv, TxInv, Due
    <3>2. QED BY <1>1, <1>2, <3>1 DEF Replies
  <2>9. QED BY <2>4, <2>5, <2>6, <2>7, <2>8 DEF TxInv
<1>7. QED BY <1>4, <1>5, <1>6 DEF IInv

\* ... then starts it;
LEMMA StartNextWriteStep ==
  ASSUME IInv, NEW t \in Txs, NEW f \in frames[t], StartNextWrite(t, f) PROVE IInv'
<1>1. /\ f.of = "read" /\ f.at = "stored" /\ Moved(t, f, "last")
      /\ writing' = [writing EXCEPT ![t] = f.op + 1]
      /\ UNCHANGED <<reading, wire, halfClosed, status, released, main, stopped, signalled,
                     write_completed, read_completed, received>>
  BY DEF StartNextWrite, StartWrite
<1>2. f.op + 1 = Due(t) /\ write_completed[t] = Due(t) /\ f.op + 1 \in Nat /\ f.op + 1 # 0
  BY <1>1, ActingAlone DEF Frames, IInv, TxInv, Link, Close, Due
<1>3. TypeOK'
  <2>1. writing' \in [Txs -> Nat] BY <1>1, <1>2 DEF IInv, TypeOK, StreamTypeOK
  <2>2. QED BY <1>1, <2>1, MovedFrames DEF IInv, TypeOK, StreamTypeOK
<1>4. ASSUME NEW u \in Txs, u # t PROVE TxInv(u)'
  <2>1. writing'[u] = writing[u] BY <1>1, <1>4 DEF IInv, TypeOK, StreamTypeOK
  <2>2. QED BY <1>1, <1>4, <2>1, MovedFrames, Frame DEF SameTx, IInv
<1>5. TxInv(t)'
  <2>1. \A g \in frames'[t] : g.at = "last"
    BY <1>1, MovedFrames, ActingAlone DEF IInv
  <2>2. writing'[t] = Due(t) /\ writing'[t] # 0 BY <1>1, <1>2 DEF IInv, TypeOK, StreamTypeOK
  <2>3. wire[t] = <<>>
    BY <1>1, ActingAlone DEF Outstanding, IInv, TxInv
  <2>4. MainInv(t)' BY <1>1, ActingAlone DEF MainInv, IInv, TxInv
  <2>5. Outstanding(t)' BY <1>1, <1>2, <2>2, <2>3, ActingAlone DEF Outstanding, Due
  <2>6. Link(t)' BY <2>1 DEF Link
  <2>7. Unbroken(t)' BY <2>2 DEF Unbroken
  <2>8. Replies(t)' BY <1>1 DEF Replies, IInv, TxInv
  <2>9. QED BY <2>4, <2>5, <2>6, <2>7, <2>8 DEF TxInv
<1>6. QED BY <1>3, <1>4, <1>5 DEF IInv

\* ... or, the third time, stops the context.
LEMMA StopStep == ASSUME IInv, NEW t \in Txs, NEW f \in frames[t], Stop(t, f) PROVE IInv'
<1>1. /\ f.of = "read" /\ f.at = "called" /\ f.ok /\ f.op = Close /\ Moved(t, f, "last")
      /\ received' = [received EXCEPT ![t] = Append(@, f.reply)]
      /\ stopped' = [stopped EXCEPT ![t] = TRUE]
      /\ UNCHANGED <<streamVars, main, signalled, write_completed, read_completed>>
  BY DEF Stop
<1>2. /\ received' \in [Txs -> Seq(0 .. Close)]
      /\ \A u \in Txs : u # t => received'[u] = received[u]
      /\ Len(received'[t]) = Close /\ received'[t] # <<>>
      /\ \A i \in 1 .. Len(received'[t]) : received'[t][i] = i
  BY <1>1, ReplyTaken
<1>3. TypeOK' BY <1>1, <1>2, MovedFrames DEF IInv, TypeOK, StreamTypeOK, streamVars
<1>4. ASSUME NEW u \in Txs, u # t PROVE TxInv(u)'
  <2>1. stopped'[u] = stopped[u] BY <1>1, <1>4 DEF IInv, TypeOK
  <2>2. frames'[u] = frames[u] BY <1>1, <1>4 DEF Moved, IInv, TypeOK
  <2>3. TxInv(u) BY DEF IInv
  <2>4. SameTx(u) BY <1>1, <1>2, <1>4, <2>1, <2>2 DEF SameTx, streamVars
  <2>5. QED BY <2>3, <2>4, Frame
<1>5. TxInv(t)'
  <2>1. \A g \in frames'[t] : g.at = "last"
    BY <1>1, MovedFrames, ActingAlone DEF IInv
  <2>2. stopped'[t] BY <1>1 DEF IInv, TypeOK
  <2>3. wire[t] = <<>>
    BY <1>1, ActingAlone DEF Outstanding, IInv, TxInv
  <2>4. MainInv(t)' BY <1>1, <2>2, ActingAlone DEF MainInv, streamVars, IInv, TxInv
  <2>5. Outstanding(t)' BY <1>1, <2>3, ActingAlone DEF Outstanding, Due, streamVars
  <2>6. Link(t)' BY <2>1 DEF Link
  <2>7. Unbroken(t)' BY <1>2 DEF Unbroken
  <2>8. Replies(t)' BY <1>2 DEF Replies
  <2>9. QED BY <2>4, <2>5, <2>6, <2>7, <2>8 DEF TxInv
<1>6. QED BY <1>3, <1>4, <1>5 DEF IInv

\* A callback returns.
LEMMA ReturnStep == ASSUME IInv, NEW t \in Txs, NEW f \in frames[t], Return(t, f) PROVE IInv'
<1>1. /\ f.at = "last" /\ frames' = [frames EXCEPT ![t] = @ \ {f}]
      /\ UNCHANGED <<streamVars, main, stopped, signalled, write_completed, read_completed, received>>
  BY DEF Return
<1>2. TypeOK' BY <1>1 DEF IInv, TypeOK, StreamTypeOK, streamVars
<1>3. ASSUME NEW u \in Txs, u # t PROVE TxInv(u)'
  <2>1. frames'[u] = frames[u] BY <1>1, <1>3 DEF IInv, TypeOK
  <2>2. QED BY <1>1, <1>3, <2>1, Frame DEF SameTx, IInv, streamVars
<1>4. TxInv(t)'
  <2>1. \A g : g \in frames'[t] <=> g \in frames[t] /\ g # f
    BY <1>1 DEF IInv, TypeOK
  <2>2. frames'[t] \subseteq frames[t] BY <2>1
  <2>3. MainInv(t)' BY <1>1, <2>2 DEF MainInv, streamVars, IInv, TxInv
  <2>4. Outstanding(t)' BY <1>1, <2>1 DEF Outstanding, Due, streamVars, IInv, TxInv
  <2>5. Link(t)' BY <1>1, <2>1 DEF Link, Due, streamVars, IInv, TxInv
  <2>6. Unbroken(t)' BY <1>1, <2>1 DEF Unbroken, streamVars, IInv, TxInv
  <2>7. Replies(t)' BY <1>1 DEF Replies, IInv, TxInv
  <2>8. QED BY <2>3, <2>4, <2>5, <2>6, <2>7 DEF TxInv
<1>5. QED BY <1>2, <1>3, <1>4 DEF IInv

-----------------------------------------------------------------------------
LEMMA NextIInv == IInv /\ [Next]_vars => IInv'
<1> SUFFICES ASSUME IInv, [Next]_vars PROVE IInv'
  OBVIOUS
<1>1. ASSUME NEW t \in Txs, Callback(t) PROVE IInv'
  BY <1>1, FailStep, StoreReadStep, StartReadOfStep, StoreNextWriteStep, StartNextWriteStep,
     StopStep, ReturnStep DEF Callback
<1>2. CASE UNCHANGED vars
  <2>1. TypeOK' BY <1>2 DEF vars, streamVars, toolVars, IInv, TypeOK, StreamTypeOK
  <2>2. ASSUME NEW u \in Txs PROVE TxInv(u)'
    BY <1>2, Frame DEF vars, streamVars, toolVars, IInv, SameTx
  <2>3. QED BY <2>1, <2>2 DEF IInv
<1>3. QED BY <1>1, <1>2, MainStep, OnWriteDoneStep, OnReadDoneStep, EndStep DEF Next

\* The inductive invariant holds in every state of every behaviour.
THEOREM Invariance == Spec => []IInv
BY InitIInv, NextIInv, PTL DEF Spec

\* Every variable keeps its type: no callback is called for an empty slot.
THEOREM TypeCorrect == Spec => []TypeOK
<1>1. IInv => TypeOK BY DEF IInv
<1>2. QED BY <1>1, Invariance, PTL

\* The chain of callbacks has one live link at a time, with its own slot.
THEOREM OneLinkProved == Spec => []OneLink
<1>1. IInv => OneLink
  <2> SUFFICES ASSUME IInv, NEW t \in Txs
               PROVE  /\ writing[t] # 0 =>
                            ~reading[t] /\ Acting(t) = {} /\ write_completed[t] = writing[t]
                      /\ reading[t] => Acting(t) = {} /\ read_completed[t] = Len(received[t]) + 1
                      /\ \A f, g \in Acting(t) : f = g
                      /\ \A f \in Acting(t) : f.at = "stored" =>
                            IF f.of = "write" THEN ReadAllowed(t) ELSE WriteAllowed(t)
                      /\ main[t] = "waiting" /\ writing[t] = 0 /\ ~reading[t] /\ Acting(t) = {} =>
                            Len(received[t]) = Close \/ status[t] # "open"
    BY DEF OneLink
  <2>1. TxInv(t) BY DEF IInv
  <2>2. \A f \in Acting(t) : writing[t] = 0 /\ ~reading[t] /\ ~released[t] /\ ~halfClosed[t]
    BY ActingAlone DEF Acting
  <2>3. \A f, g \in Acting(t) : f = g BY <2>1 DEF TxInv, Link, Acting
  <2>4. \A f \in Acting(t) : ReadAllowed(t) /\ WriteAllowed(t)
    BY <2>2 DEF ReadAllowed, WriteAllowed
  <2>5. main[t] = "waiting" /\ writing[t] = 0 /\ ~reading[t] /\ Acting(t) = {} =>
          Len(received[t]) = Close \/ status[t] # "open"
    BY <2>1 DEF TxInv, Unbroken, Acting
  <2>6. QED BY <2>1, <2>2, <2>3, <2>4, <2>5 DEF TxInv, Outstanding, Due
<1>2. QED BY <1>1, Invariance, PTL

\* Each reply arrives in its own callback, and the third, or a signal, stops the context.
THEOREM StopsAfterLastReplyProved == Spec => []StopsAfterLastReply
<1>1. IInv => StopsAfterLastReply BY DEF IInv, TxInv, Replies, StopsAfterLastReply
<1>2. QED BY <1>1, Invariance, PTL

\* Without a signal the reactor is destroyed with nothing outstanding.
THEOREM QuietExitProved == Spec => []QuietExit
<1>1. IInv => QuietExit
  <2> SUFFICES ASSUME IInv, NEW t \in Txs
               PROVE  /\ main[t] = "destroyed" /\ ~signalled[t] =>
                            writing[t] = 0 /\ ~reading[t] /\ Acting(t) = {}
                      /\ main[t] = "undefined" => released[t] /\ received[t] = <<>>
    BY DEF QuietExit
  <2>1. TxInv(t) /\ TypeOK BY DEF IInv
  <2>2. main[t] = "undefined" => released[t] /\ received[t] = <<>> BY <2>1 DEF TxInv, MainInv
  <2>3. ASSUME Len(received[t]) = Close PROVE writing[t] = 0 /\ ~reading[t] /\ Acting(t) = {}
    <3>1. Due(t) = Close + 1 BY <2>3 DEF Due
    <3>2. writing[t] = 0
      <4>1. write_completed[t] \in 0 .. Close BY <2>1 DEF TypeOK
      <4>2. writing[t] # 0 => write_completed[t] = Close + 1 BY <2>1, <3>1 DEF TxInv, Outstanding
      <4>3. QED BY <4>1, <4>2 DEF Close
    <3>3. ~reading[t] BY <2>1, <3>1 DEF TxInv, Outstanding, Close
    <3>4. ASSUME NEW f \in frames[t], f.at # "last" PROVE FALSE
      <4>1. f \in Frames BY <2>1 DEF TypeOK
      <4>2. QED BY <2>1, <2>3, <3>1, <3>4, <4>1 DEF TxInv, Link, Frames, Close
    <3>5. QED BY <3>2, <3>3, <3>4 DEF Acting
  <2>4. QED BY <2>1, <2>2, <2>3 DEF TxInv, MainInv, Replies
<1>2. QED BY <1>1, Invariance, PTL

-----------------------------------------------------------------------------
(* The tool is never stuck, but for the one case of GaveUp.                 *)

\* The reply that is read, or is about to be, is there or will not come; the third
\* has stopped the context.
Coming(t) ==
    /\ reading[t] \/ (\E f \in frames[t] : f.at # "last" /\ f.of = "write" /\ f.ok)
          => wire[t] # <<>> \/ status[t] # "open"
    /\ Len(received[t]) = Close => stopped[t]

\* In context.run(): it returns, or a link of the chain goes on, or the tool gave up.
CanGoOn(t) ==
    \/ stopped[t]
    \/ writing[t] # 0 \/ Acting(t) # {}
    \/ reading[t] /\ (wire[t] # <<>> \/ status[t] # "open")

NeverStuck == \A t \in Txs : main[t] = "waiting" => CanGoOn(t) \/ GaveUp(t)

\* What Coming says of one tool depends on its own state only.
LEMMA ComingFrame == ASSUME NEW u \in Txs, Coming(u), SameTx(u) PROVE Coming(u)'
BY DEF Coming, SameTx

\* The main thread, a signal, the end of the stream and the release start no read.
LEMMA MainComing ==
  ASSUME IInv, \A u \in Txs : Coming(u), NEW t \in Txs,
         MainThread(t) \/ Signal(t) \/ StreamBreaks(t) \/ Release(t)
  PROVE  \A u \in Txs : Coming(u)'
<1>1. CASE MainThread(t) \/ Signal(t)
  <2>1. /\ UNCHANGED <<reading, frames, wire, status, received>>
        /\ \A u \in Txs : stopped[u] => stopped'[u]
    BY <1>1 DEF MainThread, StoreFirst, WriteFirst, StartWrite, Signal, RunReturns, Destroy,
                streamVars, IInv, TypeOK
  <2>2. QED BY <2>1 DEF Coming
<1>2. CASE StreamBreaks(t)
  <2>1. /\ UNCHANGED <<reading, frames, received, stopped>> /\ status'[t] # "open"
        /\ \A u \in Txs : u # t => wire'[u] = wire[u] /\ status'[u] = status[u]
    BY <1>2 DEF StreamBreaks, BreakStream, toolVars, IInv, TypeOK, StreamTypeOK
  <2>2. QED BY <2>1 DEF Coming
<1>3. CASE Release(t)
  BY <1>3 DEF Release, ReleaseCall, toolVars, Coming
<1>4. QED BY <1>1, <1>2, <1>3

\* A write that ended well has its reply on the wire, unless the stream has ended.
LEMMA WriteComing ==
  ASSUME IInv, \A u \in Txs : Coming(u), NEW t \in Txs, OnWriteDone(t)
  PROVE  \A u \in Txs : Coming(u)'
<1>1. PICK ok \in BOOLEAN :
         /\ WriteCompletes(t, ok)
         /\ frames' = [frames EXCEPT ![t] = @ \cup {Called("write", write_completed[t], ok, 0)}]
  BY DEF OnWriteDone
<1> DEFINE f == Called("write", write_completed[t], ok, 0)
<1>2. f.ok = ok BY DEF Called
<1>3. /\ UNCHANGED <<reading, status, received, stopped>> /\ writing[t] # 0
      /\ wire' = IF ok /\ status[t] = "open" THEN [wire EXCEPT ![t] = Append(@, writing[t])] ELSE wire
  BY <1>1 DEF OnWriteDone, WriteCompletes
<1> HIDE DEF f
<1>4. ok /\ status[t] = "open" => wire'[t] # <<>>
  <2>1. wire[t] \in Seq(Nat) BY DEF IInv, TypeOK, StreamTypeOK
  <2>2. Append(wire[t], writing[t]) # <<>> BY <2>1
  <2>3. QED BY <1>3, <2>2 DEF IInv, TypeOK, StreamTypeOK
<1>5. ~reading[t] /\ \A g \in frames[t] : g.at = "last"
  BY <1>3 DEF IInv, TxInv, Outstanding, Link
<1>6. \A g \in frames'[t] : g \in frames[t] \/ g = f BY <1>1 DEF IInv, TypeOK, f
<1>7. Coming(t)' BY <1>2, <1>3, <1>4, <1>5, <1>6 DEF Coming
<1>8. ASSUME NEW u \in Txs, u # t PROVE Coming(u)'
  <2>1. frames'[u] = frames[u] /\ wire'[u] = wire[u]
    BY <1>1, <1>3, <1>8 DEF IInv, TypeOK, StreamTypeOK
  <2>2. QED BY <1>3, <2>1 DEF Coming
<1>9. QED BY <1>7, <1>8

\* When a read has ended none is outstanding, and its callback is not that of a write.
LEMMA ReadComing ==
  ASSUME IInv, \A u \in Txs : Coming(u), NEW t \in Txs, OnReadDone(t)
  PROVE  \A u \in Txs : Coming(u)'
<1>1. PICK ok \in BOOLEAN :
         /\ ReadCompletes(t, ok)
         /\ frames' = [frames EXCEPT ![t] = @ \cup
               {Called("read", read_completed[t], ok, IF ok THEN Head(wire[t]) ELSE 0)}]
  BY DEF OnReadDone
<1> DEFINE f == Called("read", read_completed[t], ok, IF ok THEN Head(wire[t]) ELSE 0)
<1>2. f.of = "read" BY DEF Called
<1>3. /\ UNCHANGED <<status, received, stopped>> /\ reading[t]
      /\ reading' = [reading EXCEPT ![t] = FALSE]
      /\ wire' = IF ok THEN [wire EXCEPT ![t] = Tail(@)] ELSE wire
  BY <1>1 DEF OnReadDone, ReadCompletes
<1>4. \A g \in frames'[t] : g \in frames[t] \/ g = f BY <1>1 DEF IInv, TypeOK
<1>5. ASSUME NEW u \in Txs, u # t
      PROVE  frames'[u] = frames[u] /\ wire'[u] = wire[u] /\ reading'[u] = reading[u]
  BY <1>1, <1>3, <1>5 DEF IInv, TypeOK, StreamTypeOK
<1> HIDE DEF f
<1>6. \A g \in frames[t] : g.at = "last" BY <1>3 DEF IInv, TxInv, Link
<1>7. ~reading'[t] BY <1>3 DEF IInv, TypeOK, StreamTypeOK
<1>8. Coming(t)' BY <1>2, <1>3, <1>4, <1>6, <1>7 DEF Coming
<1>9. ASSUME NEW u \in Txs, u # t PROVE Coming(u)'
  BY <1>3, <1>5, <1>9 DEF Coming
<1>10. QED BY <1>8, <1>9

\* The callback that starts a read is that of a write that ended well; the one that
\* takes the third reply stops the context.
LEMMA CallbackComing ==
  ASSUME IInv, \A u \in Txs : Coming(u), NEW t \in Txs, Callback(t)
  PROVE  \A u \in Txs : Coming(u)'
<1>1. PICK f \in frames[t] : \/ Fail(t, f) \/ StoreRead(t, f) \/ StartReadOf(t, f)
                            \/ StoreNextWrite(t, f) \/ StartNextWrite(t, f) \/ Stop(t, f)
                            \/ Return(t, f)
  BY DEF Callback
<1>2. UNCHANGED <<wire, status>>
  BY <1>1 DEF Fail, StoreRead, StartReadOf, StartRead, StoreNextWrite, StartNextWrite, StartWrite,
              Stop, Return, streamVars
<1>3. \A u \in Txs : u # t =>
         /\ frames'[u] = frames[u] /\ reading'[u] = reading[u]
         /\ received'[u] = received[u] /\ stopped'[u] = stopped[u]
  BY <1>1 DEF Fail, StoreRead, StartReadOf, StartRead, StoreNextWrite, StartNextWrite, StartWrite,
              Stop, Return, Moved, streamVars, IInv, TypeOK, StreamTypeOK
<1>4. \A g \in frames'[t] : g.at # "last" /\ g.of = "write" /\ g.ok =>
         \E h \in frames[t] : h.at # "last" /\ h.of = "write" /\ h.ok
  <2>1. CASE Return(t, f)
    <3>1. frames'[t] \subseteq frames[t] BY <2>1 DEF Return, IInv, TypeOK
    <3>2. QED BY <3>1
  <2>2. CASE StoreRead(t, f)
    BY <2>2 DEF StoreRead
  <2>3. ASSUME Moved(t, f, "last") PROVE \A g \in frames'[t] : g.at = "last" \/ g \in frames[t]
    BY <2>3, MovedFrames DEF IInv
  <2>4. CASE Fail(t, f) \/ StartReadOf(t, f) \/ StartNextWrite(t, f) \/ Stop(t, f)
    BY <2>3, <2>4 DEF Fail, StartReadOf, StartNextWrite, Stop
  <2>5. CASE StoreNextWrite(t, f)
    <3>1. Moved(t, f, "stored") /\ f.of = "read" BY <2>5 DEF StoreNextWrite
    <3>2. \A g \in frames'[t] : g.of = "read" \/ g \in frames[t]
      BY <3>1, MovedFrames DEF IInv
    <3>3. QED BY <3>2
  <2>6. QED BY <1>1, <2>1, <2>2, <2>4, <2>5
<1>5. reading'[t] =>
         reading[t] \/ \E h \in frames[t] : h.at # "last" /\ h.of = "write" /\ h.ok
  <2>1. CASE StartReadOf(t, f)
    <3>1. f.of = "write" /\ f.at = "stored" BY <2>1 DEF StartReadOf
    <3>2. f.ok BY <3>1 DEF IInv, TxInv, Link
    <3>3. QED BY <3>1, <3>2
  <2>2. CASE ~StartReadOf(t, f)
    BY <1>1, <2>2 DEF Fail, StoreRead, StoreNextWrite, StartNextWrite, StartWrite, Stop, Return, streamVars
  <2>3. QED BY <2>1, <2>2
<1>6. Len(received'[t]) = Close => stopped'[t]
  <2>1. CASE Stop(t, f)
    BY <2>1 DEF Stop, IInv, TypeOK
  <2>2. CASE StoreNextWrite(t, f)
    BY <2>2, ReplyTaken DEF StoreNextWrite
  <2>3. CASE ~Stop(t, f) /\ ~StoreNextWrite(t, f)
    <3>1. UNCHANGED <<received, stopped>>
      BY <1>1, <2>3 DEF Fail, StoreRead, StartReadOf, StartNextWrite, Return
    <3>2. QED BY <3>1 DEF Coming
  <2>4. QED BY <2>1, <2>2, <2>3
<1>7. Coming(t)' BY <1>2, <1>4, <1>5, <1>6 DEF Coming
<1>8. ASSUME NEW u \in Txs, u # t PROVE Coming(u)'
  BY <1>2, <1>3, <1>8 DEF Coming
<1>9. QED BY <1>7, <1>8

\* Whatever fails and whenever: as long as the main thread is in context.run() it has
\* been stopped, or the chain has a link that can go on, or it ended by a failure and
\* only a signal is left.  (EndsOrGivesUp then needs fairness only.)
THEOREM NeverStuckProved == Spec => []NeverStuck
<1>1. Init => \A t \in Txs : Coming(t)
  <2> SUFFICES ASSUME Init, NEW t \in Txs PROVE Coming(t)
    OBVIOUS
  <2>1. reading[t] = FALSE /\ frames[t] = {} /\ received[t] = <<>>
    BY DEF Init, StreamInit
  <2>2. Len(received[t]) = 0 BY <2>1
  <2>3. QED BY <2>1, <2>2 DEF Coming, Close
<1>2. IInv /\ (\A t \in Txs : Coming(t)) /\ [Next]_vars => (\A t \in Txs : Coming(t))'
  <2> SUFFICES ASSUME IInv, \A t \in Txs : Coming(t), [Next]_vars
               PROVE  \A t \in Txs : Coming(t)'
    OBVIOUS
  <2>1. CASE UNCHANGED vars
    BY <2>1, ComingFrame DEF vars, streamVars, toolVars, SameTx
  <2>2. QED BY <2>1, MainComing, WriteComing, ReadComing, CallbackComing DEF Next
<1>3. IInv /\ (\A t \in Txs : Coming(t)) => NeverStuck
  <2> SUFFICES ASSUME IInv, \A t \in Txs : Coming(t), NEW t \in Txs,
                      main[t] = "waiting", ~CanGoOn(t)
               PROVE  GaveUp(t)
    BY DEF NeverStuck
  <2>1. ~stopped[t] /\ writing[t] = 0 /\ ~reading[t] /\ Acting(t) = {}
    BY DEF CanGoOn, Coming
  <2>2. \A f \in frames[t] : f.at = "last" BY <2>1 DEF Acting
  <2>3. Len(received[t]) # Close /\ Len(received[t]) \in Nat
    BY <2>1 DEF Coming, IInv, TypeOK
  <2>4. status[t] # "open"
    BY <2>1, <2>2, <2>3 DEF IInv, TxInv, Unbroken
  <2>5. Len(received[t]) < Close
    <3>1. CASE received[t] = <<>> BY <3>1 DEF Close
    <3>2. CASE received[t] # <<>>
      <4>1. Len(received[t]) \in 1 .. Len(received[t]) BY <2>3, <3>2
      <4>2. received[t][Len(received[t])] = Len(received[t])
        BY <4>1 DEF IInv, TxInv, Replies
      <4>3. received[t] \in Seq(0 .. Close) BY DEF IInv, TypeOK
      <4>4. \A i \in 1 .. Len(received[t]) : received[t][i] \in 0 .. Close
        <5> DEFINE S == 0 .. Close
        <5>1. received[t] \in Seq(S) BY <4>3
        <5> HIDE DEF S
        <5>2. \A i \in 1 .. Len(received[t]) : received[t][i] \in S BY <5>1
        <5>3. QED BY <5>2 DEF S
      <4>5. Len(received[t]) \in 0 .. Close BY Zenon, <4>1, <4>2, <4>4
      <4>6. \A n \in 0 .. Close : n # Close => n < Close BY DEF Close
      <4>7. QED BY <2>3, <4>5, <4>6
    <3>3. QED BY <3>1, <3>2
  <2>6. QED BY <2>1, <2>4, <2>5 DEF GaveUp
<1>4. QED BY <1>1, <1>2, <1>3, Invariance, PTL DEF Spec
=============================================================================
