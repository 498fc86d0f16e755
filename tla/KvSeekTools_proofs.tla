-------------------------- MODULE KvSeekTools_proofs --------------------------
(***************************************************************************)
(* Proofs about the blocking tool and the completion-queue tools: what the *)
(* exit code says, which event is waited for, which cursor is named.  The  *)
(* inductive invariant puts each tool at one operation of its script: not  *)
(* started, started, or ended with its event in the queue.                 *)
(***************************************************************************)
EXTENDS KvSeekTools, TLAPS

Kinds == {"start", "write", "writelast", "read", "finish"}
Writes == {"write", "writelast"}
Tags == {"START", "OPEN", "SEEK", "CLOSE", "FINISH"}

\* The requests whose replies are behind a tool that is at op.
Before(op) == {j \in 1 .. 3 : op.kind = "finish" \/ j < op.k}

\* What one operation of a script is, and what the one after it.
OpOK(which, op) ==
    /\ op.kind \in Kinds /\ op.k \in 0 .. 3 /\ op.tag \in Tags
    /\ op.k = 0 <=> op.kind \in {"start", "finish"}
    /\ which = "sync" => op.kind \in {"write", "read"}
    /\ which = "queue" => op.kind # "writelast"

Follows(op, next) ==
    /\ op.kind # "finish" /\ next.kind # "start"
    /\ op.kind \in Writes <=> next.kind = "read"
    /\ op.kind \in Writes => next.k = op.k
    /\ op.kind = "start" => next.k = 1
    /\ op.kind = "read" => IF op.k = 3 THEN next.kind = "finish" ELSE next.k = op.k + 1

ScriptOK(which) ==
    LET s == Script(which) IN
    /\ Len(s) \in Nat \ {0}
    /\ \A i \in 1 .. Len(s) : OpOK(which, s[i])
    /\ s[1].kind \in {"start", "write"} /\ s[1].k < 2
    /\ \A i \in 1 .. Len(s) : i # Len(s) => Follows(s[i], s[i + 1])
    /\ \/ s[Len(s)].kind = "finish" /\ which # "sync"
       \/ s[Len(s)].kind = "read" /\ s[Len(s)].k = 3 /\ which = "sync"

Ops == [kind : Kinds, k : 0 .. 3, tag : Tags]

-----------------------------------------------------------------------------
\* A tool that has not started its operation, one that waits for it to end, and
\* one whose operation has ended.
Idle(t) == ~issued[t] => queue[t] = <<>> /\ writing[t] = 0 /\ ~reading[t]

Started(t) ==
    Running(t) /\ issued[t] /\ queue[t] = <<>> =>
        /\ writing[t] = (IF Current(t).kind \in Writes THEN Current(t).k ELSE 0)
        /\ reading[t] <=> Current(t).kind = "read"

Ended(t) ==
    queue[t] # <<>> =>
        /\ issued[t] /\ writing[t] = 0 /\ ~reading[t] /\ Len(queue[t]) = 1
        /\ queue[t][1].tag = Current(t).tag
        /\ queue[t][1].reply \in {0, Current(t).k}
        /\ Current(t).kind = "read" /\ queue[t][1].ok => queue[t][1].reply = Current(t).k
        /\ queue[t][1].ok \/ status[t] # "open"

\* On the wire is at most the request whose reply the tool is to read.
Wire(t) ==
    Running(t) /\ wire[t] # <<>> =>
        /\ wire[t] = <<Current(t).k>>
        /\ IF queue[t] = <<>> THEN Current(t).kind = "read" ELSE Current(t).kind \in Writes

\* What was printed, what was received, and which cursor the reply to OPEN left.
Results(t) ==
    /\ Running(t) => printed[t] = Before(Current(t))
    /\ exit[t] = "success" => printed[t] = 1 .. 3
    /\ tool[t] = "sync" \/ status[t] = "open" => real[t] = printed[t]
    /\ Running(t) /\ Current(t).k > 1 => cursor[t] = 1 \/ status[t] # "open"
    /\ exit[t] = "failure" => tool[t] = "sync" /\ status[t] # "open"

TxInv(t) == Idle(t) /\ Started(t) /\ Ended(t) /\ Wire(t) /\ Results(t)

IInv == TypeOK /\ \A t \in Txs : TxInv(t)

-----------------------------------------------------------------------------
(* The scripts.                                                             *)

LEMMA Scripts == \A which \in {"sync", "queue", "corked"} : ScriptOK(which)
<1> USE DEF ScriptOK, OpOK, Follows, Op, Kinds, Writes, Tags, Script
<1>1. ScriptOK("sync") BY DEF SyncScript
<1>2. ScriptOK("queue") BY DEF QueueScript
<1>3. ScriptOK("corked") BY DEF CorkedScript
<1>4. QED BY <1>1, <1>2, <1>3

\* The operation a tool is at, and the one it goes on to.
LEMMA At ==
  ASSUME TypeOK, NEW t \in Txs
  PROVE  /\ tool[t] \in {"sync", "queue", "corked"} /\ ScriptOK(tool[t])
         /\ OpOK(tool[t], Current(t))
         /\ Last(t) => \/ Current(t).kind = "finish" /\ tool[t] # "sync"
                       \/ Current(t).kind = "read" /\ Current(t).k = 3
         /\ ~Last(t) => /\ step[t] + 1 \in 1 .. Len(Script(tool[t]))
                        /\ Follows(Current(t), Script(tool[t])[step[t] + 1])
                        /\ OpOK(tool[t], Script(tool[t])[step[t] + 1])
<1>1. tool[t] \in {"sync", "queue", "corked"} BY ToolsAssumption DEF TypeOK
<1>2. ScriptOK(tool[t]) BY <1>1, Scripts
<1>3. step[t] \in 1 .. Len(Script(tool[t])) BY DEF TypeOK
<1>4. QED BY <1>1, <1>2, <1>3 DEF ScriptOK, Current, Last

-----------------------------------------------------------------------------
LEMMA InitIInv == Init => IInv
<1> SUFFICES ASSUME Init PROVE IInv
  OBVIOUS
<1>1. TypeOK
  <2>1. ASSUME NEW t \in Txs PROVE 1 \in 1 .. Len(Script(tool[t]))
    <3>1. tool[t] \in {"sync", "queue", "corked"} BY ToolsAssumption DEF Init
    <3>2. ScriptOK(tool[t]) BY <3>1, Scripts
    <3>3. Len(Script(tool[t])) \in Nat \ {0} BY <3>2 DEF ScriptOK
    <3>4. QED BY <3>3
  <2>2. step \in [Txs -> Nat] /\ \A t \in Txs : step[t] = 1 BY DEF Init
  <2>3. StreamTypeOK BY DEF Init, StreamInit, StreamTypeOK
  <2>4. queue \in [Txs -> Seq(Events)] BY DEF Init
  <2>5. QED BY <2>1, <2>2, <2>3, <2>4 DEF Init, TypeOK
<1>2. ASSUME NEW t \in Txs PROVE TxInv(t)
  <2>1. /\ Current(t) = Script(tool[t])[1] /\ Running(t) /\ ~issued[t] /\ queue[t] = <<>>
        /\ writing[t] = 0 /\ ~reading[t] /\ wire[t] = <<>>
        /\ printed[t] = {} /\ real[t] = {} /\ exit[t] = "none"
    BY DEF Init, StreamInit, Current, Running
  <2>2. Current(t).kind # "finish" /\ Current(t).k \in 0 .. 1
    BY <1>1, <2>1, At DEF ScriptOK, OpOK
  <2>3. Before(Current(t)) = {} BY <2>2 DEF Before
  <2>4. Results(t) BY <2>1, <2>2, <2>3 DEF Results
  <2>5. QED BY <2>1, <2>4 DEF TxInv, Idle, Started, Ended, Wire
<1>3. QED BY <1>1, <1>2 DEF IInv

\* What the invariant says of one tool depends on its own state only.
SameTx(u) ==
    /\ writing'[u] = writing[u] /\ reading'[u] = reading[u] /\ wire'[u] = wire[u]
    /\ status'[u] = status[u] /\ tool'[u] = tool[u] /\ step'[u] = step[u]
    /\ issued'[u] = issued[u] /\ queue'[u] = queue[u] /\ cursor'[u] = cursor[u]
    /\ printed'[u] = printed[u] /\ real'[u] = real[u] /\ exit'[u] = exit[u]

LEMMA Frame == ASSUME NEW u \in Txs, TxInv(u), SameTx(u) PROVE TxInv(u)'
<1>1. Current(u)' = Current(u) /\ Running(u)' = Running(u) BY DEF SameTx, Current, Running
<1> USE <1>1 DEF SameTx, TxInv
<1>2. Idle(u)' BY DEF Idle
<1>3. Started(u)' BY DEF Started
<1>4. Ended(u)' BY DEF Ended
<1>5. Wire(u)' BY DEF Wire
<1>6. Results(u)' BY DEF Results
<1>7. QED BY <1>2, <1>3, <1>4, <1>5, <1>6

-----------------------------------------------------------------------------
(* The tool starts its operation.                                           *)

LEMMA IssueStep == ASSUME IInv, NEW t \in Txs, Issue(t) PROVE IInv'
<1> DEFINE op == Current(t)
<1>1. /\ Running(t) /\ ~issued[t] /\ issued' = [issued EXCEPT ![t] = TRUE]
      /\ exit' = IF tool[t] = "queue" /\ op.kind = "finish"
                 THEN [exit EXCEPT ![t] = "success"] ELSE exit
      /\ UNCHANGED <<tool, step, queue, cursor, printed, real>>
  BY DEF Issue
<1>2. /\ UNCHANGED <<wire, status, released>>
      /\ writing' = [writing EXCEPT ![t] = IF op.kind \in Writes THEN op.k ELSE writing[t]]
      /\ reading' = [reading EXCEPT ![t] = op.kind = "read" \/ reading[t]]
      /\ halfClosed' \in [Txs -> BOOLEAN]
  <2>1. /\ writing = [writing EXCEPT ![t] = writing[t]] /\ writing \in [Txs -> Nat]
        /\ reading = [reading EXCEPT ![t] = reading[t]] /\ reading \in [Txs -> BOOLEAN]
        /\ halfClosed \in [Txs -> BOOLEAN]
    BY DEF IInv, TypeOK, StreamTypeOK
  <2>2. CASE op.kind = "write"
    <3>1. StartWrite(t, op.k) BY <2>2 DEF Issue
    <3>2. QED BY <2>1, <2>2, <3>1 DEF StartWrite, Writes
  <2>3. CASE op.kind = "writelast"
    <3>1. StartWriteLast(t, op.k) BY <2>3 DEF Issue
    <3>2. QED BY <2>1, <2>3, <3>1 DEF StartWriteLast, Writes
  <2>4. CASE op.kind = "read"
    <3>1. StartRead(t) BY <2>4 DEF Issue
    <3>2. QED BY <2>1, <2>4, <3>1 DEF StartRead, Writes
  <2>5. CASE op.kind \notin {"write", "writelast", "read"}
    <3>1. UNCHANGED streamVars BY <2>5 DEF Issue
    <3>2. QED BY <2>1, <2>5, <3>1 DEF streamVars, Writes
  <2>6. QED BY <2>2, <2>3, <2>4, <2>5
<1>3. TxInv(t) /\ OpOK(tool[t], op) /\ TypeOK BY At DEF IInv
<1>4. TypeOK'
  <2>1. op.k \in Nat BY <1>3 DEF OpOK
  <2>2. writing' \in [Txs -> Nat] /\ reading' \in [Txs -> BOOLEAN]
    BY <1>2, <1>3, <2>1 DEF TypeOK, StreamTypeOK
  <2>3. exit' \in [Txs -> {"none", "success", "failure"}] /\ issued' \in [Txs -> BOOLEAN]
    BY <1>1, <1>3 DEF TypeOK
  <2>4. QED BY <1>1, <1>2, <1>3, <2>2, <2>3 DEF TypeOK, StreamTypeOK
<1>5. ASSUME NEW u \in Txs, u # t PROVE TxInv(u)'
  <2>1. TxInv(u) BY DEF IInv
  <2>2. SameTx(u) BY <1>1, <1>2, <1>3, <1>5 DEF SameTx, TypeOK, StreamTypeOK
  <2>3. QED BY <2>1, <2>2, Frame
<1>6. TxInv(t)'
  <2>1. queue[t] = <<>> /\ writing[t] = 0 /\ ~reading[t] BY <1>1, <1>3 DEF TxInv, Idle
  <2>2. /\ issued'[t] /\ Current(t)' = op
        /\ writing'[t] = (IF op.kind \in Writes THEN op.k ELSE 0)
        /\ reading'[t] <=> op.kind = "read"
        /\ exit'[t] = "none" \/ (exit'[t] = "success" /\ op.kind = "finish")
    BY <1>1, <1>2, <1>3, <2>1 DEF TypeOK, StreamTypeOK, Current, Running
  <2>3. Idle(t)' BY <2>2 DEF Idle
  <2>4. Started(t)' BY <2>2 DEF Started
  <2>5. Ended(t)' BY <1>1, <2>1 DEF Ended
  <2>6. Wire(t)' BY <1>1, <1>2, <1>3, <2>1, <2>2 DEF Wire, TxInv, Running
  <2>7. Results(t)'
    <3>1. op.kind = "finish" => Before(op) = 1 .. 3 BY DEF Before
    <3>2. QED BY <1>1, <1>2, <1>3, <2>2, <3>1 DEF TxInv, Results, Running
  <2>8. QED BY <2>3, <2>4, <2>5, <2>6, <2>7 DEF TxInv
<1>7. QED BY <1>4, <1>5, <1>6 DEF IInv

-----------------------------------------------------------------------------
(* gRPC: an operation ends.                                                 *)

\* The event of the operation is queued.  The operation is no longer outstanding,
\* and only that of a write may leave its request on the wire.
LEMMA PostStep ==
  ASSUME IInv, NEW t \in Txs, NEW ok \in BOOLEAN, NEW reply \in {0, Current(t).k},
         Running(t), issued[t], queue[t] = <<>>, Post(t, ok, reply),
         UNCHANGED <<halfClosed, status, released>>,
         writing' = [writing EXCEPT ![t] = 0],
         reading' = [reading EXCEPT ![t] = FALSE],
         wire' \in [Txs -> Seq(Nat)], \A u \in Txs : u # t => wire'[u] = wire[u],
         wire'[t] = <<>> \/ (wire'[t] = <<Current(t).k>> /\ Current(t).kind \in Writes),
         Current(t).kind = "read" /\ ok => reply = Current(t).k,
         ok \/ status[t] # "open"
  PROVE  IInv'
<1> DEFINE op == Current(t)
           e == [tag |-> op.tag, ok |-> ok, reply |-> reply]
<1>1. /\ queue' = [queue EXCEPT ![t] = Append(@, e)]
      /\ UNCHANGED <<tool, step, issued, cursor, printed, real, exit>>
  BY DEF Post
<1>2. TxInv(t) /\ OpOK(tool[t], op) /\ TypeOK BY At DEF IInv
<1>3. e \in Events /\ e.tag = op.tag /\ e.ok = ok /\ e.reply = reply
  BY <1>2 DEF OpOK, Events, Tags
<1> HIDE DEF e
<1>4. queue'[t] = <<e>> /\ <<e>> \in Seq(Events) /\ <<e>> # <<>> /\ Len(<<e>>) = 1 /\ <<e>>[1] = e
  BY <1>1, <1>2, <1>3 DEF TypeOK
<1>5. TypeOK'
  <2>1. queue' \in [Txs -> Seq(Events)]
    <3>1. queue' = [queue EXCEPT ![t] = <<e>>] BY <1>1
    <3>2. QED BY <1>2, <1>4, <3>1 DEF TypeOK
  <2>2. QED BY <1>1, <1>2, <2>1 DEF TypeOK, StreamTypeOK
<1>6. ASSUME NEW u \in Txs, u # t PROVE TxInv(u)'
  <2>1. TxInv(u) BY DEF IInv
  <2>2. SameTx(u) BY <1>1, <1>2, <1>6 DEF SameTx, TypeOK, StreamTypeOK
  <2>3. QED BY <2>1, <2>2, Frame
<1>7. TxInv(t)'
  <2>1. /\ Current(t)' = op /\ writing'[t] = 0 /\ ~reading'[t] /\ issued'[t]
        /\ queue'[t] # <<>> /\ Len(queue'[t]) = 1 /\ queue'[t][1] = e
    BY <1>1, <1>2, <1>4 DEF TypeOK, StreamTypeOK, Current
  <2>2. Idle(t)' BY <2>1 DEF Idle
  <2>3. Started(t)' BY <2>1 DEF Started
  <2>4. Ended(t)' BY <1>3, <2>1 DEF Ended
  <2>5. Wire(t)' BY <2>1 DEF Wire
  <2>6. Results(t)' BY <1>1, <1>2, <2>1 DEF TxInv, Results, Running
  <2>7. QED BY <2>2, <2>3, <2>4, <2>5, <2>6 DEF TxInv
<1>8. QED BY <1>5, <1>6, <1>7 DEF IInv

\* The stream is up, or has been closed: an operation that moves no message.
LEMMA QuietDoneStep ==
  ASSUME IInv, NEW t \in Txs, StartDone(t) \/ FinishDone(t) PROVE IInv'
<1> DEFINE op == Current(t)
<1>1. /\ Running(t) /\ issued[t] /\ queue[t] = <<>> /\ op.kind \in {"start", "finish"}
      /\ UNCHANGED streamVars
      /\ \E ok \in BOOLEAN : Post(t, ok, 0) /\ (ok \/ status[t] # "open")
  BY DEF StartDone, FinishDone
<1>2. TxInv(t) /\ TypeOK BY DEF IInv
<1>3. writing[t] = 0 /\ ~reading[t] BY <1>1, <1>2 DEF TxInv, Started, Writes
<1>4. writing' = [writing EXCEPT ![t] = 0] /\ reading' = [reading EXCEPT ![t] = FALSE]
  <2>1. writing \in [Txs -> Nat] /\ reading \in [Txs -> BOOLEAN] BY <1>2 DEF TypeOK, StreamTypeOK
  <2>2. reading[t] = FALSE BY <1>3, <2>1
  <2>3. UNCHANGED <<writing, reading>> BY <1>1 DEF streamVars
  <2>4. writing = [writing EXCEPT ![t] = writing[t]] BY <2>1
  <2>5. reading = [reading EXCEPT ![t] = reading[t]] BY <2>1
  <2>6. QED BY <1>3, <2>2, <2>3, <2>4, <2>5
<1>5. wire' = wire /\ wire' \in [Txs -> Seq(Nat)] /\ wire'[t] = <<>>
  BY <1>1, <1>2 DEF streamVars, TypeOK, StreamTypeOK, TxInv, Wire
<1>6. op.kind # "read" BY <1>1
<1>7. UNCHANGED <<halfClosed, status, released>> BY <1>1 DEF streamVars
<1>8. PICK ok \in BOOLEAN : Post(t, ok, 0) /\ (ok \/ status[t] # "open") BY <1>1
<1>9. QED BY <1>1, <1>4, <1>5, <1>6, <1>7, <1>8, PostStep

\* A write ends: its request is on the wire, or lost.
LEMMA WriteDoneStep == ASSUME IInv, NEW t \in Txs, WriteDone(t) PROVE IInv'
<1> DEFINE op == Current(t)
<1>1. PICK ok \in BOOLEAN : WriteCompletes(t, ok) /\ Post(t, ok, 0) BY DEF WriteDone
<1>2. TxInv(t) /\ TypeOK /\ Running(t) BY DEF IInv, WriteDone
<1>3. /\ writing[t] # 0 /\ (ok \/ status[t] # "open")
      /\ writing' = [writing EXCEPT ![t] = 0]
      /\ wire' = IF ok /\ status[t] = "open" THEN [wire EXCEPT ![t] = Append(@, writing[t])] ELSE wire
      /\ UNCHANGED <<reading, halfClosed, status, released>>
  BY <1>1 DEF WriteCompletes
<1>4. issued[t] /\ queue[t] = <<>> BY <1>2, <1>3 DEF TxInv, Idle, Ended
<1>5. op.kind \in Writes /\ writing[t] = op.k /\ ~reading[t] /\ op.kind # "read"
  BY <1>2, <1>3, <1>4 DEF TxInv, Started, Writes
<1>6. wire[t] = <<>> BY <1>2, <1>4, <1>5 DEF TxInv, Wire
<1>7. reading' = [reading EXCEPT ![t] = FALSE]
  <2>1. reading \in [Txs -> BOOLEAN] BY <1>2 DEF TypeOK, StreamTypeOK
  <2>2. QED BY <1>3, <1>5, <2>1
<1>8. /\ wire' \in [Txs -> Seq(Nat)] /\ \A u \in Txs : u # t => wire'[u] = wire[u]
      /\ wire'[t] = <<>> \/ wire'[t] = <<op.k>>
  <2>1. /\ wire \in [Txs -> Seq(Nat)] /\ writing[t] \in Nat BY <1>2 DEF TypeOK, StreamTypeOK
  <2>2. Append(wire[t], writing[t]) = <<op.k>> /\ Append(wire[t], writing[t]) \in Seq(Nat)
    BY <1>5, <1>6, <2>1
  <2>3. QED BY <1>3, <1>6, <2>1, <2>2
<1>9. QED BY <1>1, <1>2, <1>3, <1>4, <1>5, <1>7, <1>8, PostStep

\* A read ends: with the reply the tool waits for, or with none.
LEMMA ReadDoneStep == ASSUME IInv, NEW t \in Txs, ReadDone(t) PROVE IInv'
<1> DEFINE op == Current(t)
<1>1. PICK ok \in BOOLEAN :
         ReadCompletes(t, ok) /\ Post(t, ok, IF ok THEN Head(wire[t]) ELSE 0)
  BY DEF ReadDone
<1>2. TxInv(t) /\ TypeOK /\ Running(t) BY DEF IInv, ReadDone
<1>3. /\ reading[t] /\ (IF ok THEN wire[t] # <<>> ELSE wire[t] = <<>> /\ status[t] # "open")
      /\ reading' = [reading EXCEPT ![t] = FALSE]
      /\ wire' = IF ok THEN [wire EXCEPT ![t] = Tail(@)] ELSE wire
      /\ UNCHANGED <<writing, halfClosed, status, released>>
  BY <1>1 DEF ReadCompletes
<1>4. issued[t] /\ queue[t] = <<>> BY <1>2, <1>3 DEF TxInv, Idle, Ended
<1>5. op.kind = "read" /\ writing[t] = 0 BY <1>2, <1>3, <1>4 DEF TxInv, Started, Writes
<1>6. ok => wire[t] = <<op.k>> BY <1>2, <1>3 DEF TxInv, Wire
<1>7. writing' = [writing EXCEPT ![t] = 0]
  <2>1. writing \in [Txs -> Nat] BY <1>2 DEF TypeOK, StreamTypeOK
  <2>2. QED BY <1>3, <1>5, <2>1
<1>8. /\ wire' \in [Txs -> Seq(Nat)] /\ \A u \in Txs : u # t => wire'[u] = wire[u]
      /\ wire'[t] = <<>>
  <2>1. wire \in [Txs -> Seq(Nat)] BY <1>2 DEF TypeOK, StreamTypeOK
  <2>2. Tail(<<op.k>>) = <<>> /\ <<>> \in Seq(Nat) OBVIOUS
  <2>3. QED BY <1>3, <1>6, <2>1, <2>2
<1>9. ok => Head(wire[t]) = op.k BY <1>6
<1> DEFINE reply == IF ok THEN Head(wire[t]) ELSE 0
<1>10. reply \in {0, op.k} /\ (ok => reply = op.k) BY <1>9
<1>11. Post(t, ok, reply) BY <1>1
<1>12. ok \/ status[t] # "open" BY <1>3
<1> HIDE DEF reply
<1>13. QED BY <1>2, <1>3, <1>4, <1>7, <1>8, <1>10, <1>11, <1>12, PostStep

\* The server finishes, or the stream breaks.
LEMMA EndStep ==
  ASSUME IInv, NEW t \in Txs, ServerFinishes(t) \/ StreamBreaks(t)
  PROVE  IInv'
<1>1. /\ UNCHANGED toolVars /\ UNCHANGED <<writing, reading, halfClosed, released>>
      /\ status[t] = "open" /\ Running(t)
      /\ \E s \in {"ok", "error"} : status' = [status EXCEPT ![t] = s]
      /\ wire' = wire \/ \E kept \in {wire[t], <<>>} : wire' = [wire EXCEPT ![t] = kept]
  BY DEF ServerFinishes, StreamBreaks, FinishStream, BreakStream
<1>2. TxInv(t) /\ TypeOK BY DEF IInv
<1>3. /\ wire' \in [Txs -> Seq(Nat)] /\ \A u \in Txs : u # t => wire'[u] = wire[u]
      /\ wire'[t] \in {wire[t], <<>>}
  <2>1. wire \in [Txs -> Seq(Nat)] /\ wire[t] \in Seq(Nat) /\ <<>> \in Seq(Nat)
    BY <1>2 DEF TypeOK, StreamTypeOK
  <2>2. CASE wire' = wire BY <2>1, <2>2
  <2>3. ASSUME NEW kept \in {wire[t], <<>>}, wire' = [wire EXCEPT ![t] = kept]
        PROVE  /\ wire' \in [Txs -> Seq(Nat)] /\ \A u \in Txs : u # t => wire'[u] = wire[u]
               /\ wire'[t] \in {wire[t], <<>>}
    <3>1. kept \in Seq(Nat) BY <2>1
    <3>2. QED BY <2>1, <2>3, <3>1
  <2>4. QED BY <1>1, <2>2, <2>3
<1>4. /\ status' \in [Txs -> {"open", "ok", "error"}] /\ status'[t] # "open"
      /\ \A u \in Txs : u # t => status'[u] = status[u]
  BY <1>1, <1>2 DEF TypeOK, StreamTypeOK
<1>5. TypeOK' BY <1>1, <1>2, <1>3, <1>4 DEF toolVars, TypeOK, StreamTypeOK
<1>6. ASSUME NEW u \in Txs, u # t PROVE TxInv(u)'
  <2>1. TxInv(u) BY DEF IInv
  <2>2. SameTx(u) BY <1>1, <1>3, <1>4, <1>6 DEF SameTx, toolVars
  <2>3. QED BY <2>1, <2>2, Frame
<1>7. TxInv(t)'
  <2>1. Current(t)' = Current(t) /\ Running(t)' BY <1>1 DEF toolVars, Current, Running
  <2>2. Idle(t)' BY <1>1, <1>2 DEF toolVars, TxInv, Idle
  <2>3. Started(t)' BY <1>1, <1>2, <2>1 DEF toolVars, TxInv, Started
  <2>4. Ended(t)' BY <1>1, <1>2, <1>4, <2>1 DEF toolVars, TxInv, Ended
  <2>5. Wire(t)' BY <1>1, <1>2, <1>3, <2>1 DEF toolVars, TxInv, Wire
  <2>6. Results(t)' BY <1>1, <1>2, <1>4, <2>1 DEF toolVars, TxInv, Results, Running
  <2>7. QED BY <2>2, <2>3, <2>4, <2>5, <2>6 DEF TxInv
<1>8. QED BY <1>5, <1>6, <1>7 DEF IInv

-----------------------------------------------------------------------------
(* The tool takes the event.                                                *)

\* What a read leaves behind, and what comes after the operation.
LEMMA UseStep ==
  ASSUME IInv, NEW t \in Txs, Running(t), queue[t] # <<>>,
         Accepts(t, queue[t][1]), Use(t, Current(t), queue[t][1])
  PROVE  /\ cursor' \in [Txs -> 0 .. 3]
         /\ printed' \in [Txs -> SUBSET (1 .. 3)] /\ real' \in [Txs -> SUBSET (1 .. 3)]
         /\ \A u \in Txs : u # t =>
               cursor'[u] = cursor[u] /\ printed'[u] = printed[u] /\ real'[u] = real[u]
         /\ tool[t] = "sync" \/ status[t] = "open" => real'[t] = printed'[t]
         /\ Last(t) => printed'[t] = 1 .. 3
         /\ \A n : Follows(Current(t), n) /\ OpOK(tool[t], n) =>
               /\ printed'[t] = Before(n)
               /\ n.k > 1 => cursor'[t] = 1 \/ status[t] # "open"
<1> DEFINE op == Current(t)
           e == queue[t][1]
<1>1. TxInv(t) /\ TypeOK /\ OpOK(tool[t], op) BY At DEF IInv
<1>2. /\ e.reply \in {0, op.k} /\ (op.kind = "read" /\ e.ok => e.reply = op.k)
      /\ e.ok \/ status[t] # "open"
      /\ tool[t] = "sync" => e.ok
  BY <1>1 DEF TxInv, Ended, Accepts
<1>3. /\ op.k \in 0 .. 3 /\ (op.k = 0 <=> op.kind \in {"start", "finish"})
      /\ op.kind = "read" => op.k \in 1 .. 3
      /\ e.reply \in 0 .. 3
  BY <1>1, <1>2 DEF OpOK
<1>4. /\ printed[t] = Before(op) /\ printed[t] \in SUBSET (1 .. 3)
      /\ tool[t] = "sync" \/ status[t] = "open" => real[t] = printed[t]
      /\ op.k > 1 => cursor[t] = 1 \/ status[t] # "open"
  BY <1>1 DEF TxInv, Results, TypeOK
<1>5. /\ cursor' = IF op.kind = "read" /\ op.k = 1 THEN [cursor EXCEPT ![t] = e.reply] ELSE cursor
      /\ printed' = IF op.kind = "read" THEN [printed EXCEPT ![t] = @ \cup {op.k}] ELSE printed
      /\ real' = IF op.kind = "read" /\ e.reply = op.k
                 THEN [real EXCEPT ![t] = @ \cup {op.k}] ELSE real
  BY DEF Use
<1> HIDE DEF op, e
<1>6. cursor' \in [Txs -> 0 .. 3] BY <1>1, <1>3, <1>5 DEF TypeOK
<1>7. printed' \in [Txs -> SUBSET (1 .. 3)] /\ real' \in [Txs -> SUBSET (1 .. 3)]
  <2>1. printed \in [Txs -> SUBSET (1 .. 3)] /\ real \in [Txs -> SUBSET (1 .. 3)]
    BY <1>1 DEF TypeOK
  <2>2. op.kind = "read" =>
          printed[t] \cup {op.k} \in SUBSET (1 .. 3) /\ real[t] \cup {op.k} \in SUBSET (1 .. 3)
    BY <1>3, <2>1
  <2>3. QED BY <1>5, <2>1, <2>2
<1>8. /\ cursor'[t] = IF op.kind = "read" /\ op.k = 1 THEN e.reply ELSE cursor[t]
      /\ printed'[t] = IF op.kind = "read" THEN printed[t] \cup {op.k} ELSE printed[t]
      /\ real'[t] = IF op.kind = "read" /\ e.reply = op.k THEN real[t] \cup {op.k} ELSE real[t]
      /\ \A u \in Txs : u # t =>
            cursor'[u] = cursor[u] /\ printed'[u] = printed[u] /\ real'[u] = real[u]
  BY <1>1, <1>5 DEF TypeOK
<1>9. tool[t] = "sync" \/ status[t] = "open" => real'[t] = printed'[t]
  BY <1>2, <1>4, <1>8
<1>10. Last(t) => printed'[t] = 1 .. 3
  <2>1. Last(t) => op.kind = "finish" \/ (op.kind = "read" /\ op.k = 3)
    BY <1>1, At DEF op
  <2>2. op.kind = "finish" => Before(op) = 1 .. 3 BY DEF Before
  <2>3. op.kind = "read" /\ op.k = 3 => Before(op) \cup {op.k} = 1 .. 3 BY DEF Before
  <2>4. QED BY <1>4, <1>8, <2>1, <2>2, <2>3
<1>11. ASSUME NEW n, Follows(op, n), OpOK(tool[t], n)
       PROVE  /\ printed'[t] = Before(n)
              /\ n.k > 1 => cursor'[t] = 1 \/ status[t] # "open"
  <2>1. n.k \in 0 .. 3 /\ (n.k = 0 <=> n.kind \in {"start", "finish"}) BY <1>11 DEF OpOK
  <2>2. CASE op.kind = "read"
    <3>1. IF op.k = 3 THEN n.kind = "finish" ELSE n.k = op.k + 1 BY <1>11, <2>2 DEF Follows
    <3>2. op.k \in 1 .. 3 BY <1>3, <2>2
    <3>3. Before(op) \cup {op.k} = Before(n)
      <4>1. op.kind # "finish" BY <2>2
      <4>2. CASE op.k = 3 BY <3>1, <4>1, <4>2 DEF Before
      <4>3. CASE op.k # 3
        <5>1. n.k = op.k + 1 /\ n.kind # "finish" BY <2>1, <3>1, <3>2, <4>3
        <5>2. QED BY <3>2, <4>1, <5>1 DEF Before
      <4>4. QED BY <4>2, <4>3
    <3>4. n.k > 1 => cursor'[t] = 1 \/ status[t] # "open"
      BY <1>2, <1>4, <1>8, <2>1, <2>2, <3>1, <3>2
    <3>5. QED BY <1>4, <1>8, <2>2, <3>3, <3>4
  <2>3. CASE op.kind # "read"
    <3>1. op.kind \in {"start", "write", "writelast"}
      BY <1>1, <1>11, <2>3 DEF OpOK, Kinds, Follows, op
    <3>2. CASE op.kind = "start"
      <4>1. op.k = 0 /\ n.k = 1 /\ n.kind # "finish" BY <1>3, <1>11, <2>1, <3>2 DEF Follows
      <4>2. Before(op) = Before(n) BY <3>2, <4>1 DEF Before
      <4>3. QED BY <1>4, <1>8, <2>3, <4>1, <4>2
    <3>3. CASE op.kind \in {"write", "writelast"}
      <4>1. n.k = op.k /\ n.kind = "read" BY <1>11, <3>3 DEF Follows, Writes
      <4>2. Before(op) = Before(n) BY <3>3, <4>1 DEF Before
      <4>3. QED BY <1>4, <1>8, <2>3, <4>1, <4>2
    <3>4. QED BY <3>1, <3>2, <3>3
  <2>4. QED BY <2>2, <2>3
<1>12. QED BY <1>6, <1>7, <1>8, <1>9, <1>10, <1>11 DEF op, e

LEMMA ProceedStep == ASSUME IInv, NEW t \in Txs, Proceed(t) PROVE IInv'
<1> DEFINE op == Current(t)
           e == queue[t][1]
<1>1. TxInv(t) /\ TypeOK /\ OpOK(tool[t], op) BY At DEF IInv
<1>2. /\ Running(t) /\ queue[t] # <<>> /\ Head(queue[t]) = e
      /\ queue' = [queue EXCEPT ![t] = Tail(@)] /\ UNCHANGED <<tool, streamVars>>
  BY DEF Proceed
<1>3. /\ issued[t] /\ writing[t] = 0 /\ ~reading[t] /\ Len(queue[t]) = 1
      /\ e.tag = op.tag /\ (e.ok \/ status[t] # "open")
  BY <1>1, <1>2 DEF TxInv, Ended
<1>4. queue' \in [Txs -> Seq(Events)] /\ queue'[t] = <<>>
      /\ \A u \in Txs : u # t => queue'[u] = queue[u]
  <2>1. queue \in [Txs -> Seq(Events)] /\ queue[t] \in Seq(Events) BY <1>1 DEF TypeOK
  <2>2. Tail(queue[t]) = <<>> /\ Tail(queue[t]) \in Seq(Events) BY <1>2, <1>3, <2>1
  <2>3. QED BY <1>2, <2>1, <2>2
<1>5. CASE Accepts(t, e)
  <2>1. Use(t, op, e) BY <1>2, <1>5 DEF Proceed
  <2>2. /\ cursor' \in [Txs -> 0 .. 3]
        /\ printed' \in [Txs -> SUBSET (1 .. 3)] /\ real' \in [Txs -> SUBSET (1 .. 3)]
        /\ \A u \in Txs : u # t =>
              cursor'[u] = cursor[u] /\ printed'[u] = printed[u] /\ real'[u] = real[u]
        /\ tool[t] = "sync" \/ status[t] = "open" => real'[t] = printed'[t]
        /\ Last(t) => printed'[t] = 1 .. 3
        /\ \A n : Follows(op, n) /\ OpOK(tool[t], n) =>
              /\ printed'[t] = Before(n)
              /\ n.k > 1 => cursor'[t] = 1 \/ status[t] # "open"
    BY <1>2, <1>5, <2>1, UseStep
  <2>3. CASE Last(t)
    <3>1. exit' = [exit EXCEPT ![t] = "success"] /\ UNCHANGED <<step, issued>>
      BY <1>2, <1>5, <2>3 DEF Proceed
    <3>2. TypeOK' BY <1>1, <1>2, <1>4, <2>2, <3>1 DEF TypeOK, StreamTypeOK, streamVars
    <3>3. ASSUME NEW u \in Txs, u # t PROVE TxInv(u)'
      <4>1. TxInv(u) BY DEF IInv
      <4>2. SameTx(u) BY <1>1, <1>2, <1>4, <2>2, <3>1, <3>3 DEF SameTx, TypeOK, streamVars
      <4>3. QED BY <4>1, <4>2, Frame
    <3>4. TxInv(t)'
      <4>1. exit'[t] = "success" /\ ~Running(t)' BY <1>1, <3>1 DEF TypeOK, Running
      <4>2. Idle(t)' BY <1>3, <3>1 DEF Idle
      <4>3. Started(t)' BY <4>1 DEF Started
      <4>4. Ended(t)' BY <1>4 DEF Ended
      <4>5. Wire(t)' BY <4>1 DEF Wire
      <4>6. Results(t)' BY <1>2, <2>2, <2>3, <4>1 DEF Results, streamVars
      <4>7. QED BY <4>2, <4>3, <4>4, <4>5, <4>6 DEF TxInv
    <3>5. QED BY <3>2, <3>3, <3>4 DEF IInv
  <2>4. CASE ~Last(t)
    <3>1. /\ step' = [step EXCEPT ![t] = @ + 1] /\ issued' = [issued EXCEPT ![t] = FALSE]
          /\ UNCHANGED exit
      BY <1>2, <1>5, <2>4 DEF Proceed
    <3> DEFINE n == Script(tool[t])[step[t] + 1]
    <3>2. /\ step[t] + 1 \in 1 .. Len(Script(tool[t])) /\ step[t] + 1 \in Nat
          /\ Follows(op, n) /\ OpOK(tool[t], n)
      BY <1>1, <2>4, At DEF TypeOK
    <3>3. /\ step' \in [Txs -> Nat] /\ issued' \in [Txs -> BOOLEAN]
          /\ step'[t] = step[t] + 1 /\ ~issued'[t]
          /\ \A u \in Txs : u # t => step'[u] = step[u] /\ issued'[u] = issued[u]
      BY <1>1, <3>1, <3>2 DEF TypeOK
    <3>4. TypeOK'
      <4>1. \A u \in Txs : step'[u] \in 1 .. Len(Script(tool'[u]))
        BY <1>1, <1>2, <3>2, <3>3 DEF TypeOK
      <4>2. QED BY <1>1, <1>2, <1>4, <2>2, <3>1, <3>3, <4>1 DEF TypeOK, StreamTypeOK, streamVars
    <3>5. ASSUME NEW u \in Txs, u # t PROVE TxInv(u)'
      <4>1. TxInv(u) BY DEF IInv
      <4>2. SameTx(u) BY <1>2, <1>4, <2>2, <3>1, <3>3, <3>5 DEF SameTx, streamVars
      <4>3. QED BY <4>1, <4>2, Frame
    <3>6. TxInv(t)'
      <4>1. Current(t)' = n /\ Running(t)' BY <1>2, <3>1, <3>3 DEF Current, Running
      <4>2. Idle(t)' BY <1>2, <1>3, <1>4 DEF Idle, streamVars
      <4>3. Started(t)' BY <3>3 DEF Started
      <4>4. Ended(t)' BY <1>4 DEF Ended
      <4>5. Wire(t)'
        <5>1. wire[t] # <<>> => wire[t] = <<op.k>> /\ op.kind \in Writes
          BY <1>1, <1>2 DEF TxInv, Wire
        <5>2. op.kind \in Writes => n.kind = "read" /\ n.k = op.k BY <3>2 DEF Follows
        <5>3. QED BY <1>2, <1>4, <4>1, <5>1, <5>2 DEF Wire, streamVars
      <4>6. Results(t)'
        <5>1. printed'[t] = Before(n) /\ (n.k > 1 => cursor'[t] = 1 \/ status[t] # "open")
          BY <2>2, <3>2
        <5>2. exit'[t] = "none" BY <1>2, <3>1 DEF Running
        <5>3. QED BY <1>2, <2>2, <4>1, <5>1, <5>2 DEF Results, streamVars
      <4>7. QED BY <4>2, <4>3, <4>4, <4>5, <4>6 DEF TxInv
    <3>7. QED BY <3>4, <3>5, <3>6 DEF IInv
  <2>5. QED BY <2>3, <2>4
<1>6. CASE ~Accepts(t, e)
  <2>1. exit' = [exit EXCEPT ![t] = "failure"] /\ UNCHANGED <<step, issued, cursor, printed, real>>
    BY <1>2, <1>6 DEF Proceed
  <2>2. tool[t] = "sync" /\ status[t] # "open" BY <1>3, <1>6 DEF Accepts
  <2>3. TypeOK' BY <1>1, <1>2, <1>4, <2>1 DEF TypeOK, StreamTypeOK, streamVars
  <2>4. ASSUME NEW u \in Txs, u # t PROVE TxInv(u)'
    <3>1. TxInv(u) BY DEF IInv
    <3>2. SameTx(u) BY <1>1, <1>2, <1>4, <2>1, <2>4 DEF SameTx, TypeOK, streamVars
    <3>3. QED BY <3>1, <3>2, Frame
  <2>5. TxInv(t)'
    <3>1. exit'[t] = "failure" /\ ~Running(t)' BY <1>1, <2>1 DEF TypeOK, Running
    <3>2. Idle(t)' BY <1>3, <2>1 DEF Idle
    <3>3. Started(t)' BY <3>1 DEF Started
    <3>4. Ended(t)' BY <1>4 DEF Ended
    <3>5. Wire(t)' BY <3>1 DEF Wire
    <3>6. Results(t)' BY <1>1, <1>2, <2>1, <2>2, <3>1 DEF TxInv, Results, streamVars
    <3>7. QED BY <3>2, <3>3, <3>4, <3>5, <3>6 DEF TxInv
  <2>6. QED BY <2>3, <2>4, <2>5 DEF IInv
<1>7. QED BY <1>5, <1>6

-----------------------------------------------------------------------------
LEMMA NextIInv == IInv /\ [Next]_vars => IInv'
<1> SUFFICES ASSUME IInv, [Next]_vars PROVE IInv'
  OBVIOUS
<1>1. CASE UNCHANGED vars
  <2>1. TypeOK' BY <1>1 DEF vars, streamVars, toolVars, IInv, TypeOK, StreamTypeOK
  <2>2. ASSUME NEW u \in Txs PROVE TxInv(u)'
    BY <1>1, Frame DEF vars, streamVars, toolVars, IInv, SameTx
  <2>3. QED BY <2>1, <2>2 DEF IInv
<1>2. QED BY <1>1, IssueStep, QuietDoneStep, WriteDoneStep, ReadDoneStep, ProceedStep, EndStep
  DEF Next, Completion

\* The inductive invariant holds in every state of every behaviour.
THEOREM Invariance == Spec => []IInv
BY InitIInv, NextIInv, PTL DEF Spec

\* Every variable keeps its type: no tool runs off the end of its script.
THEOREM TypeCorrect == Spec => []TypeOK
<1>1. IInv => TypeOK BY DEF IInv
<1>2. QED BY <1>1, Invariance, PTL

\* The exit code says of the replies what ExitCodes says, whatever the stream did.
THEOREM ExitCodesProved == Spec => []ExitCodes
<1>1. IInv => ExitCodes
  <2>1. 1 .. 3 = {1, 2, 3} OBVIOUS
  <2>2. QED BY <2>1 DEF IInv, TxInv, Results, ExitCodes
<1>2. QED BY <1>1, Invariance, PTL

\* A request with another cursor than the one opened is made only after the stream's end.
THEOREM CursorNamedProved == Spec => []CursorNamed
<1>1. IInv => CursorNamed BY DEF IInv, TxInv, Results, CursorNamed
<1>2. QED BY <1>1, Invariance, PTL

\* At most one event is waited for, and it is that of the operation started.
THEOREM RepliesMatchProved == Spec => []RepliesMatch
<1>1. IInv => RepliesMatch
  <2> SUFFICES ASSUME IInv, NEW t \in Txs, queue[t] # <<>>
               PROVE  /\ Len(queue[t]) = 1 /\ issued[t]
                      /\ Head(queue[t]).tag = Current(t).tag
                      /\ Head(queue[t]).reply \in {0, Current(t).k}
    BY DEF RepliesMatch
  <2>1. Head(queue[t]) = queue[t][1] OBVIOUS
  <2>2. QED BY <2>1 DEF IInv, TxInv, Ended
<1>2. QED BY <1>1, Invariance, PTL

-----------------------------------------------------------------------------
(* No tool is ever stuck.                                                   *)

\* The corked tool has half-closed the stream with its last write.
HasWrittenLast(t) ==
    /\ tool[t] = "corked"
    /\ \/ Current(t).kind = "finish"
       \/ Current(t).kind = "read" /\ Current(t).k = 3
       \/ Current(t).kind = "writelast" /\ issued[t]

\* A write that has ended leaves its reply on the wire for the read that follows,
\* unless the stream has ended; nobody waits for a finish the server is not told of.
Coming(t) ==
    Running(t) =>
        /\ (IF queue[t] = <<>> THEN Current(t).kind = "read" ELSE Current(t).kind \in Writes)
              => wire[t] # <<>> \/ status[t] # "open"
        /\ HasWrittenLast(t) => halfClosed[t]
        /\ Current(t).kind = "finish" /\ issued[t] => tool[t] # "queue"

\* The tool's own step, or the end of its operation, or the end of the stream.
CanGoOn(t) ==
    \/ ~issued[t] \/ queue[t] # <<>>
    \/ Current(t).kind = "start" \/ writing[t] # 0
    \/ reading[t] /\ (wire[t] # <<>> \/ status[t] # "open")
    \/ Current(t).kind = "finish"
          /\ (status[t] # "open" \/ (halfClosed[t] /\ wire[t] = <<>>))

NeverStuck == \A t \in Txs : Running(t) => CanGoOn(t)

\* The half-close of the corked tool goes with its third write.
LEMMA CorkedWrites ==
  ASSUME TypeOK, NEW t \in Txs, tool[t] = "corked", Current(t).kind \in Writes, Current(t).k = 3
  PROVE  Current(t).kind = "writelast"
<1>1. \A i \in 1 .. Len(CorkedScript) : CorkedScript[i].kind = "write" => CorkedScript[i].k # 3
  BY DEF CorkedScript, Op
<1>2. step[t] \in 1 .. Len(CorkedScript) BY DEF TypeOK, Script
<1>3. Current(t) = CorkedScript[step[t]] BY DEF Current, Script
<1>4. QED BY <1>1, <1>2, <1>3 DEF Writes

\* What Coming says of one tool depends on its own state only.
LEMMA ComingFrame ==
  ASSUME NEW u \in Txs, Coming(u), SameTx(u), halfClosed'[u] = halfClosed[u]
  PROVE  Coming(u)'
<1>1. Current(u)' = Current(u) /\ Running(u)' = Running(u) BY DEF SameTx, Current, Running
<1>2. QED BY <1>1 DEF Coming, SameTx, HasWrittenLast

\* The tool starts its operation.
LEMMA IssueComing ==
  ASSUME IInv, \A u \in Txs : Coming(u), NEW t \in Txs, Issue(t)
  PROVE  \A u \in Txs : Coming(u)'
<1>1. /\ Running(t) /\ ~issued[t] /\ issued' = [issued EXCEPT ![t] = TRUE]
      /\ UNCHANGED <<tool, step, queue, wire, status>>
      /\ Current(t)' = Current(t)
  BY DEF Issue, StartWrite, StartWriteLast, StartRead, streamVars, Current
<1>2. /\ \A u \in Txs : halfClosed[u] => halfClosed'[u]
      /\ Current(t).kind = "writelast" => halfClosed'[t]
  BY DEF Issue, StartWrite, StartWriteLast, StartRead, streamVars, IInv, TypeOK, StreamTypeOK
<1>3. /\ \A u \in Txs : Running(u)' => Running(u)
      /\ Running(t)' /\ Current(t).kind = "finish" => tool[t] # "queue"
  BY DEF Issue, Running, IInv, TypeOK
<1>4. Coming(t)' BY <1>1, <1>2, <1>3 DEF Coming, HasWrittenLast
<1>5. ASSUME NEW u \in Txs, u # t PROVE Coming(u)'
  <2>1. Current(u)' = Current(u) /\ issued'[u] = issued[u]
    BY <1>1, <1>5 DEF Current, IInv, TypeOK
  <2>2. QED BY <1>1, <1>2, <1>3, <2>1 DEF Coming, HasWrittenLast
<1>6. QED BY <1>4, <1>5

\* gRPC ends it: only a write leaves something for the read that follows.
LEMMA CompletionComing ==
  ASSUME IInv, \A u \in Txs : Coming(u), NEW t \in Txs, Completion(t)
  PROVE  \A u \in Txs : Coming(u)'
<1>1. PICK ok \in BOOLEAN, reply \in Nat : Post(t, ok, reply)
  <2>1. CASE ReadDone(t)
    <3>1. PICK ok \in BOOLEAN : ReadCompletes(t, ok) /\ Post(t, ok, IF ok THEN Head(wire[t]) ELSE 0)
      BY <2>1 DEF ReadDone
    <3>2. wire[t] \in Seq(Nat) /\ (ok => wire[t] # <<>>)
      BY <3>1 DEF ReadCompletes, IInv, TypeOK, StreamTypeOK
    <3>3. (IF ok THEN Head(wire[t]) ELSE 0) \in Nat BY <3>2
    <3>4. QED BY <3>1, <3>3
  <2>2. QED BY <2>1 DEF Completion, StartDone, WriteDone, FinishDone, IInv, TypeOK, StreamTypeOK
<1>2. /\ UNCHANGED <<tool, step, issued, exit, halfClosed, status>>
      /\ \A u \in Txs : Current(u)' = Current(u) /\ Running(u)' = Running(u)
      /\ \A u \in Txs : u # t => queue'[u] = queue[u] /\ wire'[u] = wire[u]
  <2>1. UNCHANGED <<tool, step, issued, exit>> /\ \A u \in Txs : u # t => queue'[u] = queue[u]
    BY <1>1 DEF Post, IInv, TypeOK
  <2>2. UNCHANGED <<halfClosed, status>> /\ \A u \in Txs : u # t => wire'[u] = wire[u]
    BY ZenonT(60) DEF Completion, StartDone, WriteDone, WriteCompletes, ReadDone, ReadCompletes, FinishDone,
           streamVars, IInv, TypeOK, StreamTypeOK
  <2>3. QED BY <2>1, <2>2 DEF Current, Running
<1>3. queue'[t] # <<>>
  <2> DEFINE e == [tag |-> Current(t).tag, ok |-> ok, reply |-> reply]
  <2>1. queue'[t] = Append(queue[t], e) BY <1>1 DEF Post, IInv, TypeOK
  <2> HIDE DEF e
  <2>2. queue[t] \in Seq(Events) BY DEF IInv, TypeOK
  <2>3. Append(queue[t], e) # <<>> BY <2>2
  <2>4. QED BY <2>1, <2>3
<1>4. Current(t).kind \in Writes => wire'[t] # <<>> \/ status[t] # "open"
  <2>1. TxInv(t) BY DEF IInv
  <2>2. CASE WriteDone(t)
    <3>1. PICK good \in BOOLEAN : WriteCompletes(t, good) BY <2>2 DEF WriteDone
    <3>2. wire[t] \in Seq(Nat) BY DEF IInv, TypeOK, StreamTypeOK
    <3>3. Append(wire[t], writing[t]) # <<>> BY <3>2
    <3>4. QED BY <3>1, <3>3 DEF WriteCompletes, IInv, TypeOK, StreamTypeOK
  <2>3. CASE ReadDone(t)
    <3>1. reading[t] /\ Running(t) BY <2>3 DEF ReadDone, ReadCompletes
    <3>2. Current(t).kind = "read" BY <2>1, <3>1 DEF TxInv, Idle, Started, Ended
    <3>3. QED BY <3>2 DEF Writes
  <2>4. CASE StartDone(t) \/ FinishDone(t)
    BY <2>4 DEF StartDone, FinishDone, Writes
  <2>5. QED BY <2>2, <2>3, <2>4 DEF Completion
<1>5. Coming(t)' BY <1>2, <1>3, <1>4 DEF Coming, HasWrittenLast
<1>6. ASSUME NEW u \in Txs, u # t PROVE Coming(u)'
  BY <1>2, <1>6 DEF Coming, HasWrittenLast
<1>7. QED BY <1>5, <1>6

\* The tool goes on: from a write to the read of its reply, and to the finish from the
\* read of the third.
LEMMA ProceedComing ==
  ASSUME IInv, \A u \in Txs : Coming(u), NEW t \in Txs, Proceed(t)
  PROVE  \A u \in Txs : Coming(u)'
<1>1. /\ Running(t) /\ queue[t] # <<>> /\ queue' = [queue EXCEPT ![t] = Tail(@)]
      /\ UNCHANGED <<tool, streamVars>>
  BY DEF Proceed
<1>2. TypeOK /\ TxInv(t) /\ OpOK(tool[t], Current(t)) /\ issued[t]
  BY <1>1, At DEF IInv, TxInv, Ended
<1>3. Len(queue[t]) = 1 /\ queue[t] \in Seq(Events) BY <1>1, <1>2 DEF TxInv, Ended, TypeOK
<1>4. queue'[t] = <<>>
  <2>1. queue \in [Txs -> Seq(Events)] /\ queue[t] \in Seq(Events) BY <1>2 DEF TypeOK
  <2>2. Tail(queue[t]) = <<>> /\ Tail(queue[t]) \in Seq(Events) BY <1>1, <1>3, <2>1
  <2>3. QED BY <1>1, <2>1, <2>2
<1>5. \A u \in Txs : u # t =>
         /\ Current(u)' = Current(u) /\ Running(u)' = Running(u)
         /\ issued'[u] = issued[u] /\ queue'[u] = queue[u]
  BY DEF Proceed, Current, Running, IInv, TypeOK
<1>6. ASSUME NEW u \in Txs, u # t PROVE Coming(u)'
  BY <1>1, <1>5, <1>6 DEF Coming, HasWrittenLast, streamVars
<1>7. ASSUME Running(t)' PROVE Coming(t)'
  <2>1. ~Last(t) /\ step' = [step EXCEPT ![t] = @ + 1] /\ issued' = [issued EXCEPT ![t] = FALSE]
    BY <1>2, <1>7 DEF Proceed, Running, TypeOK
  <2> DEFINE next == Script(tool[t])[step[t] + 1]
  <2>2. Follows(Current(t), next) /\ OpOK(tool[t], next) BY <1>2, <2>1, At
  <2>3. Current(t)' = next /\ ~issued'[t] BY <1>1, <1>2, <2>1 DEF Current, TypeOK
  <2> HIDE DEF next
  <2>4. next.kind = "read" => wire[t] # <<>> \/ status[t] # "open"
    <3>1. next.kind = "read" => Current(t).kind \in Writes BY <2>2 DEF Follows
    <3>2. QED BY <1>1, <3>1 DEF Coming
  <2>5. tool[t] = "corked" /\ next.kind = "read" /\ next.k = 3 => halfClosed[t]
    <3> SUFFICES ASSUME tool[t] = "corked", next.kind = "read", next.k = 3 PROVE halfClosed[t]
      OBVIOUS
    <3>1. Current(t).kind \in Writes /\ Current(t).k = 3 BY <2>2 DEF Follows
    <3>2. Current(t).kind = "writelast" BY <1>2, <3>1, CorkedWrites
    <3>3. QED BY <1>1, <1>2, <3>2 DEF Coming, HasWrittenLast
  <2>6. tool[t] = "corked" /\ next.kind = "finish" => halfClosed[t]
    <3> SUFFICES ASSUME tool[t] = "corked", next.kind = "finish" PROVE halfClosed[t]
      OBVIOUS
    <3>1. Current(t).kind = "read" BY <1>2, <2>2 DEF Follows, OpOK, Kinds, Writes
    <3>2. Current(t).k = 3 BY <1>2, <2>2, <3>1 DEF Follows, OpOK
    <3>3. QED BY <1>1, <3>1, <3>2 DEF Coming, HasWrittenLast
  <2>7. QED BY <1>1, <1>4, <2>3, <2>4, <2>5, <2>6 DEF Coming, HasWrittenLast, streamVars
<1>8. QED BY <1>6, <1>7 DEF Coming

\* The end of the stream excuses everybody.
LEMMA EndComing ==
  ASSUME IInv, \A u \in Txs : Coming(u), NEW t \in Txs, ServerFinishes(t) \/ StreamBreaks(t)
  PROVE  \A u \in Txs : Coming(u)'
<1>1. /\ UNCHANGED toolVars /\ UNCHANGED halfClosed /\ status'[t] # "open"
      /\ \A u \in Txs : u # t => wire'[u] = wire[u] /\ status'[u] = status[u]
  BY DEF ServerFinishes, FinishStream, StreamBreaks, BreakStream, IInv, TypeOK, StreamTypeOK
<1>2. \A u \in Txs : Current(u)' = Current(u) /\ Running(u)' = Running(u)
  BY <1>1 DEF toolVars, Current, Running
<1>3. QED BY <1>1, <1>2 DEF Coming, HasWrittenLast, toolVars

\* As long as a tool runs there is a next step: its own, or the end of the operation it
\* waits for, or the end of the stream its Finish waits for.  No order in which the
\* stream breaks makes a tool wait for nothing.  (EveryToolExits then needs fairness only.)
THEOREM NeverStuckProved == Spec => []NeverStuck
<1>1. Init => \A t \in Txs : Coming(t)
  <2> SUFFICES ASSUME Init, NEW t \in Txs PROVE Coming(t)
    OBVIOUS
  <2>1. TypeOK BY InitIInv DEF IInv
  <2>2. ~issued[t] /\ queue[t] = <<>> /\ Current(t) = Script(tool[t])[1]
    BY DEF Init, Current
  <2>3. Current(t).kind \in {"start", "write"} BY <2>1, <2>2, At DEF ScriptOK
  <2>4. QED BY <2>2, <2>3 DEF Coming, HasWrittenLast
<1>2. IInv /\ (\A t \in Txs : Coming(t)) /\ [Next]_vars => (\A t \in Txs : Coming(t))'
  <2> SUFFICES ASSUME IInv, \A t \in Txs : Coming(t), [Next]_vars
               PROVE  \A t \in Txs : Coming(t)'
    OBVIOUS
  <2>1. CASE UNCHANGED vars
    BY <2>1, ComingFrame DEF vars, streamVars, toolVars, SameTx
  <2>2. QED BY <2>1, IssueComing, CompletionComing, ProceedComing, EndComing DEF Next
<1>3. IInv /\ (\A t \in Txs : Coming(t)) => NeverStuck
  <2> SUFFICES ASSUME IInv, \A t \in Txs : Coming(t), NEW t \in Txs,
                      Running(t), issued[t], queue[t] = <<>>
               PROVE  CanGoOn(t)
    BY DEF NeverStuck, CanGoOn
  <2>1. TxInv(t) /\ TypeOK /\ Coming(t) BY DEF IInv
  <2>2. OpOK(tool[t], Current(t)) /\ tool[t] \in {"sync", "queue", "corked"} BY <2>1, At
  <2>3. CASE Current(t).kind \in Writes
    BY <2>1, <2>2, <2>3 DEF TxInv, Started, OpOK, CanGoOn, Writes
  <2>4. CASE Current(t).kind = "read"
    BY <2>1, <2>4 DEF TxInv, Started, Coming, CanGoOn
  <2>5. CASE Current(t).kind = "finish"
    <3>1. tool[t] = "corked" BY <2>1, <2>2, <2>5 DEF Coming, OpOK
    <3>2. halfClosed[t] BY <2>1, <2>5, <3>1 DEF Coming, HasWrittenLast
    <3>3. wire[t] = <<>> BY <2>1, <2>5 DEF TxInv, Wire
    <3>4. QED BY <2>5, <3>2, <3>3 DEF CanGoOn
  <2>6. CASE Current(t).kind = "start" BY <2>6 DEF CanGoOn
  <2>7. QED BY <2>2, <2>3, <2>4, <2>5, <2>6 DEF OpOK, Kinds, Writes
<1>4. QED BY <1>1, <1>2, <1>3, Invariance, PTL DEF Spec
=============================================================================
