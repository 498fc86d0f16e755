--------------------------- MODULE GrpcKvAwaitable ---------------------------
(***************************************************************************)
(* Asynchronous KV requests from end to end: the coroutines of the single  *)
(* io_context thread that co_await async_open_cursor, async_seek,          *)
(* async_next, async_close_cursor and async_close                          *)
(* (src/silkoroutine/bindings/kv/awaitables.hpp), the reactor's slots and  *)
(* the reactions on gRPC threads (GrpcClientReactor), the stream           *)
(* (GrpcStream), and the queue of handlers posted back to the io_context.  *)
(*                                                                         *)
(* The four requests have one control flow and are modelled as one; each   *)
(* is known by its number within its transaction.  A coroutine has one     *)
(* call in progress at a time (the only use the reactor's single slots     *)
(* allow, and the use src/cmd/kv_seek_async_coroutines.cpp makes).         *)
(*                                                                         *)
(* The steps of a call are split where another thread can run in between:  *)
(* storing the callback, starting the gRPC operation, suspending.          *)
(***************************************************************************)
EXTENDS GrpcClientReactor

CONSTANT MaxOps     \* bound: the requests a transaction makes before it closes

ASSUME MaxOpsAssumption == MaxOps \in Nat

VARIABLES process,  \* "up", "terminated" (an exception nobody catches), or "undefined"
          pc,       \* pc[t]: where the coroutine of transaction t is
          n,        \* n[t]: the number of its last call
          got,      \* got[t]: the number its last reply carried
          queue     \* the handlers posted to the io_context, oldest first

clientVars == <<process, pc, n, got, queue>>
vars == <<streamVars, reactorVars, clientVars>>

OnThread == {"running", "stored", "started", "closeStored", "closeStarted", "closed"}
Places == OnThread \cup {"unborn", "awaiting", "closing", "ended"}

Handlers == [tx : Txs, op : Nat \ {0}, ok : BOOLEAN, reply : Nat]

TypeOK ==
    /\ StreamTypeOK
    /\ ReactorTypeOK
    /\ process \in {"up", "terminated", "undefined"}
    /\ pc \in [Txs -> Places]
    /\ n \in [Txs -> 0 .. MaxOps + 1]
    /\ got \in [Txs -> Nat]
    /\ queue \in Seq(Handlers)

Init ==
    /\ StreamInit
    /\ ReactorInit
    /\ process = "up"
    /\ pc = [t \in Txs |-> "unborn"]
    /\ n = [t \in Txs |-> 0]
    /\ got = [t \in Txs |-> 0]
    /\ queue = <<>>

Up == process = "up"
IoIdle == \A t \in Txs : pc[t] \notin OnThread

\* An exception leaves a reaction.  gRPC built with exceptions swallows it,
\* built without it lets the process terminate.
ThrowOnGrpcThread == process' \in {"up", "terminated"}

-----------------------------------------------------------------------------
(* The io_context thread.                                                   *)

\* RemoteDatabase::begin: the transaction's reactor opens its stream.
Begin(t) ==
    /\ Up /\ IoIdle /\ pc[t] = "unborn"
    /\ pc' = [pc EXCEPT ![t] = "running"]
    /\ UNCHANGED <<streamVars, reactorVars, process, n, got, queue>>

\* Mutant: a request may be made while another is awaited.
InitiateRequest_Pipelined(t) ==
    /\ Up /\ n[t] < MaxOps
    /\ pc[t] = "running" \/ (pc[t] = "awaiting" /\ IoIdle)
    /\ n' = [n EXCEPT ![t] = @ + 1]
    /\ pc' = [pc EXCEPT ![t] = "stored"]
    /\ StoreWriteSlot(t, n[t] + 1)
    /\ UNCHANGED <<streamVars, pair, reactionVars, process, got, queue>>

\* co_await of a request: a new operation object, its callback in the slot ...
InitiateRequest(t) ==
    /\ Up /\ pc[t] = "running" /\ n[t] < MaxOps
    /\ n' = [n EXCEPT ![t] = @ + 1]
    /\ pc' = [pc EXCEPT ![t] = "stored"]
    /\ StoreWriteSlot(t, n[t] + 1)
    /\ UNCHANGED <<streamVars, pair, reactionVars, process, got, queue>>

\* ... then StartWrite, on a call gRPC may have released meanwhile.
StartRequest(t) ==
    /\ Up /\ pc[t] = "stored"
    /\ IF WriteAllowed(t)
       THEN /\ StartWrite(t, n[t])
            /\ pc' = [pc EXCEPT ![t] = "started"]
            /\ UNCHANGED process
       ELSE /\ process' = "undefined"
            /\ UNCHANGED <<streamVars, pc>>
    /\ UNCHANGED <<reactorVars, n, got, queue>>

\* Mutant: the close callback is not stored before the half-close.
InitiateClose_NoSlot(t) ==
    /\ Up /\ pc[t] = "running"
    /\ n' = [n EXCEPT ![t] = @ + 1]
    /\ pc' = [pc EXCEPT ![t] = "closeStored"]
    /\ UNCHANGED <<streamVars, reactorVars, process, got, queue>>

\* co_await of async_close: likewise, with StartWritesDone.
InitiateClose(t) ==
    /\ Up /\ pc[t] = "running"
    /\ n' = [n EXCEPT ![t] = @ + 1]
    /\ pc' = [pc EXCEPT ![t] = "closeStored"]
    /\ StoreCloseSlot(t, n[t] + 1)
    /\ UNCHANGED <<streamVars, pair, reactionVars, process, got, queue>>

StartClose(t) ==
    /\ Up /\ pc[t] = "closeStored"
    /\ IF WritesDoneAllowed(t)
       THEN /\ StartWritesDone(t)
            /\ pc' = [pc EXCEPT ![t] = "closeStarted"]
            /\ UNCHANGED process
       ELSE /\ process' = "undefined"
            /\ UNCHANGED <<streamVars, pc>>
    /\ UNCHANGED <<reactorVars, n, got, queue>>

\* Mutant: the close is not awaited.
Suspend_CloseNotAwaited(t) ==
    /\ Up /\ pc[t] \in {"started", "closeStarted"}
    /\ pc' = [pc EXCEPT ![t] = IF @ = "started" THEN "awaiting" ELSE "closed"]
    /\ UNCHANGED <<streamVars, reactorVars, process, n, got, queue>>

\* The initiating function returns and the coroutine gives up the thread.
Suspend(t) ==
    /\ Up /\ pc[t] \in {"started", "closeStarted"}
    /\ pc' = [pc EXCEPT ![t] = IF @ = "started" THEN "awaiting" ELSE "closing"]
    /\ UNCHANGED <<streamVars, reactorVars, process, n, got, queue>>

\* Mutant: the handler does not look at ok.
RunHandler_IgnoresFailure ==
    /\ Up /\ IoIdle /\ queue # <<>>
    /\ queue' = Tail(queue)
    /\ LET h == Head(queue)
       IN  IF pc[h.tx] = "awaiting"
           THEN /\ pc' = [pc EXCEPT ![h.tx] = "running"]
                /\ got' = [got EXCEPT ![h.tx] = h.reply]
           ELSE /\ pc' = [pc EXCEPT ![h.tx] = "closed"]
                /\ UNCHANGED got
    /\ UNCHANGED <<streamVars, reactorVars, process, n>>

\* The oldest posted handler runs.  It throws out of context.run() if its
\* operation failed.  Otherwise it completes the operation object, which
\* resumes the coroutine that awaits it; completing any other is undefined.
RunHandler ==
    /\ Up /\ IoIdle /\ queue # <<>>
    /\ queue' = Tail(queue)
    /\ LET h == Head(queue)
           awaited == h.op = n[h.tx] /\ pc[h.tx] \in {"awaiting", "closing"}
       IN  IF h.ok /\ awaited
           THEN /\ IF pc[h.tx] = "awaiting"
                   THEN /\ pc' = [pc EXCEPT ![h.tx] = "running"]
                        /\ got' = [got EXCEPT ![h.tx] = h.reply]
                   ELSE /\ pc' = [pc EXCEPT ![h.tx] = "closed"]
                        /\ UNCHANGED got
                /\ UNCHANGED process
           ELSE /\ process' = IF h.ok THEN "undefined" ELSE "terminated"
                /\ UNCHANGED <<pc, got>>
    /\ UNCHANGED <<streamVars, reactorVars, n>>

\* The coroutine returns: its transaction, and the reactor in it, are destroyed.
End(t) ==
    /\ Up /\ pc[t] = "closed"
    /\ pc' = [pc EXCEPT ![t] = "ended"]
    /\ UNCHANGED <<streamVars, reactorVars, process, n, got, queue>>

-----------------------------------------------------------------------------
(* The callbacks, on gRPC threads.                                          *)

\* The write callback of a write that succeeded: read_start stores the read
\* callback ...
ArmRead(t) ==
    /\ Up /\ onWrite[t].at = "called" /\ onWrite[t].ok /\ onWrite[t].op # 0
    /\ StoreReadSlot(t, onWrite[t].op)
    /\ onWrite' = [onWrite EXCEPT ![t].at = "armed"]
    /\ UNCHANGED <<streamVars, pair, onRead, onDone, returning, clientVars>>

\* Mutants: the write callback starts the read again and again, or never.
IssueRead_Again(t) ==
    /\ Up /\ onWrite[t].at = "armed"
    /\ IF ReadAllowed(t)
       THEN StartRead(t) /\ UNCHANGED process
       ELSE process' = "undefined" /\ UNCHANGED streamVars
    /\ UNCHANGED <<reactorVars, pc, n, got, queue>>

IssueRead_Never(t) ==
    /\ Up /\ onWrite[t].at = "armed"
    /\ onWrite' = [onWrite EXCEPT ![t] = NoReaction]
    /\ WorkDone(t, "write", onWrite[t].op)
    /\ UNCHANGED <<streamVars, slotVars, pair, onRead, onDone, clientVars>>

\* ... and starts the read, which is the last thing the write callback does.  It is
\* then still running out of its slot.
IssueRead(t) ==
    /\ Up /\ onWrite[t].at = "armed"
    /\ IF ReadAllowed(t)
       THEN StartRead(t) /\ UNCHANGED process
       ELSE process' = "undefined" /\ UNCHANGED streamVars
    /\ onWrite' = [onWrite EXCEPT ![t] = NoReaction]
    /\ WorkDone(t, "write", onWrite[t].op)
    /\ UNCHANGED <<slotVars, pair, onRead, onDone, pc, n, got, queue>>

\* The write callback of a write that failed throws.
ThrowOnWrite(t) ==
    /\ Up /\ onWrite[t].at = "called" /\ (~onWrite[t].ok \/ onWrite[t].op = 0)
    /\ onWrite' = [onWrite EXCEPT ![t].at = "thrown"]
    /\ ThrowOnGrpcThread
    /\ UNCHANGED <<streamVars, slotVars, pair, onRead, onDone, returning, pc, n, got, queue>>

\* The read callback posts the completion, failed or not, with the pair it got.
\* The handler may run, and resume the coroutine, before the callback returns.
\* (The slot of an outstanding read is never empty.)
PostReply(t) ==
    /\ Up /\ onRead[t].at = "called"
    /\ queue' = Append(queue, [tx |-> t, op |-> onRead[t].op,
                               ok |-> onRead[t].ok, reply |-> onRead[t].reply])
    /\ onRead' = [onRead EXCEPT ![t] = NoReaction]
    /\ WorkDone(t, "read", onRead[t].op)
    /\ UNCHANGED <<streamVars, slotVars, pair, onWrite, onDone, process, pc, n, got>>

\* The close callback posts its completion, and OnDone is left to return: the
\* coroutine may meanwhile destroy the reactor.  If no close was started yet
\* the slot is empty and calling it throws.
CallCloseSlot(t) ==
    /\ Up /\ onDone[t].at = "called"
    /\ IF onDone[t].op # 0
       THEN /\ queue' = Append(queue, [tx |-> t, op |-> onDone[t].op,
                                       ok |-> onDone[t].ok, reply |-> 0])
            /\ onDone' = [onDone EXCEPT ![t] = NoReaction]
            /\ WorkDone(t, "close", onDone[t].op)
            /\ UNCHANGED process
       ELSE /\ onDone' = [onDone EXCEPT ![t].at = "thrown"]
            /\ ThrowOnGrpcThread
            /\ UNCHANGED <<returning, queue>>
    /\ UNCHANGED <<streamVars, slotVars, pair, onWrite, onRead, pc, n, got>>

-----------------------------------------------------------------------------
(* gRPC and the server, for the streams of transactions that exist.         *)

Exists(t) == pc[t] # "unborn"

WriteDone(t) == Up /\ OnWriteDone(t) /\ UNCHANGED clientVars
ReadDone(t) == Up /\ OnReadDone(t) /\ UNCHANGED clientVars
CallDone(t) == Up /\ OnDone(t) /\ UNCHANGED clientVars
CallbackReturns(t) == Up /\ ReactionReturns(t) /\ UNCHANGED <<streamVars, clientVars>>
ServerFinishes(t) == Up /\ FinishStream(t) /\ UNCHANGED <<reactorVars, clientVars>>
StreamBreaks(t) == Up /\ Exists(t) /\ BreakStream(t) /\ UNCHANGED <<reactorVars, clientVars>>

-----------------------------------------------------------------------------
IoStep ==
    \/ \E t \in Txs : \/ Begin(t)
                      \/ InitiateRequest(t)
                      \/ StartRequest(t)
                      \/ InitiateClose(t)
                      \/ StartClose(t)
                      \/ Suspend(t)
                      \/ End(t)
    \/ RunHandler

Callback(t) ==
    \/ ArmRead(t)
    \/ IssueRead(t)
    \/ ThrowOnWrite(t)
    \/ PostReply(t)
    \/ CallCloseSlot(t)
    \/ CallbackReturns(t)

Next ==
    \/ IoStep
    \/ \E t \in Txs : \/ Callback(t)
                      \/ WriteDone(t)
                      \/ ReadDone(t)
                      \/ CallDone(t)
                      \/ ServerFinishes(t)
                      \/ StreamBreaks(t)

Spec == Init /\ [][Next]_vars

\* The io_context thread keeps running, and so do gRPC's threads.
LocalFairness ==
    /\ WF_vars(IoStep)
    /\ \A t \in Txs : /\ WF_vars(Callback(t))
                      /\ WF_vars(WriteDone(t))
                      /\ WF_vars(CallDone(t))

\* The server answers, or the loss of the stream is noticed.
ServerFairness ==
    \A t \in Txs : WF_vars(ReadDone(t)) /\ WF_vars(ServerFinishes(t))

\* A server that may stay silent for ever, and one that does not.
SilentServerSpec == Spec /\ LocalFairness
FairSpec == Spec /\ LocalFairness /\ ServerFairness

-----------------------------------------------------------------------------
(* Properties.                                                              *)

\* A posted completion is for the call its coroutine is waiting in, carries the
\* reply to that very request (not pair_ as an earlier read left it, unless it
\* failed), and is the only one: every call is completed once, by its answer.
CompletionsMatch ==
    \A i \in 1 .. Len(queue) :
        LET h == queue[i] IN
        /\ h.op = n[h.tx]
        /\ pc[h.tx] \in {"started", "awaiting"} /\ h.ok => h.reply = n[h.tx]
        /\ \A j \in 1 .. Len(queue) : queue[j].tx = h.tx => i = j

\* The reactor has one slot for each kind of callback, and no lock.  As long as an
\* operation is outstanding, or its callback has something left to do, the slot holds
\* the callback of that operation, which is the one awaited now.  A slot may be
\* overwritten, and is, under a callback that has only to return: by that of a later
\* call, never by that of an earlier one, and the close slot not even then.
SlotsOwned ==
    \A t \in Txs :
        /\ writing[t] # 0 => write_completed[t] = writing[t] /\ writing[t] = n[t]
        /\ onWrite[t].at \in {"called", "armed"}
              => onWrite[t].op = n[t] /\ write_completed[t] = n[t]
        /\ reading[t] => read_completed[t] = n[t]
        /\ onRead[t].at = "called" => onRead[t].op = n[t] /\ read_completed[t] = n[t]
        /\ onDone[t].at = "called" => onDone[t].op \in {0, n[t]}
        /\ returning[t]["write"] <= write_completed[t]
        /\ returning[t]["read"] <= read_completed[t]
        /\ returning[t]["close"] \in {0, close_completed[t]}

\* A transaction is destroyed, with its reactor, only when gRPC has released the
\* call, no handler that refers to it waits, and every callback has returned but one:
\* the OnDone whose posted completion let the coroutine end.  It may still be inside
\* the close slot of the reactor that is gone, with nothing to do but to return.
DestroyedQuiescent ==
    \A t \in Txs : pc[t] = "ended" =>
        /\ released[t] /\ writing[t] = 0 /\ ~reading[t]
        /\ onWrite[t].at = "none" /\ onRead[t].at = "none" /\ onDone[t].at = "none"
        /\ returning[t]["write"] = 0 /\ returning[t]["read"] = 0
        /\ returning[t]["close"] \in {0, n[t]}
        /\ \A i \in 1 .. Len(queue) : queue[i].tx # t

\* gRPC's rules are broken in one way only: a stream that ended before the
\* client half-closed it had its call released, and its coroutine goes on to
\* write to it or to close it.
MisuseOnlyAfterEarlyEnd ==
    process = "undefined" =>
        \E t \in Txs : /\ released[t] /\ ~halfClosed[t]
                       /\ pc[t] \in {"stored", "closeStored"}

\* Nothing throws and nothing is undefined unless a stream failed, or ended before
\* its client half-closed it: with reliable streams the process stays up.
StaysUp ==
    ~Up => \E t \in Txs : \/ status[t] = "error"
                          \/ status[t] # "open" /\ ~halfClosed[t]

\* The abstract promise: calls return once, in order, with their own answers,
\* to one coroutine at a time.
PhaseOf(place) ==
    CASE place \in {"stored", "started", "awaiting"} -> "calling"
      [] place \in {"closeStored", "closeStarted", "closing"} -> "closing"
      [] OTHER -> place

Calls == INSTANCE KvCalls WITH phase <- [t \in Txs |-> PhaseOf(pc[t])],
                               calls <- n,
                               answered <- got,
                               alive <- Up

KeepsPromise == Calls!Spec

\* A call comes back, or its failure ends the process, or its write failed and
\* gRPC swallowed what the write callback threw: then the coroutine is lost.
InCall(t) == PhaseOf(pc[t]) \in {"calling", "closing"}
Lost(t) == onWrite[t].at = "thrown"
EveryCallSettles == \A t \in Txs : InCall(t) ~> (~InCall(t) \/ ~Up \/ Lost(t))

\* What the --timeout flag says (src/cmd/kv_seek_async_coroutines.cpp:39, "gRPC
\* call timeout"): no call lasts for ever, whatever the server does.
CallsTimeOut == \A t \in Txs : InCall(t) ~> (~InCall(t) \/ ~Up)

-----------------------------------------------------------------------------
(* The inductive invariant behind the safety properties: a call is in one    *)
(* place at a time, and every place names the call its coroutine awaits.     *)

InRequest(t) == pc[t] \in {"started", "awaiting"}
InClose(t) == pc[t] \in {"closeStored", "closeStarted", "closing"}
Queued(t) == \E i \in 1 .. Len(queue) : queue[i].tx = t

\* The call numbers: none before the first call, room for the close after the last.
Numbered(t) ==
    /\ pc[t] = "unborn" => n[t] = 0
    /\ pc[t] \in {"running", "stored", "started", "awaiting"} => n[t] <= MaxOps
    /\ pc[t] \notin {"unborn", "running"} => n[t] # 0

\* A request is with gRPC (to write), in the write callback, with gRPC (to
\* read), in the read callback, or in the queue - and nowhere else.
OnePlace(t) ==
    /\ writing[t] # 0 => onWrite[t].at = "none" /\ ~reading[t] /\ onRead[t].at = "none"
    /\ onWrite[t].at # "none" => ~reading[t] /\ onRead[t].at = "none"
    /\ reading[t] => onRead[t].at = "none"
    /\ writing[t] # 0 \/ onWrite[t].at # "none" \/ reading[t] \/ onRead[t].at # "none"
          => InRequest(t) /\ ~released[t] /\ ~Queued(t)

\* Every place, and the slot in use with it, holds the number of the last call.
Named(t) ==
    /\ writing[t] \in {0, n[t]}
    /\ pc[t] = "stored" \/ writing[t] # 0 => write_completed[t] = n[t]
    /\ onWrite[t].at \in {"called", "armed"}
          => onWrite[t].op = n[t] /\ write_completed[t] = n[t]
    /\ onWrite[t].at = "armed" \/ reading[t] => read_completed[t] = n[t]
    /\ onRead[t].at # "none" => onRead[t].op = n[t] /\ read_completed[t] = n[t]
    /\ onRead[t].at # "none" /\ onRead[t].ok => onRead[t].reply = n[t]

\* A reply waits on the wire only for the read of its own request.
Expected(t) ==
    /\ wire[t] \in {<<>>, <<n[t]>>}
    /\ wire[t] # <<>> =>
          reading[t] \/ (onWrite[t].at \in {"called", "armed"} /\ onWrite[t].ok)

\* The close: nothing is half-closed before it starts, its slot is filled once,
\* and its completion is posted by the OnDone that found the slot filled.
Closing(t) ==
    /\ halfClosed[t] <=> pc[t] \in {"closeStarted", "closing", "closed", "ended"}
    /\ close_completed[t] =
          IF InClose(t) \/ pc[t] \in {"closed", "ended"} THEN n[t] ELSE 0
    /\ onDone[t].at # "none" => released[t]
    /\ onDone[t].at = "called" => onDone[t].op \in {0, close_completed[t]}
    /\ onDone[t].at = "called" /\ onDone[t].op # 0 => InClose(t)
    /\ InClose(t) /\ Queued(t) => released[t] /\ onDone[t].at = "none"
    /\ pc[t] \in {"closed", "ended"} => released[t] /\ onDone[t].at = "none"
    /\ Queued(t) => InRequest(t) \/ InClose(t)

\* A callback that has only to return belongs to a call that was made; the slot it
\* runs out of holds it or a later one.  Once gRPC has released the call only OnDone
\* is left, with the completion of the close.
Tails(t) ==
    /\ returning[t]["write"] <= write_completed[t] /\ write_completed[t] <= n[t]
    /\ returning[t]["read"] <= read_completed[t] /\ read_completed[t] <= n[t]
    /\ released[t] => returning[t]["write"] = 0 /\ returning[t]["read"] = 0
    /\ returning[t]["close"] # 0 =>
          /\ returning[t]["close"] = close_completed[t]
          /\ released[t] /\ onDone[t].at = "none"

TxInv(t) ==
    Numbered(t) /\ OnePlace(t) /\ Named(t) /\ Expected(t) /\ Closing(t) /\ Tails(t)

IInv ==
    /\ TypeOK
    /\ \A t \in Txs : TxInv(t)
    /\ CompletionsMatch
    /\ MisuseOnlyAfterEarlyEnd
=============================================================================
