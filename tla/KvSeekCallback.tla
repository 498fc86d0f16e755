--------------------------- MODULE KvSeekCallback ---------------------------
(***************************************************************************)
(* The tool src/cmd/kv_seek_async_callback.cpp: a reactor of its own, and  *)
(* a chain of callbacks on gRPC threads that makes one OPEN, one SEEK and  *)
(* one CLOSE while the main thread waits in context.run() for the last of  *)
(* them, or a signal, to stop it.                                          *)
(*                                                                         *)
(* Request k is the k-th write: 1 OPEN, 2 SEEK, 3 CLOSE.  A callback is a  *)
(* frame on a gRPC thread from its call to its return; it runs out of the  *)
(* slot it was stored in, so the reactor must outlive it.                  *)
(***************************************************************************)
EXTENDS GrpcStream

VARIABLES main,         \* main[t]: where the main thread is
          stopped,      \* stopped[t]: context.stop() was called
          signalled,    \* signalled[t]: ... by the signal handler
          write_completed, read_completed,  \* the slots: the request stored for, or 0
          frames,       \* frames[t]: the callbacks in progress
          received      \* received[t]: the replies received

toolVars == <<main, stopped, signalled, write_completed, read_completed, frames, received>>
vars == <<streamVars, toolVars>>

Close == 3

\* at: "called", then "stored" (the slot of the next operation is), then "last".
Frames == [of : {"write", "read"}, at : {"called", "stored", "last"},
           op : 1 .. Close, ok : BOOLEAN, reply : 0 .. Close]

TypeOK ==
    /\ StreamTypeOK
    /\ main \in [Txs -> {"start", "stored", "waiting", "returned", "destroyed", "undefined"}]
    /\ stopped \in [Txs -> BOOLEAN]
    /\ signalled \in [Txs -> BOOLEAN]
    /\ write_completed \in [Txs -> 0 .. Close]
    /\ read_completed \in [Txs -> 0 .. Close]
    /\ frames \in [Txs -> SUBSET Frames]
    /\ received \in [Txs -> Seq(0 .. Close)]

Init ==
    /\ StreamInit
    /\ main = [t \in Txs |-> "start"]
    /\ stopped = [t \in Txs |-> FALSE]
    /\ signalled = [t \in Txs |-> FALSE]
    /\ write_completed = [t \in Txs |-> 0]
    /\ read_completed = [t \in Txs |-> 0]
    /\ frames = [t \in Txs |-> {}]
    /\ received = [t \in Txs |-> <<>>]

\* What a callback does once the reactor is gone is not defined.
Alive(t) == main[t] \notin {"destroyed", "undefined"}

-----------------------------------------------------------------------------
(* The main thread.                                                         *)

\* main calls write_start for OPEN: first the slot ...
StoreFirst(t) ==
    /\ main[t] = "start"
    /\ main' = [main EXCEPT ![t] = "stored"]
    /\ write_completed' = [write_completed EXCEPT ![t] = 1]
    /\ UNCHANGED <<streamVars, stopped, signalled, read_completed, frames, received>>

\* ... then the write; and enters context.run().  No reaction is in progress that
\* would keep gRPC from releasing the call of a stream that has ended.
WriteFirst(t) ==
    /\ main[t] = "stored"
    /\ IF WriteAllowed(t)
       THEN main' = [main EXCEPT ![t] = "waiting"] /\ StartWrite(t, 1)
       ELSE main' = [main EXCEPT ![t] = "undefined"] /\ UNCHANGED streamVars
    /\ UNCHANGED <<stopped, signalled, write_completed, read_completed, frames, received>>

\* The signal handler, run by the main thread in context.run().
Signal(t) ==
    /\ main[t] = "waiting" /\ ~stopped[t]
    /\ stopped' = [stopped EXCEPT ![t] = TRUE]
    /\ signalled' = [signalled EXCEPT ![t] = TRUE]
    /\ UNCHANGED <<streamVars, main, write_completed, read_completed, frames, received>>

\* context.run() returns once the context is stopped, also if it was before.
RunReturns(t) ==
    /\ main[t] = "waiting" /\ stopped[t]
    /\ main' = [main EXCEPT ![t] = "returned"]
    /\ UNCHANGED <<streamVars, stopped, signalled, write_completed, read_completed,
                   frames, received>>

\* main returns: the reactor is destroyed.
Destroy(t) ==
    /\ main[t] = "returned"
    /\ main' = [main EXCEPT ![t] = "destroyed"]
    /\ UNCHANGED <<streamVars, stopped, signalled, write_completed, read_completed,
                   frames, received>>

-----------------------------------------------------------------------------
(* The reactions: OnWriteDone and OnReadDone call the slots.                *)

Called(of, op, ok, reply) == [of |-> of, at |-> "called", op |-> op, ok |-> ok, reply |-> reply]

OnWriteDone(t) ==
    /\ Alive(t)
    /\ \E ok \in BOOLEAN :
          /\ WriteCompletes(t, ok)
          /\ frames' = [frames EXCEPT ![t] = @ \cup {Called("write", write_completed[t], ok, 0)}]
    /\ UNCHANGED <<main, stopped, signalled, write_completed, read_completed, received>>

OnReadDone(t) ==
    /\ Alive(t)
    /\ \E ok \in BOOLEAN :
          /\ ReadCompletes(t, ok)
          /\ frames' = [frames EXCEPT ![t] = @ \cup
                {Called("read", read_completed[t], ok, IF ok THEN Head(wire[t]) ELSE 0)}]
    /\ UNCHANGED <<main, stopped, signalled, write_completed, read_completed, received>>

-----------------------------------------------------------------------------
(* The callbacks.                                                           *)

Moved(t, f, at) == frames' = [frames EXCEPT ![t] = (@ \ {f}) \cup {[f EXCEPT !.at = at]}]

\* A callback whose operation failed says so and returns: the tool stays in
\* context.run() with nothing left to do.
Fail(t, f) ==
    /\ f.at = "called" /\ ~f.ok
    /\ Moved(t, f, "last")
    /\ UNCHANGED <<streamVars, main, stopped, signalled, write_completed, read_completed, received>>

\* The write callback calls read_start: the slot, then the read.
StoreRead(t, f) ==
    /\ f.of = "write" /\ f.at = "called" /\ f.ok
    /\ read_completed' = [read_completed EXCEPT ![t] = f.op]
    /\ Moved(t, f, "stored")
    /\ UNCHANGED <<streamVars, main, stopped, signalled, write_completed, received>>

\* Mutant: the next request is written without waiting for the reply.
StartReadOf_Pipelined(t, f) ==
    /\ f.of = "write" /\ f.at = "stored"
    /\ reading' = [reading EXCEPT ![t] = TRUE]
    /\ writing' = [writing EXCEPT ![t] = IF f.op < Close THEN f.op + 1 ELSE 0]
    /\ Moved(t, f, "last")
    /\ UNCHANGED <<wire, halfClosed, status, released>>
    /\ UNCHANGED <<main, stopped, signalled, write_completed, read_completed, received>>

StartReadOf(t, f) ==
    /\ f.of = "write" /\ f.at = "stored"
    /\ StartRead(t)
    /\ Moved(t, f, "last")
    /\ UNCHANGED <<main, stopped, signalled, write_completed, read_completed, received>>

\* Mutants: the last callback returns without stopping the context; the context
\* is stopped before the CLOSE.
Stop_Forgotten(t, f) ==
    /\ f.of = "read" /\ f.at = "called" /\ f.ok /\ f.op = Close
    /\ received' = [received EXCEPT ![t] = Append(@, f.reply)]
    /\ Moved(t, f, "last")
    /\ UNCHANGED <<streamVars, main, stopped, signalled, write_completed, read_completed>>

StoreNextWrite_StopsEarly(t, f) ==
    /\ f.of = "read" /\ f.at = "called" /\ f.ok /\ f.op # Close
    /\ received' = [received EXCEPT ![t] = Append(@, f.reply)]
    /\ write_completed' = [write_completed EXCEPT ![t] = f.op + 1]
    /\ stopped' = [stopped EXCEPT ![t] = f.op = Close - 1]
    /\ Moved(t, f, "stored")
    /\ UNCHANGED <<streamVars, main, signalled, read_completed>>

\* The read callback of OPEN and of SEEK calls write_start for the next request;
\* that of CLOSE stops the context.
StoreNextWrite(t, f) ==
    /\ f.of = "read" /\ f.at = "called" /\ f.ok /\ f.op # Close
    /\ received' = [received EXCEPT ![t] = Append(@, f.reply)]
    /\ write_completed' = [write_completed EXCEPT ![t] = f.op + 1]
    /\ Moved(t, f, "stored")
    /\ UNCHANGED <<streamVars, main, stopped, signalled, read_completed>>

StartNextWrite(t, f) ==
    /\ f.of = "read" /\ f.at = "stored"
    /\ StartWrite(t, f.op + 1)
    /\ Moved(t, f, "last")
    /\ UNCHANGED <<main, stopped, signalled, write_completed, read_completed, received>>

Stop(t, f) ==
    /\ f.of = "read" /\ f.at = "called" /\ f.ok /\ f.op = Close
    /\ received' = [received EXCEPT ![t] = Append(@, f.reply)]
    /\ stopped' = [stopped EXCEPT ![t] = TRUE]
    /\ Moved(t, f, "last")
    /\ UNCHANGED <<streamVars, main, signalled, write_completed, read_completed>>

\* The callback returns.
Return(t, f) ==
    /\ f.at = "last"
    /\ frames' = [frames EXCEPT ![t] = @ \ {f}]
    /\ UNCHANGED <<streamVars, main, stopped, signalled, write_completed, read_completed, received>>

-----------------------------------------------------------------------------
MainThread(t) == StoreFirst(t) \/ WriteFirst(t) \/ RunReturns(t) \/ Destroy(t)

Callback(t) ==
    /\ Alive(t)
    /\ \E f \in frames[t] : \/ Fail(t, f)
                           \/ StoreRead(t, f)
                           \/ StartReadOf(t, f)
                           \/ StoreNextWrite(t, f)
                           \/ StartNextWrite(t, f)
                           \/ Stop(t, f)
                           \/ Return(t, f)

\* The stream ends early or its deadline, set by the constructor, expires; the
\* call is released when no reaction is in progress (OnDone is the default one).
StreamBreaks(t) == Alive(t) /\ BreakStream(t) /\ UNCHANGED toolVars
Release(t) == Alive(t) /\ frames[t] = {} /\ ReleaseCall(t) /\ UNCHANGED toolVars

Next == \E t \in Txs : \/ MainThread(t)
                       \/ Signal(t)
                       \/ OnWriteDone(t)
                       \/ OnReadDone(t)
                       \/ Callback(t)
                       \/ StreamBreaks(t)
                       \/ Release(t)

Spec == Init /\ [][Next]_vars

\* Both sides' threads run, and the deadline expires: nobody need send a signal.
FairSpec ==
    /\ Spec
    /\ \A t \in Txs :
          /\ WF_vars(MainThread(t))
          /\ WF_vars(Callback(t))
          /\ WF_vars(OnWriteDone(t))
          /\ WF_vars(status[t] # "open" /\ OnReadDone(t))
          /\ WF_vars(StreamBreaks(t))

-----------------------------------------------------------------------------
(* Properties.                                                              *)

Acting(t) == {f \in frames[t] : f.at # "last"}

\* The chain has one live link at a time: an outstanding write, an outstanding
\* read, or a callback that still has something to do, each with its own slot;
\* it is lost only when the chain has ended, by a failure or by stop().
OneLink ==
    \A t \in Txs :
        /\ writing[t] # 0 => ~reading[t] /\ Acting(t) = {} /\ write_completed[t] = writing[t]
        /\ reading[t] => Acting(t) = {} /\ read_completed[t] = Len(received[t]) + 1
        /\ \A f, g \in Acting(t) : f = g
        /\ \A f \in Acting(t) : f.at = "stored" =>
              IF f.of = "write" THEN ReadAllowed(t) ELSE WriteAllowed(t)
        /\ main[t] = "waiting" /\ writing[t] = 0 /\ ~reading[t] /\ Acting(t) = {} =>
              Len(received[t]) = Close \/ status[t] # "open"

\* The replies arrive in order, each in the callback of its own request, and the
\* context is stopped after the third, unless by the signal handler.
StopsAfterLastReply ==
    \A t \in Txs :
        /\ \A i \in 1 .. Len(received[t]) : received[t][i] = i
        /\ stopped[t] /\ ~signalled[t] => Len(received[t]) = Close

\* main destroys the reactor while the call is still open.  Without a signal no
\* write or read is outstanding then, and of the callbacks only their returns;
\* the only misuse of gRPC is a first write after the stream has already ended.
QuietExit ==
    \A t \in Txs :
        /\ main[t] = "destroyed" /\ ~signalled[t] =>
              writing[t] = 0 /\ ~reading[t] /\ Acting(t) = {}
        /\ main[t] = "undefined" => released[t] /\ received[t] = <<>>

\* The tool comes to its end, or its chain has ended by a failure: then, as no
\* callback stops the context, only a signal ends it.
GaveUp(t) == /\ status[t] # "open" /\ Len(received[t]) < Close
             /\ ~stopped[t] /\ main[t] = "waiting"
             /\ writing[t] = 0 /\ ~reading[t] /\ Acting(t) = {}
EndsOrGivesUp == \A t \in Txs : <>(~Alive(t) \/ GaveUp(t))
=============================================================================
