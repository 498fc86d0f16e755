-------------------------- MODULE GrpcClientReactor --------------------------
(***************************************************************************)
(* The reactor of one transaction's stream,                                *)
(* src/silkoroutine/bindings/kv/grpc_client_reactor.hpp: three slots for   *)
(* the callbacks of the current write, read and close, the buffer pair_ a  *)
(* reply is read into, and the reactions OnWriteDone, OnReadDone and       *)
(* OnDone, which gRPC calls on threads of its own.                         *)
(*                                                                         *)
(* A callback is known by the request that stored it, 0 being the empty    *)
(* std::function.  A reaction is a frame on a gRPC thread, and a callback  *)
(* runs out of its slot, from the moment the slot is read until the        *)
(* reaction returns.  When it has posted its completion, or started the    *)
(* next operation, it has made its last use of what it captured and of the *)
(* reactor, but it is still there, and other threads go on under it: such  *)
(* a frame is in returning.  (An older one of the same slot that has not   *)
(* returned yet counts with it, as OnDone has to wait for both.)  A        *)
(* reaction that throws stays as "thrown": gRPC then never takes the       *)
(* operation off its count of outstanding callbacks, so the call's OnDone  *)
(* never comes.                                                            *)
(***************************************************************************)
EXTENDS GrpcStream

VARIABLES write_completed, read_completed, close_completed,
          pair,         \* pair[t]: the last reply read, 0 before the first
          onWrite,      \* onWrite[t], onRead[t], onDone[t]: the reaction in progress
          onRead,
          onDone,
          returning     \* returning[t][slot]: the callback that has only to return, 0 if none

slotVars == <<write_completed, read_completed, close_completed>>
reactionVars == <<onWrite, onRead, onDone, returning>>
reactorVars == <<write_completed, read_completed, close_completed, pair,
                 onWrite, onRead, onDone, returning>>

NoReaction == [at |-> "none", op |-> 0, ok |-> FALSE, reply |-> 0]
Reactions(places) == [at : places, op : Nat, ok : BOOLEAN, reply : Nat]
Slots == {"write", "read", "close"}

ReactorTypeOK ==
    /\ write_completed \in [Txs -> Nat]
    /\ read_completed \in [Txs -> Nat]
    /\ close_completed \in [Txs -> Nat]
    /\ pair \in [Txs -> Nat]
    /\ onWrite \in [Txs -> Reactions({"none", "called", "armed", "thrown"})]
    /\ onRead \in [Txs -> Reactions({"none", "called"})]
    /\ onDone \in [Txs -> Reactions({"none", "called", "thrown"})]
    /\ returning \in [Txs -> [Slots -> Nat]]

ReactorInit ==
    /\ write_completed = [t \in Txs |-> 0]
    /\ read_completed = [t \in Txs |-> 0]
    /\ close_completed = [t \in Txs |-> 0]
    /\ pair = [t \in Txs |-> 0]
    /\ onWrite = [t \in Txs |-> NoReaction]
    /\ onRead = [t \in Txs |-> NoReaction]
    /\ onDone = [t \in Txs |-> NoReaction]
    /\ returning = [t \in Txs |-> [slot \in Slots |-> 0]]

-----------------------------------------------------------------------------
\* The first halves of write_start, read_start and close_start; the second is
\* the StartWrite, StartRead or StartWritesDone of the stream.
StoreWriteSlot(t, op) ==
    /\ write_completed' = [write_completed EXCEPT ![t] = op]
    /\ UNCHANGED <<read_completed, close_completed>>

StoreReadSlot(t, op) ==
    /\ read_completed' = [read_completed EXCEPT ![t] = op]
    /\ UNCHANGED <<write_completed, close_completed>>

StoreCloseSlot(t, op) ==
    /\ close_completed' = [close_completed EXCEPT ![t] = op]
    /\ UNCHANGED <<write_completed, read_completed>>

\* The callback of op in a slot has done its work: it is left to return.
WorkDone(t, slot, op) == returning' = [returning EXCEPT ![t][slot] = op]

\* It returns, and with it the reaction that called it.  Neither looks at its slot,
\* at what the callback captured or at the reactor again.
ReactionReturns(t) ==
    /\ \E slot \in Slots : /\ returning[t][slot] # 0
                            /\ returning' = [returning EXCEPT ![t][slot] = 0]
    /\ UNCHANGED <<slotVars, pair, onWrite, onRead, onDone>>

-----------------------------------------------------------------------------
\* The reactions: each calls whatever callback its slot holds at that moment.
OnWriteDone(t) ==
    /\ \E ok \in BOOLEAN :
          /\ WriteCompletes(t, ok)
          /\ onWrite' = [onWrite EXCEPT ![t] =
                [at |-> "called", op |-> write_completed[t], ok |-> ok, reply |-> 0]]
    /\ UNCHANGED <<slotVars, pair, onRead, onDone, returning>>

\* Mutant: the callback gets a copy of pair_ made before the read.
OnReadDone_EarlyCopy(t) ==
    /\ \E ok \in BOOLEAN :
          /\ ReadCompletes(t, ok)
          /\ pair' = IF ok THEN [pair EXCEPT ![t] = Head(wire[t])] ELSE pair
          /\ onRead' = [onRead EXCEPT ![t] =
                [at |-> "called", op |-> read_completed[t], ok |-> ok, reply |-> pair[t]]]
    /\ UNCHANGED <<slotVars, onWrite, onDone, returning>>

\* pair_ is overwritten only by a read that succeeds: a failed one passes the
\* reply of an earlier request on to its callback.
OnReadDone(t) ==
    /\ \E ok \in BOOLEAN :
          /\ ReadCompletes(t, ok)
          /\ pair' = IF ok THEN [pair EXCEPT ![t] = Head(wire[t])] ELSE pair
          /\ onRead' = [onRead EXCEPT ![t] =
                [at |-> "called", op |-> read_completed[t], ok |-> ok, reply |-> pair'[t]]]
    /\ UNCHANGED <<slotVars, onWrite, onDone, returning>>

\* OnDone is the last reaction: the others have returned.
OnDone(t) ==
    /\ onWrite[t].at = "none" /\ onRead[t].at = "none"
    /\ \A slot \in Slots : returning[t][slot] = 0
    /\ ReleaseCall(t)
    /\ onDone' = [onDone EXCEPT ![t] =
          [at |-> "called", op |-> close_completed[t], ok |-> status[t] = "ok", reply |-> 0]]
    /\ UNCHANGED <<slotVars, pair, onWrite, onRead, returning>>
=============================================================================
