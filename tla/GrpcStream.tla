----------------------------- MODULE GrpcStream -----------------------------
(***************************************************************************)
(* The bidirectional stream the KV client talks over, one per transaction, *)
(* as the gRPC 1.31 callback API presents it to the reactor.  gRPC and the *)
(* server are not part of the repository: this module is the contract      *)
(* src/silkoroutine/bindings/kv/grpc_client_reactor.hpp relies on.         *)
(*                                                                         *)
(* A request is known by its number; the reply to it carries that number.  *)
(* The server answers every request it accepts, in order.  A stream of an  *)
(* Unreliable world may end at any time, by the server finishing the call  *)
(* early (status "ok") or by a failure ("error").                          *)
(***************************************************************************)
EXTENDS Naturals, Sequences

CONSTANTS Txs,          \* the transactions, each with a stream of its own
          Unreliable    \* may a stream end before the client half-closes it?

ASSUME UnreliableAssumption == Unreliable \in BOOLEAN

VARIABLES writing,      \* writing[t]: the request of the outstanding StartWrite, 0 if none
          reading,      \* reading[t]: a StartRead is outstanding
          wire,         \* wire[t]: the accepted requests whose replies are still to be read
          halfClosed,   \* halfClosed[t]: StartWritesDone was called
          status,       \* status[t]: how the stream ended, "open" as long as it has not
          released      \* released[t]: OnDone was called, gRPC has freed its call object

streamVars == <<writing, reading, wire, halfClosed, status, released>>

StreamTypeOK ==
    /\ writing \in [Txs -> Nat]
    /\ reading \in [Txs -> BOOLEAN]
    /\ wire \in [Txs -> Seq(Nat)]
    /\ halfClosed \in [Txs -> BOOLEAN]
    /\ status \in [Txs -> {"open", "ok", "error"}]
    /\ released \in [Txs -> BOOLEAN]

StreamInit ==
    /\ writing = [t \in Txs |-> 0]
    /\ reading = [t \in Txs |-> FALSE]
    /\ wire = [t \in Txs |-> <<>>]
    /\ halfClosed = [t \in Txs |-> FALSE]
    /\ status = [t \in Txs |-> "open"]
    /\ released = [t \in Txs |-> FALSE]

-----------------------------------------------------------------------------
\* What the API asks of its caller: at most one operation of a kind is
\* outstanding, nothing is written after the half-close, and nothing at all is
\* started once OnDone has been called.  A call that breaks this is undefined.
WriteAllowed(t) == writing[t] = 0 /\ ~halfClosed[t] /\ ~released[t]
ReadAllowed(t) == ~reading[t] /\ ~released[t]
WritesDoneAllowed(t) == writing[t] = 0 /\ ~halfClosed[t] /\ ~released[t]

\* StartWrite, StartRead and StartWritesDone hand an operation to gRPC and return.
StartWrite(t, op) ==
    /\ writing' = [writing EXCEPT ![t] = op]
    /\ UNCHANGED <<reading, wire, halfClosed, status, released>>

StartRead(t) ==
    /\ reading' = [reading EXCEPT ![t] = TRUE]
    /\ UNCHANGED <<writing, wire, halfClosed, status, released>>

StartWritesDone(t) ==
    /\ halfClosed' = [halfClosed EXCEPT ![t] = TRUE]
    /\ UNCHANGED <<writing, reading, wire, status, released>>

-----------------------------------------------------------------------------
\* The outstanding write ends: the request is on its way (and is lost if the
\* stream ends meanwhile), or the stream had ended and the write failed.
WriteCompletes(t, ok) ==
    /\ writing[t] # 0
    /\ ok \/ status[t] # "open"
    /\ writing' = [writing EXCEPT ![t] = 0]
    /\ wire' = IF ok /\ status[t] = "open"
               THEN [wire EXCEPT ![t] = Append(@, writing[t])]
               ELSE wire
    /\ UNCHANGED <<reading, halfClosed, status, released>>

\* The outstanding read ends: with the oldest reply, or, when the stream has
\* ended and no reply is left, with a failure.
ReadCompletes(t, ok) ==
    /\ reading[t]
    /\ IF ok THEN wire[t] # <<>> ELSE wire[t] = <<>> /\ status[t] # "open"
    /\ reading' = [reading EXCEPT ![t] = FALSE]
    /\ wire' = IF ok THEN [wire EXCEPT ![t] = Tail(@)] ELSE wire
    /\ UNCHANGED <<writing, halfClosed, status, released>>

\* The server has answered everything, sees the half-close and finishes.
FinishStream(t) ==
    /\ status[t] = "open" /\ halfClosed[t] /\ wire[t] = <<>>
    /\ status' = [status EXCEPT ![t] = "ok"]
    /\ UNCHANGED <<writing, reading, wire, halfClosed, released>>

\* The stream ends on its own: replies not read yet may or may not get through.
BreakStream(t) ==
    /\ Unreliable
    /\ status[t] = "open"
    /\ \E s \in {"ok", "error"} : status' = [status EXCEPT ![t] = s]
    /\ \E kept \in {wire[t], <<>>} : wire' = [wire EXCEPT ![t] = kept]
    /\ UNCHANGED <<writing, reading, halfClosed, released>>

\* gRPC frees the call and reports the status: nothing of it is outstanding.
ReleaseCall(t) ==
    /\ status[t] # "open" /\ ~released[t]
    /\ writing[t] = 0 /\ ~reading[t]
    /\ released' = [released EXCEPT ![t] = TRUE]
    /\ UNCHANGED <<writing, reading, wire, halfClosed, status>>
=============================================================================
