------------------------------ MODULE CoroCalls ------------------------------
(***************************************************************************)
(* What task<T> and use_await (src/silkoroutine/coro) promise a program of *)
(* coroutines, with nothing said of frames, handles or the thread's stack: *)
(* co_await of a task is a call.  One coroutine acts at a time, a call     *)
(* makes its callee act in its place, and the end of the callee gives its  *)
(* value to the caller, which acts again.  An operation is awaited by the  *)
(* one that acts, and nobody does meanwhile.                               *)
(***************************************************************************)
EXTENDS Sequences

CONSTANTS Coros, Root, NoCoro,
          Op            \* the result of an operation

VARIABLES active,       \* the coroutine that acts, as a set: {} if none is in progress
          caller,       \* caller[c]: who called c, NoCoro unless c is in progress
          waiting,      \* the one that acts waits for an operation
          got,          \* got[c]: the results of its co_awaits so far
          process       \* "up", or "terminated" by an exception

vars == <<active, caller, waiting, got, process>>

Init ==
    /\ active = {}
    /\ caller = [c \in Coros |-> NoCoro]
    /\ waiting = FALSE
    /\ got = [c \in Coros |-> <<>>]
    /\ process = "up"

Acts(c) == process = "up" /\ active = {c} /\ ~waiting

Start ==
    /\ process = "up" /\ active = {}
    /\ active' = {Root}
    /\ UNCHANGED <<caller, waiting, got, process>>

\* c calls d, which is not in progress.
Call(c, d) ==
    /\ Acts(c)
    /\ d # Root /\ d # c /\ caller[d] = NoCoro
    /\ active' = {d}
    /\ caller' = [caller EXCEPT ![d] = c]
    /\ UNCHANGED <<waiting, got, process>>

\* d ends, and its caller goes on with its value.
Return(c, d) ==
    /\ Acts(d) /\ caller[d] = c
    /\ active' = {c}
    /\ caller' = [caller EXCEPT ![d] = NoCoro]
    /\ got' = [got EXCEPT ![c] = Append(@, d)]
    /\ UNCHANGED <<waiting, process>>

Wait(c) ==
    /\ Acts(c)
    /\ waiting' = TRUE
    /\ UNCHANGED <<active, caller, got, process>>

Answer(c) ==
    /\ process = "up" /\ active = {c} /\ waiting
    /\ waiting' = FALSE
    /\ got' = [got EXCEPT ![c] = Append(@, Op)]
    /\ UNCHANGED <<active, caller, process>>

End ==
    /\ Acts(Root)
    /\ active' = {}
    /\ UNCHANGED <<caller, waiting, got, process>>

Throw(c) ==
    /\ Acts(c)
    /\ process' = "terminated"
    /\ UNCHANGED <<active, caller, waiting, got>>

Next ==
    \/ Start
    \/ End
    \/ \E c \in Coros : \/ Wait(c)
                        \/ Answer(c)
                        \/ Throw(c)
                        \/ \E d \in Coros : Call(c, d) \/ Return(c, d)

Spec == Init /\ [][Next]_vars
==============================================================================
