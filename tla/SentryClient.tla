---------------------------- MODULE SentryClient ----------------------------
(***************************************************************************)
(* src/silkoroutine/bindings/p2psentry: coroutines of the io_context       *)
(* thread that co_await GrpcAsioAwaitable::async_set_status on one         *)
(* GrpcClient.  The client has one ClientContext for all its calls, and    *)
(* gRPC aborts when a context is given to a second call.                   *)
(*                                                                         *)
(* (Nothing in the repository includes awaitables.hpp, and its line 63     *)
(* names `status_data` where the member is status_data_.  The model is of  *)
(* the call with that member.)                                             *)
(***************************************************************************)
EXTENDS Naturals, Sequences

CONSTANT Callers

VARIABLES process,      \* "up", "terminated", or "undefined"
          context_,     \* calls the client's context has been given to
          pc,           \* pc[c]: where coroutine c is
          call,         \* call[c]: its call: "none", "open", "ok", "failed", "lost", "released"
          queue         \* the completions posted to the io_context, oldest first

vars == <<process, context_, pc, call, queue>>

OnThread == {"running", "initiating", "set"}

TypeOK ==
    /\ process \in {"up", "terminated", "undefined"}
    /\ context_ \in 0 .. 2
    /\ pc \in [Callers -> OnThread \cup {"unborn", "awaiting", "set", "ended"}]
    /\ call \in [Callers -> {"none", "open", "ok", "failed", "lost", "released"}]
    /\ queue \in Seq(Callers)

Init ==
    /\ process = "up"
    /\ context_ = 0
    /\ pc = [c \in Callers |-> "unborn"]
    /\ call = [c \in Callers |-> "none"]
    /\ queue = <<>>

Up == process = "up"
IoIdle == \A c \in Callers : pc[c] \notin OnThread

-----------------------------------------------------------------------------
(* The io_context thread.                                                   *)

Begin(c) ==
    /\ Up /\ IoIdle /\ pc[c] = "unborn"
    /\ pc' = [pc EXCEPT ![c] = "running"]
    /\ UNCHANGED <<process, context_, call, queue>>

\* Mutant: the context is not looked at.
set_status_AnyContext(c) ==
    /\ Up /\ pc[c] = "running"
    /\ context_' = context_ + 1
    /\ call' = [call EXCEPT ![c] = "open"]
    /\ pc' = [pc EXCEPT ![c] = "initiating"]
    /\ UNCHANGED <<process, queue>>

\* initiate_async_set_status: a new operation object, then SetStatus with the
\* client's context, in which gRPC asserts that it has no call yet.
set_status(c) ==
    /\ Up /\ pc[c] = "running"
    /\ context_' = context_ + 1
    /\ IF context_ = 0
       THEN /\ call' = [call EXCEPT ![c] = "open"]
            /\ pc' = [pc EXCEPT ![c] = "initiating"]
            /\ UNCHANGED process
       ELSE /\ process' = "terminated"
            /\ UNCHANGED <<call, pc>>
    /\ UNCHANGED queue

Suspend(c) ==
    /\ Up /\ pc[c] = "initiating"
    /\ pc' = [pc EXCEPT ![c] = "awaiting"]
    /\ UNCHANGED <<process, context_, call, queue>>

\* The posted handler completes the operation, which resumes its coroutine.
do_complete ==
    /\ Up /\ IoIdle /\ queue # <<>>
    /\ queue' = Tail(queue)
    /\ LET c == Head(queue)
       IN  IF pc[c] = "awaiting"
           THEN pc' = [pc EXCEPT ![c] = "set"] /\ UNCHANGED process
           ELSE process' = "undefined" /\ UNCHANGED pc
    /\ UNCHANGED <<context_, call>>

\* The coroutine returns.
End(c) ==
    /\ Up /\ pc[c] = "set"
    /\ pc' = [pc EXCEPT ![c] = "ended"]
    /\ UNCHANGED <<process, context_, call, queue>>

-----------------------------------------------------------------------------
(* gRPC.                                                                    *)

\* The call ends, well or not, at any moment after it was started.
CallEnds(c) ==
    /\ Up /\ call[c] = "open"
    /\ call' \in {[call EXCEPT ![c] = "ok"], [call EXCEPT ![c] = "failed"]}
    /\ UNCHANGED <<process, context_, pc, queue>>

\* Mutants: the callback completes the operation at once, on gRPC's thread; it
\* forgets that the call has ended.
PostCompletion_Direct(c) ==
    /\ Up /\ call[c] = "ok"
    /\ call' = [call EXCEPT ![c] = "released"]
    /\ pc' = [pc EXCEPT ![c] = "set"]
    /\ UNCHANGED <<process, context_, queue>>

PostCompletion_Silent(c) ==
    /\ Up /\ call[c] = "ok"
    /\ call' = [call EXCEPT ![c] = "released"]
    /\ UNCHANGED <<process, context_, pc, queue>>

\* The callback of a call that succeeded posts the completion.
PostCompletion(c) ==
    /\ Up /\ call[c] = "ok"
    /\ call' = [call EXCEPT ![c] = "released"]
    /\ queue' = Append(queue, c)
    /\ UNCHANGED <<process, context_, pc>>

\* The callback of one that failed throws, on gRPC's thread: swallowed by a gRPC
\* built with exceptions, the end of the process otherwise.
ThrowOnFailure(c) ==
    /\ Up /\ call[c] = "failed"
    /\ call' = [call EXCEPT ![c] = "lost"]
    /\ process' \in {"up", "terminated"}
    /\ UNCHANGED <<context_, pc, queue>>

-----------------------------------------------------------------------------
IoStep ==
    \/ \E c \in Callers : set_status(c) \/ Suspend(c) \/ End(c)
    \/ do_complete

Callback(c) == PostCompletion(c) \/ ThrowOnFailure(c)

Next ==
    \/ IoStep
    \/ \E c \in Callers : Begin(c) \/ CallEnds(c) \/ Callback(c)

Spec == Init /\ [][Next]_vars

\* The threads run, nobody need call, and the Sentry answers (the context has no deadline).
FairSpec ==
    /\ Spec
    /\ WF_vars(IoStep)
    /\ \A c \in Callers : WF_vars(CallEnds(c)) /\ WF_vars(Callback(c))

-----------------------------------------------------------------------------
(* Properties.                                                              *)

\* A completion is posted once, for a call that ended well, and finds the coroutine
\* still suspended (or about to suspend): nothing is resumed twice or by a failure.
CompletionsMatch ==
    /\ process # "undefined"
    /\ \A i \in 1 .. Len(queue) :
          /\ call[queue[i]] = "released" /\ pc[queue[i]] \in {"initiating", "awaiting"}
          /\ \A j \in 1 .. Len(queue) : queue[j] = queue[i] => i = j

\* A GrpcClient serves one set_status in its life: however many coroutines share
\* it, at most one of them gets an answer, and while the process lives at most
\* one of them has called.
OneCallPerClient ==
    /\ \A c, d \in Callers : pc[c] \in {"set", "ended"} /\ pc[d] \in {"set", "ended"} => c = d
    /\ Up => \A c, d \in Callers : call[c] # "none" /\ call[d] # "none" => c = d

\* The abstract promise is the one of the KV awaitables: coroutines run one at a
\* time and a call resumes its coroutine once (here the first call is the last).
PhaseOf(place) ==
    CASE place \in {"initiating", "awaiting"} -> "closing"
      [] place = "set" -> "closed"
      [] OTHER -> place

Calls == INSTANCE KvCalls WITH
             Txs <- Callers,
             phase <- [c \in Callers |-> PhaseOf(pc[c])],
             calls <- [c \in Callers |-> IF pc[c] \in {"unborn", "running"} THEN 0 ELSE 1],
             answered <- [c \in Callers |-> 0],
             alive <- Up

KeepsPromise == Calls!Spec

\* A call returns, or its coroutine ended the process, or it is lost: it failed,
\* and gRPC swallowed what the callback threw.
EveryCallSettles ==
    \A c \in Callers : pc[c] = "awaiting" ~> pc[c] = "ended" \/ ~Up \/ call[c] = "lost"
=============================================================================
