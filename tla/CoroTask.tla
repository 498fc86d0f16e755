------------------------------ MODULE CoroTask ------------------------------
(***************************************************************************)
(* src/silkoroutine/coro: coroutines of type task<T> (task.hpp) that       *)
(* co_await one another and, through use_await (use_await.hpp), operations *)
(* whose handlers the io_context calls.                                    *)
(*                                                                         *)
(* Nothing here is a tail call: whoever resumes a coroutine waits, on the  *)
(* one thread's stack, until that coroutine gives up control.  A coroutine *)
(* that ends resumes its caller from within its own final await_suspend,   *)
(* and the caller destroys the frame that code belongs to.  `stack` holds  *)
(* every call in progress, so that what is still to run is known when a    *)
(* frame is destroyed.                                                     *)
(*                                                                         *)
(* task<void> (lines 98-153) is the same code without a value.             *)
(***************************************************************************)
EXTENDS Naturals, Sequences

CONSTANTS Coros,
          Root,         \* the coroutine that is started, not awaited
          NoCoro,
          Op,           \* the result an operation completes with
          MaxAwaits     \* bound: the co_awaits of each coroutine

ASSUME CoroTaskAssumption ==
    /\ Root \in Coros
    /\ NoCoro \notin Coros /\ Op \notin Coros \cup {NoCoro}
    /\ MaxAwaits \in Nat

VARIABLES frame,        \* frame[c]: the state of c's frame
          caller_coro,  \* caller_coro[c]: of its promise
          completion_handler,   \* of Root's promise: is there one?
          result,       \* result[c]: of its promise, NoCoro while empty
          awaited,      \* awaited[c]: the task its co_await holds, NoCoro if none
          result_,      \* result_[c]: of the awaitable of its operation: not null
          got,          \* got[c]: the results of its co_awaits
          stack,        \* the calls in progress on the thread, the current one last
          outstanding,  \* the coroutines whose operation is in progress
          queue,        \* the handlers posted to the io_context, oldest first
          process       \* "up", "terminated" or "undefined"

frameVars == <<frame, caller_coro, completion_handler, result, awaited, result_, got>>
threadVars == <<stack, outstanding, queue, process>>
vars == <<frameVars, threadVars>>

\* Who is on the stack: task::start, a coroutine's body, a body on its way out of
\* a co_await, task::await_suspend, final_suspend's await_suspend, the completion
\* handler, and use_await's handler.
Calls == {"start", "body", "resumed", "await", "final", "completion", "handler"}
Call(at, c) == [at |-> at, of |-> c]

TypeOK ==
    /\ frame \in [Coros -> {"none", "created", "running", "suspended", "final", "destroyed"}]
    /\ caller_coro \in [Coros -> Coros \cup {NoCoro}]
    /\ completion_handler \in BOOLEAN
    /\ result \in [Coros -> Coros \cup {NoCoro}]
    /\ awaited \in [Coros -> Coros \cup {NoCoro}]
    /\ result_ \in [Coros -> BOOLEAN]
    /\ got \in [Coros -> Seq(Coros \cup {Op})]
    /\ stack \in Seq([at : Calls, of : Coros])
    /\ outstanding \subseteq Coros
    /\ queue \in Seq(Coros)
    /\ process \in {"up", "terminated", "undefined"}

\* The main program has called the coroutine Root: initial_suspend has suspended it.
Init ==
    /\ frame = [c \in Coros |-> IF c = Root THEN "created" ELSE "none"]
    /\ caller_coro = [c \in Coros |-> NoCoro]
    /\ completion_handler \in BOOLEAN
    /\ result = [c \in Coros |-> NoCoro]
    /\ awaited = [c \in Coros |-> NoCoro]
    /\ result_ = [c \in Coros |-> FALSE]
    /\ got = [c \in Coros |-> <<>>]
    /\ stack = <<>> /\ outstanding = {} /\ queue = <<>>
    /\ process = "up"

Up == process = "up"
Current(at, c) == Up /\ stack # <<>> /\ stack[Len(stack)] = Call(at, c)
Below == SubSeq(stack, 1, Len(stack) - 1)

\* coroutine_handle::resume of c, called from the calls `callers`: undefined
\* unless c is suspended.
Resume(callers, c, at) ==
    IF frame[c] \in {"created", "suspended"}
    THEN /\ stack' = Append(callers, Call(at, c))
         /\ UNCHANGED process
    ELSE /\ process' = "undefined"
         /\ UNCHANGED stack

-----------------------------------------------------------------------------
(* task<T>.                                                                 *)

start ==
    /\ Up /\ stack = <<>> /\ frame[Root] = "created"
    /\ Resume(<<Call("start", Root)>>, Root, "body")
    /\ frame' = [frame EXCEPT ![Root] = "running"]
    /\ UNCHANGED <<caller_coro, completion_handler, result, awaited, result_, got,
                   outstanding, queue>>

AwaitsMore(c) == Len(got[c]) < MaxAwaits

\* Mutant: d is given its caller's caller.
AwaitTask_CallersCaller(c, d) ==
    /\ Current("body", c) /\ AwaitsMore(c) /\ frame[d] = "none"
    /\ frame' = [frame EXCEPT ![c] = "suspended", ![d] = "running"]
    /\ caller_coro' = [caller_coro EXCEPT ![d] = IF c = Root THEN c ELSE caller_coro[c]]
    /\ awaited' = [awaited EXCEPT ![c] = d]
    /\ stack' = Below \o <<Call("await", c), Call("body", d)>>
    /\ UNCHANGED <<completion_handler, result, result_, got, outstanding, queue, process>>

\* co_await of a task c has just made by calling coroutine d: await_suspend stores
\* the caller and resumes d.
AwaitTask(c, d) ==
    /\ Current("body", c) /\ AwaitsMore(c) /\ frame[d] = "none"
    /\ frame' = [frame EXCEPT ![c] = "suspended", ![d] = "running"]
    /\ caller_coro' = [caller_coro EXCEPT ![d] = c]
    /\ awaited' = [awaited EXCEPT ![c] = d]
    /\ stack' = Below \o <<Call("await", c), Call("body", d)>>
    /\ UNCHANGED <<completion_handler, result, result_, got, outstanding, queue, process>>

\* co_return: return_value, then final_suspend, whose await_suspend resumes the
\* caller, or calls the completion handler, or just leaves the frame suspended.
Finish(c) ==
    /\ Current("body", c)
    /\ result' = [result EXCEPT ![c] = c]
    /\ LET caller == caller_coro[c]
           here == Append(Below, Call("final", c))
       IN  IF caller # NoCoro
           THEN /\ Resume(here, caller, "resumed")
                /\ frame' = [frame EXCEPT ![c] = "final", ![caller] = "running"]
           ELSE /\ stack' = IF completion_handler
                            THEN Append(here, Call("completion", c)) ELSE Below
                /\ frame' = [frame EXCEPT ![c] = "final"]
                /\ UNCHANGED process
    /\ UNCHANGED <<caller_coro, completion_handler, awaited, result_, got, outstanding, queue>>

\* An exception leaves the body: unhandled_exception.
Throw(c) ==
    /\ Current("body", c)
    /\ process' = "terminated"
    /\ UNCHANGED <<frameVars, stack, outstanding, queue>>

\* Mutant: the task is moved out of the co_await and never destroyed.
AwaitResumeTask_Leaks(c) ==
    /\ Current("resumed", c) /\ awaited[c] # NoCoro
    /\ LET d == awaited[c]
       IN  /\ got' = [got EXCEPT ![c] = Append(@, result[d])]
           /\ awaited' = [awaited EXCEPT ![c] = NoCoro]
           /\ stack' = Append(Below, Call("body", c))
    /\ UNCHANGED <<frame, caller_coro, completion_handler, result, result_,
                   outstanding, queue, process>>

\* c goes on after its co_await of a task: await_resume copies the value out of the
\* promise (never an exception: set_exception is never called), and at the end of
\* the expression ~task destroys the frame.
AwaitResumeTask(c) ==
    /\ Current("resumed", c) /\ awaited[c] # NoCoro
    /\ LET d == awaited[c]
       IN  IF frame[d] = "final" /\ result[d] # NoCoro
           THEN /\ got' = [got EXCEPT ![c] = Append(@, result[d])]
                /\ frame' = [frame EXCEPT ![d] = "destroyed"]
                /\ awaited' = [awaited EXCEPT ![c] = NoCoro]
                /\ stack' = Append(Below, Call("body", c))
                /\ UNCHANGED process
           ELSE /\ process' = "undefined"
                /\ UNCHANGED <<got, frame, awaited, stack>>
    /\ UNCHANGED <<caller_coro, completion_handler, result, result_, outstanding, queue>>

\* The completion handler may destroy the task, frame and handler included, as the
\* last thing it does ...
RunCompletionHandler(c) ==
    /\ Current("completion", c)
    /\ stack' = Below
    /\ frame' \in {frame, [frame EXCEPT ![c] = "destroyed"]}
    /\ UNCHANGED <<caller_coro, completion_handler, result, awaited, result_, got,
                   outstanding, queue, process>>

\* ... or its owner does, when it has ended (or has never been started).
DestroyTask ==
    /\ Up /\ stack = <<>> /\ frame[Root] \in {"created", "final"}
    /\ frame' = [frame EXCEPT ![Root] = "destroyed"]
    /\ UNCHANGED <<caller_coro, completion_handler, result, awaited, result_, got, threadVars>>

-----------------------------------------------------------------------------
(* use_await.                                                               *)

\* co_await of an operation: await_suspend initiates it, with a handler that holds
\* the coroutine, and the coroutine gives up control.
AwaitOperation(c) ==
    /\ Current("body", c) /\ AwaitsMore(c)
    /\ frame' = [frame EXCEPT ![c] = "suspended"]
    /\ outstanding' = outstanding \cup {c}
    /\ result_' = [result_ EXCEPT ![c] = FALSE]
    /\ stack' = Below
    /\ UNCHANGED <<caller_coro, completion_handler, result, awaited, got, queue, process>>

\* The operation completes: its handler is posted, never called from here.
OperationDone(c) ==
    /\ Up /\ c \in outstanding
    /\ outstanding' = outstanding \ {c}
    /\ queue' = Append(queue, c)
    /\ UNCHANGED <<frameVars, stack, process>>

\* Mutants: the handler does not resume the coroutine; or has it
\* resumed when it has returned itself.
RunHandler_Dropped ==
    /\ Up /\ stack = <<>> /\ queue # <<>>
    /\ result_' = [result_ EXCEPT ![Head(queue)] = TRUE]
    /\ queue' = Tail(queue)
    /\ UNCHANGED <<frame, caller_coro, completion_handler, result, awaited, got,
                   stack, outstanding, process>>

RunHandler_Later ==
    /\ Up /\ stack = <<>> /\ queue # <<>>
    /\ LET c == Head(queue)
       IN  /\ result_' = [result_ EXCEPT ![c] = TRUE]
           /\ Resume(<<>>, c, "resumed")
           /\ frame' = [frame EXCEPT ![c] = "running"]
    /\ queue' = Tail(queue)
    /\ UNCHANGED <<caller_coro, completion_handler, result, awaited, got, outstanding>>

\* handler::operator(): result_ points to its local, while it resumes the coroutine.
RunHandler ==
    /\ Up /\ stack = <<>> /\ queue # <<>>
    /\ LET c == Head(queue)
       IN  /\ result_' = [result_ EXCEPT ![c] = TRUE]
           /\ Resume(<<Call("handler", c)>>, c, "resumed")
           /\ frame' = [frame EXCEPT ![c] = "running"]
    /\ queue' = Tail(queue)
    /\ UNCHANGED <<caller_coro, completion_handler, result, awaited, got, outstanding>>

\* await_resume moves the result out of the handler's local, if that still exists.
AwaitResumeOperation(c) ==
    /\ Current("resumed", c) /\ awaited[c] = NoCoro
    /\ IF result_[c] /\ \E i \in 1 .. Len(stack) : stack[i] = Call("handler", c)
       THEN /\ got' = [got EXCEPT ![c] = Append(@, Op)]
            /\ stack' = Append(Below, Call("body", c))
            /\ UNCHANGED process
       ELSE /\ process' = "undefined"
            /\ UNCHANGED <<got, stack>>
    /\ UNCHANGED <<frame, caller_coro, completion_handler, result, awaited, result_,
                   outstanding, queue>>

-----------------------------------------------------------------------------
\* Mutant: final_suspend has no else: the completion handler is looked for also
\* when the caller was resumed.
Unwind_NoElse ==
    /\ Up /\ stack # <<>> /\ stack[Len(stack)].at \in {"start", "await", "final", "handler"}
    /\ LET top == stack[Len(stack)]
       IN process' = IF top.at = "final" /\ frame[top.of] = "destroyed"
                     THEN "undefined" ELSE process
    /\ stack' = Below
    /\ UNCHANGED <<frameVars, outstanding, queue>>

\* A call gets back control from what it resumed or called, and returns.  None of
\* them looks at its frame, which may be gone.
Unwind ==
    /\ Up /\ stack # <<>> /\ stack[Len(stack)].at \in {"start", "await", "final", "handler"}
    /\ stack' = Below
    /\ UNCHANGED <<frameVars, outstanding, queue, process>>

Thread ==
    \/ start
    \/ \E c \in Coros : \/ AwaitOperation(c)
                        \/ Finish(c)
                        \/ Throw(c)
                        \/ AwaitResumeTask(c)
                        \/ AwaitResumeOperation(c)
                        \/ RunCompletionHandler(c)
                        \/ \E d \in Coros : AwaitTask(c, d)
    \/ RunHandler
    \/ Unwind

Next ==
    \/ Thread
    \/ \E c \in Coros : OperationDone(c)
    \/ DestroyTask

Spec == Init /\ [][Next]_vars

\* The thread goes on, and operations complete.
FairSpec == Spec /\ WF_vars(Thread) /\ \A c \in Coros : WF_vars(OperationDone(c))

-----------------------------------------------------------------------------
(* Properties.                                                              *)

\* No coroutine is resumed that is not suspended, no value is read that is not
\* there, and no frame or handler's local is used after its end - although a frame
\* is destroyed while the final await_suspend that belongs to it still runs.
NothingUndefined == process # "undefined"

Alive(c) == frame[c] \notin {"none", "destroyed"}
Unfinished(c) == frame[c] \in {"running", "suspended"}

\* Frames are nested: each but the root's is owned by one co_await of a coroutine
\* that is itself alive, so that no frame outlives the root's, none is destroyed
\* twice, and none while it can still be resumed.
FramesNested ==
    /\ \A c \in Coros \ {Root} : Alive(c) =>
          \E d \in Coros : Unfinished(d) /\ awaited[d] = c
                           /\ \A e \in Coros \ {d} : awaited[e] # c
    /\ \A c \in Coros : frame[c] \in {"none", "created", "final", "destroyed"} =>
          c \notin outstanding /\ \A i \in 1 .. Len(queue) : queue[i] # c

\* In progress: the root until it ends, a task until its value has been taken.
InProgress(c) == Unfinished(c) \/ (c # Root /\ frame[c] = "final")

\* Its operation, its handler, or the result in the handler's hand.
WaitsForOperation(c) ==
    \/ c \in outstanding
    \/ \E i \in 1 .. Len(queue) : queue[i] = c
    \/ \E i \in 1 .. Len(stack) : stack[i] = Call("resumed", c)

\* The coroutine that acts is the one in progress that awaits no task.
Active == {c \in Coros : InProgress(c) /\ awaited[c] = NoCoro}
Waiting == \E c \in Coros : awaited[c] = NoCoro /\ WaitsForOperation(c)

\* A promise keeps its caller to the end of its frame.
Callers == [c \in Coros |-> IF Alive(c) THEN caller_coro[c] ELSE NoCoro]

Program == INSTANCE CoroCalls WITH
               active <- Active,
               caller <- Callers,
               waiting <- Waiting

\* co_await is a call: whatever nests in whatever, and whether it suspends or not,
\* each co_await returns once, to the coroutine that made it, with its own value,
\* and nothing runs between a coroutine's end and its caller.
AwaitIsCall == Program!Spec

\* The root ends, and its frames are all gone or may be destroyed by its owner.
RootEnds ==
    frame[Root] = "running" ~> ~Up \/ (stack = <<>> /\ frame[Root] \in {"final", "destroyed"})
=============================================================================
