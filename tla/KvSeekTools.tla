---------------------------- MODULE KvSeekTools ----------------------------
(***************************************************************************)
(* The command-line tools that make one OPEN, one SEEK and one CLOSE       *)
(* without coroutines or callbacks:                                        *)
(*   "sync"    src/cmd/kv_seek.cpp, blocking Write and Read;               *)
(*   "queue"   src/cmd/kv_seek_async.cpp, a completion queue;              *)
(*   "corked"  src/cmd/kv_seek_async_asio.cpp, a completion queue, the     *)
(*             metadata sent with the first write, the last write marked.  *)
(*                                                                         *)
(* Each runs on a stream of GrpcStream, request k being its k-th write:    *)
(* 1 OPEN, 2 SEEK, 3 CLOSE.  The deadline of the queue tools, and whatever *)
(* else ends a call early, is BreakStream.                                 *)
(***************************************************************************)
EXTENDS GrpcStream

CONSTANT Tools      \* the tools to be run, a subset of {"sync", "queue", "corked"}

ASSUME ToolsAssumption == Tools \subseteq {"sync", "queue", "corked"}

VARIABLES tool,         \* tool[t]: which tool t is
          step,         \* step[t]: the operation of its script it is at
          issued,       \* issued[t]: has it been started
          queue,        \* queue[t]: the events its completion queue holds
          cursor,       \* cursor[t]: cursor_id, 0 if the reply to OPEN did not come
          printed,      \* printed[t]: the requests whose replies it printed as received
          real,         \* real[t]: those whose replies it did receive
          exit          \* exit[t]: "none", "success" (0) or "failure" (-1)

toolVars == <<tool, step, issued, queue, cursor, printed, real, exit>>
vars == <<streamVars, toolVars>>

\* The operations, with their completion-queue tags.
Op(kind, k, tag) == [kind |-> kind, k |-> k, tag |-> tag]

SyncScript ==
    <<Op("write", 1, "OPEN"), Op("read", 1, "OPEN"),
      Op("write", 2, "SEEK"), Op("read", 2, "SEEK"),
      Op("write", 3, "CLOSE"), Op("read", 3, "CLOSE")>>

QueueScript ==
    <<Op("start", 0, "START"),
      Op("write", 1, "OPEN"), Op("read", 1, "OPEN"),
      Op("write", 2, "SEEK"), Op("read", 2, "SEEK"),
      Op("write", 3, "CLOSE"), Op("read", 3, "CLOSE"),
      Op("finish", 0, "FINISH")>>

\* Mutant: the reply to OPEN is not read.
CorkedScript_OpenNotRead ==
    <<Op("write", 1, "OPEN"),
      Op("write", 2, "SEEK"), Op("read", 2, "SEEK"),
      Op("writelast", 3, "CLOSE"), Op("read", 3, "CLOSE"),
      Op("finish", 0, "FINISH")>>

CorkedScript ==
    <<Op("write", 1, "OPEN"), Op("read", 1, "OPEN"),
      Op("write", 2, "SEEK"), Op("read", 2, "SEEK"),
      Op("writelast", 3, "CLOSE"), Op("read", 3, "CLOSE"),
      Op("finish", 0, "FINISH")>>

Script(which) == CASE which = "sync" -> SyncScript
                   [] which = "queue" -> QueueScript
                   [] which = "corked" -> CorkedScript

Current(t) == Script(tool[t])[step[t]]
Last(t) == step[t] = Len(Script(tool[t]))
Running(t) == exit[t] = "none"

Events == [tag : {"START", "OPEN", "SEEK", "CLOSE", "FINISH"}, ok : BOOLEAN, reply : 0 .. 3]

TypeOK ==
    /\ StreamTypeOK
    /\ tool \in [Txs -> Tools]
    /\ step \in [Txs -> Nat]
    /\ \A t \in Txs : step[t] \in 1 .. Len(Script(tool[t]))
    /\ issued \in [Txs -> BOOLEAN]
    /\ queue \in [Txs -> Seq(Events)]
    /\ cursor \in [Txs -> 0 .. 3]
    /\ printed \in [Txs -> SUBSET (1 .. 3)]
    /\ real \in [Txs -> SUBSET (1 .. 3)]
    /\ exit \in [Txs -> {"none", "success", "failure"}]

Init ==
    /\ StreamInit
    /\ tool \in [Txs -> Tools]
    /\ step = [t \in Txs |-> 1]
    /\ issued = [t \in Txs |-> FALSE]
    /\ queue = [t \in Txs |-> <<>>]
    /\ cursor = [t \in Txs |-> 0]
    /\ printed = [t \in Txs |-> {}]
    /\ real = [t \in Txs |-> {}]
    /\ exit = [t \in Txs |-> "none"]

-----------------------------------------------------------------------------
(* The tool starts its next operation.                                      *)

\* WriteLast is a write with the half-close: the server may see both at once.
StartWriteLast(t, k) ==
    /\ writing' = [writing EXCEPT ![t] = k]
    /\ halfClosed' = [halfClosed EXCEPT ![t] = TRUE]
    /\ UNCHANGED <<reading, wire, status, released>>

\* The queue tools test the status as soon as they have started Finish, find the
\* default, OK, and go on: "queue" returns 0, "corked" waits for the event.
Issue(t) ==
    /\ Running(t) /\ ~issued[t]
    /\ issued' = [issued EXCEPT ![t] = TRUE]
    /\ LET op == Current(t) IN
       CASE op.kind = "write" -> StartWrite(t, op.k)
         [] op.kind = "writelast" -> StartWriteLast(t, op.k)
         [] op.kind = "read" -> StartRead(t)
         [] OTHER -> UNCHANGED streamVars
    /\ exit' = IF tool[t] = "queue" /\ Current(t).kind = "finish"
               THEN [exit EXCEPT ![t] = "success"] ELSE exit
    /\ UNCHANGED <<tool, step, queue, cursor, printed, real>>

-----------------------------------------------------------------------------
(* gRPC completes it: an event is queued, with the tag of the operation.    *)

Post(t, ok, reply) ==
    /\ queue' = [queue EXCEPT ![t] =
                    Append(@, [tag |-> Current(t).tag, ok |-> ok, reply |-> reply])]
    /\ UNCHANGED <<tool, step, issued, cursor, printed, real, exit>>

StartDone(t) ==
    /\ Running(t) /\ issued[t] /\ queue[t] = <<>> /\ Current(t).kind = "start"
    /\ Post(t, status[t] = "open", 0)
    /\ UNCHANGED streamVars

WriteDone(t) ==
    /\ Running(t)
    /\ \E ok \in BOOLEAN : WriteCompletes(t, ok) /\ Post(t, ok, 0)

ReadDone(t) ==
    /\ Running(t)
    /\ \E ok \in BOOLEAN :
          /\ ReadCompletes(t, ok)
          /\ Post(t, ok, IF ok THEN Head(wire[t]) ELSE 0)

FinishDone(t) ==
    /\ Running(t) /\ issued[t] /\ queue[t] = <<>> /\ Current(t).kind = "finish"
    /\ status[t] # "open"
    /\ Post(t, TRUE, 0)
    /\ UNCHANGED streamVars

-----------------------------------------------------------------------------
(* The tool takes the event: Next returns, or the blocking call does.       *)

\* Mutant: cursor_id is not taken from the reply.
Use_NoCursor(t, op, event) ==
    /\ printed' = IF op.kind = "read"
                  THEN [printed EXCEPT ![t] = @ \cup {op.k}] ELSE printed
    /\ real' = IF op.kind = "read" /\ event.reply = op.k
               THEN [real EXCEPT ![t] = @ \cup {op.k}] ELSE real
    /\ UNCHANGED cursor

\* A read fills the message: what the tool prints is what is in it, and that is
\* the default, 0, after a read that failed.
Use(t, op, event) ==
    /\ cursor' = IF op.kind = "read" /\ op.k = 1
                 THEN [cursor EXCEPT ![t] = event.reply] ELSE cursor
    /\ printed' = IF op.kind = "read"
                  THEN [printed EXCEPT ![t] = @ \cup {op.k}] ELSE printed
    /\ real' = IF op.kind = "read" /\ event.reply = op.k
               THEN [real EXCEPT ![t] = @ \cup {op.k}] ELSE real

\* Mutant: the blocking tool does not test the result of the call.
Accepts_Any(t, event) == TRUE

\* The blocking tool tests the result of the call, the queue tools only the tag.
Accepts(t, event) ==
    IF tool[t] = "sync" THEN event.ok ELSE event.tag = Current(t).tag

\* Mutant: the tool waits without having started the next operation.
Proceed_NotIssued(t) ==
    /\ Running(t) /\ queue[t] # <<>> /\ ~Last(t)
    /\ queue' = [queue EXCEPT ![t] = Tail(@)]
    /\ Use(t, Current(t), Head(queue[t]))
    /\ step' = [step EXCEPT ![t] = @ + 1]
    /\ UNCHANGED <<tool, issued, exit, streamVars>>

Proceed(t) ==
    /\ Running(t) /\ queue[t] # <<>>
    /\ queue' = [queue EXCEPT ![t] = Tail(@)]
    /\ IF Accepts(t, Head(queue[t]))
       THEN /\ Use(t, Current(t), Head(queue[t]))
            /\ IF Last(t)
               THEN /\ exit' = [exit EXCEPT ![t] = "success"]
                    /\ UNCHANGED <<step, issued>>
               ELSE /\ step' = [step EXCEPT ![t] = @ + 1]
                    /\ issued' = [issued EXCEPT ![t] = FALSE]
                    /\ UNCHANGED exit
       ELSE /\ exit' = [exit EXCEPT ![t] = "failure"]
            /\ UNCHANGED <<step, issued, cursor, printed, real>>
    /\ UNCHANGED <<tool, streamVars>>

-----------------------------------------------------------------------------
ServerFinishes(t) == Running(t) /\ FinishStream(t) /\ UNCHANGED toolVars
StreamBreaks(t) == Running(t) /\ BreakStream(t) /\ UNCHANGED toolVars

Completion(t) == StartDone(t) \/ WriteDone(t) \/ ReadDone(t) \/ FinishDone(t)

Next == \E t \in Txs : \/ Issue(t)
                       \/ Completion(t)
                       \/ Proceed(t)
                       \/ ServerFinishes(t)
                       \/ StreamBreaks(t)

Spec == Init /\ [][Next]_vars

\* The tool runs, gRPC completes what it can, the deadline of the queue tools
\* expires, and the server answers the synchronous tool, which has no deadline.
FairSpec ==
    /\ Spec
    /\ \A t \in Txs :
          /\ WF_vars(Issue(t) \/ Proceed(t))
          /\ WF_vars(StartDone(t) \/ WriteDone(t) \/ FinishDone(t))
          /\ WF_vars(status[t] # "open" /\ ReadDone(t))
          /\ WF_vars(tool[t] # "sync" /\ StreamBreaks(t))
          /\ WF_vars(tool[t] = "sync" /\ ReadDone(t))

-----------------------------------------------------------------------------
(* Properties.                                                              *)

\* What a tool says by its exit code.  0: it received the three replies - or it
\* is a queue tool, its stream ended early, and it printed empty messages as
\* replies.  -1: it is the synchronous tool and its stream ended early; the tag
\* tests of the queue tools never fail.
ExitCodes ==
    \A t \in Txs :
        /\ exit[t] = "success" =>
              /\ printed[t] = {1, 2, 3}
              /\ real[t] = {1, 2, 3} \/ (tool[t] # "sync" /\ status[t] # "open")
        /\ exit[t] = "failure" => tool[t] = "sync" /\ status[t] # "open"

\* A tool that lost the reply to OPEN goes on with cursor 0, but no server gets
\* to see that: by then the stream has ended.
CursorNamed ==
    \A t \in Txs : Running(t) /\ Current(t).k > 1 =>
        cursor[t] = 1 \/ status[t] # "open"

\* Each reply is read into the message of its own request, and there is never
\* more than the one event to wait for.
RepliesMatch ==
    \A t \in Txs : queue[t] # <<>> =>
        /\ Len(queue[t]) = 1 /\ issued[t]
        /\ Head(queue[t]).tag = Current(t).tag
        /\ Head(queue[t]).reply \in {0, Current(t).k}

\* Every tool comes to its end, whatever the server does within the deadline.
EveryToolExits == \A t \in Txs : <>(~Running(t))
=============================================================================
