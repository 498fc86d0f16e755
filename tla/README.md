# A TLA+ verification of silkoroutine

silkoroutine runs remote key-value transactions against a Turbo-Geth node as
C++20 coroutines: an `asio::io_context` thread runs the coroutines, gRPC's own
threads run the reactions of a bidirectional stream, and a handful of callbacks
and posted handlers carry each reply from one side to the other. This directory
holds models of that code, the TLC runs that check them and proofs of the most
important results for every value of the constants.

The command line of every run and proof is `tlc -config X.cfg MC...` (the pairs are in
section 3) and `tlapm X_proofs.tla`; `PROJECT.json` maps every definition that models code to the lines it models.

Contents: [the system](#1-the-system), [the modules](#2-the-modules-and-the-code),
[the runs](#3-the-runs), [fairness](#4-fairness), [the proofs](#5-the-proofs),
[findings](#6-what-was-found), [assumptions](#7-assumptions-of-the-models),
[what is left](#8-what-is-not-modelled-and-the-plan).

Notation: `S/` is `src/silkoroutine/`, `K/` is `S/bindings/kv/`, `D/` is `S/ethdb/kv/`,
`P/` is `S/bindings/p2psentry/`.

## 1. The system

### Components

| component | state it keeps | operations |
|---|---|---|
| Reactor of a KV stream, `K/grpc_client_reactor.hpp` | three `std::function` slots (`write_completed_`, `read_completed_`, `close_completed_`), the last reply `pair_`, the gRPC call | `write_start`, `read_start`, `close_start`; reactions `OnWriteDone`, `OnReadDone`, `OnDone` on gRPC threads |
| Awaitables, `K/awaitables.hpp`, and operation objects, `K/async_*.hpp`, `S/bindings/async_operation.hpp` | one operation object per call in progress, the handler (the suspended coroutine) inside it, the `io_context`'s queue of handlers | initiation (`co_await`), the write and the read callback, the posted completion |
| Transaction, cursors, database, `D/remote_*.{hpp,cpp}` | `cursors_` (shared cursors by table), `cursor_id_` of each cursor (0: not open) | `begin`, `cursor()`, `cursor(table)`, `open_cursor`, `seek`, `next`, `close_cursor`, `close` |
| Interfaces, `D/cursor.hpp`, `transaction.hpp`, `database.hpp` | none | - |
| KV tools, `src/cmd/kv_seek*.cpp` (five of them) | their flags, one stream, one cursor id | one OPEN, SEEK (NEXT), CLOSE each: blocking, by completion queue (two), by callbacks, by coroutines |
| Sentry tools, `src/cmd/sentry_set_status*.cpp` (two) | the table of chains, the list of forks | one `SetStatus` call |
| Sentry bindings, `P/*.hpp` | one `ClientContext`, one response, one operation object per call | `set_status`, its callback, its awaitable |
| `task<T>` and `use_await`, `S/coro/` | result, caller and completion handler of a promise; `result_` of an awaitable; the thread's stack | `start`, `co_await`, `final_suspend`, the handler |
| Log and tee, `S/common/log.*`, `tee.hpp` | the mutex, the tee stream with its badbit and two buffers, the verbosity | a log statement, `log_set_streams_`, `log_verbosity_ =` |
| Hex, `S/common/util.*` | none but the loop's | `from_hex`, printing of bytes |
| Message classes, `K/generated/kv.pb.*`, `P/generated/sentry.pb.*` | the fields of an object, and the fields it did not know | accessors, `Clear`, `MergeFrom`, `CopyFrom`, copy constructor, swap, parsing, writing, `ByteSizeLong` |
| gRPC stubs `*.grpc.pb.*`; constants, clock, byte types; build and test driver | none of interest | - |

### How they interact

A coroutine (for instance `kv_seek` of `src/cmd/kv_seek_async_coroutines.cpp`)
calls a method of a cursor; the method `co_await`s the awaitable of its
transaction. That allocates an operation object holding the coroutine, stores a
write callback in the reactor and calls `StartWrite`; the coroutine suspends.
gRPC completes the write on one of its threads: `OnWriteDone` calls the slot,
which stores a read callback and calls `StartRead`. gRPC reads the reply:
`OnReadDone` calls the other slot, which posts a handler with the reply to the
`io_context`. The handler, on the `io_context` thread, completes the operation
object and so resumes the coroutine. `async_close` is shorter: `StartWritesDone`,
then `OnDone` posts the completion. The reactor is a member of the transaction,
and the transaction of the coroutine's frame: it is destroyed when the coroutine
ends.

Nothing in this chain is locked. What makes it correct is order: a slot is
written only when the callback that may still be running out of it has nothing left to do,
a completion is posted only for the call that is awaited, and the reactor dies after gRPC let go of it.

### What is hard, and what would make each part correct

* **Interleaving** of the `io_context` thread with gRPC's: a slot overwritten
  while its callback runs, a reply that overtakes the suspension of its coroutine,
  `OnDone` before `async_close`. Correct: each call is completed once, by its own
  reply, and a callback under which its slot is overwritten, or its reactor destroyed, has
  only to return.
* **Failure**: a write that fails throws on a gRPC thread, a read that fails throws
  in the `io_context`, a stream that ends early. Correct: no stale reply is ever
  delivered, and it is known which calls never return.
* **State on two sides**: a cursor is open here (`cursor_id_`) and at the server,
  and shared through `cursors_`. Correct: the two sides agree, `close()` leaves
  nothing open, a read is of the table that was asked for.
* **Ending**: the callback tool stops its main thread from a gRPC thread; the
  completion-queue tools look at a status before it is there; two tools have no
  deadline. Correct: the exit code tells what happened, and the tool exits.
* **Shared streams** of the log: several threads, two sinks that may fail, a message
  that logs. Correct: lines are whole, the streams agree, the mutex comes free again.
* **Frames**: a coroutine that ends resumes its caller from inside its own
  `final_suspend`, and the caller destroys the frame it is being resumed from; a result is
  read out of a local of the handler that is still on the stack. Correct: nothing is used
  after its end, and `co_await` is a call.
* **One object for many**: one `ClientContext` for every Sentry call, one `pair_` for
  every reply. Correct: it is known how many calls a client is good for, and a
  message that is received is the one that was sent.
* **Tables written out by hand or by a generator**: the fields each function of a
  message class handles (some of them as a block of memory), the digits, the forks.

`PROJECT.json` lists every one of these under `hazards`, at its line, with the
properties that would notice it.

## 2. The modules and the code

```
 KvCalls <--refines-- GrpcKvAwaitable --EXTENDS--> GrpcClientReactor --EXTENDS--> GrpcStream
    ^                                                                             ^      ^
    +----refines---- SentryClient                                     KvSeekTools     KvSeekCallback

 KvTransaction <--refines-- RemoteTransaction   (on top of what KvCalls promises)
 CoroCalls <--refines-- CoroTask
 SentryStatus      Log      Hex
 ProtoMessage --EXTENDS--> KvMessages, SentryMessages --EXTENDS--> ProtoFields
```

Each `MC...` module is the model-checking instance of the module it names; each
`..._proofs` module EXTENDS the modules it proves theorems about: `Sentry_proofs` is about
`SentryClient` and `SentryStatus`, `Common_proofs` about `Log` and `Hex`, the others about
the module they are named after.

### GrpcStream (external)

The contract of a gRPC 1.31 bidirectional stream with a KV server at its other
end, as the reactors use it. It is not code of the repository. `writing`, `reading`: the
operations outstanding; `wire`: the accepted requests whose replies are still to
be read; `halfClosed`, `status`, `released`: the end of the call. A request is a
number and its reply carries that number, so that a reply given to the wrong call
is seen. `WriteAllowed`, `ReadAllowed`, `WritesDoneAllowed` are what the
API asks of its caller. With `Unreliable = TRUE` a stream may end at any moment.

### GrpcClientReactor

The reactor: `write_completed`, `read_completed`, `close_completed` hold the number
of the call whose callback is in the slot (0: empty), `pair` is `pair_`,
and `onWrite`, `onRead`, `onDone` are the reactions in progress on gRPC threads.
`OnWriteDone`, `OnReadDone` and `OnDone` run the slot they find at that moment.

A callback is not over when it has posted its completion or started the next operation: its
thread is still inside the `std::function` of the slot and inside the reaction, while the
coroutine it resumed may already write the slot again, or end and destroy the reactor. Such a
frame is in `returning[t][slot]` (`WorkDone`) until it returns (`ReactionReturns`), and `OnDone`
does not come before the others have returned.

### GrpcKvAwaitable

The whole path of a call. `pc[t]` is where the coroutine of transaction `t` is,
`n[t]` its last call, `queue` the handlers posted to the `io_context`.

| action | code |
|---|---|
| `InitiateRequest`, `StartRequest`, `Suspend` | `initiate_async_*::operator()`: the callback into the slot, `StartWrite`, the return and the suspension. Three steps, because gRPC threads run in between |
| `ArmRead`, `IssueRead` | the write callback: `read_start` stores the read callback, then `StartRead` |
| `ThrowOnWrite` | the write callback of a write that failed |
| `PostReply` | the read callback: it posts, whatever `ok` says |
| `RunHandler` | the posted handler: it throws, or completes the operation and resumes the coroutine |
| `InitiateClose`, `StartClose`, `CallCloseSlot` | `initiate_async_close` and the close callback, or the empty slot, in `OnDone` |
| `CallbackReturns` | the rest of a callback whose `read_start` or `post` has been made, and of the reaction that called it, at any time later |
| `Begin`, `End` | the transaction and its reactor are created and destroyed |

`process` becomes `"terminated"` when an exception reaches the end of a thread
and `"undefined"` when the code breaks a rule of gRPC or completes an operation nobody awaits.

### KvCalls

The abstract specification: coroutines run one at a time, a call suspends its
coroutine and resumes it once with the answer to that call, the close is the last
call, and when anything goes wrong no coroutine runs again. `GrpcKvAwaitable`
implements it (`KeepsPromise`) under the mapping `PhaseOf(pc)`, `n`, `got`, `Up`, and so
does `SentryClient`, whose first call is its last.

### RemoteTransaction

Everything above the awaitables: `cursors_`, `cursor_id_`, the methods one step
between two `co_await`s at a time (`OpenCursor`/`ResumeOpen`, `Seek`/`ResumeSeek`,
`NextPair`/`ResumeNext`, `CloseCursor`/`ResumeCloseCursor`, `SeekTable`,
`Close`/`CloseFrom`/`ResumeClose`, `CursorOwn`, `CursorFound`, `CursorNew`,
`Drop`, `Destroy`), and the server's table of open cursors. `method`, `self`,
`table`, `todo` are the frame of the suspended method; `todo` is the rest of the
loop of `RemoteTransaction::close`. Between calls the client may call any method of any cursor
it holds, also after `close()` has returned and after the transaction is gone, and any method of the
transaction while it exists (`MayUse`, `MayCall`): no method of the code looks at more than an id.
`halfClosed` records that the stream was half-closed; a request made after that comes to
`Undefined`, and the model says nothing of the program from there on. `careful` records whether
every call so far was one of a client that leaves shared cursors alone, reads only what it has opened
and stops at `close()`. Some properties hold for every client, some for a careful one, and say which.

### KvTransaction

The abstract specification of `D/transaction.hpp` and `D/cursor.hpp` as a careful client sees
them: no requests, ids or server. A cursor is its own or shared (`held`), is open on a table or on
none (`on`), and a call of a method takes effect in one step between its call and its return:
`Open`, `Read`, `ReadTable` (`seek(table, key)`, three requests in the code), `Close`, `End`.
`close()` ends the transaction when it has closed the shared cursors one after the other. A client
that breaks a rule (`MayCall`) takes the step `Misuse`, and is promised nothing after it.

`RemoteTransaction` implements it (`ActsAtOnce`). The mapping takes a cursor's table from the server
(`OpenOn`: `opened[cursor_id_[c]]`, or that of the answer which has not been taken yet), and the
step that takes effect is the server's: the answer to the one request of the method, or the
answer to the read for `seek(table, key)`. A client that is no longer `careful` maps to `"misused"`.

### KvSeekTools and KvSeekCallback

`KvSeekTools` runs the scripts of `kv_seek.cpp`, `kv_seek_async.cpp` and
`kv_seek_async_asio.cpp` against `GrpcStream`: `Issue` starts the next operation,
gRPC completes it by an event, `Proceed` takes the event and goes on or exits. The
scripts are `SyncScript`, `QueueScript` and `CorkedScript`, one operation per entry.
`printed` and `real` tell the replies the tool prints from those it received.

`KvSeekCallback` is `kv_seek_async_callback.cpp`: its reactor, its chain of
callbacks (each a frame on a gRPC thread, from its call to its return), the main
thread in `context.run()`, the signal handler, and the destruction of the reactor.

### SentryStatus

The two `sentry_set_status` tools: the chains, each a record of the fork blocks of its `ChainConfig`, the
checks of the flags, the list of forks (`hard_forks`, a `push_back` for each entry), the loop that puts
them into the request, the call with or without a deadline, the exit codes.

### SentryClient

`async_set_status` of coroutines that share one `GrpcClient`. `context_` counts the
calls its `ClientContext` was given to. `set_status` (initiation: gRPC aborts if the
context has a call already), `Suspend`, `CallEnds`, `PostCompletion` and `ThrowOnFailure` (the
callback on gRPC's thread), `do_complete` (the posted handler), `End`.

### CoroTask and CoroCalls

`task<T>`, `task<void>`, their promises and awaiters, and `use_await`. `frame[c]` is
the life of a coroutine's frame, `caller_coro`, `result`, `completion_handler` are the
promise's members, `result_` the awaitable's. `stack` holds the calls in progress on
the thread: nothing in this code is a tail call, so whoever resumes a coroutine waits
below it. That is what lets the model see code that goes on after its frame is gone.

| action | code |
|---|---|
| `start` | `task::start` of the root |
| `AwaitTask` | `co_await` of a task: the caller is stored, the coroutine resumed |
| `Finish` | `co_return`: the value, then `final_suspend`, which resumes the caller or calls the completion handler |
| `AwaitResumeTask` | the caller goes on: the value is copied, `~task` destroys the frame |
| `AwaitOperation`, `OperationDone`, `RunHandler`, `AwaitResumeOperation` | `use_await`: initiation, the posted handler with the result in its local, the read through `result_` |
| `RunCompletionHandler`, `DestroyTask` | the owner destroys the root, in its completion handler or later |
| `Throw` | `unhandled_exception` |
| `Unwind` | a call gets back control and returns |

`process = "undefined"` when a coroutine is resumed that is not suspended, or a value,
a frame or a local is used that is not there. `CoroCalls` says the same program
without frames and stack: one coroutine acts at a time, `co_await` is a call that makes
the callee act until it returns to its caller. The mapping: who acts is the
coroutine in progress that awaits no task (`Active`), the callers are those the promises of
living frames hold (`Callers`), and somebody waits (`Waiting`) while an operation, its
handler, or the result in the handler's hand is on its way.

### Log

Log statements of several threads: the constructor of `log_` locks, each `<<` puts
one piece into the first buffer and then into the second (`PutFirst`, `PutSecond`),
either may fail, badbit silences the stream, `std::endl` flushes, the destructor
unlocks; `SetFirst` and `SetSecond` are the two assignments of `log_set_streams_`. `Nest` is
a message that logs itself: its thread waits for the mutex it holds.

### Hex

`from_hex` one round of its loop at a time (`RemovePrefix`, `CheckLength`, `Digit`,
`Return`), `HexOf` the printing of bytes, `byte_view_of_string` the conversion of signed chars.
The reference (`IsHex`, `SameLetter`) says what a hexadecimal text is and which bytes it stands for.

### ProtoMessage, KvMessages, SentryMessages, ProtoFields

The twelve message classes. `protoc` writes the same nine functions for each class, so the two
`...Messages` modules hold, class by class, one table for each function: the kind of each field
(`accessors`), the sets of fields that `Clear`, the copy constructor, `MergeFrom` and `InternalSwap`
handle, the tags under which `_InternalParse` reads a field, the fields `_InternalSerialize`
writes and `ByteSizeLong` counts, in their order. A function that handles a run of members as a
block of memory (`memset`, `memcpy`, `memswap`) is written as a `Span` of the members as they are
declared. `ProtoMessage` reads the tables: two objects of one class, and what the program and gRPC
do to them (`CallAccessor`, `CallClear`, `CallCopyFrom`, `CallMergeFrom`, `CallSwap`, `Receive`).

The wire is a sequence of tokens: a tag, a shape, a value. A submessage has no submessages of its
own, so that each function is an operator for flat classes (`ParseFlat`, `MergeFlat`, `SerializeFlat`, ...)
and the same for all, given the flat one: no recursion is needed. A peer may send a field the
class does not know, and `Spellings` are four legal ways to write a message: in the order of
the class or backwards, unknown fields last or first, and `Odd...`, repeated numbers one by one and
singular fields twice.

## 3. The runs

State counts are distinct states. A run is `tlc -config <cfg> <module>`.

| run | module, cfg | instance | states | what it shows |
|---|---|---|---|---|
| `grpc_calls` | `MCGrpcKvAwaitable`, `GrpcKvCalls` | 2 transactions, 2 requests each, streams that may end at any time | 344663 | `CompletionsMatch`, `SlotsOwned` and `DestroyedQuiescent`, over callbacks that are still returning; `MisuseOnlyAfterEarlyEnd`; `StaysUp`: nothing throws or is undefined unless a stream failed or ended before its client closed it; the refinement `KeepsPromise`; `EveryCallSettles`: a call returns, or the process ends, or its write failed and gRPC swallowed the exception |
| `grpc_silent_server` | `MCGrpcKvAwaitable`, `GrpcKvSilent` | 2 transactions, 1 request, a server that may stay silent | violation | `CallsTimeOut` fails: see 6 |
| `remote_tx` | `MCRemoteTransaction`, `RemoteTx` | 2 tables, 2 cursors, 6 requests, any client | 974357 | `IdsAgree`, `CloseClosesShared`, `RejectedOnlyIfNotOpen`, `SharedCursorsOpen`, `AwaitsInTurn`; the refinement `ActsAtOnce`; every method returns (`MethodsReturn`) |
| `seek_tools` | `MCKvSeekTools`, `KvSeekTools` | one of the three tools, a stream that may end | 414 | `ExitCodes`, `CursorNamed`, `RepliesMatch`; every tool exits |
| `seek_callback` | `MCKvSeekCallback`, `KvSeekCallback` | the callback tool, a stream that may end, signals | 5292 | `OneLink`, `StopsAfterLastReply`, `QuietExit`, `EndsOrGivesUp` |
| `sentry_status` | `MCSentryStatus`, `SentryStatus` | both tools, 5 chain ids, all kinds of flags | 328 | `SentForksInOrder`: the forks of the `ChainConfig` but the DAO's, and no others, by ascending blocks; the tools end (`Ends`) |
| `sentry_known_chains` | `MCSentryStatus`, `SentryKnownChains` | the same | violation | `EveryKnownChainWorks` fails: see 6 |
| `log_lines` | `MCLog`, `LogLines` | 2 threads, 2 lines each, 2 changes of the streams | 223065 | `LinesWhole`, `StreamsAgree`; `LogGoesOn`: only a message that logs keeps the mutex |
| `coro_task` | `MCCoroTask`, `CoroTask` | a root and 3 coroutines, 2 `co_await`s each | 49566 | `NothingUndefined`, `FramesNested`; `AwaitIsCall`, the refinement of `CoroCalls`; `RootEnds` |
| `sentry_client` | `MCSentryClient`, `SentryClient` | 4 coroutines on one client | 217 | `OneCallPerClient`; `KeepsPromise`, the refinement of `KvCalls`; `EveryCallSettles` |
| `hex` | `MCHex`, `Hex` | every text of up to 4 of 15 chars; the prints of strings of up to 2 of 11 chars | 247424 | `Decodes`: exactly the hexadecimal texts are taken, and mean what they say; `ReadsBack`: what is printed is read back |
| `messages` | `MCProtoMessage`, `ProtoMessage` | 12 classes, 2 objects, symmetric | 78893 | `Delivered`, `MergeIsConcatenation`, `WholeObjects`, `SizesExact` |

### The bounds, and why they are enough

* `Txs`, two transactions: what they share is the `io_context` thread and its
  queue; a third adds no new pair. The proofs hold for any set.
* `MaxOps`, 2 requests: the hazards are between one call and the one before
  it, in slots, `pair_` and the queue, and the close that follows. The proofs hold for any
  number. `grpc_silent_server` needs one request to find its counterexample.
* `Tables` and `Cursors`, two of each: two shared cursors, or a shared and an own one,
  or two on one table. `MaxCalls` 6: enough for open, re-open and close on two cursors
  before `close()`. The proofs hold for any sets and any number.
* `KvSeekTools` and `KvSeekCallback` have the tool's own fixed script of three requests; one
  tool at a time, as they share nothing. The proofs take any number of them side by side.
* `Log`: two threads that compete twice, three pieces per line (header, message,
  end) and two changes, so that one may fall into each line. The safety proofs hold for any numbers.
* `CoroTask`: three coroutines beside the root nest two deep twice, or three deep, and
  a coroutine awaits twice, a task after an operation or the other way round. The
  frames, the stack and `AwaitIsCall` are proved for any numbers.
* `Callers`, four: two are enough for a second call; the others wait or have not begun.
* `Hex`: the chars are those on both sides of each range of digits, the prefix letters, and a
  negative one; 4 of them hold a prefix and one byte, or two bytes. Strings that are printed
  use chars from -128 to 127. The proofs hold for any sets of texts and strings.
* `ProtoMessage`: a function handles each field by its table alone, so that one field
  after another and two at a time is what matters. The numbers 1 and 300 take one byte and two
  on the wire; `MaxElements` 2 elements keep their order; `MaxUnknown` is 1 field of a newer peer.

Deadlock checking is off everywhere because every system ends: transactions are
destroyed, tools exit, and bounds are reached. That nothing stops too soon is
what the liveness properties say.

## 4. Fairness

* `IoStep` (weak): `context.run()` executes handlers as long as there are any and
  a coroutine that has the thread keeps it until it suspends.
* `Callback(t)`, `WriteDone(t)`, `CallDone(t)` (weak): gRPC's threads run, a
  write ends one way or the other, and a call that has ended is released.
* `ReadDone(t)`, `ServerFinishes(t)` (weak): only in `FairSpec`. A server that
  answers, or a connection whose loss is noticed. `SilentServerSpec` is without it.
* `RemoteTransaction`: the coroutine goes on when its reply is there, and the server
  replies. No fairness for the client's choice of the next method.
* `KvSeekTools`, `KvSeekCallback`, `SentryStatus`: the tool's threads run. The tools
  that set a deadline have it expire (`BreakStream`, `DeadlineExpires`); for the synchronous KV tool the
  server is assumed to answer, because nothing else ends it, and the synchronous
  Sentry tool may wait for ever. Nobody need send a signal.
* `SentryClient`: the threads run and the Sentry answers, well or not, because the
  context of the client has no deadline. Nobody need call.
* `CoroTask`: the thread goes on, and an operation that was started completes. Nobody need destroy the root.
* `Log`: a thread that is in a statement goes on with it, unless its message logs (`Nest` is a
  choice of the program, not of the scheduler). Nothing is
  assumed of who gets the mutex next: `std::mutex` promises nothing.
* `Hex` and `ProtoMessage` have no fairness and no liveness: they are sequential functions.

## 5. The proofs

Eight modules hold the theorems, for every component that is modelled. What is assumed of the constants
is named in the component's module and no more than their kinds: `UnreliableAssumption`, `MaxOpsAssumption`,
`RemoteTransactionAssumption`, `ToolsAssumption`, `CoroTaskAssumption`, `LogAssumption`, `HexAssumption`,
`NumbersAreNatural` and `TextsAreBytes` of `ProtoMessage` (nothing of `Callers`, nor of `SentryStatus`).
Each also proves the inductive invariant itself (`Invariance`; `HexInvariance`, `ToolInvariance` and
`ProtoTypeOK` for `Hex`, the Sentry tools and `ProtoMessage`).

Every invariant and every refinement that a passing run checks is the subject of a theorem. Those without a
property of the same name state more than a run does: the last group in the table below.

| module | theorem | states |
|---|---|---|
| `GrpcKvAwaitable_proofs` | `CompletionsAlwaysMatch` | a posted completion is the only one of its transaction, is for the call awaited now and carries its reply |
| | `SlotsAlwaysOwned` | no slot is overwritten while its operation is outstanding or its callback has something left to do |
| | `DestructionIsSafe` | a destroyed transaction has nothing of it waiting or outstanding, and nothing running but an `OnDone` that has only to return |
| | `MisuseNeedsEarlyEnd` | gRPC's rules are broken only on a stream that ended early |
| | `StaysUpWhileStreamsLast` | nothing throws unless a stream failed or ended before its half-close |
| | `Refinement` | `Spec => KeepsPromise`: the awaitables implement `KvCalls` |
| `RemoteTransaction_proofs` | `IdsAgreeProved`, `CloseClosesSharedProved`, `RejectedOnlyIfNotOpenProved`, `SharedCursorsOpenProved`, `AwaitsInTurnProved` | the safety properties of the transaction |
| | `ActsAtOnceProved` | the transaction implements `KvTransaction` |
| `CoroTask_proofs` | `NothingUndefinedProved`, `FramesNestedProved`, `AwaitIsCallProved` | no frame, value or local is used outside its life; frames are nested; `task<T>` and `use_await` implement `CoroCalls` |
| `Sentry_proofs` | `OneCallPerClientProved`, `KeepsPromiseProved` | a client is good for one call; the refinement of `KvCalls` |
| | `SentForksInOrderProved` | the tools send every fork of the chain but the DAO's, and nothing else, in order, and only if the flags passed every check |
| `Common_proofs` | `LinesWholeProved`, `StreamsAgreeProved` | lines are whole and the streams agree |
| | `DecodesAlways`, `ReadsBackAlways` | `from_hex`, for texts and strings of any length |
| `KvSeekCallback_proofs` | `OneLinkProved`, `StopsAfterLastReplyProved`, `QuietExitProved` | the chain of callbacks and its end |
| `KvSeekTools_proofs` | `ExitCodesProved`, `CursorNamedProved`, `RepliesMatchProved` | what the exit codes say; which event is waited for |
| `ProtoMessage_proofs` | `DeliveredProved` | what is received is what was sent, in four spellings, whatever the object held before |
| | `MergeIsConcatenationProved` | `MergeFrom` is reading both messages one after the other |
| | `WholeObjectsProved`, `SizesExactProved` | no function forgets a member; `ByteSizeLong` is what `_InternalSerialize` writes |
| several | `NoCallStrandedProved` (awaitables, Sentry client), `RootNeverForgottenProved` (`CoroTask`), `NeverStuckProved` (callback tool, other KV tools) | the safety halves of the liveness properties: see *Never stuck* |
| | `ReadsAskedTableProved` | a read of a careful client is of the table it asked for |
| | `CompletionsMatchProved` (`Sentry_proofs`) | a completion is posted once, for a call that ended well |
| | `DiesOfMissingForkProved` | the only chains that kill a Sentry tool are Goerli and Classic, at the eighth fork, before the call: the finding, for every command line |

**The awaitables.** `CompletionsMatch` is not inductive: whether a
completion that is about to be posted is the right one depends on where the call
was before. `IInv` says where it can be. For every transaction (`TxInv`):

* `OnePlace`: a request is with gRPC to be written, or in the write callback, or
  with gRPC to be read, or in the read callback, or in the queue: in one of these
  places, and only while its coroutine is in that request. This is what
  replaces a lock: whoever moves the call on is the only one who can.
* `Named`: every place, and the slot that is in use with it, holds the number of
  the coroutine's last call; a reply that was read well carries that number.
* `Expected`: a reply is on the wire only for the read that is about to come.
* `Closing`: the close slot is filled once, before the half-close, and only an
  `OnDone` that found it filled posts a completion.
* `Numbered`: how the number of the last call follows the place of the coroutine.
* `Tails`: a callback that has only to return is of a call the slot holds or held, and once gRPC has
  released the call there is none but the `OnDone` that found the close slot filled.

With `TypeOK`, `CompletionsMatch` and `MisuseOnlyAfterEarlyEnd` these are
inductive. There is one lemma per action; `Frame` and `CompletionsFrame` say that a
transaction whose own state is untouched keeps its part of the invariant, and
`Posted`, `Taken` say what appending to and taking from the queue do to it.
`SlotsOwned` and `DestroyedQuiescent` follow from `IInv`. The refinement takes
`IInv` in every step: without `OnePlace` and `Named` a step of `RunHandler` could be the
return of another call. `StaysUp` needs one more invariant, `Told`: a callback, or a handler in the
queue, reports a failure only of a stream that has ended.

**The transaction.** `Control` ties the request in flight to the method, its cursor
and its table; `Map` says that the map holds the shared cursors, each under one
table; `Visiting`, that what `close()` has not visited yet is every open cursor of the map but
the current one; `Numbers`, that ids are handed out in order, held by one cursor
and open at the server while held, and that none is open once the half-close is answered; `Care`, what a
careful client can rely on. Each action disturbs some of the five, shown one by one. After `close()` a
method changes only what the client sees of its own cursors (`QuietAfterClose`), or sends a request
that comes to nothing (`SentAfterClose`); `AfterCloseStep` puts the actions of that time together. The refinement of `KvTransaction` needs `Place` besides (where `seek(table, key)`
and `close()` are) and has one lemma for each action. `Between` and `Within` say what a careful client is told between two
calls and within one; `MisuseStep`, that the step which ends its care is `Misuse`, and that
nothing is told after it. Without `RequestNamesOpen` (from `Numbers` and `Care`) the server
could answer a read out of another table.

**The coroutines.** `Layers`: below the current call are only calls that wait for what they
resumed, and none of them looks at its frame again. `Running`: a coroutine runs exactly if it is
the current call. `Owned`: a task and the coroutine that awaits it know each other, and the
one is suspended while the other lives. `Operations`: an operation in progress, or its
handler, is the only one of a suspended coroutine. Without `Owned` the caller
that `Finish` resumes could have been destroyed; without `Running` two could run.
The refinement adds `OneActive`: at most one coroutine in progress awaits no task, and there
is one as long as the root has not ended. `WaitersKnown` follows from `IInv`: who waits for an
operation is suspended, or is the current call with the result in hand. There is one lemma
for each action; `Resume` of a caller is the `Return` of `CoroCalls` only when the caller has
taken the value (`AwaitResumeTask`), so that `Finish` is a stutter, but for the root's.

**The Sentry client.** `CallsBegun` and `OneContext`: a coroutine has a call from the
moment it makes it, the context was given to every one there is, and to one only.

**The Sentry tools.** `Filling`: the forks in the request are the first ones of the list and none
is missing; a tool that died did so at a fork that is. The four chains are looked at once, for the members they
have (`ConfigsHaveNine`) and for the order of their blocks (`ListOf`); `ListIsMembers` says that the list
holds what the members of any chain but `dao_block` say.

**The log.** `Mutex` and `Position` place the thread that logs; `EndsThere` says where each
stream ends while nothing has failed: at the piece in hand, or with the whole
line of the thread before; `Chained` and `Agree` are the properties without that case.

**The callback tool.** `Outstanding` and `Link`: what is outstanding, or in a callback, is for
the reply due, and there is one of them; `Unbroken`: if there is none the chain has not begun or
has ended; `MainInv` and `Replies` place the main thread.

**The other tools.** `Idle`, `Started`, `Ended`: a tool's operation has not been started, is with gRPC,
or its event is in the queue; `Wire` and `Results` say which reply can come and which have come.
`ScriptOK`, proved for the three scripts, is what the rest needs to know of them: each write is followed by the read of its reply.

**Hex.** The loop invariant: the digits looked at are digits, the bytes put out are
those of the pairs of them, and `carry` is the first digit of a pair begun.

**The messages.** The invariant is small: both objects are objects of their class. The work is in the
operators. The tables of a class are looked at once, to see that it is `Sound` (no function forgets a
field, every field is written once and read where it is written, under a tag of its own) and `Counted`
(`ByteSizeLong` counts what is written); nothing after that knows a class. The piece of the wire one
field is written as reads back as a merge of that field (`WrittenReads`, `OddlyWrittenReads`); pieces in any
order merge every field (`PiecesRead`), which is what `MergeFrom` does (`EitherWayReads`); and into a new
or cleared object a merge is a copy (`MergeIntoNew`). Sizes go the same way (`WrittenSize`, `FlattenMeasured`). Both
are shown of flat classes first and of all classes from that (`EverySubmessageReads`, `EverySubmessageSized`). The
folds over a wire are unrolled by `Induction`, which has a set where a predicate would stand: that is the
form of induction the provers can use.

**Never stuck.** Each liveness property has a half that is safety: as long as somebody waits, a step is
there to be taken that brings him on, and only what the property excepts (a write that failed and was swallowed, a tool that
gave up) waits for nothing. It needs an invariant of its own, by induction beside `IInv`, which says where what is waited for is:
`AllSomewhere` for the call of an awaitable, `Held` for a suspended coroutine, `Kept` for a `set_status`, `Coming` for the
reply of a tool. That leaves to fairness what fairness is for: that the step which is there is taken. In `KvSeekTools` `Coming` also says that the corked tool waits
for `Finish` on a stream it half-closed; in `KvSeekCallback` that it waits for a read only if its reply is on the wire or the stream has ended.

**Only model-checked.** Liveness itself (`EveryCallSettles` of both modules, `MethodsReturn`,
`EveryToolExits`, `EndsOrGivesUp`, `Ends`, `LogGoesOn`, `RootEnds`): how fairness makes the steps above happen, and that
they come to an end, is out of the prover's reach. The two runs that expect a violation show a
counterexample each, and nothing is proved of `CallsTimeOut`.

## 6. What was found

1. **`--timeout` of the coroutine tool does nothing** (`grpc_silent_server`).
   `src/cmd/kv_seek_async_coroutines.cpp:85` reads and checks it; no deadline is ever
   set on the stream's context. A call on a server that stays silent never returns.
2. **Two known chains kill the Sentry tools** (`sentry_known_chains`). Goerli has
   no Muir Glacier fork and Classic neither that nor Berlin; `block.value()` throws
   (`src/cmd/sentry_set_status.cpp:257`, `sentry_set_status_async.cpp:269`).

Behaviour the passing runs state that a reader may not expect:

* A request whose write failed is lost if gRPC was built with exceptions: nothing
  is posted and its coroutine never resumes (`EveryCallSettles`, `Lost`). The same is true of
  a `set_status` that failed.
* A coroutine that goes on after its stream ended early writes to a call gRPC may have
  released (`MisuseOnlyAfterEarlyEnd`).
* The completion-queue tools exit with 0 and print empty replies when
  their stream ends early (`ExitCodes`).
* The callback tool never exits by itself once an operation failed
  (`EndsOrGivesUp`), and destroys its reactor while its call is still open (`QuietExit`).
* A Sentry `GrpcClient` is good for one call in its life (`OneCallPerClient`): the second one is
  given the same `ClientContext`, and gRPC aborts.
* Nothing in a cursor or in the transaction knows that `close()` has been called: a method called after it
  sends its request on the half-closed stream (`AwaitsInTurn`).
* `open_cursor` of a cursor that is open does nothing, whatever table it names, and `cursor(table)` returns a
  shared cursor as its users left it: what is promised of tables is promised to a careful client
  (`ActsAtOnce`, `SharedCursorsOpen`).
* The list of hard forks that the Sentry tools build leaves out `dao_block`
  (`src/cmd/sentry_set_status.cpp:232-242`), which the `ChainConfig` of Mainnet has (line 129): the Sentry is told of
  nine of its ten forks (`SentForksInOrder` says so, and would fail if another were left out).
* A seek or a next of a cursor that is not open is sent with id 0, and the server
  ends the stream (`RejectedOnlyIfNotOpen`).
* One log stream that fails silences the other (`StreamsAgree`), and
  `log_set_streams_` (`S/common/log.cpp:80`) replaces the buffers, not the badbit: new streams do not revive the log.
* A message that logs, by a function it calls, blocks its thread for ever, and every thread that logs
  after it (`LogGoesOn`).

## 7. Assumptions of the models

* The server: one reply per request, in order; a fresh non-zero id for each
  OPEN; a request that names no open cursor is rejected. A write that gRPC reports as done may
  still be lost if the stream ends.
* One coroutine uses a transaction at a time. The layer has no protection against
  two, and no caller in the repository does it.
* gRPC calls `OnDone` only after every other reaction has returned, and does not use the reactor
  again when `OnDone` has returned.
* A callback of the awaitables makes its last use of what it captured, and of the reactor, in its
  `post` or its `read_start` (`K/awaitables.hpp:71-90`, `263-276`); what is left is the return through the
  `std::function` and the reaction, which use neither. That is why `SlotsOwned` and `DestroyedQuiescent` may allow such a
  frame, and only such a one, under a slot that is written or a reactor that is destroyed. The assignment
  of a `std::function` and the read of it by a call are single steps.
* In `SentryClient` a callback ends with its last access to shared state: there is no slot it could be overwritten in.
* An exception that leaves a reaction is either swallowed by gRPC or ends the
  process, depending on how gRPC was built; both happen in the model. A swallowed
  one leaves gRPC's count of callbacks as it was, so that `OnDone` never comes.
* An exception out of `context.run()` ends the process, as in the tool.
* `close()` visits `cursors_` in any order, the order of the tables, in which a `std::map` is visited, among them.
* The status passed to `Finish` keeps its default, OK, until the event is taken.
* `CoroTask`: one thread runs the `io_context`; the owner of the root destroys it unstarted, ended,
  or in its completion handler; an operation posts its handler and never calls it from its
  initiation; the code of a body between two `co_await`s does nothing the model needs to
  know, and a coroutine awaits a task it has just made. `set_exception` is never called, so
  that an exception out of a body ends the process.
* `SentryClient`: gRPC aborts when a `ClientContext` is given to a second call. Nothing includes
  `P/awaitables.hpp`, and its line 63 names `status_data` where the member is `status_data_`: the
  model is of the call with that member.
* `Hex`: a char is its code, -128 to 127; bytes are chars modulo 256.
* `ProtoMessage`: a wire is a sequence of whole tokens, so that malformed input does not occur. Where a
  function handles members as a block of memory, the block is the run of members as declared.
* A mutex, a stream buffer's `sputc`, and `std::ostream` behave as the standard
  says; assignments of `teebuf`'s two pointers are each one step.
* Keys and values are abstracted: a request to its number, a pair to the table it is
  from, a log piece to its thread, line and position.

## 8. What is not modelled, and the plan

Not modelled, with no plan to:

* Constants, the clock and the byte types: they have no state. The clock is read for log lines only.
* Build files and the driver of the unit tests.
* The checks of the flags of the KV tools: each ends its program before there is a stream. Those of the Sentry tools are in `SentryStatus`.
* The stubs `*.grpc.pb.*`: they hand each call to gRPC's library. What gRPC does is `GrpcStream`.
* Of the message classes: arenas, reflection and descriptors, cached sizes (that of the packed list of forks, which `ByteSizeLong` stores and `_InternalSerialize` reads, included: `SizesExact` compares the two computations), malformed or
  truncated input, the check that `bucketname` is UTF-8, groups, and the width of integers (the
  generated code reads and writes a field at the width it is declared with).
* `operator<<` of bytes leaves the fill and the base of its stream changed. No code after it depends on them.
* `log_verbosity_` and the text of log headers; a statement below the verbosity does nothing. `Log` leaves
  `log_verbosity_ =` out, an assignment no lock protects.
* The allocation of operation objects, and the depth of the stack that nested `co_await`s take: bounds of the machine.
* Two coroutines on one transaction (see 7).

The plan was, in this order, and is done:

1. `GrpcStream`, `GrpcClientReactor`, `GrpcKvAwaitable`: the path of a call, first
   because everything else rests on it.
2. `KvCalls` and the refinement.
3. `GrpcKvAwaitable_proofs`: type correctness, safety, refinement.
4. `RemoteTransaction`, on the promise of `KvCalls`, and its proofs.
5. The tools: `KvSeekTools`, `KvSeekCallback`, `SentryStatus`, and their proofs.
6. `Log` and its proofs.
7. `SentryClient`, its refinement of `KvCalls`, its proofs.
8. `CoroTask`, `CoroCalls` and the refinement; proofs of what is undefined, of who owns whom, and of the refinement.
9. `Hex` against a reference definition, and its loop invariant as a theorem.
10. The message classes: `ProtoFields`, `KvMessages`, `SentryMessages`, `ProtoMessage`, and their proofs.
11. `KvTransaction` and the refinement, with its proof.
12. The safety halves of the liveness properties, as theorems.

What could come next: the same half for `RemoteTransaction` and `Log` (a method waits for a request the
server has, a thread for the holder of the mutex), and the three
hazards of `PROJECT.json` no property covers.
