---------------------------- MODULE CoroTask_proofs ----------------------------
(***************************************************************************)
(* The theorems about CoroTask, for every set of coroutines and every      *)
(* bound MaxAwaits: nothing is resumed, read or destroyed that should not  *)
(* be, and the frames are nested.  The inductive invariant IInv says how   *)
(* the thread's stack, the links between tasks and the operations go with  *)
(* the states of the frames.                                               *)
(***************************************************************************)
EXTENDS CoroTask, SequenceTheorems, TLAPS

Entries == [at : Calls, of : Coros]
OnTop(at, c) == stack # <<>> /\ stack[Len(stack)] = Call(at, c)

\* Below the current call are only calls that wait for what they resumed or called.
Waits(s) == \A i \in 1 .. Len(s) : s[i].at \in {"start", "await", "final", "handler"}
Layers == \A i \in 1 .. Len(stack) - 1 : stack[i].at \in {"start", "await", "final", "handler"}

\* A coroutine runs exactly if it is the current call; one whose body runs awaits
\* nothing; one on its way out of an operation has the result, in its handler's hand;
\* and only the root, when it has ended, has a completion handler called.
Running ==
    \A c \in Coros :
        /\ frame[c] = "running" <=> OnTop("body", c) \/ OnTop("resumed", c)
        /\ OnTop("body", c) => awaited[c] = NoCoro
        /\ OnTop("resumed", c) /\ awaited[c] = NoCoro =>
              result_[c] /\ \E i \in 1 .. Len(stack) : stack[i] = Call("handler", c)
        /\ OnTop("resumed", c) /\ awaited[c] # NoCoro => frame[awaited[c]] = "final"
        /\ OnTop("completion", c) => c = Root /\ frame[Root] = "final"

\* A task and the coroutine that awaits it know each other; it is suspended until
\* the task has ended, and runs again while it takes the task's value.
Owned ==
    /\ caller_coro[Root] = NoCoro /\ frame[Root] # "none"
    /\ \A c \in Coros : frame[c] = "created" => c = Root
    /\ \A d \in Coros \ {Root} : frame[d] \in {"running", "suspended", "final"} =>
          caller_coro[d] \in Coros /\ awaited[caller_coro[d]] = d
    /\ \A c \in Coros : awaited[c] # NoCoro =>
          /\ awaited[c] # Root /\ caller_coro[awaited[c]] = c
          /\ \/ frame[c] = "suspended" /\ frame[awaited[c]] \in {"running", "suspended"}
             \/ frame[c] = "running" /\ frame[awaited[c]] = "final"
    /\ \A c \in Coros : frame[c] = "final" => result[c] = c

\* An operation in progress, or its handler, is the only one of a suspended
\* coroutine that awaits no task.
Operations ==
    /\ \A c \in outstanding : frame[c] = "suspended" /\ awaited[c] = NoCoro
    /\ \A i \in 1 .. Len(queue) :
          /\ frame[queue[i]] = "suspended" /\ awaited[queue[i]] = NoCoro
          /\ queue[i] \notin outstanding
          /\ \A j \in 1 .. Len(queue) : queue[i] = queue[j] => i = j

IInv == TypeOK /\ NothingUndefined /\ Layers /\ Running /\ Owned /\ Operations

-----------------------------------------------------------------------------
(* Lemmas about the stack.                                                  *)

\* A call is known by its place and its coroutine.
LEMMA CallFields ==
  /\ \A at \in Calls, c \in Coros : Call(at, c) \in Entries /\ Call(at, c).at = at
  /\ \A a, b, c, d : Call(a, c) = Call(b, d) => a = b /\ c = d
  <1>1. \A at, c : Call(at, c).at = at /\ Call(at, c).of = c
    BY DEF Call
  <1>2. \A at \in Calls, c \in Coros : Call(at, c) \in Entries
    BY DEF Call, Entries
  <1> QED BY <1>1, <1>2

\* The calls below the current one.
LEMMA BelowStack ==
  ASSUME stack \in Seq(Entries), Layers, stack # <<>>
  PROVE  /\ Below \in Seq(Entries) /\ Waits(Below)
         /\ Len(Below) = Len(stack) - 1
         /\ \A i \in 1 .. Len(Below) : Below[i] = stack[i]
  <1>1. Len(stack) \in Nat /\ Len(stack) > 0
    OBVIOUS
  <1>2. /\ Below \in Seq(Entries) /\ Len(Below) = Len(stack) - 1
        /\ \A i \in 1 .. Len(Below) : Below[i] = stack[i]
    <2>1. ASSUME NEW i \in 1 .. Len(stack) - 1 PROVE stack[i] \in Entries
      <3>1. i \in 1 .. Len(stack)
        BY <1>1
      <3> QED BY <3>1, ElementOfSeq
    <2> DEFINE n == Len(stack) - 1
    <2>2. 1 \in Int /\ n \in Int /\ n \in Nat
      BY <1>1
    <2>3. /\ SubSeq(stack, 1, n) \in Seq(Entries)
          /\ Len(SubSeq(stack, 1, n)) = IF 1 <= n THEN n - 1 + 1 ELSE 0
          /\ \A i \in 1 .. n - 1 + 1 : SubSeq(stack, 1, n)[i] = stack[1 + i - 1]
      BY <2>1, <2>2, SubSeqProperties
    <2> HIDE DEF n
    <2>4. Len(SubSeq(stack, 1, n)) = n /\ \A i \in 1 .. n : SubSeq(stack, 1, n)[i] = stack[i]
      BY <2>2, <2>3
    <2> QED BY <2>3, <2>4 DEF Below, n
  <1> QED BY <1>2 DEF Waits, Layers

\* A call that waits joins those that wait.
LEMMA WaitingCall ==
  ASSUME NEW s \in Seq(Entries), Waits(s), NEW e \in Entries,
         e.at \in {"start", "await", "final", "handler"}
  PROVE  Append(s, e) \in Seq(Entries) /\ Waits(Append(s, e))
  <1>1. /\ Append(s, e) \in Seq(Entries) /\ Len(Append(s, e)) = Len(s) + 1
        /\ Append(s, e)[Len(s) + 1] = e
        /\ \A i \in 1 .. Len(s) : Append(s, e)[i] = s[i]
    OBVIOUS
  <1>2. \A i \in 1 .. Len(s) + 1 : i \in 1 .. Len(s) \/ i = Len(s) + 1
    OBVIOUS
  <1> QED BY <1>1, <1>2 DEF Waits

\* A call on top of those that wait is the current one.
LEMMA Pushed ==
  ASSUME NEW s \in Seq(Entries), Waits(s), NEW e \in Entries, stack' = Append(s, e)
  PROVE  /\ stack' \in Seq(Entries) /\ Layers'
         /\ \A at \in Calls, c \in Coros : OnTop(at, c)' <=> e = Call(at, c)
         /\ \A i \in 1 .. Len(s) : i \in 1 .. Len(stack') /\ stack'[i] = s[i]
  <1>1. /\ stack' \in Seq(Entries) /\ Len(stack') = Len(s) + 1 /\ stack' # <<>>
        /\ stack'[Len(s) + 1] = e
        /\ \A i \in 1 .. Len(s) : stack'[i] = s[i]
        /\ Len(s) \in Nat
    OBVIOUS
  <1>2. Layers'
    BY <1>1 DEF Layers, Waits
  <1>3. \A at \in Calls, c \in Coros : OnTop(at, c)' <=> e = Call(at, c)
    BY <1>1 DEF OnTop, Call
  <1> QED BY <1>1, <1>2, <1>3

\* When the current call has returned no coroutine runs.
LEMMA Popped ==
  ASSUME NEW s \in Seq(Entries), Waits(s), stack' = s
  PROVE  /\ stack' \in Seq(Entries) /\ Layers'
         /\ \A at \in {"body", "resumed", "completion"}, c \in Coros : ~OnTop(at, c)'
  <1>1. Len(s) \in Nat /\ (s # <<>> => Len(s) \in 1 .. Len(s))
    OBVIOUS
  <1>2. Layers'
    BY <1>1 DEF Layers, Waits
  <1>3. \A at \in {"body", "resumed", "completion"}, c \in Coros : ~OnTop(at, c)'
    BY <1>1, CallFields DEF OnTop, Waits, Calls
  <1> QED BY <1>2, <1>3

\* The coroutine whose body is the current call is the only one that runs.
LEMMA BodyRuns ==
  ASSUME IInv, NEW c \in Coros, Current("body", c)
  PROVE  /\ frame[c] = "running" /\ awaited[c] = NoCoro
         /\ \A x \in Coros : x # c => frame[x] # "running"
         /\ stack \in Seq(Entries) /\ stack # <<>>
  <1>1. OnTop("body", c)
    BY DEF Current, OnTop
  <1>2. \A x \in Coros : x # c => ~OnTop("body", x) /\ ~OnTop("resumed", x)
    BY <1>1, CallFields DEF OnTop
  <1> QED BY <1>1, <1>2 DEF IInv, TypeOK, Entries, Running, OnTop

\* So is the one that comes out of a co_await.
LEMMA ResumedRuns ==
  ASSUME IInv, NEW c \in Coros, Current("resumed", c)
  PROVE  /\ frame[c] = "running"
         /\ \A x \in Coros : x # c => frame[x] # "running"
         /\ awaited[c] = NoCoro =>
               result_[c] /\ \E i \in 1 .. Len(stack) : stack[i] = Call("handler", c)
         /\ awaited[c] # NoCoro => frame[awaited[c]] = "final"
         /\ stack \in Seq(Entries) /\ stack # <<>>
  <1>1. OnTop("resumed", c)
    BY DEF Current, OnTop
  <1>2. \A x \in Coros : x # c => ~OnTop("body", x) /\ ~OnTop("resumed", x)
    BY <1>1, CallFields DEF OnTop
  <1> QED BY <1>1, <1>2 DEF IInv, TypeOK, Entries, Running, OnTop

\* Otherwise none does.
LEMMA NobodyRuns ==
  ASSUME IInv, \A c \in Coros : ~OnTop("body", c) /\ ~OnTop("resumed", c)
  PROVE  \A x \in Coros : frame[x] # "running"
  BY DEF IInv, Running

-----------------------------------------------------------------------------
(* The steps.                                                               *)

\* The invariant holds initially.
LEMMA InitIInv == Init => IInv
  <1> SUFFICES ASSUME Init PROVE IInv
    OBVIOUS
  <1>1. TypeOK
    BY CoroTaskAssumption DEF Init, TypeOK
  <1>2. NothingUndefined /\ Layers /\ Operations
    BY DEF Init, NothingUndefined, Layers, Operations
  <1>3. Running
    BY DEF Init, Running, OnTop
  <1>4. Owned
    BY CoroTaskAssumption DEF Init, Owned
  <1> QED BY <1>1, <1>2, <1>3, <1>4 DEF IInv

\* The root's body is the current call.
LEMMA StartStep ==
  ASSUME IInv, start
  PROVE  IInv'
  <1>1. TypeOK /\ NothingUndefined /\ Layers /\ Running /\ Owned /\ Operations
    BY DEF IInv
  <1>2. /\ frame[Root] = "created" /\ frame' = [frame EXCEPT ![Root] = "running"]
        /\ stack = <<>> /\ stack' = Append(<<Call("start", Root)>>, Call("body", Root))
        /\ UNCHANGED <<caller_coro, completion_handler, result, awaited, result_, got,
                       outstanding, queue, process>>
    BY DEF start, Resume
  <1>3. Root \in Coros /\ \A x \in Coros : frame[x] # "running"
    BY <1>2, CoroTaskAssumption, NobodyRuns DEF OnTop
  <1>4. <<Call("start", Root)>> \in Seq(Entries) /\ Waits(<<Call("start", Root)>>)
    BY <1>3, CallFields DEF Waits, Calls
  <1>5. Call("body", Root) \in Entries
    BY <1>3, CallFields DEF Calls
  <1>6. /\ stack' \in Seq(Entries) /\ Layers'
        /\ \A at \in Calls, x \in Coros : OnTop(at, x)' <=> Call("body", Root) = Call(at, x)
    BY <1>2, <1>4, <1>5, Pushed
  <1>7. \A x \in Coros : (OnTop("body", x)' <=> x = Root) /\ ~OnTop("resumed", x)'
                         /\ ~OnTop("completion", x)'
    BY <1>3, <1>6, CallFields DEF Calls
  <1>8. TypeOK'
    BY CoroTaskAssumption, <1>1, <1>2, <1>3, <1>6, <1>7 DEF TypeOK, Entries
  <1>9. Running'
    BY <1>1, <1>2, <1>3, <1>6, <1>7 DEF TypeOK, Running, Owned
  <1>10. Owned'
    BY CoroTaskAssumption, <1>1, <1>2, <1>3, <1>6, <1>7 DEF TypeOK, Owned
  <1>11. Operations'
    BY CoroTaskAssumption, <1>1, <1>2, <1>3, <1>6, <1>7 DEF TypeOK, Operations
  <1> QED BY <1>1, <1>2, <1>3, <1>6, <1>7, <1>8, <1>9, <1>10, <1>11 DEF IInv, NothingUndefined

\* The caller waits for the task, which is the current call.
LEMMA AwaitTaskStep ==
  ASSUME IInv, NEW c \in Coros, NEW d \in Coros, AwaitTask(c, d)
  PROVE  IInv'
  <1>1. TypeOK /\ NothingUndefined /\ Layers /\ Running /\ Owned /\ Operations
    BY DEF IInv
  <1>2. /\ frame[d] = "none" /\ frame' = [frame EXCEPT ![c] = "suspended", ![d] = "running"]
        /\ caller_coro' = [caller_coro EXCEPT ![d] = c]
        /\ awaited' = [awaited EXCEPT ![c] = d]
        /\ stack' = Below \o <<Call("await", c), Call("body", d)>>
        /\ UNCHANGED <<completion_handler, result, result_, got, outstanding, queue, process>>
    BY DEF AwaitTask
  <1>3. /\ frame[c] = "running" /\ awaited[c] = NoCoro
        /\ \A x \in Coros : x # c => frame[x] # "running"
        /\ stack \in Seq(Entries) /\ stack # <<>>
    BY BodyRuns DEF AwaitTask
  <1>4. Below \in Seq(Entries) /\ Waits(Below)
    BY <1>1, <1>3, BelowStack
  <1> DEFINE here == Append(Below, Call("await", c))
  <1>5. here \in Seq(Entries) /\ Waits(here)
    BY <1>4, WaitingCall, CallFields DEF Calls
  <1>6. stack' = Append(here, Call("body", d))
    BY <1>2, <1>4, CallFields DEF Calls
  <1> HIDE DEF here
  <1>7. /\ stack' \in Seq(Entries) /\ Layers'
        /\ \A at \in Calls, x \in Coros : OnTop(at, x)' <=> Call("body", d) = Call(at, x)
    BY <1>5, <1>6, Pushed, CallFields DEF Calls
  <1>8. \A x \in Coros : (OnTop("body", x)' <=> x = d) /\ ~OnTop("resumed", x)'
                         /\ ~OnTop("completion", x)'
    BY <1>7, CallFields DEF Calls
  <1>9. c # d /\ d # Root /\ \A x \in Coros : awaited[x] # d
    <2>1. c # d /\ d # Root /\ d # NoCoro
      BY <1>1, <1>2, <1>3, CoroTaskAssumption DEF Owned
    <2>2. ASSUME NEW x \in Coros, awaited[x] = d PROVE FALSE
      BY <1>1, <1>2, <2>1, <2>2 DEF Owned
    <2> QED BY <2>1, <2>2
  <1>10. TypeOK'
    BY CoroTaskAssumption, <1>1, <1>2, <1>3, <1>7, <1>8, <1>9 DEF TypeOK, Entries
  <1>11. Running'
    BY <1>1, <1>2, <1>3, <1>7, <1>8, <1>9 DEF TypeOK, Running, Owned
  <1>12. Owned'
    <2>1. /\ frame'[c] = "suspended" /\ frame'[d] = "running" /\ caller_coro'[d] = c /\ awaited'[c] = d
          /\ \A x \in Coros : x # c => awaited'[x] = awaited[x]
          /\ \A x \in Coros : x # d => caller_coro'[x] = caller_coro[x]
          /\ \A x \in Coros : x # c /\ x # d => frame'[x] = frame[x]
      BY <1>1, <1>2, <1>9 DEF TypeOK
    <2>2. caller_coro'[Root] = NoCoro /\ frame'[Root] # "none"
      BY <2>1, <1>1, <1>9, CoroTaskAssumption DEF Owned
    <2>3. \A x \in Coros : (frame'[x] = "created" => x = Root) /\ (frame'[x] = "final" => result'[x] = x)
      <3>1. ASSUME NEW x \in Coros
            PROVE  (frame'[x] = "created" => x = Root) /\ (frame'[x] = "final" => result[x] = x)
        <4>1. CASE x = c \/ x = d
          BY <4>1, <2>1
        <4>2. CASE ~(x = c \/ x = d)
          <5>1. frame'[x] = frame[x]
            BY <4>2, <2>1
          <5> QED BY <5>1, <1>1 DEF Owned
        <4> QED BY <4>1, <4>2
      <3> QED BY <3>1, <1>2
    <2>4. ASSUME NEW x \in Coros \ {Root}, frame'[x] \in {"running", "suspended", "final"}
          PROVE  caller_coro'[x] \in Coros /\ awaited'[caller_coro'[x]] = x
      <3>1. CASE x = d
        BY <3>1, <2>1
      <3>2. CASE x # d
        <4>1. frame[x] \in {"running", "suspended", "final"} /\ x # NoCoro
          BY <3>2, <2>1, <2>4, <1>3, CoroTaskAssumption
        <4>2. caller_coro[x] \in Coros /\ awaited[caller_coro[x]] = x /\ caller_coro[x] # c
          BY <4>1, <1>1, <1>3 DEF Owned
        <4> QED BY <3>2, <4>2, <2>1
      <3> QED BY <3>1, <3>2
    <2>5. ASSUME NEW x \in Coros, awaited'[x] # NoCoro
          PROVE  /\ awaited'[x] # Root /\ caller_coro'[awaited'[x]] = x
                 /\ \/ frame'[x] = "suspended" /\ frame'[awaited'[x]] \in {"running", "suspended"}
                    \/ frame'[x] = "running" /\ frame'[awaited'[x]] = "final"
      <3>1. CASE x = c
        BY <3>1, <2>1, <1>9
      <3>2. CASE x # c
        <4>1. awaited[x] # NoCoro /\ awaited'[x] = awaited[x] /\ awaited[x] \in Coros /\ awaited[x] # d
          BY <3>2, <2>1, <2>5, <1>1, <1>9 DEF TypeOK
        <4>2. x # d
          BY <4>1, <1>1, <1>2 DEF Owned
        <4>3. /\ awaited[x] # Root /\ caller_coro[awaited[x]] = x
              /\ \/ frame[x] = "suspended" /\ frame[awaited[x]] \in {"running", "suspended"}
                 \/ frame[x] = "running" /\ frame[awaited[x]] = "final"
          BY <4>1, <1>1 DEF Owned
        <4>4. frame'[x] = frame[x] /\ caller_coro'[awaited[x]] = caller_coro[awaited[x]]
          BY <3>2, <4>1, <4>2, <2>1
        <4>5. CASE awaited[x] = c
          BY <4>1, <4>3, <4>4, <4>5, <2>1, <1>3
        <4>6. CASE awaited[x] # c
          <5>1. frame'[awaited[x]] = frame[awaited[x]]
            BY <4>1, <4>6, <2>1
          <5> QED BY <5>1, <4>1, <4>3, <4>4
        <4> QED BY <4>5, <4>6
      <3> QED BY <3>1, <3>2
    <2> QED BY <2>2, <2>3, <2>4, <2>5 DEF Owned
  <1>13. Operations'
    BY SMTT(40), CoroTaskAssumption, <1>1, <1>2, <1>3, <1>7, <1>8, <1>9 DEF TypeOK, Operations
  <1> QED BY <1>1, <1>2, <1>3, <1>7, <1>8, <1>9, <1>10, <1>11, <1>12, <1>13 DEF IInv, NothingUndefined

\* The caller of a task that ends is suspended, and comes out of its co_await; the
\* root has none.
LEMMA FinishStep ==
  ASSUME IInv, NEW c \in Coros, Finish(c)
  PROVE  IInv'
  <1>1. TypeOK /\ NothingUndefined /\ Layers /\ Running /\ Owned /\ Operations
    BY DEF IInv
  <1>2. /\ frame[c] = "running" /\ awaited[c] = NoCoro
        /\ \A x \in Coros : x # c => frame[x] # "running"
        /\ stack \in Seq(Entries) /\ stack # <<>>
    BY BodyRuns DEF Finish
  <1>3. Below \in Seq(Entries) /\ Waits(Below)
    BY <1>1, <1>2, BelowStack
  <1> DEFINE here == Append(Below, Call("final", c))
  <1>4. here \in Seq(Entries) /\ Waits(here)
    BY <1>3, WaitingCall, CallFields DEF Calls
  <1>5. /\ result' = [result EXCEPT ![c] = c]
        /\ UNCHANGED <<caller_coro, completion_handler, awaited, result_, got, outstanding, queue>>
    BY DEF Finish
  <1>6. CASE caller_coro[c] # NoCoro
    <2> DEFINE caller == caller_coro[c]
    <2>1. /\ caller \in Coros /\ c # Root /\ awaited[caller] = c
          /\ frame[caller] = "suspended" /\ caller # c
      BY <1>1, <1>2, <1>6, CoroTaskAssumption DEF TypeOK, Owned
    <2>2. /\ stack' = Append(here, Call("resumed", caller)) /\ process' = process
          /\ frame' = [frame EXCEPT ![c] = "final", ![caller] = "running"]
      BY <1>6, <2>1 DEF Finish, Resume
    <2> HIDE DEF here, caller
    <2>3. /\ stack' \in Seq(Entries) /\ Layers'
          /\ \A at \in Calls, x \in Coros : OnTop(at, x)' <=> Call("resumed", caller) = Call(at, x)
      <3>1. Call("resumed", caller) \in Entries
        BY <2>1, CallFields DEF Calls
      <3> QED BY <3>1, <1>4, <2>2, Pushed
    <2>4. \A x \in Coros : /\ OnTop("resumed", x)' <=> x = caller
                           /\ ~OnTop("body", x)' /\ ~OnTop("completion", x)'
      BY <2>1, <2>3, CallFields DEF Calls
    <2>5. TypeOK'
      BY CoroTaskAssumption, <1>1, <1>2, <1>5, <2>1, <2>2, <2>3, <2>4 DEF TypeOK, Entries
    <2>6. Running'
      <3>1. /\ frame'[caller] = "running" /\ \A x \in Coros : x # caller => frame'[x] # "running"
            /\ frame'[c] = "final" /\ awaited'[caller] = c /\ c # NoCoro
        BY <1>1, <1>2, <1>5, <2>1, <2>2, CoroTaskAssumption DEF TypeOK
      <3> QED BY <3>1, <2>1, <2>4 DEF Running
    <2>7. Owned'
      <3>1. /\ frame'[caller] = "running" /\ frame'[c] = "final"
            /\ \A x \in Coros : x # c /\ x # caller => frame'[x] = frame[x]
            /\ result'[c] = c /\ \A x \in Coros : x # c => result'[x] = result[x]
            /\ awaited' = awaited /\ caller_coro' = caller_coro /\ c # NoCoro
        BY <1>1, <1>5, <2>1, <2>2, CoroTaskAssumption DEF TypeOK
      <3>2. ASSUME NEW x \in Coros, awaited[x] # NoCoro
            PROVE  /\ awaited[x] # Root /\ caller_coro[awaited[x]] = x
                   /\ \/ frame'[x] = "suspended" /\ frame'[awaited[x]] \in {"running", "suspended"}
                      \/ frame'[x] = "running" /\ frame'[awaited[x]] = "final"
        <4>1. /\ awaited[x] # Root /\ caller_coro[awaited[x]] = x /\ awaited[x] \in Coros
              /\ \/ frame[x] = "suspended" /\ frame[awaited[x]] \in {"running", "suspended"}
                 \/ frame[x] = "running" /\ frame[awaited[x]] = "final"
          BY <1>1, <3>2 DEF TypeOK, Owned
        <4>2. CASE x = caller
          BY <4>1, <4>2, <3>1, <2>1
        <4>3. CASE x # caller
          <5>1. x # c /\ awaited[x] # c
            BY <4>1, <4>3, <1>2, <3>2 DEF caller
          <5>2. frame'[x] = frame[x] /\ frame[x] = "suspended"
            BY <4>1, <4>3, <5>1, <3>1, <1>2
          <5>3. frame'[awaited[x]] \in {"running", "suspended"}
            BY <4>1, <5>1, <5>2, <3>1
          <5> QED BY <4>1, <5>2, <5>3
        <4> QED BY <4>2, <4>3
      <3>3. ASSUME NEW x \in Coros
            PROVE  /\ frame'[x] = "created" => x = Root
                   /\ frame'[x] = "final" => result'[x] = x
                   /\ frame'[x] \in {"running", "suspended", "final"} =>
                          frame[x] \in {"running", "suspended", "final"}
        BY <3>1, <1>1, <1>2, <2>1 DEF Owned
      <3>4. frame'[Root] # "none"
        BY <3>1, <1>1, CoroTaskAssumption DEF Owned
      <3> QED BY <3>1, <3>2, <3>3, <3>4, <1>1 DEF Owned
    <2>8. Operations'
      <3>1. \A x \in Coros : x # c /\ x # caller => frame'[x] = frame[x]
        BY <1>1, <2>2 DEF TypeOK
      <3>2. \A x \in Coros : frame[x] = "suspended" /\ awaited[x] = NoCoro => x # c /\ x # caller
        BY <1>2, <2>1, CoroTaskAssumption
      <3>3. outstanding \subseteq Coros /\ \A i \in 1 .. Len(queue) : queue[i] \in Coros
        BY <1>1 DEF TypeOK
      <3> QED BY <3>1, <3>2, <3>3, <1>1, <1>5 DEF Operations
    <2> QED BY <1>1, <1>2, <1>5, <2>1, <2>2, <2>3, <2>4, <2>5, <2>6, <2>7, <2>8 DEF IInv, NothingUndefined
  <1>7. CASE caller_coro[c] = NoCoro
    <2>1. /\ stack' = IF completion_handler THEN Append(here, Call("completion", c)) ELSE Below
          /\ frame' = [frame EXCEPT ![c] = "final"] /\ process' = process
      BY <1>7 DEF Finish
    <2>2. c = Root
      BY <1>1, <1>2, <1>7, CoroTaskAssumption DEF Owned
    <2> HIDE DEF here
    <2>3. /\ stack' \in Seq(Entries) /\ Layers'
          /\ \A x \in Coros : /\ ~OnTop("resumed", x)' /\ ~OnTop("body", x)'
                              /\ OnTop("completion", x)' => x = c
      <3>1. CASE completion_handler
        <4>1. /\ stack' \in Seq(Entries) /\ Layers'
              /\ \A at \in Calls, x \in Coros : OnTop(at, x)' <=> Call("completion", c) = Call(at, x)
          BY SMTT(40), <1>4, <2>1, <3>1, Pushed, CallFields DEF Calls
        <4> QED BY <4>1, CallFields DEF Calls
      <3>2. CASE ~completion_handler
        BY <1>3, <2>1, <3>2, Popped
      <3> QED BY <3>1, <3>2
    <2>4. TypeOK'
      BY CoroTaskAssumption, <1>1, <1>2, <1>5, <2>1, <2>2, <2>3 DEF TypeOK, Entries
    <2>5. Running'
      BY <1>1, <1>2, <1>5, <2>1, <2>2, <2>3 DEF TypeOK, Running, Owned
    <2>6. Owned'
      BY CoroTaskAssumption, <1>1, <1>2, <1>5, <2>1, <2>2, <2>3 DEF TypeOK, Owned
    <2>7. Operations'
      BY CoroTaskAssumption, <1>1, <1>2, <1>5, <2>1, <2>2, <2>3 DEF TypeOK, Operations
    <2> QED BY <1>1, <1>2, <1>5, <2>1, <2>2, <2>3, <2>4, <2>5, <2>6, <2>7 DEF IInv, NothingUndefined
  <1> QED BY <1>6, <1>7

\* An exception that leaves a body ends the process, and nothing else.
LEMMA ThrowStep ==
  ASSUME IInv, NEW c \in Coros, Throw(c)
  PROVE  IInv'
  <1>1. TypeOK /\ NothingUndefined /\ Layers /\ Running /\ Owned /\ Operations
    BY DEF IInv
  <1>2. process' = "terminated" /\ UNCHANGED <<frameVars, stack, outstanding, queue>>
    BY DEF Throw
  <1> QED BY <1>1, <1>2
        DEF frameVars, IInv, TypeOK, NothingUndefined, Layers, Running, Owned, Operations, OnTop

\* The task has ended and left its value; its frame is destroyed, and the caller's body
\* goes on.
LEMMA AwaitResumeTaskStep ==
  ASSUME IInv, NEW c \in Coros, AwaitResumeTask(c)
  PROVE  IInv'
  <1>1. TypeOK /\ NothingUndefined /\ Layers /\ Running /\ Owned /\ Operations
    BY DEF IInv
  <1>2. /\ frame[c] = "running" /\ awaited[c] # NoCoro /\ frame[awaited[c]] = "final"
        /\ \A x \in Coros : x # c => frame[x] # "running"
        /\ stack \in Seq(Entries) /\ stack # <<>>
    BY ResumedRuns DEF AwaitResumeTask
  <1>3. Below \in Seq(Entries) /\ Waits(Below)
    BY <1>1, <1>2, BelowStack
  <1> DEFINE d == awaited[c]
  <1>4. d \in Coros /\ d # Root /\ d # c /\ result[d] = d /\ caller_coro[d] = c
    BY <1>1, <1>2 DEF TypeOK, Owned
  <1>5. /\ got' = [got EXCEPT ![c] = Append(@, result[d])]
        /\ frame' = [frame EXCEPT ![d] = "destroyed"]
        /\ awaited' = [awaited EXCEPT ![c] = NoCoro]
        /\ stack' = Append(Below, Call("body", c))
        /\ UNCHANGED <<caller_coro, completion_handler, result, result_, outstanding, queue, process>>
    BY <1>2, <1>4, CoroTaskAssumption DEF AwaitResumeTask
  <1>6. awaited[c] = d /\ frame[d] = "final"
    BY <1>2
  <1> HIDE DEF d
  <1>7. /\ stack' \in Seq(Entries) /\ Layers'
        /\ \A at \in Calls, x \in Coros : OnTop(at, x)' <=> Call("body", c) = Call(at, x)
    BY <1>3, <1>5, Pushed, CallFields DEF Calls
  <1>8. \A x \in Coros : (OnTop("body", x)' <=> x = c) /\ ~OnTop("resumed", x)'
                         /\ ~OnTop("completion", x)'
    BY <1>7, CallFields DEF Calls
  <1>9. TypeOK'
    BY CoroTaskAssumption, <1>1, <1>2, <1>4, <1>5, <1>6, <1>7, <1>8 DEF TypeOK, Entries
  <1>10. Running'
    BY <1>1, <1>2, <1>4, <1>5, <1>6, <1>7, <1>8 DEF TypeOK, Running, Owned
  <1>11. Owned'
    BY CoroTaskAssumption, <1>1, <1>2, <1>4, <1>5, <1>6, <1>7, <1>8 DEF TypeOK, Owned
  <1>12. Operations'
    BY SMTT(40), CoroTaskAssumption, <1>1, <1>2, <1>4, <1>5, <1>6, <1>7, <1>8 DEF TypeOK, Operations
  <1> QED BY <1>1, <1>2, <1>4, <1>5, <1>6, <1>7, <1>8, <1>9, <1>10, <1>11, <1>12 DEF IInv, NothingUndefined

\* Only the root's frame can be destroyed by the handler.
LEMMA RunCompletionHandlerStep ==
  ASSUME IInv, NEW c \in Coros, RunCompletionHandler(c)
  PROVE  IInv'
  <1>1. TypeOK /\ NothingUndefined /\ Layers /\ Running /\ Owned /\ Operations
    BY DEF IInv
  <1>2. /\ stack' = Below /\ frame' \in {frame, [frame EXCEPT ![c] = "destroyed"]}
        /\ UNCHANGED <<caller_coro, completion_handler, result, awaited, result_, got,
                       outstanding, queue, process>>
        /\ OnTop("completion", c) /\ stack # <<>>
    BY DEF RunCompletionHandler, Current, OnTop
  <1>3. c = Root /\ frame[Root] = "final" /\ stack \in Seq(Entries)
    BY <1>1, <1>2 DEF Running, TypeOK, Entries
  <1>4. Below \in Seq(Entries) /\ Waits(Below)
    BY <1>1, <1>2, <1>3, BelowStack
  <1>5. \A x \in Coros : frame[x] # "running"
    BY <1>2, CallFields, NobodyRuns DEF OnTop
  <1>6. /\ stack' \in Seq(Entries) /\ Layers'
        /\ \A at \in {"body", "resumed", "completion"}, x \in Coros : ~OnTop(at, x)'
    BY <1>2, <1>4, Popped
  <1>7. TypeOK'
    BY CoroTaskAssumption, <1>1, <1>2, <1>3, <1>5, <1>6 DEF TypeOK, Entries
  <1>8. Running'
    BY <1>1, <1>2, <1>3, <1>5, <1>6 DEF TypeOK, Running, Owned
  <1>9. Owned'
    BY CoroTaskAssumption, <1>1, <1>2, <1>3, <1>5, <1>6 DEF TypeOK, Owned
  <1>10. Operations'
    BY CoroTaskAssumption, <1>1, <1>2, <1>3, <1>5, <1>6 DEF TypeOK, Operations
  <1> QED BY <1>1, <1>2, <1>3, <1>5, <1>6, <1>7, <1>8, <1>9, <1>10 DEF IInv, NothingUndefined

\* So it is when its owner destroys it.
LEMMA DestroyTaskStep ==
  ASSUME IInv, DestroyTask
  PROVE  IInv'
  <1>1. TypeOK /\ NothingUndefined /\ Layers /\ Running /\ Owned /\ Operations
    BY DEF IInv
  <1>2. /\ stack = <<>> /\ frame[Root] \in {"created", "final"}
        /\ frame' = [frame EXCEPT ![Root] = "destroyed"]
        /\ UNCHANGED <<caller_coro, completion_handler, result, awaited, result_, got,
                       stack, outstanding, queue, process>>
    BY DEF DestroyTask, threadVars
  <1>3. Root \in Coros /\ stack' \in Seq(Entries) /\ Layers'
    BY <1>1, <1>2, CoroTaskAssumption DEF TypeOK, Entries, Layers
  <1>4. \A x \in Coros : ~OnTop("body", x)' /\ ~OnTop("resumed", x)' /\ ~OnTop("completion", x)'
    BY <1>2 DEF OnTop
  <1>5. \A x \in Coros : frame[x] # "running"
    BY <1>2, NobodyRuns DEF OnTop
  <1>6. TypeOK'
    BY CoroTaskAssumption, <1>1, <1>2, <1>3, <1>4, <1>5 DEF TypeOK, Entries
  <1>7. Running'
    BY <1>1, <1>2, <1>3, <1>4, <1>5 DEF TypeOK, Running, Owned
  <1>8. Owned'
    BY CoroTaskAssumption, <1>1, <1>2, <1>3, <1>4, <1>5 DEF TypeOK, Owned
  <1>9. Operations'
    BY CoroTaskAssumption, <1>1, <1>2, <1>3, <1>4, <1>5 DEF TypeOK, Operations
  <1> QED BY <1>1, <1>2, <1>3, <1>4, <1>5, <1>6, <1>7, <1>8, <1>9 DEF IInv, NothingUndefined

\* The operation of a coroutine that gives up control is the only one it has.
LEMMA AwaitOperationStep ==
  ASSUME IInv, NEW c \in Coros, AwaitOperation(c)
  PROVE  IInv'
  <1>1. TypeOK /\ NothingUndefined /\ Layers /\ Running /\ Owned /\ Operations
    BY DEF IInv
  <1>2. /\ frame' = [frame EXCEPT ![c] = "suspended"]
        /\ outstanding' = outstanding \cup {c}
        /\ result_' = [result_ EXCEPT ![c] = FALSE] /\ stack' = Below
        /\ UNCHANGED <<caller_coro, completion_handler, result, awaited, got, queue, process>>
    BY DEF AwaitOperation
  <1>3. /\ frame[c] = "running" /\ awaited[c] = NoCoro
        /\ \A x \in Coros : x # c => frame[x] # "running"
        /\ stack \in Seq(Entries) /\ stack # <<>>
    BY BodyRuns DEF AwaitOperation
  <1>4. Below \in Seq(Entries) /\ Waits(Below)
    BY <1>1, <1>3, BelowStack
  <1>5. /\ stack' \in Seq(Entries) /\ Layers'
        /\ \A at \in {"body", "resumed", "completion"}, x \in Coros : ~OnTop(at, x)'
    BY <1>2, <1>4, Popped
  <1>6. TypeOK'
    BY CoroTaskAssumption, <1>1, <1>2, <1>3, <1>5 DEF TypeOK, Entries
  <1>7. Running'
    BY <1>1, <1>2, <1>3, <1>5 DEF TypeOK, Running, Owned
  <1>8. Owned'
    BY CoroTaskAssumption, <1>1, <1>2, <1>3, <1>5 DEF TypeOK, Owned
  <1>9. Operations'
    BY CoroTaskAssumption, <1>1, <1>2, <1>3, <1>5 DEF TypeOK, Operations
  <1> QED BY <1>1, <1>2, <1>3, <1>5, <1>6, <1>7, <1>8, <1>9 DEF IInv, NothingUndefined

\* The handler takes the place of the operation.
LEMMA OperationDoneStep ==
  ASSUME IInv, NEW c \in Coros, OperationDone(c)
  PROVE  IInv'
  <1>1. TypeOK /\ NothingUndefined /\ Layers /\ Running /\ Owned /\ Operations
    BY DEF IInv
  <1>2. /\ c \in outstanding /\ outstanding' = outstanding \ {c} /\ queue' = Append(queue, c)
        /\ UNCHANGED <<frame, caller_coro, completion_handler, result, awaited, result_, got,
                       stack, process>>
    BY DEF OperationDone, frameVars
  <1>3. Layers' /\ Running' /\ Owned'
    BY <1>1, <1>2 DEF Layers, Running, Owned, OnTop
  <1>4. TypeOK'
    BY <1>1, <1>2 DEF TypeOK
  <1>5. /\ Len(queue') = Len(queue) + 1 /\ queue'[Len(queue) + 1] = c
        /\ \A i \in 1 .. Len(queue) : queue'[i] = queue[i] /\ queue[i] \in Coros
        /\ Len(queue) \in Nat
    BY <1>1, <1>2 DEF TypeOK
  <1>6. frame[c] = "suspended" /\ awaited[c] = NoCoro /\ \A i \in 1 .. Len(queue) : queue[i] # c
    BY <1>1, <1>2 DEF Operations
  <1>7. Operations'
    BY <1>1, <1>2, <1>5, <1>6 DEF Operations
  <1> QED BY <1>1, <1>2, <1>3, <1>4, <1>7 DEF IInv, NothingUndefined

\* The handler resumes its coroutine, which is suspended, and holds the result
\* meanwhile.
LEMMA RunHandlerStep ==
  ASSUME IInv, RunHandler
  PROVE  IInv'
  <1>1. TypeOK /\ NothingUndefined /\ Layers /\ Running /\ Owned /\ Operations
    BY DEF IInv
  <1> DEFINE c == Head(queue)
  <1>2. /\ c \in Coros /\ c = queue[1] /\ Len(queue) \in Nat /\ Len(queue) > 0
        /\ queue' = Tail(queue) /\ Len(queue') = Len(queue) - 1
        /\ \A i \in 1 .. Len(queue') : queue'[i] = queue[i + 1]
        /\ queue' \in Seq(Coros)
    BY <1>1 DEF RunHandler, TypeOK
  <1>3. frame[c] = "suspended" /\ awaited[c] = NoCoro /\ c \notin outstanding
    BY <1>1, <1>2 DEF Operations
  <1>4. /\ frame' = [frame EXCEPT ![c] = "running"] /\ result_' = [result_ EXCEPT ![c] = TRUE]
        /\ stack = <<>> /\ stack' = Append(<<Call("handler", c)>>, Call("resumed", c))
        /\ UNCHANGED <<caller_coro, completion_handler, result, awaited, got, outstanding, process>>
    BY <1>3 DEF RunHandler, Resume
  <1> HIDE DEF c
  <1>5. <<Call("handler", c)>> \in Seq(Entries) /\ Waits(<<Call("handler", c)>>)
    BY <1>2, CallFields DEF Waits, Calls
  <1>6. /\ stack' \in Seq(Entries) /\ Layers'
        /\ \A at \in Calls, x \in Coros : OnTop(at, x)' <=> Call("resumed", c) = Call(at, x)
        /\ 1 \in 1 .. Len(stack') /\ stack'[1] = Call("handler", c)
    <2>1. Call("resumed", c) \in Entries
      BY <1>2, CallFields DEF Calls
    <2>2. 1 \in 1 .. Len(<<Call("handler", c)>>) /\ <<Call("handler", c)>>[1] = Call("handler", c)
      OBVIOUS
    <2> QED BY <2>1, <2>2, <1>4, <1>5, Pushed
  <1>7. \A x \in Coros : (OnTop("resumed", x)' <=> x = c) /\ ~OnTop("body", x)' /\ ~OnTop("completion", x)'
    BY <1>2, <1>6, CallFields DEF Calls
  <1>8. \A x \in Coros : frame[x] # "running"
    BY <1>4, NobodyRuns DEF OnTop
  <1>9. \A i \in 1 .. Len(queue') : i + 1 \in 1 .. Len(queue) /\ queue'[i] # c
    BY <1>1, <1>2 DEF Operations
  <1>10. TypeOK'
    BY CoroTaskAssumption, <1>1, <1>2, <1>3, <1>4, <1>6, <1>7, <1>8, <1>9 DEF TypeOK, Entries
  <1>11. Running'
    BY <1>1, <1>2, <1>3, <1>4, <1>6, <1>7, <1>8, <1>9 DEF TypeOK, Running, Owned
  <1>12. Owned'
    BY CoroTaskAssumption, <1>1, <1>2, <1>3, <1>4, <1>6, <1>7, <1>8, <1>9 DEF TypeOK, Owned
  <1>13. Operations'
    BY CoroTaskAssumption, <1>1, <1>2, <1>3, <1>4, <1>6, <1>7, <1>8, <1>9 DEF TypeOK, Operations
  <1> QED BY <1>1, <1>2, <1>3, <1>4, <1>6, <1>7, <1>8, <1>9, <1>10, <1>11, <1>12, <1>13 DEF IInv, NothingUndefined

\* The result is there, and the body goes on.
LEMMA AwaitResumeOperationStep ==
  ASSUME IInv, NEW c \in Coros, AwaitResumeOperation(c)
  PROVE  IInv'
  <1>1. TypeOK /\ NothingUndefined /\ Layers /\ Running /\ Owned /\ Operations
    BY DEF IInv
  <1>2. /\ frame[c] = "running" /\ awaited[c] = NoCoro
        /\ result_[c] /\ \E i \in 1 .. Len(stack) : stack[i] = Call("handler", c)
        /\ \A x \in Coros : x # c => frame[x] # "running"
        /\ stack \in Seq(Entries) /\ stack # <<>>
    BY ResumedRuns DEF AwaitResumeOperation
  <1>3. /\ got' = [got EXCEPT ![c] = Append(@, Op)] /\ stack' = Append(Below, Call("body", c))
        /\ UNCHANGED <<frame, caller_coro, completion_handler, result, awaited, result_,
                       outstanding, queue, process>>
    BY <1>2 DEF AwaitResumeOperation
  <1>4. Below \in Seq(Entries) /\ Waits(Below)
    BY <1>1, <1>2, BelowStack
  <1>5. /\ stack' \in Seq(Entries) /\ Layers'
        /\ \A at \in Calls, x \in Coros : OnTop(at, x)' <=> Call("body", c) = Call(at, x)
    BY <1>3, <1>4, Pushed, CallFields DEF Calls
  <1>6. \A x \in Coros : (OnTop("body", x)' <=> x = c) /\ ~OnTop("resumed", x)'
                         /\ ~OnTop("completion", x)'
    BY <1>5, CallFields DEF Calls
  <1>7. TypeOK'
    BY SMTT(40), CoroTaskAssumption, <1>1, <1>2, <1>3, <1>5, <1>6 DEF TypeOK, Entries
  <1>8. Running'
    BY <1>1, <1>2, <1>3, <1>5, <1>6 DEF TypeOK, Running, Owned
  <1>9. Owned'
    BY CoroTaskAssumption, <1>1, <1>2, <1>3, <1>5, <1>6 DEF TypeOK, Owned
  <1>10. Operations'
    BY CoroTaskAssumption, <1>1, <1>2, <1>3, <1>5, <1>6 DEF TypeOK, Operations
  <1> QED BY <1>1, <1>2, <1>3, <1>5, <1>6, <1>7, <1>8, <1>9, <1>10 DEF IInv, NothingUndefined

\* A call that only waited returns; no coroutine ran, and none runs.
LEMMA UnwindStep ==
  ASSUME IInv, Unwind
  PROVE  IInv'
  <1>1. TypeOK /\ NothingUndefined /\ Layers /\ Running /\ Owned /\ Operations
    BY DEF IInv
  <1>2. /\ stack # <<>> /\ stack[Len(stack)].at \in {"start", "await", "final", "handler"}
        /\ stack' = Below
        /\ UNCHANGED <<frame, caller_coro, completion_handler, result, awaited, result_, got,
                       outstanding, queue, process>>
    BY DEF Unwind, frameVars
  <1>3. stack \in Seq(Entries)
    BY <1>1 DEF TypeOK, Entries
  <1>4. Below \in Seq(Entries) /\ Waits(Below)
    BY <1>1, <1>2, <1>3, BelowStack
  <1>5. \A x \in Coros : frame[x] # "running"
    BY <1>2, CallFields, NobodyRuns DEF OnTop, Calls
  <1>6. /\ stack' \in Seq(Entries) /\ Layers'
        /\ \A at \in {"body", "resumed", "completion"}, x \in Coros : ~OnTop(at, x)'
    BY <1>2, <1>4, Popped
  <1>7. TypeOK'
    BY CoroTaskAssumption, <1>1, <1>2, <1>5, <1>6 DEF TypeOK, Entries
  <1>8. Running'
    BY <1>1, <1>2, <1>5, <1>6 DEF TypeOK, Running, Owned
  <1>9. Owned'
    BY CoroTaskAssumption, <1>1, <1>2, <1>5, <1>6 DEF TypeOK, Owned
  <1>10. Operations'
    BY CoroTaskAssumption, <1>1, <1>2, <1>5, <1>6 DEF TypeOK, Operations
  <1> QED BY <1>1, <1>2, <1>5, <1>6, <1>7, <1>8, <1>9, <1>10 DEF IInv, NothingUndefined

-----------------------------------------------------------------------------
(* The theorems.                                                            *)

\* IInv holds in every reachable state.
THEOREM Invariance == Spec => []IInv
  <1>1. IInv /\ [Next]_vars => IInv'
    <2> SUFFICES ASSUME IInv, [Next]_vars PROVE IInv'
      OBVIOUS
    <2>1. CASE UNCHANGED vars
      BY <2>1 DEF vars, frameVars, threadVars, IInv, TypeOK, NothingUndefined, Layers, Running,
                  Owned, Operations, OnTop
    <2> QED
      BY <2>1, StartStep, AwaitOperationStep, FinishStep, ThrowStep, AwaitResumeTaskStep,
         AwaitResumeOperationStep, RunCompletionHandlerStep, AwaitTaskStep, RunHandlerStep,
         UnwindStep, OperationDoneStep, DestroyTaskStep DEF Next, Thread
  <1> QED BY InitIInv, <1>1, PTL DEF Spec

\* The variables have their types.
THEOREM TypeCorrect == Spec => []TypeOK
  <1>1. IInv => TypeOK
    BY DEF IInv
  <1> QED BY <1>1, Invariance, PTL

\* No coroutine is resumed that is not suspended, no value is read that is not there,
\* and no frame or handler's local is used after its end.
THEOREM NothingUndefinedProved == Spec => []NothingUndefined
  <1>1. IInv => NothingUndefined
    BY DEF IInv
  <1> QED BY <1>1, Invariance, PTL

\* Frames are nested: each but the root's is owned by one co_await of a live coroutine.
THEOREM FramesNestedProved == Spec => []FramesNested
  <1>1. IInv => FramesNested
    <2> SUFFICES ASSUME IInv PROVE FramesNested
      OBVIOUS
    <2>1. TypeOK /\ Owned /\ Operations
      BY DEF IInv
    <2>2. ASSUME NEW c \in Coros \ {Root}, Alive(c)
          PROVE  \E d \in Coros : Unfinished(d) /\ awaited[d] = c
                                  /\ \A e \in Coros \ {d} : awaited[e] # c
      <3>1. frame[c] \in {"running", "suspended", "final"}
        BY <2>1, <2>2 DEF TypeOK, Owned, Alive
      <3>2. caller_coro[c] \in Coros /\ awaited[caller_coro[c]] = c /\ c # NoCoro
        BY <3>1, <2>1, CoroTaskAssumption DEF Owned
      <3>3. Unfinished(caller_coro[c])
        BY <3>2, <2>1 DEF Owned, Unfinished
      <3>4. \A e \in Coros : awaited[e] = c => e = caller_coro[c]
        BY <3>2, <2>1 DEF Owned
      <3> QED BY <3>2, <3>3, <3>4
    <2>3. ASSUME NEW c \in Coros, frame[c] \in {"none", "created", "final", "destroyed"}
          PROVE  c \notin outstanding /\ \A i \in 1 .. Len(queue) : queue[i] # c
      BY <2>1, <2>3 DEF Operations
    <2> QED BY <2>2, <2>3 DEF FramesNested
  <1> QED BY <1>1, Invariance, PTL
-----------------------------------------------------------------------------
(* The refinement: co_await is a call.                                      *)

\* At most one coroutine in progress awaits no task, and one does while the root
\* has not ended.
OneActive ==
    /\ \A c, d \in Active : c = d
    /\ \A c \in Active : Unfinished(Root)
    /\ Unfinished(Root) => Active # {}

InOperation(c) == c \in outstanding \/ \E i \in 1 .. Len(queue) : queue[i] = c

\* Who waits for an operation is suspended, or is the current call with the result.
WaitersKnown ==
    /\ \A c \in Coros : InOperation(c) => frame[c] = "suspended" /\ awaited[c] = NoCoro
    /\ Waiting <=> \E c \in Coros : \/ InOperation(c)
                                    \/ awaited[c] = NoCoro /\ OnTop("resumed", c)

\* A "resumed" call is the current one.
LEMMA Waiters == IInv => WaitersKnown
  <1> SUFFICES ASSUME IInv PROVE WaitersKnown
    OBVIOUS
  <1>1. TypeOK /\ Layers /\ Operations
    BY DEF IInv
  <1>2. \A c \in Coros : InOperation(c) => frame[c] = "suspended" /\ awaited[c] = NoCoro
    BY <1>1 DEF Operations, InOperation
  <1>3. \A c \in Coros : (\E i \in 1 .. Len(stack) : stack[i] = Call("resumed", c))
                            <=> OnTop("resumed", c)
    <2>1. stack \in Seq(Entries) /\ Len(stack) \in Nat
      BY <1>1 DEF TypeOK, Entries
    <2>2. ASSUME NEW c \in Coros, NEW i \in 1 .. Len(stack), stack[i] = Call("resumed", c)
          PROVE  OnTop("resumed", c)
      <3>1. stack[i].at = "resumed"
        BY <2>2, CallFields DEF Calls
      <3>2. i = Len(stack)
        BY <3>1, <2>1, <1>1 DEF Layers
      <3> QED BY <3>2, <2>1, <2>2 DEF OnTop
    <2>3. ASSUME NEW c \in Coros, OnTop("resumed", c)
          PROVE  \E i \in 1 .. Len(stack) : stack[i] = Call("resumed", c)
      <3>1. Len(stack) \in 1 .. Len(stack)
        BY <2>1, <2>3 DEF OnTop
      <3> QED BY <3>1, <2>3 DEF OnTop
    <2> QED BY <2>2, <2>3
  <1> QED BY <1>2, <1>3 DEF WaitersKnown, Waiting, WaitsForOperation, InOperation

\* The same of the next state.
LEMMA WaitersNext == IInv' => WaitersKnown'
  BY Waiters, PTL

\* A step that changes none of what the mapping shows.
LEMMA Stutter ==
  ASSUME UNCHANGED <<Active, Callers, Waiting, got, process>>, OneActive, Unfinished(Root)' <=> Unfinished(Root)
  PROVE  OneActive' /\ [Program!Next]_(Program!vars)
  BY DEF OneActive, Program!vars

\* The root is called by nobody, and nobody is in progress before.
LEMMA StartRefines ==
  ASSUME IInv, IInv', OneActive, start
  PROVE  OneActive' /\ [Program!Next]_(Program!vars)
  <1>1. /\ frame[Root] = "created" /\ frame' = [frame EXCEPT ![Root] = "running"]
        /\ stack = <<>> /\ stack' = Append(<<Call("start", Root)>>, Call("body", Root))
        /\ UNCHANGED <<caller_coro, awaited, got, outstanding, queue, process>>
        /\ process = "up" /\ Root \in Coros
    BY CoroTaskAssumption DEF start, Resume, Up
  <1>2. TypeOK /\ Owned /\ WaitersKnown /\ WaitersKnown'
    BY Waiters, WaitersNext DEF IInv
  <1>3. Active = {} /\ awaited[Root] = NoCoro
    BY ZenonT(60), <1>1, <1>2 DEF OneActive, Unfinished, Owned, TypeOK
  <1>4. Active' = {Root}
    BY <1>1, <1>2, <1>3 DEF Active, InProgress, Unfinished, TypeOK
  <1>5. Callers' = Callers
    BY <1>1, <1>2 DEF Callers, Alive, TypeOK, Owned
  <1>6. \A c \in Coros : ~OnTop("resumed", c) /\ ~OnTop("resumed", c)'
    BY <1>1, CallFields DEF OnTop, Calls
  <1>7. Waiting' <=> Waiting
    BY <1>1, <1>2, <1>6 DEF WaitersKnown, InOperation
  <1>8. Program!Start
    BY <1>1, <1>3, <1>4, <1>5, <1>7 DEF Program!Start
  <1>9. Unfinished(Root)'
    BY <1>1, <1>2 DEF Unfinished, TypeOK
  <1>10. OneActive'
    BY <1>4, <1>9 DEF OneActive
  <1> QED BY <1>8, <1>10 DEF Program!Next

\* The coroutine whose body is the current call is the one that acts.
LEMMA BodyActs ==
  ASSUME IInv, OneActive, NEW c \in Coros, Current("body", c)
  PROVE  /\ Active = {c} /\ Unfinished(Root) /\ ~Waiting /\ process = "up"
         /\ \A x \in Coros : ~InOperation(x) /\ ~OnTop("resumed", x)
         /\ Program!Acts(c)
  <1>1. frame[c] = "running" /\ awaited[c] = NoCoro
    BY BodyRuns
  <1>2. c \in Active
    BY <1>1 DEF Active, InProgress, Unfinished
  <1>3. Active = {c} /\ Unfinished(Root)
    BY <1>2 DEF OneActive
  <1>4. \A x \in Coros : ~OnTop("resumed", x)
    BY CallFields DEF Current, OnTop
  <1>5. \A x \in Coros : ~InOperation(x)
    <2>1. ASSUME NEW x \in Coros, InOperation(x) PROVE FALSE
      <3>1. frame[x] = "suspended" /\ awaited[x] = NoCoro
        BY <2>1, Waiters DEF WaitersKnown
      <3>2. x \in Active
        BY <3>1 DEF Active, InProgress, Unfinished
      <3> QED BY <3>1, <3>2, <1>1, <1>3
    <2> QED BY <2>1
  <1>6. ~Waiting
    BY <1>4, <1>5, Waiters DEF WaitersKnown
  <1> QED BY <1>3, <1>4, <1>5, <1>6 DEF Program!Acts, Current, Up

\* The callee acts in the place of its caller.
LEMMA AwaitTaskRefines ==
  ASSUME IInv, IInv', OneActive, NEW c \in Coros, NEW d \in Coros, AwaitTask(c, d)
  PROVE  OneActive' /\ [Program!Next]_(Program!vars)
  <1>1. /\ Active = {c} /\ Unfinished(Root) /\ ~Waiting /\ Program!Acts(c)
        /\ \A x \in Coros : ~InOperation(x)
    BY BodyActs DEF AwaitTask
  <1>2. frame[c] = "running" /\ stack \in Seq(Entries) /\ stack # <<>>
    BY BodyRuns DEF AwaitTask
  <1>3. /\ frame[d] = "none" /\ frame' = [frame EXCEPT ![c] = "suspended", ![d] = "running"]
        /\ caller_coro' = [caller_coro EXCEPT ![d] = c]
        /\ awaited' = [awaited EXCEPT ![c] = d]
        /\ stack' = Below \o <<Call("await", c), Call("body", d)>>
        /\ UNCHANGED <<got, outstanding, queue, process>>
    BY DEF AwaitTask
  <1>4. TypeOK /\ Owned /\ Layers /\ WaitersKnown'
    BY WaitersNext DEF IInv
  <1>5. c # d /\ d # Root /\ d # NoCoro /\ awaited[d] = NoCoro
    <2>1. c # d /\ d # Root /\ d # NoCoro
      BY <1>2, <1>3, <1>4, CoroTaskAssumption DEF Owned
    <2>2. awaited[d] = NoCoro
      BY <1>3, <1>4 DEF Owned
    <2> QED BY <2>1, <2>2
  <1>6. /\ frame'[c] = "suspended" /\ frame'[d] = "running"
        /\ awaited'[c] = d /\ awaited'[d] = NoCoro
        /\ \A x \in Coros : x # c /\ x # d => frame'[x] = frame[x] /\ awaited'[x] = awaited[x]
    BY <1>3, <1>4, <1>5 DEF TypeOK
  <1>7. Active' = {d}
    BY <1>1, <1>5, <1>6 DEF Active, InProgress, Unfinished
  <1>8. Callers' = [Callers EXCEPT ![d] = c] /\ Callers[d] = NoCoro
    <2>1. Callers[d] = NoCoro
      BY <1>3 DEF Callers, Alive
    <2>2. \A x \in Coros : Callers'[x] = IF x = d THEN c ELSE Callers[x]
      BY <1>2, <1>3, <1>4, <1>5, <1>6 DEF Callers, Alive, TypeOK
    <2> QED BY <2>1, <2>2 DEF Callers
  <1>9. ~Waiting'
    <2>1. \A x \in Coros : ~OnTop("resumed", x)'
      <3>1. /\ Len(stack') = Len(Below) + 2 /\ stack'[Len(Below) + 2] = Call("body", d)
        <4>1. Below \in Seq(Entries)
          BY <1>2, <1>4, BelowStack
        <4> QED BY <4>1, <1>3, CallFields DEF Calls
      <3> QED BY <3>1, CallFields DEF OnTop
    <2>2. \A x \in Coros : ~InOperation(x)'
      BY <1>1, <1>3 DEF InOperation
    <2> QED BY <2>1, <2>2, <1>4 DEF WaitersKnown
  <1>10. Program!Call(c, d)
    <2>1. Waiting' <=> Waiting
      BY <1>1, <1>9
    <2> QED BY <2>1, <1>1, <1>3, <1>5, <1>7, <1>8 DEF Program!Call
  <1>11. OneActive'
    BY <1>1, <1>5, <1>6, <1>7, CoroTaskAssumption DEF OneActive, Unfinished
  <1> QED BY <1>10, <1>11 DEF Program!Next

\* A task that ends still acts, until its caller takes the value; the root is done.
LEMMA FinishRefines ==
  ASSUME IInv, IInv', OneActive, NEW c \in Coros, Finish(c)
  PROVE  OneActive' /\ [Program!Next]_(Program!vars)
  <1>1. /\ Active = {c} /\ Unfinished(Root) /\ ~Waiting /\ Program!Acts(c)
        /\ \A x \in Coros : ~InOperation(x)
    BY BodyActs DEF Finish
  <1>2. /\ frame[c] = "running" /\ awaited[c] = NoCoro /\ stack \in Seq(Entries)
        /\ \A x \in Coros : x # c => frame[x] # "running"
    BY BodyRuns DEF Finish
  <1>3. UNCHANGED <<caller_coro, awaited, got, outstanding, queue>>
    BY DEF Finish
  <1>4. TypeOK /\ Owned /\ WaitersKnown' /\ Running' /\ Root \in Coros
    BY WaitersNext, CoroTaskAssumption DEF IInv
  <1>5. CASE caller_coro[c] # NoCoro
    <2> DEFINE caller == caller_coro[c]
    <2>1. /\ caller \in Coros /\ c # Root /\ awaited[caller] = c
          /\ frame[caller] = "suspended" /\ caller # c /\ c # NoCoro
      BY <1>2, <1>4, <1>5, CoroTaskAssumption DEF TypeOK, Owned
    <2>2. /\ process' = process
          /\ frame' = [frame EXCEPT ![c] = "final", ![caller] = "running"]
      BY <1>5, <2>1 DEF Finish, Resume
    <2> HIDE DEF caller
    <2>3. /\ frame'[c] = "final" /\ frame'[caller] = "running"
          /\ \A x \in Coros : x # c /\ x # caller => frame'[x] = frame[x]
      BY <1>4, <2>1, <2>2 DEF TypeOK
    <2>4. Active' = Active
      BY <1>1, <1>2, <1>3, <2>1, <2>3 DEF Active, InProgress, Unfinished
    <2>5. Callers' = Callers
      BY <1>2, <1>3, <2>1, <2>3 DEF Callers, Alive
    <2>6. ~Waiting'
      <3>1. \A x \in Coros : ~InOperation(x)'
        BY <1>1, <1>3 DEF InOperation
      <3>2. \A x \in Coros : OnTop("resumed", x)' => x = caller
        BY <1>2, <1>4, <2>3 DEF Running
      <3> QED BY <3>1, <3>2, <1>3, <1>4, <2>1 DEF WaitersKnown
    <2>7. Unfinished(Root)' <=> Unfinished(Root)
      BY <1>1, <2>1, <2>3, <1>4 DEF Unfinished
    <2>8. Waiting' = Waiting
      <3>1. Waiting' <=> Waiting
        BY <1>1, <2>6
      <3> QED BY <3>1
    <2> QED BY <1>3, <2>2, <2>4, <2>5, <2>7, <2>8, Stutter
  <1>6. CASE caller_coro[c] = NoCoro
    <2>1. c = Root
      BY <1>2, <1>4, <1>6, CoroTaskAssumption DEF Owned
    <2>2. process' = process /\ frame' = [frame EXCEPT ![c] = "final"]
      BY <1>6 DEF Finish
    <2>3. frame'[c] = "final" /\ \A x \in Coros : x # c => frame'[x] = frame[x]
      BY <1>4, <2>2 DEF TypeOK
    <2>4. Active' = {}
      BY <1>1, <1>2, <1>3, <2>1, <2>3 DEF Active, InProgress, Unfinished
    <2>5. Callers' = Callers
      BY <1>2, <1>3, <2>3 DEF Callers, Alive
    <2>6. Waiting' <=> Waiting
      <3>1. \A x \in Coros : ~InOperation(x)'
        BY <1>1, <1>3 DEF InOperation
      <3>2. \A x \in Coros : ~OnTop("resumed", x)'
        BY <1>2, <1>4, <2>3 DEF Running
      <3> QED BY <3>1, <3>2, <1>1, <1>4 DEF WaitersKnown
    <2>7. Program!End
      BY <1>1, <1>3, <2>1, <2>2, <2>4, <2>5, <2>6 DEF Program!End
    <2>8. OneActive'
      BY <2>1, <2>3, <2>4 DEF OneActive, Unfinished
    <2> QED BY <2>7, <2>8 DEF Program!Next
  <1> QED BY <1>5, <1>6

\* Nothing acts any more.
LEMMA ThrowRefines ==
  ASSUME IInv, OneActive, NEW c \in Coros, Throw(c)
  PROVE  OneActive' /\ [Program!Next]_(Program!vars)
  <1>1. Program!Acts(c)
    BY BodyActs DEF Throw
  <1>2. /\ process' = "terminated" /\ UNCHANGED <<frame, caller_coro, awaited, got, stack, outstanding, queue>>
    BY DEF Throw, frameVars
  <1>3. Active' = Active /\ Callers' = Callers /\ Waiting' = Waiting /\ (Unfinished(Root)' <=> Unfinished(Root))
    BY <1>2 DEF Active, InProgress, Unfinished, Callers, Alive, Waiting, WaitsForOperation
  <1>4. Program!Throw(c)
    BY <1>1, <1>2, <1>3 DEF Program!Throw
  <1>5. OneActive'
    BY <1>3 DEF OneActive
  <1> QED BY <1>4, <1>5 DEF Program!Next

\* The caller takes the value, and acts again.
LEMMA AwaitResumeTaskRefines ==
  ASSUME IInv, IInv', OneActive, NEW c \in Coros, AwaitResumeTask(c)
  PROVE  OneActive' /\ [Program!Next]_(Program!vars)
  <1>1. /\ awaited[c] # NoCoro /\ frame[c] = "running" /\ frame[awaited[c]] = "final"
        /\ \A x \in Coros : x # c => frame[x] # "running"
        /\ process = "up" /\ OnTop("resumed", c)
    BY ResumedRuns DEF AwaitResumeTask, Current, Up, OnTop
  <1>2. TypeOK /\ Owned /\ WaitersKnown /\ WaitersKnown' /\ Running' /\ Root \in Coros
    BY Waiters, WaitersNext, CoroTaskAssumption DEF IInv
  <1> DEFINE d == awaited[c]
  <1>3. d \in Coros /\ d # Root /\ d # c /\ result[d] = d /\ caller_coro[d] = c /\ frame[d] = "final"
    BY <1>1, <1>2 DEF TypeOK, Owned
  <1>4. awaited[d] = NoCoro
    BY <1>1, <1>2, <1>3 DEF Owned, TypeOK
  <1>5. /\ got' = [got EXCEPT ![c] = Append(@, d)]
        /\ frame' = [frame EXCEPT ![d] = "destroyed"]
        /\ awaited' = [awaited EXCEPT ![c] = NoCoro]
        /\ UNCHANGED <<caller_coro, outstanding, queue, process>>
    BY <1>1, <1>3, CoroTaskAssumption DEF AwaitResumeTask
  <1>6. awaited[c] = d
    OBVIOUS
  <1> HIDE DEF d
  <1>7. Active = {d} /\ Unfinished(Root)
    <2>1. d \in Active
      BY <1>3, <1>4 DEF Active, InProgress
    <2> QED BY <2>1 DEF OneActive
  <1>8. \A x \in Coros : ~InOperation(x)
    <2>1. ASSUME NEW x \in Coros, InOperation(x) PROVE FALSE
      <3>1. frame[x] = "suspended" /\ awaited[x] = NoCoro
        BY <2>1, <1>2 DEF WaitersKnown
      <3>2. x \in Active
        BY <3>1 DEF Active, InProgress, Unfinished
      <3> QED BY <3>1, <3>2, <1>3, <1>7
    <2> QED BY <2>1
  <1>9. \A x \in Coros : OnTop("resumed", x) => x = c
    BY <1>1, CallFields DEF OnTop
  <1>10. ~Waiting
    BY <1>1, <1>2, <1>8, <1>9 DEF WaitersKnown
  <1>11. /\ frame'[d] = "destroyed" /\ frame'[c] = "running"
         /\ awaited'[c] = NoCoro
         /\ \A x \in Coros : x # d => frame'[x] = frame[x]
         /\ \A x \in Coros : x # c => awaited'[x] = awaited[x]
    BY <1>1, <1>2, <1>3, <1>5 DEF TypeOK
  <1>12. Active' = {c}
    BY <1>3, <1>7, <1>11 DEF Active, InProgress, Unfinished
  <1>13. Callers' = [Callers EXCEPT ![d] = NoCoro] /\ Callers[d] = c
    <2>1. Callers[d] = c
      BY <1>3 DEF Callers, Alive
    <2>2. \A x \in Coros : Callers'[x] = IF x = d THEN NoCoro ELSE Callers[x]
      BY <1>5, <1>11 DEF Callers, Alive
    <2> QED BY <2>1, <2>2 DEF Callers
  <1>14. ~Waiting'
    <2>1. \A x \in Coros : ~InOperation(x)'
      BY <1>5, <1>8 DEF InOperation
    <2>2. \A x \in Coros : ~OnTop("resumed", x)'
      <3>1. stack' = Append(Below, Call("body", c)) /\ stack \in Seq(Entries) /\ stack # <<>>
        BY <1>1, <1>3, <1>6, CoroTaskAssumption, ResumedRuns DEF AwaitResumeTask
      <3>2. Below \in Seq(Entries)
        BY <3>1, BelowStack DEF IInv
      <3>3. stack'[Len(stack')] = Call("body", c)
        BY <3>1, <3>2, CallFields DEF Calls
      <3> QED BY <3>3, CallFields DEF OnTop
    <2> QED BY <2>1, <2>2, <1>2 DEF WaitersKnown
  <1>15. Program!Return(c, d)
    <2>1. Waiting' <=> Waiting
      BY <1>10, <1>14
    <2>2. Program!Acts(d)
      BY <1>1, <1>7, <1>10 DEF Program!Acts
    <2> QED BY <2>1, <2>2, <1>5, <1>12, <1>13 DEF Program!Return
  <1>16. OneActive'
    BY <1>2, <1>3, <1>7, <1>11, <1>12 DEF OneActive, Unfinished
  <1> QED BY <1>3, <1>15, <1>16 DEF Program!Next

\* The end of the root's frame is of no concern to the program.
LEMMA DestroyRefines ==
  ASSUME IInv, IInv', OneActive,
         DestroyTask \/ \E c \in Coros : RunCompletionHandler(c)
  PROVE  OneActive' /\ [Program!Next]_(Program!vars)
  <1>1. TypeOK /\ Owned /\ WaitersKnown /\ WaitersKnown' /\ Running /\ Running' /\ Root \in Coros
    BY Waiters, WaitersNext, CoroTaskAssumption DEF IInv
  <1>2. /\ frame' = frame \/ frame' = [frame EXCEPT ![Root] = "destroyed"]
        /\ frame[Root] \in {"created", "final"}
        /\ UNCHANGED <<caller_coro, awaited, got, outstanding, queue, process>>
    <2>1. CASE DestroyTask
      BY <2>1 DEF DestroyTask, threadVars
    <2>2. ASSUME NEW c \in Coros, RunCompletionHandler(c)
          PROVE  /\ frame' = frame \/ frame' = [frame EXCEPT ![Root] = "destroyed"]
                 /\ frame[Root] \in {"created", "final"}
                 /\ UNCHANGED <<caller_coro, awaited, got, outstanding, queue, process>>
      <3>1. OnTop("completion", c)
        BY <2>2 DEF RunCompletionHandler, Current, OnTop
      <3>2. c = Root /\ frame[Root] = "final"
        BY <3>1, <1>1 DEF Running
      <3> QED BY <2>2, <3>2 DEF RunCompletionHandler
    <2> QED BY <2>1, <2>2
  <1>3. /\ frame'[Root] \in {"created", "final", "destroyed"}
        /\ \A x \in Coros : x # Root => frame'[x] = frame[x]
        /\ \A x \in Coros : frame'[x] = "running" <=> frame[x] = "running"
    BY <1>1, <1>2 DEF TypeOK
  <1>4. Active' = Active
    BY <1>1, <1>2, <1>3 DEF Active, InProgress, Unfinished
  <1>5. Callers' = Callers
    BY <1>1, <1>2, <1>3 DEF Callers, Alive, Owned
  <1>6. Waiting' = Waiting
    <2>1. \A x \in Coros : frame[x] # "running"
      <3>1. ASSUME NEW x \in Coros PROVE ~OnTop("body", x) /\ ~OnTop("resumed", x)
        <4>1. CASE DestroyTask
          BY <4>1 DEF DestroyTask, OnTop
        <4>2. ASSUME NEW c \in Coros, RunCompletionHandler(c)
              PROVE  ~OnTop("body", x) /\ ~OnTop("resumed", x)
          BY <4>2, CallFields DEF RunCompletionHandler, Current, OnTop
        <4> QED BY <4>1, <4>2
      <3> QED BY <3>1, NobodyRuns
    <2>2. \A x \in Coros : ~OnTop("resumed", x) /\ ~OnTop("resumed", x)'
      BY <2>1, <1>1, <1>3 DEF Running
    <2>3. Waiting' <=> Waiting
      BY <2>2, <1>1, <1>2 DEF WaitersKnown, InOperation
    <2> QED BY <2>3
  <1>7. ~Unfinished(Root) /\ ~Unfinished(Root)'
    BY <1>2, <1>3 DEF Unfinished
  <1> QED BY <1>2, <1>4, <1>5, <1>6, <1>7, Stutter

\* The one that acts waits.
LEMMA AwaitOperationRefines ==
  ASSUME IInv, IInv', OneActive, NEW c \in Coros, AwaitOperation(c)
  PROVE  OneActive' /\ [Program!Next]_(Program!vars)
  <1>1. Active = {c} /\ Unfinished(Root) /\ Program!Acts(c)
    BY BodyActs DEF AwaitOperation
  <1>2. frame[c] = "running"
    BY BodyRuns DEF AwaitOperation
  <1>3. /\ frame' = [frame EXCEPT ![c] = "suspended"] /\ c \in outstanding'
        /\ UNCHANGED <<caller_coro, awaited, got, process>>
    BY DEF AwaitOperation
  <1>4. TypeOK /\ WaitersKnown' /\ Root \in Coros
    BY WaitersNext, CoroTaskAssumption DEF IInv
  <1>5. frame'[c] = "suspended" /\ \A x \in Coros : x # c => frame'[x] = frame[x]
    BY <1>3, <1>4 DEF TypeOK
  <1>6. Active' = Active /\ Callers' = Callers
    BY <1>2, <1>3, <1>5 DEF Active, InProgress, Unfinished, Callers, Alive
  <1>7. Waiting' = TRUE
    BY <1>3, <1>4 DEF WaitersKnown, InOperation
  <1>8. Program!Wait(c)
    BY <1>1, <1>3, <1>6, <1>7 DEF Program!Wait
  <1>9. Unfinished(Root)'
    BY <1>1, <1>4, <1>5 DEF Unfinished
  <1>10. OneActive'
    BY <1>1, <1>6, <1>9 DEF OneActive
  <1> QED BY <1>8, <1>10 DEF Program!Next

\* The operation, its handler and the result in its hand are one wait.
LEMMA OperationDoneRefines ==
  ASSUME IInv, IInv', OneActive, NEW c \in Coros, OperationDone(c)
  PROVE  OneActive' /\ [Program!Next]_(Program!vars)
  <1>1. /\ c \in outstanding /\ queue' = Append(queue, c)
        /\ UNCHANGED <<frame, caller_coro, awaited, got, stack, process>>
    BY DEF OperationDone, frameVars
  <1>2. TypeOK /\ WaitersKnown /\ WaitersKnown'
    BY Waiters, WaitersNext DEF IInv
  <1>3. Active' = Active /\ Callers' = Callers /\ (Unfinished(Root)' <=> Unfinished(Root))
    BY <1>1 DEF Active, InProgress, Unfinished, Callers, Alive
  <1>4. Waiting
    BY <1>1, <1>2 DEF WaitersKnown, InOperation
  <1>5. Waiting'
    <2>1. Len(queue') \in 1 .. Len(queue') /\ queue'[Len(queue')] = c
      BY <1>1, <1>2 DEF TypeOK
    <2> QED BY <2>1, <1>2 DEF WaitersKnown, InOperation
  <1>6. Waiting' = Waiting
    <2>1. Waiting' <=> Waiting
      BY <1>4, <1>5
    <2> QED BY <2>1
  <1> QED BY <1>1, <1>3, <1>6, Stutter

\* The handler passes the result on; its coroutine takes it in a step of its own.
LEMMA RunHandlerRefines ==
  ASSUME IInv, IInv', OneActive, RunHandler
  PROVE  OneActive' /\ [Program!Next]_(Program!vars)
  <1> DEFINE c == Head(queue)
  <1>1. TypeOK /\ WaitersKnown /\ WaitersKnown' /\ Root \in Coros
    BY Waiters, WaitersNext, CoroTaskAssumption DEF IInv
  <1>2. c \in Coros /\ 1 \in 1 .. Len(queue) /\ queue[1] = c
    BY <1>1 DEF RunHandler, TypeOK
  <1>3. InOperation(c) /\ frame[c] = "suspended" /\ awaited[c] = NoCoro
    BY <1>1, <1>2 DEF WaitersKnown, InOperation
  <1>4. /\ frame' = [frame EXCEPT ![c] = "running"]
        /\ stack' = Append(<<Call("handler", c)>>, Call("resumed", c))
        /\ UNCHANGED <<caller_coro, awaited, got, process>>
    BY <1>3 DEF RunHandler, Resume
  <1> HIDE DEF c
  <1>5. frame'[c] = "running" /\ \A x \in Coros : x # c => frame'[x] = frame[x]
    BY <1>1, <1>2, <1>4 DEF TypeOK
  <1>6. Active' = Active /\ Callers' = Callers
    BY <1>3, <1>4, <1>5 DEF Active, InProgress, Unfinished, Callers, Alive
  <1>7. Unfinished(Root)' <=> Unfinished(Root)
    BY <1>1, <1>3, <1>5 DEF Unfinished
  <1>8. \A x \in Coros : OnTop("resumed", x)' <=> x = c
    <2>1. <<Call("handler", c)>> \in Seq(Entries) /\ Waits(<<Call("handler", c)>>)
      BY <1>2, CallFields DEF Waits, Calls
    <2>2. Call("resumed", c) \in Entries
      BY <1>2, CallFields DEF Calls
    <2>3. \A x \in Coros : OnTop("resumed", x)' <=> Call("resumed", c) = Call("resumed", x)
      BY <2>1, <2>2, <1>4, Pushed DEF Calls
    <2> QED BY <2>3, CallFields
  <1>9. Waiting /\ Waiting'
    <2>1. Waiting
      BY <1>1, <1>2, <1>3 DEF WaitersKnown
    <2>2. \E x \in Coros : awaited'[x] = NoCoro /\ OnTop("resumed", x)'
      BY <1>2, <1>3, <1>4, <1>8
    <2>3. Waiting'
      BY <1>1, <2>2 DEF WaitersKnown
    <2> QED BY <2>1, <2>3
  <1>10. Waiting' = Waiting
    <2>1. Waiting' <=> Waiting
      BY <1>9
    <2> QED BY <2>1
  <1> QED BY <1>4, <1>6, <1>7, <1>10, Stutter

\* The coroutine takes the result.
LEMMA AwaitResumeOperationRefines ==
  ASSUME IInv, IInv', OneActive, NEW c \in Coros, AwaitResumeOperation(c)
  PROVE  OneActive' /\ [Program!Next]_(Program!vars)
  <1>1. /\ awaited[c] = NoCoro /\ frame[c] = "running"
        /\ process = "up" /\ OnTop("resumed", c)
        /\ result_[c] /\ \E i \in 1 .. Len(stack) : stack[i] = Call("handler", c)
        /\ stack \in Seq(Entries) /\ stack # <<>>
    BY ResumedRuns DEF AwaitResumeOperation, Current, Up, OnTop
  <1>2. TypeOK /\ Layers /\ WaitersKnown /\ WaitersKnown'
    BY Waiters, WaitersNext DEF IInv
  <1>3. /\ got' = [got EXCEPT ![c] = Append(@, Op)] /\ stack' = Append(Below, Call("body", c))
        /\ UNCHANGED <<frame, caller_coro, awaited, outstanding, queue, process>>
    BY <1>1 DEF AwaitResumeOperation
  <1>4. Active = {c}
    <2>1. c \in Active
      BY <1>1 DEF Active, InProgress, Unfinished
    <2> QED BY <2>1 DEF OneActive
  <1>5. Active' = Active /\ Callers' = Callers /\ (Unfinished(Root)' <=> Unfinished(Root))
    BY <1>3 DEF Active, InProgress, Unfinished, Callers, Alive
  <1>6. Waiting
    BY <1>1, <1>2 DEF WaitersKnown
  <1>7. ~Waiting'
    <2>1. \A x \in Coros : ~InOperation(x)'
      <3>1. ASSUME NEW x \in Coros, InOperation(x) PROVE FALSE
        <4>1. frame[x] = "suspended" /\ awaited[x] = NoCoro
          BY <3>1, <1>2 DEF WaitersKnown
        <4>2. x \in Active
          BY <4>1 DEF Active, InProgress, Unfinished
        <4> QED BY <4>1, <4>2, <1>1, <1>4
      <3> QED BY <3>1, <1>3 DEF InOperation
    <2>2. \A x \in Coros : ~OnTop("resumed", x)'
      <3>1. Below \in Seq(Entries)
        BY <1>1, <1>2, BelowStack
      <3>2. stack'[Len(stack')] = Call("body", c)
        BY <1>3, <3>1, CallFields DEF Calls
      <3> QED BY <3>2, CallFields DEF OnTop
    <2> QED BY <2>1, <2>2, <1>2 DEF WaitersKnown
  <1>8. Program!Answer(c)
    <2>1. Waiting' = FALSE
      BY <1>7
    <2> QED BY <2>1, <1>1, <1>3, <1>4, <1>5, <1>6 DEF Program!Answer
  <1>9. OneActive'
    BY <1>5 DEF OneActive
  <1> QED BY <1>8, <1>9 DEF Program!Next

\* A call that returns changes nothing of the program.
LEMMA UnwindRefines ==
  ASSUME IInv, IInv', OneActive, Unwind
  PROVE  OneActive' /\ [Program!Next]_(Program!vars)
  <1>1. /\ stack # <<>> /\ stack[Len(stack)].at \in {"start", "await", "final", "handler"}
        /\ UNCHANGED <<frame, caller_coro, awaited, got, outstanding, queue, process>>
    BY DEF Unwind, frameVars
  <1>2. TypeOK /\ WaitersKnown /\ WaitersKnown' /\ Running'
    BY Waiters, WaitersNext DEF IInv
  <1>3. Active' = Active /\ Callers' = Callers /\ (Unfinished(Root)' <=> Unfinished(Root))
    BY <1>1 DEF Active, InProgress, Unfinished, Callers, Alive
  <1>4. \A x \in Coros : ~OnTop("body", x) /\ ~OnTop("resumed", x)
    BY <1>1, CallFields DEF OnTop, Calls
  <1>5. \A x \in Coros : ~OnTop("resumed", x)'
    <2>1. \A x \in Coros : frame[x] # "running"
      BY <1>4, NobodyRuns
    <2> QED BY <2>1, <1>1, <1>2 DEF Running
  <1>6. Waiting' = Waiting
    <2>1. Waiting' <=> Waiting
      BY <1>1, <1>2, <1>4, <1>5 DEF WaitersKnown, InOperation
    <2> QED BY <2>1
  <1> QED BY <1>1, <1>3, <1>6, Stutter

\* The main program has called the root, and nothing is in progress yet.
LEMMA InitRefines == Init => Program!Init /\ OneActive
  <1> SUFFICES ASSUME Init PROVE Program!Init /\ OneActive
    OBVIOUS
  <1>1. Active = {} /\ ~Unfinished(Root)
    BY CoroTaskAssumption DEF Init, Active, InProgress, Unfinished
  <1>2. Callers = [c \in Coros |-> NoCoro]
    BY DEF Init, Callers
  <1>3. Waiting = FALSE
    <2>1. ~Waiting
      BY DEF Init, Waiting, WaitsForOperation
    <2> QED BY <2>1
  <1>4. got = [c \in Coros |-> <<>>] /\ process = "up"
    BY DEF Init
  <1>5. Program!Init
    BY <1>1, <1>2, <1>3, <1>4 DEF Program!Init
  <1>6. OneActive
    BY <1>1 DEF OneActive
  <1> QED BY <1>5, <1>6

\* Every step of the thread is one of the calls, or is not seen.
LEMMA AwaitIsCallStep ==
  IInv /\ IInv' /\ OneActive /\ [Next]_vars => OneActive' /\ [Program!Next]_(Program!vars)
  <1> SUFFICES ASSUME IInv, IInv', OneActive, [Next]_vars
               PROVE  OneActive' /\ [Program!Next]_(Program!vars)
    OBVIOUS
  <1>1. CASE UNCHANGED vars
    <2>1. UNCHANGED <<Active, Callers, Waiting, got, process>>
      BY <1>1 DEF vars, frameVars, threadVars, Active, InProgress, Unfinished, Callers, Alive,
                  Waiting, WaitsForOperation
    <2>2. Unfinished(Root)' <=> Unfinished(Root)
      BY <1>1 DEF vars, frameVars, Unfinished
    <2> QED BY <2>1, <2>2, Stutter
  <1> QED
    BY <1>1, StartRefines, AwaitOperationRefines, FinishRefines, ThrowRefines,
       AwaitResumeTaskRefines, AwaitResumeOperationRefines, DestroyRefines, AwaitTaskRefines,
       RunHandlerRefines, UnwindRefines, OperationDoneRefines DEF Next, Thread

\* co_await is a call: whatever nests in whatever, and whether it suspends or not, each
\* co_await returns once, to the coroutine that made it, with its own value.
THEOREM AwaitIsCallProved == Spec => AwaitIsCall
  BY AwaitIsCallStep, Invariance, InitRefines, PTL DEF Spec, AwaitIsCall, Program!Spec

-----------------------------------------------------------------------------
(* The root is not forgotten while it has not ended.                        *)

\* Who gave up control without awaiting a task has an operation that will resume it.
Held == \A c \in Coros : frame[c] = "suspended" /\ awaited[c] = NoCoro => InOperation(c)

\* The thread has work, or an operation or its handler will bring it some.
RootNeverForgotten ==
    Up /\ Unfinished(Root) => stack # <<>> \/ outstanding # {} \/ queue # <<>>

\* A co_await of a task suspends its coroutine, but then it awaits that task.
LEMMA AwaitsHeld ==
  ASSUME IInv, Held,
         NEW c \in Coros, \/ \E d \in Coros : AwaitTask(c, d)
                          \/ AwaitOperation(c)
                          \/ AwaitResumeTask(c)
  PROVE  Held'
  <1>1. TypeOK
    BY DEF IInv
  <1>2. CASE AwaitOperation(c)
    <2>1. /\ frame' = [frame EXCEPT ![c] = "suspended"] /\ outstanding' = outstanding \cup {c}
          /\ UNCHANGED <<awaited, queue>>
      BY <1>2 DEF AwaitOperation
    <2> QED BY <1>1, <2>1 DEF Held, InOperation, TypeOK
  <1>3. ASSUME NEW d \in Coros, AwaitTask(c, d) PROVE Held'
    <2>1. /\ frame' = [frame EXCEPT ![c] = "suspended", ![d] = "running"]
          /\ awaited' = [awaited EXCEPT ![c] = d] /\ d # NoCoro
          /\ UNCHANGED <<outstanding, queue>>
      BY <1>3, CoroTaskAssumption DEF AwaitTask
    <2> QED BY <1>1, <2>1 DEF Held, InOperation, TypeOK
  <1>4. CASE AwaitResumeTask(c)
    <2>1. frame[c] = "running"
      BY <1>4, ResumedRuns DEF AwaitResumeTask
    <2>2. /\ UNCHANGED <<outstanding, queue>>
          /\ \A x \in Coros : frame'[x] = "suspended" => frame[x] = "suspended"
          /\ \A x \in Coros : x # c => awaited'[x] = awaited[x]
      BY <1>1, <1>4 DEF AwaitResumeTask, TypeOK
    <2> QED BY <2>1, <2>2 DEF Held, InOperation
  <1> QED BY <1>2, <1>3, <1>4

\* The other steps of the thread suspend nobody, and only a handler takes its
\* coroutine, which it resumes.
LEMMA OthersHeld ==
  ASSUME IInv, Held,
         \/ start \/ Unwind \/ DestroyTask \/ RunHandler
         \/ \E c \in Coros : \/ Finish(c) \/ Throw(c) \/ AwaitResumeOperation(c)
                             \/ RunCompletionHandler(c) \/ OperationDone(c)
  PROVE  Held'
  <1>1. TypeOK
    BY DEF IInv
  <1>2. CASE RunHandler
    <2> DEFINE h == Head(queue)
    <2>1. /\ h \in Coros /\ h = queue[1] /\ Len(queue) \in Nat /\ Len(queue') = Len(queue) - 1
          /\ \A i \in 1 .. Len(queue') : queue'[i] = queue[i + 1]
      BY <1>1, <1>2 DEF RunHandler, TypeOK
    <2>2. frame' = [frame EXCEPT ![h] = "running"] /\ UNCHANGED <<awaited, outstanding>>
      BY <1>2 DEF RunHandler
    <2> HIDE DEF h
    <2>3. ASSUME NEW x \in Coros, x # h, InOperation(x) PROVE InOperation(x)'
      <3>1. CASE x \in outstanding
        BY <2>2, <3>1 DEF InOperation
      <3>2. ASSUME NEW i \in 1 .. Len(queue), queue[i] = x PROVE InOperation(x)'
        <4>1. i - 1 \in 1 .. Len(queue') /\ queue'[i - 1] = x
          BY <2>1, <2>3, <3>2
        <4> QED BY <4>1 DEF InOperation
      <3> QED BY <2>3, <3>1, <3>2 DEF InOperation
    <2> QED BY <1>1, <2>1, <2>2, <2>3 DEF Held, TypeOK
  <1>3. ASSUME NEW c \in Coros, OperationDone(c) PROVE Held'
    <2>1. /\ outstanding' = outstanding \ {c} /\ queue' = Append(queue, c)
          /\ UNCHANGED <<frame, awaited>>
      BY <1>3 DEF OperationDone, frameVars
    <2>2. /\ Len(queue) \in Nat /\ Len(queue') = Len(queue) + 1 /\ queue'[Len(queue) + 1] = c
          /\ \A i \in 1 .. Len(queue) : queue'[i] = queue[i]
      BY <1>1, <2>1 DEF TypeOK
    <2>3. Len(queue) + 1 \in 1 .. Len(queue') /\ \A i \in 1 .. Len(queue) : i \in 1 .. Len(queue')
      BY <2>2
    <2>4. ASSUME NEW x \in Coros, InOperation(x) PROVE InOperation(x)'
      <3>1. CASE x = c
        BY <2>2, <2>3, <3>1 DEF InOperation
      <3>2. CASE x # c /\ x \in outstanding
        BY <2>1, <3>2 DEF InOperation
      <3>3. ASSUME NEW i \in 1 .. Len(queue), queue[i] = x PROVE InOperation(x)'
        BY <2>2, <2>3, <3>3 DEF InOperation
      <3> QED BY <2>4, <3>1, <3>2, <3>3 DEF InOperation
    <2> QED BY <2>1, <2>4 DEF Held
  <1>4. CASE start \/ Unwind \/ DestroyTask
    <2>1. /\ UNCHANGED <<awaited, outstanding, queue>>
          /\ \A x \in Coros : frame'[x] = "suspended" => frame[x] = "suspended"
      BY <1>1, <1>4 DEF start, Unwind, DestroyTask, TypeOK, frameVars, threadVars
    <2> QED BY <2>1 DEF Held, InOperation
  <1>5. ASSUME NEW c \in Coros, \/ Finish(c) \/ Throw(c) \/ AwaitResumeOperation(c)
                                \/ RunCompletionHandler(c)
        PROVE  Held'
    <2>1. /\ UNCHANGED <<awaited, outstanding, queue>>
          /\ \A x \in Coros : frame'[x] = "suspended" => frame[x] = "suspended"
      BY <1>1, <1>5 DEF Finish, Throw, AwaitResumeOperation, RunCompletionHandler, TypeOK, frameVars
    <2> QED BY <2>1 DEF Held, InOperation
  <1> QED BY <1>2, <1>3, <1>4, <1>5

\* As long as the process is up and the root has been started and has not ended, the
\* thread has a call to go on with, or an operation or a posted handler is on its way:
\* no chain of co_awaits ends in a coroutine that nobody will resume.
THEOREM RootNeverForgottenProved == Spec => []RootNeverForgotten
  <1>1. Init => Held
    BY DEF Init, Held
  <1>2. IInv /\ Held /\ [Next]_vars => Held'
    <2> SUFFICES ASSUME IInv, Held, [Next]_vars PROVE Held'
      OBVIOUS
    <2>1. CASE UNCHANGED vars
      BY <2>1 DEF vars, frameVars, threadVars, Held, InOperation
    <2> QED BY <2>1, AwaitsHeld, OthersHeld DEF Next, Thread
  <1>3. IInv /\ OneActive /\ Held => RootNeverForgotten
    <2> SUFFICES ASSUME IInv, OneActive, Held, Unfinished(Root)
                 PROVE  stack # <<>> \/ outstanding # {} \/ queue # <<>>
      BY DEF RootNeverForgotten
    <2>1. PICK c \in Coros : InProgress(c) /\ awaited[c] = NoCoro
      BY DEF OneActive, Active
    <2>2. CASE frame[c] = "suspended"
      <3>1. InOperation(c)
        BY <2>1, <2>2 DEF Held
      <3>2. queue = <<>> => Len(queue) = 0
        OBVIOUS
      <3> QED BY <3>1, <3>2 DEF InOperation
    <2>3. CASE frame[c] = "running"
      BY <2>3 DEF IInv, Running, OnTop
    <2>4. CASE c # Root /\ frame[c] = "final"
      <3>1. caller_coro[c] \in Coros /\ awaited[caller_coro[c]] = c /\ c # NoCoro
        BY <2>4, CoroTaskAssumption DEF IInv, Owned
      <3>2. frame[caller_coro[c]] = "running"
        BY <2>4, <3>1 DEF IInv, Owned
      <3> QED BY <3>1, <3>2 DEF IInv, Running, OnTop
    <2> QED BY <2>1, <2>2, <2>3, <2>4 DEF InProgress, Unfinished
  <1> QED BY <1>1, <1>2, <1>3, AwaitIsCallStep, InitRefines, Invariance, PTL DEF Spec

=============================================================================
