---------------------------- MODULE Sentry_proofs ----------------------------
(***************************************************************************)
(* What talks to a Sentry: the safety properties of SentryClient, proved   *)
(* for every set of callers, and then those of the sentry_set_status tools *)
(* (SentryStatus), for every command line.                                 *)
(***************************************************************************)
EXTENDS SentryClient, SentryStatus, TLAPS

\* A coroutine has a call from the moment it makes it, and an answer only to a call
\* whose callback has posted one.
CallsBegun ==
    /\ \A c \in Callers : call[c] = "none" <=> pc[c] \in {"unborn", "running"}
    /\ \A c \in Callers : pc[c] \in {"set", "ended"} => call[c] = "released"

\* The context has been given to every call there is, and to one only.
OneContext ==
    /\ Up => context_ \in 0 .. 1
    /\ \A c \in Callers : call[c] # "none" => context_ # 0
    /\ \A c, d \in Callers : call[c] # "none" /\ call[d] # "none" => c = d

IInv == TypeOK /\ CallsBegun /\ OneContext /\ CompletionsMatch

\* The initial state satisfies the inductive invariant.
LEMMA InitIInv == Init => IInv
  BY DEF Init, IInv, TypeOK, CallsBegun, OneContext, CompletionsMatch, Up, OnThread

\* The state is of its type after every step: the context's count stays within
\* bounds since the second call ends the process.
LEMMA StepTypeOK == IInv /\ [Next]_vars => TypeOK'
  <1> SUFFICES ASSUME IInv, [Next]_vars PROVE TypeOK'
    OBVIOUS
  <1> USE DEF IInv, TypeOK, Up, OnThread
  <1>1. ASSUME NEW c \in Callers, set_status(c) PROVE TypeOK'
    BY <1>1 DEF set_status, OneContext
  <1>2. ASSUME NEW c \in Callers, Begin(c) \/ Suspend(c) \/ End(c) PROVE TypeOK'
    BY <1>2 DEF Begin, Suspend, End
  <1>3. ASSUME NEW c \in Callers, CallEnds(c) \/ ThrowOnFailure(c) PROVE TypeOK'
    BY <1>3 DEF CallEnds, ThrowOnFailure
  <1>4. ASSUME NEW c \in Callers, PostCompletion(c) PROVE TypeOK'
    BY <1>4 DEF PostCompletion
  <1>5. CASE do_complete
    <2>1. Head(queue) \in Callers /\ Tail(queue) \in Seq(Callers)
      BY <1>5 DEF do_complete
    <2> QED BY <1>5, <2>1 DEF do_complete
  <1>6. CASE UNCHANGED vars
    BY <1>6 DEF vars
  <1> QED BY <1>1, <1>2, <1>3, <1>4, <1>5, <1>6 DEF Next, IoStep, Callback

\* Only a call gives the context away, and the second one ends the process.
LEMMA StepCalls == IInv /\ [Next]_vars => CallsBegun' /\ OneContext'
  <1> SUFFICES ASSUME IInv, [Next]_vars PROVE CallsBegun' /\ OneContext'
    OBVIOUS
  <1> USE DEF IInv, TypeOK, Up, OnThread, CallsBegun, OneContext
  <1>1. ASSUME NEW c \in Callers, set_status(c) PROVE CallsBegun' /\ OneContext'
    <2>1. CASE context_ = 0
      <3>1. context_' = 1 /\ process' = process
        BY <1>1, <2>1 DEF set_status
      <3>2. /\ call' = [call EXCEPT ![c] = "open"]
            /\ pc' = [pc EXCEPT ![c] = "initiating"]
        BY <1>1, <2>1 DEF set_status
      <3>3. \A d \in Callers : call[d] = "none"
        BY <2>1
      <3> QED BY <3>1, <3>2, <3>3
    <2>2. CASE context_ # 0
      BY <1>1, <2>2 DEF set_status
    <2> QED BY <2>1, <2>2
  <1>2. ASSUME NEW c \in Callers, Begin(c) \/ Suspend(c) \/ End(c)
        PROVE  CallsBegun' /\ OneContext'
    BY <1>2 DEF Begin, Suspend, End
  <1>3. ASSUME NEW c \in Callers, CallEnds(c) \/ ThrowOnFailure(c) \/ PostCompletion(c)
        PROVE  CallsBegun' /\ OneContext'
    <2>1. /\ call[c] \in {"open", "failed", "ok"}
          /\ \E s \in {"ok", "failed", "lost", "released"} : call' = [call EXCEPT ![c] = s]
          /\ pc' = pc /\ context_' = context_ /\ process = "up"
      BY <1>3 DEF CallEnds, ThrowOnFailure, PostCompletion
    <2> QED BY <2>1
  <1>4. CASE do_complete
    <2>1. Head(queue) \in Callers /\ queue[1] = Head(queue) /\ Len(queue) > 0
      BY <1>4 DEF do_complete
    <2>2. call[Head(queue)] = "released" /\ 1 \in 1 .. Len(queue)
      BY <2>1 DEF CompletionsMatch
    <2> QED BY <1>4, <2>1, <2>2 DEF do_complete
  <1>5. CASE UNCHANGED vars
    BY <1>5 DEF vars
  <1> QED BY <1>1, <1>2, <1>3, <1>4, <1>5 DEF Next, IoStep, Callback

\* A posted completion stays the only one of its call, and its coroutine waits for it.
LEMMA StepCompletions == IInv /\ [Next]_vars => CompletionsMatch'
  <1> SUFFICES ASSUME IInv, [Next]_vars PROVE CompletionsMatch'
    OBVIOUS
  <1> USE DEF IInv, TypeOK, Up, OnThread, CompletionsMatch
  <1>1. ASSUME NEW c \in Callers, set_status(c) PROVE CompletionsMatch'
    BY <1>1 DEF set_status, CallsBegun
  <1>2. ASSUME NEW c \in Callers, Begin(c) \/ Suspend(c) \/ End(c) PROVE CompletionsMatch'
    BY <1>2 DEF Begin, Suspend, End
  <1>3. ASSUME NEW c \in Callers, CallEnds(c) \/ ThrowOnFailure(c) PROVE CompletionsMatch'
    BY <1>3 DEF CallEnds, ThrowOnFailure
  <1>4. ASSUME NEW c \in Callers, PostCompletion(c) PROVE CompletionsMatch'
    <2>1. pc[c] \in {"initiating", "awaiting"} /\ call[c] = "ok"
      BY <1>4 DEF PostCompletion, CallsBegun
    <2>2. \A i \in 1 .. Len(queue) : queue[i] # c
      BY <2>1
    <2>3. /\ Len(queue') = Len(queue) + 1
          /\ queue'[Len(queue) + 1] = c
          /\ \A i \in 1 .. Len(queue) : queue'[i] = queue[i] /\ queue[i] \in Callers
      BY <1>4 DEF PostCompletion
    <2>4. call' = [call EXCEPT ![c] = "released"] /\ pc' = pc /\ process' = process
      BY <1>4 DEF PostCompletion
    <2> QED BY <2>1, <2>2, <2>3, <2>4
  <1>5. CASE do_complete
    <2> DEFINE c == Head(queue)
    <2>1. /\ c \in Callers /\ c = queue[1] /\ Len(queue) \in Nat /\ Len(queue) > 0
          /\ Len(queue') = Len(queue) - 1
          /\ \A i \in 1 .. Len(queue') : queue'[i] = queue[i + 1] /\ queue[i + 1] \in Callers
      BY <1>5 DEF do_complete
    <2>2. pc[c] = "awaiting"
      BY <1>5, <2>1 DEF do_complete, IoIdle
    <2>3. pc' = [pc EXCEPT ![c] = "set"] /\ process' = process /\ call' = call
      BY <1>5, <2>2 DEF do_complete
    <2>4. \A i \in 1 .. Len(queue') : i + 1 \in 1 .. Len(queue) /\ queue[i + 1] # c
      BY <2>1
    <2>5. queue' = Tail(queue)
      BY <1>5 DEF do_complete
    <2> HIDE DEF c
    <2>6. \A i \in 1 .. Len(queue') :
             call'[queue'[i]] = "released" /\ pc'[queue'[i]] \in {"initiating", "awaiting"}
      BY <2>1, <2>3, <2>4
    <2>7. \A i, j \in 1 .. Len(queue') : queue'[j] = queue'[i] => i = j
      <3> SUFFICES ASSUME NEW i \in 1 .. Len(queue'), NEW j \in 1 .. Len(queue'),
                          queue'[j] = queue'[i]
                   PROVE  i = j
        OBVIOUS
      <3>1. queue[i + 1] = queue[j + 1]
        BY <2>1
      <3>2. i + 1 = j + 1
        BY <3>1, <2>4
      <3> QED BY <3>2, <2>1
    <2> QED BY <2>3, <2>6, <2>7
  <1>6. CASE UNCHANGED vars
    BY <1>6 DEF vars
  <1> QED BY <1>1, <1>2, <1>3, <1>4, <1>5, <1>6 DEF Next, IoStep, Callback

\* IInv holds in every reachable state.
THEOREM Invariance == Spec => []IInv
  <1>1. IInv /\ [Next]_vars => IInv'
    BY StepTypeOK, StepCalls, StepCompletions DEF IInv
  <1> QED BY InitIInv, <1>1, PTL DEF Spec

\* The variables have their types.
THEOREM TypeCorrect == Spec => []TypeOK
  <1>1. IInv => TypeOK
    BY DEF IInv
  <1> QED BY <1>1, Invariance, PTL

\* Nothing is resumed twice, or by a call that failed.
THEOREM CompletionsMatchProved == Spec => []CompletionsMatch
  <1>1. IInv => CompletionsMatch
    BY DEF IInv
  <1> QED BY <1>1, Invariance, PTL

\* A GrpcClient serves one set_status, however many coroutines share it.
THEOREM OneCallPerClientProved == Spec => []OneCallPerClient
  <1>1. IInv => OneCallPerClient
    BY DEF IInv, OneCallPerClient, CallsBegun, OneContext
  <1> QED BY <1>1, Invariance, PTL

-----------------------------------------------------------------------------
(* The refinement of KvCalls.                                               *)


\* Every step is a step of KvCalls, or changes nothing that it sees.
LEMMA StepRefines == IInv /\ [Next]_vars => [Calls!Next]_(Calls!vars)
  <1> SUFFICES ASSUME IInv, [Next]_vars PROVE [Calls!Next]_(Calls!vars)
    OBVIOUS
  <1> USE DEF IInv, TypeOK, Up, OnThread
  <1>1. ASSUME NEW c \in Callers, Begin(c) PROVE Calls!Begin(c)
    BY <1>1 DEF Begin, Calls!Begin, Calls!NobodyRuns, PhaseOf, IoIdle
  <1>2. ASSUME NEW c \in Callers, set_status(c) PROVE Calls!Call(c, "closing") \/ Calls!Die
    <2>1. CASE context_ = 0
      <3>1. pc[c] = "running" /\ pc' = [pc EXCEPT ![c] = "initiating"] /\ Up /\ Up'
        BY <1>2, <2>1 DEF set_status
      <3>2. [d \in Callers |-> PhaseOf(pc'[d])]
               = [[d \in Callers |-> PhaseOf(pc[d])] EXCEPT ![c] = "closing"]
        BY <3>1 DEF PhaseOf
      <3>3. [d \in Callers |-> IF pc'[d] \in {"unborn", "running"} THEN 0 ELSE 1]
               = [[d \in Callers |-> IF pc[d] \in {"unborn", "running"} THEN 0 ELSE 1]
                    EXCEPT ![c] = @ + 1]
        <4> DEFINE before == [d \in Callers |-> IF pc[d] \in {"unborn", "running"} THEN 0 ELSE 1]
                   after == [d \in Callers |-> IF pc'[d] \in {"unborn", "running"} THEN 0 ELSE 1]
        <4>1. before[c] = 0 /\ after[c] = 1 /\ \A d \in Callers : d # c => after[d] = before[d]
          BY <3>1
        <4>2. after = [d \in Callers |-> after[d]] /\ before = [d \in Callers |-> before[d]]
          OBVIOUS
        <4> HIDE DEF before, after
        <4>3. after = [before EXCEPT ![c] = @ + 1]
          BY <4>1, <4>2
        <4> QED BY <4>3 DEF before, after
      <3> QED BY <3>1, <3>2, <3>3 DEF Calls!Call, PhaseOf
    <2>2. CASE context_ # 0
      BY <1>2, <2>2 DEF set_status, Calls!Die
    <2> QED BY <2>1, <2>2
  <1>3. ASSUME NEW c \in Callers, Suspend(c) PROVE UNCHANGED Calls!vars
    BY <1>3 DEF Suspend, Calls!vars, PhaseOf
  <1>4. ASSUME NEW c \in Callers, End(c) PROVE Calls!End(c)
    BY <1>4 DEF End, Calls!End, PhaseOf
  <1>5. CASE do_complete
    <2> DEFINE c == Head(queue)
    <2>1. c \in Callers /\ c = queue[1] /\ 1 \in 1 .. Len(queue)
      BY <1>5 DEF do_complete
    <2>2. pc[c] = "awaiting"
      BY <1>5, <2>1 DEF do_complete, IoIdle, CompletionsMatch
    <2>3. /\ pc' = [pc EXCEPT ![c] = "set"] /\ process' = process /\ process = "up"
          /\ \A d \in Callers : pc[d] \notin {"running", "initiating", "set"}
      BY <1>5, <2>2 DEF do_complete, IoIdle
    <2> HIDE DEF c
    <2>4. Calls!CloseReturn(c)
      BY <2>1, <2>2, <2>3 DEF Calls!CloseReturn, Calls!NobodyRuns, PhaseOf
    <2> QED BY <2>1, <2>4 DEF Calls!Next
  <1>6. ASSUME NEW c \in Callers, CallEnds(c) \/ PostCompletion(c) PROVE UNCHANGED Calls!vars
    BY <1>6 DEF CallEnds, PostCompletion, Calls!vars
  <1>7. ASSUME NEW c \in Callers, ThrowOnFailure(c)
        PROVE  Calls!Die \/ UNCHANGED Calls!vars
    BY <1>7 DEF ThrowOnFailure, Calls!Die, Calls!vars
  <1>8. CASE UNCHANGED vars
    BY <1>8 DEF vars, Calls!vars
  <1> QED
    BY <1>1, <1>2, <1>3, <1>4, <1>5, <1>6, <1>7, <1>8 DEF Next, IoStep, Callback, Calls!Next

\* Coroutines that share a client run one at a time, and a call resumes its own once.
THEOREM KeepsPromiseProved == Spec => KeepsPromise
  <1>1. Init => Calls!Init
    BY DEF Init, Calls!Init, PhaseOf, Up
  <1> QED BY <1>1, StepRefines, Invariance, PTL DEF Spec, KeepsPromise, Calls!Spec

-----------------------------------------------------------------------------
(* The safety half of EveryCallSettles: a call is never forgotten.          *)

\* The call of c that ended well has its handler in the queue until c is resumed.
Queued(c) == \E i \in 1 .. Len(queue) : queue[i] = c
Kept == \A c \in Callers : call[c] = "released" /\ pc[c] \in {"initiating", "awaiting"} => Queued(c)

\* While the process is up, a coroutine that awaits has its call with gRPC, in its
\* callback, or in the queue (the callback of set_status posted it), or the call is
\* lost: it failed, and gRPC swallowed what the callback threw.
NoCallStranded ==
    Up => \A c \in Callers :
             pc[c] = "awaiting" => call[c] \in {"open", "ok", "failed", "lost"} \/ Queued(c)

\* A handler stays in the queue until it runs, and then its coroutine goes on.
LEMMA StepKept == IInv /\ Kept /\ [Next]_vars => Kept'
  <1> SUFFICES ASSUME IInv, Kept, [Next]_vars PROVE Kept'
    OBVIOUS
  <1> USE DEF IInv, TypeOK, Up, OnThread, Kept
  <1>1. ASSUME NEW c \in Callers, set_status(c) PROVE Kept'
    <2>1. queue' = queue /\ pc[c] = "running" /\ call[c] = "none"
      BY <1>1 DEF set_status, CallsBegun
    <2>2. \/ pc' = pc /\ call' = call
          \/ pc' = [pc EXCEPT ![c] = "initiating"] /\ call' = [call EXCEPT ![c] = "open"]
      BY <1>1 DEF set_status
    <2> QED BY <2>1, <2>2 DEF Queued
  <1>2. ASSUME NEW c \in Callers, Begin(c) \/ Suspend(c) \/ End(c) PROVE Kept'
    BY <1>2 DEF Begin, Suspend, End, Queued
  <1>3. ASSUME NEW c \in Callers, CallEnds(c) \/ ThrowOnFailure(c) PROVE Kept'
    BY <1>3 DEF CallEnds, ThrowOnFailure, Queued
  <1>4. ASSUME NEW c \in Callers, PostCompletion(c) PROVE Kept'
    <2>1. /\ Len(queue') = Len(queue) + 1 /\ Len(queue) \in Nat
          /\ queue'[Len(queue) + 1] = c
          /\ \A i \in 1 .. Len(queue) : queue'[i] = queue[i]
      BY <1>4 DEF PostCompletion
    <2>2. Queued(c)' /\ \A d \in Callers : Queued(d) => Queued(d)'
      BY <2>1 DEF Queued
    <2>3. call' = [call EXCEPT ![c] = "released"] /\ pc' = pc
      BY <1>4 DEF PostCompletion
    <2> QED BY <2>2, <2>3
  <1>5. CASE do_complete
    <2> DEFINE c == Head(queue)
    <2>1. /\ c \in Callers /\ c = queue[1] /\ Len(queue) \in Nat /\ Len(queue) > 0
          /\ Len(queue') = Len(queue) - 1
          /\ \A i \in 1 .. Len(queue') : queue'[i] = queue[i + 1]
      BY <1>5 DEF do_complete
    <2>2. pc[c] = "awaiting"
      BY <1>5, <2>1 DEF do_complete, IoIdle, CompletionsMatch
    <2>3. pc' = [pc EXCEPT ![c] = "set"] /\ call' = call
      BY <1>5, <2>2 DEF do_complete
    <2> HIDE DEF c
    <2>4. ASSUME NEW d \in Callers, d # c, Queued(d) PROVE Queued(d)'
      <3>1. PICK i \in 1 .. Len(queue) : queue[i] = d
        BY <2>4 DEF Queued
      <3>2. i - 1 \in 1 .. Len(queue') /\ queue'[i - 1] = d
        BY <3>1, <2>1, <2>4
      <3> QED BY <3>2 DEF Queued
    <2> QED BY <2>1, <2>3, <2>4
  <1>6. CASE UNCHANGED vars
    BY <1>6 DEF vars, Queued
  <1> QED BY <1>1, <1>2, <1>3, <1>4, <1>5, <1>6 DEF Next, IoStep, Callback

\* A set_status call that is awaited is one step away from going on, or was lost.
THEOREM NoCallStrandedProved == Spec => []NoCallStranded
  <1>1. Init => Kept
    BY DEF Init, Kept
  <1>2. IInv /\ Kept => NoCallStranded
    BY DEF IInv, TypeOK, CallsBegun, Kept, NoCallStranded
  <1> QED BY <1>1, <1>2, StepKept, Invariance, PTL DEF Spec

-----------------------------------------------------------------------------
(* The sentry_set_status tools.                                             *)

\* The request is being filled with the forks of a chain of the table, none of which
\* it lacks, and is sent when it has them all.
Filling ==
    /\ stage = "main" => forks = <<>>
    /\ stage \in {"forks", "called", "terminated"} =>
          /\ FlagsValid
          /\ \A k \in 1 .. Len(forks) : forks[k] = hard_forks[k] /\ forks[k] # nullopt
    /\ stage = "called" => Len(forks) = 9
    /\ stage = "terminated" => Len(forks) < 9 /\ hard_forks[Len(forks) + 1] = nullopt
    /\ stage \in {"main", "forks", "terminated"} => result = "none"

ToolInv == ToolTypeOK /\ Filling

\* The nine members of a ChainConfig that main puts in its list.
Listed == {"homestead_block", "tangerine_whistle_block", "spurious_dragon_block",
           "byzantium_block", "constantinople_block", "petersburg_block",
           "istanbul_block", "muir_glacier_block", "berlin_block"}

Configs == {kMainnetConfig, kRopstenConfig, kGoerliConfig, kClassicMainnetConfig}

\* Every chain of the table has the nine members, and the DAO's besides.
LEMMA ConfigsHaveNine ==
  ASSUME NEW config \in Configs
  PROVE  /\ DOMAIN config = Listed \cup {"dao_block"}
         /\ \A f \in Listed : config[f] \in Nat \cup {nullopt}
  <1>1. CASE config = kMainnetConfig
    BY <1>1, SMTT(60) DEF kMainnetConfig, Listed, nullopt
  <1>2. CASE config = kRopstenConfig
    BY <1>2, SMTT(60) DEF kRopstenConfig, Listed, nullopt
  <1>3. CASE config = kGoerliConfig
    BY <1>3, SMTT(60) DEF kGoerliConfig, Listed, nullopt
  <1>4. CASE config = kClassicMainnetConfig
    BY <1>4, SMTT(60) DEF kClassicMainnetConfig, Listed, nullopt
  <1> QED BY <1>1, <1>2, <1>3, <1>4 DEF Configs

\* Flags that pass every check name a chain of the table.
LEMMA ChainOfTable ==
  ASSUME ToolTypeOK, FlagsValid
  PROVE  chain_config \in Configs /\ flags.chainid \in {1, 3, 5, 61}
  <1>1. flags.chainid \in {1, 3, 5, 61, 2}
    BY DEF ToolTypeOK, Flags
  <1>2. flags.chainid # 2
    BY DEF FlagsValid, chain_config, lookup_chain_config
  <1> QED BY <1>1, <1>2 DEF chain_config, lookup_chain_config, Configs

\* The list holds what the nine members say, whatever the chain.
LEMMA ListIsMembers ==
  {hard_forks[k] : k \in 1 .. 9} = {chain_config[f] : f \in Listed}
  <1>1. 1 .. 9 = {1, 2, 3, 4, 5, 6, 7, 8, 9}
    OBVIOUS
  <1>2. hard_forks[1] = chain_config["homestead_block"]
    BY DEF hard_forks
  <1>3. hard_forks[2] = chain_config["tangerine_whistle_block"]
    BY DEF hard_forks
  <1>4. hard_forks[3] = chain_config["spurious_dragon_block"]
    BY DEF hard_forks
  <1>5. hard_forks[4] = chain_config["byzantium_block"]
    BY DEF hard_forks
  <1>6. hard_forks[5] = chain_config["constantinople_block"]
    BY DEF hard_forks
  <1>7. hard_forks[6] = chain_config["petersburg_block"]
    BY DEF hard_forks
  <1>8. hard_forks[7] = chain_config["istanbul_block"]
    BY DEF hard_forks
  <1>9. hard_forks[8] = chain_config["muir_glacier_block"]
    BY DEF hard_forks
  <1>10. hard_forks[9] = chain_config["berlin_block"]
    BY DEF hard_forks
  <1> QED BY <1>1, <1>2, <1>3, <1>4, <1>5, <1>6, <1>7, <1>8, <1>9, <1>10 DEF Listed

\* The list of a chain of the table has nine entries, each a block or none.
LEMMA ChainsHaveNine ==
  ASSUME ToolTypeOK, FlagsValid
  PROVE  Len(hard_forks) = 9 /\ \A k \in 1 .. 9 : hard_forks[k] \in Nat \cup {nullopt}
  <1>1. \A f \in Listed : chain_config[f] \in Nat \cup {nullopt}
    BY ChainOfTable, ConfigsHaveNine
  <1>2. Len(hard_forks) = 9
    BY DEF hard_forks
  <1> QED BY <1>1, <1>2, ListIsMembers

\* Two chains lack none of the forks, and theirs are listed by ascending blocks; the others
\* lack the eighth and none before it.
LEMMA ListOf ==
  ASSUME ToolTypeOK, FlagsValid
  PROVE  /\ flags.chainid \in {1, 3} =>
               /\ \A k \in 1 .. 9 : hard_forks[k] # nullopt
               /\ \A i, j \in 1 .. 9 : i < j => hard_forks[i] <= hard_forks[j]
         /\ flags.chainid \in {5, 61} =>
               /\ hard_forks[8] = nullopt
               /\ \A k \in 1 .. 7 : hard_forks[k] # nullopt
  <1>1. CASE flags.chainid = 1
    <2>1. hard_forks = <<1150000, 2463000, 2675000, 4370000, 7280000,
                         7280000, 9069000, 9200000, 12244000>>
      BY <1>1 DEF hard_forks, chain_config, lookup_chain_config, kMainnetConfig
    <2> QED BY <1>1, <2>1, SMTT(60) DEF nullopt
  <1>2. CASE flags.chainid = 3
    <2>1. hard_forks = <<0, 0, 10, 1700000, 4230000, 4939394, 6485846, 7117117, 9812189>>
      BY <1>2 DEF hard_forks, chain_config, lookup_chain_config, kRopstenConfig
    <2> QED BY <1>2, <2>1, SMTT(60) DEF nullopt
  <1>3. CASE flags.chainid = 5
    <2>1. hard_forks = <<0, 0, 0, 0, 0, 0, 1561651, nullopt, 4460644>>
      BY <1>3 DEF hard_forks, chain_config, lookup_chain_config, kGoerliConfig
    <2> QED BY <1>3, <2>1, SMTT(60) DEF nullopt
  <1>4. CASE flags.chainid = 61
    <2>1. hard_forks = <<1150000, 2500000, 8772000, 8772000, 9573000,
                         9573000, 10500839, nullopt, nullopt>>
      BY <1>4 DEF hard_forks, chain_config, lookup_chain_config, kClassicMainnetConfig
    <2> QED BY <1>4, <2>1, SMTT(60) DEF nullopt
  <1> QED BY <1>1, <1>2, <1>3, <1>4, ChainOfTable

\* The tools start with no forks.
LEMMA InitToolInv == ToolInit => ToolInv
  BY DEF ToolInit, ToolInv, ToolTypeOK, Filling

\* A fork of the chain is appended, or the tool dies.
LEMMA AddForkStep ==
  ASSUME ToolInv, AddFork
  PROVE  ToolInv'
  <1> DEFINE n == Len(forks)
             block == hard_forks[n + 1]
  <1>1. ToolTypeOK /\ Filling
    BY DEF ToolInv
  <1>2. stage = "forks" /\ n < Len(hard_forks) /\ UNCHANGED <<tool, flags, result, exit>>
    BY DEF AddFork
  <1>3. /\ FlagsValid /\ result = "none"
        /\ \A k \in 1 .. n : forks[k] = hard_forks[k] /\ forks[k] # nullopt
    BY <1>1, <1>2 DEF Filling
  <1>4. FlagsValid' /\ hard_forks' = hard_forks
    BY <1>2, <1>3 DEF FlagsValid, chain_config, hard_forks
  <1>5. Len(hard_forks) = 9 /\ \A k \in 1 .. 9 : hard_forks[k] \in Nat \cup {nullopt}
    BY <1>1, <1>3, ChainsHaveNine
  <1>6. forks \in Seq(Nat) /\ n \in Nat
    BY <1>1 DEF ToolTypeOK
  <1>7. n < 9
    BY <1>2, <1>5
  <1>8. block \in Nat \cup {nullopt}
    <2> HIDE DEF n
    <2>1. n + 1 \in 1 .. 9
      BY <1>6, <1>7
    <2> QED BY <1>5, <2>1
  <1>9. block = nullopt => stage' = "terminated" /\ forks' = forks
    BY DEF AddFork
  <1>10. block # nullopt => stage' = "forks" /\ forks' = Append(forks, block)
    BY <1>2 DEF AddFork
  <1>11. CASE block = nullopt
    <2>1. ToolTypeOK'
      BY <1>1, <1>2, <1>9, <1>11 DEF ToolTypeOK
    <2>2. Filling'
      <3>1. hard_forks'[Len(forks') + 1] = nullopt' /\ Len(forks') < 9
        BY <1>4, <1>7, <1>9, <1>11 DEF nullopt
      <3> HIDE DEF n, block
      <3>2. \A k \in 1 .. Len(forks') : forks'[k] = hard_forks'[k] /\ forks'[k] # nullopt'
        BY <1>3, <1>4, <1>9, <1>11 DEF n, nullopt
      <3> QED BY <1>2, <1>3, <1>4, <1>9, <1>11, <3>1, <3>2 DEF Filling
    <2> QED BY <2>1, <2>2 DEF ToolInv
  <1>12. CASE block # nullopt
    <2> HIDE DEF n, block
    <2>1. block \in Nat
      BY <1>8, <1>12
    <2>2. /\ forks' \in Seq(Nat) /\ Len(forks') = n + 1 /\ forks'[n + 1] = block
          /\ \A k \in 1 .. n : forks'[k] = forks[k]
      BY <1>6, <1>10, <1>12, <2>1 DEF n
    <2>3. ToolTypeOK'
      <3>1. Len(forks') <= 9
        BY <1>6, <1>7, <2>2
      <3> QED BY <1>1, <1>2, <1>10, <1>12, <2>2, <3>1 DEF ToolTypeOK
    <2>4. ASSUME NEW k \in 1 .. Len(forks')
          PROVE  forks'[k] = hard_forks'[k] /\ forks'[k] # nullopt'
      <3>1. k \in 1 .. n \/ k = n + 1
        BY <1>6, <2>2
      <3>2. CASE k \in 1 .. n
        BY <1>3, <1>4, <2>2, <3>2 DEF nullopt
      <3>3. CASE k = n + 1
        BY <1>4, <1>12, <2>2, <3>3 DEF block, nullopt
      <3> QED BY <3>1, <3>2, <3>3
    <2>5. Filling'
      BY <1>2, <1>3, <1>4, <1>10, <1>12, <2>4 DEF Filling
    <2> QED BY <2>3, <2>5 DEF ToolInv
  <1> QED BY <1>11, <1>12

\* What the checks of the flags found stays true, and only AddFork adds to the request.
LEMMA StepToolInv == ToolInv /\ [ToolNext]_toolVars => ToolInv'
  <1> SUFFICES ASSUME ToolInv, [ToolNext]_toolVars PROVE ToolInv'
    OBVIOUS
  <1>1. ToolTypeOK /\ Filling
    BY DEF ToolInv
  <1>2. CASE AddFork
    BY <1>2, AddForkStep
  <1>3. CASE UNCHANGED <<flags, forks>> /\ ~AddFork
    <2>1. (FlagsValid' <=> FlagsValid) /\ hard_forks' = hard_forks /\ nullopt' = nullopt
      BY <1>3 DEF FlagsValid, chain_config, hard_forks, nullopt
    <2>2. ToolTypeOK'
      BY <1>1, <1>3 DEF ToolTypeOK, ToolNext, CheckFlags, Call, Answer, DeadlineExpires, Exit,
         toolVars
    <2>3. Filling'
      <3>1. CASE CheckFlags
        <4>1. stage = "main" /\ forks = <<>> /\ result' = result /\ result = "none"
          BY <1>1, <3>1 DEF CheckFlags, Filling
        <4>2. stage' = "exited" \/ (stage' = "forks" /\ FlagsValid)
          BY <3>1 DEF CheckFlags
        <4> QED BY <1>3, <2>1, <4>1, <4>2 DEF Filling
      <3>2. CASE Call
        <4>1. stage = "forks" /\ stage' = "called" /\ Len(forks) = Len(hard_forks) /\ FlagsValid
          BY <1>1, <3>2 DEF Call, Filling
        <4>2. Len(forks) = 9
          BY <1>1, <4>1, ChainsHaveNine
        <4> QED BY <1>1, <1>3, <2>1, <4>1, <4>2 DEF Filling
      <3>3. CASE Answer \/ DeadlineExpires
        <4>1. stage = "called" /\ stage' = "called"
          BY <3>3 DEF Answer, DeadlineExpires
        <4> QED BY <1>1, <1>3, <2>1, <4>1 DEF Filling
      <3>4. CASE Exit
        BY <3>4 DEF Exit, Filling
      <3>5. CASE UNCHANGED toolVars
        BY <1>1, <1>3, <2>1, <3>5 DEF toolVars, Filling
      <3> QED BY <1>3, <3>1, <3>2, <3>3, <3>4, <3>5 DEF ToolNext
    <2> QED BY <2>2, <2>3 DEF ToolInv
  <1>4. AddFork \/ UNCHANGED <<flags, forks>>
    BY DEF ToolNext, CheckFlags, Call, Answer, DeadlineExpires, Exit, toolVars
  <1> QED BY <1>2, <1>3, <1>4

\* ToolInv holds in every reachable state of the tools.
THEOREM ToolInvariance == ToolSpec => []ToolInv
  BY InitToolInv, StepToolInv, PTL DEF ToolSpec

\* A request names every fork of its chain but the DAO's, and nothing else, by ascending
\* blocks, and was asked for by flags that passed every check: what main pushes into its
\* list is what the members of the ChainConfig say, and no chain that lacks one gets here.
THEOREM SentForksInOrderProved == ToolSpec => []SentForksInOrder
  <1>1. ToolInv => SentForksInOrder
    <2> SUFFICES ASSUME ToolInv, stage = "called"
                 PROVE  /\ FlagsValid
                        /\ {forks[i] : i \in DOMAIN forks} = ForkBlocks(chain_config)
                        /\ \A i, j \in DOMAIN forks : i < j => forks[i] <= forks[j]
      BY DEF SentForksInOrder
    <2>1. ToolTypeOK /\ FlagsValid /\ Len(forks) = 9
      BY DEF ToolInv, Filling
    <2>2. DOMAIN forks = 1 .. 9
      BY <2>1 DEF ToolTypeOK
    <2>3. \A k \in 1 .. 9 : forks[k] = hard_forks[k] /\ hard_forks[k] # nullopt
      BY <2>1, <2>2 DEF ToolInv, Filling
    <2>4. flags.chainid \in {1, 3}
      <3>1. hard_forks[8] # nullopt
        BY <2>3
      <3> QED BY <2>1, <3>1, ChainOfTable, ListOf
    <2>5. \A i, j \in 1 .. 9 : i < j => hard_forks[i] <= hard_forks[j]
      BY <2>1, <2>4, ListOf
    <2>6. {forks[i] : i \in DOMAIN forks} = {hard_forks[i] : i \in 1 .. 9}
      BY <2>2, <2>3
    <2>7. {hard_forks[i] : i \in 1 .. 9} = {chain_config[f] : f \in Listed}
      BY <2>1, ListIsMembers
    <2>8. nullopt \notin {hard_forks[i] : i \in 1 .. 9}
      BY <2>3
    <2>9. DOMAIN chain_config \ {"dao_block"} = Listed
      BY <2>1, ChainOfTable, ConfigsHaveNine DEF Listed
    <2>10. ForkBlocks(chain_config) = {chain_config[f] : f \in Listed}
      BY <2>7, <2>8, <2>9 DEF ForkBlocks
    <2> QED BY <2>1, <2>2, <2>3, <2>5, <2>6, <2>7, <2>10
  <1> QED BY <1>1, ToolInvariance, PTL

\* The tools die of a fork their chain does not have, before the call: of the 8th that
\* Goerli and Classic lack, and of no other.
DiesOfMissingFork ==
    stage = "terminated" => flags.chainid \in {5, 61} /\ Len(forks) = 7 /\ result = "none"

\* No other command line ends without an exit code, and no request has been made then.
THEOREM DiesOfMissingForkProved == ToolSpec => []DiesOfMissingFork
  <1>1. ToolInv => DiesOfMissingFork
    <2> SUFFICES ASSUME ToolInv, stage = "terminated"
                 PROVE  flags.chainid \in {5, 61} /\ Len(forks) = 7 /\ result = "none"
      BY DEF DiesOfMissingFork
    <2> DEFINE n == Len(forks)
    <2>1. /\ ToolTypeOK /\ FlagsValid /\ result = "none"
          /\ n < 9 /\ hard_forks[n + 1] = nullopt
          /\ \A k \in 1 .. n : hard_forks[k] # nullopt
      BY DEF ToolInv, Filling
    <2>2. n \in Nat
      BY <2>1 DEF ToolTypeOK
    <2> HIDE DEF n
    <2>3. n + 1 \in 1 .. 9
      BY <2>1, <2>2
    <2>4. flags.chainid \in {5, 61}
      BY <2>1, <2>3, ChainOfTable, ListOf
    <2>5. hard_forks[8] = nullopt /\ \A k \in 1 .. 7 : hard_forks[k] # nullopt
      BY <2>1, <2>4, ListOf
    <2>6. ~(8 \in 1 .. n) /\ ~(n + 1 \in 1 .. 7)
      BY <2>1, <2>5
    <2>7. n = 7
      BY <2>1, <2>2, <2>6
    <2> QED BY <2>1, <2>4, <2>7 DEF n
  <1> QED BY <1>1, ToolInvariance, PTL
=============================================================================
