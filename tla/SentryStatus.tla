---------------------------- MODULE SentryStatus ----------------------------
(***************************************************************************)
(* The tools src/cmd/sentry_set_status.cpp ("sync") and                    *)
(* src/cmd/sentry_set_status_async.cpp ("queue", with a deadline): the     *)
(* table of chains, the checks of the flags, the list of forks put into    *)
(* the one SetStatus request, and the one unary call.                      *)
(*                                                                         *)
(* A flag is known by what the checks tell apart.  The Sentry and gRPC     *)
(* are external: the call comes back with a status, or does not.           *)
(***************************************************************************)
EXTENDS Integers, Sequences

VARIABLES tool,         \* "sync" or "queue"
          flags,        \* the command line
          stage,        \* "main", "forks", "called", "exited" or "terminated"
          forks,        \* the forks added to the request so far
          result,       \* the status of the call, "none" before it has one
          exit          \* the exit code, once stage = "exited"

toolVars == <<tool, flags, stage, forks, result, exit>>

-----------------------------------------------------------------------------
(* The chains.                                                              *)

nullopt == -1
nullptr == [f \in {} |-> nullopt]

\* The fork blocks of a ChainConfig, by the names of its members.
kMainnetConfig ==
    [homestead_block |-> 1150000, tangerine_whistle_block |-> 2463000,
     spurious_dragon_block |-> 2675000, byzantium_block |-> 4370000,
     constantinople_block |-> 7280000, petersburg_block |-> 7280000,
     istanbul_block |-> 9069000, muir_glacier_block |-> 9200000,
     berlin_block |-> 12244000, dao_block |-> 1920000]
kRopstenConfig ==
    [homestead_block |-> 0, tangerine_whistle_block |-> 0,
     spurious_dragon_block |-> 10, byzantium_block |-> 1700000,
     constantinople_block |-> 4230000, petersburg_block |-> 4939394,
     istanbul_block |-> 6485846, muir_glacier_block |-> 7117117,
     berlin_block |-> 9812189, dao_block |-> nullopt]
kGoerliConfig ==
    [homestead_block |-> 0, tangerine_whistle_block |-> 0,
     spurious_dragon_block |-> 0, byzantium_block |-> 0,
     constantinople_block |-> 0, petersburg_block |-> 0,
     istanbul_block |-> 1561651, muir_glacier_block |-> nullopt,
     berlin_block |-> 4460644, dao_block |-> nullopt]
kClassicMainnetConfig ==
    [homestead_block |-> 1150000, tangerine_whistle_block |-> 2500000,
     spurious_dragon_block |-> 8772000, byzantium_block |-> 8772000,
     constantinople_block |-> 9573000, petersburg_block |-> 9573000,
     istanbul_block |-> 10500839, muir_glacier_block |-> nullopt,
     berlin_block |-> nullopt, dao_block |-> nullopt]

lookup_chain_config(chain_id) ==
    CASE chain_id = 1 -> kMainnetConfig
      [] chain_id = 3 -> kRopstenConfig
      [] chain_id = 5 -> kGoerliConfig
      [] chain_id = 61 -> kClassicMainnetConfig
      [] OTHER -> nullptr

chain_config == lookup_chain_config(flags.chainid)

\* Mutant: one of the push_backs names the wrong member.
hard_forks_IstanbulTwice ==
    <<chain_config.homestead_block, chain_config.tangerine_whistle_block,
      chain_config.spurious_dragon_block, chain_config.byzantium_block,
      chain_config.constantinople_block, chain_config.petersburg_block,
      chain_config.istanbul_block, chain_config.istanbul_block,
      chain_config.berlin_block>>

\* The list that main builds, one push_back for each entry: dao_block is not in it.
hard_forks ==
    <<chain_config.homestead_block, chain_config.tangerine_whistle_block,
      chain_config.spurious_dragon_block, chain_config.byzantium_block,
      chain_config.constantinople_block, chain_config.petersburg_block,
      chain_config.istanbul_block, chain_config.muir_glacier_block,
      chain_config.berlin_block>>

Flags == [chainid : {1, 3, 5, 61, 2},
          target : {"empty", "no port", "host:port"},
          blockHash : {"empty", "hash"},
          totalDifficulty : {"empty", "difficulty"}]

FlagsValid ==
    /\ chain_config # nullptr
    /\ flags.target = "host:port"
    /\ flags.blockHash # "empty"
    /\ flags.totalDifficulty # "empty"

ToolTypeOK ==
    /\ tool \in {"sync", "queue"}
    /\ flags \in Flags
    /\ stage \in {"main", "forks", "called", "exited", "terminated"}
    /\ forks \in Seq(Nat) /\ Len(forks) <= 9
    /\ result \in {"none", "ok", "error"}
    /\ exit \in {-1, 0, 1}

ToolInit ==
    /\ tool \in {"sync", "queue"}
    /\ flags \in Flags
    /\ stage = "main"
    /\ forks = <<>>
    /\ result = "none"
    /\ exit = 0

-----------------------------------------------------------------------------
CheckFlags ==
    /\ stage = "main"
    /\ IF FlagsValid
       THEN stage' = "forks" /\ UNCHANGED exit
       ELSE stage' = "exited" /\ exit' = -1
    /\ UNCHANGED <<tool, flags, forks, result>>

\* One round of the loop over hard_forks.  block.value() of a fork the chain does
\* not have throws std::bad_optional_access, which nobody catches.
AddFork ==
    /\ stage = "forks" /\ Len(forks) < Len(hard_forks)
    /\ LET block == hard_forks[Len(forks) + 1] IN
       IF block # nullopt
       THEN forks' = Append(forks, block) /\ UNCHANGED stage
       ELSE stage' = "terminated" /\ UNCHANGED forks
    /\ UNCHANGED <<tool, flags, result, exit>>

Call ==
    /\ stage = "forks" /\ Len(forks) = Len(hard_forks)
    /\ stage' = "called"
    /\ UNCHANGED <<tool, flags, forks, result, exit>>

\* The Sentry answers, or refuses, or cannot be reached ...
Answer ==
    /\ stage = "called" /\ result = "none"
    /\ result' \in {"ok", "error"}
    /\ UNCHANGED <<tool, flags, stage, forks, exit>>

\* Mutant: set_deadline is forgotten.
DeadlineExpires_Never == FALSE /\ UNCHANGED toolVars

\* ... or the deadline of the queue tool expires.
DeadlineExpires ==
    /\ tool = "queue" /\ stage = "called" /\ result = "none"
    /\ result' = "error"
    /\ UNCHANGED <<tool, flags, stage, forks, exit>>

\* The queue tool waits for its only tag first, so there is nothing to mix up.
Exit ==
    /\ stage = "called" /\ result # "none"
    /\ stage' = "exited"
    /\ exit' = IF result = "ok" THEN 0 ELSE IF tool = "sync" THEN 1 ELSE -1
    /\ UNCHANGED <<tool, flags, forks, result>>

ToolNext == CheckFlags \/ AddFork \/ Call \/ Answer \/ DeadlineExpires \/ Exit

ToolSpec == ToolInit /\ [][ToolNext]_toolVars

\* The tool runs and the deadline expires; the Sentry may stay silent.
FairToolSpec ==
    /\ ToolSpec
    /\ WF_toolVars(CheckFlags) /\ WF_toolVars(AddFork) /\ WF_toolVars(Call) /\ WF_toolVars(Exit)
    /\ WF_toolVars(DeadlineExpires)

-----------------------------------------------------------------------------
(* Properties.                                                              *)

\* The blocks of the forks that a chain has, the DAO fork's left aside.
ForkBlocks(config) ==
    {config[f] : f \in DOMAIN config \ {"dao_block"}} \ {nullopt}

\* A request that is sent names every fork of its chain but the one of the DAO, and
\* nothing else, by ascending blocks: it holds bare block numbers, and their order is all
\* that tells the forks apart.  It was asked for by flags that passed every check.
\* (Mainnet is the one chain of the table with a DAO fork, and its request lacks it.)
SentForksInOrder ==
    stage = "called" =>
        /\ FlagsValid
        /\ {forks[i] : i \in DOMAIN forks} = ForkBlocks(chain_config)
        /\ \A i, j \in DOMAIN forks : i < j => forks[i] <= forks[j]

\* Whatever the flags, the tool ends; the synchronous one has no deadline and may
\* wait for its Sentry for ever.
Ends == <>(stage \in {"exited", "terminated"} \/ (tool = "sync" /\ stage = "called"))

\* What the error message of an unknown chain implies ("Use --chainid flag to
\* specify the chain ID"): a chain of the table is one the tool can be used for.
EveryKnownChainWorks == stage # "terminated"
=============================================================================
