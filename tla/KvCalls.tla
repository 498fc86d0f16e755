------------------------------- MODULE KvCalls -------------------------------
(***************************************************************************)
(* What the awaitables of src/silkoroutine/bindings/kv promise to the      *)
(* coroutines that co_await them, with nothing said of slots, reactions or *)
(* threads: coroutines run one at a time, a call suspends its coroutine    *)
(* and resumes it once, with the answer to that very call, a transaction   *)
(* is closed by its last call, and if anything goes wrong no coroutine     *)
(* ever runs again.                                                        *)
(***************************************************************************)
EXTENDS Naturals

CONSTANT Txs

VARIABLES phase,      \* phase[t]: where the coroutine of transaction t is
          calls,      \* calls[t]: how many calls it has made
          answered,   \* answered[t]: the call whose answer it received last
          alive

vars == <<phase, calls, answered, alive>>

Init ==
    /\ phase = [t \in Txs |-> "unborn"]
    /\ calls = [t \in Txs |-> 0]
    /\ answered = [t \in Txs |-> 0]
    /\ alive = TRUE

NobodyRuns == \A t \in Txs : phase[t] \notin {"running", "closed"}

Begin(t) ==
    /\ alive /\ NobodyRuns /\ phase[t] = "unborn"
    /\ phase' = [phase EXCEPT ![t] = "running"]
    /\ UNCHANGED <<calls, answered, alive>>

Call(t, kind) ==
    /\ alive /\ phase[t] = "running"
    /\ phase' = [phase EXCEPT ![t] = kind]
    /\ calls' = [calls EXCEPT ![t] = @ + 1]
    /\ UNCHANGED <<answered, alive>>

Return(t) ==
    /\ alive /\ NobodyRuns /\ phase[t] = "calling"
    /\ phase' = [phase EXCEPT ![t] = "running"]
    /\ answered' = [answered EXCEPT ![t] = calls[t]]
    /\ UNCHANGED <<calls, alive>>

CloseReturn(t) ==
    /\ alive /\ NobodyRuns /\ phase[t] = "closing"
    /\ phase' = [phase EXCEPT ![t] = "closed"]
    /\ UNCHANGED <<calls, answered, alive>>

End(t) ==
    /\ alive /\ phase[t] = "closed"
    /\ phase' = [phase EXCEPT ![t] = "ended"]
    /\ UNCHANGED <<calls, answered, alive>>

Die ==
    /\ alive
    /\ alive' = FALSE
    /\ UNCHANGED <<phase, calls, answered>>

Next ==
    \/ \E t \in Txs : \/ Begin(t)
                      \/ Call(t, "calling")
                      \/ Call(t, "closing")
                      \/ Return(t)
                      \/ CloseReturn(t)
                      \/ End(t)
    \/ Die

Spec == Init /\ [][Next]_vars
=============================================================================
