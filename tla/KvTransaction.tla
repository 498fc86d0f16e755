---------------------------- MODULE KvTransaction ----------------------------
(***************************************************************************)
(* What a transaction of src/silkoroutine/ethdb/kv (transaction.hpp,       *)
(* cursor.hpp) promises to a client that keeps to the rules of its calls,  *)
(* with nothing said of requests, cursor ids or the server: every method   *)
(* takes effect at once, between its call and its return; seek(table, key) *)
(* reads that table and leaves no cursor open; cursor(table) has one       *)
(* cursor for each table; and close() ends the transaction when it has     *)
(* closed the cursors that are shared.                                     *)
(*                                                                         *)
(* The rules are the guards of Call: cursors of one's own only are opened  *)
(* and closed, the one when closed and the other when open, only open ones *)
(* are read, and none of it after close().  A client that breaks them is   *)
(* promised nothing here.                                                  *)
(***************************************************************************)
CONSTANTS Tables, Cursors, NoTable, NoCursor

VARIABLES state,        \* "unborn", "open", "closed" or "misused"
          held,         \* held[c]: "none", "own" or "shared"
          shared,       \* shared[T]: the cursor of cursor(T), NoCursor if none yet
          on,           \* on[c]: the table c is open on, NoTable if it is closed
          call,         \* the call in progress
          done,         \* has it taken effect?
          answer        \* the table the pair it returns was read from, if any

vars == <<state, held, shared, on, call, done, answer>>

CallOf(m, c, T) == [method |-> m, cursor |-> c, table |-> T]
NoCall == CallOf("none", NoCursor, NoTable)
NothingShared == [T \in Tables |-> NoCursor]
NothingOpen == [c \in Cursors |-> NoTable]

Init ==
    /\ state = "unborn"
    /\ held = [c \in Cursors |-> "none"]
    /\ shared = NothingShared /\ on = NothingOpen
    /\ call = NoCall /\ done = FALSE /\ answer = NoTable

Begin ==
    /\ state = "unborn"
    /\ state' = "open"
    /\ UNCHANGED <<held, shared, on, call, done, answer>>

Ready == state = "open" /\ call = NoCall
AtRest == state \in {"open", "closed"} /\ call = NoCall

-----------------------------------------------------------------------------
(* cursor() and the end of what it returned.                                *)

New(c) ==
    /\ AtRest /\ held[c] = "none" /\ on[c] = NoTable
    /\ held' = [held EXCEPT ![c] = "own"]
    /\ UNCHANGED <<state, shared, on, call, done, answer>>

Drop(c) ==
    /\ AtRest /\ held[c] = "own" /\ on[c] = NoTable
    /\ held' = [held EXCEPT ![c] = "none"]
    /\ UNCHANGED <<state, shared, on, call, done, answer>>

-----------------------------------------------------------------------------
(* The calls.                                                               *)

Opens(m, c, T) ==
    \/ m = "cursor" /\ held[c] = "none" /\ shared[T] = NoCursor
    \/ m \in {"open_cursor", "seek_table"} /\ held[c] = "own"

MayCall(m, c, T) ==
    \/ T \in Tables /\ on[c] = NoTable /\ Opens(m, c, T)
    \/ T = NoTable /\ on[c] # NoTable /\ held[c] # "none" /\ m \in {"seek", "next"}
    \/ T = NoTable /\ on[c] # NoTable /\ held[c] = "own" /\ m = "close_cursor"

Call(m, c, T) ==
    /\ Ready /\ MayCall(m, c, T)
    /\ call' = CallOf(m, c, T)
    /\ UNCHANGED <<state, held, shared, on, done, answer>>

\* cursor(table), open_cursor: the cursor is open on the table asked for.
Open ==
    /\ ~done /\ call.method \in {"cursor", "open_cursor"}
    /\ on' = [on EXCEPT ![call.cursor] = call.table]
    /\ done' = TRUE
    /\ UNCHANGED <<state, held, shared, call, answer>>

\* seek(key), next: a pair from the table the cursor is open on.
Read ==
    /\ ~done /\ call.method \in {"seek", "next"}
    /\ answer' = on[call.cursor]
    /\ done' = TRUE
    /\ UNCHANGED <<state, held, shared, on, call>>

\* seek(table, key): a pair from the table asked for; the cursor stays closed.
ReadTable ==
    /\ ~done /\ call.method = "seek_table"
    /\ answer' = call.table
    /\ done' = TRUE
    /\ UNCHANGED <<state, held, shared, on, call>>

Close ==
    /\ ~done /\ call.method = "close_cursor"
    /\ on' = [on EXCEPT ![call.cursor] = NoTable]
    /\ done' = TRUE
    /\ UNCHANGED <<state, held, shared, call, answer>>

\* The call returns, and cursor(table) will return the same cursor again.
Return ==
    /\ done /\ call.method \notin {"none", "close"}
    /\ IF call.method = "cursor"
       THEN /\ shared' = [shared EXCEPT ![call.table] = call.cursor]
            /\ held' = [held EXCEPT ![call.cursor] = "shared"]
       ELSE UNCHANGED <<shared, held>>
    /\ call' = NoCall /\ done' = FALSE /\ answer' = NoTable
    /\ UNCHANGED <<state, on>>

-----------------------------------------------------------------------------
(* close().                                                                 *)

\* The shared cursors are given up when all of them are closed.
GiveUpShared ==
    /\ \A T \in Tables : shared[T] # NoCursor => on[shared[T]] = NoTable
    /\ shared' = NothingShared

CallClose ==
    /\ Ready
    /\ call' = CallOf("close", NoCursor, NoTable)
    /\ GiveUpShared \/ UNCHANGED shared
    /\ UNCHANGED <<state, held, on, done, answer>>

CloseShared(T) ==
    /\ call.method = "close" /\ shared[T] # NoCursor /\ on[shared[T]] # NoTable
    /\ on' = [on EXCEPT ![shared[T]] = NoTable]
    /\ UNCHANGED <<state, held, shared, call, done, answer>>

CloseLast ==
    /\ call.method = "close" /\ GiveUpShared
    /\ UNCHANGED <<state, held, on, call, done, answer>>

\* The transaction ends, with the cursors of the client's own.
End ==
    /\ ~done /\ call.method = "close" /\ shared = NothingShared
    /\ on' = NothingOpen
    /\ done' = TRUE
    /\ UNCHANGED <<state, held, shared, call, answer>>

CloseReturns ==
    /\ done /\ call.method = "close"
    /\ state' = "closed"
    /\ call' = NoCall /\ done' = FALSE
    /\ UNCHANGED <<held, shared, on, answer>>

\* The client breaks a rule.  (The state is then the initial one but for its name.)
Misuse ==
    /\ AtRest
    /\ state' = "misused"
    /\ held' = [c \in Cursors |-> "none"]
    /\ shared' = NothingShared /\ on' = NothingOpen
    /\ UNCHANGED <<call, done, answer>>

Next ==
    \/ Begin
    \/ \E c \in Cursors : \/ New(c)
                          \/ Drop(c)
                          \/ \E m \in {"cursor", "open_cursor", "seek", "next",
                                       "close_cursor", "seek_table"},
                                T \in Tables \cup {NoTable} : Call(m, c, T)
    \/ Open \/ Read \/ ReadTable \/ Close \/ Return
    \/ CallClose \/ CloseLast \/ End \/ CloseReturns
    \/ \E T \in Tables : CloseShared(T)
    \/ Misuse

Spec == Init /\ [][Next]_vars
=============================================================================
