-------------------------------- MODULE Log --------------------------------
(***************************************************************************)
(* The log of src/silkoroutine/common: a log_ object holds log_mtx_ from   *)
(* its construction to the end of the statement, the statement puts its    *)
(* pieces into log_streams_, and teebuf puts each of them into two stream  *)
(* buffers.  log_set_streams_ replaces the two, without the mutex.         *)
(*                                                                         *)
(* A piece stands for the characters of one `<<`, which teebuf puts one at *)
(* a time: it may fail, and the others may act, between the two buffers.   *)
(* The message is evaluated with the mutex held, and may call a function   *)
(* that logs.  A statement below log_verbosity_ does nothing: it is left   *)
(* out.                                                                    *)
(***************************************************************************)
EXTENDS Naturals, Sequences

CONSTANTS Threads,
          NoThread,
          MaxLines,     \* bound: statements of each thread
          MaxChanges    \* bound: calls of log_set_streams_

ASSUME LogAssumption ==
    /\ NoThread \notin Threads
    /\ MaxLines \in Nat /\ MaxChanges \in Nat

VARIABLES log_mtx_,     \* the thread that holds the mutex, or NoThread
          at,           \* at[t]: where thread t is in its statement
          piece,        \* piece[t]: the piece of the line it is at
          lines,        \* lines[t]: the statements it has begun
          eof,          \* eof[t]: r1 == EOF in its overflow()
          bad,          \* badbit of log_streams_
          text,         \* text[i]: what buffer i received since it was set
          changes,      \* the calls of log_set_streams_ so far
          changing      \* one of them is between its two assignments

lineVars == <<log_mtx_, at, piece, lines, eof>>
streamVars == <<bad, text>>
changeVars == <<changes, changing>>
vars == <<lineVars, streamVars, changeVars>>

\* The header (tag and time), the message, and the end of the line.
Pieces == 1 .. 3
Piece(t) == [thread |-> t, line |-> lines[t], piece |-> piece[t]]

TypeOK ==
    /\ log_mtx_ \in Threads \cup {NoThread}
    /\ at \in [Threads -> {"idle", "sb1", "sb2", "flush", "nested", "done"}]
    /\ piece \in [Threads -> Pieces]
    /\ lines \in [Threads -> 0 .. MaxLines]
    /\ eof \in [Threads -> BOOLEAN]
    /\ bad \in BOOLEAN
    /\ text \in [1 .. 2 -> Seq([thread : Threads, line : 1 .. MaxLines, piece : Pieces])]
    /\ changes \in 0 .. MaxChanges
    /\ changing \in BOOLEAN

Init ==
    /\ log_mtx_ = NoThread
    /\ at = [t \in Threads |-> "idle"]
    /\ piece = [t \in Threads |-> 1]
    /\ lines = [t \in Threads |-> 0]
    /\ eof = [t \in Threads |-> FALSE]
    /\ bad = FALSE
    /\ text = [i \in 1 .. 2 |-> <<>>]
    /\ changes = 0
    /\ changing = FALSE

-----------------------------------------------------------------------------
(* A statement.                                                             *)

\* Mutant: the mutex is not taken.
Lock_NotTaken(t) ==
    /\ at[t] = "idle" /\ lines[t] < MaxLines
    /\ log_mtx_' = t
    /\ at' = [at EXCEPT ![t] = "sb1"]
    /\ piece' = [piece EXCEPT ![t] = 1]
    /\ lines' = [lines EXCEPT ![t] = @ + 1]
    /\ UNCHANGED <<eof, streamVars, changeVars>>

\* The constructor of log_.
Lock(t) ==
    /\ at[t] = "idle" /\ lines[t] < MaxLines
    /\ log_mtx_ = NoThread
    /\ log_mtx_' = t
    /\ at' = [at EXCEPT ![t] = "sb1"]
    /\ piece' = [piece EXCEPT ![t] = 1]
    /\ lines' = [lines EXCEPT ![t] = @ + 1]
    /\ UNCHANGED <<eof, streamVars, changeVars>>

\* On to the next `<<`; a line ends with "\n", or with std::endl, which flushes.
NextPiece(t) ==
    IF piece[t] < 3
    THEN /\ piece' = [piece EXCEPT ![t] = @ + 1]
         /\ at' = [at EXCEPT ![t] = "sb1"]
    ELSE /\ at' \in {[at EXCEPT ![t] = "done"], [at EXCEPT ![t] = "flush"]}
         /\ UNCHANGED piece

\* The message of the statement, its second piece, logs: the log_ it makes waits for
\* the mutex that its own thread holds.
Nest(t) ==
    /\ at[t] = "sb1" /\ piece[t] = 2
    /\ at' = [at EXCEPT ![t] = "nested"]
    /\ UNCHANGED <<log_mtx_, piece, lines, eof, streamVars, changeVars>>

\* A stream that is bad puts nothing.
PutNothing(t) ==
    /\ at[t] = "sb1" /\ bad
    /\ NextPiece(t)
    /\ UNCHANGED <<log_mtx_, lines, eof, streamVars, changeVars>>

\* sputc, which fails if the buffer cannot take the character.
Sputc(i, t, ok) ==
    text' = IF ok THEN [text EXCEPT ![i] = Append(@, Piece(t))] ELSE text

\* teebuf::overflow: the first buffer ...
PutFirst(t) ==
    /\ at[t] = "sb1" /\ ~bad
    /\ \E ok \in BOOLEAN : /\ Sputc(1, t, ok)
                           /\ eof' = [eof EXCEPT ![t] = ~ok]
    /\ at' = [at EXCEPT ![t] = "sb2"]
    /\ UNCHANGED <<log_mtx_, piece, lines, bad, changeVars>>

\* Mutant: overflow looks at the second buffer only.
PutSecond_LastResult(t) ==
    /\ at[t] = "sb2"
    /\ \E ok \in BOOLEAN : /\ Sputc(2, t, ok)
                           /\ bad' = (bad \/ ~ok)
    /\ NextPiece(t)
    /\ UNCHANGED <<log_mtx_, lines, eof, changeVars>>

\* ... and the second.  EOF of either makes the stream bad, and no later call
\* clears it.
PutSecond(t) ==
    /\ at[t] = "sb2"
    /\ \E ok \in BOOLEAN : /\ Sputc(2, t, ok)
                           /\ bad' = (bad \/ ~ok \/ eof[t])
    /\ NextPiece(t)
    /\ UNCHANGED <<log_mtx_, lines, eof, changeVars>>

\* std::endl: both buffers are synced, and either may fail.
Flush(t) ==
    /\ at[t] = "flush"
    /\ at' = [at EXCEPT ![t] = "done"]
    /\ \/ UNCHANGED streamVars
       \/ ~bad /\ bad' = TRUE /\ UNCHANGED text
    /\ UNCHANGED <<log_mtx_, piece, lines, eof, changeVars>>

\* Mutant: a statement that could not write keeps the mutex.
Unlock_OnlyIfGood(t) ==
    /\ at[t] = "done" /\ ~bad
    /\ log_mtx_' = NoThread
    /\ at' = [at EXCEPT ![t] = "idle"]
    /\ UNCHANGED <<piece, lines, eof, streamVars, changeVars>>

\* The destructor of log_, at the end of the statement.
Unlock(t) ==
    /\ at[t] = "done"
    /\ log_mtx_' = NoThread
    /\ at' = [at EXCEPT ![t] = "idle"]
    /\ UNCHANGED <<piece, lines, eof, streamVars, changeVars>>

-----------------------------------------------------------------------------
(* log_set_streams_, called by any thread at any time: sb1 = b1; sb2 = b2.  *)
(* The new buffers are empty and sound; badbit is left as it is.            *)

SetStream(i) ==
    /\ text' = [text EXCEPT ![i] = <<>>]
    /\ UNCHANGED <<bad, lineVars>>

SetFirst ==
    /\ ~changing /\ changes < MaxChanges
    /\ SetStream(1)
    /\ changing' = TRUE
    /\ changes' = changes + 1

SetSecond ==
    /\ changing
    /\ SetStream(2)
    /\ changing' = FALSE
    /\ UNCHANGED changes

-----------------------------------------------------------------------------
Statement(t) ==
    \/ PutNothing(t)
    \/ PutFirst(t)
    \/ PutSecond(t)
    \/ Flush(t)
    \/ Unlock(t)

Next ==
    \/ \E t \in Threads : Lock(t) \/ Nest(t) \/ Statement(t)
    \/ SetFirst
    \/ SetSecond

Spec == Init /\ [][Next]_vars

\* A thread that has begun a statement goes on with it, unless its message logs.
FairSpec == Spec /\ \A t \in Threads : WF_vars(Statement(t))

-----------------------------------------------------------------------------
(* Properties.                                                              *)

\* q is the piece that comes after p: of the same line, or the first of the next
\* line of its thread, or of any line of another.
Follows(p, q) ==
    IF p.piece < 3
    THEN q = [p EXCEPT !.piece = @ + 1]
    ELSE q.piece = 1 /\ (q.thread = p.thread => q.line = p.line + 1)

Latest(i) == text[i][Len(text[i])]

\* Lines are not mixed up, and none is missing: a piece is followed by the next one
\* of its line, a line by the next one of its thread, in both streams, whoever logs,
\* fails or changes the streams meanwhile; and while nobody logs, and nothing has
\* failed, the last line is a whole one.
LinesWhole ==
    \A i \in 1 .. 2 :
        /\ \A k \in 1 .. Len(text[i]) - 1 : Follows(text[i][k], text[i][k + 1])
        /\ log_mtx_ = NoThread /\ ~bad /\ text[i] # <<>> => Latest(i).piece = 3

\* The two streams never differ by more than the piece in hand (log_test.cpp:39
\* compares them line by line): also when one of them fails, the other gets that
\* piece at most, and then neither gets any more.
StreamsAgree ==
    text[1] # <<>> /\ text[2] # <<>> =>
        \/ Latest(1) = Latest(2)
        \/ Follows(Latest(2), Latest(1)) /\ (bad \/ \E t \in Threads : at[t] = "sb2")
        \/ Follows(Latest(1), Latest(2)) /\ bad

\* The mutex is released by whoever takes it, whatever becomes of the streams: a
\* message that logs is the only way to block the log.
LogGoesOn == \A t \in Threads : log_mtx_ = t ~> log_mtx_ # t \/ at[t] = "nested"
=============================================================================
