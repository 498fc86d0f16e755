-------------------------- MODULE RemoteTransaction --------------------------
(***************************************************************************)
(* The KV data access layer of one transaction,                            *)
(* src/silkoroutine/ethdb/kv/remote_transaction.{hpp,cpp} and              *)
(* remote_cursor.hpp, on top of the awaitables: its cursors, each open on  *)
(* a cursor of the server or not (cursor_id_ = 0), the map cursors_ of the *)
(* shared ones, and the server's own table of open cursors.                *)
(*                                                                         *)
(* One coroutine calls the methods.  A method is a chain of steps, each    *)
(* ending where it co_awaits a request; GrpcKvAwaitable shows that the     *)
(* reply a request returns with is its own.  The database is abstracted:   *)
(* the pair a seek or a next returns is known by the table it is from.     *)
(***************************************************************************)
EXTENDS Naturals, FiniteSets

CONSTANTS Tables,
          Cursors,      \* bound: the RemoteCursor objects a client can hold at a time
          MaxCalls,     \* bound: the requests made before the client must close
          NoTable, NoCursor

ASSUME RemoteTransactionAssumption ==
    /\ MaxCalls \in Nat
    /\ NoTable \notin Tables
    /\ NoCursor \notin Cursors

VARIABLES cursors_,     \* cursors_[T]: the shared cursor on T, NoCursor if not in the map
          cursor_id_,   \* cursor_id_[c]: the server's cursor, 0 if none is open
          held,         \* held[c]: "none", "own" (cursor()), "shared" (cursor(table))
          asked,        \* asked[c]: the table the client last asked c for
          careful,      \* whether every call so far was one a careful client makes
          method,       \* the method being executed
          self, table,  \* its cursor and its table, where it has them
          todo,         \* the tables of cursors_ close() has still to visit
          request,      \* the request awaited
          reply,        \* the server's reply to it, before the coroutine resumes
          halfClosed,   \* whether the half-close has been sent
          opened,       \* the server: opened[i] is the table cursor i is open on
          lastId,       \* the server: the last cursor id it handed out
          calls         \* the requests made so far

clientVars == <<cursors_, cursor_id_, held, asked, careful, method, self, table, todo>>
callVars == <<request, reply, halfClosed, calls>>
serverVars == <<opened, lastId>>
vars == <<clientVars, callVars, serverVars>>

Ids == 1 .. MaxCalls
NoRequest == [op |-> "none", id |-> 0, table |-> NoTable]
Requests ==
    [op : {"open"}, id : {0}, table : Tables]
        \cup [op : {"seek", "next", "close"}, id : {0} \cup Ids, table : {NoTable}]
        \cup [op : {"none", "halfclose"}, id : {0}, table : {NoTable}]
Replies == [is : {"none", "answer", "rejected", "undefined"}, id : {0} \cup Ids]
NoReply == [is |-> "none", id |-> 0]

\* What a request on a stream that is half-closed, or gone, comes to: nothing is
\* said of the program from there on, as after a rejected request.
Undefined == [is |-> "undefined", id |-> 0]

Methods == {"unborn", "idle", "cursor", "open_cursor", "seek", "next", "close_cursor",
            "seek_table", "close", "closed", "destroyed"}

TypeOK ==
    /\ cursors_ \in [Tables -> Cursors \cup {NoCursor}]
    /\ cursor_id_ \in [Cursors -> {0} \cup Ids]
    /\ held \in [Cursors -> {"none", "own", "shared"}]
    /\ asked \in [Cursors -> Tables \cup {NoTable}]
    /\ careful \in BOOLEAN
    /\ method \in Methods
    /\ self \in Cursors \cup {NoCursor}
    /\ table \in Tables \cup {NoTable}
    /\ todo \subseteq Tables
    /\ request \in Requests
    /\ reply \in Replies
    /\ halfClosed \in BOOLEAN
    /\ opened \in [Ids -> Tables \cup {NoTable}]
    /\ lastId \in 0 .. MaxCalls
    /\ calls \in Nat

Init ==
    /\ cursors_ = [T \in Tables |-> NoCursor]
    /\ cursor_id_ = [c \in Cursors |-> 0]
    /\ held = [c \in Cursors |-> "none"]
    /\ asked = [c \in Cursors |-> NoTable]
    /\ careful = TRUE
    /\ method = "unborn" /\ self = NoCursor /\ table = NoTable /\ todo = {}
    /\ request = NoRequest /\ reply = NoReply /\ halfClosed = FALSE /\ calls = 0
    /\ opened = [i \in Ids |-> NoTable] /\ lastId = 0

-----------------------------------------------------------------------------
(* The requests: each co_await of the awaitable sends one.                  *)

Send(op, id, T) ==
    /\ request' = [op |-> op, id |-> id, table |-> T]
    /\ reply' = IF halfClosed THEN Undefined ELSE NoReply
    /\ halfClosed' = (halfClosed \/ op = "halfclose")
    /\ calls' = calls + 1

async_open_cursor(T) == Send("open", 0, T)
async_seek(id) == Send("seek", id, NoTable)
async_next(id) == Send("next", id, NoTable)
async_close_cursor(id) == Send("close", id, NoTable)
async_close == Send("halfclose", 0, NoTable)

Finished == request' = NoRequest /\ reply' = NoReply /\ UNCHANGED <<halfClosed, calls>>

\* The method returns to the client.
Return ==
    /\ method' = "idle" /\ self' = NoCursor /\ table' = NoTable
    /\ UNCHANGED todo

-----------------------------------------------------------------------------
(* The client calls a method.                                               *)

\* RemoteDatabase::begin.
Begin ==
    /\ method = "unborn"
    /\ method' = "idle"
    /\ UNCHANGED <<cursors_, cursor_id_, held, asked, self, table, todo, callVars, careful, serverVars>>

\* What the client may call next: the methods of the transaction while it exists,
\* also when close() has returned, and those of a cursor it holds even when the
\* transaction is gone, for no method looks at more than the cursor's id.
MayCall == method \in {"idle", "closed"} /\ calls < MaxCalls
MayUse(c) == held[c] # "none" /\ method \in {"idle", "closed", "destroyed"} /\ calls < MaxCalls

Enter(m, c, T) == method' = m /\ self' = c /\ table' = T /\ UNCHANGED todo

\* cursor(): a new cursor of the client's own, not open yet.
CursorOwn(c) ==
    /\ MayCall /\ held[c] = "none"
    /\ held' = [held EXCEPT ![c] = "own"]
    /\ asked' = [asked EXCEPT ![c] = NoTable]
    /\ UNCHANGED <<cursors_, cursor_id_, method, self, table, todo, callVars, careful, serverVars>>

\* The client drops a cursor of its own: no request is made for it.
Drop(c) ==
    /\ MayUse(c) /\ held[c] = "own"
    /\ careful' = (careful /\ (cursor_id_[c] = 0 \/ halfClosed))
    /\ held' = [held EXCEPT ![c] = "none"]
    /\ cursor_id_' = [cursor_id_ EXCEPT ![c] = 0]
    /\ UNCHANGED <<cursors_, asked, method, self, table, todo, callVars, serverVars>>

\* cursor(table) finds the table in the map, and returns what it finds ...
CursorFound(T) ==
    /\ MayCall /\ cursors_[T] # NoCursor
    /\ asked' = [asked EXCEPT ![cursors_[T]] = T]
    /\ UNCHANGED <<cursors_, cursor_id_, held, method, self, table, todo, callVars, careful, serverVars>>

\* ... or opens a new cursor, put into the map when the open has returned.
CursorNew(T, c) ==
    /\ MayCall /\ cursors_[T] = NoCursor /\ held[c] = "none"
    /\ Enter("cursor", c, T)
    /\ asked' = [asked EXCEPT ![c] = T]
    /\ careful' = (careful /\ ~halfClosed)
    /\ async_open_cursor(T)
    /\ UNCHANGED <<cursors_, cursor_id_, held, serverVars>>

\* A careful client closes and re-opens only cursors of its own, opens one that
\* is closed, seeks and steps one that is open, and does all of it before close().
\* The code asks none of it.
Opens(c) == careful' = (careful /\ ~halfClosed /\ held[c] = "own" /\ cursor_id_[c] = 0)
Reads(c) == careful' = (careful /\ ~halfClosed /\ cursor_id_[c] # 0)
Closes(c) == careful' = (careful /\ ~halfClosed /\ held[c] = "own")

\* open_cursor does nothing to a cursor that is open, whatever table it is on.
OpenCursor(c, T) ==
    /\ MayUse(c)
    /\ Opens(c)
    /\ asked' = [asked EXCEPT ![c] = T]
    /\ IF cursor_id_[c] = 0
       THEN Enter("open_cursor", c, T) /\ async_open_cursor(T)
       ELSE UNCHANGED <<method, self, table, todo, callVars>>
    /\ UNCHANGED <<cursors_, cursor_id_, held, serverVars>>

\* seek and next send the id they have, 0 included.
Seek(c) ==
    /\ MayUse(c)
    /\ Reads(c)
    /\ Enter("seek", c, NoTable) /\ async_seek(cursor_id_[c])
    /\ UNCHANGED <<cursors_, cursor_id_, held, asked, serverVars>>

NextPair(c) ==
    /\ MayUse(c)
    /\ Reads(c)
    /\ Enter("next", c, NoTable) /\ async_next(cursor_id_[c])
    /\ UNCHANGED <<cursors_, cursor_id_, held, asked, serverVars>>

\* Mutant: the close is sent without a look at cursor_id_.
CloseCursor_Always(c) ==
    /\ MayUse(c)
    /\ Closes(c)
    /\ Enter("close_cursor", c, NoTable) /\ async_close_cursor(cursor_id_[c])
    /\ UNCHANGED <<cursors_, cursor_id_, held, asked, serverVars>>

\* close_cursor does nothing to a cursor that is closed.
CloseCursor(c) ==
    /\ MayUse(c)
    /\ Closes(c)
    /\ IF cursor_id_[c] # 0
       THEN Enter("close_cursor", c, NoTable) /\ async_close_cursor(cursor_id_[c])
       ELSE UNCHANGED <<method, self, table, todo, callVars>>
    /\ UNCHANGED <<cursors_, cursor_id_, held, asked, serverVars>>

\* seek(table, key): open, unless open already, then seek, then close.
SeekTable(c, T) ==
    /\ MayUse(c)
    /\ Opens(c)
    /\ Enter("seek_table", c, T)
    /\ asked' = [asked EXCEPT ![c] = T]
    /\ IF cursor_id_[c] = 0 THEN async_open_cursor(T) ELSE async_seek(cursor_id_[c])
    /\ UNCHANGED <<cursors_, cursor_id_, held, serverVars>>

\* Mutant: close() leaves the cursors to the server.
CloseFrom_LeavesOpen(tables, ids) ==
    /\ todo' = {} /\ self' = NoCursor
    /\ cursors_' = [T \in Tables |-> NoCursor]
    /\ async_close

\* close(): close_cursor of the cursors in the map one after the other (those
\* that are closed are passed over), then clear the map and half-close.
CloseFrom(tables, ids) ==
    LET pending == {T \in tables : ids[cursors_[T]] # 0}
    IN  IF pending # {}
        THEN \E T \in pending :
                /\ todo' = pending \ {T}
                /\ self' = cursors_[T]
                /\ async_close_cursor(ids[cursors_[T]])
                /\ UNCHANGED cursors_
        ELSE /\ todo' = {} /\ self' = NoCursor
             /\ cursors_' = [T \in Tables |-> NoCursor]
             /\ async_close

\* No bound on the calls keeps the client from close().
Close ==
    /\ method \in {"idle", "closed"}
    /\ careful' = (careful /\ ~halfClosed)
    /\ method' = "close" /\ table' = NoTable
    /\ CloseFrom({T \in Tables : cursors_[T] # NoCursor}, cursor_id_)
    /\ UNCHANGED <<cursor_id_, held, asked, serverVars>>

Destroy ==
    /\ method = "closed"
    /\ method' = "destroyed"
    /\ UNCHANGED <<cursors_, cursor_id_, held, asked, self, table, todo, callVars, careful, serverVars>>

-----------------------------------------------------------------------------
(* The server handles the request.  It hands out fresh cursor ids, never 0, *)
(* and rejects a request that names a cursor it does not have: the stream   *)
(* ends with an error, and so does the client's process.                    *)

OpenAtServer(i) == i # 0 /\ opened[i] # NoTable

ServeOpen ==
    /\ request.op = "open" /\ reply = NoReply
    /\ lastId' = lastId + 1
    /\ opened' = [opened EXCEPT ![lastId + 1] = request.table]
    /\ reply' = [is |-> "answer", id |-> lastId + 1]
    /\ UNCHANGED <<clientVars, request, halfClosed, calls>>

ServeCursor ==
    /\ request.op \in {"seek", "next", "close"} /\ reply = NoReply
    /\ IF OpenAtServer(request.id)
       THEN /\ reply' = [is |-> "answer", id |-> request.id]
            /\ opened' = IF request.op = "close"
                         THEN [opened EXCEPT ![request.id] = NoTable] ELSE opened
       ELSE /\ reply' = [is |-> "rejected", id |-> 0]
            /\ UNCHANGED opened
    /\ UNCHANGED <<clientVars, request, halfClosed, calls, lastId>>

\* The half-close ends the server's transaction, and with it every cursor.
ServeHalfClose ==
    /\ request.op = "halfclose" /\ reply = NoReply
    /\ reply' = [is |-> "answer", id |-> 0]
    /\ opened' = [i \in Ids |-> NoTable]
    /\ UNCHANGED <<clientVars, request, halfClosed, calls, lastId>>

-----------------------------------------------------------------------------
(* The coroutine resumes with the reply, and runs on to its next co_await.  *)

\* Mutant: "Can we shoot and forget?" (remote_cursor.hpp:85) - for every request.
Resumed_Forgets(op) == request.op = op /\ reply.is \in {"none", "answer"}

Resumed(op) == request.op = op /\ reply.is = "answer"

ResumeOpen ==
    /\ Resumed("open")
    /\ cursor_id_' = [cursor_id_ EXCEPT ![self] = reply.id]
    /\ IF method = "cursor"
       THEN /\ cursors_' = [cursors_ EXCEPT ![table] = self]
            /\ held' = [held EXCEPT ![self] = "shared"]
       ELSE UNCHANGED <<cursors_, held>>
    /\ IF method = "seek_table"
       THEN async_seek(reply.id) /\ UNCHANGED <<method, self, table, todo>>
       ELSE Return /\ Finished
    /\ UNCHANGED <<asked, careful, serverVars>>

\* Mutant: every seek closes its cursor, as seek(table, key) does.
ResumeSeek_Closes ==
    /\ Resumed("seek")
    /\ async_close_cursor(cursor_id_[self])
    /\ UNCHANGED <<clientVars, serverVars>>

\* Mutant: seek(table, key) leaves its cursor open, as seek does.
ResumeSeek_LeavesOpen ==
    /\ Resumed("seek")
    /\ Return /\ Finished
    /\ UNCHANGED <<cursors_, cursor_id_, held, asked, careful, serverVars>>

ResumeSeek ==
    /\ Resumed("seek")
    /\ IF method = "seek_table"
       THEN async_close_cursor(cursor_id_[self]) /\ UNCHANGED <<method, self, table, todo>>
       ELSE Return /\ Finished
    /\ UNCHANGED <<cursors_, cursor_id_, held, asked, careful, serverVars>>

\* Mutant: the reply is taken and the method does not return.
ResumeNext_Stays ==
    /\ Resumed("next")
    /\ Finished
    /\ UNCHANGED <<clientVars, serverVars>>

ResumeNext ==
    /\ Resumed("next")
    /\ Return /\ Finished
    /\ UNCHANGED <<cursors_, cursor_id_, held, asked, careful, serverVars>>

\* Mutant: cursor_id_ is not reset.
ResumeCloseCursor_KeepsId ==
    /\ Resumed("close")
    /\ IF method = "close"
       THEN CloseFrom(todo, cursor_id_) /\ UNCHANGED <<method, table>>
       ELSE Return /\ Finished /\ UNCHANGED cursors_
    /\ UNCHANGED <<cursor_id_, held, asked, careful, serverVars>>

ResumeCloseCursor ==
    /\ Resumed("close")
    /\ cursor_id_' = [cursor_id_ EXCEPT ![self] = 0]
    /\ IF method = "close"
       THEN CloseFrom(todo, cursor_id_') /\ UNCHANGED <<method, table>>
       ELSE Return /\ Finished /\ UNCHANGED cursors_
    /\ UNCHANGED <<held, asked, careful, serverVars>>

ResumeClose ==
    /\ Resumed("halfclose")
    /\ method' = "closed"
    /\ Finished
    /\ UNCHANGED <<cursors_, cursor_id_, held, asked, self, table, todo, careful, serverVars>>

-----------------------------------------------------------------------------
Client ==
    \/ Begin
    \/ \E c \in Cursors :
          \/ CursorOwn(c)
          \/ Drop(c)
          \/ Seek(c)
          \/ NextPair(c)
          \/ CloseCursor(c)
          \/ \E T \in Tables : CursorNew(T, c) \/ OpenCursor(c, T) \/ SeekTable(c, T)
    \/ \E T \in Tables : CursorFound(T)
    \/ Close
    \/ Destroy

Serve == ServeOpen \/ ServeCursor \/ ServeHalfClose

Resume == ResumeOpen \/ ResumeSeek \/ ResumeNext \/ ResumeCloseCursor \/ ResumeClose

Next == Client \/ Serve \/ Resume

Spec == Init /\ [][Next]_vars

\* The server answers and the io_context thread runs; the client need not call.
FairSpec == Spec /\ WF_vars(Serve) /\ WF_vars(Resume)

-----------------------------------------------------------------------------
(* Properties.                                                              *)

\* The client's cursors and the server's agree, through every sequence of calls:
\* an id a cursor holds is one the server has open (until the reply to its close
\* is taken), no two cursors hold the same, and outside a call each cursor the
\* server has open is one a careful client can still close.
IdsAgree ==
    /\ \A c \in Cursors : cursor_id_[c] # 0 =>
          \/ OpenAtServer(cursor_id_[c])
          \/ request.op = "close" /\ request.id = cursor_id_[c] /\ reply.is = "answer"
          \/ halfClosed
    /\ \A c, d \in Cursors : cursor_id_[c] # 0 /\ cursor_id_[c] = cursor_id_[d] => c = d
    /\ careful /\ request = NoRequest =>
          \A i \in Ids : OpenAtServer(i) => \E c \in Cursors : cursor_id_[c] = i

\* When close() half-closes the stream every shared cursor has been closed, also
\* those the client closed or re-opened itself in between.
CloseClosesShared ==
    halfClosed =>
        \A c \in Cursors : held[c] = "shared" => cursor_id_[c] = 0

\* Only a seek or a next of a closed cursor is ever rejected, and a careful client
\* makes none: what a client closes or re-opens behind the back of cursors_ never
\* makes open_cursor, close_cursor or close() name a cursor the server does not have.
RejectedOnlyIfNotOpen ==
    reply.is = "rejected" =>
        /\ ~careful
        /\ request.id = 0 /\ request.op \in {"seek", "next"}
        /\ cursor_id_[self] = 0

\* The layer keeps the contract of the awaitables: a request is made only when the
\* one before has been answered.  One on a stream that is half-closed is never the
\* layer's own doing: a method called after close() makes it, never close_cursor()
\* of a shared cursor, whatever the client did with it before close().
AwaitsInTurn ==
    [][request' # request /\ request' # NoRequest =>
          /\ request = NoRequest \/ reply.is = "answer"
          /\ halfClosed =>
                /\ method \in {"closed", "destroyed"}
                /\ request'.op = "close" => held[self'] = "own"]_vars

\* A careful client finds the cursors in cursors_ open, each on its own table.
SharedCursorsOpen ==
    careful /\ method # "close" => \A T \in Tables : cursors_[T] # NoCursor =>
        /\ held[cursors_[T]] = "shared"
        /\ cursor_id_[cursors_[T]] # 0 /\ opened[cursor_id_[cursors_[T]]] = T

\* Every method called before close() returns, unless its request was rejected; and
\* close() visits each cursor and ends, whatever the client did before.
MethodsReturn ==
    /\ /\ method \in {"cursor", "open_cursor", "seek", "next", "close_cursor", "seek_table"}
       /\ reply # Undefined
       ~> method = "idle" \/ reply.is = "rejected"
    /\ method = "close" /\ reply # Undefined ~> method = "closed"
-----------------------------------------------------------------------------
(* What a careful client sees: an object whose methods take effect at once.  *)

Ended == method \in {"closed", "destroyed"}
InCall == method \notin {"unborn", "idle"} /\ ~Ended

\* The reply to the request that decides the call has been given.
TookEffect ==
    \/ reply.is = "answer" /\ request.op # "close" /\ ~(method = "seek_table" /\ request.op = "open")
    \/ reply.is = "answer" /\ method = "close_cursor"
    \/ method = "seek_table" /\ request.op = "close"

\* The table a cursor is open on: at the server, whether the reply has been taken or
\* not; the cursor of a seek(table, key) is closed before and after it.
OpenOn(c) ==
    IF method = "seek_table" /\ c = self THEN NoTable
    ELSE IF request.op = "open" /\ reply.is = "answer" /\ c = self THEN opened[reply.id]
    ELSE IF cursor_id_[c] = 0 THEN NoTable ELSE opened[cursor_id_[c]]

\* The pair a read is to return comes from the table its cursor was open on when the
\* server answered; the close that follows in seek(table, key) does not change it.
ReadFrom ==
    IF ~(TookEffect /\ method \in {"seek", "next", "seek_table"}) THEN NoTable
    ELSE IF request.op = "close" /\ reply.is = "answer" THEN table
    ELSE opened[request.id]

\* A client that has not been careful is told nothing any more.
Told(value, otherwise) == IF careful THEN value ELSE otherwise

ToldState ==
    Told(IF method = "unborn" THEN "unborn" ELSE IF Ended THEN "closed" ELSE "open", "misused")
ToldHeld == Told(held, [c \in Cursors |-> "none"])
ToldShared == Told(cursors_, [T \in Tables |-> NoCursor])
ToldOn == Told([c \in Cursors |-> OpenOn(c)], [c \in Cursors |-> NoTable])
ToldCall ==
    Told([method |-> IF InCall THEN method ELSE "none",
          cursor |-> IF InCall /\ method # "close" THEN self ELSE NoCursor,
          table |-> IF InCall THEN table ELSE NoTable],
         [method |-> "none", cursor |-> NoCursor, table |-> NoTable])
ToldDone == Told(InCall /\ TookEffect, FALSE)
ToldAnswer == Told(ReadFrom, NoTable)

Object == INSTANCE KvTransaction WITH
    state <- ToldState, held <- ToldHeld, shared <- ToldShared, on <- ToldOn,
    call <- ToldCall, done <- ToldDone, answer <- ToldAnswer

\* Every method of the transaction and its cursors takes effect at once, between
\* its call and its return, as KvTransaction says: though seek(table, key) is three
\* requests, close() one for each cursor, and the table a cursor is on is known to
\* the server only, a careful client sees none of it.
ActsAtOnce == Object!Spec

=============================================================================
