----------------------- MODULE RemoteTransaction_proofs -----------------------
(***************************************************************************)
(* The theorems about RemoteTransaction, for every set of tables and of    *)
(* cursors and every number of calls.  The inductive invariant IInv has a  *)
(* conjunct for each thing a step can disturb: the control, the map of     *)
(* shared cursors, what close() has still to visit, the numbers of the     *)
(* server's cursors, and what a careful client can rely on.  One lemma for *)
(* each action shows them one after the other.                             *)
(***************************************************************************)
EXTENDS RemoteTransaction, TLAPS

\* A method awaits the request it has sent, and what the request says is what the
\* method, its cursor and its table say.  One sent after the half-close is left as it
\* is, and its client is not careful.
Control ==
    /\ request.op = "none" <=> method \in {"unborn", "idle", "closed", "destroyed"}
    /\ request.op = "none" => reply = NoReply
    /\ halfClosed <=> \/ request.op = "halfclose" \/ reply.is = "undefined"
                      \/ method \in {"closed", "destroyed"}
    /\ reply.is = "undefined" => ~careful
    /\ reply.is # "undefined" =>
         /\ request.op = "open" =>
               /\ self \in Cursors /\ cursor_id_[self] = 0
               /\ table \in Tables /\ request.table = table /\ asked[self] = table
               /\ \/ method = "cursor" /\ held[self] = "none" /\ cursors_[table] = NoCursor
                  \/ method \in {"open_cursor", "seek_table"} /\ held[self] # "none"
         /\ request.op \in {"seek", "next", "close"} =>
               self \in Cursors /\ request.id = cursor_id_[self] /\ held[self] # "none"
         /\ request.op = "seek" => \/ method = "seek"
                                   \/ method = "seek_table" /\ request.id # 0
         /\ request.op = "next" => method = "next"
         /\ request.op = "close" =>
               method \in {"close_cursor", "seek_table", "close"} /\ request.id # 0
         /\ request.op = "halfclose" => method = "close"
         /\ reply.is = "rejected" => request.op \in {"seek", "next"} /\ request.id = 0
         /\ careful /\ request.op \in {"seek", "next"} => request.id # 0
         /\ careful /\ method \in {"open_cursor", "close_cursor", "seek_table"} => held[self] = "own"

\* The map holds the shared cursors, each under one table, until close() clears it,
\* when all of them are closed.  A cursor nobody holds is closed.
Map ==
    /\ \A T, U \in Tables : cursors_[T] # NoCursor /\ cursors_[T] = cursors_[U] => T = U
    /\ \A T \in Tables : cursors_[T] # NoCursor => held[cursors_[T]] = "shared"
    /\ ~halfClosed => \A c \in Cursors : held[c] = "shared" => \E T \in Tables : cursors_[T] = c
    /\ halfClosed => \A T \in Tables : cursors_[T] = NoCursor
    /\ \A c \in Cursors : held[c] = "none" => cursor_id_[c] = 0

\* close() has still to visit the open cursors of the map but the one it is at.
Visiting ==
    /\ method # "close" => todo = {}
    /\ \A T \in todo : cursors_[T] \notin {NoCursor, self} /\ cursor_id_[cursors_[T]] # 0
    /\ method = "close" /\ request.op = "close" =>
          \A T \in Tables : cursors_[T] # NoCursor /\ cursor_id_[cursors_[T]] # 0 =>
              T \in todo \/ cursors_[T] = self

\* The server's ids: handed out in order, each held by one cursor at most, and open
\* at the server while it is held.
Numbers ==
    /\ lastId <= calls
    /\ request.op = "open" /\ reply = NoReply => lastId < calls /\ calls <= MaxCalls
    /\ \A c \in Cursors : cursor_id_[c] <= lastId
    /\ \A i \in Ids : opened[i] # NoTable => i <= lastId
    /\ halfClosed => \/ request.op = "halfclose" /\ reply = NoReply
                     \/ \A i \in Ids : opened[i] = NoTable
    /\ \A c, d \in Cursors : cursor_id_[c] # 0 /\ cursor_id_[c] = cursor_id_[d] => c = d
    /\ request.op = "open" /\ reply.is = "answer" =>
          /\ reply.id = lastId /\ lastId # 0 /\ opened[lastId] = request.table
          /\ \A c \in Cursors : cursor_id_[c] # lastId
    /\ request.op = "close" /\ reply.is = "answer" => opened[request.id] = NoTable
    /\ \A c \in Cursors : cursor_id_[c] # 0 =>
          \/ opened[cursor_id_[c]] # NoTable
          \/ request.op = "close" /\ request.id = cursor_id_[c] /\ reply.is = "answer"
          \/ halfClosed

\* What a careful client adds: no cursor of the server is lost, and each is on the
\* table the client last asked its cursor for, the shared ones on their own.
Care ==
    careful =>
        /\ \A i \in Ids : opened[i] # NoTable =>
              \/ \E c \in Cursors : cursor_id_[c] = i
              \/ request.op = "open" /\ reply.is = "answer" /\ i = lastId
        /\ \A c \in Cursors : cursor_id_[c] # 0 /\ opened[cursor_id_[c]] # NoTable =>
              opened[cursor_id_[c]] = asked[c]
        /\ method # "close" => \A T \in Tables : cursors_[T] # NoCursor =>
              cursor_id_[cursors_[T]] # 0 /\ opened[cursor_id_[cursors_[T]]] = T

\* Every shared cursor is closed when the stream is half-closed.
IInv == TypeOK /\ Control /\ Map /\ Visiting /\ Numbers /\ Care /\ CloseClosesShared

-----------------------------------------------------------------------------
(* The steps.                                                               *)

\* A request that names a cursor's id or a table has its type, and so has a reply.
LEMMA SentTyped ==
    /\ \A T \in Tables : [op |-> "open", id |-> 0, table |-> T] \in Requests
    /\ \A op \in {"seek", "next", "close"}, id \in {0} \cup Ids :
          [op |-> op, id |-> id, table |-> NoTable] \in Requests
    /\ [op |-> "halfclose", id |-> 0, table |-> NoTable] \in Requests
    /\ NoRequest \in Requests
    /\ NoReply \in Replies /\ Undefined \in Replies
    /\ \A i \in {0} \cup Ids :
          [is |-> "answer", id |-> i] \in Replies /\ [is |-> "rejected", id |-> i] \in Replies
  BY DEF Requests, Replies, NoRequest, NoReply, Undefined

\* The ids they carry are ids or 0.
LEMMA IdsTyped == TypeOK => request.id \in {0} \cup Ids /\ reply.id \in {0} \cup Ids
  BY DEF TypeOK, Requests, Replies

\* The invariant holds initially.
LEMMA InitIInv == Init => IInv
  <1> SUFFICES ASSUME Init PROVE IInv
    OBVIOUS
  <1>1. TypeOK
    <2>1. request \in Requests /\ reply \in Replies
      BY SentTyped DEF Init
    <2>2. lastId \in 0 .. MaxCalls /\ calls \in Nat
      BY RemoteTransactionAssumption DEF Init
    <2> QED BY <2>1, <2>2 DEF Init, TypeOK, Methods
  <1>2. Control /\ Map /\ Visiting
    BY DEF Init, Control, Map, Visiting, NoRequest, NoReply
  <1>3. Numbers
    BY RemoteTransactionAssumption DEF Init, Numbers, NoRequest, NoReply, Ids
  <1>4. Care /\ CloseClosesShared
    BY DEF Init, Care, CloseClosesShared, NoRequest, NoReply
  <1> QED BY <1>1, <1>2, <1>3, <1>4 DEF IInv

\* RemoteDatabase::begin changes nothing but the place.
LEMMA BeginStep ==
  ASSUME IInv, Begin
  PROVE  IInv'
  <1>1. TypeOK /\ Control /\ Map /\ Visiting /\ Numbers /\ Care /\ CloseClosesShared
    BY DEF IInv
  <1>2. /\ method = "unborn"
        /\ method' = "idle"
        /\ UNCHANGED <<cursors_, cursor_id_, held, asked, careful, self, table, todo, halfClosed,
                       request, reply, opened, lastId, calls>>
    BY DEF Begin, callVars, serverVars
  <1>3. TypeOK'
    BY SentTyped, <1>1, <1>2 DEF TypeOK, Methods
  <1>4. Control'
    BY <1>1, <1>2 DEF TypeOK, Control, Numbers, NoRequest, NoReply, Ids
  <1>5. Map'
    BY <1>1, <1>2 DEF TypeOK, Control, Map, NoRequest
  <1>6. Visiting'
    BY <1>1, <1>2 DEF TypeOK, Control, Visiting, Map, NoRequest
  <1>7. Numbers'
    BY RemoteTransactionAssumption, <1>1, <1>2
    DEF TypeOK, Control, Map, Numbers, NoRequest, NoReply, Ids
  <1>8. Care'
    BY <1>1, <1>2 DEF TypeOK, Control, Map, Numbers, Care, NoRequest, NoReply, Ids
  <1>9. CloseClosesShared'
    BY <1>1, <1>2 DEF TypeOK, Control, Map, CloseClosesShared, NoRequest
  <1> QED BY <1>3, <1>4, <1>5, <1>6, <1>7, <1>8, <1>9 DEF IInv

\* A cursor of the client's own starts closed.
LEMMA CursorOwnStep ==
  ASSUME IInv, ~halfClosed, NEW c \in Cursors, CursorOwn(c)
  PROVE  IInv'
  <1>1. TypeOK /\ Control /\ Map /\ Visiting /\ Numbers /\ Care /\ CloseClosesShared
    BY DEF IInv
  <1>2. /\ method = "idle" /\ ~halfClosed /\ halfClosed' = FALSE
        /\ calls < MaxCalls
        /\ held[c] = "none"
        /\ held' = [held EXCEPT ![c] = "own"]
        /\ asked' = [asked EXCEPT ![c] = NoTable]
        /\ UNCHANGED <<cursors_, cursor_id_, careful, method, self, table, todo, request,
                       reply, opened, lastId, calls>>
    BY <1>1 DEF CursorOwn, TypeOK, Control, MayCall, MayUse, callVars, serverVars
  <1>3. TypeOK'
    BY SentTyped, <1>1, <1>2 DEF TypeOK, Methods
  <1>4. Control'
    BY <1>1, <1>2 DEF TypeOK, Control, Numbers, NoRequest, NoReply, Ids
  <1>5. Map'
    BY <1>1, <1>2 DEF TypeOK, Control, Map, NoRequest
  <1>6. Visiting'
    BY <1>1, <1>2 DEF TypeOK, Control, Visiting, Map, NoRequest
  <1>7. Numbers'
    BY RemoteTransactionAssumption, <1>1, <1>2
    DEF TypeOK, Control, Map, Numbers, NoRequest, NoReply, Ids
  <1>8. Care'
    BY <1>1, <1>2 DEF TypeOK, Control, Map, Numbers, Care, NoRequest, NoReply, Ids
  <1>9. CloseClosesShared'
    BY <1>1, <1>2 DEF TypeOK, Control, Map, CloseClosesShared, NoRequest
  <1> QED BY <1>3, <1>4, <1>5, <1>6, <1>7, <1>8, <1>9 DEF IInv

\* A cursor that is dropped open is lost, and its client not careful.
LEMMA DropStep ==
  ASSUME IInv, ~halfClosed, NEW c \in Cursors, Drop(c)
  PROVE  IInv'
  <1>1. TypeOK /\ Control /\ Map /\ Visiting /\ Numbers /\ Care /\ CloseClosesShared
    BY DEF IInv
  <1>2. /\ method = "idle" /\ ~halfClosed /\ halfClosed' = FALSE
        /\ calls < MaxCalls
        /\ held[c] = "own"
        /\ careful' = (careful /\ cursor_id_[c] = 0)
        /\ held' = [held EXCEPT ![c] = "none"]
        /\ cursor_id_' = [cursor_id_ EXCEPT ![c] = 0]
        /\ UNCHANGED <<cursors_, asked, method, self, table, todo, request, reply, opened,
                       lastId, calls>>
    BY <1>1 DEF Drop, TypeOK, Control, MayCall, MayUse, callVars, serverVars
  <1>3. TypeOK'
    BY SentTyped, <1>1, <1>2 DEF TypeOK, Methods
  <1>4. Control'
    BY <1>1, <1>2 DEF TypeOK, Control, Numbers, NoRequest, NoReply, Ids
  <1>5. Map'
    BY <1>1, <1>2 DEF TypeOK, Control, Map, NoRequest
  <1>6. Visiting'
    BY <1>1, <1>2 DEF TypeOK, Control, Visiting, Map, NoRequest
  <1>7. Numbers'
    BY RemoteTransactionAssumption, <1>1, <1>2
    DEF TypeOK, Control, Map, Numbers, NoRequest, NoReply, Ids
  <1>8. Care'
    <2>1. careful' => careful /\ cursor_id_' = cursor_id_
      BY <1>1, <1>2 DEF TypeOK
    <2>2. careful' \in BOOLEAN
      BY <1>3 DEF TypeOK
    <2> QED BY <1>1, <1>2, <2>1, <2>2 DEF Care
  <1>9. CloseClosesShared'
    BY <1>1, <1>2 DEF TypeOK, Control, Map, CloseClosesShared, NoRequest
  <1> QED BY <1>3, <1>4, <1>5, <1>6, <1>7, <1>8, <1>9 DEF IInv

\* A careful client finds the shared cursor on its table.
LEMMA CursorFoundStep ==
  ASSUME IInv, ~halfClosed, NEW T \in Tables, CursorFound(T)
  PROVE  IInv'
  <1>1. TypeOK /\ Control /\ Map /\ Visiting /\ Numbers /\ Care /\ CloseClosesShared
    BY DEF IInv
  <1>2. /\ method = "idle" /\ ~halfClosed /\ halfClosed' = FALSE
        /\ calls < MaxCalls
        /\ cursors_[T] # NoCursor
        /\ asked' = [asked EXCEPT ![cursors_[T]] = T]
        /\ UNCHANGED <<cursors_, cursor_id_, held, careful, method, self, table, todo,
                       request, reply, opened, lastId, calls>>
    BY <1>1 DEF CursorFound, TypeOK, Control, MayCall, MayUse, callVars, serverVars
  <1>3. TypeOK'
    BY SentTyped, <1>1, <1>2 DEF TypeOK, Methods
  <1>4. Control'
    BY <1>1, <1>2 DEF TypeOK, Control, Numbers, NoRequest, NoReply, Ids
  <1>5. Map'
    BY <1>1, <1>2 DEF TypeOK, Control, Map, NoRequest
  <1>6. Visiting'
    BY <1>1, <1>2 DEF TypeOK, Control, Visiting, Map, NoRequest
  <1>7. Numbers'
    BY RemoteTransactionAssumption, <1>1, <1>2
    DEF TypeOK, Control, Map, Numbers, NoRequest, NoReply, Ids
  <1>8. Care'
    BY <1>1, <1>2 DEF TypeOK, Control, Map, Numbers, Care, NoRequest, NoReply, Ids
  <1>9. CloseClosesShared'
    BY <1>1, <1>2 DEF TypeOK, Control, Map, CloseClosesShared, NoRequest
  <1> QED BY <1>3, <1>4, <1>5, <1>6, <1>7, <1>8, <1>9 DEF IInv

\* A shared cursor is opened before it is put into the map.
LEMMA CursorNewStep ==
  ASSUME IInv, ~halfClosed, NEW T \in Tables, NEW c \in Cursors, CursorNew(T, c)
  PROVE  IInv'
  <1>1. TypeOK /\ Control /\ Map /\ Visiting /\ Numbers /\ Care /\ CloseClosesShared
    BY DEF IInv
  <1>2. /\ method = "idle" /\ ~halfClosed /\ halfClosed' = FALSE
        /\ calls < MaxCalls
        /\ cursors_[T] = NoCursor
        /\ held[c] = "none"
        /\ asked' = [asked EXCEPT ![c] = T]
        /\ method' = "cursor"
        /\ self' = c
        /\ table' = T
        /\ todo' = todo
        /\ request' = [op |-> "open", id |-> 0, table |-> T]
        /\ reply' = NoReply
        /\ calls' = calls + 1
        /\ UNCHANGED <<cursors_, cursor_id_, held, careful, opened, lastId>>
    BY <1>1 DEF CursorNew, TypeOK, Control, Send, async_open_cursor, MayCall, MayUse, Enter,
       serverVars
  <1>3. TypeOK'
    <2>1. request' \in Requests /\ reply' \in Replies
      BY SentTyped, <1>1, <1>2 DEF TypeOK
    <2>2. calls' \in Nat
      BY <1>1, <1>2 DEF TypeOK
    <2> QED BY <1>1, <1>2, <2>1, <2>2 DEF TypeOK, Methods
  <1>4. Control'
    BY <1>1, <1>2 DEF TypeOK, Control, Map, NoReply
  <1>5. Map'
    BY <1>1, <1>2 DEF TypeOK, Control, Map, NoRequest
  <1>6. Visiting'
    BY <1>1, <1>2 DEF TypeOK, Control, Visiting, Map, NoRequest
  <1>7. Numbers'
    BY RemoteTransactionAssumption, <1>1, <1>2
    DEF TypeOK, Control, Map, Numbers, NoRequest, NoReply, Ids
  <1>8. Care'
    BY <1>1, <1>2 DEF TypeOK, Control, Map, Numbers, Care, NoRequest, NoReply, Ids
  <1>9. CloseClosesShared'
    BY <1>1, <1>2 DEF TypeOK, Control, Map, CloseClosesShared, NoRequest
  <1> QED BY <1>3, <1>4, <1>5, <1>6, <1>7, <1>8, <1>9 DEF IInv

\* open_cursor asks for a cursor only if it has none.
LEMMA OpenCursorStep ==
  ASSUME IInv, ~halfClosed, NEW c \in Cursors, NEW T \in Tables, OpenCursor(c, T)
  PROVE  IInv'
  <1>1. TypeOK /\ Control /\ Map /\ Visiting /\ Numbers /\ Care /\ CloseClosesShared
    BY DEF IInv
  <1>2. CASE cursor_id_[c] = 0
    <2>1. /\ method = "idle" /\ ~halfClosed /\ halfClosed' = FALSE
          /\ calls < MaxCalls
          /\ held[c] # "none"
          /\ careful' = (careful /\ held[c] = "own" /\ cursor_id_[c] = 0)
          /\ asked' = [asked EXCEPT ![c] = T]
          /\ method' = "open_cursor"
          /\ self' = c
          /\ table' = T
          /\ todo' = todo
          /\ request' = [op |-> "open", id |-> 0, table |-> T]
          /\ reply' = NoReply
          /\ calls' = calls + 1
          /\ UNCHANGED <<cursors_, cursor_id_, held, opened, lastId>>
      BY <1>1, <1>2 DEF OpenCursor, TypeOK, Control, Opens, Send, async_open_cursor, MayCall,
         MayUse, Enter, callVars, serverVars
    <2>2. TypeOK'
      <3>1. request' \in Requests /\ reply' \in Replies
        BY SentTyped, <1>1, <2>1, <1>2 DEF TypeOK
      <3>2. calls' \in Nat
        BY <1>1, <2>1, <1>2 DEF TypeOK
      <3> QED BY <1>1, <2>1, <1>2, <3>1, <3>2 DEF TypeOK, Methods
    <2>3. Control'
      BY <1>1, <2>1, <1>2 DEF TypeOK, Control, Numbers, NoRequest, NoReply, Ids
    <2>4. Map'
      BY <1>1, <2>1, <1>2 DEF TypeOK, Control, Map, NoRequest
    <2>5. Visiting'
      BY <1>1, <2>1, <1>2 DEF TypeOK, Control, Visiting, Map, NoRequest
    <2>6. Numbers'
      BY RemoteTransactionAssumption, <1>1, <2>1, <1>2
      DEF TypeOK, Control, Map, Numbers, NoRequest, NoReply, Ids
    <2>7. Care'
      BY <1>1, <2>1, <1>2
      DEF TypeOK, Control, Map, Numbers, Care, NoRequest, NoReply, Ids
    <2>8. CloseClosesShared'
      BY <1>1, <2>1, <1>2 DEF TypeOK, Control, Map, CloseClosesShared, NoRequest
    <2> QED BY <2>2, <2>3, <2>4, <2>5, <2>6, <2>7, <2>8 DEF IInv
  <1>3. CASE cursor_id_[c] # 0
    <2>1. /\ method = "idle" /\ ~halfClosed /\ halfClosed' = FALSE
          /\ calls < MaxCalls
          /\ held[c] # "none"
          /\ careful' = (careful /\ held[c] = "own" /\ cursor_id_[c] = 0)
          /\ asked' = [asked EXCEPT ![c] = T]
          /\ UNCHANGED <<cursors_, cursor_id_, held, method, self, table, todo, request,
                         reply, opened, lastId, calls>>
      BY <1>1, <1>3 DEF OpenCursor, TypeOK, Control, Opens, Send, async_open_cursor, MayCall,
         MayUse, Enter, callVars, serverVars
    <2>2. TypeOK'
      BY SentTyped, <1>1, <2>1, <1>3 DEF TypeOK, Methods
    <2>3. Control'
      BY <1>1, <2>1, <1>3 DEF TypeOK, Control, Numbers, NoRequest, NoReply, Ids
    <2>4. Map'
      BY <1>1, <2>1, <1>3 DEF TypeOK, Control, Map, NoRequest
    <2>5. Visiting'
      BY <1>1, <2>1, <1>3 DEF TypeOK, Control, Visiting, Map, NoRequest
    <2>6. Numbers'
      BY RemoteTransactionAssumption, <1>1, <2>1, <1>3
      DEF TypeOK, Control, Map, Numbers, NoRequest, NoReply, Ids
    <2>7. Care'
      BY <1>1, <2>1, <1>3
      DEF TypeOK, Control, Map, Numbers, Care, NoRequest, NoReply, Ids
    <2>8. CloseClosesShared'
      BY <1>1, <2>1, <1>3 DEF TypeOK, Control, Map, CloseClosesShared, NoRequest
    <2> QED BY <2>2, <2>3, <2>4, <2>5, <2>6, <2>7, <2>8 DEF IInv
  <1> QED BY <1>2, <1>3

\* seek names the cursor's id.
LEMMA SeekStep ==
  ASSUME IInv, ~halfClosed, NEW c \in Cursors, Seek(c)
  PROVE  IInv'
  <1>1. TypeOK /\ Control /\ Map /\ Visiting /\ Numbers /\ Care /\ CloseClosesShared
    BY DEF IInv
  <1>2. /\ method = "idle" /\ ~halfClosed /\ halfClosed' = FALSE
        /\ calls < MaxCalls
        /\ held[c] # "none"
        /\ careful' = (careful /\ cursor_id_[c] # 0)
        /\ method' = "seek"
        /\ self' = c
        /\ table' = NoTable
        /\ todo' = todo
        /\ request' = [op |-> "seek", id |-> cursor_id_[c], table |-> NoTable]
        /\ reply' = NoReply
        /\ calls' = calls + 1
        /\ UNCHANGED <<cursors_, cursor_id_, held, asked, opened, lastId>>
    BY <1>1 DEF Seek, TypeOK, Control, Reads, Send, async_seek, MayCall, MayUse, Enter, serverVars
  <1>3. TypeOK'
    <2>1. request' \in Requests /\ reply' \in Replies
      BY SentTyped, <1>1, <1>2 DEF TypeOK
    <2>2. calls' \in Nat
      BY <1>1, <1>2 DEF TypeOK
    <2> QED BY <1>1, <1>2, <2>1, <2>2 DEF TypeOK, Methods
  <1>4. Control'
    BY <1>1, <1>2 DEF TypeOK, Control, Numbers, NoRequest, NoReply, Ids
  <1>5. Map'
    BY <1>1, <1>2 DEF TypeOK, Control, Map, NoRequest
  <1>6. Visiting'
    BY <1>1, <1>2 DEF TypeOK, Control, Visiting, Map, NoRequest
  <1>7. Numbers'
    BY RemoteTransactionAssumption, <1>1, <1>2
    DEF TypeOK, Control, Map, Numbers, NoRequest, NoReply, Ids
  <1>8. Care'
    BY <1>1, <1>2 DEF TypeOK, Control, Map, Numbers, Care, NoRequest, NoReply, Ids
  <1>9. CloseClosesShared'
    BY <1>1, <1>2 DEF TypeOK, Control, Map, CloseClosesShared, NoRequest
  <1> QED BY <1>3, <1>4, <1>5, <1>6, <1>7, <1>8, <1>9 DEF IInv

\* So does next.
LEMMA NextPairStep ==
  ASSUME IInv, ~halfClosed, NEW c \in Cursors, NextPair(c)
  PROVE  IInv'
  <1>1. TypeOK /\ Control /\ Map /\ Visiting /\ Numbers /\ Care /\ CloseClosesShared
    BY DEF IInv
  <1>2. /\ method = "idle" /\ ~halfClosed /\ halfClosed' = FALSE
        /\ calls < MaxCalls
        /\ held[c] # "none"
        /\ careful' = (careful /\ cursor_id_[c] # 0)
        /\ method' = "next"
        /\ self' = c
        /\ table' = NoTable
        /\ todo' = todo
        /\ request' = [op |-> "next", id |-> cursor_id_[c], table |-> NoTable]
        /\ reply' = NoReply
        /\ calls' = calls + 1
        /\ UNCHANGED <<cursors_, cursor_id_, held, asked, opened, lastId>>
    BY <1>1 DEF NextPair, TypeOK, Control, Reads, Send, async_next, MayCall, MayUse, Enter,
       serverVars
  <1>3. TypeOK'
    <2>1. request' \in Requests /\ reply' \in Replies
      BY SentTyped, <1>1, <1>2 DEF TypeOK
    <2>2. calls' \in Nat
      BY <1>1, <1>2 DEF TypeOK
    <2> QED BY <1>1, <1>2, <2>1, <2>2 DEF TypeOK, Methods
  <1>4. Control'
    BY <1>1, <1>2 DEF TypeOK, Control, Numbers, NoRequest, NoReply, Ids
  <1>5. Map'
    BY <1>1, <1>2 DEF TypeOK, Control, Map, NoRequest
  <1>6. Visiting'
    BY <1>1, <1>2 DEF TypeOK, Control, Visiting, Map, NoRequest
  <1>7. Numbers'
    BY RemoteTransactionAssumption, <1>1, <1>2
    DEF TypeOK, Control, Map, Numbers, NoRequest, NoReply, Ids
  <1>8. Care'
    BY <1>1, <1>2 DEF TypeOK, Control, Map, Numbers, Care, NoRequest, NoReply, Ids
  <1>9. CloseClosesShared'
    BY <1>1, <1>2 DEF TypeOK, Control, Map, CloseClosesShared, NoRequest
  <1> QED BY <1>3, <1>4, <1>5, <1>6, <1>7, <1>8, <1>9 DEF IInv

\* close_cursor names the cursor's id, if it has one.
LEMMA CloseCursorStep ==
  ASSUME IInv, ~halfClosed, NEW c \in Cursors, CloseCursor(c)
  PROVE  IInv'
  <1>1. TypeOK /\ Control /\ Map /\ Visiting /\ Numbers /\ Care /\ CloseClosesShared
    BY DEF IInv
  <1>2. CASE cursor_id_[c] # 0
    <2>1. /\ method = "idle" /\ ~halfClosed /\ halfClosed' = FALSE
          /\ calls < MaxCalls
          /\ held[c] # "none"
          /\ careful' = (careful /\ held[c] = "own")
          /\ method' = "close_cursor"
          /\ self' = c
          /\ table' = NoTable
          /\ todo' = todo
          /\ request' = [op |-> "close", id |-> cursor_id_[c], table |-> NoTable]
          /\ reply' = NoReply
          /\ calls' = calls + 1
          /\ UNCHANGED <<cursors_, cursor_id_, held, asked, opened, lastId>>
      BY <1>1, <1>2
      DEF CloseCursor, TypeOK, Control, Closes, Send, async_close_cursor, MayCall, MayUse, Enter, callVars, serverVars
    <2>2. TypeOK'
      <3>1. request' \in Requests /\ reply' \in Replies
        BY SentTyped, <1>1, <2>1, <1>2 DEF TypeOK
      <3>2. calls' \in Nat
        BY <1>1, <2>1, <1>2 DEF TypeOK
      <3> QED BY <1>1, <2>1, <1>2, <3>1, <3>2 DEF TypeOK, Methods
    <2>3. Control'
      BY <1>1, <2>1, <1>2 DEF TypeOK, Control, Numbers, NoRequest, NoReply, Ids
    <2>4. Map'
      BY <1>1, <2>1, <1>2 DEF TypeOK, Control, Map, NoRequest
    <2>5. Visiting'
      BY <1>1, <2>1, <1>2 DEF TypeOK, Control, Visiting, Map, NoRequest
    <2>6. Numbers'
      BY RemoteTransactionAssumption, <1>1, <2>1, <1>2
      DEF TypeOK, Control, Map, Numbers, NoRequest, NoReply, Ids
    <2>7. Care'
      BY <1>1, <2>1, <1>2
      DEF TypeOK, Control, Map, Numbers, Care, NoRequest, NoReply, Ids
    <2>8. CloseClosesShared'
      BY <1>1, <2>1, <1>2 DEF TypeOK, Control, Map, CloseClosesShared, NoRequest
    <2> QED BY <2>2, <2>3, <2>4, <2>5, <2>6, <2>7, <2>8 DEF IInv
  <1>3. CASE cursor_id_[c] = 0
    <2>1. /\ method = "idle" /\ ~halfClosed /\ halfClosed' = FALSE
          /\ calls < MaxCalls
          /\ held[c] # "none"
          /\ careful' = (careful /\ held[c] = "own")
          /\ UNCHANGED <<cursors_, cursor_id_, held, asked, method, self, table, todo,
                         request, reply, opened, lastId, calls>>
      BY <1>1, <1>3
      DEF CloseCursor, TypeOK, Control, Closes, Send, async_close_cursor, MayCall, MayUse, Enter, callVars, serverVars
    <2>2. TypeOK'
      BY SentTyped, <1>1, <2>1, <1>3 DEF TypeOK, Methods
    <2>3. Control'
      BY <1>1, <2>1, <1>3 DEF TypeOK, Control, Numbers, NoRequest, NoReply, Ids
    <2>4. Map'
      BY <1>1, <2>1, <1>3 DEF TypeOK, Control, Map, NoRequest
    <2>5. Visiting'
      BY <1>1, <2>1, <1>3 DEF TypeOK, Control, Visiting, Map, NoRequest
    <2>6. Numbers'
      BY RemoteTransactionAssumption, <1>1, <2>1, <1>3
      DEF TypeOK, Control, Map, Numbers, NoRequest, NoReply, Ids
    <2>7. Care'
      BY <1>1, <2>1, <1>3
      DEF TypeOK, Control, Map, Numbers, Care, NoRequest, NoReply, Ids
    <2>8. CloseClosesShared'
      BY <1>1, <2>1, <1>3 DEF TypeOK, Control, Map, CloseClosesShared, NoRequest
    <2> QED BY <2>2, <2>3, <2>4, <2>5, <2>6, <2>7, <2>8 DEF IInv
  <1> QED BY <1>2, <1>3

\* seek(table, key) opens the cursor, or takes the one that is open.
LEMMA SeekTableStep ==
  ASSUME IInv, ~halfClosed, NEW c \in Cursors, NEW T \in Tables, SeekTable(c, T)
  PROVE  IInv'
  <1>1. TypeOK /\ Control /\ Map /\ Visiting /\ Numbers /\ Care /\ CloseClosesShared
    BY DEF IInv
  <1>2. CASE cursor_id_[c] = 0
    <2>1. /\ method = "idle" /\ ~halfClosed /\ halfClosed' = FALSE
          /\ calls < MaxCalls
          /\ held[c] # "none"
          /\ careful' = (careful /\ held[c] = "own" /\ cursor_id_[c] = 0)
          /\ asked' = [asked EXCEPT ![c] = T]
          /\ method' = "seek_table"
          /\ self' = c
          /\ table' = T
          /\ todo' = todo
          /\ request' = [op |-> "open", id |-> 0, table |-> T]
          /\ reply' = NoReply
          /\ calls' = calls + 1
          /\ UNCHANGED <<cursors_, cursor_id_, held, opened, lastId>>
      BY <1>1, <1>2
      DEF SeekTable, TypeOK, Control, Opens, Send, async_open_cursor, async_seek, MayCall, MayUse, Enter, serverVars
    <2>2. TypeOK'
      <3>1. request' \in Requests /\ reply' \in Replies
        BY SentTyped, <1>1, <2>1, <1>2 DEF TypeOK
      <3>2. calls' \in Nat
        BY <1>1, <2>1, <1>2 DEF TypeOK
      <3> QED BY <1>1, <2>1, <1>2, <3>1, <3>2 DEF TypeOK, Methods
    <2>3. Control'
      BY <1>1, <2>1, <1>2 DEF TypeOK, Control, Numbers, NoRequest, NoReply, Ids
    <2>4. Map'
      BY <1>1, <2>1, <1>2 DEF TypeOK, Control, Map, NoRequest
    <2>5. Visiting'
      BY <1>1, <2>1, <1>2 DEF TypeOK, Control, Visiting, Map, NoRequest
    <2>6. Numbers'
      BY RemoteTransactionAssumption, <1>1, <2>1, <1>2
      DEF TypeOK, Control, Map, Numbers, NoRequest, NoReply, Ids
    <2>7. Care'
      BY <1>1, <2>1, <1>2
      DEF TypeOK, Control, Map, Numbers, Care, NoRequest, NoReply, Ids
    <2>8. CloseClosesShared'
      BY <1>1, <2>1, <1>2 DEF TypeOK, Control, Map, CloseClosesShared, NoRequest
    <2> QED BY <2>2, <2>3, <2>4, <2>5, <2>6, <2>7, <2>8 DEF IInv
  <1>3. CASE cursor_id_[c] # 0
    <2>1. /\ method = "idle" /\ ~halfClosed /\ halfClosed' = FALSE
          /\ calls < MaxCalls
          /\ held[c] # "none"
          /\ careful' = (careful /\ held[c] = "own" /\ cursor_id_[c] = 0)
          /\ asked' = [asked EXCEPT ![c] = T]
          /\ method' = "seek_table"
          /\ self' = c
          /\ table' = T
          /\ todo' = todo
          /\ request' = [op |-> "seek", id |-> cursor_id_[c], table |-> NoTable]
          /\ reply' = NoReply
          /\ calls' = calls + 1
          /\ UNCHANGED <<cursors_, cursor_id_, held, opened, lastId>>
      BY <1>1, <1>3
      DEF SeekTable, TypeOK, Control, Opens, Send, async_open_cursor, async_seek, MayCall, MayUse, Enter, serverVars
    <2>2. TypeOK'
      <3>1. request' \in Requests /\ reply' \in Replies
        BY SentTyped, <1>1, <2>1, <1>3 DEF TypeOK
      <3>2. calls' \in Nat
        BY <1>1, <2>1, <1>3 DEF TypeOK
      <3> QED BY <1>1, <2>1, <1>3, <3>1, <3>2 DEF TypeOK, Methods
    <2>3. Control'
      BY <1>1, <2>1, <1>3 DEF TypeOK, Control, Numbers, NoRequest, NoReply, Ids
    <2>4. Map'
      BY <1>1, <2>1, <1>3 DEF TypeOK, Control, Map, NoRequest
    <2>5. Visiting'
      BY <1>1, <2>1, <1>3 DEF TypeOK, Control, Visiting, Map, NoRequest
    <2>6. Numbers'
      BY RemoteTransactionAssumption, <1>1, <2>1, <1>3
      DEF TypeOK, Control, Map, Numbers, NoRequest, NoReply, Ids
    <2>7. Care'
      BY <1>1, <2>1, <1>3
      DEF TypeOK, Control, Map, Numbers, Care, NoRequest, NoReply, Ids
    <2>8. CloseClosesShared'
      BY <1>1, <2>1, <1>3 DEF TypeOK, Control, Map, CloseClosesShared, NoRequest
    <2> QED BY <2>2, <2>3, <2>4, <2>5, <2>6, <2>7, <2>8 DEF IInv
  <1> QED BY <1>2, <1>3

\* close() sets out to visit the open cursors of the map, or has none to visit.
LEMMA CloseStep ==
  ASSUME IInv, ~halfClosed, Close
  PROVE  IInv'
  <1>1. TypeOK /\ Control /\ Map /\ Visiting /\ Numbers /\ Care /\ CloseClosesShared
    BY DEF IInv
  <1> DEFINE pending == {T \in Tables : cursors_[T] # NoCursor /\ cursor_id_[cursors_[T]] # 0}
  <1>2. CASE pending # {}
    <2>1. PICK T \in pending : todo' = pending \ {T} /\ self' = cursors_[T]
                               /\ request' = [op |-> "close", id |-> cursor_id_[cursors_[T]],
                                              table |-> NoTable]
      BY <1>2 DEF Close, CloseFrom, Send, async_close_cursor
    <2>2. /\ method = "idle" /\ method' = "close" /\ table' = NoTable /\ ~halfClosed /\ halfClosed' = FALSE
          /\ reply' = NoReply /\ calls' = calls + 1
          /\ UNCHANGED <<cursors_, cursor_id_, held, asked, careful, opened, lastId>>
      BY <1>1, <1>2 DEF Close, TypeOK, Control, CloseFrom, Send, async_close_cursor, serverVars
    <2>3. T \in Tables /\ cursors_[T] \in Cursors /\ cursor_id_[cursors_[T]] # 0
      BY <1>1 DEF TypeOK
    <2>4. TypeOK'
      <3>1. request' \in Requests /\ reply' \in Replies
        BY SentTyped, <1>1, <2>1, <2>2, <2>3 DEF TypeOK
      <3>2. calls' \in Nat
        BY <1>1, <2>1, <2>2, <2>3 DEF TypeOK
      <3> QED BY <1>1, <2>1, <2>2, <2>3, <3>1, <3>2 DEF TypeOK, Methods
    <2>5. Control'
      BY <1>1, <2>1, <2>2, <2>3 DEF TypeOK, Map, Control, NoReply
    <2>6. Map'
      BY <1>1, <2>1, <2>2, <2>3 DEF TypeOK, Control, Map, NoRequest
    <2>7. Visiting'
      BY <1>1, <2>1, <2>2, <2>3 DEF TypeOK, Control, Visiting, Map, NoRequest
    <2>8. Numbers'
      BY SMTT(40), RemoteTransactionAssumption, <1>1, <2>1, <2>2, <2>3
      DEF TypeOK, Control, Map, Numbers, NoRequest, NoReply, Ids
    <2>9. Care'
      BY <1>1, <2>1, <2>2, <2>3
      DEF TypeOK, Control, Map, Numbers, Care, NoRequest, NoReply, Ids
    <2>10. CloseClosesShared'
      BY <1>1, <2>1, <2>2, <2>3 DEF TypeOK, Control, Map, CloseClosesShared, NoRequest
    <2> QED BY <2>4, <2>5, <2>6, <2>7, <2>8, <2>9, <2>10 DEF IInv
  <1>3. CASE pending = {}
    <2>1. /\ method = "idle" /\ method' = "close" /\ table' = NoTable /\ ~halfClosed /\ halfClosed' = TRUE
          /\ todo' = {} /\ self' = NoCursor /\ cursors_' = [T \in Tables |-> NoCursor]
          /\ request' = [op |-> "halfclose", id |-> 0, table |-> NoTable]
          /\ reply' = NoReply /\ calls' = calls + 1
          /\ UNCHANGED <<cursor_id_, held, asked, careful, opened, lastId>>
      BY <1>1, <1>3 DEF Close, TypeOK, Control, CloseFrom, Send, async_close, serverVars
    <2>2. \A T \in Tables : cursors_[T] # NoCursor => cursor_id_[cursors_[T]] = 0
      BY <1>3
    <2>3. TypeOK'
      BY SentTyped, <1>1, <2>1, <2>2 DEF TypeOK, Methods
    <2>4. Control'
      BY <1>1, <2>1, <2>2 DEF TypeOK, Control, Numbers, NoRequest, NoReply, Ids
    <2>5. Map'
      BY <1>1, <2>1, <2>2 DEF TypeOK, Control, Map, NoRequest
    <2>6. Visiting'
      BY <1>1, <2>1, <2>2 DEF TypeOK, Control, Visiting, Map, NoRequest
    <2>7. Numbers'
      BY RemoteTransactionAssumption, <1>1, <2>1, <2>2
      DEF TypeOK, Control, Map, Numbers, NoRequest, NoReply, Ids
    <2>8. Care'
      BY <1>1, <2>1, <2>2
      DEF TypeOK, Control, Map, Numbers, Care, NoRequest, NoReply, Ids
    <2>9. CloseClosesShared'
      <3>1. ~halfClosed
        BY <1>1, <2>1 DEF Control
      <3>2. \A c \in Cursors : held[c] = "shared" => cursor_id_[c] = 0
        BY RemoteTransactionAssumption, <1>1, <2>2, <3>1 DEF Map
      <3> QED BY <2>1, <3>2 DEF CloseClosesShared
    <2> QED BY <2>3, <2>4, <2>5, <2>6, <2>7, <2>8, <2>9 DEF IInv
  <1> QED BY <1>2, <1>3

\* The client drops the transaction.
LEMMA DestroyStep ==
  ASSUME IInv, Destroy
  PROVE  IInv'
  <1>1. TypeOK /\ Control /\ Map /\ Visiting /\ Numbers /\ Care /\ CloseClosesShared
    BY DEF IInv
  <1>2. /\ method = "closed"
        /\ method' = "destroyed"
        /\ UNCHANGED <<cursors_, cursor_id_, held, asked, careful, self, table, todo, halfClosed,
                       request, reply, opened, lastId, calls>>
    BY DEF Destroy, callVars, serverVars
  <1>3. TypeOK'
    BY SentTyped, <1>1, <1>2 DEF TypeOK, Methods
  <1>4. Control'
    BY <1>1, <1>2 DEF TypeOK, Control, Numbers, NoRequest, NoReply, Ids
  <1>5. Map'
    BY <1>1, <1>2 DEF TypeOK, Control, Map, NoRequest
  <1>6. Visiting'
    BY <1>1, <1>2 DEF TypeOK, Control, Visiting, Map, NoRequest
  <1>7. Numbers'
    BY RemoteTransactionAssumption, <1>1, <1>2
    DEF TypeOK, Control, Map, Numbers, NoRequest, NoReply, Ids
  <1>8. Care'
    BY <1>1, <1>2 DEF TypeOK, Control, Map, Numbers, Care, NoRequest, NoReply, Ids
  <1>9. CloseClosesShared'
    BY <1>1, <1>2 DEF TypeOK, Control, Map, CloseClosesShared, NoRequest
  <1> QED BY <1>3, <1>4, <1>5, <1>6, <1>7, <1>8, <1>9 DEF IInv

\* The server hands out an id that no cursor has.
LEMMA ServeOpenStep ==
  ASSUME IInv, ServeOpen
  PROVE  IInv'
  <1>1. TypeOK /\ Control /\ Map /\ Visiting /\ Numbers /\ Care /\ CloseClosesShared
    BY DEF IInv
  <1>2. /\ request.op = "open"
        /\ reply = NoReply
        /\ lastId' = lastId + 1
        /\ opened' = [opened EXCEPT ![lastId + 1] = request.table]
        /\ reply' = [is |-> "answer", id |-> lastId + 1]
        /\ UNCHANGED <<cursors_, cursor_id_, held, asked, careful, method, self, table, todo,
                       halfClosed, request, calls>>
    BY DEF ServeOpen, clientVars
  <1>3. TypeOK'
    <2>1. lastId \in Nat /\ lastId + 1 \in Ids /\ lastId + 1 \in 0 .. MaxCalls
      BY RemoteTransactionAssumption, <1>1, <1>2 DEF TypeOK, Numbers, Ids
    <2>2. request' \in Requests /\ reply' \in Replies
      BY SentTyped, <1>1, <1>2, <2>1 DEF TypeOK
    <2>3. request.table \in Tables
      BY <1>1, <1>2 DEF Control, NoReply
    <2> QED BY <1>1, <1>2, <2>1, <2>2, <2>3 DEF TypeOK, Methods
  <1>4. Control'
    BY <1>1, <1>2 DEF TypeOK, Control, Numbers, NoRequest, NoReply, Ids
  <1>5. Map'
    BY <1>1, <1>2 DEF TypeOK, Control, Map, NoRequest
  <1>6. Visiting'
    BY <1>1, <1>2 DEF TypeOK, Control, Visiting, Map, NoRequest
  <1>7. Numbers'
    <2>1. /\ lastId < calls /\ calls <= MaxCalls /\ lastId \in Nat /\ calls \in Nat
          /\ MaxCalls \in Nat /\ request.table \in Tables /\ ~halfClosed
      BY RemoteTransactionAssumption, <1>1, <1>2 DEF TypeOK, Control, Numbers, NoReply
    <2>2. lastId + 1 \in Ids /\ opened' \in [Ids -> Tables \cup {NoTable}]
      BY <2>1, <1>1, <1>2 DEF TypeOK, Ids
    <2>3. /\ opened'[lastId + 1] = request.table
          /\ \A i \in Ids : i # lastId + 1 => opened'[i] = opened[i]
      BY <2>2, <1>1, <1>2 DEF TypeOK
    <2>4. \A c \in Cursors :
             cursor_id_[c] \in Nat /\ cursor_id_[c] <= lastId /\ cursor_id_[c] # lastId + 1
      BY <2>1, <1>1 DEF TypeOK, Numbers, Ids
    <2>5. /\ lastId' <= calls' /\ lastId' # 0
          /\ reply' # NoReply /\ reply'.is = "answer" /\ reply'.id = lastId'
      BY <2>1, <1>2 DEF NoReply
    <2>6. /\ \A c \in Cursors : cursor_id_'[c] <= lastId' /\ cursor_id_'[c] # lastId'
          /\ opened'[lastId'] = request'.table
      BY <2>1, <2>3, <2>4, <1>2
    <2>7. \A i \in Ids : opened'[i] # NoTable => i <= lastId'
      BY <2>1, <2>3, <1>1, <1>2 DEF Numbers, Ids
    <2>8. \A c \in Cursors : cursor_id_'[c] # 0 => opened'[cursor_id_'[c]] # NoTable
      <3> SUFFICES ASSUME NEW c \in Cursors, cursor_id_[c] # 0
                   PROVE  opened'[cursor_id_[c]] # NoTable
        BY <1>2
      <3>1. cursor_id_[c] \in Ids /\ opened[cursor_id_[c]] # NoTable
        BY <2>1, <1>1, <1>2 DEF TypeOK, Numbers
      <3> QED BY <3>1, <2>3, <2>4
    <2>9. \A c, d \in Cursors : cursor_id_'[c] # 0 /\ cursor_id_'[c] = cursor_id_'[d] => c = d
      BY <1>1, <1>2 DEF Numbers
    <2> QED BY <1>2, <2>1, <2>5, <2>6, <2>7, <2>8, <2>9 DEF Numbers
  <1>8. Care'
    BY <1>1, <1>2 DEF TypeOK, Control, Map, Numbers, Care, NoRequest, NoReply, Ids
  <1>9. CloseClosesShared'
    BY <1>1, <1>2 DEF TypeOK, Control, Map, CloseClosesShared, NoRequest
  <1> QED BY <1>3, <1>4, <1>5, <1>6, <1>7, <1>8, <1>9 DEF IInv

\* It answers for a cursor it has open, and rejects any other.
LEMMA ServeCursorStep ==
  ASSUME IInv, ServeCursor
  PROVE  IInv'
  <1>1. TypeOK /\ Control /\ Map /\ Visiting /\ Numbers /\ Care /\ CloseClosesShared
    BY DEF IInv
  <1>2. CASE request.id # 0 /\ opened[request.id] # NoTable /\ request.op = "close"
    <2>1. /\ request.op \in {"seek", "next", "close"}
          /\ reply = NoReply
          /\ reply' = [is |-> "answer", id |-> request.id]
          /\ opened' = [opened EXCEPT ![request.id] = NoTable]
          /\ UNCHANGED <<cursors_, cursor_id_, held, asked, careful, method, self, table,
                         todo, halfClosed, request, lastId, calls>>
      BY <1>2 DEF ServeCursor, OpenAtServer, clientVars
    <2>2. TypeOK'
      <3>1. request' \in Requests /\ reply' \in Replies
        BY SentTyped, IdsTyped, <1>1, <2>1, <1>2 DEF TypeOK
      <3>2. calls' \in Nat
        BY <1>1, <2>1, <1>2 DEF TypeOK
      <3> QED BY <1>1, <2>1, <1>2, <3>1, <3>2 DEF TypeOK, Methods
    <2>3. Control'
      BY <1>1, <2>1, <1>2 DEF TypeOK, Control, Numbers, NoRequest, NoReply, Ids
    <2>4. Map'
      BY <1>1, <2>1, <1>2 DEF TypeOK, Control, Map, NoRequest
    <2>5. Visiting'
      BY <1>1, <2>1, <1>2 DEF TypeOK, Control, Visiting, Map, NoRequest
    <2>6. Numbers'
      <3>1. request.id \in Ids /\ opened'[request.id] = NoTable
            /\ \A i \in Ids : i # request.id => opened'[i] = opened[i]
        BY <1>1, <1>2, <2>1 DEF TypeOK, Control, Requests
      <3>2. \A c \in Cursors : cursor_id_[c] # 0 =>
               \/ request.id = cursor_id_[c]
               \/ opened'[cursor_id_[c]] # NoTable
               \/ halfClosed
        BY <3>1, <1>1, <2>1 DEF TypeOK, Numbers, NoReply
      <3> QED BY <1>1, <1>2, <2>1, <3>1, <3>2 DEF Numbers, NoReply
    <2>7. Care'
      BY <1>1, <2>1, <1>2
      DEF TypeOK, Control, Map, Numbers, Care, NoRequest, NoReply, Ids
    <2>8. CloseClosesShared'
      BY <1>1, <2>1, <1>2 DEF TypeOK, Control, Map, CloseClosesShared, NoRequest
    <2> QED BY <2>2, <2>3, <2>4, <2>5, <2>6, <2>7, <2>8 DEF IInv
  <1>3. CASE request.id # 0 /\ opened[request.id] # NoTable /\ request.op # "close"
    <2>1. /\ request.op \in {"seek", "next", "close"}
          /\ reply = NoReply
          /\ reply' = [is |-> "answer", id |-> request.id]
          /\ UNCHANGED <<cursors_, cursor_id_, held, asked, careful, method, self, table,
                         todo, halfClosed, request, opened, lastId, calls>>
      BY <1>3 DEF ServeCursor, OpenAtServer, clientVars
    <2>2. TypeOK'
      <3>1. request' \in Requests /\ reply' \in Replies
        BY SentTyped, IdsTyped, <1>1, <2>1, <1>3 DEF TypeOK
      <3>2. calls' \in Nat
        BY <1>1, <2>1, <1>3 DEF TypeOK
      <3> QED BY <1>1, <2>1, <1>3, <3>1, <3>2 DEF TypeOK, Methods
    <2>3. Control'
      BY <1>1, <2>1, <1>3 DEF TypeOK, Control, Numbers, NoRequest, NoReply, Ids
    <2>4. Map'
      BY <1>1, <2>1, <1>3 DEF TypeOK, Control, Map, NoRequest
    <2>5. Visiting'
      BY <1>1, <2>1, <1>3 DEF TypeOK, Control, Visiting, Map, NoRequest
    <2>6. Numbers'
      BY SMTT(40), RemoteTransactionAssumption, <1>1, <2>1, <1>3
      DEF TypeOK, Control, Map, Numbers, NoRequest, NoReply, Ids
    <2>7. Care'
      BY <1>1, <2>1, <1>3
      DEF TypeOK, Control, Map, Numbers, Care, NoRequest, NoReply, Ids
    <2>8. CloseClosesShared'
      BY <1>1, <2>1, <1>3 DEF TypeOK, Control, Map, CloseClosesShared, NoRequest
    <2> QED BY <2>2, <2>3, <2>4, <2>5, <2>6, <2>7, <2>8 DEF IInv
  <1>4. CASE ~(request.id # 0 /\ opened[request.id] # NoTable)
    <2>1. /\ request.op \in {"seek", "next", "close"}
          /\ reply = NoReply
          /\ reply' = [is |-> "rejected", id |-> 0]
          /\ UNCHANGED <<cursors_, cursor_id_, held, asked, careful, method, self, table,
                         todo, halfClosed, request, opened, lastId, calls>>
      BY <1>4 DEF ServeCursor, OpenAtServer, clientVars
    <2>2. TypeOK'
      BY SentTyped, IdsTyped, <1>1, <2>1, <1>4 DEF TypeOK, Methods
    <2>3. Control'
      BY <1>1, <2>1, <1>4 DEF TypeOK, Control, Numbers, NoRequest, NoReply, Ids
    <2>4. Map'
      BY <1>1, <2>1, <1>4 DEF TypeOK, Control, Map, NoRequest
    <2>5. Visiting'
      BY <1>1, <2>1, <1>4 DEF TypeOK, Control, Visiting, Map, NoRequest
    <2>6. Numbers'
      BY RemoteTransactionAssumption, <1>1, <2>1, <1>4
      DEF TypeOK, Control, Map, Numbers, NoRequest, NoReply, Ids
    <2>7. Care'
      BY <1>1, <2>1, <1>4
      DEF TypeOK, Control, Map, Numbers, Care, NoRequest, NoReply, Ids
    <2>8. CloseClosesShared'
      BY <1>1, <2>1, <1>4 DEF TypeOK, Control, Map, CloseClosesShared, NoRequest
    <2> QED BY <2>2, <2>3, <2>4, <2>5, <2>6, <2>7, <2>8 DEF IInv
  <1> QED BY <1>2, <1>3, <1>4

\* The server's transaction ends, with its cursors.
LEMMA ServeHalfCloseStep ==
  ASSUME IInv, ServeHalfClose
  PROVE  IInv'
  <1>1. TypeOK /\ Control /\ Map /\ Visiting /\ Numbers /\ Care /\ CloseClosesShared
    BY DEF IInv
  <1>2. /\ request.op = "halfclose"
        /\ reply = NoReply
        /\ reply' = [is |-> "answer", id |-> 0]
        /\ opened' = [i \in Ids |-> NoTable]
        /\ UNCHANGED <<cursors_, cursor_id_, held, asked, careful, method, self, table, todo,
                       halfClosed, request, lastId, calls>>
    BY DEF ServeHalfClose, clientVars
  <1>3. TypeOK'
    BY SentTyped, <1>1, <1>2 DEF TypeOK, Methods
  <1>4. Control'
    BY <1>1, <1>2 DEF TypeOK, Control, Numbers, NoRequest, NoReply, Ids
  <1>5. Map'
    BY <1>1, <1>2 DEF TypeOK, Control, Map, NoRequest
  <1>6. Visiting'
    BY <1>1, <1>2 DEF TypeOK, Control, Visiting, Map, NoRequest
  <1>7. Numbers'
    BY RemoteTransactionAssumption, <1>1, <1>2
    DEF TypeOK, Control, Map, Numbers, NoRequest, NoReply, Ids
  <1>8. Care'
    BY <1>1, <1>2 DEF TypeOK, Control, Map, Numbers, Care, NoRequest, NoReply, Ids
  <1>9. CloseClosesShared'
    BY <1>1, <1>2 DEF TypeOK, Control, Map, CloseClosesShared, NoRequest
  <1> QED BY <1>3, <1>4, <1>5, <1>6, <1>7, <1>8, <1>9 DEF IInv

\* The new id is the cursor's; a shared cursor goes into the map.
LEMMA ResumeOpenStep ==
  ASSUME IInv, ResumeOpen
  PROVE  IInv'
  <1>1. TypeOK /\ Control /\ Map /\ Visiting /\ Numbers /\ Care /\ CloseClosesShared
    BY DEF IInv
  <1>2. CASE method = "cursor"
    <2>1. /\ request.op = "open"
          /\ reply.is = "answer"
          /\ cursor_id_' = [cursor_id_ EXCEPT ![self] = reply.id]
          /\ cursors_' = [cursors_ EXCEPT ![table] = self]
          /\ held' = [held EXCEPT ![self] = "shared"]
          /\ method' = "idle"
          /\ self' = NoCursor
          /\ table' = NoTable
          /\ todo' = todo
          /\ request' = NoRequest
          /\ reply' = NoReply
          /\ calls' = calls /\ halfClosed' = halfClosed
          /\ UNCHANGED <<asked, careful, opened, lastId>>
      BY <1>2 DEF ResumeOpen, Resumed, Send, async_seek, Finished, Return, serverVars
    <2>2. TypeOK'
      <3>1. request' \in Requests /\ reply' \in Replies
        BY SentTyped, IdsTyped, <1>1, <2>1, <1>2 DEF TypeOK
      <3>2. calls' \in Nat
        BY <1>1, <2>1, <1>2 DEF TypeOK
      <3>3. self \in Cursors /\ table \in Tables /\ reply.id \in {0} \cup Ids
        BY IdsTyped, <1>1, <2>1, <1>2 DEF Control
      <3> QED BY <1>1, <2>1, <1>2, <3>1, <3>2, <3>3 DEF TypeOK, Methods
    <2>3. Control'
      BY <1>1, <2>1, <1>2 DEF TypeOK, Control, Numbers, NoRequest, NoReply, Ids
    <2>4. Map'
      <3>1. /\ self \in Cursors /\ held[self] = "none"
            /\ table \in Tables /\ cursors_[table] = NoCursor
            /\ ~halfClosed /\ ~halfClosed'
        BY <1>1, <1>2, <2>1 DEF Control, NoRequest
      <3>2. /\ cursors_'[table] = self /\ \A T \in Tables : T # table => cursors_'[T] = cursors_[T]
            /\ held'[self] = "shared" /\ \A c \in Cursors : c # self => held'[c] = held[c]
            /\ \A c \in Cursors : c # self => cursor_id_'[c] = cursor_id_[c]
        BY <1>1, <2>1, <3>1 DEF TypeOK
      <3>3. \A T \in Tables : cursors_[T] # self
        BY RemoteTransactionAssumption, <1>1, <3>1 DEF TypeOK, Map
      <3>4. \A T \in Tables : cursors_[T] # NoCursor => cursors_[T] \in Cursors
        BY <1>1 DEF TypeOK
      <3>5. \A T, U \in Tables : cursors_'[T] # NoCursor /\ cursors_'[T] = cursors_'[U] => T = U
        BY <1>1, <3>2, <3>3 DEF Map
      <3>6. \A T \in Tables : cursors_'[T] # NoCursor => held'[cursors_'[T]] = "shared"
        BY <1>1, <3>2, <3>3, <3>4 DEF Map
      <3>7. \A c \in Cursors : held'[c] = "shared" => \E T \in Tables : cursors_'[T] = c
        <4> SUFFICES ASSUME NEW c \in Cursors, held'[c] = "shared", c # self
                     PROVE  \E T \in Tables : cursors_'[T] = c
          BY <3>1, <3>2
        <4>1. PICK T \in Tables : cursors_[T] = c
          BY <1>1, <3>1, <3>2 DEF Map
        <4>2. T # table
          BY <4>1, <3>1, RemoteTransactionAssumption
        <4> QED BY <4>1, <4>2, <3>2
      <3>8. \A c \in Cursors : held'[c] = "none" => cursor_id_'[c] = 0
        BY <1>1, <3>2 DEF Map
      <3> QED BY <3>1, <3>5, <3>6, <3>7, <3>8 DEF Map
    <2>5. Visiting'
      BY <1>1, <2>1, <1>2 DEF TypeOK, Control, Visiting, Map, NoRequest
    <2>6. Numbers'
      <3>1. /\ self \in Cursors /\ cursor_id_[self] = 0 /\ reply.id = lastId /\ lastId # 0
            /\ opened[lastId] # NoTable /\ \A c \in Cursors : cursor_id_[c] # lastId
            /\ ~halfClosed
        BY RemoteTransactionAssumption, <1>1, <1>2, <2>1 DEF TypeOK, Control, Numbers
      <3>2. /\ cursor_id_'[self] = lastId
            /\ \A c \in Cursors : c # self => cursor_id_'[c] = cursor_id_[c]
        BY <1>1, <2>1, <3>1 DEF TypeOK
      <3>3. \A c, d \in Cursors : cursor_id_'[c] # 0 /\ cursor_id_'[c] = cursor_id_'[d] => c = d
        BY <1>1, <3>1, <3>2 DEF Numbers
      <3>4. \A c \in Cursors : cursor_id_[c] # 0 => opened[cursor_id_[c]] # NoTable
        BY <1>1, <2>1, <3>1 DEF Numbers
      <3>5. \A c \in Cursors : cursor_id_'[c] <= lastId
        BY <1>1, <3>1, <3>2 DEF TypeOK, Numbers
      <3>6. \A c \in Cursors : cursor_id_'[c] # 0 => opened[cursor_id_'[c]] # NoTable
        BY <3>1, <3>2, <3>4
      <3> QED BY <1>1, <2>1, <3>3, <3>5, <3>6 DEF Numbers, NoRequest
    <2>7. Care'
      BY <1>1, <2>1, <1>2
      DEF TypeOK, Control, Map, Numbers, Care, NoRequest, NoReply, Ids
    <2>8. CloseClosesShared'
      BY <1>1, <2>1, <1>2 DEF TypeOK, Control, Map, CloseClosesShared, NoRequest
    <2> QED BY <2>2, <2>3, <2>4, <2>5, <2>6, <2>7, <2>8 DEF IInv
  <1>3. CASE method = "seek_table"
    <2>1. /\ request.op = "open"
          /\ reply.is = "answer"
          /\ cursor_id_' = [cursor_id_ EXCEPT ![self] = reply.id]
          /\ request' = [op |-> "seek", id |-> reply.id, table |-> NoTable]
          /\ reply' = NoReply
          /\ calls' = calls + 1 /\ ~halfClosed /\ halfClosed' = FALSE
          /\ UNCHANGED <<cursors_, held, asked, careful, method, self, table, todo, opened,
                         lastId>>
      BY <1>1, <1>3
      DEF ResumeOpen, Resumed, Send, async_seek, Finished, Return, serverVars, TypeOK, Control
    <2>2. TypeOK'
      <3>1. request' \in Requests /\ reply' \in Replies
        BY SentTyped, IdsTyped, <1>1, <2>1, <1>3 DEF TypeOK
      <3>2. calls' \in Nat
        BY <1>1, <2>1, <1>3 DEF TypeOK
      <3>3. self \in Cursors /\ table \in Tables /\ reply.id \in {0} \cup Ids
        BY IdsTyped, <1>1, <2>1, <1>3 DEF Control
      <3> QED BY <1>1, <2>1, <1>3, <3>1, <3>2, <3>3 DEF TypeOK, Methods
    <2>3. Control'
      BY <1>1, <2>1, <1>3 DEF TypeOK, Control, Numbers, NoRequest, NoReply, Ids
    <2>4. Map'
      BY <1>1, <2>1, <1>3 DEF TypeOK, Control, Map, NoRequest
    <2>5. Visiting'
      BY <1>1, <2>1, <1>3 DEF TypeOK, Control, Visiting, Map, NoRequest
    <2>6. Numbers'
      BY RemoteTransactionAssumption, <1>1, <2>1, <1>3
      DEF TypeOK, Control, Map, Numbers, NoRequest, NoReply, Ids
    <2>7. Care'
      BY <1>1, <2>1, <1>3
      DEF TypeOK, Control, Map, Numbers, Care, NoRequest, NoReply, Ids
    <2>8. CloseClosesShared'
      BY <1>1, <2>1, <1>3 DEF TypeOK, Control, Map, CloseClosesShared, NoRequest
    <2> QED BY <2>2, <2>3, <2>4, <2>5, <2>6, <2>7, <2>8 DEF IInv
  <1>4. CASE method \notin {"cursor", "seek_table"}
    <2>1. /\ request.op = "open"
          /\ reply.is = "answer"
          /\ cursor_id_' = [cursor_id_ EXCEPT ![self] = reply.id]
          /\ method' = "idle"
          /\ self' = NoCursor
          /\ table' = NoTable
          /\ todo' = todo
          /\ request' = NoRequest
          /\ reply' = NoReply
          /\ calls' = calls /\ halfClosed' = halfClosed
          /\ UNCHANGED <<cursors_, held, asked, careful, opened, lastId>>
      BY <1>4 DEF ResumeOpen, Resumed, Send, async_seek, Finished, Return, serverVars
    <2>2. TypeOK'
      <3>1. request' \in Requests /\ reply' \in Replies
        BY SentTyped, IdsTyped, <1>1, <2>1, <1>4 DEF TypeOK
      <3>2. calls' \in Nat
        BY <1>1, <2>1, <1>4 DEF TypeOK
      <3>3. self \in Cursors /\ table \in Tables /\ reply.id \in {0} \cup Ids
        BY IdsTyped, <1>1, <2>1, <1>4 DEF Control
      <3> QED BY <1>1, <2>1, <1>4, <3>1, <3>2, <3>3 DEF TypeOK, Methods
    <2>3. Control'
      BY <1>1, <2>1, <1>4 DEF TypeOK, Control, Numbers, NoRequest, NoReply, Ids
    <2>4. Map'
      BY <1>1, <2>1, <1>4 DEF TypeOK, Control, Map, NoRequest
    <2>5. Visiting'
      BY <1>1, <2>1, <1>4 DEF TypeOK, Control, Visiting, Map, NoRequest
    <2>6. Numbers'
      <3>1. /\ self \in Cursors /\ cursor_id_[self] = 0 /\ reply.id = lastId /\ lastId # 0
            /\ opened[lastId] # NoTable /\ \A c \in Cursors : cursor_id_[c] # lastId
            /\ ~halfClosed
        BY RemoteTransactionAssumption, <1>1, <1>2, <2>1 DEF TypeOK, Control, Numbers
      <3>2. /\ cursor_id_'[self] = lastId
            /\ \A c \in Cursors : c # self => cursor_id_'[c] = cursor_id_[c]
        BY <1>1, <2>1, <3>1 DEF TypeOK
      <3>3. \A c, d \in Cursors : cursor_id_'[c] # 0 /\ cursor_id_'[c] = cursor_id_'[d] => c = d
        BY <1>1, <3>1, <3>2 DEF Numbers
      <3>4. \A c \in Cursors : cursor_id_[c] # 0 => opened[cursor_id_[c]] # NoTable
        BY <1>1, <2>1, <3>1 DEF Numbers
      <3>5. \A c \in Cursors : cursor_id_'[c] <= lastId
        BY <1>1, <3>1, <3>2 DEF TypeOK, Numbers
      <3>6. \A c \in Cursors : cursor_id_'[c] # 0 => opened[cursor_id_'[c]] # NoTable
        BY <3>1, <3>2, <3>4
      <3> QED BY <1>1, <2>1, <3>3, <3>5, <3>6 DEF Numbers, NoRequest
    <2>7. Care'
      BY <1>1, <2>1, <1>4
      DEF TypeOK, Control, Map, Numbers, Care, NoRequest, NoReply, Ids
    <2>8. CloseClosesShared'
      BY <1>1, <2>1, <1>4 DEF TypeOK, Control, Map, CloseClosesShared, NoRequest
    <2> QED BY <2>2, <2>3, <2>4, <2>5, <2>6, <2>7, <2>8 DEF IInv
  <1> QED BY <1>2, <1>3, <1>4

\* seek(table, key) goes on to close its cursor.
LEMMA ResumeSeekStep ==
  ASSUME IInv, ResumeSeek
  PROVE  IInv'
  <1>1. TypeOK /\ Control /\ Map /\ Visiting /\ Numbers /\ Care /\ CloseClosesShared
    BY DEF IInv
  <1>2. CASE method = "seek_table"
    <2>1. /\ request.op = "seek"
          /\ reply.is = "answer"
          /\ request' = [op |-> "close", id |-> cursor_id_[self], table |-> NoTable]
          /\ reply' = NoReply
          /\ calls' = calls + 1 /\ ~halfClosed /\ halfClosed' = FALSE
          /\ UNCHANGED <<cursors_, cursor_id_, held, asked, careful, method, self, table,
                         todo, opened, lastId>>
      BY <1>1, <1>2
      DEF ResumeSeek, Resumed, Send, async_close_cursor, Finished, Return, serverVars, TypeOK, Control
    <2>2. TypeOK'
      <3>1. request' \in Requests /\ reply' \in Replies
        BY SentTyped, <1>1, <2>1, <1>2 DEF TypeOK, Control
      <3>2. calls' \in Nat
        BY <1>1, <2>1, <1>2 DEF TypeOK
      <3> QED BY <1>1, <2>1, <1>2, <3>1, <3>2 DEF TypeOK, Methods
    <2>3. Control'
      BY <1>1, <2>1, <1>2 DEF TypeOK, Control, Numbers, NoRequest, NoReply, Ids
    <2>4. Map'
      BY <1>1, <2>1, <1>2 DEF TypeOK, Control, Map, NoRequest
    <2>5. Visiting'
      BY <1>1, <2>1, <1>2 DEF TypeOK, Control, Visiting, Map, NoRequest
    <2>6. Numbers'
      BY RemoteTransactionAssumption, <1>1, <2>1, <1>2
      DEF TypeOK, Control, Map, Numbers, NoRequest, NoReply, Ids
    <2>7. Care'
      BY <1>1, <2>1, <1>2
      DEF TypeOK, Control, Map, Numbers, Care, NoRequest, NoReply, Ids
    <2>8. CloseClosesShared'
      BY <1>1, <2>1, <1>2 DEF TypeOK, Control, Map, CloseClosesShared, NoRequest
    <2> QED BY <2>2, <2>3, <2>4, <2>5, <2>6, <2>7, <2>8 DEF IInv
  <1>3. CASE method # "seek_table"
    <2>1. /\ request.op = "seek"
          /\ reply.is = "answer"
          /\ method' = "idle"
          /\ self' = NoCursor
          /\ table' = NoTable
          /\ todo' = todo
          /\ request' = NoRequest
          /\ reply' = NoReply
          /\ calls' = calls /\ halfClosed' = halfClosed
          /\ UNCHANGED <<cursors_, cursor_id_, held, asked, careful, opened, lastId>>
      BY <1>3 DEF ResumeSeek, Resumed, Send, async_close_cursor, Finished, Return, serverVars
    <2>2. TypeOK'
      BY SentTyped, <1>1, <2>1, <1>3 DEF TypeOK, Methods
    <2>3. Control'
      BY <1>1, <2>1, <1>3 DEF TypeOK, Control, Numbers, NoRequest, NoReply, Ids
    <2>4. Map'
      BY <1>1, <2>1, <1>3 DEF TypeOK, Control, Map, NoRequest
    <2>5. Visiting'
      BY <1>1, <2>1, <1>3 DEF TypeOK, Control, Visiting, Map, NoRequest
    <2>6. Numbers'
      BY RemoteTransactionAssumption, <1>1, <2>1, <1>3
      DEF TypeOK, Control, Map, Numbers, NoRequest, NoReply, Ids
    <2>7. Care'
      BY <1>1, <2>1, <1>3
      DEF TypeOK, Control, Map, Numbers, Care, NoRequest, NoReply, Ids
    <2>8. CloseClosesShared'
      BY <1>1, <2>1, <1>3 DEF TypeOK, Control, Map, CloseClosesShared, NoRequest
    <2> QED BY <2>2, <2>3, <2>4, <2>5, <2>6, <2>7, <2>8 DEF IInv
  <1> QED BY <1>2, <1>3

\* next returns.
LEMMA ResumeNextStep ==
  ASSUME IInv, ResumeNext
  PROVE  IInv'
  <1>1. TypeOK /\ Control /\ Map /\ Visiting /\ Numbers /\ Care /\ CloseClosesShared
    BY DEF IInv
  <1>2. /\ request.op = "next"
        /\ reply.is = "answer"
        /\ method' = "idle"
        /\ self' = NoCursor
        /\ table' = NoTable
        /\ todo' = todo
        /\ request' = NoRequest
        /\ reply' = NoReply
        /\ calls' = calls /\ halfClosed' = halfClosed
        /\ UNCHANGED <<cursors_, cursor_id_, held, asked, careful, opened, lastId>>
    BY DEF ResumeNext, Resumed, Finished, Return, serverVars
  <1>3. TypeOK'
    BY SentTyped, <1>1, <1>2 DEF TypeOK, Methods
  <1>4. Control'
    BY <1>1, <1>2 DEF TypeOK, Control, Numbers, NoRequest, NoReply, Ids
  <1>5. Map'
    BY <1>1, <1>2 DEF TypeOK, Control, Map, NoRequest
  <1>6. Visiting'
    BY <1>1, <1>2 DEF TypeOK, Control, Visiting, Map, NoRequest
  <1>7. Numbers'
    BY RemoteTransactionAssumption, <1>1, <1>2
    DEF TypeOK, Control, Map, Numbers, NoRequest, NoReply, Ids
  <1>8. Care'
    BY <1>1, <1>2 DEF TypeOK, Control, Map, Numbers, Care, NoRequest, NoReply, Ids
  <1>9. CloseClosesShared'
    BY <1>1, <1>2 DEF TypeOK, Control, Map, CloseClosesShared, NoRequest
  <1> QED BY <1>3, <1>4, <1>5, <1>6, <1>7, <1>8, <1>9 DEF IInv

\* The cursor is closed; close() goes on to the next one, or half-closes.
LEMMA ResumeCloseCursorStep ==
  ASSUME IInv, ResumeCloseCursor
  PROVE  IInv'
  <1>1. TypeOK /\ Control /\ Map /\ Visiting /\ Numbers /\ Care /\ CloseClosesShared
    BY DEF IInv
  <1>2. /\ request.op = "close" /\ reply.is = "answer"
        /\ cursor_id_' = [cursor_id_ EXCEPT ![self] = 0]
        /\ UNCHANGED <<held, asked, careful, opened, lastId>>
    BY DEF ResumeCloseCursor, Resumed, serverVars
  <1>3. CASE method # "close"
    <2>1. /\ method' = "idle" /\ self' = NoCursor /\ table' = NoTable /\ todo' = todo
          /\ request' = NoRequest /\ reply' = NoReply /\ calls' = calls
          /\ halfClosed' = halfClosed /\ cursors_' = cursors_
      BY <1>3 DEF ResumeCloseCursor, Return, Finished
    <2>2. TypeOK'
      BY SentTyped, <1>1, <1>2, <1>3, <2>1 DEF TypeOK, Methods
    <2>3. Control'
      BY <1>1, <1>2, <1>3, <2>1 DEF TypeOK, Control, Numbers, NoRequest, NoReply, Ids
    <2>4. Map'
      BY <1>1, <1>2, <1>3, <2>1 DEF TypeOK, Control, Map, NoRequest
    <2>5. Visiting'
      BY <1>1, <1>2, <1>3, <2>1 DEF TypeOK, Control, Visiting, Map, NoRequest
    <2>6. Numbers'
      BY RemoteTransactionAssumption, <1>1, <1>2, <1>3, <2>1
      DEF TypeOK, Control, Map, Numbers, NoRequest, NoReply, Ids
    <2>7. Care'
      BY <1>1, <1>2, <1>3, <2>1
      DEF TypeOK, Control, Map, Numbers, Care, NoRequest, NoReply, Ids
    <2>8. CloseClosesShared'
      BY <1>1, <1>2, <1>3, <2>1 DEF TypeOK, Control, Map, CloseClosesShared, NoRequest
    <2> QED BY <2>2, <2>3, <2>4, <2>5, <2>6, <2>7, <2>8 DEF IInv
  <1>4. CASE method = "close"
    <2>1. \A T \in todo : T \in Tables /\ cursors_[T] \in Cursors /\ cursors_[T] # self
                        /\ cursor_id_'[cursors_[T]] = cursor_id_[cursors_[T]]
                        /\ cursor_id_[cursors_[T]] # 0
      BY <1>1, <1>2 DEF TypeOK, Visiting
    <2>2. {T \in todo : cursor_id_'[cursors_[T]] # 0} = todo
      BY <2>1
    <2>3. CASE todo # {}
      <3>1. PICK T \in todo : todo' = todo \ {T} /\ self' = cursors_[T]
                             /\ request' = [op |-> "close", id |-> cursor_id_'[cursors_[T]],
                                            table |-> NoTable]
        BY <1>4, <2>2, <2>3 DEF ResumeCloseCursor, CloseFrom, Send, async_close_cursor
      <3>2. /\ method' = method /\ table' = table /\ cursors_' = cursors_
            /\ reply' = NoReply /\ calls' = calls + 1 /\ ~halfClosed /\ halfClosed' = FALSE
        BY <1>1, <1>2, <1>4, <2>2, <2>3
        DEF ResumeCloseCursor, CloseFrom, Send, async_close_cursor, TypeOK, Control
      <3>3. TypeOK'
        <4>1. request' \in Requests /\ reply' \in Replies
          BY SentTyped, <1>1, <1>2, <1>4, <2>1, <3>1, <3>2 DEF TypeOK
        <4>2. calls' \in Nat
          BY <1>1, <1>2, <1>4, <2>1, <3>1, <3>2 DEF TypeOK
        <4> QED BY <1>1, <1>2, <1>4, <2>1, <3>1, <3>2, <4>1, <4>2 DEF TypeOK, Methods
      <3>4. Control'
        BY <1>1, <1>2, <1>4, <2>1, <3>1, <3>2 DEF TypeOK, Control, Map, NoReply
      <3>5. Map'
        BY <1>1, <1>2, <1>4, <2>1, <3>1, <3>2 DEF TypeOK, Control, Map, NoRequest
      <3>6. Visiting'
        BY <1>1, <1>2, <1>4, <2>1, <3>1, <3>2
        DEF TypeOK, Control, Visiting, Map, NoRequest
      <3>7. Numbers'
        <4>1. /\ self \in Cursors /\ request.id = cursor_id_[self] /\ ~halfClosed
              /\ lastId \in Nat /\ calls \in Nat /\ lastId <= calls'
          BY <1>1, <1>2, <1>4, <3>1, <3>2 DEF TypeOK, Control, Numbers
        <4>2. cursor_id_'[self] = 0 /\ \A c \in Cursors : c # self => cursor_id_'[c] = cursor_id_[c]
          BY <1>1, <1>2, <4>1 DEF TypeOK
        <4>3. \A c, d \in Cursors : cursor_id_'[c] # 0 /\ cursor_id_'[c] = cursor_id_'[d] => c = d
          BY <1>1, <4>2 DEF Numbers
        <4>4. \A c \in Cursors : cursor_id_'[c] # 0 => opened[cursor_id_'[c]] # NoTable
          BY <1>1, <4>1, <4>2 DEF Numbers
        <4>5. \A c \in Cursors : cursor_id_'[c] <= lastId
          BY <1>1, <4>1, <4>2 DEF Numbers
        <4>6. request'.op # "open" /\ reply'.is # "answer"
          BY <3>1, <3>2 DEF NoReply
        <4> QED BY <1>1, <1>2, <3>2, <4>1, <4>3, <4>4, <4>5, <4>6 DEF Numbers
      <3>8. Care'
        BY <1>1, <1>2, <1>4, <2>1, <3>1, <3>2
        DEF TypeOK, Control, Map, Numbers, Care, NoRequest, NoReply, Ids
      <3>9. CloseClosesShared'
        BY <1>1, <1>2, <1>4, <2>1, <3>1, <3>2
        DEF TypeOK, Control, Map, CloseClosesShared, NoRequest
      <3> QED BY <3>3, <3>4, <3>5, <3>6, <3>7, <3>8, <3>9 DEF IInv
    <2>4. CASE todo = {}
      <3>1. /\ method' = method /\ table' = table /\ todo' = {} /\ self' = NoCursor
            /\ cursors_' = [T \in Tables |-> NoCursor]
            /\ request' = [op |-> "halfclose", id |-> 0, table |-> NoTable]
            /\ reply' = NoReply /\ calls' = calls + 1 /\ ~halfClosed /\ halfClosed' = TRUE
        BY <1>1, <1>2, <1>4, <2>2, <2>4
        DEF ResumeCloseCursor, CloseFrom, Send, async_close, TypeOK, Control
      <3>2. TypeOK'
        <4>1. request' \in Requests /\ reply' \in Replies
          BY SentTyped, <1>1, <1>2, <1>4, <2>4, <3>1 DEF TypeOK
        <4>2. calls' \in Nat
          BY <1>1, <1>2, <1>4, <2>4, <3>1 DEF TypeOK
        <4> QED BY <1>1, <1>2, <1>4, <2>4, <3>1, <4>1, <4>2 DEF TypeOK, Methods
      <3>3. Control'
        BY <1>1, <1>2, <1>4, <2>4, <3>1
        DEF TypeOK, Control, Numbers, NoRequest, NoReply, Ids
      <3>4. Map'
        BY <1>1, <1>2, <1>4, <2>4, <3>1 DEF TypeOK, Control, Map, NoRequest
      <3>5. Visiting'
        BY <1>1, <1>2, <1>4, <2>4, <3>1 DEF TypeOK, Control, Visiting, Map, NoRequest
      <3>6. Numbers'
        <4>1. /\ self \in Cursors /\ request.id = cursor_id_[self] /\ ~halfClosed
              /\ lastId \in Nat /\ calls \in Nat /\ lastId <= calls'
          BY <1>1, <1>2, <1>4, <3>1 DEF TypeOK, Control, Numbers
        <4>2. cursor_id_'[self] = 0 /\ \A c \in Cursors : c # self => cursor_id_'[c] = cursor_id_[c]
          BY <1>1, <1>2, <4>1 DEF TypeOK
        <4>3. \A c, d \in Cursors : cursor_id_'[c] # 0 /\ cursor_id_'[c] = cursor_id_'[d] => c = d
          BY <1>1, <4>2 DEF Numbers
        <4>4. \A c \in Cursors : cursor_id_'[c] # 0 => opened[cursor_id_'[c]] # NoTable
          BY <1>1, <4>1, <4>2 DEF Numbers
        <4>5. \A c \in Cursors : cursor_id_'[c] <= lastId
          BY <1>1, <4>1, <4>2 DEF Numbers
        <4>6. request'.op # "open" /\ reply'.is # "answer"
          BY <3>1 DEF NoReply
        <4> QED BY <1>1, <1>2, <3>1, <4>1, <4>3, <4>4, <4>5, <4>6 DEF Numbers
      <3>7. Care'
        BY <1>1, <1>2, <1>4, <2>4, <3>1
        DEF TypeOK, Control, Map, Numbers, Care, NoRequest, NoReply, Ids
      <3>8. CloseClosesShared'
        <4>1. self \in Cursors /\ ~halfClosed
          BY <1>1, <1>2, <1>4 DEF Control
        <4>2. ASSUME NEW c \in Cursors, held[c] = "shared", cursor_id_'[c] # 0
              PROVE  FALSE
          <5>1. c # self /\ cursor_id_[c] # 0
            BY <4>1, <4>2, <1>1, <1>2 DEF TypeOK
          <5>2. PICK T \in Tables : cursors_[T] = c
            BY <4>1, <4>2, <1>1 DEF Map
          <5>3. cursors_[T] # NoCursor
            BY <5>2, RemoteTransactionAssumption
          <5> QED BY <5>1, <5>2, <5>3, <1>1, <1>2, <1>4, <2>4 DEF Visiting
        <4> QED BY <1>2, <4>2 DEF CloseClosesShared
      <3> QED BY <3>2, <3>3, <3>4, <3>5, <3>6, <3>7, <3>8 DEF IInv
    <2> QED BY <2>3, <2>4
  <1> QED BY <1>3, <1>4

\* The transaction is closed.
LEMMA ResumeCloseStep ==
  ASSUME IInv, ResumeClose
  PROVE  IInv'
  <1>1. TypeOK /\ Control /\ Map /\ Visiting /\ Numbers /\ Care /\ CloseClosesShared
    BY DEF IInv
  <1>2. /\ request.op = "halfclose"
        /\ reply.is = "answer"
        /\ method' = "closed"
        /\ request' = NoRequest
        /\ reply' = NoReply
        /\ calls' = calls /\ halfClosed' = halfClosed
        /\ UNCHANGED <<cursors_, cursor_id_, held, asked, careful, self, table, todo, opened,
                       lastId>>
    BY DEF ResumeClose, Resumed, Finished, serverVars
  <1>3. TypeOK'
    BY SentTyped, <1>1, <1>2 DEF TypeOK, Methods
  <1>4. Control'
    BY <1>1, <1>2 DEF TypeOK, Control, Numbers, NoRequest, NoReply, Ids
  <1>5. Map'
    BY <1>1, <1>2 DEF TypeOK, Control, Map, NoRequest
  <1>6. Visiting'
    BY <1>1, <1>2 DEF TypeOK, Control, Visiting, Map, NoRequest
  <1>7. Numbers'
    BY RemoteTransactionAssumption, <1>1, <1>2
    DEF TypeOK, Control, Map, Numbers, NoRequest, NoReply, Ids
  <1>8. Care'
    BY <1>1, <1>2 DEF TypeOK, Control, Map, Numbers, Care, NoRequest, NoReply, Ids
  <1>9. CloseClosesShared'
    BY <1>1, <1>2 DEF TypeOK, Control, Map, CloseClosesShared, NoRequest
  <1> QED BY <1>3, <1>4, <1>5, <1>6, <1>7, <1>8, <1>9 DEF IInv

-----------------------------------------------------------------------------
(* After close().                                                           *)

\* A client that makes a request then is not careful; nothing comes of it.
LEMMA SentAfterClose ==
  ASSUME IInv, halfClosed, method \in {"closed", "destroyed"},
         NEW op, NEW id, NEW T, Send(op, id, T),
         [op |-> op, id |-> id, table |-> T] \in Requests, op # "none",
         method' \in Methods \ {"unborn", "idle", "closed", "destroyed"},
         method' = "close" => op # "close",
         self' \in Cursors \cup {NoCursor}, table' \in Tables \cup {NoTable}, todo' = todo,
         asked' \in [Cursors -> Tables \cup {NoTable}],
         careful' = FALSE,
         UNCHANGED <<cursors_, cursor_id_, held, opened, lastId>>
  PROVE  IInv'
  <1>1. TypeOK /\ Control /\ Map /\ Visiting /\ Numbers /\ CloseClosesShared
    BY DEF IInv
  <1>2. /\ request' = [op |-> op, id |-> id, table |-> T]
        /\ reply' = Undefined /\ halfClosed' = TRUE /\ calls' = calls + 1
    BY <1>1 DEF Send, TypeOK
  <1>3. request'.op = op /\ reply'.is = "undefined" /\ reply' # NoReply /\ reply'.id = 0
    BY <1>2 DEF Undefined, NoReply
  <1>4. request.op = "none" /\ todo = {}
    BY <1>1 DEF Control, Visiting
  <1>5. TypeOK'
    <2>1. request' \in Requests /\ reply' \in Replies /\ method' \in Methods
      BY <1>2, SentTyped
    <2>2. calls' \in Nat
      BY <1>1, <1>2 DEF TypeOK
    <2> QED BY <1>1, <1>2, <2>1, <2>2 DEF TypeOK
  <1>6. Control'
    BY <1>2, <1>3 DEF Control, Methods
  <1>7. Map' /\ CloseClosesShared'
    BY <1>1, <1>2 DEF Map, CloseClosesShared
  <1>8. Visiting'
    BY <1>3, <1>4 DEF Visiting
  <1>9. Numbers'
    <2>1. \A i \in Ids : opened[i] = NoTable
      BY <1>1, <1>4 DEF Numbers
    <2>2. lastId <= calls'
      BY <1>1, <1>2 DEF TypeOK, Numbers
    <2> QED BY <1>1, <1>2, <1>3, <2>1, <2>2 DEF Numbers
  <1> QED BY <1>5, <1>6, <1>7, <1>8, <1>9 DEF IInv, Care

\* A call that makes none changes no more than what the client holds.
LEMMA QuietAfterClose ==
  ASSUME IInv, halfClosed, method \in {"closed", "destroyed"},
         held' \in [Cursors -> {"none", "own", "shared"}],
         cursor_id_' \in [Cursors -> {0} \cup Ids],
         asked' \in [Cursors -> Tables \cup {NoTable}],
         careful' \in BOOLEAN, careful' => careful,
         \A c \in Cursors : /\ held'[c] = "shared" => held[c] = "shared"
                            /\ held'[c] = "none" => cursor_id_'[c] = 0
                            /\ cursor_id_'[c] # 0 => cursor_id_'[c] = cursor_id_[c],
         UNCHANGED <<cursors_, method, self, table, todo, request, reply, halfClosed, calls,
                     opened, lastId>>
  PROVE  IInv'
  <1>1. TypeOK /\ Control /\ Map /\ Visiting /\ Numbers /\ Care /\ CloseClosesShared
    BY DEF IInv
  <1>2. /\ request.op = "none" /\ reply = NoReply /\ reply.is = "none" /\ todo = {}
        /\ \A T \in Tables : cursors_[T] = NoCursor
        /\ \A i \in Ids : opened[i] = NoTable
    BY <1>1 DEF Control, Visiting, Map, Numbers, NoReply
  <1>3. TypeOK'
    BY <1>1 DEF TypeOK
  <1>4. Control'
    BY <1>1, <1>2 DEF Control
  <1>5. CloseClosesShared'
    BY <1>1 DEF CloseClosesShared
  <1>6. Map'
    BY <1>2 DEF Map
  <1>7. Visiting'
    BY <1>2 DEF Visiting
  <1>8. Numbers'
    <2>1. \A c \in Cursors : cursor_id_'[c] <= lastId
      BY <1>1 DEF TypeOK, Numbers
    <2>2. \A c, d \in Cursors : cursor_id_'[c] # 0 /\ cursor_id_'[c] = cursor_id_'[d] => c = d
      BY <1>1 DEF Numbers
    <2> QED BY <1>1, <1>2, <2>1, <2>2 DEF Numbers
  <1>9. Care'
    BY <1>2, <1>3 DEF TypeOK, Care
  <1> QED BY <1>3, <1>4, <1>5, <1>6, <1>7, <1>8, <1>9 DEF IInv

\* Whatever the client calls after close(), the invariant holds.
LEMMA AfterCloseStep ==
  ASSUME IInv, halfClosed, Client
  PROVE  IInv'
  <1>1. TypeOK /\ Control /\ Map /\ Visiting
    BY DEF IInv
  <1>2. method \in {"closed", "destroyed"}
    <2>1. method \in {"unborn", "idle", "closed", "destroyed"}
      BY DEF Client, Begin, CursorOwn, Drop, CursorFound, CursorNew, OpenCursor, Seek, NextPair,
             CloseCursor, SeekTable, Close, Destroy, MayCall, MayUse
    <2> QED BY <2>1, <1>1 DEF Control, NoReply
  <1>3. /\ todo = {} /\ cursors_ = [T \in Tables |-> NoCursor]
        /\ \A T \in Tables : cursors_[T] = NoCursor
    BY <1>1, <1>2 DEF TypeOK, Visiting, Map
  <1>4. CASE Begin \/ Destroy
    BY <1>2, <1>4, DestroyStep DEF Begin
  <1>5. ASSUME NEW T \in Tables, CursorFound(T)
        PROVE  IInv'
    BY <1>3, <1>5 DEF CursorFound
  <1>6. CASE Close
    <2>1. {T \in Tables : cursors_[T] # NoCursor} = {}
      BY <1>3
    <2>2. /\ todo' = {} /\ self' = NoCursor /\ cursors_' = [T \in Tables |-> NoCursor]
          /\ Send("halfclose", 0, NoTable)
      BY <1>6, <2>1 DEF Close, CloseFrom, async_close
    <2>3. [op |-> "halfclose", id |-> 0, table |-> NoTable] \in Requests
      BY DEF Requests
    <2>4. /\ method' = "close" /\ table' = NoTable /\ careful' = FALSE
          /\ UNCHANGED <<cursor_id_, held, asked, opened, lastId>>
      BY <1>6, <1>1 DEF Close, serverVars, TypeOK
    <2> QED BY <1>1, <1>2, <1>3, <2>2, <2>3, <2>4, SentAfterClose DEF TypeOK, Methods
  <1>7. ASSUME NEW c \in Cursors, CursorOwn(c)
        PROVE  IInv'
    <2>1. /\ held[c] = "none" /\ held' = [held EXCEPT ![c] = "own"]
          /\ asked' = [asked EXCEPT ![c] = NoTable]
          /\ UNCHANGED <<cursors_, cursor_id_, careful, method, self, table, todo, request,
                         reply, halfClosed, calls, opened, lastId>>
      BY <1>7 DEF CursorOwn, callVars, serverVars
    <2> QED BY <1>1, <1>2, <2>1, QuietAfterClose DEF TypeOK, Map
  <1>8. ASSUME NEW c \in Cursors, Drop(c)
        PROVE  IInv'
    <2>1. /\ held[c] = "own" /\ held' = [held EXCEPT ![c] = "none"]
          /\ cursor_id_' = [cursor_id_ EXCEPT ![c] = 0] /\ careful' = careful
          /\ UNCHANGED <<cursors_, asked, method, self, table, todo, request,
                         reply, halfClosed, calls, opened, lastId>>
      BY <1>1, <1>8 DEF Drop, callVars, serverVars, TypeOK
    <2> QED BY <1>1, <1>2, <2>1, QuietAfterClose DEF TypeOK, Map
  <1>9. ASSUME NEW c \in Cursors, NEW T \in Tables, CursorNew(T, c)
        PROVE  IInv'
    <2>1. /\ Send("open", 0, T) /\ method' = "cursor" /\ self' = c /\ table' = T
          /\ todo' = todo /\ asked' = [asked EXCEPT ![c] = T] /\ careful' = FALSE
          /\ UNCHANGED <<cursors_, cursor_id_, held, opened, lastId>>
      BY <1>1, <1>9 DEF CursorNew, Enter, async_open_cursor, serverVars, TypeOK
    <2>2. [op |-> "open", id |-> 0, table |-> T] \in Requests
      BY DEF Requests
    <2> QED BY <1>1, <1>2, <2>1, <2>2, SentAfterClose DEF TypeOK, Methods
  <1>10. ASSUME NEW c \in Cursors, NEW T \in Tables, OpenCursor(c, T)
         PROVE  IInv'
    <2>1. asked' = [asked EXCEPT ![c] = T] /\ careful' = FALSE
          /\ UNCHANGED <<cursors_, cursor_id_, held, opened, lastId>>
      BY <1>1, <1>10 DEF OpenCursor, Opens, serverVars, TypeOK
    <2>2. CASE cursor_id_[c] = 0
      <3>1. Send("open", 0, T) /\ method' = "open_cursor" /\ self' = c /\ table' = T /\ todo' = todo
        BY <1>10, <2>2 DEF OpenCursor, Enter, async_open_cursor
      <3>2. [op |-> "open", id |-> 0, table |-> T] \in Requests
        BY DEF Requests
      <3> QED BY <1>1, <1>2, <2>1, <3>1, <3>2, SentAfterClose DEF TypeOK, Methods
    <2>3. CASE cursor_id_[c] # 0
      <3>1. UNCHANGED <<method, self, table, todo, request, reply, halfClosed, calls>>
        BY <1>10, <2>3 DEF OpenCursor, callVars
      <3> QED BY <1>1, <1>2, <2>1, <3>1, QuietAfterClose DEF TypeOK, Map
    <2> QED BY <2>2, <2>3
  <1>11. ASSUME NEW c \in Cursors, NEW T \in Tables, SeekTable(c, T)
         PROVE  IInv'
    <2>1. /\ method' = "seek_table" /\ self' = c /\ table' = T /\ todo' = todo
          /\ asked' = [asked EXCEPT ![c] = T] /\ careful' = FALSE
          /\ UNCHANGED <<cursors_, cursor_id_, held, opened, lastId>>
      BY <1>1, <1>11 DEF SeekTable, Enter, Opens, serverVars, TypeOK
    <2>2. Send("open", 0, T) \/ Send("seek", cursor_id_[c], NoTable)
      BY <1>11 DEF SeekTable, async_open_cursor, async_seek
    <2>3. /\ [op |-> "open", id |-> 0, table |-> T] \in Requests
          /\ [op |-> "seek", id |-> cursor_id_[c], table |-> NoTable] \in Requests
      BY <1>1 DEF Requests, TypeOK
    <2> QED BY <1>1, <1>2, <2>1, <2>2, <2>3, SentAfterClose DEF TypeOK, Methods
  <1>12. ASSUME NEW c \in Cursors, Seek(c) \/ NextPair(c)
         PROVE  IInv'
    <2>1. /\ method' \in {"seek", "next"} /\ self' = c /\ table' = NoTable /\ todo' = todo
          /\ careful' = FALSE
          /\ UNCHANGED <<cursors_, cursor_id_, held, asked, opened, lastId>>
      BY <1>1, <1>12 DEF Seek, NextPair, Enter, Reads, serverVars, TypeOK
    <2>2. Send("seek", cursor_id_[c], NoTable) \/ Send("next", cursor_id_[c], NoTable)
      BY <1>12 DEF Seek, NextPair, async_seek, async_next
    <2>3. /\ [op |-> "next", id |-> cursor_id_[c], table |-> NoTable] \in Requests
          /\ [op |-> "seek", id |-> cursor_id_[c], table |-> NoTable] \in Requests
      BY <1>1 DEF Requests, TypeOK
    <2> QED BY <1>1, <1>2, <2>1, <2>2, <2>3, SentAfterClose DEF TypeOK, Methods
  <1>13. ASSUME NEW c \in Cursors, CloseCursor(c)
         PROVE  IInv'
    <2>1. careful' = FALSE /\ UNCHANGED <<cursors_, cursor_id_, held, asked, opened, lastId>>
      BY <1>1, <1>13 DEF CloseCursor, Closes, serverVars, TypeOK
    <2>2. CASE cursor_id_[c] # 0
      <3>1. /\ Send("close", cursor_id_[c], NoTable)
            /\ method' = "close_cursor" /\ self' = c /\ table' = NoTable /\ todo' = todo
        BY <1>13, <2>2 DEF CloseCursor, Enter, async_close_cursor
      <3>2. [op |-> "close", id |-> cursor_id_[c], table |-> NoTable] \in Requests
        BY <1>1 DEF Requests, TypeOK
      <3> QED BY <1>1, <1>2, <2>1, <3>1, <3>2, SentAfterClose DEF TypeOK, Methods
    <2>3. CASE cursor_id_[c] = 0
      <3>1. UNCHANGED <<method, self, table, todo, request, reply, halfClosed, calls>>
        BY <1>13, <2>3 DEF CloseCursor, callVars
      <3> QED BY <1>1, <1>2, <2>1, <3>1, QuietAfterClose DEF TypeOK, Map
    <2> QED BY <2>2, <2>3
  <1> QED BY <1>4, <1>5, <1>6, <1>7, <1>8, <1>9, <1>10, <1>11, <1>12, <1>13 DEF Client

-----------------------------------------------------------------------------
(* The theorems.                                                            *)

\* IInv holds in every reachable state.
LEMMA StepIInv == IInv /\ [Next]_vars => IInv'
  <1> SUFFICES ASSUME IInv, [Next]_vars PROVE IInv'
    OBVIOUS
  <1>1. CASE UNCHANGED vars
    BY <1>1
    DEF vars, clientVars, callVars, serverVars, IInv, TypeOK, Control, Map, Visiting, Numbers,
        Care, CloseClosesShared
  <1>2. CASE Client
    <2>1. CASE halfClosed
      BY <1>2, <2>1, AfterCloseStep
    <2>2. CASE ~halfClosed
      BY <1>2, <2>2, BeginStep, CursorOwnStep, DropStep, CursorFoundStep, CursorNewStep,
         OpenCursorStep, SeekStep, NextPairStep, CloseCursorStep, SeekTableStep, CloseStep,
         DestroyStep DEF Client
    <2> QED BY <2>1, <2>2
  <1>3. CASE Serve
    BY <1>3, ServeOpenStep, ServeCursorStep, ServeHalfCloseStep DEF Serve
  <1>4. CASE Resume
    BY <1>4, ResumeOpenStep, ResumeSeekStep, ResumeNextStep, ResumeCloseCursorStep, ResumeCloseStep
    DEF Resume
  <1> QED BY <1>1, <1>2, <1>3, <1>4 DEF Next

\* IInv holds in every reachable state.
THEOREM Invariance == Spec => []IInv
  BY InitIInv, StepIInv, PTL DEF Spec

\* The variables have their types.
THEOREM TypeCorrect == Spec => []TypeOK
  <1>1. IInv => TypeOK
    BY DEF IInv
  <1> QED BY <1>1, Invariance, PTL

\* When close() half-closes the stream every shared cursor has been closed.
THEOREM CloseClosesSharedProved == Spec => []CloseClosesShared
  <1>1. IInv => CloseClosesShared
    BY DEF IInv
  <1> QED BY <1>1, Invariance, PTL

\* The client's cursors and the server's agree, and a careful client loses none.
THEOREM IdsAgreeProved == Spec => []IdsAgree
  <1>1. IInv => IdsAgree
    <2> SUFFICES ASSUME IInv PROVE IdsAgree
      OBVIOUS
    <2>1. TypeOK /\ Numbers /\ Care
      BY DEF IInv
    <2>2. request = NoRequest => request.op = "none"
      BY DEF NoRequest
    <2> QED BY <2>1, <2>2 DEF TypeOK, Numbers, Care, IdsAgree, OpenAtServer
  <1> QED BY <1>1, Invariance, PTL

\* Only a seek or a next of a closed cursor is rejected, and a careful client makes none.
THEOREM RejectedOnlyIfNotOpenProved == Spec => []RejectedOnlyIfNotOpen
  <1>1. IInv => RejectedOnlyIfNotOpen
    BY DEF IInv, Control, RejectedOnlyIfNotOpen
  <1> QED BY <1>1, Invariance, PTL

\* A seek or a next that awaits its answer names a cursor open on the table the client
\* last asked its cursor for.
ReadsAskedTable ==
    careful /\ request.op \in {"seek", "next"} /\ reply = NoReply =>
        request.id # 0 /\ opened[request.id] = asked[self]

\* A careful client reads each cursor on the table it asked for.
THEOREM ReadsAskedTableProved == Spec => []ReadsAskedTable
  <1>1. IInv => ReadsAskedTable
    <2> SUFFICES ASSUME IInv, careful, request.op \in {"seek", "next"}, reply = NoReply
                 PROVE  request.id # 0 /\ opened[request.id] = asked[self]
      BY DEF ReadsAskedTable
    <2>1. request.id # 0 /\ request.id = cursor_id_[self] /\ self \in Cursors
      BY DEF IInv, Control
    <2>2. opened[cursor_id_[self]] # NoTable
      BY <2>1 DEF IInv, Control, Numbers
    <2> QED BY <2>1, <2>2 DEF IInv, Care
  <1> QED BY <1>1, Invariance, PTL

\* It finds the shared cursors open, each on its own table.
THEOREM SharedCursorsOpenProved == Spec => []SharedCursorsOpen
  <1>1. IInv => SharedCursorsOpen
    BY DEF IInv, Map, Care, SharedCursorsOpen
  <1> QED BY <1>1, Invariance, PTL

\* A request is made only when the one before it has been answered, and on a stream
\* that is half-closed only by a method called after close(), never by close_cursor()
\* of a shared cursor: the layer itself keeps the contract of the awaitables.
THEOREM AwaitsInTurnProved == Spec => AwaitsInTurn
  <1> DEFINE InTurn ==
        request' # request /\ request' # NoRequest =>
          /\ request = NoRequest \/ reply.is = "answer"
          /\ halfClosed =>
                /\ method \in {"closed", "destroyed"}
                /\ request'.op = "close" => held[self'] = "own"
  <1>1. IInv /\ [Next]_vars => [InTurn]_vars
    <2> SUFFICES ASSUME IInv, Next, request' # request, request' # NoRequest PROVE InTurn
      OBVIOUS
    <2>1. TypeOK /\ Control /\ CloseClosesShared
      BY DEF IInv
    <2>2. request.op = "none" => request = NoRequest
      BY <2>1 DEF TypeOK, Requests, NoRequest
    <2>3. CASE Client
      <3>1. method \in {"idle", "closed", "destroyed"}
        BY <2>3 DEF Client, Begin, CursorOwn, Drop, CursorFound, CursorNew, OpenCursor, Seek,
                    NextPair, CloseCursor, SeekTable, Close, Destroy, MayCall, MayUse, callVars
      <3>2. request = NoRequest /\ (halfClosed => method \in {"closed", "destroyed"})
        BY <3>1, <2>1, <2>2 DEF Control, NoReply
      <3>3. ASSUME halfClosed, request'.op = "close"
            PROVE  held[self'] = "own"
        <4>1. \A T \in Tables : cursors_[T] = NoCursor
          BY <3>3 DEF IInv, Map
        <4>2. ~Close
          BY <3>3, <4>1 DEF Close, CloseFrom, async_close, Send
        <4>3. PICK c \in Cursors : CloseCursor(c)
          <5>1. request.op = "none"
            BY <3>2 DEF NoRequest
          <5>2. CASE Begin \/ Destroy \/ \E T \in Tables : CursorFound(T)
            BY <3>3, <5>1, <5>2 DEF Begin, Destroy, CursorFound, callVars
          <5>3. ASSUME NEW c \in Cursors, CursorOwn(c) \/ Drop(c) \/ Seek(c) \/ NextPair(c)
                PROVE  FALSE
            <6>1. request' = request \/ \E op \in {"seek", "next"} : Send(op, cursor_id_[c], NoTable)
              BY <5>3 DEF CursorOwn, Drop, Seek, NextPair, async_seek, async_next, callVars
            <6> QED BY <3>3, <5>1, <6>1 DEF Send
          <5>4. ASSUME NEW c \in Cursors, NEW T \in Tables,
                       CursorNew(T, c) \/ OpenCursor(c, T) \/ SeekTable(c, T)
                PROVE  FALSE
            <6>1. request' = request \/ Send("open", 0, T) \/ Send("seek", cursor_id_[c], NoTable)
              BY <5>4 DEF CursorNew, OpenCursor, SeekTable, async_open_cursor, async_seek, callVars
            <6> QED BY <3>3, <5>1, <6>1 DEF Send
          <5> QED BY <2>3, <4>2, <5>2, <5>3, <5>4 DEF Client
        <4>4. self' = c /\ cursor_id_[c] # 0 /\ held[c] # "none"
          BY <3>2, <3>3, <4>3 DEF CloseCursor, Enter, MayUse, callVars, NoRequest
        <4> QED BY <2>1, <3>3, <4>4 DEF TypeOK, CloseClosesShared
      <3> QED BY <3>2, <3>3 DEF Control
    <2>4. CASE Serve
      BY <2>4 DEF Serve, ServeOpen, ServeCursor, ServeHalfClose
    <2>5. CASE Resume
      <3>1. reply.is = "answer" /\ request.op \notin {"none", "halfclose"}
        <4>1. reply.is = "answer" /\ request.op # "halfclose"
          BY <2>5 DEF Resume, ResumeOpen, ResumeSeek, ResumeNext, ResumeCloseCursor, ResumeClose,
                      Resumed, Finished
        <4> QED BY <4>1, <2>1 DEF Control, NoReply
      <3> QED BY <3>1, <2>1 DEF Control
    <2> QED BY <2>3, <2>4, <2>5 DEF Next
  <1>2. [][InTurn]_vars => AwaitsInTurn
    BY DEF AwaitsInTurn
  <1> QED BY <1>1, <1>2, Invariance, PTL DEF Spec

-----------------------------------------------------------------------------
(* The refinement: what a careful client sees is the object KvTransaction.  *)

\* What the refinement needs besides: where seek(table, key) and close() are.
Place ==
    /\ method = "seek_table" => asked[self] = table /\ table \in Tables
    /\ method = "close" /\ request.op = "close" => \E T \in Tables : cursors_[T] = self

\* No method has been called.
LEMMA InitPlace == Init => Place
  BY DEF Init, Place

\* seek(table, key) asks its cursor for its table, and close() is at a cursor of the map.
LEMMA PlaceStep ==
  ASSUME IInv, IInv', Place, Next
  PROVE  Place'
  <1>1. TypeOK /\ Control /\ Visiting
    BY DEF IInv
  <1>2. CASE Serve
    BY <1>2 DEF Serve, ServeOpen, ServeCursor, ServeHalfClose, clientVars, Place
  <1>3. CASE Resume
    <2>1. ASSUME NEW ids, CloseFrom(todo, ids), cursors_ \in [Tables -> Cursors \cup {NoCursor}]
          PROVE  request'.op = "close" => \E T \in Tables : cursors_'[T] = self'
      BY <2>1, <1>1 DEF CloseFrom, async_close_cursor, async_close, Send, TypeOK
    <2>2. CASE ResumeOpen
      BY <2>2, <1>1 DEF ResumeOpen, Resumed, Return, Finished, async_seek, Send, Place, Control
    <2>3. CASE ResumeSeek
      BY <2>3, <1>1 DEF ResumeSeek, Resumed, Return, Finished, async_close_cursor, Send, Place,
         Control
    <2>4. CASE ResumeNext
      BY <2>4, <1>1 DEF ResumeNext, Resumed, Return, Finished, Place, Control
    <2>5. CASE ResumeCloseCursor
      BY <2>5, <2>1, <1>1 DEF ResumeCloseCursor, Resumed, Return, Finished, Place, Control, TypeOK
    <2>6. CASE ResumeClose
      BY <2>6, <1>1 DEF ResumeClose, Resumed, Finished, Place, Control
    <2> QED BY <1>3, <2>2, <2>3, <2>4, <2>5, <2>6 DEF Resume
  <1>4. CASE Client
    <2>1. CASE Close
      BY <2>1, <1>1 DEF Close, CloseFrom, async_close_cursor, async_close, Send, TypeOK, Place
    <2>2. ASSUME NEW c \in Cursors, NEW T \in Tables, SeekTable(c, T)
          PROVE  Place'
      BY <2>2, <1>1 DEF SeekTable, Enter, Place, TypeOK
    <2>3. ASSUME method' # "seek_table", method' # "close" PROVE Place'
      BY <2>3 DEF Place
    <2>4. CASE Begin \/ Destroy \/ \E T \in Tables : CursorFound(T)
      BY <2>4, <2>3 DEF Begin, Destroy, CursorFound, MayCall, MayUse
    <2>5. ASSUME NEW c \in Cursors,
                 CursorOwn(c) \/ Drop(c) \/ Seek(c) \/ NextPair(c) \/ CloseCursor(c)
          PROVE  Place'
      BY <2>5, <2>3 DEF CursorOwn, Drop, Seek, NextPair, CloseCursor, Enter, MayCall, MayUse
    <2>6. ASSUME NEW c \in Cursors, NEW T \in Tables, CursorNew(T, c) \/ OpenCursor(c, T)
          PROVE  Place'
      BY <2>6, <2>3 DEF CursorNew, OpenCursor, Enter, MayCall, MayUse
    <2> QED BY <1>4, <2>1, <2>2, <2>4, <2>5, <2>6 DEF Client
  <1> QED BY <1>2, <1>3, <1>4 DEF Next

-----------------------------------------------------------------------------
\* A client that has not been careful never is again.
LEMMA CareIsLost ==
  ASSUME IInv, [Next]_vars
  PROVE  careful' => careful
  BY DEF IInv, TypeOK, Next, Client, Serve, Resume, Begin, CursorOwn, Drop, CursorFound, CursorNew,
         OpenCursor, Seek, NextPair, CloseCursor, SeekTable, Close, Destroy, ServeOpen, ServeCursor,
         ServeHalfClose, ResumeOpen, ResumeSeek, ResumeNext, ResumeCloseCursor, ResumeClose, vars,
         clientVars, Opens, Reads, Closes

\* Between calls, and after close(), the object is at rest.
LEMMA OutsideCalls ==
  ASSUME IInv, careful, method \in {"idle", "closed", "destroyed"}
  PROVE  /\ Object!AtRest /\ ToldCall = Object!NoCall
         /\ ToldDone = FALSE /\ ToldAnswer = NoTable /\ ToldHeld = held
         /\ \A c \in Cursors : /\ ToldOn[c] = OpenOn(c)
                               /\ (cursor_id_[c] = 0 => ToldOn[c] = NoTable)
                               /\ (halfClosed => ToldOn[c] = NoTable)
  <1>1. request.op = "none" /\ reply.is = "none"
    BY DEF IInv, Control, NoReply
  <1>2. /\ ToldState \in {"open", "closed"} /\ ToldCall = Object!NoCall
        /\ ToldDone = FALSE /\ ToldAnswer = NoTable
    BY <1>1 DEF ToldState, ToldCall, ToldDone, ToldAnswer, Told, TookEffect, ReadFrom, InCall,
       Ended,
           Object!NoCall, Object!CallOf
  <1>3. \A c \in Cursors : ToldOn[c] = OpenOn(c)
    BY DEF ToldOn, Told
  <1>4. halfClosed => \A i \in Ids : opened[i] = NoTable
    BY <1>1 DEF IInv, Numbers
  <1>5. \A c \in Cursors :
           OpenOn(c) = IF cursor_id_[c] = 0 THEN NoTable ELSE opened[cursor_id_[c]]
    BY <1>1 DEF OpenOn
  <1>6. \A c \in Cursors : cursor_id_[c] \in {0} \cup Ids
    BY DEF IInv, TypeOK
  <1> QED BY <1>2, <1>3, <1>4, <1>5, <1>6 DEF Object!AtRest, ToldHeld, Told

\* The step at which a client stops being careful is made between calls, or after close().
LEMMA MisuseStep ==
  ASSUME IInv, Next, careful, ~careful'
  PROVE  Object!Misuse
  <1>1. method \in {"idle", "closed", "destroyed"}
    BY DEF Next, Client, Serve, Resume, Begin, CursorOwn, Drop, CursorFound, CursorNew,
         OpenCursor, Seek, NextPair, CloseCursor, SeekTable, Close, Destroy, ServeOpen, ServeCursor,
         ServeHalfClose, ResumeOpen, ResumeSeek, ResumeNext, ResumeCloseCursor, ResumeClose,
         clientVars, Opens, Reads, Closes, MayCall, MayUse
  <1>2. /\ Object!AtRest /\ ToldCall = Object!NoCall
        /\ ToldDone = FALSE /\ ToldAnswer = NoTable
    BY <1>1, OutsideCalls
  <1>3. /\ ToldState' = "misused" /\ ToldCall' = Object!NoCall /\ ToldDone' = FALSE /\ ToldAnswer' = NoTable
        /\ ToldHeld' = [c \in Cursors |-> "none"] /\ ToldShared' = Object!NothingShared
        /\ ToldOn' = Object!NothingOpen
    BY DEF ToldState, ToldHeld, ToldShared, ToldOn, ToldCall, ToldDone, ToldAnswer, Told,
           Object!NoCall, Object!CallOf, Object!NothingShared, Object!NothingOpen
  <1> QED BY <1>2, <1>3 DEF Object!Misuse

\* From then on nothing is told.
LEMMA NotTold ==
  ASSUME ~careful, ~careful'
  PROVE  UNCHANGED Object!vars
  BY DEF Object!vars, ToldState, ToldHeld, ToldShared, ToldOn, ToldCall, ToldDone, ToldAnswer, Told

\* Between calls the object is ready, and on what the server says.
LEMMA Between ==
  ASSUME IInv, careful, method = "idle"
  PROVE  /\ Object!Ready /\ ToldState = "open" /\ ToldCall = Object!NoCall
         /\ ToldDone = FALSE /\ ToldAnswer = NoTable
         /\ ToldHeld = held /\ ToldShared = cursors_
         /\ \A c \in Cursors :
               /\ OpenOn(c) = ToldOn[c]
               /\ cursor_id_[c] = 0 => ToldOn[c] = NoTable
               /\ cursor_id_[c] # 0 => ToldOn[c] = opened[cursor_id_[c]] /\ ToldOn[c] # NoTable
  <1>1. request.op = "none" /\ reply.is = "none"
    BY DEF IInv, Control, NoReply
  <1>2. ToldState = "open" /\ ToldCall = Object!NoCall /\ ToldDone = FALSE /\ ToldAnswer = NoTable
    BY <1>1 DEF ToldState, ToldCall, ToldDone, ToldAnswer, Told, TookEffect, ReadFrom, InCall,
       Ended,
           Object!NoCall, Object!CallOf
  <1>3. \A c \in Cursors : ToldOn[c] = OpenOn(c)
    BY DEF ToldOn, Told
  <1>4. \A c \in Cursors : cursor_id_[c] # 0 => opened[cursor_id_[c]] # NoTable
    BY <1>1 DEF IInv, Control, Numbers
  <1>5. \A c \in Cursors :
           OpenOn(c) = IF cursor_id_[c] = 0 THEN NoTable ELSE opened[cursor_id_[c]]
    BY <1>1 DEF OpenOn
  <1> QED BY <1>2, <1>3, <1>4, <1>5 DEF Object!Ready, ToldHeld, ToldShared, Told

\* A method that sends its first request has not taken effect.
LEMMA CallStarts ==
  ASSUME IInv, careful, careful', method = "idle",
         NEW m \in {"cursor", "open_cursor", "seek", "next", "close_cursor", "seek_table", "close"},
         NEW c, NEW T,
         method' = m, self' = c, table' = T, reply'.is = "none",
         m = "seek_table" => request'.op = "open" /\ cursor_id_[c] = 0,
         UNCHANGED <<cursor_id_, held, opened>>
  PROVE  /\ ToldCall' = Object!CallOf(m, IF m = "close" THEN NoCursor ELSE c, T)
         /\ UNCHANGED <<ToldState, ToldHeld, ToldOn, ToldDone, ToldAnswer>>
  <1>1. /\ ToldState = "open" /\ ToldDone = FALSE /\ ToldAnswer = NoTable
        /\ \A d \in Cursors :
              OpenOn(d) = IF cursor_id_[d] = 0 THEN NoTable ELSE opened[cursor_id_[d]]
    BY Between
  <1>2. ToldState' = "open" /\ ToldCall' = Object!CallOf(m, IF m = "close" THEN NoCursor ELSE c, T)
    BY DEF ToldState, ToldCall, Told, InCall, Ended, Object!CallOf
  <1>3. ~TookEffect'
    BY DEF TookEffect
  <1>4. ToldDone' = FALSE /\ ToldAnswer' = NoTable
    BY <1>3 DEF ToldDone, ToldAnswer, Told, ReadFrom
  <1>5. \A d \in Cursors : OpenOn(d)' = OpenOn(d)
    BY <1>1 DEF OpenOn
  <1> QED BY <1>1, <1>2, <1>4, <1>5 DEF ToldHeld, ToldOn, Told

\* RemoteDatabase::begin begins the transaction.
LEMMA BeginActs ==
  ASSUME IInv, careful, careful', Begin
  PROVE  Object!Begin
  <1>1. /\ method = "unborn" /\ method' = "idle"
        /\ UNCHANGED <<cursors_, cursor_id_, held, self, table, request, reply, opened>>
    BY DEF Begin, callVars, serverVars
  <1>2. request.op = "none" /\ reply.is = "none"
    BY <1>1 DEF IInv, Control, NoReply
  <1>3. \A c \in Cursors : OpenOn(c)' = OpenOn(c)
    BY <1>1, <1>2 DEF OpenOn
  <1>4. ToldState = "unborn" /\ ToldState' = "open" /\ UNCHANGED <<ToldCall, ToldDone, ToldAnswer>>
    BY <1>1, <1>2 DEF ToldState, ToldCall, ToldDone, ToldAnswer, Told, TookEffect, ReadFrom,
       InCall, Ended
  <1> QED BY <1>1, <1>3, <1>4 DEF Object!Begin, ToldHeld, ToldShared, ToldOn, Told

\* While no method is called nothing else is told.
LEMMA StaysBetween ==
  ASSUME IInv, careful, careful', method \in {"idle", "closed", "destroyed"},
         UNCHANGED <<cursors_, method, self, table, request, reply, opened>>
  PROVE  UNCHANGED <<ToldState, ToldShared, ToldCall, ToldDone, ToldAnswer>>
  <1>1. reply.is = "none" /\ reply'.is = "none" /\ method' = method
    BY DEF IInv, Control, NoReply
  <1>2. ToldDone = FALSE /\ ToldDone' = FALSE /\ ToldAnswer = NoTable /\ ToldAnswer' = NoTable
    BY <1>1 DEF ToldDone, ToldAnswer, Told, ReadFrom, InCall, Ended
  <1> QED BY <1>1, <1>2 DEF ToldState, ToldShared, ToldCall, Told, InCall, Ended

\* cursor() makes a cursor.
LEMMA CursorOwnActs ==
  ASSUME IInv, careful, careful', NEW c \in Cursors, CursorOwn(c)
  PROVE  Object!New(c)
  <1>1. /\ method \in {"idle", "closed", "destroyed"} /\ held[c] = "none" /\ held' = [held EXCEPT ![c] = "own"]
        /\ UNCHANGED <<cursors_, cursor_id_, method, self, table, request, reply, opened>>
    BY DEF CursorOwn, MayCall, MayUse, callVars, serverVars, IInv, Control, NoReply
  <1>2. UNCHANGED <<ToldState, ToldShared, ToldCall, ToldDone, ToldAnswer, ToldOn>>
    <2>1. \A d \in Cursors : OpenOn(d)' = OpenOn(d)
      BY <1>1 DEF OpenOn
    <2> QED BY <2>1, <1>1, StaysBetween DEF ToldOn, Told
  <1>3. ToldOn[c] = NoTable /\ Object!AtRest /\ ToldCall = Object!NoCall
    <2>1. method \in {"idle", "closed", "destroyed"} /\ cursor_id_[c] = 0
      BY <1>1 DEF IInv, Map
    <2> QED BY <2>1, OutsideCalls
  <1> QED BY <1>1, <1>2, <1>3 DEF Object!New, ToldHeld, Told

\* A careful client drops a cursor that is closed.
LEMMA DropActs ==
  ASSUME IInv, careful, careful', NEW c \in Cursors, Drop(c)
  PROVE  Object!Drop(c)
  <1>1. /\ method \in {"idle", "closed", "destroyed"}
        /\ held[c] = "own" /\ held' = [held EXCEPT ![c] = "none"]
        /\ cursor_id_[c] = 0 \/ halfClosed
        /\ cursor_id_'[c] = 0 /\ \A d \in Cursors : d # c => cursor_id_'[d] = cursor_id_[d]
        /\ UNCHANGED <<cursors_, method, self, table, request, reply, opened>>
    BY DEF Drop, MayCall, MayUse, callVars, serverVars, IInv, TypeOK, Control, NoReply
  <1>2. UNCHANGED <<ToldState, ToldShared, ToldCall, ToldDone, ToldAnswer, ToldOn>>
    <2>1. request.op = "none" /\ request'.op = "none"
          /\ method # "seek_table" /\ method' # "seek_table"
      BY <1>1 DEF IInv, Control
    <2>2. \A d \in Cursors : OpenOn(d)' = OpenOn(d)
      <3>1. OpenOn(c)' = NoTable
        BY <1>1, <2>1 DEF OpenOn
      <3>2. OpenOn(c) = NoTable
        <4>1. method \in {"idle", "closed", "destroyed"} /\ (cursor_id_[c] = 0 \/ halfClosed)
          BY <1>1
        <4> QED BY <4>1, OutsideCalls
      <3> QED BY <1>1, <2>1, <3>1, <3>2 DEF OpenOn
    <2> QED BY <2>2, <1>1, StaysBetween DEF ToldOn, Told
  <1>3. ToldOn[c] = NoTable /\ Object!AtRest /\ ToldCall = Object!NoCall
    <2>1. method \in {"idle", "closed", "destroyed"} /\ (cursor_id_[c] = 0 \/ halfClosed)
      BY <1>1
    <2> QED BY <2>1, OutsideCalls
  <1> QED BY <1>1, <1>2, <1>3 DEF Object!Drop, ToldHeld, Told

\* cursor(table) of a table in the map changes nothing.
LEMMA CursorFoundActs ==
  ASSUME IInv, careful, careful', NEW T \in Tables, CursorFound(T)
  PROVE  UNCHANGED Object!vars
  <1>1. method = "idle"
        /\ UNCHANGED <<cursors_, cursor_id_, held, method, self, table, request, reply, opened>>
    BY DEF CursorFound, MayCall, MayUse, callVars, serverVars, IInv, TypeOK, Map, Control, NoReply
  <1>2. \A d \in Cursors : OpenOn(d)' = OpenOn(d)
    BY <1>1 DEF OpenOn
  <1> QED BY <1>1, <1>2, StaysBetween DEF Object!vars, ToldHeld, ToldOn, Told

\* cursor(table) of another table is a call.
LEMMA CursorNewActs ==
  ASSUME IInv, careful, careful', NEW T \in Tables, NEW c \in Cursors, CursorNew(T, c)
  PROVE  Object!Call("cursor", c, T)
  <1>1. /\ method = "idle" /\ cursors_[T] = NoCursor /\ held[c] = "none"
        /\ method' = "cursor" /\ self' = c /\ table' = T
        /\ reply' = NoReply
        /\ UNCHANGED <<cursors_, cursor_id_, held, opened>>
    BY DEF CursorNew, MayCall, MayUse, Enter, async_open_cursor, Send, serverVars, IInv, Control,
       NoReply
  <1>2. /\ ToldCall' = Object!CallOf("cursor", c, T)
        /\ UNCHANGED <<ToldState, ToldHeld, ToldOn, ToldDone, ToldAnswer>>
    BY <1>1, CallStarts DEF NoReply
  <1>3. Object!Ready /\ ToldOn[c] = NoTable /\ ToldHeld = held /\ ToldShared = cursors_
    BY <1>1, Between DEF IInv, Map
  <1> QED BY <1>1, <1>2, <1>3 DEF Object!Call, Object!MayCall, Object!Opens, ToldShared, Told

\* So is open_cursor, which a careful client calls for a closed cursor.
LEMMA OpenCursorActs ==
  ASSUME IInv, careful, careful', NEW T \in Tables, NEW c \in Cursors, OpenCursor(c, T)
  PROVE  Object!Call("open_cursor", c, T)
  <1>1. /\ method = "idle" /\ held[c] = "own" /\ cursor_id_[c] = 0
        /\ method' = "open_cursor" /\ self' = c /\ table' = T
        /\ reply' = NoReply
        /\ UNCHANGED <<cursors_, cursor_id_, held, opened>>
    BY DEF OpenCursor, MayCall, MayUse, Enter, async_open_cursor, Send, serverVars, Opens, IInv,
       Control, NoReply
  <1>2. /\ ToldCall' = Object!CallOf("open_cursor", c, T)
        /\ UNCHANGED <<ToldState, ToldHeld, ToldOn, ToldDone, ToldAnswer>>
    BY <1>1, CallStarts DEF NoReply
  <1>3. Object!Ready /\ ToldOn[c] = NoTable /\ ToldHeld = held /\ ToldShared = cursors_
    BY <1>1, Between
  <1> QED BY <1>1, <1>2, <1>3 DEF Object!Call, Object!MayCall, Object!Opens, ToldShared, Told

\* So is seek(table, key) ...
LEMMA SeekTableActs ==
  ASSUME IInv, careful, careful', NEW T \in Tables, NEW c \in Cursors, SeekTable(c, T)
  PROVE  Object!Call("seek_table", c, T)
  <1>1. /\ method = "idle" /\ held[c] = "own" /\ cursor_id_[c] = 0
        /\ method' = "seek_table" /\ self' = c /\ table' = T
        /\ reply' = NoReply /\ request'.op = "open"
        /\ UNCHANGED <<cursors_, cursor_id_, held, opened>>
    <2>1. held[c] = "own" /\ cursor_id_[c] = 0 /\ ~halfClosed
      BY DEF SeekTable, Opens
    <2>2. method = "idle"
      BY <2>1 DEF SeekTable, MayUse, IInv, Control
    <2> QED BY <2>1, <2>2 DEF SeekTable, Enter, async_open_cursor, Send, serverVars
  <1>2. /\ ToldCall' = Object!CallOf("seek_table", c, T)
        /\ UNCHANGED <<ToldState, ToldHeld, ToldOn, ToldDone, ToldAnswer>>
    BY <1>1, CallStarts DEF NoReply
  <1>3. Object!Ready /\ ToldOn[c] = NoTable /\ ToldHeld = held /\ ToldShared = cursors_
    BY <1>1, Between
  <1> QED BY <1>1, <1>2, <1>3 DEF Object!Call, Object!MayCall, Object!Opens, ToldShared, Told

\* ... and seek, which it calls for an open one ...
LEMMA SeekActs ==
  ASSUME IInv, careful, careful', NEW c \in Cursors, Seek(c)
  PROVE  Object!Call("seek", c, NoTable)
  <1>1. /\ method = "idle" /\ held[c] # "none" /\ cursor_id_[c] # 0
        /\ method' = "seek" /\ self' = c /\ table' = NoTable
        /\ reply' = NoReply
        /\ UNCHANGED <<cursors_, cursor_id_, held, opened>>
    BY DEF Seek, MayCall, MayUse, Enter, async_seek, Send, serverVars, Reads, IInv, Control, NoReply
  <1>2. /\ ToldCall' = Object!CallOf("seek", c, NoTable)
        /\ UNCHANGED <<ToldState, ToldHeld, ToldOn, ToldDone, ToldAnswer>>
    BY <1>1, CallStarts DEF NoReply
  <1>3. Object!Ready /\ ToldOn[c] # NoTable /\ ToldHeld = held /\ ToldShared = cursors_
    BY <1>1, Between
  <1> QED BY <1>1, <1>2, <1>3 DEF Object!Call, Object!MayCall, ToldShared, Told

\* ... and next ...
LEMMA NextPairActs ==
  ASSUME IInv, careful, careful', NEW c \in Cursors, NextPair(c)
  PROVE  Object!Call("next", c, NoTable)
  <1>1. /\ method = "idle" /\ held[c] # "none" /\ cursor_id_[c] # 0
        /\ method' = "next" /\ self' = c /\ table' = NoTable
        /\ reply' = NoReply
        /\ UNCHANGED <<cursors_, cursor_id_, held, opened>>
    BY DEF NextPair, MayCall, MayUse, Enter, async_next, Send, serverVars, Reads, IInv, Control,
       NoReply
  <1>2. /\ ToldCall' = Object!CallOf("next", c, NoTable)
        /\ UNCHANGED <<ToldState, ToldHeld, ToldOn, ToldDone, ToldAnswer>>
    BY <1>1, CallStarts DEF NoReply
  <1>3. Object!Ready /\ ToldOn[c] # NoTable /\ ToldHeld = held /\ ToldShared = cursors_
    BY <1>1, Between
  <1> QED BY <1>1, <1>2, <1>3 DEF Object!Call, Object!MayCall, ToldShared, Told

\* ... and close_cursor, unless the cursor is closed.
LEMMA CloseCursorActs ==
  ASSUME IInv, careful, careful', NEW c \in Cursors, CloseCursor(c)
  PROVE  Object!Call("close_cursor", c, NoTable) \/ UNCHANGED Object!vars
  <1>1. /\ method = "idle" /\ held[c] = "own" /\ ~halfClosed
        /\ UNCHANGED <<cursors_, cursor_id_, held, opened>>
    BY DEF CloseCursor, MayCall, MayUse, serverVars, Closes, IInv, Control, NoReply
  <1>2. CASE cursor_id_[c] # 0
    <2>1. method' = "close_cursor" /\ self' = c /\ table' = NoTable /\ reply' = NoReply
      BY <1>1, <1>2 DEF CloseCursor, Enter, async_close_cursor, Send
    <2>2. /\ ToldCall' = Object!CallOf("close_cursor", c, NoTable)
          /\ UNCHANGED <<ToldState, ToldHeld, ToldOn, ToldDone, ToldAnswer>>
      BY <1>1, <2>1, CallStarts DEF NoReply
    <2>3. Object!Ready /\ ToldOn[c] # NoTable /\ ToldHeld = held /\ ToldShared = cursors_
      BY <1>1, <1>2, Between
    <2> QED BY <1>1, <2>2, <2>3 DEF Object!Call, Object!MayCall, ToldShared, Told
  <1>3. CASE cursor_id_[c] = 0
    <2>1. UNCHANGED <<method, self, table, request, reply>>
      BY <1>3 DEF CloseCursor, callVars
    <2>2. \A d \in Cursors : OpenOn(d)' = OpenOn(d)
      BY <1>1, <2>1 DEF OpenOn
    <2> QED BY <1>1, <2>1, <2>2, StaysBetween DEF Object!vars, ToldHeld, ToldOn, Told
  <1> QED BY <1>2, <1>3

\* close() is a call, and gives the shared cursors up if they are all closed.
LEMMA CloseActs ==
  ASSUME IInv, careful, careful', Close
  PROVE  Object!CallClose
  <1>1. /\ method = "idle" /\ method' = "close" /\ table' = NoTable /\ reply' = NoReply
        /\ UNCHANGED <<cursor_id_, held, opened>>
    BY DEF Close, CloseFrom, async_close_cursor, async_close, Send, serverVars, IInv, Control,
       NoReply
  <1>2. /\ ToldCall' = Object!CallOf("close", NoCursor, NoTable)
        /\ UNCHANGED <<ToldState, ToldHeld, ToldOn, ToldDone, ToldAnswer>>
    BY <1>1, CallStarts DEF NoReply
  <1>3. Object!Ready /\ ToldShared = cursors_ /\ ToldShared' = cursors_'
        /\ \A c \in Cursors : cursor_id_[c] = 0 => ToldOn[c] = NoTable
    BY <1>1, Between DEF ToldShared, Told
  <1>4. Object!GiveUpShared \/ UNCHANGED ToldShared
    <2>1. \/ UNCHANGED cursors_
          \/ /\ \A T \in Tables : cursors_[T] # NoCursor => cursor_id_[cursors_[T]] = 0
             /\ cursors_' = [T \in Tables |-> NoCursor]
      BY DEF Close, CloseFrom
    <2>2. \A T \in Tables : cursors_[T] # NoCursor => cursors_[T] \in Cursors
      BY DEF IInv, TypeOK
    <2> QED BY <1>3, <2>1, <2>2 DEF Object!GiveUpShared, Object!NothingShared
  <1> QED BY <1>2, <1>3, <1>4 DEF Object!CallClose

\* The end of the object is not told.
LEMMA DestroyActs ==
  ASSUME IInv, careful, careful', Destroy
  PROVE  UNCHANGED Object!vars
  <1>1. /\ method = "closed" /\ method' = "destroyed"
        /\ UNCHANGED <<cursors_, cursor_id_, held, self, table, request, reply, opened>>
    BY DEF Destroy, callVars, serverVars
  <1>2. request.op = "none" /\ reply.is = "none"
    BY <1>1 DEF IInv, Control, NoReply
  <1>3. \A c \in Cursors : OpenOn(c)' = OpenOn(c)
    BY <1>1, <1>2 DEF OpenOn
  <1> QED BY <1>1, <1>2, <1>3 DEF Object!vars, ToldState, ToldHeld, ToldShared, ToldOn, ToldCall,
             ToldDone, ToldAnswer, Told, TookEffect, ReadFrom, InCall, Ended

\* While a request is awaited the client is in a call.
LEMMA Within ==
  ASSUME IInv, careful, request.op # "none"
  PROVE  /\ InCall /\ ToldState = "open"
         /\ ToldCall = Object!CallOf(method, IF method = "close" THEN NoCursor ELSE self, table)
         /\ TookEffect => ToldDone = TRUE
         /\ ~TookEffect => ToldDone = FALSE /\ ToldAnswer = NoTable
         /\ method \notin {"seek", "next", "seek_table"} => ToldAnswer = NoTable
         /\ ToldHeld = held /\ ToldShared = cursors_
         /\ \A c \in Cursors : ToldOn[c] = OpenOn(c)
  <1>1. InCall
    BY DEF IInv, Control, InCall, Ended
  <1>2. method # "unborn" /\ ~Ended
    BY DEF IInv, Control, Ended
  <1> QED BY <1>1, <1>2
      DEF ToldState, ToldCall, ToldDone, ToldAnswer, ToldHeld, ToldShared, ToldOn, Told, ReadFrom,
          Object!CallOf

\* It stays in that call from one request to the next, and as long as one is awaited.
LEMMA StaysWithin ==
  ASSUME IInv, careful, careful', request.op # "none",
         UNCHANGED <<method, self, table>>
  PROVE  UNCHANGED <<ToldState, ToldCall>>
  <1>1. method # "unborn" /\ ~Ended /\ InCall
    BY DEF IInv, Control, Ended, InCall
  <1> QED BY <1>1 DEF ToldState, ToldCall, Told, Ended, InCall

\* The server opens the cursor: the open takes effect, but for that of seek(table, key).
LEMMA ServeOpenActs ==
  ASSUME IInv, careful, careful', ServeOpen
  PROVE  Object!Open \/ UNCHANGED Object!vars
  <1>1. /\ request.op = "open" /\ reply.is = "none" /\ reply'.is = "answer" /\ reply'.id = lastId + 1
        /\ UNCHANGED <<cursors_, cursor_id_, held, method, self, table, request>>
    BY DEF ServeOpen, clientVars, NoReply
  <1>2. /\ self \in Cursors /\ cursor_id_[self] = 0 /\ table \in Tables
        /\ method \in {"cursor", "open_cursor", "seek_table"}
    BY <1>1 DEF IInv, Control
  <1>3. /\ opened'[lastId + 1] = table
        /\ \A c \in Cursors : cursor_id_[c] # 0 => opened'[cursor_id_[c]] = opened[cursor_id_[c]]
    <2>1. /\ lastId < calls /\ calls <= MaxCalls /\ lastId \in Nat /\ calls \in Nat
          /\ MaxCalls \in Nat /\ request.table = table
      BY RemoteTransactionAssumption, <1>1 DEF ServeOpen, IInv, TypeOK, Control, Numbers
    <2>2. lastId + 1 \in Ids
      BY <2>1 DEF Ids
    <2>3. \A c \in Cursors : cursor_id_[c] # lastId + 1 /\ cursor_id_[c] \in {0} \cup Ids
      BY <2>1 DEF IInv, TypeOK, Numbers, Ids
    <2> QED BY <2>1, <2>2, <2>3 DEF ServeOpen, IInv, TypeOK
  <1>4. UNCHANGED <<ToldState, ToldHeld, ToldShared, ToldCall>> /\ ~TookEffect /\ ToldDone = FALSE
    <2>1. ~TookEffect
      BY <1>1 DEF TookEffect
    <2> QED BY <1>1, <2>1, Within, StaysWithin DEF ToldHeld, ToldShared, Told
  <1>5. CASE method = "seek_table"
    <2>1. ~TookEffect'
      BY <1>1, <1>5 DEF TookEffect
    <2>2. UNCHANGED <<ToldDone, ToldAnswer>>
      BY <2>1, <1>4 DEF ToldDone, ToldAnswer, Told, ReadFrom
    <2>3. \A c \in Cursors : OpenOn(c)' = OpenOn(c)
      BY <1>1, <1>3, <1>5 DEF OpenOn
    <2> QED BY <1>4, <2>2, <2>3 DEF Object!vars, ToldOn, Told
  <1>6. CASE method # "seek_table"
    <2>1. TookEffect' /\ InCall'
      BY <1>1, <1>2, <1>6 DEF TookEffect, InCall, Ended
    <2>2. ToldDone' = TRUE /\ UNCHANGED ToldAnswer
      BY <2>1, <1>1, <1>2, <1>4, <1>6 DEF ToldDone, ToldAnswer, Told, ReadFrom
    <2>3. \A c \in Cursors : OpenOn(c)' = IF c = self THEN table ELSE OpenOn(c)
      BY <1>1, <1>3, <1>6 DEF OpenOn
    <2>4. ToldCall.method \in {"cursor", "open_cursor"} /\ ToldCall.cursor = self /\ ToldCall.table = table
      BY <1>1, <1>2, <1>6, Within DEF Object!CallOf
    <2>5. ToldOn' = [ToldOn EXCEPT ![self] = table]
      <3>1. ToldOn = [c \in Cursors |-> OpenOn(c)] /\ ToldOn' = [c \in Cursors |-> OpenOn(c)']
        BY DEF ToldOn, Told
      <3> QED BY <3>1, <2>3
    <2> QED BY <1>4, <2>2, <2>4, <2>5 DEF Object!Open
  <1> QED BY <1>5, <1>6

\* The server has the cursor a careful client's request names, on the table the client
\* asked it for.
LEMMA RequestNamesOpen ==
  ASSUME IInv, careful, request.op \in {"seek", "next", "close"}, reply.is = "none"
  PROVE  /\ self \in Cursors /\ request.id = cursor_id_[self] /\ request.id # 0
         /\ request.id \in Ids
         /\ opened[request.id] # NoTable /\ opened[request.id] = asked[self]
  <1>1. self \in Cursors /\ request.id = cursor_id_[self] /\ request.id # 0
    BY DEF IInv, Control
  <1>2. opened[cursor_id_[self]] # NoTable
    BY <1>1 DEF IInv, Control, Numbers
  <1>3. request.id \in Ids
    BY <1>1 DEF IInv, TypeOK
  <1> QED BY <1>1, <1>2, <1>3 DEF IInv, Care

\* The server reads: the read takes effect.
LEMMA ServeReadActs ==
  ASSUME IInv, Place, careful, careful', ServeCursor, request.op # "close"
  PROVE  Object!Read \/ Object!ReadTable
  <1>1. /\ request.op \in {"seek", "next"} /\ reply.is = "none"
        /\ UNCHANGED <<cursors_, cursor_id_, held, method, self, table, request>>
    BY DEF ServeCursor, clientVars, NoReply
  <1>2. /\ self \in Cursors /\ request.id = cursor_id_[self] /\ request.id # 0
        /\ opened[request.id] # NoTable /\ opened[request.id] = asked[self]
    BY <1>1, RequestNamesOpen
  <1>3. reply'.is = "answer" /\ UNCHANGED opened
    BY <1>2 DEF ServeCursor, OpenAtServer
  <1>4. method \in {"seek", "next", "seek_table"}
    BY <1>1 DEF IInv, Control
  <1>5. UNCHANGED <<ToldState, ToldHeld, ToldShared, ToldCall>> /\ ToldDone = FALSE
    <2>1. ~TookEffect
      BY <1>1 DEF TookEffect
    <2> QED BY <1>1, <2>1, Within, StaysWithin DEF ToldHeld, ToldShared, Told
  <1>6. ToldDone' = TRUE /\ ToldAnswer' = opened[request.id]
    <2>1. TookEffect' /\ InCall'
      BY <1>1, <1>3, <1>4 DEF TookEffect, InCall, Ended
    <2> QED BY <2>1, <1>1, <1>3, <1>4 DEF ToldDone, ToldAnswer, Told, ReadFrom
  <1>7. UNCHANGED ToldOn
    <2>1. \A c \in Cursors : OpenOn(c)' = OpenOn(c)
      BY <1>1, <1>3 DEF OpenOn
    <2> QED BY <2>1 DEF ToldOn, Told
  <1>8. ToldCall.method = method /\ ToldCall.cursor = self /\ ToldCall.table = table
    <2>1. request.op # "none" /\ method # "close"
      BY <1>1, <1>4
    <2> QED BY <2>1, Within DEF Object!CallOf
  <1>9. CASE method = "seek_table"
    BY <1>2, <1>5, <1>6, <1>7, <1>8, <1>9 DEF Place, Object!ReadTable
  <1>10. CASE method # "seek_table"
    <2>1. ToldOn[self] = opened[request.id]
      BY <1>1, <1>2, <1>10, Within DEF OpenOn
    <2> QED BY <1>4, <1>5, <1>6, <1>7, <1>8, <1>10, <2>1 DEF Object!Read
  <1> QED BY <1>9, <1>10

\* The server closes the cursor: close_cursor takes effect, close() has one less to close,
\* and seek(table, key) had taken effect before.
LEMMA ServeCloseActs ==
  ASSUME IInv, Place, careful, careful', ServeCursor, request.op = "close"
  PROVE  Object!Close \/ (\E T \in Tables : Object!CloseShared(T)) \/ UNCHANGED Object!vars
  <1>1. /\ reply.is = "none"
        /\ UNCHANGED <<cursors_, cursor_id_, held, method, self, table, request>>
    BY DEF ServeCursor, clientVars, NoReply
  <1>2. /\ self \in Cursors /\ request.id = cursor_id_[self] /\ request.id # 0 /\ request.id \in Ids
        /\ opened[request.id] # NoTable /\ opened[request.id] = asked[self]
    BY <1>1, RequestNamesOpen
  <1>3. reply'.is = "answer" /\ opened' = [opened EXCEPT ![request.id] = NoTable]
    BY <1>2 DEF ServeCursor, OpenAtServer
  <1>4. method \in {"close_cursor", "seek_table", "close"}
    BY <1>1 DEF IInv, Control
  <1>5. UNCHANGED <<ToldState, ToldHeld, ToldShared, ToldCall>>
    BY <1>1, StaysWithin DEF ToldHeld, ToldShared, Told
  <1>6. \A c \in Cursors :
           OpenOn(c)' = IF c = self /\ method # "seek_table" THEN NoTable ELSE OpenOn(c)
    <2>1. opened'[request.id] = NoTable /\ \A i \in Ids : i # request.id => opened'[i] = opened[i]
      BY <1>2, <1>3 DEF IInv, TypeOK
    <2>2. \A c \in Cursors : c # self /\ cursor_id_[c] # 0 => cursor_id_[c] \in Ids /\ cursor_id_[c] # request.id
      BY <1>2 DEF IInv, TypeOK, Numbers
    <2> QED BY <1>1, <1>2, <2>1, <2>2 DEF OpenOn
  <1>7. ToldOn = [c \in Cursors |-> OpenOn(c)] /\ ToldOn' = [c \in Cursors |-> OpenOn(c)']
    BY DEF ToldOn, Told
  <1>8. CASE method = "seek_table"
    <2>1. UNCHANGED ToldOn
      BY <1>6, <1>7, <1>8
    <2>2. TookEffect /\ TookEffect' /\ InCall /\ InCall'
      BY <1>1, <1>8 DEF TookEffect, InCall, Ended
    <2>3. UNCHANGED <<ToldDone, ToldAnswer>>
      BY <1>1, <1>2, <1>3, <1>8, <2>2 DEF ToldDone, ToldAnswer, Told, ReadFrom, Place
    <2> QED BY <1>5, <2>1, <2>3 DEF Object!vars
  <1>9. CASE method # "seek_table"
    <2>1. ~TookEffect /\ ToldDone = FALSE /\ ToldAnswer = NoTable /\ ToldAnswer' = NoTable
      <3>1. ~TookEffect
        BY <1>1, <1>9 DEF TookEffect
      <3> QED BY <1>1, <1>4, <1>9, <3>1, Within DEF ToldAnswer, Told, ReadFrom
    <2>2. ToldOn' = [ToldOn EXCEPT ![self] = NoTable]
      BY <1>6, <1>7, <1>9
    <2>3. CASE method = "close_cursor"
      <3>1. ToldDone' = TRUE
        BY <1>1, <1>3, <2>3 DEF ToldDone, Told, TookEffect, InCall, Ended
      <3>2. ToldCall.method = "close_cursor" /\ ToldCall.cursor = self
        BY <1>1, <2>3, Within DEF Object!CallOf
      <3> QED BY <1>5, <2>1, <2>2, <3>1, <3>2 DEF Object!Close
    <2>4. CASE method = "close"
      <3>1. PICK T \in Tables : cursors_[T] = self
        BY <2>4 DEF Place
      <3>2. ToldDone' = FALSE
        BY <1>1, <2>4 DEF ToldDone, Told, TookEffect
      <3>3. ToldCall.method = "close" /\ ToldShared = cursors_
        BY <1>1, <2>4, Within DEF Object!CallOf
      <3>4. self # NoCursor /\ ToldOn[self] # NoTable
        BY <1>1, <1>2, <1>7, <2>4, RemoteTransactionAssumption DEF OpenOn
      <3>5. Object!CloseShared(T)
        BY <1>5, <2>1, <2>2, <3>1, <3>2, <3>3, <3>4 DEF Object!CloseShared
      <3> QED BY <3>5
    <2> QED BY <1>4, <1>9, <2>3, <2>4
  <1> QED BY <1>8, <1>9

\* The server ends the transaction.
LEMMA ServeHalfCloseActs ==
  ASSUME IInv, careful, careful', ServeHalfClose
  PROVE  Object!End
  <1>1. /\ request.op = "halfclose" /\ reply.is = "none" /\ reply'.is = "answer" /\ reply'.id = 0
        /\ opened' = [i \in Ids |-> NoTable]
        /\ UNCHANGED <<cursors_, cursor_id_, held, method, self, table, request>>
    BY DEF ServeHalfClose, clientVars, NoReply
  <1>2. method = "close" /\ cursors_ = [T \in Tables |-> NoCursor]
    BY <1>1 DEF IInv, TypeOK, Control, Map
  <1>3. UNCHANGED <<ToldState, ToldHeld, ToldShared, ToldCall>>
    BY <1>1, StaysWithin DEF ToldHeld, ToldShared, Told
  <1>4. ToldDone = FALSE /\ ToldCall.method = "close" /\ ToldShared = cursors_ /\ ToldAnswer = NoTable
    <2>1. ~TookEffect
      BY <1>1, <1>2 DEF TookEffect
    <2> QED BY <1>1, <1>2, <2>1, Within DEF Object!CallOf
  <1>5. ToldDone' = TRUE /\ ToldAnswer' = NoTable
    BY <1>1, <1>2 DEF ToldDone, ToldAnswer, Told, ReadFrom, TookEffect, InCall, Ended
  <1>6. ToldOn' = Object!NothingOpen
    <2>1. \A c \in Cursors : OpenOn(c)' = NoTable
      BY <1>1, <1>2 DEF OpenOn, IInv, TypeOK
    <2> QED BY <2>1 DEF ToldOn, Told, Object!NothingOpen
  <1> QED BY <1>2, <1>3, <1>4, <1>5, <1>6 DEF Object!End, Object!NothingShared

\* What a return tells: the call is over, and has no answer any more.
LEMMA CallReturns ==
  ASSUME IInv, careful, careful', method' = "idle", reply'.is = "none"
  PROVE  ToldCall' = Object!NoCall /\ ToldDone' = FALSE /\ ToldAnswer' = NoTable /\ ToldState' = "open"
  BY DEF ToldCall, ToldDone, ToldAnswer, ToldState, Told, ReadFrom, InCall, Ended, TookEffect,
         Object!NoCall, Object!CallOf

\* The reply to the open is taken: cursor(table) and open_cursor return.
LEMMA ResumeOpenActs ==
  ASSUME IInv, Place, careful, careful', ResumeOpen
  PROVE  Object!Return \/ UNCHANGED Object!vars
  <1>1. /\ request.op = "open" /\ reply.is = "answer"
        /\ cursor_id_' = [cursor_id_ EXCEPT ![self] = reply.id]
        /\ UNCHANGED opened
    BY DEF ResumeOpen, Resumed, serverVars
  <1>2. /\ self \in Cursors /\ cursor_id_[self] = 0 /\ table \in Tables
        /\ method \in {"cursor", "open_cursor", "seek_table"}
        /\ cursor_id_ \in [Cursors -> {0} \cup Ids]
        /\ cursors_ \in [Tables -> Cursors \cup {NoCursor}]
        /\ held \in [Cursors -> {"none", "own", "shared"}]
    BY <1>1 DEF IInv, TypeOK, Control
  <1>3. reply.id # 0
    BY <1>1 DEF IInv, Numbers
  <1>4. ToldState = "open" /\ ToldHeld = held /\ ToldShared = cursors_
    BY <1>1, Within
  <1>5. ToldOn = [c \in Cursors |-> OpenOn(c)] /\ ToldOn' = [c \in Cursors |-> OpenOn(c)']
    BY DEF ToldOn, Told
  <1>6. \A c \in Cursors : c # self => cursor_id_'[c] = cursor_id_[c]
    BY <1>1, <1>2
  <1>7. cursor_id_'[self] = reply.id
    BY <1>1, <1>2
  <1>8. CASE method = "seek_table"
    <2>1. /\ reply'.is = "none" /\ request'.op = "seek"
          /\ UNCHANGED <<method, self, table, cursors_, held>>
      BY <1>1, <1>2, <1>8 DEF ResumeOpen, async_seek, Send, NoReply, IInv, Control
    <2>2. ~TookEffect /\ ~TookEffect'
      BY <1>1, <1>8, <2>1 DEF TookEffect
    <2>3. UNCHANGED <<ToldState, ToldCall, ToldHeld, ToldShared, ToldDone, ToldAnswer>>
      <3>1. UNCHANGED <<ToldState, ToldCall>>
        BY <1>1, <2>1, StaysWithin
      <3>2. UNCHANGED <<ToldDone, ToldAnswer>>
        BY <2>2 DEF ToldDone, ToldAnswer, Told, ReadFrom
      <3> QED BY <2>1, <3>1, <3>2 DEF ToldHeld, ToldShared, Told
    <2>4. \A c \in Cursors : OpenOn(c)' = OpenOn(c)
      BY <1>1, <1>6, <1>8, <2>1 DEF OpenOn
    <2> QED BY <1>5, <2>3, <2>4 DEF Object!vars
  <1>9. CASE method # "seek_table"
    <2>1. method' = "idle" /\ request'.op = "none" /\ reply'.is = "none"
      BY <1>9 DEF ResumeOpen, Return, Finished, NoRequest, NoReply
    <2>2. ToldCall' = Object!NoCall /\ ToldDone' = FALSE /\ ToldAnswer' = NoTable /\ ToldState' = "open"
      BY <2>1, CallReturns
    <2>3. /\ ToldDone = TRUE /\ ToldCall.method = method
          /\ ToldCall.cursor = self /\ ToldCall.table = table
      <3>1. TookEffect /\ method # "close" /\ request.op # "none"
        BY <1>1, <1>2, <1>9 DEF TookEffect
      <3> QED BY <3>1, Within DEF Object!CallOf
    <2>4. \A c \in Cursors : OpenOn(c)' = OpenOn(c)
      BY <1>1, <1>3, <1>6, <1>7, <1>9, <2>1 DEF OpenOn
    <2>5. UNCHANGED ToldOn
      BY <1>5, <2>4
    <2>6. ToldHeld' = held' /\ ToldShared' = cursors_'
      BY DEF ToldHeld, ToldShared, Told
    <2>7. IF method = "cursor"
          THEN cursors_' = [cursors_ EXCEPT ![table] = self] /\ held' = [held EXCEPT ![self] = "shared"]
          ELSE UNCHANGED <<cursors_, held>>
      BY DEF ResumeOpen
    <2> QED BY <1>2, <1>4, <2>2, <2>3, <2>5, <2>6, <2>7 DEF Object!Return
  <1> QED BY <1>8, <1>9

\* The reply to a read is taken: seek and next return ...
LEMMA ReadReturns ==
  ASSUME IInv, careful, careful', request.op \in {"seek", "next"}, reply.is = "answer",
         method # "seek_table", Return, Finished, UNCHANGED <<cursors_, cursor_id_, held, opened>>
  PROVE  Object!Return
  <1>1. method' = "idle" /\ request'.op = "none" /\ reply'.is = "none"
    BY DEF Return, Finished, NoRequest, NoReply
  <1>2. method \in {"seek", "next"}
    BY DEF IInv, Control
  <1>3. ToldCall' = Object!NoCall /\ ToldDone' = FALSE /\ ToldAnswer' = NoTable /\ ToldState' = "open"
    BY <1>1, CallReturns
  <1>4. ToldState = "open" /\ ToldDone = TRUE /\ ToldCall.method = method
    <2>1. TookEffect /\ request.op # "none"
      BY <1>2 DEF TookEffect
    <2> QED BY <2>1, Within DEF Object!CallOf
  <1>5. \A c \in Cursors : OpenOn(c)' = OpenOn(c)
    BY <1>1 DEF OpenOn
  <1>6. UNCHANGED <<ToldHeld, ToldShared, ToldOn>>
    BY <1>5 DEF ToldHeld, ToldShared, ToldOn, Told
  <1> QED BY <1>2, <1>3, <1>4, <1>6 DEF Object!Return

\* ... while seek(table, key) goes on to close its cursor.
LEMMA ResumeSeekActs ==
  ASSUME IInv, careful, careful', ResumeSeek
  PROVE  Object!Return \/ UNCHANGED Object!vars
  <1>1. /\ request.op = "seek" /\ reply.is = "answer"
        /\ UNCHANGED <<cursors_, cursor_id_, held, opened>>
    BY DEF ResumeSeek, Resumed, serverVars
  <1>2. CASE method = "seek_table"
    <2>1. /\ reply'.is = "none" /\ request'.op = "close" /\ request'.id = cursor_id_[self]
          /\ UNCHANGED <<method, self, table>>
      BY <1>1, <1>2 DEF ResumeSeek, async_close_cursor, Send, NoReply, IInv, Control
    <2>2. TookEffect /\ TookEffect' /\ InCall /\ InCall'
      BY <1>1, <1>2, <2>1 DEF TookEffect, InCall, Ended
    <2>3. request.id = cursor_id_[self]
      BY <1>1 DEF IInv, Control
    <2>4. UNCHANGED <<ToldDone, ToldAnswer>>
      BY <1>1, <1>2, <2>1, <2>2, <2>3 DEF ToldDone, ToldAnswer, Told, ReadFrom
    <2>5. UNCHANGED <<ToldState, ToldCall>>
      BY <1>1, <2>1, StaysWithin
    <2>6. \A c \in Cursors : OpenOn(c)' = OpenOn(c)
      BY <1>1, <1>2, <2>1 DEF OpenOn
    <2> QED BY <1>1, <2>4, <2>5, <2>6 DEF Object!vars, ToldHeld, ToldShared, ToldOn, Told
  <1>3. CASE method # "seek_table"
    BY <1>1, <1>3, ReadReturns DEF ResumeSeek
  <1> QED BY <1>2, <1>3

\* next returns.
LEMMA ResumeNextActs ==
  ASSUME IInv, careful, careful', ResumeNext
  PROVE  Object!Return
  <1>1. /\ request.op = "next" /\ reply.is = "answer" /\ Return /\ Finished
        /\ UNCHANGED <<cursors_, cursor_id_, held, opened>>
    BY DEF ResumeNext, Resumed, serverVars
  <1>2. method = "next"
    BY <1>1 DEF IInv, Control
  <1> QED BY <1>1, <1>2, ReadReturns

\* The reply to the close is taken: close_cursor and seek(table, key) return, and close()
\* goes on, giving the shared cursors up after the last.
LEMMA ResumeCloseCursorActs ==
  ASSUME IInv, careful, careful', ResumeCloseCursor
  PROVE  Object!Return \/ Object!CloseLast \/ UNCHANGED Object!vars
  <1>1. /\ request.op = "close" /\ reply.is = "answer"
        /\ cursor_id_' = [cursor_id_ EXCEPT ![self] = 0]
        /\ UNCHANGED <<held, opened>>
    BY DEF ResumeCloseCursor, Resumed, serverVars
  <1>2. /\ self \in Cursors /\ request.id = cursor_id_[self] /\ request.id # 0
        /\ method \in {"close_cursor", "seek_table", "close"}
        /\ opened[request.id] = NoTable
        /\ cursor_id_ \in [Cursors -> {0} \cup Ids]
    BY <1>1 DEF IInv, TypeOK, Control, Numbers
  <1>3. cursor_id_'[self] = 0 /\ \A c \in Cursors : c # self => cursor_id_'[c] = cursor_id_[c]
    BY <1>1, <1>2
  <1>4. \A c \in Cursors :
           OpenOn(c) = IF c = self \/ cursor_id_[c] = 0 THEN NoTable ELSE opened[cursor_id_[c]]
    BY <1>1, <1>2 DEF OpenOn
  <1>5. ToldOn = [c \in Cursors |-> OpenOn(c)] /\ ToldOn' = [c \in Cursors |-> OpenOn(c)']
    BY DEF ToldOn, Told
  <1>6. CASE method # "close"
    <2>1. /\ method' = "idle" /\ request'.op = "none" /\ reply'.is = "none"
          /\ UNCHANGED cursors_
      BY <1>6 DEF ResumeCloseCursor, Return, Finished, NoRequest, NoReply
    <2>2. ToldCall' = Object!NoCall /\ ToldDone' = FALSE /\ ToldAnswer' = NoTable /\ ToldState' = "open"
      BY <2>1, CallReturns
    <2>3. ToldState = "open" /\ ToldDone = TRUE /\ ToldCall.method = method
      <3>1. TookEffect /\ request.op # "none"
        BY <1>1, <1>2, <1>6 DEF TookEffect
      <3> QED BY <3>1, Within DEF Object!CallOf
    <2>4. \A c \in Cursors : OpenOn(c)' = OpenOn(c)
      <3>1. \A c \in Cursors :
               OpenOn(c)' = IF cursor_id_'[c] = 0 THEN NoTable ELSE opened[cursor_id_'[c]]
        BY <1>1, <2>1 DEF OpenOn
      <3> QED BY <1>3, <1>4, <3>1
    <2> QED BY <1>1, <1>2, <1>5, <1>6, <2>1, <2>2, <2>3, <2>4
        DEF Object!Return, ToldHeld, ToldShared, Told
  <1>7. CASE method = "close"
    <2>1. CloseFrom(todo, cursor_id_') /\ UNCHANGED <<method, table>>
      BY <1>7 DEF ResumeCloseCursor
    <2>2. reply'.is = "none" /\ request'.op \in {"close", "halfclose"}
      BY <1>1, <1>7, <2>1
      DEF CloseFrom, async_close_cursor, async_close, Send, NoReply, IInv, Control
    <2>3. ~TookEffect /\ ~TookEffect'
      BY <1>1, <1>7, <2>1, <2>2 DEF TookEffect
    <2>4. UNCHANGED <<ToldState, ToldCall, ToldHeld, ToldDone, ToldAnswer>>
      <3>1. UNCHANGED <<ToldDone, ToldAnswer>>
        BY <2>3 DEF ToldDone, ToldAnswer, Told, ReadFrom
      <3>2. InCall /\ InCall' /\ method # "unborn" /\ ~Ended /\ ~Ended'
        BY <1>7, <2>1 DEF InCall, Ended
      <3> QED BY <1>1, <1>7, <2>1, <3>1, <3>2 DEF ToldState, ToldCall, ToldHeld, Told
    <2>5. \A c \in Cursors : OpenOn(c)' = OpenOn(c)
      <3>1. \A c \in Cursors :
               OpenOn(c)' = IF cursor_id_'[c] = 0 THEN NoTable ELSE opened[cursor_id_'[c]]
        BY <1>1, <1>7, <2>1, <2>2 DEF OpenOn
      <3> QED BY <1>3, <1>4, <3>1
    <2>6. UNCHANGED ToldOn
      BY <1>5, <2>5
    <2>7. ToldCall.method = "close" /\ ToldShared = cursors_ /\ ToldShared' = cursors_'
      <3>1. request.op # "none"
        BY <1>1
      <3> QED BY <3>1, <1>7, Within DEF ToldShared, Told, Object!CallOf
    <2>8. CASE {T \in todo : cursor_id_'[cursors_[T]] # 0} # {}
      BY <2>1, <2>4, <2>6, <2>7, <2>8 DEF CloseFrom, Object!vars
    <2>9. CASE {T \in todo : cursor_id_'[cursors_[T]] # 0} = {}
      <3>1. cursors_' = [T \in Tables |-> NoCursor]
        BY <2>1, <2>9 DEF CloseFrom
      <3>2. ASSUME NEW T \in Tables, cursors_[T] # NoCursor
            PROVE  ToldOn[cursors_[T]] = NoTable
        <4>1. cursors_[T] \in Cursors
          BY <3>2 DEF IInv, TypeOK
        <4>2. cursors_[T] = self \/ cursor_id_[cursors_[T]] = 0 \/ T \in todo
          BY <1>1, <1>7, <3>2 DEF IInv, Visiting
        <4>3. cursors_[T] = self \/ cursor_id_[cursors_[T]] = 0
          BY <1>3, <2>9, <4>1, <4>2
        <4> QED BY <1>4, <1>5, <4>1, <4>3
      <3> QED BY <2>4, <2>6, <2>7, <3>1, <3>2
          DEF Object!CloseLast, Object!GiveUpShared, Object!NothingShared
    <2> QED BY <2>8, <2>9
  <1> QED BY <1>6, <1>7

\* close() returns.
LEMMA ResumeCloseActs ==
  ASSUME IInv, careful, careful', ResumeClose
  PROVE  Object!CloseReturns
  <1>1. /\ request.op = "halfclose" /\ reply.is = "answer" /\ method' = "closed"
        /\ request'.op = "none" /\ reply'.is = "none"
        /\ UNCHANGED <<cursors_, cursor_id_, held, opened>>
    BY DEF ResumeClose, Resumed, Finished, NoRequest, NoReply, serverVars
  <1>2. method = "close"
    BY <1>1 DEF IInv, Control
  <1>3. ToldDone = TRUE /\ ToldCall.method = "close" /\ ToldAnswer = NoTable
    <2>1. TookEffect /\ request.op # "none"
      BY <1>1, <1>2 DEF TookEffect
    <2> QED BY <1>2, <2>1, Within DEF Object!CallOf
  <1>4. ToldState' = "closed" /\ ToldCall' = Object!NoCall /\ ToldDone' = FALSE /\ ToldAnswer' = NoTable
    BY <1>1 DEF ToldState, ToldCall, ToldDone, ToldAnswer, Told, ReadFrom, InCall, Ended,
                Object!NoCall, Object!CallOf
  <1>5. \A c \in Cursors : OpenOn(c)' = OpenOn(c)
    BY <1>1, <1>2 DEF OpenOn
  <1>6. UNCHANGED <<ToldHeld, ToldShared, ToldOn>>
    BY <1>1, <1>5 DEF ToldHeld, ToldShared, ToldOn, Told
  <1> QED BY <1>3, <1>4, <1>6 DEF Object!CloseReturns

\* Every step of the client, the server and the coroutine is one of the object's or none.
LEMMA ActsStep ==
  ASSUME IInv, IInv', Place, [Next]_vars
  PROVE  [Object!Next]_(Object!vars)
  <1>1. CASE UNCHANGED vars
    BY <1>1 DEF vars, clientVars, callVars, serverVars, Object!vars, ToldState, ToldHeld,
       ToldShared,
       ToldOn, ToldCall, ToldDone, ToldAnswer, Told, ReadFrom, TookEffect, OpenOn, InCall, Ended
  <1>2. CASE Next /\ ~careful
    BY <1>2, CareIsLost, NotTold
  <1>3. CASE Next /\ careful /\ ~careful'
    BY <1>3, MisuseStep DEF Object!Next
  <1>4. CASE Serve /\ careful /\ careful'
    BY <1>4, ServeOpenActs, ServeReadActs, ServeCloseActs, ServeHalfCloseActs DEF Serve, Object!Next
  <1>5. CASE Resume /\ careful /\ careful'
    BY <1>5, ResumeOpenActs, ResumeSeekActs, ResumeNextActs, ResumeCloseCursorActs, ResumeCloseActs
    DEF Resume, Object!Next
  <1>6. CASE Client /\ careful /\ careful'
    <2>1. CASE Begin \/ Close \/ Destroy
      BY <1>6, <2>1, BeginActs, CloseActs, DestroyActs DEF Object!Next
    <2>2. CASE \E T \in Tables : CursorFound(T)
      BY <1>6, <2>2, CursorFoundActs
    <2>3. ASSUME NEW c \in Cursors,
                 CursorOwn(c) \/ Drop(c) \/ Seek(c) \/ NextPair(c) \/ CloseCursor(c)
          PROVE  [Object!Next]_(Object!vars)
      BY <1>6, <2>3, CursorOwnActs, DropActs, SeekActs, NextPairActs, CloseCursorActs
      DEF Object!Next
    <2>4. ASSUME NEW c \in Cursors, NEW T \in Tables,
                 CursorNew(T, c) \/ OpenCursor(c, T) \/ SeekTable(c, T)
          PROVE  [Object!Next]_(Object!vars)
      BY <1>6, <2>4, CursorNewActs, OpenCursorActs, SeekTableActs DEF Object!Next
    <2> QED BY <1>6, <2>1, <2>2, <2>3, <2>4 DEF Client
  <1> QED BY <1>1, <1>2, <1>3, <1>4, <1>5, <1>6 DEF Next

\* Initially nothing has begun.
LEMMA ActsInit == Init => Object!Init
  <1> SUFFICES ASSUME Init PROVE Object!Init
    OBVIOUS
  <1>1. /\ careful /\ method = "unborn" /\ request.op = "none" /\ reply.is = "none"
        /\ cursors_ = [T \in Tables |-> NoCursor] /\ held = [c \in Cursors |-> "none"]
        /\ cursor_id_ = [c \in Cursors |-> 0]
    BY DEF Init, NoRequest, NoReply
  <1>2. \A c \in Cursors : OpenOn(c) = NoTable
    BY <1>1 DEF OpenOn
  <1>3. ToldOn = [c \in Cursors |-> NoTable]
    BY <1>1, <1>2 DEF ToldOn, Told
  <1>4. ToldDone = FALSE
    BY <1>1 DEF ToldDone, Told, InCall
  <1>5. /\ ToldState = "unborn" /\ ToldAnswer = NoTable
        /\ ToldCall = [method |-> "none", cursor |-> NoCursor, table |-> NoTable]
    BY <1>1 DEF ToldState, ToldCall, ToldAnswer, Told, ReadFrom, InCall
  <1> QED BY <1>1, <1>3, <1>4, <1>5
      DEF Object!Init, ToldHeld, ToldShared, Told, Object!NoCall, Object!CallOf,
          Object!NothingShared, Object!NothingOpen

\* Every method takes effect at once: RemoteTransaction implements KvTransaction.
THEOREM ActsAtOnceProved == Spec => ActsAtOnce
  <1>1. Spec => []Place
    <2>1. Init => Place
      BY InitPlace
    <2>2. IInv /\ IInv' /\ Place /\ [Next]_vars => Place'
      <3>1. Place /\ UNCHANGED vars => Place'
        BY DEF Place, vars, clientVars, callVars
      <3> QED BY PlaceStep, <3>1
    <2> QED BY <2>1, <2>2, Invariance, PTL DEF Spec
  <1>2. IInv /\ IInv' /\ Place /\ [Next]_vars => [Object!Next]_(Object!vars)
    BY ActsStep
  <1> QED BY ActsInit, <1>1, <1>2, Invariance, PTL DEF Spec, ActsAtOnce, Object!Spec
=============================================================================
