---------------------------- MODULE Common_proofs ----------------------------
(***************************************************************************)
(* The theorems about src/silkoroutine/common.                             *)
(*                                                                         *)
(* Log, for every set of threads, every number of statements and every     *)
(* number of changes of the streams: the inductive invariant IInv says how *)
(* the end of each stream goes with the place of the thread that holds the *)
(* mutex; LinesWhole and StreamsAgree follow.                              *)
(*                                                                         *)
(* Hex, for every text: the loop invariant of from_hex, what it decodes,   *)
(* and that it reads back what operator<< prints.                          *)
(***************************************************************************)
EXTENDS Log, Hex, TLAPS


\* A thread holds the mutex from the beginning to the end of its statement.
Mutex == \A t \in Threads : at[t] # "idle" <=> log_mtx_ = t

\* Where a thread is in its statement.
Position ==
    \A t \in Threads :
        /\ at[t] # "idle" => lines[t] >= 1
        /\ at[t] \in {"flush", "done"} => piece[t] = 3
        /\ at[t] = "sb2" => ~bad

\* In either stream, a piece is followed by the next one.
Chained == \A i \in 1 .. 2 : \A k \in 1 .. Len(text[i]) - 1 : Follows(text[i][k], text[i][k + 1])

\* Thread t has put the piece it is at into stream i.
HasPut(t, i) ==
    \/ at[t] = "sb2" /\ i = 1 /\ ~eof[t]
    \/ at[t] \in {"flush", "done"}

\* While nothing has failed, a stream ends where the thread that logs is in its
\* line, or with the whole line of the thread that logged last.
EndsThere ==
    ~bad => \A i \in 1 .. 2 : text[i] # <<>> =>
        /\ log_mtx_ = NoThread =>
              Latest(i).piece = 3 /\ Latest(i).line = lines[Latest(i).thread]
        /\ \A t \in Threads : at[t] # "idle" =>
              /\ HasPut(t, i) => Latest(i) = Piece(t)
              /\ ~HasPut(t, i) => Follows(Latest(i), Piece(t))

\* The two streams end with the same piece, but for the one that is being put or failed.
Agree ==
    text[1] # <<>> /\ text[2] # <<>> =>
        /\ ~bad /\ (\A t \in Threads : at[t] = "sb2" => eof[t]) => Latest(1) = Latest(2)
        /\ bad => \/ Latest(1) = Latest(2)
                  \/ Follows(Latest(2), Latest(1))
                  \/ Follows(Latest(1), Latest(2))

IInv == TypeOK /\ Mutex /\ Position /\ Chained /\ EndsThere /\ Agree

PieceType == [thread : Threads, line : 1 .. MaxLines, piece : Pieces]

-----------------------------------------------------------------------------
(* Lemmas about streams and pieces.                                         *)

\* The piece a thread is at is one that a stream can hold.
LEMMA PieceOfType ==
  ASSUME TypeOK, Position, NEW t \in Threads, at[t] # "idle"
  PROVE  Piece(t) \in PieceType
  BY LogAssumption DEF TypeOK, Position, Piece, PieceType

\* A piece that is put ends its stream, and follows what the stream ended with.
LEMMA AppendedPiece ==
  ASSUME TypeOK, Chained, NEW i \in 1 .. 2, NEW p \in PieceType,
         text[i] # <<>> => Follows(Latest(i), p),
         text' = [text EXCEPT ![i] = Append(@, p)]
  PROVE  /\ text' \in [1 .. 2 -> Seq(PieceType)]
         /\ Chained'
         /\ text'[i] # <<>> /\ Latest(i)' = p
         /\ \A j \in 1 .. 2 : j # i => text'[j] = text[j] /\ Latest(j)' = Latest(j)
  <1>1. text \in [1 .. 2 -> Seq(PieceType)]
    BY DEF TypeOK, PieceType
  <1>2. text'[i] = Append(text[i], p) /\ \A j \in 1 .. 2 : j # i => text'[j] = text[j]
    BY <1>1
  <1>3. /\ Len(text[i]) \in Nat
        /\ Len(text'[i]) = Len(text[i]) + 1
        /\ text'[i][Len(text[i]) + 1] = p
        /\ \A k \in 1 .. Len(text[i]) : text'[i][k] = text[i][k]
    BY <1>1, <1>2
  <1>4. \A k \in 1 .. Len(text'[i]) - 1 : Follows(text'[i][k], text'[i][k + 1])
    <2> SUFFICES ASSUME NEW k \in 1 .. Len(text'[i]) - 1
                 PROVE  Follows(text'[i][k], text'[i][k + 1])
      OBVIOUS
    <2>1. CASE k = Len(text[i])
      <3>1. text[i] # <<>>
        BY <2>1, <1>1
      <3>2. text'[i][k] = Latest(i) /\ text'[i][k + 1] = p
        BY <2>1, <1>3 DEF Latest
      <3> QED BY <3>1, <3>2
    <2>2. CASE k # Len(text[i])
      <3>1. k \in 1 .. Len(text[i]) - 1 /\ k + 1 \in 1 .. Len(text[i])
        BY <2>2, <1>3
      <3>2. text'[i][k] = text[i][k] /\ text'[i][k + 1] = text[i][k + 1]
        BY <3>1, <1>3
      <3> QED BY <3>1, <3>2 DEF Chained
    <2> QED BY <2>1, <2>2
  <1>5. Chained'
    <2> SUFFICES ASSUME NEW j \in 1 .. 2, NEW k \in 1 .. Len(text'[j]) - 1
                 PROVE  Follows(text'[j][k], text'[j][k + 1])
      BY DEF Chained, Follows
    <2>1. CASE j = i
      BY <2>1, <1>4
    <2>2. CASE j # i
      BY <2>2, <1>2 DEF Chained
    <2> QED BY <2>1, <2>2
  <1> QED BY <1>1, <1>2, <1>3, <1>5 DEF Latest

\* The invariant holds initially.
LEMMA InitIInv == Init => IInv
  <1> SUFFICES ASSUME Init PROVE IInv
    OBVIOUS
  <1>1. text[1] = <<>> /\ text[2] = <<>> /\ \A t \in Threads : at[t] = "idle" /\ log_mtx_ # t
    BY LogAssumption DEF Init
  <1>2. TypeOK
    <2>1. <<>> \in Seq([thread : Threads, line : 1 .. MaxLines, piece : Pieces])
      OBVIOUS
    <2>2. text \in [1 .. 2 -> Seq([thread : Threads, line : 1 .. MaxLines, piece : Pieces])]
      BY <2>1 DEF Init
    <2>3. eof \in [Threads -> BOOLEAN] /\ bad \in BOOLEAN /\ changing \in BOOLEAN
      BY DEF Init
    <2>4. /\ log_mtx_ \in Threads \cup {NoThread} /\ piece \in [Threads -> Pieces]
          /\ at \in [Threads -> {"idle", "sb1", "sb2", "flush", "nested", "done"}]
          /\ lines \in [Threads -> 0 .. MaxLines] /\ changes \in 0 .. MaxChanges
      BY LogAssumption DEF Init, Pieces
    <2> QED BY <2>2, <2>3, <2>4 DEF TypeOK
  <1>3. Mutex /\ Position
    BY <1>1 DEF Mutex, Position
  <1>4. Chained /\ EndsThere /\ Agree
    <2>1. \A i \in 1 .. 2 : text[i] = <<>>
      BY <1>1
    <2> QED BY <2>1 DEF Chained, EndsThere, Agree
  <1> QED BY <1>2, <1>3, <1>4 DEF IInv

-----------------------------------------------------------------------------
(* The steps of a statement.                                                *)

\* Whoever is in a statement holds the mutex.
LEMMA Holder ==
  ASSUME IInv, NEW t \in Threads, at[t] # "idle"
  PROVE  log_mtx_ = t /\ log_mtx_ # NoThread /\ \A u \in Threads : u # t => at[u] = "idle"
  BY LogAssumption DEF IInv, Mutex

\* The thread that takes the mutex is about to put the first piece of its next line.
LEMMA LockStep ==
  ASSUME IInv, NEW t \in Threads, Lock(t)
  PROVE  IInv'
  <1>1. \A u \in Threads : at[u] = "idle"
    BY LogAssumption DEF IInv, Mutex, Lock
  <1>2. /\ at' = [at EXCEPT ![t] = "sb1"] /\ piece' = [piece EXCEPT ![t] = 1]
        /\ lines' = [lines EXCEPT ![t] = lines[t] + 1] /\ lines[t] < MaxLines
        /\ log_mtx_ = NoThread /\ log_mtx_' = t
        /\ UNCHANGED <<eof, bad, text, changes, changing>>
    BY DEF Lock, streamVars, changeVars
  <1>3. TypeOK'
    BY <1>2, LogAssumption DEF IInv, TypeOK, Pieces
  <1>4. Mutex' /\ Position' /\ Chained'
    BY <1>1, <1>2, LogAssumption DEF IInv, TypeOK, Mutex, Position, Chained
  <1>5. EndsThere'
    <2> SUFFICES ASSUME ~bad, NEW i \in 1 .. 2, text[i] # <<>>
                 PROVE  Follows(Latest(i), Piece(t)')
      BY <1>1, <1>2, LogAssumption DEF EndsThere, HasPut, Latest, IInv, TypeOK
    <2>1. Latest(i).piece = 3 /\ Latest(i).line = lines[Latest(i).thread]
      BY <1>2 DEF IInv, EndsThere
    <2>2. Piece(t)' = [thread |-> t, line |-> lines[t] + 1, piece |-> 1]
      BY <1>2 DEF Piece, IInv, TypeOK
    <2> QED BY <2>1, <2>2 DEF Follows
  <1>6. Agree'
    BY <1>1, <1>2 DEF IInv, Agree, Latest, TypeOK
  <1> QED BY <1>3, <1>4, <1>5, <1>6 DEF IInv

\* A message that logs stays where it is.
LEMMA NestStep ==
  ASSUME IInv, NEW t \in Threads, Nest(t)
  PROVE  IInv'
  <1>1. /\ at[t] = "sb1" /\ at' = [at EXCEPT ![t] = "nested"]
        /\ UNCHANGED <<log_mtx_, piece, lines, eof, bad, text, changes, changing>>
    BY DEF Nest, streamVars, changeVars
  <1>2. TypeOK' /\ Mutex' /\ Position' /\ Chained'
    BY <1>1 DEF IInv, TypeOK, Mutex, Position, Chained
  <1>3. EndsThere' /\ Agree'
    BY SMTT(40), <1>1 DEF IInv, TypeOK, EndsThere, Agree, HasPut, Latest, Piece
  <1> QED BY <1>2, <1>3 DEF IInv

\* A bad stream is left alone.
LEMMA PutNothingStep ==
  ASSUME IInv, NEW t \in Threads, PutNothing(t)
  PROVE  IInv'
  <1>1. /\ at[t] = "sb1" /\ bad
        /\ UNCHANGED <<log_mtx_, lines, eof, bad, text, changes, changing>>
    BY DEF PutNothing, streamVars, changeVars
  <1>2. \/ piece[t] < 3 /\ piece' = [piece EXCEPT ![t] = piece[t] + 1] /\ at' = [at EXCEPT ![t] = "sb1"]
        \/ /\ ~(piece[t] < 3) /\ piece' = piece
           /\ at' \in {[at EXCEPT ![t] = "done"], [at EXCEPT ![t] = "flush"]}
    BY DEF PutNothing, NextPiece
  <1>3. TypeOK'
    <2>1. piece[t] \in 1 .. 3
      BY DEF IInv, TypeOK, Pieces
    <2>2. piece' \in [Threads -> 1 .. 3]
      <3>1. piece \in [Threads -> 1 .. 3] /\ (piece[t] < 3 => piece[t] + 1 \in 1 .. 3)
        BY <2>1 DEF IInv, TypeOK, Pieces
      <3>2. piece' = piece \/ (piece[t] < 3 /\ piece' = [piece EXCEPT ![t] = piece[t] + 1])
        BY <1>2
      <3> QED BY <3>1, <3>2
    <2>3. at' \in [Threads -> {"idle", "sb1", "sb2", "flush", "nested", "done"}]
      BY <1>2 DEF IInv, TypeOK
    <2> QED BY <2>2, <2>3, <1>1 DEF IInv, TypeOK, Pieces
  <1>4. Mutex'
    BY <1>1, <1>2 DEF IInv, TypeOK, Mutex
  <1>5. Position' /\ Chained'
    BY SMTT(40), <1>1, <1>2 DEF IInv, TypeOK, Pieces, Position, Chained
  <1>6. EndsThere' /\ Agree'
    BY <1>1 DEF IInv, EndsThere, Agree, Latest
  <1> QED BY <1>3, <1>4, <1>5, <1>6 DEF IInv

\* The first stream gets the piece, or fails to.
LEMMA PutFirstStep ==
  ASSUME IInv, NEW t \in Threads, PutFirst(t)
  PROVE  IInv'
  <1>1. /\ at[t] = "sb1" /\ ~bad /\ at' = [at EXCEPT ![t] = "sb2"]
        /\ UNCHANGED <<log_mtx_, piece, lines, bad, changes, changing>>
    BY DEF PutFirst, changeVars
  <1>2. PICK ok \in BOOLEAN : Sputc(1, t, ok) /\ eof' = [eof EXCEPT ![t] = ~ok]
    BY DEF PutFirst
  <1>3. log_mtx_ = t /\ log_mtx_ # NoThread /\ \A u \in Threads : u # t => at[u] = "idle"
    BY <1>1, Holder
  <1>4. \A i \in 1 .. 2 : text[i] # <<>> => Follows(Latest(i), Piece(t))
    BY <1>1 DEF IInv, EndsThere, HasPut
  <1>5. text' \in [1 .. 2 -> Seq(PieceType)] /\ Chained'
        /\ (ok => text'[1] # <<>> /\ Latest(1)' = Piece(t)) /\ text'[2] = text[2]
        /\ (~ok => text' = text)
    <2>1. CASE ok
      <3>1. Piece(t) \in PieceType /\ TypeOK /\ Chained
        BY <1>1, PieceOfType DEF IInv
      <3>2. text' = [text EXCEPT ![1] = Append(@, Piece(t))]
        BY <2>1, <1>2 DEF Sputc
      <3>3. text[1] # <<>> => Follows(Latest(1), Piece(t))
        BY <1>4
      <3>4. 1 \in 1 .. 2 /\ 2 \in 1 .. 2 /\ 2 # 1
        OBVIOUS
      <3> QED BY <3>1, <3>2, <3>3, <3>4, <2>1, AppendedPiece
    <2>2. CASE ~ok
      BY <2>2, <1>2 DEF IInv, TypeOK, PieceType, Chained, Sputc
    <2> QED BY <2>1, <2>2
  <1>6. TypeOK' /\ Mutex' /\ Position'
    BY <1>1, <1>2, <1>5 DEF IInv, TypeOK, PieceType, Mutex, Position
  <1>7. EndsThere'
    <2>1. at'[t] = "sb2" /\ eof'[t] = ~ok /\ Piece(t)' = Piece(t)
      BY <1>1, <1>2 DEF IInv, TypeOK, Piece
    <2>2. ASSUME NEW i \in 1 .. 2, text'[i] # <<>>
          PROVE  /\ HasPut(t, i)' => Latest(i)' = Piece(t)'
                 /\ ~HasPut(t, i)' => Follows(Latest(i)', Piece(t)')
      <3>1. CASE i = 1 /\ ok
        BY <3>1, <2>1, <1>5 DEF HasPut
      <3>2. CASE i = 2 \/ ~ok
        <4>0. text'[i] = text[i] /\ ~(i = 1 /\ ok)
          BY <3>2, <1>5
        <4>1. Latest(i)' = Latest(i) /\ ~HasPut(t, i)'
          BY <4>0, <2>1 DEF HasPut, Latest
        <4>2. Follows(Latest(i), Piece(t))
          BY <4>0, <2>2, <1>4
        <4> QED BY <4>1, <4>2, <2>1
      <3> QED BY <3>1, <3>2
    <2> QED BY <2>2, <1>1, <1>3 DEF EndsThere, IInv, TypeOK
  <1>8. Agree'
    <2>1. at'[t] = "sb2" /\ eof'[t] = ~ok
      BY <1>1, <1>2 DEF IInv, TypeOK
    <2>2. CASE ok
      BY <2>1, <2>2, <1>1 DEF Agree
    <2>3. CASE ~ok
      <3>1. text[1] # <<>> /\ text[2] # <<>> => Latest(1) = Latest(2)
        BY <1>1, <1>3 DEF IInv, Agree
      <3> QED BY <3>1, <2>3, <1>1, <1>5 DEF Agree, Latest
    <2> QED BY <2>2, <2>3
  <1> QED BY <1>5, <1>6, <1>7, <1>8 DEF IInv

\* The second stream does, and the thread goes on to the next piece.
LEMMA PutSecondStep ==
  ASSUME IInv, NEW t \in Threads, PutSecond(t)
  PROVE  IInv'
  <1>1. /\ at[t] = "sb2" /\ ~bad
        /\ UNCHANGED <<log_mtx_, lines, eof, changes, changing>>
    BY DEF PutSecond, changeVars, IInv, Position
  <1>2. PICK ok \in BOOLEAN : Sputc(2, t, ok) /\ bad' = (bad \/ ~ok \/ eof[t])
    BY DEF PutSecond
  <1>3. log_mtx_ = t /\ log_mtx_ # NoThread /\ \A u \in Threads : u # t => at[u] = "idle"
    BY <1>1, Holder
  <1>4. /\ text[2] # <<>> => Follows(Latest(2), Piece(t))
        /\ text[1] # <<>> /\ ~eof[t] => Latest(1) = Piece(t)
        /\ text[1] # <<>> /\ text[2] # <<>> /\ eof[t] => Latest(1) = Latest(2)
        /\ text[1] # <<>> /\ eof[t] => Follows(Latest(1), Piece(t))
    BY <1>1, <1>3 DEF IInv, EndsThere, HasPut, Agree
  <1>5. text' \in [1 .. 2 -> Seq(PieceType)] /\ Chained'
        /\ (ok => text'[2] # <<>> /\ Latest(2)' = Piece(t)) /\ text'[1] = text[1]
        /\ (~ok => text' = text)
    <2>1. CASE ok
      <3>1. Piece(t) \in PieceType /\ TypeOK /\ Chained
        BY <1>1, PieceOfType DEF IInv
      <3>2. text' = [text EXCEPT ![2] = Append(@, Piece(t))]
        BY <2>1, <1>2 DEF Sputc
      <3>3. text[2] # <<>> => Follows(Latest(2), Piece(t))
        BY <1>4
      <3>4. 2 \in 1 .. 2 /\ 1 \in 1 .. 2 /\ 1 # 2
        OBVIOUS
      <3> QED BY <3>1, <3>2, <3>3, <3>4, <2>1, AppendedPiece
    <2>2. CASE ~ok
      BY <2>2, <1>2 DEF IInv, TypeOK, PieceType, Chained, Sputc
    <2> QED BY <2>1, <2>2
  <1>6. \/ piece[t] < 3 /\ piece' = [piece EXCEPT ![t] = piece[t] + 1] /\ at' = [at EXCEPT ![t] = "sb1"]
        \/ /\ ~(piece[t] < 3) /\ piece' = piece
           /\ at' \in {[at EXCEPT ![t] = "done"], [at EXCEPT ![t] = "flush"]}
    BY DEF PutSecond, NextPiece
  <1>7. bad' \in BOOLEAN /\ (~bad' => ok /\ ~eof[t])
    BY <1>2 DEF IInv, TypeOK
  <1>8. TypeOK' /\ Mutex' /\ Position'
    <2>1. TypeOK'
      <3>1. piece[t] \in 1 .. 3
        BY DEF IInv, TypeOK, Pieces
      <3>2. piece' \in [Threads -> 1 .. 3]
        <4>1. piece \in [Threads -> 1 .. 3] /\ (piece[t] < 3 => piece[t] + 1 \in 1 .. 3)
          BY <3>1 DEF IInv, TypeOK, Pieces
        <4>2. piece' = piece \/ (piece[t] < 3 /\ piece' = [piece EXCEPT ![t] = piece[t] + 1])
          BY <1>6
        <4> QED BY <4>1, <4>2
      <3>3. at' \in [Threads -> {"idle", "sb1", "sb2", "flush", "nested", "done"}]
        BY <1>6 DEF IInv, TypeOK
      <3> QED BY <3>2, <3>3, <1>1, <1>5, <1>7 DEF IInv, TypeOK, Pieces, PieceType
    <2>2. Mutex'
      BY <1>1, <1>6 DEF IInv, TypeOK, Mutex
    <2>3. Position'
      BY SMTT(40), <1>1, <1>3, <1>6 DEF IInv, TypeOK, Pieces, Position
    <2> QED BY <2>1, <2>2, <2>3
  <1>9. ASSUME ~bad', NEW i \in 1 .. 2, text'[i] # <<>>
        PROVE  Latest(i)' = Piece(t)
    BY <1>9, <1>4, <1>5, <1>7 DEF Latest
  <1>10. EndsThere'
    <2>1. CASE piece[t] < 3
      <3>1. /\ Piece(t) = [thread |-> t, line |-> lines[t], piece |-> piece[t]]
            /\ Piece(t)' = [thread |-> t, line |-> lines[t], piece |-> piece[t] + 1]
            /\ ~HasPut(t, 1)' /\ ~HasPut(t, 2)'
        BY <1>1, <1>6, <2>1 DEF IInv, TypeOK, Piece, HasPut
      <3>2. Follows(Piece(t), Piece(t)')
        BY <3>1, <2>1 DEF Follows
      <3>3. ASSUME ~bad', NEW i \in 1 .. 2, text'[i] # <<>>
            PROVE  ~HasPut(t, i)' /\ Follows(Latest(i)', Piece(t)')
        <4>1. Latest(i)' = Piece(t)
          BY <3>3, <1>9
        <4>2. ~HasPut(t, i)'
          BY <3>1
        <4> QED BY <4>1, <4>2, <3>2
      <3>4. \A u \in Threads : u # t => at'[u] = "idle"
        BY <1>1, <1>3, <1>6 DEF IInv, TypeOK
      <3> QED BY <3>3, <3>4, <1>1, <1>3 DEF EndsThere
    <2>2. CASE ~(piece[t] < 3)
      <3>1. Piece(t)' = Piece(t) /\ HasPut(t, 1)' /\ HasPut(t, 2)'
        BY <1>1, <1>6, <2>2 DEF IInv, TypeOK, Piece, HasPut
      <3>2. ASSUME ~bad', NEW i \in 1 .. 2, text'[i] # <<>>
            PROVE  HasPut(t, i)' /\ Latest(i)' = Piece(t)'
        <4>1. Latest(i)' = Piece(t)
          BY <3>2, <1>9
        <4> QED BY <4>1, <3>1
      <3>3. \A u \in Threads : u # t => at'[u] = "idle"
        BY <1>1, <1>3, <1>6 DEF IInv, TypeOK
      <3> QED BY <3>2, <3>3, <1>1, <1>3 DEF EndsThere
    <2> QED BY <2>1, <2>2
  <1>11. Agree'
    <2> SUFFICES ASSUME text'[1] # <<>>, text'[2] # <<>>
                 PROVE  /\ ~bad' => Latest(1)' = Latest(2)'
                        /\ bad' => \/ Latest(1)' = Latest(2)'
                                   \/ Follows(Latest(2)', Latest(1)')
                                   \/ Follows(Latest(1)', Latest(2)')
      BY DEF Agree, Follows
    <2>1. ~bad' => Latest(1)' = Latest(2)'
      BY <1>9
    <2>2. Latest(1)' = Latest(1) /\ (ok => Latest(2)' = Piece(t)) /\ (~ok => Latest(2)' = Latest(2))
      BY <1>5 DEF Latest
    <2>3. text[1] # <<>> /\ (~ok => text[2] # <<>>)
      BY <1>5
    <2>4. CASE eof[t] /\ ok
      <3>1. Follows(Latest(1), Piece(t))
        BY <2>3, <2>4, <1>4
      <3> QED BY <3>1, <2>1, <2>2, <2>4
    <2>5. CASE eof[t] /\ ~ok
      BY <2>1, <2>2, <2>3, <2>5, <1>4
    <2>6. CASE ~eof[t] /\ ok
      BY <2>1, <2>2, <2>3, <2>6, <1>4
    <2>7. CASE ~eof[t] /\ ~ok
      <3>1. Follows(Latest(2), Piece(t)) /\ Latest(1) = Piece(t)
        BY <2>3, <2>7, <1>4
      <3> QED BY <3>1, <2>1, <2>2, <2>7
    <2> QED BY <2>4, <2>5, <2>6, <2>7
  <1> QED BY <1>5, <1>8, <1>10, <1>11 DEF IInv

\* The end of the line, flushed, is put; a flush that fails makes the stream bad.
LEMMA FlushStep ==
  ASSUME IInv, NEW t \in Threads, Flush(t)
  PROVE  IInv'
  <1>1. /\ at[t] = "flush" /\ at' = [at EXCEPT ![t] = "done"] /\ text' = text
        /\ (bad' = bad \/ bad' = TRUE)
        /\ UNCHANGED <<log_mtx_, piece, lines, eof, changes, changing>>
    BY DEF Flush, streamVars, changeVars
  <1>2. TypeOK' /\ Mutex' /\ Chained'
    BY <1>1 DEF IInv, TypeOK, Mutex, Chained
  <1>3. log_mtx_ = t /\ log_mtx_ # NoThread /\ \A u \in Threads : u # t => at[u] = "idle"
    BY <1>1, Holder
  <1>4. Position' /\ EndsThere'
    BY SMTT(40), <1>1, <1>3 DEF IInv, TypeOK, Position, EndsThere, HasPut, Latest, Piece
  <1>5. Agree'
    BY <1>1, <1>3 DEF IInv, TypeOK, Agree, Latest
  <1> QED BY <1>2, <1>4, <1>5 DEF IInv

\* The statement ends: both streams have its whole line.
LEMMA UnlockStep ==
  ASSUME IInv, NEW t \in Threads, Unlock(t)
  PROVE  IInv'
  <1>1. /\ at[t] = "done" /\ at' = [at EXCEPT ![t] = "idle"] /\ log_mtx_' = NoThread
        /\ UNCHANGED <<piece, lines, eof, bad, text, changes, changing>>
    BY DEF Unlock, streamVars, changeVars
  <1>2. log_mtx_ = t /\ \A u \in Threads : u # t => at[u] = "idle"
    BY <1>1, Holder
  <1>3. \A u \in Threads : at'[u] = "idle"
    BY <1>1, <1>2 DEF IInv, TypeOK
  <1>4. TypeOK' /\ Mutex' /\ Position' /\ Chained'
    BY <1>1, <1>3, LogAssumption DEF IInv, TypeOK, Mutex, Position, Chained
  <1>5. EndsThere'
    <2>1. ~bad => \A i \in 1 .. 2 : text[i] # <<>> => Latest(i) = Piece(t)
      BY <1>1 DEF IInv, EndsThere, HasPut
    <2>2. Piece(t).piece = 3 /\ Piece(t).line = lines[Piece(t).thread]
      BY <1>1 DEF IInv, Position, Piece
    <2> QED BY <1>1, <1>3, <2>1, <2>2 DEF EndsThere, Latest
  <1>6. Agree'
    BY <1>1, <1>2, <1>3 DEF IInv, Agree, Latest
  <1> QED BY <1>4, <1>5, <1>6 DEF IInv

\* A new stream is empty, and leaves the statements where they are.
LEMMA SetStreamStep ==
  ASSUME IInv, SetFirst \/ SetSecond
  PROVE  IInv'
  <1>1. PICK i \in 1 .. 2 : SetStream(i)
    BY DEF SetFirst, SetSecond
  <1>2. /\ text' = [text EXCEPT ![i] = <<>>]
        /\ UNCHANGED <<bad, log_mtx_, at, piece, lines, eof>>
    BY <1>1 DEF SetStream, lineVars
  <1>3. text'[i] = <<>> /\ \A j \in 1 .. 2 : j # i => text'[j] = text[j]
    BY <1>2 DEF IInv, TypeOK
  <1>4. TypeOK' /\ Mutex' /\ Position'
    <2>1. <<>> \in Seq([thread : Threads, line : 1 .. MaxLines, piece : Pieces])
      OBVIOUS
    <2>2. text' \in [1 .. 2 -> Seq([thread : Threads, line : 1 .. MaxLines, piece : Pieces])]
      BY <2>1, <1>2 DEF IInv, TypeOK
    <2>3. changes' \in 0 .. MaxChanges /\ changing' \in BOOLEAN
      <3>1. CASE SetFirst
        BY <3>1, LogAssumption DEF IInv, TypeOK, SetFirst
      <3>2. CASE SetSecond
        BY <3>2 DEF IInv, TypeOK, SetSecond
      <3> QED BY <3>1, <3>2
    <2>4. TypeOK'
      BY <2>2, <2>3, <1>2 DEF IInv, TypeOK
    <2> QED BY <2>4, <1>2 DEF IInv, Mutex, Position
  <1>5. Chained'
    BY <1>3 DEF IInv, Chained
  <1>6. EndsThere'
    BY <1>2, <1>3 DEF IInv, EndsThere, HasPut, Latest, Piece
  <1>7. Agree'
    BY <1>2, <1>3 DEF Agree
  <1> QED BY <1>4, <1>5, <1>6, <1>7 DEF IInv

-----------------------------------------------------------------------------
(* The theorems.                                                            *)

\* IInv holds in every reachable state.
THEOREM Invariance == Spec => []IInv
  <1>1. IInv /\ [Next]_vars => IInv'
    <2> SUFFICES ASSUME IInv, [Next]_vars PROVE IInv'
      OBVIOUS
    <2>1. CASE UNCHANGED vars
      BY <2>1
      DEF vars, lineVars, streamVars, changeVars, IInv, TypeOK, Mutex, Position, Chained,
          EndsThere, Agree, HasPut, Latest, Piece
    <2> QED
      BY <2>1, LockStep, NestStep, PutNothingStep, PutFirstStep, PutSecondStep, FlushStep,
         UnlockStep, SetStreamStep DEF Next, Statement
  <1> QED BY InitIInv, <1>1, PTL DEF Spec

\* The variables have their types.
THEOREM TypeCorrect == Spec => []TypeOK
  <1>1. IInv => TypeOK
    BY DEF IInv
  <1> QED BY <1>1, Invariance, PTL

\* Whatever threads log, and whatever fails or is replaced meanwhile, the lines in
\* either stream are whole, in order and unmixed.
THEOREM LinesWholeProved == Spec => []LinesWhole
  <1>1. IInv => LinesWhole
    BY DEF IInv, LinesWhole, Chained, EndsThere
  <1> QED BY <1>1, Invariance, PTL

\* The two streams never differ by more than the piece in hand.
THEOREM StreamsAgreeProved == Spec => []StreamsAgree
  <1>1. IInv => StreamsAgree
    <2> SUFFICES ASSUME IInv, text[1] # <<>>, text[2] # <<>>,
                        NEW t \in Threads, at[t] = "sb2", ~eof[t]
                 PROVE  Follows(Latest(2), Latest(1))
      BY DEF IInv, TypeOK, StreamsAgree, Agree
    <2>1. ~bad /\ HasPut(t, 1) /\ ~HasPut(t, 2)
      BY DEF IInv, Position, HasPut
    <2> QED BY <2>1 DEF IInv, EndsThere
  <1> QED BY <1>1, Invariance, PTL

-----------------------------------------------------------------------------
(* Hex.                                                                     *)


\* decode_hex_digit: 0 .. 15 of a digit, nothing else of anything else.
LEMMA DigitValue ==
    ASSUME NEW ch \in Char
    PROVE  /\ decode_hex_digit(ch) \in 0 .. 16
           /\ decode_hex_digit(ch) # NoDigit <=> IsDigit(ch)
           /\ IsDigit(ch) => SameLetter(ch, HexChar(decode_hex_digit(ch)))
BY DEF Char, decode_hex_digit, NoDigit, IsDigit, SameLetter, HexChar

\* The two digits of a byte, and their values.
LEMMA Digits ==
    ASSUME NEW p \in 0 .. 15, NEW q \in 0 .. 15
    PROVE  /\ 16 * p + q \in Byte
           /\ (16 * p + q) \div 16 = p /\ (16 * p + q) % 16 = q
           /\ HexChar(p) \in Char /\ decode_hex_digit(HexChar(p)) = p
BY DEF Byte, HexChar, Char, decode_hex_digit

LEMMA ByteDigits ==
    ASSUME NEW b \in Byte
    PROVE  b \div 16 \in 0 .. 15 /\ b % 16 \in 0 .. 15 /\ b = 16 * (b \div 16) + (b % 16)
BY DEF Byte

\* The counter of the loop in its second, odd, round for a byte, and in its first.
LEMMA OddRound ==
    ASSUME NEW j \in Nat, j % 2 = 1
    PROVE  /\ j # 0 /\ j \div 2 \in Nat /\ j = 2 * (j \div 2) + 1
           /\ (j + 1) \div 2 = (j \div 2) + 1 /\ (j + 1) % 2 = 0
OBVIOUS

LEMMA EvenRound ==
    ASSUME NEW j \in Nat, j % 2 = 0
    PROVE  (j + 1) \div 2 = j \div 2 /\ (j + 1) % 2 = 1
OBVIOUS

LEMMA ByteOf ==
    ASSUME NEW n \in Int
    PROVE  n % 256 \in Byte /\ (n \in Byte => n % 256 = n)
BY DEF Byte

LEMMA CharIsInt ==
    ASSUME NEW ch \in Char
    PROVE  ch \in Int
BY DEF Char

LEMMA RestOf ==
    ASSUME NEW t \in Seq(Char)
    PROVE  Rest(t) \in Seq(Char)
<1>1. CASE HasPrefix(t)
  BY <1>1 DEF Rest, HasPrefix
<1>2. CASE ~HasPrefix(t)
  BY <1>2 DEF Rest
<1> QED BY <1>1, <1>2

-----------------------------------------------------------------------------
\* What operator<< prints.
LEMMA HexOfBytes ==
    ASSUME NEW bytes \in Seq(Byte)
    PROVE  /\ HexOf(bytes) \in Seq(Char)
           /\ Len(HexOf(bytes)) = 2 * Len(bytes)
           /\ \A k \in 1 .. Len(bytes) :
                 /\ 2 * k - 1 \in 1 .. 2 * Len(bytes) /\ 2 * k \in 1 .. 2 * Len(bytes)
                 /\ HexOf(bytes)[2 * k - 1] = HexChar(bytes[k] \div 16)
                 /\ HexOf(bytes)[2 * k] = HexChar(bytes[k] % 16)
<1> DEFINE n == Len(bytes)
           char(k) == LET b == bytes[(k + 1) \div 2]
                      IN  HexChar(IF k % 2 = 1 THEN b \div 16 ELSE b % 16)
<1>1. n \in Nat
  OBVIOUS
<1>2. ASSUME NEW k \in 1 .. 2 * n
      PROVE  char(k) \in Char
  <2>1. (k + 1) \div 2 \in 1 .. n
    BY <1>1
  <2>2. bytes[(k + 1) \div 2] \in Byte
    BY <2>1
  <2>3. bytes[(k + 1) \div 2] \div 16 \in 0 .. 15 /\ bytes[(k + 1) \div 2] % 16 \in 0 .. 15
    BY <2>2, ByteDigits
  <2> QED BY <2>3, Digits
<1>3. HexOf(bytes) = [k \in 1 .. 2 * n |-> char(k)]
  BY DEF HexOf
<1>4. [k \in 1 .. 2 * n |-> char(k)] \in Seq(Char)
  <2> HIDE DEF char
  <2>1. 2 * n \in Nat
    BY <1>1
  <2> QED BY <1>2, <2>1
<1>5. Len(HexOf(bytes)) = 2 * n
  <2> HIDE DEF char
  <2> QED BY <1>1, <1>3
<1>6. ASSUME NEW k \in 1 .. n
      PROVE  /\ 2 * k - 1 \in 1 .. 2 * n /\ 2 * k \in 1 .. 2 * n
             /\ HexOf(bytes)[2 * k - 1] = HexChar(bytes[k] \div 16)
             /\ HexOf(bytes)[2 * k] = HexChar(bytes[k] % 16)
  <2>1. 2 * k - 1 \in 1 .. 2 * n /\ 2 * k \in 1 .. 2 * n
    BY <1>1
  <2>2. /\ (2 * k - 1 + 1) \div 2 = k /\ (2 * k - 1) % 2 = 1
        /\ (2 * k + 1) \div 2 = k /\ (2 * k) % 2 # 1
    BY <1>1
  <2>3. char(2 * k - 1) = HexChar(bytes[k] \div 16)
    BY <2>2
  <2>4. char(2 * k) = HexChar(bytes[k] % 16)
    BY <2>2
  <2> HIDE DEF char
  <2> QED BY <2>1, <2>3, <2>4, <1>3
<1> QED BY <1>1, <1>3, <1>4, <1>5, <1>6

LEMMA ViewOf ==
    ASSUME NEW s \in Seq(Char)
    PROVE  byte_view_of_string(s) \in Seq(Byte)
<1>1. \A k \in 1 .. Len(s) : s[k] % 256 \in Byte
  <2> TAKE k \in 1 .. Len(s)
  <2>1. s[k] \in Char
    OBVIOUS
  <2>2. s[k] \in Int
    BY <2>1, CharIsInt
  <2> QED BY <2>2, ByteOf
<1> QED BY <1>1 DEF byte_view_of_string

-----------------------------------------------------------------------------
LEMMA InitHexInv == HexInit => HexInv
<1> SUFFICES ASSUME HexInit PROVE HexInv
  OBVIOUS
<1>1. arg \in Seq(Char) /\ origin \in Seq(Char)
  <2>1. CASE printed = FALSE
    <3>1. arg \in Texts /\ origin = <<>>
      BY <2>1 DEF HexInit
    <3> QED BY <3>1, HexAssumption
  <2>2. CASE printed = TRUE
    <3>1. origin \in Shown /\ arg = HexOf(byte_view_of_string(origin))
      BY <2>2 DEF HexInit
    <3> QED BY <3>1, HexAssumption, ViewOf, HexOfBytes
  <2> QED BY <2>1, <2>2 DEF HexInit
<1>2. /\ pc = "prefix" /\ hex = arg /\ pos = 0 /\ carry = 0 /\ out = <<>> /\ printed \in BOOLEAN
  BY DEF HexInit
<1>3. out \in Seq(Byte) /\ Len(out) = 0 /\ 0 \in Byte /\ 0 \in 0 .. Len(arg)
  BY <1>1, <1>2 DEF Byte
<1>4. HexTypeOK
  BY <1>1, <1>2, <1>3 DEF HexTypeOK
<1> QED BY <1>2, <1>3, <1>4 DEF HexInv

\* One round of the loop.
LEMMA DigitHexInv == HexInv /\ Digit => HexInv'
<1> SUFFICES ASSUME HexInv, Digit PROVE HexInv'
  OBVIOUS
<1> DEFINE v == decode_hex_digit(hex[pos + 1])
<1>1. hex \in Seq(Char) /\ pos \in Nat /\ out \in Seq(Byte) /\ carry \in Byte
  BY DEF HexInv, HexTypeOK
<1>2. pc = "loop" /\ pos < Len(hex) /\ UNCHANGED <<arg, origin, printed, hex>>
  BY DEF Digit
<1>3. /\ hex = Rest(arg) /\ Len(hex) % 2 = 0
      /\ \A k \in 1 .. pos : decode_hex_digit(hex[k]) # NoDigit
      /\ Len(out) = pos \div 2
      /\ \A k \in 1 .. Len(out) :
            out[k] = 16 * decode_hex_digit(hex[2 * k - 1]) + decode_hex_digit(hex[2 * k])
  BY <1>2 DEF HexInv
<1>4. hex[pos + 1] \in Char /\ pos + 1 \in 1 .. Len(hex)
  BY <1>1, <1>2
<1>5. v \in 0 .. 16
  BY <1>4, DigitValue
<1>6. arg \in Seq(Char) /\ origin \in Seq(Char) /\ printed \in BOOLEAN
  BY DEF HexInv, HexTypeOK
<1>7. CASE v = NoDigit
  <2>1. ~IsDigit(hex[pos + 1])
    BY <1>4, <1>7, DigitValue
  <2>2. ~IsHex(hex)
    BY <2>1, <1>4 DEF IsHex
  <2>3. pc' = "nullopt" /\ UNCHANGED <<pos, carry, out>>
    BY <1>7 DEF Digit
  <2> QED BY <1>2, <2>2, <2>3 DEF HexInv, HexTypeOK
<1>8. CASE v # NoDigit /\ pos % 2 = 0
  <2>1. carry' = v * 16 /\ out' = out /\ pos' = pos + 1 /\ pc' = pc
    BY <1>8 DEF Digit
  <2>2. v \in 0 .. 15
    BY <1>5, <1>8 DEF NoDigit
  <2> HIDE DEF v
  <2>3. carry' \in Byte /\ pos' \in 0 .. Len(hex)
    BY <1>1, <1>2, <2>1, <2>2 DEF Byte
  <2>4. HexTypeOK'
    BY <1>1, <1>2, <1>6, <2>1, <2>3 DEF HexTypeOK
  <2>5. Len(out') = pos' \div 2 /\ pos' % 2 = 1
    BY <1>1, <1>3, <1>8, <2>1, EvenRound
  <2>6. \A k \in 1 .. pos' : decode_hex_digit(hex'[k]) # NoDigit
    <3>1. \A k \in 1 .. pos' : k \in 1 .. pos \/ k = pos + 1
      BY <1>1, <2>1
    <3>2. decode_hex_digit(hex[pos + 1]) # NoDigit
      BY <1>8 DEF v
    <3> QED BY <1>2, <1>3, <3>1, <3>2
  <2>7. carry' = 16 * decode_hex_digit(hex'[pos'])
    BY <1>2, <2>1, <2>2 DEF v
  <2> QED BY <1>2, <1>3, <2>1, <2>4, <2>5, <2>6, <2>7 DEF HexInv
<1>9. CASE v # NoDigit /\ pos % 2 = 1
  <2> DEFINE w == decode_hex_digit(hex[pos])
  <2>1. carry' = carry /\ out' = Append(out, (carry + v) % 256) /\ pos' = pos + 1 /\ pc' = pc
    BY <1>9 DEF Digit
  <2>2. /\ pos # 0 /\ pos \div 2 \in Nat /\ pos = 2 * (pos \div 2) + 1
        /\ (pos + 1) \div 2 = (pos \div 2) + 1 /\ (pos + 1) % 2 = 0
    BY <1>1, <1>9, OddRound
  <2>3. pos \in 1 .. Len(hex) /\ hex[pos] \in Char /\ pos \in 1 .. pos
    BY <1>1, <1>2, <2>2
  <2>4. w # NoDigit /\ w \in 0 .. 16
    BY <1>3, <2>3, DigitValue
  <2>5. carry = 16 * w
    BY <1>9 DEF HexInv
  <2>6. v \in 0 .. 15 /\ w \in 0 .. 15
    BY <1>5, <1>9, <2>4 DEF NoDigit
  <2> HIDE DEF v, w
  <2>7. 16 * w + v \in Byte /\ (carry + v) % 256 = 16 * w + v
    <3>1. 16 * w + v \in Byte /\ 16 * w + v \in Int
      BY <2>6 DEF Byte
    <3> QED BY <2>5, <3>1, ByteOf
  <2>8. /\ out' \in Seq(Byte) /\ Len(out') = Len(out) + 1
        /\ out'[Len(out) + 1] = 16 * w + v
        /\ \A k \in 1 .. Len(out) : out'[k] = out[k]
    BY <1>1, <2>1, <2>7
  <2>9. HexTypeOK'
    BY <1>1, <1>2, <1>6, <2>1, <2>8 DEF HexTypeOK
  <2>10. \A k \in 1 .. pos' : decode_hex_digit(hex'[k]) # NoDigit
    BY SMTT(40), <1>1, <1>2, <1>3, <1>9, <2>1 DEF v
  <2>11. ASSUME NEW k \in 1 .. Len(out')
         PROVE  out'[k] = 16 * decode_hex_digit(hex[2 * k - 1]) + decode_hex_digit(hex[2 * k])
    <3>1. CASE k \in 1 .. Len(out)
      BY <1>3, <2>8, <3>1
    <3>2. CASE k = Len(out) + 1
      <4>1. 2 * k - 1 = pos /\ 2 * k = pos + 1
        BY <1>1, <1>3, <2>2, <3>2
      <4> QED BY <2>8, <3>2, <4>1 DEF v, w
    <3>3. Len(out) \in Nat
      BY <1>1
    <3> QED BY <2>8, <3>1, <3>2, <3>3
  <2>12. Len(out') = pos' \div 2 /\ pos' % 2 # 1
    BY <1>3, <2>1, <2>2, <2>8
  <2> QED BY <1>2, <1>3, <2>1, <2>9, <2>10, <2>11, <2>12 DEF HexInv
<1>10. pos % 2 = 0 \/ pos % 2 = 1
  BY <1>1
<1> QED BY <1>7, <1>8, <1>9, <1>10

LEMMA NextHexInv == HexInv /\ [HexNext]_hexVars => HexInv'
<1> SUFFICES ASSUME HexInv, [HexNext]_hexVars PROVE HexInv'
  OBVIOUS
<1>1. CASE RemovePrefix
  <2>1. hex' = Rest(arg) /\ pc' = "length" /\ UNCHANGED <<arg, origin, printed, pos, carry, out>>
    BY <1>1 DEF RemovePrefix, Rest
  <2>2. hex' \in Seq(Char)
    BY <2>1, RestOf DEF HexInv, HexTypeOK
  <2>3. pos = 0 /\ Len(out) = 0
    BY <1>1 DEF RemovePrefix, HexInv
  <2>4. Rest(arg)' = Rest(arg)
    BY <2>1 DEF Rest, HasPrefix
  <2>5. HexTypeOK'
    BY <2>1, <2>2, <2>3 DEF HexInv, HexTypeOK
  <2> QED BY <2>1, <2>3, <2>4, <2>5 DEF HexInv
<1>2. CASE CheckLength
  <2>1. UNCHANGED <<arg, origin, printed, hex, pos, carry, out>> /\ pc = "length"
        /\ pc' = IF Len(hex) % 2 # 0 THEN "nullopt" ELSE "loop"
    BY <1>2 DEF CheckLength
  <2>2. Len(hex) % 2 # 0 => ~IsHex(hex)
    BY DEF IsHex
  <2> QED BY <2>1, <2>2 DEF HexInv, HexTypeOK
<1>3. CASE Digit
  BY <1>3, DigitHexInv
<1>4. CASE Return
  BY <1>4 DEF Return, HexInv, HexTypeOK
<1>5. CASE UNCHANGED hexVars
  BY <1>5 DEF hexVars, HexInv, HexTypeOK
<1> QED BY <1>1, <1>2, <1>3, <1>4, <1>5 DEF HexNext

\* The loop invariant of from_hex, for every text.
THEOREM HexInvariance == HexSpec => []HexInv
<1>1. HexInit => HexInv
  BY InitHexInv
<1>2. HexInv /\ [HexNext]_hexVars => HexInv'
  BY NextHexInv
<1> QED BY <1>1, <1>2, PTL DEF HexSpec

-----------------------------------------------------------------------------
\* What a loop that has ended has decoded.
LEMMA InvDecodes == HexInv => Decodes
<1> SUFFICES ASSUME HexInv PROVE Decodes
  OBVIOUS
<1>1. ASSUME pc = "nullopt" PROVE ~IsHex(Rest(arg))
  BY <1>1 DEF HexInv
<1>2. ASSUME pc = "done"
      PROVE  /\ IsHex(Rest(arg))
             /\ 2 * Len(out) = Len(Rest(arg))
             /\ \A k \in 1 .. Len(Rest(arg)) : SameLetter(Rest(arg)[k], HexOf(out)[k])
  <2>1. hex = Rest(arg) /\ pos = Len(hex) /\ Len(hex) % 2 = 0 /\ Len(out) = pos \div 2
    BY <1>2 DEF HexInv
  <2>2. hex \in Seq(Char) /\ out \in Seq(Byte) /\ pos \in Nat
    BY <2>1 DEF HexInv, HexTypeOK
  <2>3. pos = 2 * Len(out)
    BY <2>1, <2>2
  <2>4. ASSUME NEW k \in 1 .. pos
        PROVE  /\ hex[k] \in Char /\ decode_hex_digit(hex[k]) \in 0 .. 15
               /\ IsDigit(hex[k]) /\ SameLetter(hex[k], HexChar(decode_hex_digit(hex[k])))
    <3>1. hex[k] \in Char
      BY <2>1, <2>2
    <3>2. decode_hex_digit(hex[k]) # NoDigit
      BY DEF HexInv
    <3>3. /\ decode_hex_digit(hex[k]) \in 0 .. 16 /\ IsDigit(hex[k])
          /\ SameLetter(hex[k], HexChar(decode_hex_digit(hex[k])))
      BY <3>1, <3>2, DigitValue
    <3> QED BY <3>1, <3>2, <3>3 DEF NoDigit
  <2>5. ASSUME NEW j \in 1 .. Len(out)
        PROVE  /\ 2 * j - 1 \in 1 .. pos /\ 2 * j \in 1 .. pos
               /\ HexOf(out)[2 * j - 1] = HexChar(decode_hex_digit(hex[2 * j - 1]))
               /\ HexOf(out)[2 * j] = HexChar(decode_hex_digit(hex[2 * j]))
    <3> DEFINE p == decode_hex_digit(hex[2 * j - 1])
               q == decode_hex_digit(hex[2 * j])
    <3>1. 2 * j - 1 \in 1 .. pos /\ 2 * j \in 1 .. pos
      BY <2>2, <2>3
    <3>2. p \in 0 .. 15 /\ q \in 0 .. 15
      BY <2>4, <3>1
    <3>3. out[j] = 16 * p + q
      BY DEF HexInv
    <3>4. HexOf(out)[2 * j - 1] = HexChar(out[j] \div 16) /\ HexOf(out)[2 * j] = HexChar(out[j] % 16)
      BY <2>2, HexOfBytes
    <3> HIDE DEF p, q
    <3>5. out[j] \div 16 = p /\ out[j] % 16 = q
      BY <3>2, <3>3, Digits
    <3> QED BY <3>1, <3>4, <3>5 DEF p, q
  <2>6. ASSUME NEW k \in 1 .. pos
        PROVE  SameLetter(hex[k], HexOf(out)[k])
    <3>1. PICK j \in 1 .. Len(out) : k = 2 * j - 1 \/ k = 2 * j
      <4>1. k = 2 * ((k + 1) \div 2) - 1 \/ k = 2 * ((k + 1) \div 2)
        BY <2>2
      <4>2. (k + 1) \div 2 \in 1 .. Len(out)
        BY <2>2, <2>3
      <4> QED BY <4>1, <4>2
    <3>2. HexOf(out)[k] = HexChar(decode_hex_digit(hex[k]))
      BY <2>5, <3>1
    <3> QED BY <2>4, <3>2
  <2> QED BY <2>1, <2>2, <2>3, <2>4, <2>6 DEF IsHex
<1> QED BY <1>1, <1>2 DEF Decodes

\* from_hex takes exactly the hexadecimal texts, and its bytes print as the text.
THEOREM DecodesAlways == HexSpec => []Decodes
BY HexInvariance, InvDecodes, PTL

-----------------------------------------------------------------------------
\* A text that operator<< printed stays what it is while from_hex looks at it.
Origin == printed => arg = HexOf(byte_view_of_string(origin))

LEMMA OriginStays == Origin /\ [HexNext]_hexVars => Origin'
<1> SUFFICES ASSUME Origin, [HexNext]_hexVars PROVE Origin'
  OBVIOUS
<1>1. UNCHANGED <<arg, origin, printed>>
  BY DEF HexNext, RemovePrefix, CheckLength, Digit, Return, hexVars
<1> QED BY <1>1 DEF Origin

LEMMA InvReadsBack == HexInv /\ Origin => ReadsBack
<1> SUFFICES ASSUME HexInv, Origin, printed, pc \in {"done", "nullopt"}
             PROVE  pc = "done" /\ out = byte_view_of_string(origin)
  BY DEF ReadsBack
<1> DEFINE B == byte_view_of_string(origin)
<1>1. B \in Seq(Byte) /\ arg = HexOf(B)
  BY ViewOf DEF Origin, HexInv, HexTypeOK
<1> HIDE DEF B
<1>2. /\ arg \in Seq(Char) /\ Len(arg) = 2 * Len(B) /\ Len(B) \in Nat
      /\ \A k \in 1 .. Len(B) :
            /\ 2 * k - 1 \in 1 .. 2 * Len(B) /\ 2 * k \in 1 .. 2 * Len(B)
            /\ arg[2 * k - 1] = HexChar(B[k] \div 16)
            /\ arg[2 * k] = HexChar(B[k] % 16)
  BY <1>1, HexOfBytes
<1>3. ASSUME NEW k \in 1 .. Len(B)
      PROVE  /\ B[k] \div 16 \in 0 .. 15 /\ B[k] % 16 \in 0 .. 15
             /\ B[k] = 16 * (B[k] \div 16) + (B[k] % 16)
             /\ decode_hex_digit(arg[2 * k - 1]) = B[k] \div 16
             /\ decode_hex_digit(arg[2 * k]) = B[k] % 16
  <2>1. B[k] \in Byte
    BY <1>1
  <2>2. /\ B[k] \div 16 \in 0 .. 15 /\ B[k] % 16 \in 0 .. 15
        /\ B[k] = 16 * (B[k] \div 16) + (B[k] % 16)
    BY <2>1, ByteDigits
  <2>3. /\ decode_hex_digit(HexChar(B[k] \div 16)) = B[k] \div 16
        /\ decode_hex_digit(HexChar(B[k] % 16)) = B[k] % 16
    BY <2>2, Digits
  <2> QED BY <1>2, <2>2, <2>3
<1>4. ASSUME NEW k \in 1 .. Len(arg)
      PROVE  arg[k] \in Char /\ IsDigit(arg[k])
  <2>1. arg[k] \in Char
    BY <1>2
  <2>2. PICK j \in 1 .. Len(B) : k = 2 * j - 1 \/ k = 2 * j
    <3>1. k = 2 * ((k + 1) \div 2) - 1 \/ k = 2 * ((k + 1) \div 2)
      BY <1>2
    <3>2. (k + 1) \div 2 \in 1 .. Len(B)
      BY <1>2
    <3> QED BY <3>1, <3>2
  <2>3. decode_hex_digit(arg[k]) \in 0 .. 15
    BY <1>3, <2>2
  <2>4. decode_hex_digit(arg[k]) # NoDigit
    BY SMTT(40), <2>3 DEF NoDigit
  <2> QED BY <2>1, <2>4, DigitValue
<1>5. ~HasPrefix(arg) /\ Rest(arg) = arg
  <2>1. ASSUME HasPrefix(arg) PROVE FALSE
    <3>1. arg[2] \in {120, 88} /\ 2 \in 1 .. Len(arg)
      BY <1>2, <2>1 DEF HasPrefix
    <3>2. IsDigit(arg[2])
      BY <1>4, <3>1
    <3>3. ~IsDigit(120) /\ ~IsDigit(88)
      BY DEF IsDigit
    <3> QED BY <3>1, <3>2, <3>3
  <2> QED BY <2>1 DEF Rest
<1>6. Len(arg) % 2 = 0
  BY <1>2
<1>7. IsHex(Rest(arg))
  BY <1>4, <1>5, <1>6 DEF IsHex
<1>8. pc = "done" /\ hex = arg /\ pos = Len(hex)
  BY <1>5, <1>7 DEF HexInv
<1>9. out \in Seq(Byte) /\ Len(out) = Len(B)
  <2>1. Len(out) = (2 * Len(B)) \div 2 /\ out \in Seq(Byte)
    BY <1>2, <1>8 DEF HexInv, HexTypeOK
  <2> QED BY <1>2, <2>1
<1>10. ASSUME NEW k \in 1 .. Len(B)
       PROVE  out[k] = B[k]
  <2>1. out[k] = 16 * decode_hex_digit(arg[2 * k - 1]) + decode_hex_digit(arg[2 * k])
    BY <1>8, <1>9 DEF HexInv
  <2> QED BY <1>3, <2>1
<1> QED BY <1>1, <1>8, <1>9, <1>10 DEF B

\* What operator<< prints, from_hex reads back.
THEOREM ReadsBackAlways == HexSpec => []ReadsBack
<1>1. HexInit => Origin
  BY DEF HexInit, Origin
<1>2. Origin /\ [HexNext]_hexVars => Origin'
  BY OriginStays
<1>3. HexSpec => []Origin
  BY <1>1, <1>2, PTL DEF HexSpec
<1> QED BY <1>3, HexInvariance, InvReadsBack, PTL
=============================================================================
