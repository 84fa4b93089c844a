-------------------------- MODULE TraceFileProofs --------------------------
(***************************************************************************)
(* What is proved of the trace file, for every number of proxies, capacity *)
(* of their buffers and size of events: the order of what is in it, that   *)
(* what has been written is there and is read, that it implements the log  *)
(* of TraceLog, and when an interrupted run leaves it readable.            *)
(*                                                                         *)
(* Order first.  The pieces of a proxy are in order from the file on,      *)
(* through its buffer, to the piece it has yet to put; that is inductive,  *)
(* the order of the file alone is not.                                     *)
(***************************************************************************)
EXTENDS TraceFile, SequenceLemmas

Before(p, q) == p.n < q.n \/ (p.n = q.n /\ p.k < q.k)

(* p comes before all that is yet to be put by a writer that has begun c   *)
(* events and is at q.                                                     *)
Past(c, q, p) == p.n < c \/ (p.n = c /\ (q # Nothing => p.k < q.next))

Begun(w) ==
    cur[w] # Nothing =>
        count[w] > 0 /\ cur[w].size \in Sizes /\ cur[w].next > 0

BufferOrder(w) ==
    \A i \in DOMAIN buf[w] :
        /\ buf[w][i].w = w
        /\ Past(count[w], cur[w], buf[w][i])
        /\ \A j \in DOMAIN buf[w] : i < j => Before(buf[w][i], buf[w][j])

FileOrder(w) ==
    \A i \in DOMAIN file : file[i].w = w =>
        /\ Past(count[w], cur[w], file[i])
        /\ \A j \in DOMAIN buf[w] : Before(file[i], buf[w][j])
        /\ \A j \in DOMAIN file :
              i < j /\ file[j].w = w => Before(file[i], file[j])

WriterOrder(w) == Begun(w) /\ BufferOrder(w) /\ FileOrder(w)

IInv == TypeOK /\ \A w \in Writers : WriterOrder(w)

(* The first k pieces in the buffer of w go to the file.                   *)
Moved(w, k) ==
    /\ k \in 0..Len(buf[w])
    /\ file' \in Seq(Piece)
    /\ Len(file') = Len(file) + k
    /\ \A i \in 1..Len(file) + k : file'[i] =
           IF i <= Len(file) THEN file[i] ELSE buf[w][i - Len(file)]
    /\ buf' \in [Writers -> Seq(Piece)]
    /\ \A v \in Writers \ {w} : buf'[v] = buf[v]
    /\ Len(buf'[w]) = Len(buf[w]) - k
    /\ \A i \in 1..Len(buf[w]) - k : buf'[w][i] = buf[w][i + k]

-----------------------------------------------------------------------------
(* What a write to the file does, whole or in part.                        *)
LEMMA WholeWrite ==
    ASSUME TypeOK, NEW w \in Writers, WriteOut(w)
    PROVE  Moved(w, Len(buf[w]))
<1>1. buf[w] \in Seq(Piece) /\ file \in Seq(Piece)
  BY DEF TypeOK
<1>2. /\ Len(buf[w]) \in Nat /\ Len(file) \in Nat
      /\ file \o buf[w] \in Seq(Piece)
      /\ Len(file \o buf[w]) = Len(file) + Len(buf[w])
      /\ \A i \in 1..Len(file) + Len(buf[w]) : (file \o buf[w])[i] =
             IF i <= Len(file) THEN file[i] ELSE buf[w][i - Len(file)]
  BY <1>1, ConcatProperties, LenProperties
<1>3. /\ buf' = [buf EXCEPT ![w] = <<>>]
      /\ file' = file \o buf[w]
  BY DEF WriteOut
<1>4. <<>> \in Seq(Piece) /\ Len(<<>>) = 0
  BY EmptySeq
<1>5. /\ buf' \in [Writers -> Seq(Piece)] /\ buf'[w] = <<>>
      /\ \A v \in Writers \ {w} : buf'[v] = buf[v]
  BY <1>3, <1>4 DEF TypeOK
<1> QED
  BY <1>2, <1>3, <1>4, <1>5 DEF Moved

LEMMA PartWrite ==
    ASSUME TypeOK, NEW w \in Writers, WriteOutFails(w)
    PROVE  \E k \in 0..Len(buf[w]) : Moved(w, k)
<1> DEFINE b == buf[w]
<1>1. b \in Seq(Piece) /\ file \in Seq(Piece) /\ Len(b) \in Nat /\ Len(file) \in Nat
  BY LenProperties DEF TypeOK
<1>2. PICK k \in 0..Len(b) - 1 :
         /\ file' = file \o SubSeq(b, 1, k)
         /\ buf' = [buf EXCEPT ![w] = SubSeq(@, k + 1, Len(@))]
  BY DEF WriteOutFails
<1> DEFINE out  == SubSeq(b, 1, k)
           left == SubSeq(b, k + 1, Len(b))
<1>3. k \in Int /\ \A i \in 1..Len(b) : b[i] \in Piece
  BY <1>1, <1>2, ElementOfSeq
<1>4. out \in Seq(Piece) /\ Len(out) = k /\ \A i \in 1..k : out[i] = b[i]
  <2>1. \A i \in 1..k : b[i] \in Piece
    BY <1>1, <1>2, <1>3
  <2>2. /\ out \in Seq(Piece) /\ Len(out) = (IF 1 <= k THEN k - 1 + 1 ELSE 0)
        /\ \A i \in 1..k - 1 + 1 : out[i] = b[1 + i - 1]
    BY <1>3, <2>1, SubSeqProperties
  <2> QED
    BY <1>1, <1>2, <2>2
<1>5. /\ left \in Seq(Piece) /\ Len(left) = Len(b) - k
      /\ \A i \in 1..Len(b) - k : left[i] = b[i + k]
  <2>1. \A i \in k + 1..Len(b) : b[i] \in Piece
    BY <1>1, <1>2, <1>3
  <2>2. k + 1 \in Int /\ Len(b) \in Int
    BY <1>1, <1>3
  <2>3. /\ left \in Seq(Piece)
        /\ Len(left) = (IF k + 1 <= Len(b) THEN Len(b) - (k + 1) + 1 ELSE 0)
        /\ \A i \in 1..Len(b) - (k + 1) + 1 : left[i] = b[k + 1 + i - 1]
    BY <2>1, <2>2, SubSeqProperties
  <2> QED
    BY <1>1, <1>2, <2>3
<1>6. /\ file' \in Seq(Piece) /\ Len(file') = Len(file) + k
      /\ \A i \in 1..Len(file) + k : file'[i] =
            IF i <= Len(file) THEN file[i] ELSE out[i - Len(file)]
  BY <1>1, <1>2, <1>4, ConcatProperties
<1>7. /\ buf' \in [Writers -> Seq(Piece)] /\ buf'[w] = left
      /\ \A v \in Writers \ {w} : buf'[v] = buf[v]
  BY <1>2, <1>5 DEF TypeOK
<1>8. \A i \in 1..Len(file) + k : file'[i] =
         IF i <= Len(file) THEN file[i] ELSE b[i - Len(file)]
  BY <1>1, <1>2, <1>4, <1>6
<1>9. k \in 0..Len(b)
  BY <1>1, <1>2
<1> HIDE DEF out, left
<1> QED
  BY <1>5, <1>6, <1>7, <1>8, <1>9 DEF Moved

(* Moving pieces disturbs no order, also when the event is given up.       *)
LEMMA MovedKeepsOrder ==
    ASSUME IInv, NEW w \in Writers, NEW k \in 0..Len(buf[w]), Moved(w, k),
           count' = count,
           cur' = cur \/ cur' = [cur EXCEPT ![w] = Nothing],
           NEW v \in Writers
    PROVE  WriterOrder(v)'
<1> DEFINE n == Len(file)
<1>1. /\ WriterOrder(v) /\ WriterOrder(w)
      /\ n \in Nat /\ Len(buf[w]) \in Nat /\ k \in Nat /\ k <= Len(buf[w])
      /\ DOMAIN file = 1..n /\ DOMAIN buf[w] = 1..Len(buf[w])
      /\ DOMAIN buf[v] = 1..Len(buf[v])
  BY LenProperties DEF IInv, TypeOK
<1>2. /\ DOMAIN file' = 1..n + k /\ DOMAIN buf'[v] = 1..Len(buf'[v])
      /\ \A i \in 1..n + k : file'[i] =
            IF i <= n THEN file[i] ELSE buf[w][i - n]
  BY LenProperties DEF Moved
<1>3. cur'[v] = cur[v] \/ cur'[v] = Nothing
  BY DEF IInv, TypeOK
<1>4. \A p : Past(count[v], cur[v], p) => Past(count'[v], cur'[v], p)
  BY <1>3 DEF Past
<1>5. Begun(v)'
  BY <1>1, <1>3 DEF WriterOrder, Begun
<1> HIDE DEF n
<1>6. CASE v = w
  <2>1. /\ DOMAIN buf'[v] = 1..Len(buf[w]) - k
        /\ \A i \in 1..Len(buf[w]) - k : buf'[v][i] = buf[w][i + k]
    BY <1>2, <1>6 DEF Moved
  <2>2. \A i \in DOMAIN buf'[v] :
           i \in Nat /\ i + k \in DOMAIN buf[w] /\ buf'[v][i] = buf[w][i + k]
    BY <1>1, <2>1
  <2>3. BufferOrder(v)'
    <3>1. ASSUME NEW i \in DOMAIN buf'[v]
          PROVE  /\ buf'[v][i].w = v
                 /\ Past(count'[v], cur'[v], buf'[v][i])
      BY <1>1, <1>4, <1>6, <2>2 DEF WriterOrder, BufferOrder
    <3>2. ASSUME NEW i \in DOMAIN buf'[v], NEW j \in DOMAIN buf'[v], i < j
          PROVE  Before(buf'[v][i], buf'[v][j])
      <4>1. i + k < j + k /\ i + k \in DOMAIN buf[w] /\ j + k \in DOMAIN buf[w]
        BY <1>1, <2>2, <3>2
      <4> QED
        BY <1>1, <2>2, <4>1 DEF WriterOrder, BufferOrder
    <3> QED
      BY <3>1, <3>2 DEF BufferOrder
  <2>4. \A i \in DOMAIN file' :
          \/ i \in DOMAIN file /\ file'[i] = file[i]
          \/ i > n /\ i - n \in 1..k /\ i - n \in DOMAIN buf[w] /\ file'[i] = buf[w][i - n]
    BY <1>1, <1>2
  <2>5. ASSUME NEW i \in DOMAIN file', file'[i].w = v
        PROVE  /\ Past(count'[v], cur'[v], file'[i])
               /\ \A j \in DOMAIN buf'[v] : Before(file'[i], buf'[v][j])
    <3>1. CASE i \in DOMAIN file /\ file'[i] = file[i]
      BY <1>1, <1>4, <1>6, <2>2, <2>5, <3>1 DEF WriterOrder, FileOrder
    <3>2. CASE i - n \in 1..k /\ i - n \in DOMAIN buf[w] /\ file'[i] = buf[w][i - n]
      <4>1. \A j \in DOMAIN buf'[v] : i - n < j + k
        BY <1>1, <2>1, <3>2
      <4> QED
        BY <1>1, <1>4, <1>6, <2>2, <3>2, <4>1 DEF WriterOrder, BufferOrder
    <3> QED
      BY <2>4, <3>1, <3>2
  <2>6. ASSUME NEW i \in DOMAIN file', NEW j \in DOMAIN file',
               i < j, file'[i].w = v, file'[j].w = v
        PROVE  Before(file'[i], file'[j])
    <3>1. CASE j \in DOMAIN file /\ file'[j] = file[j]
      <4>1. i \in DOMAIN file /\ file'[i] = file[i]
        BY <1>1, <1>2, <2>6, <3>1
      <4> QED
        BY <1>1, <2>6, <3>1, <4>1 DEF WriterOrder, FileOrder
    <3>2. CASE /\ j - n \in DOMAIN buf[w] /\ file'[j] = buf[w][j - n]
               /\ i \in DOMAIN file /\ file'[i] = file[i]
      BY <1>1, <1>6, <2>6, <3>2 DEF WriterOrder, FileOrder
    <3>3. CASE /\ j - n \in DOMAIN buf[w] /\ file'[j] = buf[w][j - n]
               /\ i - n \in DOMAIN buf[w] /\ file'[i] = buf[w][i - n]
      <4>1. i - n < j - n
        BY <1>1, <1>2, <2>6
      <4> QED
        BY <1>1, <3>3, <4>1 DEF WriterOrder, BufferOrder
    <3> QED
      BY <2>4, <3>1, <3>2, <3>3
  <2>7. FileOrder(v)'
    BY <2>5, <2>6 DEF FileOrder
  <2> QED
    BY <1>5, <2>3, <2>7 DEF WriterOrder
<1>7. CASE v # w
  <2>1. buf'[v] = buf[v]
    BY <1>7 DEF Moved
  <2>2. BufferOrder(v)'
    BY <1>1, <1>4, <2>1 DEF WriterOrder, BufferOrder
  <2>3. \A i \in DOMAIN file' : file'[i].w = v =>
          i \in DOMAIN file /\ file'[i] = file[i]
    <3>1. SUFFICES ASSUME NEW i \in DOMAIN file', file'[i].w = v
                   PROVE  i <= n
      BY <1>1, <1>2
    <3>2. ASSUME i > n PROVE FALSE
      <4>1. i - n \in DOMAIN buf[w] /\ file'[i] = buf[w][i - n]
        BY <1>1, <1>2, <3>2
      <4> QED
        BY <1>1, <1>7, <3>1, <4>1 DEF WriterOrder, BufferOrder
    <3> QED
      BY <1>1, <1>2, <3>2
  <2>4. FileOrder(v)'
    BY <1>1, <1>4, <2>1, <2>3 DEF WriterOrder, FileOrder
  <2> QED
    BY <1>5, <2>2, <2>4 DEF WriterOrder
<1> QED
  BY <1>6, <1>7

-----------------------------------------------------------------------------
(* The type of what a write leaves.                                        *)
LEMMA MovedTypes ==
    ASSUME TypeOK, NEW w \in Writers, NEW k \in 0..Len(buf[w]), Moved(w, k)
    PROVE  /\ file' \in Seq(Piece)
           /\ buf' \in [Writers -> Seq(Piece)]
           /\ \A v \in Writers : Len(buf'[v]) <= Capacity
<1>1. Len(buf[w]) \in Nat /\ Len(buf[w]) <= Capacity
  BY LenProperties DEF TypeOK
<1>2. Len(buf'[w]) <= Capacity
  BY <1>1, TraceFileAssumption DEF Moved
<1> QED
  BY <1>2 DEF Moved, TypeOK

(* What a busy writer is at.                                               *)
LEMMA NothingTyped == Nothing \in [size : Sizes \cup {0}, next : Nat]
BY DEF Nothing

LEMMA BusyIsBegun ==
    ASSUME IInv, NEW w \in Writers, cur[w] # Nothing
    PROVE  /\ count[w] \in 1..MaxEvents
           /\ cur[w].size \in Sizes
           /\ cur[w].next \in Nat \ {0}
<1>1. count[w] \in 0..MaxEvents /\ cur[w].next \in Nat
  BY DEF IInv, TypeOK
<1>2. count[w] > 0 /\ cur[w].size \in Sizes /\ cur[w].next > 0
  BY DEF IInv, WriterOrder, Begun
<1> QED
  BY <1>1, <1>2, TraceFileAssumption

(* A writer that begins has put nothing of its new event anywhere.         *)
LEMMA BeginKeeps ==
    ASSUME IInv, NEW w \in Writers, Begin(w)
    PROVE  IInv'
<1>1. PICK s \in Sizes : cur' = [cur EXCEPT ![w] = [size |-> s, next |-> 1]]
  BY DEF Begin
<1>2. /\ count' = [count EXCEPT ![w] = count[w] + 1]
      /\ UNCHANGED <<file, buf, up, written, failed>>
      /\ cur[w] = Nothing /\ count[w] < MaxEvents
  BY DEF Begin, Idle
<1>3. TypeOK'
  <2>1. count[w] + 1 \in 0..MaxEvents
    BY <1>2, TraceFileAssumption DEF IInv, TypeOK
  <2>2. [size |-> s, next |-> 1] \in [size : Sizes \cup {0}, next : Nat]
    OBVIOUS
  <2> QED
    BY <1>1, <1>2, <2>1, <2>2 DEF IInv, TypeOK
<1>4. ASSUME NEW v \in Writers PROVE WriterOrder(v)'
  <2>1. CASE v = w
    <3>1. /\ count'[v] = count[v] + 1 /\ count[v] \in Nat
          /\ cur'[v] = [size |-> s, next |-> 1]
      BY <1>1, <1>2, <2>1, TraceFileAssumption DEF IInv, TypeOK
    <3>2. Begun(v)'
      BY <3>1 DEF Begun
    <3>3. \A p \in Piece : Past(count[v], cur[v], p) => Past(count'[v], cur'[v], p)
      BY <3>1, TraceFileAssumption DEF Past, Piece
    <3>4. /\ \A i \in DOMAIN file : file[i] \in Piece
          /\ \A i \in DOMAIN buf[v] : buf[v][i] \in Piece
      BY ElementOfSeq, LenProperties DEF IInv, TypeOK
    <3>5. BufferOrder(v)' /\ FileOrder(v)'
      BY <1>2, <3>3, <3>4 DEF IInv, WriterOrder, BufferOrder, FileOrder
    <3> QED
      BY <3>2, <3>5 DEF WriterOrder
  <2>2. CASE v # w
    BY <1>1, <1>2, <2>2
       DEF IInv, TypeOK, WriterOrder, Begun, BufferOrder, FileOrder
  <2> QED
    BY <2>1, <2>2
<1> QED
  BY <1>3, <1>4 DEF IInv

(* A piece that is put comes after all that the writer has put before.     *)
LEMMA PutKeeps ==
    ASSUME IInv, NEW w \in Writers, Put(w)
    PROVE  IInv'
<1> DEFINE p == NextPiece(w)
           b == buf[w]
<1>1. /\ cur[w] # Nothing /\ Len(b) < Capacity
      /\ ~(cur[w].next > cur[w].size)
      /\ buf' = [buf EXCEPT ![w] = Append(b, p)]
      /\ cur' = [cur EXCEPT ![w] = [cur[w] EXCEPT !.next = cur[w].next + 1]]
      /\ UNCHANGED <<file, count, up, written, failed>>
  BY DEF Put, Busy, Complete
<1>2. /\ count[w] \in 1..MaxEvents /\ cur[w].size \in Sizes
      /\ cur[w].next \in Nat \ {0}
  BY <1>1, BusyIsBegun
<1>3. /\ p.w = w /\ p.n = count[w] /\ p.k = cur[w].next
      /\ p \in Piece
  BY <1>2 DEF NextPiece, Piece
<1>4. b \in Seq(Piece) /\ Len(b) \in Nat
  BY LenProperties DEF IInv, TypeOK
<1> HIDE DEF p
<1>5. /\ Append(b, p) \in Seq(Piece)
      /\ Len(Append(b, p)) = Len(b) + 1
      /\ \A i \in 1..Len(b) : Append(b, p)[i] = b[i]
      /\ Append(b, p)[Len(b) + 1] = p
  BY <1>3, <1>4, AppendProperties
<1>6. /\ buf'[w] = Append(b, p)
      /\ cur'[w].next = cur[w].next + 1 /\ cur'[w].size = cur[w].size
      /\ \A v \in Writers \ {w} : buf'[v] = buf[v] /\ cur'[v] = cur[v]
  BY <1>1 DEF IInv, TypeOK
<1>7. TypeOK'
  <2>1. buf' \in [Writers -> Seq(Piece)]
    BY <1>1, <1>5 DEF IInv, TypeOK
  <2>2. \A v \in Writers : Len(buf'[v]) <= Capacity
    BY <1>1, <1>4, <1>5, <1>6, TraceFileAssumption DEF IInv, TypeOK
  <2>3. cur' \in [Writers -> [size : Sizes \cup {0}, next : Nat]]
    <3>1. cur[w] \in [size : Sizes \cup {0}, next : Nat]
      BY DEF IInv, TypeOK
    <3>2. [cur[w] EXCEPT !.next = cur[w].next + 1]
             \in [size : Sizes \cup {0}, next : Nat]
      BY <1>2, <3>1
    <3> QED
      BY <1>1, <3>2 DEF IInv, TypeOK
  <2> QED
    BY <1>1, <2>1, <2>2, <2>3 DEF IInv, TypeOK
<1>8. ASSUME NEW v \in Writers PROVE WriterOrder(v)'
  <2>1. CASE v = w
    <3>1. WriterOrder(w) /\ DOMAIN b = 1..Len(b) /\ DOMAIN buf'[w] = 1..Len(b) + 1
      BY <1>4, <1>5, <1>6, LenProperties DEF IInv
    <3>2. Begun(w)'
      BY <1>1, <1>2, <1>6 DEF Begun
    <3>3. \A q \in Piece : Past(count[w], cur[w], q) =>
             Past(count'[w], cur'[w], q) /\ Before(q, p)
      BY <1>1, <1>2, <1>3, <1>6 DEF Past, Before, Piece
    <3>4. Past(count'[w], cur'[w], p)
      BY <1>1, <1>2, <1>3, <1>6 DEF Past
    <3>5. /\ \A i \in DOMAIN file : file[i] \in Piece
          /\ \A i \in DOMAIN b : b[i] \in Piece
      BY ElementOfSeq, LenProperties DEF IInv, TypeOK
    <3>6. \A i \in DOMAIN buf'[w] :
             \/ i \in DOMAIN b /\ buf'[w][i] = b[i]
             \/ i = Len(b) + 1 /\ buf'[w][i] = p
      BY <1>4, <1>5, <1>6, <3>1
    <3>7. BufferOrder(w)'
      <4>1. ASSUME NEW i \in DOMAIN buf'[w]
            PROVE  buf'[w][i].w = w /\ Past(count'[w], cur'[w], buf'[w][i])
        BY <1>3, <3>1, <3>3, <3>4, <3>5, <3>6 DEF WriterOrder, BufferOrder
      <4>2. ASSUME NEW i \in DOMAIN buf'[w], NEW j \in DOMAIN buf'[w], i < j
            PROVE  Before(buf'[w][i], buf'[w][j])
        <5>1. i \in DOMAIN b /\ buf'[w][i] = b[i]
          BY <1>4, <3>1, <3>6, <4>2
        <5> QED
          BY <3>1, <3>3, <3>5, <3>6, <4>2, <5>1 DEF WriterOrder, BufferOrder
      <4> QED
        BY <4>1, <4>2 DEF BufferOrder
    <3>8. FileOrder(w)'
      <4>1. ASSUME NEW i \in DOMAIN file, file[i].w = w
            PROVE  /\ Past(count'[w], cur'[w], file[i])
                   /\ \A j \in DOMAIN buf'[w] : Before(file[i], buf'[w][j])
        BY <3>1, <3>3, <3>5, <3>6, <4>1 DEF WriterOrder, FileOrder
      <4> QED
        BY <1>1, <3>1, <4>1 DEF WriterOrder, FileOrder
    <3> QED
      BY <2>1, <3>2, <3>7, <3>8 DEF WriterOrder
  <2>2. CASE v # w
    BY <1>1, <1>6, <2>2 DEF IInv, WriterOrder, Begun, BufferOrder, FileOrder
  <2> QED
    BY <2>1, <2>2
<1> QED
  BY <1>7, <1>8 DEF IInv

(* What a killed writer had in its buffer is gone.                         *)
LEMMA KillKeeps ==
    ASSUME IInv, NEW w \in Writers, Kill(w)
    PROVE  IInv'
<1>1. /\ up' = [up EXCEPT ![w] = FALSE]
      /\ buf' = [buf EXCEPT ![w] = <<>>]
      /\ UNCHANGED <<file, cur, count, written, failed>>
  BY DEF Kill
<1>2. <<>> \in Seq(Piece) /\ Len(<<>>) = 0 /\ DOMAIN <<>> = {}
  BY EmptySeq
<1>3. \A v \in Writers : buf'[v] = buf[v] \/ buf'[v] = <<>>
  BY <1>1 DEF IInv, TypeOK
<1>4. TypeOK'
  BY <1>1, <1>2, <1>3, TraceFileAssumption DEF IInv, TypeOK
<1>5. \A v \in Writers : WriterOrder(v)'
  BY <1>1, <1>2, <1>3 DEF IInv, WriterOrder, Begun, BufferOrder, FileOrder
<1> QED
  BY <1>4, <1>5 DEF IInv

(* A write to the file, whole or in part, whichever step it belongs to.    *)
LEMMA WriteKeeps ==
    ASSUME IInv, NEW w \in Writers, WriteOut(w) \/ WriteOutFails(w),
           count' = count,
           cur' = cur \/ cur' = [cur EXCEPT ![w] = Nothing],
           up' \in [Writers -> BOOLEAN],
           written' \subseteq Writers \X (1..MaxEvents)
    PROVE  IInv'
<1>1. PICK k \in 0..Len(buf[w]) : Moved(w, k)
  <2>1. Len(buf[w]) \in 0..Len(buf[w])
    BY LenProperties DEF IInv, TypeOK
  <2> QED
    BY <2>1, WholeWrite, PartWrite DEF IInv
<1>2. TypeOK'
  <2>1. /\ file' \in Seq(Piece)
        /\ buf' \in [Writers -> Seq(Piece)]
        /\ \A v \in Writers : Len(buf'[v]) <= Capacity
    BY <1>1, MovedTypes DEF IInv
  <2>2. failed' \in BOOLEAN
    BY DEF WriteOut, WriteOutFails, IInv, TypeOK
  <2>3. cur' \in [Writers -> [size : Sizes \cup {0}, next : Nat]]
    BY NothingTyped DEF IInv, TypeOK
  <2> QED
    BY <2>1, <2>2, <2>3 DEF IInv, TypeOK
<1>3. \A v \in Writers : WriterOrder(v)'
  BY <1>1, MovedKeepsOrder
<1> QED
  BY <1>2, <1>3 DEF IInv

LEMMA FlushKeeps ==
    ASSUME IInv, NEW w \in Writers, Flush(w)
    PROVE  IInv'
<1>1. count[w] \in 1..MaxEvents
  BY BusyIsBegun DEF Flush, Busy
<1>2. written' \subseteq Writers \X (1..MaxEvents)
  BY <1>1 DEF Flush, IInv, TypeOK
<1>3. /\ WriteOut(w) \/ WriteOutFails(w)
      /\ cur' = [cur EXCEPT ![w] = Nothing]
      /\ count' = count /\ up' = up
  BY DEF Flush
<1> QED
  BY <1>2, <1>3, WriteKeeps DEF IInv, TypeOK

LEMMA SpillKeeps ==
    ASSUME IInv, NEW w \in Writers, Spill(w)
    PROVE  IInv'
<1>1. /\ WriteOut(w) \/ WriteOutFails(w)
      /\ cur' = cur \/ cur' = [cur EXCEPT ![w] = Nothing]
      /\ count' = count /\ up' = up /\ written' = written
  BY DEF Spill
<1> QED
  BY <1>1, WriteKeeps DEF IInv, TypeOK

LEMMA CloseKeeps ==
    ASSUME IInv, NEW w \in Writers, Close(w)
    PROVE  IInv'
<1>1. /\ WriteOut(w) \/ WriteOutFails(w)
      /\ cur' = cur /\ count' = count /\ written' = written
      /\ up' = [up EXCEPT ![w] = FALSE]
  BY DEF Close
<1> QED
  BY <1>1, WriteKeeps DEF IInv, TypeOK

-----------------------------------------------------------------------------
LEMMA InitOrdered == Init => IInv
<1> SUFFICES ASSUME Init PROVE IInv
  OBVIOUS
<1>1. <<>> \in Seq(Piece) /\ Len(<<>>) = 0 /\ DOMAIN <<>> = {}
  BY EmptySeq
<1>2. TypeOK
  <2>1. /\ file \in Seq(Piece) /\ buf \in [Writers -> Seq(Piece)]
        /\ \A w \in Writers : Len(buf[w]) <= Capacity
    BY <1>1, TraceFileAssumption DEF Init
  <2>2. cur \in [Writers -> [size : Sizes \cup {0}, next : Nat]]
    BY NothingTyped DEF Init
  <2>3. count \in [Writers -> 0..MaxEvents] /\ up \in [Writers -> BOOLEAN]
    BY TraceFileAssumption DEF Init
  <2>4. written \subseteq Writers \X (1..MaxEvents) /\ failed \in BOOLEAN
    BY DEF Init
  <2> QED
    BY <2>1, <2>2, <2>3, <2>4 DEF TypeOK
<1>3. \A w \in Writers : WriterOrder(w)
  BY <1>1 DEF Init, WriterOrder, Begun, BufferOrder, FileOrder
<1> QED
  BY <1>2, <1>3 DEF IInv

LEMMA NextOrdered == IInv /\ [Next]_fileVars => IInv'
<1> SUFFICES ASSUME IInv, [Next]_fileVars PROVE IInv'
  OBVIOUS
<1>1. ASSUME NEW w \in Writers,
             Begin(w) \/ Put(w) \/ Spill(w) \/ Flush(w) \/ Close(w) \/ Kill(w)
      PROVE  IInv'
  BY <1>1, BeginKeeps, PutKeeps, SpillKeeps, FlushKeeps, CloseKeeps, KillKeeps
<1>2. CASE UNCHANGED fileVars
  BY <1>2 DEF fileVars, IInv, TypeOK, WriterOrder, Begun, BufferOrder, FileOrder
<1> QED
  BY <1>1, <1>2 DEF Next

(* No piece of an event is in the file twice and those of one proxy are in *)
(* the order it wrote them, also after a write that failed and after an    *)
(* interruption.                                                           *)
THEOREM EventsOrdered == Spec => []EventsInOrder
<1>1. IInv => EventsInOrder
  <2> SUFFICES ASSUME IInv, NEW i \in DOMAIN file, NEW j \in DOMAIN file,
                      i < j, file[i].w = file[j].w
               PROVE  Before(file[i], file[j])
    BY DEF EventsInOrder, Before
  <2>1. file[i].w \in Writers
    <3>1. file[i] \in Piece
      BY ElementOfSeq, LenProperties DEF IInv, TypeOK
    <3> QED
      BY <3>1 DEF Piece
  <2> QED
    BY <2>1 DEF IInv, WriterOrder, FileOrder
<1> QED
  BY <1>1, InitOrdered, NextOrdered, PTL DEF Spec

-----------------------------------------------------------------------------
(* Nothing written is lost.  This is about the pieces that are in the file *)
(* or in a buffer, not about their places there.                           *)
InFile == ToSet(file)

InBuffer(w) == ToSet(buf[w])

(* The kth piece of the event that w is writing, and any piece of it.      *)
PieceOf(w, k) == [w |-> w, n |-> count[w], k |-> k, size |-> cur[w].size]

Mine(w, p) == p.w = w /\ p.n = count[w]

(* Of the event being written there is no piece but those already put,     *)
(* and while the writer runs all of those are in the file or the buffer.   *)
CurrentKept(w) ==
    cur[w] # Nothing =>
      /\ cur[w].next <= cur[w].size + 1
      /\ \A p \in InFile \cup InBuffer(w) : Mine(w, p) => p.size = cur[w].size
      /\ up[w] => \A k \in 1..cur[w].next - 1 :
                     PieceOf(w, k) \in InFile \cup InBuffer(w)

(* An event taken for written is done with: nothing of it is yet to come.  *)
WrittenKept(w) ==
    \A n \in 1..MaxEvents : <<w, n>> \in written =>
      /\ n <= count[w]
      /\ n = count[w] => cur[w] = Nothing
      /\ \A p \in InBuffer(w) : p.n # n
      /\ Whole(<<w, n>>)

Kept ==
    /\ \A p \in InFile : p.k > 0
    /\ \A w \in Writers : /\ \A p \in InBuffer(w) : p.k > 0
                          /\ CurrentKept(w)
                          /\ WrittenKept(w)

(* What IInv says of the pieces.                                           *)
LEMMA PiecesOrdered ==
    ASSUME IInv, NEW w \in Writers
    PROVE  /\ InFile \subseteq Piece /\ InBuffer(w) \subseteq Piece
           /\ \A p \in InBuffer(w) : p.w = w /\ Past(count[w], cur[w], p)
           /\ \A p \in InFile : p.w = w => Past(count[w], cur[w], p)
<1>1. WriterOrder(w) /\ file \in Seq(Piece) /\ buf[w] \in Seq(Piece)
  BY DEF IInv, TypeOK
<1>2. InFile \subseteq Piece /\ InBuffer(w) \subseteq Piece
  BY <1>1, ElementOfSeq, LenProperties DEF InFile, InBuffer, ToSet
<1> QED
  BY <1>1, <1>2 DEF WriterOrder, BufferOrder, FileOrder, InFile, InBuffer, ToSet

(* Moving pieces from a buffer to the file loses none and makes none.      *)
LEMMA MovedConserves ==
    ASSUME TypeOK, NEW w \in Writers, NEW k \in 0..Len(buf[w]), Moved(w, k)
    PROVE  /\ InFile \subseteq InFile' /\ InFile' \subseteq InFile \cup InBuffer(w)
           /\ InBuffer(w)' \subseteq InBuffer(w)
           /\ InBuffer(w) \subseteq InFile' \cup InBuffer(w)'
           /\ \A v \in Writers \ {w} : InBuffer(v)' = InBuffer(v)
<1> DEFINE n == Len(file)
           m == Len(buf[w])
<1>1. /\ n \in Nat /\ m \in Nat /\ k \in Nat /\ k <= m
      /\ DOMAIN file = 1..n /\ DOMAIN buf[w] = 1..m
  BY LenProperties DEF TypeOK
<1>2. /\ DOMAIN file' = 1..n + k /\ DOMAIN buf'[w] = 1..m - k
      /\ \A i \in 1..n + k : file'[i] = IF i <= n THEN file[i] ELSE buf[w][i - n]
      /\ \A i \in 1..m - k : buf'[w][i] = buf[w][i + k]
  BY LenProperties DEF Moved
<1> HIDE DEF n, m
<1>3. InFile \subseteq InFile'
  <2>1. \A i \in 1..n : i \in 1..n + k /\ file'[i] = file[i]
    BY <1>1, <1>2
  <2> QED
    BY <1>1, <1>2, <2>1 DEF InFile, ToSet
<1>4. InFile' \subseteq InFile \cup InBuffer(w)
  <2>1. \A i \in 1..n + k : \/ i \in 1..n /\ file'[i] = file[i]
                            \/ i - n \in 1..m /\ file'[i] = buf[w][i - n]
    BY <1>1, <1>2
  <2> QED
    BY <1>1, <1>2, <2>1 DEF InFile, InBuffer, ToSet
<1>5. InBuffer(w)' \subseteq InBuffer(w)
  <2> SUFFICES ASSUME NEW p \in InBuffer(w)' PROVE p \in InBuffer(w)
    OBVIOUS
  <2>1. PICK i \in 1..m - k : p = buf'[w][i]
    BY <1>2 DEF InBuffer, ToSet
  <2>2. PICK j \in 1..m : j = i + k
    BY <1>1, <2>1
  <2>3. p = buf[w][j]
    BY <1>2, <2>1, <2>2
  <2> QED
    BY <1>1, <2>3 DEF InBuffer, ToSet
<1>6. InBuffer(w) \subseteq InFile' \cup InBuffer(w)'
  <2>1. \A i \in 1..m : \/ n + i \in 1..n + k /\ file'[n + i] = buf[w][i]
                        \/ i - k \in 1..m - k /\ buf'[w][i - k] = buf[w][i]
    <3>1. ASSUME NEW i \in 1..m, i <= k
          PROVE  n + i \in 1..n + k /\ file'[n + i] = buf[w][i]
      <4>1. PICK x \in 1..n + k : x = n + i /\ ~(x <= n) /\ x - n = i
        BY <1>1, <3>1
      <4>2. file'[x] = buf[w][x - n]
        BY <1>2, <4>1
      <4> QED
        BY <4>1, <4>2
    <3>2. ASSUME NEW i \in 1..m, ~(i <= k)
          PROVE  i - k \in 1..m - k /\ buf'[w][i - k] = buf[w][i]
      <4>1. i - k \in 1..m - k /\ i - k + k = i
        BY <1>1, <3>2
      <4> QED
        BY <1>2, <4>1
    <3> QED
      BY <3>1, <3>2
  <2> QED
    BY <1>1, <1>2, <2>1 DEF InFile, InBuffer, ToSet
<1>7. ASSUME NEW v \in Writers \ {w}
      PROVE  InBuffer(v)' = InBuffer(v)
  <2>1. buf'[v] = buf[v]
    BY DEF Moved
  <2> QED
    BY <2>1 DEF InBuffer, ToSet
<1> QED
  BY <1>3, <1>4, <1>5, <1>6, <1>7

(* The pieces of an event of w in the file are as before unless some of it *)
(* was in the buffer.                                                      *)
LEMMA WholeStays ==
    ASSUME NEW event, Whole(event), InFile \subseteq InFile',
           \A p \in InFile' : <<p.w, p.n>> = event => p \in InFile
    PROVE  Whole(event)'
<1>1. {p \in InFile' : <<p.w, p.n>> = event} = {p \in InFile : <<p.w, p.n>> = event}
  OBVIOUS
<1> QED
  BY <1>1 DEF Whole, InFile

LEMMA BeginKeepsAll ==
    ASSUME IInv, Kept, NEW w \in Writers, Begin(w) PROVE Kept'
<1>1. /\ UNCHANGED <<file, buf, up, written>> /\ count'[w] = count[w] + 1
      /\ count[w] \in Nat
      /\ \E s \in Sizes : cur'[w] = [size |-> s, next |-> 1]
      /\ \A v \in Writers \ {w} : cur'[v] = cur[v] /\ count'[v] = count[v]
  BY TraceFileAssumption DEF Begin, IInv, TypeOK
<1>2. \A v \in Writers : InFile' = InFile /\ InBuffer(v)' = InBuffer(v)
  BY <1>1 DEF InFile, InBuffer
<1>3. \A event : Whole(event)' = Whole(event)
  BY <1>1 DEF Whole
<1>4. ASSUME NEW v \in Writers PROVE CurrentKept(v)' /\ WrittenKept(v)'
  <2>1. CASE v = w
    <3>1. \A p \in InFile \cup InBuffer(w) : ~(p.w = w /\ p.n = count'[w])
      <4>1. \A p \in InFile \cup InBuffer(w) :
               p.n \in Nat /\ (p.w = w => Past(count[w], cur[w], p))
        BY PiecesOrdered, TraceFileAssumption DEF Piece
      <4> QED
        BY <1>1, <4>1 DEF Past
    <3>2. PICK s \in Nat : cur'[w] = [size |-> s, next |-> 1] /\ s \in Sizes
      BY <1>1, TraceFileAssumption
    <3>3. CurrentKept(w)'
      BY <1>2, <3>1, <3>2 DEF CurrentKept, Mine
    <3>4. WrittenKept(w)'
      BY <1>1, <1>2, <1>3, TraceFileAssumption DEF Kept, WrittenKept
    <3> QED
      BY <2>1, <3>3, <3>4
  <2>2. CASE v # w
    BY <1>1, <1>2, <1>3, <2>2
       DEF Kept, CurrentKept, WrittenKept, Mine, PieceOf
  <2> QED
    BY <2>1, <2>2
<1> QED
  BY <1>2, <1>4 DEF Kept

LEMMA PutKeepsAll ==
    ASSUME IInv, Kept, NEW w \in Writers, Put(w) PROVE Kept'
<1>1. /\ UNCHANGED <<file, count, up, written>> /\ cur[w] # Nothing
      /\ buf'[w] = Append(buf[w], NextPiece(w)) /\ buf[w] \in Seq(Piece)
      /\ cur'[w].next = cur[w].next + 1 /\ cur'[w].size = cur[w].size
      /\ ~(cur[w].next > cur[w].size)
      /\ \A v \in Writers \ {w} : cur'[v] = cur[v] /\ buf'[v] = buf[v]
  BY DEF Put, Busy, Complete, IInv, TypeOK
<1>2. /\ count[w] \in 1..MaxEvents /\ cur[w].size \in Sizes /\ cur[w].size \in Nat
      /\ cur[w].next \in Nat \ {0}
  BY <1>1, BusyIsBegun, TraceFileAssumption
<1>3. NextPiece(w) = PieceOf(w, cur[w].next) /\ NextPiece(w) \in Piece
  BY <1>2 DEF NextPiece, PieceOf, Piece
<1>4. /\ InFile' = InFile /\ InBuffer(w)' = InBuffer(w) \cup {NextPiece(w)}
      /\ \A v \in Writers \ {w} : InBuffer(v)' = InBuffer(v)
  <2>1. ToSet(Append(buf[w], NextPiece(w))) = ToSet(buf[w]) \cup {NextPiece(w)}
    BY <1>1, <1>3, AppendProperties, LenProperties DEF ToSet
  <2> QED
    BY <1>1, <2>1 DEF InFile, InBuffer
<1>5. \A event : Whole(event)' = Whole(event)
  BY <1>1 DEF Whole
<1>6. \A k : PieceOf(w, k)' = PieceOf(w, k)
  BY <1>1 DEF PieceOf
<1>7. CurrentKept(w)'
  <2>1. cur'[w].next <= cur'[w].size + 1
    BY <1>1, <1>2
  <2>2. \A p \in (InFile \cup InBuffer(w))' : Mine(w, p)' => p.size = cur'[w].size
    BY <1>1, <1>3, <1>4 DEF Kept, CurrentKept, Mine, PieceOf
  <2>3. up[w] => \A k \in 1..cur'[w].next - 1 : PieceOf(w, k) \in (InFile \cup InBuffer(w))'
    <3>1. \A k \in 1..cur'[w].next - 1 : k \in 1..cur[w].next - 1 \/ k = cur[w].next
      BY <1>1, <1>2
    <3> QED
      BY <1>1, <1>3, <1>4, <3>1 DEF Kept, CurrentKept
  <2> QED
    BY <1>1, <1>6, <2>1, <2>2, <2>3 DEF CurrentKept
<1>8. WrittenKept(w)'
  BY <1>1, <1>3, <1>4, <1>5 DEF Kept, WrittenKept, PieceOf
<1>9. \A v \in Writers \ {w} : CurrentKept(v)' /\ WrittenKept(v)'
  BY <1>1, <1>4, <1>5 DEF Kept, CurrentKept, WrittenKept, Mine, PieceOf
<1>10. NextPiece(w).k > 0
  BY <1>2, <1>3 DEF PieceOf
<1> QED
  BY <1>4, <1>7, <1>8, <1>9, <1>10 DEF Kept

LEMMA KillKeepsAll ==
    ASSUME IInv, Kept, NEW w \in Writers, Kill(w) PROVE Kept'
<1>1. /\ UNCHANGED <<file, cur, count, written>> /\ buf'[w] = <<>> /\ ~up'[w]
      /\ \A v \in Writers \ {w} : buf'[v] = buf[v] /\ up'[v] = up[v]
  BY DEF Kill, IInv, TypeOK
<1>2. /\ InFile' = InFile /\ InBuffer(w)' = {}
      /\ \A v \in Writers \ {w} : InBuffer(v)' = InBuffer(v)
  BY <1>1 DEF InFile, InBuffer, ToSet
<1>3. \A event : Whole(event)' = Whole(event)
  BY <1>1 DEF Whole
<1>4. CurrentKept(w)' /\ WrittenKept(w)'
  BY <1>1, <1>2, <1>3 DEF Kept, CurrentKept, WrittenKept, Mine
<1>5. \A v \in Writers \ {w} : CurrentKept(v)' /\ WrittenKept(v)'
  BY <1>1, <1>2, <1>3 DEF Kept, CurrentKept, WrittenKept, Mine, PieceOf
<1> QED
  BY <1>2, <1>4, <1>5 DEF Kept

(* A write, by itself or as part of a step that gives up the event.        *)
LEMMA WriteKeepsCurrent ==
    ASSUME IInv, IInv', Kept, NEW w \in Writers, WriteOut(w) \/ WriteOutFails(w),
           count' = count, cur' = cur \/ cur' = [cur EXCEPT ![w] = Nothing],
           \A v \in Writers : up'[v] => up[v]
    PROVE  /\ \A p \in InFile' : p.k > 0
           /\ \A v \in Writers : /\ \A p \in InBuffer(v)' : p.k > 0
                                 /\ CurrentKept(v)'
           /\ InFile \subseteq InFile'
           /\ \A p \in InFile' : p \in InFile \/ p \in InBuffer(w)
           /\ \A v \in Writers : InBuffer(v)' \subseteq InBuffer(v)
<1>1. /\ InFile \subseteq InFile' /\ InFile' \subseteq InFile \cup InBuffer(w)
      /\ InBuffer(w)' \subseteq InBuffer(w)
      /\ InBuffer(w) \subseteq InFile' \cup InBuffer(w)'
      /\ \A v \in Writers \ {w} : InBuffer(v)' = InBuffer(v)
  <2>1. PICK k \in 0..Len(buf[w]) : Moved(w, k)
    <3>1. Len(buf[w]) \in 0..Len(buf[w])
      BY LenProperties DEF IInv, TypeOK
    <3> QED
      BY <3>1, WholeWrite, PartWrite DEF IInv
  <2> QED
    BY <2>1, MovedConserves DEF IInv
<1>2. \A v \in Writers : cur'[v] = cur[v] \/ cur'[v] = Nothing
  BY DEF IInv, TypeOK
<1>3. \A p \in InBuffer(w) : p.w = w
  BY PiecesOrdered
<1>4. ASSUME NEW v \in Writers, cur'[v] = cur[v], cur[v] # Nothing
      PROVE  CurrentKept(v)'
  <2>1. \A p : Mine(v, p)' = Mine(v, p)
    BY DEF Mine
  <2>2. \A k : PieceOf(v, k)' = PieceOf(v, k)
    BY <1>4 DEF PieceOf
  <2>3. \A p \in (InFile \cup InBuffer(v))' :
           Mine(v, p) => p \in InFile \cup InBuffer(v)
    BY <1>1, <1>3 DEF Mine
  <2>4. InFile \cup InBuffer(v) \subseteq (InFile \cup InBuffer(v))'
    BY <1>1
  <2>5. CurrentKept(v)
    BY DEF Kept
  <2>6. \A p \in (InFile \cup InBuffer(v))' : Mine(v, p)' => p.size = cur'[v].size
    BY <1>4, <2>1, <2>3, <2>5 DEF CurrentKept
  <2>7. up'[v] => \A k \in 1..cur'[v].next - 1 :
            PieceOf(v, k)' \in (InFile \cup InBuffer(v))'
    BY <1>4, <2>2, <2>4, <2>5 DEF CurrentKept
  <2> QED
    BY <1>4, <2>5, <2>6, <2>7 DEF CurrentKept
<1>5. \A v \in Writers : CurrentKept(v)'
  BY <1>2, <1>4 DEF CurrentKept
<1> QED
  BY <1>1, <1>5 DEF Kept

(* What has been written before the step is still there after it.          *)
LEMMA WriteKeepsWritten ==
    ASSUME IInv, Kept, NEW w \in Writers, count' = count,
           \A v \in Writers : cur'[v] = cur[v] \/ cur'[v] = Nothing,
           InFile \subseteq InFile',
           \A p \in InFile' : p \in InFile \/ p \in InBuffer(w),
           \A v \in Writers : InBuffer(v)' \subseteq InBuffer(v),
           NEW v \in Writers, NEW n \in 1..MaxEvents, <<v, n>> \in written
    PROVE  /\ n <= count'[v]
           /\ n = count'[v] => cur'[v] = Nothing
           /\ \A p \in InBuffer(v)' : p.n # n
           /\ Whole(<<v, n>>)'
<1>1. /\ n <= count[v]
      /\ n = count[v] => cur[v] = Nothing
      /\ \A p \in InBuffer(v) : p.n # n
      /\ Whole(<<v, n>>)
  BY DEF Kept, WrittenKept
<1>2. \A p \in InBuffer(w) : p.w = w
  BY PiecesOrdered
<1>3. Whole(<<v, n>>)'
  <2>1. \A p \in InFile' : <<p.w, p.n>> = <<v, n>> => p \in InFile
    BY <1>1, <1>2
  <2> QED
    BY <1>1, <2>1, WholeStays
<1> QED
  BY <1>1, <1>3

LEMMA WriteKeepsAll ==
    ASSUME IInv, IInv', Kept, NEW w \in Writers, WriteOut(w) \/ WriteOutFails(w),
           count' = count, cur' = cur \/ cur' = [cur EXCEPT ![w] = Nothing],
           \A v \in Writers : up'[v] => up[v], written' = written
    PROVE  Kept'
<1>1. \A v \in Writers : cur'[v] = cur[v] \/ cur'[v] = Nothing
  BY DEF IInv, TypeOK
<1>2. \A v \in Writers : WrittenKept(v)'
  BY <1>1, WriteKeepsCurrent, WriteKeepsWritten DEF WrittenKept
<1> QED
  BY <1>2, WriteKeepsCurrent DEF Kept

(* A flush that succeeds leaves the whole event in the file.               *)
LEMMA FlushKeepsAll ==
    ASSUME IInv, IInv', Kept, NEW w \in Writers, Flush(w) PROVE Kept'
<1>1. CASE WriteOutFails(w) /\ written' = written
  BY <1>1, WriteKeepsAll DEF Flush
<1>2. CASE WriteOut(w) /\ written' = written \cup {<<w, count[w]>>}
  <2>1. /\ cur[w] # Nothing /\ cur[w].next > cur[w].size /\ up[w]
        /\ cur' = [cur EXCEPT ![w] = Nothing] /\ cur'[w] = Nothing
        /\ UNCHANGED <<count, up>> /\ buf'[w] = <<>>
    BY <1>2 DEF Flush, Busy, Complete, WriteOut, IInv, TypeOK
  <2>2. /\ count[w] \in 1..MaxEvents /\ cur[w].size \in Sizes /\ cur[w].size \in Nat
        /\ cur[w].next \in Nat \ {0} /\ cur[w].size \in Nat \ {0, 1}
    BY <2>1, BusyIsBegun, TraceFileAssumption
  <2>3. /\ \A p \in InFile' : p.k > 0
        /\ \A v \in Writers : /\ \A p \in InBuffer(v)' : p.k > 0
                              /\ CurrentKept(v)'
        /\ InFile \subseteq InFile'
        /\ \A p \in InFile' : p \in InFile \/ p \in InBuffer(w)
        /\ \A v \in Writers : InBuffer(v)' \subseteq InBuffer(v)
    BY <1>2, <2>1, WriteKeepsCurrent
  <2>4. InBuffer(w)' = {} /\ InFile' = InFile \cup InBuffer(w)
    <3>1. InBuffer(w)' = {}
      BY <2>1 DEF InBuffer, ToSet
    <3>2. PICK k \in 0..Len(buf[w]) : Moved(w, k)
      <4>1. Len(buf[w]) \in 0..Len(buf[w])
        BY LenProperties DEF IInv, TypeOK
      <4> QED
        BY <1>2, <4>1, WholeWrite DEF IInv
    <3> QED
      BY <3>1, <3>2, MovedConserves DEF IInv
  <2> DEFINE own == {p \in InFile' : <<p.w, p.n>> = <<w, count[w]>>}
  <2>5. \A k \in 1..cur[w].size : PieceOf(w, k) \in own /\ PieceOf(w, k).k = k
    <3>1. \A k \in 1..cur[w].size : k \in 1..cur[w].next - 1
      BY <2>1, <2>2
    <3> QED
      BY <2>1, <2>4, <3>1 DEF Kept, CurrentKept, PieceOf
  <2>6. \A p \in own : p.size = cur[w].size /\ p.k \in 1..cur[w].size
    <3>1. /\ \A p \in own : p.size = cur[w].size
          /\ cur[w].next <= cur[w].size + 1
      BY <2>1, <2>4 DEF Kept, CurrentKept, Mine
    <3>2. \A p \in own : p \in Piece /\ p.w = w /\ Past(count[w], cur[w], p)
      BY <2>4, PiecesOrdered
    <3>3. \A p \in own : p.k \in Nat /\ p.k < cur[w].next /\ p.k > 0
      BY <2>1, <2>2, <2>3, <3>2 DEF Past, Piece
    <3> QED
      BY <2>2, <3>1, <3>3
  <2>7. Whole(<<w, count[w]>>)'
    <3>1. own # {}
      BY <2>2, <2>5
    <3>2. {q.k : q \in own} = 1..cur[w].size
      BY <2>5, <2>6
    <3>3. \A p \in own : {q.k : q \in own} = 1..p.size
      BY <2>6, <3>2
    <3> QED
      BY <2>1, <3>1, <3>3 DEF Whole, InFile
  <2> HIDE DEF own
  <2>8. ASSUME NEW v \in Writers PROVE WrittenKept(v)'
    <3>1. ASSUME NEW n \in 1..MaxEvents, <<v, n>> \in written'
          PROVE  /\ n <= count'[v]
                 /\ n = count'[v] => cur'[v] = Nothing
                 /\ \A p \in InBuffer(v)' : p.n # n
                 /\ Whole(<<v, n>>)'
      <4>1. CASE <<v, n>> \in written
        <5>1. \A u \in Writers : cur'[u] = cur[u] \/ cur'[u] = Nothing
          BY <2>1 DEF IInv, TypeOK
        <5> QED
          BY <2>1, <2>3, <4>1, <5>1, WriteKeepsWritten
      <4>2. CASE v = w /\ n = count[w]
        BY <2>1, <2>2, <2>4, <2>7, <4>2
      <4> QED
        BY <1>2, <3>1, <4>1, <4>2
    <3> QED
      BY <3>1 DEF WrittenKept
  <2> QED
    BY <2>3, <2>8 DEF Kept
<1> QED
  BY <1>1, <1>2 DEF Flush

LEMMA NextKeepsAll == IInv /\ IInv' /\ Kept /\ [Next]_fileVars => Kept'
<1> SUFFICES ASSUME IInv, IInv', Kept, [Next]_fileVars PROVE Kept'
  OBVIOUS
<1>1. ASSUME NEW w \in Writers, Spill(w) \/ Close(w) PROVE Kept'
  <2>1. /\ WriteOut(w) \/ WriteOutFails(w)
        /\ cur' = cur \/ cur' = [cur EXCEPT ![w] = Nothing]
        /\ UNCHANGED <<count, written>>
        /\ \A v \in Writers : up'[v] => up[v]
    BY <1>1 DEF Spill, Close, IInv, TypeOK
  <2> QED
    BY <2>1, WriteKeepsAll
<1>2. CASE UNCHANGED fileVars
  BY <1>2 DEF fileVars, Kept, InFile, InBuffer, CurrentKept, WrittenKept, Mine,
     PieceOf, Whole
<1>3. ASSUME NEW w \in Writers,
             Begin(w) \/ Put(w) \/ Spill(w) \/ Flush(w) \/ Close(w) \/ Kill(w)
      PROVE  Kept'
  BY <1>1, <1>3, BeginKeepsAll, PutKeepsAll, FlushKeepsAll, KillKeepsAll
<1> QED
  BY <1>2, <1>3 DEF Next

(* Every piece of the file is in one of the lines that read_events sees.   *)
LEMMA LineOfPiece ==
    ASSUME TypeOK, NEW i \in DOMAIN file
    PROVE  \E ab \in Lines : ab[1] < i /\ i <= ab[2]
<1>1. Len(file) \in Nat /\ DOMAIN file = 1..Len(file) /\ i \in 1..Len(file)
  BY LenProperties DEF TypeOK
<1>2. Breaks \subseteq 0..Len(file) /\ 0 \in Breaks /\ Len(file) \in Breaks
  BY <1>1 DEF Breaks
<1>3. PICK b \in Breaks : i <= b /\ \A c \in Breaks : i <= c => b <= c
  <2> DEFINE T == {c \in Breaks : i <= c}
  <2>1. T \subseteq Nat /\ T # {}
    <3>1. Len(file) \in T
      BY <1>1, <1>2
    <3>2. \A c \in T : c \in Nat
      BY <1>1, <1>2
    <3> QED
      BY <3>1, <3>2
  <2>2. PICK b \in T : \A c \in T : b <= c
    <3> HIDE DEF T
    <3> QED
      BY <2>1, LeastNatural
  <2> QED
    BY <2>2
<1>4. PICK a \in Breaks : a < i /\ \A c \in Breaks : c < i => c <= a
  <2> DEFINE T == {Len(file) - c : c \in {x \in Breaks : x < i}}
  <2>1. \A c \in Breaks : c < i => Len(file) - c \in T
    OBVIOUS
  <2>2. T \subseteq Nat /\ T # {}
    BY <1>1, <1>2, <2>1
  <2>3. PICK t \in T : \A u \in T : t <= u
    <3> HIDE DEF T
    <3> QED
      BY <2>2, LeastNatural
  <2>4. PICK a \in Breaks : a < i /\ t = Len(file) - a
    BY <2>3
  <2>5. \A c \in Breaks : c < i => c <= a
    <3>1. \A c \in Breaks : c < i => Len(file) - a <= Len(file) - c
      BY <2>1, <2>3, <2>4
    <3> QED
      BY <1>1, <1>2, <3>1
  <2> QED
    BY <2>4, <2>5
<1>5. \A c \in Breaks : ~(a < c /\ c < b)
  BY <1>1, <1>2, <1>3, <1>4
<1>6. <<a, b>> \in Lines
  BY <1>1, <1>2, <1>3, <1>4, <1>5 DEF Lines
<1> QED
  BY <1>3, <1>4, <1>6

(* In a file that can be read, every event of which there is a piece is    *)
(* read.                                                                   *)
LEMMA ReadIfThere ==
    ASSUME TypeOK, read_events.ok, NEW i \in DOMAIN file
    PROVE  <<file[i].w, file[i].n>> \in read_events.events
<1>1. PICK ab \in Lines : ab[1] < i /\ i <= ab[2]
  BY LineOfPiece
<1> DEFINE first == file[ab[1] + 1]
<1>2. /\ Len(file) \in Nat /\ i \in 1..Len(file)
      /\ ab[1] \in 0..Len(file) /\ ab[2] \in 0..Len(file)
  BY LenProperties DEF TypeOK, Lines, Breaks
<1>3. IsEvent(ab)
  BY DEF read_events
<1>4. file[i] = [first EXCEPT !.k = i - ab[1]]
  <2>1. PICK j \in 1..ab[2] - ab[1] : ab[1] + j = i /\ j = i - ab[1]
    BY <1>1, <1>2
  <2>2. file[ab[1] + j] = [first EXCEPT !.k = j]
    BY <1>3, <2>1 DEF IsEvent
  <2> QED
    BY <2>1, <2>2
<1>5. first \in Piece
  <2>1. ab[1] + 1 \in 1..Len(file)
    BY <1>1, <1>2
  <2> QED
    BY <2>1, ElementOfSeq DEF TypeOK
<1>6. file[i].w = first.w /\ file[i].n = first.n
  BY <1>4, <1>5 DEF Piece
<1> QED
  BY <1>6 DEF read_events

LEMMA InitKept == Init => Kept
<1> SUFFICES ASSUME Init PROVE Kept
  OBVIOUS
<1>1. InFile = {} /\ \A w \in Writers : InBuffer(w) = {} /\ cur[w] = Nothing
  BY DEF Init, InFile, InBuffer, ToSet
<1> QED
  BY <1>1 DEF Init, Kept, CurrentKept, WrittenKept

(* The file, the buffers and the events are well formed at all times, no   *)
(* buffer is ever over its capacity, and what is taken for written has     *)
(* been begun, and is not what is being written.                           *)
WrittenBegun ==
    \A w \in Writers, n \in 1..MaxEvents : <<w, n>> \in written =>
        n <= count[w] /\ (n = count[w] => cur[w] = Nothing)

THEOREM TraceTypeCorrect == Spec => [](TypeOK /\ WrittenBegun)
<1>1. IInv /\ Kept => TypeOK /\ WrittenBegun
  BY DEF IInv, Kept, WrittenKept, WrittenBegun
<1> QED
  BY <1>1, InitOrdered, NextOrdered, InitKept, NextKeepsAll, PTL DEF Spec

(* What write_event has reported as written is in the file for good, every *)
(* piece of it, whatever writes fail before or after and whoever is        *)
(* killed; and whenever the file can be read at all, it is read.           *)
THEOREM WrittenEventsRead == Spec => []WrittenIsRead
<1>1. IInv /\ Kept => WrittenIsRead
  <2> SUFFICES ASSUME IInv, Kept PROVE WrittenIsRead
    OBVIOUS
  <2>1. \A event \in written :
           \E w \in Writers, n \in 1..MaxEvents : event = <<w, n>> /\ Whole(event)
    BY DEF IInv, TypeOK, Kept, WrittenKept
  <2>2. ASSUME read_events.ok, NEW event \in written
        PROVE  event \in read_events.events
    <3>1. PICK p \in ToSet(file) : <<p.w, p.n>> = event
      BY <2>1 DEF Whole
    <3>2. PICK i \in DOMAIN file : p = file[i]
      BY DEF ToSet
    <3> QED
      BY <2>2, <3>1, <3>2, ReadIfThere DEF IInv
  <2> QED
    BY <2>1, <2>2 DEF WrittenIsRead
<1> QED
  BY <1>1, InitOrdered, NextOrdered, InitKept, NextKeepsAll, PTL DEF Spec

-----------------------------------------------------------------------------
(* Until a write fails, a buffer holds a part of the event being written   *)
(* and nothing else, its newline among it once that has been put: so a     *)
(* line enters the file with every flush and with nothing else.            *)
Tidy(w) ==
    /\ cur[w] = Nothing \/ ~up[w] => buf[w] = <<>>
    /\ cur[w] # Nothing /\ up[w] =>
         /\ Len(buf[w]) < cur[w].next
         /\ cur[w].next > cur[w].size => buf[w] # <<>>
         /\ \A i \in 1..Len(buf[w]) :
               buf[w][i] = PieceOf(w, cur[w].next - 1 - Len(buf[w]) + i)

AllTidy == ~failed => \A w \in Writers : Tidy(w)

LEMMA TidyStays ==
    ASSUME NEW v \in Writers, Tidy(v), UNCHANGED <<buf[v], cur[v], count[v], up[v]>>
    PROVE  Tidy(v)'
<1>1. \A k : PieceOf(v, k)' = PieceOf(v, k)
  BY DEF PieceOf
<1> QED
  BY <1>1 DEF Tidy

LEMMA NextTidy == IInv /\ AllTidy /\ [Next]_fileVars => AllTidy'
<1> SUFFICES ASSUME IInv, AllTidy, [Next]_fileVars, ~failed' PROVE \A v \in Writers : Tidy(v)'
  BY DEF AllTidy
<1>1. ASSUME NEW w \in Writers, Begin(w) PROVE \A v \in Writers : Tidy(v)'
  <2>1. PICK s \in Sizes : cur' = [cur EXCEPT ![w] = [size |-> s, next |-> 1]]
    BY <1>1 DEF Begin
  <2>2. /\ UNCHANGED <<buf, up, failed>> /\ cur[w] = Nothing
        /\ \A v \in Writers \ {w} : cur'[v] = cur[v] /\ count'[v] = count[v]
        /\ cur'[w].next = 1 /\ cur'[w].size \in Nat \ {0, 1} /\ cur'[w] # Nothing
    BY <1>1, <2>1, TraceFileAssumption DEF Begin, Idle, IInv, TypeOK, Nothing
  <2>3. Tidy(w)'
    <3>1. buf'[w] = <<>> /\ Len(<<>>) = 0
      BY <2>2 DEF AllTidy, Tidy
    <3> QED
      BY <2>2, <3>1 DEF Tidy
  <2>4. \A v \in Writers \ {w} : Tidy(v)'
    BY <2>2, TidyStays DEF AllTidy
  <2> QED
    BY <2>3, <2>4
<1>2. ASSUME NEW w \in Writers, Put(w) PROVE \A v \in Writers : Tidy(v)'
  <2>1. /\ UNCHANGED <<file, count, up, written, failed>> /\ cur[w] # Nothing
        /\ buf'[w] = Append(buf[w], NextPiece(w)) /\ buf[w] \in Seq(Piece)
        /\ cur'[w].next = cur[w].next + 1 /\ cur'[w].size = cur[w].size
        /\ \A v \in Writers \ {w} : cur'[v] = cur[v] /\ buf'[v] = buf[v]
        /\ up[w] /\ Len(buf[w]) \in Nat
    BY <1>2, LenProperties DEF Put, Busy, Complete, IInv, TypeOK
  <2>2. /\ count[w] \in 1..MaxEvents /\ cur[w].size \in Sizes
        /\ cur[w].next \in Nat \ {0}
    BY <2>1, BusyIsBegun
  <2>3. NextPiece(w) = PieceOf(w, cur[w].next) /\ NextPiece(w) \in Piece
    BY <2>2 DEF NextPiece, PieceOf, Piece
  <2>4. \A k : PieceOf(w, k)' = PieceOf(w, k)
    BY <2>1 DEF PieceOf
  <2>5. Tidy(w)
    BY <2>1 DEF AllTidy
  <2> DEFINE m == Len(buf[w])
  <2>6. /\ Len(buf'[w]) = m + 1 /\ buf'[w] # <<>>
        /\ \A i \in 1..m : buf'[w][i] = buf[w][i]
        /\ buf'[w][m + 1] = NextPiece(w)
    BY <2>1, <2>3, AppendProperties
  <2>7. ASSUME NEW i \in 1..m + 1
        PROVE  buf'[w][i] = PieceOf(w, cur'[w].next - 1 - (m + 1) + i)
    <3>1. CASE i \in 1..m
      <4>1. buf[w][i] = PieceOf(w, cur[w].next - 1 - m + i)
        BY <2>1, <2>5, <3>1 DEF Tidy
      <4>2. cur'[w].next - 1 - (m + 1) + i = cur[w].next - 1 - m + i
        BY <2>1, <2>2, <3>1
      <4> QED
        BY <2>6, <3>1, <4>1, <4>2
    <3>2. CASE i = m + 1
      <4>1. cur'[w].next - 1 - (m + 1) + i = cur[w].next
        BY <2>1, <2>2, <3>2
      <4> QED
        BY <2>3, <2>6, <3>2, <4>1
    <3> QED
      BY <2>1, <3>1, <3>2
  <2>8. Len(buf'[w]) < cur'[w].next
    BY <2>1, <2>2, <2>5, <2>6 DEF Tidy
  <2>9. cur'[w] # Nothing
    BY <2>1, <2>2 DEF Nothing
  <2>10. Tidy(w)'
    BY <2>1, <2>4, <2>6, <2>7, <2>8, <2>9 DEF Tidy
  <2>11. \A v \in Writers \ {w} : Tidy(v)'
    BY <2>1, TidyStays DEF AllTidy
  <2> QED
    BY <2>10, <2>11
<1>3. ASSUME NEW w \in Writers, Kill(w) PROVE \A v \in Writers : Tidy(v)'
  <2>1. /\ UNCHANGED <<cur, count, failed>> /\ buf'[w] = <<>> /\ ~up'[w]
        /\ \A v \in Writers \ {w} : buf'[v] = buf[v] /\ up'[v] = up[v]
    BY <1>3 DEF Kill, IInv, TypeOK
  <2> QED
    BY <2>1 DEF AllTidy, Tidy, PieceOf
<1>4. ASSUME NEW w \in Writers, Spill(w) \/ Flush(w) \/ Close(w)
      PROVE  \A v \in Writers : Tidy(v)'
  <2>1. WriteOut(w) /\ ~failed
    BY <1>4 DEF Spill, Flush, Close, WriteOut, WriteOutFails
  <2>2. /\ buf'[w] = <<>> /\ UNCHANGED count
        /\ \A v \in Writers \ {w} : buf'[v] = buf[v] /\ cur'[v] = cur[v] /\ up'[v] = up[v]
    BY <1>4, <2>1 DEF Spill, Flush, Close, WriteOut, IInv, TypeOK
  <2>3. cur'[w] = Nothing \/ ~up'[w] \/ ~(cur'[w].next > cur'[w].size)
    <3>1. CASE Spill(w)
      <4>1. cur' = cur
        BY <2>1, <3>1 DEF Spill, WriteOut, WriteOutFails
      <4> QED
        BY <3>1, <4>1 DEF Spill, Complete
    <3>2. CASE Flush(w) \/ Close(w)
      BY <3>2 DEF Flush, Close, IInv, TypeOK
    <3> QED
      BY <1>4, <3>1, <3>2
  <2>4. cur'[w] # Nothing => cur'[w].next > 0
    <3>1. cur'[w] # Nothing => cur'[w] = cur[w]
      BY <1>4 DEF Spill, Flush, Close, IInv, TypeOK
    <3> QED
      BY <3>1 DEF IInv, WriterOrder, Begun
  <2>5. Tidy(w)'
    BY <2>2, <2>3, <2>4, EmptySeq DEF Tidy
  <2>6. \A v \in Writers \ {w} : Tidy(v)'
    BY <2>1, <2>2, TidyStays DEF AllTidy
  <2> QED
    BY <2>5, <2>6
<1>5. CASE UNCHANGED fileVars
  BY <1>5 DEF fileVars, AllTidy, Tidy, PieceOf
<1> QED
  BY <1>1, <1>2, <1>3, <1>4, <1>5 DEF Next

-----------------------------------------------------------------------------
(* Readability.  In a sequence of blocks every piece is in its place among *)
(* all the pieces of its event.                                            *)
Kth(p, j) == [p EXCEPT !.k = j]

Block(s, b, z, p) ==
    b + z <= Len(s) /\ \A j \in 1..z : s[b + j] = Kth(p, j)

InBlock(s, i, p) ==
    \E b, k, z \in Nat :
        /\ p.k = k /\ p.size = z /\ 1 < z
        /\ 1 <= k /\ k <= z /\ i = b + k
        /\ Block(s, b, z, p)

Blocks(s) == \A i \in DOMAIN s : InBlock(s, i, s[i])

(* While every event fits into the buffers, a buffer is never spilled, so  *)
(* it holds all that has been put of the event being written.              *)
Unspilled ==
    ~failed =>
      /\ Blocks(file)
      /\ \A w \in Writers :
            cur[w] # Nothing /\ up[w] => Len(buf[w]) = cur[w].next - 1

LEMMA BlocksConcat ==
    ASSUME NEW s \in Seq(Piece), NEW t \in Seq(Piece), Blocks(s), Blocks(t)
    PROVE  Blocks(s \o t)
<1> DEFINE m == Len(s)
           n == Len(t)
           u == s \o t
<1>1. /\ m \in Nat /\ n \in Nat /\ DOMAIN s = 1..m /\ DOMAIN t = 1..n
      /\ Len(u) = m + n /\ DOMAIN u = 1..m + n
      /\ \A i \in 1..m : u[i] = s[i]
      /\ \A i \in 1..m + n : i > m => u[i] = t[i - m]
  BY ConcatProperties, LenProperties
<1> HIDE DEF u
<1>2. ASSUME NEW i \in 1..m PROVE InBlock(u, i, u[i])
  <2>1. PICK p : p = s[i] /\ p = u[i]
    BY <1>1
  <2>2. PICK b \in Nat, k \in Nat, z \in Nat :
           /\ p.k = k /\ p.size = z /\ 1 < z
           /\ 1 <= k /\ k <= z /\ i = b + k
           /\ Block(s, b, z, p)
    <3>1. InBlock(s, i, p)
      BY <1>1, <2>1 DEF Blocks
    <3> QED
      BY <3>1 DEF InBlock
  <2>3. b + z <= m /\ \A j \in 1..z : s[b + j] = Kth(p, j)
    BY <2>2 DEF Block
  <2> HIDE DEF m, n
  <2>4. \A j \in 1..z : b + j \in 1..m
    BY <1>1, <2>2, <2>3
  <2>5. b + z <= Len(u)
    BY <1>1, <2>3
  <2>6. Block(u, b, z, p)
    BY <1>1, <2>3, <2>4, <2>5 DEF Block
  <2>7. InBlock(u, i, p)
    BY <2>2, <2>6 DEF InBlock
  <2> QED
    BY <2>1, <2>7
<1>3. ASSUME NEW i \in 1..m + n, i > m PROVE InBlock(u, i, u[i])
  <2>1. PICK h \in 1..n : h = i - m /\ i = m + h
    BY <1>1, <1>3
  <2>2. PICK p : p = t[h] /\ p = u[i]
    BY <1>1, <1>3, <2>1
  <2>3. PICK b \in Nat, k \in Nat, z \in Nat :
           /\ p.k = k /\ p.size = z /\ 1 < z
           /\ 1 <= k /\ k <= z /\ h = b + k
           /\ Block(t, b, z, p)
    <3>1. InBlock(t, h, p)
      BY <1>1, <2>2 DEF Blocks
    <3> QED
      BY <3>1 DEF InBlock
  <2>4. b + z <= n /\ \A j \in 1..z : t[b + j] = Kth(p, j)
    BY <2>3 DEF Block
  <2> HIDE DEF m, n
  <2>5. PICK c \in Nat : c = m + b
    BY <1>1
  <2>6. i = c + k /\ c + z <= Len(u)
    BY <1>1, <2>1, <2>3, <2>4, <2>5
  <2>7. ASSUME NEW j \in 1..z PROVE u[c + j] = Kth(p, j)
    <3>1. PICK x \in 1..m + n : x = c + j /\ x > m /\ x - m = b + j
      BY <1>1, <2>3, <2>4, <2>5
    <3>2. u[x] = t[x - m]
      BY <1>1, <3>1
    <3> QED
      BY <2>4, <3>1, <3>2
  <2>8. Block(u, c, z, p)
    BY <2>6, <2>7 DEF Block
  <2>9. InBlock(u, i, p)
    BY <2>3, <2>5, <2>6, <2>8 DEF InBlock
  <2> QED
    BY <2>2, <2>9
<1> HIDE DEF m, n
<1>4. \A i \in 1..m + n : i \in 1..m \/ i > m
  BY <1>1
<1>5. Blocks(u)
  BY <1>1, <1>2, <1>3, <1>4 DEF Blocks
<1> QED
  BY <1>5 DEF u

LEMMA BufferIsBlock ==
    ASSUME IInv, Kept, NEW w \in Writers, Tidy(w), cur[w] # Nothing, up[w],
           cur[w].next > cur[w].size, Len(buf[w]) = cur[w].next - 1
    PROVE  Blocks(buf[w])
<1>1. /\ cur[w].size \in Nat \ {0, 1} /\ cur[w].next \in Nat \ {0}
      /\ cur[w].next <= cur[w].size + 1
  BY BusyIsBegun, TraceFileAssumption DEF IInv, TypeOK, Kept, CurrentKept
<1>2. PICK z \in Nat : z = cur[w].size /\ z = Len(buf[w]) /\ cur[w].next = z + 1 /\ 1 < z
  BY <1>1
<1>3. \A i \in 1..z : buf[w][i] = PieceOf(w, i)
  <2>1. \A i \in 1..z : cur[w].next - 1 - Len(buf[w]) + i = i
    BY <1>2
  <2> QED
    BY <1>2, <2>1 DEF Tidy
<1>4. DOMAIN buf[w] = 1..z
  BY <1>2, LenProperties DEF IInv, TypeOK
<1>5. ASSUME NEW i \in 1..z PROVE InBlock(buf[w], i, PieceOf(w, i))
  <2>1. PieceOf(w, i).k = i /\ PieceOf(w, i).size = z
    BY <1>2 DEF PieceOf
  <2>2. \A j \in 1..z : buf[w][0 + j] = Kth(PieceOf(w, i), j)
    <3>1. \A j \in 1..z : PieceOf(w, j) = Kth(PieceOf(w, i), j)
      BY DEF PieceOf, Kth
    <3>2. \A j \in 1..z : 0 + j = j
      OBVIOUS
    <3> QED
      BY <1>3, <3>1, <3>2
  <2>3. 0 + z <= Len(buf[w])
    BY <1>2
  <2>4. Block(buf[w], 0, z, PieceOf(w, i))
    BY <2>2, <2>3 DEF Block
  <2>5. i \in Nat /\ 0 \in Nat /\ i = 0 + i /\ 1 <= i /\ i <= z
    OBVIOUS
  <2> QED
    BY <1>2, <2>1, <2>4, <2>5 DEF InBlock
<1> QED
  BY <1>3, <1>4, <1>5 DEF Blocks

(* A file of blocks can be read.                                           *)
LEMMA BlocksAreReadable ==
    ASSUME TypeOK, Blocks(file) PROVE read_events.ok
<1> SUFFICES ASSUME NEW ab \in Lines PROVE IsEvent(ab)
  BY DEF read_events
<1>1. PICK n \in Nat : n = Len(file) /\ DOMAIN file = 1..n
  BY LenProperties DEF TypeOK
<1>2. PICK a \in 0..n, b \in 0..n :
         /\ ab[1] = a /\ ab[2] = b /\ a < b
         /\ a = 0 \/ (a \in 1..n /\ Newline(file[a]))
         /\ Newline(file[b]) \/ b = n
         /\ \A c \in Breaks : ~(a < c /\ c < b)
  <2>1. PICK a \in Breaks, b \in Breaks :
           /\ ab[1] = a /\ ab[2] = b /\ a < b
           /\ \A c \in Breaks : ~(a < c /\ c < b)
    BY DEF Lines
  <2>2. \A c \in Breaks : c \in 0..n /\ (c = 0 \/ c = n \/ (c \in 1..n /\ Newline(file[c])))
    BY <1>1 DEF Breaks
  <2> QED
    BY <2>1, <2>2
<1>3. PICK p : p = file[a + 1] /\ p \in Piece
  <2>1. a + 1 \in 1..n
    BY <1>2
  <2> QED
    BY <1>1, <2>1, ElementOfSeq DEF TypeOK
<1>4. PICK c \in Nat, k \in Nat, z \in Nat :
         /\ p.k = k /\ p.size = z /\ 1 < z
         /\ 1 <= k /\ k <= z /\ a + 1 = c + k
         /\ Block(file, c, z, p)
  <2>1. a + 1 \in 1..n
    BY <1>2
  <2>2. InBlock(file, a + 1, p)
    BY <1>1, <1>3, <2>1 DEF Blocks
  <2> QED
    BY <2>2 DEF InBlock
<1>5. c + z <= n /\ \A j \in 1..z : file[c + j] = Kth(p, j)
  BY <1>1, <1>4 DEF Block
<1>6. \A j \in 1..z : Newline(file[c + j]) <=> j = z
  <2>1. \A j \in 1..z : Kth(p, j).k = j /\ Kth(p, j).size = z
    BY <1>3, <1>4 DEF Kth, Piece
  <2> QED
    BY <1>5, <2>1 DEF Newline
<1>7. k = 1 /\ c = a
  <2>1. ASSUME k # 1 PROVE FALSE
    <3>1. PICK j \in 1..z : c + j = a /\ j < z /\ a # 0
      BY <1>2, <1>4, <2>1
    <3>2. ~Newline(file[a])
      BY <1>6, <3>1
    <3> QED
      BY <1>2, <3>1, <3>2
  <2> QED
    BY <1>2, <1>4, <2>1
<1>8. b = a + z
  <2>1. PICK e \in 1..n : e = a + z /\ e = c + z
    BY <1>2, <1>4, <1>5, <1>7
  <2>2. e \in Breaks
    <3>1. Newline(file[e])
      BY <1>4, <1>6, <2>1
    <3> QED
      BY <1>1, <3>1 DEF Breaks
  <2>3. b <= e
    BY <1>2, <1>4, <2>1, <2>2
  <2>4. ASSUME b < e PROVE FALSE
    <3>1. PICK j \in 1..z : c + j = b /\ j < z
      BY <1>2, <1>4, <1>7, <2>1, <2>4
    <3>2. ~Newline(file[b]) /\ b # n
      BY <1>6, <2>1, <2>4, <3>1
    <3> QED
      BY <1>2, <3>2
  <2> QED
    BY <1>2, <2>1, <2>3, <2>4
<1>9. ab[2] - ab[1] = z
  BY <1>2, <1>4, <1>8
<1>10. \A j \in 1..z : file[ab[1] + j] = Kth(file[ab[1] + 1], j)
  BY <1>2, <1>3, <1>5, <1>7
<1> QED
  BY <1>2, <1>3, <1>4, <1>9, <1>10 DEF IsEvent, Kth

LEMMA NeverSpills ==
    ASSUME \A s \in Sizes : s <= Capacity, IInv, Unspilled, ~failed,
           NEW w \in Writers, Spill(w)
    PROVE  FALSE
<1>1. /\ cur[w] # Nothing /\ up[w] /\ ~(cur[w].next > cur[w].size)
      /\ Len(buf[w]) = Capacity
  BY DEF Spill, Busy, Complete
<1>2. /\ cur[w].size \in Nat /\ cur[w].next \in Nat /\ cur[w].size <= Capacity
      /\ Capacity \in Nat
  BY <1>1, BusyIsBegun, TraceFileAssumption
<1>3. Len(buf[w]) = cur[w].next - 1
  BY <1>1 DEF Unspilled
<1> QED
  BY <1>1, <1>2, <1>3

LEMMA NextUnspilled ==
    ASSUME \A s \in Sizes : s <= Capacity,
           IInv, IInv', Kept, AllTidy, Unspilled, [Next]_fileVars
    PROVE  Unspilled'
<1> DEFINE Full(w) == cur[w] # Nothing /\ up[w] => Len(buf[w]) = cur[w].next - 1
<1> SUFFICES ASSUME ~failed' PROVE Blocks(file)' /\ \A w \in Writers : Full(w)'
  BY DEF Unspilled
<1>1. ~failed
  <2>1. failed' = failed \/ failed' = TRUE
    BY DEF Next, Begin, Put, Spill, Flush, Close, Kill, WriteOut, WriteOutFails, fileVars
  <2> QED
    BY <2>1
<1>2. Blocks(file) /\ (\A w \in Writers : Full(w)) /\ \A w \in Writers : Tidy(w)
  BY <1>1 DEF Unspilled, AllTidy
<1>3. ASSUME NEW w \in Writers, Begin(w) \/ Put(w) \/ Kill(w)
      PROVE  Blocks(file)' /\ \A v \in Writers : Full(v)'
  <2>1. file' = file /\ Blocks(file)'
    BY <1>2, <1>3 DEF Begin, Put, Kill
  <2>2. \A v \in Writers \ {w} : UNCHANGED <<buf[v], cur[v], up[v]>>
    BY <1>3 DEF Begin, Put, Kill, IInv, TypeOK
  <2>3. CASE Begin(w)
    <3>1. cur[w] = Nothing /\ cur'[w].next = 1 /\ buf'[w] = buf[w]
      BY <2>3 DEF Begin, Idle, IInv, TypeOK
    <3>2. Len(buf'[w]) = 0
      BY <1>2, <3>1 DEF Tidy
    <3> QED
      BY <1>2, <2>1, <2>2, <3>1, <3>2
  <2>4. CASE Put(w)
    <3>1. /\ cur[w] # Nothing /\ up[w] /\ cur'[w].next = cur[w].next + 1
          /\ buf[w] \in Seq(Piece) /\ buf'[w] = Append(buf[w], NextPiece(w))
      BY <2>4 DEF Put, Busy, IInv, TypeOK
    <3>2. cur[w].next \in Nat /\ Len(buf[w]) \in Nat /\ Len(buf'[w]) = Len(buf[w]) + 1
      BY <3>1, BusyIsBegun, LenProperties
    <3>3. Len(buf'[w]) = cur'[w].next - 1
      BY <1>2, <3>1, <3>2
    <3> QED
      BY <1>2, <2>1, <2>2, <3>3
  <2>5. CASE Kill(w)
    <3>1. ~up'[w]
      BY <2>5 DEF Kill, IInv, TypeOK
    <3> QED
      BY <1>2, <2>1, <2>2, <3>1
  <2> QED
    BY <1>3, <2>3, <2>4, <2>5
<1>4. \A w \in Writers : ~Spill(w)
  BY <1>1, NeverSpills
<1>5. ASSUME NEW w \in Writers, Flush(w) \/ Close(w)
      PROVE  Blocks(file)' /\ \A v \in Writers : Full(v)'
  <2>1. WriteOut(w)
    BY <1>5 DEF Flush, Close, WriteOutFails
  <2>2. /\ file' = file \o buf[w] /\ file \in Seq(Piece) /\ buf[w] \in Seq(Piece)
        /\ cur'[w] = Nothing \/ ~up'[w]
        /\ \A v \in Writers \ {w} : UNCHANGED <<buf[v], cur[v], up[v]>>
    BY <1>5, <2>1 DEF Flush, Close, WriteOut, IInv, TypeOK
  <2>3. Blocks(buf[w])
    <3>1. CASE Flush(w)
      BY <1>2, <3>1, BufferIsBlock DEF Flush, Busy, Complete
    <3>2. CASE Close(w)
      <4>1. buf[w] = <<>>
        BY <1>2, <3>2 DEF Close, Idle, Tidy
      <4> QED
        BY <4>1 DEF Blocks
    <3> QED
      BY <1>5, <3>1, <3>2
  <2>4. Blocks(file \o buf[w])
    BY <1>2, <2>2, <2>3, BlocksConcat
  <2>5. Blocks(file)'
    BY <2>2, <2>4
  <2> QED
    BY <1>2, <2>2, <2>5
<1>6. CASE UNCHANGED fileVars
  <2>1. UNCHANGED <<file, buf, cur, up>>
    BY <1>6 DEF fileVars
  <2> QED
    BY <1>2, <2>1
<1> QED
  BY <1>3, <1>4, <1>5, <1>6 DEF Next

(* An interrupted run leaves a file that can be read, at whatever moment   *)
(* whichever of the proxies is killed, as long as every event fits into a  *)
(* buffer and no write has failed.  The first condition is necessary: see  *)
(* the run trace_interrupted.                                              *)
THEOREM InterruptedReadable ==
    ASSUME \A s \in Sizes : s <= Capacity
    PROVE  Spec => []InterruptedRunsReadable
<1>1. Init => AllTidy /\ Unspilled
  BY DEF Init, AllTidy, Tidy, Unspilled, Blocks
<1>2. IInv /\ IInv' /\ Kept /\ AllTidy /\ Unspilled /\ [Next]_fileVars => Unspilled'
  BY NextUnspilled
<1>3. IInv /\ Unspilled => InterruptedRunsReadable
  BY BlocksAreReadable DEF IInv, Unspilled, InterruptedRunsReadable
<1> QED
  BY <1>1, <1>2, <1>3, InitOrdered, NextOrdered, InitKept, NextKeepsAll, NextTidy,
     PTL DEF Spec

-----------------------------------------------------------------------------
(* The lines of the file.  LogOf is a fold whose step has no parameter.    *)
ReadPieceOf(none, log, p) == ReadPiece(log, p)

Folds == INSTANCE SequenceLemmas WITH op <- ReadPieceOf

LEMMA LogFold ==
    \A x, s : LogOf(s) = Folds!Fold(x, NoLines, s)
  BY DEF LogOf, ReadPieceOf, Folds!Fold, FoldLeft, Folds!FoldLeft, MapThenFoldSet,
     Folds!MapThenFoldSet, Max, Folds!Max

LEMMA LogEmpty == LogOf(<<>>) = NoLines
  BY LogFold, Folds!FoldEmpty

LEMMA LogAppend ==
    ASSUME NEW S, NEW s \in Seq(S), NEW e \in S
    PROVE  LogOf(Append(s, e)) = ReadPiece(LogOf(s), e)
<1>1. Folds!Fold(0, NoLines, Append(s, e)) = ReadPieceOf(0, Folds!Fold(0, NoLines, s), e)
  BY Folds!FoldAppend
<1>2. LogOf(Append(s, e)) = ReadPieceOf(0, LogOf(s), e)
  BY <1>1, LogFold
<1> QED
  BY <1>2 DEF ReadPieceOf

(* A line is of a piece that is a newline, and is its event or none.       *)
Entries(S) == {<<p.w, p.n>> : p \in {q \in S : Newline(q)}}
                \cup {<<p.w, 0>> : p \in {q \in S : Newline(q)}}

LogsOf(S) == [lines : Seq(Entries(S)), open : Seq(S)]

LEMMA ReadPieceCases ==
    ASSUME NEW S, NEW log \in LogsOf(S), NEW p \in S
    PROVE  /\ Newline(p) =>
                /\ EventOf(Append(log.open, p), p) \in Entries(S)
                /\ ReadPiece(log, p) =
                      [lines |-> Append(log.lines, EventOf(Append(log.open, p), p)),
                       open |-> <<>>]
           /\ ~Newline(p) =>
                 ReadPiece(log, p) = [lines |-> log.lines, open |-> Append(log.open, p)]
           /\ ReadPiece(log, p) \in LogsOf(S)
<1>1. log.lines \in Seq(Entries(S)) /\ log.open \in Seq(S)
  BY DEF LogsOf
<1>2. Append(log.open, p) \in Seq(S) /\ <<>> \in Seq(S)
  BY <1>1, AppendProperties
<1>3. ASSUME Newline(p)
      PROVE  /\ EventOf(Append(log.open, p), p) \in Entries(S)
             /\ ReadPiece(log, p) =
                   [lines |-> Append(log.lines, EventOf(Append(log.open, p), p)),
                    open |-> <<>>]
             /\ ReadPiece(log, p) \in LogsOf(S)
  <2>1. PICK e : e = EventOf(Append(log.open, p), p)
    OBVIOUS
  <2>2. e = <<p.w, p.n>> \/ e = <<p.w, 0>>
    BY <2>1 DEF EventOf
  <2>3. e \in Entries(S)
    BY <1>3, <2>2 DEF Entries
  <2>4. ReadPiece(log, p) =
           [log EXCEPT !.lines = Append(@, EventOf(Append(log.open, p), p)), !.open = <<>>]
    BY <1>3 DEF ReadPiece
  <2>5. ReadPiece(log, p) = [log EXCEPT !.lines = Append(@, e), !.open = <<>>]
    BY <2>1, <2>4
  <2>6. ReadPiece(log, p) = [lines |-> Append(log.lines, e), open |-> <<>>]
    BY <2>5 DEF LogsOf
  <2>7. Append(log.lines, e) \in Seq(Entries(S))
    BY <1>1, <2>3, AppendProperties
  <2> QED
    BY <1>2, <2>1, <2>3, <2>6, <2>7 DEF LogsOf
<1>4. ASSUME ~Newline(p)
      PROVE  /\ ReadPiece(log, p) = [lines |-> log.lines, open |-> Append(log.open, p)]
             /\ ReadPiece(log, p) \in LogsOf(S)
  <2>1. ReadPiece(log, p) = [log EXCEPT !.open = Append(@, p)]
    BY <1>4 DEF ReadPiece
  <2>2. ReadPiece(log, p) = [lines |-> log.lines, open |-> Append(log.open, p)]
    BY <2>1 DEF LogsOf
  <2> QED
    BY <1>1, <1>2, <2>2 DEF LogsOf
<1> QED
  BY <1>3, <1>4

LEMMA LogType ==
    ASSUME NEW S, NEW s \in Seq(S)
    PROVE  LogOf(s) \in LogsOf(S)
<1>1. NoLines \in LogsOf(S)
  <2>1. <<>> \in Seq(S) /\ <<>> \in Seq(Entries(S))
    OBVIOUS
  <2> QED
    BY <2>1 DEF NoLines, LogsOf
<1>2. \A log \in LogsOf(S), p \in S : ReadPieceOf(0, log, p) \in LogsOf(S)
  BY ReadPieceCases DEF ReadPieceOf
<1>3. Folds!Fold(0, NoLines, s) \in LogsOf(S)
  BY <1>1, <1>2, Folds!FoldType
<1> QED
  BY <1>3, LogFold

LEMMA ConcatAppend ==
    ASSUME NEW S, NEW s \in Seq(S), NEW t \in Seq(S), NEW e \in S
    PROVE  s \o t \in Seq(S) /\ s \o Append(t, e) = Append(s \o t, e)
  BY ConcatProperties, AppendIsConcat, ConcatAssociative

(* What has been read stays as it is when the file grows.                  *)
LEMMA LogGrows ==
    ASSUME NEW S, NEW s \in Seq(S)
    PROVE  \A t \in Seq(S) : IsPrefix(LogOf(s).lines, LogOf(s \o t).lines)
<1> DEFINE Q == {t \in Seq(S) : IsPrefix(LogOf(s).lines, LogOf(s \o t).lines)}
           E == Entries(S)
<1>1. LogOf(s).lines \in Seq(E)
  BY LogType DEF LogsOf
<1>2. <<>> \in Q
  <2>1. LogOf(s).lines \o <<>> = LogOf(s).lines /\ s \o <<>> = s /\ <<>> \in Seq(S)
    BY <1>1, ConcatEmptySeq
  <2>2. IsPrefix(LogOf(s).lines, LogOf(s).lines \o <<>>)
    BY <1>1, PrefixOfConcat, EmptySeq
  <2> QED
    BY <2>1, <2>2
<1>3. ASSUME NEW t \in Seq(S), NEW e \in S, t \in Q PROVE Append(t, e) \in Q
  <2>1. PICK u \in Seq(S) : u = s \o t /\ s \o Append(t, e) = Append(u, e)
    <3>1. s \o t \in Seq(S) /\ s \o Append(t, e) = Append(s \o t, e)
      BY ConcatAppend
    <3> QED
      BY <3>1
  <2>2. /\ LogOf(u) \in LogsOf(S) /\ LogOf(u).lines \in Seq(E)
        /\ LogOf(Append(u, e)) = ReadPiece(LogOf(u), e)
    BY LogType, LogAppend DEF LogsOf
  <2>3. \/ LogOf(Append(u, e)).lines = LogOf(u).lines
        \/ \E l \in E : LogOf(Append(u, e)).lines = Append(LogOf(u).lines, l)
    <3>1. PICK log \in LogsOf(S) : log = LogOf(u)
      BY <2>2
    <3>2. CASE Newline(e)
      <4>1. PICK l \in E : l = EventOf(Append(log.open, e), e)
        BY <3>2, ReadPieceCases
      <4>2. ReadPiece(log, e) = [lines |-> Append(log.lines, l), open |-> <<>>]
        BY <3>2, <4>1, ReadPieceCases
      <4>3. ReadPiece(log, e).lines = Append(log.lines, l)
        BY <4>2
      <4> QED
        BY <2>2, <3>1, <4>3
    <3>3. CASE ~Newline(e)
      <4>1. ReadPiece(log, e) = [lines |-> log.lines, open |-> Append(log.open, e)]
        BY <3>3, ReadPieceCases
      <4> QED
        BY <2>2, <3>1, <4>1
    <3> QED
      BY <3>2, <3>3
  <2>4. IsPrefix(LogOf(s).lines, LogOf(u).lines)
    BY <1>3, <2>1
  <2>5. IsPrefix(LogOf(s).lines, LogOf(Append(u, e)).lines)
    <3> HIDE DEF Q, E
    <3> QED
      BY <1>1, <2>2, <2>3, <2>4, PrefixOfAppend
  <2>6. Append(t, e) \in Seq(S)
    BY AppendProperties
  <2> QED
    BY <2>1, <2>5, <2>6
<1> HIDE DEF Q
<1>4. \A t \in Seq(S) : t \in Q
  BY <1>2, <1>3, SequenceInduction
<1> QED
  BY <1>4 DEF Q

(* Pieces without a newline among them are no line yet.                    *)
LEMMA LogOpens ==
    ASSUME NEW S, NEW s \in Seq(S), LogOf(s).open = <<>>,
           NEW N, N \subseteq S, \A p \in N : ~Newline(p)
    PROVE  \A t \in Seq(N) : LogOf(s \o t) = [lines |-> LogOf(s).lines, open |-> t]
<1> DEFINE Q == {t \in Seq(N) : LogOf(s \o t) = [lines |-> LogOf(s).lines, open |-> t]}
<1>1. <<>> \in Q
  <2>1. s \o <<>> = s /\ <<>> \in Seq(N) /\ LogOf(s) \in LogsOf(S)
    BY ConcatEmptySeq, LogType
  <2>2. LogOf(s) = [lines |-> LogOf(s).lines, open |-> LogOf(s).open]
    BY <2>1 DEF LogsOf
  <2> QED
    BY <2>1, <2>2
<1>2. ASSUME NEW t \in Seq(N), NEW e \in N, t \in Q PROVE Append(t, e) \in Q
  <2>1. t \in Seq(S) /\ e \in S
    OBVIOUS
  <2>2. PICK u \in Seq(S) : u = s \o t /\ s \o Append(t, e) = Append(u, e)
    <3>1. s \o t \in Seq(S) /\ s \o Append(t, e) = Append(s \o t, e)
      BY <2>1, ConcatAppend
    <3> QED
      BY <3>1
  <2>3. /\ LogOf(u) \in LogsOf(S) /\ LogOf(u) = [lines |-> LogOf(s).lines, open |-> t]
        /\ LogOf(Append(u, e)) = ReadPiece(LogOf(u), e)
    BY <1>2, <2>1, <2>2, LogType, LogAppend
  <2>4. ReadPiece(LogOf(u), e) =
           [lines |-> LogOf(u).lines, open |-> Append(LogOf(u).open, e)]
    BY <2>1, <2>3, ReadPieceCases
  <2>5. LogOf(u).lines = LogOf(s).lines /\ LogOf(u).open = t
    BY <2>3
  <2>6. Append(t, e) \in Seq(N)
    BY AppendProperties
  <2> QED
    BY <2>2, <2>3, <2>4, <2>5, <2>6
<1> HIDE DEF Q
<1>3. \A t \in Seq(N) : t \in Q
  BY <1>1, <1>2, SequenceInduction
<1> QED
  BY <1>3 DEF Q

(* All the pieces of an event in order, behind whole lines, are one line.  *)
LEMMA LogAddsEvent ==
    ASSUME NEW S, NEW s \in Seq(S), LogOf(s).open = <<>>,
           NEW N, N \subseteq S, \A p \in N : ~Newline(p),
           NEW f \in Seq(N), NEW e \in S, Newline(e), Append(f, e) = PiecesOf(e)
    PROVE  LogOf(s \o Append(f, e)) =
              [lines |-> Append(LogOf(s).lines, <<e.w, e.n>>), open |-> <<>>]
<1>1. f \in Seq(S)
  OBVIOUS
<1>2. PICK u \in Seq(S) : u = s \o f /\ s \o Append(f, e) = Append(u, e)
  <2>1. \A g \in Seq(S), h \in S :
           s \o g \in Seq(S) /\ s \o Append(g, h) = Append(s \o g, h)
    BY ConcatAppend
  <2> QED
    BY <1>1, <2>1
<1>3. /\ LogOf(u) = [lines |-> LogOf(s).lines, open |-> f] /\ LogOf(u) \in LogsOf(S)
      /\ LogOf(Append(u, e)) = ReadPiece(LogOf(u), e)
  BY <1>2, LogOpens, LogType, LogAppend
<1>4. LogOf(u).lines = LogOf(s).lines /\ LogOf(u).open = f
  BY <1>3
<1>5. ReadPiece(LogOf(u), e) =
         [lines |-> Append(LogOf(u).lines, EventOf(Append(LogOf(u).open, e), e)), open |-> <<>>]
  BY <1>3, ReadPieceCases
<1>6. EventOf(Append(f, e), e) = <<e.w, e.n>>
  BY DEF EventOf
<1> QED
  BY <1>2, <1>3, <1>4, <1>5, <1>6

-----------------------------------------------------------------------------
(* A buffer that has not spilled is, when it is flushed, one whole event.  *)
LEMMA BufferIsEvent ==
    ASSUME IInv, Kept, NEW w \in Writers, Tidy(w), cur[w] # Nothing, up[w],
           cur[w].next > cur[w].size, Len(buf[w]) = cur[w].next - 1,
           LogOf(file).open = <<>>
    PROVE  /\ LogOf(file \o buf[w]) =
                [lines |-> Append(LogOf(file).lines, <<w, count[w]>>), open |-> <<>>]
           /\ \E j \in DOMAIN buf[w] : buf[w][j] = PieceOf(w, cur[w].size)
<1>1. /\ cur[w].size \in Nat \ {0, 1} /\ cur[w].next \in Nat \ {0}
      /\ cur[w].next <= cur[w].size + 1
  BY BusyIsBegun, TraceFileAssumption DEF IInv, TypeOK, Kept, CurrentKept
<1>2. PICK z \in Nat : z = cur[w].size /\ z = Len(buf[w]) /\ cur[w].next = z + 1 /\ 1 < z
  BY <1>1
<1>3. /\ buf[w] \in Seq(Piece) /\ file \in Seq(Piece) /\ DOMAIN buf[w] = 1..z
      /\ buf[w] # <<>>
  BY <1>2, LenProperties, EmptySeq DEF IInv, TypeOK
<1>4. \A i \in 1..z : buf[w][i] = PieceOf(w, i)
  <2>1. \A i \in 1..z : cur[w].next - 1 - Len(buf[w]) + i = i
    BY <1>2
  <2> QED
    BY <1>2, <2>1 DEF Tidy
<1> DEFINE e == PieceOf(w, z)
           N == {p \in Piece : ~Newline(p)}
<1>5. e.w = w /\ e.n = count[w] /\ e.k = z /\ e.size = z /\ z \in 1..z
  BY <1>2 DEF PieceOf
<1>6. PICK f \in Seq(Piece), l \in Piece : buf[w] = Append(f, l)
  BY <1>3, SequenceEmptyOrAppend
<1>7. /\ Len(f) = z - 1 /\ DOMAIN f = 1..z - 1 /\ l = buf[w][z]
      /\ \A i \in 1..z - 1 : f[i] = buf[w][i]
  <2>1. /\ Len(Append(f, l)) = Len(f) + 1 /\ Append(f, l)[Len(f) + 1] = l
        /\ \A i \in 1..Len(f) : Append(f, l)[i] = f[i]
        /\ Len(f) \in Nat /\ DOMAIN f = 1..Len(f)
    BY AppendProperties, LenProperties
  <2>2. z = Len(f) + 1
    BY <1>2, <1>6, <2>1
  <2> QED
    BY <1>6, <2>1, <2>2
<1>8. l = e
  BY <1>4, <1>5, <1>7
<1>9. f \in Seq(N)
  <2>1. \A i \in 1..z - 1 : f[i] \in Piece
    BY <1>7, ElementOfSeq
  <2>2. \A i \in 1..z - 1 : f[i] = PieceOf(w, i)
    BY <1>4, <1>7
  <2>3. \A i \in 1..z - 1 : ~Newline(PieceOf(w, i))
    BY <1>2 DEF Newline, PieceOf
  <2>4. \A i \in 1..z - 1 : f[i] \in N
    BY <2>1, <2>2, <2>3
  <2> HIDE DEF N
  <2> QED
    BY <1>7, <2>4
<1>10. PiecesOf(e) = buf[w]
  <2>1. PiecesOf(e) = [k \in 1..z |-> [e EXCEPT !.k = k]]
    BY <1>5 DEF PiecesOf
  <2>2. \A k \in 1..z : [e EXCEPT !.k = k] = PieceOf(w, k)
    BY DEF PieceOf
  <2>3. buf[w] = [k \in 1..z |-> buf[w][k]]
    BY <1>3
  <2> HIDE DEF e
  <2> QED
    BY <1>4, <2>1, <2>2, <2>3
<1>11. Newline(e)
  BY <1>5 DEF Newline
<1> HIDE DEF e
<1>12. LogOf(file \o Append(f, e)) =
          [lines |-> Append(LogOf(file).lines, <<e.w, e.n>>), open |-> <<>>]
  <2>1. N \subseteq Piece /\ \A p \in N : ~Newline(p)
    OBVIOUS
  <2>2. e \in Piece /\ Append(f, e) = PiecesOf(e)
    BY <1>6, <1>8, <1>10
  <2>3. PICK s \in Seq(Piece) : s = file /\ LogOf(s).open = <<>>
    BY <1>3
  <2> HIDE DEF N
  <2>4. LogOf(s \o Append(f, e)) =
           [lines |-> Append(LogOf(s).lines, <<e.w, e.n>>), open |-> <<>>]
    BY <1>9, <1>11, <2>1, <2>2, <2>3, LogAddsEvent
  <2> QED
    BY <2>3, <2>4
<1>13. buf[w][z] = PieceOf(w, cur[w].size)
  BY <1>2, <1>4, <1>5
<1> QED
  BY <1>3, <1>5, <1>6, <1>8, <1>12, <1>13

(* No line of the event being written is in the file before its newline.   *)
LEMMA LinesAreOlder ==
    ASSUME IInv, Kept, NEW w \in Writers, cur[w] # Nothing,
           NEW j \in DOMAIN buf[w], buf[w][j] = PieceOf(w, cur[w].size),
           NEW k \in DOMAIN LogOf(file).lines, LogOf(file).lines[k][1] = w
    PROVE  LogOf(file).lines[k][2] < count[w]
<1> DEFINE line == LogOf(file).lines[k]
<1>1. count[w] \in Nat /\ count[w] > 0
  BY BusyIsBegun, TraceFileAssumption
<1>2. PICK p \in InFile : Newline(p) /\ (line = <<p.w, p.n>> \/ line = <<p.w, 0>>)
  <2>1. file \in Seq(InFile)
    BY LenProperties DEF IInv, TypeOK, InFile, ToSet
  <2>2. LogOf(file).lines \in Seq(Entries(InFile))
    BY <2>1, LogType DEF LogsOf
  <2>3. line \in Entries(InFile)
    BY <2>2, ElementOfSeq, LenProperties
  <2> HIDE DEF line
  <2> QED
    BY <2>3 DEF Entries
<1> HIDE DEF line
<1>3. CASE line = <<p.w, 0>>
  BY <1>1, <1>3 DEF line
<1>4. CASE line = <<p.w, p.n>>
  <2>1. p.w = w /\ line[2] = p.n
    BY <1>4 DEF line
  <2>2. p.n \in Nat /\ p.k \in Nat
    <3>1. p \in Piece
      BY PiecesOrdered
    <3> QED
      BY <3>1, TraceFileAssumption DEF Piece
  <2>3. p.n < count[w] \/ (p.n = count[w] /\ p.k < cur[w].size)
    <3>1. PICK i \in DOMAIN file : p = file[i]
      BY DEF InFile, ToSet
    <3>2. Before(file[i], buf[w][j])
      BY <2>1, <3>1 DEF IInv, WriterOrder, FileOrder
    <3> QED
      BY <3>1, <3>2 DEF Before, PieceOf
  <2>4. p.n = count[w] => p.k = cur[w].size
    BY <1>2, <2>1 DEF Kept, CurrentKept, Mine, Newline
  <2>5. cur[w].size \in Nat
    BY BusyIsBegun, TraceFileAssumption
  <2> QED
    BY <1>1, <2>1, <2>2, <2>3, <2>4, <2>5 DEF line
<1> QED
  BY <1>2, <1>3, <1>4

(* Until a write fails the file ends with a whole line.                    *)
WholeLines == ~failed => LogOf(file).open = <<>>

LineStep ==
    /\ WholeLines'
    /\ Log!Next \/ UNCHANGED <<LogOf(file).lines, LogOf(file).open # <<>>, failed>>

LEMMA FailedIsLogStep ==
    ASSUME TypeOK, NEW t \in Seq(Piece), file' = file \o t, failed'
    PROVE  LineStep
<1> DEFINE E == Entries(Piece)
<1>1. IsPrefix(LogOf(file).lines, LogOf(file \o t).lines)
  BY LogGrows DEF TypeOK
<1>2. LogOf(file)' = LogOf(file \o t)
  OBVIOUS
<1>3. IsPrefix(LogOf(file).lines, LogOf(file)'.lines)
  BY <1>1, <1>2
<1> QED
  BY <1>3 DEF LineStep, WholeLines, Log!Next, Log!IsPrefix, IsPrefix

LEMMA FlushIsLogStep ==
    ASSUME IInv, Kept, AllTidy, Unspilled, WholeLines, ~failed', failed' = failed,
           NEW w \in Writers, WriteOut(w), Flush(w)
    PROVE  LineStep
<1>1. /\ cur[w] # Nothing /\ up[w] /\ cur[w].next > cur[w].size
      /\ file' = file \o buf[w]
  BY DEF Flush, Busy, Complete, WriteOut
<1>2. Tidy(w) /\ Len(buf[w]) = cur[w].next - 1 /\ LogOf(file).open = <<>>
  BY <1>1 DEF AllTidy, Unspilled, WholeLines
<1>3. /\ LogOf(file \o buf[w]) =
            [lines |-> Append(LogOf(file).lines, <<w, count[w]>>), open |-> <<>>]
      /\ \E j \in DOMAIN buf[w] : buf[w][j] = PieceOf(w, cur[w].size)
  BY <1>1, <1>2, BufferIsEvent
<1>4. \A k \in DOMAIN LogOf(file).lines :
         LogOf(file).lines[k][1] = w => LogOf(file).lines[k][2] < count[w]
  BY <1>1, <1>3, LinesAreOlder
<1>5. LogOf(file)' = [lines |-> Append(LogOf(file).lines, <<w, count[w]>>), open |-> <<>>]
  BY <1>1, <1>3
<1>6. /\ LogOf(file)'.lines = Append(LogOf(file).lines, <<w, count[w]>>)
      /\ LogOf(file)'.open = <<>>
  BY <1>5
<1>7. count[w] \in 1..MaxEvents
  BY <1>1, BusyIsBegun
<1>8. Log!AppendEvent
  <2>1. Log!Adds(LogOf(file)'.lines, LogOf(file).lines)
    BY <1>4, <1>6, <1>7 DEF Log!Adds
  <2> QED
    BY <1>2, <1>6, <2>1 DEF Log!AppendEvent
<1> QED
  BY <1>6, <1>8 DEF LineStep, WholeLines, Log!Next

(* Every step of the writers adds a whole line or none, or a write fails.  *)
LEMMA EveryLineStep ==
    ASSUME \A s \in Sizes : s <= Capacity,
           IInv, Kept, AllTidy, Unspilled, WholeLines, [Next]_fileVars
    PROVE  LineStep
<1>1. ASSUME file' = file, failed' = failed PROVE LineStep
  BY <1>1 DEF LineStep, WholeLines
<1>2. ASSUME NEW w \in Writers, Begin(w) \/ Put(w) \/ Kill(w) PROVE LineStep
  BY <1>1, <1>2 DEF Begin, Put, Kill
<1>3. ASSUME NEW w \in Writers, WriteOutFails(w) PROVE LineStep
  <2>1. PICK j \in 0..Len(buf[w]) - 1 : file' = file \o SubSeq(buf[w], 1, j) /\ failed'
    BY <1>3 DEF WriteOutFails
  <2>2. buf[w] \in Seq(Piece) /\ j \in 0..Len(buf[w])
    BY LenProperties DEF IInv, TypeOK
  <2>3. SubSeq(buf[w], 1, j) \in Seq(Piece)
    BY <2>2, SubSeqPlaces
  <2> QED
    BY <2>1, <2>3, FailedIsLogStep DEF IInv
<1>4. ASSUME NEW w \in Writers, WriteOut(w), Spill(w) \/ Flush(w) \/ Close(w)
      PROVE  LineStep
  <2>1. file' = file \o buf[w] /\ failed' = failed /\ buf[w] \in Seq(Piece)
    BY <1>4 DEF WriteOut, IInv, TypeOK
  <2>2. CASE failed
    BY <2>1, <2>2, FailedIsLogStep DEF IInv
  <2>3. CASE ~failed /\ Spill(w)
    BY <2>3, NeverSpills
  <2>4. CASE ~failed /\ Flush(w)
    BY <1>4, <2>1, <2>4, FlushIsLogStep
  <2>5. CASE ~failed /\ Close(w)
    <3>1. buf[w] = <<>>
      BY <2>5 DEF Close, Idle, AllTidy, Tidy
    <3>2. file \o <<>> = file
      BY ConcatEmptySeq DEF IInv, TypeOK
    <3> QED
      BY <1>1, <2>1, <3>1, <3>2
  <2> QED
    BY <1>4, <2>2, <2>3, <2>4, <2>5
<1>5. ASSUME NEW w \in Writers, Spill(w) \/ Flush(w) \/ Close(w) PROVE LineStep
  <2>1. WriteOut(w) \/ WriteOutFails(w)
    BY <1>5 DEF Spill, Flush, Close
  <2> QED
    BY <1>3, <1>4, <1>5, <2>1
<1>6. CASE UNCHANGED fileVars
  BY <1>1, <1>6 DEF fileVars
<1> QED
  BY <1>2, <1>5, <1>6 DEF Next

(* The trace implements the log of TraceLog, as its readers take it line   *)
(* by line: until a write fails, a whole event at a time joins it, each    *)
(* proxy's in order, no line is torn or mixed, and it ends with a whole    *)
(* line; after that its lines still only grow.  It holds for any number of *)
(* proxies that append at once and are killed, as long as every event fits *)
(* into a buffer.                                                          *)
THEOREM TraceImplementsLog ==
    ASSUME \A s \in Sizes : s <= Capacity
    PROVE  Spec => ImplementsLog
<1>1. Init => Log!Init /\ AllTidy /\ Unspilled /\ WholeLines
  <2>1. LogOf(<<>>).lines = <<>> /\ LogOf(<<>>).open = <<>>
    BY LogEmpty DEF NoLines
  <2> QED
    BY <2>1 DEF Init, Log!Init, AllTidy, Tidy, Unspilled, Blocks, WholeLines
<1>2. IInv /\ IInv' /\ Kept /\ AllTidy /\ Unspilled /\ [Next]_fileVars => Unspilled'
  BY NextUnspilled
<1>3. IInv /\ Kept /\ AllTidy /\ Unspilled /\ WholeLines /\ [Next]_fileVars =>
         /\ WholeLines'
         /\ [Log!Next]_<<LogOf(file).lines, LogOf(file).open # <<>>, failed>>
  BY EveryLineStep DEF LineStep
<1> QED
  BY <1>1, <1>2, <1>3, InitOrdered, NextOrdered, InitKept, NextKeepsAll, NextTidy, PTL
     DEF Spec, ImplementsLog, Log!Spec
=============================================================================
