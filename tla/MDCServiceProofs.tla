--------------------------- MODULE MDCServiceProofs ---------------------------
(***************************************************************************)
(* Proofs about MDCService, for every stream, packet size, read size and    *)
(* array size: the buffer loses and doubles no byte and stays bounded, no   *)
(* whole packet waits, and service implements PacketStream.                 *)
(***************************************************************************)
EXTENDS MDCService, TLAPS

(* getInt of four bytes is an integer. *)
LEMMA Int32Type ==
  ASSUME NEW b0 \in 0..255, NEW b1 \in 0..255, NEW b2 \in 0..255, NEW b3 \in 0..255
  PROVE  Stream!Int32(b0, b1, b2, b3) \in Int
<1>1. b0 \in Int /\ b0 - 256 \in Int /\ b1 \in Int /\ b2 \in Int /\ b3 \in Int
  OBVIOUS
<1>2. CASE b0 >= 128
  BY <1>1, <1>2 DEF Stream!Int32
<1>3. CASE ~(b0 >= 128)
  BY <1>1, <1>3 DEF Stream!Int32
<1> QED BY <1>2, <1>3

(* What the provers need of a sequence. *)
LEMMA ElementsOfSeq ==
  ASSUME NEW S, NEW q \in Seq(S)
  PROVE  Len(q) \in Nat /\ \A j \in 1..Len(q) : q[j] \in S
OBVIOUS

(* The bytes of one read. *)
LEMMA WireBytes ==
  ASSUME NEW k \in Nat \ {0}, wire \in Seq(0..255), at \in Nat, at + k <= Len(wire)
  PROVE  [i \in 1..k |-> wire[at + i]] \in [1..k -> 0..255]
<1>1. \A j \in 1..Len(wire) : wire[j] \in 0..255
  BY ElementsOfSeq
<1>2. Len(wire) \in Nat
  BY ElementsOfSeq
<1>3. ASSUME NEW i \in 1..k PROVE wire[at + i] \in 0..255
  <2>1. at + i \in 1..Len(wire)
    BY <1>2
  <2> QED BY <1>1, <2>1
<1> QED BY <1>3

(* Bytes of an array. *)
LEMMA ByteAt ==
  ASSUME NEW c \in Int, NEW f \in [0..(c - 1) -> 0..255], NEW i \in 0..(c - 1)
  PROVE  f[i] \in 0..255
OBVIOUS

(* The loop goes on in a closed session only when it has no connection      *)
(* object: it hands nothing over any more.                                  *)
ClosedLoop == pc = "loop" /\ ~open => ~conn

(* The inductive invariant.  Unread says what the header of the next packet *)
(* is; BoundedBuffer needs the length that Incomplete has left.             *)
IInv == TypeOK /\ Unread /\ Drained /\ BoundedBuffer /\ ClosedLoop

(* What append does to the unread bytes, and to those it is given. *)
Kept == \A i \in 0..(Length - 1) : buf'[s' + i] = buf[s + i]
Written(b, k) == \A i \in 1..k : buf'[s' + Length + i - 1] = b[i]

(* The bytes that append writes are in place, and the unread ones before    *)
(* them are as they were.                                                   *)
LEMMA AppendKeeps ==
  ASSUME TypeOK, NEW k \in Nat \ {0}, NEW b \in [1..k -> 0..255], AppendBytes(b, k)
  PROVE  /\ cap' \in Nat \ {0} /\ buf' \in [0..(cap' - 1) -> 0..255]
         /\ s' \in 0..e' /\ e' \in 0..cap' /\ mark' = -1
         /\ e' - s' = Length + k
         /\ Kept /\ Written(b, k)
         /\ cap' = cap \/ (cap < Length + k /\ cap' = cap + k + Extra)
<1> USE DEF Length, Stream!Byte, Kept, Written
<1>1. cap \in Nat /\ cap > 0 /\ s \in Int /\ e \in Int /\ 0 <= s /\ s <= e /\ e <= cap /\ buf \in [0..(cap - 1) -> 0..255]
  BY DEF TypeOK
<1>2. CASE Room(k)
  <2>1. buf' = Behind(b, k) /\ e' = e + k /\ cap' = cap /\ s' = s /\ mark' = -1
    BY <1>2 DEF AppendBytes
  <2>2. e + k <= cap
    BY <1>1, <1>2 DEF Room
  <2>3. \A i \in 0..(cap - 1) : Behind(b, k)[i] = IF i \in e..(e + k - 1) THEN b[i - e + 1] ELSE buf[i]
    BY DEF Behind
  <2>4. Behind(b, k) \in [0..(cap - 1) -> 0..255]
    BY <1>1 DEF Behind
  <2>5. \A i \in 0..(e - s - 1) : buf'[s' + i] = buf[s + i]
    BY <1>1, <2>1, <2>2, <2>3
  <2>6. \A i \in 1..k : buf'[s' + (e - s) + i - 1] = b[i]
    BY <1>1, <2>1, <2>2, <2>3
  <2> QED BY <1>1, <2>1, <2>2, <2>4, <2>5, <2>6
<1>3. CASE ~Room(k)
  <2> DEFINE size == IF Compact(k) THEN cap ELSE cap + k + Extra
  <2>1. buf' = Moved(b, k, cap') /\ cap' = size /\ e' = e - s + k /\ s' = 0 /\ mark' = -1
    BY <1>3 DEF AppendBytes
  <2>2. size \in Nat \ {0} /\ e - s + k <= size /\ cap <= size
    BY BufferAssumption, <1>1 DEF Compact
  <2>3. size = cap \/ (cap < e - s + k /\ size = cap + k + Extra)
    BY <1>1 DEF Compact
  <2> HIDE DEF size
  <2>4. \A i \in 0..(size - 1) : Moved(b, k, size)[i] =
          IF i < e - s THEN buf[s + i] ELSE IF i < e - s + k THEN b[i - (e - s) + 1] ELSE IF size = cap THEN buf[i] ELSE 0
    BY DEF Moved
  <2>5. \A i \in 0..(size - 1) :
          (IF i < e - s THEN buf[s + i] ELSE IF i < e - s + k THEN b[i - (e - s) + 1] ELSE IF size = cap THEN buf[i] ELSE 0) \in 0..255
    <3> SUFFICES ASSUME NEW i \in 0..(size - 1)
        PROVE (IF i < e - s THEN buf[s + i] ELSE IF i < e - s + k THEN b[i - (e - s) + 1] ELSE IF size = cap THEN buf[i] ELSE 0) \in 0..255
      OBVIOUS
    <3>1. CASE i < e - s
      BY <1>1, <2>2, <3>1
    <3>2. CASE ~(i < e - s) /\ i < e - s + k
      BY <1>1, <2>2, <3>2
    <3>3. CASE ~(i < e - s) /\ ~(i < e - s + k)
      BY <1>1, <2>2, <3>3
    <3> QED BY <3>1, <3>2, <3>3
  <2>6. Moved(b, k, size) \in [0..(size - 1) -> 0..255]
    BY <2>5 DEF Moved
  <2>7. \A i \in 0..(e - s - 1) : buf'[s' + i] = buf[s + i]
    BY <1>1, <2>1, <2>2, <2>4
  <2>8. \A i \in 1..k : buf'[s' + (e - s) + i - 1] = b[i]
    BY <1>1, <2>1, <2>2, <2>4
  <2> QED BY <1>1, <2>1, <2>2, <2>3, <2>6, <2>7, <2>8
<1> QED BY <1>2, <1>3

(* The header in the buffer is the header of the next packet in the stream. *)
LEMMA HeaderOfStream ==
  ASSUME TypeOK, Unread, open, Length > 5
  PROVE  /\ at - Length + 5 < at /\ at - Length \in Nat
         /\ HeadByte = wire[at - Length + 1]
         /\ Size = Stream!LengthAt(at - Length)
         /\ HeadByte \in 0..255 /\ Size \in Int
<1>1. cap \in Nat /\ s \in Int /\ e \in Int /\ 0 <= s /\ s <= e /\ e <= cap /\ buf \in [0..(cap - 1) -> 0..255]
      /\ at \in Nat
  BY DEF TypeOK, Stream!Byte
<1>2. Length \in Int /\ Length = e - s /\ Length > 5 /\ Length <= at
  BY <1>1 DEF Length, Unread
<1>3. \A i \in 0..(Length - 1) : buf[s + i] = wire[at - Length + i + 1]
  BY DEF Unread
<1>4. \A i \in 0..4 : buf[s + i] \in 0..255 /\ buf[s + i] = wire[at - Length + i + 1]
  <2>1. \A i \in 0..4 : i \in 0..(Length - 1) /\ s + i \in 0..(cap - 1)
    BY <1>1, <1>2
  <2> QED BY <1>1, <1>3, <2>1
<1>5. buf[s] = buf[s + 0] /\ wire[at - Length + 1] = wire[at - Length + 0 + 1]
  BY <1>1, <1>2
<1>6. /\ buf[s + 1] = wire[at - Length + 2] /\ buf[s + 2] = wire[at - Length + 3]
      /\ buf[s + 3] = wire[at - Length + 4] /\ buf[s + 4] = wire[at - Length + 5]
  BY <1>1, <1>2, <1>4
<1>7. buf[s] \in 0..255 /\ buf[s + 1] \in 0..255 /\ buf[s + 2] \in 0..255 /\ buf[s + 3] \in 0..255 /\ buf[s + 4] \in 0..255
  BY <1>4, <1>5
<1>8. Size = Stream!LengthAt(at - Length)
  BY <1>6 DEF Size, Stream!LengthAt
<1>9. Size \in Int
  BY <1>7, Int32Type DEF Size
<1> QED BY <1>1, <1>2, <1>4, <1>5, <1>7, <1>8, <1>9 DEF HeadByte

(* The empty buffer. *)
LEMMA InitInv == Init => IInv
<1> SUFFICES ASSUME Init PROVE IInv
  OBVIOUS
<1>1. TypeOK
  BY StreamsAssumption, BufferAssumption DEF Init, TypeOK, Stream!Byte
<1>2. s = 0 /\ e = 0 /\ at = 0 /\ Length = 0 /\ cap = InitialSize /\ pc = "idle"
  BY DEF Init, Length
<1>3. Unread
  BY <1>2 DEF Unread
<1>4. Drained
  BY <1>2 DEF Drained, Front, Stream!Complete, Stream!Malformed, Stream!HasHeader
<1>5. BoundedBuffer
  BY BufferAssumption, SizesAssumption, <1>2 DEF BoundedBuffer, Max2
<1>6. ClosedLoop
  BY <1>2 DEF ClosedLoop
<1> QED BY <1>1, <1>3, <1>4, <1>5, <1>6 DEF IInv

(* A packet handed over: what is unread moves on, the rest stays.           *)
LEMMA ReadKeeps ==
  ASSUME TypeOK, Unread, NEW n \in Nat, n <= Length, Read(n), UNCHANGED <<wire, at>>, open
  PROVE  /\ s' \in 0..e' /\ e' \in 0..cap' /\ mark' \in -1..s' /\ cap' = cap /\ buf' = buf
         /\ Length' = Length - n
         /\ Unread'
<1>1. cap \in Nat /\ s \in Int /\ e \in Int /\ 0 <= s /\ s <= e /\ e <= cap /\ at \in Nat /\ Length = e - s
  BY DEF TypeOK, Length
<1>2. s' = s + n /\ mark' = s /\ buf' = buf /\ cap' = cap /\ e' = e /\ wire' = wire /\ at' = at
  BY DEF Read
<1>3. Length' = Length - n
  BY <1>1, <1>2 DEF Length
<1>4. Length <= at /\ \A i \in 0..(Length - 1) : buf[s + i] = wire[at - Length + i + 1]
  BY DEF Unread
<1>5. ASSUME NEW i \in 0..(Length' - 1) PROVE buf'[s' + i] = wire'[at' - Length' + i + 1]
  <2>1. n + i \in 0..(Length - 1)
    BY <1>1, <1>3
  <2>2. buf[s + (n + i)] = wire[at - Length + (n + i) + 1]
    BY <1>4, <2>1
  <2>3. s' + i = s + (n + i) /\ at' - Length' + i + 1 = at - Length + (n + i) + 1
    BY <1>1, <1>2, <1>3
  <2> QED BY <1>2, <2>2, <2>3
<1>6. Unread'
  BY <1>1, <1>2, <1>3, <1>4, <1>5 DEF Unread
<1> QED BY <1>1, <1>2, <1>3, <1>6

(* Steps that read n bytes of the buffer keep its indices in range.         *)
LEMMA ReadType ==
  ASSUME TypeOK, NEW n \in Nat, n <= Length, Read(n)
  PROVE  s' \in 0..e' /\ e' \in 0..cap' /\ mark' \in -1..s' /\ cap' = cap /\ buf' = buf
BY DEF TypeOK, Length, Read

(* The lengths that the passes of the loop read are there. *)
LEMMA Readable ==
  ASSUME TypeOK, Length > 5
  PROVE  /\ HeadByte \in 0..255 /\ Size \in Int /\ Length \in Nat
         /\ WellFormed => Size \in Nat \ {0} /\ Size <= MaxSize
<1>1. cap \in Nat /\ s \in Int /\ e \in Int /\ 0 <= s /\ s <= e /\ e <= cap /\ buf \in [0..(cap - 1) -> 0..255]
  BY DEF TypeOK, Stream!Byte
<1>2. e - s > 5
  BY DEF Length
<1>3. buf[s] \in 0..255 /\ buf[s + 1] \in 0..255 /\ buf[s + 2] \in 0..255 /\ buf[s + 3] \in 0..255 /\ buf[s + 4] \in 0..255
  <2>1. /\ s \in 0..(cap - 1) /\ s + 1 \in 0..(cap - 1) /\ s + 2 \in 0..(cap - 1)
        /\ s + 3 \in 0..(cap - 1) /\ s + 4 \in 0..(cap - 1) /\ cap \in Int
    BY <1>1, <1>2
  <2>2. \A i \in 0..(cap - 1) : buf[i] \in 0..255
    BY <1>1, <2>1, ByteAt
  <2> QED BY <2>1, <2>2
<1>4. Size \in Int
  BY <1>3, Int32Type DEF Size
<1>5. WellFormed => Size \in Nat \ {0} /\ Size <= MaxSize
  BY <1>4 DEF WellFormed, Stream!LengthOK
<1> QED BY <1>1, <1>2, <1>3, <1>4, <1>5 DEF HeadByte, Length

(* The indices stay in the array, and what is handed over are bytes. *)
LEMMA NextType == IInv /\ [Next]_vars => TypeOK'
<1> SUFFICES ASSUME IInv, [Next]_vars PROVE TypeOK'
  OBVIOUS
<1>0. TypeOK /\ Unread /\ BoundedBuffer
  BY DEF IInv
<1>1. ASSUME NEW k \in 1..MaxChunk, Receive(k) PROVE TypeOK'
  <2> DEFINE b == [i \in 1..k |-> wire[at + i]]
  <2>1. AppendBytes(b, k) /\ at' = at + k /\ at + k <= Len(wire) /\ pc' = "loop" /\ UNCHANGED <<wire, delivered, conn, open>>
    BY <1>1 DEF Receive
  <2>2. wire \in Seq(0..255) /\ at \in Nat /\ k \in Nat \ {0}
    BY StreamsAssumption, SizesAssumption, <1>0 DEF TypeOK
  <2>3. b \in [1..k -> 0..255]
    BY <2>1, <2>2, WireBytes
  <2> HIDE DEF b
  <2>4. cap' \in Nat \ {0} /\ buf' \in [0..(cap' - 1) -> 0..255] /\ s' \in 0..e' /\ e' \in 0..cap' /\ mark' = -1
    BY <1>0, <2>1, <2>2, <2>3, AppendKeeps
  <2>5. mark' \in -1..s' /\ at' \in 0..Len(wire')
    BY <2>1, <2>2, <2>4
  <2> QED BY <1>0, <2>1, <2>4, <2>5 DEF TypeOK, Stream!Byte
<1>2. CASE LoopEnds
  BY <1>0, <1>2 DEF TypeOK, LoopEnds, buffer
<1>3. CASE WrongHead
  <2>1. Read(1) /\ Length > 5 /\ open' = FALSE /\ pc' = "idle" /\ UNCHANGED <<wire, at, delivered, conn>>
    BY <1>3 DEF WrongHead, Looping
  <2>2. s' \in 0..e' /\ e' \in 0..cap' /\ mark' \in -1..s' /\ cap' = cap /\ buf' = buf
    BY <1>0, <2>1, ReadType, Readable
  <2> QED BY <1>0, <2>1, <2>2 DEF TypeOK
<1>4. CASE WrongSize
  <2>1. Read(5) /\ Length > 5 /\ open' = FALSE /\ pc' = "idle" /\ UNCHANGED <<wire, at, delivered, conn>>
    BY <1>4 DEF WrongSize, Looping
  <2>2. s' \in 0..e' /\ e' \in 0..cap' /\ mark' \in -1..s' /\ cap' = cap /\ buf' = buf
    BY <1>0, <2>1, ReadType, Readable
  <2> QED BY <1>0, <2>1, <2>2 DEF TypeOK
<1>5. CASE Incomplete
  <2>1. Read(0) /\ Length > 5 /\ pc' = "idle" /\ UNCHANGED <<wire, at, delivered, conn, open>>
    BY <1>5 DEF Incomplete, Looping
  <2>2. s' \in 0..e' /\ e' \in 0..cap' /\ mark' \in -1..s' /\ cap' = cap /\ buf' = buf
    BY <1>0, <2>1, ReadType, Readable
  <2> QED BY <1>0, <2>1, <2>2 DEF TypeOK
<1>6. ASSUME Whole, Read(5 + Size) PROVE s' \in 0..e' /\ e' \in 0..cap' /\ mark' \in -1..s' /\ cap' = cap /\ buf' = buf
  <2>1. Length > 5 /\ WellFormed /\ Size <= Length - 5
    BY <1>6 DEF Whole, Looping
  <2>2. 5 + Size \in Nat /\ 5 + Size <= Length
    BY <1>0, <2>1, Readable
  <2> QED BY <1>0, <1>6, <2>2, ReadType
<1>7. CASE HandOver
  <2>1. Whole /\ Read(5 + Size) /\ UNCHANGED <<wire, at, conn, open, pc>>
        /\ delivered' = Append(delivered, [head |-> HeadByte, data |-> [i \in 1..Size |-> buf[s + 4 + i]]])
    BY <1>7 DEF HandOver
  <2>2. Length > 5 /\ WellFormed /\ Size <= Length - 5
    BY <2>1 DEF Whole, Looping
  <2>3. Size \in Nat /\ HeadByte \in 0..255
    BY <1>0, <2>2, Readable
  <2>4. \A i \in 1..Size : buf[s + 4 + i] \in 0..255
    BY <1>0, <2>2, <2>3 DEF TypeOK, Length, Stream!Byte
  <2>5. [i \in 1..Size |-> buf[s + 4 + i]] \in Seq(0..255)
    BY <2>3, <2>4
  <2>6. delivered' \in Seq([head : 0..255, data : Seq(0..255)])
    BY <1>0, <2>1, <2>3, <2>5 DEF TypeOK, Stream!Byte
  <2> QED BY <1>0, <1>6, <2>1, <2>6 DEF TypeOK, Stream!Byte
<1>8. CASE Undecodable
  BY <1>0, <1>6, <1>8 DEF Undecodable, TypeOK
<1>9. CASE Ownerless
  BY <1>0, <1>6, <1>9 DEF Ownerless, TypeOK
<1>9a. CASE Spins
  BY <1>0, <1>6, <1>9a DEF Spins, TypeOK
<1>10. CASE Detach
  BY <1>0, <1>10 DEF Detach, TypeOK, buffer
<1>11. CASE SessionEnds
  BY <1>0, <1>11 DEF SessionEnds, TypeOK, buffer
<1>12. CASE UNCHANGED vars
  BY <1>0, <1>12 DEF TypeOK, vars, buffer
<1> QED BY <1>1, <1>2, <1>3, <1>4, <1>5, <1>7, <1>8, <1>9, <1>9a, <1>10, <1>11, <1>12 DEF Next, Loop

(* Receive appends what it takes from the wire; reads only move s. *)
LEMMA NextUnread == IInv /\ [Next]_vars => Unread'
<1> SUFFICES ASSUME IInv, [Next]_vars PROVE Unread'
  OBVIOUS
<1>0. TypeOK /\ Unread
  BY DEF IInv
<1>1. ASSUME NEW k \in 1..MaxChunk, Receive(k) PROVE Unread'
  <2> DEFINE b == [i \in 1..k |-> wire[at + i]]
  <2>1. AppendBytes(b, k) /\ open /\ at' = at + k /\ at + k <= Len(wire) /\ wire' = wire
    BY <1>1 DEF Receive
  <2>2. wire \in Seq(0..255) /\ at \in Nat /\ k \in Nat \ {0}
    BY StreamsAssumption, SizesAssumption, <1>0 DEF TypeOK
  <2>3. b \in [1..k -> 0..255] /\ \A i \in 1..k : b[i] = wire[at + i]
    BY <2>1, <2>2, WireBytes
  <2> HIDE DEF b
  <2>4. /\ e' - s' = Length + k
        /\ \A i \in 0..(Length - 1) : buf'[s' + i] = buf[s + i]
        /\ \A i \in 1..k : buf'[s' + Length + i - 1] = b[i]
        /\ s' \in Int /\ e' \in Int
    <3>0. k \in Nat \ {0} /\ b \in [1..k -> 0..255] /\ TypeOK /\ AppendBytes(b, k)
      BY <1>0, <2>1, <2>2, <2>3
    <3>1. /\ s' \in 0..e' /\ e' \in 0..cap' /\ cap' \in Nat \ {0}
          /\ e' - s' = Length + k
          /\ Kept /\ Written(b, k)
      BY <3>0, AppendKeeps
    <3>2. s' \in Int /\ e' \in Int
      BY <3>1
    <3> QED BY <3>1, <3>2 DEF Kept, Written
  <2>5. Length \in Nat /\ Length <= at /\ \A i \in 0..(Length - 1) : buf[s + i] = wire[at - Length + i + 1]
    BY <1>0, <2>1 DEF TypeOK, Unread, Length
  <2>6. Length' = Length + k
    BY <2>4 DEF Length
  <2>7. ASSUME NEW i \in 0..(Length + k - 1) PROVE buf'[s' + i] = wire[at + k - (Length + k) + i + 1]
    <3>1. CASE i < Length
      <4>1. i \in 0..(Length - 1)
        BY <2>5, <3>1
      <4>2. buf'[s' + i] = wire[at - Length + i + 1]
        BY <2>4, <2>5, <4>1
      <4>3. at - Length + i + 1 = at + k - (Length + k) + i + 1
        BY <2>2, <2>5
      <4> QED BY <4>2, <4>3
    <3>2. CASE i >= Length
      <4>1. i - Length + 1 \in 1..k
        BY <2>2, <2>5, <3>2
      <4>2. buf'[s' + Length + (i - Length + 1) - 1] = wire[at + (i - Length + 1)]
        BY <2>3, <2>4, <4>1
      <4> HIDE DEF Length
      <4>3. s' + Length + (i - Length + 1) - 1 = s' + i /\ at + (i - Length + 1) = at + k - (Length + k) + i + 1
        BY <2>2, <2>4, <2>5
      <4> QED BY <4>2, <4>3
    <3> QED BY <2>5, <3>1, <3>2
  <2>8. Length' <= at'
    BY <2>1, <2>2, <2>5, <2>6
  <2> DEFINE len == Length + k
  <2>9. \A i \in 0..(len - 1) : buf'[s' + i] = wire'[at' - len + i + 1]
    BY <2>1, <2>2, <2>5, <2>7
  <2>10. Length' = len
    BY <2>6
  <2> HIDE DEF len
  <2> QED BY <2>8, <2>9, <2>10 DEF Unread
<1>2. ASSUME NEW n \in Nat, n <= Length, Read(n), UNCHANGED <<wire, at, open>> PROVE Unread'
  <2>1. CASE open
    BY <1>0, <1>2, <2>1, ReadKeeps
  <2>2. CASE ~open
    BY <1>2, <2>2 DEF Unread
  <2> QED BY <2>1, <2>2
<1>3. CASE UNCHANGED <<wire, at, open, buffer>>
  BY <1>0, <1>3 DEF Unread, Length, buffer
<1>4. CASE open' = FALSE
  BY <1>4 DEF Unread
<1>5. CASE LoopEnds \/ Detach \/ UNCHANGED vars
  BY <1>3, <1>5 DEF LoopEnds, Detach, vars
<1>6. CASE WrongHead \/ WrongSize \/ Undecodable \/ Ownerless \/ SessionEnds
  BY <1>4, <1>6 DEF WrongHead, WrongSize, Undecodable, Ownerless, SessionEnds
<1>7. CASE Incomplete
  <2>1. Read(0) /\ UNCHANGED <<wire, at, open>> /\ Length > 5
    BY <1>7 DEF Incomplete, Looping
  <2>2. 0 <= Length
    BY <1>0, <2>1, Readable
  <2> QED BY <1>2, <2>1, <2>2
<1>8. CASE HandOver \/ Spins
  <2>1. Read(5 + Size) /\ UNCHANGED <<wire, at, open>> /\ Length > 5 /\ WellFormed /\ Size <= Length - 5
    BY <1>8 DEF HandOver, Spins, Whole, Looping
  <2>2. 5 + Size \in Nat /\ 5 + Size <= Length
    BY <1>0, <2>1, Readable
  <2> QED BY <1>2, <2>1, <2>2
<1> QED BY <1>1, <1>5, <1>6, <1>7, <1>8 DEF Next, Loop

(* The loop is left open only where no packet is whole. *)
LEMMA NextDrained == IInv /\ [Next]_vars => Drained'
<1> SUFFICES ASSUME IInv, [Next]_vars PROVE Drained'
  OBVIOUS
<1>0. TypeOK /\ Unread /\ Drained /\ at \in Nat
  BY DEF IInv, TypeOK
<1>1. CASE (\E k \in 1..MaxChunk : Receive(k)) \/ HandOver \/ Spins
  BY <1>1 DEF Receive, HandOver, Spins, Whole, Looping, Drained
<1>2. CASE WrongHead \/ WrongSize \/ Undecodable \/ Ownerless \/ SessionEnds
  BY <1>2 DEF WrongHead, WrongSize, Undecodable, Ownerless, SessionEnds, Drained
<1>3. CASE UNCHANGED <<wire, at, open, buffer, pc>>
  BY <1>0, <1>3 DEF Drained, Length, Front, buffer, Stream!Complete, Stream!Malformed, Stream!HasHeader, Stream!LengthAt
<1>4. CASE Detach \/ SessionEnds \/ UNCHANGED vars
  BY <1>2, <1>3, <1>4 DEF Detach, vars
<1>5. CASE LoopEnds
  <2>1. Length <= 5 /\ UNCHANGED <<at, open, s, e>> /\ Front' = s'
    BY <1>5 DEF LoopEnds, buffer, Front
  <2>2. s \in Int /\ e \in Int
    BY <1>0 DEF TypeOK
  <2>3. open => ~(at - (e - s) + 5 < at)
    BY <1>0, <2>1, <2>2 DEF Length
  <2> QED BY <2>1, <2>3 DEF Drained, Stream!Complete, Stream!Malformed, Stream!HasHeader
<1>6. CASE Incomplete
  <2>1. Length > 5 /\ WellFormed /\ Length - 5 < Size /\ Read(0) /\ UNCHANGED <<wire, at, open>>
        /\ Front = s /\ Front' = s'
    BY <1>6 DEF Incomplete, Looping, Front
  <2>2. s \in Int /\ e \in Int /\ Length = e - s /\ Length \in Nat
    BY <1>0 DEF TypeOK, Length
  <2>3. s' = s /\ e' = e
    BY <2>1, <2>2 DEF Read
  <2>4. open => /\ HeadByte = wire[at - Length + 1] /\ Size = Stream!LengthAt(at - Length) /\ Size \in Int
    BY <1>0, <2>1, HeaderOfStream
  <2>5. open => Stream!HeadOK(wire[at - Length + 1]) /\ Stream!LengthOK(Stream!LengthAt(at - Length))
    BY <2>1, <2>4 DEF WellFormed
  <2>6. open => ~(at - Length + 5 + Stream!LengthAt(at - Length) <= at)
    BY <1>0, <2>1, <2>2, <2>4
  <2>7. open => ~Stream!Complete /\ ~Stream!Malformed
    BY <2>1, <2>2, <2>5, <2>6 DEF Stream!Complete, Stream!Malformed
  <2>8. UNCHANGED <<wire, at, open, Front, e>>
    BY <2>1, <2>3
  <2> QED BY <2>7, <2>8 DEF Drained, Stream!Complete, Stream!Malformed, Stream!HasHeader, Stream!LengthAt
<1> QED BY <1>1, <1>2, <1>4, <1>5, <1>6 DEF Next, Loop

(* append grows the array only when the unread bytes and the new ones do    *)
(* not fit, and Incomplete leaves less than a packet unread.                *)
LEMMA NextBounded == IInv /\ [Next]_vars => BoundedBuffer'
<1> SUFFICES ASSUME IInv, [Next]_vars PROVE BoundedBuffer'
  OBVIOUS
<1>0. TypeOK /\ BoundedBuffer /\ s \in Int /\ e \in Int /\ cap \in Nat /\ Length = e - s /\ Length \in Nat
  BY DEF IInv, TypeOK, Length
<1>1. ASSUME NEW k \in 1..MaxChunk, Receive(k) PROVE BoundedBuffer'
  <2> DEFINE b == [i \in 1..k |-> wire[at + i]]
  <2>1. AppendBytes(b, k) /\ open /\ pc = "idle" /\ pc' = "loop" /\ at + k <= Len(wire)
    BY <1>1 DEF Receive
  <2>2. wire \in Seq(0..255) /\ at \in Nat /\ k \in Nat \ {0}
    BY StreamsAssumption, SizesAssumption, <1>0 DEF TypeOK
  <2>3. b \in [1..k -> 0..255]
    BY <2>1, <2>2, WireBytes
  <2> HIDE DEF b
  <2>4. cap' = cap \/ (cap < Length + k /\ cap' = cap + k + Extra)
    BY <1>0, <2>1, <2>2, <2>3, AppendKeeps
  <2>5. Length < MaxSize + 5 /\ cap <= Max2(InitialSize, MaxSize + 3 + 2 * MaxChunk + Extra)
    BY <1>0, <2>1 DEF BoundedBuffer
  <2>6. cap' <= Max2(InitialSize, MaxSize + 3 + 2 * MaxChunk + Extra)
    BY BufferAssumption, SizesAssumption, <1>0, <2>2, <2>4, <2>5 DEF Max2
  <2> QED BY <2>1, <2>6 DEF BoundedBuffer
<1>2. CASE open' = FALSE
  BY <1>2 DEF BoundedBuffer
<1>3. CASE UNCHANGED <<open, pc, buffer>>
  BY <1>0, <1>3 DEF BoundedBuffer, Length, buffer
<1>4. CASE LoopEnds
  <2>1. Length <= 5 /\ UNCHANGED <<open, s, e, cap>>
    BY <1>4 DEF LoopEnds, buffer
  <2> QED BY SizesAssumption, <1>0, <2>1 DEF BoundedBuffer, Length
<1>5. CASE Incomplete
  <2>1. Length > 5 /\ WellFormed /\ Length - 5 < Size /\ Read(0) /\ UNCHANGED open
    BY <1>5 DEF Incomplete, Looping
  <2>2. Size \in Nat /\ Size <= MaxSize
    BY <1>0, <2>1, Readable
  <2>3. s' = s /\ e' = e /\ cap' = cap
    BY <1>0, <2>1 DEF Read
  <2>4. Length < MaxSize + 5
    BY SizesAssumption, <1>0, <2>1, <2>2
  <2>5. Length' = Length
    BY <2>3 DEF Length
  <2> QED BY <1>0, <2>1, <2>3, <2>4, <2>5 DEF BoundedBuffer
<1>6. CASE HandOver \/ Spins
  <2>1. pc' # "idle" /\ open' = open /\ cap' = cap
    BY <1>6 DEF HandOver, Spins, Whole, Looping, Read
  <2> QED BY <1>0, <2>1 DEF BoundedBuffer
<1>7. CASE WrongHead \/ WrongSize \/ Undecodable \/ Ownerless \/ SessionEnds
  BY <1>2, <1>7 DEF WrongHead, WrongSize, Undecodable, Ownerless, SessionEnds
<1>8. CASE Detach \/ UNCHANGED vars
  BY <1>3, <1>8 DEF Detach, vars
<1> QED BY <1>1, <1>4, <1>5, <1>6, <1>7, <1>8 DEF Next, Loop

(* Only Ownerless leaves the loop running in a closed session. *)
LEMMA NextClosed == IInv /\ [Next]_vars => ClosedLoop'
<1> SUFFICES ASSUME IInv, [Next]_vars PROVE ClosedLoop'
  OBVIOUS
<1>0. ClosedLoop /\ conn \in BOOLEAN /\ open \in BOOLEAN
  BY DEF IInv, TypeOK
<1>1. CASE (\E k \in 1..MaxChunk : Receive(k)) \/ HandOver \/ Detach \/ UNCHANGED vars
  BY <1>0, <1>1 DEF Receive, HandOver, Detach, vars, ClosedLoop
<1>2. CASE LoopEnds \/ WrongHead \/ WrongSize \/ Incomplete \/ Undecodable \/ Spins \/ SessionEnds
  BY <1>2 DEF LoopEnds, WrongHead, WrongSize, Incomplete, Undecodable, Spins, SessionEnds, ClosedLoop
<1>3. CASE Ownerless
  BY <1>3 DEF Ownerless, ClosedLoop
<1> QED BY <1>1, <1>2, <1>3 DEF Next, Loop

(* The buffer and the loop keep their invariant on every stream. *)
THEOREM Invariance == Spec => []IInv
<1>1. Init => IInv
  BY InitInv
<1>2. IInv /\ [Next]_vars => IInv'
  BY NextType, NextUnread, NextDrained, NextBounded, NextClosed DEF IInv
<1> QED BY <1>1, <1>2, PTL DEF Spec

(* The buffer and the loop keep their types on every stream. *)
THEOREM TypeCorrect == Spec => []TypeOK
BY Invariance, PTL DEF IInv

(* append and the reads lose no byte that has arrived and double none.      *)
THEOREM NoByteLost == Spec => []Unread
BY Invariance, PTL DEF IInv

(* However the stream is cut into reads, no whole packet waits in the       *)
(* buffer for the next one.                                                 *)
THEOREM NothingWaits == Spec => []Drained
BY Invariance, PTL DEF IInv

(* The array of a session stays within one packet, two reads and the extra. *)
THEOREM MemoryBounded == Spec => []BoundedBuffer
BY Invariance, PTL DEF IInv

(* A pass of the loop that has a whole packet finds the next of the stream. *)
LEMMA WholeIsNext ==
  ASSUME IInv, Whole, open
  PROVE  /\ Stream!Complete
         /\ HeadByte = wire[at - Length + 1] /\ Size = Stream!LengthAt(at - Length)
         /\ Size \in Nat /\ 5 + Size <= Length
         /\ \A i \in 1..Size : buf[s + 4 + i] = wire[at - Length + 5 + i]
<1>1. TypeOK /\ Unread /\ Length > 5 /\ WellFormed /\ Size <= Length - 5
  BY DEF IInv, Whole, Looping
<1>2. s \in Int /\ e \in Int /\ at \in Nat /\ Length = e - s /\ Length \in Nat
  BY <1>1 DEF TypeOK, Length
<1>3. /\ at - Length + 5 < at /\ HeadByte = wire[at - Length + 1]
      /\ Size = Stream!LengthAt(at - Length) /\ Size \in Int
  BY <1>1, HeaderOfStream
<1>4. Size \in Nat
  BY <1>1, Readable
<1>5. Stream!HeadOK(wire[at - Length + 1]) /\ Stream!LengthOK(Stream!LengthAt(at - Length))
  BY <1>1, <1>3 DEF WellFormed
<1>6. at - Length + 5 + Stream!LengthAt(at - Length) <= at
  BY <1>1, <1>2, <1>3
<1>7. Stream!Complete
  <2>1. Front = s
    BY DEF Whole, Looping, Front
  <2> QED BY <2>1, <1>2, <1>3, <1>5, <1>6 DEF Stream!Complete, Stream!HasHeader
<1>8. ASSUME NEW i \in 1..Size PROVE buf[s + 4 + i] = wire[at - Length + 5 + i]
  <2>1. 4 + i \in 0..(Length - 1)
    BY <1>1, <1>2, <1>4
  <2>2. buf[s + (4 + i)] = wire[at - Length + (4 + i) + 1]
    BY <1>1, <2>1 DEF Unread
  <2>3. s + (4 + i) = s + 4 + i /\ at - Length + (4 + i) + 1 = at - Length + 5 + i
    BY <1>2, <1>4
  <2> QED BY <2>2, <2>3
<1> QED BY <1>1, <1>2, <1>3, <1>4, <1>7, <1>8

(* The steps, one by one. *)
LEMMA Unfolded == [Next]_vars =>
  \/ \E k \in 1..MaxChunk : Receive(k)
  \/ LoopEnds \/ WrongHead \/ WrongSize \/ Incomplete \/ HandOver \/ Undecodable \/ Spins \/ Ownerless
  \/ Detach \/ SessionEnds \/ UNCHANGED vars
BY DEF Next, Loop

(* Reads of the wire arrive, HandOver delivers the next packet of the       *)
(* stream, the ends of a session are ends, and the rest is not seen.        *)
LEMMA StepRefines == IInv /\ [Next]_vars => [Stream!Next]_(Stream!vars)
<1> SUFFICES ASSUME IInv, [Next]_vars PROVE [Stream!Next]_(Stream!vars)
  OBVIOUS
<1> DEFINE done  == IF open THEN at - (e - Front) ELSE 0
           stuck == open /\ pc = "unzip"
           seen  == <<wire, at, done, delivered, conn, open, stuck>>
<1>0. TypeOK /\ Unread /\ s \in Int /\ e \in Int /\ at \in Nat /\ Length = e - s /\ Length \in Nat /\ open \in BOOLEAN
  BY DEF IInv, TypeOK, Length
<1>1. ASSUME NEW k \in 1..MaxChunk, Receive(k) PROVE Stream!Arrive
  <2> DEFINE b == [i \in 1..k |-> wire[at + i]]
  <2>1. AppendBytes(b, k) /\ open /\ at' = at + k /\ at + k <= Len(wire) /\ UNCHANGED <<wire, delivered, conn, open>>
        /\ ~stuck /\ ~stuck' /\ Front = s /\ Front' = s'
    BY <1>1 DEF Receive, Front
  <2>2. wire \in Seq(0..255) /\ k \in Nat \ {0}
    BY StreamsAssumption, SizesAssumption, <1>0 DEF TypeOK
  <2>3. b \in [1..k -> 0..255]
    BY <1>0, <2>1, <2>2, WireBytes
  <2> HIDE DEF b
  <2>4. e' - s' = Length + k
    BY <1>0, <2>1, <2>2, <2>3, AppendKeeps
  <2>5. done' = done
    BY <1>0, <2>1, <2>2, <2>4
  <2> QED BY <2>1, <2>5 DEF Stream!Arrive
<1>2. ASSUME UNCHANGED <<wire, at, delivered, conn, open, s, e>>, pc # "unzip", pc' # "unzip" PROVE UNCHANGED seen
  BY <1>2 DEF Front
<1>3. CASE LoopEnds
  BY <1>2, <1>3 DEF LoopEnds, buffer, Stream!vars
<1>3a. CASE UNCHANGED vars
  BY <1>3a DEF vars, buffer, Front, Stream!vars
<1>4. CASE Incomplete
  <2>1. UNCHANGED <<wire, at, delivered, conn, open>> /\ s' = s + 0 /\ e' = e /\ pc # "unzip" /\ pc' # "unzip"
    BY <1>4 DEF Incomplete, Looping, Read
  <2> QED BY <1>0, <1>2, <2>1 DEF Stream!vars
<1>5. ASSUME ~open, open' = FALSE, UNCHANGED <<wire, at, delivered, conn>> PROVE UNCHANGED seen
  BY <1>0, <1>5
<1>6. ASSUME open, open' = FALSE, pc # "unzip", UNCHANGED <<wire, at, delivered, conn>>,
             Stream!Malformed \/ (Stream!Complete /\ Stream!Coded(wire[done + 1])) \/ ~conn
      PROVE  Stream!End
  BY <1>6 DEF Stream!End
<1>7. CASE WrongHead \/ WrongSize
  <2>1. /\ Length > 5 /\ open' = FALSE /\ UNCHANGED <<wire, at, delivered, conn>> /\ ~WellFormed
        /\ pc # "unzip" /\ Front = s
    BY <1>7 DEF WrongHead, WrongSize, Looping, WellFormed, Front
  <2>2. CASE open
    <3>1. /\ at - Length + 5 < at /\ HeadByte = wire[at - Length + 1]
          /\ Size = Stream!LengthAt(at - Length)
      BY <1>0, <2>1, <2>2, HeaderOfStream
    <3>2. Stream!Malformed
      BY <1>0, <2>1, <2>2, <3>1 DEF Stream!Malformed, Stream!HasHeader, WellFormed
    <3> QED BY <1>6, <2>1, <2>2, <3>2 DEF Stream!Next
  <2>3. CASE ~open
    BY <1>5, <2>1, <2>3 DEF Stream!vars
  <2> QED BY <2>2, <2>3 DEF Stream!Next
<1>8. CASE Undecodable
  <2>1. /\ Whole /\ Stream!Coded(HeadByte) /\ open' = FALSE /\ UNCHANGED <<wire, at, delivered, conn>>
        /\ pc # "unzip" /\ Front = s
    BY <1>8 DEF Undecodable, Whole, Looping, Front, Stream!Coded
  <2>2. CASE open
    <3>1. Stream!Complete /\ HeadByte = wire[done + 1]
      BY <1>0, <2>1, <2>2, WholeIsNext
    <3> QED BY <1>6, <2>1, <2>2, <3>1 DEF Stream!Next
  <2>3. CASE ~open
    BY <1>5, <2>1, <2>3 DEF Stream!vars
  <2> QED BY <2>2, <2>3
<1>9. CASE Ownerless \/ SessionEnds
  <2>1. ~conn /\ open' = FALSE /\ pc # "unzip" /\ UNCHANGED <<wire, at, delivered, conn>>
    BY <1>9 DEF Ownerless, SessionEnds, Whole, Looping
  <2> QED BY <1>0, <1>5, <1>6, <2>1 DEF Stream!Next, Stream!vars
<1>9a. CASE Spins
  <2>1. /\ Whole /\ Stream!Zipped(HeadByte) /\ UNCHANGED <<wire, at, delivered, conn, open>>
        /\ pc # "unzip" /\ pc' = "unzip" /\ mark' = s /\ e' = e
    BY <1>9a DEF Spins, Whole, Looping, Read
  <2>2. Front = s /\ Front' = s
    BY <2>1 DEF Front
  <2>3. CASE open
    <3>1. Stream!Complete /\ HeadByte = wire[done + 1]
      BY <1>0, <2>1, <2>2, <2>3, WholeIsNext
    <3> QED BY <2>1, <2>2, <2>3, <3>1 DEF Stream!Stall, Stream!Next
  <2>4. CASE ~open
    BY <1>0, <2>1, <2>4 DEF Stream!vars
  <2> QED BY <2>3, <2>4
<1>10. CASE Detach
  BY <1>10 DEF Detach, buffer, Front, Stream!Detach, Stream!Next
<1>11. CASE HandOver
  <2>1. /\ Whole /\ conn /\ Read(5 + Size) /\ UNCHANGED <<wire, at, conn, open>>
        /\ delivered' = Append(delivered, [head |-> HeadByte, data |-> [i \in 1..Size |-> buf[s + 4 + i]]])
    BY <1>11 DEF HandOver
  <2>2. s' = s + (5 + Size) /\ e' = e /\ pc # "unzip" /\ pc' # "unzip" /\ Front = s /\ Front' = s'
    BY <1>11, <2>1 DEF HandOver, Read, Whole, Looping, Front
  <2>3. open
    BY <1>0, <2>1 DEF IInv, ClosedLoop, Whole, Looping
  <2>4. /\ Stream!Complete
        /\ HeadByte = wire[done + 1] /\ Size = Stream!LengthAt(done)
        /\ Size \in Nat
        /\ \A i \in 1..Size : buf[s + 4 + i] = wire[done + 5 + i]
    BY <1>0, <2>1, <2>2, <2>3, WholeIsNext
  <2>5. [i \in 1..Size |-> buf[s + 4 + i]] = [i \in 1..Size |-> wire[done + 5 + i]]
    BY <2>4
  <2>6. delivered' = Append(delivered, Stream!Packet)
    BY <2>1, <2>4, <2>5 DEF Stream!Packet
  <2>7. done' = done + 5 + Stream!LengthAt(done)
    <3>1. done = at - (e - s) /\ done' = at - (e - (s + (5 + Size)))
      BY <2>1, <2>2, <2>3
    <3>2. Size = Stream!LengthAt(done) /\ Size \in Nat
      BY <2>4
    <3> HIDE DEF done
    <3> QED BY <1>0, <3>1, <3>2
  <2> QED BY <2>1, <2>2, <2>3, <2>4, <2>6, <2>7 DEF Stream!Deliver, Stream!Next
<1> QED BY <1>1, <1>3, <1>3a, <1>4, <1>7, <1>8, <1>9, <1>9a, <1>10, <1>11, Unfolded DEF Stream!Next

(* For every stream, cut into reads in any way, service hands over the      *)
(* packets as PacketStream says.                                            *)
THEOREM Implementation == Spec => Implements
<1>1. Init => Stream!Init
  BY DEF Init, Front, Stream!Init
<1>2. IInv /\ [Next]_vars => [Stream!Next]_(Stream!vars)
  BY StepRefines
<1> QED BY <1>1, <1>2, Invariance, PTL DEF Spec, Implements, Stream!Spec
===============================================================================
