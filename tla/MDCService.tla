------------------------------ MODULE MDCService ------------------------------
(***************************************************************************)
(* framework/mdc: MDCServer.service over SimpleIoBuffer, for one session    *)
(* (MDCConnector.service is the same loop, but drops a packet that finds no *)
(* connection object and goes on).  The I/O thread of the session runs      *)
(* alone, but for TConn.close of other threads, which takes the attribute   *)
(* "conn" away.  One action is one pass of the loop.                        *)
(*                                                                         *)
(* buf is a zero-based array of bytes, which are unsigned here.  The        *)
(* contents of a packet are kept as they came: decode may fail, and unzip   *)
(* may fail or never end.                                                   *)
(***************************************************************************)
EXTENDS Integers, Sequences

CONSTANTS Streams, MaxSize, MaxChunk, \* as in PacketStream
          InitialSize, \* SimpleIoBuffer.create(4096)
          Extra        \* "expand with extra 1KB"

ASSUME StreamsAssumption == Streams \subseteq Seq(0..255)
ASSUME SizesAssumption   == MaxSize \in Nat \ {0} /\ MaxChunk \in Nat \ {0}
ASSUME BufferAssumption  == InitialSize \in Nat \ {0} /\ Extra \in Nat

VARIABLES
  wire, at, delivered, conn, open, \* as in PacketStream
  buf, cap, s, e, mark,            \* the buffer, cap = buf.length
  pc                               \* "idle": outside service; "loop": at the head of its loop;
                                   \* "unzip": in Zip.unzip, for ever

buffer == <<buf, cap, s, e, mark>>
vars   == <<wire, at, delivered, conn, open, buffer, pc>>

(* While the session is open, the bytes unread in the buffer are those that *)
(* are in no packet handed over: from mark on, for a packet being unzipped. *)
Front == IF pc = "unzip" THEN mark ELSE s

Stream == INSTANCE PacketStream WITH done <- IF open THEN at - (e - Front) ELSE 0,
                                     stuck <- open /\ pc = "unzip"

Init ==
  /\ wire \in Streams
  /\ at = 0 /\ delivered = << >>
  /\ conn = TRUE /\ open = TRUE
  /\ buf = [i \in 0..(InitialSize - 1) |-> 0] /\ cap = InitialSize
  /\ s = 0 /\ e = 0 /\ mark = 0
  /\ pc = "idle"

-----------------------------------------------------------------------------
(* SimpleIoBuffer *)

Length == e - s

(* Where append puts the bytes: behind what is there, or behind what is      *)
(* unread, moved to the front of the array or of a longer one.              *)
Room(k)    == cap - e >= k
Compact(k) == s + cap - e >= k

Behind(b, k) == [i \in 0..(cap - 1) |-> IF i \in e..(e + k - 1) THEN b[i - e + 1] ELSE buf[i]]
(* Mutant: the array is copied from its start. *)
MovedWhole(b, k, size) ==
  [i \in 0..(size - 1) |->
     IF i < Length THEN buf[i]
     ELSE IF i < Length + k THEN b[i - Length + 1]
     ELSE IF size = cap THEN buf[i] ELSE 0]

Moved(b, k, size) ==
  [i \in 0..(size - 1) |->
     IF i < Length THEN buf[s + i]
     ELSE IF i < Length + k THEN b[i - Length + 1]
     ELSE IF size = cap THEN buf[i] ELSE 0]

(* Mutant: s stays where it is when the unread bytes are moved. *)
AppendKeepingS(b, k) ==
  /\ mark' = -1
  /\ IF Room(k)
       THEN buf' = Behind(b, k) /\ e' = e + k /\ UNCHANGED <<cap, s>>
       ELSE /\ cap' = IF Compact(k) THEN cap ELSE cap + k + Extra
            /\ buf' = Moved(b, k, cap')
            /\ e' = Length + k /\ UNCHANGED s

(* Mutant: the room in front is never used again. *)
AppendGrowing(b, k) ==
  /\ mark' = -1
  /\ IF Room(k)
       THEN buf' = Behind(b, k) /\ e' = e + k /\ UNCHANGED <<cap, s>>
       ELSE /\ cap' = cap + k + Extra
            /\ buf' = Moved(b, k, cap')
            /\ e' = Length + k /\ s' = 0

(* append(b) of k > 0 bytes *)
AppendBytes(b, k) ==
  /\ mark' = -1
  /\ IF Room(k)
       THEN buf' = Behind(b, k) /\ e' = e + k /\ UNCHANGED <<cap, s>>
       ELSE /\ cap' = IF Compact(k) THEN cap ELSE cap + k + Extra
            /\ buf' = Moved(b, k, cap')
            /\ e' = Length + k /\ s' = 0

(* mark(); then read() and getInt(), and n bytes after them. *)
HeadByte == buf[s]
Size == Stream!Int32(buf[s + 1], buf[s + 2], buf[s + 3], buf[s + 4])

Read(n) == s' = s + n /\ mark' = s /\ UNCHANGED <<buf, cap, e>>

-----------------------------------------------------------------------------
(* messageReceived, service *)

Receive(k) ==
  /\ pc = "idle" /\ open /\ at + k <= Len(wire)
  /\ AppendBytes([i \in 1..k |-> wire[at + i]], k)
  /\ at' = at + k
  /\ pc' = "loop"
  /\ UNCHANGED <<wire, delivered, conn, open>>

(* Mutant: a packet of one byte waits for the next read. *)
LoopEndsEarly ==
  /\ pc = "loop" /\ Length <= 6
  /\ pc' = "idle"
  /\ UNCHANGED <<wire, at, delivered, conn, open, buffer>>

(* while (in.length() > 5) *)
LoopEnds ==
  /\ pc = "loop" /\ Length <= 5
  /\ pc' = "idle"
  /\ UNCHANGED <<wire, at, delivered, conn, open, buffer>>

Looping == pc = "loop" /\ Length > 5

WrongHead ==
  /\ Looping /\ ~Stream!HeadOK(HeadByte)
  /\ Read(1)
  /\ open' = FALSE /\ pc' = "idle"
  /\ UNCHANGED <<wire, at, delivered, conn>>

WrongSize ==
  /\ Looping /\ Stream!HeadOK(HeadByte) /\ ~Stream!LengthOK(Size)
  /\ Read(5)
  /\ open' = FALSE /\ pc' = "idle"
  /\ UNCHANGED <<wire, at, delivered, conn>>

WellFormed == Stream!HeadOK(HeadByte) /\ Stream!LengthOK(Size)

(* Mutant: the header stays read. *)
IncompleteUnreset ==
  /\ Looping /\ WellFormed /\ Length - 5 < Size
  /\ Read(5)
  /\ pc' = "idle"
  /\ UNCHANGED <<wire, at, delivered, conn, open>>

(* in.reset() *)
Incomplete ==
  /\ Looping /\ WellFormed /\ Length - 5 < Size
  /\ Read(0)
  /\ pc' = "idle"
  /\ UNCHANGED <<wire, at, delivered, conn, open>>

Whole == Looping /\ WellFormed /\ Size <= Length - 5

HandOver ==
  /\ Whole /\ conn
  /\ Read(5 + Size)
  /\ delivered' = Append(delivered, [head |-> HeadByte, data |-> [i \in 1..Size |-> buf[s + 4 + i]]])
  /\ UNCHANGED <<wire, at, conn, open, pc>>

(* unzip throws, or decode, which needs the key of the connection object *)
Undecodable ==
  /\ Whole
  /\ Stream!Zipped(HeadByte) \/ (conn /\ Stream!Encrypted(HeadByte))
  /\ Read(5 + Size)
  /\ open' = FALSE /\ pc' = "idle"
  /\ UNCHANGED <<wire, at, delivered, conn>>

(* while (!in.finished()): inflate answers 0 for ever when the data of the  *)
(* packet is not all of a zip stream, and the thread stays in service.      *)
Spins ==
  /\ Whole /\ Stream!Zipped(HeadByte)
  /\ Read(5 + Size)
  /\ pc' = "unzip"
  /\ UNCHANGED <<wire, at, delivered, conn, open>>

(* The session has no connection object any more; the loop goes on.         *)
Ownerless ==
  /\ Whole /\ ~conn
  /\ Read(5 + Size)
  /\ open' = FALSE
  /\ UNCHANGED <<wire, at, delivered, conn, pc>>

-----------------------------------------------------------------------------
(* TConn.close on another thread: the attribute goes, then the session.     *)
Detach ==
  /\ conn
  /\ conn' = FALSE
  /\ UNCHANGED <<wire, at, delivered, open, buffer, pc>>

SessionEnds ==
  /\ pc = "idle" /\ open /\ ~conn
  /\ open' = FALSE
  /\ UNCHANGED <<wire, at, delivered, conn, buffer, pc>>

Loop == LoopEnds \/ WrongHead \/ WrongSize \/ Incomplete \/ HandOver \/ Undecodable \/ Spins \/ Ownerless

Next == (\E k \in 1..MaxChunk : Receive(k)) \/ Loop \/ Detach \/ SessionEnds

Spec == Init /\ [][Next]_vars

(* The I/O thread goes from pass to pass of the loop unless one of them     *)
(* spins in unzip, and MINA ends a session that has been closed.            *)
FairSpec == Spec /\ WF_vars(Loop) /\ WF_vars(SessionEnds)

-----------------------------------------------------------------------------
TypeOK ==
  /\ wire \in Streams /\ at \in 0..Len(wire)
  /\ delivered \in Seq([head : Stream!Byte, data : Seq(Stream!Byte)])
  /\ conn \in BOOLEAN /\ open \in BOOLEAN
  /\ cap \in Nat \ {0} /\ buf \in [0..(cap - 1) -> Stream!Byte]
  /\ s \in 0..e /\ e \in 0..cap /\ mark \in -1..s
  /\ pc \in {"idle", "loop", "unzip"}

(* The unread bytes of the buffer are the last bytes that have arrived: no  *)
(* move or growth of the array, and no reset, loses or doubles one.         *)
Unread ==
  open => Length <= at /\ \A i \in 0..(Length - 1) : buf[s + i] = wire[at - Length + i + 1]

(* Outside service no packet that has arrived whole is left in the buffer,  *)
(* wherever the reads have cut the stream, nor a malformed header.          *)
Drained ==
  pc = "idle" /\ open => ~Stream!Complete /\ ~Stream!Malformed

(* Between reads less than one packet of MAX_SIZE is kept, so that the      *)
(* array stays within MAX_SIZE, two reads and the extra, for ever.          *)
Max2(a, b) == IF a > b THEN a ELSE b
BoundedBuffer ==
  open => /\ pc = "idle" => Length < MaxSize + 5
          /\ cap <= Max2(InitialSize, MaxSize + 3 + 2 * MaxChunk + Extra)

(* service hands the packets of the stream over as PacketStream says: each  *)
(* once, in order, whole; and (with fairness) without waiting for more,     *)
(* unless a packet with the zip bit holds its session up for ever.          *)
Implements     == Stream!Spec
ImplementsFair == Stream!FairSpec
=============================================================================
