----------------------------- MODULE PacketStream -----------------------------
(***************************************************************************)
(* What the packet layer of framework/mdc promises (the format in           *)
(* MDCServer.service): the packets in the byte stream of a session are      *)
(* handed over one by one, each once, in order and whole, however the       *)
(* stream is cut into reads; a malformed packet ends the session, and one   *)
(* with the zip bit may hold it up for ever.                                *)
(***************************************************************************)
EXTENDS Integers, Sequences

CONSTANTS Streams,  \* byte streams a peer may send
          MaxSize,  \* MAX_SIZE
          MaxChunk  \* bound: bytes of one read

Byte == 0..255

(* (head & 0xC0) == 0x40, and the bits 0x10 (zip) and 0x20 (encrypted) *)
HeadOK(h) == h \in 64..127
Zipped(h)    == (h \div 16) % 2 = 1
Encrypted(h) == (h \div 32) % 2 = 1
Coded(h)     == Zipped(h) \/ Encrypted(h)

(* getInt: four bytes, the most significant first, in two's complement *)
Int32(b0, b1, b2, b3) ==
  (IF b0 >= 128 THEN b0 - 256 ELSE b0) * 16777216 + b1 * 65536 + b2 * 256 + b3

VARIABLES
  wire,      \* the stream the peer sends
  at,        \* bytes of it that have arrived
  done,      \* bytes of it in packets handed over (0 when the session has ended)
  delivered, \* the packets handed over
  conn,      \* the session has its connection object
  open,      \* the session is open
  stuck      \* its thread is held up by a packet

vars == <<wire, at, done, delivered, conn, open, stuck>>

LengthAt(i) == Int32(wire[i + 2], wire[i + 3], wire[i + 4], wire[i + 5])
LengthOK(n) == 0 < n /\ n <= MaxSize

HasHeader == done + 5 < at
Complete  == HasHeader /\ HeadOK(wire[done + 1]) /\ LengthOK(LengthAt(done))
             /\ done + 5 + LengthAt(done) <= at
Malformed == HasHeader /\ ~(HeadOK(wire[done + 1]) /\ LengthOK(LengthAt(done)))
Packet    == [head |-> wire[done + 1], data |-> [i \in 1..LengthAt(done) |-> wire[done + 5 + i]]]

Init ==
  /\ wire \in Streams
  /\ at = 0 /\ done = 0 /\ delivered = << >>
  /\ conn = TRUE /\ open = TRUE /\ stuck = FALSE

Arrive ==
  /\ open /\ ~stuck
  /\ \E k \in 1..MaxChunk : at + k <= Len(wire) /\ at' = at + k
  /\ UNCHANGED <<wire, done, delivered, conn, open, stuck>>

Deliver ==
  /\ open /\ conn /\ ~stuck /\ Complete
  /\ delivered' = Append(delivered, Packet)
  /\ done' = done + 5 + LengthAt(done)
  /\ UNCHANGED <<wire, at, conn, open, stuck>>

(* unzip never returns from a packet whose zipped data is incomplete. *)
Stall ==
  /\ open /\ ~stuck /\ Complete /\ Zipped(wire[done + 1])
  /\ stuck' = TRUE
  /\ UNCHANGED <<wire, at, done, delivered, conn, open>>

(* The session ends on a malformed packet, on one that cannot be decoded,   *)
(* or when its connection object is gone.                                   *)
End ==
  /\ open /\ ~stuck
  /\ Malformed \/ (Complete /\ Coded(wire[done + 1])) \/ ~conn
  /\ open' = FALSE /\ done' = 0
  /\ UNCHANGED <<wire, at, delivered, conn, stuck>>

(* Another thread takes the connection object away (TConn.close). *)
Detach ==
  /\ conn
  /\ conn' = FALSE
  /\ UNCHANGED <<wire, at, done, delivered, open, stuck>>

Next == Arrive \/ Deliver \/ Stall \/ End \/ Detach

Spec == Init /\ [][Next]_vars

(* What has arrived whole does not wait for more, unless a zipped packet    *)
(* holds the session up.                                                    *)
FairSpec == Spec /\ WF_vars(Deliver \/ Stall \/ End)
===============================================================================
