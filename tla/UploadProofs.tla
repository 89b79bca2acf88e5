---------------------------- MODULE UploadProofs ----------------------------
(***************************************************************************)
(* Proofs about Upload: type correctness, and that an upload reported as    *)
(* done is complete.  Handlers of any number of requests, files and parts   *)
(* of any size.                                                             *)
(***************************************************************************)
EXTENDS Upload, TLAPS

(* A part is of at least one byte, of Chunk bytes at most, and ends in the   *)
(* file; the part at 0 is of Chunk bytes.                                   *)
LEMMA Parts ==
  /\ Size \in Nat /\ Chunk \in Nat /\ 0 < Chunk /\ Chunk < Size
  /\ 0 \in Bytes /\ Len(0) = Chunk
  /\ \A p \in Bytes : Len(p) \in 1..Chunk /\ p + Len(p) \in 1..Size
BY SizesAssumption DEF Bytes, Len

LEMMA NoReqOutside == NoReq \notin Reqs
BY BoundsAssumption

(* The fields of the handlers that the actions make.                        *)
LEMMA Fields ==
  /\ Free \in Handlers
  /\ \A p \in Bytes : [Free EXCEPT !.stage = "check", !.at = p] \in Handlers
  /\ \A p \in Bytes, a \in -2..Size :
       [Free EXCEPT !.stage = "answered", !.at = p, !.answer = a] \in Handlers
<1>1. 0 \in Bytes /\ 0 \in -2..Size /\ 0 \in 0..Size  BY Parts
<1>2. Free \in Handlers  BY <1>1 DEF Free, Handlers, Stages
<1>3. ASSUME NEW p \in Bytes PROVE [Free EXCEPT !.stage = "check", !.at = p] \in Handlers
  BY <1>1 DEF Free, Handlers, Stages
<1>4. ASSUME NEW p \in Bytes, NEW a \in -2..Size
      PROVE  [Free EXCEPT !.stage = "answered", !.at = p, !.answer = a] \in Handlers
  BY <1>1 DEF Free, Handlers, Stages
<1> QED  BY <1>2, <1>3, <1>4

LEMMA Placed ==
  ASSUME RepoTypeOK, NEW r \in Reqs, NEW p \in Bytes
  PROVE  With(r, p) \in [Bytes -> -2..(Size - 1)]
<1>1. h[r].at \in Bytes  BY DEF RepoTypeOK, Handlers
<1>2. \A i \in Bytes : i < p + Len(h[r].at) /\ i >= p => h[r].at + (i - p) \in 0..(Size - 1)
  BY <1>1, Parts DEF Bytes
<1>3. \A i \in Bytes : cell[i] \in -2..(Size - 1)  BY DEF RepoTypeOK
<1>4. \A i \in Bytes :
        (IF i >= p /\ i < p + Len(h[r].at) THEN h[r].at + (i - p) ELSE cell[i]) \in -2..(Size - 1)
  <2> SUFFICES ASSUME NEW i \in Bytes
               PROVE  (IF i >= p /\ i < p + Len(h[r].at) THEN h[r].at + (i - p) ELSE cell[i])
                        \in -2..(Size - 1)
    OBVIOUS
  <2>1. CASE i >= p /\ i < p + Len(h[r].at)
    <3>1. h[r].at + (i - p) \in 0..(Size - 1)  BY <1>2, <2>1
    <3> QED  BY <2>1, <3>1, Parts
  <2>2. CASE ~(i >= p /\ i < p + Len(h[r].at))  BY <1>3, <2>2
  <2> QED  BY <2>1, <2>2
<1> QED  BY <1>4 DEF With

(* What one access of a handler to the file leaves of the types.             *)
LEMMA HandleTypes ==
  ASSUME RepoTypeOK, NEW r \in Reqs, Handle(r) \/ HandleFails(r) \/ Delete
  PROVE  RepoTypeOK'
<1> DEFINE hr == h[r]
<1>1. /\ hr \in Handlers /\ hr.at \in Bytes /\ hr.stage \in Stages /\ hr.inode \in Nat
      /\ hr.seen \in -2..Size /\ hr.pp \in 0..Size /\ hr.answer \in -2..Size
  BY DEF RepoTypeOK, Handlers
<1>2. \A s \in Stages : [hr EXCEPT !.stage = s] \in Handlers
  BY <1>1 DEF Handlers
<1>3. \A a \in -2..Size : [Free EXCEPT !.stage = "answered", !.at = hr.at, !.answer = a] \in Handlers
  BY <1>1, Fields
<1>4. ASSUME NEW x \in Handlers PROVE [h EXCEPT ![r] = x] \in [Reqs -> Handlers]
  BY DEF RepoTypeOK
<1>5. Len(hr.at) \in 1..Chunk /\ hr.at + Len(hr.at) \in 1..Size /\ Chunk < Size /\ Size \in Nat /\ Chunk \in Nat
  BY <1>1, Parts
<1>6. Len(hr.at) \in -2..Size /\ Len(hr.at) \in 0..Size
  BY <1>5
<1>a. Refused \in -2..Size /\ Denied \in -2..Size  BY Parts DEF Refused, Denied
<1>7. CASE Check(r)
  <2>1. h' \in [Reqs -> Handlers]  BY <1>2, <1>4, <1>7 DEF Check, At, Stages
  <2> QED  BY <2>1, <1>7 DEF Check, RepoTypeOK, file
<1>8. CASE CheckSpoiled(r)
  <2>1. h' \in [Reqs -> Handlers]  BY <1>2, <1>3, <1>4, <1>8, <1>a DEF CheckSpoiled, At, Reply, Stages
  <2> QED  BY <2>1, <1>8 DEF CheckSpoiled, RepoTypeOK, file
<1>9. CASE Create(r)
  <2>1. gen' \in Nat  BY <1>9 DEF Create, RepoTypeOK
  <2>2. [hr EXCEPT !.stage = "head", !.inode = gen'] \in Handlers  BY <1>1, <2>1 DEF Handlers, Stages
  <2>3. h' = [h EXCEPT ![r] = [hr EXCEPT !.stage = "head", !.inode = gen']]
    BY <1>9 DEF Create, RepoTypeOK
  <2>4. h' \in [Reqs -> Handlers]  BY <2>2, <2>3, <1>4
  <2>5. cell' \in [Bytes -> -2..(Size - 1)] /\ head' \in -2..Size
    BY <1>9, Parts DEF Create, Absent, NoHead
  <2> QED  BY <2>1, <2>4, <2>5, <1>9 DEF Create, RepoTypeOK
<1>10. CASE WriteHead(r)
  <2>1. h' \in [Reqs -> Handlers]  BY <1>2, <1>4, <1>10 DEF WriteHead, At, Stages
  <2>2. head' \in -2..Size  BY <1>6, <1>10 DEF WriteHead, RepoTypeOK
  <2> QED  BY <2>1, <2>2, <1>10 DEF WriteHead, RepoTypeOK
<1>11. CASE WriteData(r)
  <2>1. [hr EXCEPT !.stage = "pad", !.pp = Len(hr.at)] \in Handlers  BY <1>1, <1>6 DEF Handlers, Stages
  <2>2. h' = [h EXCEPT ![r] = [hr EXCEPT !.stage = "pad", !.pp = Len(hr.at)]]
    BY <1>11 DEF WriteData, RepoTypeOK
  <2>3. h' \in [Reqs -> Handlers]  BY <2>1, <2>2, <1>4
  <2>4. cell' \in [Bytes -> -2..(Size - 1)]  BY <1>11, Placed, Parts DEF WriteData, RepoTypeOK
  <2> QED  BY <2>3, <2>4, <1>11 DEF WriteData, RepoTypeOK
<1>12. CASE Pad(r)
  <2>1. hr.pp + 1 \in 0..Size  BY <1>1, <1>12, Parts DEF Pad
  <2>2. [hr EXCEPT !.pp = @ + 1] \in Handlers  BY <1>1, <2>1 DEF Handlers
  <2>3. h' \in [Reqs -> Handlers]  BY <2>2, <1>4, <1>12 DEF Pad
  <2>4. Junk \in -2..(Size - 1)  BY Parts DEF Junk
  <2>5. cell' \in [Bytes -> -2..(Size - 1)]  BY <1>12, <2>4 DEF Pad, RepoTypeOK
  <2> QED  BY <2>3, <2>5, <1>12 DEF Pad, RepoTypeOK
<1>13. CASE Padded(r)
  <2>1. h' \in [Reqs -> Handlers]  BY <1>3, <1>4, <1>6, <1>13 DEF Padded, Reply
  <2> QED  BY <2>1, <1>13 DEF Padded, RepoTypeOK, file
<1>14. CASE Open(r)
  <2>a. head \in -2..Size /\ 0..Size \subseteq -2..Size  BY Parts DEF RepoTypeOK
  <2>1. PICK p \in -2..Size : h' = [h EXCEPT ![r].stage = "write", ![r].inode = gen, ![r].seen = p]
    BY <1>14, <2>a DEF Open
  <2>2. [hr EXCEPT !.stage = "write", !.inode = gen, !.seen = p] \in Handlers
    BY <1>1 DEF Handlers, Stages, RepoTypeOK
  <2>3. h' = [h EXCEPT ![r] = [hr EXCEPT !.stage = "write", !.inode = gen, !.seen = p]]
    BY <2>1 DEF RepoTypeOK
  <2>4. h' \in [Reqs -> Handlers]  BY <2>2, <2>3, <1>4
  <2> QED  BY <2>4, <1>14 DEF Open, RepoTypeOK, file
<1>15. CASE WritePart(r)
  <2>1. h' \in [Reqs -> Handlers]  BY <1>2, <1>4, <1>15 DEF WritePart, At, Stages
  <2>2. With(r, hr.at) \in [Bytes -> -2..(Size - 1)]  BY <1>1, Placed
  <2>3. cell' \in [Bytes -> -2..(Size - 1)]
    <3>1. \A i \in Bytes : (IF i < Len(hr.at) THEN Junk ELSE cell[i]) \in -2..(Size - 1)
      BY Parts DEF RepoTypeOK, Junk
    <3> QED  BY <2>2, <3>1, <1>15 DEF WritePart, RepoTypeOK
  <2>4. head' \in -2..Size  BY <1>15, Parts DEF WritePart, RepoTypeOK, Spoiled
  <2> QED  BY <2>1, <2>3, <2>4, <1>15 DEF WritePart, RepoTypeOK
<1>16. CASE SkipPart(r)
  <2>1. SeenPos(r) \in -2..Size  BY <1>1, Parts DEF SeenPos
  <2>2. h' \in [Reqs -> Handlers]  BY <2>1, <1>3, <1>4, <1>16 DEF SkipPart, Reply
  <2> QED  BY <2>2, <1>16 DEF SkipPart, RepoTypeOK, file
<1>17. CASE WritePos(r)
  <2>1. SeenPos(r) \in -2..Size  BY <1>1, Parts DEF SeenPos
  <2>2. hr.at + Len(hr.at) \in -2..Size  BY <1>5
  <2>3. h' \in [Reqs -> Handlers]  BY <2>1, <2>2, <1>3, <1>4, <1>17 DEF WritePos, Reply
  <2>4. head' \in -2..Size  BY <2>2, <1>17 DEF WritePos, RepoTypeOK
  <2> QED  BY <2>3, <2>4, <1>17 DEF WritePos, RepoTypeOK
<1>18. CASE InitialiseFails(r)
  <2>1. h' \in [Reqs -> Handlers]  BY <1>3, <1>4, <1>18, <1>a DEF InitialiseFails, Reply
  <2> QED  BY <2>1, <1>18 DEF InitialiseFails, RepoTypeOK
<1>19. CASE AppendFails(r) \/ RowFails(r)
  <2>1. h' \in [Reqs -> Handlers]  BY <1>3, <1>4, <1>19, <1>a DEF AppendFails, RowFails, Reply
  <2> QED  BY <2>1, <1>19 DEF AppendFails, RowFails, RepoTypeOK, file
<1>20. CASE Deny(r)
  <2>1. h' \in [Reqs -> Handlers]  BY <1>3, <1>4, <1>20, <1>a DEF Deny, Reply
  <2> QED  BY <2>1, <1>20 DEF Deny, RepoTypeOK, file
<1>21. CASE Delete  BY <1>21 DEF Delete, RepoTypeOK
<1> QED
  BY <1>7, <1>8, <1>9, <1>10, <1>11, <1>12, <1>13, <1>14, <1>15, <1>16, <1>17, <1>18, <1>19, <1>20, <1>21
     DEF Handle, HandleFails

(* The page changes nothing but handlers that are begun or forgotten.        *)
LEMMA PageTypes ==
  ASSUME RepoTypeOK, UNCHANGED file, raced' \in BOOLEAN, removed' \in BOOLEAN,
         h' \in [Reqs -> Handlers]
  PROVE  RepoTypeOK'
BY DEF RepoTypeOK, file

LEMMA StartTypes ==
  ASSUME TypeOK, Start
  PROVE  /\ RepoTypeOK' /\ ui' = "sending" /\ cur' \in Reqs /\ ub' = 0
<1>1. PICK r \in Reqs : Post(r, 0) /\ cur' = r /\ removed' = (removed /\ ~Alone(r))
  BY DEF Start
<1>2. [Free EXCEPT !.stage = "check", !.at = 0] \in Handlers  BY Fields, Parts
<1>3. h' \in [Reqs -> Handlers]  BY <1>1, <1>2 DEF Post, TypeOK, RepoTypeOK
<1>4. RepoTypeOK'  BY <1>1, <1>3, PageTypes DEF Post, TypeOK, RepoTypeOK
<1> QED  BY <1>1, <1>4 DEF Start

LEMMA InitTypes == Init => TypeOK
<1> SUFFICES ASSUME Init PROVE TypeOK  OBVIOUS
<1>1. Size \in Nat /\ 0 \in 0..Size /\ NoHead \in -2..Size /\ Absent \in -2..(Size - 1)
  BY Parts DEF NoHead, Absent
<1>2. Free \in Handlers  BY Fields
<1>3. RepoTypeOK  BY <1>1, <1>2 DEF Init, RepoInit, RepoTypeOK
<1>4. 0 \in 0..MaxFaults  BY BoundsAssumption
<1>5. faults \in 0..MaxFaults /\ ub \in 0..Size /\ timers \in Nat  BY <1>1, <1>4 DEF Init
<1> QED  BY <1>3, <1>5 DEF Init, TypeOK, UIs

LEMMA StepTypes == TypeOK /\ [Next]_vars => TypeOK'
<1> SUFFICES ASSUME TypeOK, [Next]_vars PROVE TypeOK'  OBVIOUS
<1>1. /\ RepoTypeOK /\ h \in [Reqs -> Handlers] /\ Free \in Handlers
      /\ MaxFaults \in Nat /\ Size \in Nat /\ 0 \in 0..Size
      /\ raced \in BOOLEAN /\ removed \in BOOLEAN
  <2>1. MaxFaults \in Nat  BY BoundsAssumption
  <2>2. Size \in Nat /\ 0 \in 0..Size  BY Parts
  <2> QED  BY <2>1, <2>2, Fields DEF TypeOK, RepoTypeOK
<1>2. [Fault]_faults => faults' \in 0..MaxFaults
  BY <1>1 DEF Fault, TypeOK
<1>3. ASSUME NEW r \in Reqs, Forget(r) PROVE h' \in [Reqs -> Handlers]
  BY <1>1, <1>3 DEF Forget
<1>4. cur # NoReq => cur \in Reqs  BY DEF TypeOK
<1>5. CASE Add
  <2>1. CASE ui = "stuck"  BY <2>1, <1>5, <1>1 DEF Add, TypeOK, RepoTypeOK, repoVars, file
  <2>2. CASE ui # "stuck"  BY <2>2, <1>5, <1>1, StartTypes, NoReqOutside DEF Add, TypeOK, UIs
  <2> QED  BY <2>1, <2>2
<1>6. CASE AddMeanwhile
  <2>1. PICK r \in Reqs :
          /\ h' = [h EXCEPT ![cur] = IF Busy(cur) THEN @ ELSE Free,
                            ![r] = [Free EXCEPT !.stage = "check"]]
          /\ removed' = (removed /\ ~Alone(r)) /\ cur' = r /\ ub' = 0
    BY <1>6 DEF AddMeanwhile
  <2>2. [Free EXCEPT !.stage = "check"] \in Handlers
    BY Parts DEF Free, Handlers, Stages
  <2>3. h' \in [Reqs -> Handlers]  BY <2>1, <2>2, <1>1
  <2>4. RepoTypeOK'  BY <2>1, <2>3, <1>1, <1>6, PageTypes DEF AddMeanwhile
  <2>5. timers' \in Nat  BY <1>6 DEF AddMeanwhile, TypeOK
  <2>6. faults' \in 0..MaxFaults  BY <1>2, <1>6 DEF AddMeanwhile
  <2> QED  BY <2>1, <2>4, <2>5, <2>6, <1>1, <1>6, NoReqOutside DEF AddMeanwhile, TypeOK
<1>7. CASE TimerFires
  <2>1. timers' \in Nat  BY <1>7 DEF TimerFires, TypeOK
  <2>2. CASE Pending  BY <2>1, <2>2, <1>7, <1>1 DEF TimerFires, TypeOK, RepoTypeOK, repoVars, file
  <2>3. CASE ~Pending  BY <2>1, <2>3, <1>7, <1>1, StartTypes, NoReqOutside DEF TimerFires, TypeOK, UIs
  <2> QED  BY <2>2, <2>3
<1>8. CASE PartDone
  <2>1. cur \in Reqs /\ h[cur].answer \in 0..Size
    BY <1>1, <1>4, <1>8 DEF PartDone, Handlers
  <2>2. CASE h[cur].answer < Size
    <3>1. h[cur].answer \in Bytes  BY <2>1, <2>2, Parts DEF Bytes
    <3>2. [Free EXCEPT !.stage = "check", !.at = h[cur].answer] \in Handlers  BY <3>1, Fields
    <3>3. h' \in [Reqs -> Handlers]  BY <3>2, <2>2, <1>1, <1>8 DEF PartDone, Post
    <3>4. RepoTypeOK'  BY <3>3, <2>2, <1>1, <1>8, PageTypes DEF PartDone, Post
    <3> QED  BY <3>4, <2>1, <2>2, <1>8 DEF PartDone, TypeOK
  <2>3. CASE ~(h[cur].answer < Size)
    <3>1. h' \in [Reqs -> Handlers]  BY <2>1, <2>3, <1>3, <1>8 DEF PartDone
    <3>2. RepoTypeOK'  BY <3>1, <2>3, <1>1, <1>8, PageTypes DEF PartDone
    <3> QED  BY <3>2, <2>1, <2>3, <1>8 DEF PartDone, TypeOK, UIs
  <2> QED  BY <2>2, <2>3
<1>9. CASE PartRefused
  <2>1. h' \in [Reqs -> Handlers]  BY <1>3, <1>4, <1>9 DEF PartRefused
  <2>2. RepoTypeOK'  BY <2>1, <1>1, <1>9, PageTypes DEF PartRefused
  <2>3. timers' \in Nat  BY <1>9 DEF PartRefused, TypeOK
  <2> QED  BY <2>2, <2>3, <1>9 DEF PartRefused, TypeOK, UIs
<1>10. cur # NoReq /\ Orphan => h' \in [Reqs -> Handlers]
  BY <1>1, <1>3, <1>4 DEF Orphan
<1>11. CASE RequestFails
  <2>1. RepoTypeOK'  BY <1>1, <1>10, <1>11, PageTypes DEF RequestFails
  <2>2. timers' \in Nat  BY <1>11 DEF RequestFails, TypeOK
  <2> QED  BY <2>1, <2>2, <1>2, <1>11 DEF RequestFails, TypeOK, UIs
<1>12. ASSUME UNCHANGED <<file, raced, removed, ub, timers>>, Fault,
              autoretry' \in BOOLEAN, stopped' \in BOOLEAN,
              IF cur # NoReq THEN Orphan /\ ui' \in {"rejected", "idle"} /\ cur' = NoReq
                             ELSE h' = h /\ cur' = cur /\ ui' \in {ui, "idle"}
       PROVE  TypeOK'
  <2>1. h' \in [Reqs -> Handlers]  BY <1>1, <1>10, <1>12
  <2>2. RepoTypeOK'  BY <2>1, <1>1, <1>12, PageTypes
  <2>3. ui' \in UIs /\ cur' \in Reqs \cup {NoReq} /\ (cur' # NoReq) = (ui' = "sending")
    BY <1>12 DEF TypeOK, UIs
  <2> QED  BY <2>2, <2>3, <1>2, <1>12 DEF TypeOK
<1>13. CASE Cancel  BY <1>12, <1>13 DEF Cancel, TypeOK
<1>14. CASE Discard  BY <1>12, <1>14 DEF Discard, TypeOK
<1>15. CASE Resume
  <2>1. CASE Pending  BY <2>1, <1>15, <1>1 DEF Resume, TypeOK, RepoTypeOK, repoVars, file
  <2>2. CASE ~Pending  BY <2>2, <1>15, <1>1, StartTypes, NoReqOutside DEF Resume, TypeOK, UIs
  <2> QED  BY <2>1, <2>2
<1>16. CASE Reload
  <2>1. h' \in [Reqs -> Handlers]  BY <1>1, <1>10, <1>16 DEF Reload
  <2>2. RepoTypeOK'  BY <2>1, <1>1, <1>16, PageTypes DEF Reload
  <2> QED  BY <2>2, <1>2, <1>16 DEF Reload, TypeOK, UIs
<1>17. CASE Crash
  <2>1. h' \in [Reqs -> Handlers]  BY <1>1, <1>17 DEF Crash
  <2>2. RepoTypeOK'  BY <2>1, <1>1, <1>17, PageTypes DEF Crash
  <2>3. timers' \in Nat  BY <1>17 DEF Crash, TypeOK
  <2> QED  BY <2>2, <2>3, <1>2, <1>17 DEF Crash, TypeOK, UIs
<1>18. CASE Remove
  <2>1. Reqs = {} => RepoTypeOK'  BY <1>1, <1>18 DEF Remove, Delete, RepoTypeOK
  <2>2. RepoTypeOK'  BY <2>1, <1>1, <1>18, HandleTypes DEF Remove
  <2> QED  BY <2>2, <1>2, <1>18 DEF Remove, TypeOK, page
<1>19. CASE \E r \in Reqs : Server(r) \/ ServerFails(r)
  <2>1. RepoTypeOK'  BY <1>1, <1>19, HandleTypes DEF Server, ServerFails
  <2> QED  BY <2>1, <1>2, <1>19 DEF Server, ServerFails, TypeOK, page
<1>20. CASE \E r \in Reqs : OrphanEnds(r)
  <2>1. h' \in [Reqs -> Handlers]  BY <1>3, <1>20 DEF OrphanEnds
  <2>2. RepoTypeOK'  BY <2>1, <1>1, <1>20, PageTypes DEF OrphanEnds
  <2> QED  BY <2>2, <1>20 DEF OrphanEnds, TypeOK, page
<1>21. CASE UNCHANGED vars
  BY <1>21 DEF vars, repoVars, file, page, TypeOK, RepoTypeOK
<1> QED
  BY <1>5, <1>6, <1>7, <1>8, <1>9, <1>11, <1>13, <1>14, <1>15, <1>16, <1>17, <1>18, <1>19, <1>20, <1>21
     DEF Next

(* Every variable keeps to its kind, and the page waits for a request        *)
(* exactly while it is sending (Upload, Repo.Entity.store).                  *)
THEOREM TypeCorrect == Spec => []TypeOK
BY InitTypes, StepTypes, PTL DEF Spec

-----------------------------------------------------------------------------
(* What a step of a handler changes in h.                                    *)
Others(r) == \A o \in Reqs \ {r} : h'[o] = h[o]

LEMMA Moved ==
  ASSUME TypeOK, NEW r \in Reqs, NEW from, NEW to, At(r, from, to)
  PROVE  /\ Others(r) /\ h[r].stage = from /\ h'[r].stage = to
         /\ h'[r].at = h[r].at /\ h'[r].inode = h[r].inode /\ h'[r].seen = h[r].seen
         /\ h'[r].pp = h[r].pp
BY DEF At, Others, TypeOK, RepoTypeOK, Handlers

LEMMA Replied ==
  ASSUME TypeOK, NEW r \in Reqs, NEW a, Reply(r, a)
  PROVE  /\ Others(r) /\ h'[r].stage = "answered" /\ h'[r].at = h[r].at /\ h'[r].answer = a
         /\ h'[r].inode = 0
BY DEF Reply, Others, TypeOK, RepoTypeOK, Free

LEMMA Numbers ==
  ASSUME TypeOK, NEW r \in Reqs
  PROVE  /\ h[r].stage \in Stages /\ h[r].at \in Nat /\ h[r].at \in Bytes /\ h[r].inode \in Nat
         /\ h[r].seen \in Int /\ h[r].pp \in Nat /\ h[r].answer \in Int
         /\ head \in Int /\ gen \in Nat
         /\ Len(h[r].at) \in 1..Chunk /\ h[r].at + Len(h[r].at) \in Nat
         /\ Chunk \in Nat
<1>1. h[r] \in Handlers  BY DEF TypeOK, RepoTypeOK
<1>2. h[r].at \in Bytes  BY <1>1 DEF Handlers
<1>3. h[r].at \in Nat  BY <1>2 DEF Bytes
<1>4. head \in Int /\ gen \in Nat  BY DEF TypeOK, RepoTypeOK
<1> QED  BY <1>1, <1>2, <1>3, <1>4, Parts DEF Handlers

(* Handlers that are neither setting the file up nor appending do not count. *)
LEMMA FileKept ==
  ASSUME FileOK, UNCHANGED <<head, cell, gen>>, exists' => exists,
         \A r \in Reqs : h'[r] = h[r] \/ (~Initialising(r)' /\ ~Opened(r)')
  PROVE  FileOK'
<1>1. \A r \in Reqs : Initialising(r)' \/ Opened(r)' => h'[r] = h[r]  OBVIOUS
<1>2. \A r \in Reqs : h'[r] = h[r] =>
         /\ Initialising(r)' = Initialising(r) /\ Opened(r)' = Opened(r)
         /\ Linked(r)' => Linked(r)
  BY DEF Initialising, Opened, Linked
<1>3. (head # Spoiled)' /\ Tail(head)'  BY DEF FileOK, Tail
<1>4. ASSUME NEW o \in Reqs, Initialising(o)' /\ Linked(o)'
      PROVE  /\ head' = IF h'[o].stage = "head" THEN NoHead ELSE Len(h'[o].at)
             /\ \A r \in Reqs \ {o} : Linked(r)' =>
                  ~Initialising(r)' /\ h'[r].stage # "pos" /\ (h'[r].stage = "write" => h'[r].seen <= Chunk)
  <2>1. h'[o] = h[o] /\ Initialising(o) /\ Linked(o)  BY <1>1, <1>2, <1>4
  <2>2. head' = IF h'[o].stage = "head" THEN NoHead ELSE Len(h'[o].at)  BY <2>1 DEF FileOK
  <2>3. ASSUME NEW r \in Reqs \ {o}, Linked(r)'
        PROVE  ~Initialising(r)' /\ h'[r].stage # "pos" /\ (h'[r].stage = "write" => h'[r].seen <= Chunk)
    <3>1. CASE h'[r] = h[r]
      <4>1. Linked(r)  BY <1>2, <2>3, <3>1
      <4>2. ~Initialising(r) /\ h[r].stage # "pos" /\ (h[r].stage = "write" => h[r].seen <= Chunk)
        BY <2>1, <4>1 DEF FileOK
      <4> QED  BY <4>2, <3>1, <1>2
    <3>2. CASE ~Initialising(r)' /\ ~Opened(r)'  BY <3>2 DEF Opened
    <3> QED  BY <3>1, <3>2
  <2> QED  BY <2>2, <2>3
<1>5. ASSUME NEW r \in Reqs, Opened(r)' /\ Linked(r)'
      PROVE  /\ head' >= 0 /\ h'[r].seen >= 0 /\ Tail(h[r].seen)'
             /\ h'[r] = h[r]
             /\ h'[r].stage = "pos" => Tail(h[r].at + Len(h[r].at))'
  <2>1. h'[r] = h[r] /\ Opened(r) /\ Linked(r)  BY <1>1, <1>2, <1>5
  <2> QED  BY <2>1 DEF FileOK, Tail
<1> QED  BY <1>3, <1>4, <1>5 DEF FileOK, Tail

Inodes == \A r \in Reqs : h[r].inode <= gen

LEMMA InodesStep ==
  ASSUME TypeOK, Inodes, NEW r \in Reqs, Handle(r) \/ HandleFails(r) \/ Delete
  PROVE  Inodes'
<1>1. \A o \in Reqs : h[o].inode \in Nat /\ h[o].inode <= gen  BY Numbers DEF Inodes
<1>2. gen \in Nat /\ h \in [Reqs -> Handlers]  BY DEF TypeOK, RepoTypeOK
<1>3. ASSUME gen' = gen, \A o \in Reqs : h'[o].inode \in {h[o].inode, 0, gen} PROVE Inodes'
  BY <1>1, <1>2, <1>3 DEF Inodes
<1>4. ASSUME NEW from, NEW to, At(r, from, to), gen' = gen PROVE Inodes'
  BY <1>3, <1>4, Moved DEF Others
<1>5. ASSUME NEW a, Reply(r, a), gen' = gen PROVE Inodes'
  BY <1>3, <1>5, Replied DEF Others
<1>6. CASE Check(r)  BY <1>4, <1>6 DEF Check, file
<1>7. CASE CheckSpoiled(r)  BY <1>4, <1>5, <1>7 DEF CheckSpoiled, file
<1>8. CASE Create(r)
  <2>1. gen' \in {gen, gen + 1}  BY <1>8 DEF Create
  <2>2. \A o \in Reqs : h'[o].inode \in {h[o].inode, gen'}  BY <1>2, <1>8 DEF Create
  <2> QED  BY <1>1, <1>2, <2>1, <2>2 DEF Inodes
<1>9. CASE WriteHead(r)  BY <1>4, <1>9 DEF WriteHead
<1>10. CASE WriteData(r)
  <2>1. \A o \in Reqs : h'[o].inode = h[o].inode  BY <1>2, <1>10 DEF WriteData, Handlers
  <2> QED  BY <1>3, <2>1, <1>10 DEF WriteData
<1>11. CASE Pad(r)
  <2>1. \A o \in Reqs : h'[o].inode = h[o].inode  BY <1>2, <1>11 DEF Pad, Handlers
  <2> QED  BY <1>3, <2>1, <1>11 DEF Pad
<1>12. CASE Padded(r)  BY <1>5, <1>12 DEF Padded, file
<1>13. CASE Open(r)
  <2>1. \A o \in Reqs : h'[o].inode \in {h[o].inode, gen}  BY <1>2, <1>13 DEF Open
  <2> QED  BY <1>3, <2>1, <1>13 DEF Open, file
<1>14. CASE WritePart(r)  BY <1>4, <1>14 DEF WritePart
<1>15. CASE SkipPart(r)  BY <1>5, <1>15 DEF SkipPart, file
<1>16. CASE WritePos(r)  BY <1>5, <1>16 DEF WritePos
<1>17. CASE InitialiseFails(r)  BY <1>5, <1>17 DEF InitialiseFails
<1>18. CASE AppendFails(r) \/ RowFails(r)  BY <1>5, <1>18 DEF AppendFails, RowFails, file
<1>19. CASE Deny(r)  BY <1>5, <1>19 DEF Deny, file
<1>20. CASE Delete  BY <1>3, <1>20 DEF Delete
<1> QED
  BY <1>6, <1>7, <1>8, <1>9, <1>10, <1>11, <1>12, <1>13, <1>14, <1>15, <1>16, <1>17, <1>18, <1>19, <1>20
     DEF Handle, HandleFails

-----------------------------------------------------------------------------
(* FileOK and the steps of the handlers.                                     *)
LEMMA CreateFile ==
  ASSUME TypeOK, Inodes, FileOK, NEW r \in Reqs, Create(r), ~raced'
  PROVE  FileOK'
<1>1. /\ h'[r].stage = "head" /\ h'[r].inode = gen' /\ Others(r)
  BY DEF Create, TypeOK, RepoTypeOK, Handlers, Others
<1>2. exists' /\ head' = NoHead  BY DEF Create
<1>3. ASSUME NEW o \in Reqs \ {r}, Linked(o)' PROVE ~Initialising(o)' /\ ~Opened(o)'
  <2>1. CASE exists
    <3>1. Alone(r)  BY <2>1 DEF Create
    <3>2. ~Busy(o)  BY <3>1, <1>3 DEF Alone
    <3> QED  BY <3>2, <1>1, <1>3 DEF Busy, Initialising, Opened, Others
  <2>2. CASE ~exists
    <3>1. h'[o].inode = gen + 1  BY <2>2, <1>3 DEF Create, Linked
    <3>2. h'[o].inode <= gen /\ h'[o].inode \in Nat /\ gen \in Nat
      BY <1>1, <1>3, Numbers DEF Inodes, Others
    <3> QED  BY <3>1, <3>2
  <2> QED  BY <2>1, <2>2
<1>4. Tail(head)' /\ head' # Spoiled
  BY <1>2, Parts DEF Tail, NoHead, Spoiled, Bytes
<1> QED  BY <1>1, <1>2, <1>3, <1>4 DEF FileOK, Opened, Initialising

LEMMA WriteHeadFile ==
  ASSUME TypeOK, FileOK, NEW r \in Reqs, WriteHead(r)
  PROVE  FileOK'
<1>1. /\ h[r].stage = "head" /\ h'[r].stage = "data" /\ h'[r].at = h[r].at
      /\ h'[r].inode = h[r].inode /\ Others(r)
  BY Moved DEF WriteHead
<1>2. /\ head' = IF Linked(r) THEN Len(h[r].at) ELSE head
      /\ exists' = exists /\ gen' = gen /\ cell' = cell
  BY DEF WriteHead
<1>3. Initialising(r) /\ Initialising(r)' /\ Linked(r)' = Linked(r) /\ ~Opened(r)'
  BY <1>1, <1>2 DEF Initialising, Linked, Opened
<1>4. \A o \in Reqs \ {r} :
        Initialising(o)' = Initialising(o) /\ Linked(o)' = Linked(o) /\ Opened(o)' = Opened(o)
  BY <1>1, <1>2 DEF Initialising, Linked, Opened, Others
<1>5. CASE Linked(r)
  <2>1. head = NoHead  BY <1>1, <1>3, <1>5 DEF FileOK
  <2>2. \A o \in Reqs : ~(Opened(o) /\ Linked(o))  BY <2>1 DEF FileOK, NoHead
  <2>3. \A o \in Reqs \ {r} : ~(Initialising(o) /\ Linked(o))
    BY <1>3, <1>5 DEF FileOK
  <2>4. head' = Len(h'[r].at) /\ head' \in 1..Chunk  BY <1>1, <1>2, <1>5, Numbers
  <2>5. head' # Spoiled /\ Tail(head)'  BY <2>4, Parts DEF Spoiled, Tail, Bytes
  <2> QED  BY <1>1, <1>3, <1>4, <2>2, <2>3, <2>4, <2>5 DEF FileOK, Opened, Others
<1>6. CASE ~Linked(r)
  <2>1. head' = head  BY <1>2, <1>6
  <2> QED  BY <1>1, <1>2, <1>3, <1>4, <1>6, <2>1 DEF FileOK, Tail, Others, Opened
<1> QED  BY <1>5, <1>6

(* The bytes from the second part on stay as they are, up to n.              *)
Grows == \A n \in Int : Tail(n) => Tail(n)'

LEMMA WriteDataFile ==
  ASSUME TypeOK, FileOK, NEW r \in Reqs, WriteData(r)
  PROVE  FileOK' /\ Grows
<1>1. /\ h[r].stage = "data" /\ h'[r].stage = "pad" /\ h'[r].at = h[r].at
      /\ h'[r].inode = h[r].inode /\ Others(r)
  BY DEF WriteData, TypeOK, RepoTypeOK, Handlers, Others
<1>2. head' = head /\ exists' = exists /\ gen' = gen
  BY DEF WriteData
<1>3. Initialising(r) /\ Initialising(r)' /\ Linked(r)' = Linked(r) /\ ~Opened(r)'
  BY <1>1, <1>2 DEF Initialising, Linked, Opened
<1>4. \A o \in Reqs \ {r} :
        Initialising(o)' = Initialising(o) /\ Linked(o)' = Linked(o) /\ Opened(o)' = Opened(o)
  BY <1>1, <1>2 DEF Initialising, Linked, Opened, Others
<1>5. \A i \in Bytes : Chunk <= i => cell'[i] = cell[i]
  BY Numbers DEF WriteData, With, Bytes
<1>6. Grows  BY <1>5 DEF Grows, Tail
<1>7. \A o \in Reqs : h[o].seen \in Int /\ h[o].at + Len(h[o].at) \in Int
  BY Numbers
<1>8. head \in Int  BY DEF TypeOK, RepoTypeOK
<1>9. (head # Spoiled)' /\ Tail(head)'  BY <1>2, <1>6, <1>8 DEF FileOK, Grows, Tail
<1>10. ASSUME NEW o \in Reqs, Opened(o)' /\ Linked(o)'
       PROVE  /\ head' >= 0 /\ h'[o].seen >= 0 /\ Tail(h[o].seen)'
              /\ h'[o].stage = "pos" => Tail(h[o].at + Len(h[o].at))'
  <2>1. o # r /\ h'[o] = h[o] /\ Opened(o) /\ Linked(o)  BY <1>1, <1>3, <1>4, <1>10 DEF Others
  <2>2. Tail(h[o].seen) /\ (h[o].stage = "pos" => Tail(h[o].at + Len(h[o].at)))
    BY <2>1 DEF FileOK
  <2> QED  BY <2>1, <2>2, <1>2, <1>6, <1>7 DEF FileOK, Grows, Tail
<1>11. \A o \in Reqs : Initialising(o)' /\ Linked(o)' =>
         /\ head' = IF h'[o].stage = "head" THEN NoHead ELSE Len(h'[o].at)
         /\ \A q \in Reqs \ {o} : Linked(q)' =>
              ~Initialising(q)' /\ h'[q].stage # "pos" /\ (h'[q].stage = "write" => h'[q].seen <= Chunk)
  BY <1>1, <1>2, <1>3, <1>4 DEF FileOK, Others
<1> QED  BY <1>6, <1>9, <1>10, <1>11 DEF FileOK, Tail

LEMMA PadFile ==
  ASSUME TypeOK, FileOK, NEW r \in Reqs, Pad(r)
  PROVE  FileOK'
<1>1. /\ h[r].stage = "pad" /\ h'[r].stage = "pad" /\ h'[r].at = h[r].at
      /\ h'[r].inode = h[r].inode /\ Others(r)
  BY DEF Pad, TypeOK, RepoTypeOK, Handlers, Others
<1>2. head' = head /\ exists' = exists /\ gen' = gen
  BY DEF Pad
<1>3. Initialising(r) /\ Initialising(r)' /\ Linked(r)' = Linked(r) /\ ~Opened(r)'
  BY <1>1, <1>2 DEF Initialising, Linked, Opened
<1>4. \A o \in Reqs \ {r} :
        Initialising(o)' = Initialising(o) /\ Linked(o)' = Linked(o) /\ Opened(o)' = Opened(o)
  BY <1>1, <1>2 DEF Initialising, Linked, Opened, Others
<1>5. \A o \in Reqs : Initialising(o)' /\ Linked(o)' =>
         /\ head' = IF h'[o].stage = "head" THEN NoHead ELSE Len(h'[o].at)
         /\ \A q \in Reqs \ {o} : Linked(q)' =>
              ~Initialising(q)' /\ h'[q].stage # "pos" /\ (h'[q].stage = "write" => h'[q].seen <= Chunk)
  BY <1>1, <1>2, <1>3, <1>4 DEF FileOK, Others
<1>6. CASE Linked(r)
  <2>1. head = Len(h[r].at) /\ head \in 1..Chunk /\ Chunk \in Nat  BY <1>1, <1>3, <1>6, Numbers DEF FileOK
  <2>2. \A n \in Int : n <= Chunk => Tail(n)'  BY <2>1 DEF Tail, Bytes
  <2>3. ASSUME NEW o \in Reqs, Opened(o)' /\ Linked(o)'
        PROVE  /\ head' >= 0 /\ h'[o].seen >= 0 /\ Tail(h[o].seen)' /\ h'[o].stage # "pos"
    <3>1. o # r /\ h'[o] = h[o] /\ Opened(o) /\ Linked(o)  BY <1>1, <1>3, <1>4, <2>3 DEF Others
    <3>2. h[o].stage # "pos" /\ h[o].seen <= Chunk /\ h[o].seen >= 0
      BY <3>1, <1>3, <1>6 DEF FileOK, Opened
    <3> QED  BY <3>1, <3>2, <2>1, <2>2, <1>2, Numbers DEF Tail
  <2>4. (head # Spoiled)' /\ Tail(head)'  BY <1>2, <2>1, <2>2 DEF FileOK, Tail
  <2> QED  BY <2>3, <2>4, <1>5 DEF FileOK, Tail
<1>7. CASE ~Linked(r)
  <2>1. cell' = cell  BY <1>7 DEF Pad
  <2> QED  BY <1>1, <1>2, <1>3, <1>4, <1>5, <2>1 DEF FileOK, Tail, Others
<1> QED  BY <1>6, <1>7

LEMMA OpenFile ==
  ASSUME TypeOK, FileOK, NEW r \in Reqs, Open(r), ~raced'
  PROVE  /\ FileOK' /\ Others(r) /\ h[r].stage = "same" /\ h'[r].stage = "write" /\ h'[r].at = h[r].at
         /\ Linked(r)' /\ head >= 0
<1>1. head # NoHead /\ head # Spoiled /\ head \in Int /\ head >= 0
  <2>1. head # NoHead  BY DEF Open
  <2>2. head # Spoiled  BY DEF FileOK
  <2>3. head \in -2..Size /\ Size \in Nat  BY Parts DEF TypeOK, RepoTypeOK
  <2> QED  BY <2>1, <2>2, <2>3 DEF NoHead, Spoiled
<1>2. /\ h[r].stage = "same" /\ h'[r].stage = "write" /\ h'[r].at = h[r].at
      /\ h'[r].inode = gen /\ h'[r].seen = head /\ Others(r)
  BY <1>1 DEF Open, TypeOK, RepoTypeOK, Handlers, Others
<1>3. exists /\ head' = head /\ exists' = exists /\ gen' = gen /\ cell' = cell
  BY DEF Open, file
<1>4. Linked(r)' /\ ~Initialising(r)' /\ ~Initialising(r) /\ ~Opened(r)
  BY <1>2, <1>3 DEF Linked, Initialising, Opened
<1>5. \A o \in Reqs \ {r} :
        Initialising(o)' = Initialising(o) /\ Linked(o)' = Linked(o) /\ Opened(o)' = Opened(o)
  BY <1>2, <1>3 DEF Initialising, Linked, Opened, Others
<1>6. (head # Spoiled)' /\ Tail(head)'  BY <1>3 DEF FileOK, Tail
<1>7. ASSUME NEW o \in Reqs, Initialising(o)' /\ Linked(o)'
      PROVE  /\ head' = IF h'[o].stage = "head" THEN NoHead ELSE Len(h'[o].at)
             /\ \A q \in Reqs \ {o} : Linked(q)' =>
                  ~Initialising(q)' /\ h'[q].stage # "pos" /\ (h'[q].stage = "write" => h'[q].seen <= Chunk)
  <2>1. o # r  BY <1>4, <1>7 DEF Initialising
  <2>a. h'[o] = h[o] /\ Initialising(o) /\ Linked(o)  BY <2>1, <1>2, <1>5, <1>7 DEF Others
  <2>2. head' = IF h'[o].stage = "head" THEN NoHead ELSE Len(h'[o].at)  BY <1>3, <2>a DEF FileOK
  <2>3. head <= Chunk  BY <1>1, <1>3, <2>a, <2>2, Numbers
  <2>4. \A q \in Reqs \ {o, r} : Linked(q)' =>
          ~Initialising(q)' /\ h'[q].stage # "pos" /\ (h'[q].stage = "write" => h'[q].seen <= Chunk)
    BY <1>5, <1>2, <2>1, <2>a DEF FileOK, Others
  <2> QED  BY <1>2, <1>4, <2>2, <2>3, <2>4
<1>8. ASSUME NEW o \in Reqs, Opened(o)' /\ Linked(o)'
      PROVE  /\ head' >= 0 /\ h'[o].seen >= 0 /\ Tail(h[o].seen)'
             /\ h'[o].stage = "pos" => Tail(h[o].at + Len(h[o].at))'
  <2>1. CASE o = r  BY <1>1, <1>2, <1>3, <1>6, <2>1 DEF Tail
  <2>2. CASE o # r
    <3>1. h'[o] = h[o] /\ Opened(o) /\ Linked(o)  BY <1>2, <1>5, <1>8, <2>2 DEF Others
    <3> QED  BY <1>3, <3>1 DEF FileOK, Tail
  <2> QED  BY <2>1, <2>2
<1> QED  BY <1>1, <1>2, <1>4, <1>6, <1>7, <1>8 DEF FileOK, Tail

LEMMA WritePartFile ==
  ASSUME TypeOK, FileOK, NEW r \in Reqs, WritePart(r), ~raced'
  PROVE  FileOK' /\ Grows
<1>1. /\ h[r].stage = "write" /\ h'[r].stage = "pos" /\ h'[r].at = h[r].at
      /\ h'[r].inode = h[r].inode /\ h'[r].seen = h[r].seen /\ Others(r)
  BY Moved DEF WritePart, InPlace
<1>2. exists' = exists /\ gen' = gen  BY DEF WritePart
<1>3. /\ Linked(r)' = Linked(r) /\ ~Initialising(r)' /\ ~Initialising(r)
      /\ Opened(r) /\ Opened(r)'
  BY <1>1, <1>2 DEF Linked, Initialising, Opened
<1>4. \A o \in Reqs \ {r} :
        Initialising(o)' = Initialising(o) /\ Linked(o)' = Linked(o) /\ Opened(o)' = Opened(o)
  BY <1>1, <1>2 DEF Initialising, Linked, Opened, Others
<1>5. \A o \in Reqs : h[o].seen \in Int /\ h[o].at + Len(h[o].at) \in Int /\ h[o].at \in Int
  BY Numbers
<1>6. head' = head /\ (Linked(r) => cell' = With(r, h[r].at)) /\ (~Linked(r) => cell' = cell)
  <2>1. Linked(r) => h[r].seen # NoHead  BY <1>3, <1>5 DEF FileOK, NoHead
  <2> QED  BY <2>1 DEF WritePart
<1>7. ASSUME Linked(r), NEW i \in Bytes
      PROVE  cell'[i] = IF i >= h[r].at /\ i < h[r].at + Len(h[r].at) THEN i ELSE cell[i]
  <2>1. cell'[i] = IF i >= h[r].at /\ i < h[r].at + Len(h[r].at)
                     THEN h[r].at + (i - h[r].at) ELSE cell[i]
    BY <1>6, <1>7 DEF With
  <2>2. i \in Int  BY DEF Bytes
  <2> QED  BY <2>1, <2>2, <1>5
<1>8. Grows
  <2>1. CASE Linked(r)  BY <1>7, <2>1 DEF Grows, Tail
  <2>2. CASE ~Linked(r)  BY <1>6, <2>2 DEF Grows, Tail
  <2> QED  BY <2>1, <2>2
<1>9. (head # Spoiled)' /\ Tail(head)'
  <2>1. head \in Int  BY DEF TypeOK, RepoTypeOK
  <2> QED  BY <1>6, <1>8, <2>1 DEF FileOK, Grows, Tail
<1>10. ASSUME NEW o \in Reqs, Initialising(o)' /\ Linked(o)'
       PROVE  /\ head' = IF h'[o].stage = "head" THEN NoHead ELSE Len(h'[o].at)
              /\ \A q \in Reqs \ {o} : Linked(q)' =>
                   ~Initialising(q)' /\ h'[q].stage # "pos" /\ (h'[q].stage = "write" => h'[q].seen <= Chunk)
  <2>1. o # r  BY <1>3, <1>10 DEF Initialising
  <2>2. h'[o] = h[o] /\ Initialising(o) /\ Linked(o)  BY <2>1, <1>1, <1>4, <1>10 DEF Others
  <2>3. ~Linked(r)  BY <2>2 DEF WritePart, Linked
  <2> QED  BY <1>1, <1>3, <1>4, <1>6, <2>2, <2>3 DEF FileOK, Others
<1>11. ASSUME NEW o \in Reqs, Opened(o)' /\ Linked(o)'
       PROVE  /\ head' >= 0 /\ h'[o].seen >= 0 /\ Tail(h[o].seen)'
              /\ h'[o].stage = "pos" => Tail(h[o].at + Len(h[o].at))'
  <2>1. Opened(o) /\ Linked(o)  BY <1>3, <1>4, <1>11
  <2>2. h'[o].seen = h[o].seen /\ h'[o].at = h[o].at  BY <1>1 DEF Others
  <2>3. head >= 0 /\ h[o].seen >= 0 /\ Tail(h[o].seen)  BY <2>1 DEF FileOK
  <2>4. Tail(h[o].seen)'  BY <1>5, <1>8, <2>2, <2>3 DEF Grows, Tail
  <2>5. CASE o = r
    <3>1. h[r].seen >= h[r].at
      BY <2>3, <2>5, <1>5 DEF WritePart, InPlace, SeenPos, NoHead
    <3>2. Tail(h[r].at + Len(h[r].at))'
      <4>1. ASSUME NEW i \in Bytes, Chunk <= i, i < h[r].at + Len(h[r].at) PROVE cell'[i] = i
        <5>1. i \in Int  BY DEF Bytes
        <5>2. CASE i < h[r].at
          <6>1. i < h[r].seen  BY <3>1, <5>1, <5>2, <1>5
          <6>2. cell'[i] = i  BY <2>2, <2>4, <2>5, <4>1, <6>1 DEF Tail
          <6> QED  BY <6>2
        <5>3. CASE i >= h[r].at  BY <1>7, <2>1, <2>5, <4>1, <5>3
        <5> QED  BY <5>1, <5>2, <5>3, <1>5
      <4> QED  BY <4>1, <1>1 DEF Tail
    <3> QED  BY <1>6, <2>2, <2>3, <2>4, <2>5, <3>2
  <2>6. CASE o # r
    <3>1. h[o].stage = "pos" => Tail(h[o].at + Len(h[o].at))  BY <2>1 DEF FileOK
    <3>2. h'[o] = h[o]  BY <1>1, <2>6 DEF Others
    <3>3. h'[o].stage = "pos" => Tail(h[o].at + Len(h[o].at))'
      BY <1>5, <1>8, <3>1, <3>2 DEF Grows, Tail
    <3> QED  BY <1>6, <2>2, <2>3, <2>4, <3>3
  <2> QED  BY <2>5, <2>6
<1> QED  BY <1>8, <1>9, <1>10, <1>11 DEF FileOK, Tail

LEMMA WritePosFile ==
  ASSUME TypeOK, FileOK, NEW r \in Reqs, WritePos(r)
  PROVE  FileOK'
<1> DEFINE p == h[r].at + Len(h[r].at)
<1>1. /\ h[r].stage = "pos" /\ h'[r].stage = "answered" /\ Others(r)
      /\ exists' = exists /\ gen' = gen /\ cell' = cell
      /\ head' = IF Linked(r) /\ head >= 0 /\ p > SeenPos(r) THEN p ELSE head
  <2>1. PICK a : Reply(r, a)  BY DEF WritePos
  <2> QED  BY <2>1, Replied DEF WritePos
<1>2. ~Initialising(r)' /\ ~Opened(r)' /\ Opened(r)  BY <1>1 DEF Initialising, Opened
<1>3. \A o \in Reqs \ {r} :
        Initialising(o)' = Initialising(o) /\ Linked(o)' = Linked(o) /\ Opened(o)' = Opened(o)
  BY <1>1 DEF Initialising, Linked, Opened, Others
<1>4. CASE head' = head
  <2>1. \A o \in Reqs : h'[o] = h[o] \/ (~Initialising(o)' /\ ~Opened(o)')
    BY <1>1, <1>2 DEF Others
  <2> QED  BY <1>1, <1>4, <2>1, FileKept
<1>5. CASE head' # head
  <2>1. Linked(r) /\ head' = p /\ p \in Nat  BY <1>1, <1>5, Numbers
  <2>2. Tail(p)  BY <1>1, <1>2, <2>1 DEF FileOK
  <2>3. \A o \in Reqs : ~(Initialising(o) /\ Linked(o))
    BY <1>1, <2>1 DEF FileOK, Initialising
  <2>4. (head # Spoiled)' /\ Tail(head)'  BY <1>1, <2>1, <2>2 DEF Spoiled, Tail
  <2>5. \A o \in Reqs : ~(Initialising(o)' /\ Linked(o)')  BY <1>2, <1>3, <2>3
  <2>6. ASSUME NEW o \in Reqs, Opened(o)' /\ Linked(o)'
        PROVE  /\ head' >= 0 /\ h'[o].seen >= 0 /\ Tail(h[o].seen)'
               /\ h'[o].stage = "pos" => Tail(h[o].at + Len(h[o].at))'
    <3>1. o # r /\ h'[o] = h[o] /\ Opened(o) /\ Linked(o)  BY <1>1, <1>2, <1>3, <2>6 DEF Others
    <3> QED  BY <1>1, <2>1, <3>1 DEF FileOK, Tail
  <2> QED  BY <2>4, <2>5, <2>6 DEF FileOK, Tail
<1> QED  BY <1>4, <1>5

LEMMA FileStep ==
  ASSUME TypeOK, Inodes, FileOK, NEW r \in Reqs, Handle(r) \/ HandleFails(r) \/ Delete, ~raced'
  PROVE  FileOK'
<1>1. ASSUME NEW a, Reply(r, a), UNCHANGED <<gen, head, cell>>, exists' => exists PROVE FileOK'
  <2>1. \A o \in Reqs : h'[o] = h[o] \/ (~Initialising(o)' /\ ~Opened(o)')
    BY <1>1, Replied DEF Others, Initialising, Opened
  <2> QED  BY <1>1, <2>1, FileKept
<1>2. ASSUME NEW from, NEW to, At(r, from, to), to \in {"same", "other"}, UNCHANGED file PROVE FileOK'
  <2>1. \A o \in Reqs : h'[o] = h[o] \/ (~Initialising(o)' /\ ~Opened(o)')
    BY <1>2, Moved DEF Others, Initialising, Opened
  <2> QED  BY <1>2, <2>1, FileKept DEF file
<1>3. CASE Check(r)  BY <1>2, <1>3 DEF Check
<1>4. CASE CheckSpoiled(r)  BY <1>1, <1>2, <1>4 DEF CheckSpoiled, file
<1>5. CASE Padded(r) \/ SkipPart(r) \/ AppendFails(r) \/ RowFails(r) \/ Deny(r) \/ InitialiseFails(r)
  BY <1>1, <1>5 DEF Padded, SkipPart, AppendFails, RowFails, Deny, InitialiseFails, file
<1>6. CASE Delete
  <2>1. h' = h /\ exists' => exists /\ UNCHANGED <<gen, head, cell>>  BY <1>6 DEF Delete
  <2> QED  BY <2>1, <1>6, FileKept DEF Delete
<1> QED
  BY <1>3, <1>4, <1>5, <1>6, CreateFile, WriteHeadFile, WriteDataFile, PadFile, OpenFile,
     WritePartFile, WritePosFile DEF Handle, HandleFails

-----------------------------------------------------------------------------
(* KeptOK and the steps of the handlers.                                     *)

(* What all of them have in common, where nothing the page has been told is  *)
(* lost.                                                                     *)
LEMMA ToldStays ==
  ASSUME TypeOK, KeptOK, NEW r \in Reqs, UNCHANGED page, Others(r), Busy(r), h'[r].at = h[r].at,
         \A n \in Int : n > 0 /\ Told(n) => Told(n)',
         h'[r].stage = "answered" /\ h'[r].answer > 0 => Told(h[r].answer)'
  PROVE  /\ \A o \in Reqs : Busy(o)' /\ h'[o].at > 0 => Told(h[o].at)'
         /\ cur' # NoReq => (h'[cur'].stage = "answered" /\ h'[cur'].answer > 0 => Told(h[cur].answer)')
         /\ ui' = "done" => Told(Size)'
<1>1. \A o \in Reqs : h[o].at \in Int /\ h[o].answer \in Int  BY Numbers
<1>2. ASSUME NEW o \in Reqs, Busy(o)', h'[o].at > 0 PROVE Told(h[o].at)'
  <2>1. Busy(o) /\ h'[o].at = h[o].at  BY <1>2 DEF Busy, Others
  <2>2. Told(h[o].at)  BY <1>2, <2>1 DEF KeptOK
  <2>3. Told(h[o].at)' <=> exists' /\ head' >= 0 /\ Tail(h[o].at)'
          /\ (Front' \/ \E q \in Reqs : h'[q].stage = "data")
          /\ ((\E q \in Reqs : Initialising(q)') => h'[o].at <= Chunk)
    BY DEF Told
  <2>4. ASSUME NEW n \in Int, n = h[o].at PROVE Told(n)' <=> Told(h[o].at)'
    BY <2>1, <2>4 DEF Told, Tail
  <2> QED  BY <1>1, <1>2, <2>1, <2>2, <2>4
<1>3. ASSUME cur # NoReq, h'[cur].stage = "answered" /\ h'[cur].answer > 0 PROVE Told(h[cur].answer)'
  <2>1. cur \in Reqs /\ cur' = cur  BY <1>3 DEF TypeOK, page
  <2>2. CASE cur = r
    <3>1. Told(h[r].answer)'  BY <1>3, <2>2
    <3> QED  BY <2>1, <2>2, <3>1 DEF Told, Tail
  <2>3. CASE cur # r
    <3>1. h'[cur] = h[cur]  BY <2>1, <2>3 DEF Others
    <3>2. Told(h[cur].answer)  BY <1>3, <3>1 DEF KeptOK
    <3>3. ASSUME NEW n \in Int, n = h[cur].answer PROVE Told(n)' <=> Told(h[cur].answer)'
      BY <2>1, <3>1, <3>3 DEF Told, Tail
    <3> QED  BY <1>1, <1>3, <2>1, <3>1, <3>2, <3>3
  <2> QED  BY <2>2, <2>3
<1>4. ASSUME ui' = "done" PROVE Told(Size)'
  <2>1. Told(Size)  BY <1>4 DEF KeptOK, page
  <2> QED  BY <2>1, Parts
<1> QED  BY <1>2, <1>3, <1>4 DEF page

(* A handler that ends, or fails, and leaves the file alone.                 *)
LEMMA QuietKept ==
  ASSUME TypeOK, KeptOK, NEW r \in Reqs, UNCHANGED <<page, file>>, Others(r), Busy(r),
         h'[r].at = h[r].at, h[r].stage # "data", h'[r].stage = "answered",
         h'[r].answer > 0 => Told(h[r].answer)'
  PROVE  KeptOK'
<1>1. UNCHANGED <<exists, gen, head, cell>>  BY DEF file
<1>2. \A o \in Reqs \ {r} :
        Initialising(o)' = Initialising(o) /\ Linked(o)' = Linked(o) /\ Opened(o)' = Opened(o)
          /\ Busy(o)' = Busy(o) /\ h'[o] = h[o]
  BY <1>1 DEF Initialising, Linked, Opened, Others, Busy
<1>3. ~Initialising(r)' /\ ~Opened(r)' /\ ~Busy(r)'  BY DEF Initialising, Opened, Busy
<1>4. Front' = Front /\ \A n \in Int : Tail(n)' = Tail(n)  BY <1>1 DEF Front, Tail
<1>5. (\E o \in Reqs : Initialising(o)') => \E o \in Reqs : Initialising(o)
  BY <1>2, <1>3 DEF Initialising
<1>6. (\E o \in Reqs : h[o].stage = "data") => \E o \in Reqs : h'[o].stage = "data"
  BY <1>2
<1>7. \A n \in Int : n > 0 /\ Told(n) => Told(n)'
  BY <1>1, <1>4, <1>5, <1>6 DEF Told
<1>8. /\ \A o \in Reqs : Initialising(o)' \/ Opened(o)' => Linked(o)'
      /\ \A o \in Reqs : Initialising(o)' => h'[o].at = 0
      /\ \A o \in Reqs : h'[o].stage = "pad" => Front' /\ h'[o].pp >= Chunk
      /\ \A o \in Reqs : h'[o].stage = "pos" => Front'
      /\ \A o \in Reqs : h'[o].stage = "other" =>
           exists' /\ head' = NoHead /\ \A q \in Reqs \ {o} : Busy(q)' => h'[q].stage = "check"
  <2>1. \A o \in Reqs : Initialising(o)' \/ Opened(o)' => o # r
    BY <1>3 DEF Initialising, Opened
  <2>2. \A o \in Reqs : Initialising(o)' \/ Opened(o)' => Linked(o)'  BY <1>2, <2>1 DEF KeptOK
  <2>3. \A o \in Reqs : Initialising(o)' => h'[o].at = 0  BY <1>2, <2>1 DEF KeptOK
  <2>4. \A o \in Reqs : h'[o].stage = "pad" => Front' /\ h'[o].pp >= Chunk
    BY <1>2, <1>4 DEF KeptOK
  <2>5. \A o \in Reqs : h'[o].stage = "pos" => Front'  BY <1>2, <1>4 DEF KeptOK
  <2>6. \A q \in Reqs : Busy(q)' => Busy(q) /\ h'[q] = h[q]
    BY <1>2, <1>3 DEF Busy
  <2>7. \A o \in Reqs : h'[o].stage = "other" =>
          exists' /\ head' = NoHead /\ \A q \in Reqs \ {o} : Busy(q)' => h'[q].stage = "check"
    BY <1>1, <1>2, <2>6 DEF KeptOK
  <2> QED  BY <2>2, <2>3, <2>4, <2>5, <2>7
<1>9. /\ \A o \in Reqs : Busy(o)' /\ h'[o].at > 0 => Told(h[o].at)'
      /\ cur' # NoReq => (h'[cur'].stage = "answered" /\ h'[cur'].answer > 0 => Told(h[cur].answer)')
      /\ ui' = "done" => Told(Size)'
  BY <1>7, ToldStays
<1> QED  BY <1>8, <1>9 DEF KeptOK

LEMMA CheckKept ==
  ASSUME TypeOK, KeptOK, NEW r \in Reqs, UNCHANGED page, Check(r), ~raced'
  PROVE  KeptOK'
<1>1. /\ Others(r) /\ h[r].stage = "check" /\ h'[r].at = h[r].at
      /\ h'[r].stage = IF exists /\ head = NoHead THEN "other" ELSE "same"
  BY Moved DEF Check
<1>2. UNCHANGED <<exists, gen, head, cell>> /\ (exists /\ head = NoHead => Alone(r))
  BY DEF Check, file
<1>3. \A o \in Reqs \ {r} :
        Initialising(o)' = Initialising(o) /\ Linked(o)' = Linked(o) /\ Opened(o)' = Opened(o)
          /\ Busy(o)' = Busy(o) /\ h'[o] = h[o]
  BY <1>1, <1>2 DEF Initialising, Linked, Opened, Others, Busy
<1>4. ~Initialising(r)' /\ ~Opened(r)' /\ ~Initialising(r) /\ ~Opened(r) /\ Busy(r)
  BY <1>1 DEF Initialising, Opened, Busy
<1>5. Front' = Front /\ \A n \in Int : Tail(n)' = Tail(n)  BY <1>2 DEF Front, Tail
<1>6. \A o \in Reqs : Initialising(o)' => Initialising(o) /\ o # r
  BY <1>3, <1>4 DEF Initialising
<1>7. \A n \in Int : n > 0 /\ Told(n) => Told(n)'
  <2>1. (\E o \in Reqs : h[o].stage = "data") => \E o \in Reqs : h'[o].stage = "data"
    BY <1>1, <1>3
  <2> QED  BY <1>2, <1>5, <1>6, <2>1 DEF Told
<1>8. \A o \in Reqs : Initialising(o)' \/ Opened(o)' => Linked(o)'
  BY <1>3, <1>4 DEF KeptOK, Initialising, Opened
<1>9. \A o \in Reqs : Initialising(o)' => h'[o].at = 0  BY <1>3, <1>6 DEF KeptOK
<1>10. \A o \in Reqs : h'[o].stage = "pad" => Front' /\ h'[o].pp >= Chunk
  BY <1>1, <1>3, <1>5 DEF KeptOK
<1>11. \A o \in Reqs : h'[o].stage = "pos" => Front'  BY <1>1, <1>3, <1>5 DEF KeptOK
<1>12. ASSUME NEW o \in Reqs, h'[o].stage = "other"
       PROVE  exists' /\ head' = NoHead /\ \A q \in Reqs \ {o} : Busy(q)' => h'[q].stage = "check"
  <2>1. CASE o = r
    <3>1. exists /\ head = NoHead /\ Alone(r)  BY <1>1, <1>2, <1>12, <2>1
    <3> QED  BY <1>2, <1>3, <2>1, <3>1 DEF Alone
  <2>2. CASE o # r
    <3>1. h[o].stage = "other" /\ exists /\ head = NoHead /\ Busy(o)
      BY <1>3, <1>12, <2>2 DEF KeptOK, Busy
    <3>2. Alone(r)  BY <1>2, <3>1
    <3> QED  BY <2>2, <3>1, <3>2 DEF Alone
  <2> QED  BY <2>1, <2>2
<1>13. /\ \A o \in Reqs : Busy(o)' /\ h'[o].at > 0 => Told(h[o].at)'
       /\ cur' # NoReq => (h'[cur'].stage = "answered" /\ h'[cur'].answer > 0 => Told(h[cur].answer)')
       /\ ui' = "done" => Told(Size)'
  BY <1>1, <1>4, <1>7, ToldStays
<1> QED  BY <1>8, <1>9, <1>10, <1>11, <1>12, <1>13 DEF KeptOK

(* While the file is being made, or before, the page has been told nothing.  *)
LEMMA CreateKept ==
  ASSUME TypeOK, KeptOK, NEW r \in Reqs, UNCHANGED page, Create(r)
  PROVE  KeptOK'
<1>1. /\ h[r].stage \in {"other", "same"} /\ h'[r].stage = "head" /\ h'[r].at = h[r].at
      /\ h'[r].inode = gen' /\ Others(r) /\ exists' /\ head' = NoHead
  BY DEF Create, TypeOK, RepoTypeOK, Handlers, Others
<1>2. ~exists \/ head = NoHead  BY DEF Create, KeptOK
<1>3. \A n : ~Told(n)  BY <1>2 DEF Told, NoHead
<1>4. Busy(r)  BY <1>1 DEF Busy
<1>5. h[r].at = 0
  <2>1. ~(h[r].at > 0)  BY <1>3, <1>4 DEF KeptOK
  <2> QED  BY <2>1, Numbers
<1>6. \A o \in Reqs \ {r} : Busy(o) => h[o].stage \in {"check", "same"}
  <2>1. CASE exists
    <3>1. h[r].stage = "other"  BY <2>1 DEF Create
    <3> QED  BY <3>1 DEF KeptOK
  <2>2. CASE ~exists
    <3>1. \A o \in Reqs : ~Initialising(o) /\ ~Opened(o) /\ h[o].stage # "other"
      BY <2>2 DEF KeptOK, Linked
    <3> QED  BY <3>1, Numbers DEF Initialising, Opened, Busy, Stages
  <2> QED  BY <2>1, <2>2
<1>7. \A o \in Reqs \ {r} : h'[o] = h[o] /\ h'[o].stage \in {"free", "answered", "check", "same"}
  BY <1>1, <1>6, Numbers DEF Busy, Others
<1>8. \A o \in Reqs : Initialising(o)' \/ Opened(o)' => o = r
  BY <1>7 DEF Initialising, Opened
<1>9. Linked(r)'  BY <1>1 DEF Linked
<1>10. \A o \in Reqs : Initialising(o)' \/ Opened(o)' => Linked(o)'
  BY <1>8, <1>9 DEF Linked
<1>11. \A o \in Reqs : Initialising(o)' => h'[o].at = 0  BY <1>1, <1>5, <1>8
<1>12. \A o \in Reqs : h'[o].stage \notin {"pad", "pos", "other"}  BY <1>1, <1>7
<1>13. /\ \A o \in Reqs : Busy(o)' /\ h'[o].at > 0 => Told(h[o].at)'
       /\ cur' # NoReq => (h'[cur'].stage = "answered" /\ h'[cur'].answer > 0 => Told(h[cur].answer)')
       /\ ui' = "done" => Told(Size)'
  BY <1>1, <1>3, <1>4, ToldStays
<1> QED  BY <1>10, <1>11, <1>12, <1>13 DEF KeptOK

LEMMA WriteHeadKept ==
  ASSUME TypeOK, FileOK, KeptOK, NEW r \in Reqs, UNCHANGED page, WriteHead(r)
  PROVE  KeptOK'
<1>1. /\ h[r].stage = "head" /\ h'[r].stage = "data" /\ h'[r].at = h[r].at
      /\ h'[r].inode = h[r].inode /\ Others(r)
  BY Moved DEF WriteHead
<1>2. exists' = exists /\ gen' = gen /\ cell' = cell  BY DEF WriteHead
<1>3. Initialising(r) /\ Linked(r) /\ Busy(r)  BY <1>1 DEF Initialising, KeptOK, Busy
<1>4. head = NoHead  BY <1>1, <1>3 DEF FileOK
<1>5. \A n : ~Told(n)  BY <1>4 DEF Told, NoHead
<1>6. \A o \in Reqs \ {r} : ~Initialising(o) /\ ~Opened(o) /\ h[o].stage # "other"
  <2> SUFFICES ASSUME NEW o \in Reqs \ {r}
               PROVE  ~Initialising(o) /\ ~Opened(o) /\ h[o].stage # "other"
    OBVIOUS
  <2>1. ~Initialising(o)  BY <1>3 DEF FileOK, KeptOK
  <2>2. ~Opened(o)  BY <1>4 DEF FileOK, KeptOK, NoHead
  <2>3. h[o].stage # "other"  BY <1>1, <1>3 DEF KeptOK
  <2> QED  BY <2>1, <2>2, <2>3
<1>7. \A o \in Reqs \ {r} : h'[o] = h[o] /\ ~Initialising(o)' /\ ~Opened(o)' /\ h'[o].stage # "other"
  BY <1>1, <1>6 DEF Others, Initialising, Opened
<1>8. Linked(r)' /\ h'[r].at = 0 /\ ~Opened(r)'
  BY <1>1, <1>2, <1>3 DEF Linked, KeptOK, Opened
<1>9. \A o \in Reqs : Initialising(o)' \/ Opened(o)' => Linked(o)'
  BY <1>7, <1>8 DEF Initialising, Opened, Linked
<1>10. \A o \in Reqs : Initialising(o)' => h'[o].at = 0
  BY <1>7, <1>8 DEF Initialising
<1>11. \A o \in Reqs : h'[o].stage \notin {"pad", "pos", "other"}
  BY <1>1, <1>7 DEF Initialising, Opened
<1>12. /\ \A o \in Reqs : Busy(o)' /\ h'[o].at > 0 => Told(h[o].at)'
       /\ cur' # NoReq => (h'[cur'].stage = "answered" /\ h'[cur'].answer > 0 => Told(h[cur].answer)')
       /\ ui' = "done" => Told(Size)'
  BY <1>1, <1>3, <1>5, ToldStays
<1> QED  BY <1>9, <1>10, <1>11, <1>12 DEF KeptOK

LEMMA WriteDataKept ==
  ASSUME TypeOK, FileOK, KeptOK, NEW r \in Reqs, UNCHANGED page, WriteData(r)
  PROVE  KeptOK'
<1>1. /\ h[r].stage = "data" /\ h'[r].stage = "pad" /\ h'[r].at = h[r].at
      /\ h'[r].inode = h[r].inode /\ h'[r].pp = Len(h[r].at) /\ Others(r)
  BY DEF WriteData, TypeOK, RepoTypeOK, Handlers, Others
<1>2. head' = head /\ exists' = exists /\ gen' = gen  BY DEF WriteData
<1>3. Initialising(r) /\ Linked(r) /\ Busy(r) /\ h[r].at = 0 /\ Len(h[r].at) = Chunk
  BY <1>1, Parts DEF Initialising, KeptOK, Busy
<1>4. Front'
  <2>1. ASSUME NEW i \in Bytes, i < Chunk PROVE cell'[i] = i
    <3>1. cell'[i] = IF i >= 0 /\ i < 0 + Chunk THEN 0 + (i - 0) ELSE cell[i]
      BY <1>3 DEF WriteData, With
    <3> QED  BY <2>1, <3>1, Parts DEF Bytes
  <2> QED  BY <2>1 DEF Front
<1>5. Grows  BY WriteDataFile
<1>6. \A o \in Reqs : Initialising(o)' => Initialising(o)
  BY <1>1 DEF Initialising, Others
<1>7. \A n \in Int : n > 0 /\ Told(n) => Told(n)'
  BY <1>2, <1>4, <1>5, <1>6 DEF Told, Grows
<1>8. \A o \in Reqs \ {r} : h'[o] = h[o] /\ Linked(o)' = Linked(o)
  BY <1>1, <1>2 DEF Others, Linked
<1>9. Linked(r)' /\ h'[r].at = 0  BY <1>1, <1>2, <1>3 DEF Linked
<1>10. \A o \in Reqs : Initialising(o)' \/ Opened(o)' => Linked(o)'
  BY <1>8, <1>9 DEF KeptOK, Initialising, Opened, Linked
<1>11. \A o \in Reqs : Initialising(o)' => h'[o].at = 0
  BY <1>8, <1>9 DEF KeptOK, Initialising
<1>12. \A o \in Reqs : h'[o].stage = "pad" => Front' /\ h'[o].pp >= Chunk
  BY <1>1, <1>3, <1>4, <1>8, Parts DEF KeptOK
<1>13. \A o \in Reqs : h'[o].stage = "pos" => Front'  BY <1>4
<1>14. \A o \in Reqs : h'[o].stage # "other"
  BY <1>1, <1>3, <1>8 DEF KeptOK
<1>15. /\ \A o \in Reqs : Busy(o)' /\ h'[o].at > 0 => Told(h[o].at)'
       /\ cur' # NoReq => (h'[cur'].stage = "answered" /\ h'[cur'].answer > 0 => Told(h[cur].answer)')
       /\ ui' = "done" => Told(Size)'
  BY <1>1, <1>3, <1>7, ToldStays
<1> QED  BY <1>10, <1>11, <1>12, <1>13, <1>14, <1>15 DEF KeptOK

LEMMA PadKept ==
  ASSUME TypeOK, FileOK, KeptOK, NEW r \in Reqs, UNCHANGED page, Pad(r)
  PROVE  KeptOK'
<1>1. /\ h[r].stage = "pad" /\ h'[r].stage = "pad" /\ h'[r].at = h[r].at
      /\ h'[r].inode = h[r].inode /\ h'[r].pp = h[r].pp + 1 /\ Others(r)
  BY DEF Pad, TypeOK, RepoTypeOK, Handlers, Others
<1>2. head' = head /\ exists' = exists /\ gen' = gen  BY DEF Pad
<1>3. Initialising(r) /\ Linked(r) /\ Busy(r) /\ Front /\ h[r].pp >= Chunk
  BY <1>1 DEF Initialising, KeptOK, Busy
<1>4. cell' = [cell EXCEPT ![h[r].pp] = Junk] /\ h[r].pp \in Nat
  BY <1>3, Numbers DEF Pad
<1>5. Front'
  <2>1. ASSUME NEW i \in Bytes, i < Chunk PROVE cell'[i] = cell[i]
    <3>1. i # h[r].pp  BY <2>1, <1>3, <1>4, Parts DEF Bytes
    <3>2. cell \in [Bytes -> -2..(Size - 1)]  BY DEF TypeOK, RepoTypeOK
    <3> QED  BY <3>1, <3>2, <1>4
  <2> QED  BY <2>1, <1>3 DEF Front
<1>6. \A o \in Reqs : Initialising(o)' = Initialising(o)
  BY <1>1 DEF Initialising, Others
<1>7. \A n \in Int : n > 0 /\ Told(n) => Told(n)'
  <2>1. \A n \in Int : Told(n) => n <= Chunk  BY <1>3 DEF Told
  <2>2. \A n \in Int : n <= Chunk => Tail(n)'  BY Parts DEF Tail, Bytes
  <2> QED  BY <1>2, <1>5, <1>6, <2>1, <2>2 DEF Told
<1>8. \A o \in Reqs \ {r} : h'[o] = h[o] /\ Linked(o)' = Linked(o)
  BY <1>1, <1>2 DEF Others, Linked
<1>9. Linked(r)' /\ h'[r].at = 0  BY <1>1, <1>2, <1>3 DEF Linked, KeptOK
<1>10. \A o \in Reqs : Initialising(o)' \/ Opened(o)' => Linked(o)'
  BY <1>8, <1>9 DEF KeptOK, Initialising, Opened, Linked
<1>11. \A o \in Reqs : Initialising(o)' => h'[o].at = 0
  BY <1>8, <1>9 DEF KeptOK, Initialising
<1>12. \A o \in Reqs : h'[o].stage = "pad" => Front' /\ h'[o].pp >= Chunk
  BY <1>1, <1>3, <1>4, <1>5, <1>8, Parts DEF KeptOK
<1>13. \A o \in Reqs : h'[o].stage = "pos" => Front'  BY <1>5
<1>14. \A o \in Reqs : h'[o].stage # "other"
  BY <1>1, <1>3, <1>8 DEF KeptOK
<1>15. /\ \A o \in Reqs : Busy(o)' /\ h'[o].at > 0 => Told(h[o].at)'
       /\ cur' # NoReq => (h'[cur'].stage = "answered" /\ h'[cur'].answer > 0 => Told(h[cur].answer)')
       /\ ui' = "done" => Told(Size)'
  BY <1>1, <1>3, <1>7, ToldStays
<1> QED  BY <1>10, <1>11, <1>12, <1>13, <1>14, <1>15 DEF KeptOK

LEMMA OpenKept ==
  ASSUME TypeOK, FileOK, KeptOK, NEW r \in Reqs, UNCHANGED page, Open(r), ~raced'
  PROVE  KeptOK'
<1>1. /\ Others(r) /\ h[r].stage = "same" /\ h'[r].stage = "write" /\ h'[r].at = h[r].at
      /\ Linked(r)' /\ head >= 0
  BY OpenFile
<1>2. UNCHANGED <<exists, gen, head, cell>>  BY DEF Open, file
<1>3. \A o \in Reqs \ {r} : h'[o] = h[o] /\ Linked(o)' = Linked(o)
  BY <1>1, <1>2 DEF Others, Linked
<1>4. Busy(r) /\ ~Initialising(r)' /\ h'[r].stage = "write"  BY <1>1 DEF Busy, Initialising
<1>5. Front' = Front /\ \A n \in Int : Tail(n)' = Tail(n)  BY <1>2 DEF Front, Tail
<1>6. \A o \in Reqs : Initialising(o)' => Initialising(o) /\ o # r
  BY <1>3, <1>4 DEF Initialising
<1>7. \A n \in Int : n > 0 /\ Told(n) => Told(n)'
  <2>1. (\E o \in Reqs : h[o].stage = "data") => \E o \in Reqs : h'[o].stage = "data"
    BY <1>1, <1>3
  <2> QED  BY <1>2, <1>5, <1>6, <2>1 DEF Told
<1>8. \A o \in Reqs : Initialising(o)' \/ Opened(o)' => Linked(o)'
  BY <1>1, <1>3 DEF KeptOK, Initialising, Opened, Linked
<1>9. \A o \in Reqs : Initialising(o)' => h'[o].at = 0  BY <1>3, <1>6 DEF KeptOK
<1>10. \A o \in Reqs : h'[o].stage = "pad" => Front' /\ h'[o].pp >= Chunk
  BY <1>1, <1>3, <1>5 DEF KeptOK
<1>11. \A o \in Reqs : h'[o].stage = "pos" => Front'  BY <1>1, <1>3, <1>5 DEF KeptOK
<1>12. \A o \in Reqs : h'[o].stage # "other"
  <2>1. \A o \in Reqs \ {r} : h[o].stage # "other"  BY <1>1, <1>4 DEF KeptOK
  <2> QED  BY <1>1, <1>3, <2>1
<1>13. /\ \A o \in Reqs : Busy(o)' /\ h'[o].at > 0 => Told(h[o].at)'
       /\ cur' # NoReq => (h'[cur'].stage = "answered" /\ h'[cur'].answer > 0 => Told(h[cur].answer)')
       /\ ui' = "done" => Told(Size)'
  BY <1>1, <1>4, <1>7, ToldStays
<1> QED  BY <1>8, <1>9, <1>10, <1>11, <1>12, <1>13 DEF KeptOK

LEMMA WritePartKept ==
  ASSUME TypeOK, FileOK, KeptOK, NEW r \in Reqs, UNCHANGED page, WritePart(r), ~raced'
  PROVE  KeptOK'
<1>1. /\ h[r].stage = "write" /\ h'[r].stage = "pos" /\ h'[r].at = h[r].at
      /\ h'[r].inode = h[r].inode /\ Others(r)
  BY Moved DEF WritePart, InPlace
<1>2. exists' = exists /\ gen' = gen  BY DEF WritePart
<1>3. Linked(r) /\ Busy(r) /\ Opened(r)  BY <1>1 DEF KeptOK, Opened, Busy
<1>4. \A o \in Reqs : ~Initialising(o)
  BY <1>3 DEF WritePart, KeptOK, Linked
<1>5. \A o \in Reqs : ~Initialising(o)' /\ h[o].stage # "data" /\ h'[o].stage # "data"
  BY <1>1, <1>4 DEF Initialising, Others
<1>6. h[r].seen >= 0 /\ h[r].seen # NoHead  BY <1>3, Numbers DEF FileOK, NoHead
<1>7. head' = head /\ cell' = With(r, h[r].at)  BY <1>3, <1>6 DEF WritePart
<1>8. Front'
  <2>1. ASSUME NEW i \in Bytes, i < Chunk PROVE cell'[i] = i
    <3>1. cell'[i] = IF i >= h[r].at /\ i < h[r].at + Len(h[r].at)
                       THEN h[r].at + (i - h[r].at) ELSE cell[i]
      BY <1>7 DEF With
    <3>2. h[r].at \in Nat /\ i \in Int  BY Numbers DEF Bytes
    <3>3. CASE h[r].at = 0
      <4>1. i >= h[r].at /\ i < h[r].at + Len(h[r].at)  BY <3>3, <2>1, Parts DEF Bytes
      <4> QED  BY <3>1, <3>2, <4>1
    <3>4. CASE h[r].at > 0
      <4>1. Told(h[r].at)  BY <1>3, <3>4 DEF KeptOK
      <4>2. Front  BY <4>1, <1>5 DEF Told
      <4>3. cell[i] = i  BY <4>2, <2>1 DEF Front
      <4> QED  BY <3>1, <3>2, <4>3
    <3> QED  BY <3>2, <3>3, <3>4
  <2> QED  BY <2>1 DEF Front
<1>9. Grows  BY WritePartFile
<1>10. \A n \in Int : n > 0 /\ Told(n) => Told(n)'
  BY <1>2, <1>5, <1>7, <1>8, <1>9 DEF Told, Grows
<1>11. \A o \in Reqs \ {r} : h'[o] = h[o] /\ Linked(o)' = Linked(o)
  BY <1>1, <1>2 DEF Others, Linked
<1>12. Linked(r)'  BY <1>1, <1>2, <1>3 DEF Linked
<1>13. \A o \in Reqs : Initialising(o)' \/ Opened(o)' => Linked(o)'
  BY <1>11, <1>12 DEF KeptOK, Initialising, Opened, Linked
<1>14. \A o \in Reqs : h'[o].stage # "pad"  BY <1>5 DEF Initialising
<1>15. \A o \in Reqs : h'[o].stage # "other"
  BY <1>1, <1>3, <1>11 DEF KeptOK
<1>16. /\ \A o \in Reqs : Busy(o)' /\ h'[o].at > 0 => Told(h[o].at)'
       /\ cur' # NoReq => (h'[cur'].stage = "answered" /\ h'[cur'].answer > 0 => Told(h[cur].answer)')
       /\ ui' = "done" => Told(Size)'
  BY <1>1, <1>3, <1>10, ToldStays
<1> QED  BY <1>5, <1>8, <1>13, <1>14, <1>15, <1>16 DEF KeptOK

LEMMA SkipPartKept ==
  ASSUME TypeOK, FileOK, KeptOK, NEW r \in Reqs, UNCHANGED page, SkipPart(r)
  PROVE  KeptOK'
<1>1. /\ h[r].stage = "write" /\ h'[r].stage = "answered" /\ h'[r].at = h[r].at
      /\ h'[r].answer = SeenPos(r) /\ Others(r)
  BY Replied DEF SkipPart
<1>2. UNCHANGED <<exists, gen, head, cell>>  BY DEF SkipPart, file
<1>3. Linked(r) /\ Busy(r) /\ Opened(r)  BY <1>1 DEF KeptOK, Opened, Busy
<1>4. h[r].seen >= 0 /\ Tail(h[r].seen) /\ SeenPos(r) = h[r].seen /\ h[r].at > h[r].seen
  BY <1>1, <1>3, Numbers DEF FileOK, NoHead, SeenPos, SkipPart, InPlace
<1>5. Told(h[r].at)  BY <1>3, <1>4, Numbers DEF KeptOK
<1>6. \A o \in Reqs \ {r} : h'[o] = h[o]  BY <1>1 DEF Others
<1>7. Told(h[r].answer)'
  <2>1. exists' /\ head' >= 0  BY <1>2, <1>5 DEF Told
  <2>2. Tail(h[r].answer)'  BY <1>1, <1>2, <1>4 DEF Tail
  <2>3. Front' \/ \E o \in Reqs : h'[o].stage = "data"
    <3>1. Front' = Front  BY <1>2 DEF Front
    <3>2. (\E o \in Reqs : h[o].stage = "data") => \E o \in Reqs : h'[o].stage = "data"
      BY <1>1, <1>6
    <3> QED  BY <1>5, <3>1, <3>2 DEF Told
  <2>4. ASSUME NEW o \in Reqs, Initialising(o)' PROVE h'[r].answer <= Chunk
    <3>1. o # r  BY <1>1, <2>4 DEF Initialising
    <3>2. Initialising(o) /\ Linked(o)  BY <1>6, <2>4, <3>1 DEF Initialising, KeptOK
    <3>3. h[r].seen <= Chunk  BY <1>1, <1>3, <3>1, <3>2 DEF FileOK
    <3> QED  BY <1>1, <1>4, <3>3
  <2> QED  BY <2>1, <2>2, <2>3, <2>4 DEF Told
<1> QED  BY <1>1, <1>3, <1>7, QuietKept DEF SkipPart

LEMMA PaddedKept ==
  ASSUME TypeOK, FileOK, KeptOK, NEW r \in Reqs, UNCHANGED page, Padded(r)
  PROVE  KeptOK'
<1>1. /\ h[r].stage = "pad" /\ h'[r].stage = "answered" /\ h'[r].at = h[r].at
      /\ h'[r].answer = Len(h[r].at) /\ Others(r)
  BY Replied DEF Padded
<1>2. UNCHANGED <<exists, gen, head, cell>>  BY DEF Padded, file
<1>3. Linked(r) /\ Busy(r) /\ Initialising(r) /\ Front  BY <1>1 DEF KeptOK, Initialising, Busy
<1>4. h'[r].answer = Chunk  BY <1>1, <1>3, Parts DEF KeptOK
<1>5. Told(h[r].answer)'
  <2>1. exists' /\ head' >= 0
    <3>1. head = Len(h[r].at)  BY <1>1, <1>3 DEF FileOK
    <3> QED  BY <1>2, <1>3, <3>1, Numbers DEF Linked
  <2>2. Tail(h[r].answer)'  BY <1>4, Parts DEF Tail, Bytes
  <2>3. Front'  BY <1>2, <1>3 DEF Front
  <2>4. h'[r].answer <= Chunk  BY <1>4, Parts
  <2> QED  BY <2>1, <2>2, <2>3, <2>4 DEF Told
<1> QED  BY <1>1, <1>3, <1>5, QuietKept DEF Padded

LEMMA WritePosKept ==
  ASSUME TypeOK, FileOK, KeptOK, NEW r \in Reqs, UNCHANGED page, WritePos(r)
  PROVE  KeptOK'
<1> DEFINE p == h[r].at + Len(h[r].at)
<1>1. /\ h[r].stage = "pos" /\ h'[r].stage = "answered" /\ h'[r].at = h[r].at /\ Others(r)
      /\ h'[r].answer = (IF p > SeenPos(r) THEN p ELSE SeenPos(r))
      /\ exists' = exists /\ gen' = gen /\ cell' = cell
      /\ head' = IF Linked(r) /\ head >= 0 /\ p > SeenPos(r) THEN p ELSE head
  BY Replied DEF WritePos
<1>2. Linked(r) /\ Busy(r) /\ Opened(r) /\ Front  BY <1>1 DEF KeptOK, Opened, Busy
<1>3. h[r].seen >= 0 /\ Tail(h[r].seen) /\ SeenPos(r) = h[r].seen /\ Tail(p) /\ head >= 0
  BY <1>1, <1>2, Numbers DEF FileOK, NoHead, SeenPos
<1>4. head' >= 0 /\ head' # NoHead /\ head # NoHead  BY <1>1, <1>3, Numbers DEF NoHead
<1>5. \A o \in Reqs : ~Initialising(o)
  <2>1. ASSUME NEW o \in Reqs, Initialising(o) PROVE FALSE
    <3>1. Linked(o) /\ o # r  BY <1>1, <2>1 DEF KeptOK, Initialising
    <3> QED  BY <1>1, <1>2, <2>1, <3>1 DEF FileOK
  <2> QED  BY <2>1
<1>6. \A o \in Reqs : ~Initialising(o)' /\ h[o].stage # "data" /\ h'[o].stage \notin {"data", "pad"}
  BY <1>1, <1>5 DEF Initialising, Others
<1>7. Front' /\ \A n \in Int : Tail(n)' = Tail(n)  BY <1>1, <1>2 DEF Front, Tail
<1>8. \A n \in Int : n > 0 /\ Told(n) => Told(n)'
  BY <1>1, <1>4, <1>6, <1>7 DEF Told
<1>9. Told(h[r].answer)'
  <2>1. Tail(h[r].answer)'  BY <1>1, <1>3 DEF Tail
  <2> QED  BY <1>1, <1>2, <1>4, <1>6, <1>7, <2>1 DEF Told, Linked
<1>10. \A o \in Reqs \ {r} : h'[o] = h[o] /\ Linked(o)' = Linked(o)
  BY <1>1 DEF Others, Linked
<1>11. \A o \in Reqs : Initialising(o)' \/ Opened(o)' => Linked(o)'
  BY <1>1, <1>6, <1>10 DEF KeptOK, Opened
<1>12. \A o \in Reqs : h'[o].stage # "other"
  BY <1>1, <1>4, <1>10 DEF KeptOK
<1>13. /\ \A o \in Reqs : Busy(o)' /\ h'[o].at > 0 => Told(h[o].at)'
       /\ cur' # NoReq => (h'[cur'].stage = "answered" /\ h'[cur'].answer > 0 => Told(h[cur].answer)')
       /\ ui' = "done" => Told(Size)'
  BY <1>1, <1>2, <1>8, <1>9, ToldStays
<1> QED  BY <1>6, <1>7, <1>11, <1>12, <1>13 DEF KeptOK

LEMMA KeptStep ==
  ASSUME TypeOK, FileOK, KeptOK, NEW r \in Reqs, Handle(r) \/ HandleFails(r) \/ Delete,
         UNCHANGED page, ~raced', ~removed'
  PROVE  KeptOK'
<1>1. ASSUME NEW a, Reply(r, a), ~(a > 0), UNCHANGED file, h[r].stage \in {"check", "pad", "write", "pos"}
      PROVE  KeptOK'
  BY <1>1, Replied, QuietKept DEF Busy
<1>2. CASE CheckSpoiled(r)  BY <1>2 DEF CheckSpoiled, FileOK
<1>3. CASE AppendFails(r) \/ RowFails(r) \/ Deny(r)
  BY <1>1, <1>3 DEF AppendFails, RowFails, Deny, Refused, Denied
<1>4. CASE InitialiseFails(r) \/ Delete  BY <1>4 DEF InitialiseFails, Delete
<1> QED
  BY <1>2, <1>3, <1>4, CheckKept, CreateKept, WriteHeadKept, WriteDataKept, PadKept, PaddedKept,
     OpenKept, WritePartKept, SkipPartKept, WritePosKept DEF Handle, HandleFails

-----------------------------------------------------------------------------
(* The steps of the page: handlers are begun or forgotten, the file stays.   *)
Begun(r) == h'[r].stage = "check" /\ h'[r].inode = 0
Dropped(r) == h'[r].stage = "free" /\ h'[r].inode = 0

LEMMA PageFile ==
  ASSUME TypeOK, Inodes, UNCHANGED file, \A r \in Reqs : h'[r] = h[r] \/ Begun(r) \/ Dropped(r)
  PROVE  Inodes' /\ (FileOK => FileOK')
<1>1. \A r \in Reqs : h[r].inode <= gen /\ gen' = gen /\ gen \in Nat
  BY DEF Inodes, file, TypeOK, RepoTypeOK
<1>2. Inodes'  BY <1>1 DEF Inodes, Begun, Dropped
<1>3. \A r \in Reqs : h'[r] = h[r] \/ (~Initialising(r)' /\ ~Opened(r)')
  BY DEF Begun, Dropped, Initialising, Opened
<1> QED  BY <1>2, <1>3, FileKept DEF file

LEMMA PageKept ==
  ASSUME TypeOK, KeptOK, UNCHANGED file,
         \A r \in Reqs : h'[r] = h[r] \/ (~Busy(r) /\ (Begun(r) \/ Dropped(r))),
         \A r \in Reqs : Begun(r) /\ h'[r].at > 0 => h'[r] = h[r] \/ Told(h[r].at)',
         cur' # NoReq => h'[cur'].stage # "answered" \/ (cur' = cur /\ h'[cur'] = h[cur]),
         ui' = "done" => Told(Size)
  PROVE  KeptOK'
<1>1. UNCHANGED <<exists, gen, head, cell>>  BY DEF file
<1>2. \A r \in Reqs : h'[r] = h[r] =>
        Initialising(r)' = Initialising(r) /\ Linked(r)' = Linked(r) /\ Opened(r)' = Opened(r)
          /\ Busy(r)' = Busy(r)
  BY <1>1 DEF Initialising, Linked, Opened, Busy
<1>3. \A r \in Reqs : Begun(r) \/ Dropped(r) =>
        ~Initialising(r)' /\ ~Opened(r)' /\ h'[r].stage \in {"check", "free"}
  BY DEF Begun, Dropped, Initialising, Opened
<1>4. \A r \in Reqs : Initialising(r)' => Initialising(r) /\ h'[r] = h[r]
  BY <1>2, <1>3
<1>5. (\E r \in Reqs : h[r].stage = "data") => \E r \in Reqs : h'[r].stage = "data"
  <2>1. \A r \in Reqs : h[r].stage = "data" => h'[r] = h[r]  BY DEF Busy
  <2> QED  BY <2>1
<1>6. Front' = Front /\ \A n \in Int : Tail(n)' = Tail(n)  BY <1>1 DEF Front, Tail
<1>7. \A n \in Int : Told(n) => Told(n)'
  BY <1>1, <1>4, <1>5, <1>6 DEF Told
<1>8. \A r \in Reqs : h[r].at \in Int /\ h[r].answer \in Int  BY Numbers
<1>9. \A r \in Reqs : Initialising(r)' \/ Opened(r)' => Linked(r)'
  BY <1>2, <1>3 DEF KeptOK
<1>10. \A r \in Reqs : Initialising(r)' => h'[r].at = 0  BY <1>4 DEF KeptOK
<1>11. \A r \in Reqs : h'[r].stage = "pad" => Front' /\ h'[r].pp >= Chunk
  BY <1>3, <1>6 DEF KeptOK
<1>12. \A r \in Reqs : h'[r].stage = "pos" => Front'  BY <1>3, <1>6 DEF KeptOK
<1>13. ASSUME NEW r \in Reqs, h'[r].stage = "other"
       PROVE  exists' /\ head' = NoHead /\ \A q \in Reqs \ {r} : Busy(q)' => h'[q].stage = "check"
  <2>1. h[r].stage = "other"  BY <1>3, <1>13
  <2>2. exists /\ head = NoHead /\ \A q \in Reqs \ {r} : Busy(q) => h[q].stage = "check"
    BY <2>1 DEF KeptOK
  <2>3. ASSUME NEW q \in Reqs \ {r}, Busy(q)' PROVE h'[q].stage = "check"
    <3>1. CASE h'[q] = h[q]  BY <2>2, <2>3, <3>1, <1>2
    <3>2. CASE Begun(q) \/ Dropped(q)  BY <2>3, <3>2 DEF Busy, Begun, Dropped
    <3> QED  BY <3>1, <3>2
  <2> QED  BY <1>1, <2>2, <2>3
<1>14. ASSUME NEW n \in Int, Told(n), NEW r \in Reqs, h'[r].at = n PROVE Told(h[r].at)'
  <2>1. Told(n)'  BY <1>7, <1>14
  <2> QED  BY <2>1, <1>14 DEF Told, Tail
<1>15. ASSUME NEW r \in Reqs, Busy(r)', h'[r].at > 0 PROVE Told(h[r].at)'
  <2>1. CASE h'[r] = h[r]
    <3>1. Told(h[r].at)  BY <1>2, <1>15, <2>1 DEF KeptOK
    <3> QED  BY <1>8, <1>14, <2>1, <3>1
  <2>2. CASE h'[r] # h[r]
    <3>1. Begun(r)  BY <1>15, <2>2 DEF Busy, Dropped
    <3> QED  BY <1>15, <2>2, <3>1
  <2> QED  BY <2>1, <2>2
<1>16. ASSUME cur' # NoReq, h'[cur'].stage = "answered", h'[cur'].answer > 0 PROVE Told(h[cur].answer)'
  <2>1. cur' = cur /\ h'[cur] = h[cur] /\ cur \in Reqs  BY <1>16 DEF TypeOK
  <2>2. Told(h[cur].answer)  BY <1>16, <2>1 DEF KeptOK
  <2>3. ASSUME NEW n \in Int, n = h[cur].answer, Told(n)' PROVE Told(h[cur].answer)'
    BY <2>1, <2>3 DEF Told, Tail
  <2> QED  BY <1>7, <1>8, <2>1, <2>2, <2>3
<1>17. ui' = "done" => Told(Size)'  BY <1>7, Parts
<1> QED  BY <1>9, <1>10, <1>11, <1>12, <1>13, <1>15, <1>16, <1>17 DEF KeptOK

(* A fresh start after a removal: no handler of the time before is at work.  *)
LEMMA Afresh ==
  ASSUME \A r \in Reqs : Busy(r)' => h'[r].stage = "check" /\ h'[r].at = 0,
         cur' # NoReq => h'[cur'].stage # "answered", ui' # "done"
  PROVE  KeptOK'
<1>1. \A r \in Reqs : ~Initialising(r)' /\ ~Opened(r)' /\ h'[r].stage \notin {"pad", "pos", "other"}
  BY DEF Busy, Initialising, Opened
<1>2. \A r \in Reqs : ~(Busy(r)' /\ h'[r].at > 0)  OBVIOUS
<1> QED  BY <1>1, <1>2 DEF KeptOK

LEMMA PageStep ==
  ASSUME IInv, TypeOK', UNCHANGED <<file, raced, removed>>,
         \A r \in Reqs : h'[r] = h[r] \/ (~Busy(r) /\ (Begun(r) \/ Dropped(r))),
         KeptOK => \A r \in Reqs : Begun(r) /\ h'[r].at > 0 => h'[r] = h[r] \/ Told(h[r].at)',
         cur' # NoReq => h'[cur'].stage # "answered" \/ (cur' = cur /\ h'[cur'] = h[cur]),
         KeptOK => (ui' = "done" => Told(Size))
  PROVE  IInv'
<1>1. TypeOK /\ Inodes /\ (~raced => FileOK /\ (~removed => KeptOK))  BY DEF IInv, Inodes
<1>2. Inodes' /\ (FileOK => FileOK')  BY <1>1, PageFile
<1>3. KeptOK => KeptOK'
  <2> SUFFICES ASSUME KeptOK PROVE KeptOK'  OBVIOUS
  <2> QED  BY <1>1, PageKept
<1> QED  BY <1>1, <1>2, <1>3 DEF IInv, Inodes

LEMMA StartStep ==
  ASSUME IInv, TypeOK', UNCHANGED <<file, raced>>, NEW r \in Reqs, ~Busy(r),
         h'[r].stage = "check" /\ h'[r].inode = 0 /\ h'[r].at = 0,
         \A o \in Reqs \ {r} : h'[o] = h[o] \/ (~Busy(o) /\ Dropped(o)),
         removed' = (removed /\ ~Alone(r)), cur' = r, ui' = "sending"
  PROVE  IInv'
<1>1. TypeOK /\ Inodes /\ (~raced => FileOK /\ (~removed => KeptOK))  BY DEF IInv, Inodes
<1>2. \A o \in Reqs : h'[o] = h[o] \/ (~Busy(o) /\ (Begun(o) \/ Dropped(o)))  BY DEF Begun
<1>3. Inodes' /\ (FileOK => FileOK')  BY <1>1, <1>2, PageFile
<1>4. ~raced /\ ~removed' => KeptOK'
  <2>1. CASE ~raced /\ ~removed
    <3>1. \A o \in Reqs : Begun(o) /\ h'[o].at > 0 => h'[o] = h[o]
      BY DEF Begun, Dropped
    <3> QED  BY <1>1, <1>2, <2>1, <3>1, PageKept
  <2>2. CASE Alone(r)
    <3>1. \A o \in Reqs : Busy(o)' => h'[o].stage = "check" /\ h'[o].at = 0
      BY <2>2 DEF Alone, Busy, Dropped
    <3> QED  BY <3>1, Afresh
  <2> QED  BY <2>1, <2>2 DEF IInv, TypeOK, RepoTypeOK
<1> QED  BY <1>1, <1>3, <1>4 DEF IInv, Inodes

-----------------------------------------------------------------------------
LEMMA InitInv == Init => IInv
<1> SUFFICES ASSUME Init PROVE IInv  OBVIOUS
<1>1. TypeOK  BY InitTypes
<1>2. \A r \in Reqs : h[r].stage = "free" /\ h[r].inode = 0 /\ h[r].inode <= gen
  BY DEF Init, RepoInit, Free
<1>3. \A r \in Reqs : ~Initialising(r) /\ ~Opened(r) /\ ~Busy(r)
  BY <1>2 DEF Initialising, Opened, Busy
<1>4. FileOK  BY <1>3, Parts DEF FileOK, Init, RepoInit, NoHead, Spoiled, Tail, Bytes
<1>5. KeptOK  BY <1>2, <1>3 DEF KeptOK, Init
<1> QED  BY <1>1, <1>2, <1>4, <1>5 DEF IInv

LEMMA StartInv == ASSUME IInv, TypeOK', Start PROVE IInv'
<1>1. PICK r \in Reqs : h[r].stage = "free" /\ Post(r, 0) /\ cur' = r /\ ui' = "sending"
                        /\ removed' = (removed /\ ~Alone(r))
  BY DEF Start
<1>2. h \in [Reqs -> Handlers]  BY DEF IInv, TypeOK, RepoTypeOK
<1>3. /\ h'[r].stage = "check" /\ h'[r].inode = 0 /\ h'[r].at = 0
      /\ \A o \in Reqs \ {r} : h'[o] = h[o]
      /\ UNCHANGED <<file, raced>>
  BY <1>1, <1>2 DEF Post, Free
<1>4. ~Busy(r)  BY <1>1 DEF Busy
<1> QED  BY <1>1, <1>3, <1>4, StartStep

LEMMA QuietInv ==
  ASSUME IInv, UNCHANGED <<repoVars, ui, cur>>, TypeOK' PROVE IInv'
<1>1. UNCHANGED <<file, raced, removed, h>>  BY DEF repoVars
<1>2. \A r \in Reqs : h'[r] = h[r]  BY <1>1
<1>3. KeptOK => (ui' = "done" => Told(Size))  BY DEF KeptOK
<1> QED  BY <1>1, <1>2, <1>3, PageStep

LEMMA OrphanInv ==
  ASSUME IInv, TypeOK', UNCHANGED <<file, raced, removed>>, cur # NoReq, Orphan, cur' = NoReq, ui' # "done"
  PROVE  IInv'
<1>1. h \in [Reqs -> Handlers] /\ cur \in Reqs  BY DEF IInv, TypeOK, RepoTypeOK
<1>2. \A r \in Reqs : h'[r] = h[r] \/ (~Busy(r) /\ Dropped(r))
  BY <1>1 DEF Orphan, Forget, Dropped, Free
<1>3. \A r \in Reqs : Begun(r) => h'[r] = h[r]  BY <1>2 DEF Begun, Dropped
<1> QED  BY <1>2, <1>3, PageStep

LEMMA PartDoneInv == ASSUME IInv, TypeOK', PartDone PROVE IInv'
<1>1. /\ cur \in Reqs /\ h \in [Reqs -> Handlers] /\ ~Busy(cur)
      /\ h[cur].stage = "answered" /\ h[cur].answer >= 0 /\ h[cur].answer \in Int
  BY Numbers DEF IInv, TypeOK, RepoTypeOK, PartDone, Busy
<1>2. CASE h[cur].answer < Size
  <2>1. /\ h'[cur].stage = "check" /\ h'[cur].inode = 0 /\ h'[cur].at = h[cur].answer
        /\ \A r \in Reqs \ {cur} : h'[r] = h[r]
        /\ UNCHANGED <<file, raced, removed, cur, ui>>
    BY <1>1, <1>2 DEF PartDone, Post, Free
  <2>2. \A r \in Reqs : h'[r] = h[r] \/ (~Busy(r) /\ (Begun(r) \/ Dropped(r)))
    BY <1>1, <2>1 DEF Begun
  <2>3. KeptOK => \A r \in Reqs : Begun(r) /\ h'[r].at > 0 => h'[r] = h[r] \/ Told(h[r].at)'
    <3> SUFFICES ASSUME KeptOK, h'[cur].at > 0 PROVE Told(h[cur].answer)  /\ Told(h[cur].at)'
      BY <2>1
    <3>1. Told(h[cur].answer)  BY <1>1, <2>1 DEF KeptOK, IInv, TypeOK, PartDone
    <3>2. UNCHANGED <<exists, gen, head, cell>>  BY <2>1 DEF file
    <3>3. \A r \in Reqs : Initialising(r)' => Initialising(r)
      BY <2>1 DEF Initialising
    <3>4. (\E r \in Reqs : h[r].stage = "data") => \E r \in Reqs : h'[r].stage = "data"
      BY <1>1, <2>1
    <3> QED  BY <2>1, <3>1, <3>2, <3>3, <3>4 DEF Told, Front, Tail
  <2>4. KeptOK => (ui' = "done" => Told(Size))  BY <2>1 DEF KeptOK
  <2> QED  BY <2>1, <2>2, <2>3, <2>4, PageStep
<1>3. CASE ~(h[cur].answer < Size)
  <2>1. /\ h'[cur].stage = "free" /\ h'[cur].inode = 0
        /\ \A r \in Reqs \ {cur} : h'[r] = h[r]
        /\ UNCHANGED <<file, raced, removed>> /\ cur' = NoReq
    BY <1>1, <1>3 DEF PartDone, Forget, Free
  <2>2. \A r \in Reqs : h'[r] = h[r] \/ (~Busy(r) /\ (Begun(r) \/ Dropped(r)))
    BY <1>1, <2>1 DEF Dropped
  <2>3. \A r \in Reqs : Begun(r) => h'[r] = h[r]  BY <2>1 DEF Begun
  <2>4. KeptOK => (ui' = "done" => Told(Size))
    <3>1. h[cur].answer = Size
      <4>1. h[cur].answer \in -2..Size  BY <1>1 DEF Handlers
      <4> QED  BY <4>1, <1>1, <1>3, Parts
    <3> QED  BY <1>1, <3>1, Parts DEF KeptOK, PartDone
  <2> QED  BY <2>1, <2>2, <2>3, <2>4, PageStep
<1> QED  BY <1>2, <1>3

LEMMA CrashInv == ASSUME IInv, TypeOK', Crash PROVE IInv'
<1>1. TypeOK /\ Inodes /\ (~raced => FileOK /\ (~removed => KeptOK))  BY DEF IInv, Inodes
<1>2. UNCHANGED <<file, raced, removed>> /\ \A r \in Reqs : h'[r].stage = "free" /\ h'[r].inode = 0
  BY DEF Crash, Free
<1>3. \A r \in Reqs : Dropped(r) /\ ~Busy(r)' /\ ~Initialising(r)' /\ ~Opened(r)'
  BY <1>2 DEF Dropped, Busy, Initialising, Opened
<1>4. Inodes' /\ (FileOK => FileOK')  BY <1>1, <1>2, <1>3, PageFile
<1>5. ASSUME ~raced, ~removed PROVE KeptOK'
  <2>1. cur' = NoReq /\ (ui' = "done" => ui = "done")  BY DEF Crash
  <2>2. ui' = "done" => Told(Size)'
    <3> SUFFICES ASSUME ui' = "done" PROVE Told(Size)'  OBVIOUS
    <3>1. Told(Size)  BY <1>1, <1>5, <2>1 DEF KeptOK
    <3>2. \A r \in Reqs : ~Initialising(r)  BY <3>1, Parts DEF Told
    <3>3. Front  BY <3>1, <3>2 DEF Told, Initialising
    <3> QED  BY <1>2, <1>3, <3>1, <3>3 DEF Told, Front, Tail, file
  <2> QED  BY <1>2, <1>3, <2>1, <2>2 DEF KeptOK
<1> QED  BY <1>1, <1>2, <1>4, <1>5 DEF IInv, Inodes

LEMMA HandlerInv ==
  ASSUME IInv, TypeOK', UNCHANGED page, NEW r \in Reqs, Handle(r) \/ HandleFails(r) \/ Delete
  PROVE  IInv'
<1>1. TypeOK /\ Inodes /\ (~raced => FileOK /\ (~removed => KeptOK))  BY DEF IInv, Inodes
<1>2. Inodes'  BY <1>1, InodesStep
<1>3. (~raced' => ~raced) /\ (~removed' => ~removed)
  <2>1. CASE UNCHANGED raced /\ UNCHANGED removed  BY <2>1
  <2>2. CASE UNCHANGED raced /\ removed' = TRUE  BY <2>2
  <2>3. CASE UNCHANGED removed /\ \E b \in BOOLEAN : raced' = (raced \/ b)  BY <2>3
  <2>4. Check(r) \/ Create(r) \/ Open(r) \/ WritePart(r) =>
          UNCHANGED removed /\ \E b \in BOOLEAN : raced' = (raced \/ b)
    <3>1. Check(r) => UNCHANGED removed /\ raced' = (raced \/ (exists /\ head = NoHead /\ ~Alone(r)))
      BY DEF Check
    <3>2. Create(r) => UNCHANGED removed /\ raced' = (raced \/ (exists /\ ~Alone(r)))  BY DEF Create
    <3>3. Open(r) => UNCHANGED removed /\ raced' = (raced \/ head = NoHead)  BY DEF Open
    <3>4. WritePart(r) => /\ UNCHANGED removed
                          /\ raced' = (raced \/ \E o \in Reqs : Initialising(o) /\ h[o].inode = h[r].inode)
      BY DEF WritePart
    <3>5. \A X \in BOOLEAN : raced' = (raced \/ X) => \E b \in BOOLEAN : raced' = (raced \/ b)  OBVIOUS
    <3>6. (exists /\ head = NoHead /\ ~Alone(r)) \in BOOLEAN /\ (exists /\ ~Alone(r)) \in BOOLEAN
          /\ (head = NoHead) \in BOOLEAN
          /\ (\E o \in Reqs : Initialising(o) /\ h[o].inode = h[r].inode) \in BOOLEAN
      OBVIOUS
    <3> QED  BY <3>1, <3>2, <3>3, <3>4, <3>5, <3>6, Zenon
  <2>5. InitialiseFails(r) \/ Delete => UNCHANGED raced /\ removed' = TRUE
    BY DEF InitialiseFails, Delete
  <2>6. CheckSpoiled(r) \/ WriteHead(r) \/ WriteData(r) \/ Pad(r) \/ Padded(r) \/
        SkipPart(r) \/ WritePos(r) \/ AppendFails(r) \/ RowFails(r) \/ Deny(r) =>
          UNCHANGED raced /\ UNCHANGED removed
    BY DEF CheckSpoiled, WriteHead, WriteData, Pad, Padded, SkipPart, WritePos, AppendFails, RowFails, Deny, file
  <2>7. \/ Check(r) \/ Create(r) \/ Open(r) \/ WritePart(r) \/ InitialiseFails(r) \/ Delete
        \/ CheckSpoiled(r) \/ WriteHead(r) \/ WriteData(r) \/ Pad(r) \/ Padded(r)
        \/ SkipPart(r) \/ WritePos(r) \/ AppendFails(r) \/ RowFails(r) \/ Deny(r)
    BY DEF Handle, HandleFails
  <2>8. CASE Check(r) \/ Create(r) \/ Open(r) \/ WritePart(r)  BY <2>3, <2>4, <2>8
  <2>9. CASE InitialiseFails(r) \/ Delete  BY <2>2, <2>5, <2>9
  <2>10. CASE \/ CheckSpoiled(r) \/ WriteHead(r) \/ WriteData(r) \/ Pad(r) \/ Padded(r)
              \/ SkipPart(r) \/ WritePos(r) \/ AppendFails(r) \/ RowFails(r) \/ Deny(r)
    BY <2>1, <2>6, <2>10
  <2> QED  BY <2>7, <2>8, <2>9, <2>10
<1>4. ~raced' => FileOK'  BY <1>1, <1>3, FileStep
<1>5. ~raced' /\ ~removed' => KeptOK'  BY <1>1, <1>3, KeptStep
<1> QED  BY <1>2, <1>4, <1>5 DEF IInv, Inodes

LEMMA StepInv == IInv /\ [Next]_vars => IInv'
<1> SUFFICES ASSUME IInv, [Next]_vars PROVE IInv'  OBVIOUS
<1>1. TypeOK'  BY StepTypes DEF IInv
<1>2. h \in [Reqs -> Handlers] /\ (cur # NoReq => cur \in Reqs)  BY DEF IInv, TypeOK, RepoTypeOK
<1>3. CASE Add
  BY <1>1, <1>3, StartInv, QuietInv DEF Add
<1>4. CASE AddMeanwhile
  <2>1. PICK r \in Reqs :
          /\ h[r].stage = "free"
          /\ h' = [h EXCEPT ![cur] = IF Busy(cur) THEN @ ELSE Free,
                            ![r] = [Free EXCEPT !.stage = "check"]]
          /\ removed' = (removed /\ ~Alone(r)) /\ cur' = r
    BY <1>4 DEF AddMeanwhile
  <2>2. h'[r].stage = "check" /\ h'[r].inode = 0 /\ h'[r].at = 0 /\ ~Busy(r)
    BY <1>2, <2>1 DEF Free, Busy
  <2>3. \A o \in Reqs \ {r} : h'[o] = h[o] \/ (~Busy(o) /\ Dropped(o))
    BY <1>2, <2>1 DEF Free, Dropped
  <2>4. ui' = "sending" /\ UNCHANGED <<file, raced>>  BY <1>4 DEF AddMeanwhile
  <2> QED  BY <1>1, <2>1, <2>2, <2>3, <2>4, StartStep
<1>5. CASE TimerFires  BY <1>1, <1>5, StartInv, QuietInv DEF TimerFires
<1>6. CASE PartDone  BY <1>1, <1>6, PartDoneInv
<1>7. CASE PartRefused
  <2>1. Orphan  BY <1>7 DEF PartRefused, Orphan, Busy
  <2> QED  BY <1>1, <1>7, <2>1, OrphanInv DEF PartRefused
<1>8. CASE RequestFails  BY <1>1, <1>8, OrphanInv DEF RequestFails
<1>9. CASE Cancel \/ Discard
  <2>1. CASE cur # NoReq  BY <1>1, <1>9, <2>1, OrphanInv DEF Cancel, Discard
  <2>2. CASE cur = NoReq  BY <1>1, <1>9, <2>2, QuietInv DEF Cancel, Discard, repoVars
  <2> QED  BY <2>1, <2>2
<1>10. CASE Resume  BY <1>1, <1>10, StartInv, QuietInv DEF Resume
<1>11. CASE Reload
  <2>1. CASE cur # NoReq  BY <1>1, <1>11, <2>1, OrphanInv DEF Reload
  <2>2. CASE cur = NoReq
    <3>1. h' = h /\ UNCHANGED <<file, raced, removed>> /\ cur' = NoReq /\ ui' = "idle"
      BY <1>11, <2>2 DEF Reload
    <3> QED  BY <1>1, <3>1, PageStep
  <2> QED  BY <2>1, <2>2
<1>12. CASE Crash  BY <1>1, <1>12, CrashInv
<1>13. CASE Remove
  <2>1. CASE \E r \in Reqs : TRUE  BY <1>1, <1>13, <2>1, HandlerInv DEF Remove
  <2>2. CASE Reqs = {}
    <3>1. Delete /\ UNCHANGED page  BY <1>13 DEF Remove
    <3>2. FileOK => FileOK'  BY <2>2, <3>1, FileKept DEF Delete
    <3>3. removed' /\ raced' = raced  BY <3>1 DEF Delete
    <3> QED  BY <1>1, <2>2, <3>2, <3>3 DEF IInv
  <2> QED  BY <2>1, <2>2
<1>14. CASE \E r \in Reqs : Server(r) \/ ServerFails(r)
  BY <1>1, <1>14, HandlerInv DEF Server, ServerFails
<1>15. CASE \E r \in Reqs : OrphanEnds(r)
  <2>1. PICK r \in Reqs : OrphanEnds(r)  BY <1>15
  <2>2. \A o \in Reqs : h'[o] = h[o] \/ (~Busy(o) /\ Dropped(o))
    BY <1>2, <2>1 DEF OrphanEnds, Forget, Dropped, Free, Busy
  <2>3. UNCHANGED <<file, raced, removed, ui, cur>> /\ (cur # NoReq => h'[cur] = h[cur])
    BY <1>2, <2>1 DEF OrphanEnds, Forget, page
  <2>4. \A o \in Reqs : Begun(o) => h'[o] = h[o]  BY <2>2 DEF Begun, Dropped
  <2>5. KeptOK => (ui' = "done" => Told(Size))  BY <2>3 DEF KeptOK
  <2> QED  BY <1>1, <2>2, <2>3, <2>4, <2>5, PageStep
<1>16. CASE UNCHANGED vars  BY <1>1, <1>16, QuietInv DEF vars, page
<1> QED
  BY <1>3, <1>4, <1>5, <1>6, <1>7, <1>8, <1>9, <1>10, <1>11, <1>12, <1>13, <1>14, <1>15, <1>16 DEF Next

THEOREM Invariance == Spec => []IInv
BY InitInv, StepInv, PTL DEF Spec

(* What the page reports as uploaded is in the repository, byte for byte,   *)
(* for files and parts of any size, any number of requests at once and any  *)
(* faults, but for the two exceptions the property names (Upload.PartDone,  *)
(* Repo.Entity.store).                                                      *)
THEOREM DoneComplete == Spec => []DoneIsComplete
<1>1. IInv => DoneIsComplete
  <2> SUFFICES ASSUME IInv, ui = "done", ~raced, ~removed
               PROVE  exists /\ \A i \in Bytes : cell[i] = i
    BY DEF DoneIsComplete
  <2>1. Told(Size)  BY DEF IInv, KeptOK
  <2>2. \A r \in Reqs : ~Initialising(r)  BY <2>1, Parts DEF Told
  <2>3. exists /\ Front /\ Tail(Size)  BY <2>1, <2>2 DEF Told, Initialising
  <2> QED  BY <2>3, Parts DEF Front, Tail, Bytes
<1> QED  BY <1>1, Invariance, PTL
=============================================================================
