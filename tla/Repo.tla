--------------------------------- MODULE Repo ---------------------------------
(***************************************************************************)
(* framework/common/Repo.Entity.store and web/upload.store: the server's    *)
(* side of an upload in parts.  All the requests are about one file: its id *)
(* is made of its owner, tag, name, size and date.  The file in the         *)
(* repository is a header, with the position up to which it is stored, and  *)
(* the bytes of the upload.                                                 *)
(*                                                                         *)
(* A request is handled by a thread of its own, without a lock; a step is   *)
(* one access to the file system.  The row of gi_repo beside the file is    *)
(* left out: nothing here reads it.                                        *)
(***************************************************************************)
EXTENDS Integers

CONSTANTS Size,  \* bytes of the file
          Chunk, \* maxChunkSize
          Reqs   \* the requests there can be at once

ASSUME SizesAssumption == Size \in Nat /\ Chunk \in Nat \ {0} /\ Chunk < Size

VARIABLES
  exists,  \* f.exists()
  gen,     \* which file is under the path: a deleted one can still be written
  head,    \* the position in its header, or NoHead, or Spoiled
  cell,    \* its content: i is byte i of the upload
  h,       \* the handlers of the requests: see Handlers
  raced,   \* history: a request came upon a file without a header, or wrote to one
           \* or truncated one, while another request was at work on it
  removed  \* history: the file was removed during the present attempt, or before
           \* it and a handler of that time is still at work

file     == <<exists, gen, head, cell>>
repoVars == <<file, h, raced, removed>>

NoHead  == -1 \* truncated, and no header written yet
Spoiled == -2 \* data written over the header
Absent  == -1
Junk    == -2 \* padding, or bytes out of place
Refused == -1 \* {error: 201 or 401}
Denied  == -2 \* no login: an answer without "error"

Bytes    == 0..(Size - 1)
Len(p)   == IF Size - p < Chunk THEN Size - p ELSE Chunk
(* The content with the part of request r put at p. *)
With(r, p) == [i \in Bytes |-> IF i >= p /\ i < p + Len(h[r].at) THEN h[r].at + (i - p) ELSE cell[i]]

Stages == {"free", "check", "same", "other", "head", "data", "pad", "write", "pos", "answered"}
(* What a handler knows: where it is in store, the position the request     *)
(* names, the file it has opened, the position it has read in the header,   *)
(* how far it has padded, and what it answers.                              *)
Handlers == [stage : Stages, at : Bytes, inode : Nat, seen : -2..Size, pp : 0..Size, answer : -2..Size]
Free == [stage |-> "free", at |-> 0, inode |-> 0, seen |-> 0, pp |-> 0, answer |-> 0]

Busy(r)   == h[r].stage \notin {"free", "answered"}
Alone(r)  == \A o \in Reqs \ {r} : ~Busy(o)
Initialising(r) == h[r].stage \in {"head", "data", "pad"}
Linked(r) == exists /\ h[r].inode = gen

RepoInit ==
  /\ exists = FALSE /\ gen = 0 /\ head = NoHead
  /\ cell = [i \in Bytes |-> Absent]
  /\ h = [r \in Reqs |-> Free]
  /\ raced = FALSE /\ removed = FALSE

At(r, from, to) == h[r].stage = from /\ h' = [h EXCEPT ![r].stage = to]
Reply(r, a) == h' = [h EXCEPT ![r] = [Free EXCEPT !.stage = "answered", !.at = h[r].at, !.answer = a]]
Forget(r)   == h' = [h EXCEPT ![r] = Free]

-----------------------------------------------------------------------------
(* if (f.exists()) load(tmp): the total of the header, 0 when there is none; *)
(* without a file, the total of the request stays.                          *)
Check(r) ==
  /\ ~(exists /\ head = Spoiled)
  /\ At(r, "check", IF exists /\ head = NoHead THEN "other" ELSE "same")
  /\ raced' = (raced \/ (exists /\ head = NoHead /\ ~Alone(r)))
  /\ UNCHANGED <<file, removed>>

(* A header with data over it: load fails, or finds another total. *)
CheckSpoiled(r) ==
  /\ exists /\ head = Spoiled
  /\ h[r].stage = "check"
  /\ At(r, "check", "other") \/ Reply(r, Refused)
  /\ UNCHANGED <<file, raced, removed>>

(* !f.exists() || total != getTotal(): new FileOutputStream(f) *)
Create(r) ==
  /\ h[r].stage = "other" \/ (h[r].stage = "same" /\ ~exists)
  /\ exists' = TRUE
  /\ gen' = IF exists THEN gen ELSE gen + 1
  /\ head' = NoHead
  /\ cell' = [i \in Bytes |-> Absent]
  /\ h' = [h EXCEPT ![r].stage = "head", ![r].inode = gen']
  /\ raced' = (raced \/ (exists /\ ~Alone(r)))
  /\ UNCHANGED removed

(* out.write(bb), with set("pos", in.available()) in it *)
WriteHead(r) ==
  /\ At(r, "head", "data")
  /\ head' = IF Linked(r) THEN Len(h[r].at) ELSE head
  /\ UNCHANGED <<exists, gen, cell, raced, removed>>

(* The part goes to the front of a new file, whatever position it is for. *)
WriteData(r) ==
  /\ h[r].stage = "data"
  /\ h' = [h EXCEPT ![r].stage = "pad", ![r].pp = Len(h[r].at)]
  /\ cell' = IF Linked(r) THEN With(r, 0) ELSE cell
  /\ UNCHANGED <<exists, gen, head, raced, removed>>

(* while (pp < total) *)
Pad(r) ==
  /\ h[r].stage = "pad" /\ h[r].pp < Size
  /\ cell' = IF Linked(r) THEN [cell EXCEPT ![h[r].pp] = Junk] ELSE cell
  /\ h' = [h EXCEPT ![r].pp = @ + 1]
  /\ UNCHANGED <<exists, gen, head, raced, removed>>

Padded(r) ==
  /\ h[r].stage = "pad" /\ h[r].pp >= Size
  /\ Reply(r, Len(h[r].at))
  /\ UNCHANGED <<file, raced, removed>>

(* catch (IOException e): Repo.delete(getId()), throw e *)
InitialiseFails(r) ==
  /\ Initialising(r)
  /\ Reply(r, Refused)
  /\ exists' = FALSE
  /\ removed' = TRUE
  /\ UNCHANGED <<gen, head, cell, raced>>

(* new RandomAccessFile(f, "rws"), and the position read from the header.    *)
(* (f.exists() is asked a little earlier: a file deleted in between would be *)
(* made anew here, empty; that falls under removed.)                        *)
Open(r) ==
  /\ exists
  /\ h[r].stage = "same"
  /\ \E p \in IF head = Spoiled THEN 0..Size ELSE {head} :
       h' = [h EXCEPT ![r].stage = "write", ![r].inode = gen, ![r].seen = p]
  /\ raced' = (raced \/ head = NoHead)
  /\ UNCHANGED <<file, removed>>

(* getPos(): 0 when no header was there to be read *)
SeenPos(r) == IF h[r].seen = NoHead THEN 0 ELSE h[r].seen

(* Mutant: a part beyond the end is written all the same. *)
AnyPosition(r) == h[r].stage = "write"

(* getPos() >= position *)
InPlace(r) == h[r].stage = "write" /\ SeenPos(r) >= h[r].at

(* The header has the length read with it: without one the part goes to the  *)
(* very front of the file.                                                  *)
WritePart(r) ==
  /\ InPlace(r)
  /\ At(r, "write", "pos")
  /\ cell' = IF ~Linked(r) THEN cell
             ELSE IF h[r].seen # NoHead THEN With(r, h[r].at)
             ELSE [i \in Bytes |-> IF i < Len(h[r].at) THEN Junk ELSE cell[i]]
  /\ head' = IF Linked(r) /\ h[r].seen = NoHead /\ head # NoHead THEN Spoiled ELSE head
  /\ raced' = (raced \/ \E o \in Reqs : Initialising(o) /\ h[o].inode = h[r].inode)
  /\ UNCHANGED <<exists, gen, removed>>

(* A part for a place not reached yet is dropped. *)
SkipPart(r) ==
  /\ h[r].stage = "write" /\ ~InPlace(r)
  /\ Reply(r, SeenPos(r))
  /\ UNCHANGED <<file, raced, removed>>

(* if (position > getPos()) the header is brought up *)
WritePos(r) ==
  /\ h[r].stage = "pos"
  /\ LET p == h[r].at + Len(h[r].at)
     IN /\ Reply(r, IF p > SeenPos(r) THEN p ELSE SeenPos(r))
        /\ head' = IF Linked(r) /\ head >= 0 /\ p > SeenPos(r) THEN p ELSE head
  /\ UNCHANGED <<exists, gen, cell, raced, removed>>

(* An exception in the append: the file is left as it is. *)
AppendFails(r) ==
  /\ h[r].stage \in {"write", "pos"}
  /\ Reply(r, Refused)
  /\ UNCHANGED <<file, raced, removed>>

(* A database call after the file has been set up throws, but not an         *)
(* IOException: the file stays.                                             *)
RowFails(r) ==
  /\ h[r].stage = "pad" /\ h[r].pp >= Size
  /\ Reply(r, Refused)
  /\ UNCHANGED <<file, raced, removed>>

(* getUser() is null *)
Deny(r) ==
  /\ h[r].stage = "check"
  /\ Reply(r, Denied)
  /\ UNCHANGED <<file, raced, removed>>

(* web/repo.delete: Repo.delete(id) by an administrator *)
Delete ==
  /\ exists
  /\ exists' = FALSE
  /\ removed' = TRUE
  /\ UNCHANGED <<gen, head, cell, h, raced>>

Handle(r) ==
  \/ Check(r) \/ CheckSpoiled(r) \/ Create(r)
  \/ WriteHead(r) \/ WriteData(r) \/ Pad(r) \/ Padded(r)
  \/ Open(r) \/ WritePart(r) \/ SkipPart(r) \/ WritePos(r)

HandleFails(r) == InitialiseFails(r) \/ RowFails(r) \/ AppendFails(r) \/ Deny(r)

RepoTypeOK ==
  /\ exists \in BOOLEAN /\ gen \in Nat /\ head \in -2..Size
  /\ cell \in [Bytes -> -2..(Size - 1)]
  /\ h \in [Reqs -> Handlers]
  /\ raced \in BOOLEAN /\ removed \in BOOLEAN
===============================================================================
