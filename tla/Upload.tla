-------------------------------- MODULE Upload --------------------------------
(***************************************************************************)
(* The browser's side of an upload in parts (view/js/jquery.upload.js over  *)
(* view/js/jquery.fileupload.js) composed with the server's (Repo).         *)
(*                                                                         *)
(* An attempt begins with the part at 0 and goes on from the position the   *)
(* server answers.  One request is waited for at a time; one that has       *)
(* failed in the browser may still be under way on the server.              *)
(***************************************************************************)
EXTENDS Repo

CONSTANTS NoReq,
          MaxFaults \* failures, stops, reloads, restarts and deletions

ASSUME BoundsAssumption == NoReq \notin Reqs /\ MaxFaults \in Nat

VARIABLES
  ui,        \* state() of the upload; "stuck": pending, and nothing under way
  cur,       \* the request waited for
  ub,        \* the bytes the server has answered for
  timers,    \* setTimeout(_startfileupload, 1000) not fired yet
  autoretry, \* options.autoretry
  stopped,   \* the user has stopped it: the resume button is shown
  faults     \* counter, for the bound

page == <<ui, cur, ub, timers, autoretry, stopped>>
vars == <<repoVars, page, faults>>

Init ==
  /\ RepoInit
  /\ ui = "idle" /\ cur = NoReq /\ ub = 0 /\ timers = 0
  /\ autoretry = TRUE /\ stopped = FALSE
  /\ faults = 0

Fault == faults < MaxFaults /\ faults' = faults + 1

(* A request for the part at p, in the hands of the server. *)
Post(r, p) ==
  /\ h' = [h EXCEPT ![r] = [Free EXCEPT !.stage = "check", !.at = p]]
  /\ UNCHANGED <<file, raced>>

(* Mutant: an attempt goes on where the last one stopped. *)
StartWhereLeft ==
  \E r \in Reqs :
    /\ h[r].stage = "free"
    /\ Post(r, ub)
    /\ cur' = r /\ ub' = ub /\ ui' = "sending"
    /\ removed' = (removed /\ ~Alone(r))

(* _onSend, _chunkedUpload: the clone of data the bytes were counted in is   *)
(* gone, and a new attempt begins at 0.                                     *)
Start ==
  \E r \in Reqs :
    /\ h[r].stage = "free"
    /\ Post(r, 0)
    /\ cur' = r /\ ub' = 0 /\ ui' = "sending"
    /\ removed' = (removed /\ ~Alone(r))

Pending == ui \in {"sending", "stuck"}

(* fileuploadadd: the file is chosen, again perhaps.  Uploads are sequential: *)
(* behind one that never ends a new one does not begin.                     *)
Add ==
  /\ ui # "sending"
  /\ autoretry' = TRUE /\ stopped' = FALSE
  /\ IF ui = "stuck"
       THEN UNCHANGED <<repoVars, ui, cur, ub>>
       ELSE Start
  /\ UNCHANGED <<timers, faults>>

(* While one is being sent: options.uploader.abort() fails it, which sets    *)
(* the timers of its retry; they are left to the new one.                   *)
AddMeanwhile ==
  /\ ui = "sending"
  /\ Fault
  /\ timers' = timers + IF autoretry THEN 2 ELSE 0
  /\ autoretry' = TRUE /\ stopped' = FALSE
  /\ \E r \in Reqs :
       /\ h[r].stage = "free"
       /\ h' = [h EXCEPT ![cur] = IF Busy(cur) THEN @ ELSE Free,
                        ![r] = [Free EXCEPT !.stage = "check"]]
       /\ removed' = (removed /\ ~Alone(r))
       /\ cur' = r /\ ub' = 0
  /\ UNCHANGED <<file, raced, ui>>

(* _startfileupload: data.submit does nothing while state() is pending, and  *)
(* begins again when it is rejected or resolved.                            *)
TimerFires ==
  /\ timers > 0
  /\ timers' = timers - 1
  /\ IF Pending
       THEN UNCHANGED <<repoVars, ui, cur, ub>>
       ELSE Start
  /\ UNCHANGED <<autoretry, stopped, faults>>

(* The upload of the next part, or the end: ub = result.pos. *)
PartDone ==
  /\ cur # NoReq /\ h[cur].stage = "answered" /\ h[cur].answer >= 0
  /\ ub' = h[cur].answer
  /\ IF h[cur].answer < Size
       THEN Post(cur, h[cur].answer) /\ UNCHANGED <<cur, ui>>
       ELSE /\ ui' = "done" /\ cur' = NoReq
            /\ Forget(cur)
            /\ UNCHANGED <<file, raced>>
  /\ UNCHANGED <<removed, timers, autoretry, stopped, faults>>

(* result.error > 0 or undefined: "chunkfail" is triggered, but the promise  *)
(* of the upload is not rejected; abort() of a request that has ended does   *)
(* nothing.  Only an answer without an error number sets a timer.            *)
PartRefused ==
  /\ cur # NoReq /\ h[cur].stage = "answered" /\ h[cur].answer < 0
  /\ ui' = "stuck" /\ cur' = NoReq
  /\ timers' = timers + IF h[cur].answer = Denied /\ autoretry THEN 1 ELSE 0
  /\ Forget(cur)
  /\ UNCHANGED <<file, raced, removed, ub, autoretry, stopped, faults>>

(* The browser gives the request up; the server may go on with it. *)
Orphan == IF Busy(cur) THEN UNCHANGED h ELSE Forget(cur)

(* Mutant: a request that fails sets no timer. *)
RequestFailsQuietly ==
  /\ cur # NoReq
  /\ Fault
  /\ Orphan
  /\ ui' = "rejected" /\ cur' = NoReq
  /\ UNCHANGED <<file, raced, removed, ub, timers, autoretry, stopped>>

(* The request fails: "chunkfail" and then "fail" set a timer each. *)
RequestFails ==
  /\ cur # NoReq
  /\ Fault
  /\ Orphan
  /\ ui' = "rejected" /\ cur' = NoReq
  /\ timers' = timers + IF autoretry THEN 2 ELSE 0
  /\ UNCHANGED <<file, raced, removed, ub, autoretry, stopped>>

(* The answer to a request nobody waits for. *)
OrphanEnds(r) ==
  /\ r # cur
  /\ h[r].stage = "answered"
  /\ Forget(r)
  /\ UNCHANGED <<file, raced, removed, page, faults>>

(* The user stops the upload (fileupload-cancel, first click): autoretry is  *)
(* taken back, the request aborted; timers that are set stay.                *)
Cancel ==
  /\ ui \in {"sending", "stuck", "rejected"} /\ ~stopped
  /\ Fault
  /\ autoretry' = FALSE /\ stopped' = TRUE
  /\ IF cur # NoReq
       THEN Orphan /\ ui' = "rejected" /\ cur' = NoReq
       ELSE UNCHANGED <<h, ui, cur>>
  /\ UNCHANGED <<file, raced, removed, ub, timers>>

(* A second click on it takes the file off the page; options.repo is never   *)
(* set, so nothing is posted to delete it in the repository.                *)
Discard ==
  /\ stopped \/ ui = "done"
  /\ Fault
  /\ autoretry' = FALSE /\ stopped' = FALSE
  /\ IF cur # NoReq
       THEN Orphan /\ ui' = "rejected" /\ cur' = NoReq
       ELSE UNCHANGED <<h, ui, cur>>
  /\ UNCHANGED <<file, raced, removed, ub, timers>>

(* fileupload-resume *)
Resume ==
  /\ stopped
  /\ autoretry' = TRUE /\ stopped' = FALSE
  /\ IF Pending
       THEN UNCHANGED <<repoVars, ui, cur, ub>>
       ELSE Start
  /\ UNCHANGED <<timers, faults>>

(* The page is left; the file may be chosen again. *)
Reload ==
  /\ ui # "idle"
  /\ Fault
  /\ IF cur # NoReq THEN Orphan ELSE UNCHANGED h
  /\ ui' = "idle" /\ cur' = NoReq /\ timers' = 0
  /\ UNCHANGED <<file, raced, removed, ub, autoretry, stopped>>

(* The server stops: its handlers are gone, the file stays as it is. *)
Crash ==
  /\ Fault
  /\ h' = [r \in Reqs |-> Free]
  /\ IF cur # NoReq
       THEN ui' = "rejected" /\ cur' = NoReq /\ timers' = timers + IF autoretry THEN 2 ELSE 0
       ELSE UNCHANGED <<ui, cur, timers>>
  /\ UNCHANGED <<file, raced, removed, ub, autoretry, stopped>>

Server(r) == Handle(r) /\ UNCHANGED <<page, faults>>
ServerFails(r) == HandleFails(r) /\ Fault /\ UNCHANGED <<page>>
Remove == Delete /\ Fault /\ UNCHANGED page

Next ==
  \/ Add \/ AddMeanwhile \/ TimerFires \/ PartDone \/ PartRefused \/ RequestFails
  \/ Cancel \/ Discard \/ Resume \/ Reload \/ Crash \/ Remove
  \/ \E r \in Reqs : Server(r) \/ ServerFails(r) \/ OrphanEnds(r)

Spec == Init /\ [][Next]_vars

(* A thread of the server does not stop in store, an answer reaches the page *)
(* and a timer fires; nothing else need happen.                             *)
FairSpec ==
  /\ Spec
  /\ \A r \in Reqs : WF_vars(Server(r)) /\ WF_vars(OrphanEnds(r))
  /\ WF_vars(PartDone) /\ WF_vars(PartRefused) /\ WF_vars(TimerFires)

-----------------------------------------------------------------------------
UIs == {"idle", "sending", "stuck", "rejected", "done"}

(* Every variable of the server and of the page has values of its kind, and  *)
(* the page waits for a request exactly while it is sending.                 *)
TypeOK ==
  /\ RepoTypeOK
  /\ ui \in UIs /\ cur \in Reqs \cup {NoReq} /\ ub \in 0..Size
  /\ timers \in Nat /\ autoretry \in BOOLEAN /\ stopped \in BOOLEAN
  /\ faults \in 0..MaxFaults
  /\ (cur # NoReq) = (ui = "sending")

(* When the browser reports an upload as finished (fileuploaddone), every    *)
(* byte of the file is in the repository, whatever requests failed, answers  *)
(* were lost, stops, resumes or restarts of the server came before - unless  *)
(* a request given up by the browser met another one that was setting the    *)
(* file up, or the file was removed during the attempt.                      *)
DoneIsComplete ==
  ui = "done" /\ ~raced /\ ~removed => exists /\ \A i \in Bytes : cell[i] = i

(* An upload ends by itself, after any failures of requests or restarts of   *)
(* the server: it is done, or stopped or left by the user, or the server has *)
(* refused a part, after which the page does nothing any more.               *)
Finishes == ui = "sending" ~> (ui \in {"done", "stuck", "idle"} \/ ~autoretry)

-----------------------------------------------------------------------------
(* The inductive invariant.  The file that is there: its bytes from the      *)
(* second part on are right up to the position in the header, and no two     *)
(* requests set it up.                                                       *)
Tail(n) == \A i \in Bytes : Chunk <= i /\ i < n => cell[i] = i
Front   == \A i \in Bytes : i < Chunk => cell[i] = i

Opened(r) == h[r].stage \in {"write", "pos"}

FileOK ==
  /\ head # Spoiled
  /\ Tail(head)
  /\ \A o \in Reqs : Initialising(o) /\ Linked(o) =>
       /\ head = IF h[o].stage = "head" THEN NoHead ELSE Len(h[o].at)
       /\ \A r \in Reqs \ {o} : Linked(r) =>
            ~Initialising(r) /\ h[r].stage # "pos" /\ (h[r].stage = "write" => h[r].seen <= Chunk)
  /\ \A r \in Reqs : Opened(r) /\ Linked(r) =>
       /\ head >= 0 /\ h[r].seen >= 0 /\ Tail(h[r].seen)
       /\ h[r].stage = "pos" => Tail(h[r].at + Len(h[r].at))

(* What the page has been told while no file was removed: the first n bytes  *)
(* are there, or a request is about to write the first part.                 *)
Told(n) ==
  /\ exists /\ head >= 0 /\ Tail(n)
  /\ Front \/ \E o \in Reqs : h[o].stage = "data"
  /\ (\E o \in Reqs : Initialising(o)) => n <= Chunk

KeptOK ==
  /\ \A r \in Reqs : Initialising(r) \/ Opened(r) => Linked(r)
  /\ \A r \in Reqs : Initialising(r) => h[r].at = 0
  /\ \A r \in Reqs : h[r].stage = "pad" => Front /\ h[r].pp >= Chunk
  /\ \A r \in Reqs : h[r].stage = "pos" => Front
  /\ \A r \in Reqs : h[r].stage = "other" =>
       exists /\ head = NoHead /\ \A o \in Reqs \ {r} : Busy(o) => h[o].stage = "check"
  /\ \A r \in Reqs : Busy(r) /\ h[r].at > 0 => Told(h[r].at)
  /\ cur # NoReq => (h[cur].stage = "answered" /\ h[cur].answer > 0 => Told(h[cur].answer))
  /\ ui = "done" => Told(Size)

IInv ==
  /\ TypeOK
  /\ \A r \in Reqs : h[r].inode <= gen
  /\ ~raced => FileOK /\ (~removed => KeptOK)
===============================================================================
