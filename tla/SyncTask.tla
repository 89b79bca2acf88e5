------------------------------- MODULE SyncTask -------------------------------
(***************************************************************************)
(* framework/utils/SyncTask: one collection that is kept the same on two    *)
(* systems.  With the setting "get" the documents of the peer are read,     *)
(* page by page, from web/data.get; with "set" the own documents are sent   *)
(* one by one (Publisher.publish) to web/data.set of the peer and marked as *)
(* synced.  upd is the collection the documents come from, on either side   *)
(* (a new peer has documents of the same times).  Nobody locks it: a program *)
(* writes while the loop reads, and the administrator changes the address.   *)
(***************************************************************************)
EXTENDS Integers, FiniteSets

CONSTANTS Docs,     \* the _id of the documents, in their order
          Number,   \* n, documents in a page
          Start, Collections, \* the time at the start, and what the collection may hold then
          MaxTime,  \* bound of the clock
          MaxWrites, \* writes to the collection
          MaxFaults \* failures, and changes of the address

ASSUME DocsAssumption == Docs \subseteq Nat /\ IsFiniteSet(Docs)
ASSUME BoundsAssumption == Number \in Nat \ {0} /\ MaxTime \in Nat \ {0} /\ MaxWrites \in Nat /\ MaxFaults \in Nat
ASSUME StartAssumption == Start \in 1..MaxTime /\ Collections \subseteq [Docs -> 0..Start]

VARIABLES
  type,     \* "sync.<collection>"
  refused,  \* documents that the peer's setrule refuses
  upd,      \* "updated" of each document; 0: it is not there
  stamped,  \* writes under way: [doc, time]
  now,      \* System.currentTimeMillis()
  lasttime, \* "sync.<collection>.lasttime"
  resets,   \* changes of the address that have still to reset it
  synced,   \* documents with synced: 1
  waiting,  \* runs scheduled and not begun: is the address they have read replaced?
  pc,       \* the loop
  from,     \* $gte of its query
  updated,  \* the highest time it has seen
  s,        \* the offset of its next page
  page,     \* documents of the present page still to be dealt with: [doc, time]
  more,     \* hasmore
  dirty,    \* documents written since the page was read
  old,      \* the loop reads from an address that has been replaced
  stale,    \* lasttime has been reset since the loop read it
  current,  \* documents whose present version is on the other side
  missed,   \* history: documents the loop cannot know it has to copy again
  writes, faults \* counters, for the bounds

settings == <<type, refused>>
source   == <<upd, stamped, now, writes>>
marks    == <<lasttime, resets, synced>>
loop     == <<pc, from, updated, s, page, more, dirty, old, stale>>
history  == <<current, missed>>
vars     == <<settings, source, marks, waiting, loop, history, faults>>

Times   == 0..MaxTime
Present == {d \in Docs : upd[d] > 0}

Init ==
  /\ type \in {"get", "set"}
  /\ refused \in IF type = "set" THEN SUBSET Docs ELSE {{}}
  /\ upd \in Collections /\ stamped = {} /\ now = Start
  /\ lasttime = 0 /\ resets = 0 /\ synced = {}
  /\ waiting = {} /\ pc = "idle" /\ from = 0 /\ updated = 0 /\ s = 0 /\ page = {}
  /\ more = FALSE /\ dirty = {} /\ old = FALSE /\ stale = FALSE
  /\ current = {} /\ missed = {}
  /\ writes = 0 /\ faults = 0

Fault == faults < MaxFaults /\ faults' = faults + 1

-----------------------------------------------------------------------------
(* The order of a query: by time and then, as the collection keeps them, by  *)
(* document.                                                                *)
Before(u, x, y) == u[x] < u[y] \/ (u[x] = u[y] /\ x < y)

(* Mutant: the next query begins after the last time. *)
MatchingAfter(u) == {d \in Docs : u[d] > 0 /\ (u[d] > from \/ from = 0)}

Matching(u) == {d \in Docs : u[d] > 0 /\ u[d] >= from}
Place(u, d) == Cardinality({x \in Matching(u) : Before(u, x, d)})

(* The documents of u at a place that has been read already; s is moved on   *)
(* with the page, so this holds of the page in hand too.                    *)
ReadPlaces(u) == {d \in Matching(u) : Place(u, d) < s}

(* V.set("updated", now) and the write are two calls: Bean.updateCollection  *)
Stamp(d) ==
  /\ writes < MaxWrites /\ writes' = writes + 1
  /\ stamped' = stamped \cup {[doc |-> d, time |-> now]}
  /\ UNCHANGED <<settings, upd, now, marks, waiting, loop, history, faults>>

(* A time the loop has passed, or passes with the page in hand. *)
Behind(t) == t < lasttime \/ \E p \in page : t < p.time

(* What the loop misses by a write to d: d itself, when it gets a place that *)
(* has been read or a time that is behind, or has its mark; and documents    *)
(* that move to a place already read, when there is a page to come.          *)
MissedBy(d, u) ==
  IF type = "set" THEN synced \cap {d}
  ELSE (IF more THEN ReadPlaces(u) \ ReadPlaces(upd) ELSE {})
       \cup (ReadPlaces(u) \cap {d})
       \cup (IF Behind(u[d]) THEN {d} ELSE {})

Write(w) ==
  /\ w \in stamped
  /\ stamped' = stamped \ {w}
  /\ LET u == [upd EXCEPT ![w.doc] = w.time]
     IN /\ upd' = u
        /\ dirty' = IF pc = "idle" THEN {} ELSE dirty \cup {w.doc}
        /\ current' = current \ {w.doc}
        /\ missed' = (missed \ {w.doc}) \cup MissedBy(w.doc, u)
  /\ UNCHANGED <<settings, now, writes, marks, waiting, pc, from, updated, s, page, more, old, stale, faults>>

(* The loop of "set" does not look at times. *)
Tick ==
  /\ type = "get" /\ now < MaxTime
  /\ now' = now + 1
  /\ UNCHANGED <<settings, upd, stamped, writes, marks, waiting, loop, history, faults>>

(* web/admin/sync.set with another address: the loop of "get" in progress and *)
(* the runs waiting keep the old one ("set" reads it for each document, in   *)
(* Publisher).  The new peer has nothing of ours, and all *)
(* of its own is new to us.                                                 *)
MoveUrl ==
  /\ Fault
  /\ resets' = resets + 1
  /\ waiting' = {type = "get" : o \in waiting}
  /\ old' = (type = "get" /\ pc # "idle")
  /\ current' = {}
  /\ missed' = IF type = "get" THEN {}
               ELSE synced \cup IF pc = "mark" THEN {p.doc : p \in page} ELSE {}
  /\ UNCHANGED <<settings, source, lasttime, synced, pc, from, updated, s, page, more, dirty, stale>>

(* lasttime = 0: all is read again, unless a loop has read lasttime before   *)
(* and will bring it up again.  The marks of the documents are not reset.    *)
ResetLasttime ==
  /\ lasttime' = 0
  /\ stale' = (type = "get" /\ pc # "idle")
  /\ missed' = IF type = "get" /\ pc = "idle" THEN {} ELSE missed
  /\ UNCHANGED <<settings, source, synced, waiting, pc, from, updated, s, page, more, dirty, old, current>>

(* The end of web/admin/sync.set with another address. *)
Reset ==
  /\ resets > 0 /\ resets' = resets - 1
  /\ ResetLasttime
  /\ UNCHANGED faults

(* web/admin/sync.reset *)
ResetAsked ==
  /\ Fault
  /\ ResetLasttime
  /\ UNCHANGED resets

-----------------------------------------------------------------------------
(* sync.task, every hour and after web/admin/sync.set: it reads the address  *)
(* and schedules a run of the loop.  Bound: while the loop runs, only if the  *)
(* address can still change for a run of "get"; otherwise it would come to   *)
(* the same as after.                                                       *)
Schedule ==
  /\ pc = "idle" \/ (type = "get" /\ faults < MaxFaults)
  /\ waiting' = waiting \cup {FALSE}
  /\ UNCHANGED <<settings, source, marks, loop, history, faults>>

(* The run begins, and reads lasttime. *)
Begin ==
  /\ pc = "idle"
  /\ \E o \in waiting : old' = o /\ waiting' = waiting \ {o}
  /\ pc' = "query"
  /\ from' = lasttime /\ updated' = lasttime /\ s' = 0
  /\ page' = {} /\ more' = TRUE /\ dirty' = {} /\ stale' = FALSE
  /\ UNCHANGED <<settings, source, marks, history, faults>>

(* The loop is running: the run is dropped as a duplicate (WorkerTask.run).  *)
Drop ==
  /\ pc # "idle"
  /\ \E o \in waiting : waiting' = waiting \ {o}
  /\ UNCHANGED <<settings, source, marks, loop, history, faults>>

End ==
  /\ pc' = "idle" /\ page' = {} /\ more' = FALSE /\ dirty' = {}
  /\ from' = 0 /\ updated' = 0 /\ s' = 0 /\ old' = FALSE /\ stale' = FALSE

(* Mutant: the offset stays where it is. *)
QueryAtStart ==
  /\ type = "get" /\ pc = "query"
  /\ LET found == {d \in Matching(upd) : Place(upd, d) \in s..(s + Number - 1)}
     IN IF found = {}
          THEN End
          ELSE /\ page' = {[doc |-> d, time |-> upd[d]] : d \in found}
               /\ more' = (Cardinality(found) >= Number)
               /\ dirty' = {}
               /\ pc' = "apply"
               /\ UNCHANGED <<from, updated, s, old, stale>>
  /\ UNCHANGED <<settings, source, waiting, marks, history, faults>>

(* web/data.get: skip s, limit n *)
Query ==
  /\ type = "get" /\ pc = "query"
  /\ LET found == {d \in Matching(upd) : Place(upd, d) \in s..(s + Number - 1)}
     IN IF found = {}
          THEN End
          ELSE /\ page' = {[doc |-> d, time |-> upd[d]] : d \in found}
               /\ s' = s + Cardinality(found)
               /\ more' = (Cardinality(found) >= Number)
               /\ dirty' = {}
               /\ pc' = "apply"
               /\ UNCHANGED <<from, updated, old, stale>>
  /\ UNCHANGED <<settings, source, waiting, marks, history, faults>>

(* Data.load of those without a mark, by _id *)
Load ==
  /\ type = "set" /\ pc = "query"
  /\ LET found == {d \in Present \ synced :
                     Cardinality({x \in Present \ synced : x < d}) < Number}
     IN IF found = {}
          THEN End
          ELSE /\ page' = {[doc |-> d, time |-> upd[d]] : d \in found}
               /\ dirty' = {}
               /\ pc' = "send"
               /\ UNCHANGED <<from, updated, s, more, old, stale>>
  /\ UNCHANGED <<settings, source, waiting, marks, history, faults>>

(* The document of the page that comes next. *)
IsNext(p) ==
  /\ p \in page
  /\ \A q \in page : IF type = "set" THEN p.doc <= q.doc
                     ELSE p.time < q.time \/ (p.time = q.time /\ p.doc <= q.doc)

(* if (l1 > updated) setConfig(lasttime): the new value of both *)
Later(t) == t > updated
NewLasttime(t) == IF Later(t) THEN t ELSE lasttime

(* Mutant: the last document of a page is followed by another one. *)
TurnOn(p, step, high, again) ==
  /\ pc' = step
  /\ page' = page \ {p} /\ updated' = high
  /\ UNCHANGED <<from, s, more, dirty, old, stale>>

(* The document is done with: the next of the page, after the last one the   *)
(* next page, and after the last page the end.                              *)
Turn(p, step, high, again) ==
  IF page = {p} /\ ~again
    THEN End
    ELSE /\ pc' = IF page = {p} THEN "query" ELSE step
         /\ page' = page \ {p} /\ updated' = high
         /\ UNCHANGED <<from, s, more, dirty, old, stale>>

AfterApply(p) ==
  /\ lasttime' = NewLasttime(p.time)
  /\ Turn(p, "apply", IF Later(p.time) THEN p.time ELSE updated, more)

AfterSend(p) == Turn(p, "send", updated, TRUE)

(* What is passed unread when lasttime is brought up: all, by a loop that    *)
(* reads from the old address; what comes before its query, by a loop that   *)
(* has read lasttime before it was reset.                                   *)
Passed(t) ==
  {d \in Docs : Later(t) /\ (IF old THEN upd[d] < t ELSE stale /\ upd[d] < from)}

(* Data.update(collection, j1) *)
Apply ==
  /\ type = "get" /\ pc = "apply"
  /\ \E p \in page :
       /\ IsNext(p)
       /\ current' = IF old THEN current \ {p.doc}
                     ELSE IF p.doc \in dirty THEN current ELSE current \cup {p.doc}
       /\ missed' = (missed \ (current' \cap {p.doc}))
                   \cup Passed(p.time) \cup IF old THEN {p.doc} ELSE {}
       /\ AfterApply(p)
  /\ UNCHANGED <<settings, source, waiting, resets, synced, faults>>

(* Its update fails, which nobody looks at. *)
ApplyFails ==
  /\ type = "get" /\ pc = "apply"
  /\ Fault
  /\ \E p \in page :
       /\ IsNext(p)
       /\ missed' = missed \cup {p.doc} \cup Passed(p.time)
       /\ AfterApply(p)
  /\ UNCHANGED <<settings, source, waiting, resets, synced, current>>

(* Mutant: it counts as sent whatever the peer answers. *)
PublishUnread ==
  /\ type = "set" /\ pc = "send"
  /\ \E p \in page :
       /\ IsNext(p)
       /\ current' = IF p.doc \in refused \cup dirty THEN current ELSE current \cup {p.doc}
  /\ pc' = "mark"
  /\ UNCHANGED <<settings, source, waiting, marks, from, updated, s, page, more, dirty, old, stale, missed, faults>>

(* Publisher.publish(p) > 0, to the address of the moment *)
Publish ==
  /\ type = "set" /\ pc = "send"
  /\ \E p \in page :
       /\ IsNext(p) /\ p.doc \notin refused
       /\ current' = IF p.doc \in dirty THEN current ELSE current \cup {p.doc}
  /\ pc' = "mark"
  /\ UNCHANGED <<settings, source, waiting, marks, from, updated, s, page, more, dirty, old, stale, missed, faults>>

(* Mutant: the run ends with the first document that is refused. *)
PublishRefusedEnds ==
  /\ type = "set" /\ pc = "send"
  /\ \E p \in page : IsNext(p) /\ p.doc \in refused
  /\ End
  /\ UNCHANGED <<settings, source, waiting, marks, history, faults>>

(* The peer forgets the document: it stays without a mark. *)
PublishRefused ==
  /\ type = "set" /\ pc = "send"
  /\ \E p \in page :
       /\ IsNext(p) /\ p.doc \in refused
       /\ AfterSend(p)
  /\ UNCHANGED <<settings, source, waiting, marks, history, faults>>

(* The peer answers another state, or that it has updated nothing. *)
PublishFails ==
  /\ type = "set" /\ pc = "send"
  /\ Fault
  /\ \E p \in page : IsNext(p) /\ AfterSend(p)
  /\ UNCHANGED <<settings, source, waiting, marks, history>>

(* Data.update(collection, {synced: 1}) *)
Mark ==
  /\ type = "set" /\ pc = "mark"
  /\ \E p \in page :
       /\ IsNext(p)
       /\ synced' = synced \cup {p.doc}
       /\ missed' = missed \cup (dirty \cap {p.doc})
       /\ AfterSend(p)
  /\ UNCHANGED <<settings, source, waiting, lasttime, resets, current, faults>>

(* The mark is not written: the document will be sent again. *)
MarkFails ==
  /\ type = "set" /\ pc = "mark"
  /\ Fault
  /\ \E p \in page : IsNext(p) /\ AfterSend(p)
  /\ UNCHANGED <<settings, source, waiting, marks, history>>

(* An exception, or an answer other than 200 for a page: the run is over.    *)
(* What was posted may be on the other side all the same.                   *)
Abort ==
  /\ pc # "idle"
  /\ Fault
  /\ End
  /\ current' \in {current} \cup
       {current \cup {p.doc} : p \in {q \in page : pc = "send" /\ IsNext(q) /\ q.doc \notin refused \cup dirty}}
  /\ UNCHANGED <<settings, source, waiting, marks, missed>>

Step == Query \/ Load \/ Apply \/ Publish \/ PublishRefused \/ Mark
Next ==
  \/ \E d \in Docs : Stamp(d)
  \/ \E w \in stamped : Write(w)
  \/ Tick \/ MoveUrl \/ Reset \/ ResetAsked
  \/ Schedule \/ Begin \/ Drop \/ Step
  \/ ApplyFails \/ PublishFails \/ MarkFails \/ Abort

Spec == Init /\ [][Next]_vars

(* The task runs every hour, and its loop does not stop of itself; nor does  *)
(* web/admin/sync.set half-way.  Programs need not write, and time need not  *)
(* pass.                                                                    *)
FairSpec == Spec /\ WF_vars(Reset) /\ WF_vars(Schedule) /\ WF_vars(Begin) /\ WF_vars(Step)

-----------------------------------------------------------------------------
Pages == [doc : Docs, time : Times \ {0}]

(* Every variable has values of its kind, and the loop holds a page exactly  *)
(* while it applies, sends or marks.                                        *)
TypeOK ==
  /\ type \in {"get", "set"} /\ refused \subseteq Docs
  /\ upd \in [Docs -> Times] /\ now \in Times
  /\ stamped \subseteq Pages
  /\ lasttime \in Times /\ resets \in Nat /\ synced \subseteq Docs
  /\ waiting \subseteq BOOLEAN
  /\ pc \in {"idle", "query", "apply", "send", "mark"}
  /\ from \in Times /\ updated \in Times /\ s \in Nat
  /\ page \subseteq Pages /\ (page = {}) = (pc \in {"idle", "query"})
  /\ more \in BOOLEAN /\ old \in BOOLEAN /\ stale \in BOOLEAN
  /\ dirty \subseteq Docs /\ current \subseteq Docs /\ missed \subseteq Docs
  /\ writes \in 0..MaxWrites /\ faults \in 0..MaxFaults

(* What the loop does not look at again - a document older than lasttime, a  *)
(* document with a mark - is on the other side in its present version        *)
(* (SyncTask.java:250, 299).  Left out are only: a document that a write      *)
(* brings to a place of the query already read, or to a time the loop has    *)
(* passed or passes with the page in hand; one that is written after its     *)
(* page was read or its mark was set; one whose update failed; what was done *)
(* for an address that has been replaced; and what a loop passes that has    *)
(* the old address, or lasttime from before its reset.                      *)
Settled(d) == IF type = "get" THEN resets = 0 /\ upd[d] > 0 /\ upd[d] < lasttime ELSE d \in synced
SettledIsCopied == \A d \in Docs : Settled(d) => d \in current \cup missed

(* A document that is there reaches the other side in the end, but for those *)
(* exceptions and for documents the peer refuses, as long as these do not    *)
(* fill a page.                                                             *)
Arrives ==
  \A d \in Docs :
    d \in Present ~> (d \in current \cup missed \cup refused \/ Cardinality(refused) >= Number)

(* A run of the loop ends, and gives its worker back, unless the peer        *)
(* refuses a document.                                                      *)
RunEnds == (pc # "idle" /\ refused = {}) ~> pc = "idle"

-----------------------------------------------------------------------------
(* The inductive invariant.  Each setting has its own loop, and one that     *)
(* reads from the address of the moment has lasttime to itself, unless it is *)
(* reset.                                                                   *)
LoopOK ==
  /\ now > 0
  /\ pc \in {"idle", "query"} \cup IF type = "get" THEN {"apply"} ELSE {"send", "mark"}
  /\ pc = "idle" => ~more /\ ~old /\ ~stale
  /\ type = "get" /\ pc = "query" => more
  /\ type = "get" /\ pc # "idle" /\ ~old /\ ~stale => updated = lasttime /\ from <= lasttime
  /\ dirty \cap current = {}

InPage == {p.doc : p \in page}

(* As long as there is a page to come, the places that have been read hold  *)
(* documents that are copied, in hand, or missed.                           *)
ReadOK ==
  \A d \in ReadPlaces(upd) :
    d \in current \cup missed \cup InPage /\ (d \in dirty => d \in missed)

(* So are the documents of the query with a time before one in hand, and     *)
(* those in hand come first.                                                *)
InHandOK ==
  \A p \in page, d \in Present : from <= upd[d] /\ upd[d] < p.time =>
    /\ d \in current \cup missed \cup {q.doc : q \in {r \in page : r.time < p.time}}
    /\ d \in dirty => d \in missed

SentOK == \A p \in page : IsNext(p) => p.doc \in current \cup missed \cup dirty

IInv ==
  /\ TypeOK /\ LoopOK /\ SettledIsCopied
  /\ type = "get" /\ ~old => (more => ReadOK) /\ InHandOK
  /\ type = "set" /\ pc = "mark" => SentOK
===============================================================================
