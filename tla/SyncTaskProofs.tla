---------------------------- MODULE SyncTaskProofs ----------------------------
(* Proofs about SyncTask, for any documents, size of a page, clock and       *)
(* number of writes and failures.                                           *)
EXTENDS SyncTask, TLAPS, FiniteSetTheorems

USE DEF settings, source, marks, loop, history

-----------------------------------------------------------------------------
(* The order of a query is total, and a place grows with it.                *)
LEMMA PlaceGrows ==
  ASSUME NEW u \in [Docs -> Times], NEW x \in Matching(u), NEW y \in Matching(u), Before(u, x, y)
  PROVE  Place(u, x) \in Nat /\ Place(u, y) \in Nat /\ Place(u, x) < Place(u, y)
<1> DEFINE Under(d) == {z \in Matching(u) : Before(u, z, d)}
<1>1. \A d \in Docs : u[d] \in Nat /\ d \in Nat
  BY DocsAssumption, BoundsAssumption DEF Times
<1>2. x \in Docs /\ y \in Docs /\ \A z \in Matching(u) : z \in Docs
  BY DEF Matching
<1>3. Under(x) \subseteq Under(y)
  BY <1>1, <1>2 DEF Before
<1>4. x \in Under(y) /\ x \notin Under(x)
  BY <1>1, <1>2 DEF Before
<1>5. IsFiniteSet(Under(y))
  BY DocsAssumption, FS_Subset, Under(y) \in SUBSET Docs DEF Matching
<1>6. /\ IsFiniteSet(Under(x)) /\ Cardinality(Under(x)) <= Cardinality(Under(y))
      /\ Cardinality(Under(y)) = Cardinality(Under(x)) => Under(y) = Under(x)
  BY <1>3, <1>5, FS_Subset
<1>7. Cardinality(Under(x)) \in Nat /\ Cardinality(Under(y)) \in Nat
  BY <1>5, <1>6, FS_CardinalityType
<1> HIDE DEF Under
<1>8. Cardinality(Under(x)) < Cardinality(Under(y))
  BY <1>4, <1>6, <1>7
<1> QED  BY <1>7, <1>8 DEF Under, Place

LEMMA PlaceIsNat ==
  ASSUME NEW u \in [Docs -> Times], NEW x \in Docs
  PROVE  Place(u, x) \in Nat
<1>1. {z \in Matching(u) : Before(u, z, x)} \in SUBSET Docs
  BY DEF Matching
<1>2. IsFiniteSet({z \in Matching(u) : Before(u, z, x)})
  BY <1>1, DocsAssumption, FS_Subset
<1> QED  BY <1>2, FS_CardinalityType DEF Place

(* Different documents have different places.                               *)
LEMMA PlacesDiffer ==
  ASSUME NEW u \in [Docs -> Times], NEW x \in Matching(u), NEW y \in Matching(u), x # y
  PROVE  Place(u, x) # Place(u, y)
<1>1. u[x] \in Nat /\ x \in Nat /\ u[y] \in Nat /\ y \in Nat
  BY DocsAssumption, BoundsAssumption DEF Times, Matching
<1>2. CASE Before(u, x, y)  BY <1>2, PlaceGrows
<1>3. CASE Before(u, y, x)  BY <1>3, PlaceGrows
<1> QED  BY <1>1, <1>2, <1>3 DEF Before

(* A page has at most Number documents, and they take up its places: the    *)
(* next offset is behind all that have been read.                           *)
LEMMA PageFound ==
  ASSUME TypeOK,
         NEW found, found = {d \in Matching(upd) : Place(upd, d) \in s..(s + Number - 1)}
  PROVE  /\ Cardinality(found) \in Nat
         /\ \A d \in Matching(upd) :
              Place(upd, d) < s + Cardinality(found) => d \in ReadPlaces(upd) \/ d \in found
<1> DEFINE T == s..(s + Number - 1)
           f == [d \in found |-> Place(upd, d)]
<1>1. upd \in [Docs -> Times] /\ s \in Nat /\ Number \in Nat \ {0}
  BY BoundsAssumption DEF TypeOK
<1>2. IsFiniteSet(T) /\ Cardinality(T) = Number
  BY <1>1, FS_Interval
<1>3. f \in Injection(found, T)
  <2>1. f \in [found -> T]  OBVIOUS
  <2>2. \A x, y \in found : f[x] = f[y] => x = y
    BY <1>1, PlacesDiffer
  <2> QED  BY <2>1, <2>2 DEF Injection, IsInjective
<1>4. IsFiniteSet(found) /\ Cardinality(found) <= Number
  BY <1>2, <1>3, FS_Injection
<1>5. Cardinality(found) \in Nat
  BY <1>4, FS_CardinalityType
<1>6. ASSUME NEW d \in Matching(upd), Place(upd, d) < s + Cardinality(found)
      PROVE  d \in ReadPlaces(upd) \/ d \in found
  <2>1. Place(upd, d) \in Nat
    BY <1>1, PlaceIsNat DEF Matching
  <2>2. CASE Place(upd, d) < s  BY <2>2 DEF ReadPlaces
  <2>3. CASE Place(upd, d) >= s
    BY <1>1, <1>4, <1>5, <1>6, <2>1, <2>3
  <2> QED  BY <1>1, <2>1, <2>2, <2>3
<1> QED  BY <1>5, <1>6

-----------------------------------------------------------------------------
(* Types                                                                    *)
LEMMA InitTypes == Init => TypeOK
<1> SUFFICES ASSUME Init PROVE TypeOK  OBVIOUS
<1>1. 0 \in Times /\ Start \in Times /\ 0..Start \subseteq Times
  BY BoundsAssumption, StartAssumption DEF Times
<1>2. upd \in [Docs -> Times]
  BY <1>1, StartAssumption DEF Init
<1>3. refused \subseteq Docs /\ stamped \subseteq Pages /\ page \subseteq Pages
  BY DEF Init
<1>4. s \in Nat /\ writes \in 0..MaxWrites /\ faults \in 0..MaxFaults
  BY BoundsAssumption DEF Init
<1>5. now \in Times /\ lasttime \in Times /\ from \in Times /\ updated \in Times
  BY <1>1 DEF Init
<1> QED  BY <1>2, <1>3, <1>4, <1>5 DEF Init, TypeOK

LEMMA Bounds == ASSUME TypeOK PROVE /\ Times \subseteq Nat /\ 0 \in Times
                                    /\ \A p \in page : p.doc \in Docs /\ p.time \in Times /\ p.time > 0
                                    /\ \A w \in stamped : w.doc \in Docs /\ w.time \in Times /\ w.time > 0
                                    /\ \A d \in Docs : upd[d] \in Times
  BY BoundsAssumption DEF TypeOK, Times, Pages

LEMMA FaultType == ASSUME TypeOK, Fault PROVE faults' \in 0..MaxFaults
  BY BoundsAssumption DEF TypeOK, Fault

(* What the end of a document's turn leaves.                                 *)
LEMMA TurnTypes ==
  ASSUME TypeOK, NEW p \in page, NEW step \in {"apply", "send"},
         NEW high \in Times, NEW again \in BOOLEAN, Turn(p, step, high, again)
  PROVE  /\ pc' \in {"idle", "query", step}
         /\ from' \in Times /\ updated' \in Times /\ s' \in Nat
         /\ page' \subseteq Pages /\ (page' = {}) = (pc' \in {"idle", "query"})
         /\ more' \in BOOLEAN /\ old' \in BOOLEAN /\ stale' \in BOOLEAN /\ dirty' \subseteq Docs
<1>1. CASE page = {p} /\ ~again
  BY <1>1, Bounds DEF Turn, End
<1>2. CASE page = {p} /\ again
  BY <1>2 DEF Turn, TypeOK
<1>3. CASE page # {p}
  BY <1>3 DEF Turn, TypeOK
<1> QED  BY <1>1, <1>2, <1>3

LEMMA LasttimeType ==
  ASSUME TypeOK, NEW p \in page
  PROVE  /\ NewLasttime(p.time) \in Times
         /\ (IF Later(p.time) THEN p.time ELSE updated) \in Times
  BY Bounds DEF TypeOK, NewLasttime

LEMMA SourceTypes ==
  ASSUME TypeOK, now > 0,
         \/ \E d \in Docs : Stamp(d)
         \/ \E w \in stamped : Write(w)
         \/ Tick \/ MoveUrl \/ Reset \/ ResetAsked \/ Schedule \/ Begin \/ Drop
  PROVE  TypeOK'
<1>1. CASE \E d \in Docs : Stamp(d)
  <2> PICK d \in Docs : Stamp(d)  BY <1>1
  <2>1. [doc |-> d, time |-> now] \in Pages  BY Bounds DEF TypeOK, Pages
  <2>2. writes' \in 0..MaxWrites  BY BoundsAssumption DEF Stamp, TypeOK
  <2> QED  BY <2>1, <2>2 DEF Stamp, TypeOK
<1>2. CASE \E w \in stamped : Write(w)
  <2> PICK w \in stamped : Write(w)  BY <1>2
  <2>1. upd' \in [Docs -> Times]  BY Bounds DEF Write, TypeOK
  <2>2. dirty' \subseteq Docs /\ current' \subseteq Docs
    BY Bounds DEF Write, TypeOK
  <2>3. \A u : MissedBy(w.doc, u) \subseteq Docs
    BY Bounds DEF MissedBy, TypeOK, ReadPlaces, Matching
  <2>4. missed' \subseteq Docs
    BY <2>3 DEF Write, TypeOK
  <2> QED  BY <2>1, <2>2, <2>4 DEF Write, TypeOK
<1>3. CASE Tick
  <2>1. now' \in Times  BY <1>3, BoundsAssumption DEF Tick, TypeOK, Times
  <2> QED  BY <1>3, <2>1 DEF Tick, TypeOK
<1>4. CASE MoveUrl
  <2>1. missed' \subseteq Docs  BY <1>4, Bounds DEF MoveUrl, TypeOK
  <2>2. waiting' \subseteq BOOLEAN
    <3>1. (type = "get") \in BOOLEAN  OBVIOUS
    <3>2. waiting' = {type = "get" : o \in waiting}  BY <1>4 DEF MoveUrl
    <3> QED  BY <3>1, <3>2, Zenon
  <2>3. resets' \in Nat  BY <1>4 DEF MoveUrl, TypeOK
  <2> QED  BY <1>4, <2>1, <2>2, <2>3, FaultType, Bounds DEF MoveUrl, TypeOK
<1>5. CASE Reset \/ ResetAsked
  <2>1. resets' \in Nat /\ faults' \in 0..MaxFaults
    BY <1>5, FaultType DEF Reset, ResetAsked, TypeOK
  <2>2. ResetLasttime  BY <1>5 DEF Reset, ResetAsked
  <2> QED  BY <2>1, <2>2, Bounds DEF ResetLasttime, TypeOK
<1>6. CASE Schedule
  BY <1>6 DEF Schedule, TypeOK
<1>7. CASE Begin
  <2>1. PICK o \in waiting : old' = o /\ waiting' = waiting \ {o}  BY <1>7 DEF Begin
  <2> QED  BY <1>7, <2>1, Bounds DEF Begin, TypeOK
<1>8. CASE Drop
  BY <1>8 DEF Drop, TypeOK
<1> QED  BY <1>1, <1>2, <1>3, <1>4, <1>5, <1>6, <1>7, <1>8

LEMMA EndTypes ==
  ASSUME TypeOK, End, current' \subseteq Docs, faults' \in 0..MaxFaults,
         UNCHANGED <<settings, source, waiting, marks, missed>>
  PROVE  TypeOK'
  BY Bounds DEF End, TypeOK

LEMMA StepTypes ==
  ASSUME TypeOK, Step \/ ApplyFails \/ PublishFails \/ MarkFails \/ Abort
  PROVE  TypeOK'
<1>1. CASE Query
  <2> DEFINE found == {d \in Matching(upd) : Place(upd, d) \in s..(s + Number - 1)}
  <2>1. CASE found = {}
    BY <1>1, <2>1, EndTypes DEF Query, TypeOK
  <2>2. CASE found # {}
    <3>1. s' \in Nat  BY <1>1, <2>2, PageFound DEF Query, TypeOK
    <3>2. \A d \in found : d \in Docs /\ upd[d] \in Times /\ upd[d] > 0
      BY Bounds DEF Matching
    <3>3. page' = {[doc |-> d, time |-> upd[d]] : d \in found}  BY <1>1, <2>2 DEF Query
    <3>4. more' \in BOOLEAN
      <4>1. more' = (Cardinality(found) >= Number)  BY <1>1, <2>2 DEF Query
      <4>2. Cardinality(found) \in Nat  BY PageFound
      <4>3. \A m, k \in Int : (m >= k) \in BOOLEAN  OBVIOUS
      <4>4. Number \in Int  BY BoundsAssumption
      <4>5. (Cardinality(found) >= Number) \in BOOLEAN  BY <4>2, <4>3, <4>4
      <4> QED  BY <4>1, <4>5, Zenon
    <3>5. /\ pc' = "apply" /\ dirty' = {}
          /\ UNCHANGED <<from, updated, old, stale, settings, source, waiting, marks, history, faults>>
      BY <1>1, <2>2 DEF Query
    <3>6. page' \subseteq Pages /\ page' # {}
      <4>1. \A d \in found : [doc |-> d, time |-> upd[d]] \in Pages
        <5> HIDE DEF found
        <5> QED  BY <3>2, BoundsAssumption DEF Pages, Times
      <4> HIDE DEF found
      <4>2. page' \subseteq Pages  BY <3>3, <4>1
      <4>3. page' # {}  BY <2>2, <3>3
      <4> QED  BY <4>2, <4>3
    <3> QED  BY <3>1, <3>4, <3>5, <3>6 DEF TypeOK
  <2> QED  BY <2>1, <2>2
<1>2. CASE Load
  <2> DEFINE found == {d \in Present \ synced : Cardinality({x \in Present \ synced : x < d}) < Number}
  <2>1. CASE found = {}
    BY <1>2, <2>1, EndTypes DEF Load, TypeOK
  <2>2. CASE found # {}
    <3>2. \A d \in found : d \in Docs /\ upd[d] \in Times /\ upd[d] > 0
      BY Bounds DEF Present
    <3>3. page' = {[doc |-> d, time |-> upd[d]] : d \in found}  BY <1>2, <2>2 DEF Load
    <3>4. /\ pc' = "send" /\ dirty' = {}
          /\ UNCHANGED <<from, updated, s, more, old, stale, settings, source, waiting, marks, history, faults>>
      BY <1>2, <2>2 DEF Load
    <3>5. page' \subseteq Pages /\ page' # {}
      <4>1. \A d \in found : [doc |-> d, time |-> upd[d]] \in Pages
        <5> HIDE DEF found
        <5> QED  BY <3>2, BoundsAssumption DEF Pages, Times
      <4> HIDE DEF found
      <4>2. page' \subseteq Pages  BY <3>3, <4>1
      <4>3. page' # {}  BY <2>2, <3>3
      <4> QED  BY <4>2, <4>3
    <3> QED  BY <3>4, <3>5 DEF TypeOK
  <2> QED  BY <2>1, <2>2
<1>3. CASE Apply
  <2> PICK p \in page : /\ AfterApply(p)
                        /\ current' = IF old THEN current \ {p.doc}
                                      ELSE IF p.doc \in dirty THEN current ELSE current \cup {p.doc}
                        /\ missed' = (missed \ (current' \cap {p.doc}))
                                      \cup Passed(p.time) \cup IF old THEN {p.doc} ELSE {}
    BY <1>3 DEF Apply
  <2>1. current' \subseteq Docs /\ missed' \subseteq Docs
    BY Bounds DEF TypeOK, Passed
  <2>2. lasttime' \in Times /\ Turn(p, "apply", IF Later(p.time) THEN p.time ELSE updated, more)
    BY LasttimeType DEF AfterApply
  <2>3. more \in BOOLEAN  BY DEF TypeOK
  <2> QED  BY <1>3, <2>1, <2>2, <2>3, LasttimeType, TurnTypes DEF Apply, TypeOK
<1>4. CASE ApplyFails
  <2> PICK p \in page : AfterApply(p) /\ missed' = missed \cup {p.doc} \cup Passed(p.time)
    BY <1>4 DEF ApplyFails
  <2>1. missed' \subseteq Docs
    BY Bounds DEF TypeOK, Passed
  <2>2. lasttime' \in Times /\ Turn(p, "apply", IF Later(p.time) THEN p.time ELSE updated, more)
    BY LasttimeType DEF AfterApply
  <2>3. more \in BOOLEAN  BY DEF TypeOK
  <2>4. faults' \in 0..MaxFaults  BY <1>4, FaultType DEF ApplyFails
  <2> QED  BY <1>4, <2>1, <2>2, <2>3, <2>4, LasttimeType, TurnTypes DEF ApplyFails, TypeOK
<1>5. CASE Publish
  <2>1. current' \subseteq Docs  BY <1>5, Bounds DEF Publish, TypeOK
  <2>2. page # {}  BY <1>5 DEF Publish
  <2> QED  BY <1>5, <2>1, <2>2 DEF Publish, TypeOK
<1>6. CASE PublishRefused \/ PublishFails \/ MarkFails
  <2> PICK p \in page : AfterSend(p)
    BY <1>6 DEF PublishRefused, PublishFails, MarkFails
  <2>1. Turn(p, "send", updated, TRUE) /\ updated \in Times
    BY DEF AfterSend, TypeOK
  <2>2. faults' \in 0..MaxFaults
    BY <1>6, FaultType DEF PublishRefused, PublishFails, MarkFails, TypeOK
  <2>3. UNCHANGED <<settings, source, waiting, marks, history>>
    BY <1>6 DEF PublishRefused, PublishFails, MarkFails
  <2> QED  BY <2>1, <2>2, <2>3, TurnTypes DEF TypeOK
<1>7. CASE Mark
  <2> PICK p \in page : /\ AfterSend(p)
                        /\ synced' = synced \cup {p.doc}
                        /\ missed' = missed \cup (dirty \cap {p.doc})
    BY <1>7 DEF Mark
  <2>1. Turn(p, "send", updated, TRUE) /\ updated \in Times
    BY DEF AfterSend, TypeOK
  <2>2. synced' \subseteq Docs /\ missed' \subseteq Docs
    BY Bounds DEF TypeOK
  <2> QED  BY <1>7, <2>1, <2>2, TurnTypes DEF Mark, TypeOK
<1>8. CASE Abort
  <2>1. current' \subseteq Docs  BY <1>8, Bounds DEF Abort, TypeOK
  <2>2. faults' \in 0..MaxFaults  BY <1>8, FaultType DEF Abort
  <2> QED  BY <1>8, <2>1, <2>2, EndTypes DEF Abort
<1> QED  BY <1>1, <1>2, <1>3, <1>4, <1>5, <1>6, <1>7, <1>8 DEF Step

-----------------------------------------------------------------------------
(* The inductive invariant                                                  *)
LEMMA InitInv == Init => IInv
<1> SUFFICES ASSUME Init PROVE IInv  OBVIOUS
<1>1. TypeOK  BY InitTypes
<1>2. page = {} /\ lasttime = 0 /\ synced = {} /\ pc = "idle" /\ ~more /\ ~old /\ ~stale /\ dirty = {} /\ now > 0
  BY StartAssumption, BoundsAssumption DEF Init
<1>3. LoopOK  BY <1>2 DEF LoopOK
<1>4. SettledIsCopied
  BY <1>1, <1>2, Bounds DEF SettledIsCopied, Settled, Times
<1>5. InHandOK  BY <1>2 DEF InHandOK
<1> QED  BY <1>1, <1>2, <1>3, <1>4, <1>5 DEF IInv

(* The places read depend on the documents, the beginning of the query and   *)
(* the offset only.                                                         *)
LEMMA SamePlaces ==
  ASSUME UNCHANGED <<from, s>>
  PROVE  ReadPlaces(upd)' = ReadPlaces(upd')
  BY DEF ReadPlaces, Place, Matching

LEMMA SameNext ==
  ASSUME UNCHANGED <<type, page>>
  PROVE  \A p : IsNext(p)' = IsNext(p)
  BY Zenon DEF IsNext

LEMMA QuietInv ==
  ASSUME IInv, TypeOK', now' > 0, UNCHANGED <<type, upd, marks, loop, history>>
  PROVE  IInv'
<1>1. LoopOK'  BY DEF IInv, LoopOK
<1>2. SettledIsCopied'  BY DEF IInv, SettledIsCopied, Settled
<1>3. ReadOK => ReadOK'
  <2>1. ReadPlaces(upd)' = ReadPlaces(upd)  BY SamePlaces
  <2> QED  BY <2>1 DEF ReadOK, InPage
<1>4. InHandOK => InHandOK'  BY DEF InHandOK, Present
<1>5. SentOK => SentOK'  BY SameNext DEF SentOK
<1>6. UNCHANGED <<type, old, more, pc>>  OBVIOUS
<1> QED  BY <1>1, <1>2, <1>3, <1>4, <1>5, <1>6 DEF IInv

LEMMA EndInv ==
  ASSUME IInv, TypeOK', End, UNCHANGED <<settings, source, marks, missed>>, current \subseteq current'
  PROVE  IInv'
<1>1. /\ pc' = "idle" /\ page' = {} /\ ~more' /\ dirty' = {} /\ ~old' /\ ~stale'
      /\ now' = now /\ type' = type
  BY DEF End
<1>2. LoopOK'  BY <1>1 DEF IInv, LoopOK
<1>3. SettledIsCopied'  BY DEF IInv, SettledIsCopied, Settled
<1>4. InHandOK'  BY <1>1 DEF InHandOK
<1> QED  BY <1>1, <1>2, <1>3, <1>4 DEF IInv

LEMMA WriteInv == ASSUME IInv, TypeOK', NEW w \in stamped, Write(w) PROVE IInv'
<1> DEFINE d == w.doc
           u == [upd EXCEPT ![d] = w.time]
<1>1. /\ upd' = u /\ current' = current \ {d}
      /\ missed' = (missed \ {d}) \cup MissedBy(d, u)
      /\ dirty' = IF pc = "idle" THEN {} ELSE dirty \cup {d}
      /\ UNCHANGED <<settings, now, marks, pc, from, updated, s, page, more, old, stale>>
  BY DEF Write
<1>2. TypeOK /\ LoopOK /\ SettledIsCopied  BY DEF IInv
<1>3. d \in Docs /\ u \in [Docs -> Times] /\ u[d] = w.time /\ \A x \in Docs \ {d} : u[x] = upd[x]
  BY <1>2, Bounds DEF TypeOK
<1>4. LoopOK'  BY <1>1, <1>2 DEF LoopOK
<1>5. SettledIsCopied'
  <2> SUFFICES ASSUME NEW x \in Docs, Settled(x)' PROVE x \in current' \cup missed'
    BY DEF SettledIsCopied
  <2>1. CASE x = d /\ type = "get"
    <3>1. u[d] < lasttime  BY <1>1, <2>1 DEF Settled
    <3> QED  BY <1>1, <2>1, <3>1 DEF MissedBy, Behind
  <2>2. CASE x = d /\ type # "get"
    BY <1>1, <1>2, <2>2 DEF MissedBy, Settled, TypeOK
  <2>3. CASE x # d
    <3>1. Settled(x)  BY <1>1, <1>3, <2>3 DEF Settled
    <3> QED  BY <1>1, <1>2, <2>3, <3>1 DEF SettledIsCopied
  <2> QED  BY <2>1, <2>2, <2>3
<1>6. ASSUME type = "get", ~old PROVE (more' => ReadOK') /\ InHandOK'
  <2>1. (more => ReadOK) /\ InHandOK  BY <1>6 DEF IInv
  <2>2. ASSUME more PROVE ReadOK'
    <3>1. ReadPlaces(upd)' = ReadPlaces(u)  BY <1>1, SamePlaces
    <3>2. pc # "idle"  BY <1>2, <2>2 DEF LoopOK
    <3> SUFFICES ASSUME NEW x \in ReadPlaces(u)
                 PROVE  x \in current' \cup missed' \cup InPage' /\ (x \in dirty' => x \in missed')
      BY <3>1 DEF ReadOK
    <3>3. CASE x = d \/ x \notin ReadPlaces(upd)
      BY <1>1, <1>6, <2>2, <3>3 DEF MissedBy
    <3>4. CASE x # d /\ x \in ReadPlaces(upd)
      <4>1. x \in current \cup missed \cup InPage /\ (x \in dirty => x \in missed)
        BY <2>1, <2>2, <3>4 DEF ReadOK
      <4>2. InPage' = InPage  BY <1>1 DEF InPage
      <4> QED  BY <1>1, <3>2, <3>4, <4>1, <4>2
    <3> QED  BY <3>3, <3>4
  <2>3. InHandOK'
    <3> SUFFICES ASSUME NEW p \in page, NEW x \in Docs, u[x] > 0, from <= u[x], u[x] < p.time
                 PROVE  /\ x \in current' \cup missed' \cup {q.doc : q \in {r \in page : r.time < p.time}}
                        /\ x \in dirty' => x \in missed'
      BY <1>1 DEF InHandOK, Present
    <3>1. CASE x = d
      <4>1. Behind(u[d])  BY <3>1 DEF Behind
      <4> QED  BY <1>1, <1>6, <3>1, <4>1 DEF MissedBy
    <3>2. CASE x # d
      <4>1. /\ x \in current \cup missed \cup {q.doc : q \in {r \in page : r.time < p.time}}
            /\ x \in dirty => x \in missed
        BY <1>3, <2>1, <3>2 DEF InHandOK, Present
      <4> QED  BY <1>1, <3>2, <4>1
    <3> QED  BY <3>1, <3>2
  <2> QED  BY <1>1, <2>2, <2>3
<1>7. ASSUME type = "set", pc = "mark" PROVE SentOK'
  <2>1. SentOK  BY <1>7 DEF IInv
  <2>2. dirty' = dirty \cup {d}  BY <1>1, <1>7
  <2> QED  BY <1>1, <2>1, <2>2, SameNext DEF SentOK
<1>8. UNCHANGED <<type, old, pc>>  BY <1>1
<1> QED  BY <1>4, <1>5, <1>6, <1>7, <1>8 DEF IInv

LEMMA MoveInv == ASSUME IInv, TypeOK', MoveUrl PROVE IInv'
<1>1. /\ resets' = resets + 1 /\ old' = (type = "get" /\ pc # "idle") /\ current' = {}
      /\ missed' = IF type = "get" THEN {}
                   ELSE synced \cup IF pc = "mark" THEN {p.doc : p \in page} ELSE {}
      /\ UNCHANGED <<settings, source, lasttime, synced, pc, from, updated, s, page, more, dirty, stale>>
  BY DEF MoveUrl
<1>2. TypeOK /\ LoopOK  BY DEF IInv
<1>3. LoopOK'
  <2>1. pc = "idle" => ~old'  BY <1>1
  <2>2. type = "get" /\ pc # "idle" => old'  BY <1>1
  <2> QED  BY <1>1, <1>2, <2>1, <2>2 DEF LoopOK
<1>4. SettledIsCopied'
  <2>1. resets' # 0  BY <1>1, <1>2 DEF TypeOK
  <2> QED  BY <1>1, <1>2, <2>1 DEF SettledIsCopied, Settled, TypeOK
<1>5. ASSUME type = "get", ~old' PROVE (more' => ReadOK') /\ InHandOK'
  <2>1. pc = "idle"  BY <1>1, <1>5
  <2>2. ~more' /\ page' = {}  BY <1>1, <1>2, <2>1 DEF LoopOK, TypeOK
  <2> QED  BY <2>2 DEF InHandOK
<1>6. ASSUME type = "set", pc = "mark" PROVE SentOK'
  BY <1>1, <1>6 DEF SentOK
<1> QED  BY <1>1, <1>3, <1>4, <1>5, <1>6 DEF IInv

(* A reset leaves the page and the places read alone, and settles nothing.   *)
LEMMA ResetInv == ASSUME IInv, TypeOK', Reset \/ ResetAsked PROVE IInv'
<1>1. /\ lasttime' = 0 /\ stale' = (type = "get" /\ pc # "idle")
      /\ missed' = IF type = "get" /\ pc = "idle" THEN {} ELSE missed
      /\ UNCHANGED <<settings, source, synced, pc, from, updated, s, page, more, dirty, old, current>>
  BY DEF Reset, ResetAsked, ResetLasttime
<1>2. TypeOK /\ LoopOK /\ SettledIsCopied  BY DEF IInv
<1>3. LoopOK'  BY <1>1, <1>2 DEF LoopOK
<1>4. SettledIsCopied'
  <2>1. \A d \in Docs : ~(0 < upd[d] /\ upd[d] < 0)  BY <1>2, Bounds DEF TypeOK
  <2>2. CASE type = "get"  BY <1>1, <2>1, <2>2 DEF SettledIsCopied, Settled
  <2>3. CASE type # "get"  BY <1>1, <1>2, <2>3 DEF SettledIsCopied, Settled
  <2> QED  BY <2>2, <2>3
<1>5. CASE pc = "idle"
  <2>1. ~more' /\ page' = {}  BY <1>1, <1>2, <1>5 DEF LoopOK, TypeOK
  <2>2. InHandOK'  BY <2>1 DEF InHandOK
  <2> QED  BY <1>1, <1>3, <1>4, <1>5, <2>1, <2>2 DEF IInv
<1>6. CASE pc # "idle"
  <2>1. UNCHANGED <<upd, from, s, page, more, dirty, old, current, missed, type, pc>>  BY <1>1, <1>6
  <2>2. ReadOK => ReadOK'
    <3>1. ReadPlaces(upd)' = ReadPlaces(upd)  BY <2>1, SamePlaces
    <3> QED  BY <2>1, <3>1 DEF ReadOK, InPage
  <2>3. InHandOK => InHandOK'  BY <2>1 DEF InHandOK, Present
  <2>4. SentOK => SentOK'  BY <2>1, SameNext DEF SentOK
  <2> QED  BY <1>3, <1>4, <2>1, <2>2, <2>3, <2>4 DEF IInv
<1> QED  BY <1>5, <1>6

LEMMA BeginInv == ASSUME IInv, TypeOK', Begin PROVE IInv'
<1>1. /\ pc' = "query" /\ from' = lasttime /\ updated' = lasttime /\ s' = 0
      /\ page' = {} /\ more' = TRUE /\ dirty' = {} /\ stale' = FALSE
      /\ UNCHANGED <<settings, source, marks, history>>
  BY DEF Begin
<1>2. TypeOK /\ LoopOK /\ SettledIsCopied  BY DEF IInv
<1>3. lasttime <= lasttime  BY <1>2, Bounds DEF TypeOK
<1>4. LoopOK'  BY <1>1, <1>2, <1>3 DEF LoopOK
<1>5. SettledIsCopied'  BY <1>1, <1>2 DEF SettledIsCopied, Settled
<1>6. ReadOK'
  <2>1. upd \in [Docs -> Times] /\ upd' = upd  BY <1>1, <1>2 DEF TypeOK
  <2>2. \A d \in Matching(upd)' : Place(upd, d)' \in Nat
    <3> SUFFICES ASSUME NEW d \in Docs PROVE Place(upd, d)' \in Nat
      BY DEF Matching
    <3>1. {z \in Matching(upd)' : Before(upd, z, d)'} \in SUBSET Docs  BY DEF Matching
    <3>2. IsFiniteSet({z \in Matching(upd)' : Before(upd, z, d)'})
      BY <3>1, DocsAssumption, FS_Subset
    <3> QED  BY <3>2, FS_CardinalityType DEF Place
  <2>3. ReadPlaces(upd)' = {}
    BY <1>1, <2>2 DEF ReadPlaces
  <2> QED  BY <2>3 DEF ReadOK
<1>7. InHandOK'  BY <1>1 DEF InHandOK
<1> QED  BY <1>1, <1>4, <1>5, <1>6, <1>7 DEF IInv

LEMMA QueryInv == ASSUME IInv, TypeOK', Query PROVE IInv'
<1> DEFINE found == {d \in Matching(upd) : Place(upd, d) \in s..(s + Number - 1)}
<1>1. TypeOK /\ LoopOK /\ SettledIsCopied  BY DEF IInv
<1>2. CASE found = {}
  BY <1>2, EndInv DEF Query
<1>3. CASE found # {}
  <2>1. /\ page' = {[doc |-> d, time |-> upd[d]] : d \in found}
        /\ s' = s + Cardinality(found)
        /\ dirty' = {} /\ pc' = "apply" /\ type = "get" /\ pc = "query"
        /\ UNCHANGED <<settings, source, marks, history, from, updated, old, stale>>
    BY <1>3 DEF Query
  <2>2. more /\ page = {}  BY <1>1, <2>1 DEF LoopOK, TypeOK
  <2>3. LoopOK'  BY <1>1, <2>1 DEF LoopOK
  <2>4. SettledIsCopied'  BY <1>1, <2>1 DEF SettledIsCopied, Settled
  <2>5. ASSUME ~old PROVE ReadOK' /\ InHandOK'
    <3>1. \A d \in ReadPlaces(upd) : d \in current \cup missed
      BY <2>1, <2>2, <2>5 DEF IInv, ReadOK, InPage
    <3>2. \A d \in found : d \in InPage' /\ [doc |-> d, time |-> upd[d]] \in page'
      BY <2>1 DEF InPage
    <3>3. ReadOK'
      <4>1. ReadPlaces(upd)' = {d \in Matching(upd) : Place(upd, d) < s'}
        BY <2>1 DEF ReadPlaces, Place, Matching
      <4>2. \A d \in Matching(upd) :
              Place(upd, d) < s + Cardinality(found) => d \in ReadPlaces(upd) \/ d \in found
        BY <1>1, PageFound
      <4> HIDE DEF found
      <4> QED  BY <2>1, <3>1, <3>2, <4>1, <4>2 DEF ReadOK
    <3>4. InHandOK'
      <4> SUFFICES ASSUME NEW p \in page', NEW d \in Docs, upd[d] > 0, from <= upd[d], upd[d] < p.time
                   PROVE  d \in current \cup missed \cup {q.doc : q \in {r \in page' : r.time < p.time}}
        BY <2>1 DEF InHandOK, Present
      <4>1. PICK x \in found : p = [doc |-> x, time |-> upd[x]]  BY <2>1
      <4>2. upd \in [Docs -> Times] /\ s \in Nat /\ Number \in Nat \ {0}
        BY <1>1, BoundsAssumption DEF TypeOK
      <4>3. d \in Matching(upd) /\ x \in Matching(upd) /\ Before(upd, d, x)
        BY <1>1, <4>1, <4>2, Bounds DEF Matching, Before, TypeOK
      <4>4. Place(upd, d) \in Nat /\ Place(upd, x) \in Nat /\ Place(upd, d) < Place(upd, x)
        BY <4>2, <4>3, PlaceGrows
      <4>5. Place(upd, x) \in s..(s + Number - 1)  BY <4>1
      <4>6. d \in ReadPlaces(upd) \/ d \in found
        BY <4>2, <4>3, <4>4, <4>5 DEF ReadPlaces
      <4>7. CASE d \in ReadPlaces(upd)  BY <3>1, <4>7
      <4>8. CASE d \in found
        <5>1. [doc |-> d, time |-> upd[d]] \in {r \in page' : r.time < p.time}
          BY <3>2, <4>8
        <5> QED  BY <5>1
      <4> QED  BY <4>6, <4>7, <4>8
    <3> QED  BY <3>3, <3>4
  <2> QED  BY <2>1, <2>3, <2>4, <2>5 DEF IInv
<1> QED  BY <1>2, <1>3

(* A document applied: lasttime goes up to its time, and none of those       *)
(* before it is left in hand.                                               *)
LEMMA AppliedInv ==
  ASSUME IInv, TypeOK', NEW p \in page, type = "get", pc = "apply", IsNext(p), AfterApply(p),
         UNCHANGED <<settings, source, resets, synced>>,
         current \ {p.doc} \subseteq current', current' \subseteq current \cup {p.doc},
         ~old /\ p.doc \in current => p.doc \in current',
         p.doc \in current' => p.doc \notin dirty,
         missed \ (current' \cap {p.doc}) \subseteq missed', Passed(p.time) \subseteq missed',
         old => p.doc \in current' \cup missed',
         ~old => p.doc \in dirty \cup current' \cup missed'
  PROVE  IInv'
<1>1. TypeOK /\ LoopOK /\ SettledIsCopied  BY DEF IInv
<1>2. /\ p.doc \in Docs /\ p.time \in Nat /\ lasttime \in Nat /\ updated \in Nat /\ from \in Nat
      /\ upd \in [Docs -> Times] /\ \A d \in Docs : upd[d] \in Nat
  BY <1>1, Bounds DEF TypeOK
<1>3. \A x : x \in current \cup missed => x \in current' \cup missed'
  OBVIOUS
<1>4. /\ lasttime' = NewLasttime(p.time)
      /\ Turn(p, "apply", IF Later(p.time) THEN p.time ELSE updated, more)
      /\ type' = type /\ upd' = upd /\ synced' = synced /\ now' = now /\ resets' = resets
  BY DEF AfterApply
<1>5. \/ /\ pc' = "idle" /\ page' = {} /\ ~more' /\ dirty' = {} /\ ~old' /\ ~stale'
      \/ /\ pc' \in {"query", "apply"} /\ (pc' = "query" => more)
         /\ page' = page \ {p} /\ updated' = (IF Later(p.time) THEN p.time ELSE updated)
         /\ UNCHANGED <<from, s, more, dirty, old, stale>>
  BY <1>4 DEF Turn, End
<1>6. LoopOK'
  <2>1. CASE pc' = "idle"
    BY <1>1, <1>4, <1>5, <2>1 DEF LoopOK
  <2>2. CASE pc' # "idle"
    <3>1. ~old /\ ~stale => updated = lasttime /\ from <= lasttime  BY <1>1 DEF LoopOK
    <3>2. ~old /\ ~stale => updated' = lasttime' /\ from <= lasttime'
      BY <1>2, <1>4, <1>5, <2>2, <3>1 DEF NewLasttime, Later
    <3>3. dirty \cap current' = {}  BY <1>1 DEF LoopOK
    <3> QED  BY <1>1, <1>4, <1>5, <2>2, <3>2, <3>3 DEF LoopOK
  <2> QED  BY <2>1, <2>2
<1>7. ~old => (more => ReadOK) /\ InHandOK  BY DEF IInv
<1>8. \A q \in page : ~(q.time < p.time)
  <2> SUFFICES ASSUME NEW q \in page, q.time < p.time PROVE FALSE  OBVIOUS
  <2>1. p.time < q.time \/ p.time = q.time  BY DEF IsNext
  <2>2. q.time \in Nat  BY <1>1, Bounds
  <2> QED  BY <1>2, <2>1, <2>2
<1>9. SettledIsCopied'
  <2> SUFFICES ASSUME NEW d \in Docs, resets = 0, upd[d] > 0, upd[d] < lasttime'
               PROVE  d \in current' \cup missed'
    BY <1>4 DEF SettledIsCopied, Settled
  <2>1. CASE upd[d] < lasttime
    <3>1. d \in current \cup missed  BY <1>1, <2>1 DEF SettledIsCopied, Settled
    <3> QED  BY <1>3, <3>1
  <2>2. CASE ~(upd[d] < lasttime)
    <3>1. Later(p.time) /\ lasttime' = p.time  BY <1>4, <2>2 DEF NewLasttime
    <3>2. CASE old  BY <3>1, <3>2 DEF Passed
    <3>3. CASE ~old /\ upd[d] < from
      <4>1. stale  BY <1>1, <1>2, <2>2, <3>3 DEF LoopOK
      <4> QED  BY <3>1, <3>3, <4>1 DEF Passed
    <3>4. CASE ~old /\ ~(upd[d] < from)
      <4>1. d \in current \cup missed \cup {q.doc : q \in {r \in page : r.time < p.time}}
        BY <1>2, <1>7, <3>1, <3>4 DEF InHandOK, Present
      <4>2. d \in current \cup missed  BY <1>8, <4>1
      <4> QED  BY <1>3, <4>2
    <3> QED  BY <3>2, <3>3, <3>4
  <2> QED  BY <2>1, <2>2
<1>10. ASSUME pc' # "idle", ~old PROVE (more' => ReadOK') /\ InHandOK'
  <2>1. page' = page \ {p} /\ UNCHANGED <<from, s, more, dirty, old, stale>>  BY <1>5, <1>10
  <2>2. ASSUME NEW d, d \in dirty, d \in missed PROVE d \in missed'
    BY <1>1, <2>2
  <2>3. ASSUME more PROVE ReadOK'
    <3>1. ReadPlaces(upd)' = ReadPlaces(upd)  BY <1>4, <2>1, SamePlaces
    <3> SUFFICES ASSUME NEW d \in ReadPlaces(upd)
                 PROVE  d \in current' \cup missed' \cup InPage' /\ (d \in dirty => d \in missed')
      BY <2>1, <3>1 DEF ReadOK
    <3>2. d \in current \cup missed \cup InPage /\ (d \in dirty => d \in missed)
      BY <1>7, <1>10, <2>3 DEF ReadOK
    <3>3. CASE d = p.doc  BY <1>10, <2>2, <3>2, <3>3
    <3>4. CASE d # p.doc
      <4>1. d \in InPage => d \in InPage'  BY <2>1, <3>4 DEF InPage
      <4> QED  BY <1>3, <1>10, <2>2, <3>2, <4>1
    <3> QED  BY <3>3, <3>4
  <2>4. InHandOK'
    <3> SUFFICES ASSUME NEW q \in page \ {p}, NEW d \in Present, from <= upd[d], upd[d] < q.time
                 PROVE  /\ d \in current' \cup missed' \cup {x.doc : x \in {r \in page \ {p} : r.time < q.time}}
                        /\ d \in dirty => d \in missed'
      BY <1>4, <2>1 DEF InHandOK, Present
    <3>1. /\ d \in current \cup missed \cup {x.doc : x \in {r \in page : r.time < q.time}}
          /\ d \in dirty => d \in missed
      BY <1>7, <1>10 DEF InHandOK
    <3>2. CASE d = p.doc  BY <1>10, <2>2, <3>1, <3>2
    <3>3. CASE d # p.doc  BY <1>3, <1>10, <2>2, <3>1, <3>3
    <3> QED  BY <3>2, <3>3
  <2> QED  BY <2>1, <2>3, <2>4
<1>11. pc' = "idle" => ~more' /\ InHandOK'
  BY <1>5 DEF InHandOK
<1>12. pc' # "idle" => old' = old  BY <1>5
<1> QED  BY <1>4, <1>6, <1>9, <1>10, <1>11, <1>12 DEF IInv

LEMMA ApplyInv == ASSUME IInv, TypeOK', Apply \/ ApplyFails PROVE IInv'
<1>1. TypeOK /\ LoopOK  BY DEF IInv
<1>2. CASE Apply
  <2>1. PICK p \in page :
          /\ IsNext(p) /\ AfterApply(p)
          /\ current' = IF old THEN current \ {p.doc}
                        ELSE IF p.doc \in dirty THEN current ELSE current \cup {p.doc}
          /\ missed' = (missed \ (current' \cap {p.doc}))
                                      \cup Passed(p.time) \cup IF old THEN {p.doc} ELSE {}
    BY <1>2 DEF Apply
  <2>2. type = "get" /\ pc = "apply" /\ UNCHANGED <<settings, source, resets, synced>>
    BY <1>2 DEF Apply
  <2>3. p.doc \in current' => p.doc \notin dirty
    BY <1>1, <2>1 DEF LoopOK
  <2> QED  BY <2>1, <2>2, <2>3, AppliedInv
<1>3. CASE ApplyFails
  <2>1. PICK p \in page :
          IsNext(p) /\ AfterApply(p) /\ missed' = missed \cup {p.doc} \cup Passed(p.time)
    BY <1>3 DEF ApplyFails
  <2>2. type = "get" /\ pc = "apply" /\ UNCHANGED <<settings, source, resets, synced, current>>
    BY <1>3 DEF ApplyFails
  <2>3. p.doc \in current => p.doc \notin dirty
    BY <1>1 DEF LoopOK
  <2> QED  BY <2>1, <2>2, <2>3, AppliedInv
<1> QED  BY <1>2, <1>3

(* The loop of "set": nothing but the marks counts there.                    *)
LEMMA SetInv ==
  ASSUME IInv, TypeOK', type = "set", pc' \in {"idle", "query", "send"}, pc' = "idle" => ~more' /\ ~old' /\ ~stale',
         UNCHANGED <<settings, source>>, dirty' \cap current' = {},
         \A d \in synced' : d \in current' \cup missed'
  PROVE  IInv'
<1>1. LoopOK'  BY DEF IInv, LoopOK
<1>2. SettledIsCopied'  BY DEF SettledIsCopied, Settled
<1> QED  BY <1>1, <1>2 DEF IInv

LEMMA LoadInv == ASSUME IInv, TypeOK', Load PROVE IInv'
<1> DEFINE found == {d \in Present \ synced : Cardinality({x \in Present \ synced : x < d}) < Number}
<1>1. TypeOK /\ LoopOK /\ SettledIsCopied  BY DEF IInv
<1>2. CASE found = {}  BY <1>2, EndInv DEF Load
<1>3. CASE found # {}
  <2>1. /\ pc' = "send" /\ dirty' = {} /\ type = "set"
        /\ UNCHANGED <<settings, source, marks, history>>
    BY <1>3 DEF Load
  <2>2. \A d \in synced' : d \in current' \cup missed'
    BY <1>1, <2>1 DEF SettledIsCopied, Settled, TypeOK
  <2> QED  BY <2>1, <2>2, SetInv
<1> QED  BY <1>2, <1>3

LEMMA PublishInv == ASSUME IInv, TypeOK', Publish PROVE IInv'
<1>1. TypeOK /\ LoopOK /\ SettledIsCopied  BY DEF IInv
<1>2. PICK p \in page :
        IsNext(p) /\ current' = IF p.doc \in dirty THEN current ELSE current \cup {p.doc}
  BY DEF Publish
<1>3. /\ type = "set" /\ pc = "send" /\ pc' = "mark"
      /\ UNCHANGED <<settings, source, marks, from, updated, s, page, more, dirty, old, stale, missed>>
  BY DEF Publish
<1>4. LoopOK'  BY <1>1, <1>2, <1>3 DEF LoopOK
<1>5. SettledIsCopied'  BY <1>1, <1>2, <1>3 DEF SettledIsCopied, Settled
<1>6. SentOK'
  <2> SUFFICES ASSUME NEW q \in page, IsNext(q) PROVE q.doc \in current' \cup missed' \cup dirty'
    BY <1>3, SameNext DEF SentOK
  <2>1. p.doc <= q.doc /\ q.doc <= p.doc  BY <1>2, <1>3 DEF IsNext
  <2>2. p.doc \in Nat /\ q.doc \in Nat  BY <1>1, Bounds, DocsAssumption
  <2>3. p.doc = q.doc  BY <2>1, <2>2
  <2> QED  BY <1>2, <1>3, <2>3
<1> QED  BY <1>3, <1>4, <1>5, <1>6 DEF IInv

LEMMA SentInv == ASSUME IInv, TypeOK', PublishRefused \/ PublishFails \/ Mark \/ MarkFails PROVE IInv'
<1>1. TypeOK /\ LoopOK /\ SettledIsCopied /\ type = "set"
  BY DEF IInv, PublishRefused, PublishFails, Mark, MarkFails
<1>2. PICK p \in page :
        /\ AfterSend(p)
        /\ \/ UNCHANGED <<synced, missed>>
           \/ /\ IsNext(p) /\ pc = "mark"
              /\ synced' = synced \cup {p.doc} /\ missed' = missed \cup (dirty \cap {p.doc})
  BY DEF PublishRefused, PublishFails, Mark, MarkFails
<1>3. UNCHANGED <<settings, source, current>>
  BY DEF PublishRefused, PublishFails, Mark, MarkFails
<1>4. /\ pc' \in {"idle", "query", "send"} /\ (pc' = "idle" => ~more' /\ ~old' /\ ~stale')
      /\ dirty' \subseteq dirty
  BY <1>2 DEF AfterSend, Turn, End
<1>5. \A d \in synced : d \in current \cup missed
  BY <1>1 DEF SettledIsCopied, Settled, TypeOK
<1>6. \A d \in synced' : d \in current' \cup missed'
  <2>1. CASE UNCHANGED <<synced, missed>>  BY <1>3, <1>5, <2>1
  <2>2. CASE /\ IsNext(p) /\ pc = "mark"
             /\ synced' = synced \cup {p.doc} /\ missed' = missed \cup (dirty \cap {p.doc})
    <3>1. p.doc \in current \cup missed \cup dirty
      BY <1>1, <2>2 DEF IInv, SentOK
    <3> QED  BY <1>3, <1>5, <2>2, <3>1
  <2> QED  BY <1>2, <2>1, <2>2
<1>7. dirty' \cap current' = {}  BY <1>1, <1>3, <1>4 DEF LoopOK
<1> QED  BY <1>1, <1>3, <1>4, <1>6, <1>7, SetInv

LEMMA StepInv == IInv /\ [Next]_vars => IInv'
<1> SUFFICES ASSUME IInv, [Next]_vars PROVE IInv'  OBVIOUS
<1>1. TypeOK /\ now \in Nat /\ now > 0
  BY Bounds DEF IInv, LoopOK, TypeOK
<1>2. CASE UNCHANGED vars
  <2>1. TypeOK'  BY <1>1, <1>2 DEF vars, TypeOK
  <2> QED  BY <1>1, <1>2, <2>1, QuietInv DEF vars
<1>3. CASE (\E d \in Docs : Stamp(d)) \/ Tick \/ Schedule \/ Drop
  <2>1. TypeOK'  BY <1>1, <1>3, SourceTypes
  <2>2. now' > 0 /\ UNCHANGED <<type, upd, marks, loop, history>>
    <3>1. CASE (\E d \in Docs : Stamp(d)) \/ Tick  BY <1>1, <3>1 DEF Stamp, Tick
    <3>2. CASE Schedule \/ Drop
      <4>1. UNCHANGED <<source, type, marks, loop, history>>  BY <3>2 DEF Schedule, Drop
      <4> QED  BY <1>1, <4>1
    <3> QED  BY <1>3, <3>1, <3>2
  <2> QED  BY <2>1, <2>2, QuietInv
<1>4. CASE (\E w \in stamped : Write(w)) \/ MoveUrl \/ Reset \/ ResetAsked \/ Begin
  BY <1>1, <1>4, SourceTypes, WriteInv, MoveInv, ResetInv, BeginInv
<1>5. CASE Query \/ Load \/ Apply \/ Publish \/ PublishRefused \/ Mark \/ ApplyFails \/ PublishFails \/ MarkFails
  <2>1. TypeOK'  BY <1>1, <1>5, StepTypes DEF Step
  <2> QED  BY <1>5, <2>1, QueryInv, LoadInv, ApplyInv, PublishInv, SentInv
<1>6. CASE Abort
  <2>1. TypeOK'  BY <1>1, <1>6, StepTypes
  <2>2. End /\ current \subseteq current' /\ UNCHANGED <<settings, source, marks, missed>>
    BY <1>6 DEF Abort
  <2> QED  BY <2>1, <2>2, EndInv
<1> QED  BY <1>2, <1>3, <1>4, <1>5, <1>6 DEF Next, Step

THEOREM Invariance == Spec => []IInv
BY InitInv, StepInv, PTL DEF Spec

(* The variables of the loop and of the collection keep their types.         *)
THEOREM TypeCorrect == Spec => []TypeOK
<1>1. IInv => TypeOK  BY DEF IInv
<1> QED  BY <1>1, Invariance, PTL

(* SyncTask.sync: for any documents, pages, writes and failures, what the     *)
(* loop does not look at again is on the other side, but for the documents   *)
(* a write at the wrong moment, a failed update or another address hides.    *)
THEOREM SettledCopied == Spec => []SettledIsCopied
<1>1. IInv => SettledIsCopied  BY DEF IInv
<1> QED  BY <1>1, Invariance, PTL
===============================================================================
