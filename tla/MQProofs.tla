------------------------------ MODULE MQProofs ------------------------------
(* Proofs about MQ, for any callers, workers, timeouts and bounds, with     *)
(* a session that may fail at any send.                                     *)
EXTENDS MQ, TLAPS, FiniteSetTheorems

USE DEF Goto, WGoto

HInv == TypeOK /\ Busy /\ NoStaleHandler

LEMMA CallTypes ==
  ASSUME TypeOK, NEW c \in Callers
  PROVE  /\ Call(c) \in Handlers /\ Call(c) # None /\ seq[c] \in Seqs /\ now \in Seqs
         /\ number[c] \in Nat
         /\ 0 \in Seqs /\ 0 \in 0..MaxNow
BY CallersAssumption, ClockAssumption DEF TypeOK, Call, Handlers, Seqs

LEMMA InitHInv == Init => HInv
<1> SUFFICES ASSUME Init PROVE HInv
  OBVIOUS
<1>1. 0 \in Seqs
  BY ClockAssumption DEF Seqs
<1>2. TypeOK
  <2>1. now \in 0..MaxNow /\ since \in [Callers -> 0..MaxNow] /\ number \in [Callers -> Nat]
    BY ClockAssumption DEF Init
  <2>2. handlers \in [Seqs -> Handlers \cup {None}] /\ seq \in [Callers -> Seqs]
    BY <1>1 DEF Init
  <2>3. /\ job \in [Workers -> Messages \cup {NoJob}] /\ stub \in [Workers -> Handlers \cup {None}]
        /\ requests \subseteq Messages /\ responses \subseteq Messages
        /\ received \subseteq Handlers \X Handlers
    BY DEF Init
  <2> QED
    BY <2>1, <2>2, <2>3 DEF Init, TypeOK
<1>3. NoStaleHandler /\ Busy
  BY DEF Init, NoStaleHandler, Busy
<1> QED
  BY <1>2, <1>3 DEF HInv

(* Types, one step of a caller, of a worker, of the others.                 *)
LEMMA CallerTypes ==
  ASSUME TypeOK, NEW c \in Callers, CallBegin(c) \/ Advance(c)
  PROVE  TypeOK'
<1>0. /\ Call(c) \in Handlers /\ seq[c] \in Seqs /\ now \in Seqs /\ number[c] \in Nat
      /\ 0 \in Seqs /\ 0 \in 0..MaxNow
      /\ \A d \in Callers : Call(d) # None
  BY CallTypes
<1>1. CASE CallBegin(c)
  BY <1>0, <1>1 DEF CallBegin, workVars, histVars, TypeOK
<1>2. CASE Probe(c)
  <2>1. seq[c] < MaxSeq => seq[c] + 1 \in Seqs
    BY <1>0, ClockAssumption DEF Seqs
  <2> QED
    BY <1>0, <1>2, <2>1 DEF Probe, workVars, histVars, TypeOK
<1>3. CASE Put(c)
  BY <1>0, <1>3 DEF Put, workVars, TypeOK
<1>3a. CASE PutFails(c)
  BY <1>0, <1>3a DEF PutFails, workVars, histVars, TypeOK
<1>4. CASE Send(c)
  <2>1. <<seq[c], Call(c)>> \in Messages
    BY <1>0 DEF Messages
  <2> QED
    BY <1>4, <2>1 DEF Send, workVars, histVars, TypeOK
<1>5. CASE SendThrows(c) \/ Wait(c) \/ WaitEnds(c)
  BY <1>0, <1>5 DEF SendThrows, Wait, WaitEnds, workVars, histVars, TypeOK
<1>6. CASE Finally(c)
  BY <1>0, <1>6 DEF Finally, workVars, histVars, TypeOK
<1> QED
  BY <1>1, <1>2, <1>3, <1>3a, <1>4, <1>5, <1>6 DEF Advance

(* A worker that is processing a response has one: needed for the types.    *)
LEMMA WorkerTypes ==
  ASSUME TypeOK, Busy, NEW w \in Workers, Worker(w)
  PROVE  TypeOK' /\ Busy'
<1>1. ASSUME NEW r \in responses, Take(w, r)
      PROVE  TypeOK' /\ Busy'
  <2>1. r \in Messages
    BY DEF TypeOK
  <2> QED
    BY <1>1, <2>1 DEF Take, callVars, histVars, TypeOK, Busy
<1>2. CASE Look(w)
  BY <1>2 DEF Look, callVars, histVars, TypeOK, Busy
<1>3. CASE Remove(w)
  <2>1. job[w][1] \in Seqs /\ job[w][2] \in Handlers /\ wpc[w] = "remove"
    BY <1>3 DEF Remove, Busy, Messages
  <2>2. handlers[job[w][1]] # None => handlers[job[w][1]] \in Handlers
    BY <2>1 DEF TypeOK
  <2> QED
    BY <1>3, <2>1, <2>2 DEF Remove, callVars, TypeOK, Busy
<1>4. CASE Notify(w)
  BY <1>4 DEF Notify, callVars, TypeOK, Busy
<1> QED
  BY <1>1, <1>2, <1>3, <1>4 DEF Worker

LEMMA OtherTypes ==
  ASSUME TypeOK, (\E r \in requests : Answer(r)) \/ Tick \/ SessionLost
  PROVE  TypeOK'
<1>1. ASSUME NEW r \in requests, Answer(r)
      PROVE  TypeOK'
  BY <1>1 DEF Answer, callVars, workVars, histVars, TypeOK
<1>2. CASE Tick
  <2>1. now + 1 \in 0..MaxNow
    BY <1>2, ClockAssumption DEF Tick, TypeOK
  <2> QED
    BY <1>2, <2>1 DEF Tick, callVars, workVars, histVars, TypeOK
<1>3. CASE SessionLost
  BY <1>3 DEF SessionLost, callVars, workVars, histVars, TypeOK
<1> QED
  BY <1>1, <1>2, <1>3

-----------------------------------------------------------------------------
(* The entries of the map.                                                  *)

LEMMA CallerEntries ==
  ASSUME TypeOK, NoStaleHandler, NEW c \in Callers, CallBegin(c) \/ Advance(c)
  PROVE  NoStaleHandler'
<1> SUFFICES ASSUME NEW s \in Seqs, handlers'[s] # None
             PROVE  \E d \in Callers : handlers'[s] = Call(d)' /\ seq'[d] = s /\ InProgress(d)'
  BY DEF NoStaleHandler
<1>0. seq[c] \in Seqs
  BY CallTypes
<1>1. ASSUME handlers'[s] = handlers[s], UNCHANGED <<seq, number>>, InProgress(c) => InProgress(c)',
             \A d \in Callers \ {c} : pc'[d] = pc[d]
      PROVE  \E d \in Callers : handlers'[s] = Call(d)' /\ seq'[d] = s /\ InProgress(d)'
  <2>1. PICK d \in Callers : handlers[s] = Call(d) /\ seq[d] = s /\ InProgress(d)
    BY <1>1 DEF NoStaleHandler
  <2>2. InProgress(d)' /\ Call(d)' = Call(d) /\ seq'[d] = s
    BY <1>1, <2>1 DEF InProgress, Call
  <2> QED
    BY <1>1, <2>1, <2>2
<1>2. CASE CallBegin(c) \/ Probe(c)
  <2>1. PICK d \in Callers : handlers[s] = Call(d) /\ seq[d] = s /\ InProgress(d)
    BY <1>2 DEF CallBegin, Probe, NoStaleHandler
  <2>2. d # c
    BY <1>2, <2>1 DEF CallBegin, Probe, InProgress
  <2>3. seq'[d] = s /\ Call(d)' = Call(d) /\ InProgress(d)' /\ handlers'[s] = handlers[s]
    BY <1>2, <2>1, <2>2 DEF CallBegin, Probe, TypeOK, InProgress, Call
  <2> QED
    BY <2>1, <2>3
<1>3. CASE Put(c)
  <2>1. CASE s = seq[c]
    <3>1. handlers'[s] = Call(c)' /\ seq'[c] = s /\ InProgress(c)'
      BY <1>0, <1>3, <2>1 DEF Put, TypeOK, Call, InProgress
    <3> QED
      BY <3>1
  <2>2. CASE s # seq[c]
    <3>1. InProgress(c)' /\ handlers'[s] = handlers[s]
      BY <1>3, <2>2 DEF Put, TypeOK, InProgress
    <3> QED
      BY <1>1, <1>3, <3>1 DEF Put, TypeOK
  <2> QED
    BY <2>1, <2>2
<1>3a. CASE PutFails(c)
  BY <1>1, <1>3a DEF PutFails, TypeOK, InProgress
<1>4. CASE Send(c) \/ SendThrows(c) \/ Wait(c) \/ WaitEnds(c)
  <2>1. InProgress(c)' /\ UNCHANGED <<handlers, seq, number>> /\ \A d \in Callers \ {c} : pc'[d] = pc[d]
    BY <1>4 DEF Send, SendThrows, Wait, WaitEnds, TypeOK, InProgress
  <2> QED
    BY <1>1, <2>1
<1>5. CASE Finally(c)
  <2>1. s # seq[c] /\ handlers'[s] = handlers[s]
    BY <1>0, <1>5 DEF Finally, TypeOK
  <2>2. PICK d \in Callers : handlers[s] = Call(d) /\ seq[d] = s /\ InProgress(d)
    BY <2>1 DEF NoStaleHandler
  <2>3. d # c /\ seq'[d] = s /\ Call(d)' = Call(d) /\ InProgress(d)'
    BY <1>5, <2>1, <2>2 DEF Finally, TypeOK, InProgress, Call
  <2> QED
    BY <2>1, <2>2, <2>3
<1> QED
  BY <1>2, <1>3, <1>3a, <1>4, <1>5 DEF Advance

LEMMA OtherEntries ==
  ASSUME TypeOK, NoStaleHandler, UNCHANGED <<pc, seq, number>>,
         \A s \in Seqs : handlers'[s] # None => handlers'[s] = handlers[s]
  PROVE  NoStaleHandler'
BY DEF NoStaleHandler, Call, InProgress

LEMMA HInvStep == HInv /\ [Next]_vars => HInv'
<1> SUFFICES ASSUME HInv, [Next]_vars PROVE HInv'
  OBVIOUS
<1>1. TypeOK /\ Busy /\ NoStaleHandler
  BY DEF HInv
<1>2. ASSUME NEW c \in Callers, CallBegin(c) \/ Advance(c)
      PROVE  HInv'
  <2>1. Busy'
    BY <1>1, <1>2 DEF CallBegin, Advance, Probe, Put, PutFails, Send, SendThrows, Wait, WaitEnds, Finally, workVars, Busy
  <2> QED
    BY <1>1, <1>2, <2>1, CallerTypes, CallerEntries DEF HInv
<1>3. ASSUME NEW w \in Workers, Worker(w)
      PROVE  HInv'
  <2>1. UNCHANGED <<pc, seq, number>> /\ \A s \in Seqs : handlers'[s] # None => handlers'[s] = handlers[s]
    BY <1>1, <1>3 DEF Worker, Take, Look, Remove, Notify, callVars, TypeOK
  <2> QED
    BY <1>1, <1>3, <2>1, WorkerTypes, OtherEntries DEF HInv
<1>4. CASE (\E r \in requests : Answer(r)) \/ Tick \/ SessionLost
  <2>1. UNCHANGED <<pc, seq, number, handlers, workVars>>
    BY <1>4 DEF Answer, Tick, SessionLost, callVars
  <2> QED
    BY <1>1, <1>4, <2>1, OtherTypes, OtherEntries DEF HInv, workVars, Busy
<1>5. CASE UNCHANGED vars
  BY <1>1, <1>5 DEF vars, HInv, TypeOK, Busy, NoStaleHandler, Call, InProgress
<1> QED
  BY <1>2, <1>3, <1>4, <1>5 DEF Next

(* The types hold, whatever a timeout leaves to a response that is being    *)
(* processed: a worker never uses a handler that is gone.                   *)
THEOREM TypeCorrect == Spec => []TypeOK
<1>1. HInv => TypeOK
  BY DEF HInv
<1> QED
  BY InitHInv, HInvStep, <1>1, PTL DEF Spec

(* Every entry of the map is that of a call in progress.                    *)
THEOREM EntriesInProgress == Spec => []NoStaleHandler
<1>1. HInv => NoStaleHandler
  BY DEF HInv
<1> QED
  BY InitHInv, HInvStep, <1>1, PTL DEF Spec

-----------------------------------------------------------------------------
(* OwnAnswer: how far the numbers of the calls run ahead of the clock.      *)

Ahead(k) == {c \in Callers : seq[c] >= now + k}

LEMMA AheadFinite ==
  ASSUME NEW k
  PROVE  IsFiniteSet(Ahead(k)) /\ Cardinality(Ahead(k)) \in Nat /\ N \in Nat
BY CallersAssumption, FS_Subset, FS_CardinalityType DEF Ahead, N

(* When no number grows and the clock does not run back, there are no more  *)
(* callers ahead than before.                                               *)
LEMMA SpreadKept ==
  ASSUME Spread, \A c \in Callers, k \in 1..N : seq'[c] >= now' + k => seq[c] >= now + k
  PROVE  Spread'
<1>1. N' = N
  BY DEF N
<1>2. ASSUME NEW k \in 1..N
      PROVE  Cardinality(Ahead(k)') <= N - k
  <2>1. Ahead(k)' \in SUBSET Ahead(k)
    BY DEF Ahead
  <2>2. Cardinality(Ahead(k)') <= Cardinality(Ahead(k)) /\ Cardinality(Ahead(k)) <= N - k
    BY <2>1, AheadFinite, FS_Subset DEF Spread, Ahead
  <2>3. IsFiniteSet(Ahead(k)') /\ Cardinality(Ahead(k)') \in Nat
    BY <2>1, AheadFinite, FS_Subset, FS_CardinalityType
  <2> QED
    BY <2>2, <2>3, AheadFinite
<1> QED
  BY <1>1, <1>2 DEF Spread, Ahead

(* The caller that goes past a number and the one that holds it are two     *)
(* that were not as far ahead as the one is now.                            *)
LEMMA SpreadProbe ==
  ASSUME TypeOK, NoStaleHandler, Spread, NEW c \in Callers, Probe(c)
  PROVE  Spread'
<1>0. seq[c] \in Nat /\ now \in Nat /\ \A d \in Callers : seq[d] \in Nat
  BY CallTypes DEF TypeOK, Seqs
<1>1. CASE UNCHANGED seq
  BY <1>1, SpreadKept DEF Probe
<1>2. CASE seq' = [seq EXCEPT ![c] = @ + 1] /\ handlers[seq[c]] # None
  <2>1. seq'[c] = seq[c] + 1 /\ now' = now /\ \A d \in Callers : d # c => seq'[d] = seq[d]
    BY <1>2 DEF Probe, TypeOK
  <2>2. PICK d \in Callers : seq[d] = seq[c] /\ d # c
    BY <1>2, CallTypes DEF Probe, NoStaleHandler, InProgress
  <2>3. ASSUME NEW k \in 1..N
        PROVE  Cardinality(Ahead(k)') <= N - k
    <3>1. CASE seq[c] + 1 # now + k
      <4>1. Ahead(k)' = Ahead(k)
        BY <1>0, <2>1, <3>1 DEF Ahead
      <4> QED
        BY <4>1 DEF Spread, Ahead
    <3>2. CASE seq[c] + 1 = now + k
      <4>1. /\ Ahead(k)' = Ahead(k) \cup {c} /\ c \notin Ahead(k)
            /\ d \notin Ahead(k) \cup {c}
        BY <1>0, <2>1, <2>2, <3>2 DEF Ahead
      <4> DEFINE two == (Ahead(k) \cup {c}) \cup {d}
      <4>2. Cardinality(Ahead(k)') + 1 = Cardinality(two) /\ Cardinality(two) \in Nat
        BY <4>1, AheadFinite, FS_AddElement, FS_CardinalityType
      <4>3. CASE k = 1
        <5>1. two \in SUBSET Callers
          BY DEF Ahead
        <5>2. Cardinality(two) <= N
          BY <5>1, CallersAssumption, FS_Subset DEF N
        <5> QED
          BY <4>2, <4>3, <5>2, <4>1, AheadFinite, FS_AddElement
      <4>4. CASE k > 1
        <5>1. k - 1 \in 1..N /\ seq[c] >= now + (k - 1) /\ seq[d] >= now + (k - 1)
          BY <1>0, <2>2, <3>2, <4>4, AheadFinite
        <5>2. \A e \in Callers : seq[e] >= now + k => seq[e] >= now + (k - 1)
          BY <1>0, AheadFinite
        <5>3. two \in SUBSET Ahead(k - 1)
          BY <5>1, <5>2 DEF Ahead
        <5>4. Cardinality(two) <= Cardinality(Ahead(k - 1)) /\ Cardinality(Ahead(k - 1)) <= N - (k - 1)
          BY <5>1, <5>3, AheadFinite, FS_Subset DEF Spread, Ahead
        <5> HIDE DEF two
        <5>5. Cardinality(Ahead(k)') \in Nat /\ Cardinality(Ahead(k - 1)) \in Nat /\ N \in Nat
          BY <4>1, AheadFinite, FS_AddElement
        <5> QED
          BY <4>2, <4>4, <5>4, <5>5
      <4> QED
        BY <4>3, <4>4
    <3> QED
      BY <3>1, <3>2
  <2>4. N' = N
    BY DEF N
  <2> QED
    BY <2>3, <2>4 DEF Spread, Ahead
<1> QED
  BY <1>1, <1>2 DEF Probe

LEMMA SpreadStep ==
  ASSUME TypeOK, NoStaleHandler, Spread, [Next]_vars
  PROVE  Spread'
<1>0. now \in Nat /\ \A d \in Callers : seq[d] \in Nat
  BY ClockAssumption DEF TypeOK, Seqs
<1>1. ASSUME NEW c \in Callers, CallBegin(c) PROVE Spread'
  <2>1. seq' = [seq EXCEPT ![c] = now] /\ now' = now
    BY <1>1 DEF CallBegin
  <2> QED
    BY <1>0, <2>1, SpreadKept DEF TypeOK
<1>2. ASSUME NEW c \in Callers, Probe(c) PROVE Spread'
  BY <1>2, SpreadProbe
<1>3. ASSUME now' = now, seq' = seq PROVE Spread'
  BY <1>3, SpreadKept
<1>4. CASE Tick
  <2>1. now' = now + 1 /\ seq' = seq
    BY <1>4 DEF Tick, callVars
  <2> QED
    BY <1>0, <2>1, SpreadKept
<1>5. ASSUME NEW c \in Callers, Put(c) \/ PutFails(c) \/ Send(c) \/ SendThrows(c) \/ Wait(c) \/ WaitEnds(c)
      PROVE  Spread'
  BY <1>3, <1>5 DEF Put, PutFails, Send, SendThrows, Wait, WaitEnds
<1>8. ASSUME NEW c \in Callers, Finally(c) PROVE Spread'
  <2>1. seq' = [seq EXCEPT ![c] = 0] /\ now' = now
    BY <1>8 DEF Finally
  <2> QED
    BY <1>0, <2>1, SpreadKept DEF TypeOK
<1>6. ASSUME NEW w \in Workers, Worker(w) PROVE Spread'
  BY <1>3, <1>6 DEF Worker, Take, Look, Remove, Notify, callVars
<1>7. CASE (\E r \in requests : Answer(r)) \/ SessionLost \/ UNCHANGED vars
  BY <1>3, <1>7 DEF Answer, SessionLost, vars, callVars
<1> QED
  BY <1>1, <1>2, <1>4, <1>5, <1>6, <1>7, <1>8 DEF Next, Advance

(* No number is further ahead of the clock than there are callers.          *)
LEMMA NumberNear ==
  ASSUME TypeOK, Spread, NEW c \in Callers
  PROVE  N \in Nat \ {0} /\ seq[c] < now + N
<1>0. now \in Nat /\ seq[c] \in Nat /\ N \in Nat
  BY CallTypes, AheadFinite DEF Seqs
<1>1. N # 0
  BY CallersAssumption, FS_EmptySet DEF N
<1>2. ASSUME seq[c] >= now + N PROVE FALSE
  <2>1. Cardinality(Ahead(N)) <= 0 /\ c \in Ahead(N)
    BY <1>0, <1>1, <1>2 DEF Spread, Ahead
  <2> QED
    BY <2>1, AheadFinite, FS_EmptySet
<1> QED
  BY <1>0, <1>1, <1>2

(* When the waits began, and when numbers are chosen.                       *)
LEMMA WaitingStep ==
  ASSUME TypeOK, Spread, Waiting, [Next]_vars
  PROVE  Waiting'
<1>0. N' = N
  BY DEF N
<1>1. ASSUME NEW c \in Callers, Wait(c) PROVE Waiting'
  <2>1. seq[c] < now + N
    BY NumberNear
  <2> QED
    BY <1>0, <1>1, <2>1 DEF Wait, Waiting, TypeOK
<1>2. ASSUME UNCHANGED <<pc, seq, since>> PROVE Waiting'
  BY <1>0, <1>2 DEF Waiting
<1>3. ASSUME NEW c \in Callers, CallBegin(c) \/ Probe(c) \/ Put(c) \/ PutFails(c) \/ Send(c) \/ SendThrows(c) \/ WaitEnds(c) \/ Finally(c)
      PROVE  Waiting'
  BY <1>0, <1>3 DEF CallBegin, Probe, Put, PutFails, Send, SendThrows, WaitEnds, Finally, Waiting, TypeOK
<1>4. ASSUME NEW w \in Workers, Worker(w) PROVE Waiting'
  BY <1>2, <1>4 DEF Worker, Take, Look, Remove, Notify, callVars
<1>5. CASE (\E r \in requests : Answer(r)) \/ Tick \/ SessionLost \/ UNCHANGED vars
  BY <1>2, <1>5 DEF Answer, Tick, SessionLost, vars, callVars
<1> QED
  BY <1>1, <1>3, <1>4, <1>5 DEF Next, Advance

LEMMA ChoosingStep ==
  ASSUME TypeOK, Choosing, [Next]_vars
  PROVE  Choosing'
<1>0. now \in Nat /\ \A d \in Callers : seq[d] \in Nat
  BY ClockAssumption DEF TypeOK, Seqs
<1>1. ASSUME NEW c \in Callers, CallBegin(c) \/ Probe(c) PROVE Choosing'
  BY <1>0, <1>1 DEF CallBegin, Probe, Choosing, TypeOK
<1>2. ASSUME NEW c \in Callers, Put(c) \/ PutFails(c) \/ Send(c) \/ SendThrows(c) \/ Wait(c) \/ WaitEnds(c) \/ Finally(c)
      PROVE  Choosing'
  BY <1>2 DEF Put, PutFails, Send, SendThrows, Wait, WaitEnds, Finally, Choosing, TypeOK
<1>3. ASSUME NEW w \in Workers, Worker(w) PROVE Choosing'
  BY <1>3 DEF Worker, Take, Look, Remove, Notify, callVars, Choosing
<1>4. CASE (\E r \in requests : Answer(r)) \/ Tick \/ SessionLost \/ UNCHANGED vars
  BY <1>4 DEF Answer, Tick, SessionLost, vars, callVars, Choosing
<1> QED
  BY <1>1, <1>2, <1>3, <1>4 DEF Next, Advance

-----------------------------------------------------------------------------
(* The messages on their way.                                               *)

LEMMA InFlightIs ==
  \A m : m \in InFlight <=> \/ m \in requests \/ m \in responses
                            \/ \E w \in Workers : AtWork(w) /\ job[w] = m
BY DEF InFlight

LEMMA InFlightTypes ==
  ASSUME TypeOK, Busy, NEW m \in InFlight
  PROVE  m \in Messages /\ m[1] \in Seqs /\ m[2] \in Handlers
<1>1. m \in Messages
  BY InFlightIs DEF TypeOK, Busy, AtWork
<1> QED
  BY <1>1 DEF Messages

(* Messages come from Send only. *)
LEMMA InFlightStep ==
  ASSUME TypeOK, [Next]_vars, NEW m \in InFlight'
  PROVE  m \in InFlight \/ \E c \in Callers : Send(c) /\ m = <<seq[c], Call(c)>>
<1>0. m \in requests' \/ m \in responses' \/ \E w \in Workers : AtWork(w)' /\ job'[w] = m
  BY DEF InFlight, AtWork
<1>1. ASSUME UNCHANGED <<requests, responses, workVars>> PROVE m \in InFlight
  BY <1>0, <1>1, InFlightIs DEF workVars, AtWork
<1>2. ASSUME NEW c \in Callers,
             CallBegin(c) \/ Probe(c) \/ Put(c) \/ PutFails(c) \/ SendThrows(c) \/ Wait(c) \/ WaitEnds(c) \/ Finally(c)
      PROVE  m \in InFlight
  BY <1>1, <1>2 DEF CallBegin, Probe, Put, PutFails, SendThrows, Wait, WaitEnds, Finally
<1>3. ASSUME NEW c \in Callers, Send(c), m \notin InFlight
      PROVE  m = <<seq[c], Call(c)>>
  BY <1>0, <1>3, InFlightIs DEF Send, workVars, AtWork
<1>4. ASSUME NEW w \in Workers, NEW r \in responses, Take(w, r) PROVE m \in InFlight
  BY <1>0, <1>4, InFlightIs DEF Take, TypeOK, AtWork
<1>5. ASSUME NEW w \in Workers, Look(w) \/ Remove(w) \/ Notify(w) PROVE m \in InFlight
  BY <1>0, <1>5, InFlightIs DEF Look, Remove, Notify, TypeOK, AtWork
<1>6. ASSUME NEW r \in requests, Answer(r) PROVE m \in InFlight
  BY <1>0, <1>6, InFlightIs DEF Answer, workVars, AtWork
<1>7. CASE Tick \/ SessionLost \/ UNCHANGED vars
  BY <1>1, <1>7 DEF Tick, SessionLost, vars, workVars
<1> QED
  BY <1>2, <1>3, <1>4, <1>5, <1>6, <1>7 DEF Next, Advance, Worker

LEMMA SentStays ==
  ASSUME TypeOK, [Next]_vars, NEW h, WasSent(h)
  PROVE  WasSent(h)'
<1>0. h[1] \in Callers /\ h[2] \in Nat /\ number[h[1]] \in Nat
  BY DEF WasSent, Handlers, TypeOK
<1>1. ASSUME NEW c \in Callers, CallBegin(c) PROVE WasSent(h)'
  BY <1>0, <1>1 DEF CallBegin, WasSent, Handlers, TypeOK
<1>2. ASSUME NEW c \in Callers, Advance(c) PROVE WasSent(h)'
  BY <1>0, <1>2 DEF Advance, Probe, Put, PutFails, Send, SendThrows, Wait, WaitEnds, Finally, WasSent, Handlers, TypeOK
<1>3. ASSUME NEW w \in Workers, Worker(w) PROVE WasSent(h)'
  BY <1>3 DEF Worker, Take, Look, Remove, Notify, callVars, WasSent, Handlers
<1>4. CASE (\E r \in requests : Answer(r)) \/ Tick \/ SessionLost \/ UNCHANGED vars
  BY <1>4 DEF Answer, Tick, SessionLost, vars, callVars, WasSent, Handlers
<1> QED
  BY <1>1, <1>2, <1>3, <1>4 DEF Next

(* What a call sends is new, and has been sent from then on.                *)
LEMMA SendNew ==
  ASSUME TypeOK, Once, NEW c \in Callers, Send(c)
  PROVE  /\ \A m \in InFlight : m[2] # Call(c)
         /\ Call(c)' = Call(c)
         /\ WasSent(Call(c))'
<1>1. ~WasSent(Call(c))
  BY DEF Send, WasSent, Call
<1>2. Call(c) \in Handlers /\ Call(c)[1] = c /\ Call(c)[2] = number[c] /\ number[c] \in Nat
  BY CallTypes DEF Call
<1>3. number' = number /\ pc'[c] = "sync" /\ Call(c)' = Call(c)
  BY DEF Send, TypeOK, Call
<1>4. WasSent(Call(c))'
  BY <1>2, <1>3 DEF WasSent, Handlers
<1> QED
  BY <1>1, <1>3, <1>4 DEF Once

LEMMA OnceStep ==
  ASSUME TypeOK, Busy, Once, [Next]_vars
  PROVE  Once'
<1>1. ASSUME NEW m \in InFlight' PROVE WasSent(m[2])'
  <2>1. CASE m \in InFlight
    BY <2>1, SentStays DEF Once
  <2>2. ASSUME NEW c \in Callers, Send(c), m = <<seq[c], Call(c)>> PROVE WasSent(m[2])'
    <3>1. m[2] = Call(c)'
      BY <2>2, SendNew
    <3> QED
      BY <2>2, <3>1, SendNew
  <2> QED
    BY <1>1, <2>1, <2>2, InFlightStep
<1> DEFINE Rest ==
      /\ requests' \cap responses' = {}
      /\ \A m, n \in requests' \cup responses' : m[2] = n[2] => m = n
      /\ \A w \in Workers : AtWork(w)' => \A m \in requests' \cup responses' : m[2] # job'[w][2]
      /\ \A v, w \in Workers : v # w /\ AtWork(v)' /\ AtWork(w)' => job'[v][2] # job'[w][2]
<1> SUFFICES Rest
  BY <1>1 DEF Once
<1>2. ASSUME UNCHANGED <<requests, responses>>, \A w \in Workers : AtWork(w)' => AtWork(w) /\ job'[w] = job[w]
      PROVE  Rest
  BY <1>2 DEF Once
<1>3. ASSUME NEW c \in Callers,
             CallBegin(c) \/ Probe(c) \/ Put(c) \/ PutFails(c) \/ SendThrows(c) \/ Wait(c) \/ WaitEnds(c) \/ Finally(c)
      PROVE  Rest
  BY <1>2, <1>3 DEF CallBegin, Probe, Put, PutFails, SendThrows, Wait, WaitEnds, Finally, workVars, AtWork
<1>4. ASSUME NEW c \in Callers, Send(c) PROVE Rest
  <2> DEFINE new == <<seq[c], Call(c)>>
  <2>1. requests' = requests \cup {new} /\ UNCHANGED <<responses, job, wpc>> /\ new[2] = Call(c)
    BY <1>4 DEF Send, workVars
  <2>2. \A m \in requests \cup responses : m[2] # Call(c)
    BY <1>4, SendNew, InFlightIs
  <2>3. \A w \in Workers : AtWork(w) => job[w][2] # Call(c)
    BY <1>4, SendNew, InFlightIs
  <2> HIDE DEF new
  <2> QED
    BY <2>1, <2>2, <2>3 DEF Once, AtWork
<1>5. ASSUME NEW w \in Workers, NEW r \in responses, Take(w, r) PROVE Rest
  <2>1. /\ responses' = responses \ {r} /\ requests' = requests
        /\ job' = [job EXCEPT ![w] = r] /\ wpc' = [wpc EXCEPT ![w] = "look"]
    BY <1>5 DEF Take
  <2>2. \A m \in requests' \cup responses' : m[2] # r[2] /\ m \in requests \cup responses
    BY <2>1 DEF Once
  <2>3. \A v \in Workers : v # w => (AtWork(v)' => AtWork(v)) /\ job'[v] = job[v]
    BY <2>1 DEF AtWork, TypeOK
  <2>4. job'[w] = r
    BY <2>1 DEF TypeOK
  <2> QED
    BY <2>1, <2>2, <2>3, <2>4 DEF Once
<1>6. ASSUME NEW w \in Workers, Look(w) \/ Remove(w) \/ Notify(w) PROVE Rest
  BY <1>2, <1>6 DEF Look, Remove, Notify, AtWork, TypeOK
<1>7. ASSUME NEW r \in requests, Answer(r) PROVE Rest
  <2>1. /\ requests' = requests \ {r} /\ responses' = responses \cup {r}
        /\ UNCHANGED <<job, wpc>>
    BY <1>7 DEF Answer, workVars
  <2> QED
    BY <2>1 DEF Once, AtWork
<1>8. CASE Tick \/ SessionLost \/ UNCHANGED vars
  BY <1>2, <1>8 DEF Tick, SessionLost, vars, workVars, AtWork
<1> HIDE DEF Rest
<1> QED
  BY <1>3, <1>4, <1>5, <1>6, <1>7, <1>8 DEF Next, Advance, Worker

-----------------------------------------------------------------------------
(* While no two calls in progress have had one number.                      *)

LEMMA ClashStays ==
  ASSUME TypeOK, ~clash', ~late', [Next]_vars
  PROVE  ~clash /\ ~late
<1>1. ASSUME NEW c \in Callers, Put(c) PROVE ~clash /\ ~late
  BY <1>1 DEF Put
<1>2. CASE UNCHANGED <<clash, late>>
  BY <1>2
<1> QED
  BY <1>1, <1>2 DEF Next, Advance, CallBegin, Probe, PutFails, Send, SendThrows, Wait, WaitEnds, Finally, Worker, Take,
       Look, Remove, Notify, Answer, Tick, SessionLost, histVars, vars

LEMMA OwnEntryStep ==
  ASSUME TypeOK, OwnEntry, ~clash', [Next]_vars
  PROVE  OwnEntry'
<1>0. \A c \in Callers : seq[c] \in Seqs
  BY DEF TypeOK
<1>1. ASSUME NEW c \in Callers, Put(c) PROVE OwnEntry'
  <2>1. \A d \in Callers \ {c} : pc[d] = "send" => seq[d] # seq[c]
    BY <1>1 DEF Put, InProgress
  <2> QED
    BY <1>0, <1>1, <2>1 DEF Put, OwnEntry, Call, TypeOK
<1>2. ASSUME \A c \in Callers : pc'[c] = "send" => pc[c] = "send" /\ seq'[c] = seq[c] /\ number'[c] = number[c],
             \A s \in Seqs : handlers'[s] \in {None, handlers[s]}
      PROVE  OwnEntry'
  BY <1>0, <1>2 DEF OwnEntry, Call
<1>3. ASSUME NEW c \in Callers, CallBegin(c) \/ Probe(c) \/ PutFails(c) \/ Send(c) \/ SendThrows(c) \/ Wait(c)
                                  \/ WaitEnds(c) \/ Finally(c)
      PROVE  OwnEntry'
  BY <1>2, <1>3 DEF CallBegin, Probe, PutFails, Send, SendThrows, Wait, WaitEnds, Finally, TypeOK
<1>4. ASSUME NEW w \in Workers, Worker(w) PROVE OwnEntry'
  BY <1>2, <1>4 DEF Worker, Take, Look, Remove, Notify, callVars, TypeOK
<1>5. CASE (\E r \in requests : Answer(r)) \/ Tick \/ SessionLost \/ UNCHANGED vars
  BY <1>2, <1>5 DEF Answer, Tick, SessionLost, vars, callVars
<1> QED
  BY <1>1, <1>3, <1>4, <1>5 DEF Next, Advance

(* The handler a worker takes is that of the call its response answers.     *)
LEMMA RemoveOwn ==
  ASSUME TypeOK, Reserved, NEW w \in Workers, Remove(w), handlers[job[w][1]] # None
  PROVE  handlers[job[w][1]] = job[w][2]
BY InFlightIs DEF Remove, AtWork, Reserved

(* With the handler, the message is gone.                                   *)
LEMMA RemoveLeaves ==
  ASSUME TypeOK, Once, NEW w \in Workers, Remove(w), NEW m \in InFlight'
  PROVE  m \in InFlight /\ m[2] # job[w][2]
<1>1. /\ UNCHANGED <<requests, responses>> /\ AtWork(w) /\ ~AtWork(w)'
      /\ \A v \in Workers : v # w => AtWork(v)' = AtWork(v) /\ job'[v] = job[v]
  BY DEF Remove, AtWork, TypeOK
<1>2. m \in requests \/ m \in responses \/ \E v \in Workers : v # w /\ AtWork(v) /\ job[v] = m
  BY <1>1 DEF InFlight
<1> QED
  BY <1>1, <1>2, InFlightIs DEF Once

LEMMA NotifiedStep ==
  ASSUME TypeOK, Once, Answered, Reserved, [Next]_vars,
         NEW w \in Workers, wpc'[w] = "notify"
  PROVE  WasSent(stub[w])' /\ \A m \in InFlight' : m[2] # stub'[w]
<1>1. CASE wpc[w] = "notify" /\ stub'[w] = stub[w]
  <2>1. WasSent(stub[w]) /\ \A m \in InFlight : m[2] # stub[w]
    BY <1>1 DEF Answered
  <2>2. WasSent(stub[w])'
    <3>1. PICK h \in Handlers : h = stub[w]
      BY <2>1 DEF WasSent
    <3>2. WasSent(h)'
      BY <2>1, <3>1, SentStays
    <3> QED
      BY <1>1, <3>1, <3>2
  <2>3. ASSUME NEW c \in Callers, Send(c) PROVE Call(c) # stub[w]
    BY <2>1, <2>3 DEF Send, WasSent, Call
  <2> QED
    BY <1>1, <2>1, <2>2, <2>3, InFlightStep
<1>2. ASSUME Remove(w) PROVE WasSent(stub[w])' /\ \A m \in InFlight' : m[2] # stub'[w]
  <2>1. stub'[w] = handlers[job[w][1]] /\ handlers[job[w][1]] # None
    BY <1>2 DEF Remove, TypeOK
  <2>2. stub'[w] = job[w][2]
    BY <1>2, <2>1, RemoveOwn
  <2>3. job[w] \in InFlight
    BY <1>2, InFlightIs DEF Remove, AtWork
  <2>4. WasSent(job[w][2])
    BY <2>3 DEF Once
  <2>5. PICK h \in Handlers : h = job[w][2]
    BY <2>4 DEF WasSent
  <2>6. WasSent(stub[w])'
    <3>1. WasSent(h)'
      BY <2>4, <2>5, SentStays
    <3> QED
      BY <2>2, <2>5, <3>1
  <2> QED
    BY <1>2, <2>2, <2>6, RemoveLeaves
<1>3. Remove(w) \/ (wpc[w] = "notify" /\ stub'[w] = stub[w])
  <2>1. UNCHANGED <<wpc, stub>> => wpc[w] = "notify" /\ stub'[w] = stub[w]
    OBVIOUS
  <2>2. ASSUME NEW v \in Workers, Worker(v) PROVE Remove(w) \/ (wpc[w] = "notify" /\ stub'[w] = stub[w])
    BY <2>2 DEF Worker, Take, Look, Remove, Notify, TypeOK
  <2> QED
    BY <2>1, <2>2 DEF Next, Advance, CallBegin, Probe, Put, PutFails, Send, SendThrows, Wait, WaitEnds, Finally, Answer,
                      Tick, SessionLost, workVars, vars
<1> QED
  BY <1>1, <1>2, <1>3

LEMMA WokenStep ==
  ASSUME TypeOK, Answered, [Next]_vars, NEW c \in Callers, woken'[c]
  PROVE  /\ pc'[c] = "waiting"
         /\ \A m \in InFlight' : m[2] # Call(c)'
<1> DEFINE Goal == /\ pc'[c] = "waiting"
                   /\ \A m \in InFlight' : m[2] # Call(c)'
<1>1. ASSUME woken[c], number'[c] = number[c], pc'[c] = pc[c] PROVE Goal
  <2>1. Call(c)' = Call(c) /\ pc[c] = "waiting" /\ \A m \in InFlight : m[2] # Call(c)
    BY <1>1 DEF Answered, Call
  <2>2. ASSUME NEW d \in Callers, Send(d) PROVE Call(d) # Call(c)
    BY <2>1, <2>2 DEF Send, Call
  <2> QED
    BY <1>1, <2>1, <2>2, InFlightStep
<1>2. ASSUME NEW d \in Callers, CallBegin(d) \/ Advance(d) PROVE Goal
  <2>1. CASE d = c
    <3>1. woken[c] /\ ~WaitEnds(c)
      BY <1>2, <2>1 DEF CallBegin, Advance, Probe, Put, PutFails, Send, SendThrows, Wait, WaitEnds, Finally, TypeOK
    <3>2. pc[c] = "waiting"
      BY <3>1 DEF Answered
    <3> QED
      BY <1>2, <2>1, <3>1, <3>2 DEF CallBegin, Advance, Probe, Put, PutFails, Send, SendThrows, Wait, Finally
  <2>2. CASE d # c
    <3>1. woken[c] /\ number'[c] = number[c] /\ pc'[c] = pc[c]
      BY <1>2, <2>2 DEF CallBegin, Advance, Probe, Put, PutFails, Send, SendThrows, Wait, WaitEnds, Finally, TypeOK
    <3> QED
      BY <1>1, <3>1 DEF Answered
  <2> QED
    BY <2>1, <2>2
<1>3. ASSUME NEW w \in Workers, Notify(w) PROVE Goal
  <2>1. CASE woken[c]
    BY <1>1, <1>3, <2>1 DEF Notify, callVars, Answered
  <2>2. CASE ~woken[c]
    <3>1. stub[w] = Call(c) /\ pc[c] = "waiting" /\ wpc[w] = "notify" /\ Call(c)' = Call(c) /\ pc' = pc
      BY <1>3, <2>2 DEF Notify, callVars, Call
    <3>2. \A d \in Callers : ~Send(d)
      BY <1>3, <3>1 DEF Notify, Send, TypeOK
    <3>3. \A m \in InFlight' : m \in InFlight
      BY <3>2, InFlightStep
    <3> QED
      BY <3>1, <3>3 DEF Answered
  <2> QED
    BY <2>1, <2>2
<1>4. ASSUME UNCHANGED <<woken, pc, number>> PROVE Goal
  BY <1>1, <1>4 DEF Answered
<1>5. ASSUME NEW w \in Workers, (\E r \in responses : Take(w, r)) \/ Look(w) \/ Remove(w) PROVE Goal
  BY <1>4, <1>5 DEF Take, Look, Remove, callVars
<1>6. CASE (\E r \in requests : Answer(r)) \/ Tick \/ SessionLost \/ UNCHANGED vars
  BY <1>4, <1>6 DEF Answer, Tick, SessionLost, vars, callVars
<1> QED
  BY <1>2, <1>3, <1>5, <1>6 DEF Next, Worker

LEMMA AnsweredStep ==
  ASSUME TypeOK, Once, Answered, Reserved, [Next]_vars
  PROVE  Answered'
BY NotifiedStep, WokenStep DEF Answered

(* A message that was reserved stays so, while no call puts its handler     *)
(* under its number and its own call goes on waiting.                       *)
LEMMA ReservedKept ==
  ASSUME TypeOK, Reserved, NEW m \in InFlight, m[1] \in Seqs,
         handlers'[m[1]] \in {None, handlers[m[1]]},
         m[1] < now - Slack => m[1] < now' - Slack, now = MaxNow => now' = MaxNow,
         \A c \in Callers : pc[c] \in {"sync", "waiting"} /\ seq[c] = m[1] /\ Call(c) = m[2] =>
           \/ pc'[c] \in {"sync", "waiting"} /\ seq'[c] = seq[c] /\ number'[c] = number[c]
           \/ m[1] < now' - Slack \/ now' = MaxNow
  PROVE  /\ handlers'[m[1]] \in {None, m[2]}
         /\ \/ m[1] < now' - Slack \/ now' = MaxNow
            \/ \E c \in Callers : pc'[c] \in {"sync", "waiting"} /\ seq'[c] = m[1] /\ Call(c)' = m[2]
BY DEF Reserved, Call

LEMMA ReservedStep ==
  ASSUME TypeOK, Busy, NoStaleHandler, Waiting, Choosing,
         OwnEntry, Answered, Reserved, ~clash', ~late', [Next]_vars
  PROVE  Reserved'
<1> DEFINE Goal(m) == /\ handlers'[m[1]] \in {None, m[2]}
                      /\ \/ m[1] < now' - Slack \/ now' = MaxNow
                         \/ \E c \in Callers : pc'[c] \in {"sync", "waiting"} /\ seq'[c] = m[1] /\ Call(c)' = m[2]
<1> SUFFICES ASSUME NEW m \in InFlight' PROVE Goal(m)
  BY DEF Reserved
<1>0. /\ now \in Nat /\ MaxNow \in Nat /\ N \in Nat /\ Timeout \in Nat /\ Slack = Timeout - N /\ Slack \in Int
      /\ \A c \in Callers : seq[c] \in Seqs /\ seq[c] \in Nat /\ since[c] \in Nat
  <2>1. MaxNow \in Nat /\ MaxSeq \in Nat /\ Timeout \in Nat /\ N \in Nat
    BY ClockAssumption, BoundsAssumption, AheadFinite
  <2>3. Slack = Timeout - N
    BY DEF Slack, N
  <2>2. now \in 0..MaxNow /\ \A c \in Callers : seq[c] \in 0..MaxSeq /\ since[c] \in 0..MaxNow
    BY DEF TypeOK, Seqs
  <2> QED
    BY <2>1, <2>2, <2>3 DEF Seqs
<1>1. ASSUME NEW c \in Callers, Send(c), m = <<seq[c], Call(c)>> PROVE Goal(m)
  <2>1. pc'[c] = "sync" /\ UNCHANGED <<handlers, seq, number>> /\ pc[c] = "send" /\ Call(c)' = Call(c)
    BY <1>1 DEF Send, TypeOK, Call
  <2>2. handlers[m[1]] \in {None, m[2]}
    BY <1>1, <2>1 DEF OwnEntry
  <2> QED
    BY <1>1, <2>1, <2>2
<1> SUFFICES ASSUME m \in InFlight PROVE Goal(m)
  BY <1>1, InFlightStep
<1>2. m[1] \in Seqs /\ m[1] \in Nat
  BY InFlightTypes DEF Seqs
<1>3. ASSUME handlers'[m[1]] \in {None, handlers[m[1]]}, now' = now,
             \A c \in Callers : pc[c] \in {"sync", "waiting"} =>
               pc'[c] \in {"sync", "waiting"} /\ seq'[c] = seq[c] /\ number'[c] = number[c]
      PROVE  Goal(m)
  BY <1>2, <1>3, ReservedKept
<1>4. ASSUME NEW c \in Callers,
             CallBegin(c) \/ Probe(c) \/ PutFails(c) \/ Send(c) \/ SendThrows(c) \/ Wait(c) \/ Finally(c)
      PROVE  Goal(m)
  BY <1>2, <1>3, <1>4 DEF CallBegin, Probe, PutFails, Send, SendThrows, Wait, Finally, TypeOK
<1>5. ASSUME NEW c \in Callers, Put(c) PROVE Goal(m)
  <2>1. m[1] # seq[c]
    <3>1. late' = (late \/ now = MaxNow \/ now - since[c] > Slack) /\ seq[c] >= since[c]
      BY <1>5 DEF Put, Choosing
    <3>3. now # MaxNow /\ ~(now - since[c] > Slack)
      BY <3>1
    <3>2. \A d \in Callers : pc[d] \in {"sync", "waiting"} => seq[d] # seq[c]
      BY <1>5 DEF Put, InProgress
    <3> QED
      BY <1>0, <1>2, <3>1, <3>2, <3>3 DEF Reserved
  <2>2. handlers'[m[1]] = handlers[m[1]]
    BY <1>2, <1>5, <2>1 DEF Put, TypeOK
  <2> QED
    BY <1>3, <1>5, <2>2 DEF Put, TypeOK
<1>6. ASSUME NEW c \in Callers, WaitEnds(c) PROVE Goal(m)
  <2>1. ASSUME seq[c] = m[1], Call(c) = m[2] PROVE m[1] < now' - Slack \/ now' = MaxNow
    <3>1. ~woken[c] /\ now' = now
      BY <1>6, <2>1 DEF WaitEnds, Answered
    <3>2. CASE now - since[c] >= Timeout
      BY <1>0, <1>6, <2>1, <3>1, <3>2 DEF WaitEnds, Waiting
    <3> QED
      BY <1>6, <3>1, <3>2 DEF WaitEnds
  <2>2. UNCHANGED <<handlers, seq, number, now>> /\ \A d \in Callers \ {c} : pc'[d] = pc[d]
    BY <1>6 DEF WaitEnds, TypeOK
  <2> QED
    BY <1>2, <2>1, <2>2, ReservedKept
<1>7. ASSUME NEW w \in Workers, Worker(w) PROVE Goal(m)
  BY <1>2, <1>3, <1>7 DEF Worker, Take, Look, Remove, Notify, callVars, TypeOK
<1>8. CASE Tick
  <2>1. now' = now + 1 /\ now # MaxNow /\ UNCHANGED <<handlers, pc, seq, number>>
    BY <1>0, <1>8 DEF Tick, callVars
  <2> QED
    BY <1>0, <1>2, <2>1, ReservedKept
<1>9. CASE (\E r \in requests : Answer(r)) \/ SessionLost \/ UNCHANGED vars
  BY <1>3, <1>9 DEF Answer, SessionLost, vars, callVars
<1> QED
  BY <1>4, <1>5, <1>6, <1>7, <1>8, <1>9 DEF Next, Advance

LEMMA OwnAnswerStep ==
  ASSUME TypeOK, Reserved, \A r \in received : r[1] = r[2], [Next]_vars
  PROVE  \A r \in received' : r[1] = r[2]
<1>1. ASSUME NEW w \in Workers, Remove(w) PROVE \A r \in received' : r[1] = r[2]
  <2>1. \/ received' = received
        \/ handlers[job[w][1]] # None /\ received' = received \cup {<<handlers[job[w][1]], job[w][2]>>}
    BY <1>1 DEF Remove
  <2>2. handlers[job[w][1]] # None => handlers[job[w][1]] = job[w][2]
    BY <1>1, RemoveOwn
  <2> QED
    BY <2>1, <2>2
<1> QED
  BY <1>1 DEF Next, Advance, CallBegin, Probe, Put, PutFails, Send, SendThrows, Wait, WaitEnds, Finally, Worker, Take,
              Look, Notify, Answer, Tick, SessionLost, histVars, vars

LEMMA InitIInv == Init => IInv
<1> SUFFICES ASSUME Init PROVE IInv
  OBVIOUS
<1>1. TypeOK /\ Busy /\ NoStaleHandler
  BY InitHInv DEF HInv
<1>2. InFlight = {}
  BY DEF Init, InFlight, AtWork
<1>3. Spread
  <2>1. ASSUME NEW k \in 1..N PROVE Ahead(k) = {}
    BY DEF Init, Ahead
  <2>2. N \in Nat
    BY AheadFinite
  <2> QED
    BY <2>1, <2>2, FS_EmptySet DEF Spread, Ahead
<1>4. Waiting /\ Choosing /\ Once
  BY <1>2 DEF Init, Waiting, Choosing, Once, AtWork
<1>5. OwnEntry /\ Answered /\ Reserved /\ OwnAnswer
  BY <1>2 DEF Init, OwnEntry, Answered, Reserved, OwnAnswer
<1> QED
  BY <1>1, <1>3, <1>4, <1>5 DEF IInv

LEMMA IInvStep ==
  ASSUME IInv, [Next]_vars
  PROVE  IInv'
<1>1. TypeOK' /\ Busy' /\ NoStaleHandler'
  BY HInvStep DEF IInv, HInv
<1>2. Spread' /\ Waiting' /\ Choosing' /\ Once'
  BY SpreadStep, WaitingStep, ChoosingStep, OnceStep DEF IInv
<1>3. ASSUME ~clash', ~late'
      PROVE  OwnEntry' /\ Answered' /\ Reserved' /\ \A r \in received' : r[1] = r[2]
  <2>1. ~clash /\ ~late
    BY <1>3, ClashStays DEF IInv
  <2>2. OwnEntry /\ Answered /\ Reserved /\ \A r \in received : r[1] = r[2]
    BY <2>1 DEF IInv, OwnAnswer
  <2> QED
    BY <1>3, <2>2, OwnEntryStep, AnsweredStep, ReservedStep, OwnAnswerStep DEF IInv
<1> QED
  BY <1>1, <1>2, <1>3 DEF IInv, OwnAnswer

(* However many threads call at once, however late the answers come and     *)
(* whatever fails: an answer is given to the call that asked for it, as     *)
(* long as no two calls in progress have had one number, and no call has    *)
(* taken more than Slack from its number to its entry (MQ.call, MQ.process).*)
THEOREM AnswersAreOwn == Spec => []OwnAnswer
<1>1. IInv /\ [Next]_vars => IInv'
  BY IInvStep
<1>2. IInv => OwnAnswer
  BY DEF IInv, OwnAnswer
<1> QED
  BY InitIInv, <1>1, <1>2, PTL DEF Spec
=============================================================================
