-------------------------- MODULE TConnCenterProofs --------------------------
(* Proofs about TConnCenter, for any connections, clients, senders and      *)
(* number of packets: no closed connection stays in the registry, no client *)
(* stays recorded as connected, and the newest connection is found.         *)
EXTENDS TConnCenter, TLAPS

USE DEF Goto

(* The threads of a connection are told apart by their first component.     *)
LEMMA ActorFacts ==
  /\ \A c \in Conns : Proc(c) \in Actors /\ Proc(c)[1] = "proc" /\ Proc(c)[2] = c
  /\ \A c \in Conns : Io(c) \in Actors /\ Io(c)[1] = "io" /\ Io(c)[2] = c
  /\ \A c \in Senders : Sender(c) \in Actors /\ Sender(c)[1] = "send" /\ Sender(c)[2] = c
  /\ \A a \in Actors : a[2] \in Conns /\ (a[1] = "proc" => a = Proc(a[2]))
  /\ \A c, d \in Conns : Proc(c) = Proc(d) => c = d
  /\ \A c, d \in Conns : Proc(c) # Io(d)
  /\ \A c \in Conns, d \in Senders : Proc(c) # Sender(d)
BY SendersAssumption DEF Actors, Proc, Io, Sender

(* Closing is a set of labels apart from those of the handshake.            *)
LEMMA ClosingFacts ==
  /\ \A l \in Closing : l \notin {"idle", "load", "validate", "login", "bind", "add", "put", "reply", "ended"}
  /\ "close" \in Closing /\ "drop" \in Closing /\ "owner" \in Closing /\ "mark" \in Closing
  /\ "forget" \in Closing /\ "find" \in Closing /\ "remove" \in Closing
BY DEF Closing

(* Nobody is connected, and nothing is in progress, at the start.           *)
LEMMA InitIInv == Init => IInv
<1> SUFFICES ASSUME Init PROVE IInv
  OBVIOUS
<1>1. /\ \A a \in Actors : pc[a] = "idle" /\ after[a] = "idle"
      /\ \A c \in Conns : pc[Proc(c)] = "idle" /\ clientid[c] = Null /\ id[c] = Null
  BY ActorFacts DEF Init
<1>2. TypeOK
  BY ActorFacts, MaxAssumption DEF Init, TypeOK
<1>3. ClosingOK /\ HelloOK
  BY <1>1, ClosingFacts DEF ClosingOK, HelloOK, InHello, Saying
<1>4. RecordHeld /\ CachedHeld /\ NewestHeld
  BY <1>1, NullAssumption DEF Init, RecordHeld, CachedHeld, NewestHeld
<1> QED
  BY <1>2, <1>3, <1>4 DEF IInv

-----------------------------------------------------------------------------
(* The steps of the handshake, and of the I/O layer, keep the invariant.    *)
LEMMA ReceiveStep ==
  ASSUME IInv, NEW c \in Conns, NEW p \in Ids \cup {Bye}, Receive(c, p)
  PROVE  IInv'
<1>0. TypeOK /\ ClosingOK /\ HelloOK /\ RecordHeld /\ CachedHeld /\ NewestHeld
  BY DEF IInv
<1>1. TypeOK'
  <2>1. packets[c] + 1 \in 0..MaxPackets /\ inbox[c] \cup {p} \in SUBSET (Ids \cup {Bye})
    BY <1>0, MaxAssumption DEF Receive, TypeOK
  <2> QED
    BY <1>0, <2>1 DEF Receive, fields, calls, history, TypeOK
<1>2. ClosingOK'
  BY <1>0 DEF Receive, fields, history, calls, ClosingOK
<1>3. HelloOK'
  BY <1>0 DEF Receive, fields, history, calls, HelloOK, InHello, Saying
<1>4. RecordHeld'
  BY <1>0 DEF Receive, fields, history, calls, RecordHeld, WillMark
<1>5. CachedHeld'
  BY <1>0 DEF Receive, fields, history, calls, CachedHeld, WillRemove
<1>6. NewestHeld'
  BY <1>0 DEF Receive, fields, history, calls, NewestHeld
<1> QED
  BY <1>1, <1>2, <1>3, <1>4, <1>5, <1>6 DEF IInv

LEMMA HelloStep ==
  ASSUME IInv, NEW c \in Conns, NEW i \in Ids, HelloArrives(c, i)
  PROVE  IInv'
<1>0. TypeOK /\ ClosingOK /\ HelloOK /\ RecordHeld /\ CachedHeld /\ NewestHeld
  BY DEF IInv
<1>1. TypeOK'
  BY <1>0 DEF HelloArrives, Process, fields, TypeOK
<1>2. ClosingOK'
  BY <1>0, ActorFacts DEF HelloArrives, Process, fields, ClosingOK
<1>3. HelloOK'
  <2>1. /\ pc[Proc(c)] = "idle" /\ pc'[Proc(c)] = "load" /\ asked'[c] = i
        /\ \A a \in Actors \ {Proc(c)} : pc'[a] = pc[a]
        /\ \A d \in Conns \ {c} : asked'[d] = asked[d] /\ loose'[d] = loose[d]
        /\ UNCHANGED <<session, clientid, id, target, after, read>>
    BY <1>0, ActorFacts DEF HelloArrives, Process, fields, TypeOK
  <2>2. /\ loose[c] \subseteq loose'[c]
        /\ asked[c] \in Ids /\ asked[c] # i => asked[c] \in loose'[c]
        /\ (\E a \in Actors : pc[a] \in Closing /\ target[a] = c) => i \in loose'[c]
    BY <1>0 DEF HelloArrives, TypeOK
  <2>3. ASSUME NEW d \in Conns, d # c
        PROVE  InHello(d)' = InHello(d) /\ Saying(d)' = Saying(d) /\ pc'[Proc(d)] = pc[Proc(d)]
    BY <2>1, <2>3, ActorFacts DEF InHello, Saying
  <2>4. ~Saying(c)'
    BY <2>1, ClosingFacts DEF Saying
  <2>5. ASSUME NEW d \in Conns
        PROVE  \A a \in Actors : a # Proc(d) /\ pc'[a] \in Closing /\ target'[a] = d =>
                 (pc[a] \in Closing /\ target[a] = d)
    BY <2>1, ClosingFacts
  <2>6. asked[c] \in Ids \cup {Null}
    BY <1>0 DEF TypeOK
  <2> QED
    BY <1>0, <2>1, <2>2, <2>3, <2>4, <2>5, <2>6, ClosingFacts DEF HelloOK
<1>4. RecordHeld'
  BY <1>0 DEF HelloArrives, Process, fields, RecordHeld, WillMark
<1>5. CachedHeld'
  BY <1>0 DEF HelloArrives, Process, fields, CachedHeld, WillRemove
<1>6. NewestHeld'
  BY <1>0 DEF HelloArrives, Process, fields, NewestHeld
<1> QED
  BY <1>1, <1>2, <1>3, <1>4, <1>5, <1>6 DEF IInv

(* The client id that load sets is the one asked for: a record or an entry  *)
(* that was held by another client id of c had been counted as loose.       *)
LEMMA LoadStep ==
  ASSUME IInv, NEW c \in Conns, Load(c)
  PROVE  IInv'
<1>0. TypeOK /\ ClosingOK /\ HelloOK /\ RecordHeld /\ CachedHeld /\ NewestHeld
  BY DEF IInv
<1>f. /\ pc[Proc(c)] = "load" /\ asked[c] \in Ids /\ asked[c] # Null
      /\ clientid'[c] = asked[c] /\ clientid[c] \in {Null, asked[c]} \cup loose[c]
      /\ \A d \in Conns \ {c} : clientid'[d] = clientid[d]
      /\ \A a \in Actors \ {Proc(c)} : pc'[a] = pc[a]
      /\ pc'[Proc(c)] \in {"validate", "reply"}
      /\ UNCHANGED <<record, conns, id, session, target, after, read, asked, loose>>
  BY <1>0, ActorFacts, NullAssumption DEF Load, calls, arrived, history, TypeOK, HelloOK,
     InHello
<1>1. TypeOK'
  BY <1>0 DEF Load, fields, history, calls, arrived, TypeOK
<1>2. ClosingOK'
  BY <1>0, ActorFacts DEF Load, fields, history, calls, arrived, ClosingOK
<1>3. HelloOK'
  <2>1. /\ \A d \in Conns \ {c} : InHello(d)' = InHello(d) /\ Saying(d)' = Saying(d)
        /\ pc[Proc(c)] \notin Closing /\ pc'[Proc(c)] \notin Closing
    BY <1>f, ActorFacts, ClosingFacts DEF InHello, Saying
  <2>2. \A d \in Conns, a \in Actors : a # Proc(d) /\ pc'[a] \in Closing => pc[a] = pc'[a]
    BY <1>f, <2>1
  <2>3. InHello(c) /\ (Saying(c)' => session[c])
    BY <1>0, <1>f, <2>1 DEF HelloOK, InHello, Saying, Load
  <2>4. ASSUME NEW d \in Conns \ {c}
        PROVE  pc'[Proc(d)] = pc[Proc(d)]
    BY <1>f, ActorFacts
  <2> QED
    BY <1>0, <1>f, <2>1, <2>2, <2>3, <2>4 DEF HelloOK
<1>4. RecordHeld'
  <2>1. ASSUME NEW d \in Conns, WillMark(d)
        PROVE  WillMark(d)'
    BY <1>f, <2>1 DEF WillMark
  <2>2. ASSUME NEW i \in Ids, record[i] = "connected"
        PROVE  \E d \in Conns : i \in loose[d] \/ (clientid'[d] = i /\ (session[d] \/ WillMark(d)))
    <3>1. PICK d \in Conns : i \in loose[d] \/ (clientid[d] = i /\ (session[d] \/ WillMark(d)))
      BY <1>0, <2>2 DEF RecordHeld
    <3>2. clientid'[d] = clientid[d] \/ clientid[d] # i \/ i \in loose[d] \/ clientid'[d] = i
      BY <1>f, NullAssumption
    <3> QED
      BY <3>1, <3>2
  <2> QED
    BY <1>f, <2>1, <2>2 DEF RecordHeld
<1>5. CachedHeld'
  <2>1. ASSUME NEW d \in Conns, NEW i \in Ids, WillRemove(d, i)
        PROVE  WillRemove(d, i)'
    BY <1>f, <2>1 DEF WillRemove
  <2> QED
    BY <1>0, <1>f, <2>1 DEF CachedHeld
<1>6. NewestHeld'
  BY <1>0 DEF Load, fields, history, calls, arrived, NewestHeld
<1> QED
  BY <1>1, <1>2, <1>3, <1>4, <1>5, <1>6 DEF IInv

LEMMA ValidateNoStep ==
  ASSUME IInv, NEW c \in Conns, ValidateNo(c)
  PROVE  IInv'
<1>0. TypeOK /\ ClosingOK /\ HelloOK /\ RecordHeld /\ CachedHeld /\ NewestHeld
  BY DEF IInv
<1>1. TypeOK'
  BY <1>0 DEF ValidateNo, history, calls, arrived, TypeOK
<1>2. ClosingOK'
  BY <1>0, ActorFacts DEF ValidateNo, history, calls, arrived, ClosingOK
<1>3. HelloOK'
  BY <1>0, ClosingFacts DEF ValidateNo, history, calls, arrived, HelloOK, InHello, Saying
<1>4. RecordHeld'
  BY <1>0 DEF ValidateNo, history, calls, arrived, RecordHeld, WillMark
<1>5. CachedHeld'
  BY <1>0 DEF ValidateNo, history, calls, arrived, CachedHeld, WillRemove
<1>6. NewestHeld'
  BY <1>0 DEF ValidateNo, history, calls, arrived, NewestHeld
<1> QED
  BY <1>1, <1>2, <1>3, <1>4, <1>5, <1>6 DEF IInv

LEMMA ValidateYesStep ==
  ASSUME IInv, NEW c \in Conns, ValidateYes(c)
  PROVE  IInv'
<1>0. TypeOK /\ ClosingOK /\ HelloOK /\ RecordHeld /\ CachedHeld /\ NewestHeld
  BY DEF IInv
<1>1. TypeOK'
  BY <1>0 DEF ValidateYes, history, arrived, TypeOK
<1>2. ClosingOK'
  BY <1>0, ActorFacts DEF ValidateYes, history, arrived, ClosingOK
<1>3. HelloOK'
  <2>1. /\ pc[Proc(c)] = "validate" /\ pc'[Proc(c)] = "login"
        /\ read'[Proc(c)] = clientid[c]
        /\ \A a \in Actors \ {Proc(c)} : pc'[a] = pc[a] /\ read'[a] = read[a]
        /\ UNCHANGED <<session, clientid, id, asked, target, after, loose>>
    BY <1>0, ActorFacts DEF ValidateYes, history, TypeOK
  <2>2. \A d \in Conns : InHello(d)' = InHello(d) /\ Saying(d)' = Saying(d)
    BY <2>1, ActorFacts DEF InHello, Saying
  <2>3. ASSUME NEW d \in Conns \ {c}
        PROVE  pc'[Proc(d)] = pc[Proc(d)] /\ read'[Proc(d)] = read[Proc(d)]
    BY <2>1, ActorFacts
  <2>4. \A a \in Actors : pc'[a] \in Closing => pc[a] = pc'[a]
    BY <2>1, ClosingFacts
  <2> QED
    BY <1>0, <2>1, <2>2, <2>3, <2>4, ClosingFacts DEF HelloOK
<1>4. RecordHeld'
  BY <1>0 DEF ValidateYes, history, arrived, RecordHeld, WillMark
<1>5. CachedHeld'
  BY <1>0 DEF ValidateYes, history, arrived, CachedHeld, WillRemove
<1>6. NewestHeld'
  BY <1>0 DEF ValidateYes, history, arrived, NewestHeld
<1> QED
  BY <1>1, <1>2, <1>3, <1>4, <1>5, <1>6 DEF IInv

(* The record becomes "connected" only for a client id that was read while  *)
(* c had its session, or that is loose.                                     *)
LEMMA LoginStep ==
  ASSUME IInv, NEW c \in Conns, Login(c)
  PROVE  IInv'
<1>0. TypeOK /\ ClosingOK /\ HelloOK /\ RecordHeld /\ CachedHeld /\ NewestHeld
  BY DEF IInv
<1>1. TypeOK'
  BY <1>0 DEF Login, history, arrived, TypeOK
<1>2. ClosingOK'
  BY <1>0, ActorFacts DEF Login, history, arrived, ClosingOK
<1>3. HelloOK'
  BY <1>0, ClosingFacts DEF Login, history, arrived, HelloOK, InHello, Saying
<1>4. RecordHeld'
  <2>1. /\ pc[Proc(c)] = "login" /\ pc'[Proc(c)] \in {"bind", "reply"}
        /\ \A a \in Actors \ {Proc(c)} : pc'[a] = pc[a]
        /\ \A i \in Ids : i # read[Proc(c)] => record'[i] = record[i]
        /\ UNCHANGED <<session, clientid, target, loose>>
    BY <1>0, ActorFacts DEF Login, history, TypeOK
  <2>2. ASSUME NEW d \in Conns, WillMark(d)
        PROVE  WillMark(d)'
    BY <2>1, <2>2 DEF WillMark
  <2>3. ASSUME NEW i \in Ids, i = read[Proc(c)]
        PROVE  i \in loose[c] \/ (clientid[c] = i /\ session[c])
    BY <1>0, <2>1, <2>3, NullAssumption DEF HelloOK, Saying
  <2> QED
    BY <1>0, <2>1, <2>2, <2>3 DEF RecordHeld
<1>5. CachedHeld'
  BY <1>0 DEF Login, history, arrived, CachedHeld, WillRemove
<1>6. NewestHeld'
  BY <1>0 DEF Login, history, arrived, NewestHeld
<1> QED
  BY <1>1, <1>2, <1>3, <1>4, <1>5, <1>6 DEF IInv

LEMMA BindStep ==
  ASSUME IInv, NEW c \in Conns, Bind(c)
  PROVE  IInv'
<1>0. TypeOK /\ ClosingOK /\ HelloOK /\ RecordHeld /\ CachedHeld /\ NewestHeld
  BY DEF IInv
<1>f. /\ pc[Proc(c)] = "bind" /\ asked[c] \in Ids /\ asked[c] # Null
      /\ clientid'[c] = asked[c] /\ clientid[c] \in {Null, asked[c]} \cup loose[c]
      /\ id'[c] = asked[c] /\ id[c] \in {Null, asked[c]} \cup loose[c]
      /\ \A d \in Conns \ {c} : clientid'[d] = clientid[d] /\ id'[d] = id[d]
      /\ \A a \in Actors \ {Proc(c)} : pc'[a] = pc[a]
      /\ pc'[Proc(c)] \in {"add", "reply"}
      /\ UNCHANGED <<record, conns, session, target, after, read, asked, loose>>
  BY <1>0, ActorFacts, NullAssumption DEF Bind, calls, arrived, history, TypeOK, HelloOK,
     InHello
<1>1. TypeOK'
  BY <1>0 DEF Bind, fields, history, calls, arrived, TypeOK
<1>2. ClosingOK'
  BY <1>0, ActorFacts DEF Bind, fields, history, calls, arrived, ClosingOK
<1>3. HelloOK'
  <2>1. /\ \A d \in Conns \ {c} : InHello(d)' = InHello(d) /\ Saying(d)' = Saying(d)
        /\ pc[Proc(c)] \notin Closing /\ pc'[Proc(c)] \notin Closing
    BY <1>f, ActorFacts, ClosingFacts DEF InHello, Saying
  <2>2. \A d \in Conns, a \in Actors : a # Proc(d) /\ pc'[a] \in Closing => pc[a] = pc'[a]
    BY <1>f, <2>1
  <2>3. InHello(c)
    BY <1>f DEF InHello
  <2>4. ASSUME NEW d \in Conns \ {c}
        PROVE  pc'[Proc(d)] = pc[Proc(d)]
    BY <1>f, ActorFacts
  <2>5. (session[c] /\ clientid'[c] = asked[c]) \/ asked[c] \in loose[c]
    BY <1>0, <1>f DEF HelloOK, Saying
  <2>6. /\ id'[c] \in {Null, asked[c]} \cup loose[c] /\ clientid'[c] \in {Null, asked[c]} \cup loose[c]
        /\ pc'[Proc(c)] # "login"
        /\ \A a \in Actors : a # Proc(c) /\ pc'[a] \in Closing /\ target[a] = c => asked[c] \in loose[c]
    BY <1>0, <1>f, <2>2, <2>3 DEF HelloOK
  <2>7. ASSUME NEW d \in Conns \ {c}, NEW a \in Actors, a # Proc(d), pc'[a] \in Closing
        PROVE  pc[a] \in Closing
    BY <2>2, <2>7
  <2> QED
    BY <1>0, <1>f, <2>1, <2>3, <2>4, <2>5, <2>6, <2>7 DEF HelloOK
<1>4. RecordHeld'
  <2>1. ASSUME NEW d \in Conns, WillMark(d)
        PROVE  WillMark(d)'
    BY <1>f, <2>1 DEF WillMark
  <2>2. ASSUME NEW i \in Ids, record[i] = "connected"
        PROVE  \E d \in Conns : i \in loose[d] \/ (clientid'[d] = i /\ (session[d] \/ WillMark(d)))
    <3>1. PICK d \in Conns : i \in loose[d] \/ (clientid[d] = i /\ (session[d] \/ WillMark(d)))
      BY <1>0, <2>2 DEF RecordHeld
    <3>2. clientid'[d] = clientid[d] \/ clientid[d] # i \/ i \in loose[d] \/ clientid'[d] = i
      BY <1>f, NullAssumption
    <3> QED
      BY <3>1, <3>2
  <2> QED
    BY <1>f, <2>1, <2>2 DEF RecordHeld
<1>5. CachedHeld'
  <2>1. ASSUME NEW d \in Conns, NEW i \in Ids, WillRemove(d, i)
        PROVE  WillRemove(d, i)'
    BY <1>f, <2>1 DEF WillRemove
  <2> QED
    BY <1>0, <1>f, <2>1, NullAssumption DEF CachedHeld
<1>6. NewestHeld'
  BY <1>0 DEF Bind, fields, history, calls, arrived, NewestHeld
<1> QED
  BY <1>1, <1>2, <1>3, <1>4, <1>5, <1>6 DEF IInv

(* The entry put under id[c] is c, which has said hello as that client; an  *)
(* entry looked up under it and not removed yet makes it crossed.           *)
LEMMA PutStep ==
  ASSUME IInv, NEW c \in Conns, Put(c)
  PROVE  IInv'
<1>0. TypeOK /\ ClosingOK /\ HelloOK /\ RecordHeld /\ CachedHeld /\ NewestHeld
  BY DEF IInv
<1>f. /\ pc[Proc(c)] = "put" /\ id[c] = asked[c] /\ asked[c] \in Ids /\ asked[c] # Null
      /\ conns' = [conns EXCEPT ![id[c]] = c] /\ conns'[id[c]] = c
      /\ (session[c] /\ clientid[c] = asked[c]) \/ asked[c] \in loose[c]
      /\ \A a \in Actors \ {Proc(c)} : pc'[a] = pc[a]
      /\ pc'[Proc(c)] = "reply"
      /\ UNCHANGED <<session, clientid, id, target, after, read, loose>>
  BY <1>0, ActorFacts, NullAssumption DEF Put, fields, calls, TypeOK, HelloOK, InHello, Saying
<1>1. TypeOK'
  BY <1>0 DEF Put, fields, calls, arrived, TypeOK
<1>2. ClosingOK'
  BY <1>0, ActorFacts DEF Put, fields, calls, arrived, ClosingOK
<1>3. HelloOK'
  BY <1>0, ClosingFacts DEF Put, fields, calls, arrived, HelloOK, InHello, Saying
<1>4. RecordHeld'
  BY <1>0 DEF Put, fields, calls, arrived, RecordHeld, WillMark
<1>5. CachedHeld'
  <2>1. ASSUME NEW d \in Conns, NEW i \in Ids, WillRemove(d, i)
        PROVE  WillRemove(d, i)'
    BY <1>f, <2>1 DEF WillRemove
  <2>2. \A i \in Ids : i # id[c] => conns'[i] = conns[i]
    BY <1>0, <1>f DEF TypeOK
  <2> QED
    BY <1>0, <1>f, <2>1, <2>2 DEF CachedHeld
<1>6. NewestHeld'
  <2>1. \A i \in Ids : i # id[c] => conns'[i] = conns[i] /\ last'[i] = last[i] /\ crossed'[i] = crossed[i]
    BY <1>0, <1>f DEF Put, TypeOK
  <2>2. /\ last'[id[c]] = c
        /\ ~crossed'[id[c]] => \A a \in Actors : pc[a] = "remove" => read[a] # id[c]
    BY <1>0, <1>f DEF Put, TypeOK
  <2> QED
    BY <1>0, <1>f, <2>1, <2>2 DEF NewestHeld
<1> QED
  BY <1>1, <1>2, <1>3, <1>4, <1>5, <1>6 DEF IInv

LEMMA DisconnectStep ==
  ASSUME IInv, NEW c \in Conns, Disconnect(c)
  PROVE  IInv'
<1>0. TypeOK /\ ClosingOK /\ HelloOK /\ RecordHeld /\ CachedHeld /\ NewestHeld
  BY DEF IInv
<1>1. TypeOK'
  BY <1>0 DEF Disconnect, history, calls, arrived, TypeOK
<1>2. ClosingOK'
  BY <1>0 DEF Disconnect, history, calls, arrived, ClosingOK
<1>3. HelloOK'
  BY <1>0 DEF Disconnect, history, calls, arrived, HelloOK, InHello, Saying
<1>4. RecordHeld'
  BY <1>0 DEF Disconnect, history, calls, arrived, RecordHeld, WillMark
<1>5. CachedHeld'
  BY <1>0 DEF Disconnect, history, calls, arrived, CachedHeld, WillRemove
<1>6. NewestHeld'
  BY <1>0 DEF Disconnect, history, calls, arrived, NewestHeld
<1> QED
  BY <1>1, <1>2, <1>3, <1>4, <1>5, <1>6 DEF IInv

-----------------------------------------------------------------------------
(* A thread that is not closing anything begins to close c: every close     *)
(* starts with this (add, an answer or a message that cannot be sent, bye,  *)
(* the end of the session).                                                 *)
LEMMA CallCloseStep ==
  ASSUME IInv, NEW a \in Actors, NEW c \in Conns, NEW l \in {"idle", "put", "ended"}, CallClose(a, c, l),
         UNCHANGED <<conns, record, fields, asked, read, last, crossed, packets>>,
         inbox' \in [Conns -> SUBSET (Ids \cup {Bye})],
         IF l = "put" THEN a[1] = "proc" /\ a # Proc(c) /\ pc[a] = "add"
                      ELSE pc[a] \in {"idle", "reply"}
  PROVE  IInv'
<1>0. TypeOK /\ ClosingOK /\ HelloOK /\ RecordHeld /\ CachedHeld /\ NewestHeld
  BY DEF IInv
<1>f. /\ pc' = [pc EXCEPT ![a] = "close"] /\ target' = [target EXCEPT ![a] = c]
      /\ after' = [after EXCEPT ![a] = l]
      /\ pc'[a] = "close" /\ target'[a] = c /\ after'[a] = l /\ pc[a] \notin Closing
      /\ \A b \in Actors \ {a} : pc'[b] = pc[b] /\ target'[b] = target[b] /\ after'[b] = after[b]
      /\ UNCHANGED <<session, wire, attr, clientid, id, valid, conns, record, asked, read, last, crossed>>
      /\ \A d \in Conns : loose[d] \subseteq loose'[d]
      /\ a # Proc(c) /\ InHello(c) => asked[c] \in loose'[c]
  BY <1>0, ClosingFacts DEF CallClose, fields, TypeOK
<1>g. loose' \in [Conns -> SUBSET Ids]
  <2>1. a # Proc(c) /\ InHello(c) => asked[c] \in Ids
    BY <1>0 DEF HelloOK
  <2> QED
    BY <1>0, <2>1 DEF CallClose, TypeOK
<1>1. TypeOK'
  BY <1>0, <1>f, <1>g, ClosingFacts DEF TypeOK
<1>2. ClosingOK'
  BY <1>0, <1>f, ClosingFacts DEF ClosingOK
<1>h. \A d \in Conns : InHello(d)' = InHello(d) /\ (Saying(d)' => Saying(d))
  <2> SUFFICES ASSUME NEW d \in Conns
               PROVE  InHello(d)' = InHello(d) /\ (Saying(d)' => Saying(d))
    OBVIOUS
  <2>1. CASE Proc(d) # a
    BY <1>f, <2>1 DEF InHello, Saying
  <2>2. CASE Proc(d) = a
    BY <1>f, <2>2, ClosingFacts DEF InHello, Saying
  <2> QED
    BY <2>1, <2>2
<1>3. HelloOK'
  <2> SUFFICES ASSUME NEW d \in Conns
               PROVE  /\ InHello(d) =>
                           \A b \in Actors : b # Proc(d) /\ pc'[b] \in Closing /\ target'[b] = d
                             => asked[d] \in loose'[d]
                      /\ pc'[Proc(d)] \in {"add", "put"} => id[d] = asked[d]
                      /\ pc'[Proc(d)] \in Closing /\ after'[Proc(d)] = "put"
                           => id[d] = asked[d] /\ target'[Proc(d)] # d
                      /\ pc'[Proc(d)] = "login" => read[Proc(d)] \in {Null, asked[d]} \cup loose[d]
    BY <1>0, <1>f, <1>h DEF HelloOK
  <2>1. InHello(d) => \A b \in Actors : b # Proc(d) /\ pc'[b] \in Closing /\ target'[b] = d
                         => asked[d] \in loose'[d]
    BY <1>0, <1>f DEF HelloOK
  <2>2. CASE Proc(d) # a
    BY <1>0, <1>f, <2>1, <2>2 DEF HelloOK
  <2>3. CASE Proc(d) = a
    BY <1>0, <1>f, <2>1, <2>3 DEF HelloOK
  <2> QED
    BY <2>2, <2>3
<1>4. RecordHeld'
  <2>1. ASSUME NEW d \in Conns, WillMark(d)
        PROVE  WillMark(d)'
    BY <1>f, <2>1 DEF WillMark
  <2> QED
    BY <1>0, <1>f, <2>1 DEF RecordHeld
<1>5. CachedHeld'
  <2>1. ASSUME NEW d \in Conns, NEW i \in Ids, WillRemove(d, i)
        PROVE  WillRemove(d, i)'
    BY <1>f, <2>1 DEF WillRemove
  <2> QED
    BY <1>0, <1>f, <2>1 DEF CachedHeld
<1>6. NewestHeld'
  BY <1>0, <1>f DEF NewestHeld
<1> QED
  BY <1>1, <1>2, <1>3, <1>4, <1>5, <1>6 DEF IInv

(* add closes another connection found under the id, and waits for that.    *)
LEMMA AddStep ==
  ASSUME IInv, NEW c \in Conns, Add(c)
  PROVE  IInv'
<1>0. TypeOK /\ ClosingOK /\ HelloOK /\ RecordHeld /\ CachedHeld /\ NewestHeld
  BY DEF IInv
<1> DEFINE m == conns[id[c]]
<1>m. pc[Proc(c)] = "add" /\ id[c] \in Ids /\ m \in Conns \cup {Null}
  BY <1>0 DEF Add, HelloOK, InHello, TypeOK
<1>c. CASE m # Null /\ ~EqualConn(m, c)
  <2>1. m \in Conns /\ m # c
    BY <1>m, <1>c DEF EqualConn
  <2>2. CallClose(Proc(c), m, "put") /\ UNCHANGED <<conns, record, fields, asked, read, arrived, last, crossed>>
    BY <1>c DEF Add
  <2>3. inbox' \in [Conns -> SUBSET (Ids \cup {Bye})] /\ UNCHANGED packets
    BY <1>0, <2>2 DEF arrived, TypeOK
  <2>4. Proc(c) \in Actors /\ Proc(c)[1] = "proc" /\ Proc(c) # Proc(m)
    BY <2>1, ActorFacts
  <2> HIDE DEF m
  <2> QED
    BY <1>m, <2>1, <2>2, <2>3, <2>4, CallCloseStep
<1>d. CASE ~(m # Null /\ ~EqualConn(m, c))
  <2>f. /\ pc'[Proc(c)] = "put"
        /\ \A a \in Actors \ {Proc(c)} : pc'[a] = pc[a]
        /\ pc' = [pc EXCEPT ![Proc(c)] = "put"]
        /\ UNCHANGED <<conns, record, fields, asked, read, arrived, history, target, after>>
    BY <1>0, <1>d, ActorFacts DEF Add, history, TypeOK
  <2>1. TypeOK'
    BY <1>0, <2>f DEF fields, arrived, history, TypeOK
  <2>2. ClosingOK'
    BY <1>0, <2>f, ActorFacts DEF fields, ClosingOK
  <2>3. \A d \in Conns \ {c} : InHello(d)' = InHello(d) /\ Saying(d)' = Saying(d) /\ pc'[Proc(d)] = pc[Proc(d)]
    BY <2>f, ActorFacts DEF InHello, Saying
  <2>4. InHello(c) /\ Saying(c) /\ pc'[Proc(c)] \notin Closing
    BY <1>m, <2>f, ClosingFacts DEF InHello, Saying
  <2>5. \A a \in Actors : pc'[a] \in Closing => pc'[a] = pc[a]
    BY <2>f, <2>4
  <2>6. HelloOK'
    BY <1>0, <1>m, <2>f, <2>3, <2>4, <2>5 DEF fields, history, HelloOK
  <2>7. RecordHeld'
    <3>1. ASSUME NEW d \in Conns, WillMark(d)
          PROVE  WillMark(d)'
      BY <1>m, <2>f, <3>1 DEF WillMark
    <3> QED
      BY <1>0, <2>f, <3>1 DEF fields, history, RecordHeld
  <2>8. CachedHeld'
    <3>1. ASSUME NEW d \in Conns, NEW i \in Ids, WillRemove(d, i)
          PROVE  WillRemove(d, i)'
      BY <1>m, <2>f, <3>1 DEF fields, WillRemove
    <3> QED
      BY <1>0, <2>f, <3>1 DEF fields, history, CachedHeld
  <2>9. NewestHeld'
    BY <1>0, <1>m, <2>f DEF fields, history, NewestHeld
  <2> QED
    BY <2>1, <2>2, <2>6, <2>7, <2>8, <2>9 DEF IInv
<1> QED
  BY <1>c, <1>d

(* The other callers of close.                                              *)
(* A worker goes from one packet to the answer, or to the next one.          *)
LEMMA BetweenStep ==
  ASSUME IInv, NEW c \in Conns, NEW l \in {"reply", "idle"}, Goto(Proc(c), l),
         pc[Proc(c)] \in {"reply", "idle"},
         inbox' \in [Conns -> SUBSET (Ids \cup {Bye})],
         UNCHANGED <<conns, record, fields, asked, read, packets, history, target, after>>
  PROVE  IInv'
<1>0. TypeOK /\ ClosingOK /\ HelloOK /\ RecordHeld /\ CachedHeld /\ NewestHeld
  BY DEF IInv
<1>f. /\ pc'[Proc(c)] = l
      /\ \A a \in Actors \ {Proc(c)} : pc'[a] = pc[a]
      /\ pc' = [pc EXCEPT ![Proc(c)] = l]
      /\ UNCHANGED <<conns, record, fields, asked, read, history, target, after>>
  BY <1>0, ActorFacts DEF Goto, history, TypeOK
<1>1. TypeOK'
  BY <1>0, <1>f DEF fields, history, TypeOK
<1>2. ClosingOK'
  BY <1>0, <1>f, ClosingFacts, ActorFacts DEF fields, ClosingOK
<1>3. \A d \in Conns : pc'[Proc(d)] = pc[Proc(d)] \/ (pc[Proc(d)] \in {"reply", "idle"} /\ pc'[Proc(d)] \in {"reply", "idle"})
  BY <1>f
<1>4. \A d \in Conns : (InHello(d)' => InHello(d)) /\ (Saying(d)' => Saying(d))
  BY <1>3, <1>f, ClosingFacts DEF InHello, Saying
<1>5. \A a \in Actors : pc'[a] \in Closing => pc'[a] = pc[a]
  BY <1>f, ClosingFacts
<1>6. HelloOK'
  BY <1>0, <1>f, <1>3, <1>4, <1>5, ClosingFacts DEF fields, history, HelloOK
<1>7. RecordHeld'
  <2>1. ASSUME NEW d \in Conns, WillMark(d)
        PROVE  WillMark(d)'
    BY <1>f, <2>1 DEF WillMark
  <2> QED
    BY <1>0, <1>f, <2>1 DEF fields, history, RecordHeld
<1>8. CachedHeld'
  <2>1. ASSUME NEW d \in Conns, NEW i \in Ids, WillRemove(d, i)
        PROVE  WillRemove(d, i)'
    BY <1>f, <2>1 DEF fields, WillRemove
  <2> QED
    BY <1>0, <1>f, <2>1 DEF fields, history, CachedHeld
<1>9. NewestHeld'
  BY <1>0, <1>f DEF fields, history, NewestHeld
<1> QED
  BY <1>1, <1>2, <1>6, <1>7, <1>8, <1>9 DEF IInv

LEMMA ReplyStep ==
  ASSUME IInv, NEW c \in Conns, Reply(c)
  PROVE  IInv'
<1>0. TypeOK /\ ClosingOK /\ HelloOK /\ RecordHeld /\ CachedHeld /\ NewestHeld
  BY DEF IInv
<1>1. inbox' \in [Conns -> SUBSET (Ids \cup {Bye})] /\ UNCHANGED packets
  BY <1>0 DEF Reply, arrived, TypeOK
<1>2. CASE CallClose(Proc(c), c, "idle")
  BY <1>0, <1>1, <1>2, ActorFacts, CallCloseStep DEF Reply
<1>3. CASE Goto(Proc(c), "idle") /\ UNCHANGED <<target, after, loose>>
  BY <1>1, <1>3, BetweenStep DEF Reply, history
<1> QED
  BY <1>2, <1>3 DEF Reply

LEMMA ByeArrivesStep ==
  ASSUME IInv, NEW c \in Conns, ByeArrives(c)
  PROVE  IInv'
<1>0. TypeOK /\ ClosingOK /\ HelloOK /\ RecordHeld /\ CachedHeld /\ NewestHeld
  BY DEF IInv
<1>1. inbox' \in [Conns -> SUBSET (Ids \cup {Bye})] /\ UNCHANGED packets
  BY <1>0 DEF ByeArrives, Process, TypeOK
<1>2. CASE CallClose(Proc(c), c, "idle")
  BY <1>0, <1>1, <1>2, ActorFacts, CallCloseStep DEF ByeArrives, Process
<1>3. CASE Goto(Proc(c), "reply") /\ UNCHANGED <<target, after, loose>>
  BY <1>1, <1>3, BetweenStep DEF ByeArrives, Process, history
<1> QED
  BY <1>2, <1>3 DEF ByeArrives

LEMMA SessionClosedStep ==
  ASSUME IInv, NEW c \in Conns, SessionClosed(c)
  PROVE  IInv'
<1>0. TypeOK /\ ClosingOK /\ HelloOK /\ RecordHeld /\ CachedHeld /\ NewestHeld
  BY DEF IInv
<1>1. inbox' \in [Conns -> SUBSET (Ids \cup {Bye})] /\ UNCHANGED packets
  BY <1>0 DEF SessionClosed, arrived, TypeOK
<1>2. CASE CallClose(Io(c), c, "ended")
  BY <1>0, <1>1, <1>2, ActorFacts, CallCloseStep DEF SessionClosed
<1>3. CASE Goto(Io(c), "ended") /\ UNCHANGED <<target, after, loose>>
  <2>f. /\ pc'[Io(c)] = "ended" /\ pc[Io(c)] \in {"reply", "idle"}
        /\ \A a \in Actors \ {Io(c)} : pc'[a] = pc[a]
        /\ pc' = [pc EXCEPT ![Io(c)] = "ended"]
        /\ UNCHANGED <<conns, record, fields, asked, read, history, target, after>>
    BY <1>0, <1>3, ActorFacts DEF SessionClosed, history, TypeOK
  <2>1. TypeOK'
    BY <1>0, <1>1, <2>f DEF fields, history, TypeOK
  <2>2. ClosingOK'
    BY <1>0, <2>f DEF fields, ClosingOK
  <2>3. \A d \in Conns : pc'[Proc(d)] = pc[Proc(d)] \/ (pc[Proc(d)] \in {"reply", "idle"} /\ pc'[Proc(d)] = "ended")
    BY <2>f
  <2>4. \A d \in Conns : (InHello(d)' => InHello(d)) /\ (Saying(d)' => Saying(d))
    BY <2>3, <2>f, ClosingFacts DEF InHello, Saying
  <2>5. \A a \in Actors : pc'[a] \in Closing => pc'[a] = pc[a]
    BY <2>f, ClosingFacts
  <2>6. HelloOK'
    BY <1>0, <2>f, <2>3, <2>4, <2>5, ClosingFacts DEF fields, history, HelloOK
  <2>7. RecordHeld'
    <3>1. ASSUME NEW d \in Conns, WillMark(d)
          PROVE  WillMark(d)'
      BY <2>f, <3>1 DEF WillMark
    <3> QED
      BY <1>0, <2>f, <3>1 DEF fields, history, RecordHeld
  <2>8. CachedHeld'
    <3>1. ASSUME NEW d \in Conns, NEW i \in Ids, WillRemove(d, i)
          PROVE  WillRemove(d, i)'
      BY <2>f, <3>1 DEF fields, WillRemove
    <3> QED
      BY <1>0, <2>f, <3>1 DEF fields, history, CachedHeld
  <2>9. NewestHeld'
    BY <1>0, <2>f DEF fields, history, NewestHeld
  <2> QED
    BY <2>1, <2>2, <2>6, <2>7, <2>8, <2>9 DEF IInv
<1> QED
  BY <1>2, <1>3 DEF SessionClosed

LEMMA SendFailsStep ==
  ASSUME IInv, NEW c \in Conns, SendFails(c)
  PROVE  IInv'
<1>0. TypeOK /\ ClosingOK /\ HelloOK /\ RecordHeld /\ CachedHeld /\ NewestHeld
  BY DEF IInv
<1>1. inbox' \in [Conns -> SUBSET (Ids \cup {Bye})] /\ UNCHANGED packets
  BY <1>0 DEF SendFails, arrived, TypeOK
<1>2. CASE CallClose(Sender(c), c, "idle")
  BY <1>0, <1>1, <1>2, ActorFacts, CallCloseStep DEF SendFails
<1> QED
  BY <1>2 DEF SendFails

-----------------------------------------------------------------------------
(* What the steps of close have in common: thread a goes on within close,   *)
(* or returns from it, and at most the connection it closes changes.        *)
Moved(a) ==
  /\ pc[a] \in Closing
  /\ \/ pc'[a] \in Closing /\ target'[a] = target[a] /\ after'[a] = after[a]
     \/ pc'[a] \in {"idle", "put", "ended", "reply"} /\ after'[a] = "idle"
        /\ (pc'[a] = after[a] \/ (after[a] = "put" /\ pc'[a] = "reply"))
  /\ pc' = [pc EXCEPT ![a] = pc'[a]] /\ target' = [target EXCEPT ![a] = target'[a]]
  /\ after' = [after EXCEPT ![a] = after'[a]] /\ target'[a] \in Conns
  /\ \A b \in Actors \ {a} : pc'[b] = pc[b] /\ target'[b] = target[b] /\ after'[b] = after[b] /\ read'[b] = read[b]
  /\ UNCHANGED <<id, valid, asked, last, crossed, loose, inbox, packets>>
  /\ \A c \in Conns \ {target[a]} : session'[c] = session[c] /\ clientid'[c] = clientid[c]
  /\ session'[target[a]] => session[target[a]]
  /\ clientid'[target[a]] \in {clientid[target[a]], Null}

(* These parts of the invariant hold after every step of close.             *)
LEMMA MovedClosingOK ==
  ASSUME TypeOK, ClosingOK, NEW a \in Actors, Moved(a),
         pc'[a] \in {"owner", "mark", "forget", "find", "remove"} => ~session'[target[a]],
         pc'[a] = "remove" => read'[a] \in Ids
  PROVE  ClosingOK'
<1>1. \A c \in Conns : session'[c] => session[c]
  BY DEF Moved, TypeOK
<1> SUFFICES ASSUME NEW b \in Actors
             PROVE  /\ b[1] # "proc" => pc'[b] \in {"idle", "ended"} \cup Closing /\ after'[b] # "put"
                    /\ pc'[b] \in {"owner", "mark", "forget", "find", "remove"} => ~session'[target'[b]]
                    /\ pc'[b] = "remove" => read'[b] \in Ids
  BY DEF ClosingOK
<1>2. CASE b # a
  <2>1. /\ pc'[b] = pc[b] /\ target'[b] = target[b] /\ after'[b] = after[b] /\ read'[b] = read[b]
        /\ target[b] \in Conns
    BY <1>2 DEF Moved, TypeOK
  <2> QED
    BY <1>1, <2>1 DEF ClosingOK
<1>3. CASE b = a
  <2>1. after[a] \in {"idle", "put", "ended"} /\ (a[1] # "proc" => after[a] # "put")
    BY DEF ClosingOK, TypeOK
  <2>2. \/ pc'[a] \in Closing /\ target'[a] = target[a] /\ after'[a] = after[a]
        \/ pc'[a] \in {"idle", "put", "ended", "reply"} /\ after'[a] = "idle"
           /\ (pc'[a] = after[a] \/ (after[a] = "put" /\ pc'[a] = "reply"))
    BY DEF Moved
  <2> QED
    BY <1>3, <2>1, <2>2
<1> QED
  BY <1>2, <1>3

LEMMA MovedHelloOK ==
  ASSUME TypeOK, ClosingOK, HelloOK, NEW a \in Actors, Moved(a)
  PROVE  HelloOK'
<1> SUFFICES ASSUME NEW c \in Conns
             PROVE  /\ InHello(c)' =>
                         /\ asked[c] \in Ids
                         /\ \A b \in Actors : b # Proc(c) /\ pc'[b] \in Closing /\ target'[b] = c => asked[c] \in loose[c]
                    /\ Saying(c)' => (session'[c] /\ clientid'[c] = asked[c]) \/ asked[c] \in loose[c]
                    /\ pc'[Proc(c)] \in {"add", "put"} => id[c] = asked[c]
                    /\ pc'[Proc(c)] \in Closing /\ after'[Proc(c)] = "put" => id[c] = asked[c] /\ target'[Proc(c)] # c
                    /\ pc'[Proc(c)] = "login" => read'[Proc(c)] \in {Null, asked[c]} \cup loose[c]
                    /\ clientid'[c] \in {Null, asked[c]} \cup loose[c]
                    /\ id[c] \in {Null, asked[c]} \cup loose[c]
  BY DEF HelloOK, Moved
<1>1. /\ InHello(c)' => InHello(c)
      /\ Saying(c)' => Saying(c)
      /\ Proc(c) = a => (Saying(c)' => after[a] = "put")
  <2>1. CASE Proc(c) = a
    BY <2>1, ClosingFacts DEF InHello, Saying, Moved
  <2>2. CASE Proc(c) # a
    BY <2>2, ActorFacts DEF InHello, Saying, Moved
  <2> QED
    BY <2>1, <2>2
<1>2. \A b \in Actors : pc'[b] \in Closing => pc[b] \in Closing /\ target'[b] = target[b] /\ after'[b] = after[b]
  BY ClosingFacts DEF Moved
<1>3. InHello(c)' => /\ asked[c] \in Ids
                     /\ \A b \in Actors : b # Proc(c) /\ pc'[b] \in Closing /\ target'[b] = c => asked[c] \in loose[c]
  BY <1>1, <1>2 DEF HelloOK
<1>4. Saying(c)' => (session'[c] /\ clientid'[c] = asked[c]) \/ asked[c] \in loose[c]
  <2>1. CASE c # target[a]
    BY <1>1, <2>1 DEF HelloOK, Moved
  <2>2. CASE c = target[a] /\ a # Proc(c)
    BY <1>1, <2>2 DEF HelloOK, Moved, Saying, InHello
  <2>3. CASE c = target[a] /\ a = Proc(c)
    BY <1>1, <2>3 DEF HelloOK, Moved
  <2> QED
    BY <2>1, <2>2, <2>3
<1>5. pc'[Proc(c)] \in {"add", "put"} => id[c] = asked[c]
  <2>1. CASE Proc(c) = a
    BY <2>1, ClosingFacts DEF HelloOK, Moved
  <2>2. CASE Proc(c) # a
    BY <2>2, ActorFacts DEF HelloOK, Moved
  <2> QED
    BY <2>1, <2>2
<1>6. pc'[Proc(c)] \in Closing /\ after'[Proc(c)] = "put" => id[c] = asked[c] /\ target'[Proc(c)] # c
  BY <1>2, ActorFacts DEF HelloOK
<1>7. pc'[Proc(c)] = "login" => read'[Proc(c)] \in {Null, asked[c]} \cup loose[c]
  BY ActorFacts, ClosingFacts DEF HelloOK, Moved
<1>8. clientid'[c] \in {Null, asked[c]} \cup loose[c] /\ id[c] \in {Null, asked[c]} \cup loose[c]
  BY DEF HelloOK, Moved
<1> QED
  BY <1>3, <1>4, <1>5, <1>6, <1>7, <1>8

LEMMA MovedTypeOK ==
  ASSUME TypeOK, NEW a \in Actors, Moved(a),
         conns' \in [Ids -> Conns \cup {Null}], record' \in [Ids -> {"connected", "disconnected"}],
         session' \in [Conns -> BOOLEAN], wire' \in [Conns -> BOOLEAN], attr' \in [Conns -> BOOLEAN],
         clientid' \in [Conns -> Ids \cup {Null}], read' \in [Actors -> Ids \cup {Null}]
  PROVE  TypeOK'
<1>1. /\ pc'[a] \in {"idle", "put", "ended", "reply"} \cup Closing
      /\ after'[a] \in {"idle", "put", "ended"} /\ target'[a] \in Conns
  BY DEF Moved, TypeOK
<1>2. /\ pc' = [pc EXCEPT ![a] = pc'[a]] /\ target' = [target EXCEPT ![a] = target'[a]]
      /\ after' = [after EXCEPT ![a] = after'[a]]
      /\ UNCHANGED <<id, valid, asked, last, crossed, loose, inbox, packets>>
  BY DEF Moved
<1>3. pc' \in [Actors -> {"idle", "load", "validate", "login", "bind", "add", "put", "reply", "ended"}
                        \cup Closing]
  <2> DEFINE L == {"idle", "load", "validate", "login", "bind", "add", "put", "reply", "ended"} \cup Closing
  <2>1. pc \in [Actors -> L] /\ pc'[a] \in L
    BY <1>1 DEF TypeOK
  <2> HIDE DEF L
  <2>2. pc' \in [Actors -> L]
    BY <1>2, <2>1
  <2> QED
    BY <2>2 DEF L
<1>4. target' \in [Actors -> Conns] /\ after' \in [Actors -> {"idle", "put", "ended"}]
  BY <1>1, <1>2 DEF TypeOK
<1> QED
  BY <1>2, <1>3, <1>4 DEF TypeOK

(* The steps of close, one by one: what holds the record, and what holds    *)
(* the entry, passes from one label to the next.                            *)
LEMMA CloseTestStep ==
  ASSUME IInv, NEW a \in Actors, CloseTest(a)
  PROVE  IInv'
<1>0. TypeOK /\ ClosingOK /\ HelloOK /\ RecordHeld /\ CachedHeld /\ NewestHeld
  BY DEF IInv
<1>m. Moved(a)
  BY <1>0, ClosingFacts DEF CloseTest, Stay, Moved, fields, arrived, history, TypeOK
<1>f. /\ pc[a] = "close" /\ target'[a] = target[a] /\ pc'[a] = (IF session[target[a]] THEN "drop" ELSE "owner")
      /\ \A b \in Actors \ {a} : pc'[b] = pc[b] /\ target'[b] = target[b]
      /\ UNCHANGED <<conns, record, session, clientid, id, read, loose>>
  BY <1>0, <1>m DEF CloseTest, Stay, Moved, fields, arrived, history, TypeOK, ClosingOK
<1>1. TypeOK'
  <2>1. target[a] \in Conns
    BY <1>0 DEF TypeOK
  <2> QED
    BY <1>0, <1>m, <2>1, MovedTypeOK DEF CloseTest, fields, TypeOK
<1>2. ClosingOK'
  BY <1>0, <1>m, MovedClosingOK DEF CloseTest, Stay, fields, ClosingOK, TypeOK
<1>3. HelloOK'
  BY <1>0, <1>m, MovedHelloOK
<1>4. RecordHeld'
  <2>1. ASSUME NEW c \in Conns, WillMark(c), ~session[c]
        PROVE  WillMark(c)'
    BY <1>f, <2>1 DEF WillMark
  <2> QED
    BY <1>0, <1>f, <2>1 DEF RecordHeld
<1>5. CachedHeld'
  <2>1. ASSUME NEW c \in Conns, NEW i \in Ids, WillRemove(c, i)
        PROVE  (session[c] /\ clientid[c] # Null) \/ WillRemove(c, i)'
    BY <1>f, <2>1 DEF WillRemove
  <2> QED
    BY <1>0, <1>f, <2>1 DEF CachedHeld
<1>6. NewestHeld'
  BY <1>0, <1>m DEF CloseTest, Stay, Moved, fields, arrived, history, NewestHeld, TypeOK
<1> QED
  BY <1>1, <1>2, <1>3, <1>4, <1>5, <1>6 DEF IInv

LEMMA CloseDropStep ==
  ASSUME IInv, NEW a \in Actors, CloseDrop(a)
  PROVE  IInv'
<1>0. TypeOK /\ ClosingOK /\ HelloOK /\ RecordHeld /\ CachedHeld /\ NewestHeld
  BY DEF IInv
<1>m. Moved(a)
  BY <1>0, ActorFacts, ClosingFacts DEF CloseDrop, Stay, Leave, Throw, Moved, arrived, history,
     TypeOK
<1>f. /\ pc[a] = "drop" /\ target[a] \in Conns
      /\ \A b \in Actors \ {a} : pc'[b] = pc[b] /\ target'[b] = target[b]
      /\ session[target[a]] => ~session'[target[a]] /\ pc'[a] = "owner" /\ target'[a] = target[a]
      /\ ~session[target[a]] => pc'[a] \notin Closing
      /\ \A c \in Conns : (session'[c] => session[c]) /\ (c # target[a] => session'[c] = session[c])
      /\ UNCHANGED <<conns, record, clientid, id, read, loose, last, crossed>>
  BY <1>0, <1>m, ClosingFacts DEF CloseDrop, Stay, Leave, Throw, Moved, arrived, history,
     TypeOK, ClosingOK
<1>1. TypeOK'
  <2>1. target[a] \in Conns
    BY <1>0 DEF TypeOK
  <2> QED
    BY <1>0, <1>m, <2>1, MovedTypeOK DEF CloseDrop, TypeOK
<1>2. ClosingOK'
  BY <1>0, <1>m, MovedClosingOK DEF CloseDrop, Stay, Leave, Throw, ClosingOK, TypeOK
<1>3. HelloOK'
  BY <1>0, <1>m, MovedHelloOK
<1>4. RecordHeld'
  <2>1. ASSUME NEW c \in Conns, WillMark(c)
        PROVE  WillMark(c)'
    BY <1>f, <2>1, ClosingFacts DEF WillMark
  <2>2. ASSUME session[target[a]]
        PROVE  WillMark(target[a])'
    BY <1>0, <1>f, <2>2 DEF WillMark, ClosingOK
  <2>3. ASSUME NEW c \in Conns, session[c] \/ WillMark(c)
        PROVE  session'[c] \/ WillMark(c)'
    BY <1>f, <2>1, <2>2, <2>3
  <2> QED
    BY <1>0, <1>f, <2>3 DEF RecordHeld
<1>5. CachedHeld'
  <2>1. ASSUME NEW c \in Conns, NEW i \in Ids, WillRemove(c, i)
        PROVE  WillRemove(c, i)'
    BY <1>f, <2>1 DEF WillRemove
  <2>2. ASSUME NEW i \in Ids, session[target[a]], clientid[target[a]] # Null
        PROVE  WillRemove(target[a], i)'
    BY <1>f, <2>2 DEF WillRemove
  <2>3. ASSUME NEW c \in Conns, NEW i \in Ids, session[c] /\ clientid[c] # Null
        PROVE  (session'[c] /\ clientid[c] # Null) \/ WillRemove(c, i)'
    BY <1>f, <2>2, <2>3
  <2> QED
    BY <1>0, <1>f, <2>1, <2>3 DEF CachedHeld
<1>6. NewestHeld'
  <2>1. \A i \in Ids : last[i] \in Conns \cup {Null}
    BY <1>0 DEF TypeOK
  <2>2. \A b \in Actors : pc'[b] = "remove" => pc[b] = "remove" /\ target'[b] = target[b]
    BY <1>f, ClosingFacts
  <2> QED
    BY <1>0, <1>f, <2>1, <2>2 DEF NewestHeld
<1> QED
  BY <1>1, <1>2, <1>3, <1>4, <1>5, <1>6 DEF IInv

LEMMA CloseOwnerStep ==
  ASSUME IInv, NEW a \in Actors, CloseOwner(a)
  PROVE  IInv'
<1>0. TypeOK /\ ClosingOK /\ HelloOK /\ RecordHeld /\ CachedHeld /\ NewestHeld
  BY DEF IInv
<1>m. Moved(a)
  BY <1>0, ActorFacts, ClosingFacts DEF CloseOwner, Stay, Leave, Return, Moved, fields,
     arrived, history, TypeOK
<1>1. TypeOK'
  <2>1. target[a] \in Conns
    BY <1>0 DEF TypeOK
  <2> QED
    BY <1>0, <1>m, <2>1, MovedTypeOK DEF CloseOwner, fields, TypeOK
<1>2. ClosingOK'
  BY <1>0, <1>m, MovedClosingOK DEF CloseOwner, Stay, Leave, Return, fields, ClosingOK, TypeOK
<1>3. HelloOK'
  BY <1>0, <1>m, MovedHelloOK
<1>4. RecordHeld'
  <2>1. ASSUME NEW c \in Conns, WillMark(c), clientid[c] # Null
        PROVE  WillMark(c)'
    BY <1>0, <1>m, <2>1 DEF CloseOwner, Stay, Leave, Return, Moved, fields, arrived, history,
       WillMark, TypeOK
  <2> QED
    BY <1>0, <1>m, <2>1, NullAssumption DEF CloseOwner, Stay, Leave, Return, Moved, fields,
       arrived, history, RecordHeld, TypeOK
<1>5. CachedHeld'
  <2>1. ASSUME NEW c \in Conns, NEW i \in Ids, WillRemove(c, i)
        PROVE  WillRemove(c, i)'
    BY <1>0, <1>m, <2>1 DEF CloseOwner, Stay, Leave, Return, Moved, fields, arrived, history,
       WillRemove, TypeOK
  <2> QED
    BY <1>0, <1>m, <2>1 DEF CloseOwner, Stay, Leave, Return, Moved, fields, arrived, history,
       CachedHeld
<1>6. NewestHeld'
  BY <1>0, <1>m DEF CloseOwner, Stay, Leave, Return, Moved, fields, arrived, history,
     NewestHeld, TypeOK
<1> QED
  BY <1>1, <1>2, <1>3, <1>4, <1>5, <1>6 DEF IInv

LEMMA CloseMarkStep ==
  ASSUME IInv, NEW a \in Actors, CloseMark(a)
  PROVE  IInv'
<1>0. TypeOK /\ ClosingOK /\ HelloOK /\ RecordHeld /\ CachedHeld /\ NewestHeld
  BY DEF IInv
<1>m. Moved(a)
  BY <1>0, ClosingFacts DEF CloseMark, Stay, Moved, fields, arrived, history, TypeOK
<1>1. TypeOK'
  <2>1. target[a] \in Conns
    BY <1>0 DEF TypeOK
  <2> QED
    BY <1>0, <1>m, <2>1, MovedTypeOK DEF CloseMark, fields, TypeOK
<1>2. ClosingOK'
  BY <1>0, <1>m, MovedClosingOK DEF CloseMark, Stay, fields, ClosingOK, TypeOK
<1>3. HelloOK'
  BY <1>0, <1>m, MovedHelloOK
<1>4. RecordHeld'
  <2>0. /\ pc[a] = "mark" /\ target[a] \in Conns /\ pc'[a] = "forget" /\ target'[a] = target[a]
        /\ \A b \in Actors \ {a} : pc'[b] = pc[b] /\ target'[b] = target[b]
        /\ \A i \in Ids : record'[i] = "connected" => record[i] = "connected" /\ i # clientid[target[a]]
        /\ UNCHANGED <<session, clientid, loose>>
    BY <1>0, <1>m DEF CloseMark, Stay, Moved, fields, arrived, history, TypeOK, ClosingOK
  <2>1. ASSUME NEW c \in Conns, c # target[a], WillMark(c)
        PROVE  WillMark(c)'
    BY <2>0, <2>1 DEF WillMark
  <2> QED
    BY <1>0, <2>0, <2>1 DEF RecordHeld
<1>5. CachedHeld'
  <2>1. ASSUME NEW c \in Conns, NEW i \in Ids, WillRemove(c, i)
        PROVE  WillRemove(c, i)'
    BY <1>0, <1>m, <2>1 DEF CloseMark, Stay, Moved, fields, arrived, history, WillRemove, TypeOK
  <2> QED
    BY <1>0, <1>m, <2>1 DEF CloseMark, Stay, Moved, fields, arrived, history, CachedHeld
<1>6. NewestHeld'
  BY <1>0, <1>m DEF CloseMark, Stay, Moved, fields, arrived, history, NewestHeld, TypeOK
<1> QED
  BY <1>1, <1>2, <1>3, <1>4, <1>5, <1>6 DEF IInv

LEMMA CloseForgetStep ==
  ASSUME IInv, NEW a \in Actors, CloseForget(a)
  PROVE  IInv'
<1>0. TypeOK /\ ClosingOK /\ HelloOK /\ RecordHeld /\ CachedHeld /\ NewestHeld
  BY DEF IInv
<1>m. Moved(a)
  BY <1>0, ClosingFacts DEF CloseForget, Stay, Moved, arrived, history, TypeOK
<1>f. /\ pc[a] = "forget" /\ target[a] \in Conns /\ pc'[a] = "find" /\ target'[a] = target[a]
      /\ ~session[target[a]]
      /\ \A b \in Actors \ {a} : pc'[b] = pc[b] /\ target'[b] = target[b]
      /\ \A c \in Conns : c # target[a] => clientid'[c] = clientid[c]
      /\ UNCHANGED <<conns, record, session, id, read, loose>>
  BY <1>0, <1>m DEF CloseForget, Stay, Moved, arrived, history, TypeOK, ClosingOK
<1>1. TypeOK'
  <2>1. target[a] \in Conns
    BY <1>0 DEF TypeOK
  <2> QED
    BY <1>0, <1>m, <2>1, MovedTypeOK DEF CloseForget, TypeOK
<1>2. ClosingOK'
  BY <1>0, <1>m, MovedClosingOK DEF CloseForget, Stay, ClosingOK, TypeOK
<1>3. HelloOK'
  BY <1>0, <1>m, MovedHelloOK
<1>4. RecordHeld'
  <2>1. ASSUME NEW c \in Conns, WillMark(c)
        PROVE  c # target[a] /\ WillMark(c)'
    BY <1>f, <2>1 DEF WillMark
  <2>2. ASSUME NEW c \in Conns, session[c] \/ WillMark(c)
        PROVE  c # target[a] /\ (session[c] \/ WillMark(c)')
    BY <1>f, <2>1, <2>2
  <2> QED
    BY <1>0, <1>f, <2>2 DEF RecordHeld
<1>5. CachedHeld'
  <2>1. ASSUME NEW c \in Conns, NEW i \in Ids, (session[c] /\ clientid[c] # Null) \/ WillRemove(c, i)
        PROVE  (session[c] /\ clientid'[c] # Null) \/ WillRemove(c, i)'
    <3>1. CASE c = target[a]
      BY <1>f, <3>1 DEF WillRemove
    <3>2. CASE c # target[a]
      BY <1>f, <2>1, <3>2 DEF WillRemove
    <3> QED
      BY <3>1, <3>2
  <2> QED
    BY <1>0, <1>f, <2>1 DEF CachedHeld
<1>6. NewestHeld'
  BY <1>0, <1>m DEF CloseForget, Stay, Moved, arrived, history, NewestHeld, TypeOK
<1> QED
  BY <1>1, <1>2, <1>3, <1>4, <1>5, <1>6 DEF IInv

LEMMA RemoveFindStep ==
  ASSUME IInv, NEW a \in Actors, RemoveFind(a)
  PROVE  IInv'
<1>0. TypeOK /\ ClosingOK /\ HelloOK /\ RecordHeld /\ CachedHeld /\ NewestHeld
  BY DEF IInv
<1>m. Moved(a)
  BY <1>0, ActorFacts, ClosingFacts DEF RemoveFind, Stay, Leave, Return, Moved, fields,
     arrived, history, TypeOK
<1>1. TypeOK'
  <2>1. target[a] \in Conns
    BY <1>0 DEF TypeOK
  <2> QED
    BY <1>0, <1>m, <2>1, MovedTypeOK DEF RemoveFind, fields, TypeOK
<1>2. ClosingOK'
  BY <1>0, <1>m, MovedClosingOK DEF RemoveFind, Stay, Leave, Return, fields, ClosingOK, TypeOK
<1>3. HelloOK'
  BY <1>0, <1>m, MovedHelloOK
<1>4. RecordHeld'
  <2>1. ASSUME NEW c \in Conns, WillMark(c), clientid[c] # Null
        PROVE  WillMark(c)'
    BY <1>0, <1>m, <2>1 DEF RemoveFind, Stay, Leave, Return, Moved, fields, arrived, history,
       WillMark, TypeOK
  <2> QED
    BY <1>0, <1>m, <2>1, NullAssumption DEF RemoveFind, Stay, Leave, Return, Moved, fields,
       arrived, history, RecordHeld, TypeOK
<1>5. CachedHeld'
  <2>0. /\ pc[a] = "find" /\ target[a] \in Conns
        /\ \/ pc'[a] = "remove" /\ target'[a] = target[a] /\ read'[a] = id[target[a]]
           \/ pc'[a] \notin Closing /\ (id[target[a]] = Null \/ conns[id[target[a]]] # target[a])
        /\ \A b \in Actors \ {a} : pc'[b] = pc[b] /\ target'[b] = target[b] /\ read'[b] = read[b]
        /\ UNCHANGED <<conns, session, clientid, id, loose>>
    BY <1>0, <1>m, ClosingFacts DEF RemoveFind, Stay, Leave, Return, Moved, fields, arrived,
       history, TypeOK, ClosingOK
  <2>1. ASSUME NEW c \in Conns, NEW i \in Ids, WillRemove(c, i), id[c] = i, conns[i] = c
        PROVE  WillRemove(c, i)'
    BY <2>0, <2>1, NullAssumption DEF WillRemove
  <2> QED
    BY <1>0, <2>0, <2>1 DEF CachedHeld
<1>6. NewestHeld'
  BY <1>0, <1>m DEF RemoveFind, Stay, Leave, Return, Moved, fields, arrived, history,
     NewestHeld, TypeOK
<1> QED
  BY <1>1, <1>2, <1>3, <1>4, <1>5, <1>6 DEF IInv

LEMMA RemoveDoStep ==
  ASSUME IInv, NEW a \in Actors, RemoveDo(a)
  PROVE  IInv'
<1>0. TypeOK /\ ClosingOK /\ HelloOK /\ RecordHeld /\ CachedHeld /\ NewestHeld
  BY DEF IInv
<1>m. Moved(a)
  BY <1>0, ActorFacts, ClosingFacts DEF RemoveDo, Leave, Return, Moved, fields, arrived,
     history, TypeOK
<1>f. /\ pc[a] = "remove" /\ target[a] \in Conns /\ read[a] \in Ids /\ ~session[target[a]]
      /\ pc'[a] \notin Closing
      /\ \A b \in Actors \ {a} : pc'[b] = pc[b] /\ target'[b] = target[b] /\ read'[b] = read[b]
      /\ conns'[read[a]] = Null /\ \A i \in Ids : i # read[a] => conns'[i] = conns[i]
      /\ UNCHANGED <<session, clientid, id, loose, last, crossed>>
  BY <1>0, <1>m, ClosingFacts DEF RemoveDo, Leave, Return, Moved, fields, arrived, history,
     TypeOK, ClosingOK
<1>1. TypeOK'
  <2>1. target[a] \in Conns
    BY <1>0 DEF TypeOK
  <2> QED
    BY <1>0, <1>m, <2>1, MovedTypeOK DEF RemoveDo, fields, TypeOK
<1>2. ClosingOK'
  BY <1>0, <1>m, MovedClosingOK DEF RemoveDo, Leave, Return, fields, ClosingOK, TypeOK
<1>3. HelloOK'
  BY <1>0, <1>m, MovedHelloOK
<1>4. RecordHeld'
  <2>1. ASSUME NEW c \in Conns, WillMark(c), clientid[c] # Null
        PROVE  WillMark(c)'
    BY <1>0, <1>m, <2>1 DEF RemoveDo, Leave, Return, Moved, fields, arrived, history, WillMark,
       TypeOK
  <2> QED
    BY <1>0, <1>m, <2>1, NullAssumption DEF RemoveDo, Leave, Return, Moved, fields, arrived,
       history, RecordHeld, TypeOK
<1>5. CachedHeld'
  <2>1. ASSUME NEW c \in Conns, NEW i \in Ids, WillRemove(c, i), i # read[a]
        PROVE  WillRemove(c, i)'
    BY <1>f, <2>1 DEF WillRemove
  <2> QED
    BY <1>0, <1>f, <2>1, NullAssumption DEF CachedHeld
<1>6. NewestHeld'
  <2>1. \A b \in Actors : pc'[b] = "remove" => pc[b] = "remove" /\ target'[b] = target[b] /\ read'[b] = read[b]
    BY <1>f, ClosingFacts
  <2>2. ~crossed[read[a]] => ~(last[read[a]] # Null /\ session[last[read[a]]])
    BY <1>0, <1>f DEF NewestHeld
  <2> QED
    BY <1>0, <1>f, <2>1, <2>2 DEF NewestHeld
<1> QED
  BY <1>1, <1>2, <1>3, <1>4, <1>5, <1>6 DEF IInv

-----------------------------------------------------------------------------
(* Every step keeps the invariant.                                          *)
LEMMA IInvStep == IInv /\ [Next]_vars => IInv'
<1> SUFFICES ASSUME IInv, [Next]_vars PROVE IInv'
  OBVIOUS
<1>1. CASE UNCHANGED vars
  BY <1>1 DEF vars, fields, history, calls, arrived, IInv, TypeOK, ClosingOK, HelloOK, InHello,
     Saying,
              RecordHeld, WillMark, CachedHeld, WillRemove, NewestHeld
<1>2. ASSUME NEW c \in Conns, Arrive(c) PROVE IInv'
  BY <1>2, ReceiveStep, DisconnectStep DEF Arrive
<1>3. ASSUME NEW c \in Conns, Begin(c) PROVE IInv'
  BY <1>3, HelloStep, ByeArrivesStep DEF Begin
<1>4. ASSUME NEW c \in Conns, Work(c) PROVE IInv'
  BY <1>4, LoadStep, ValidateNoStep, ValidateYesStep, LoginStep, BindStep, AddStep, PutStep,
     ReplyStep DEF Work
<1>5. ASSUME NEW a \in Actors, Close(a) PROVE IInv'
  BY <1>5, CloseTestStep, CloseDropStep, CloseOwnerStep, CloseMarkStep, CloseForgetStep,
     RemoveFindStep,
     RemoveDoStep DEF Close
<1> QED
  BY <1>1, <1>2, <1>3, <1>4, <1>5, SessionClosedStep, SendFailsStep DEF Next

(* The inductive invariant holds in every reachable state.                  *)
THEOREM IInvHolds == Spec => []IInv
BY InitIInv, IInvStep, PTL DEF Spec

(* The variables of the registry keep their types.                          *)
THEOREM TypeCorrect == Spec => []TypeOK
<1>1. IInv => TypeOK
  BY DEF IInv
<1> QED
  BY <1>1, IInvHolds, PTL

(* With nothing in progress, nobody is closing anything.                    *)
LEMMA QuietFacts ==
  ASSUME Quiet, NEW a \in Actors
  PROVE  pc[a] \notin Closing
BY ClosingFacts DEF Quiet

(* Hello.java, User.validate and TConn.close: with no handshake and no      *)
(* close in progress, a client that the database names connected is the     *)
(* client of a connection with a session, with the exceptions that          *)
(* RecordedIsConnected states.                                              *)
THEOREM RecordedConnected == Spec => []RecordedIsConnected
<1>1. IInv => RecordedIsConnected
  BY QuietFacts, ClosingFacts DEF IInv, RecordHeld, WillMark, RecordedIsConnected
<1> QED
  BY <1>1, IInvHolds, PTL

(* TConnCenter.add and remove: with nothing in progress, a connection found *)
(* in the registry has a session, with the exceptions that ClosedIsRemoved  *)
(* states.                                                                  *)
THEOREM ClosedRemoved == Spec => []ClosedIsRemoved
<1>1. IInv => ClosedIsRemoved
  <2> SUFFICES ASSUME IInv, Quiet, NEW i \in Ids, conns[i] # Null
               PROVE  session[conns[i]] \/ i \in loose[conns[i]]
    BY DEF ClosedIsRemoved
  <2>1. conns[i] \in Conns
    BY DEF IInv, TypeOK
  <2>2. ~WillRemove(conns[i], i)
    BY QuietFacts, ClosingFacts DEF WillRemove
  <2> QED
    BY <2>1, <2>2 DEF IInv, CachedHeld
<1> QED
  BY <1>1, IInvHolds, PTL

(* Hello.java:95: the connection that was put under an id last, and has its *)
(* session, is found under it, unless it was put between the look-up and    *)
(* the removal of another.                                                  *)
THEOREM NewestCached == Spec => []NewestIsCached
<1>1. IInv => NewestIsCached
  BY DEF IInv, NewestHeld, NewestIsCached
<1> QED
  BY <1>1, IInvHolds, PTL
=============================================================================
