------------------------ MODULE SystemConfigProofs ------------------------
(***************************************************************************)
(* IInv of SystemConfig is inductive when queries do not fail: LastSeen of *)
(* a fixed document content never decreases, so an entry that was current  *)
(* when its bean was born stays witnessed by it; and while a setConfig     *)
(* runs on a node, whatever its readers hold or put is marked.             *)
(***************************************************************************)
EXTENDS SystemConfig, TLAPS

USE NodesAssumption, ValuesAssumption, BoundsAssumption

(* The initial states. *)
LEMMA InitInv == Init => IInv
<1> SUFFICES ASSUME Init PROVE IInv
  OBVIOUS
<1>1. AnyEntry \in Entries
  BY DEF AnyEntry, Entries, Docs
<1>2. TypeOK
  BY <1>1 DEF Init, TypeOK, Docs, Answers
<1>3. PastOnly /\ EntriesSeen /\ ReadersSeen /\ AnswerAge /\ Settled /\ SetInvalidates
  BY DEF Init, PastOnly, EntriesSeen, ReadersSeen, AnswerAge, Settled, SetInvalidates, Answers
<1> QED
  BY <1>2, <1>3 DEF IInv

(* What a document content was last seen at never goes back. *)
LEMMA SeenGrows ==
  ASSUME IInv, [Next]_vars, NEW x \in Docs
  PROVE  LastSeen(x) <= LastSeen(x)' /\ LastSeen(x) \in Int /\ LastSeen(x)' \in Int
<1> USE DEF LastSeen
<1>1. LastSeen(x) \in Int /\ until[x] <= now /\ now \in Nat /\ until \in [Docs -> Nat \cup {-1}] /\ db \in Docs
  BY DEF IInv, TypeOK, PastOnly
<1>2. CASE \E t \in Threads : SetWrite(t)
  BY <1>1, <1>2 DEF SetWrite
<1>3. CASE Tick
  BY <1>1, <1>3 DEF Tick
<1>4. CASE UNCHANGED <<db, until, now>>
  BY <1>1, <1>4
<1>5. (\E t \in Threads : SetWrite(t)) \/ Tick \/ UNCHANGED <<db, until, now>>
  BY DEF Next, vars, Read, Set, ReadHit, ReadMiss, QueryFound, QueryNull, Put, SetBegin, SetExists
<1> QED
  BY <1>2, <1>3, <1>4, <1>5

(* A reader answers from a young entry. *)
LEMMA ReadHitInv == ASSUME IInv, NEW t \in Threads, ReadHit(t), [Next]_vars PROVE IInv'
<1> USE DEF IInv, TypeOK, ReadHit
<1> DEFINE e == data[NodeOf[t]]
<1>1. e \in Entries /\ NodeOf[t] \in Nodes
  BY DEF Fresh, Nodes
<1>2. e.born <= LastSeen(e.from) /\ now - e.born < MaxAge /\ LastSeen(e.from) \in Int
  BY <1>1, SeenGrows DEF EntriesSeen, Fresh, Entries
<1>3. TypeOK'
  BY <1>2 DEF Answer, Answers
<1>4. AnswerAge'
  BY <1>1, <1>2 DEF AnswerAge, Answer, Entries, Answers
<1>5. (PastOnly /\ EntriesSeen /\ ReadersSeen /\ Settled /\ SetInvalidates)'
  BY DEF PastOnly, EntriesSeen, ReadersSeen, Settled, SetInvalidates, LastSeen
<1> QED
  BY <1>3, <1>4, <1>5

(* A reader finds no young entry. *)
LEMMA ReadMissInv == ASSUME IInv, NEW t \in Threads, ReadMiss(t) PROVE IInv'
<1> USE DEF IInv, TypeOK, ReadMiss
<1>0. [bean[t] EXCEPT !.born = now] \in Entries
  <2>1. bean[t] \in Entries /\ now \in Nat
    OBVIOUS
  <2> QED
    BY <2>1 DEF Entries
<1>a. bean' \in [Threads -> Entries] /\ NodeOf[t] \in Nodes
  BY <1>0 DEF Nodes
<1>1. TypeOK'
  BY <1>a DEF Goto
<1>2. (PastOnly /\ EntriesSeen /\ AnswerAge /\ SetInvalidates)'
  BY DEF PastOnly, EntriesSeen, AnswerAge, SetInvalidates, LastSeen
<1>3. ReadersSeen'
  BY DEF ReadersSeen, Goto, Entries, LastSeen
<1>4. Settled'
  BY DEF Settled, Goto, Nodes
<1> QED
  BY <1>1, <1>2, <1>3, <1>4

(* The two ways a query ends. *)
LEMMA QueryInv ==
  ASSUME IInv, NEW t \in Threads, LoadFails = FALSE,
         QueryFound(t) \/ \E d \in Defaults : QueryNull(t, d)
  PROVE  IInv'
<1> USE DEF IInv, TypeOK
<1>1. /\ pc[t] = "query" /\ Goto(t, "put") /\ NodeOf[t] \in Nodes
      /\ UNCHANGED <<db, data, now, arg, found, setting, start, raced, until, sets, ans, ops>>
  BY DEF QueryFound, QueryNull, Nodes
<1>2. PICK b \in Entries : /\ bean' = [bean EXCEPT ![t] = b] /\ b.from = db
                           /\ b.born <= now /\ b.sets = sets[NodeOf[t]]
  <2>1. CASE QueryFound(t)
    <3> DEFINE b == [bean[t] EXCEPT !.from = db, !.val = db, !.sets = sets[NodeOf[t]]]
    <3>1. b \in Entries /\ b.from = db /\ b.sets = sets[NodeOf[t]] /\ b.born = bean[t].born
      <4>1. bean[t] \in Entries /\ db \in Docs /\ db \in Values /\ sets[NodeOf[t]] \in Nat
        BY <2>1, <1>1 DEF QueryFound, Docs
      <4> QED
        BY <4>1 DEF Entries
    <3>2. bean[t].born <= now
      BY <1>1 DEF ReadersSeen
    <3> QED
      BY <2>1, <3>1, <3>2 DEF QueryFound
  <2>2. ASSUME NEW d \in Defaults, QueryNull(t, d)
        PROVE  \E b \in Entries : /\ bean' = [bean EXCEPT ![t] = b] /\ b.from = db
                                  /\ b.born <= now /\ b.sets = sets[NodeOf[t]]
    <3> DEFINE b == [bean[t] EXCEPT !.from = Absent, !.val = d, !.born = now, !.sets = sets[NodeOf[t]]]
    <3>1. b \in Entries /\ b.from = Absent /\ b.sets = sets[NodeOf[t]] /\ b.born = now
      <4>1. bean[t] \in Entries /\ Absent \in Docs /\ now \in Nat /\ sets[NodeOf[t]] \in Nat
        BY <1>1 DEF Docs
      <4> QED
        BY <4>1 DEF Entries
    <3>2. db = Absent
      BY <2>2 DEF QueryNull
    <3> QED
      <4>1. bean' = [bean EXCEPT ![t] = b]
        BY <2>2 DEF QueryNull
      <4>2. b.born <= now
        BY <3>1
      <4> HIDE DEF b
      <4> QED
        BY <4>1, <4>2, <3>1, <3>2
  <2> QED
    BY <2>1, <2>2
<1>3. TypeOK'
  BY <1>1, <1>2 DEF Goto
<1>4. (PastOnly /\ EntriesSeen /\ AnswerAge /\ SetInvalidates)'
  BY <1>1 DEF PastOnly, EntriesSeen, AnswerAge, SetInvalidates, LastSeen
<1>5. ReadersSeen'
  BY <1>1, <1>2 DEF ReadersSeen, Goto, LastSeen
<1>6. Settled'
  BY <1>1, <1>2 DEF Settled, Goto
<1> QED
  BY <1>3, <1>4, <1>5, <1>6

(* A reader puts what it queried. *)
LEMMA PutInv == ASSUME IInv, NEW t \in Threads, Put(t), [Next]_vars PROVE IInv'
<1> USE DEF IInv, TypeOK
<1> DEFINE n == NodeOf[t]
           e == [bean[t] EXCEPT !.raced = raced[t]]
<1>1. /\ pc[t] = "put" /\ Goto(t, "idle") /\ n \in Nodes
      /\ data' = [data EXCEPT ![n] = e] /\ Answer(t, bean[t], start[t])
      /\ UNCHANGED <<db, now, bean, arg, found, setting, start, raced, until, sets, ops>>
  BY DEF Put, Nodes
<1>2. /\ e \in Entries /\ e.from = bean[t].from /\ e.from \in Docs /\ e.born = bean[t].born
      /\ e.raced = raced[t] /\ e.sets = bean[t].sets
  <2>1. bean[t] \in Entries /\ raced[t] \in BOOLEAN
    OBVIOUS
  <2> HIDE DEF IInv, TypeOK
  <2> QED BY ONLY <2>1 DEF Entries
<1>3. LastSeen(e.from) \in Int /\ e.born <= LastSeen(e.from) /\ start[t] <= LastSeen(e.from)
  BY <1>1, <1>2, SeenGrows DEF ReadersSeen
<1>4. TypeOK'
  BY <1>1, <1>2, <1>3 DEF Goto, Answer, Answers
<1>5. AnswerAge'
  BY <1>1, <1>2, <1>3 DEF AnswerAge, Answer, Answers
<1>6. (PastOnly /\ ReadersSeen)'
  BY <1>1 DEF PastOnly, ReadersSeen, Goto, LastSeen
<1>7. EntriesSeen'
  BY <1>1, <1>2, <1>3 DEF EntriesSeen, LastSeen
<1>8. ~raced[t] => ~setting[n] /\ bean[t].sets = sets[n]
  BY <1>1 DEF Settled
<1>9. SetInvalidates'
  BY <1>1, <1>2, <1>8 DEF SetInvalidates
<1>10. Settled'
  BY <1>1, <1>2, <1>8 DEF Settled, Goto
<1> QED
  BY <1>4, <1>5, <1>6, <1>7, <1>9, <1>10

(* A setter removes the entry. *)
LEMMA SetBeginInv == ASSUME IInv, NEW t \in Threads, NEW x \in Docs, SetBegin(t, x) PROVE IInv'
<1> USE DEF IInv, TypeOK
<1> DEFINE n == NodeOf[t]
<1>1. /\ pc[t] = "idle" /\ n \in Nodes /\ Overlaps(t)
      /\ setting' = [setting EXCEPT ![n] = TRUE] /\ data' = [data EXCEPT ![n] = NoEntry]
      /\ arg' = [arg EXCEPT ![t] = x] /\ ops' = ops + 1
      /\ \E l \in {"write", "exists"} : Goto(t, l)
      /\ UNCHANGED <<db, now, bean, found, start, until, sets, ans>>
  BY DEF SetBegin, Nodes
<1>2. TypeOK'
  BY <1>1 DEF Goto, Overlaps
<1>3. (PastOnly /\ EntriesSeen /\ AnswerAge /\ SetInvalidates)'
  BY <1>1 DEF PastOnly, EntriesSeen, AnswerAge, SetInvalidates, LastSeen
<1>4. ReadersSeen'
  BY <1>1 DEF ReadersSeen, Goto, LastSeen
<1>5. \A u \in Threads : NodeOf[u] \in Nodes
  BY DEF Nodes
<1>6. Settled'
  <2>1. \A u \in Threads : ~(NodeOf[u] = n /\ pc[u] \in {"exists", "write"})
    BY DEF Settled, SetBegin
  <2>2. \A u \in Threads : NodeOf[u] = n /\ pc[u] \in {"query", "put"} => raced'[u]
    BY <1>1 DEF Overlaps
  <2>3. \A u \in Threads : raced[u] => raced'[u]
    BY <1>1 DEF Overlaps
  <2>4. \A u \in Threads : u # t => pc'[u] = pc[u]
    BY <1>1 DEF Goto
  <2>5. pc'[t] \in {"write", "exists"}
    BY <1>1 DEF Goto
  <2> QED
    BY <1>1, <1>5, <2>1, <2>2, <2>3, <2>4, <2>5 DEF Settled
<1> QED
  BY <1>2, <1>3, <1>4, <1>6

(* A setter writes the document. *)
LEMMA SetWriteInv == ASSUME IInv, NEW t \in Threads, SetWrite(t), [Next]_vars PROVE IInv'
<1> USE DEF IInv, TypeOK
<1> DEFINE n == NodeOf[t]
<1>1. /\ pc[t] = "write" /\ n \in Nodes /\ Goto(t, "idle") /\ db' \in Docs
      /\ until' = [until EXCEPT ![db] = now] /\ sets' = [sets EXCEPT ![n] = @ + 1]
      /\ setting' = [setting EXCEPT ![n] = FALSE]
      /\ UNCHANGED <<data, now, bean, arg, found, start, raced, ans, ops>>
  BY DEF SetWrite, Nodes
<1>2. setting[n]
  BY <1>1 DEF Settled
<1>3. TypeOK'
  BY <1>1 DEF Goto
<1>4. PastOnly' /\ AnswerAge'
  BY <1>1 DEF PastOnly, AnswerAge
<1>5. EntriesSeen'
  BY <1>1, SeenGrows DEF EntriesSeen, Entries
<1>6. ReadersSeen'
  BY <1>1, SeenGrows DEF ReadersSeen, Entries, Goto
<1>7. SetInvalidates'
  BY <1>1, <1>2 DEF Settled, SetInvalidates
<1>8. \A u \in Threads : NodeOf[u] = n /\ pc[u] \in {"query", "put"} => raced[u]
  BY <1>2 DEF Settled
<1>9. \A u \in Threads : u # t => ~(NodeOf[u] = n /\ pc[u] \in {"exists", "write"})
  BY <1>1 DEF Settled
<1>10. Settled'
  BY <1>1, <1>2, <1>8, <1>9 DEF Settled, Goto
<1> QED
  BY <1>3, <1>4, <1>5, <1>6, <1>7, <1>10

(* Every step keeps the invariant. *)
LEMMA StepInv == ASSUME LoadFails = FALSE, IInv, [Next]_vars PROVE IInv'
<1>1. ASSUME NEW t \in Threads, SetExists(t) PROVE IInv'
  <2> USE DEF IInv, TypeOK
  <2>1. TypeOK'
    BY <1>1 DEF SetExists, Goto
  <2>2. (PastOnly /\ EntriesSeen /\ ReadersSeen /\ AnswerAge /\ SetInvalidates)'
    BY <1>1 DEF SetExists, Goto, PastOnly, EntriesSeen, ReadersSeen, AnswerAge, SetInvalidates, LastSeen
  <2>3. Settled'
    BY <1>1 DEF SetExists, Goto, Settled
  <2> QED
    BY <2>1, <2>2, <2>3
<1>2. CASE Tick
  <2>1. TypeOK'
    BY <1>2 DEF Tick, IInv, TypeOK
  <2>2. PastOnly'
    BY <1>2 DEF Tick, IInv, TypeOK, PastOnly
  <2>3. (AnswerAge /\ Settled /\ SetInvalidates)'
    BY <1>2 DEF Tick, IInv, AnswerAge, Settled, SetInvalidates
  <2>4. EntriesSeen'
    BY <1>2, SeenGrows DEF Tick, IInv, TypeOK, EntriesSeen, Entries
  <2>5. ReadersSeen'
    BY <1>2, SeenGrows DEF Tick, IInv, TypeOK, ReadersSeen, Entries
  <2> QED
    BY <2>1, <2>2, <2>3, <2>4, <2>5 DEF IInv
<1>3. CASE UNCHANGED vars
  BY <1>3 DEF vars, IInv, TypeOK, PastOnly, EntriesSeen, ReadersSeen, AnswerAge, Settled, SetInvalidates, LastSeen
<1>4. ASSUME NEW t \in Threads, Read(t) \/ Set(t) PROVE IInv'
  BY <1>1, <1>4, ReadHitInv, ReadMissInv, QueryInv, PutInv, SetBeginInv, SetWriteInv DEF Read, Set
<1> QED
  BY <1>2, <1>3, <1>4 DEF Next

(* The inductive invariant, with queries that do not fail. *)
THEOREM Invariance == ASSUME LoadFails = FALSE PROVE Spec => []IInv
<1>1. IInv /\ [Next]_vars => IInv'
  BY StepInv
<1> QED
  BY InitInv, <1>1, PTL DEF Spec

(* However many readers and setters run on however many nodes, an answer is *)
(* what the database held during the read or less than ten minutes before   *)
(* (getConfig, lines 187-194).                                              *)
THEOREM AnswersAreRecent == ASSUME LoadFails = FALSE PROVE Spec => []AnswerAge
<1>1. IInv => AnswerAge
  BY DEF IInv
<1> QED
  BY Invariance, <1>1, PTL

-----------------------------------------------------------------------------
(* The part of the invariant that does not speak of time: it holds whether  *)
(* or not queries fail.                                                     *)
CacheInv == TypeOK /\ Settled /\ SetInvalidates

(* A bean that a reader makes or completes is an entry. *)
LEMMA Beans ==
  ASSUME TypeOK, NEW t \in Threads
  PROVE  /\ NodeOf[t] \in Nodes
         /\ [bean[t] EXCEPT !.born = now] \in Entries
         /\ db # Absent => [bean[t] EXCEPT !.from = db, !.val = db, !.sets = sets[NodeOf[t]]] \in Entries
         /\ \A d \in Defaults :
              [bean[t] EXCEPT !.from = Absent, !.val = d, !.born = now, !.sets = sets[NodeOf[t]]] \in Entries
         /\ [bean[t] EXCEPT !.raced = raced[t]] \in Entries
         /\ \A x \in Docs : LastSeen(x) \in Int
<1>1. /\ NodeOf[t] \in Nodes /\ bean[t] \in Entries /\ now \in Nat /\ raced[t] \in BOOLEAN
      /\ db \in Docs /\ Absent \in Docs /\ sets \in [Nodes -> Nat] /\ until \in [Docs -> Nat \cup {-1}]
  BY DEF TypeOK, Nodes, Docs
<1>2. sets[NodeOf[t]] \in Nat /\ (db # Absent => db \in Values)
  BY <1>1 DEF Docs
<1>3. \A x \in Docs : LastSeen(x) \in Int
  BY <1>1 DEF LastSeen
<1> QED
  BY <1>1, <1>2, <1>3 DEF Entries

LEMMA CacheReads ==
  ASSUME CacheInv, NEW t \in Threads, Read(t)
  PROVE  CacheInv'
<1> USE DEF CacheInv
<1>1. CASE ReadHit(t)
  <2>1. data[NodeOf[t]] \in Entries
    BY <1>1, Beans DEF ReadHit, Fresh, TypeOK
  <2>2. data[NodeOf[t]].from \in Docs
    BY <2>1 DEF Entries
  <2>3. LastSeen(data[NodeOf[t]].from) \in Int
    BY <2>2, Beans
  <2>5. TypeOK'
    BY <1>1, <2>3 DEF ReadHit, Answer, Answers, TypeOK
  <2>4. (Settled /\ SetInvalidates)'
    BY <1>1 DEF ReadHit, Settled, SetInvalidates
  <2> QED
    BY <2>4, <2>5
<1>2. CASE ReadMiss(t)
  <2>0. bean' \in [Threads -> Entries]
    <3>1. [bean[t] EXCEPT !.born = now] \in Entries /\ bean \in [Threads -> Entries]
      BY Beans DEF TypeOK
    <3>2. bean' = [bean EXCEPT ![t] = [bean[t] EXCEPT !.born = now]]
      BY <1>2, <3>1 DEF ReadMiss
    <3> QED
      BY <3>1, <3>2
  <2>1. TypeOK'
    <3>1. NodeOf[t] \in Nodes
      BY Beans
    <3>2. /\ start' = [start EXCEPT ![t] = now] /\ raced' = [raced EXCEPT ![t] = setting[NodeOf[t]]]
          /\ ops' = ops + 1 /\ pc' = [pc EXCEPT ![t] = "query"]
          /\ UNCHANGED <<db, data, now, arg, found, setting, until, sets, ans>>
      BY <1>2 DEF ReadMiss, Goto
    <3> QED
      BY <2>0, <3>1, <3>2 DEF TypeOK
  <2>2. Settled' /\ SetInvalidates'
    BY <1>2, Beans DEF ReadMiss, Goto, Settled, SetInvalidates, TypeOK
  <2> QED
    BY <2>1, <2>2
<1>3. CASE QueryFound(t) \/ \E d \in Defaults : QueryNull(t, d)
  <2>1. PICK b \in Entries : bean' = [bean EXCEPT ![t] = b] /\ b.sets = sets[NodeOf[t]]
    <3>1. bean[t] \in Entries
      BY DEF TypeOK
    <3>2. CASE QueryFound(t)
      BY <3>1, <3>2, Beans DEF QueryFound, Entries
    <3>3. ASSUME NEW d \in Defaults, QueryNull(t, d)
          PROVE  \E b \in Entries : bean' = [bean EXCEPT ![t] = b] /\ b.sets = sets[NodeOf[t]]
      <4> DEFINE b == [bean[t] EXCEPT !.from = Absent, !.val = d, !.born = now, !.sets = sets[NodeOf[t]]]
      <4>1. b \in Entries /\ b.sets = sets[NodeOf[t]]
        BY <3>1, Beans DEF Entries
      <4>2. bean' = [bean EXCEPT ![t] = b]
        BY <3>3 DEF QueryNull
      <4> HIDE DEF b
      <4> QED
        BY <4>1, <4>2
    <3> QED
      BY <1>3, <3>2, <3>3
  <2>2. /\ pc[t] = "query" /\ Goto(t, "put")
        /\ UNCHANGED <<db, data, now, arg, found, setting, start, raced, until, sets, ans, ops>>
    BY <1>3 DEF QueryFound, QueryNull
  <2>3. TypeOK'
    BY <2>1, <2>2 DEF Goto, TypeOK
  <2>4. Settled' /\ SetInvalidates'
    BY <2>1, <2>2 DEF Goto, Settled, SetInvalidates, TypeOK
  <2> QED
    BY <2>3, <2>4
<1>4. CASE Put(t)
  <2> DEFINE n == NodeOf[t]
             e == [bean[t] EXCEPT !.raced = raced[t]]
  <2>1. bean[t] \in Entries /\ raced[t] \in BOOLEAN /\ n \in Nodes
    BY Beans DEF TypeOK
  <2>2. e \in Entries /\ e.raced = raced[t] /\ e.sets = bean[t].sets /\ bean[t].from \in Docs
    BY <2>1, Beans DEF Entries
  <2>3. /\ pc[t] = "put" /\ Goto(t, "idle") /\ data' = [data EXCEPT ![n] = e] /\ Answer(t, bean[t], start[t])
        /\ UNCHANGED <<db, now, bean, arg, found, setting, start, raced, until, sets, ops>>
    BY <1>4 DEF Put
  <2>4. ~raced[t] => ~setting[n] /\ bean[t].sets = sets[n]
    BY <2>3 DEF Settled
  <2> HIDE DEF e
  <2>5. TypeOK'
    BY <2>1, <2>2, <2>3, Beans DEF Goto, Answer, Answers, TypeOK
  <2>6. SetInvalidates'
    BY <2>1, <2>2, <2>3, <2>4 DEF SetInvalidates, TypeOK
  <2>7. Settled'
    BY <2>1, <2>2, <2>3, <2>4 DEF Settled, Goto, TypeOK
  <2> QED
    BY <2>5, <2>6, <2>7
<1> QED
  BY <1>1, <1>2, <1>3, <1>4 DEF Read

LEMMA CacheSets ==
  ASSUME CacheInv, NEW t \in Threads, Set(t)
  PROVE  CacheInv'
<1> USE DEF CacheInv
<1> DEFINE n == NodeOf[t]
<1>0. n \in Nodes /\ \A u \in Threads : NodeOf[u] \in Nodes
  BY DEF Nodes
<1>1. ASSUME NEW x \in Docs, SetBegin(t, x) PROVE CacheInv'
  <2>1. /\ pc[t] = "idle" /\ Overlaps(t) /\ ~setting[n]
        /\ setting' = [setting EXCEPT ![n] = TRUE] /\ data' = [data EXCEPT ![n] = NoEntry]
        /\ arg' = [arg EXCEPT ![t] = x] /\ ops' = ops + 1
        /\ \E l \in {"write", "exists"} : Goto(t, l)
        /\ UNCHANGED <<db, now, bean, found, start, until, sets, ans>>
    BY <1>1 DEF SetBegin
  <2>2. TypeOK'
    BY <1>0, <2>1 DEF Goto, Overlaps, TypeOK
  <2>3. SetInvalidates'
    BY <1>0, <2>1 DEF SetInvalidates, TypeOK
  <2>4. /\ \A u \in Threads : ~(NodeOf[u] = n /\ pc[u] \in {"exists", "write"})
        /\ \A u \in Threads : NodeOf[u] = n /\ pc[u] \in {"query", "put"} => raced'[u]
        /\ \A u \in Threads : raced[u] => raced'[u]
        /\ \A u \in Threads : u # t => pc'[u] = pc[u]
        /\ pc'[t] \in {"write", "exists"}
    BY <2>1 DEF Settled, Overlaps, Goto, TypeOK
  <2>5. Settled'
    BY <1>0, <2>1, <2>4 DEF Settled, TypeOK
  <2> QED
    BY <2>2, <2>3, <2>5
<1>2. CASE SetExists(t)
  BY <1>2 DEF SetExists, Goto, TypeOK, Settled, SetInvalidates
<1>3. CASE SetWrite(t)
  <2>1. /\ pc[t] = "write" /\ Goto(t, "idle") /\ db' \in Docs
        /\ until' = [until EXCEPT ![db] = now] /\ sets' = [sets EXCEPT ![n] = @ + 1]
        /\ setting' = [setting EXCEPT ![n] = FALSE]
        /\ UNCHANGED <<data, now, bean, arg, found, start, raced, ans, ops>>
    BY <1>3 DEF SetWrite, TypeOK
  <2>2. /\ setting[n]
        /\ \A u \in Threads : NodeOf[u] = n /\ pc[u] \in {"query", "put"} => raced[u]
        /\ \A u \in Threads : u # t => ~(NodeOf[u] = n /\ pc[u] \in {"exists", "write"})
    BY <2>1 DEF Settled
  <2>3. TypeOK'
    BY <1>0, <2>1 DEF Goto, TypeOK
  <2>4. SetInvalidates'
    BY <1>0, <2>1, <2>2 DEF Settled, SetInvalidates, TypeOK
  <2>5. Settled'
    BY <1>0, <2>1, <2>2 DEF Settled, Goto, TypeOK
  <2> QED
    BY <2>3, <2>4, <2>5
<1> QED
  BY <1>1, <1>2, <1>3 DEF Set

THEOREM CacheInvariance == Spec => []CacheInv
<1>1. Init => CacheInv
  BY InitInv DEF IInv, CacheInv
<1>2. CacheInv /\ [Next]_vars => CacheInv'
  <2> SUFFICES ASSUME CacheInv, [Next]_vars PROVE CacheInv'
    OBVIOUS
  <2>1. CASE Tick
    BY <2>1 DEF Tick, CacheInv, TypeOK, Settled, SetInvalidates
  <2>2. CASE UNCHANGED vars
    BY <2>2 DEF vars, CacheInv, TypeOK, Settled, SetInvalidates
  <2> QED
    BY <2>1, <2>2, CacheReads, CacheSets DEF Next
<1> QED
  BY <1>1, <1>2, PTL DEF Spec

(* The variables keep their types, whether or not queries fail. *)
THEOREM TypeCorrect == Spec => []TypeOK
<1>1. CacheInv => TypeOK
  BY DEF CacheInv
<1> QED
  BY CacheInvariance, <1>1, PTL

(* An entry no setConfig of its node overlapped was read after every write  *)
(* of the node (setConfig, lines 156-173), whether or not queries fail.     *)
THEOREM OwnWritesInvalidate == Spec => []SetInvalidates
<1>1. CacheInv => SetInvalidates
  BY DEF CacheInv
<1> QED
  BY CacheInvariance, <1>1, PTL
=============================================================================
