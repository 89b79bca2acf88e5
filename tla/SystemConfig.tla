---------------------------- MODULE SystemConfig ----------------------------
(***************************************************************************)
(* core/conf/SystemConfig.java: one configuration name.  The value is a    *)
(* document of gi_config shared by all nodes; every node keeps the last    *)
(* value it loaded in the static map data and answers from it for ten      *)
(* minutes.  The readers i, d, s and l are not synchronized and differ in  *)
(* the conversion of the answer only; setConfig is synchronized.           *)
(***************************************************************************)
EXTENDS Integers, FiniteSets

CONSTANTS Threads,   \* threads that read or set the name
          NodeOf,    \* the node each of them runs on
          Values,    \* values of the document
          Defaults,  \* what readers pass, or the configuration file holds, as default
          Absent,    \* the document does not exist
          NoEntry,   \* data holds no entry
          MaxAge,    \* ten minutes, in ticks
          LoadFails, \* may a query fail?
          MaxOps,    \* bound: calls
          MaxNow     \* bound: the clock

Nodes == {NodeOf[t] : t \in Threads}

ASSUME NodesAssumption   == NodeOf \in [Threads -> Nodes]
ASSUME ValuesAssumption  == Absent \notin Values /\ Defaults # {}
ASSUME BoundsAssumption  ==
  MaxAge \in Nat \ {0} /\ MaxOps \in Nat /\ MaxNow \in Nat /\ LoadFails \in BOOLEAN

VARIABLES
  db,     \* the document: a value, or Absent
  data,   \* data[n]: the entry of node n
  now,    \* the clock
  pc,     \* where each thread is
  bean,   \* the SystemConfig object a reader has made
  arg,    \* the value a setter sets; Absent stands for null
  found,  \* what exists() answered to a setter
  setting,\* setting[n]: a setter is inside setConfig on node n
  start,  \* history: when the read of each thread began
  raced,  \* history: a setConfig of its node overlapped the read of this thread
  until,  \* history: until[x], the last moment at which db was x
  sets,   \* history: sets[n], the writes of node n
  ans,    \* history: the last answer to each thread
  ops     \* calls so far

vars == <<db, data, now, pc, bean, arg, found, setting, start, raced, until, sets, ans, ops>>

Docs    == Values \cup {Absent}
Entries == [from : Docs, val : Values \cup Defaults, born : Nat, raced : BOOLEAN, sets : Nat]
Answers == [seen : Int, begun : Nat, at : Nat]

AnyEntry == [from |-> Absent, val |-> CHOOSE d \in Defaults : TRUE, born |-> 0, raced |-> TRUE, sets |-> 0]

Init ==
  /\ db \in Docs
  /\ data = [n \in Nodes |-> NoEntry]
  /\ now = 0
  /\ pc = [t \in Threads |-> "idle"]
  /\ bean = [t \in Threads |-> AnyEntry]
  /\ arg = [t \in Threads |-> Absent]
  /\ found = [t \in Threads |-> FALSE]
  /\ setting = [n \in Nodes |-> FALSE]
  /\ start = [t \in Threads |-> 0]
  /\ raced = [t \in Threads |-> FALSE]
  /\ until = [x \in Docs |-> -1]
  /\ sets = [n \in Nodes |-> 0]
  /\ ans = [t \in Threads |-> [seen |-> 0, begun |-> 0, at |-> 0]]
  /\ ops = 0

Goto(t, l) == pc' = [pc EXCEPT ![t] = l]

(* The last moment at which the document was x: now, if it still is. *)
LastSeen(x) == IF db = x THEN now ELSE until[x]

(* A reader that began at b answers with the entry e: what the history      *)
(* keeps is how old the answer is.                                          *)
Answer(t, e, b) ==
  ans' = [ans EXCEPT ![t] = [seen |-> LastSeen(e.from), begun |-> b, at |-> now]]

(* Mutant: an entry never grows old. *)
FreshForEver(e) == e # NoEntry

Fresh(e) == e # NoEntry /\ now - e.born < MaxAge

(* A read (i, d, s, l): getConfig finds a young entry, or the load begins.  *)
(* The bean, and with it its age, is made before the query is sent.         *)
ReadHit(t) ==
  /\ pc[t] = "idle" /\ ops < MaxOps
  /\ Fresh(data[NodeOf[t]])
  /\ Answer(t, data[NodeOf[t]], now)
  /\ ops' = ops + 1
  /\ UNCHANGED <<db, data, now, pc, bean, arg, found, setting, start, raced, until, sets>>

ReadMiss(t) ==
  /\ pc[t] = "idle" /\ ops < MaxOps
  /\ ~Fresh(data[NodeOf[t]])
  /\ start' = [start EXCEPT ![t] = now]
  /\ raced' = [raced EXCEPT ![t] = setting[NodeOf[t]]]
  /\ bean' = [bean EXCEPT ![t].born = now]
  /\ ops' = ops + 1
  /\ Goto(t, "query")
  /\ UNCHANGED <<db, data, now, arg, found, setting, until, sets, ans>>

(* Mutant: a missing document is not told from a value. *)
QueryFoundUnchecked(t) ==
  /\ pc[t] = "query"
  /\ bean' = [bean EXCEPT ![t] =
                [@ EXCEPT !.from = db, !.val = db, !.sets = sets[NodeOf[t]]]]
  /\ Goto(t, "put")
  /\ UNCHANGED <<db, data, now, arg, found, setting, start, raced, until, sets, ans, ops>>

(* The query: the document; or null, also when the query fails, and then a  *)
(* new SystemConfig with the default.                                       *)
QueryFound(t) ==
  /\ pc[t] = "query" /\ db # Absent
  /\ bean' = [bean EXCEPT ![t] =
                [@ EXCEPT !.from = db, !.val = db, !.sets = sets[NodeOf[t]]]]
  /\ Goto(t, "put")
  /\ UNCHANGED <<db, data, now, arg, found, setting, start, raced, until, sets, ans, ops>>

QueryNull(t, d) ==
  /\ pc[t] = "query" /\ (db = Absent \/ LoadFails)
  /\ bean' = [bean EXCEPT ![t] =
                [@ EXCEPT !.from = Absent, !.val = d, !.born = now, !.sets = sets[NodeOf[t]]]]
  /\ Goto(t, "put")
  /\ UNCHANGED <<db, data, now, arg, found, setting, start, raced, until, sets, ans, ops>>

(* data.put(name, c), and the answer *)
Put(t) ==
  /\ pc[t] = "put"
  /\ data' = [data EXCEPT ![NodeOf[t]] = [bean[t] EXCEPT !.raced = raced[t]]]
  /\ Answer(t, bean[t], start[t])
  /\ Goto(t, "idle")
  /\ UNCHANGED <<db, now, bean, arg, found, setting, start, raced, until, sets, ops>>

(* setConfig is entered (synchronized) and data.remove(name) done; an empty *)
(* name returns at once and is left out.  Readers of this node that are     *)
(* under way are marked.                                                    *)
Overlaps(t) ==
  raced' = [u \in Threads |-> raced[u] \/ (NodeOf[u] = NodeOf[t] /\ pc[u] \in {"query", "put"})]

(* Mutant: the entry stays. *)
SetBeginKeeping(t, x) ==
  /\ pc[t] = "idle" /\ ops < MaxOps
  /\ ~setting[NodeOf[t]]
  /\ setting' = [setting EXCEPT ![NodeOf[t]] = TRUE]
  /\ arg' = [arg EXCEPT ![t] = x]
  /\ Overlaps(t)
  /\ ops' = ops + 1
  /\ Goto(t, IF x = Absent THEN "write" ELSE "exists")
  /\ UNCHANGED <<db, data, now, bean, found, start, until, sets, ans>>

SetBegin(t, x) ==
  /\ pc[t] = "idle" /\ ops < MaxOps
  /\ ~setting[NodeOf[t]]
  /\ setting' = [setting EXCEPT ![NodeOf[t]] = TRUE]
  /\ data' = [data EXCEPT ![NodeOf[t]] = NoEntry]
  /\ arg' = [arg EXCEPT ![t] = x]
  /\ Overlaps(t)
  /\ ops' = ops + 1
  /\ Goto(t, IF x = Absent THEN "write" ELSE "exists")
  /\ UNCHANGED <<db, now, bean, found, start, until, sets, ans>>

SetExists(t) ==
  /\ pc[t] = "exists"
  /\ found' = [found EXCEPT ![t] = db # Absent]
  /\ Goto(t, "write")
  /\ UNCHANGED <<db, data, now, bean, arg, setting, start, raced, until, sets, ans, ops>>

(* delete, update (nothing to change once another node deleted it) or       *)
(* insert (refused once another node inserted it); setConfig returns.       *)
SetWrite(t) ==
  /\ pc[t] = "write"
  /\ db' = IF arg[t] = Absent \/ found[t] = (db # Absent) THEN arg[t] ELSE db
  /\ until' = [until EXCEPT ![db] = now]
  /\ sets' = [sets EXCEPT ![NodeOf[t]] = @ + 1]
  /\ setting' = [setting EXCEPT ![NodeOf[t]] = FALSE]
  /\ Goto(t, "idle")
  /\ UNCHANGED <<data, now, bean, arg, found, start, raced, ans, ops>>

Tick ==
  /\ now < MaxNow
  /\ now' = now + 1
  /\ UNCHANGED <<db, data, pc, bean, arg, found, setting, start, raced, until, sets, ans, ops>>

Read(t) == ReadHit(t) \/ ReadMiss(t) \/ QueryFound(t) \/ (\E d \in Defaults : QueryNull(t, d)) \/ Put(t)
Set(t)  == (\E x \in Docs : SetBegin(t, x)) \/ SetExists(t) \/ SetWrite(t)
Next    == Tick \/ \E t \in Threads : Read(t) \/ Set(t)

Spec == Init /\ [][Next]_vars

-----------------------------------------------------------------------------
TypeOK ==
  /\ db \in Docs /\ now \in Nat /\ ops \in Nat
  /\ data \in [Nodes -> Entries \cup {NoEntry}]
  /\ pc \in [Threads -> {"idle", "query", "put", "exists", "write"}]
  /\ bean \in [Threads -> Entries]
  /\ arg \in [Threads -> Docs] /\ found \in [Threads -> BOOLEAN]
  /\ setting \in [Nodes -> BOOLEAN]
  /\ start \in [Threads -> Nat] /\ raced \in [Threads -> BOOLEAN]
  /\ until \in [Docs -> Nat \cup {-1}] /\ sets \in [Nodes -> Nat]
  /\ ans \in [Threads -> Answers]

(* getConfig trusts an entry for ten minutes (lines 188-189): whatever the  *)
(* readers and setters of all nodes do, an answer is what the database held *)
(* during the read, or less than ten minutes before it.                     *)
AnswerAge ==
  \A t \in Threads : ans[t].seen >= ans[t].begun \/ ans[t].at - ans[t].seen < MaxAge

(* setConfig removes the entry before it writes (line 161): the entry of a  *)
(* node was read after every write this node made, unless a setConfig ran   *)
(* on the node in the middle of the read.                                   *)
SetInvalidates ==
  \A n \in Nodes : data[n] # NoEntry /\ ~data[n].raced => data[n].sets = sets[n]

-----------------------------------------------------------------------------
(* The inductive invariant, when no query fails.                            *)
PastOnly == \A x \in Docs : until[x] <= now

EntriesSeen ==
  \A n \in Nodes : data[n] # NoEntry => data[n].born <= LastSeen(data[n].from)

ReadersSeen ==
  \A t \in Threads :
    /\ pc[t] = "query" => start[t] <= now /\ bean[t].born <= now
    /\ pc[t] = "put" => start[t] <= LastSeen(bean[t].from) /\ bean[t].born <= LastSeen(bean[t].from)

Settled ==
  /\ \A t \in Threads :
       /\ pc[t] \in {"exists", "write"} => setting[NodeOf[t]]
       /\ pc[t] \in {"query", "put"} /\ ~raced[t] => ~setting[NodeOf[t]]
       /\ pc[t] = "put" /\ ~raced[t] => bean[t].sets = sets[NodeOf[t]]
  /\ \A t, u \in Threads :
       t # u /\ pc[t] \in {"exists", "write"} /\ pc[u] \in {"exists", "write"} => NodeOf[t] # NodeOf[u]
  /\ \A n \in Nodes : data[n] # NoEntry /\ ~data[n].raced => ~setting[n]

IInv == TypeOK /\ PastOnly /\ EntriesSeen /\ ReadersSeen /\ AnswerAge /\ Settled /\ SetInvalidates
=============================================================================
