-------------------------------- MODULE UID --------------------------------
(***************************************************************************)
(* core/bean/UID.java next(key): the sequence numbers of one key.  The     *)
(* counter is one document of the shared collection gi_config; next() is   *)
(* synchronized, so within one node (one JVM) the calls take turns, while  *)
(* the nodes of a cluster interleave at every database call.               *)
(* The constant prefix (system.code) is left out: nodes of one system      *)
(* share it.                                                               *)
(***************************************************************************)
EXTENDS Integers, Sequences, FiniteSets

CONSTANTS Threads,    \* threads that call next(key)
          NodeOf,     \* the node each of them runs on
          FaultKinds, \* database calls that may fail
          MaxCalls,   \* bound: calls of next
          MaxLinks,   \* bound: attempts to create the document
          NoThread    \* no thread

Nodes == {NodeOf[t] : t \in Threads}

ASSUME ThreadsAssumption == NoThread \notin Threads
ASSUME NodesAssumption   == NodeOf \in [Threads -> Nodes]
ASSUME FaultsAssumption  == FaultKinds \subseteq {"load", "insert", "update", "exists", "store"}
ASSUME BoundsAssumption  == MaxCalls \in Nat /\ MaxLinks \in Nat

VARIABLES
  var, linkid, \* the document; var = 0 while it does not exist
  lock,        \* lock[n]: the thread inside next() on node n
  pc,          \* where each thread is
  v, link,     \* its local variables v and linkid
  fresh,       \* random() never returns a string twice: the next new one
  got,         \* what next() returned to the thread
  issued,      \* history: issued[n], the numbers returned on node n, in order
  calls        \* calls so far

vars == <<var, linkid, lock, pc, v, link, fresh, got, issued, calls>>

Init ==
  /\ var = 0 /\ linkid = 0
  /\ lock = [n \in Nodes |-> NoThread]
  /\ pc = [t \in Threads |-> "idle"]
  /\ v = [t \in Threads |-> 0] /\ link = [t \in Threads |-> 0] /\ got = [t \in Threads |-> 0]
  /\ fresh = 1
  /\ issued = [n \in Nodes |-> << >>]
  /\ calls = 0

Goto(t, l) == pc' = [pc EXCEPT ![t] = l]

(* Mutant: next() is not synchronized. *)
CallUnlocked(t) ==
  /\ pc[t] = "idle" /\ calls < MaxCalls
  /\ calls' = calls + 1
  /\ lock' = [lock EXCEPT ![NodeOf[t]] = t]
  /\ Goto(t, "load")
  /\ UNCHANGED <<var, linkid, v, link, fresh, got, issued>>

(* next(key) is entered: static synchronized *)
Call(t) ==
  /\ pc[t] = "idle" /\ calls < MaxCalls
  /\ lock[NodeOf[t]] = NoThread
  /\ calls' = calls + 1
  /\ lock' = [lock EXCEPT ![NodeOf[t]] = t]
  /\ Goto(t, "load")
  /\ UNCHANGED <<var, linkid, v, link, fresh, got, issued>>

(* Bean.load: the document, or null when there is none or the query failed *)
LoadFound(t) ==
  /\ pc[t] = "load" /\ var # 0
  /\ v' = [v EXCEPT ![t] = var]
  /\ Goto(t, "update")
  /\ UNCHANGED <<var, linkid, lock, link, fresh, got, issued, calls>>

LoadNull(t) ==
  /\ pc[t] = "load" /\ (var = 0 \/ "load" \in FaultKinds)
  /\ fresh <= MaxLinks
  /\ v' = [v EXCEPT ![t] = 1]
  /\ link' = [link EXCEPT ![t] = fresh]
  /\ fresh' = fresh + 1
  /\ Goto(t, "insert")
  /\ UNCHANGED <<var, linkid, lock, got, issued, calls>>

(* Mutant: the document starts with the number just handed out. *)
InsertSame(t) ==
  /\ pc[t] = "insert"
  /\ IF var = 0 THEN var' = v[t] /\ linkid' = link[t] ELSE UNCHANGED <<var, linkid>>
  /\ Goto(t, "reload")
  /\ UNCHANGED <<lock, v, link, fresh, got, issued, calls>>

(* insertCollection: refused when the key exists; the result is not read *)
Insert(t) ==
  /\ pc[t] = "insert"
  /\ \/ /\ var = 0
        /\ var' = v[t] + 1 /\ linkid' = link[t]
     \/ /\ var # 0 \/ "insert" \in FaultKinds
        /\ UNCHANGED <<var, linkid>>
  /\ Goto(t, "reload")
  /\ UNCHANGED <<lock, v, link, fresh, got, issued, calls>>

(* next() returns r; -1 stands for failure *)
Return(t, r) ==
  /\ got' = [got EXCEPT ![t] = r]
  /\ lock' = [lock EXCEPT ![NodeOf[t]] = NoThread]
  /\ issued' = IF r = -1 THEN issued ELSE [issued EXCEPT ![NodeOf[t]] = Append(@, r)]
  /\ Goto(t, "returned")

(* Mutant: linkid is not compared. *)
ReloadTrusting(t) ==
  /\ pc[t] = "reload"
  /\ Return(t, IF var = 0 THEN -1 ELSE v[t])
  /\ UNCHANGED <<var, linkid, v, link, fresh, calls>>

(* The document is read again: missing, ours, or created by another node,  *)
(* and then next() calls itself.                                           *)
Reload(t) ==
  /\ pc[t] = "reload"
  /\ \/ /\ var = 0 \/ "load" \in FaultKinds
        /\ Return(t, -1)
     \/ /\ var # 0 /\ linkid = link[t]
        /\ Return(t, v[t])
     \/ /\ var # 0 /\ linkid # link[t]
        /\ Goto(t, "load")
        /\ UNCHANGED <<lock, got, issued>>
  /\ UNCHANGED <<var, linkid, v, link, fresh, calls>>

(* Mutant: the stored number is not increased. *)
UpdateSame(t) ==
  /\ pc[t] = "update"
  /\ Return(t, v[t])
  /\ UNCHANGED <<var, linkid, v, link, fresh, calls>>

(* updateCollection({_id, var: v}, {var: v+1}) answers the number of        *)
(* documents it changed, and 0 when it failed: never less than 0, so the    *)
(* loop "while (... < 0) v++" goes round for no answer it can get.          *)
Update(t) ==
  /\ pc[t] = "update"
  /\ \E n \in {0, 1} :
       /\ \/ n = 1 /\ var = v[t] /\ var' = v[t] + 1
          \/ n = 0 /\ (var # v[t] \/ "update" \in FaultKinds) /\ var' = var
       /\ IF n < 0
            THEN v' = [v EXCEPT ![t] = @ + 1] /\ UNCHANGED <<lock, pc, got, issued>>
            ELSE v' = v /\ Return(t, v[t])
  /\ UNCHANGED <<linkid, link, fresh, calls>>

(* The caller goes on with the number it got. *)
Consume(t) ==
  /\ pc[t] = "returned"
  /\ Goto(t, "idle")
  /\ UNCHANGED <<var, linkid, lock, v, link, fresh, got, issued, calls>>

Inside(t) == LoadFound(t) \/ LoadNull(t) \/ Insert(t) \/ Reload(t) \/ Update(t)

Next == \E t \in Threads : Call(t) \/ Inside(t) \/ Consume(t)

Spec == Init /\ [][Next]_vars

-----------------------------------------------------------------------------
InNext == {"load", "insert", "reload", "update"}

TypeOK ==
  /\ var \in Nat \ {1} /\ linkid \in Nat
  /\ lock \in [Nodes -> Threads \cup {NoThread}]
  /\ pc \in [Threads -> {"idle", "returned"} \cup InNext]
  /\ v \in [Threads -> Nat] /\ link \in [Threads -> Nat]
  /\ got \in [Threads -> Nat \cup {-1}]
  /\ fresh \in Nat \ {0} /\ calls \in Nat
  /\ issued \in [Nodes -> Seq(Nat)]

(* On one node the numbers of a key go up, whatever the other nodes do:     *)
(* neither the linkid handshake of two creators nor an update that lost its *)
(* race ever gives a node a number it has handed out before.  (An update    *)
(* that FAILS does: see README.)                                            *)
PerNodeIncreasing ==
  \A n \in Nodes : \A i, k \in DOMAIN issued[n] : i < k => issued[n][i] < issued[n][k]

(* Of all the nodes that try to create the document at the same time, one   *)
(* gets number 1: the others see another linkid ("created by other node in  *)
(* cluster system", lines 45-47) and call next() again.                     *)
CreatedOnce ==
  \A m, n \in Nodes : \A i \in DOMAIN issued[m], k \in DOMAIN issued[n] :
    issued[m][i] = 1 /\ issued[n][k] = 1 => m = n /\ i = k

(* "increase and get the unique sequence number by key" (line 22)           *)
UniqueSequence ==
  \A m, n \in Nodes : \A i \in DOMAIN issued[m], k \in DOMAIN issued[n] :
    issued[m][i] = issued[n][k] => m = n /\ i = k

-----------------------------------------------------------------------------
(* The inductive invariant.  Core holds whatever fails.                     *)
LockHeld == \A t \in Threads : pc[t] \in InNext => lock[NodeOf[t]] = t
NoneBefore == var = 0 => \A n \in Nodes : issued[n] = << >>
Loaded     == \A t \in Threads : pc[t] = "update" => v[t] > 0 /\ var > 0
Linking ==
  /\ linkid < fresh /\ (var = 0 => linkid = 0)
  /\ \A t \in Threads : link[t] < fresh
  /\ \A t, u \in Threads : t # u /\ link[t] > 0 => link[t] # link[u]
  /\ \A t \in Threads : pc[t] \in {"insert", "reload"} => v[t] = 1 /\ link[t] > 0
  /\ \A t \in Threads : pc[t] = "insert" => link[t] # linkid
  /\ \A t \in Threads : pc[t] = "reload" /\ linkid = link[t] => issued[NodeOf[t]] = << >>

Core == TypeOK /\ LockHeld /\ NoneBefore /\ Loaded /\ Linking

(* Number 1 comes from the thread whose linkid is in the document only.     *)
Creator ==
  /\ var # 0 => linkid # 0
  /\ \A t \in Threads : pc[t] = "update" => v[t] # 1
  /\ \A n \in Nodes : \A i \in DOMAIN issued[n] :
       issued[n][i] = 1 => \A t \in Threads : link[t] = linkid => NodeOf[t] = n

(* And this when no update fails.                                           *)
Below == \A n \in Nodes : \A i \in DOMAIN issued[n] : 0 < issued[n][i] /\ issued[n][i] < var
Updating ==
  \A t \in Threads : pc[t] = "update" =>
    /\ 0 < v[t] /\ v[t] <= var
    /\ \A i \in DOMAIN issued[NodeOf[t]] : issued[NodeOf[t]][i] < v[t]

IInv == Core /\ Below /\ Updating /\ PerNodeIncreasing
=============================================================================
