----------------------------- MODULE UserCreate -----------------------------
(***************************************************************************)
(* framework/common/User.java: the two create methods, over UID.next (the  *)
(* key "user.id"), and the page web/admin/user, which adds users and locks *)
(* them.  User.create is not synchronized: only its calls of next take     *)
(* turns on a node.  The name check, the id check and the insert are       *)
(* separate database calls.                                                *)
(***************************************************************************)
EXTENDS UID

CONSTANTS Names,     \* user names
          SeedIds,   \* ids of users that are there from the start
          MaxUsers,  \* bound: users created
          Seed       \* the creator of the users of SeedIds

GivenId == 0 \* the id of the administrator, which its creators choose themselves

ASSUME SeedAssumption == Seed \notin Threads /\ SeedIds \subseteq Nat

VARIABLES
  users,   \* the collection: a function from ids to the creation that made the user
  hidden,  \* users with locked or remote: 1
  upc,     \* where each thread is in create
  name,    \* the name it registers
  id,      \* its local variable id
  created, \* history: what create returned, as <<creation, id>>
  crossed, \* history: names that were being registered twice at a time
  concealed, \* history: users that have been in hidden
  begun    \* creations begun of each thread

userVars == <<users, hidden, upc, name, id, created, crossed, concealed, begun>>

Named(i, n) == users[i][3] = n

UInit ==
  /\ Init
  /\ users \in [SeedIds -> {<<Seed, 0, n>> : n \in Names}]
  /\ hidden \in SUBSET SeedIds
  /\ \A i, j \in SeedIds \ hidden : users[i] = users[j] => i = j
  /\ upc = [t \in Threads |-> "out"]
  /\ name \in [Threads -> Names]
  /\ id = [t \in Threads |-> 0]
  /\ created = {} /\ crossed = {} /\ concealed = hidden
  /\ begun = [t \in Threads |-> 0]

UGoto(t, l) == upc' = [upc EXCEPT ![t] = l]
Creation(t) == <<t, begun[t], name[t]>>

TotalBegun == Cardinality({b \in Threads \X (1..MaxUsers) : b[2] <= begun[b[1]]})

Enter(t, n) ==
  /\ upc[t] = "out" /\ TotalBegun < MaxUsers
  /\ begun' = [begun EXCEPT ![t] = @ + 1]
  /\ name' = [name EXCEPT ![t] = n]

(* Mutant: nobody looks for the name. *)
NameUnseen(n) == FALSE

(* The query of create(name, password, jo): users of the name that are      *)
(* neither locked nor remote.                                               *)
NameTaken(n) == \E i \in DOMAIN users \ hidden : Named(i, n)

(* The name is refused when it is taken, else create(v) is called; a query  *)
(* that fails answers "no".                                                 *)
Try(t, n, taken) ==
  /\ Enter(t, n)
  /\ crossed' = {m \in Names : m \in crossed
                    \/ (m = n /\ \E u \in Threads : upc[u] # "out" /\ name[u] = n)}
  /\ \/ taken /\ UGoto(t, "out")
     \/ (~taken \/ "exists" \in FaultKinds) /\ UGoto(t, "call")
  /\ UNCHANGED <<vars, users, hidden, id, created, concealed>>

Register(t, n) == Try(t, n, NameTaken(n))

(* web/admin/user.add looks for any user of the name. *)
Add(t, n) == Try(t, n, \E i \in DOMAIN users : Named(i, n))

(* create(v) with the id 0 in v, for the administrator: by checkAndInit     *)
(* when it finds nobody with the access "config.admin", on any node that    *)
(* starts, and by the page web/configure.  Nobody looks whether the name is *)
(* taken, and what checkAndInit looks for is not the id.                    *)
CreateGiven(t, n) ==
  /\ Enter(t, n)
  /\ id' = [id EXCEPT ![t] = GivenId]
  /\ UGoto(t, "given")
  /\ UNCHANGED <<vars, users, hidden, created, crossed, concealed>>

(* web/admin/user.edit locks or unlocks a user (remote is written by other  *)
(* systems only).                                                           *)
Lock(i) ==
  /\ i \in DOMAIN users \ hidden
  /\ hidden' = hidden \cup {i} /\ concealed' = concealed \cup {i}
  /\ UNCHANGED <<vars, users, upc, name, id, created, crossed, begun>>

Unlock(i) ==
  /\ i \in hidden
  /\ hidden' = hidden \ {i}
  /\ UNCHANGED <<vars, users, upc, name, id, created, crossed, concealed, begun>>

(* id = UID.next("user.id") *)
CallNext(t) ==
  /\ upc[t] = "call"
  /\ Call(t)
  /\ UGoto(t, "next")
  /\ UNCHANGED <<users, hidden, name, id, created, crossed, concealed, begun>>

InNextStep(t) == upc[t] = "next" /\ Inside(t) /\ UNCHANGED userVars

NextReturned(t) ==
  /\ upc[t] = "next"
  /\ Consume(t)
  /\ id' = [id EXCEPT ![t] = got[t]]
  /\ UGoto(t, "exists")
  /\ UNCHANGED <<users, hidden, name, created, crossed, concealed, begun>>

(* Mutant: the id is used without asking whether it exists. *)
ExistsSkipped(t) ==
  /\ upc[t] = "exists"
  /\ UGoto(t, "store")
  /\ UNCHANGED <<vars, users, hidden, name, id, created, crossed, concealed, begun>>

(* while (exists(id)) id = next: a failed query answers "no" *)
Exists(t) ==
  /\ upc[t] = "exists"
  /\ \/ id[t] \in DOMAIN users /\ UGoto(t, "call")
     \/ (id[t] \notin DOMAIN users \/ "exists" \in FaultKinds) /\ UGoto(t, "store")
  /\ UNCHANGED <<vars, users, hidden, name, id, created, crossed, concealed, begun>>

(* insertCollection, whose result is not read: create returns id, also when *)
(* the id exists or the database fails ("store" in FaultKinds).             *)
Store(t) ==
  /\ upc[t] \in {"store", "given"}
  /\ \/ /\ id[t] \notin DOMAIN users
        /\ users' = [i \in DOMAIN users \cup {id[t]} |-> IF i = id[t] THEN Creation(t) ELSE users[i]]
     \/ /\ id[t] \in DOMAIN users \/ "store" \in FaultKinds
        /\ users' = users
  /\ created' = created \cup {<<Creation(t), id[t]>>}
  /\ UGoto(t, "out")
  /\ UNCHANGED <<vars, hidden, name, id, crossed, concealed, begun>>

UNext ==
  \/ \E i \in DOMAIN users : Lock(i) \/ Unlock(i)
  \/ \E t \in Threads :
    \/ \E n \in Names : Register(t, n) \/ Add(t, n) \/ CreateGiven(t, n)
    \/ CallNext(t) \/ InNextStep(t) \/ NextReturned(t) \/ Exists(t) \/ Store(t)

USpec == UInit /\ [][UNext]_<<vars, userVars>>

-----------------------------------------------------------------------------
(* "@return long of the user id, if failed, return -1" (User.java:73): the  *)
(* user under the id that create has chosen and returned is the one that    *)
(* was created, not someone else's, and is there, unless two nodes were     *)
(* given that number.  (register() in web/user.java logs its caller in as   *)
(* loadById(id).)  Left out is the id that was given, 0: it is returned     *)
(* also when the insert is refused because user 0 is there.                 *)
Issued(n, i) == \E k \in DOMAIN issued[n] : issued[n][k] = i
GivenTwice(i) == \E m, n \in Nodes : m # n /\ Issued(m, i) /\ Issued(n, i)

ReturnedIsStored ==
  \A c \in created : c[2] \notin {-1, GivenId} /\ ~GivenTwice(c[2]) =>
    c[2] \in DOMAIN users /\ users[c[2]] = c[1]

(* "name: login name, global unique" (User.java:29): users of one name are  *)
(* there only if their registrations overlapped, on one node or two, or one *)
(* of them has been locked (the query for the name does not see it, and it  *)
(* may be unlocked again), or is the administrator with the given id.       *)
NamesApart ==
  \A i, j \in DOMAIN users \ (concealed \cup {GivenId}), n \in Names \ crossed :
    Named(i, n) /\ Named(j, n) => i = j

-----------------------------------------------------------------------------
(* The inductive invariant, next to that of UID, when no query and no       *)
(* insert of a user fails.                                                  *)
Creations == Threads \X Nat \X Names
ThreadTypes ==
  /\ upc \in [Threads -> {"out", "call", "next", "exists", "store", "given"}]
  /\ name \in [Threads -> Names]
UTypeOK ==
  /\ ThreadTypes /\ id \in [Threads -> Nat \cup {-1}]
  /\ begun \in [Threads -> Nat]
  /\ users = [i \in DOMAIN users |-> users[i]]
  /\ created \subseteq Creations \X (Nat \cup {-1})

InStep == \A t \in Threads : IF upc[t] = "next" THEN pc[t] # "idle" ELSE pc[t] = "idle"

(* the id of the sequence that thread t has got and not used yet *)
Holds(t, i) ==
  \/ upc[t] = "next" /\ pc[t] = "returned" /\ got[t] = i
  \/ upc[t] \in {"exists", "store"} /\ id[t] = i

GivenIsZero == DOMAIN id = Threads /\ \A t \in Threads : upc[t] = "given" => id[t] = GivenId
HeldIsIssued ==
  \A t \in Threads, i \in Nat : Holds(t, i) => i # GivenId /\ Issued(NodeOf[t], i)
HeldOnce ==
  \A t, u \in Threads, i \in Nat :
    t # u /\ Holds(t, i) /\ Holds(u, i) => NodeOf[t] # NodeOf[u]
UsedUp ==
  \A c \in created : c[2] \notin {-1, GivenId} =>
    /\ Issued(NodeOf[c[1][1]], c[2])
    /\ \A t \in Threads : Holds(t, c[2]) => NodeOf[t] # NodeOf[c[1][1]]
StoreIsNew ==
  \A t \in Threads :
    upc[t] = "store" /\ id[t] # -1 /\ id[t] \in DOMAIN users => GivenTwice(id[t])

IdInv ==
  UTypeOK /\ InStep /\ GivenIsZero /\ HeldIsIssued /\ HeldOnce /\ UsedUp /\ StoreIsNew /\ ReturnedIsStored

(* A name that is being registered, alone, is nobody's but of users that    *)
(* have been locked.                                                        *)
Registering(t) == upc[t] \notin {"out", "given"}
NameInv ==
  /\ ThreadTypes /\ GivenIsZero
  /\ hidden \subseteq concealed
  /\ NamesApart
  /\ \A t \in Threads : Registering(t) /\ name[t] \notin crossed =>
       /\ \A i \in DOMAIN users : Named(i, name[t]) => i \in concealed \cup {GivenId}
       /\ \A u \in Threads \ {t} : Registering(u) => name[u] # name[t]
=============================================================================
