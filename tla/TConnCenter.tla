---------------------------- MODULE TConnCenter ----------------------------
(***************************************************************************)
(* framework/mdc: the registry of device connections on one MDC node       *)
(* (TConnCenter.conns), the hello handshake that enters a connection       *)
(* (command/Hello.java) and TConn.close, which takes it out.               *)
(*                                                                         *)
(* Every connection has three threads at most at work on it: the worker    *)
(* that processes its packets (TConn.process is synchronized), the I/O     *)
(* thread that reports the end of its session, and a worker that sends to  *)
(* it.  Neither close nor the registry takes a lock; a step is one access  *)
(* to a shared variable.  A HashMap operation is taken to be atomic.       *)
(***************************************************************************)
EXTENDS Naturals, FiniteSets

CONSTANTS Conns,     \* TConn objects, one for each session
          Senders,   \* those that messages are sent to
          Ids,       \* clients that have been activated
          Null,      \* null
          Bye,       \* the bye packet; a hello packet is the client id it names
          MaxPackets \* bound: packets of a connection

ASSUME NullAssumption == Null \notin Conns \cup Ids /\ Bye \notin Ids
ASSUME SendersAssumption == Senders \subseteq Conns
ASSUME MaxAssumption  == MaxPackets \in Nat

Actors == ({"proc", "io"} \X Conns) \cup ({"send"} \X Senders)
Proc(c) == <<"proc", c>>
Io(c)   == <<"io", c>>
Sender(c) == <<"send", c>>

VARIABLES
  conns,    \* TConnCenter.conns
  record,   \* the uid field of the client in gi_conn: "connected" stands for UID_INVALID (-1)
  session,  \* session[c]: the field session is not null
  wire,     \* wire[c]: the session is connected
  attr,     \* attr[c]: the session attribute "conn" is there
  clientid, id, valid, \* fields of the connection
  inbox,    \* packets received and not processed
  pc,       \* where each thread is
  asked,    \* the client id of the hello packet being processed
  target,   \* the connection a thread is closing
  after,    \* where it goes on when close returns
  read,     \* the id a thread has read for its next call
  last,     \* history: last[i], the connection put into the registry last
  crossed,  \* history: crossed[i], an entry was put under i between look-up and removal of another
  loose,    \* history: clients that c said hello as while another thread was closing it, or
            \* before it said hello as another client
  packets   \* packets so far

vars == <<conns, record, session, wire, attr, clientid, id, valid, inbox, pc, asked, target,
          after, read, last, crossed, loose, packets>>

fields  == <<session, wire, attr, clientid, id, valid>>
history == <<last, crossed, loose>>
calls   == <<asked, target, after, read>>
arrived == <<inbox, packets>>

Init ==
  /\ conns = [i \in Ids |-> Null]
  /\ record = [i \in Ids |-> "disconnected"]
  /\ session = [c \in Conns |-> TRUE] /\ wire = [c \in Conns |-> TRUE] /\ attr = [c \in Conns |-> TRUE]
  /\ clientid = [c \in Conns |-> Null] /\ id = [c \in Conns |-> Null]
  /\ valid = [c \in Conns |-> FALSE]
  /\ pc = [a \in Actors |-> "idle"]
  /\ asked = [c \in Conns |-> Null]
  /\ target = [a \in Actors |-> a[2]] /\ after = [a \in Actors |-> "idle"]
  /\ read = [a \in Actors |-> Null]
  /\ last = [i \in Ids |-> Null] /\ crossed = [i \in Ids |-> FALSE] /\ loose = [c \in Conns |-> {}]
  /\ inbox = [c \in Conns |-> {}] /\ packets = [c \in Conns |-> 0]

Goto(a, l) == pc' = [pc EXCEPT ![a] = l]

Closing == {"close", "drop", "owner", "mark", "forget", "find", "remove"}
InHello(c) ==
  \/ pc[Proc(c)] \in {"load", "validate", "login", "bind", "add", "put"}
  \/ pc[Proc(c)] \in Closing /\ after[Proc(c)] = "put"

(* Thread a calls c.close() and goes on at l. *)
CallClose(a, c, l) ==
  /\ Goto(a, "close")
  /\ target' = [target EXCEPT ![a] = c]
  /\ after' = [after EXCEPT ![a] = l]
  /\ loose' = [loose EXCEPT ![c] = IF a # Proc(c) /\ InHello(c) THEN @ \cup {asked[c]} ELSE @]

-----------------------------------------------------------------------------
(* MDCServer.service: every packet gets a worker task of its own, so that   *)
(* they are processed one at a time (process is synchronized), in any order *)

Receive(c, p) ==
  /\ wire[c] /\ attr[c] /\ packets[c] < MaxPackets
  /\ packets' = [packets EXCEPT ![c] = @ + 1]
  /\ inbox' = [inbox EXCEPT ![c] = @ \cup {p}]
  /\ UNCHANGED <<conns, record, fields, pc, calls, history>>

Process(c, p) ==
  /\ pc[Proc(c)] = "idle" /\ p \in inbox[c]
  /\ inbox' = [inbox EXCEPT ![c] = @ \ {p}]

(* Hello.onRequest *)
HelloArrives(c, i) ==
  /\ Process(c, i)
  /\ asked' = [asked EXCEPT ![c] = i]
  /\ loose' = [loose EXCEPT ![c] = @ \cup
                 {j \in Ids : \/ (j = asked[c] /\ j # i)
                             \/ (j = i /\ \E a \in Actors : pc[a] \in Closing /\ target[a] = c)}]
  /\ Goto(Proc(c), "load")
  /\ UNCHANGED <<conns, record, fields, target, after, read, last, crossed, packets>>

(* d.load(clientid), and getRemoteIp(), which throws when session is null;  *)
(* what is thrown is caught and answered with a failure.                    *)
Load(c) ==
  /\ pc[Proc(c)] = "load"
  /\ clientid' = [clientid EXCEPT ![c] = asked[c]]
  /\ Goto(Proc(c), IF session[c] THEN "validate" ELSE "reply")
  /\ UNCHANGED <<conns, record, session, wire, attr, id, valid, calls, arrived, history>>

(* validate: the password is wrong (or the client is locked), or the client *)
(* id is read for the update                                                *)
ValidateNo(c) ==
  /\ pc[Proc(c)] = "validate"
  /\ valid' = [valid EXCEPT ![c] = FALSE]
  /\ Goto(Proc(c), "reply")
  /\ UNCHANGED <<conns, record, session, wire, attr, clientid, id, calls, arrived, history>>

ValidateYes(c) ==
  /\ pc[Proc(c)] = "validate"
  /\ valid' = [valid EXCEPT ![c] = FALSE]
  /\ read' = [read EXCEPT ![Proc(c)] = clientid[c]]
  /\ Goto(Proc(c), "login")
  /\ UNCHANGED <<conns, record, session, wire, attr, clientid, id, asked, target, after, arrived, history>>

(* the update of the record, which changes nothing for a null client id *)
Login(c) ==
  /\ pc[Proc(c)] = "login"
  /\ valid' = [valid EXCEPT ![c] = read[Proc(c)] # Null]
  /\ record' = [i \in Ids |-> IF i = read[Proc(c)] THEN "connected" ELSE record[i]]
  /\ read' = [read EXCEPT ![Proc(c)] = Null]
  /\ Goto(Proc(c), IF read[Proc(c)] # Null THEN "bind" ELSE "reply")
  /\ UNCHANGED <<conns, session, wire, attr, clientid, id, asked, target, after, arrived, history>>

(* clientid and id are set; getRemoteIp() throws when session is null *)
Bind(c) ==
  /\ pc[Proc(c)] = "bind"
  /\ clientid' = [clientid EXCEPT ![c] = asked[c]]
  /\ id' = [id EXCEPT ![c] = asked[c]]
  /\ Goto(Proc(c), IF session[c] THEN "add" ELSE "reply")
  /\ UNCHANGED <<conns, record, session, wire, attr, valid, calls, arrived, history>>

(* TConn.equals: the same object, or the same id and the same session *)
EqualConn(m, c) == m = c \/ (id[m] = id[c] /\ ~session[m] /\ ~session[c])

(* Mutant: the connection found is not tested for null. *)
AddUntested(c) ==
  /\ pc[Proc(c)] = "add"
  /\ CallClose(Proc(c), conns[id[c]], "put")
  /\ UNCHANGED <<conns, record, fields, asked, read, arrived, last, crossed>>

(* TConnCenter.add: another connection under this id is closed first *)
Add(c) ==
  /\ pc[Proc(c)] = "add"
  /\ LET m == conns[id[c]] IN
       IF m # Null /\ ~EqualConn(m, c)
         THEN CallClose(Proc(c), m, "put")
         ELSE Goto(Proc(c), "put") /\ UNCHANGED <<target, after, loose>>
  /\ UNCHANGED <<conns, record, fields, asked, read, arrived, last, crossed>>

Put(c) ==
  /\ pc[Proc(c)] = "put"
  /\ conns' = [conns EXCEPT ![id[c]] = c]
  /\ last' = [last EXCEPT ![id[c]] = c]
  /\ crossed' = [crossed EXCEPT ![id[c]] = @ \/ \E a \in Actors : pc[a] = "remove" /\ read[a] = id[c]]
  /\ Goto(Proc(c), "reply")
  /\ UNCHANGED <<record, fields, calls, arrived, loose>>

(* d.send(out): a session that is gone or not connected closes c; otherwise *)
(* a worker writes the answer.                                              *)
Reply(c) ==
  /\ pc[Proc(c)] = "reply"
  /\ IF session[c] /\ wire[c]
       THEN Goto(Proc(c), "idle") /\ UNCHANGED <<target, after, loose>>
       ELSE CallClose(Proc(c), c, "idle")
  /\ UNCHANGED <<conns, record, fields, asked, read, arrived, last, crossed>>

(* Bye.onRequest; getRemoteIp() throws when session is null *)
ByeArrives(c) ==
  /\ Process(c, Bye)
  /\ IF session[c] THEN CallClose(Proc(c), c, "idle")
                   ELSE Goto(Proc(c), "reply") /\ UNCHANGED <<target, after, loose>>
  /\ UNCHANGED <<conns, record, fields, asked, read, packets, last, crossed>>

-----------------------------------------------------------------------------
(* The session ends (the peer leaves, the idle check, a wrong packet), and  *)
(* MINA reports it once: sessionClosed.                                     *)
Disconnect(c) ==
  /\ wire[c]
  /\ wire' = [wire EXCEPT ![c] = FALSE]
  /\ UNCHANGED <<conns, record, session, attr, clientid, id, valid, pc, calls, arrived, history>>

SessionClosed(c) ==
  /\ pc[Io(c)] = "idle" /\ ~wire[c]
  /\ IF attr[c]
       THEN CallClose(Io(c), c, "ended")
       ELSE Goto(Io(c), "ended") /\ UNCHANGED <<target, after, loose>>
  /\ UNCHANGED <<conns, record, fields, asked, read, arrived, last, crossed>>

(* send() (an answer, a message from the queue, a NOP) to a connection that *)
(* cannot be sent to any more: send or its worker calls close.              *)
SendFails(c) ==
  /\ c \in Senders /\ pc[Sender(c)] = "idle"
  /\ ~(session[c] /\ wire[c])
  /\ CallClose(Sender(c), c, "idle")
  /\ UNCHANGED <<conns, record, fields, asked, read, arrived, last, crossed>>

-----------------------------------------------------------------------------
(* TConn.close, by thread a                                                 *)

Leave(a, l) ==
  /\ Goto(a, l)
  /\ target' = [target EXCEPT ![a] = a[2]]
  /\ after' = [after EXCEPT ![a] = "idle"]
Stay(a, l) == Goto(a, l) /\ UNCHANGED <<target, after>>

Return(a) == Leave(a, after[a])

(* A thread that finds session null after its test throws; Hello catches it *)
Throw(a) == Leave(a, IF after[a] = "put" THEN "reply" ELSE after[a])

CloseTest(a) ==
  /\ pc[a] = "close"
  /\ Stay(a, IF session[target[a]] THEN "drop" ELSE "owner")
  /\ UNCHANGED <<conns, record, fields, asked, read, arrived, history>>

CloseDrop(a) ==
  /\ pc[a] = "drop"
  /\ LET c == target[a] IN
       IF session[c]
         THEN /\ attr' = [attr EXCEPT ![c] = FALSE]
              /\ wire' = [wire EXCEPT ![c] = FALSE]
              /\ session' = [session EXCEPT ![c] = FALSE]
              /\ Stay(a, "owner")
         ELSE Throw(a) /\ UNCHANGED <<attr, wire, session>>
  /\ UNCHANGED <<conns, record, clientid, id, valid, asked, read, arrived, history>>

CloseOwner(a) ==
  /\ pc[a] = "owner"
  /\ IF clientid[target[a]] = Null THEN Return(a) ELSE Stay(a, "mark")
  /\ UNCHANGED <<conns, record, fields, asked, read, arrived, history>>

(* Mutant: the record is not updated. *)
CloseMarkNothing(a) ==
  /\ pc[a] = "mark"
  /\ Stay(a, "forget")
  /\ UNCHANGED <<conns, record, fields, asked, read, arrived, history>>

(* update(getClientid(), uid = UID_DISCONNECTED) *)
CloseMark(a) ==
  /\ pc[a] = "mark"
  /\ record' = [i \in Ids |-> IF i = clientid[target[a]] THEN "disconnected" ELSE record[i]]
  /\ Stay(a, "forget")
  /\ UNCHANGED <<conns, fields, asked, read, arrived, history>>

(* Mutant: close returns without taking the connection out. *)
CloseForgetOnly(a) ==
  /\ pc[a] = "forget"
  /\ clientid' = [clientid EXCEPT ![target[a]] = Null]
  /\ Return(a)
  /\ UNCHANGED <<conns, record, session, wire, attr, id, valid, asked, read, arrived, history>>

CloseForget(a) ==
  /\ pc[a] = "forget"
  /\ clientid' = [clientid EXCEPT ![target[a]] = Null]
  /\ Stay(a, "find")
  /\ UNCHANGED <<conns, record, session, wire, attr, id, valid, asked, read, arrived, history>>

(* Mutant: the entry found is not compared with this connection. *)
RemoveFindAny(a) ==
  /\ pc[a] = "find"
  /\ LET c == target[a] IN
       IF id[c] # Null
         THEN read' = [read EXCEPT ![a] = id[c]] /\ Stay(a, "remove")
         ELSE UNCHANGED read /\ Return(a)
  /\ UNCHANGED <<conns, record, fields, asked, arrived, history>>

(* TConnCenter.remove(this): the entry is looked up, then removed by its id *)
RemoveFind(a) ==
  /\ pc[a] = "find"
  /\ LET c == target[a] IN
       IF id[c] # Null /\ conns[id[c]] = c
         THEN read' = [read EXCEPT ![a] = id[c]] /\ Stay(a, "remove")
         ELSE UNCHANGED read /\ Return(a)
  /\ UNCHANGED <<conns, record, fields, asked, arrived, history>>

RemoveDo(a) ==
  /\ pc[a] = "remove"
  /\ conns' = [conns EXCEPT ![read[a]] = Null]
  /\ read' = [read EXCEPT ![a] = Null]
  /\ Return(a)
  /\ UNCHANGED <<record, fields, asked, arrived, history>>

Close(a) ==
  CloseTest(a) \/ CloseDrop(a) \/ CloseOwner(a) \/ CloseMark(a) \/ CloseForget(a)
    \/ RemoveFind(a) \/ RemoveDo(a)

Work(c) ==
  Load(c) \/ ValidateNo(c) \/ ValidateYes(c) \/ Login(c) \/ Bind(c) \/ Add(c) \/ Put(c) \/ Reply(c)

Begin(c) == (\E i \in Ids : HelloArrives(c, i)) \/ ByeArrives(c)

Arrive(c) == (\E p \in Ids \cup {Bye} : Receive(c, p)) \/ Disconnect(c)

Next ==
  \/ \E c \in Conns : Arrive(c) \/ Begin(c) \/ Work(c) \/ SessionClosed(c) \/ SendFails(c)
  \/ \E a \in Actors : Close(a)

Spec == Init /\ [][Next]_vars

(* The workers and the I/O threads run on, and the I/O layer reports the    *)
(* end of a session.                                                        *)
Fairness ==
  /\ \A a \in Actors : WF_vars(Close(a))
  /\ \A c \in Conns : WF_vars(Work(c)) /\ WF_vars(SessionClosed(c))

FairSpec == Spec /\ Fairness

-----------------------------------------------------------------------------
TypeOK ==
  /\ conns \in [Ids -> Conns \cup {Null}]
  /\ record \in [Ids -> {"connected", "disconnected"}]
  /\ session \in [Conns -> BOOLEAN] /\ wire \in [Conns -> BOOLEAN] /\ attr \in [Conns -> BOOLEAN]
  /\ clientid \in [Conns -> Ids \cup {Null}] /\ id \in [Conns -> Ids \cup {Null}]
  /\ valid \in [Conns -> BOOLEAN]
  /\ pc \in [Actors -> {"idle", "load", "validate", "login", "bind", "add", "put", "reply", "ended"}
                        \cup Closing]
  /\ asked \in [Conns -> Ids \cup {Null}] /\ read \in [Actors -> Ids \cup {Null}]
  /\ target \in [Actors -> Conns] /\ after \in [Actors -> {"idle", "put", "ended"}]
  /\ last \in [Ids -> Conns \cup {Null}] /\ crossed \in [Ids -> BOOLEAN] /\ loose \in [Conns -> SUBSET Ids]
  /\ inbox \in [Conns -> SUBSET (Ids \cup {Bye})] /\ packets \in [Conns -> 0..MaxPackets]

Quiet == \A a \in Actors : pc[a] \in {"idle", "ended"}

(* When nothing is going on, the database names a client connected only if  *)
(* a connection of it has a session.  Left out are the clients a connection *)
(* said hello as while it was being closed (validate may then write         *)
(* UID_INVALID after the close wrote UID_DISCONNECTED, and no later close   *)
(* writes again: clientid is null), and before it said hello as another.    *)
RecordedIsConnected ==
  Quiet => \A i \in Ids : record[i] = "connected" =>
    \E c \in Conns : (session[c] /\ clientid[c] = i) \/ i \in loose[c]

(* When nothing is going on, the registry holds no closed connection,       *)
(* whichever threads closed it together, except under the same clients (add *)
(* then puts a connection that nobody closes again, and a close takes out   *)
(* the id of the last hello only).                                          *)
ClosedIsRemoved ==
  Quiet => \A i \in Ids : conns[i] # Null => session[conns[i]] \/ i \in loose[conns[i]]

(* A connection that lost its session leaves the registry, in the end.      *)
LostIsRemoved ==
  \A c \in Conns, i \in Ids : (conns[i] = c /\ ~wire[c]) ~> (conns[i] # c \/ i \in loose[c])

(* What a hello is for (Hello.java:95, "cache it in TConnCenter"): the      *)
(* connection that was put under an id last, and has its session, is found  *)
(* under it, however the close of the one it replaced runs on, unless it    *)
(* was put between the look-up and the removal of an earlier entry (remove  *)
(* compares the entry, then removes whatever is there by then).             *)
NewestIsCached ==
  Quiet => \A i \in Ids :
    last[i] # Null /\ session[last[i]] /\ ~crossed[i] => conns[i] = last[i]

-----------------------------------------------------------------------------
(* The inductive invariant.                                                 *)
Saying(c) ==  \* a hello of c that has been loaded
  \/ pc[Proc(c)] \in {"validate", "login", "bind", "add", "put"}
  \/ pc[Proc(c)] \in Closing /\ after[Proc(c)] = "put"

ClosingOK ==
  \A a \in Actors :
    /\ a[1] # "proc" => pc[a] \in {"idle", "ended"} \cup Closing /\ after[a] # "put"
    /\ pc[a] \in {"owner", "mark", "forget", "find", "remove"} => ~session[target[a]]
    /\ pc[a] = "remove" => read[a] \in Ids

HelloOK ==
  \A c \in Conns :
    /\ InHello(c) =>
         /\ asked[c] \in Ids
         /\ \A a \in Actors : a # Proc(c) /\ pc[a] \in Closing /\ target[a] = c => asked[c] \in loose[c]
    /\ Saying(c) => (session[c] /\ clientid[c] = asked[c]) \/ asked[c] \in loose[c]
    /\ pc[Proc(c)] \in {"add", "put"} => id[c] = asked[c]
    /\ pc[Proc(c)] \in Closing /\ after[Proc(c)] = "put" => id[c] = asked[c] /\ target[Proc(c)] # c
    /\ pc[Proc(c)] = "login" => read[Proc(c)] \in {Null, asked[c]} \cup loose[c]
    /\ clientid[c] \in {Null, asked[c]} \cup loose[c]
    /\ id[c] \in {Null, asked[c]} \cup loose[c]

(* A client recorded as connected has a session, or somebody who will close *)
(* c still has to mark it.                                                  *)
WillMark(c) ==
  /\ \E a \in Actors : target[a] = c /\ pc[a] \in {"close", "owner", "mark"}
  /\ \A a \in Actors : target[a] = c => pc[a] # "forget"
RecordHeld ==
  \A i \in Ids : record[i] = "connected" =>
    \E c \in Conns : i \in loose[c] \/ (clientid[c] = i /\ (session[c] \/ WillMark(c)))

(* A connection in the registry has a session, or somebody who will take it *)
(* out.                                                                     *)
WillRemove(c, i) ==
  \E a \in Actors :
    /\ target[a] = c
    /\ \/ pc[a] \in {"close", "owner"} /\ clientid[c] # Null
       \/ pc[a] \in {"mark", "forget", "find"}
       \/ pc[a] = "remove" /\ read[a] = i
CachedHeld ==
  \A i \in Ids, c \in Conns : conns[i] = c =>
    i \in loose[c] \/ (id[c] = i /\ ((session[c] /\ clientid[c] # Null) \/ WillRemove(c, i)))

NewestHeld ==
  \A i \in Ids : ~crossed[i] =>
    /\ last[i] # Null /\ session[last[i]] => conns[i] = last[i]
    /\ \A a \in Actors : pc[a] = "remove" /\ read[a] = i => conns[i] \in {Null, target[a]}

IInv == TypeOK /\ ClosingOK /\ HelloOK /\ RecordHeld /\ CachedHeld /\ NewestHeld
=============================================================================
