--------------------------------- MODULE MQ ---------------------------------
(***************************************************************************)
(* core/mq/MQ.java: call(), which sends a request and waits for the        *)
(* response in the handler it was given, and the receiver side that hands  *)
(* a response to the handler waiting for its sequence number.              *)
(*                                                                         *)
(* The static map handlers is shared without a lock by the calling threads *)
(* and by the worker threads that process messages; its operations are     *)
(* taken to be atomic.  The broker and the peer are external: a request is *)
(* answered once, at any time, or never.  A local variable that is out of  *)
(* scope has its first value.                                              *)
(***************************************************************************)
EXTENDS Integers, FiniteSets

CONSTANTS Callers,    \* threads that call MQ.call
          Workers,    \* worker threads that process messages
          Timeout,    \* the argument timeout, in milliseconds
          SendFails,  \* may the session fail?
          None,       \* no handler
          MaxCalls,   \* bound: calls in all
          MaxSeq,     \* bound: sequence numbers
          MaxNow      \* bound: the clock, which stands for any later time when it gets there

ASSUME CallersAssumption == IsFiniteSet(Callers) /\ None \notin Callers \X Nat
ASSUME BoundsAssumption  == Timeout \in Nat \ {0} /\ MaxCalls \in Nat
ASSUME ClockAssumption  == MaxNow \in Nat /\ MaxSeq \in Nat /\ MaxNow <= MaxSeq
ASSUME FlagsAssumption   == SendFails \in BOOLEAN

VARIABLES
  now,      \* System.currentTimeMillis()
  handlers, \* the map, from sequence numbers to the handler of a call
  pc, seq,  \* where each caller is, and its local variable seq
  since,    \* when its call began, and then its wait
  woken,    \* its wait has been notified
  number,   \* calls of each caller so far
  session,  \* the session is not null
  queue,    \* the producer is in the cache queues
  requests, \* sent and not answered, as <<sequence number, call>>
  responses,\* answered and not taken by a worker
  job,      \* the response each worker processes
  wpc,      \* where each worker is
  stub,     \* its local variable s
  received, \* history: <<handler, call>>: the handler's onResponse got the answer to call
  clash,    \* history: two calls in progress have had one number
  late      \* history: a call put its handler too long after it had chosen its number

vars == <<now, handlers, pc, seq, since, woken, number, session, queue, requests, responses, job, wpc,
          stub, received, clash, late>>

callVars   == <<pc, seq, since, number>>
workVars   == <<job, wpc, stub>>
histVars   == <<received, clash, late>>

Call(c)  == <<c, number[c]>>  \* the call c is in, and its handler
Seqs     == 0..MaxSeq
Handlers == Callers \X Nat
NoJob    == <<0, None>>
Calls    == Cardinality({h \in Callers \X (1..MaxCalls) : h[2] <= number[h[1]]})  \* calls so far

Init ==
  /\ now = 0
  /\ handlers = [s \in Seqs |-> None]
  /\ pc = [c \in Callers |-> "idle"] /\ seq = [c \in Callers |-> 0] /\ since = [c \in Callers |-> 0]
  /\ woken = [c \in Callers |-> FALSE] /\ number = [c \in Callers |-> 0]
  /\ session = TRUE /\ queue = FALSE
  /\ requests = {} /\ responses = {}
  /\ job = [w \in Workers |-> NoJob] /\ wpc = [w \in Workers |-> "idle"] /\ stub = [w \in Workers |-> None]
  /\ received = {} /\ clash = FALSE /\ late = FALSE

InProgress(c) == pc[c] \in {"send", "sync", "waiting", "finally"}

Goto(c, l)  == pc' = [pc EXCEPT ![c] = l]
WGoto(w, l) == wpc' = [wpc EXCEPT ![w] = l]

-----------------------------------------------------------------------------
(* call() *)

(* Mutant: every call numbers from one fixed start. *)
CallBeginAnew(c) ==
  /\ pc[c] = "idle" /\ Calls < MaxCalls /\ now < MaxNow
  /\ number' = [number EXCEPT ![c] = @ + 1]
  /\ seq' = [seq EXCEPT ![c] = 0] /\ since' = [since EXCEPT ![c] = now]
  /\ Goto(c, "probe")
  /\ UNCHANGED <<now, handlers, woken, session, queue, requests, responses, workVars, histVars>>

(* long seq = System.currentTimeMillis() *)
CallBegin(c) ==
  /\ pc[c] = "idle" /\ Calls < MaxCalls /\ now < MaxNow
  /\ number' = [number EXCEPT ![c] = @ + 1]
  /\ seq' = [seq EXCEPT ![c] = now] /\ since' = [since EXCEPT ![c] = now]
  /\ Goto(c, "probe")
  /\ UNCHANGED <<now, handlers, woken, session, queue, requests, responses, workVars, histVars>>

(* while (handlers.containsKey(seq)) seq++ *)
Probe(c) ==
  /\ pc[c] = "probe"
  /\ IF handlers[seq[c]] # None
       THEN seq[c] < MaxSeq /\ seq' = [seq EXCEPT ![c] = @ + 1] /\ UNCHANGED pc
       ELSE Goto(c, "put") /\ UNCHANGED seq
  /\ UNCHANGED <<now, handlers, since, number, woken, session, queue, requests, responses, workVars, histVars>>

(* getQueue, which waits for a lock and may ask the broker, finds the       *)
(* producer in the cache or has the session make it; and handlers.put.  The *)
(* clock has gone on since the number was chosen: up to Slack is in time.   *)
Slack == Timeout - Cardinality(Callers)

Put(c) ==
  /\ pc[c] = "put" /\ (session \/ queue)
  /\ queue' = TRUE
  /\ handlers' = [handlers EXCEPT ![seq[c]] = Call(c)]
  /\ clash' = (clash \/ \E d \in Callers : d # c /\ InProgress(d) /\ seq[d] = seq[c])
  /\ late' = (late \/ now = MaxNow \/ now - since[c] > Slack)
  /\ Goto(c, "send") /\ since' = [since EXCEPT ![c] = 0]
  /\ UNCHANGED <<now, seq, number, woken, session, requests, responses, workVars, received>>

(* getQueue returns null: nothing is put, but the number is removed as ever *)
PutFails(c) ==
  /\ pc[c] = "put" /\ ~queue /\ (SendFails \/ ~session)
  /\ Goto(c, "failed") /\ since' = [since EXCEPT ![c] = 0]
  /\ UNCHANGED <<now, handlers, seq, number, woken, session, queue, requests, responses, workVars, histVars>>

(* the message is sent; without a session, or when sending fails, what is   *)
(* thrown makes session null, for all later calls too                       *)
Send(c) ==
  /\ pc[c] = "send" /\ session
  /\ requests' = requests \cup {<<seq[c], Call(c)>>}
  /\ Goto(c, "sync")
  /\ UNCHANGED <<now, handlers, seq, since, number, woken, session, queue, responses, workVars, histVars>>

SendThrows(c) ==
  /\ pc[c] = "send" /\ (SendFails \/ ~session)
  /\ session' = FALSE
  /\ Goto(c, "finally")
  /\ UNCHANGED <<now, handlers, seq, since, number, woken, queue, requests, responses, workVars, histVars>>

(* synchronized (handler) { handler.wait(timeout); } *)
Wait(c) ==
  /\ pc[c] = "sync"
  /\ since' = [since EXCEPT ![c] = now]
  /\ Goto(c, "waiting")
  /\ UNCHANGED <<now, handlers, seq, number, woken, session, queue, requests, responses, workVars, histVars>>

(* Mutant: handler.wait() without the timeout. *)
WaitForNotify(c) ==
  /\ pc[c] = "waiting" /\ woken[c]
  /\ Goto(c, "finally") /\ since' = [since EXCEPT ![c] = 0] /\ woken' = [woken EXCEPT ![c] = FALSE]
  /\ UNCHANGED <<now, handlers, seq, number, session, queue, requests, responses, workVars, histVars>>

WaitEnds(c) ==
  /\ pc[c] = "waiting"
  /\ woken[c] \/ now - since[c] >= Timeout \/ now = MaxNow
  /\ Goto(c, "finally") /\ since' = [since EXCEPT ![c] = 0] /\ woken' = [woken EXCEPT ![c] = FALSE]
  /\ UNCHANGED <<now, handlers, seq, number, session, queue, requests, responses, workVars, histVars>>

(* Mutant: the entry stays. *)
FinallyNothing(c) ==
  /\ pc[c] \in {"finally", "failed"}
  /\ Goto(c, "idle") /\ seq' = [seq EXCEPT ![c] = 0]
  /\ UNCHANGED <<now, handlers, since, number, woken, session, queue, requests, responses, workVars, histVars>>

Finally(c) ==
  /\ pc[c] \in {"finally", "failed"}
  /\ handlers' = [handlers EXCEPT ![seq[c]] = None]
  /\ Goto(c, "idle")
  /\ seq' = [seq EXCEPT ![c] = 0]
  /\ UNCHANGED <<now, since, number, woken, session, queue, requests, responses, workVars, histVars>>

-----------------------------------------------------------------------------
(* process(), on a worker: a response that has arrived                      *)

Take(w, r) ==
  /\ wpc[w] = "idle" /\ r \in responses
  /\ responses' = responses \ {r}
  /\ job' = [job EXCEPT ![w] = r]
  /\ WGoto(w, "look")
  /\ UNCHANGED <<now, handlers, callVars, woken, session, queue, requests, stub, histVars>>

(* handlers.containsKey(seq); else the response goes to the receiver's own  *)
(* stub                                                                     *)
Look(w) ==
  /\ wpc[w] = "look"
  /\ IF handlers[job[w][1]] # None THEN WGoto(w, "remove") /\ UNCHANGED job
       ELSE WGoto(w, "idle") /\ job' = [job EXCEPT ![w] = NoJob]
  /\ UNCHANGED <<now, handlers, callVars, woken, session, queue, requests, responses, stub, histVars>>

(* Mutant: a handler that is gone by now is called all the same. *)
RemoveUntested(w) ==
  /\ wpc[w] = "remove"
  /\ handlers' = [handlers EXCEPT ![job[w][1]] = None]
  /\ stub' = [stub EXCEPT ![w] = handlers[job[w][1]]]
  /\ received' = received \cup {<<handlers[job[w][1]], job[w][2]>>}
  /\ WGoto(w, "notify")
  /\ UNCHANGED <<now, callVars, woken, session, queue, requests, responses, job, clash, late>>

(* s = handlers.remove(seq), which may be null by now: s.onResponse throws  *)
Remove(w) ==
  /\ wpc[w] = "remove"
  /\ LET s == job[w][1]  h == handlers[s] IN
       IF h = None
         THEN WGoto(w, "idle") /\ UNCHANGED <<handlers, stub, received>>
         ELSE /\ handlers' = [handlers EXCEPT ![s] = None]
              /\ stub' = [stub EXCEPT ![w] = h]
              /\ received' = received \cup {<<h, job[w][2]>>}
              /\ WGoto(w, "notify")
  /\ UNCHANGED <<now, callVars, woken, session, queue, requests, responses, clash, late>>
  /\ job' = [job EXCEPT ![w] = NoJob]

(* synchronized (s) { s.notifyAll(); } wakes the caller if it waits         *)
Notify(w) ==
  /\ wpc[w] = "notify"
  /\ woken' = [c \in Callers |-> woken[c] \/ (stub[w] = Call(c) /\ pc[c] = "waiting")]
  /\ WGoto(w, "idle") /\ stub' = [stub EXCEPT ![w] = None]
  /\ UNCHANGED <<now, handlers, callVars, session, queue, requests, responses, job, received, clash, late>>

-----------------------------------------------------------------------------
(* The peer and the clock *)

Answer(r) ==
  /\ r \in requests
  /\ requests' = requests \ {r}
  /\ responses' = responses \cup {r}
  /\ UNCHANGED <<now, handlers, callVars, woken, session, queue, workVars, histVars>>

Tick ==
  /\ now < MaxNow
  /\ now' = now + 1
  /\ UNCHANGED <<handlers, callVars, woken, session, queue, requests, responses, workVars, histVars>>

(* send, broadcast or response fails in another thread: the session is theirs too *)
SessionLost ==
  /\ SendFails /\ session
  /\ session' = FALSE
  /\ UNCHANGED <<now, handlers, callVars, woken, queue, requests, responses, workVars, histVars>>

Advance(c) ==
  Probe(c) \/ Put(c) \/ PutFails(c) \/ Send(c) \/ SendThrows(c) \/ Wait(c) \/ WaitEnds(c) \/ Finally(c)
Worker(w) == (\E r \in responses : Take(w, r)) \/ Look(w) \/ Remove(w) \/ Notify(w)

Next ==
  \/ \E c \in Callers : CallBegin(c) \/ Advance(c)
  \/ \E w \in Workers : Worker(w)
  \/ \E r \in requests : Answer(r)
  \/ Tick \/ SessionLost

Spec == Init /\ [][Next]_vars

(* Threads run on, and time passes; no answer need ever come, and no worker *)
(* need be free for one.                                                    *)
FairSpec == Spec /\ (\A c \in Callers : WF_vars(Advance(c))) /\ WF_vars(Tick)

-----------------------------------------------------------------------------
Messages == Seqs \X Handlers

TypeOK ==
  /\ now \in 0..MaxNow
  /\ handlers \in [Seqs -> Handlers \cup {None}]
  /\ pc \in [Callers -> {"idle", "probe", "put", "send", "sync", "waiting", "finally", "failed"}]
  /\ seq \in [Callers -> Seqs] /\ since \in [Callers -> 0..MaxNow]
  /\ woken \in [Callers -> BOOLEAN] /\ number \in [Callers -> Nat]
  /\ session \in BOOLEAN /\ queue \in BOOLEAN
  /\ requests \subseteq Messages /\ responses \subseteq Messages
  /\ job \in [Workers -> Messages \cup {NoJob}]
  /\ wpc \in [Workers -> {"idle", "look", "remove", "notify"}]
  /\ stub \in [Workers -> Handlers \cup {None}]
  /\ received \subseteq Handlers \X Handlers
  /\ clash \in BOOLEAN /\ late \in BOOLEAN

(* A worker that looks for a handler has a response. *)
Busy == \A w \in Workers : wpc[w] \in {"look", "remove"} => job[w] \in Messages

(* Every entry of the map belongs to a call in progress under its number:   *)
(* neither a timeout nor a failure leaves one behind.                       *)
NoStaleHandler ==
  \A s \in Seqs : handlers[s] # None =>
    \E c \in Callers : handlers[s] = Call(c) /\ seq[c] = s /\ InProgress(c)

(* The handler found under the number of an answer is that of the call it   *)
(* answers, however late the answers of earlier calls come in, unless two   *)
(* calls in progress have had one number (it is looked up and taken in      *)
(* separate steps, and may be taken again before the call that was answered *)
(* has left), or a call needed nearly its whole timeout to get from its     *)
(* number to its handler's place in the map: more than the timeout less the *)
(* number of callers, by which probing may run ahead of the clock.          *)
OwnAnswer == ~clash /\ ~late => \A r \in received : r[1] = r[2]

(* "send the message and waiting the response until timeout" (MQ.java:386): *)
(* every call comes back, whether its answer comes in time, before it waits *)
(* (notifyAll then wakes nobody, and the wait lasts its whole timeout), is  *)
(* taken by another call of the same number, or never comes.                *)
CallsReturn == \A c \in Callers : pc[c] # "idle" ~> pc[c] = "idle"

-----------------------------------------------------------------------------
(* The inductive invariant behind OwnAnswer: a number under which an answer *)
(* is still to come is not chosen again.                                    *)
N         == Cardinality(Callers)
AtWork(w) == wpc[w] \in {"look", "remove"}
InFlight  == requests \cup responses \cup {job[w] : w \in {v \in Workers : AtWork(v)}}
WasSent(h) ==
  /\ h \in Handlers /\ h[2] <= number[h[1]]
  /\ h[2] = number[h[1]] => pc[h[1]] \notin {"probe", "put", "send"}

(* Numbers run ahead of the clock by less than there are callers: a caller  *)
(* goes past a number only while another one holds it.                      *)
Spread   == \A k \in 1..N : Cardinality({c \in Callers : seq[c] >= now + k}) <= N - k
Waiting  == \A c \in Callers : pc[c] = "waiting" => seq[c] < since[c] + N
Choosing == \A c \in Callers : pc[c] \in {"probe", "put"} => seq[c] >= since[c]

(* Every call is sent at most once, and its message is in one place.        *)
Once ==
  /\ \A m \in InFlight : WasSent(m[2])
  /\ requests \cap responses = {}
  /\ \A m, n \in requests \cup responses : m[2] = n[2] => m = n
  /\ \A w \in Workers : AtWork(w) => \A m \in requests \cup responses : m[2] # job[w][2]
  /\ \A v, w \in Workers : v # w /\ AtWork(v) /\ AtWork(w) => job[v][2] # job[w][2]

(* Until its message is sent, the entry of a call is its own, or has been   *)
(* removed by a call that failed to put one.                                *)
OwnEntry == \A c \in Callers : pc[c] = "send" => handlers[seq[c]] \in {None, Call(c)}

(* A call that is, or is to be, notified has no answer left to come.        *)
Answered ==
  /\ \A w \in Workers : wpc[w] = "notify" => WasSent(stub[w]) /\ \A m \in InFlight : m[2] # stub[w]
  /\ \A c \in Callers : woken[c] =>
       pc[c] = "waiting" /\ \A m \in InFlight : m[2] # Call(c)

(* While an answer is to come, no other call has put its handler under the  *)
(* number; and none will in time: the clock is far past it, or its call     *)
(* still waits.                                                             *)
Reserved ==
  \A m \in InFlight :
    /\ handlers[m[1]] \in {None, m[2]}
    /\ \/ m[1] < now - Slack \/ now = MaxNow
       \/ \E c \in Callers : pc[c] \in {"sync", "waiting"} /\ seq[c] = m[1] /\ Call(c) = m[2]

IInv ==
  /\ TypeOK /\ Busy /\ NoStaleHandler /\ Spread /\ Waiting /\ Choosing /\ Once
  /\ ~clash /\ ~late => OwnEntry /\ Answered /\ Reserved /\ OwnAnswer
=============================================================================
