# A TLA+ model of webgiisoo

webgiisoo is a Java web framework made of modules and plug-ins.  A servlet
dispatches requests to `Model` classes; background work runs in a pool of
`WorkerTask`s; nodes talk over a message queue (`MQ`); devices talk to nodes
over a binary protocol (`mdc`); data lives in MongoDB behind `Bean` classes.
This directory models the parts in which threads, nodes, messages or failures
meet, checks them with TLC on small instances, and proves the main facts with
TLAPS for every instance.

- [1 Inventory](#1-inventory): the parts, their state, what is hard about them
- [2 Modules](#2-modules): which module models what, state and actions
- [3 Runs](#3-runs): what TLC checks, the bounds, what it shows
- [4 Disagreements](#4-disagreements-between-code-and-comments)
- [5 Fairness](#5-fairness)
- [6 Proofs](#6-proofs)
- [7 What is left out](#7-what-is-left-out)
- [8 Plan](#8-plan)

To check a module: `tlc -config <file>.cfg <MC module>`; to check a proof:
`tlapm <module>Proofs.tla`.  `PROJECT.json` lists components, runs, mutants,
the source lines of every definition, hazards and theorems.

Paths below are relative to `src/src/main/java/`; `core` stands for
`core/com/giisoo/core`, `fw` for `framework/com/giisoo/framework`.

## 1 Inventory

| Part | State it keeps | Operations | How it meets the others |
|---|---|---|---|
| Task scheduler, `core/worker/WorkerTask` | thread pool; static lists `pendingQueue`, `runningQueue` under one lock; per task `stop`, `sf`, `who` | `init`, `schedule`, `run`, `stop`, `stopAll` | every background job, every MQ message and every packet of a device runs in it |
| Sequence numbers, `core/bean/UID` | one document of `gi_config` per key (`var`, `linkid`), shared by all nodes | `next(key)`, `synchronized` in one node | user ids, company numbers |
| User accounts, `fw/common/User` | collection `gi_user`; login lock | `create`, `checkAndInit`, `update`, `delete`, login lock | calls `UID.next` |
| Configuration, `core/conf/SystemConfig` | documents of `gi_config`; per node a cache of ten minutes | `i`, `d`, `s`, `l`, `setConfig` | read by every part |
| Message queue, `core/mq/MQ` | static `session`, producers, `handlers` by sequence number | `call`, `send`, `broadcast`, `response`, `onMessage` | answers come in on `WorkerTask` threads |
| Packet layer, `fw/mdc/MDCServer`, `MDCConnector`, `SimpleIoBuffer` | per session a byte buffer, attributes `conn`, `last`, `buf` | `service`, `sessionCreated`, `sessionClosed`, `sessionIdle` | hands packets to `TConn.process` in new `WorkerTask`s |
| Device connections, `fw/mdc/TConn`, `TConnCenter`, `command/Hello`, `Bye` | registry `conns` by client id; per connection `session`, `clientid`, `id`, `valid`; `uid` of the client in `gi_conn` | hello, bye, `add`, `remove`, `close`, `send` | three kinds of threads touch a connection, no lock |
| Device commands and callbacks, `command/Activate`, `App`, `TConn.post`, `onResponse` | static map `callback` | activate, app request, response, timeout checker | route over MQ and back |
| Bulk synchronisation, `fw/utils/SyncTask`, `Publisher`, `web/data`, `web/admin/sync` | `lasttime` of a collection, `synced` flags, the address of the peer | get loop by page, set loop, change of the address | HTTP to another system; programs write while it reads |
| Object pool, `core/bean/Pool` | `list`, `created` | `get`, `release`, `destroy` | none in `src` |
| Caches, `core/cache` | `FileCache`: LRU map, queue, files | `get`, `set`, `remove` | sessions, pages |
| Repository, `fw/common/Repo`, `web/upload`, `web/repo` | files by id, a header with the position, the bytes | `store` by parts, `delete` | every request on a thread of its own, no lock |
| Upload control, `view/js/jquery.upload.js` over `jquery.fileupload.js` | in the browser: state of the upload, timers, bytes answered for | choose, send in parts, retry, stop, resume, discard | posts to `web/upload`; a request given up goes on there |
| Sessions and login, `fw/common/Session`, `web/user` | session objects in the cache, failed logins | login, register, logout | |
| Cluster bookkeeping, `Cluster`, `Load`, `Stat`, `Temp` | counters, loads of nodes | `Counter.add`, `Load.update` | |
| Roles, menus, companies, logs | single documents | create, update | |
| Web framework, `Module`, `Model`, `Controller`, `Language` | modules by id, class loaders, templates | dispatch, install, upgrade | |
| Default module, `DefaultListener` | periodic tasks | backup, ntp, heartbeat, clean-up ... | `WorkerTask` |
| Data access, `Bean`, `Beans`, `DB` | connections | load, insert, update, delete | everything |

What is hard in these parts, and the properties that would catch it:

- **Scheduler.** A task object stands for its *name* in both lists
  (`equals`), and for itself in `sf`, `stop` and `who`.  Futures of one name
  fire together; entries are removed by whoever comes first; `stopAll` walks
  lists that it shortens.  Correct means: one execution of a name at a time, no
  accepted schedule lost, no list entry left without an owner, a shutdown that
  ends.
- **Sequence.** Nodes race for one document by `linkid` and by conditional
  update.  Correct means: no number twice, at least on one node.
- **Users.** An id is chosen, tested and inserted in separate calls.  Correct
  means: the id returned is the user created.
- **Configuration.** Readers put back what a setter has just removed.  Correct
  means: bounded staleness, and a node that sees its own writes.
- **MQ.** Numbers are looked up and taken, handlers are looked up and removed,
  in separate steps; answers come late.  Correct means: the answer to a request
  reaches its caller, soon, and nobody else.
- **Packets.** The stream of a peer is cut anywhere; the buffer moves and
  grows.  Correct means: every packet once, whole, in order, at once.
- **Connections.** `close` runs on three threads; add and remove look and act
  in separate steps.  Correct means: registry and database agree with the
  connections there are, and the newest connection of a client is the one found.
- **Uploads.**  A request that failed in the browser may still be stored by the
  server, next to its own retry; the header, the data and the position are
  written one after the other.  Correct means: what is reported as uploaded is
  there, byte for byte, and an upload ends.
- **Synchronisation.**  A collection is read by offset while programs write to
  it, and a document gets its time before it is written.  Correct means: every document
  arrives, and a run gives its worker back.

Every hazard found is listed in `PROJECT.json` at its line, those no property
covers with the reason.

## 2 Modules

| Module | Models | Extended by |
|---|---|---|
| `Scheduler` | what the scheduler promises by the names of its tasks (abstract) | instantiated by `WorkerTask` |
| `WorkerTask` | the scheduler; implements `Scheduler` | `MCWorkerTask`, `WorkerTaskProofs` |
| `UID` | `UID.next` on threads of several nodes | `UserCreate`, `MCUID` |
| `UserCreate` | `User.create`, the administrator's creation, adding and locking of users, over `UID` (composition) | `MCUserCreate`, `UserCreateProofs` |
| `SystemConfig` | the cache of one name on several nodes, with a clock | `MCSystemConfig`, `SystemConfigProofs` |
| `MQ` | `call` and the handling of responses | `MCMQ`, `MQProofs` |
| `TConnCenter` | hello, bye, registry, close, failing sends | `MCTConnCenter`, `TConnCenterProofs` |
| `PacketStream` | what the packet layer promises (abstract) | instantiated by `MDCService` |
| `MDCService` | the receiving loop over the buffer; implements `PacketStream` | `MCMDCService`, `MDCServiceProofs` |
| `Repo` | `Repo.Entity.store` and `web/upload` for the parts of one file | `Upload` |
| `Upload` | the upload control over `Repo` (composition) | `MCUpload`, `UploadProofs` |
| `SyncTask` | both loops of one collection, the query and the update on the other side | `MCSyncTask`, `SyncTaskProofs` |

The `MC` modules only give constants their values.  Definitions marked *Mutant*
are deliberate mistakes: replacing the definition they are named after by them
must make TLC report the property that `PROJECT.json` pairs them with.

**`WorkerTask`.**  Each `synchronized(lock)` block is one step; the flag `stop`,
the field `who` and the head of `schedule` are read outside of the lock and are
steps of their own.  `wpc[w]` is where thread `w` is in `run()` (`enter`: before
the lock; `check`: before the test of `stop`; `bind`: before `who = thread`;
`exec`; `finish`: before the second locked block; `unbind`: before the outer
`finally`).  `live[t]` counts the futures of `t` in the executor; `sf[t]` says
whether the one that `t` remembers is among them, so that a future `t` has lost
track of is in `live` and not in `sf`.  The thread of `stopAll` keeps the lock
over the passes of its loops.  Delays are nondeterminism: a queued future may
fire whenever a thread is idle.  `owed` is a history variable: names with an
accepted schedule and no `onExecute` since.  `calls` bounds the calls from
outside; periodic tasks go on for ever.  `Scheduler` is what is left of this by
names: the names owed an execution, the names a thread executes (`Running`, the
refinement mapping), and whether `stopAll` has been called.

**`UID`, `UserCreate`.**  `next` on one node is one thread at a time (`lock[n]`)
and a step per database call: load, insert, read back, conditional update.
`FaultKinds` names the calls that may fail and how (a failed query reads as
"nothing", a failed update as 0).  `random()` never repeats.  `UserCreate` runs
its own steps between those of `UID`: the name test, `next`, the `exists` loop,
the insert whose result is not read.  `Register` is `create(name, password, jo)`,
whose query sees no user that is locked or remote (`hidden`); `Add` is the page
`admin/user`, whose query sees all.  `CreateGiven` creates the administrator with
id 0: `checkAndInit` looks for a role and not for the id, so it may come at any
time, on any node, and its insert may be refused.  `Lock` and `Unlock` are the
same page's edit.  `SeedIds` are users there before the sequence starts.
Histories: `crossed`, the names that two threads were registering at a time;
`concealed`, the users that have ever been hidden.

**`SystemConfig`.**  One name, the entries of each node's map, the document, and
a clock.  A reader looks at the map, queries, and puts what it found or the
default; `setConfig` (one at a time on a node) removes the entry, asks whether the
document exists and updates or inserts.  Histories: `until` (when a value was
last in the database), `raced` (a `setConfig` of the node overlapped the read).

**`MQ`.**  A caller takes a number from the clock, probes the map, puts its
handler, sends, enters the monitor, waits, removes its number.  A call for which
`getQueue` finds no producer (`PutFails`) puts nothing and removes the number all
the same (`failed`).  The session is lost when a call throws, or when `send`,
`broadcast` or `response` does in another thread (`SessionLost`).  A worker looks the handler of a response up, removes it, calls it, notifies.  Operations on the
`HashMap` are atomic steps.  The broker and the peer are external: a request is
answered once, at any time, or never.  The clock may pass anywhere, also while
`getQueue` waits between a number and its entry.  Histories: `clash`, two calls in
progress had one number; `late`, a call put its handler more than `Slack` (the
timeout less the number of callers) after it had read the clock.  `MaxNow` stands for any later time once the clock is there;
`MaxSeq` leaves room for the numbers that probing reaches beyond it.

**`TConnCenter`.**  Every connection has a worker that processes its packets one
at a time in any order, an I/O thread that reports the end of its session, and
perhaps a worker that sends to it.  A step is one access to a shared variable.
`close` is a sub-program of every thread: `close` (is `session` null?), `drop`,
`owner` (is `clientid` null?), `mark`, `forget`, `find`, `remove`; `after` is
where the thread goes on.  `read` is an id read before the call it is used in.
Histories: `last` (who was put under an id last), `crossed` (an entry was put
between the look-up and the removal of another under its id), `loose` (the clients a
connection said hello as while another thread was closing it, or before it said
hello as another client).

**`PacketStream`, `MDCService`.**  The abstract module says: the stream `wire`
arrives in reads of any size; `done` bytes of it are in packets handed over; a
packet complete in the stream is delivered, a malformed one ends the session.
The detailed module has the array `buf` with `s`, `e`, `mark`, the three ways of
`append` (room behind, room when moved to the front, a longer array), and one
action for each exit of a pass of the loop.  `Stream` is the refinement mapping:
`done` is what has arrived less what is unread in the buffer.  The contents of
packets are kept as they came; `decode` may fail, and `unzip` may fail or never end
(`Spins`; `stuck` and `Stall` in the abstract module): `Zip.unzip` asks `inflate` for more
as long as the stream of the packet is not finished, and gets nothing.

**`Repo`, `Upload`.**  `Repo` has the file (`exists`, the position `head` in its
header, the bytes `cell`) and a handler per request; a step is one access to the file
system: test and load, truncate, header, data, padding byte by byte, open and read
the position, write a part, write the position.  `gen` tells a deleted file,
to which an open handler still writes, from the one that took its place.  A failing
`store` removes the file on an `IOException` while it is set up (`InitialiseFails`) and
leaves it otherwise (`RowFails`, `AppendFails`).
`Upload` adds the page: `ui` is the state of the promise (`stuck` is pending
with nothing under way), `cur` the request waited for, `timers` the retries set
and not fired.  A fault is a request that fails in the browser while the server
goes on with it, an exception in `store`, a login that is gone, a stop, a second
choice of the file, a reload, a restart of the server, or a deletion.
Histories: `raced` (two requests at work where the file had no header, or was
being set up), `removed` (the file was deleted during the attempt).

**`SyncTask`.**  `upd[d]` is the time of document `d`, 0 while it is not there;
a write takes its time (`Stamp`) and takes effect later (`Write`).  The loop
keeps its query (`from`), offset (`s`) and page; a document of a page is dealt
with in one step, or sent and then marked in two.  `sync.task` reads the address and
schedules a run (`Schedule`), which begins later and then reads `lasttime` (`Begin`),
or is dropped because one is running (`Drop`).  `sync.set` writes the new address
(`MoveUrl`: runs waiting or begun keep the old one, `old`) and later resets `lasttime`
(`Reset`); `sync.reset` does the latter alone (`ResetAsked`).  A loop that had read
`lasttime` before is `stale`.  The other side is `current`: the
documents whose present version it has.  `missed` records, at the write, the
failure, the change of the address, or when `lasttime` is brought up by a loop that is
`old` or `stale` (`Passed`), the documents the loop cannot know it has to copy again;
copying one anyway takes it out.

## 3 Runs

| Run | Instance | Properties |
|---|---|---|
| `worker_safety` | 2 pool threads, 3 task objects (2 of one name, 1 periodic, 1 uninterruptable), 3 outside calls, `stopAll` at any moment | `TypeOK`, `MutualExclusion`, `NoLostSchedule`, `RunningOwned`, `PendingCoversFutures`, `SweepInBounds`, `PeriodicGoesOn`, `Implements` |
| `worker_liveness` | the same with 2 outside calls, fair | `ScheduledRuns`, `ShutdownCompletes` |
| `worker_one_schedule` | 1 periodic task | `OneSchedulePerName`, violated |
| `user_cluster` | 2 threads on one node, 1 on another, 4 calls, 3 users registered, added or given id 0, all of one name, a user with id 1 there before, locked or not, failing loads and inserts | `TypeOK`, `PerNodeIncreasing`, `CreatedOnce`, `ReturnedIsStored`, `NamesApart` |
| `uid_two_nodes` | 1 thread on each of 2 nodes, nothing fails | `UniqueSequence`, violated |
| `config_cache` | 3 threads on 2 nodes, 3 operations, 4 ticks, age 2 | `TypeOK`, `AnswerAge`, `SetInvalidates` |
| `conn_pair` | 2 connections, 2 clients, 1 packet each, disconnections | `TypeOK`, `RecordedIsConnected`, `ClosedIsRemoved`, `NewestIsCached` |
| `conn_send` | 1 connection, 2 clients, 2 packets, a sender that fails, fair | `LostIsRemoved` |
| `mq_calls` | 2 callers, 2 workers, 2 calls, a session that may fail in any thread, fair | `TypeOK`, `NoStaleHandler`, `OwnAnswer`, `CallsReturn` |
| `mdc_service` | 7 streams of 3 packets, reads of 1 to 6 bytes, array of 7 bytes, `MAX_SIZE` 3, fair | `TypeOK`, `Unread`, `Drained`, `BoundedBuffer`, `Implements`, `ImplementsFair` |
| `upload` | 3 parts, 2 requests at once, 2 faults of any kind, fair | `TypeOK`, `DoneIsComplete`, `Finishes` |
| `sync` | 3 documents, 3 collections to start with, pages of 2, 3 times, 2 writes, 1 failure, change of the address or reset, any set of refused documents, fair | `TypeOK`, `SettledIsCopied`, `Arrives`, `RunEnds` |

Why the bounds are enough for the cases that matter:

- `worker_*`: two threads and two objects of one name give a duplicate run; a
  periodic object called from outside gives a future it has lost track of; three
  calls give one of each and one more during the sweep; the uninterruptable
  object makes `stopAll` go round.
- `user_cluster`: two nodes create the counter together and meet in the update,
  a third thread waits for the lock of its node; the number 1 is taken by a user,
  so that the `exists` loop turns.  Four calls of `next` are enough for the
  creation race (two, one of them answered by the other's `linkid`) followed by two
  turns of the counter.  `MaxLinks` bounds attempts to create.
- `config_cache`: an age of two ticks in four has entries that are fresh, that expire, and
  that expire while a reader is under way.
- `conn_*`: two connections are what `add`, `remove` and `close` of a replaced
  connection need, for one client or two.  The second packet in `conn_send` is
  a bye, or a second hello, as the same client or another, racing with the disconnection.
- `mq_calls`: two callers of one millisecond; a second call, while the answer to
  the first is still under way (`Timeout` 3 of 4 ticks); both workers busy with
  answers whose callers have left.  `Slack` is 1: entries are put in the
  millisecond of their number, in the next, and too late.
- `upload`: the first part sets the file up, the second and third are
  appended; a request given up by the browser, still at work, beside its retry;
  a second fault on top (a restart, a deletion, another failure).  The proof has
  no such bounds.
- `sync`: a full page and a page to come; a write between two pages, one with a
  time already passed, one during a page, and two on top of each other.  Three times
  are what a loop needs that begins between the new address and the reset: a document
  before its query, one at it, and a later one with which it brings `lasttime` up
  again.  With three
  writes the run takes too long for its liveness properties with two workers; the
  safety property was once violated there only (a page in hand, a write that takes
  its document back in time, then a third write), which is why it is proved.
- `mdc_service`: three packets of which the last is good, coded, of a wrong head,
  of length zero, too long, or of a negative length in two's complement; reads
  from one byte to more than a packet; an array so short that all three cases
  of `append` occur.

`CHECK_DEADLOCK FALSE` is in every configuration: the bounded calls run out, the
process of `stopAll` exits, sessions end.

Exceptions that properties make, and why:

- `MutualExclusion`, `NoLostSchedule`, `PendingCoversFutures` end with
  `stopAll`: `stop()` of an interruptable task removes its entries while it may
  go on executing.  `RunningOwned` and `SweepInBounds` hold throughout.
- `ShutdownCompletes` excepts `[]Escaped`: `isShutingdown` is never read, so a
  periodic task that was scheduled after the first sweep can be pending each
  time `stopAll` holds the lock, and running each time it tests the list.
- `ReturnedIsStored` excepts a number given out on two nodes (`GivenTwice`),
  which `uid_two_nodes` shows, -1, which stands for failure, and the given id 0,
  whose insert is refused when user 0 is there.
- `NamesApart` excepts names that two registrations looked for at a time
  (`crossed`), users that have been locked or remote (`concealed`) and the
  administrator: nothing keeps those apart.
- `RecordedIsConnected`, `ClosedIsRemoved` and `LostIsRemoved` except a client
  that a connection said hello as while it was being closed, or before it said hello as
  another (`loose`): the hello then logs in or registers a connection that
  nobody closes again, and a close forgets the earlier client.  Without the
  exception all three fail.
- `NewestIsCached` excepts an entry put between the look-up and the removal of
  another (`crossed`): `remove` then takes out the newer one.
- `OwnAnswer` ends at a `clash`: two callers that find one number free together.
  Without the exception it fails, with two callers in one millisecond.  It also ends
  when an entry is put `late`: a caller that has waited in `getQueue` for about its
  whole timeout can put its handler under a number whose call has given up since
  and whose answer is still to come.  How long `getQueue` takes nothing bounds, so
  this too can happen; less than `Slack` is proved to do no harm.
- `DoneIsComplete` excepts an attempt during which a request given up by the
  browser met another that was setting the file up (`raced`), or the file was
  deleted (`removed`).  `Finishes` counts as an end an upload whose part was
  refused: the page then does nothing any more.
- `SettledIsCopied` and `Arrives` except the documents in `missed`, for what the code
  does lose: by an offset that moves, a time behind, a failed update, a mark set too
  late, a change of the address, a loop begun between the new address and the reset;
  and while a reset is due nothing counts as settled.  `Arrives`
  also those the peer refuses, and everything when these fill a page; `RunEnds` holds
  only when nothing is refused.

## 4 Disagreements between code and comments

1. **`worker_one_schedule`.**  `WorkerTask.java:19` promises that a name is
   scheduled once.  `run()` sets `sf` to null when its future has begun, and two
   objects of one name know nothing of each other's futures, so a later schedule does
   not cancel the earlier one and two futures of one name live on.
2. **`uid_two_nodes`.**  `UID.java:22` promises a unique number.  The conditional
   update answers 0 when another node has moved the counter on, and the code
   takes only a negative answer for a lost race: both nodes hand out one number.
Seen in the models, without a run of their own:

- `User.create` tests the name and inserts in separate calls: two registrations
  of one name that overlap both pass, although `User.java:29` calls the name
  globally unique.  Its query leaves out locked and remote users, so the name of a
  locked user is registered again without any overlap, and unlocking him makes two.
  The administrator is created without a look at his name.
- `checkAndInit` looks for users with the access `config.admin` and not for user
  0: when two nodes start together, or user 0 has lost the role, the insert is
  refused and `create` returns 0 all the same.
- When two nodes get one number, the insert of the second user is refused, its
  result is not read, and `create` returns the id of the first node's user.
- `TConnCenter.remove` compares the entry with the connection and then removes by
  id: a hello that puts its own connection in between is taken out of the registry.
- Two hellos of one client that overlap both pass the look-up of
  `TConnCenter.add`: one live connection is then not in the registry.
- A second hello that names another client leaves the entry and the record of
  the first id behind: `close` knows the current id only.
- `MQ.call` sends before it enters the handler's monitor and waits without a
  condition: an answer in between wakes nobody, and the call lasts its whole
  timeout although it is answered.
- Two calls of `MQ.call` that find one number free together put their handlers
  under it: one gets the other's answer, and the first to leave removes the other's
  entry.
- A request given up by the browser that is still padding the file overwrites
  parts its own retry has stored meanwhile: the upload ends as done, with padding in it.
- Two appends that overlap may set the position in the header back; the parts
  are sent again.
- A part that is refused leaves the promise of the upload pending: neither a
  timer nor the resume button starts it again, until the page is reloaded.
- A timer set before the user stops an upload starts it again.
- `options.repo` is never set, so that discarding a file posts no delete; and
  `Repo.cleanup` deletes nothing, since it loads documents by a null `_id`.
- `Zip.unzip` (`Zip.java:73`) never returns from data that is not a whole zip stream:
  a packet with the zip bit can hold its I/O thread, and the sessions of that
  thread, for ever.
- `sync.set` writes the new address (`sync.java:34`) before it resets `lasttime`
  (line 48): a loop that begins in between reads the new peer from the old time on,
  and brings `lasttime` up after the reset.  What is older is never copied.
- A document that changes while `SyncTask` reads by offset makes another one
  skipped for good; one that appears with a time already passed is never read;
  a change of the address resets `lasttime` but not the marks, although a comment in
  `sync.java` says so; documents the peer refuses are loaded again and again and
  keep the worker.
- A failing update (`"update"` in `FaultKinds`) makes `UID.next` return a number
  that the next call returns again, on one node too.
- A failing query (`LoadFails`) makes `SystemConfig` keep the default for ten
  minutes.
- `SystemConfig`, `MQ` and `TConnCenter` read plain `HashMap`s without a lock.

## 5 Fairness

- `WorkerTask`: strong fairness of a thread's steps in `run()` and of the locked
  part of `schedule`, because `stopAll` leaves the lock to those who wait for it
  in every `lock.wait(1000)` and a step without the lock is always enabled;
  strong fairness of `Take`, because the executor's queue is ordered by due time,
  so that a future is overtaken only by futures due before it; weak fairness of
  the thread of `stopAll`.  `onExecute` is assumed to end.  Nothing is assumed of
  callers.
- `TConnCenter`: weak fairness of a handler and of a `close` that have begun,
  and of MINA, which reports the end of a session whose peer is gone (the idle
  check of one minute finds a peer that vanished).  Packets, sends and
  disconnections need not happen.
- `MDCService`: weak fairness of the loop and of the end of a session that was
  closed.  A pass of the loop takes a step, but the step may be `Spins`, after which
  there is none: the fairness does not say that `unzip` returns.  Nothing is assumed of
  the peer: `ImplementsFair` says that what has arrived is handed over without
  more arriving, unless a packet with the zip bit holds the session up.
- `MQ`: weak fairness of each caller's own steps and of the clock.  Nothing is
  assumed of the workers, the broker or the peer: `CallsReturn` rests on the
  timeout alone.
- `Upload`: weak fairness of a handler of the server (a thread does not stop in
  `store`), of the answer reaching the page, and of a timer that is set.  The user
  and all failures are free to act or not.
- `SyncTask`: weak fairness of the hourly `Schedule`, of the start of a run that
  waits, of the loop's own steps, and of the end of a `sync.set` that has begun.
  Programs need not write, and time need not pass.

The remaining modules state no liveness.

## 6 Proofs

| Module | Theorem | Property |
|---|---|---|
| `WorkerTaskProofs` | `TypeCorrect`, `SweepStaysInBounds`, `NameExclusion`, `AcceptedIsComing`, `EntriesOwned`, `PendingIsListed`, `PeriodicReschedules`, `Implementation` | `TypeOK`, `SweepInBounds`, `MutualExclusion`, `NoLostSchedule`, `RunningOwned`, `PendingCoversFutures`, `PeriodicGoesOn`, `Implements` |
| `UserCreateProofs` | `TypeCorrect`, `NodeOrder`, `FirstOnce`, `OneNodeUnique` | of `UID`: `TypeOK`, `PerNodeIncreasing`, `CreatedOnce`; `UniqueSequence` with one node |
| | `CreateImplementsUID`, `CreatedIsStored`, `OneUserOfAName` | `USpec => Spec`; `ReturnedIsStored`, `NamesApart` |
| `SystemConfigProofs` | `TypeCorrect`, `AnswersAreRecent`, `OwnWritesInvalidate` | `TypeOK`, `AnswerAge`, `SetInvalidates` |
| `MQProofs` | `TypeCorrect`, `EntriesInProgress`, `AnswersAreOwn` | `TypeOK`, `NoStaleHandler`, `OwnAnswer` |
| `TConnCenterProofs` | `TypeCorrect`, `RecordedConnected`, `ClosedRemoved`, `NewestCached` | `TypeOK`, `RecordedIsConnected`, `ClosedIsRemoved`, `NewestIsCached` |
| `MDCServiceProofs` | `TypeCorrect`, `NoByteLost`, `NothingWaits`, `MemoryBounded`, `Implementation` | `TypeOK`, `Unread`, `Drained`, `BoundedBuffer`, `Implements` |
| `UploadProofs` | `TypeCorrect`, `DoneComplete` | `TypeOK`, `DoneIsComplete` |
| `SyncTaskProofs` | `TypeCorrect`, `SettledCopied` | `TypeOK`, `SettledIsCopied` |

Each module proves `Init => IInv`, `IInv /\ [Next]_vars => IInv'`, and what
follows from `IInv`.

- **`WorkerTask!IInv`.**  Mutual exclusion is not inductive: it needs that every
  thread past the first locked block has its entry in `runningQueue`
  (`OwnersListed`), that entries differ by name, and that no entry is removed by
  another thread, which holds as long as nobody has called `stop`
  (`NoStopYet`).  That no schedule is lost needs that a name owed to its caller is
  not the name of a thread already past `onExecute`'s start
  (`OwedNotExecuting`): only then does a dropped duplicate leave another run
  behind.  `PendingCoversFutures` is inductive once its counts are of finite sets
  (`FinitelyMany`): a step moves at most one entry, one future and one thread
  (`EntriesAppend`, `EntriesRemove`, `FuturesStep`), and only sideways or in the
  right order.  `StepRefines` maps every step to one of `Scheduler` or to a
  stutter: a schedule that finds no entry of its name in `runningQueue` finds no
  thread executing the name (`OwnersListed`), and a thread that begins is alone with
  its name (`OwnersDiffer`).  For any tasks, names, threads and calls, also infinitely many; no
  assumption but the named ones of the constants.
- **`UID!IInv`.**  The lock makes a node's numbers one sequence; a `linkid` is of
  one attempt, and the node whose attempt it is has issued nothing yet
  (`Linking`); no number is issued before there is a row (`NoneBefore`), and a thread
  about to update has read one (`Loaded`).  This is `Core`, which holds whatever fails, so that
  `TypeCorrect` and `FirstOnce` assume nothing.  `NodeOrder` and `OneNodeUnique`
  add that every number issued is below the stored one (`Below`) and that a thread about
  to update read a number above all its node has issued (`Updating`), and assume that
  no update fails (`"update" \notin FaultKinds`).  With that dropped, TLC finds a
  repetition at once.
- **`UserCreate`.**  `StepMaps` shows that every step of a creation is a step of
  `UID` or leaves it alone, so that what is proved of `UID` holds here.  An id between
  `next` and the insert is held by one thread of its node, was issued there and
  is not used yet (`HeldIsIssued`, `HeldOnce`, `UsedUp`, `StoreIsNew`);
  assumption: no update, no `exists` query and no insert of a user fails.  A name
  being registered alone is nobody's but of users that have been hidden and of the
  administrator (`NameInv`); assumption: the query for it does not fail.
- **`SystemConfig!IInv`.**  An entry was born no later than the value it holds
  was last in the database (`EntriesSeen`, `ReadersSeen`), when no query fails
  (`LoadFails = FALSE`).  `SetInvalidates` and `TypeOK` need no assumption: an
  overlapping `setConfig` is recorded, and `CacheInv` is the part without ages.
- **`MQProofs!HInv`.**  The entry under a number and the caller that has put it
  there point at each other as long as the call is in progress; a second caller
  under one number replaces the entry, never adds one.
- **`MQ!IInv`**, for `OwnAnswer`.  While the answer to a call is to come, nobody else
  has put a handler under its number, and nobody will: either the clock is far past
  the number, and callers choose from the clock on (`Choosing`) and put soon, or the call still holds it
  (`Reserved`).  A call that gives up has waited its timeout, so that the clock has
  then passed the number it began with; how far it has passed the number probing
  made of it needs a bound on how far numbers run ahead of the clock.  `Spread` is
  that bound: of `N` callers at most `N - k` hold a number `k` or more
  ahead, because a caller goes past a number only while another one holds it.  The
  rest says that every message is in one place (`Once`), that what is put under a number
  is one's own until it is sent (`OwnEntry`), and that a call is notified by its own
  answer only (`Answered`); these hold until a `clash` or a `late` entry.  No
  assumption but finitely many callers; with more of them than the timeout has
  milliseconds every entry counts as late.
- **`TConnCenter!IInv`.**  Nobody locks, so the invariant speaks of threads in the
  middle of a call: a close past its first steps works on a connection without
  session (`ClosingOK`); a hello keeps its client id unless a close is at work on its
  connection (`HelloOK`); a client recorded connected has a session or a thread
  that will mark it (`RecordHeld`); a connection in the registry has a session
  or a thread that will take it out (`CachedHeld`); and a removal under way under an
  id nobody crossed can only hit its own connection (`NewestHeld`).
- **`Upload!IInv`.**  `FileOK`: the bytes from the second part on are right up to the
  position in the header, at most one request sets the file up, and the
  position an open handler has read is covered by such bytes.  `Told`: what the
  page was told is in the file, or its first part is about to be written.
  `KeptOK`: every handler beyond the first part was told its position.
  Both hold as long as the histories `raced` and `removed` allow.
- **`SyncTask!IInv`.**  While there is a page to come, the places read hold
  documents that are copied, in hand or missed (`ReadOK`); documents of a time
  before one in hand are so too, and those in hand come first (`InHandOK`), which is
  what makes it right to bring `lasttime` up document by document.  Both hold for a
  loop on the address of the moment, from the beginning of its query on; what is before
  that is settled, unless `lasttime` was reset meanwhile (`LoopOK`).  The places
  need the order to be total and pages to be as long as their documents
  (`PlaceGrows`, `PlacesDiffer`, `PageFound`, from the theorems on finite sets).
- **`MDCServiceProofs!IInv`.**  The properties themselves are nearly inductive:
  `Unread` makes the header in the array the header in the stream
  (`HeaderOfStream`), from which `Drained` and the refinement follow;
  `BoundedBuffer` needs the length `Incomplete` leaves; and a closed session
  whose loop goes on has no connection object (`ClosedLoop`), so that it hands
  nothing over.  `StepRefines` maps every step to one of `PacketStream` or to a
  stutter.  For any streams, `MAX_SIZE`, reads and arrays.

Only model-checked: all liveness (`ScheduledRuns`, `ShutdownCompletes`,
`LostIsRemoved`, `CallsReturn`, `ImplementsFair`, `Finishes`, `Arrives`,
`RunEnds`), which needs fairness and `ENABLED`, beyond this prover, and the two
properties that are violated.  No proof needs induction over data, and no module
has a recursive operator.

## 7 What is left out

- Contents: bodies of messages and packets, compression and encryption, JSON,
  templates, formats.  They fail or they do not.
- Time, but for the clocks of `SystemConfig`, `MQ` and `SyncTask`: delays and timeouts are
  nondeterminism.
- The memory model and the inside of `HashMap`: a map operation is one step.
- The database: a call on one document is atomic, or fails as the code sees it.
- `MDCConnector.service` differs from the modelled loop in one case: a packet that finds
  no connection object is dropped and the session goes on.
- Of a device's password, only that `validate` says yes or no.
- Of an upload: a file deleted between `f.exists()` and the opening of it to append,
  which makes it anew, empty (every deletion sets `removed`); files no larger than a part, downloads, the row of `gi_repo` and
  several files at once (uploads are sequential); leaving the page is a reload.
- Of the synchronisation: the filters, `getrule`, signatures and the `_time`
  check; two collections do not meet.  A new peer has documents of the same times as
  the old one; a save of the settings does not fail, and one node does the work.
- Nearly all of the JavaScript in the repository is third-party or generated code
  copied into `view` (Highcharts, jQuery plug-ins, an editor): it is not the
  program's own logic, and nothing in it is modelled but the upload plug-in, whose
  chunked upload the program relies on.  The program itself is Java.
- Components without a module are in `PROJECT.json` with the reason: pure I/O
  (`Http`, `Shell`, images), reflection and class loading (`Module`, `Model`),
  single database calls (roles, menus, logs), third-party code and assets.
- The comment at `MAX_SIZE` in `MDCServer` and the value it has (10 MB) are left
  aside: it is the constant `MaxSize`.

## 8 Plan

The order followed: `WorkerTask` and its promise `Scheduler`, because the rest runs on it; then the data every
node shares (`UID`, `UserCreate`, `SystemConfig`); then messages (`MQ`,
`TConnCenter`, `PacketStream`, `MDCService`); then what crosses systems (`Repo`,
`Upload`, `SyncTask`).

What remains, in order of what it would add:

1. `DeviceApp`: an app request of a device over MQ and back by connection id,
   and the callbacks of `TConn.post`, composing `MQ` and `TConnCenter`; the
   timeout checker that nothing schedules.
2. `WorkerTask` with tasks that wait in `MQ.call`: all workers waiting for an
   answer that needs a worker.
3. `Pool` (timed wait without a notification), `FileCache` (LRU map, queue and
   files), the login lock of `User`, `Cluster.Counter`.
4. The life cycle of modules (`Module`: install, upgrade, the chain of a request).
