# Verification of raRt, the udp/tcp router

raRt receives datagrams from alarm transmitters on one udp socket, forwards
each of them over a tcp connection to the F1 server, and sends F1's replies
back as datagrams. Every udp peer has its own tcp connection and so its own
session. This directory holds TLA+ models of that router, the TLC
configurations that check them on small instances, and TLAPS proofs.

## The system

### Components and their state

| Component | Source | State | Operations |
|---|---|---|---|
| UdpRelayServer | `udpRelayServer.cpp` | the udp socket, `m_recvBuffer`, `m_remoteEndpoint` | `start_receive`, `handle_receive`, `deliver_to_udp_peer` (two overloads with the same control), `handle_deliver_to_udp_peer` |
| SessionManager | `sessionManager.cpp` | `m_udpSessions` (address to session), `m_tcpPacketQueue` (all replies) | `add_session`, `remove_session`, `handle_connection_failed`, `deliver_from_udp_peer`, `add_tcp_packet`, `pop_tcp_packet` |
| RouterSession | `routerSession.cpp` | `m_udpTuple`, `m_socket`, `m_udpPacketQueue`, `m_fromTcpPacket` | `add_router_packet`, `start`, `handle_resolve`, `handle_connection`, `deliver_to_tcp_peer`, `handle_deliver_tcp`, `start_read_from_tcp`, `handle_read_header`, `handle_read_payload`, `close_session` |
| RouterPacket | `routerSession.h` | a buffer and two lengths | length fields in decimal text: `encode_header`, `decode_header`, `decode_peer`, accessors |
| AdrTuple | `adrTuple.cpp` | transport, address, port | `==` and the `<` that orders the table |
| ParamsManager | `paramsManager.cpp` | server address and ports | `load`; `save` has no caller |
| main | `main.cpp` | the io_service, the parameters, the signal handlers | `make_daemon`, `set_signals`, `terminate`, `reload_config`, `run` |
| rartlog | `rartlog.cpp` | the log category | `log_init`, `log_reload`, the `log_` functions |
| zlog environment | `zlog.c`, `category*.c`, `thread.c` | configuration, categories, records and threads under one rwlock | `zlog_init`, `zlog_reload`, `zlog_fini`, `zlog` and its copies |
| zlog configuration | `conf.c`, `level*.c`, `rule.c`, `zc_arraylist.c` | levels, formats, rules, open files and pipes | reading a file, choosing the rules of a category |
| zlog messages | `event.c`, `spec.c`, `format.c`, `buf.c` | an event with its caches, five buffers per thread | one conversion after another |
| zlog rotation | `rule.c`, `rotater.c` | the log file, its archives, a mutex and a lock file | write, look at the size, lock, list, move |
| zlog diagnostic context | `mdc.c`, `zc_hashtable.c` | a hash table per thread | put, get, remove, clean |
| TcpRelayServer, TcpSession | `tcpRelayServer.cpp`, `tcpSession.cpp` | an acceptor | never instantiated; bodies of TcpSession are empty |

### How they interact

`main.cpp:run` starts the udp receive and then one thread that calls
`io_service::run`. All handlers of the router run on that thread, one at a
time. Concurrency is between the handlers: an operation initiated by one
handler completes at any later time, and its completion handler runs after
everything already queued.

Forward path: `handle_receive` gives the datagram to
`deliver_from_udp_peer`, which looks for a session whose address is the
sender's, creates one if there is none, and calls `add_router_packet`. If the
session's queue was empty this starts a delivery: resolve and connect when the
socket is closed, otherwise a write of the front of the queue. When a write
completes the front is popped and the next one is written. A failure posts
`handle_connection_failed` to the io_service, which erases the table entry of
the session's address. The session object lives on as long as one of its
operations is outstanding, also outside the table.

Process: the main thread reads the command line and `raRt.cfg`, becomes a
daemon if asked to (signal handlers, two forks, every descriptor closed),
loads `rart_log.conf`, starts the io thread and waits for it. Its signal
handlers stop the io_service or reload. Both threads log, and a log call that
finds the reload period over reloads the log configuration; so descriptors of
log files, pipes and the lock file come and go while the io thread opens and
closes sockets.

Reply path: a connected session reads a 4-byte length, then a payload. A
payload that names a peer is pushed to the one reply queue of SessionManager,
the delivery of the front of that queue is started, and the next length is
read. The completion of a send pops the front and sends the next.

### What is hard

* A datagram meets its session in any phase; one boolean, "the queue was
  empty", decides whether a delivery is started.
* `async_write` and `async_send_to` keep pointers into queue elements.
* A removal runs later than the failure that posted it, and removes by
  address. A session can fail more than once.
* A receive error leaves the sender's address of the previous datagram in
  place, and the error branch removes that peer's session.
* The reply queue is shared by all sessions, its in-progress test is inverted,
  and a completion pops whatever is in front.
* Replies that name no peer, an unusable peer, or a wrong length.
* Signal handlers that reload the log configuration under a lock.
* Two lengths per packet, unsigned, in text fields, over one reused buffer.
* A daemon in which 0, 1 and 2 are free, and a library that takes 0 for "none".
* Log files rotated by threads and processes at once, one rename at a time.
* Caches of times, process id and level bits that outlive what they were
  computed from.
* Memory that runs out in the middle of a message or of a table operation.

`PROJECT.json` lists each of these hazards with its line and the properties
aimed at it.

### What makes each component correct

* RouterSession: deliveries of a session are serial (`SingleWriter`), the
  buffer being written stays valid (`BufferValid`), a connection is a FIFO
  (`ForwardFIFO`), a session in the table is never stuck (`NoWedge`), it keeps
  reading replies (`ReaderAlive`), every packet is written or its session
  fails (`EveryPacketDecided`).
* SessionManager: a session is never replaced while it serves its peer
  (`NeverReplaced`), a failed session leaves the table (`FailedSessionLeaves`)
  and no other one does (`LeavesByOwnFailure`, which the code violates).
* UdpRelayServer and the reply queue: replies go out in order
  (`RepliesInOrder`), once (`NoDuplicateReply`, violated), none is lost
  (`NotDropped`, violated), and the queue drains (`QueueDrains`,
  `StallHasCause`).
* RouterPacket: what is written to F1 is the datagram and decodes to it
  (`FramesExact`), inside its storage exactly up to a stated size
  (`StorageBound`); a reply reaches its peer whole and with nothing of an
  earlier one (`ReplyWhole`).
* AdrTuple: the search by `==` and the search by `<` agree (`SearchesAgree`).
* main: a stop always ends the process (`StopEnds`) and is recorded
  (`StopRecorded`), sessions open together use one server (`OneServer`),
  descriptors have one owner (`DescriptorsOwned`), and no log record is
  written into a socket (`NoRecordOnTheWire`, violated by the shipped
  configuration).
* zlog configuration: the quiet test is exact (`NeedlessExact`), categories
  get their rules (`CategoryRules`), nothing stays open (`DescriptorsReleased`),
  time caches and level slots are in place (`SlotsInPlace`).
* zlog messages: a text is that of its event (`MessageExact`) or given up for
  a cause (`DroppedHasCause`); buffers stay well formed (`BuffersWellFormed`).
* zlog rotation: no log is lost (`NothingClobbered`), numbers tell the age
  (`AgeOrder`), the number of archives and the size of the file are bounded
  and only full files are archived (`LimitsKept`).
* zlog diagnostic context: the table is a dictionary (`ImplementsDictionary`),
  its chains and its memory are sound (`TableSound`).
* zlog environment: whatever a reload meets, categories, levels and record functions
  follow the configuration in force (`CategoriesFollowConf`, violated without
  memory; `QuietTestExact`, `RecordsSurviveReload`), threads write with buffers
  of that configuration (`BuffersCurrent`), an automatic reload happens once
  per period (`AutoReloadEarned`) and every reload gets its lock
  (`ReloadReturns`, violated from a signal handler).

## The modules

### RouterSession.tla: the forward path

State variables carry the names of the members they model. A packet is the
number of the datagram it carries; its bytes are left out. A session is the
number of its creation. The variables that are not members of a class are:

* `pending[s][op]`: how often operation `op` of session `s` was initiated and
  has not completed. It is a count, so that two writes at once are
  representable and `SingleWriter` is not true by the shape of the model;
* `ready`: the io_service queue. `Complete` appends the handler of a completed
  operation, `close_session` appends the posted removal, and a handler runs
  only from the front;
* `wbuf[s]`: the packet whose bytes `async_write` was given;
* `endpoints[s]`: how many resolver results are left after the one being tried;
* `receiving`, `arrived`: the outstanding receive and the number of datagrams;
* histories: `accepted`, `delivered`, `closes`, `deaf`. No action reads them.

Each handler of the code is one action of the same name and includes all it
calls. The result of an operation is chosen when its handler runs, because
nothing reads it earlier. Details taken from the code:

* `handle_connection` succeeds only with an open socket, else tries the next
  endpoint, else closes the session; a last failed connect leaves the socket
  open;
* `async_connect` opens the socket first, and this may fail, which leaves it
  closed;
* `handle_read_payload` has five outcomes: a read of zero bytes closes the
  session once, the end of the connection closes it once or (no byte read)
  twice, a payload naming a peer starts the next read, and a payload with a
  wrong peer length does nothing at all: the session turns `deaf`;
* `handle_receive` on an error removes the session of `m_remoteEndpoint`, the
  sender of the previous datagram; with none the address is `NoPeer` and
  nothing is removed.

### UdpReply.tla: the reply path

`m_tcpPacketQueue` and `sends`, the `async_send_to` operations whose handler
has not run. `handle_read_payload(k)` is the branch that decoded a reply of
kind `k`; kinds are a usable peer, no peer (`get_peer_data` refuses it), and a
text that is no ip address. The functions the handlers call are operators from
a record of the changing variables to its new value, because
`deliver_to_udp_peer` may run twice in one handler. `PerformSend` is the
kernel taking the datagram: the bytes are read then, so a packet that has left
the queue may be sent as anything (`Stale`). `crashed` is the exception of
`ip::address::from_string` leaving the io thread.

### ZlogEnv.tla: the logging environment

raRt logs from its main thread and its io thread and reloads the log
configuration in the handler of SIGUSR1. All of this meets in the static
variables of `zlog.c`, behind one read-write lock. A thread's `call` is the
zlog function it is in and its place there:

* `"test"`: the level of the category is read without the lock; when a writer
  is at work any value may come out;
* `"rdlock"`, `"fetch"`, `"output"`, `"count"`: under the read lock the thread's
  buffers are brought to the version in force (`zlog_fetch_thread`), the record
  is written, and the reload counter is read and stored in two steps, so
  increments of two threads may be lost;
* `"wrlock"`, `"held"`: a writer waits for the write lock, then its body and the
  unlock are one step. `zlog_reload` has all four outcomes of the code: nothing
  to do, file not loadable, a category not updatable (no rollback: `c_up` is 0
  there), success;
* `reload_config` is the signal: it pushes the interrupted call on `stack` and
  calls `zlog_reload`. `pthread_rwlock_wrlock` refuses the thread that holds the
  write lock (`EDEADLK`) and blocks the one that holds a read lock.

A configuration is the number of its memory, reused after it was released. Of
the one in force the model keeps what it enables and whether its rules know
the record function. One action stands for functions that are copies of each
other: `zlog`, `vzlog` and `hzlog`; `vdzlog` and `hdzlog`. The program is
assumed to log only to categories it got from zlog, and to call `zlog_fini`
only when no other thread logs, as `rartlog.cpp` does.

### RouterPacket.tla: the packets

The member functions of `RouterPacket` are operators of the same names on a
record of its members; a byte of `m_payload` is the number of the message that
wrote it. Three places use them: `PrepareDatagram` (a packet is built from a
datagram and copied into a queue), `ReadHeader` and `ReadPayload` (a reply is
read into the session's one packet and copied into the queue of replies).
`atoi` of a field is an input of the read, negative values included. Lengths
are taken modulo 2^`Width`. The copy constructor leaves bytes uninitialised
(`None`), which `PeerFieldFresh` shows no reply depends on.

Two boundaries are stated rather than excluded. A packet fits `m_payload`
exactly when address, datagram and peer field are within `MAX_PAYLOAD_SIZE`
(`StorageBound`); longer ones are built by the code without a test, and what
they overwrite is left out of the model. `decode_peer` accepts a peer length
within four of the payload length, for which `packet_data_length` wraps
(`ReplyWhole` says for which replies it does not).

### AdrTuple.tla: the keys of the session table

The keys of `m_udpSessions` in the order `std::map` keeps them.
`deliver_from_udp_peer` compares all of them with `==`; storing and erasing
descend by `<`. Which place a descent ends at may depend on the shape of the
tree, so `LowerBounds` is a set, and `SearchesAgree` asks that it has one
member, the one the scan finds.

### RaRtProcess.tla, Descriptors.tla: the process

`main.cpp` from the command line to the end of the process, one action per
step of `main`, `make_daemon` and `run`; `terminate` and `reload_config` as
handlers that run between any two of them; the io thread with the sockets of
its sessions. A load of the log configuration, by `log_init` or by a reload, is
several steps, because zlog opens the new files one after another while signals
arrive and the other thread goes on. `Descriptors` is the kernel's table: open
gives the lowest free number, and fails (`HasFree`) when none is left. A thread that reloads does nothing
else meanwhile; that the handler may interrupt a log call of its own thread
is in ZlogEnv.

### ZlogConf.tla: reading the configuration

`zlog_conf_parse_line`, one action per section, over lines that are records of
what `sscanf` takes out of them; levels in an array that grows; the bitmap of a
rule byte by byte with C's division; the slots of the time caches; the
descriptors that rules and the rotater open, and their release when a line
fails; an open also fails when the table is full. `zlog_category_new` chooses the rules of a category at any time after
that. An unknown level name is level -1, not an error, and the bitmap of a
rule with it is still exact (`NeedlessExact`).

### ZlogMessage.tla, ZlogBuf.tla: texts

ZlogBuf has the functions of `buf.c` as operators on a buffer record, with the
largest block `realloc` can give as an argument. ZlogMessage has one thread
that is given events and runs formats, one conversion per step, while the
clock goes on and the process may fork. The text it makes is compared with
what the format means for one moment of the call (`TextAt`). Numbers are turned
into digits by the division loop of the code (`Digits`) and compared with the
digit of each power of the base (`NumberText`).

### ZlogMdc.tla, Dictionary.tla: the hash table

Entries with `next` and `prev`, chains per bucket, `rehash`, and the pairs whose
key part an entry points to, all as explicit memory. Dictionary is the
abstract specification, a function from keys to values. ZlogMdc implements
it under the mapping of every key to what `zlog_mdc_get` returns. The loops over
a chain are the values of its pointer round after round (`Nth`).

### ZlogRotate.tla: rotation

Writers of two processes append to one file and rotate it. Every system call
is a step (`open`, `write`, `stat`, the mutex, `fcntl`, `glob`, each `unlink` and
`rename`), one of them may fail, and a process may die and start again at any
point. A file is numbered by its creation, so age can be compared with name.

### The proof modules

`SessionTableProofs` extends RouterSession and AdrTuple, `ReplyPacketsProofs`
extends UdpReply and RouterPacket; `RaRtProcessProofs`, `ZlogEnvProofs`,
`ZlogConfProofs`, `ZlogRotateProofs`, `ZlogMessageProofs` and `ZlogMdcProofs` extend
the module they are named after. Each states and proves the theorems below.
`ZlogMdcProofs` also takes lemmas on numbers and sequences from
`ZlogMessageProofs`.

### The MC modules

The instances for TLC. Where components share no variable but belong to one
question, one MC module holds both and a variable `part`, chosen in the
initial state, says which of them moves: the run then checks the union of the
components' behaviours, each on its own. `MCSessionTable` (sessions and keys),
`MCRaRtLive` (sessions and process), `MCReplyPackets` (reply queue and packets),
`MCZlogReload` (environment and configuration), `MCZlogFaults` (environment,
diagnostic context and rotation) and `MCZlogOutput` (environment and messages)
are of this kind. No interaction
between the parts of one run is claimed.

Definitions whose comment begins with "Fault:" or "A plausible fault" are slips
in the function they stand before. They are not used by the specifications;
`PROJECT.json` pairs each checked property with one that breaks it.

## The runs

| Run | Checks | Instance | Distinct states | Result |
|---|---|---|---|---|
| session_table | `ForwardInv` (with `TypeOK`), `SingleWriter`, `BufferValid`, `ForwardFIFO`, `NoWedge`, `ReaderAlive`, `NeverReplaced`; `SearchesAgree` | 2 peers (symmetric), 2 datagrams, 2 endpoints, receive errors; 8 keys | 1,230,150 | holds |
| session_live | `EveryPacketDecided`, `FailedSessionLeaves`; `DescriptorsOwned`, `OneServer`, `StopRecorded`, `StopEnds` | 1 peer, 2 datagrams, 1 endpoint, receive errors; 2 signals, 2 sessions, a file and a pipe | 198,146 | holds |
| session_removal | `LeavesByOwnFailure` | 1 peer, 2 datagrams | | violated |
| reply | `RepliesInOrder`, `SerialRepliesExact`, `StallHasCause`, `NotDroppedUnlessSkipped`, `QueueDrains`; `FramesExact`, `StorageBound`, `ReplyWhole` | all kinds, 3 replies, send errors; 2 messages of every length around the limits | 20,189 | holds |
| reply_duplicate | `NoDuplicateReply` | 2 replies | | violated |
| reply_dropped | `NotDropped` | 3 replies, with and without a peer | | violated |
| zlog_reload | `CategoriesFollowConf`, `RecordsSurviveReload`, `AutoReloadEarned`, `QuietTestExact`, no deadlock; `NeedlessExact`, `CategoryRules`, `DescriptorsReleased`, `SlotsInPlace` | 2 threads, 2 categories, period 1, 2 versions; files of 6 lines out of 18, 7 descriptors | 1,103,341 | holds |
| zlog_nomemory | `BuffersCurrent`; `TableSound`, `ImplementsDictionary`; `NothingClobbered`, `AgeOrder`, `LimitsKept` | 2 threads, 1 category; 3 keys; 3 writers in 2 processes, 4 records, 1 fault | 1,757,910 | holds |
| zlog_live | `ReloadReturns`; `MessageExact`, `BuffersWellFormed`, `DroppedHasCause` | 2 threads, 1 category, period 1, no signals; 6 formats, 5 messages, 2 texts | 91,616 | holds |
| zlog_signal | `ReloadReturns` | 2 threads, 1 category, signals | | violated |
| zlog_rollback | `CategoriesFollowConf` | 2 threads, 2 categories, failing allocations | | violated |
| daemon_stderr | `NoRecordOnTheWire` | the rules of `conf/rart_log.conf`, 2 signals, 2 sessions | | violated |

Deadlock is checked in `zlog_reload`, where a thread that is not waiting can
always make another call. It is not checked elsewhere: a router to which
nothing is sent waits, the bounds on datagrams, replies, messages and records
end every behaviour, a process ends, and in ZlogEnv it may end by a null
pointer (`zlog_nomemory`).

### Bounds

* `MaxDatagrams` bounds datagrams and with them sessions. Two on one peer give
  a packet being written and one behind it, or a session and its successor;
  two on two peers give two sessions whose handlers interleave in one queue.
  The theorems below have no such bound.
* `MaxEndpoints = 2` gives the first attempt, a retry, and the failure after
  the last one.
* `MaxReplies = 3` gives a reply being sent, its duplicates, a dropped reply
  and one behind it; the loss and the duplication both happen within three.
* ZlogEnv has two threads, as raRt has. `MaxVersion = 2` gives an init and a
  reload that takes effect; further reloads fail to load the file.
  `ReloadPeriod = 1` is enough for two threads to find the period over
  together. `MaxConfs = 2`: the configuration in force and the new one.
* RouterPacket: `MAX_PAYLOAD_SIZE = 12`, addresses of 1 and 3 characters and
  datagrams of 0 to 12 bytes lie on both sides of every limit, and so do field
  values from -1 to 14. `Width = 16` instead of 32 because TLC's integers have
  32 bits; a wrapped difference is above every length in both. Two messages
  are enough for one to leave bytes for the next.
* AdrTuple: two values of each part, all eight keys in every order.
* RaRtProcess: two signals are a reload and a stop, or two reloads; two
  sessions start before and after one. `ProcFds` leaves every open a number in
  this run; the theorems hold for every limit, reached or not.
* ZlogConf: six lines reach every section and leave room for a bad line after
  files are open. `MaxFd = 6` lets a console process run out of descriptors
  with its third file or pipe, a daemon not. Event levels are the ones next to the levels that rules name
  and both ends.
* ZlogMessage: a first buffer of 4, limits of 8 and none, and texts shorter,
  just as long and longer; two texts, so that caches are met full; two forks'
  worth of process ids; three moments of the clock,
  two of them in one second.
* ZlogMdc: three keys of which two collide, from one bucket through a rehash.
* ZlogRotate: four records of lengths 2 and 3 against a limit of 2: a record
  of 2 fills the file, so that four rotations meet up to three archives with
  a count of two or none; one of 3 alone exceeds the limit. Two of the writers
  share a process. One fault between any two renames leaves a hole in the
  numbers that the rotations after it meet.

### Fairness

`RunHandler` is weakly fair: the io thread does nothing but run ready
handlers. Completion of resolve, connect and write is weakly fair, per session
and operation: the resolver and tcp end every attempt, with success or an
error. No fairness is assumed of arriving datagrams or of F1's replies (a read
may wait for ever). In UdpReply the completion handler and the sends are
weakly fair: a udp socket becomes writable again. In ZlogEnv threads run on
(weak fairness of the steps inside a call) and the lock is granted to a waiter
for which it is free again and again (strong fairness, per thread): with two
threads a writer waits for one reader at a time, which must release the lock
between two records. In
RaRtProcess the steps of `main` and of a reload in progress are weakly fair:
the threads run; nothing is assumed of signals, sessions or the service. The
liveness properties hold
although success is never assumed of a connect or a write.

### What the violated runs show

* `session_removal`: a session fails twice (its read and its write, say). The
  first removal erases it, the peer's next datagram creates a successor, and
  the second removal, which knows only the address, erases the successor. The
  comment at `routerSession.cpp:171` says of a failed session "next session
  will be create by another UDP packet"; that next session is what is erased.
  Its connection stays up outside the table, and the peer's next datagram
  opens another one beside it.
* `reply_duplicate`: `sessionManager.cpp:118` tests `empty()` where its twin in
  `routerSession.cpp:100` tests `!empty()`. The delivery still starts, because
  `handle_read_payload` starts it a second time, and for replies that never
  meet in the queue each is sent exactly once (`SerialRepliesExact`). When two
  meet, the front is sent again.
* `reply_dropped`: every duplicate send also pops once. As long as each pop is
  followed by a send of the new front nothing is lost
  (`NotDroppedUnlessSkipped` holds); after a reply without a peer was popped
  with a bare return, a surplus completion pops a reply never sent.

* `zlog_signal`: `docs/Notes.txt` tells the operator to send signal 10 to a
  running raRt to change its log level. If the signal arrives while its thread
  writes a record, the handler waits for the write lock that its own read lock
  blocks. All later reloads wait too. Without signals the same property holds
  (`zlog_live`): a log call releases its read lock before it reloads.
* `daemon_stderr`: zlog's guide warns daemons of `>stderr`. In raRt, a daemon
  started with the shipped configuration has zlog's own files at 0, 1 and 2 at
  first; a reload, by signal or because a million records were written, opens
  the new files before it closes these, so 1 and 2 become free and the next
  session's socket to F1 gets number 2.
* `zlog_rollback`: "fail, roll back everything" (`zlog.c:288`) rolls nothing
  back, because `c_up` is set only after every category was updated. The
  categories updated before the failure keep rules of the released
  configuration. The next reload that succeeds repairs them.

## What is proved

Eight modules hold proofs. Every theorem is for all values of the constants
that satisfy the named assumption of its module, so for any number of peers,
datagrams, replies, threads, processes, faults and descriptors. Each follows
from one inductive invariant; where that invariant is not itself a property of
a run, TLC was used to check it on the run's instance before the proof.

| Module, assumption | Theorem | States |
|---|---|---|
| SessionTableProofs, `ConstantsAssumption` | `ForwardInvariant`, `TypeCorrect` | `[]ForwardInv`, `[]TypeOK` |
| | `DeliveriesAreSerial` | `[]SingleWriter` |
| | `WriteBufferStaysValid` | `[]BufferValid` |
| | `SessionsDoNotWedge` | `[]NoWedge` |
| | `ConnectionIsFIFO` | `[]ForwardFIFO` |
| | `SessionsKeepReading` | `[]ReaderAlive` |
| | `TableNeverReplaces` | `NeverReplaced` |
| SessionTableProofs, `TupleAssumption` | `KeysStaySorted` | `[]TupleInv` |
| | `SearchesAlwaysAgree` | `[]SearchesAgree` |
| | `TableIsDictionary` | `ImplementsTable`, a refinement of Dictionary |
| ReplyPacketsProofs, `ReplyAssumption` | `ReplyInvariant`, `ReplyTypeCorrect` | `[]ReplyInv`, `[]TypeOK` |
| | `RepliesStayInOrder` | `[]RepliesInOrder` |
| | `StallsHaveCause` | `[]StallHasCause` |
| | `RepliesHandedOn` | `[]NotDroppedUnlessSkipped` |
| | `SerialRepliesAreExact` | `[]SerialRepliesExact` |
| ReplyPacketsProofs, `PacketAssumption` | `PacketsInPlace` | `[]PacketInv` |
| | `FramesStayExact` | `[]FramesExact` |
| | `StorageStaysBound` | `[]StorageBound` |
| | `RepliesStayWhole` | `[]ReplyWhole` |
| RaRtProcessProofs, `ProcessAssumption` | `ProcessInvariant` | `[]ProcessInv` |
| | `DescriptorsStayOwned` | `[]DescriptorsOwned` |
| | `OneServerAlways` | `[]OneServer` |
| | `StopsRecorded` | `[]StopRecorded` |
| ZlogEnvProofs, `ZlogAssumption` | `EnvInvariant`, `EnvTypeCorrect` | `[]EnvInv`, `[]TypeOK` |
| | `BuffersStayCurrent` | `[]BuffersCurrent` |
| | `RecordsKept` | `[]RecordsSurviveReload` |
| | `RulesFollowConf` (`~AllocFails`) | `[]CategoriesFollowConf` |
| | `ReloadsAreEarned` | `AutoReloadEarned` |
| | `QuietTestsExact` (`~AllocFails`) | `QuietTestExact` |
| ZlogConfProofs, `ConfAssumption` | `ConfInvariant` | `[]ConfInv` |
| | `DescriptorsAreReleased` | `[]DescriptorsReleased` |
| | `NeedlessStaysExact` | `[]NeedlessExact` |
| | `CategoriesGetRules` | `[]CategoryRules` |
| | `SlotsStayInPlace` | `[]SlotsInPlace` |
| ZlogRotateProofs, `RotateAssumption` | `RotateInvariant` | `[]RotateInv` |
| | `NoLogLost` | `[]NothingClobbered` |
| | `NumbersTellAge` | `[]AgeOrder` |
| | `RotationKeepsLimits` | `[]LimitsKept` |
| ZlogMessageProofs, `MessageAssumption` | `MessageInvHolds` | `[]MessageInv` |
| | `BuffersStayWellFormed` | `[]BuffersWellFormed` |
| | `MessagesAreExact` | `[]MessageExact` |
| | `DropsHaveCause` | `[]DroppedHasCause` |
| ZlogMdcProofs, `MdcAssumption` | `MdcInvHolds` | `[]MdcInv` |
| | `TableStaysSound` | `[]TableSound` |
| | `ContextIsDictionary` | `ImplementsDictionary`, a refinement of Dictionary |

The assumptions say which kind each constant is. Those that go beyond that:
in RouterPacket, lengths in four digits (an address has 1 to 9999 characters,
a field reads as -999 to 9999) and a width in which twice such a length and a
payload does not wrap, which 32 bits satisfy; in AdrTuple, the three transports
of the enumeration; in ZlogConf, that the levels of events are of one byte, as
those of raRt are (the 32 bytes of the bitmap are indexed without a test), and that a line is what `sscanf` can take out
of one (a selector is not empty, a level is any integer); in ZlogMessage, that
conversions are as `zlog_spec_new` makes them, two time conversions share a cache
only if they have the same time format (they never share one: `SlotsInPlace`),
and a format has a conversion; in ZlogMdc, that there are finitely many keys,
any number of them. `~AllocFails` is a hypothesis of the two theorems that are
false without it: `zlog_rollback` shows the counterexample.

### The forward path

`SingleWriter` is not inductive: `add_router_packet` starts a delivery when
the queue is empty, so the invariant must say that a delivery under way has a
packet in the queue (`LaneHasPacket`), and that in turn needs `BufferValid`
and `SingleWriter` when a write pops. `NoWedge` needs all of these for a
session that gets a packet, and `TableConsistent` so that a removal by address
takes out only a session that holds that address; an object not created yet
has an empty queue (`LaneHasPacket`) and its number is below the bound
(`CreatedByDatagram`). `ForwardInv` is their conjunction and is inductive; TLC
checks it as an invariant of `session_table`.

The proof states the invariant per session (`SessionInv`). What a step does to
the queue of handlers is covered by lemmas on `Holds` and `Once` under `Tail`
and `Append`; one lemma per action shows that the action preserves the
invariant of the session it belongs to and that all other sessions keep
theirs. `ForwardFIFO` is inductive relative to `ForwardInv` (the packet
delivered is the front of the queue, by `BufferValid`) and `NeverReplaced`
follows from `TableConsistent`: a lookup that finds no session of `p` means
the entry of `p` is empty. `ReaderAlive` needs, besides, that reads start only
with a connect that ends, so that a session which is connecting has no read
under way (`Readers`).

### Keys

`<` is a strict total order whose leftover is `==`, so an insertion at the place
a descent finds keeps the keys strictly sorted (`TupleInv`); in a strictly
sorted table every descent has one possible end, the place the scan finds. The
refinement maps the table to the set of keys that `==` finds. Facts about the
least element of a set of numbers come from the well-foundedness of `<`, here
and in the other modules (see Induction).

### The reply path

The handlers work on a record of the variables and may deliver twice, so the
invariant (`ReplyInv`) is stated on such a record, and what `add_tcp_packet`,
`pop_tcp_packet` and `deliver_to_udp_peer` do to it is proved once for each. It
says that queue, sends under way and wire are in order of one another, that a
reply with a peer that is neither queued nor skipped was handed to a send, and
that the front of the queue was handed on while sends are under way. The last
part makes the surplus pops harmless until a reply without a peer is skipped.
`SerialRepliesExact` is a second induction on top of it, over histories in
which replies never met.

### Packets

`PacketInv` says for each byte of the three packets which message wrote it. The
three properties are then statements about lengths, where the work is to show
on which side of the wrap a difference lies.

### The process

`ProcessInv` gives every descriptor an owner: distinct numbers for the lock file
and the files of the configuration in force and of the one being built
(`OwnInv`), for the sessions (`SessionInv`) and for the file being read. zlog does
not close a descriptor 0, which it takes for "none", so ownership is only kept
because 0 is never one of its files: in a daemon, where 0 is free, the
configuration file being read takes it, and the reactor takes it before the io
thread can start a reload (`ZeroInv`). That is the part a test would not show:
it holds because `log_init` comes before `run`.

### The logging environment

A thread has up to two frames, the call it makes and the one a signal
interrupted. `CallInv` says for each what lock it holds at its place and what it
has seen that is still so: after `zlog_fetch_thread` the buffers are of the
version in force, because no writer runs while it reads, not even a handler of
its own thread. `SharedInv` says how configuration, categories and records hang
together between writers. `AutoReloadEarned` rests on `Counted`: the unlocked
counter may lose increments but never runs ahead of the records written.

### The configuration

`ConfInv` has four parts. `Covers`: every lock file, file and pipe in the table
is known to the configuration being read; with it, that 0 is held by the
console or by the file being read for as long as anything is opened, because
`zlog_rule_del` and `zlog_rotater_del` take 0 for "none". The lock file needs, in
addition, that no section is entered twice (`section < 4` means that there is
no lock file yet). `CachesOf`: the time caches in use are below the counter and
each has one user, so that what `zlog_spec_new` takes next is free; lines that
fail move the counter only. `LevelsOf`: the nine default levels, in their order,
grow the array to 256 slots, each below twice the size before it, so that the
write one past the end that `zc_arraylist_expand_inner` allows does not happen
and no later level makes the array grow. The list of defaults is a recursive
function; because its domain is fixed, it is shown to exist by writing it down.
`RulesOf`: the bitmap of a rule is that of its comparison and level.

`NeedlessExact` then is arithmetic on one byte (`BitOfLevel`, from -1 to 255), and
`CategoryRules` that `strncmp` over the shorter length decides prefixes
(`MatchSelects`) and that the chosen rules can be counted in their order
(`CountExists`).

### Rotation

`LockInv` reduces all moves to one writer: the mutex within a process, the lock
file between processes, dropped by a crash. `RolledInv` and `CountedInv` describe
the archives left behind by any number of rotations broken off between two
renames: ages fall with rolling numbers and rise with counting ones, and there
may be holes. `MoveInv` says how far the rotation in progress is in its list and
that the next target is free. Together they give `NothingClobbered` and
`AgeOrder`. `SizeInv` says that somebody looks after a file that is full, or it
was left by a fault, and gives `LimitsKept`.

### Messages

The writers of `buf.c` are proved once, for any buffer, text and block of memory:
what a resize leaves (`Resized`), that a writer appends all of its output, or the
prefix that the limit leaves and the mark, or loses the memory (`TextWritten`),
and that the division loop prints the digits of the number (`DigitsAre`,
`QuotientIsDiv`). A hex dump is a sequence of such calls; that what they write is
the concatenation of their texts, cut where the first of them is, is an
induction over the calls. `MessageInv` then says of the thread (`ThreadInv`) that
its buffers are well formed and that a cache holds the text of the second, or of
the process id, it was made for; and of a text under way (`JobInv`) that what is
in the buffer is what the conversions so far mean at one moment since the call,
which is the time stamp of the event once a conversion has taken it. Without the
last part `MessageExact` is not inductive: the conversions of one text must agree
on the moment.

The proof found `MessageExact` false as it was first stated. A failed `realloc`
leaves `size_real` as it was, so the next resize takes the lost memory for used;
a limited buffer then reaches its limit with less room than its size says, and
a conversion with a width uses the text cut there. The property now excepts
conversions with a width after a failed allocation, and a pattern that meets the
case is in the run.

### The diagnostic context

`TableSound` and the search speak of chains, which are sequences computed from
pointers; no step of the code touches a chain as a whole. `MdcInv` therefore says
what each pointer is (`Linked`): `next` and `prev` undo each other, the first
entry of a bucket is the one without `prev`, neighbours have the same bucket, and
a rank falls along `next`, so that no chain closes to a ring. The rank is not in
the code; a push gives the new entry a rank above all, the other operations keep
it. Two lemmas carry the links through `PushFront` (`Pushed`) and `Unlink`
(`Unlinked`), and a rehash is the first of them once per entry of the traversal
(`RehashIs`). From the links follow the chains (`ChainIs`, `BucketChain`), and
from these that the search finds the entry of a key (`EntryFound`) and that
`begin` and `next` meet all entries in order (`StepsAre`). `Contents` says that no
two entries have the same key, which with a count of keys also shows that the
memory of the model is never short (`NewEntryIs`, `NewKvIs`).

For the refinement, what `zlog_mdc_get` returns is shown to depend on the pairs
only (`GetIs`), so that it is enough to follow what each operation does to the
pairs: a rehash, or a put that fails after one, does nothing to them.

### Induction

The provers cannot instantiate the induction theorems of the library. The
inductions of the last two sections (rounds of a loop, entries of a chain,
calls of a dump) take the least number for which the claim fails
(`LeastNumber`, from the well-foundedness of `<`) and refute it; that a recursive
function has values at all is shown in the same way (`RunsExist`, `MovesExist`).

### Only model-checked

* All liveness (`EveryPacketDecided`, `FailedSessionLeaves`, `QueueDrains`,
  `ReloadReturns`, `StopEnds`): the prover does neither fairness nor `ENABLED`.
* The properties of the violated runs, which are false.

Every invariant, action property and refinement that a passing run checks is
also proved.

## Not modelled

* `set_udp_buffer`, `start_tcp_connection`, `ParamsManager::save` and `log_fini`,
  which nothing calls; TcpRelayServer, which nothing creates; TcpSession,
  which is empty; `logging.h`, a third-party header whose loggers are no longer
  used; the `profile` functions of zlog, which print.
* Text work: `split_addr`, the conversion of addresses, `sscanf` on lines of the
  configuration and the expansion of environment variables. A line, an address
  or a path is what comes out of it.
* The single file, pipe, syslog and record outputs of zlog (one call each) and
  `fsync`; allocation failures while a configuration is built.
* That the default category is dereferenced unlocked by `vdzlog` (`zlog.c:735`)
  is in ZlogEnv (`crashed`), but raRt does not call it.
* The effect of a reply on the forward path and the reverse: the two paths
  share only the io thread. In UdpReply a reply may come at any time, which
  covers every schedule of the sessions; completions of sends keep their own
  order but are not ordered against other handlers.
* Restart of the router after a crash: it persists nothing, so there is no
  recovery to check. Restart is modelled where something is persisted, in the
  rotation of log files.

## Remarks on the code

Met while modelling, outside the properties:

* `buf.c` cuts a text that is too long and appends a mark, and the user's guide
  (`UsersGuide-EN.lyx:1360`) and the comment at `format.c:156` say so; but
  `zlog_format_gen_msg` takes the result 1 for a failure and the message is not
  written at all. `DroppedHasCause` says that this is the only cause besides a
  lack of memory and formats that cannot be converted.
* `docs/Notes.txt:28` says that loglevel in `raRt.cfg` can be changed while raRt
  runs; `reload_config` drops the parameters it loads.
* In console mode no signal handler is set, so no stop is recorded then.
* The test at `rule.c:769` for `#r` or `#s` in an archive path looks only at paths
  without a `#`, where it follows a null pointer; a path with `#` and neither
  letter is accepted and fails at every rotation (`"bad"` in ZlogRotate).
* A message longer than the archive size is written but never rotates the
  file; with `#s` one archive more than the count is kept.
* The comment before `zlog_buf_resize` (`buf.c:167`) says that a failure sets
  `size_real` to -1. The code leaves it, so a later text may be cut below its
  limit (see Messages).
* `mdc.c:70` stores the length the value would have had, not the stored one.
* The shipped level `TRACE = 80` replaces `WARN`.

## Plan

Done: the forward path, the reply path, packets and keys, the process, and
zlog's environment, configuration, rotation, messages and diagnostic context,
checked and proved.

Next:

1. `Router`: both paths over one io_service queue, the payload action being the
   conjunction of both halves, and an abstract `PeerChannel` (packets of a peer
   enter, each connection is a FIFO that may break) that it implements.
2. The remaining outputs of `rule.c` with their `fsync` counters.
