# A model of the TR50 client library

This directory models `libtr50`, a C library that connects a device
to an M2M service: it sends TR50 requests over MQTT, matches the replies with
the requests, and keeps the connection alive. Paths such as `tr50.c` are under
`src/src/` of the repository, `mqtt.async.c` and the like under `src/src/mqtt/`,
`linux.tcp.c`, `he910.tcp.c` and `tr50.json.c` under `src/src/util/<port>/` and
`util/common/`, `at.cmd.c` and the like under `src/src/util/he910/wrappers/`.

## 1. The system

| part | state | operations | interacts with |
|---|---|---|---|
| Api calls (`tr50.api.async.c`) | `client->seq_id` | `tr50_api_call`, `_call_async`, `_raw_async`, `_call_sync`, `_raw_sync` | adds to the pending requests and publishes, under `client->mux`; synchronous calls wait for an event |
| Pending requests (`tr50.pending.c`) | a linked list under `pending->mux` | add, find and remove; the thread "TR50:Pending" expires requests once a second | runs the callbacks of expired requests with `pending->mux` held |
| Client (`tr50.c`) | `state`, `is_stopping`, `mqtt` | create, delete, start, stop, delivery of replies | stop joins the receive thread without `client->mux` |
| MQTT connection (`mqtt.async.c`) | `state`, `mqtt`, `msg_id_seq`, `outstanding_ping` | connect, disconnect, publish, subscribe, unsubscribe; the thread "TR50:Recv" | the receive thread receives, detects errors, pings, reconnects and runs the callbacks of replies and acknowledgements |
| Unacknowledged messages (`mqtt.qos.c`) | a fixed table under `mq->mux` | add, signal, clear, any_expired | runs callbacks with no mutex held |
| MQTT client (`mqtt.c`, `mqtt.recv.c`, `mqtt.msg.c`) | one socket, byte counters, `last_recv` | connect handshake, send, receive of one packet, coding | called by the connection |
| Mailbox (`tr50.mailbox.c`) | `mailbox_suspend`, `mailbox_send_in_progress`, `mailbox_another_request` | check, its callback, suspend, resume | a reply callback that makes the next call; runs commands and methods |
| Commands and methods (`tr50.command.c`, `tr50.method.c`) | two registries | register, process, update, ack | called by the mailbox, call the api |
| Workers (`tr50.worker*.c`) | none | build a request, make one call, read the answer; file transfer over HTTP | call the api; take JSON of the caller and give JSON to it |
| Messages, payloads, JSON (`tr50.message.c`, `tr50.payload.c`, `tr50.json.c`) | trees of JSON | create, add, detach, delete; print, parse | used by the workers, the api and the mailbox |
| Sockets (`linux.tcp.c`, `linux.tcp_ssl.c` and their ports) | a descriptor, a TLS object and its context | connect, send, receive, disconnect | called by the MQTT client and the file transfer |
| Events, threads, mutexes (`linux.event.c`, `linux.thread.c`, `linux.mutex.c`) | a flag with a condition variable; handles | create, wait, signal, delete; join | mutexes are recursive (`linux.mutex.c:41`) |
| AT commands of the HE910 modem (`at.*.c`) | a table of answers, the module.exec under way | parse and run AT commands; callbacks that store answers | call the api; the callbacks run on the library's threads |
| Configuration, statistics | settings, counters | get, set | |

What is hard: three kinds of thread (the application's, "TR50:Recv" and
"TR50:Pending") and three recursive mutexes; callbacks that call the library
again from inside it; a request wanted at the same time by its reply, its
expiration and its failed publish; state read before a mutex is taken; a stop
that must not hold the mutex its callbacks want; connections that are replaced
under calls; identifiers that wrap; sends that never report a failure; streams
that the network cuts anywhere; connects of a dozen calls of which any may fail;
memory that changes hands on every path; a table that three threads use without
a mutex.

What makes each part correct:

- a request is either refused, and then the caller's again, or its callback runs
  once; no message is freed while the library refers to it;
- synchronous calls and stops return;
- nothing is sent on a connection that was freed or replaced;
- an acknowledgement is reported only if the server gave it, and every accepted
  call is told what became of it before the client ends;
- a dead connection is noticed;
- packets, texts and files arrive as they were sent, or an error is returned;
- every path returns what it took: descriptors, TLS contexts, files, JSON.

`PROJECT.json` lists the hazards at their lines with the properties that cover
them; a note says where the code is known to fall short of what one would expect.

## 2. The modules

- **`Tr50Requests`** is what the api promises: each request is idle, open,
  refused, done or dropped, and a callback runs exactly when an open request
  becomes done. No threads, mutexes, identifiers or lists.
- **`Tr50Api`** is the request engine: `tr50.api.async.c`, `tr50.pending.c`, the
  delivery of replies, the start and the stop. One action is the code between
  two points where another thread can act: taking a mutex, a call that may
  block, a callback.
- **`MqttQos`** is the table of `mqtt.qos.c` as operators: each is a step of a
  thread with `mq->mux`, since the functions release it before a callback.
- **`MqttAsync`** (extends `MqttQos`) is the connection of `mqtt.async.c`: its
  states, the receive thread place by place, the calls that send, disconnect,
  and the network.
- **`Tr50Mailbox`** is the mailbox of `tr50.mailbox.c` with the dispatch to
  commands and methods. A check is a request as `Tr50Requests` promises it,
  named by the thread that made it; the mutexes of the engine are left to
  `Tr50Api`, but that a thread may be caught in their cycle (`LockCycle`).
- **`MqttMsg`** is `mqtt.msg.c` as operators on sequences of bytes.
- **`Tcp`** is one socket: the calls of a connect and what each failure releases,
  the loops of sends and receives, TLS, on Linux, FreeBSD and the HE910.
- **`MqttWire`** (extends `MqttMsg` and `Tcp`) is the client of `mqtt.c` and
  `mqtt.recv.c` on its socket, byte by byte, against a peer that speaks MQTT as
  its standard says.
- **`Tr50Event`** is the event of a synchronous call, with the waiter that frees
  it.
- **`Tr50Pending`** (extends `Tr50Event`) is the linked list of `tr50.pending.c`
  with its links, its thread, and `tr50_delete`; `PendingSpec` is the list and the
  event together, as `MCTr50Library` has them beside its other parts.
- **`Tr50Json`** is the printer, the parser and the getters of `tr50.json.c`. It
  is recursive, and for TLC only.
- **`Tr50Worker`** is the wrappers of `tr50.worker.c` and
  `tr50.worker.extended.c` as a table, and one sequence of steps for all of them:
  what is allocated, joined to what, detached and freed.
- **`Tr50File`** (extends `Tr50Worker`) is the upload and the download of files.
- **`AtStorage`** is the parameters of AT commands and the table of answers;
  **`AtCommands`** (extends it) the commands, the callbacks and module.exec.
- **`MCTr50Api`**, **`MCMqttAsync`**, **`MCTr50Mailbox`**, **`MCMqttWire`**,
  **`MCAtCommands`**, **`MCTr50Library`** define the small sets of the TLC runs.
  `MCTr50Library` has the parts that share no state with anything: a behaviour of
  it is one of the list, the event, JSON, or a worker.
- **`Tr50Api_proofs`**, **`MqttAsync_proofs`**, **`Tr50Mailbox_proofs`**,
  **`Tr50Pending_proofs`**, **`MqttWire_proofs`**, **`AtCommands_proofs`** and
  **`Tr50File_proofs`** (which is about `Tr50Worker` as well) hold the theorems
  about the modules they are named after. **`Basics`** has what they share: in the
  place of the library's induction theorems the least-number principle, induction,
  and that recursive definitions have solutions; division with a remainder, and
  how streams of bytes are joined and cut.

How state and actions correspond to the code:

| `Tr50Api` | code |
|---|---|
| `clientMux`, `pendingMux` | the owners of `client->mux` and `pending->mux` |
| `pending` | the list from `list_head` to `list_tail` |
| `pc[t]`, `cur[t]` | the place of thread `t` in a call or in `tr50_stop`, and its message |
| `recvPc`, `recvMsg` | `_tr50_publish_handle_publish` of the receive thread |
| `pendPc`, `pendMsg`, `next` | the walk of `_tr50_pending_expiration_handler` |
| `life[m]` | who has a message: the library, the caller after an error, nobody; "freed" while the library still refers to it |
| `evt[m]` | the event on the stack of a synchronous call |
| `Enter`, `Add`, `Send`, `Undo`, `UndoExpired`, `Leave` | the parts of one call; an object call and a raw call differ where the code does (`EnterNoPayload`, `DeflateFailure`, `TopicIds`, who frees the message) |
| `CallbackCalls` | a callback makes a call of its own, as that of the mailbox does |
| `StopBegin` ... `StopEnd` | `tr50_stop`, with the mutex released in between; replies come until the receive thread has left `mqtt_recv` (`Receiving`) and tests for DELETING (`HandlerReturns`) |
| `Intact` | no freed message is referred to; the model ends where this fails |

| `MqttAsync` | code |
|---|---|
| `state`, `conn`, `mux`, `seq`, `pings` | `client->state`, `client->mqtt`, `client->mux`, `msg_id_seq`, `outstanding_ping` |
| `hpc`, `hnext`, `hslot` | the place of the receive thread, and the position of `mqtt_qos_clear` |
| `records`, `size` | the table and `current_size` |
| `hpc = "midway"` | `mqtt_recv` in the middle of a packet with a remaining time of 0 |
| `link`, `wire`, `unanswered` | the network: works, delivers nothing, closed; messages and pings under way |
| `Register`, `SendCall` | the two halves of a subscribe, unsubscribe or publish with quality of service |
| `Break` and the steps that use it | the four places that test the state without `client->mux` and change it with it |

| `Tr50Mailbox` | code |
|---|---|
| `suspended`, `inProgress`, `another` | `mailbox_suspend`, `mailbox_send_in_progress`, `mailbox_another_request` |
| `inUse` | `method_registration_inuse` |
| `pc[t]` | the place of thread `t` in `tr50_mailbox_check` or in its callback; `again` is the call at line 92 |
| `items`, `more`, `cur`, `kind` | the messages left, `count > 0`, the message and what it asks for |
| `"stuck"` | a thread in the cycle of `pending->mux` and `client->mux`, or in a call behind it |
| `open`, `answered`, `reply` | the check among the pending requests, and what the server answered |
| `box`, `sent` | the server's side |
| `runs`, `acks` | callbacks of the application, errors the library acknowledged |

| `MqttWire`, `Tcp` | code |
|---|---|
| `pc` | the receive thread in `mqtt_connect`, `mqtt_recv` and the handler |
| `buf`, `want`, `zero` | `buffer`, `read_len`, and whether `wait_time` has come to 0 |
| `todo` | the calls a connect has still to make, in the order of the source |
| `fd`, `alive`, `heap` | what is held: descriptor, handle, TLS objects, allocations |
| `rest[t]`, `out`, `in` | the loop of `_tcp_send`; the two streams |
| `isSsl` | the field as `_tcp_send` and `_tcp_recv` read it, which on Linux is not the one that `linux.tcp_ssl.c` writes |
| `asked`, `pushed`, `got` | history: what was asked, what the server sent, what the client read |

| `Tr50Pending`, `Tr50Event` | code |
|---|---|
| `head`, `tail`, `next`, `prev`, `count` | `list_head`, `list_tail`, `pending_next`, `pending_previous`, the count |
| `queue`, `owner` | what the links stand for, and who has each message |
| `epc`, `cur`, `enext` | `_tr50_pending_expiration_handler`, which holds `pending->mux` during a walk |
| `dpc` | `tr50_delete` and `tr50_pending_delete`, mutex by mutex |
| `holds` | the mutex of the client that a callback of the expiration thread has, `mailbox_check_mux` or `client->mux` |
| `wpc`, `spc`, `isLocked`, `alive` | the waiter, the signaller, `evt->is_locked`, the event's memory |
| `abandoned` | the event was freed by a call that could not compress its text |

| `Tr50Worker`, `Tr50File` | code |
|---|---|
| `root[o]` | the tree that an object is in: the caller's JSON, the message, the reply |
| `work`, `place` | the wrapper and the place in it; `done` says what becomes of the reply |
| `given`, `ret` | what the caller got |
| `at`, `stream`, `line`, `left`, `file` | the download: its place, the bytes to come, the line collected, `data_buffer_len`, what was written |
| `sent`, `pos` | the upload |

| `AtCommands`, `AtStorage` | code |
|---|---|
| `slots`, `count` | `g_tr50_at_storage` and its count |
| `put[t]` | `_tr50_at_storage_put` and the announcement after it: a slot found, `is_used`, `id`, the read and the write of `++count`, `unsol_callback` |
| `got` | `tr50_at_storage_get`: `is_used` cleared, the read and the write of `--count` |
| `calls`, `lastId` | calls of the api that wait for a reply; identifiers handed out |
| `rung[id]` | announcements (`unsol_callback`) of an identifier, less the gets that found it |
| `mail`, `recent`, `buffer`, `engine` | `g_tr50_at_wrapper_mail_id` and its age, `at_run_buffer`, the modem's work |

`Tr50Mailbox` has two variables of history, `promised` (the mail that an
accepted check is to bring) and `dropped` (a reply that was none). In `Tr50Api`,
`clashed` becomes true when an identifier is given out that is still in use,
after which the code promises little, and the properties about ownership are
stated until then. In the same way `torn` and `spoilt` (`MqttWire`), `stale`
(`Tr50Pending`), `abandoned` (`Tr50Event`), `cut` (`Tr50File`), `raced`,
`overlapped`, `overfull` and `overtaken` (`AtCommands`) record that something
happened after which the code is known to go wrong; each is the subject of a
hazard in `PROJECT.json`, and the properties are stated until then. They do not
catch what goes wrong after it, and the notes of the hazards say so. A failure to
compress in a raw call leaves a freed message in the list, and from there on the
program follows links in freed memory: `Tr50Api` makes no further step then
(`Intact`).

What the models leave out: the contents of requests and replies, statistics,
logging; the time-shift branches of the two expirations (the one in
`tr50.pending.c:133` can never be taken); callbacks of state changes; failures
to create threads and mutexes. Packets arrive whole in `MqttAsync`, and in pieces
in `MqttWire`, which in turn has no table of records. The
definitions whose names extend the name of another (`NextIdNoWrap`,
`RegisterUnlocked`, ...) are mistakes that one could make in the code; they are
not part of the specifications, and each makes a property fail when it stands in
for the definition after it.

## 3. The runs

| run | instance | shows |
|---|---|---|
| `Tr50ApiSafety` | 2 application threads, 3 messages (one synchronous, one raw with a callback that calls, one whose callback calls when it expires), 2 identifiers, malformed replies; 1.6 million states | types, single completion, ownership of messages, events and the cursor, stop against calls, and the refinement of `Tr50Requests` |
| `Tr50ApiLive` | 2 application threads, 2 messages, failures to compress, with fairness; 29 thousand states | synchronous calls, accepted calls and stops come to an end, until a failure to compress has damaged the list |
| `MqttAsyncSafety` | 2 users, 3 calls for 2 records and 3 identifiers, a refused subscription; 2.8 million states | callbacks once, no false acknowledgement, sends on a live connection, disconnect is final, a clear leaves nothing, nothing is lost at the end |
| `MqttAsyncLive` | 1 user, 2 calls, 1 record, keepalive, failing allocations, with fairness; 0.7 million states | disconnect returns and a silent connection is noticed, if no packet stays unfinished for ever |
| `Tr50Mailbox` | 1 application thread, the receive and the expiration thread, 2 messages, with fairness; 1 million states | one check at a time, one answer per message, no mail forgotten, checks end unless a reply is dropped or the mutexes of the engine are in a cycle |
| `MqttWire` | the receive thread and a user, 4 requests and 6 packets of the server of which 2 each per connection, acknowledgements only after their requests; Linux without TLS, FreeBSD and the HE910 with TLS behind an HTTPS proxy, base 4 for the remaining length; 1.5 million states | the client reads what was sent, the server sees what was asked, a failed connect holds nothing, TLS sends nothing in clear |
| `AtCommands` | every AT command with right and wrong parameters, 2 slots, 3 identifiers, 3 module.exec; 0.7 million states | the table's count and contents, no more announcements than there were messages, one acknowledgement with the right output |
| `Tr50Library` | a list of 3 messages; an event; objects with strings of every kind of character, those above U+FFFF included, and 7 numbers, cut at every byte; every wrapper with every combination of optional arguments; files of 0, 3 and 5 bytes in blocks of 2, bases 4 and 5 for 10 and 16; 1.1 million states | the links and the cursor, what is used when `tr50_delete` frees it, print and parse are inverse up to the exceptions below, a cut text is refused, memory is settled on every path, transfers are whole or an error |

Four more runs end in a counterexample, each to what a comment of the code says:

| run | the comment | what happens |
|---|---|---|
| `Tr50ApiBadReply` | `tr50.api.async.c:293` "since the message will expire" | a reply that cannot be read takes the request out of the list and completes nothing: the synchronous caller waits for ever |
| `Tr50ApiLockCycle` | `tr50.c:173` "release the mux because one of the publish callback might try to grab it" | a callback of an expired request and a call wait for each other |
| `Tr50ApiDeflate` | `tr50.api.async.c:221` "if compression failed, send without compression" | the call ends, and its message is freed while it is listed |
| `MqttAsyncOverdue` | `mqtt.async.c:342` "error detection" | a record above `current_size` is never seen to expire |

The bounds. Two application threads and the two threads of the library are all
the kinds of actors, with two of the kind that can be doubled. Three messages
and two identifiers make the sequence wrap with requests still pending, let a
failed publish race with an expiration and with a reply, and leave one message
for a callback to call with. In `MqttAsync` two records for three calls fill the
table and leave gaps in it, and three identifiers for three calls and any number
of messages without acknowledgement wrap; `unanswered` counts to 2, all that the
code tells apart. `BadReplies`, `DeflateFails`, `AllocFails`, `Keepalive` and
the sets of calls in callbacks are constants, so that each run shows what it
depends on. Deadlock is checked where the system never stops: not in
`MqttAsyncSafety`, whose client ends, not in `Tr50ApiSafety`, where the cycle of
`Tr50ApiLockCycle` is a real one, and not in `Tr50Library`, whose clients are
deleted and whose texts are parsed once.

In `MqttWire` the base of the remaining length is 4 instead of 128, so that
packets of a few bytes have headers of two, three and four bytes, and two packets
in a row are enough for one to begin where another was cut; the network takes and
gives any number of bytes at a time. In `Tr50File` the bases 10 and 16 are 4
and 5, so that a file of five bytes has the two digits at which they differ. In
`AtCommands` three identifiers fill two slots and find the table full, two threads
can be in one slot or in both, two putters and a get can be between the read and
the write of the count at the same time, and three module.exec can
follow each other while the modem is behind. The table, the other AT commands and
module.exec share only whether the client runs, and a behaviour has one of the
three (`part`). In JSON two of the numbers have a digit more than `FracDigits`,
the 6 of "%f", so that they are rounded. Three
messages make a list with an inner element, which every kind of removal meets.
The ports of `MqttWire` are checked with TLS where it differs from the others:
without it the FreeBSD port is the Linux port, and the HE910's calls are the first
of those with it; the Linux port with TLS connects as the FreeBSD port and sends
as without TLS (`isSsl`).

In `Tr50Mailbox` the three threads are all that can check at the same time with
distinct roles, and with two messages one can arrive while another is handed
over; checks are not counted.

Properties that hold only under a condition say so:

- `SyncReturns`, `Completes` and `StopReturns`: until a failure to compress in a
  raw call frees a listed message (`Intact`); with a server that answers well or
  not at all, and while callbacks of expired requests make no calls (constants of
  `Tr50ApiLive`). A reply may come, and its callback may call, while `tr50_stop`
  waits for the receive thread.
- `DisconnectReturns`, `SilenceIsNoticed` and `OverdueIsNoticed`: if the receive
  thread is not left in the middle of a packet for ever (`PacketsEnd`). With a
  remaining time of 0 (`mqtt.recv.c:67`, 119) `_tcp_recv` skips `select`, and a
  peer that falls silent there is waited for without a limit.
- `NoMailForgotten`: for mail whose check did not fail (the error path drops the
  note of another thread, `tr50.mailbox.c:136`). It and `CheckEnds`: while no
  reply is dropped, and unless a thread is `Stuck`: the callback of a check that
  expired makes the next check with `pending->mux` held (`tr50.mailbox.c:92`), the
  cycle of `Tr50ApiLockCycle`.
- `CalledOnce`: while messages can be allocated (a call that fails after
  `mqtt_qos_add` leaves its record, and its callback runs although it returned an
  error).
- `StorageSound`: a get gives what was put until two threads were in one slot, and
  the count is right until two were in `++` or `--` at once, which may well be in
  different slots. `RungIsThere` counts: a get can come between a put and its
  announcement, which then names an answer that is gone, but no announcement is
  made for nothing.
- `NothingAfterDelete`: `tr50_delete` destroys `mailbox_check_mux` and
  `client->mux` before it joins the expiration thread. A callback of that thread,
  the library's own for the mailbox among them, may use them then, and the property
  says that nothing else does; `pending->mux` it frees after the join. Of a
  synchronous call whose text cannot be compressed the event is freed with its
  request listed (`abandoned`), and nothing is said of it.
- `RoundTrip`: what is printed is read back but for control characters that have no
  letter and the digits that "%f" rounds away; what a peer writes is read as it was
  meant but for a character above U+FFFF written as a surrogate pair, which becomes
  two (`tr50.json.c:151` says so).
- `Settled`: what a caller is given is allocated, but for the text of
  `tr50_thing_attr_get`, which points into a reply that the wrapper frees when the
  caller takes no reply (`tr50.worker.extended.c:474`, 478).
- `DownloadWhole`: for one chunk or a length of one digit, the cases in which the
  code can be right, and if the server's error code is not -1, which the download
  turns into 0 (`tr50.worker.extended.c:956`).
- `NothingInClear`: for the ports other than Linux, where the two declarations of
  `ABSTRACT_SOCKET` differ.
- Those of `MqttWire`, `Tr50Pending`, `Tr50File` and `AtCommands`: until the other
  mishaps that section 2 lists.

## 4. Fairness

`Tr50Api!Fairness`: each thread that can run does (weak fairness of the steps
that need no mutex, of the receive thread's and the expiration thread's); a
thread waiting for `client->mux` or `pending->mux` gets it in the end if it is
released again and again (strong fairness), since calls hold `client->mux` for a
bounded time and the expiration thread sleeps a second between walks; time
passes. The steps are fair as long as the list is `Intact`. `StopJoin` waits for
the receive thread to be out of its handler; that `mqtt_recv` then returns, so that
the thread can test for DELETING, is taken for granted here and is the subject of
`MqttAsync`. Nothing is assumed of the server or of the application.

`MqttAsync!Fairness`: each call in progress goes on, the receive thread runs, a
join whose thread has returned ends, time passes. A receive may time out, since
`select` has a limit, but not in the middle of a packet for which no time remains
(`hpc = "midway"`): from there the thread has no fairness, and the properties assume
of the network that it does not leave the thread there for ever. Nothing else is
assumed of the network, nor of the server or the success of a reconnection. That weak fairness of `HandlerStep`
is enough for the mutex of the connection: each call is made once.

`Tr50Mailbox!Fairness`: threads that are not `Stuck` run, and a check that stays
unanswered expires,
which `_tr50_pending_expiration_handler` does for every listed request, connected
or not. Nothing is assumed of the server.

The other modules state safety only, and their specifications no fairness.

## 5. What is proved

Of the 34 properties without fairness that the passing runs check, 32 are
theorems, among them the refinement. What follows says for each module what is
proved and how the invariant had to be strengthened; each part of an invariant
was model-checked before it was proved. Of the sizes of the constants it is
assumed only that they are positive, and that the messages of a list are finitely
many; `MqttWire`, whose constants are data, says more of them.

### `Tr50Api`

`Tr50Api_proofs` proves, for any sets of threads and messages, any number of
identifiers, and any choice of the other constants (`ConstantsAssumption` says
only that the threads, "nobody" and "no message" are distinct, and that
`MaxId` is positive):

- `TypeCorrect`, `Invariant`, `SendOnLiveCorrect`, `CompletedOnceCorrect`,
  whatever fails;
- `HeldOnceCorrect`, `RefusedIsCallersCorrect`, `CursorLiveCorrect`,
  `EventAliveCorrect` and `Refinement` for `DeflateFails = FALSE`. With a deflate
  failure they are false, which is what `Tr50ApiDeflate` is about.

The argument. The properties are not inductive: that a callback runs once rests
on a message being in the list only once and with no thread, and this in turn on
who holds which mutex. The invariant `IInv` has the parts

- `TypeInv`: types, and which places have a message;
- `LockInv`: a thread has `client->mux` exactly in the middle of a call, the
  expiration thread has `pending->mux` exactly during a walk, and a thread of the
  library makes calls only inside a callback;
- `StopInv`: a call with `client->mux` excludes a stop that has begun, and at
  most one stop is under way;
- `ListInv`: no message is listed twice; a listed one was never completed and is
  with neither thread;
- `OwnInv`, until an identifier clashes and without deflate failures: identifiers
  of listed messages differ, a call that is to take back its message finds its
  own, each message is the library's, the caller's or nobody's, events are armed
  while a callback may come, and the saved cursor is listed.

`LockStep`, `StopKeeps`, `ListKeeps` and `OwnKeeps` prove each part from those
before it, one step per action. `RefinementStep` shows that every step is a step
of `Tr50Requests` or changes nothing there.

### `MqttAsync`

For any threads, calls, records and identifiers (`AsyncAssumption`,
`QosAssumption`): `TypeCorrect`, `SendsOnConnectionCorrect`,
`DeletingStaysCorrect`, `ClearedAllCorrect`, `NothingLostCorrect`,
`AckedByServerCorrect`; and `CalledOnceCorrect` for `AllocFails = FALSE`, since a
call that fails after `mqtt_qos_add` leaves its record.

- `LinkInv`: who has `client->mux`, and what `state` can be at each place of the
  receive thread. Nothing about `SendsOnConnection` is inductive without it: a
  send is safe because a reconnection and a disconnect need the mutex it holds.
- `ClearInv`: during a clear the connection is down and every record left is
  behind the position of the walk. The table is released before each callback;
  that no callback puts a record into the part already walked rests on calls
  being refused while the connection is down.
- `CallInv`: an accepted call either has one record or was told, never both; no
  two records are of one call. `NothingLost` follows from it and `ClearInv`.
- `FailInv`: a call that returned an error has no record.
- `WireInv`, until identifiers clash: an identifier names one record, and each
  message under way has its record. Without it an acknowledgement could be
  counted for another call.

### `Tr50Mailbox`

For any users and messages (`MailboxAssumption`): `OneCheckCorrect`,
`NoMailForgottenCorrect`, `OneAnswerCorrect`. The first two are inductive with
the types. `OneAnswer` needs `MailInv`: a message is in one place at a time (at
the server, in a reply, in the hands of a callback) and was not answered before
it is handed over; a method that is handed to the commands next was not called.

### `Tr50Pending` and `Tr50Event`

For any finite set of messages, of `PendingSpec` (`PendingAssumption`; the
messages are finite since the list of a program is): `LinksSoundCorrect` and
`NothingAfterDeleteCorrect`. `LinksSound` is not inductive: a message can be
removed from a doubly linked list only if it is there once (`NoTwice`), and the
pointer of the walk survives a callback only because the one message that the
callback takes out again is the one it added (`WalkInv`). `RemoveKeeps` and
`AddKeeps` are about the links alone; `FoundIsQueued` shows that a search along
the links finds what the queue has, by way of a first position that it does not
reach. `EndInv` is the order of `tr50_stop`, the ends of the mutexes and the join, and
that only a callback of the thread has a mutex of the client by then; `EventInv` is
how far the waiter and the signaller of an event can be apart, unless the waiter
has abandoned it.

### `MqttWire` and `Tcp`

For any requests, packets and bounds, on each of the three ports:
`NothingHeldCorrect`, `NothingInClearCorrect`, `ReadsWhatWasSentCorrect` and
`SeenAsSentCorrect`. What is assumed of the constants the code and the standard say: `RadixAssumption`, that
the base of a length is between 4 and the 128 of the code; `WireAssumption`, who
the senders are, and that a reply of a proxy may be as long as its end
(`HttpMax`, 255 in the code); `PushAssumption`, that each packet of the server has
an encoding: any identifier and any length of a topic that two bytes can hold, any
bytes as topic and payload, and a length of the packet of four digits at most,
which is all that the standard has; `RequestAssumption`, that the same holds of
what the user asks for. The code does not check the latter: of a longer topic
`_mqtt_encode_string` writes the length modulo 2^16 and that many bytes of it.

What a connect holds depends on which of its calls are
still to be made, and the sequence `todo` gets shorter with each. `CallsInv` says
in which order the calls in it are, in a way that survives the removal of the
first: nothing is held that only a later call makes. `HeldInv` says what is held
at each place; `ClearInv` that a TLS object that belongs to a connection is used
by it, on the ports where the declarations of the handle agree.

That the client reads what was sent has two halves. The first is about data: what
the standard's encoding writes, the code reads. `LengthDecoded` is about the
remaining length, whose digits are summed up to what was divided into them,
whatever bytes come after; `ConnackIs`, `AckRead`, `SubackRead`, `PublishRead` and
`PingrespRead` about each kind of packet, and `PushRead` about all of them:
`Understood` of the bytes of a packet is the packet. The second is about time:
`ReadInv`, in two parts.

- `ControlInv`: who sends and who has `client->mux` at each place of the receive
  thread, and that before its CONNECT there is nothing on the connection but the
  reply of a proxy, which is read to its last byte and not beyond. Otherwise a
  packet could begin with the rest of that reply.
- `StreamInv`: as long as no packet was cut off, the bytes received of a packet
  with those still to come are the packets not read yet, one after the other
  (`Stream`); in the header no byte but the first is without the mark, in the body
  what is received and what is missing make the length of the packet. That
  `mqtt_recv`, which asks for two bytes and then for one at a time, never reads
  beyond a header (`HeaderStep`) is what keeps it true.

That the server sees what was asked goes the other way, with the same two halves.
`Says(w, m)` is that the bytes `w` are one message by the standard, and read as
`m`. `Written` is that `_mqtt_encode_fixed_header_len`, which writes a digit and
goes on with the quotient, writes the digits of the standard; `HeaderAllocated`,
that `MQTT_CALC_FHEADER_LENGTH`, which compares with the powers of the base,
leaves as many bytes for them. So `PingSays`, `DisconnectSays`, `PubackSays`,
`ConnectSays` and `RequestSays`: whatever the client begins to send says what it
is meant to. `PubackSays` holds of what the code sends, which is the identifier 1
whatever was received (`mqtt.c:288` swaps two arguments).
`FramesTold` is about the server: of bytes that are whole requests, followed by
the beginning of one or by nothing, it finds these and no others. `AskedInv` is
the invariant: until a send is cut off or two are mixed, at most one sender is
midway (`OutInv`), and what the server has got is the requests asked for, of the
last of which `rest` has the end. The send of one byte at a time, or of all,
keeps it, since it only moves bytes from `rest` to `out`; a reconnection
(`ConnectAsked`) needs `ControlInv`, by which nobody is sending then.

### `AtCommands` and `AtStorage`

For a table of any size and any AT commands (`AtAssumption`,
`StorageAssumption`, and `ParameterAssumption`, that a command that sets has a
parameter, since the handlers dereference the first one unasked):
`StorageSoundCorrect`, `RungIsThereCorrect`, `ExecAnsweredCorrect`. `SlotInv` says
what a slot holds at each step of a put, and of each identifier that the
announcements made and still to come are no more than the slots with it that no
put fills. `CountInv` is about the count, as long as no two threads are between
its read and its write: it lags behind `is_used` by the puts and the get that have
still to count, and what the one thread has read is what it is. `ExecInv`: until a
module.exec is overtaken, the modem works on no other than the one waited for,
and the output collected is its own; that it is acknowledged once at most holds
in any case.

### `Tr50Worker` and `Tr50File`

For any files, any block size and any two bases up to 16 (`WorkerAssumption`,
`FileAssumption`, which says that files are sequences of numbers, and keeps the
digits apart from the other numbers of a stream; the code's bases are 10 and 16):

- `SettledCorrect` and `HandlesReleasedCorrect`. `HeapInv` says which trees of
  JSON there are at each place of a wrapper, and that what is freed next is the
  root of all that is to be freed; without it a second delete, or a tree that is
  left, would not be excluded. `GivenInv` says that what the caller is given is the
answer, and nothing before there is one. `HandleInv` says where in a transfer there is a
  socket, and that a download has no open file before it has an answer.
- `UploadWholeCorrect`. That the stream of an upload is read back as the file is
  not inductive: it is known of a finished stream only. `UploadInv` says of an
  unfinished one that it is read, whatever is put after it, as the part of the
  file before `pos`, followed by what the rest is read as (`Carries`). A chunk
  keeps this by `ChunkThenRest`; the last chunk ends it.
- `DownloadPrefixCorrect` and `DownloadWholeCorrect`. `Arrives` says, for each
  place of a download, that the line or the file together with the stream that is
  left is the response from there on: the header and what comes with it, a line
  with a size and its data, the data of a chunk. From it follow what the decoder
  finds (`DecodedHeader`: a field is where the response put it, and the header is
  complete after its last byte and not before) and the size that is read. Of
  responses in two chunks only the first arrives, since the reader looks for the
  next size at the CR and LF after the data (`SizeComes`); of a length with more
  digits than one, which is read with base 16, what arrives is a beginning of the
  file as long as bytes come.

They rest on lemmas about the functions of the streams, for every input:
`NumberOfDigits` (strtol reads back what was printed, whatever follows it),
`DigitsIs` and `DechunkedIs` (the recursive functions satisfy their definitions),
`ReadsOnce` and `ReadsAlike` (there is one way to read a stream, and it is the
same behind another stream).

Induction and recursion. The induction theorems of the library have an operator as
a parameter, which the provers cannot instantiate. `Basics` proves the same
for sets in the place of formulas (`NumberInduction`, `StrongInduction`), and with
functions in the place of the body of a definition that whatever is defined by
recursion along a measure exists and is unique (`RecursionExists`,
`RecursionUnique`). A recursive function of a model is then shown to satisfy its
definition by naming the functions it is made of.

### Only model-checked

- `SyncReturns`, `Completes`, `StopReturns`, `DisconnectReturns`,
  `SilenceIsNoticed`, `CheckEnds`: liveness under fairness, and with it the
  deadlock freedom of the runs that check it.
- `RoundTrip`, `TruncatedRefused`: `Tr50Json` is recursive, and out of the
  prover's reach altogether.
- The four runs that end in a counterexample.

## 6. Not modelled

- The SOCKS and HTTP proxies of `linux.tcp_proxy.c` and its copies:
  `_tcp_connect_proxy` passes `sock`, the address of the handle, where the setup
  functions and `_tcp_disconnect` expect the handle (`linux.tcp.c:130`), so that
  no setup of a proxy has a defined outcome. The HTTPS request that `mqtt.c`
  makes itself is in `MqttWire`.
- Ports: Windows, the ILS gateway and the stub, and of FreeBSD what repeats the
  Linux port; of the HE910 its files, timers and mutexes.
- Buffers (`tr50.blob.c`), which are sequences in the models; configuration,
  statistics, logging: data and single assignments.
- Failures of `malloc` in JSON (the constructors write to what it returned), of
  the pthread functions and of starts of threads; a start of the client that
  fails halfway; callbacks of state changes that call the library.
- What happens after a mishap that is recorded (section 2): a list whose links
  are damaged or that has a freed message, an event that is gone, a mutex that was
  destroyed, a stream read from the middle of a packet, a slot in which two
  threads were.
- Of JSON: numbers that need "%e" or "%.0f", conversions between number types in
  the getters. `tr50_property_current_ex` with a reply that has no value, and
  `_tcp_disconnect` of a handle that was never made on the HE910
  (`he910.tcp.c:297`), which read through NULL.

## 7. Plan

What is left, the most useful first.

1. That the queue of `Tr50Pending` makes the steps of the sequence that `Tr50Api`
   has, so that `LinksSoundCorrect` carries over to the engine.
2. Should more be modelled: the composition of `Tr50Api` and `MqttAsync` reduced
   to their mutexes and callbacks, state changes included.
