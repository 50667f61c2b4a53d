# devAdapter in TLA+

`devAdapter` (`src/code/`) is the process on an ARM board that stands between a
LabWindows client on a PC and the devices of the board. A client connects over
TCP and sends frames (heart beats, inquiries, stream on/off); devAdapter forwards
inquiries to other processes over an MQTT broker, and sends answers and streams
(RSSI, CSI, constellation) back to the client. One process, many threads, one
client at a time by intention and more than one by accident.

This directory holds TLA+ modules translated from that code, TLC configurations
that check them, and TLAPS proofs.

## 1. Inventory

| Part | State | Operations | Interaction |
|---|---|---|---|
| Event queue (`msg_queue.c`) | kernel queue (System V, key 1556), `seq_id`, mutex | `createMsgQueue`, `postMsgQueue`, `getMsgQueue` | written by server, receive and timer threads; read by the event loop |
| Timer (`gw_timer.c`) | `running`, `closeState`, condition variable | `Start_Timer`, `stop_Timer`, `timer_thread` | started and stopped by the event loop; posts `MSG_TIMEOUT`, `MSG_STOP_TIMER` |
| Server (`server.c`) | `waiting`, `g_receive`, `send_enable`, send mutex; per client `receive_running`, `connected`, socket, buffers | `runServer`, `receive_thread`, `sendToPc`, `freeReceThread`, `mutex_reInit` | `g_receive` is shared by the server thread, the event loop and every callback thread |
| Event loop (`event_process.c`, `devAdapter.c`) | `hasTimer`, `enableCallback` | one handler per message | owns the tear-down of clients |
| DMA streams (`dma_handler.c`) | `csi_state`, `constellation_state`, `slow_cnt` | start/stop, `IQ_register_callback` | callback thread of the DMA library calls `sendToPc` |
| Broker adapter (`procBroker.c`) | `rssi_state`, a shared frame buffer | `process_exception`, inquiries, `rssi_state_change`, `close_rssi` | broker threads call `sendToPc`; the event loop blocks in `dev_transfer` |
| Broker client (`dependence/broker/`) | lists of waiters and callbacks, request number | `dev_transfer`, `message_callback`, ... | MQTT thread wakes up waiters, starts a thread per message |
| cJSON (`dependence/cjson/`) | items linked by `next`, `prev` and `child`, names and texts | create, add, insert, detach, replace, duplicate, compare, delete | main and broker threads build requests and read answers with it |
| Monitor (`example/mon.c`) | state machine, table of programs with their pids, `child.running` | `run_actions`, `process_mon`, `mark_terminated`, `kill_all`, `mon_thread`, `send_thread` | a program of its own: starts the others, talks to them over the broker client |
| Count-down latch, utilities, register access, test programs | none that the program uses | | not modelled |

What is hard here:

- *Interleaving.* `sendToPc` loads `g_server->g_receive` and uses it without a
  lock that the tear-down takes; accept and tear-down write the same two fields;
  `Start_Timer` signals without the waiter's mutex; `mutex_reInit` unlocks
  somebody else's mutex.
- *Waiting.* A post blocks on a full queue with the queue's mutex held; the event
  loop, its only reader, joins a receive thread that may be posting, and then
  nobody goes on.
- *Ordering.* Messages of an old client are handled after a new one was accepted
  or after the tear-down; the timer posts one time-out after it was stopped.
- *Failure.* Posts that fail and are only logged, short and failed sends, threads that cannot be created, callbacks
  that cannot be registered, messages of a former process in the kernel queue,
  calls to the DMA engine whose result nobody looks at, allocations that fail in
  void functions, children that end while several threads wait for them.
- *Boundaries.* Frames that arrive in pieces or several at once are moved through
  2000 bytes of headroom; items go to the front, into the middle or past the end
  of a list.

What makes each part correct: the queue is a bounded FIFO whose numbers agree
with its order; a timer that was started is not asleep and a stopped one goes
to rest; memory of a connection is freed once and after its thread has ended;
frames of two threads are not mixed; nothing is sent after a frame was cut; a
silent client is torn down; every frame of a client is taken out of its stream
once and its answer is its own; a running DMA engine has a flag that says so; a
JSON item has one owner; a monitor that ends leaves no program behind.
`PROJECT.json` lists the hazards with the properties
aimed at them.

## 2. Modules

| Module | Models |
|---|---|
| `EventQueue` | abstract specification: atomic bounded FIFO, which may lose a post and begin with old messages |
| `MsgQueue`, `MCMsgQueue` | `msg_queue.c`, refines `EventQueue` |
| `MsgQueueProofs` | its theorems |
| `Timer`, `MCTimer` | `gw_timer.c` and the event loop's use of it; posts through `EventQueue` |
| `TimerProofs` | its theorems |
| `Session`, `MCSession` | `server.c`, `event_process.c`, `devAdapter.c` and the callers of `sendToPc`; instantiates `Timer` and `EventQueue` |
| `SessionProofs` | its theorems |
| `ReqResp`, `MCReqResp` | `dependence/broker/` as devAdapter uses it, and the requests and the RSSI state of `procBroker.c` |
| `ReqRespProofs` | its theorems |
| `Streams`, `MCStreams` | `dma_handler.c`, its handlers in the event loop, and the shared RSSI frame of `procBroker.c` |
| `StreamsProofs` | its theorems |
| `Receiver` | `receive()` of `server.c`: bytes, headroom and frames |
| `Requests`, `MCRequests` | `Receiver` composed with the event loop and the requests of `procBroker.c`, up to the frames that go back |
| `RequestsProofs` | the theorems of both |
| `ItemLists` | the operations on sequences that the list functions of cJSON stand for |
| `ItemTree` | abstract specification: items with sequences of items |
| `JsonLists` | the list functions of cJSON on `next`, `prev` and `child`, and the calls that are no more than one of them |
| `JsonItems` | all calls on items, built from `JsonLists`: names, texts, allocations, references; refines `ItemTree` |
| `JsonItemsProofs` | the theorems of both |
| `JsonCompare`, `MCJsonItems` | `cJSON_Compare`, by which a duplicate is the same as its original |
| `Monitor`, `MCMonitor` | `example/mon.c` |
| `MonitorProofs` | its theorems |

### MsgQueue

One action per statement of `postMsgQueue`: `Lock`, `Number`, `Send` (waits for
room, mutex held) or `SendFail`, `Unlock`; `Get` is `getMsgQueue`. `Restart` is a
new process on the old kernel queue: the counter and the mutex are fresh, the
messages are not. After `Get` the event loop may be in `pthread_join` for one of the
threads (`joining`, as in `freeReceThread`), and reads on when that thread has left
`postMsgQueue` (`Joined`). `boot` and `last` are history.

`EventQueue` is what the users of the queue see of it: `Post` waits for room and
appends, or fails unnoticed, and `Init` is any queue that an earlier process may
have left.

### Timer

The timer thread goes through `test` (the loop condition on `running`), `park`
and `wait` (the two halves of `pthread_cond_wait`), `sleep`, `cb` (posts the
time-out), `state` (reads `closeState`), `clear` (`running = 0`) and `bye` (posts
`MSG_STOP_TIMER`). `Start_Timer` is three steps, since none of its accesses is
protected. `pthread_cond_wait` may return by itself (`Spurious`). The mutex of
the timer thread is taken by nobody else and is not a variable (after the first
`process_loop` the thread even waits without it, which POSIX leaves undefined and
the model takes for a wait like any other). `missed` and `late` are history; `missed`
says that a part of the latest `Start_Timer` fell into one of the two windows in
which the thread does not notice it: between its look at `closeState` and its reset
of `running`, or between its look at `running` and its wait.

### Session

The state of `g_server_para`, of one `g_receive_para` per connection and of the
program counters of the threads. `object[c]` is the memory of connection `c`. The
process starts on a queue with up to `MaxLeft` messages of an earlier one, of any
type, and every post may fail. Three history variables record what a promise may
not survive: `lost` (accepts and ends of receive threads whose post failed),
`stale` (an accept of an earlier process was handled), and `excused` (clients that
had a cut frame when an accept was handled).

- *Server thread:* `ServerInit`, `Accept`, `Publish` (`g_receive =`), `Connect`
  (`waiting =`), `PostAccept`.
- *Receive threads:* `RxCheck`, `RxFrame`, `RxPost`, `RxIdle`, `RxClose`. A frame
  may follow a frame without a look at `receive_running`, as in the loop over the
  receive buffer.
- *Main thread:* `MainInit`, one `On...` action per message, and the statements of
  a long handler as steps: `Register`, `Arm`, `Enable` for a new client; `Quiet`,
  `Disconnect`, `Load`, `Stop`, `Join`, `Free`, `Clear`, `Reinit` for the tear-down.
- *sendToPc:* `SendLoad`, `SendCount`, `SendGate`, `SendLock`, `Send`, `SendUnlock`,
  run by the main thread (`OnInquiry`, `OnRfMf`) and by the callback threads
  (`Callback`).

A NULL pointer dereference ends the process (`status = "segv"`). A use of freed
memory goes on with what `free` left there, a socket of -1, or with a later
connection that got the same block (`Target`). `pthread_join` of a thread that
was never created fails or crashes. Unlocking a mutex of another thread unlocks
it, as the default mutex does.

Abstractions: a frame is a type; the answer of `dev_transfer` is present or not;
constellation streams behave as CSI streams here and only `csi_state` is kept;
`OnTimeout` reads `waiting` and `connected` in one step; debug counters are left
out except for the dereference of `send_cnt`, which is where a NULL or freed
connection is first touched.

### ReqResp

The main thread is the only caller of the broker client, one operation at a time:
the subscription to answers in `init_broker`, the one registration, and requests
(`dev_transfer`). An operation goes through `Begin` (`waite_ack_init`), `Issue`
(`mosquitto_publish` or `mosquitto_subscribe`), `WaitAck` and `Unack` on the waiter
on its stack, and for a request `WaitAnswer` and `Unlist` on the waiter in `new_dev`.
`Test` and `Return` are the two halves of `waite_ack_timeout`: the test of `mid` and
the single `pthread_cond_timedwait`, which returns when woken up, by itself, or
with `ETIMEDOUT`, the last also when the wake-up has just happened.

The MQTT thread runs one callback at a time. `AckArrives`/`AckWake`,
`AnswerArrives`/`Fill`/`Wake` and `ReportArrives`/`Walk`/`CbEntry`/`CbCall` are the
points where a callback holds an entry of a list it has not locked. `new_dev` is
freed only when the request failed; the block of a successful request is leaked,
and a callback that writes to it does no harm. Touching a freed block or a dead
stack frame ends the model (`status = "corrupt"`).

External parts are modelled from their use: broker and network lose anything (QoS
0), the broker forgets a client whose connection breaks (`clean_session`), the
library connects again by itself, a device carries a request out (`CarryOut`) or
refuses it (`Refuse`, a `stat` that is not "0", which `rssi_state_change` does not look
at) and may answer.
`Teardown` is `close_rssi` and the loss of the client that follows it; it composes
with the tear-down of `Session`. `early`, `missed`, `wrong` and `refused` are history.
A walk over the entries of a list that do not match is one step, and `AckListed`,
`SrvListed` and `OnNewDev` say which entries the lists hold: what can go wrong in them
is that an entry is given up while a callback holds it.

Abstractions: request number, mid and buffer contents are the number of the
operation (the eight bits of `req_resp_seq` do not matter, since it is compared
nowhere); the JSON is a kind; the copy into `dev->buf` is one step. Of
`register_cb_common`, `found_cb` can be left out: it compares a source with a topic
and never finds one.

### Streams

The event loop goes through the statements of `gw_startcsi` and `gw_stopcsi` (and
their twins for constellation): `Select`, `StartEngine`, `Mark`; `StopEngine`,
`Clear`, `ClearOther`. `OnStartCsi`, `OnStopCsi` and so on are the handlers with
their early returns, and `Teardown`, `TeardownSecond` the two calls of
`MSG_TIMEOUT`. Any call to the engine may fail, and none is looked at
(`EngineFails`, `failed`). `Throttle` and `Callback` are the count of
`IQ_register_callback()`, and the four tests of its two conditions are steps,
because the event loop may change the flags between them; `stirred` says that it
did anything meanwhile. `print_rssi_struct` is `WriteHeader`, `WriteSamples` and
`SendRssi`, by any thread of a report at any time. Two of them do mix their frames in
the one buffer: the model reaches a frame with the header of one report and the
samples of another, and no property says otherwise.

### Receiver and Requests

A byte is its place in the stream of the client, so that a frame is right exactly
when its bytes are consecutive from its beginning. `Recv` is any number of bytes
of what is left; `Keep` is either of the two copies to the end of the headroom, and
`Process` is `processMessage` with the step to the next frame. Nothing in
`receive()` compares a length with the headroom, and nothing in the model bounds
the length of a frame by it. Three things have no defined outcome and end the
model: `Overrun`, a `recv` of more bytes than are behind the headroom (`BUFFER_SIZE`
is asked for); `Underflow`, a `memcpy` that begins in front of the buffer, because
more is kept than the headroom holds; and `Overlap`, a `memcpy` between ranges that
overlap, which happens when less was received than is kept. There `memcpy` may
also copy right, so `Keep` goes on as well.

`Requests` extends it: every frame is posted (`Post`), taken (`Take`), and leads to
one request or to the six of `inquiry_rf_and_mf` (`RfRequests`). `dev_transfer` is
what `ReqResp` shows of it: the first answer that arrives ends the wait, whoever
it is for, a time-out ends it without one, and an answer that finds no waiter is
dropped. `i2cset` takes anything and returns 0, `i2cget` returns NULL for a
refusal, and the state goes to the client with the fields that are there. `stale`
is history. The queue has room for all frames (`MsgQueue` has the full queue) but a
post may fail, the client stays connected (`Session` has its tear-down), and the RSSI and stream
requests, which are not answered, belong to `ReqResp` and `Streams`.

### JsonLists and JsonItems

`JsonLists` has the heap and what the functions on lists do to it: `Path` is the
loop of `get_array_item`, `Last` that of `add_item_to_array`, and `AddToArray`,
`Detach`, `Insert` and `Relink` set the pointers that the C functions set, in their
order. `LinkedAs(h, f)` says that the pointers of heap `h` are the sequences `f`, and
`Loose` that an item is in no list and points nowhere. `ItemLists` says which
sequences each function should make. `JsonItems` adds
names, texts, allocation, deletion and copies. What recurs in the code is a recursive
function here, so that theorems can be proved about it: `DeleteIn[n]` is
`cJSON_Delete` in at most `n` steps, `CopyIn[n]` `cJSON_Duplicate` for what is nested at
most `n` deep, and the loops that build arrays count their rounds. The bounds are no
restriction: a delete of more steps than there are cells would free one twice
(`status` would be "corrupt", which `HeapAccounted` excludes), and a copy takes a cell
for every level. `cJSON_Compare` follows two trees at once and stays a RECURSIVE
operator in a module of its own, `JsonCompare`.

A function of cJSON is an operator from heap to heap, with the number of
allocations that still succeed as part of the heap, so that every prefix of
allocations of a call is tried. An action is one call of a client that keeps to
the rules of `cJSON.h`; what it has to delete is `held`. An access to a freed cell
sets `status` to "corrupt", `strcmp` with NULL to "crash". `lost` holds items that
a void function dropped without telling: the caller of
`cJSON_AddItemToObject()` cannot know that the copy of the name failed, and
`cJSON_AddItemReferenceToObject()` does not keep the reference it made.
Abstractions: two names that differ in case only, values left out (a number is an
array without items as far as memory goes), no item is added to a list it is in,
items of objects are reached by name, those of arrays by place, places are not
negative, and an item is not replaced by itself. A reference that leads back to
the item it is in makes `cJSON_Duplicate` recurse until memory or the stack ends;
the model has memory end first.

### Monitor

The positions of the three threads, the state machine `st_m`, the table (`entry`:
1 stands for the pid of its process) and the processes, among them the child that
`system()` makes. `WaitAny` is `waitpid(-1)` of `process_mon`, `Mark` one round of
`mark_terminated`, including its `waitpid` on an entry of 0 or -1, which waits for
any child. The waits of `mon_cf_parse.h` and `kill_process`, which are not in the
repository, are taken for what their callers use them for. `waitpid` and the reset
of the entry are one step of `Mark`. `QUIT` and `PARSE_RUN`
are unreachable and left out. `Transferred` has no fairness: `broker.h` bounds each
wait of `dev_transfer`, but nothing here depends on it, so the model does not assume
it. The failure of `read_config_file` is kept in
`ret`, so that a run whose last command has no file counts as failed.

Observations that no property states: `kill_process` may be given the -1 that
`process_mon`, called in the argument list of the log message just before, left in
the entry; the mon thread is cancelled but never joined and may still be in
`mark_terminated` when the table is freed; the test for `ST_M_DONE` at the start of
`send_cmd2dev` never succeeds.

## 3. Runs

| Run | Instance | Result |
|---|---|---|
| `queue` | 3 threads, 2 slots, 3 numbers, 1 restart, joins, weak fairness | order of numbers, refinement of `EventQueue`; the mutex of the queue is given up, unless the event loop is wedged in `pthread_join` |
| `timer` | 3 slots, weak fairness | at most one late tick; a timer that is on is not asleep, unless its start was missed; a stopped timer parks |
| `session_memory` | 2 clients, 2 slots, up to 1 old message, heart beats, thread creation may fail | receive threads never use freed memory, no double free, order of `MSG_RECEIVE_THREAD_CLOSED` |
| `session_send` | 1 client, 1 slot, up to 1 old message, 1 callback thread and the main thread in `sendToPc` | exclusion until a tear-down; nothing sent after a cut frame until another accept is handled; callbacks find their connection |
| `session_life` | 2 clients of which one sends heart beats, 1 slot, fairness | a silent client is reaped, or one of the named ways out is taken; the timer follows its client |
| `send_thread_safe` | 1 client, 1 callback thread | **violated:** use of a freed or NULL connection |
| `broker` | 4 operations (subscription, registration, two requests), 1 broken connection, refusals | answers, list walks and the RSSI state are right as long as no wait ends early and no request is missed; a switch that is carried out mends the RSSI state after a refusal |
| `listening` | 2 operations, 1 broken connection | **violated:** connected again, and subscribed to nothing |
| `streams` | 2 broker threads, every second callback dropped, failing engine, weak fairness | the engine follows the flags, frames get their type, a stream that is on sends its own data |
| `requests` | 2 frames of 3 to 5 bytes with a length of 2, headroom 3, buffer 8, 2 answers under way, 7 pairs of frame types, weak fairness | frames in order until memory is overwritten, answers go to their requests, everything is handled |
| `json_items` | heap of 6 items, 4 calls, arrays of up to 3, 1 reference | lists, ownership, places, copies; refinement of `ItemTree` |
| `monitor` | 3 programs, 2 tries, 7 tables of commands, weak fairness | entries are truthful, nothing is left running, trouble ends the monitor |

Bounds. Two clients are what the races between accept and tear-down need: one
that goes and one that comes. Exclusion needs two threads: a callback thread and
the main thread, which go through the same steps of `sendToPc`. One old message is
what it takes to have an accept, a time-out or a heart beat before there is a
connection. The real queue holds 8 messages (16384 bytes of 2048); 1 to 3 slots make the full
queue frequent, and every property but the exemptions for a wedged event loop is
insensitive to its size. Three numbers and one restart give two messages of
different incarnations in the queue with a third in flight. `Conns` is also the
bound on accepts. Four operations are the fewest with reports coming in
(registration), a request that makes them come and one more that a late answer can
hit; the second request is a client's or `close_rssi`'s own.

Two streams and their flags are all there is of `dma_handler.c`; one dropped
callback has both branches of the throttle. Two frames, of two lengths, with a
header of two bytes give every cut: inside the first header, between the frames,
after the second header, and both frames at once; of the three lengths two fit the
headroom of 3 (but for the last byte) and one does not. Two answers under way are the late one and the one
that is due. Four calls from an empty heap make a list of three, an object in an
array, or a reference, and then do one more thing to it; `DuplicateEqual` and
`RightPlace` try their functions on every heap reached, so they see a fifth call.
Three programs make a first, a middle and a last entry, of which one may be
reaped by another thread; the tables have each way through `send_cmd2dev`.

`SendExclusion` speaks of the time before the first tear-down only: `mutex_reInit`
unlocks the send mutex in its `EBUSY` branch too, while its owner is sending.
`NoResume` leaves out clients with a cut frame at the time an accept was handled:
`send_enable` is one flag for all connections, which every `MSG_ACCEPT_NEW_CLIENT`
sets, be it the client's own, handled late, that of a second client, or one that an
earlier process left in the queue. After the tear-down of one of several clients
it says nothing, since a thread may then send on freed memory that a later client
got. The reverse, a failed send on the old connection that silences the new
client, is possible too. `CallbacksSafe` ends with the first tear-down, and with an
old accept, which registers the callbacks before any client came.

Deadlock is not checked for the queue (its instance runs out of numbers) and for
sessions: the process may exit, crash, or sit in `msgrcv` forever without a
listening server thread, and all of these are ends of the model. In `ReqResp` the
process may exit too, and the operations run out. `Streams` may rest with no
stream on; in `Requests` the frames run out; in `JsonItems` the calls; the monitor
ends.

Fairness. Weak fairness of each thread: the scheduler runs it, and `select`,
`recv` (5 us time-out), `send` (5 s time-out) and `dev_transfer` (time-out) come
back. Nothing is assumed of clients, callbacks, `accept` or spurious wake-ups.
A failing post is never forced, and `msgsnd` comes back when there is room. A
thread may lose the competition for room in the queue again and again; only of
the time-outs of the timer strong fairness is assumed: not every one of them fails
or loses, as the timer posts one each 4 s for as long as it runs. In `MsgQueue` the event loop reads on whenever it is not in
`pthread_join`, and that returns once the thread has ended; nothing ends it for a
thread that waits for room. `SilentClientReaped` is about clients
that send no frame at all any more; a client that floods the queue can hold back
even the message about its own arrival. In `Streams` a handler that was begun is
ended and a running engine calls back; nobody need switch a stream on or off. In
`Requests` the receive thread takes what the client has sent and the event loop
goes on, over time-outs if need be. In `Monitor` the three threads go on; no child
need end, no device answer, and no child be born.

Exceptions. `SilentClientReaped` names every way in which the code fails to reap a
silent client:

- the process died of a NULL `g_receive`: a heart beat or time-out that was handled
  after the tear-down, or before the server thread published the connection (an
  earlier process may have left one too; the run of this property starts on an
  empty queue, the safety runs do not);
- `missed`: the start of the timer fell into one of its two windows; `hasTimer` is 1
  and nothing ticks;
- `Wedged`: the event loop is in `pthread_join` for a receive thread that waits for
  room in the queue that only the event loop empties;
- `lost`: the post of the accept failed, so that no timer was ever started;
- `Orphaned`: the event loop has lost the connection, because a later client took
  its place in `g_receive`, or because the tear-down of an earlier client wrote NULL
  over it.

It fails without any one of them. The `MSG_RECEIVE_THREAD_CLOSED` of an earlier client
stops the timer of a new one as well; that this happens only to a client that is
orphaned already (the join comes before the reset of `g_receive`, so the message is
out before a client can be published that stays) is part of what the run shows.

`HolderReleases` exempts the same wedged event loop, and fails without that.
`StartHeard` exempts `missed`, and fails without it.

A client accepted while another is torn down may be lost as well: it sets
`g_receive` and `STATE_CONNECTED` before `freeReceThread` stores NULL over
`g_receive`, and the indicator says connected without a connection.
`AnswersInStep` and `RightAnswers` stop where an answer was missed: numbers in
topics are not compared, so the late answer to a request that timed out is returned
to the next one. In `RightAnswers` this lasts only until a request is sent with no
older answer on its way. `TroubleEnds` leaves out the time in which the send
thread is among its commands, because the `ST_M_DONE` that follows overwrites
`ST_M_EXIT`, and the trouble is forgotten; nor does the mon thread wait for
children again once the commands are done and it got a child that is in no entry.
`TypedByContent` holds as long as no handler ran during the callback and no call to
the engine failed. `StreamFlows` names among its exemptions a registration that
failed: `enableCallback` is set all the same, and it is never tried again.
`RssiAgrees` exempts answers that were missed and a last switch that was refused:
`rssi_state_change` records what it asked for. `FramesInOrder` says nothing once
memory was overwritten; it says in addition that a headroom too small is met only
inside a frame that is longer than headroom and one byte.

`TimerFollowsClient` exempts a receive thread that was never created or whose last
post failed, since then no `MSG_RECEIVE_THREAD_CLOSED` comes and the timer goes on.

What the violated runs show. `send_thread_safe`: `sendToPc` is commented "send thread
safe" and uses a connection the event loop freed. `listening`: "subscribe to all
response topics" is done once, with a clean session, and not after a
reconnection.

## 4. Proofs

For every value of the constants:

- `MsgQueueProofs`: types; `OrderInv`, that is exclusion (`HolderOK`), numbers in
  use below `seq_id` and a thread about to send carrying the highest number of its
  incarnation (`NumbersSpent`), and the order itself (`NumbersInOrder`), which is
  not inductive without the other two; refinement of `EventQueue`, where `Send`
  is the post and every other step of a poster is invisible.
- `TimerProofs`: types; `AtMostOneLateTick` from `LateInv` (after a late tick the
  thread is on its way out or finds `running = 0`); `StartHeard` from `StartInv` (a
  start outside of the windows leaves `running = 1` and `closeState = 0`, and the
  thread finds them so until the next stop).
- `SessionProofs`: types; `OwnershipInv`, from which `FreeAfterExit` and
  `TeardownTargetLive` follow. A published connection is live except between
  `free` and the reset of the pointer, and a connection still in the server
  thread's hands is neither published nor being freed: this is why a client
  accepted in the middle of a tear-down cannot be freed twice, although it can be
  lost. `SendExclusion` from `LockInv`, which uses that `mutex_reInit` runs only
  after a `free`. `ClosedIsLast` from `ClosedInv`: a receive thread that has posted its
  last message has ended and is not started again. `NoResume` from `LoadedInv` and
  `ResumeInv`: `send_enable` is set by the handler of an accept only, which excuses
  whoever has a cut frame; and the flag is tested under the lock, which a thread
  whose `send` failed holds until it has cleared the flag. Once the memory of the
  only client is freed its descriptor is closed.
  `CallbacksSafe` from `LoadedInv` and `CallbackInv`: until the first tear-down, and
  with no old accept, a callback finds a connection behind `g_receive`, because
  callbacks are registered after it was published and only `freeReceThread` resets
  it. What is left of
  `SendThreadSafe`, which the run `send_thread_safe` refutes, is thus the time after
  a tear-down, or after an old accept. Two promises of the parts it is built from are
  proved again for the session: `SessionUsesEventQueue` (every step is a step of
  `EventQueue`, or none) and `SessionTimerHeard` (`StartHeard` of `Timer`). The other
  theorems about the parts are about the parts, each with its own exemptions.
- `ReqRespProofs`: types; `AnswersInStep` from `InStepInv`: a request, or its answer,
  is in one place at a time and in none before it was published, and as long as no
  request was missed the one under way is the only one anywhere. Most steps put
  nothing on its way and are dealt with by one lemma (`PassiveKeepsStep`).
  `WalkSafeInTime` from `WalkInv`: until a wait ends early nothing was freed, and
  the waiter a callback is about to wake up is still waiting. `RssiAgrees` from
  `RssiInv` and `InStepInv`: unless the last switch was refused, while a request is
  under way the rf process is in the state recorded or in the one asked for, and in
  the latter once the answer was sent; no older request is left that could change
  it again. `ListensUntilLoss` from
  `ListenInv`: `init_broker` waits for `connect_callback`, and its subscription is
  sent before it returns. `DeafForGood` is the other half: once the subscription
  is lost, no step of the process brings it back.
- `StreamsProofs`: types; `StreamBacked` from what each position inside a handler
  owes the flags and the engine (which flag is still to be set or cleared);
  `TypedByContent` from the tests the callback has passed, as long as no handler
  ran.
- `RequestsProofs`: the receive thread first. `Unprocessed` says that the buffer
  holds the stream from the next frame on, and nothing else, both inside the
  loop of `receive()` and between two calls; with it a header read at `pStart` is
  that of the next frame, and frames are delivered in order (`FramesInOrder`) until
  memory is overwritten, for every size of frames, headroom and buffer and every
  number of frames; frames that the headroom does not hold included, whose
  `Underflow` happens nowhere else. Then the event
  loop: `InHand` orders what is posted, queued, in hand and sent, and says that
  while no older answer is on its way everything on its way is for the request in
  hand, from which `RightAnswers` follows.
- `MonitorProofs`: types; `NothingLeft`, whose invariant follows `kill_all` through
  the table (entries below `act` are cleared, their processes told) and the ways
  into it; `EntryTruthful`, whose invariant says that the other
  threads rest while the programs are started, that every entry has a process when
  the mon thread begins to wait for any child, and which of the entries its round
  of `mark_terminated` has still to reach.
- `JsonItemsProofs`: for heaps of any size, lists of any length and trees of any
  shape. First the functions that set pointers: what `Detach`,
  `AddToArray`, `Insert` and `Relink` make of lists that are linked
  (`DetachTakesOut`, `AddAppends`, `InsertPlaces`, `RelinkReplaces`): the list of `p` is
  the sequence `ItemLists` names, every other list is as before, and items that were
  loose stay loose. Each goes by two lemmas, one on which pointers the assignments
  leave different (`DetachSets` and so on), one on lists of which one was linked anew
  (`OneListChanged`). That the walks of `get_array_item` and `add_item_to_array` get
  where the sequence says (`PathOf`, `LastIs`, `ListFromIs`) needs induction, which is
  done by hand with a least number (`LeastNat`, from the library's theorem that
  the order of the natural numbers is well-founded). `PlacesFollow` concludes
  `RightPlace` from `ListsLinked`; `ListsStayLinked` is about the calls of `JsonLists` alone.

  Then all calls. `JsonInv` is the inductive invariant: as long as the process has
  not crashed the heap is in `Order`, that is `Sound` (lists linked, each item in use in
  one list or with the client or lost, free cells blank, and `Layered`: items have
  depths, so that nothing is in itself), `Counted` (keys and texts are as many as items
  own) and `Named` (members have names unless a copy of one failed). None of the
  parts is inductive alone: a delete follows pointers, so that what it frees is known
  from `Sound` only, the count of texts stays right only if each item is freed once,
  and `strcmp` is safe only where names are. The parts of the argument:
  `WithinIs` (what is in an item is the smallest set closed under taking items; its
  computation in as many rounds as there are items is complete); `DeleteFrees` (`cJSON_Delete` frees
  exactly what is in the item, and its keys and texts once, by induction over the
  cells still to be freed); `SoundAdd`, `SoundInsert`, `SoundDetach`, `SoundRelink` (one
  list changes and the depths can be chosen anew); `ItemMade`, `ArrayMade` and
  `CopyInMade` (each of the functions that allocate makes new items that nothing else
  points to, or leaves the heap as it was, whichever allocation fails: the loops by
  `Building`, what a half-built array or copy is, the nesting by induction over the
  depth, where a copy looks through references and therefore needs a closed set of
  items, `Closed`). One lemma per call (`...Follows`) then gives both that it keeps
  `JsonInv` and that it is a step of `ItemTree`. From `JsonInv` follow `TypeOK`,
  `ListsLinked`, `RightPlace`, `HeapAccounted` and the refinement
  (`JsonItemsTyped`, `JsonListsLinked`, `JsonRightPlace`, `JsonHeapAccounted`,
  `JsonImplementsItemTree`). `JsonAllReachable` adds to `HeapAccounted` that every item in
  use can be reached from one that the client holds or that was lost, since depths
  leave no room for a ring of items that own each other.

Assumptions on constants are the named `ASSUME`s: at least one message type, a
queue of at least one slot, `NULL` not a connection, the main thread not a
callback thread; a header that fits into the headroom, which is part of the
buffer (nothing bounds a frame); at least one program and one try.

Model-checked only: liveness, which is out of the prover's reach, and
`DuplicateEqual`: `cJSON_Compare` of two trees, one of them with references looked
through, is a RECURSIVE operator, which the prover cannot take. What is proved of
a duplicate is that it consists of new items, has the name of its original, leaves
what was there as it was, and leaves nothing behind when it fails (`CopyInMade`).

## 5. Not modelled

- *Parsing and printing of JSON* (`cJSON_Parse`, `cJSON_Print`, `cJSON_Minify`):
  functions from text to items and back without state of their own; the exact
  comparison and conversion of numbers belongs to them.
- *The texts of requests and answers* in `procBroker.c`: an answer has the value that
  was asked for, or has not.
- *`close_broker`, `unregister_callback`, `dev_send`*: not called by devAdapter; the
  monitor's use of the first two is a step of `Monitor`.
- *Reading of the command line, the log and the tables of the monitor*, and its
  waiting primitives: in files that are not in the repository.
- *`gw_control.c`, `gw_regdev`*: register access, not called. *The count-down
  latch*: initialised, never used. *Utilities, log output, debug counters, socket
  options, `example/server_temp.c`* (a loop that sends a file to one client) *and
  the test programs.*

What could be added: a session of three clients; a proof that a duplicate compares
equal, with `cJSON_Compare` as a function of the pairs of items it has still to visit.
