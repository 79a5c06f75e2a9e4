# A TLA+ model of the ESPHome C API client

The repository holds a client library in C for the ESPHome native API
(`src/src`, `src/include`, `src/examples`), and, for reference, the ESPHome
firmware (`src/esphome-dev`), whose `api` component is what the client talks to.
This directory models the client, the part of that component it depends on, and
the concurrent core of the firmware that all components run on (scheduler, event
queues). It checks the models with TLC on small instances, and proves some of
their properties with TLAPS for every instance.

## 1. The system

| Part | State | Operations | What makes it correct |
|---|---|---|---|
| Entity registry (`api/entity_registry.c`) | global array of 64 entries (id, key, type, state text) and a count | clear, add, update_state, lookup_key, print_all | bounded; a name that resolves keeps its key; a state goes to the entity it is about |
| Session API (`api/esphome_api.c`) | socket, noise context, `list_entities_done` | connect, disconnect, check_device_info, wait_list_entities_done, subscribe_states, set_switch, run_step | calls return what the header says; the list is complete when it is done; cached states converge to the device; pings are answered |
| Request encoding (`api/proto_helpers.c`) | none | one function per request | - |
| Framing (`api/frame.c`) | none of its own; stream position and nonces are in the socket and the ciphers | frame_send, frame_recv | frames are delivered in order, none twice, none made up |
| Transport (`transport/transport.c`) | socket with 2 s receive and send timeouts | connect, send, recv, wait_readable | sends and receives exactly what was asked for, or fails |
| Noise session (`noise/noise.c`) | handshake state, then two ciphers with nonces | init, handshake, encrypt, decrypt, free | only under the right key; nothing leaks |
| Varints (`protobuf/messages.c`) | none | encode, decode | inverse to each other, bounded |
| Device connection (`esphome-dev/.../api_connection.*`, iterators) | active iterator, deferred batch, subscription and keepalive flags | loop pass: read, flush, iterate, keepalive; publish; shutdown | no item of the batch is lost or overtaken |
| Device frame helper and server (`api_frame_helper_noise.cpp`, `api_server.cpp`) | handshake state, partial frame, connection slots | accept, handshake steps, read_packet, remove | reads in pieces without loss; slots come back |
| Device send path (`api_overflow_buffer.*`, `api_frame_helper.*`, the sends of `api_connection.cpp`) | backlog of unsent bytes, deferred batch | helper loop, drain, write, flush, publish, log | bytes in the order of their nonces, every item sent once, and in the end |
| Scheduler (`core/scheduler.*`, `Application::loop`) | heap, `to_add_`, defer queue, item pool, three counters, sleep | set, cancel, defer, run, clean up, sleep; from any thread | no item lost, doubled or freed while it runs; passes end; timers run |
| Event queue and pool (`core/lock_free_queue.h`, `core/event_pool.h`) | ring with two indices; free list and a count | push, pop, allocate, release | FIFO between one producer and one consumer; an element has one holder |
| MQTT outbound queue (`mqtt_backend_esp32.*`) | a queue, a pool, a pending notification | enqueue_, the task | what is accepted is published in order |

Client and device are two processes that share a TCP connection, one FIFO of
bytes per direction. The client is single-threaded: it acts only while the
application is in one of its calls, and a call that waits (`esph_connect`,
`esph_check_device_info`, `esph_wait_list_entities_done`, `esph_run_step`) lets
the device go on meanwhile. The device runs one loop pass after the other;
between passes its entities change and its other components publish. Within the
device, other threads and tasks share the scheduler with the main loop under a
lock, and the event queues without one.

What is hard about it:

- **Interleaving and order.** A change of an entity can fall anywhere between the
  request for the list, the list, the subscription and the initial states; the
  device sends it at once, or puts it into a batch that already holds older
  items, or finds it there already.
- **Limits.** Socket full (part of a batch or of a frame stays behind, urgent
  messages swap places), registry full, 25 steps of waiting, connection slots,
  overflow buffer, element pool.
- **Shared memory.** The main loop reads counters, flags and the front of the
  heap without the lock; a timer is cancelled while its callback runs; a consumer
  falls asleep while the producer pushes.
- **Partial failure.** A send or a receive may stop at any byte. Every exit of
  `esph_connect` has its own clean-up.
- **Timeouts.** Two seconds per receive and send, 150 ms per step of the wait,
  the device's handshake timeout and keepalive.
- **Sessions.** The registry is global and outlives the session; the device may
  drop the connection, shut down or reboot.

`PROJECT.json` lists these places, with their lines, as hazards, and the
properties that cover them.

## 2. Modules

```
EntityCache <--refines-- Registry <--proofs-- RegistryProofs      MCRegistry
                            ^ (its operators, INSTANCE)
Link <-- Session ----------/
  ^---- Device
        Session + Device = System <--proofs-- SystemProofs        MCSystem
                            \--refines--> Mirror
FrameRecv <--proofs-- FrameRecvProofs                             MCFrameRecv
FrameSend <--proofs-- FrameSendProofs                             MCFrameSend
Connect <--proofs-- ConnectProofs                                 MCConnect
Backlog <--proofs-- BacklogProofs                                 MCBacklog
Scheduler <--proofs-- SchedulerProofs                             MCScheduler
Fifo <--refines-- MqttQueue --extends--> LockFreeQueue            MCMqttQueue
                      ^--proofs-- MqttQueueProofs
```

**EntityCache** says what the registry promises, without an array: a directory
from names to keys, and a cache from keys to states. **Registry** is the array.
Names are sequences of characters because two of its operations look into them:
texts are clipped to the field, and an id is cut after its first dot.
`esph_registry_add`, `esph_registry_update_state` and `esph_registry_lookup_key`
are operators on a registry; the actions of the module, and Session, use them.

**Link** has the messages and one FIFO of whole messages per direction.
**Session** has one action per call of the library, or several for a call that
waits: `pc` says which call is in progress. `HandleFrame` is the body of
`esph_run_step`, one disjunct per message type. The application makes calls in
any order that `Before` permits, each at most `Times` times. History variables
(`lost`, `fresh`, `registered`, `jumped`) record what a property needs to
know of the past and influence nothing.

**Device** is `APIConnection` after the hello exchange. `phase` is the place in
the loop pass: messages are read, then the batch is flushed if its timer has
expired, then the active iterator queues at most one batch of items. Items are
encoded when they are sent, so a queued state carries the reading of that moment.
**System** joins the two and states their common properties. **Mirror** is what it
implements: the client shows for each key it knows a text, which is blank at first and
changes only when a report is taken; reports arrive in order or not at all; and a report
is true at the moment it is sent. Sockets, batches, iterators, subscriptions, calls and
sessions do not occur in it. Under the mapping (`Mirrored`) the truth is the set of
current readings, the wire the states in the socket's queue, and what is shown the texts
that a search of the registry finds (`Screen`).

**FrameRecv** and **FrameSend** justify the FIFO of whole messages in Link from
the bytes below. In FrameRecv only positions in the stream are kept, and a header
read at a position where no frame begins shows any length. In FrameSend the wire
holds labelled bytes, because a sender that fails in the middle of a frame and
goes on with the next one puts pieces of frames side by side.

**Connect** is the way to a session: TCP, the Noise handshake, hello, for several
calls at once and a device with few slots. The cryptography is one fact: the MAC
of the first handshake message is right only under the device's key. Session
takes over where `esph_connect` returns.

**Backlog** is how the device sends: publishing, immediate sends and batches of
`APIConnection`, the frame helper, the overflow buffer, and a socket that takes any
part of a write. It justifies the FIFO of Link for the other direction: Device
and Link have a queue of messages with room for a few, Backlog the bytes below.
The functions of the helper are operators from an outcome (bytes taken, backlog,
error) to the set of outcomes the socket allows; the actions are the operations of
the connection. The circular array of the buffer is a sequence.

**Scheduler** is `core/scheduler.cpp` with the rest of `Application::loop` around
it. A call that sets or cancels a timer holds the lock throughout and is one
action, by a second thread at any moment or by a callback or a component's `loop()`
while it runs. The main loop's steps end where it takes or releases the lock; `pc`
says where it is. The heap is a set with a front: after each operation the front
is any item with the least time, which is all that `std::push_heap` and
`std::pop_heap` promise. Recycled items are blank because nothing of them is
looked at again.

**LockFreeQueue** has one action per access to a shared variable, for any number
of rings and of threads. **MqttQueue** uses two of them, the queue and the free
list of the pool, between the main loop and the MQTT task. **Fifo** is what a
producer and a consumer may expect of a queue.

## 3. Runs

### Registry

| Run | Instance | Shows |
|---|---|---|
| `registry` | 3 slots, fields of 2 characters, 2 keys, 4 ids | The array implements EntityCache; shadowed entries keep no state; names keep their keys. Slots can be overfull, keys and names collide, texts exceed their field. |

### Session and device

| Run | Instance | Shows |
|---|---|---|
| `system` | 3 entities, a socket for 2 messages, batches of 2, the README's order of calls, one change, one ping | A done list is complete, and the cache converges. |
| `system_faults` | 2 sessions, a sensor, two changes sent at once or from the batch, any order of calls, the list requested twice in the first session, steps with a negative timeout too, failing sends and receives, drop, shutdown, reboot | A wait that succeeds means that this session has requested the list, that its first list has ended, and that the whole list is registered (unless the registry is full, a frame was lost or an urgent message overtook the batch); the cache is a mirror of the device in every session, also one that lost frames. |
| `system_live` | fairness (section 4), 2 entities, `batch_delay` 0: a change is sent at once or, when the socket is full, falls back to the batch | Pings are answered, lists end, and the cache catches up with the device. |
| `early_subscribe` (violation) | 8 buttons and a sensor, a wait of one step that gives up | A state requested before the list has ended can be lost for good; see "findings" in PROJECT.json. |

The list of three entities and its end do not fit the socket, and need two
batches, so that partial flushes, a full socket and a batch that waits all
occur; a further entity would only repeat that. `WAIT_STEPS` is small, so that
the wait both succeeds and gives up. One entity is enough for `system_faults`: its
properties are about a wait and about the order of the states of one key, and a reboot
that takes a reading back, together with changes in two sessions, makes a text that is
older than another appear at every place; `system` and `system_live` have several. The
list is requested a second time in the first session only and before states are
requested (the constraint `FewLists`): all that `WaitMeansListed` reads begins anew with
a session, except the registry, and a wait depends on no state; with one request nothing
is constrained.

`CacheConverges` speaks of the entities that the registry had when states were
requested first in the session (`registered`), as far as no other listed entity has
their key; `CacheCatchesUp` promises the same in the end. Without the condition both
are false: `early_subscribe` shows an entity whose state arrives before its list entry
(`TableIsCurrent`). The entities registered when states were requested *last* would be
too many: the device starts the initial states on the first request only, so an
entity that was registered between the two may have missed its state already.
`DoneMeansListed` requires that no urgent message took another item's place
(`jumped`): a ping that swaps places with a list entry violates it otherwise (see
"Other observations"). `CacheConverges` needs no such condition. In its earlier form
it asked instead that the list had ended before states were requested, and TLC found
that false for a socket and batches of one message: two urgent messages move a list
entry behind the end of the list and then behind the state of its entity. In the form
above it is proved for every instance (section 5).

### Frames

| Run | Instance | Shows |
|---|---|---|
| `frame_recv` | 4 frames, 20 bytes, arriving one by one, a timeout at any byte | Nothing is lost without a timeout in the middle of a frame; order is kept whatever is lost; everything is delivered if nothing fails. |
| `frame_send` | 4 frames, sending may stop at any byte, reading in pieces of any size | After a failed call the device acts on nothing any more; before one, everything is delivered. |

Lengths of one to three make every boundary occur: a header and a body that
begin, end or are split anywhere, and garbage lengths of zero, of another
frame's length and above the limit.

### Connecting

| Run | Instance | Shows |
|---|---|---|
| `connect` | 3 calls, 2 slots, with and without a device that asks for the time; one right, one wrong and one malformed key, or two right ones and none | Sessions only under the right key; calls fail only for a cause, always return, and every failing exit gives back socket, noise context, session and slot. |

Three calls on two slots make one wait or be turned away whatever the others do;
a call meets another only through the slots.

### Firmware

| Run | Instance | Shows |
|---|---|---|
| `backlog` | overflow buffer of 2, batches of 3, frames of 3 bytes, 4 items, 2 logs or answers | However the socket cuts the writes, the stream is the frames in order; every item is written once; the overflow buffer is never full; what is published reaches the socket or the connection is removed. |
| `scheduler` | 3 items, 3 calls by callbacks, component loops or a second thread, timers of 0, 1 and repeated, one set in parallel, a component that fails, time 0 and 1 | Every item is in exactly one container; the counters read without the lock hide nothing; one timer per key; a running item stays what it is; passes end; due timers run. |
| `mqtt_queue` | pool of 3, queue of 4, 4 message numbers | The queue implements Fifo; an element has one holder; a push never fails. |
| `mqtt_memory` (violation) | the same, `set_data` may fail | The main loop then releases to the free list too, and a waiting message is overwritten. |

A frame of three bytes can be cut before, inside and behind its middle, two frames
can be cut in either, and a batch of three out of four items leaves one behind. Two
entries of overflow buffer are the least with which `NeverFull` holds.

Three scheduler items are the running one, one to be set or cancelled meanwhile, and
one that competes for the front of the heap; three calls suffice to set, replace and
cancel. `MAX_LOGICALLY_DELETED_ITEMS` is 1 so that the full clean-up happens (5 in
the code). At the last instant the clock stops and the sleep always ends.

A pool of three on a ring of three and a queue of four lets every index wrap, both
rings be full and empty, and (message numbers reused modulo 4, more than can be
pending) tells neighbouring messages apart. The sizes of the code are 29 and 30;
`SIZE` and `PoolSize` enter only through these relations.

Deadlock is not checked where the system may stop: an application may stop making
calls, a stream of frames ends, a connection is closed. It is checked for the
registry, the scheduler and the queue.

Every property of a passing run has a mutant in PROJECT.json: a variant of one
definition, as a slip in the code would make it, under which TLC finds the
property violated.

### Other observations

Disagreements between the code and its documents. The models contain them; they
have no run of their own, most because they take one step to see. Those marked *
take several; where a property is named, TLC finds it violated without the
condition given.

- An entity name with a dot is stored in full but looked up from behind its first
  dot (`entity_registry.c:115`), so it is never found.
- The device derives a key from the object id alone, so entities of two platforms
  can share one; the first entry then gets the states of both
  (`entity_registry.c:69`). The instances of System have distinct keys; Registry
  does not assume it.
- `esphome_api.h:113` gives a negative timeout the meaning "infinite";
  `transport.c:180` hands it to `select`, which refuses it.
- `missing_state` is not looked at (`esphome_api.c:371`): a binary sensor without
  a state is shown as OFF.
- `send` is called without `MSG_NOSIGNAL` (`transport.c:121`), so a send to a
  connection that was reset ends the process instead of returning -1.
- A device with a homeassistant time platform sends GetTimeRequest before
  HelloResponse, and `esph_connect` then fails (`esphome_api.c:125`);
  `FailsForCause` excepts such a device.
- Without a key `esph_connect` announces plaintext mode (`esphome_api.c:95`) and
  then encrypts with a null context (`frame.c:30`).
- * `list_entities_done` is set at `esphome_api.c:365` and never reset: the second
  `esph_wait_list_entities_done` of a session returns 0 before the device has sent
  anything, although `esphome_api.h:66` says "This runs the internal event loop
  until the ListEntitiesDone response is received." (`WaitMeansListed`
  requires `fresh` after one listing only; without that condition `system_faults`,
  where a session lists twice, violates it in a few steps.)
- * The wait counts steps, and every frame is a step (`esphome_api.c:217`): after 25
  frames it gives up although they all came in time, so a device with 25 entities
  is never waited for.
- * When the socket is full, a ping swaps places with the first item of the batch
  (`api_connection.h:692`), which may be a list entry, and the entry is sent after
  ListEntitiesDone. `esphome_api.c:364` says "This message signifies that the device
  has finished transmitting the full list of available entities." (`DoneMeansListed`
  without `jumped`.)
- * A receive timeout inside a frame forgets the bytes read (`transport.c:149`), and
  the next call takes the rest of the frame for a header. `transport.c:136` says
  "This will loop and block until exactly `maxlen` bytes have been received."
  (`NothingLost` after a call that failed inside a frame; `InOrder` holds even then.)
- * A timer that a component sets in its `loop()` waits in `to_add_`, which
  `next_schedule_in` does not look at in builds with several threads
  (`scheduler.cpp:448`; line 454 does, for one thread). The main loop may sleep past
  it by up to `loop_interval`, although `application.h:615` says that the scheduler's
  cadence is decoupled from it. `TimersRun` holds: the timer runs, late.
- The free list of an `EventPool` of n elements is a ring of n slots that holds
  n - 1 (`event_pool.h:83`): when all n are released, the last one is lost and the
  pool stays one smaller (`Lost` in MqttQueue; `OneHolder` says that it is never
  more than one).
- With `max_send_queue: 1`, which the configuration permits, hello and handshake
  response can need two entries of the overflow buffer and the connection is
  dropped; `NeverFull` needs two.
- A message sent at once may overtake items that wait in the batch, and a
  connection that is closed on request drops its backlog.
- `esph_disconnect` frees everything but the session, although `esphome_api.h:41`
  says it does (`NoLeak` therefore speaks about failed calls only).

## 4. Fairness

- Device (`DeviceFairness`, `Helper` in Connect, the reads in FrameSend): the main
  loop of the firmware runs for ever, and every pass does what can be done.
- Client calls that wait: every `recv`, `send` and `select` has a timeout, so a
  call takes its next step.
- Event loop (`ClientFairness`): the application keeps calling `esph_run_step`,
  as the README and `linux_client.c` do, so that a frame that has arrived is read.
- In FrameRecv the device goes on sending and the client goes on calling.
- Backlog: the main loop calls the connection's loop (weak), and again and again the
  socket takes bytes when it is offered some and the batch is due when it is looked
  at (strong). A client that never reads is removed by the keepalive, so a socket
  that stays full is not a behaviour to wait for.
- Scheduler: the main loop runs and callbacks return (weak, on `MainLoop`), and time
  passes.
- MqttQueue: FreeRTOS schedules both threads, and the main loop finishes a call that
  it has begun. It need not begin another.

No fairness on anything that may go wrong, on other calls of the application, or
on changes of entities.

## 5. Proofs

**RegistryProofs.** For every capacity, field length, set of keys and names:
`TypeCorrect` (the registry stays within its bounds), `ShadowedNeverUpdated`,
`LookupIsStable`, and `RegistryImplementsCache` (every behaviour of the array is
one of EntityCache under the mapping that reads the directory and the cache off
the first entry with a name or key). The type invariant is inductive, and
`ShadowedStateless` is inductive with it; stability and refinement are step
properties that follow action by action from lemmas on how the first match moves
when an entry is appended (it does not) or a state is set (it does not).

**FrameRecvProofs.** For every sequence of frames: `TypeCorrect`,
`NothingIsLost`, `FramesInOrder`. `NothingLost` speaks about the time between
calls only, so it is not inductive; `Aligned` adds where a read in progress
began (at the next frame's header, or three bytes behind it with the frame's
length), and `Used` adds that no frame beyond the nonce has been returned. Then a
header in place shows the right length (`HeaderInPlace`), behind the last frame
no header can be completed because no more bytes arrive, and a body in place
decrypts; a frame that is returned has the nonce's number and therefore comes
after all earlier ones, whatever was lost. The assumption on the constants
(`StreamAssumption`) says that `Start` lays the frames out one behind the other.

**ConnectProofs.** For any number of calls and slots and any keys: `TypeCorrect`,
`SessionsAreAuthenticated`, `NothingLeaks`, `FailuresHaveACause`. None of the
properties says what is on the wire, and that is what the invariant adds: which
messages can be in flight at which step of either side (`Messages`, `InFlight`),
what has not happened yet for a call that was not made (`Untried`), and what a
call holds at each line of `esph_connect` (`HeldByPc`), from which it follows that
every exit gives back exactly that. `FailsForCause` needs all of it: with the
right key each answer that makes the call give up must be traced back to a fault.

**FrameSendProofs.** For any frames: `TypeCorrect` and `NothingAfterAFailure`.
The invariant says that the bytes on the wire and in the device's buffer are the
frames in the order of their nonces with the last one perhaps cut (`Buffers`,
`Sending`), that only frames whose last byte was sent can be completed
(`OnlyFinished`), and that the device's nonce is the number of frames it took
(`InTurn`). So the last byte of a frame whose call failed is nowhere, and what is
sent later arrives behind the gap under a nonce the device does not expect.

**SchedulerProofs.** For any number of items, timers and threads: `TypeCorrect`,
`CountersAreSafe`, `TimersAreUnique`, `RunningItemIsSafe`. The invariant is a
partition (each item is in one of heap, `to_add_`, defer queue, pool or in the
hands of the pass: `Filled`, `Single`, `Apart`, `Covered`), the state of the pass at
each of its steps (`HeapFront`, `Running`), and the counters (`Counts`): between the
moment an item enters a container and the moment the counter is raised the lock
is held, and between lowering and emptying no other step comes. One timer per key
holds although only the first match is marked because the first match is the only
one (`FirstIsAll`). `MaxItems`, the bound on items, is assumed to be a number.

**MqttQueueProofs.** For a pool of any size of one or more, of which the queue
is one slot longer (`PoolAssumption`; 29 and 30 in the code): `TypeCorrect`,
`HoldersAreUnique`, `PushAlwaysSucceeds`, `FillsWhatIsFree` and `InOrderOnce`, for
every interleaving of the single reads and writes of `push` and `pop`. The
argument is about the occupied slots of a ring, from head to tail around its end:
only the producer moves the tail and only the consumer the head (`InPush`, `InPop`
say what each knows in the middle of a call), the elements in the two rings and
in the two threads' hands are disjoint (`Apart`), and no more than one is nowhere
(`FewMissing`). That the queue has room is then counting: a full ring of n + 1
slots would hold all n elements, and the one being pushed is not among them.
`InOrderOnce` is the safety part of `ImplementsFifo`, step by step: storing the tail
is `Put`, storing the head is `Take`, every other step leaves `Pending` as it is.
`FillsWhatIsFree` is proved for `Spec`, where `set_data` does not fail; under
`LowMemorySpec` the run `mqtt_memory` shows it to be violated.

**BacklogProofs.** For any size of buffer, frame and batch and any number of
items: `TypeCorrect`, `FramesStayInOrder`, `ItemsAreSentOnce`, and, for buffers of
two entries or more, `OverflowIsNeverFull`. Each function of the helper is a set of
outcomes, and for each a lemma says what every outcome does to the stream (what
the socket took, followed by the backlog): draining nothing (`DrainsAll`), a write
adds its bytes, or a beginning of them and an error (`WritesSocket`, `WritesRaw`),
and two writes compose (`WritesTwice`). Below them are the facts that
`FlattenSeq` maps concatenation to concatenation, proved from its recursive
function by way of a least counterexample. The invariant adds to the properties
that a pass goes on only without an error (`Alive`), and that in the handshake
the batch is empty and only the handshake's own frames wait (`Greeting`). After
it, a message is written only when nothing waits, so the buffer never holds a
second one. `OnceEach` counts; `Once`, which is inductive, says the same by
positions.

**SystemProofs.** For any entities, socket, batch and registry size, any order
and number of calls, any sessions, with or without faults: `TypeCorrect`,
`ListIsWhole`, `CacheFollows` (`CacheConverges`), `AskedAfterTheList`, `SystemMirrors`
(System implements Mirror) and `WaitIsHonest` (`WaitMeansListed`).
The invariant follows the list from the iterator to the registry. At
every moment an entity the iterator has passed is in the registry, in the
socket's queue or in the batch (`Told`), and in front of each end of the list that is
under way every entity is named or already in the registry (`Behind`). For each
operation on queue and batch a lemma says that it keeps both: a message that is
sent at once lands between the two and changes no order, a duplicate is dropped
only where the same message stands further ahead, a flush moves a prefix, and the
client, which takes the first message, stores what it takes. Only an urgent
message that swaps places with the first item can put a part of the list behind
its end, which is why `DoneMeansListed` excludes it (`jumped`). The pass of the
iterator is a recursive function over its positions (`Visited`); what holds at each
follows by way of a least counterexample. `WaitIsHonest` needs besides that before
the first request neither it nor the end of a list is anywhere (`NotAsked`): a new
session starts with empty queues, and the device answers nothing it was not asked. So
as long as there was one request, `list_entities_done` is its answer (`DoneIsFresh`).
A second request finds the flag of the first: what is left then is that the
registry has the whole list, and that the invariant has for every number of requests.

`CacheFollows` has an invariant of its own on top of that one, `CacheInv`; TLC
checked it on the instances of System and on smaller sockets and batches with swaps
before it was proved. `CacheConverges` speaks only of moments at which nothing is on
its way; `CacheInv` says at every moment where the last word about an entity is
(`Current`): the list iterator runs, after which the state iterator will; or the
state iterator has yet to pass the entity; or (`Word`) its item is in the batch, and
will carry the reading of the moment it is sent; or the last of its states in the
socket's queue is its reading; or there is none and the registry shows it. Only the
last word counts, so the older states in front of it need no invariant, and swaps
cannot harm: an urgent message that takes the first place of the batch keeps every
item in it, and items of one entity are equal. Each step of the device preserves
`Word` (`Tells`), also for the texts that are not there yet, and so does each step of
the client (`Hears`), which takes the head of the queue and stores it for the first
entry with its key. That entry is the entity's own: a listed entity behind it with
another key shadows nothing (`AddedText`, `UpdatedText`), and one with the same key is
excluded (`Alone`). What the client takes is stored only if the entry is there, hence
`registered`, which never leaves the registry during the session. Finally no states
are under way before they are requested, so nothing is claimed of the entities that
become followed at the first request. `AskedAfterTheList` ties the theorem to the
list: an application that asks first when the list is done and whole follows all of it.

`SystemMirrors` complements it: `CacheConverges` says where the cache ends, Mirror how it
may get there, at every moment, with faults and across sessions and reboots. The type
part of the first invariant suffices. For each operation of the device a lemma says that
it lets the socket's queue stand and appends only what is true in the state after the
step (`Extends`, `Truthful`): `Publish` assigns before it sends, a flush encodes the
reading of the moment, and what the iterator sends on its way through the positions adds
up (`ExtendsTrans`). For the client, taking the first message changes the text of at most
the key it reports (`UpdatedText`), a new entry never hides an older one and is blank
(`AddedText`, `AddedBlank`), and nothing else touches queue or registry except what ends
or begins a connection and the clearing of the registry. That frames that get lost leave
the others in order, as Session has it, is `FramesInOrder` in FrameRecvProofs.

The assumptions on constants are the ones in the modules (`...Assumption`, which
TLC evaluates in every run); the only further hypothesis of a theorem is
`API_MAX_SEND_QUEUE >= 2`.

**Only model-checked:** every liveness property (`AllDelivered`, `SentIsDelivered`,
`CallReturns`, `SlotFreed`, `PassEnds`, `TimersRun`, `PublishedIsSent` and those of
System), and the fairness of Fifo in `ImplementsFifo`, which are beyond the prover.
Every safety invariant and action property that a passing run checks has a theorem.

## 6. Not modelled, and why

- Generated protobuf code, the nanopb runtime, noise-c and the cryptography.
- The earlier prototype (`src/src/main.c`, `fake_device.c`), which the library
  does not use, and the vendored Python client.
- Most of the firmware. Its 2600 files are drivers of single sensors, displays and
  radios, mostly straight-line register access with a handful of state each, next
  to generated tables, web pages in header files and bundled libraries
  (`httplib.h`, `api_pb2.*`). They share no logic that a model could state once,
  so the share of the repository's lines that is modelled stays small; the models
  take the part that the client depends on and the part that every driver runs on.
- Of the device's connection everything this client never asks for: cameras,
  services, events, updates, Bluetooth. Logs appear in Backlog only, as messages
  that are sent at once or dropped.
- `base64_decode` and the varint functions: loops over bytes without state.
- Backlog: writes from inside the helper (packet logging), the plaintext helper,
  and a first message that exceeds 64 KiB, which is dropped with the batch.
- Scheduler: retry (deprecated in the code), `trim_freelist`, the builds for one
  thread and without atomics, `HighFrequencyLoopRequester`, the kinds of names. The
  clock is read once in each step.
- MqttQueue: the dropped counter, and the users of the same queue and pool with the
  same roles (inbound MQTT events, BLE, ESP-NOW, USB host, UART and CDC). The atomics'
  release and acquire orders are taken to give the interleavings of their accesses.
- Frames are assumed to fit the buffers of their callers and the 2048 bytes of
  `esph_frame_recv`.
- `esph_registry_clear` is called between sessions only. In Session the device
  has removed the old connection before the application connects again; that
  this happens is `SlotFreed` in Connect.
- Time is not measured. A timer may expire at any moment at which the code looks
  at it: batch timer, keepalive, handshake timeout, receive timeout. This allows
  more orders than real time does.
- After a receive failure, Session lets later frames through; FrameRecv shows
  that the real client may be out of step, but never gets frames out of order. The
  properties of System that speak about completeness exclude sessions that lost a frame;
  `ImplementsMirror` does not.

## 7. Plan

1. *(done)* Registry with its abstract specification and proofs; Session, Device
   and System; FrameRecv with proofs; FrameSend; Connect.
2. *(done)* The firmware below the connection: Backlog, which stands behind Link;
   Scheduler; LockFreeQueue and MqttQueue with the abstract Fifo.
3. *(done)* Proofs of the safety properties of Connect, FrameSend, Scheduler,
   MqttQueue (with the step-by-step refinement of Fifo) and Backlog.
4. *(done)* Proofs of the safety properties of System: `TypeOK`, `DoneMeansListed`,
   `WaitMeansListed`, `CacheConverges`, and the refinement of Mirror.
5. Later: the example clients' ping timer and a device that vanishes without
   closing; several entities with one name in System; the list of a session as a part
   of the abstract specification (what is requested and completed).
