------------------------------- MODULE System -------------------------------
(***************************************************************************)
(* A client session and the device's connection, joined by the message     *)
(* queues of Link.  The application connects again after a session ended;  *)
(* the device has removed the old connection by then.                      *)
(***************************************************************************)
EXTENDS Session, Device

CONSTANTS
    Names,      \* entity ids the application passes to esph_set_switch
    Reliable    \* whether the device keeps a connection the client has open

vars == <<linkVars, sessionVars, deviceVars>>

Init ==
    /\ dev = "none" /\ toClient = <<>> /\ toDevice = <<>>
    /\ SessionInit /\ DeviceInit

Connect ==
    /\ dev = "none"
    /\ ConnectReturns /\ Accept
    /\ toClient' = <<>> /\ toDevice' = <<>>

\* The client's part of a step: calls, and the event loop.
Client ==
    /\ \/ CheckDeviceInfo \/ DeviceInfoArrives \/ DeviceInfoFails
       \/ ListEntities
       \/ WaitListEntitiesDone \/ WaitStep \/ WaitReturns
       \/ SubscribeStates
       \/ \E id \in Names, on \in {0, 1} : SetSwitch(id, on)
       \/ SendPing
       \/ \E t \in Timeouts : AppRunStep(t)
       \/ Disconnect
       \/ ClearRegistry
    /\ UNCHANGED deviceVars

Next ==
    \/ Connect
    \/ Client
    \/ EntityChanges /\ UNCHANGED sessionVars
    \/ Serve /\ UNCHANGED sessionVars
    \/ (pc = "none" \/ ~ Reliable) /\ Drop /\ UNCHANGED sessionVars
    \/ ~ Reliable /\ Shutdown /\ UNCHANGED sessionVars

Spec == Init /\ [][Next]_vars

-----------------------------------------------------------------------------
(* Fairness.  The device's main loop runs forever, so a connection that can *)
(* make progress does.  A call of the library that waits ends, and the      *)
(* application's event loop keeps calling esph_run_step, so a frame that    *)
(* has arrived is read.  Nothing else is assumed: neither that the          *)
(* application makes any other call nor that the device drops anything.     *)

DeviceFairness ==
    /\ WF_vars(ReadMessage /\ UNCHANGED sessionVars)
    /\ WF_vars(FlushBatch /\ UNCHANGED sessionVars)
    /\ WF_vars((PassEnds \/ IteratorAdvances \/ IteratorCompletes) /\ UNCHANGED sessionVars)

ClientFairness ==
    /\ WF_vars((DeviceInfoArrives \/ WaitStep \/ WaitReturns) /\ UNCHANGED deviceVars)
    /\ WF_vars(/\ pc = "idle" /\ \E code \in {0, -1} : HandleFrame(code) /\ ret' = code
               /\ UNCHANGED <<pc, step, calls, sessions, registered, deviceVars>>)

FairSpec == Spec /\ DeviceFairness /\ ClientFairness

-----------------------------------------------------------------------------
(* Properties. *)

\* Every variable has its type, and the queues their bounds.
TypeOK ==
    /\ DeviceTypeOK
    /\ pc \in {"none", "idle", "info", "wait"}
    /\ step \in 0 .. WAIT_STEPS
    /\ Len(toClient) <= MaxQueue
    /\ Len(registry) <= MAX_ENTITIES
    /\ ret \in {0, -1}

Listed == {i \in Ents : Entities[i].kind \in ClientKinds}

\* The registry has the entity, under its name as far as an entry holds it.
InRegistry(i) ==
    \E j \in 1 .. Len(registry) :
      /\ registry[j].object_id = Reg!Clip(Entities[i].name)
      /\ registry[j].key = Entities[i].key

\* When list_entities_done is set, every entity of a platform the client knows
\* is in the registry, unless the registry is full, a frame was lost or an urgent
\* message took the place of another in the batch: the device's batching and
\* deduplication never bring the end of the list before a part of it.
DoneMeansListed ==
    pc # "none" /\ done /\ ~ lost /\ ~ jumped /\ Len(registry) < MAX_ENTITIES
      => \A i \in Listed : InRegistry(i)

\* Nothing is on its way between device and client.
Quiescent ==
    /\ dev = "up" /\ pc = "idle"
    /\ toClient = <<>> /\ toDevice = <<>> /\ batch = <<>> /\ iter = "none"
    /\ phase = "idle"

\* What the client shows for a key that is registered.
TextOf(r, key) == r[Reg!First(Reg!WithKey(r, key))].state

\* No other entity of the list has its key: the registry finds the first of equal ones.
Alone(i) == \A j \in Listed : Entities[j].key = Entities[i].key => j = i

\* The client shows the entity's current reading.
Shown(i) ==
    /\ Entities[i].key \in Keys
    /\ TextOf(registry, Entities[i].key) = Show(Entities[i].kind, value[i])

\* It does so for every entity with one of the keys.
Shows(keys) == \A i \in Listed : Alone(i) /\ Entities[i].key \in keys => Shown(i)

\* The entities that were in the registry when the application asked for states
\* show the device's: when nothing is on its way, the cached state of each is its
\* current one.  A change while the list, the initial states, a full socket or
\* an urgent message hold the batch back or reorder it is neither lost nor
\* overtaken by an older state (esph_run_step's state cases, process_batch_).
CacheConverges == Quiescent /\ subscribed /\ ~ lost => Shows(registered)

\* The same of every entity in the registry when the list is done: "Print a
\* cleanly formatted table of all discovered entities and their most recently
\* received states" (esphome_api.h).
TableIsCurrent == Quiescent /\ subscribed /\ done /\ ~ lost => Shows(Keys)

\* The reading v of the entity, as the client would show it.
Fact(i, v) == [key |-> Entities[i].key, text |-> Show(Entities[i].kind, v)]

\* What a message reports to the client, and what the messages of a queue do.
Report(m) ==
    IF m.type = "state" /\ m.ent \in Listed
      THEN Fact(m.ent, m.val)
      ELSE [key |-> -1, text |-> <<>>]

Reports(q) == [j \in 1 .. Len(q) |-> Report(q[j])]

Facts == {Fact(i, value[i]) : i \in Listed}

\* What the application may print.
Screen == [key \in Keys |-> TextOf(registry, key)]

Mirrored == INSTANCE Mirror
    WITH truth <- Facts, wire <- Reports(toClient), shown <- Screen

\* In every session, also one that lost frames, the client shows for a key only
\* what was true when the device sent it, and never an older state after a newer:
\* the cache is a mirror of the device, behind by the frames on their way
\* (dispatch_message_ encodes an item when it is sent; esph_registry_update_state).
ImplementsMirror == Mirrored!Spec

\* When esph_wait_list_entities_done returns 0, this session has requested the
\* list, and, unless it has done so again, the end of that list has arrived: the
\* flag of an earlier session does not count (esph_connect).  The end may be the
\* first list's while a second is under way, as list_entities_done is only set by
\* the message and cleared by a new session (handle_list_entities_done); but the
\* registry has the whole list, unless it is full, a frame was lost or an urgent
\* message overtook the batch.
WaitMeansListed ==
    [][pc = "wait" /\ pc' = "idle" /\ ret' = 0 =>
         /\ calls["list"] > 0
         /\ calls["list"] = 1 => fresh
         /\ ~ lost /\ ~ jumped /\ Len(registry) < MAX_ENTITIES => \A i \in Listed : InRegistry(i)]_vars

Healthy == pc # "none" /\ dev = "up" /\ tx /\ ~ lost

\* A keepalive ping of the device is answered as long as the connection works
\* and no frame is lost, whatever call the application is in: the device does
\* not drop a client whose event loop runs (esph_run_step, PingRequest).
PingAnswered == [](sentPing => <>(~ sentPing \/ ~ Healthy))

\* A list that was requested ends: the device restarts its iterator, holds the
\* batch back while the socket is full, and starts the initial states, but the
\* end of the list gets to the client.
ListCompletes == [](calls["list"] > 0 /\ Healthy => <>(fresh \/ ~ Healthy))

\* After a subscription the client's cache catches up: states that changed last
\* are shown, unless the connection ends.
CacheCatchesUp == [](subscribed => <>(Shows(registered) \/ ~ Healthy))
=============================================================================
