------------------------------ MODULE Session ------------------------------
(***************************************************************************)
(* One session of the client library (src/api/esphome_api.c with           *)
(* proto_helpers.c) between esph_connect and esph_disconnect, driven by an *)
(* application that makes the calls of esphome_api.h one after the other.  *)
(* A call that waits for the device is several steps: pc names it.         *)
(*                                                                         *)
(* The registry is a global of the library: it outlives the session.       *)
(***************************************************************************)
EXTENDS Link

CONSTANTS
    MAX_ENTITIES,  \* slots of the registry (64)
    WAIT_STEPS,    \* max_steps of esph_wait_list_entities_done (25)
    Timeouts,      \* timeouts the application passes to esph_run_step
    Before,        \* Before[op]: the calls the application makes before op
    Times,         \* bound: Times[op] calls of op in a session
    MaxSessions,   \* bound: sessions the application opens
    Faults         \* whether receives and sends may fail

VARIABLES
    pc,            \* the call in progress, "idle", or "none": no session
    done,          \* list_entities_done
    step,          \* step of esph_wait_list_entities_done
    registry,      \* the entity registry
    tx,            \* no send has failed: what is sent reaches the device
    ret,           \* what the last call returned
    calls,         \* calls of each operation in this session
    sessions,      \* sessions opened so far
    lost,          \* history: a frame of this session was not handled
    fresh,         \* history: the list ended after it was requested last
    registered     \* history: the keys in the registry when states were requested first

sessionVars ==
    <<pc, done, step, registry, tx, ret, calls, sessions, lost,
      fresh, registered>>

Reg == INSTANCE Registry
    WITH TEXT_LEN <- 63, Dot <- ".", Key <- {}, Text <- {}, Id <- {},
         Type <- ClientKinds, call <- ret

Ops == {"info", "list", "wait", "subscribe", "switch", "ping"}

ASSUME SessionAssumption ==
    /\ MAX_ENTITIES \in Nat \ {0} /\ WAIT_STEPS \in Nat
    /\ Timeouts \subseteq Int
    /\ Before \in [Ops -> SUBSET Ops] /\ Times \in [Ops -> Nat] /\ MaxSessions \in Nat
    /\ Faults \in BOOLEAN

-----------------------------------------------------------------------------
(* What the client makes of a message. *)

\* The text stored for a reading: "ON"/"OFF", "%.2f" of thousandths, the text
\* itself.  missing_state is not looked at: the reading is then the field's
\* default, false, NaN or the empty string.
Show(kind, v) ==
    CASE kind \in {"binary_sensor", "switch"} -> IF v = 1 THEN <<"ON">> ELSE <<"OFF">>
      [] kind = "sensor" -> IF v = Missing THEN <<"nan">> ELSE <<"%.2f", (v + 5) \div 10>>
      [] OTHER -> IF v = Missing THEN <<>> ELSE <<"text", v>>

OnList(e) ==
    registry' = IF e.kind \in ClientKinds
                  THEN Reg!esph_registry_add(registry, e.name, e.key, e.kind)
                  ELSE registry

OnState(e, v) ==
    registry' = IF e.kind \in ClientKinds
                  THEN Reg!esph_registry_update_state(registry, e.key, Show(e.kind, v))
                  ELSE registry

-----------------------------------------------------------------------------
(* Sending and receiving one frame. *)

\* send_frame and esph_frame_send.  After a failed send the frame is cut off
\* and the nonces differ: nothing sent later is understood.
Send(m, code) ==
    \/ /\ code = 0
       /\ toDevice' = IF tx /\ dev = "up" THEN Append(toDevice, m) ELSE toDevice
       /\ UNCHANGED tx
    \/ /\ code = -1 /\ (Faults \/ dev = "none")
       /\ tx' = FALSE
       /\ UNCHANGED toDevice

\* esph_frame_recv fails: the connection is closed and drained, or the frame
\* does not come in time, and what was read of it is lost.
RecvFails ==
    \/ dev = "none" /\ toClient = <<>> /\ UNCHANGED <<toClient, lost>>
    \/ Faults /\ UNCHANGED <<toClient, lost>>
    \/ Faults /\ toClient # <<>> /\ toClient' = Tail(toClient) /\ lost' = TRUE

\* esph_run_step on the next frame, with the code it returns.
HandleFrame(code) ==
    /\ toClient # <<>>
    /\ toClient' = Tail(toClient)
    /\ LET m == Head(toClient)
       IN  \/ /\ m.type = "ping_request"
              /\ Send(Msg("ping_response"), code)
              /\ UNCHANGED <<done, registry, fresh>>
           \/ /\ m.type = "disconnect_request" /\ code = -1
              /\ UNCHANGED <<toDevice, tx, done, registry, fresh>>
           \/ /\ m.type = "list" /\ code = 0
              /\ OnList(Entities[m.ent])
              /\ UNCHANGED <<toDevice, tx, done, fresh>>
           \/ /\ m.type = "list_done" /\ code = 0
              /\ done' = TRUE /\ fresh' = TRUE
              /\ UNCHANGED <<toDevice, tx, registry>>
           \/ /\ m.type = "state" /\ code = 0
              /\ OnState(Entities[m.ent], m.val)
              /\ UNCHANGED <<toDevice, tx, done, fresh>>
           \/ /\ m.type \in {"ping_response", "device_info_response"} /\ code = 0
              /\ UNCHANGED <<toDevice, tx, done, registry, fresh>>
    /\ UNCHANGED <<dev, lost>>

\* What esph_transport_wait_readable(t) may return: select refuses a negative
\* timeout, and otherwise reports a time in which nothing arrived, or data.
WaitReadable(t) == IF t < 0 THEN {-1} ELSE {0, 1}

\* esph_run_step(s, t) returns code.
RunStep(t, code) ==
    \/ /\ code \in WaitReadable(t) \ {1}
       /\ UNCHANGED <<linkVars, tx, done, registry, lost, fresh>>
    \/ /\ 1 \in WaitReadable(t) /\ code = -1
       /\ RecvFails
       /\ UNCHANGED <<dev, toDevice, tx, done, registry, fresh>>
    \/ /\ 1 \in WaitReadable(t)
       /\ HandleFrame(code)

-----------------------------------------------------------------------------
(* The calls. *)

NoCalls == [op \in Ops |-> 0]

\* The application may call op now, and has called it then.
Call(op) ==
    /\ pc = "idle" /\ calls[op] < Times[op]
    /\ \A b \in Before[op] : calls[b] > 0
    /\ calls' = [calls EXCEPT ![op] = @ + 1]
    /\ UNCHANGED sessions

SessionInit ==
    /\ pc = "none" /\ done = FALSE /\ step = 0
    /\ registry = <<>> /\ tx = TRUE /\ ret = 0
    /\ calls = NoCalls /\ sessions = 0
    /\ lost = FALSE /\ fresh = FALSE /\ registered = {}

\* Mutant of ConnectReturns: the flag of the last session is still set.
ConnectKeepsDone ==
    /\ pc = "none" /\ sessions < MaxSessions
    /\ pc' = "idle" /\ step' = 0
    /\ tx' = TRUE /\ ret' = 0
    /\ calls' = NoCalls /\ sessions' = sessions + 1
    /\ lost' = FALSE /\ fresh' = FALSE /\ registered' = {}
    /\ UNCHANGED <<done, registry>>

\* esph_connect returns a session: a zeroed struct, the registry as it was.
ConnectReturns ==
    /\ pc = "none" /\ sessions < MaxSessions
    /\ pc' = "idle" /\ done' = FALSE /\ step' = 0
    /\ tx' = TRUE /\ ret' = 0
    /\ calls' = NoCalls /\ sessions' = sessions + 1
    /\ lost' = FALSE /\ fresh' = FALSE /\ registered' = {}
    /\ UNCHANGED registry

\* esph_check_device_info: the request,
CheckDeviceInfo ==
    /\ Call("info")
    /\ \E code \in {0, -1} :
         /\ Send(Msg("device_info_request"), code)
         /\ pc' = (IF code = 0 THEN "info" ELSE "idle")
         /\ ret' = code
    /\ UNCHANGED <<dev, toClient, done, step, registry, lost, fresh, registered>>

\* and the frame that must be its answer; any other frame is dropped.
DeviceInfoArrives ==
    /\ pc = "info" /\ toClient # <<>>
    /\ toClient' = Tail(toClient)
    /\ LET answer == Head(toClient).type = "device_info_response"
       IN  /\ ret' = (IF answer THEN 0 ELSE -1)
           /\ lost' = (lost \/ ~ answer)
    /\ pc' = "idle"
    /\ UNCHANGED <<dev, toDevice, done, step, registry, tx, calls, sessions, fresh, registered>>

DeviceInfoFails ==
    /\ pc = "info"
    /\ RecvFails
    /\ pc' = "idle" /\ ret' = -1
    /\ UNCHANGED <<dev, toDevice, done, step, registry, tx, calls, sessions, fresh, registered>>

\* esph_send_list_entities; list_entities_done keeps its value.
ListEntities ==
    /\ Call("list")
    /\ \E code \in {0, -1} : Send(Msg("list_entities_request"), code) /\ ret' = code
    /\ fresh' = FALSE
    /\ UNCHANGED <<dev, toClient, pc, done, step, registry, lost, registered>>

\* esph_wait_list_entities_done: the call, one turn of its loop, the return.
WaitListEntitiesDone ==
    /\ Call("wait")
    /\ pc' = "wait"
    /\ UNCHANGED <<linkVars, done, step, registry, tx, ret, lost, fresh, registered>>

WaitStep ==
    /\ pc = "wait" /\ ~ done /\ step < WAIT_STEPS
    /\ \E code \in {0, -1} :
         /\ RunStep(150, code)
         /\ ret' = code
         /\ IF code < 0
              THEN pc' = "idle" /\ step' = 0
              ELSE step' = step + 1 /\ UNCHANGED pc
    /\ UNCHANGED <<calls, sessions, registered>>

WaitReturns ==
    /\ pc = "wait" /\ (done \/ step = WAIT_STEPS)
    /\ pc' = "idle" /\ step' = 0
    /\ ret' = (IF done THEN 0 ELSE -1)
    /\ UNCHANGED <<linkVars, done, registry, tx, calls, sessions, lost, fresh, registered>>

\* The keys that the registry has an entry for.
Keys == {registry[j].key : j \in 1 .. Len(registry)}

SubscribeStates ==
    /\ Call("subscribe")
    /\ \E code \in {0, -1} : Send(Msg("subscribe_states_request"), code) /\ ret' = code
    /\ registered' = (IF calls["subscribe"] = 0 THEN Keys ELSE registered)
    /\ UNCHANGED <<dev, toClient, pc, done, step, registry, lost, fresh>>

\* esph_set_switch(s, id, on): an id that resolves to no key is refused.
SetSwitch(id, on) ==
    /\ Call("switch")
    /\ LET key == Reg!esph_registry_lookup_key(registry, id)
       IN  IF key = 0
             THEN ret' = -1 /\ UNCHANGED <<toDevice, tx>>
             ELSE \E code \in {0, -1} : Send(SwitchMsg(key, on), code) /\ ret' = code
    /\ UNCHANGED <<dev, toClient, pc, done, step, registry, lost, fresh, registered>>

SendPing ==
    /\ Call("ping")
    /\ \E code \in {0, -1} : Send(Msg("ping_request"), code) /\ ret' = code
    /\ UNCHANGED <<dev, toClient, pc, done, step, registry, lost, fresh, registered>>

\* esph_run_step, called by the application's event loop.
AppRunStep(t) ==
    /\ pc = "idle"
    /\ \E code \in {0, -1} : RunStep(t, code) /\ ret' = code
    /\ UNCHANGED <<pc, step, calls, sessions, registered>>

\* esph_disconnect: the socket is closed, what was not read is gone.
Disconnect ==
    /\ pc = "idle" /\ pc' = "none"
    /\ toClient' = <<>> /\ ret' = 0
    /\ UNCHANGED <<dev, toDevice, done, step, registry, tx, calls, sessions, lost, fresh, registered>>

ClearRegistry ==
    /\ pc = "none" /\ registry # <<>>
    /\ registry' = <<>>
    /\ UNCHANGED <<linkVars, pc, done, step, tx, ret, calls, sessions, lost, fresh, registered>>
=============================================================================
