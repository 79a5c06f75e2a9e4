------------------------------ MODULE Connect ------------------------------
(***************************************************************************)
(* esph_connect and esph_disconnect of the client against the connection   *)
(* slots and the Noise frame helper of the device: the TCP connection, the *)
(* two messages of the Noise handshake, the hello exchange, and what every *)
(* exit on the way must give back.  An attempt is one call of esph_connect *)
(* with its own connection; several clients, or one that tries again, are  *)
(* several attempts, and the device may serve some while others wait.      *)
(***************************************************************************)
EXTENDS Integers, Sequences, FiniteSets

CONSTANTS
    Attempts,    \* calls of esph_connect
    Keys,        \* the ways to give each call its psk
    DeviceKey,   \* the key the device is configured with
    MaxConn      \* MAX_API_CONNECTIONS

ASSUME ConnectAssumption ==
    /\ MaxConn \in Nat
    /\ DeviceKey \notin {"empty", "malformed"}

VARIABLES
    timeSync,  \* configuration: the device has a homeassistant time platform
    psk,     \* configuration: the key each call is given
    pc,      \* where the call is; "connected" or "failed" when it has returned
    held,    \* what it has acquired: session, socket, noise
    excuse,  \* history: something outside the protocol went wrong
    up,      \* messages from client to device
    down,    \* messages from device to client
    conn     \* the device's end: the helper's state, or where the slot is

config == <<timeSync, psk>>

vars == <<config, pc, held, excuse, up, down, conn>>

Init ==
    /\ timeSync \in BOOLEAN /\ psk \in Keys
    /\ pc = [c \in Attempts |-> "idle"]
    /\ held = [c \in Attempts |-> {}]
    /\ excuse = [c \in Attempts |-> FALSE]
    /\ up = [c \in Attempts |-> <<>>] /\ down = [c \in Attempts |-> <<>>]
    /\ conn = [c \in Attempts |-> "none"]

Excused(c) == excuse' = [excuse EXCEPT ![c] = TRUE]

-----------------------------------------------------------------------------
(* The client. *)

\* Every exit after the noise context exists: esph_disconnect, then free(s).
Fail(c) ==
    /\ pc' = [pc EXCEPT ![c] = "failed"]
    /\ held' = [held EXCEPT ![c] = @ \ {"socket", "noise", "session"}]

\* 1. TCP connect: the device has the connection in its backlog,
TcpConnects(c) ==
    /\ pc[c] = "idle"
    /\ pc' = [pc EXCEPT ![c] = "tcp"]
    /\ held' = [held EXCEPT ![c] = {"session", "socket"}]
    /\ conn' = [conn EXCEPT ![c] = "backlog"]
    /\ UNCHANGED <<config, excuse, up, down>>

\* or cannot be reached.
TcpFails(c) ==
    /\ pc[c] = "idle"
    /\ pc' = [pc EXCEPT ![c] = "failed"]
    /\ Excused(c)
    /\ UNCHANGED <<config, held, up, down, conn>>

\* Mutant of NoiseInit: a bad key leaves the socket open.
NoiseInitLeaks(c) ==
    /\ pc[c] = "tcp"
    /\ \/ /\ psk[c] = "empty"
          /\ pc' = [pc EXCEPT ![c] = "crashed"]
          /\ held' = [held EXCEPT ![c] = {}]
          /\ UNCHANGED up
       \/ /\ psk[c] = "malformed"
          /\ pc' = [pc EXCEPT ![c] = "failed"]
          /\ held' = [held EXCEPT ![c] = @ \ {"session"}]
          /\ UNCHANGED up
       \/ /\ psk[c] \notin {"empty", "malformed"}
          /\ pc' = [pc EXCEPT ![c] = "hello"]
          /\ held' = [held EXCEPT ![c] = @ \cup {"noise"}]
          /\ up' = [up EXCEPT ![c] = Append(@, "client_hello")]
    /\ UNCHANGED <<config, excuse, down, conn>>

\* 2. esph_noise_init, which refuses a key that is not 32 bytes, and the client
\* hello.  Without a key there is no noise context, and the first frame that
\* esph_send_hello encrypts dereferences it: the process ends, and the system
\* takes back what it held.
NoiseInit(c) ==
    /\ pc[c] = "tcp"
    /\ \/ /\ psk[c] = "empty"
          /\ pc' = [pc EXCEPT ![c] = "crashed"]
          /\ held' = [held EXCEPT ![c] = {}]
          /\ UNCHANGED up
       \/ psk[c] = "malformed" /\ Fail(c) /\ UNCHANGED up
       \/ /\ psk[c] \notin {"empty", "malformed"}
          /\ pc' = [pc EXCEPT ![c] = "hello"]
          /\ held' = [held EXCEPT ![c] = @ \cup {"noise"}]
          /\ up' = [up EXCEPT ![c] = Append(@, "client_hello")]
    /\ UNCHANGED <<config, excuse, down, conn>>

\* The call waits in state "at" and the next message it finds is m.
Receives(c, at, m) ==
    /\ pc[c] = at /\ down[c] # <<>> /\ Head(down[c]) = m
    /\ down' = [down EXCEPT ![c] = Tail(@)]

\* It goes on to "next" and sends m.
Proceeds(c, next, m) ==
    /\ pc' = [pc EXCEPT ![c] = next]
    /\ up' = [up EXCEPT ![c] = Append(@, m)]
    /\ UNCHANGED held

\* 3. esph_noise_handshake: the server hello, answered by the e message,
RecvServerHello(c) ==
    /\ Receives(c, "hello", "server_hello")
    /\ Proceeds(c, "handshake", "e")
    /\ UNCHANGED <<config, excuse, conn>>

\* and the device's answer: its ee message, after which the ciphers are split
\* and 4. the HelloRequest is sent,
RecvHandshake(c) ==
    /\ Receives(c, "handshake", "ee")
    /\ Proceeds(c, "api", "hello_request")
    /\ UNCHANGED <<config, excuse, conn>>

\* or its rejection.
RecvReject(c) ==
    /\ Receives(c, "handshake", "reject")
    /\ Fail(c)
    /\ UNCHANGED <<config, excuse, up, conn>>

\* Mutant of RecvHelloResponse: the wrong message type is expected.
HelloResponseRefused(c) ==
    /\ Receives(c, "api", "hello_response")
    /\ Fail(c)
    /\ UNCHANGED <<config, excuse, up, conn>>

\* 5. The first frame must be the HelloResponse.
RecvHelloResponse(c) ==
    /\ Receives(c, "api", "hello_response")
    /\ pc' = [pc EXCEPT ![c] = "connected"]
    /\ UNCHANGED <<config, held, excuse, up, conn>>

RecvOther(c) ==
    /\ Receives(c, "api", "time_request")
    /\ Fail(c)
    /\ UNCHANGED <<config, excuse, up, conn>>

\* Mutant of RecvFails: the end of the stream is not taken for an error.
RecvRetriesAtEnd(c) ==
    /\ pc[c] \in {"hello", "handshake", "api"} /\ down[c] = <<>> /\ conn[c] # "closed"
    /\ Fail(c)
    /\ Excused(c)
    /\ UNCHANGED <<config, up, down, conn>>

\* Nothing comes for two seconds, or the connection is closed.
RecvFails(c) ==
    /\ pc[c] \in {"hello", "handshake", "api"} /\ down[c] = <<>>
    /\ Fail(c)
    /\ Excused(c)
    /\ UNCHANGED <<config, up, down, conn>>

\* A send fails after what came before it was received.
SendFails(c) ==
    /\ \/ pc[c] = "tcp" /\ psk[c] \notin {"empty", "malformed"} /\ UNCHANGED down
       \/ Receives(c, "hello", "server_hello")
       \/ Receives(c, "handshake", "ee")
    /\ Fail(c)
    /\ Excused(c)
    /\ UNCHANGED <<config, up, conn>>

\* esph_disconnect closes the socket and frees the noise context.
Disconnect(c) ==
    /\ pc[c] = "connected"
    /\ pc' = [pc EXCEPT ![c] = "disconnected"]
    /\ held' = [held EXCEPT ![c] = @ \ {"socket", "noise"}]
    /\ UNCHANGED <<config, excuse, up, down, conn>>

-----------------------------------------------------------------------------
(* The device. *)

\* A slot is taken from acceptance to removal.
InSlot == {"client_hello", "handshake", "data", "authenticated", "remove"}

Slots == {c \in Attempts : conn[c] \in InSlot}

\* Mutant of Accept: one connection too many.
AcceptOneMore(c) ==
    /\ conn[c] = "backlog"
    /\ IF Cardinality(Slots) > MaxConn
         THEN conn' = [conn EXCEPT ![c] = "closed"] /\ Excused(c)
         ELSE conn' = [conn EXCEPT ![c] = "client_hello"] /\ UNCHANGED excuse
    /\ UNCHANGED <<config, pc, held, up, down>>

\* accept_new_connections_: beyond the limit the socket is closed at once.
Accept(c) ==
    /\ conn[c] = "backlog"
    /\ IF Cardinality(Slots) >= MaxConn
         THEN conn' = [conn EXCEPT ![c] = "closed"] /\ Excused(c)
         ELSE conn' = [conn EXCEPT ![c] = "client_hello"] /\ UNCHANGED excuse
    /\ UNCHANGED <<config, pc, held, up, down>>

\* In state "at" the helper reads m.
Reads(c, at, m) ==
    /\ conn[c] = at /\ up[c] # <<>> /\ Head(up[c]) = m
    /\ up' = [up EXCEPT ![c] = Tail(@)]

\* It answers with the messages ms and is then in state "next".
Replies(c, next, ms) ==
    /\ conn' = [conn EXCEPT ![c] = next]
    /\ down' = [down EXCEPT ![c] = @ \o ms]
    /\ UNCHANGED <<config, pc, held, excuse>>

ReadClientHello(c) ==
    /\ Reads(c, "client_hello", "client_hello")
    /\ Replies(c, "handshake", <<"server_hello">>)

\* Mutant of ReadHandshake: a MAC failure is not noticed.
MacFailureIgnored(c) ==
    /\ Reads(c, "handshake", "e")
    /\ Replies(c, "data", <<"ee">>)

\* The MAC of the e message is right only under the device's own key.
ReadHandshake(c) ==
    /\ Reads(c, "handshake", "e")
    /\ IF psk[c] = DeviceKey
         THEN Replies(c, "data", <<"ee">>)
         ELSE Replies(c, "remove", <<"reject">>)

\* send_hello_response_ completes authentication first, and that may ask for
\* the time.
ReadHelloRequest(c) ==
    /\ Reads(c, "data", "hello_request")
    /\ Replies(c, "authenticated",
               IF timeSync THEN <<"time_request", "hello_response">>
                           ELSE <<"hello_response">>)

\* HANDSHAKE_TIMEOUT_MS is over before the client is authenticated.
HandshakeTimeout(c) ==
    /\ conn[c] \in {"client_hello", "handshake", "data"}
    /\ conn' = [conn EXCEPT ![c] = "remove"]
    /\ Excused(c)
    /\ UNCHANGED <<config, pc, held, up, down>>

\* Mutant of ClientGone: only an authenticated client is noticed.
ClientGoneIfAuthenticated(c) ==
    /\ conn[c] = "authenticated" /\ up[c] = <<>> /\ "socket" \notin held[c]
    /\ conn' = [conn EXCEPT ![c] = "remove"]
    /\ UNCHANGED <<config, pc, held, excuse, up, down>>

\* The helper reads the end of the stream.
ClientGone(c) ==
    /\ conn[c] \in InSlot \ {"remove"} /\ up[c] = <<>> /\ "socket" \notin held[c]
    /\ conn' = [conn EXCEPT ![c] = "remove"]
    /\ UNCHANGED <<config, pc, held, excuse, up, down>>

\* remove_client_ frees the slot.
Remove(c) ==
    /\ conn[c] = "remove"
    /\ conn' = [conn EXCEPT ![c] = "closed"]
    /\ UNCHANGED <<config, pc, held, excuse, up, down>>

-----------------------------------------------------------------------------

Client(c) ==
    \/ TcpConnects(c) \/ TcpFails(c) \/ NoiseInit(c) \/ RecvServerHello(c)
    \/ RecvHandshake(c) \/ RecvReject(c) \/ RecvHelloResponse(c) \/ RecvOther(c)
    \/ RecvFails(c) \/ SendFails(c) \/ Disconnect(c)

Helper(c) ==
    \/ Accept(c) \/ ReadClientHello(c) \/ ReadHandshake(c) \/ ReadHelloRequest(c)
    \/ ClientGone(c) \/ Remove(c)

Next == \E c \in Attempts : Client(c) \/ Helper(c) \/ HandshakeTimeout(c)

Spec == Init /\ [][Next]_vars

\* The call runs on, because every receive and send has a timeout of two
\* seconds; the device's main loop runs on.  Whether the application connects
\* or disconnects, and whether the handshake times out, is open.
FairSpec ==
    /\ Spec
    /\ \A c \in Attempts :
         /\ WF_vars(Helper(c))
         /\ WF_vars(Client(c) /\ pc[c] \notin {"idle", "connected"})

-----------------------------------------------------------------------------
(* Properties. *)

\* The device never has more connections than slots.
TypeOK ==
    /\ pc \in [Attempts -> {"idle", "tcp", "hello", "handshake", "api", "connected",
                            "failed", "disconnected", "crashed"}]
    /\ held \in [Attempts -> SUBSET {"session", "socket", "noise"}]
    /\ excuse \in [Attempts -> BOOLEAN]
    /\ conn \in [Attempts -> InSlot \cup {"none", "backlog", "closed"}]
    /\ Cardinality(Slots) <= MaxConn

\* A session exists only between a client and a device with the same key,
\* whichever side is looked at, and the client has one only after the device
\* has completed authentication.
Authenticated ==
    \A c \in Attempts :
      /\ pc[c] \in {"api", "connected"} \/ conn[c] \in {"data", "authenticated"} =>
           psk[c] = DeviceKey
      /\ pc[c] = "connected" => conn[c] \in {"authenticated", "remove", "closed"}

\* esph_connect gives everything back when it fails, on every path, and holds
\* socket and ciphers when it succeeds.
NoLeak ==
    \A c \in Attempts :
      /\ pc[c] = "failed" => held[c] = {}
      /\ pc[c] = "connected" => held[c] = {"session", "socket", "noise"}

\* With the right key, esph_connect fails only if something outside the
\* protocol does: the network, a timeout, a device without a free slot.  The
\* exception is a device that asks for the time before it answers the hello.
FailsForCause ==
    \A c \in Attempts :
      pc[c] = "failed" /\ psk[c] = DeviceKey => excuse[c] \/ timeSync

\* Every call that has a connection returns, also when the device closes it
\* without an answer.
CallReturns ==
    \A c \in Attempts :
      pc[c] = "tcp" ~> pc[c] \in {"connected", "failed", "disconnected", "crashed"}

\* The slot of a call that has failed or ended its process becomes free again.
SlotFreed ==
    \A c \in Attempts :
      (pc[c] \in {"failed", "crashed"} /\ c \in Slots) ~> c \notin Slots
=============================================================================
