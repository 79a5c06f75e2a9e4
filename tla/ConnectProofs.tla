--------------------------- MODULE ConnectProofs ---------------------------
(***************************************************************************)
(* The safety properties of Connect for any number of calls, any keys and  *)
(* any number of slots.  What a call may conclude from a message depends   *)
(* on what the device was when it sent it, so none of the properties is    *)
(* inductive: InFlight says what each message still on its way to the      *)
(* client is evidence of, and HeldByPc what a call owns at each of its     *)
(* steps.  Nothing is said of the messages to the device: it checks each   *)
(* of them against its own state.                                          *)
(***************************************************************************)
EXTENDS Connect, FiniteSetTheorems, TLAPS

DownMsgs ==
    {"server_hello", "ee", "reject", "time_request", "hello_response"}

UpMsgs == {"client_hello", "e", "hello_request"}

Messages ==
    /\ up \in [Attempts -> Seq(UpMsgs)]
    /\ down \in [Attempts -> Seq(DownMsgs)]

In(m, s) == \E i \in 1 .. Len(s) : s[i] = m

\* The states of the device's end once it has answered the hello.
Answered == {"authenticated", "remove", "closed"}

InFlight ==
    \A c \in Attempts :
      /\ In("ee", down[c]) => psk[c] = DeviceKey
      /\ In("reject", down[c]) => psk[c] # DeviceKey
      /\ In("time_request", down[c]) => timeSync
      /\ In("hello_response", down[c]) => conn[c] \in Answered

HeldByPc ==
    \A c \in Attempts :
      /\ pc[c] \in {"idle", "failed", "crashed"} => held[c] = {}
      /\ pc[c] = "tcp" => held[c] = {"session", "socket"}
      /\ pc[c] \in {"hello", "handshake", "api", "connected"} =>
           held[c] = {"session", "socket", "noise"}

\* A call that has not begun has no connection.
Untried == \A c \in Attempts : pc[c] = "idle" => conn[c] = "none"

\* The calls are any set; the ones in slots are always finitely many.
SlotsFinite == IsFiniteSet(Slots)

IInv ==
    /\ TypeOK /\ SlotsFinite /\ Messages /\ Untried /\ InFlight /\ HeldByPc
    /\ Authenticated /\ FailsForCause

-----------------------------------------------------------------------------
(* Messages in a channel. *)

\* What is taken from a channel was in it, and what stays was in it.
LEMMA InTaken ==
    ASSUME NEW S, NEW s \in Seq(S), s # <<>>
    PROVE  /\ Tail(s) \in Seq(S) /\ In(Head(s), s)
           /\ \A m : In(m, Tail(s)) => In(m, s)
<1>1. Tail(s) \in Seq(S) /\ Len(s) \in Nat \ {0} /\ Len(Tail(s)) = Len(s) - 1
  OBVIOUS
<1>2. In(Head(s), s)
  BY <1>1 DEF In
<1>3. ASSUME NEW m, In(m, Tail(s)) PROVE In(m, s)
  <2>1. PICK i \in 1 .. Len(Tail(s)) : Tail(s)[i] = m
    BY <1>3 DEF In
  <2>2. i + 1 \in 1 .. Len(s) /\ s[i + 1] = m
    BY <1>1, <2>1
  <2>3. QED
    BY <2>2 DEF In
<1>4. QED
  BY <1>1, <1>2, <1>3

\* A channel to which messages are added holds those and what it held.
LEMMA InAdded ==
    ASSUME NEW S, NEW s \in Seq(S), NEW t \in Seq(S)
    PROVE  /\ s \o t \in Seq(S)
           /\ \A m : In(m, s \o t) => In(m, s) \/ In(m, t)
<1>1. s \o t \in Seq(S) /\ Len(s) \in Nat /\ Len(t) \in Nat
      /\ Len(s \o t) = Len(s) + Len(t)
  OBVIOUS
<1>2. ASSUME NEW m, In(m, s \o t) PROVE In(m, s) \/ In(m, t)
  <2>1. PICK i \in 1 .. Len(s \o t) : (s \o t)[i] = m
    BY <1>2 DEF In
  <2>2. CASE i <= Len(s)
    <3>1. i \in 1 .. Len(s) /\ s[i] = m
      BY <1>1, <2>1, <2>2
    <3>2. QED
      BY <3>1 DEF In
  <2>3. CASE ~ (i <= Len(s))
    <3>1. i - Len(s) \in 1 .. Len(t) /\ t[i - Len(s)] = m
      BY <1>1, <2>1, <2>3
    <3>2. QED
      BY <3>1 DEF In
  <2>4. QED
    BY <2>2, <2>3
<1>3. QED
  BY <1>1, <1>2

LEMMA InLiteral ==
    /\ \A m : ~ In(m, <<>>)
    /\ \A m, x : In(m, <<x>>) => m = x
    /\ \A m, x, y : In(m, <<x, y>>) => m \in {x, y}
<1>1. \A m : ~ In(m, <<>>)
  BY DEF In
<1>2. ASSUME NEW m, NEW x, In(m, <<x>>) PROVE m = x
  BY <1>2 DEF In
<1>3. ASSUME NEW m, NEW x, NEW y, In(m, <<x, y>>) PROVE m \in {x, y}
  <2>1. PICK i \in 1 .. 2 : <<x, y>>[i] = m
    BY <1>3 DEF In
  <2>2. QED
    BY <2>1
<1>4. QED
  BY <1>1, <1>2, <1>3

-----------------------------------------------------------------------------
(* Types. *)

LEMMA InitHolds == Init => IInv
<1> SUFFICES ASSUME Init PROVE IInv
  OBVIOUS
<1>1. Slots = {} /\ SlotsFinite /\ Cardinality(Slots) = 0
  <2>1. Slots = {}
    BY DEF Init, Slots, InSlot
  <2>2. QED
    BY <2>1, FS_EmptySet DEF SlotsFinite
<1>2. TypeOK
  BY <1>1, ConnectAssumption DEF Init, TypeOK, InSlot
<1>3. Messages
  BY DEF Init, Messages
<1>4. InFlight
  BY InLiteral DEF Init, InFlight
<1>5. Untried /\ HeldByPc /\ Authenticated /\ FailsForCause
  BY DEF Init, Untried, HeldByPc, Authenticated, FailsForCause
<1>6. QED
  BY <1>1, <1>2, <1>3, <1>4, <1>5 DEF IInv

\* Only Accept takes a slot, and only while one is free; every other step
\* leaves the slots alone or frees one.
LEMMA SlotsStep ==
    ASSUME TypeOK, SlotsFinite, [Next]_vars
    PROVE  SlotsFinite' /\ Cardinality(Slots') <= MaxConn
<1> USE DEF TypeOK, InSlot
<1>1. ASSUME NEW c \in Attempts, Accept(c), conn'[c] = "client_hello"
      PROVE  SlotsFinite' /\ Cardinality(Slots') <= MaxConn
  <2>1. Cardinality(Slots) < MaxConn /\ Cardinality(Slots) \in Nat
    <3>1. Cardinality(Slots) \in Nat
      BY FS_CardinalityType DEF SlotsFinite
    <3>2. ~ (Cardinality(Slots) >= MaxConn)
      BY <1>1 DEF Accept
    <3>3. QED
      BY <3>1, <3>2, ConnectAssumption
  <2>2. Slots' = Slots \cup {c}
    BY <1>1 DEF Accept, Slots
  <2>3. /\ IsFiniteSet(Slots')
        /\ Cardinality(Slots') = Cardinality(Slots)
             \/ Cardinality(Slots') = Cardinality(Slots) + 1
    BY <2>2, FS_AddElement DEF SlotsFinite
  <2>4. QED
    BY <2>1, <2>3, ConnectAssumption DEF SlotsFinite
<1>2. ASSUME Slots' \subseteq Slots
      PROVE  SlotsFinite' /\ Cardinality(Slots') <= MaxConn
  <2>1. /\ IsFiniteSet(Slots') /\ Cardinality(Slots') <= Cardinality(Slots)
        /\ Cardinality(Slots) \in Nat /\ Cardinality(Slots') \in Nat
    BY <1>2, FS_Subset, FS_CardinalityType DEF SlotsFinite
  <2>2. QED
    BY <2>1, ConnectAssumption DEF SlotsFinite
<1>3. CASE UNCHANGED vars
  BY <1>2, <1>3 DEF vars, Slots
<1>4. CASE Next
  <2>1. PICK c \in Attempts : Client(c) \/ Helper(c) \/ HandshakeTimeout(c)
    BY <1>4 DEF Next
  <2>2. CASE Client(c)
    <3>1. conn' = conn \/ conn' = [conn EXCEPT ![c] = "backlog"]
      BY <2>2 DEF Client, TcpConnects, TcpFails, NoiseInit, RecvServerHello,
         RecvHandshake, RecvReject, RecvHelloResponse, RecvOther, RecvFails,
         SendFails, Disconnect
    <3>2. Slots' \subseteq Slots
      BY <3>1 DEF Slots
    <3>3. QED
      BY <3>2, <1>2
  <2>3. CASE Accept(c)
    <3>1. CASE conn'[c] = "client_hello"
      BY <1>1, <2>3, <3>1
    <3>2. CASE conn'[c] # "client_hello"
      <4>1. conn' = [conn EXCEPT ![c] = "closed"]
        BY <2>3, <3>2 DEF Accept
      <4>2. Slots' \subseteq Slots
        BY <4>1 DEF Slots
      <4>3. QED
        BY <4>2, <1>2
    <3>3. QED
      BY <3>1, <3>2
  <2>4. CASE ReadClientHello(c) \/ ReadHandshake(c) \/ ReadHelloRequest(c)
    <3>1. conn[c] \in InSlot /\ \E x : conn' = [conn EXCEPT ![c] = x]
      BY <2>4 DEF ReadClientHello, ReadHandshake, ReadHelloRequest, Reads, Replies
    <3>2. Slots' \subseteq Slots
      BY <3>1 DEF Slots
    <3>3. QED
      BY <3>2, <1>2
  <2>5. CASE ClientGone(c) \/ Remove(c) \/ HandshakeTimeout(c)
    <3>1. conn[c] \in InSlot /\ \E x : conn' = [conn EXCEPT ![c] = x]
      BY <2>5 DEF ClientGone, Remove, HandshakeTimeout
    <3>2. Slots' \subseteq Slots
      BY <3>1 DEF Slots
    <3>3. QED
      BY <3>2, <1>2
  <2>6. QED
    BY <2>1, <2>2, <2>3, <2>4, <2>5 DEF Helper
<1>5. QED
  BY <1>3, <1>4

LEMMA TypeStep ==
    ASSUME TypeOK, SlotsFinite, [Next]_vars
    PROVE  TypeOK'
<1>1. Cardinality(Slots') <= MaxConn
  BY SlotsStep
<1> USE <1>1 DEF TypeOK, InSlot, Excused, Fail
<1>2. CASE UNCHANGED vars
  BY <1>2 DEF vars
<1>3. CASE Next
  <2>1. PICK c \in Attempts : Client(c) \/ Helper(c) \/ HandshakeTimeout(c)
    BY <1>3 DEF Next
  <2>11. /\ held[c] \ {"socket", "noise", "session"} \in SUBSET {"session", "socket", "noise"}
        /\ held[c] \ {"socket", "noise"} \in SUBSET {"session", "socket", "noise"}
    OBVIOUS
  <2>2. CASE TcpConnects(c) \/ TcpFails(c)
    BY <2>2 DEF TcpConnects, TcpFails
  <2>3. CASE NoiseInit(c)
    BY <2>3 DEF NoiseInit
  <2>4. CASE RecvServerHello(c) \/ RecvHandshake(c) \/ RecvHelloResponse(c)
    BY <2>4 DEF RecvServerHello, RecvHandshake, RecvHelloResponse, Proceeds
  <2>5. CASE RecvReject(c) \/ RecvOther(c) \/ RecvFails(c)
    <3>1. /\ pc' = [pc EXCEPT ![c] = "failed"] /\ UNCHANGED conn
          /\ held' = [held EXCEPT ![c] = held[c] \ {"socket", "noise", "session"}]
      BY <2>5 DEF RecvReject, RecvOther, RecvFails
    <3>2. excuse' \in [Attempts -> BOOLEAN]
      BY <2>5 DEF RecvReject, RecvOther, RecvFails
    <3>3. QED
      BY <2>11, <3>1, <3>2
  <2>6. CASE SendFails(c)
    <3>1. /\ pc' = [pc EXCEPT ![c] = "failed"] /\ UNCHANGED conn
          /\ held' = [held EXCEPT ![c] = held[c] \ {"socket", "noise", "session"}]
      BY <2>6 DEF SendFails
    <3>2. excuse' \in [Attempts -> BOOLEAN]
      BY <2>6 DEF SendFails
    <3>3. QED
      BY <2>11, <3>1, <3>2
  <2>12. CASE Disconnect(c)
    BY <2>11, <2>12 DEF Disconnect
  <2>7. CASE Accept(c)
    BY <2>7 DEF Accept
  <2>8. CASE ReadClientHello(c) \/ ReadHandshake(c) \/ ReadHelloRequest(c)
    BY <2>8 DEF ReadClientHello, ReadHandshake, ReadHelloRequest, Replies
  <2>9. CASE ClientGone(c) \/ Remove(c) \/ HandshakeTimeout(c)
    BY <2>9 DEF ClientGone, Remove, HandshakeTimeout
  <2>10. QED
    BY <2>1, <2>2, <2>3, <2>4, <2>5, <2>6, <2>7, <2>8, <2>9, <2>12
       DEF Client, Helper
<1>4. QED
  BY <1>2, <1>3

LEMMA MessagesStep ==
    ASSUME Messages, [Next]_vars
    PROVE  Messages'
<1> USE DEF Messages
<1>1. ASSUME NEW c \in Attempts, NEW m \in UpMsgs,
             up' = [up EXCEPT ![c] = Append(@, m)]
      PROVE  up' \in [Attempts -> Seq(UpMsgs)]
  BY <1>1
<1>2. ASSUME NEW c \in Attempts, down[c] # <<>>, down' = [down EXCEPT ![c] = Tail(@)]
      PROVE  down' \in [Attempts -> Seq(DownMsgs)]
  <2>1. Tail(down[c]) \in Seq(DownMsgs)
    BY <1>2, InTaken
  <2>2. QED
    BY <1>2, <2>1
<1>3. ASSUME NEW c \in Attempts, up[c] # <<>>, up' = [up EXCEPT ![c] = Tail(@)],
             NEW ms \in Seq(DownMsgs), down' = [down EXCEPT ![c] = @ \o ms]
      PROVE  Messages'
  <2>1. Tail(up[c]) \in Seq(UpMsgs)
    BY <1>3, InTaken
  <2>2. QED
    BY <1>3, <2>1
<1>4. CASE UNCHANGED vars
  BY <1>4 DEF vars
<1>5. CASE Next
  <2>1. PICK c \in Attempts : Client(c) \/ Helper(c) \/ HandshakeTimeout(c)
    BY <1>5 DEF Next
  <2>2. CASE UNCHANGED <<up, down>>
    BY <2>2
  <2>3. CASE NoiseInit(c)
    BY <2>3, <1>1 DEF NoiseInit, UpMsgs
  <2>4. CASE RecvServerHello(c) \/ RecvHandshake(c)
    BY <2>4, <1>1, <1>2 DEF RecvServerHello, RecvHandshake, Receives, Proceeds, UpMsgs
  <2>5. CASE RecvReject(c) \/ RecvHelloResponse(c) \/ RecvOther(c) \/ SendFails(c)
    BY <2>5, <1>2 DEF RecvReject, RecvHelloResponse, RecvOther, SendFails, Receives
  <2>6. CASE ReadClientHello(c)
    BY <2>6, <1>3 DEF ReadClientHello, Reads, Replies, DownMsgs
  <2>7. CASE ReadHandshake(c)
    <3>1. <<"ee">> \in Seq(DownMsgs) /\ <<"reject">> \in Seq(DownMsgs)
      BY DEF DownMsgs
    <3>2. QED
      BY <2>7, <3>1, <1>3 DEF ReadHandshake, Reads, Replies
  <2>8. CASE ReadHelloRequest(c)
    <3>1. /\ <<"time_request", "hello_response">> \in Seq(DownMsgs)
          /\ <<"hello_response">> \in Seq(DownMsgs)
      BY DEF DownMsgs
    <3>2. QED
      BY <2>8, <3>1, <1>3 DEF ReadHelloRequest, Reads, Replies
  <2>9. QED
    BY <2>1, <2>2, <2>3, <2>4, <2>5, <2>6, <2>7, <2>8
       DEF Client, Helper, TcpConnects, TcpFails, RecvFails, Disconnect, Accept,
           ClientGone, Remove, HandshakeTimeout
<1>6. QED
  BY <1>4, <1>5

-----------------------------------------------------------------------------
(* Evidence. *)

\* A message is sent in a state that it is evidence of, and that state lasts:
\* a key is never changed, and once the hello is answered the connection is
\* only taken down.
LEMMA InFlightStep ==
    ASSUME TypeOK, Messages, Untried, InFlight, [Next]_vars
    PROVE  InFlight'
<1> USE DEF TypeOK, Messages
<1> DEFINE Shows(c, m) ==
      /\ m = "ee" => psk[c] = DeviceKey
      /\ m = "reject" => psk[c] # DeviceKey
      /\ m = "time_request" => timeSync
      /\ m = "hello_response" => conn'[c] \in Answered
<1>1. SUFFICES ASSUME UNCHANGED config,
                      \A c \in Attempts : conn[c] \in Answered => conn'[c] \in Answered,
                      \A c \in Attempts : \A m :
                        In(m, down'[c]) => In(m, down[c]) \/ Shows(c, m)
               PROVE  InFlight'
  <2>1. UNCHANGED config
    BY DEF Next, vars, Client, Helper, TcpConnects, TcpFails, NoiseInit,
       RecvServerHello, RecvHandshake, RecvReject, RecvHelloResponse, RecvOther,
       RecvFails, SendFails, Disconnect, Accept, ReadClientHello, ReadHandshake,
       ReadHelloRequest, Replies, ClientGone, Remove, HandshakeTimeout
  <2>2. CASE UNCHANGED vars
    <3>1. UNCHANGED <<down, conn>>
      BY <2>2 DEF vars
    <3>2. QED
      BY <1>1, <2>1, <3>1
  <2>3. CASE Next
    <3>1. PICK c \in Attempts : Client(c) \/ Helper(c) \/ HandshakeTimeout(c)
      BY <2>3 DEF Next
    <3>2. \A d \in Attempts : conn[d] \in Answered => conn'[d] \in Answered
      <4>1. CASE Client(c)
        BY <4>1 DEF Client, TcpConnects, TcpFails, NoiseInit, RecvServerHello,
           RecvHandshake, RecvReject, RecvHelloResponse, RecvOther, RecvFails,
           SendFails, Disconnect, Untried, Answered, InSlot
      <4>2. CASE Helper(c) \/ HandshakeTimeout(c)
        BY <4>2 DEF Helper, Accept, ReadClientHello, ReadHandshake,
           ReadHelloRequest, Reads, Replies, ClientGone, Remove,
           HandshakeTimeout, Answered, InSlot
      <4>3. QED
        BY <3>1, <4>1, <4>2
    <3>3. ASSUME NEW d \in Attempts, NEW m, In(m, down'[d])
          PROVE  In(m, down[d]) \/ Shows(d, m)
      <4>1. CASE UNCHANGED down
        BY <3>3, <4>1
      <4>2. CASE down[c] # <<>> /\ down' = [down EXCEPT ![c] = Tail(@)]
        <5>1. In(m, Tail(down[c])) => In(m, down[c])
          BY <4>2, InTaken
        <5>2. QED
          BY <3>3, <4>2, <5>1
      <4>3. ASSUME NEW ms \in Seq(DownMsgs), down' = [down EXCEPT ![c] = @ \o ms],
                   In(m, ms) => Shows(c, m)
            PROVE  In(m, down[d]) \/ Shows(d, m)
        <5>1. In(m, down[c] \o ms) => In(m, down[c]) \/ In(m, ms)
          BY InAdded
        <5>2. QED
          BY <3>3, <4>3, <5>1
      <4>4. CASE Client(c)
        BY <4>1, <4>2, <4>4 DEF Client, TcpConnects, TcpFails, NoiseInit,
           RecvServerHello, RecvHandshake, RecvReject, RecvHelloResponse, RecvOther,
           RecvFails, SendFails, Disconnect, Receives
      <4>5. CASE ReadClientHello(c)
        <5>1. <<"server_hello">> \in Seq(DownMsgs)
          BY DEF DownMsgs
        <5>2. QED
          BY <4>3, <4>5, <5>1, InLiteral DEF ReadClientHello, Replies
      <4>6. CASE ReadHandshake(c)
        <5>1. <<"ee">> \in Seq(DownMsgs) /\ <<"reject">> \in Seq(DownMsgs)
          BY DEF DownMsgs
        <5>2. QED
          BY <4>3, <4>6, <5>1, InLiteral DEF ReadHandshake, Replies
      <4>7. CASE ReadHelloRequest(c)
        <5>1. /\ <<"time_request", "hello_response">> \in Seq(DownMsgs)
              /\ <<"hello_response">> \in Seq(DownMsgs)
          BY DEF DownMsgs
        <5>2. conn'[c] \in Answered
          BY <4>7 DEF ReadHelloRequest, Replies, Answered
        <5>3. CASE timeSync
          <6>1. down' = [down EXCEPT ![c] = @ \o <<"time_request", "hello_response">>]
            BY <4>7, <5>3 DEF ReadHelloRequest, Replies
          <6>2. In(m, <<"time_request", "hello_response">>) => Shows(c, m)
            BY <5>2, <5>3, InLiteral
          <6>3. QED
            BY <4>3, <5>1, <6>1, <6>2
        <5>4. CASE ~ timeSync
          <6>1. down' = [down EXCEPT ![c] = @ \o <<"hello_response">>]
            BY <4>7, <5>4 DEF ReadHelloRequest, Replies
          <6>2. In(m, <<"hello_response">>) => Shows(c, m)
            BY <5>2, InLiteral
          <6>3. QED
            BY <4>3, <5>1, <6>1, <6>2
        <5>5. QED
          BY <5>3, <5>4
      <4>8. QED
        BY <3>1, <4>1, <4>4, <4>5, <4>6, <4>7
           DEF Helper, Accept, ClientGone, Remove, HandshakeTimeout
    <3>4. QED
      BY <1>1, <2>1, <3>2, <3>3
  <2>4. QED
    BY <2>2, <2>3
<1>2. QED
  BY <1>1 DEF InFlight, config

LEMMA HeldStep ==
    ASSUME TypeOK, Untried, HeldByPc, [Next]_vars
    PROVE  Untried' /\ HeldByPc'
<1> USE DEF TypeOK, Untried, HeldByPc
<1>1. CASE UNCHANGED vars
  BY <1>1 DEF vars
<1>2. CASE Next
  <2>1. PICK c \in Attempts : Client(c) \/ Helper(c) \/ HandshakeTimeout(c)
    BY <1>2 DEF Next
  <2>2. CASE TcpConnects(c) \/ TcpFails(c) \/ NoiseInit(c)
    BY <2>2 DEF TcpConnects, TcpFails, NoiseInit, Fail
  <2>3. CASE RecvServerHello(c) \/ RecvHandshake(c) \/ RecvHelloResponse(c)
    BY <2>3 DEF RecvServerHello, RecvHandshake, RecvHelloResponse, Receives, Proceeds
  <2>4. CASE RecvReject(c) \/ RecvOther(c) \/ RecvFails(c)
    BY <2>4 DEF RecvReject, RecvOther, RecvFails, Fail
  <2>5. CASE SendFails(c)
    BY <2>5 DEF SendFails, Receives, Fail
  <2>6. CASE Disconnect(c)
    BY <2>6 DEF Disconnect
  <2>7. CASE Helper(c) \/ HandshakeTimeout(c)
    BY <2>7 DEF Helper, Accept, ReadClientHello, ReadHandshake, ReadHelloRequest,
       Reads, Replies, ClientGone, Remove, HandshakeTimeout, InSlot
  <2>8. QED
    BY <2>1, <2>2, <2>3, <2>4, <2>5, <2>6, <2>7 DEF Client
<1>3. QED
  BY <1>1, <1>2

\* What a call concludes from the message at the head of its channel is what
\* the message is evidence of.
LEMMA OutcomeStep ==
    ASSUME IInv, [Next]_vars
    PROVE  Authenticated' /\ FailsForCause'
<1> USE DEF IInv, TypeOK, Authenticated, FailsForCause
<1>1. CASE UNCHANGED vars
  BY <1>1 DEF vars, config
<1>2. CASE Next
  <2>1. PICK c \in Attempts : Client(c) \/ Helper(c) \/ HandshakeTimeout(c)
    BY <1>2 DEF Next
  <2>2. down[c] # <<>> => In(Head(down[c]), down[c])
    BY InTaken DEF Messages
  <2> USE DEF config, Excused, Fail, Untried
  <2>3. CASE TcpConnects(c) \/ TcpFails(c) \/ NoiseInit(c)
    BY <2>3, ConnectAssumption DEF TcpConnects, TcpFails, NoiseInit
  <2>4. CASE RecvServerHello(c)
    BY <2>4 DEF RecvServerHello, Receives, Proceeds
  <2>5. CASE RecvHandshake(c)
    BY <2>2, <2>5 DEF RecvHandshake, Receives, Proceeds, InFlight
  <2>6. CASE RecvReject(c) \/ RecvOther(c)
    BY <2>2, <2>6 DEF RecvReject, RecvOther, Receives, InFlight
  <2>7. CASE RecvHelloResponse(c)
    BY <2>2, <2>7 DEF RecvHelloResponse, Receives, InFlight, Answered
  <2>8. CASE RecvFails(c) \/ SendFails(c) \/ Disconnect(c)
    BY <2>8 DEF RecvFails, SendFails, Disconnect
  <2>9. CASE Helper(c) \/ HandshakeTimeout(c)
    <3>1. UNCHANGED <<psk, timeSync, pc>> /\ \A d \in Attempts : excuse[d] => excuse'[d]
      BY <2>9 DEF Helper, Accept, ReadClientHello, ReadHandshake, ReadHelloRequest,
         Reads, Replies, ClientGone, Remove, HandshakeTimeout
    <3>2. FailsForCause'
      BY <3>1
    <3>3. CASE ReadHandshake(c)
      BY <3>1, <3>2, <3>3 DEF ReadHandshake, Reads, Replies, InSlot
    <3>4. CASE Accept(c) \/ ReadClientHello(c) \/ ReadHelloRequest(c)
      BY <3>1, <3>2, <3>4 DEF Accept, ReadClientHello, ReadHelloRequest, Reads,
         Replies, InSlot
    <3>5. CASE ClientGone(c) \/ Remove(c) \/ HandshakeTimeout(c)
      BY <3>1, <3>2, <3>5 DEF ClientGone, Remove, HandshakeTimeout, InSlot
    <3>6. QED
      BY <2>9, <3>3, <3>4, <3>5 DEF Helper
  <2>10. QED
    BY <2>1, <2>3, <2>4, <2>5, <2>6, <2>7, <2>8, <2>9 DEF Client
<1>3. QED
  BY <1>1, <1>2

LEMMA Inductive == IInv /\ [Next]_vars => IInv'
<1> SUFFICES ASSUME IInv, [Next]_vars PROVE IInv'
  OBVIOUS
<1>1. TypeOK /\ SlotsFinite /\ Messages /\ Untried /\ InFlight /\ HeldByPc
  BY DEF IInv
<1>2. SlotsFinite'
  BY <1>1, SlotsStep
<1>3. TypeOK'
  BY <1>1, TypeStep
<1>4. Messages'
  BY <1>1, MessagesStep
<1>5. InFlight'
  BY <1>1, InFlightStep
<1>6. Untried' /\ HeldByPc'
  BY <1>1, HeldStep
<1>7. Authenticated' /\ FailsForCause'
  BY OutcomeStep
<1>8. QED
  BY <1>2, <1>3, <1>4, <1>5, <1>6, <1>7 DEF IInv

-----------------------------------------------------------------------------
(* The theorems. *)

LEMMA Always == Spec => []IInv
  BY InitHolds, Inductive, PTL DEF Spec

\* However many clients connect, and in whatever order they are accepted, fail
\* and are removed, accept_new_connections_ never serves more than
\* MAX_API_CONNECTIONS of them.
THEOREM TypeCorrect == Spec => []TypeOK
<1>1. IInv => TypeOK
  BY DEF IInv
<1>2. QED
  BY <1>1, Always, PTL

\* A connected client and its device have the same key, and the device has
\* completed authentication.
THEOREM SessionsAreAuthenticated == Spec => []Authenticated
<1>1. IInv => Authenticated
  BY DEF IInv
<1>2. QED
  BY <1>1, Always, PTL

\* esph_connect gives back all it acquired on each path on which it fails.
THEOREM NothingLeaks == Spec => []NoLeak
<1>1. IInv => NoLeak
  BY DEF IInv, HeldByPc, NoLeak
<1>2. QED
  BY <1>1, Always, PTL

\* With the device's key esph_connect fails only for a cause outside the
\* protocol, or because the device asks for the time first.
THEOREM FailuresHaveACause == Spec => []FailsForCause
<1>1. IInv => FailsForCause
  BY DEF IInv
<1>2. QED
  BY <1>1, Always, PTL
=============================================================================
