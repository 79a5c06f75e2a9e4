-------------------------------- MODULE Link --------------------------------
(***************************************************************************)
(* What client and device share: the entities the device offers, the       *)
(* messages, and one FIFO of whole messages per direction of the TCP       *)
(* connection.  That the byte stream under them keeps order and never      *)
(* repeats a message is the subject of FrameRecv and FrameSend.            *)
(***************************************************************************)
EXTENDS Integers, Sequences, SequencesExt

CONSTANTS
    Entities,    \* the device's entities in iterator order: a sequence of
                 \* records [name, key, kind]
    MaxQueue     \* messages the socket buffers hold per direction

VARIABLES
    dev,         \* "up" while the device has this connection, else "none"
    toClient,    \* messages sent by the device, not yet read by the client
    toDevice     \* messages sent by the client, not yet read by the device

linkVars == <<dev, toClient, toDevice>>

\* The entity platforms the client knows; "other" stands for the platforms
\* whose list and state messages it ignores (cover, light, fan, ...), "button"
\* for those that have no state.
ClientKinds == {"binary_sensor", "sensor", "switch", "text_sensor"}

Kinds == ClientKinds \cup {"other", "button"}

\* The kinds of an entity are the client's platforms and the others; keys are
\* unsigned, and need not differ.
ASSUME LinkAssumption ==
    /\ Entities \in Seq([name : Seq(STRING), key : Nat, kind : Kinds])
    /\ MaxQueue \in Nat

Ents == 1 .. Len(Entities)

\* Readings are integers: 0/1 for a binary sensor or a switch, thousandths for
\* a sensor, a text number for a text sensor.  Missing: the entity has no state
\* yet, and the device says so in a field of the message.
Missing == -1

Msg(type) == [type |-> type]

ListMsg(i) == [type |-> "list", ent |-> i]

StateMsg(i, v) == [type |-> "state", ent |-> i, val |-> v]

SwitchMsg(key, on) == [type |-> "switch_command", key |-> key, on |-> on]
=============================================================================
