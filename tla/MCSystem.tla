------------------------------ MODULE MCSystem ------------------------------
(* Small instances of System for TLC. *)
EXTENDS System

Entity(name, key, kind) == [name |-> <<name>>, key |-> key, kind |-> kind]

TwoEntities == <<Entity("pump", 1, "switch"), Entity("temp", 2, "sensor")>>

OneEntity == <<Entity("temp", 2, "sensor")>>

\* More than the socket takes at once.
ThreeEntities ==
    <<Entity("pump", 1, "switch"), Entity("fan", 2, "switch"), Entity("temp", 3, "sensor")>>

ColdThree == <<0, 0, Missing>>

\* Eight buttons, which fill two batches of four, and a sensor.
ButtonEntities ==
    [i \in 1 .. 9 |-> IF i < 9 THEN Entity(ToString(i), i, "button") ELSE Entity("temp", 9, "sensor")]

Pressed == [i \in 1 .. 9 |-> Missing]

HouseNames == {<<"pump">>, <<"switch", ".", "pump">>}

\* The order of calls of README.md and examples/linux_client.c.
ReadmeOrder ==
    [info |-> {}, list |-> {"info"}, wait |-> {"list"}, subscribe |-> {"wait"},
     switch |-> {"subscribe"}, ping |-> {"subscribe"}]

\* The same without the optional esph_check_device_info.
ShortOrder == [ReadmeOrder EXCEPT !.list = {}]

\* A negative timeout is documented as "infinite".
AnyTimeout == {-1, 50}

AnyOrder == [op \in Ops |-> {}]

Cold == <<0, Missing>>

ColdOne == <<Missing>>

Once == [op \in Ops |-> 1]

NoPing == [Once EXCEPT !.ping = 0]

\* List, wait and subscribe, once each.
ListAndSubscribe == [op \in Ops |-> IF op \in {"info", "ping", "switch"} THEN 0 ELSE 1]

\* The list may be requested again, while the first one is under way or later.
ListTwice == [ListAndSubscribe EXCEPT !.list = 2]

\* Bound: a second list in the first session only, and there before states are requested.
FewLists == calls["list"] > 1 => sessions = 1 /\ calls["subscribe"] = 0
=============================================================================
