------------------------------- MODULE Mirror -------------------------------
(***************************************************************************)
(* What a client promises about the states it shows, whatever is lost and  *)
(* however often it connects: its cache is a mirror of the device, behind  *)
(* by the reports on their way.  A report is true when it is sent, reports *)
(* arrive in order, and nothing else changes what is shown for a key.      *)
(***************************************************************************)
EXTENDS Integers, Sequences

VARIABLES
    truth,   \* the facts of the moment: what may be shown, with its key
    wire,    \* the reports on their way, the oldest first
    shown    \* what the client shows: a function from the keys it knows to texts

vars == <<truth, wire, shown>>

Fact(key, text) == [key |-> key, text |-> text]

\* A message that reports no state, and the text of a key before any report.
Silent == Fact(-1, <<>>)

Blank == <<>>

Init == wire = <<>> /\ DOMAIN shown = {}

\* The device changes, reports what is true now, or both.
Tell ==
    /\ Len(wire) <= Len(wire')
    /\ \A j \in 1 .. Len(wire') :
         IF j <= Len(wire) THEN wire'[j] = wire[j] ELSE wire'[j] \in truth' \cup {Silent}
    /\ UNCHANGED shown

\* The client takes a report.  It may show it for its key, or lose it; only a
\* message of another kind makes it know more keys.
Hear ==
    /\ wire # <<>> /\ wire' = Tail(wire)
    /\ DOMAIN shown \subseteq DOMAIN shown'
    /\ \A k \in DOMAIN shown :
         shown'[k] = shown[k] \/ Head(wire) = Fact(k, shown'[k])
    /\ \A k \in DOMAIN shown' \ DOMAIN shown :
         shown'[k] = Blank /\ Head(wire) = Silent
    /\ UNCHANGED truth

\* A connection begins or ends: what was on its way is gone.
Close == wire' = <<>> /\ UNCHANGED <<truth, shown>>

\* The client forgets all.
Forget == DOMAIN shown' = {} /\ UNCHANGED <<truth, wire>>

Next == Tell \/ Hear \/ Close \/ Forget

Spec == Init /\ [][Next]_vars
=============================================================================
