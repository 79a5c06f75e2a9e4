---------------------------- MODULE EntityCache ----------------------------
(***************************************************************************)
(* What the entity registry promises to the rest of the client, without    *)
(* its array: a directory that resolves the name an entity was listed      *)
(* under to the numeric key of that entity, and a cache that holds, for    *)
(* each listed key, the state received last.  The capacity is part of the  *)
(* promise: an entity listed when the registry is full is ignored.         *)
(***************************************************************************)
EXTENDS Naturals

CONSTANTS
    MAX_ENTITIES,  \* capacity
    Key,           \* the keys a device may assign
    Name,          \* the names entities may be listed under
    State,         \* the texts a state may have
    NoState        \* the state of an entity no state was received for

VARIABLES
    directory,     \* name -> key, for the names listed so far
    cache,         \* key -> state, for the keys listed so far
    size,          \* how many entities were accepted
    call           \* the call made last

vars == <<directory, cache, size, call>>

\* The function f extended with x -> y, unless f already has a value for x:
\* whatever was listed first is kept.
FirstWins(f, x, y) ==
    IF x \in DOMAIN f
      THEN f
      ELSE [z \in DOMAIN f \cup {x} |-> IF z = x THEN y ELSE f[z]]

Init ==
    /\ directory = [n \in {} |-> 0]
    /\ cache = [k \in {} |-> NoState]
    /\ size = 0
    /\ call = [op |-> "none"]

List(n, k) ==
    /\ call' = [op |-> "list", key |-> k, text |-> n]
    /\ IF size < MAX_ENTITIES
         THEN /\ directory' = FirstWins(directory, n, k)
              /\ cache' = FirstWins(cache, k, NoState)
              /\ size' = size + 1
         ELSE UNCHANGED <<directory, cache, size>>

Report(k, v) ==
    /\ call' = [op |-> "report", key |-> k, text |-> v]
    /\ cache' = IF k \in DOMAIN cache THEN [cache EXCEPT ![k] = v] ELSE cache
    /\ UNCHANGED <<directory, size>>

Clear ==
    /\ call' = [op |-> "clear"]
    /\ directory' = [n \in {} |-> 0]
    /\ cache' = [k \in {} |-> NoState]
    /\ size' = 0

Next ==
    \/ \E n \in Name, k \in Key : List(n, k)
    \/ \E k \in Key, v \in State : Report(k, v)
    \/ Clear

Spec == Init /\ [][Next]_vars
=============================================================================
