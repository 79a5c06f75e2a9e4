------------------------------ MODULE Registry ------------------------------
(***************************************************************************)
(* The entity registry of the client (src/api/entity_registry.c): a fixed  *)
(* array of MAX_ENTITIES entries, filled in the order in which the device  *)
(* lists its entities, searched from the front both when a state arrives   *)
(* (by key) and when a command names an entity (by name).                  *)
(*                                                                         *)
(* The array and registry_count are one sequence here: slots at and past   *)
(* registry_count are never read.  Texts (names and states) are sequences  *)
(* of characters, because what strncpy and strchr do to them decides which *)
(* entity a name resolves to.                                              *)
(***************************************************************************)
EXTENDS Naturals, Sequences

CONSTANTS
    MAX_ENTITIES,  \* slots of the array (64)
    TEXT_LEN,      \* characters kept of a name or a state (63)
    Dot,           \* the character '.'
    Key,           \* keys a device may assign; 0 is a value of the field
    Text,          \* names and states the device may send
    Id,            \* entity ids the application may look up
    Type           \* list message types, stored with the entity

ASSUME RegistryAssumption ==
    /\ MAX_ENTITIES \in Nat \ {0}
    /\ TEXT_LEN \in Nat \ {0}
    /\ Key \subseteq Nat

VARIABLES
    registry,      \* the entries, registry[1] being slot 0 of the array
    call           \* the call made last, with the texts as stored

vars == <<registry, call>>

-----------------------------------------------------------------------------
(* The operators other modules use: each is one function of the source, on *)
(* the registry's value r.                                                 *)

NoState == <<>>

\* strncpy(dst, src, sizeof(dst) - 1) into a zeroed field.
Clip(t) == IF Len(t) > TEXT_LEN THEN SubSeq(t, 1, TEXT_LEN) ELSE t

Entry(name, key, type) ==
    [object_id |-> Clip(name), key |-> key, state |-> NoState, type |-> type]

\* The slots the two search loops of the source stop at: the first of those
\* with the key, or with the name.
WithKey(r, key) == {i \in 1 .. Len(r) : r[i].key = key}

WithName(r, name) == {i \in 1 .. Len(r) : r[i].object_id = name}

First(S) == CHOOSE i \in S : \A j \in S : i <= j

\* Mutants of esph_registry_add: capacity test off by one; a full registry
\* reuses its oldest slot.
AddOffByOne(r, name, key, type) ==
    IF Len(r) > MAX_ENTITIES THEN r ELSE Append(r, Entry(name, key, type))

AddRecycles(r, name, key, type) ==
    IF Len(r) >= MAX_ENTITIES
      THEN Append(Tail(r), Entry(name, key, type))
      ELSE Append(r, Entry(name, key, type))

esph_registry_add(r, name, key, type) ==
    IF Len(r) >= MAX_ENTITIES THEN r ELSE Append(r, Entry(name, key, type))

\* Mutants of esph_registry_update_state: no early return, so that every entry
\* with the key is written; the search runs from the back.
UpdateEvery(r, key, value) ==
    [i \in 1 .. Len(r) |->
       IF r[i].key = key THEN [r[i] EXCEPT !.state = Clip(value)] ELSE r[i]]

UpdateLast(r, key, value) ==
    LET S == WithKey(r, key)
        last == CHOOSE i \in S : \A j \in S : j <= i
    IN  IF S = {} THEN r ELSE [r EXCEPT ![last].state = Clip(value)]

esph_registry_update_state(r, key, value) ==
    IF WithKey(r, key) = {}
      THEN r
      ELSE [r EXCEPT ![First(WithKey(r, key))].state = Clip(value)]

\* The part of an entity id that is compared with the stored names: what
\* follows the first dot, or all of it.
Target(id) ==
    LET dots == {i \in 1 .. Len(id) : id[i] = Dot}
    IN  IF dots = {} THEN id ELSE SubSeq(id, First(dots) + 1, Len(id))

esph_registry_lookup_key(r, id) ==
    LET hits == WithName(r, Target(id))
    IN  IF hits = {} THEN 0 ELSE r[First(hits)].key

-----------------------------------------------------------------------------
(* The registry as a component, called with anything its callers may pass. *)

Init == registry = <<>> /\ call = [op |-> "none"]

Clear == registry' = <<>> /\ call' = [op |-> "clear"]

Add(name, key, type) ==
    /\ registry' = esph_registry_add(registry, name, key, type)
    /\ call' = [op |-> "list", key |-> key, text |-> Clip(name)]

UpdateState(key, value) ==
    /\ registry' = esph_registry_update_state(registry, key, value)
    /\ call' = [op |-> "report", key |-> key, text |-> Clip(value)]

Next ==
    \/ Clear
    \/ \E name \in Text, key \in Key, type \in Type : Add(name, key, type)
    \/ \E key \in Key, value \in Text : UpdateState(key, value)

Spec == Init /\ [][Next]_vars

-----------------------------------------------------------------------------
(* Properties. *)

Clipped == {Clip(t) : t \in Text}

EntrySet ==
    [object_id : Clipped, key : Key, state : Clipped \cup {NoState}, type : Type]

\* The registry is an array of at most MAX_ENTITIES entries whose texts fit
\* their fields.
TypeOK ==
    /\ registry \in Seq(EntrySet)
    /\ Len(registry) <= MAX_ENTITIES

\* A state is always stored in the first entry with its key: an entry behind
\* another one with the same key never shows a state, however often the device
\* reports one (entity_registry.c, the early return in
\* esph_registry_update_state).
ShadowedStateless ==
    \A j \in 1 .. Len(registry) :
      (\E i \in 1 .. j - 1 : registry[i].key = registry[j].key)
        => registry[j].state = NoState

\* Until the registry is cleared, an id that resolves to a key keeps resolving
\* to it, whatever the device lists or reports later: a command cannot be
\* redirected by an entity that arrives after the one it names.
LookupStable ==
    [][registry' # <<>> =>
         \A id \in Id :
           LET k == esph_registry_lookup_key(registry, id)
           IN  k # 0 => esph_registry_lookup_key(registry', id) = k]_vars

\* The directory and the cache the array stands for.
Directory ==
    [n \in {registry[i].object_id : i \in 1 .. Len(registry)} |->
       registry[First(WithName(registry, n))].key]

Cache ==
    [k \in {registry[i].key : i \in 1 .. Len(registry)} |->
       registry[First(WithKey(registry, k))].state]

Abstract == INSTANCE EntityCache
    WITH directory <- Directory, cache <- Cache, size <- Len(registry),
         Name <- Clipped, State <- Clipped

\* Call by call, the array behaves as the directory and cache of EntityCache:
\* the first entity listed under a name or a key keeps it, the cache of a key is
\* the state reported last since it was listed, and a call the array cannot
\* serve (full, or an unknown key) changes nothing.
ImplementsCache == Abstract!Spec
=============================================================================
