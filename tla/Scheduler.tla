----------------------------- MODULE Scheduler -----------------------------
(***************************************************************************)
(* core/scheduler.cpp and the part of Application::loop that drives it, in *)
(* the build for several threads with atomics (ESP32, host).               *)
(*                                                                         *)
(* Any thread may set and cancel timers; every such call holds the         *)
(* scheduler's lock from beginning to end and is one step.  The main loop  *)
(* runs the callbacks without the lock, and looks at counters and at the   *)
(* top of the heap without it: its steps end where it takes or releases    *)
(* the lock.  An item moves from to_add_ or defer_queue_ to items_ or into *)
(* a callback, and back to the pool, all by the main loop.                 *)
(***************************************************************************)
EXTENDS Integers, Sequences, FiniteSets, FiniteSetsExt, SequencesExt

CONSTANTS
    Components,     \* components that may be marked as failed
    Keys,           \* <<component, name>> of the timers
    Parallel,       \* keys whose timers are set with skip_cancel
    Timers,         \* <<key, type, delay>> of the calls that set timers
    MaxItems,       \* bound: items ever allocated
    MaxCalls,       \* bound: calls that set or cancel a timer
    MaxTime,        \* bound: the clock stops
    loop_interval,  \* time between two runs of the components' loop()
    MAX_LOGICALLY_DELETED_ITEMS,
    OtherThread     \* whether a second thread sets and cancels timers

ASSUME SchedulerAssumption ==
    /\ Parallel \subseteq Keys
    /\ Timers \subseteq Keys \X {"timeout", "interval"} \X Nat
    /\ MAX_LOGICALLY_DELETED_ITEMS \in Nat \ {0}
    /\ MaxItems \in Nat

VARIABLES
    item,       \* the items allocated so far
    pool,       \* recycled items
    items,      \* the heap, as a set,
    top,        \* and its front
    to_add,     \* items to be merged into the heap
    defer,      \* defer_queue_ from defer_queue_front_ on
    to_remove, to_add_count, defer_count,   \* the atomic counters
    pc, cur,    \* where the main loop is, and the item it has in hand
    left,       \* items of the defer queue to be run in this pass
    now_64, has_added,      \* local variables of call
    now,        \* the clock
    until,      \* when wakeable_delay returns
    last_loop, wake_request,
    failed,     \* components marked as failed
    calls       \* calls of set and cancel so far

containers == <<item, pool, items, top, to_add, defer, to_remove, to_add_count, defer_count>>
locals == <<cur, left, now_64, has_added>>
loopVars == <<until, last_loop, wake_request>>
vars == <<containers, locals, loopVars, pc, now, failed, calls>>

NoItem == 0

Init ==
    /\ item = <<>> /\ pool = {} /\ items = {} /\ top = NoItem
    /\ to_add = <<>> /\ defer = <<>>
    /\ to_remove = 0 /\ to_add_count = 0 /\ defer_count = 0
    /\ pc = "sleep" /\ cur = NoItem /\ left = 0 /\ now_64 = 0 /\ has_added = FALSE
    /\ now = 0 /\ until = 0 /\ last_loop = 0 /\ wake_request = FALSE
    /\ failed = {} /\ calls = 0

-----------------------------------------------------------------------------
(* The heap.  Its front is an item with the least time: after a pop any of   *)
(* these; push_heap moves a new item to the front only if it is due earlier. *)

Least(S) ==
    IF S = {} THEN {NoItem} ELSE {i \in S : \A j \in S : item'[i].when <= item'[j].when}

PopLeaves(S) == items' = S /\ top' \in Least(S)

PushGives(S, front) ==
    /\ items' = S
    /\ top' \in IF front \in Least(S) THEN {front} ELSE Least(S)

\* Recycled items keep nothing that is ever looked at again.
Blank == [key |-> <<>>, type |-> "none", when |-> 0, interval |-> 0, removed |-> FALSE]

Blanked(S) == [i \in DOMAIN item |-> IF i \in S THEN Blank ELSE item[i]]

Removed(S) == {i \in S : item[i].removed}

is_failed(i) == item[i].key[1] \in failed

-----------------------------------------------------------------------------
(* Setting and cancelling, by any thread. *)

matches(i, key, type) ==
    item[i].key = key /\ item[i].type = type /\ ~ item[i].removed

Matching(S, key, type) == {i \in S : matches(i, key, type)}

\* The first match in a sequence, as a set; none gives the empty set.
FirstMatch(seq, key, type) ==
    {seq[k] : k \in {n \in 1 .. Len(seq) : /\ matches(seq[n], key, type)
                                          /\ \A m \in 1 .. n - 1 : ~ matches(seq[m], key, type)}}

\* Mutant of Cancelled: what waits to be added is forgotten.
CancelledInHeap(key, type, find_first) ==
    LET first == FirstMatch(defer, key, type)
        h == Matching(items, key, type)
    IN IF ~ find_first THEN {Matching(ToSet(defer) \cup items, key, type)}
       ELSE IF first # {} THEN {first}
       ELSE IF h # {} THEN {{i} : i \in h}
       ELSE {{}}

\* What cancel_item_locked_ marks: the first match in the order of the
\* containers (of equal items in the heap, any), or all of them.
Cancelled(key, type, find_first) ==
    LET first == FirstMatch(defer, key, type)
        h == Matching(items, key, type)
    IN IF ~ find_first THEN {Matching(ToSet(defer) \cup items \cup ToSet(to_add), key, type)}
       ELSE IF first # {} THEN {first}
       ELSE IF h # {} THEN {{i} : i \in h}
       ELSE {FirstMatch(to_add, key, type)}

Mark(its, S) == [i \in DOMAIN its |-> IF i \in S THEN [its[i] EXCEPT !.removed = TRUE] ELSE its[i]]

\* Mutants of cancel: items of the heap are not counted, or recycled at once.
CancelNotCounted(key, type, find_first) ==
    /\ \E S \in Cancelled(key, type, find_first) : item' = Mark(item, S)
    /\ UNCHANGED <<pool, items, top, to_add, defer, to_remove, to_add_count, defer_count>>

CancelRecycles(key, type, find_first) ==
    /\ \E S \in Cancelled(key, type, find_first) :
         /\ item' = [i \in DOMAIN item |-> IF i \in S \cap items THEN Blank ELSE Mark(item, S)[i]]
         /\ PopLeaves(items \ S)
         /\ pool' = pool \cup (S \cap items)
    /\ UNCHANGED <<to_add, defer, to_remove, to_add_count, defer_count>>

cancel(key, type, find_first) ==
    /\ \E S \in Cancelled(key, type, find_first) :
         /\ item' = Mark(item, S)
         /\ to_remove' = to_remove + Cardinality(S \cap items)
    /\ UNCHANGED <<pool, items, top, to_add, defer, to_add_count, defer_count>>

\* get_item_from_pool_locked_: an item of the pool, or a new one.
Store(its, i, rec) ==
    IF i \in DOMAIN its THEN [its EXCEPT ![i] = rec] ELSE Append(its, rec)

TakeFromPool(i) ==
    \/ i \in pool /\ (\A j \in pool : i <= j) /\ pool' = pool \ {i}
    \/ pool = {} /\ i = Len(item) + 1 /\ i <= MaxItems /\ pool' = pool

\* Mutant of Coerced: an interval of 0 stays one.
NotCoerced(type, delay) == delay

\* "An interval of 0 means fire every tick forever": it becomes 1.
Coerced(type, delay) == IF type = "interval" /\ delay = 0 THEN 1 ELSE delay

Offsets(type, delay) == IF type = "interval" THEN 0 .. Max({0, delay \div 2 - 1}) ELSE {delay}

set_timer_common(key, type, delay) ==
    \E i \in 1 .. MaxItems,
       S \in IF key \in Parallel THEN {{}} ELSE Cancelled(key, type, TRUE),
       offset \in Offsets(type, Coerced(type, delay)) :
      /\ TakeFromPool(i)
      /\ item' = Store(Mark(item, S), i,
                   [key |-> key, type |-> type, when |-> now + offset,
                    interval |-> IF type = "interval" THEN Coerced(type, delay) ELSE 0,
                    removed |-> FALSE])
      /\ to_remove' = to_remove + Cardinality(S \cap items)
      /\ IF type = "timeout" /\ delay = 0
           THEN /\ defer' = Append(defer, i) /\ defer_count' = defer_count + 1
                /\ UNCHANGED <<to_add, to_add_count>>
           ELSE /\ to_add' = Append(to_add, i) /\ to_add_count' = to_add_count + 1
                /\ UNCHANGED <<defer, defer_count>>
      /\ UNCHANGED <<items, top>>

\* A call of the scheduler's interface; a delay of SCHEDULER_DONT_RUN only
\* cancels the first timer that matches.
TimerCall ==
    /\ calls < MaxCalls /\ calls' = calls + 1
    /\ \E timer \in Timers :
         \/ set_timer_common(timer[1], timer[2], timer[3])
         \/ \E find_first \in BOOLEAN : cancel(timer[1], timer[2], find_first)
    /\ UNCHANGED <<locals, loopVars, pc, now, failed>>

OtherCalls == OtherThread /\ TimerCall

\* Callbacks and the components' loop() use the same interface.
InUserCode == pc \in {"deferred callback", "callback", "components"}

MainCalls == InUserCode /\ TimerCall

MarkFailed ==
    /\ InUserCode
    /\ \E c \in Components \ failed : failed' = failed \cup {c}
    /\ UNCHANGED <<containers, locals, loopVars, pc, now, calls>>

-----------------------------------------------------------------------------
(* Scheduler::call, first part: process_defer_queue_. *)

Tick ==
    /\ now < MaxTime /\ now' = now + 1
    /\ UNCHANGED <<containers, locals, loopVars, pc, failed, calls>>

\* wakeable_delay returns; at the end of time it always does.
LoopBegins ==
    /\ pc = "sleep" /\ (now >= until \/ wake_request \/ now = MaxTime)
    /\ pc' = "defer" /\ until' = 0
    /\ UNCHANGED <<containers, locals, last_loop, wake_request, now, failed, calls>>

\* now_64 is read between the defer queue and process_to_add.
DeferQueueDone == pc' = "to_add" /\ now_64' = now /\ has_added' = FALSE

DeferQueueEmpty ==
    /\ pc = "defer" /\ defer_count = 0
    /\ DeferQueueDone
    /\ UNCHANGED <<containers, cur, left, loopVars, now, failed, calls>>

TakeDeferred(n) ==
    /\ cur' = Head(defer) /\ defer' = Tail(defer) /\ left' = n - 1
    /\ pc' = "deferred"

DeferQueueBegins ==
    /\ pc = "defer" /\ defer_count > 0
    /\ defer_count' = 0
    /\ TakeDeferred(Len(defer))
    /\ UNCHANGED <<item, pool, items, top, to_add, to_remove, to_add_count>>
    /\ UNCHANGED <<now_64, has_added, loopVars, now, failed, calls>>

RunDeferred ==
    /\ pc = "deferred" /\ ~ item[cur].removed /\ ~ is_failed(cur)
    /\ pc' = "deferred callback"
    /\ UNCHANGED <<containers, locals, loopVars, now, failed, calls>>

\* Mutant of DeferredDone: the counter is cleared when the pass over the queue ends.
DeferredClearsCount ==
    /\ \/ pc = "deferred callback"
       \/ pc = "deferred" /\ (item[cur].removed \/ is_failed(cur))
    /\ item' = Blanked({cur}) /\ pool' = pool \cup {cur}
    /\ IF left > 0
         THEN TakeDeferred(left) /\ UNCHANGED <<now_64, has_added, defer_count>>
         ELSE DeferQueueDone /\ cur' = NoItem /\ defer_count' = 0 /\ UNCHANGED <<defer, left>>
    /\ UNCHANGED <<items, top, to_add, to_remove, to_add_count>>
    /\ UNCHANGED <<loopVars, now, failed, calls>>

\* The callback has returned, or was skipped; the items that were there when the
\* pass began are run, later ones are left for the next pass.
DeferredDone ==
    /\ \/ pc = "deferred callback"
       \/ pc = "deferred" /\ (item[cur].removed \/ is_failed(cur))
    /\ item' = Blanked({cur}) /\ pool' = pool \cup {cur}
    /\ IF left > 0
         THEN TakeDeferred(left) /\ UNCHANGED <<now_64, has_added>>
         ELSE DeferQueueDone /\ cur' = NoItem /\ UNCHANGED <<defer, left>>
    /\ UNCHANGED <<items, top, to_add, to_remove, to_add_count, defer_count>>
    /\ UNCHANGED <<loopVars, now, failed, calls>>

-----------------------------------------------------------------------------
(* Second part: the heap. *)

\* Mutant of process_to_add: cancelled items are not recycled.
ToAddLeaks ==
    IF to_add_count = 0
      THEN UNCHANGED containers
      ELSE /\ item' = Blanked(Removed(ToSet(to_add)))
           /\ PushGives(items \cup (ToSet(to_add) \ Removed(ToSet(to_add))), top)
           /\ to_add' = <<>> /\ to_add_count' = 0
           /\ UNCHANGED <<pool, defer, defer_count, to_remove>>

\* process_to_add, if the counter is not zero.
process_to_add ==
    IF to_add_count = 0
      THEN UNCHANGED containers
      ELSE /\ pool' = pool \cup Removed(ToSet(to_add))
           /\ item' = Blanked(Removed(ToSet(to_add)))
           /\ PushGives(items \cup (ToSet(to_add) \ Removed(ToSet(to_add))), top)
           /\ to_add' = <<>> /\ to_add_count' = 0
           /\ UNCHANGED <<defer, defer_count, to_remove>>

ProcessToAdd ==
    /\ pc = "to_add" /\ process_to_add
    /\ pc' = "cleanup"
    /\ UNCHANGED <<locals, loopVars, now, failed, calls>>

\* Recycle S, which leaves the heap; n of it were counted in to_remove_.
Recycle(S, n) ==
    /\ item' = Blanked(S)
    /\ pool' = pool \cup S
    /\ PopLeaves(items \ S)
    /\ to_remove' = to_remove - n
    /\ UNCHANGED <<to_add, defer, to_add_count, defer_count>>

\* cleanup_: if the counter is not zero, pop removed items off the front.  Of
\* those with the same time as the first live item any may be in front of it.
cleanup ==
    LET live == items \ Removed(items)
        before == {i \in Removed(items) : \A j \in live : item[i].when < item[j].when}
        with == {i \in Removed(items) \ before : \A j \in live : item[i].when <= item[j].when}
    IN IF to_remove = 0 \/ top \notin Removed(items)
         THEN UNCHANGED containers
         ELSE \E S \in SUBSET with :
                /\ top \in before \cup S
                /\ Recycle(before \cup S, Cardinality(before \cup S))
                /\ top' \notin Removed(items)

Cleanup ==
    /\ pc = "cleanup" /\ cleanup
    /\ pc' = "full cleanup"
    /\ UNCHANGED <<locals, loopVars, now, failed, calls>>

FullCleanup ==
    /\ pc = "full cleanup"
    /\ IF to_remove >= MAX_LOGICALLY_DELETED_ITEMS
         THEN Recycle(Removed(items), to_remove)
         ELSE UNCHANGED containers
    /\ pc' = "run"
    /\ UNCHANGED <<locals, loopVars, now, failed, calls>>

Due == items # {} /\ item[top].when <= now_64

\* Items of a failed component are dropped, whether counted as removed or not.
DropFailed ==
    /\ pc = "run" /\ Due /\ is_failed(top)
    /\ Recycle({top}, 0)
    /\ UNCHANGED <<pc, locals, loopVars, now, failed, calls>>

DropRemoved ==
    /\ pc = "run" /\ Due /\ ~ is_failed(top) /\ item[top].removed
    /\ Recycle({top}, 1)
    /\ UNCHANGED <<pc, locals, loopVars, now, failed, calls>>

RunItem ==
    /\ pc = "run" /\ Due /\ ~ is_failed(top) /\ ~ item[top].removed
    /\ cur' = top
    /\ pc' = "callback"
    /\ UNCHANGED <<containers, left, now_64, has_added, loopVars, now, failed, calls>>

\* The callback has returned.  The item is still in front; it was cancelled
\* meanwhile (then what it has added is not looked at), is an interval and gets
\* its next time, or is done.
Executed ==
    /\ pc = "callback"
    /\ IF item[top].removed THEN Recycle({top}, 1)
       ELSE IF item[top].type = "interval"
         THEN /\ item' = [item EXCEPT ![top].when = now_64 + item[top].interval]
              /\ \E front \in Least(items \ {top}) : PushGives(items, front)
              /\ UNCHANGED <<pool, to_add, defer, to_remove, to_add_count, defer_count>>
         ELSE Recycle({top}, 0)
    /\ has_added' = (has_added \/ (~ item[top].removed /\ to_add # <<>>))
    /\ cur' = NoItem
    /\ pc' = "run"
    /\ UNCHANGED <<left, now_64, loopVars, now, failed, calls>>

CallReturns ==
    /\ pc = "run" /\ ~ Due
    /\ IF has_added THEN process_to_add ELSE UNCHANGED containers
    /\ pc' = "gate" /\ now_64' = 0 /\ has_added' = FALSE
    /\ UNCHANGED <<cur, left, loopVars, now, failed, calls>>

-----------------------------------------------------------------------------
(* Application::loop, the rest. *)

ComponentPhase ==
    /\ pc = "gate"
    /\ pc' = IF wake_request \/ now - last_loop >= loop_interval THEN "components" ELSE "decide"
    /\ wake_request' = FALSE
    /\ UNCHANGED <<containers, locals, until, last_loop, now, failed, calls>>

ComponentsDone ==
    /\ pc = "components"
    /\ last_loop' = now
    /\ pc' = "decide"
    /\ UNCHANGED <<containers, locals, until, wake_request, now, failed, calls>>

\* next_schedule_in; the sleep ends no later than the next component phase.
until_phase == Max({0, loop_interval - (now - last_loop)})

Sleep ==
    /\ pc = "decide"
    /\ IF defer_count > 0
         THEN until' = now /\ UNCHANGED containers
         ELSE /\ cleanup
              /\ until' = now + IF items' = {} THEN until_phase
                                ELSE Min({until_phase, Max({0, item[top'].when - now})})
    /\ pc' = "sleep"
    /\ UNCHANGED <<locals, last_loop, wake_request, now, failed, calls>>

\* wake_loop_threadsafe
WakeLoop ==
    /\ OtherThread /\ ~ wake_request /\ wake_request' = TRUE
    /\ UNCHANGED <<containers, locals, until, last_loop, pc, now, failed, calls>>

-----------------------------------------------------------------------------

MainLoop ==
    \/ LoopBegins \/ DeferQueueEmpty \/ DeferQueueBegins \/ RunDeferred \/ DeferredDone
    \/ ProcessToAdd \/ Cleanup \/ FullCleanup
    \/ DropFailed \/ DropRemoved \/ RunItem \/ Executed \/ CallReturns
    \/ ComponentPhase \/ ComponentsDone \/ Sleep

Next == MainLoop \/ Tick \/ OtherCalls \/ MainCalls \/ MarkFailed \/ WakeLoop

Spec == Init /\ [][Next]_vars

\* Time passes, and the main loop runs: callbacks return.
FairSpec == Spec /\ WF_vars(MainLoop) /\ WF_vars(Tick)

-----------------------------------------------------------------------------
(* Properties. *)

\* The item that the main loop took from the defer queue.
InHand == IF pc \in {"deferred", "deferred callback"} THEN {cur} ELSE {}

\* "every live SchedulerItem must be in exactly one container" (the assertion
\* debug_verify_no_leak_), at every moment and with the container named.
ExactlyOneContainer ==
    \A i \in DOMAIN item :
      1 = Cardinality({j \in DOMAIN to_add : to_add[j] = i})
          + Cardinality({j \in DOMAIN defer : defer[j] = i})
          + Cardinality({i} \cap items) + Cardinality({i} \cap pool)
          + Cardinality({i} \cap InHand)

\* The containers hold items that exist, the heap has a front, and every item is
\* in exactly one container.
TypeOK ==
    /\ Len(item) <= MaxItems
    /\ \A i \in DOMAIN item :
         \/ item[i].key \in Keys /\ item[i].type \in {"timeout", "interval"}
         \/ i \in pool /\ item[i] = Blank
    /\ pool \cup items \cup ToSet(to_add) \cup ToSet(defer) \subseteq DOMAIN item
    /\ top \in IF items = {} THEN {NoItem} ELSE items
    /\ to_remove \in Nat /\ to_add_count \in Nat /\ defer_count \in Nat
    /\ failed \subseteq Components
    /\ ExactlyOneContainer

\* The counters that are read without the lock never hide an item: when the main
\* loop looks at them, to_add_count_ and defer_count_ are zero only if there is
\* nothing to add or to run, and to_remove_ never falls below the number of
\* removed items in the heap, so it cannot wrap around.
CountersHideNothing ==
    /\ to_add_count = Len(to_add)
    /\ left + defer_count >= Len(defer)
    /\ pc \notin {"deferred", "deferred callback"} => defer_count = Len(defer)
    /\ to_remove >= Cardinality(Removed(items))

\* Setting a timer replaces the one with its key, wherever that is (heap, to_add_,
\* defer queue), although only the first match is marked: there is never a second
\* one, unless it was set with skip_cancel.
OneTimerPerKey ==
    \A i, j \in DOMAIN item \ (pool \cup InHand) :
      /\ ~ item[i].removed /\ matches(j, item[i].key, item[i].type)
      /\ item[i].key \notin Parallel
      => i = j

\* While a callback runs its item is neither recycled nor reused, and it is still
\* the front of the heap when it returns, whatever was set or cancelled meanwhile.
RunningItemStays ==
    /\ pc = "callback" => cur = top /\ cur \in items
    /\ pc \in {"callback", "deferred callback"} => cur \notin pool

\* A pass of the main loop ends: neither callbacks that defer again nor intervals
\* of zero keep it in Scheduler::call.
PassEnds == [](pc # "sleep" => <>(pc = "sleep"))

Pending(i) ==
    /\ i \in items \cup ToSet(to_add) \cup ToSet(defer)
    /\ ~ item[i].removed /\ ~ is_failed(i) /\ item[i].when <= MaxTime

\* Every timer that is due runs, or is cancelled: none is forgotten in a container
\* or slept through.
TimersRun ==
    \A i \in 1 .. MaxItems : [](i \in DOMAIN item /\ Pending(i) => <>~ Pending(i))

=============================================================================
