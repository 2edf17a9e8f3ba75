---------------------------- MODULE CommandQueue ----------------------------
(***************************************************************************)
(* The in-process command queue of the gateway                             *)
(* (src/src/process/command-queue.ts).  Work is submitted to named lanes;  *)
(* a lane holds a priority queue and a set of active slots of bounded      *)
(* size.  Callers put a timeout on a task, clear a lane, reset one lane    *)
(* (recovery) or all of them (in-process restart), change a lane's         *)
(* concurrency at run time, and wait for the tasks that are active now.    *)
(*                                                                         *)
(* JavaScript runs one callback at a time, so a step of this module is one *)
(* synchronous section of the source: the `draining' flag, which is set    *)
(* and cleared inside such a section, never shows between two steps.       *)
(***************************************************************************)
EXTENDS Integers, Sequences, FiniteSets

CONSTANTS
  Lane,           \* names of lanes
  ProbeLane,      \* the lanes isQuietProbeLane recognises
  Entry,          \* the calls of enqueueCommandInLane, each made at most once
  LaneOf,         \* the lane each call names
  Priority,       \* 1 foreground, 0 normal, -1 background
  HasTimeout,     \* whether the call gave a taskTimeoutMs
  Limit,          \* the values callers give to setCommandLaneConcurrency
  Waiter,         \* the calls of waitForActiveTasks, each made at most once
  MaxGeneration   \* bound on the resets of a lane

ASSUME CommandQueueAssumption ==
  /\ ProbeLane \subseteq Lane
  /\ IsFiniteSet(Entry)
  /\ LaneOf \in [Entry -> Lane]
  /\ Priority \in [Entry -> {-1, 0, 1}]
  /\ HasTimeout \in [Entry -> BOOLEAN]
  /\ Limit \subseteq Int
  /\ MaxGeneration \in Nat

VARIABLES
  queue,          \* [Lane -> sequence of entries], the next to start first
  active,         \* [Lane -> set of entries that own a slot]: activeTaskIds
  maxConcurrent,  \* [Lane -> number of slots]
  generation,     \* [Lane -> number of resets]
  nextSequence,   \* nextQueueSequence
  sequence,       \* [Entry -> its enqueue number, 0 before the call]
  phase,          \* [Entry -> where the call and its task stand]
  startedIn,      \* [Entry -> the generation captured when the task started]
  waiter          \* [Waiter -> captured set and outcome]

laneVars == <<queue, active, maxConcurrent, generation>>
entryVars == <<nextSequence, sequence, phase, startedIn>>
vars == <<laneVars, entryVars, waiter>>

(***************************************************************************)
(* The promise of a call is pending in "queued" and "active"; the body of  *)
(* its task is running in "active" and in "unwinding", when a timeout has  *)
(* already rejected the promise.                                           *)
(***************************************************************************)
Phase == {"new", "refused", "queued", "cleared", "active", "unwinding",
          "resolved", "rejected"}

Outcome == {"none", "pending", "drained", "timedOut"}

Larger(a, b) == IF a > b THEN a ELSE b

Busy(a) == UNION {a[l] : l \in Lane}

-----------------------------------------------------------------------------
(* Insertion and draining, as functions of a queue and a set of slots.     *)

(* findIndex in enqueueLaneEntry: x, just numbered, overtakes the queued y.*)
Overtakes(x, seqX, y) ==
  \/ Priority[y] < Priority[x]
  \/ Priority[y] = Priority[x] /\ sequence[y] > seqX

(* Fault: every entry goes to the end, whatever its priority.              *)
InsertAtEnd(q, x, seqX) == Len(q) + 1

(* The position the new entry takes: before the first one it overtakes.    *)
InsertPosition(q, x, seqX) ==
  CHOOSE n \in 1 .. Len(q) + 1 :
    /\ \A i \in 1 .. n - 1 : ~Overtakes(x, seqX, q[i])
    /\ n <= Len(q) => Overtakes(x, seqX, q[n])

Inserted(q, x, seqX) ==
  LET n == InsertPosition(q, x, seqX)
  IN [i \in 1 .. Len(q) + 1 |->
        IF i < n THEN q[i] ELSE IF i = n THEN x ELSE q[i - 1]]

(* Fault: the loop compares with <= and starts one entry too many.         *)
VacanciesOneMore(q, a, m) ==
  LET free == m - Cardinality(a) + 1
  IN IF free <= 0 THEN 0 ELSE IF free < Len(q) THEN free ELSE Len(q)

(* How many entries the loop in pump starts before its condition fails.    *)
Vacancies(q, a, m) ==
  LET free == m - Cardinality(a)
  IN IF free <= 0 THEN 0 ELSE IF free < Len(q) THEN free ELSE Len(q)

Started(q, a, m) == {q[i] : i \in 1 .. Vacancies(q, a, m)}

Rest(q, a, m) == SubSeq(q, Vacancies(q, a, m) + 1, Len(q))

(***************************************************************************)
(* Drain is drainLane on every lane of D after the caller has brought the  *)
(* lanes to queues q, slots a, limits m, generations g and the entries to  *)
(* phases ph: each started entry takes a slot and the current generation.  *)
(***************************************************************************)
Drain(D, q, a, m, g, ph) ==
  LET starts == UNION {Started(q[l], a[l], m[l]) : l \in D}
  IN /\ queue' = [l \in Lane |->
                    IF l \in D THEN Rest(q[l], a[l], m[l]) ELSE q[l]]
     /\ active' = [l \in Lane |->
                    IF l \in D THEN a[l] \cup Started(q[l], a[l], m[l])
                               ELSE a[l]]
     /\ maxConcurrent' = m
     /\ generation' = g
     /\ phase' = [e \in Entry |-> IF e \in starts THEN "active" ELSE ph[e]]
     /\ startedIn' = [e \in Entry |->
                        IF e \in starts THEN g[LaneOf[e]] ELSE startedIn[e]]

(* notifyActiveTaskWaiters, once the slots are a.                          *)
Notify(a) ==
  waiter' = [w \in Waiter |->
    IF waiter[w].outcome = "pending" /\ waiter[w].captured \cap Busy(a) = {}
    THEN [waiter[w] EXCEPT !.outcome = "drained"]
    ELSE waiter[w]]

-----------------------------------------------------------------------------
Init ==
  /\ queue = [l \in Lane |-> <<>>]
  /\ active = [l \in Lane |-> {}]
  /\ maxConcurrent = [l \in Lane |-> 1]
  /\ generation = [l \in Lane |-> 0]
  /\ nextSequence = 1
  /\ sequence = [e \in Entry |-> 0]
  /\ phase = [e \in Entry |-> "new"]
  /\ startedIn = [e \in Entry |-> 0]
  /\ waiter = [w \in Waiter |-> [captured |-> {}, outcome |-> "none"]]

(* enqueueCommandInLane while subordinate admission is open.               *)
Enqueue(e) ==
  LET l == LaneOf[e]
  IN /\ phase[e] = "new"
     /\ nextSequence' = nextSequence + 1
     /\ sequence' = [sequence EXCEPT ![e] = nextSequence]
     /\ Drain({l}, [queue EXCEPT ![l] = Inserted(@, e, nextSequence)], active,
              maxConcurrent, generation, [phase EXCEPT ![e] = "queued"])
     /\ UNCHANGED waiter

(* enqueueCommandInLane while admission is closed: GatewayDrainingError.   *)
Refuse(e) ==
  /\ phase[e] = "new"
  /\ phase' = [phase EXCEPT ![e] = "refused"]
  /\ UNCHANGED <<laneVars, nextSequence, sequence, startedIn, waiter>>

(* Fault: the slot is freed and nobody pumps the lane.                     *)
CompleteWithoutPump(e, next) ==
  LET l == LaneOf[e]
      a == [active EXCEPT ![l] = @ \ {e}]
  IN /\ phase[e] = "active"
     /\ phase' = [phase EXCEPT ![e] = next]
     /\ IF startedIn[e] = generation[l]
        THEN Notify(a) /\ active' = a
        ELSE UNCHANGED <<active, waiter>>
     /\ UNCHANGED <<queue, maxConcurrent, generation, startedIn, nextSequence,
                    sequence>>

(***************************************************************************)
(* The end of the section that awaits a task: completeTask frees the slot  *)
(* only for a task of the current generation, and only then are waiters    *)
(* notified and the lane pumped.                                           *)
(***************************************************************************)
Complete(e, next) ==
  LET l == LaneOf[e]
      a == [active EXCEPT ![l] = @ \ {e}]
      ph == [phase EXCEPT ![e] = next]
  IN /\ phase[e] = "active"
     /\ IF startedIn[e] = generation[l]
        THEN /\ Notify(a)
             /\ Drain({l}, queue, a, maxConcurrent, generation, ph)
        ELSE /\ phase' = ph
             /\ UNCHANGED <<laneVars, startedIn, waiter>>
     /\ UNCHANGED <<nextSequence, sequence>>

(* The task's promise fulfils, or rejects by itself.                       *)
TaskResolves(e) == Complete(e, "resolved")
TaskRejects(e) == Complete(e, "rejected")

(* A budget, idle, abort-grace or release timer fires first: the race is   *)
(* lost, the slot goes, and the body is left to unwind.                    *)
TaskTimesOut(e) ==
  /\ HasTimeout[e]
  /\ Complete(e, "unwinding")

(* The late end of a timed-out body is only logged.                        *)
Unwound(e) ==
  /\ phase[e] = "unwinding"
  /\ phase' = [phase EXCEPT ![e] = "rejected"]
  /\ UNCHANGED <<laneVars, nextSequence, sequence, startedIn, waiter>>

(* setCommandLaneConcurrency: a limit of 0 pauses every lane but a probe.  *)
SetConcurrency(l, n) ==
  LET m == [maxConcurrent EXCEPT
              ![l] = Larger(IF l \in ProbeLane THEN 1 ELSE 0, n)]
  IN /\ IF m[l] > 0
        THEN Drain({l}, queue, active, m, generation, phase)
        ELSE /\ maxConcurrent' = m
             /\ UNCHANGED <<queue, active, generation, phase, startedIn>>
     /\ UNCHANGED <<nextSequence, sequence, waiter>>

(* clearCommandLane rejects what is queued and leaves the slots alone.     *)
ClearLane(l) ==
  /\ queue[l] # <<>>
  /\ queue' = [queue EXCEPT ![l] = <<>>]
  /\ phase' = [e \in Entry |->
       IF \E i \in 1 .. Len(queue[l]) : queue[l][i] = e
       THEN "cleared" ELSE phase[e]]
  /\ UNCHANGED <<active, maxConcurrent, generation, nextSequence, sequence,
                 startedIn, waiter>>

(* Faults: the generation stays, so that late completions of the old tasks *)
(* count; or the waiters are not told.                                     *)
ResetSameGeneration(D) ==
  LET a == [l \in Lane |-> IF l \in D THEN {} ELSE active[l]]
  IN /\ \A l \in D : generation[l] < MaxGeneration
     /\ Drain(D, queue, a, maxConcurrent, generation, phase)
     /\ Notify(active')
     /\ UNCHANGED <<nextSequence, sequence>>

ResetUntold(D) ==
  LET a == [l \in Lane |-> IF l \in D THEN {} ELSE active[l]]
      g == [l \in Lane |-> IF l \in D THEN generation[l] + 1 ELSE generation[l]]
  IN /\ \A l \in D : generation[l] < MaxGeneration
     /\ Drain(D, queue, a, maxConcurrent, g, phase)
     /\ UNCHANGED <<nextSequence, sequence, waiter>>

(* The part resetCommandLane and resetAllLanes share: forget the slots of  *)
(* the lanes D, move them to a new generation, pump what stayed queued,    *)
(* and tell the waiters.                                                   *)
Reset(D) ==
  LET a == [l \in Lane |-> IF l \in D THEN {} ELSE active[l]]
      g == [l \in Lane |-> IF l \in D THEN generation[l] + 1 ELSE generation[l]]
  IN /\ \A l \in D : generation[l] < MaxGeneration
     /\ Drain(D, queue, a, maxConcurrent, g, phase)
     /\ Notify(active')
     /\ UNCHANGED <<nextSequence, sequence>>

ResetLane(l) == Reset({l})
ResetAllLanes == Reset(Lane)

(* waitForActiveTasks: captures the tasks active now.  With a timeout of 0 *)
(* it only reports; otherwise it waits for a notification.                 *)
WaitForActiveTasks(w, zeroTimeout) ==
  /\ waiter[w].outcome = "none"
  /\ waiter' = [waiter EXCEPT ![w] =
       [captured |-> Busy(active),
        outcome |-> IF Busy(active) = {} THEN "drained"
                    ELSE IF zeroTimeout THEN "timedOut" ELSE "pending"]]
  /\ UNCHANGED <<laneVars, entryVars>>

WaiterTimesOut(w) ==
  /\ waiter[w].outcome = "pending"
  /\ waiter' = [waiter EXCEPT ![w].outcome = "timedOut"]
  /\ UNCHANGED <<laneVars, entryVars>>

Next ==
  \/ \E e \in Entry : \/ Enqueue(e) \/ Refuse(e)
                      \/ TaskResolves(e) \/ TaskRejects(e)
                      \/ TaskTimesOut(e) \/ Unwound(e)
  \/ \E l \in Lane : \/ ClearLane(l) \/ ResetLane(l)
                     \/ \E n \in Limit : SetConcurrency(l, n)
  \/ ResetAllLanes
  \/ \E w \in Waiter : \/ \E zero \in BOOLEAN : WaitForActiveTasks(w, zero)
                       \/ WaiterTimesOut(w)

Spec == Init /\ [][Next]_vars

(***************************************************************************)
(* Only the queue's own timers are fair: a body may hang forever, but the  *)
(* timer of a task that has one fires.                                     *)
(***************************************************************************)
TimerFairness == \A e \in Entry : WF_vars(TaskTimesOut(e))

LiveSpec == Spec /\ TimerFairness
-----------------------------------------------------------------------------
(* Properties.                                                             *)

(* The types of the state: a limit is never negative, whatever number is   *)
(* given to setCommandLaneConcurrency.                                     *)
TypeOK ==
  /\ queue \in [Lane -> Seq(Entry)]
  /\ active \in [Lane -> SUBSET Entry]
  /\ maxConcurrent \in [Lane -> Nat]
  /\ generation \in [Lane -> Nat]
  /\ nextSequence \in Nat \ {0}
  /\ sequence \in [Entry -> Nat]
  /\ phase \in [Entry -> Phase]
  /\ startedIn \in [Entry -> Nat]
  /\ waiter \in [Waiter -> [captured : SUBSET Entry, outcome : Outcome]]

(* isCommandLaneTaskMarkerCurrent for the marker given to e's task.        *)
MarkerCurrent(e) ==
  /\ startedIn[e] = generation[LaneOf[e]]
  /\ e \in active[LaneOf[e]]

(* A task's marker is current exactly while its promise is pending and no  *)
(* reset came since it started, and nothing else holds a slot: neither a   *)
(* timeout nor a late completion of an older generation leaks one, in      *)
(* completeTask and the two resets.                                        *)
SlotAccounting ==
  /\ \A e \in Entry :
       MarkerCurrent(e) <=> /\ phase[e] = "active"
                            /\ startedIn[e] = generation[LaneOf[e]]
  /\ \A l \in Lane : \A e \in active[l] : LaneOf[e] = l /\ MarkerCurrent(e)

(* A call whose promise waits to start is in its lane's queue, once, and   *)
(* nothing else is in a queue: insertion, shift, clear and reset neither   *)
(* drop an entry nor queue it twice.                                       *)
QueueAccounting ==
  /\ \A l \in Lane : \A i, j \in 1 .. Len(queue[l]) :
       queue[l][i] = queue[l][j] => i = j
  /\ \A e \in Entry : \A l \in Lane :
       (phase[e] = "queued" /\ LaneOf[e] = l)
         <=> \E i \in 1 .. Len(queue[l]) : queue[l][i] = e

(* x is due before y: higher priority, or the same and submitted earlier.  *)
Precedes(x, y) ==
  \/ Priority[x] > Priority[y]
  \/ Priority[x] = Priority[y] /\ sequence[x] < sequence[y]

(* The queue of a lane is in the order its entries are due, although       *)
(* enqueueLaneEntry only looks for the first entry to overtake.            *)
QueueOrder ==
  \A l \in Lane : \A i, j \in 1 .. Len(queue[l]) :
    i < j => Precedes(queue[l][i], queue[l][j])

(* No lost wake-up: between two callbacks no lane has both a free slot and *)
(* queued work, on whatever path the slot became free (completion, error,  *)
(* timeout, reset, a raised limit).                                        *)
NoIdleSlot ==
  \A l \in Lane :
    queue[l] # <<>> => Cardinality(active[l]) >= maxConcurrent[l]

(* A pending waitForActiveTasks still has a captured task to wait for: the *)
(* notification that would resolve it has not been missed.                 *)
WaiterHasWork ==
  \A w \in Waiter :
    waiter[w].outcome = "pending" => waiter[w].captured \cap Busy(active) # {}

(* drained: true is only ever reported for tasks that hold no slot, and    *)
(* they never hold one again.                                              *)
DrainedIsFinal ==
  \A w \in Waiter :
    waiter[w].outcome = "drained" => waiter[w].captured \cap Busy(active) = {}

(* Helpers of the induction: a queued entry has an enqueue number below    *)
(* the next one, no task runs in a generation yet to come, and a captured  *)
(* task has already started.                                               *)
EntryNumbers == \A e \in Entry : phase[e] = "queued" => sequence[e] < nextSequence

GenerationsPast == \A e \in Entry : startedIn[e] <= generation[LaneOf[e]]

Begun == {"active", "unwinding", "resolved", "rejected"}

CapturedBegun ==
  \A w \in Waiter : \A e \in waiter[w].captured : phase[e] \in Begun

(* The inductive invariant.                                                *)
IInv ==
  /\ TypeOK
  /\ SlotAccounting /\ QueueAccounting /\ QueueOrder /\ NoIdleSlot
  /\ WaiterHasWork /\ DrainedIsFinal
  /\ EntryNumbers /\ GenerationsPast /\ CapturedBegun

(* Whoever starts, the lane is then within its limit; a lane above its     *)
(* limit, after setCommandLaneConcurrency lowered it, only drains.         *)
StartsWithinLimit ==
  [][\A l \in Lane :
       ~(active'[l] \subseteq active[l])
         => Cardinality(active'[l]) <= maxConcurrent'[l]]_vars

(* A task starts only when nothing left in its lane's queue was due before *)
(* it: foreground first, first in first out within a priority.             *)
StartsInOrder ==
  [][\A e, f \in Entry :
       /\ phase[e] \in {"new", "queued"} /\ phase'[e] = "active"
       /\ phase'[f] = "queued"
       /\ LaneOf[e] = LaneOf[f]
       => Precedes(e, f)']_vars

(* A call queued in a lane that is not paused leaves the queue although no *)
(* body ever ends by itself, when every call carries a timeout: the lane   *)
(* is released `so queued work is not blocked forever'.  A probe lane is   *)
(* never paused, whatever limit it is given.                               *)
QueuedCallLeaves ==
  \A e \in Entry :
    phase[e] = "queued"
      ~> \/ phase[e] # "queued"
         \/ LaneOf[e] \notin ProbeLane /\ maxConcurrent[LaneOf[e]] = 0

=============================================================================
