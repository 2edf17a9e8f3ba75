---------------------------- MODULE WorkAdmission ----------------------------
(***************************************************************************)
(* Process-wide admission of root work                                     *)
(* (src/src/process/gateway-work-admission.ts).  Requests and timer ticks  *)
(* enter as roots; a root is a reference-counted record that the async     *)
(* chain it started inherits (AsyncLocalStorage).  Three fences close      *)
(* admission: a host suspension and a restart signal, which are            *)
(* reversible, and the restart drain, which only the in-process restart    *)
(* lifts.  Some callers are refused by a fence, some wait behind it.       *)
(*                                                                         *)
(* A root is named by the chain whose call created it.  Awaiting callers   *)
(* are resumed one by one after the section that woke them, so waking a    *)
(* caller and its next look at the fences are two steps.                   *)
(***************************************************************************)
EXTENDS Integers, FiniteSets

CONSTANTS
  Chain,       \* the async chains that ask for admission, each of them once
  NoRoot,      \* getStore() is undefined
  Suspension,  \* the leases of tryBeginGatewaySuspendAdmission
  NoLease,     \* suspendInvalidated is undefined
  Signal,      \* the leases of beginGatewayRestartSignalAdmission
  Waiter,      \* the calls of waitForActiveGatewayRootWork
  MaxReset     \* bound on the in-process restarts

ASSUME WorkAdmissionAssumption ==
  /\ IsFiniteSet(Chain)
  /\ NoRoot \notin Chain
  /\ NoLease \notin Suspension
  /\ MaxReset \in Nat

VARIABLES
  restartDraining,          \* the one-way fence
  restartSignalPending,     \* the fence between a signal and its drain
  restartSignalGeneration,
  suspendPhase,             \* "accepting", "preparing" or "prepared"
  suspendGeneration,
  suspendInvalidated,       \* the lease whose callback is registered
  activeRootWork,           \* the set of root records
  references,               \* [Chain -> its record's count]
  released,                 \* [Chain -> its record's flag]
  state,                    \* [Chain -> where its call stands]
  how,                      \* [Chain -> the entry point it called]
  parent,                   \* [Chain -> the root it inherited]
  handle,                   \* [Chain -> the root its release function is for]
  leaseReleased,            \* [Chain -> its release function has run]
  suspension,               \* [Suspension -> what its holder knows of it]
  suspensionGeneration,     \* [Suspension -> the generation it captured]
  signal,                   \* [Signal -> what its holder knows of it]
  signalGeneration,         \* [Signal -> the generation it captured]
  drainWaiter,              \* [Waiter -> where its call stands]
  resets                    \* number of resetGatewayWorkAdmission so far

fenceVars == <<restartDraining, restartSignalPending, restartSignalGeneration,
               suspendPhase, suspendGeneration, suspendInvalidated>>
rootVars == <<activeRootWork, references, released, handle, leaseReleased>>
callVars == <<state, how, parent>>
leaseVars == <<suspension, suspensionGeneration, signal, signalGeneration>>
vars == <<fenceVars, rootVars, callVars, leaseVars, drainWaiter, resets>>

EntryPoint == {"none", "try", "whenOpen", "independent", "continuation", "retain"}

-----------------------------------------------------------------------------
(* Fault: a suspension does not close admission.                           *)
ClosedBySignalOnly == restartDraining \/ restartSignalPending

(* isGatewayWorkAdmissionClosed.                                           *)
Closed == restartDraining \/ restartSignalPending \/ suspendPhase # "accepting"

(* The roots a chain may have inherited: any that was ever created.  It    *)
(* counts only while its record is not released.                           *)
Created == {r \in Chain : handle[r] = r}

(* Fault: an ended root still admits its late children.                    *)
LiveAfterRelease(r) == r \in Created

Live(r) == r \in Created /\ ~released[r]

(* resolveSuspendOpenWaiters and resolveRootDrainWaiters.                  *)
Woken(s) == [c \in Chain |-> IF s[c] = "waiting" THEN "woken" ELSE s[c]]

Resolved(d) == [w \in Waiter |-> IF d[w] = "pending" THEN "resolved" ELSE d[w]]

Init ==
  /\ restartDraining = FALSE
  /\ restartSignalPending = FALSE
  /\ restartSignalGeneration = 0
  /\ suspendPhase = "accepting"
  /\ suspendGeneration = 0
  /\ suspendInvalidated = NoLease
  /\ activeRootWork = {}
  /\ references = [c \in Chain |-> 0]
  /\ released = [c \in Chain |-> FALSE]
  /\ state = [c \in Chain |-> "new"]
  /\ how = [c \in Chain |-> "none"]
  /\ parent = [c \in Chain |-> NoRoot]
  /\ handle = [c \in Chain |-> NoRoot]
  /\ leaseReleased = [c \in Chain |-> FALSE]
  /\ suspension = [u \in Suspension |-> "new"]
  /\ suspensionGeneration = [u \in Suspension |-> 0]
  /\ signal = [s \in Signal |-> "new"]
  /\ signalGeneration = [s \in Signal |-> 0]
  /\ drainWaiter = [w \in Waiter |-> "new"]
  /\ resets = 0

-----------------------------------------------------------------------------
(* Entry points of work.                                                   *)

(* createGatewayRootWorkAdmission.                                         *)
CreateRoot(c) ==
  /\ activeRootWork' = activeRootWork \cup {c}
  /\ references' = [references EXCEPT ![c] = 1]
  /\ handle' = [handle EXCEPT ![c] = c]
  /\ state' = [state EXCEPT ![c] = "running"]
  /\ UNCHANGED <<released, leaseReleased>>

(* A call that returns or throws without a lease of its own.               *)
Return(c, s) ==
  /\ state' = [state EXCEPT ![c] = s]
  /\ UNCHANGED rootVars

(* tryBeginGatewayRootWorkAdmission: nested in a live root, or refused by  *)
(* a fence, or a new root.                                                 *)
Try(c, p, refusal) ==
  \/ Live(p) /\ Return(c, "nested")
  \/ ~Live(p) /\ Closed /\ Return(c, refusal)
  \/ ~Live(p) /\ ~Closed /\ CreateRoot(c)

(* One turn of the loop of beginGatewayRootWorkAdmissionWhenOpen.          *)
WhenOpen(c, p) ==
  \/ restartDraining /\ Return(c, "refused")
  \/ ~restartDraining /\ Try(c, p, "waiting")

(* Fault: the fence of a suspension is not looked at.                      *)
IndependentPastSuspension(c) ==
  \/ restartDraining /\ Return(c, "refused")
  \/ ~restartDraining /\ restartSignalPending /\ Return(c, "waiting")
  \/ ~restartDraining /\ ~restartSignalPending /\ CreateRoot(c)

(* One turn of runWithGatewayIndependentRootWorkAdmission.                 *)
Independent(c) ==
  \/ restartDraining /\ Return(c, "refused")
  \/ ~restartDraining /\ Closed /\ Return(c, "waiting")
  \/ ~restartDraining /\ ~Closed /\ CreateRoot(c)

Call(c, k, p) ==
  /\ state[c] = "new"
  /\ p \in Created \cup {NoRoot}
  /\ how' = [how EXCEPT ![c] = k]
  /\ parent' = [parent EXCEPT ![c] = p]
  /\ UNCHANGED <<fenceVars, leaseVars, drainWaiter, resets>>

BeginRoot(c, p) == Call(c, "try", p) /\ Try(c, p, "refused")

BeginRootWhenOpen(c, p) == Call(c, "whenOpen", p) /\ WhenOpen(c, p)

RunIndependent(c, p) == Call(c, "independent", p) /\ Independent(c)

(* runWithGatewayIndependentRootWorkContinuation: a live parent reserves a *)
(* root whatever the fences say.                                           *)
RunContinuation(c, p) ==
  \/ Live(p) /\ Call(c, "continuation", p) /\ CreateRoot(c)
  \/ ~Live(p) /\ Call(c, "independent", p) /\ Independent(c)

(* retainGatewayRootWorkAdmissionContinuation: c shares its parent's root. *)
Retain(c, p) ==
  /\ Call(c, "retain", p)
  /\ IF Live(p)
     THEN /\ references' = [references EXCEPT ![p] = @ + 1]
          /\ handle' = [handle EXCEPT ![c] = p]
          /\ state' = [state EXCEPT ![c] = "sharing"]
          /\ UNCHANGED <<activeRootWork, released, leaseReleased>>
     ELSE Return(c, "refused")

(* A caller woken behind a fence looks at the fences again.                *)
Recheck(c) ==
  /\ state[c] = "woken"
  /\ \/ how[c] = "whenOpen" /\ WhenOpen(c, parent[c])
     \/ how[c] = "independent" /\ Independent(c)
  /\ UNCHANGED <<fenceVars, how, parent, leaseVars, drainWaiter, resets>>

(* Faults: a release function counts each time it is called; or the last   *)
(* release does not resolve the drain waiters.                             *)
ReleaseTwice(c) ==
  LET r == handle[c]
      last == references[r] = 1
  IN /\ state[c] \in {"running", "sharing", "over"}
     /\ leaseReleased' = [leaseReleased EXCEPT ![c] = TRUE]
     /\ references' = [references EXCEPT ![r] = @ - 1]
     /\ released' = [released EXCEPT ![r] = @ \/ last]
     /\ activeRootWork' = IF last THEN activeRootWork \ {r} ELSE activeRootWork
     /\ drainWaiter' = IF last /\ activeRootWork = {r}
                       THEN Resolved(drainWaiter) ELSE drainWaiter
     /\ state' = [state EXCEPT ![c] = "over"]
     /\ UNCHANGED <<fenceVars, handle, how, parent, leaseVars, resets>>

ReleaseSilently(c) ==
  LET r == handle[c]
      last == references[r] = 1
      counts == ~(leaseReleased[c] \/ released[r])
  IN /\ state[c] \in {"running", "sharing", "over"}
     /\ leaseReleased' = [leaseReleased EXCEPT ![c] = @ \/ counts]
     /\ references' = [references EXCEPT ![r] = IF counts THEN @ - 1 ELSE @]
     /\ released' = [released EXCEPT ![r] = @ \/ (counts /\ last)]
     /\ activeRootWork' =
          IF counts /\ last THEN activeRootWork \ {r} ELSE activeRootWork
     /\ state' = [state EXCEPT ![c] = "over"]
     /\ UNCHANGED <<fenceVars, handle, how, parent, leaseVars, drainWaiter,
                    resets>>

(***************************************************************************)
(* The release function of a lease.  It may be called again, and it may    *)
(* run after a reset retired its record: neither call has an effect.       *)
(***************************************************************************)
Release(c) ==
  LET r == handle[c]
      last == references[r] = 1
  IN /\ state[c] \in {"running", "sharing", "over"}
     /\ IF leaseReleased[c] \/ released[r]
        THEN UNCHANGED <<activeRootWork, references, released, leaseReleased,
                         drainWaiter>>
        ELSE /\ leaseReleased' = [leaseReleased EXCEPT ![c] = TRUE]
             /\ references' = [references EXCEPT ![r] = @ - 1]
             /\ released' = [released EXCEPT ![r] = last]
             /\ activeRootWork' = IF last THEN activeRootWork \ {r}
                                          ELSE activeRootWork
             /\ drainWaiter' = IF last /\ activeRootWork = {r}
                               THEN Resolved(drainWaiter) ELSE drainWaiter
     /\ state' = [state EXCEPT ![c] = "over"]
     /\ UNCHANGED <<fenceVars, handle, how, parent, leaseVars, resets>>

-----------------------------------------------------------------------------
(* waitForActiveGatewayRootWork.                                           *)

WaitForRoots(w, zeroTimeout) ==
  /\ drainWaiter[w] = "new"
  /\ drainWaiter' = [drainWaiter EXCEPT ![w] =
       IF activeRootWork = {} THEN "drained"
       ELSE IF zeroTimeout THEN "active" ELSE "pending"]
  /\ UNCHANGED <<fenceVars, rootVars, callVars, leaseVars, resets>>

(* The timer resolves the same promise as a notification.                  *)
WaiterTimesOut(w) ==
  /\ drainWaiter[w] = "pending"
  /\ drainWaiter' = [drainWaiter EXCEPT ![w] = "resolved"]
  /\ UNCHANGED <<fenceVars, rootVars, callVars, leaseVars, resets>>

(* After the await, the answer is read off the roots of that moment.       *)
WaiterReports(w) ==
  /\ drainWaiter[w] = "resolved"
  /\ drainWaiter' = [drainWaiter EXCEPT ![w] =
       IF activeRootWork = {} THEN "drained" ELSE "active"]
  /\ UNCHANGED <<fenceVars, rootVars, callVars, leaseVars, resets>>

-----------------------------------------------------------------------------
(* Suspension leases.                                                      *)

BeginSuspend(u) ==
  /\ suspension[u] = "new"
  /\ IF Closed
     THEN /\ suspension' = [suspension EXCEPT ![u] = "refused"]
          /\ UNCHANGED <<suspendPhase, suspendGeneration, suspendInvalidated,
                         suspensionGeneration>>
     ELSE /\ suspendPhase' = "preparing"
          /\ suspendGeneration' = suspendGeneration + 1
          /\ suspendInvalidated' = u
          /\ suspension' = [suspension EXCEPT ![u] = "preparing"]
          /\ suspensionGeneration' =
               [suspensionGeneration EXCEPT ![u] = suspendGeneration + 1]
  /\ UNCHANGED <<restartDraining, restartSignalPending, restartSignalGeneration,
                 rootVars, callVars, signal, signalGeneration, drainWaiter,
                 resets>>

(* Fault: reopening does not wake the callers behind the fence.            *)
TransitionSilently(u, expected, next) ==
  /\ IF suspensionGeneration[u] = suspendGeneration /\ suspendPhase = expected
     THEN /\ suspendPhase' = next
          /\ suspension' = [suspension EXCEPT ![u] =
                              IF next = "accepting" THEN "ended" ELSE next]
          /\ suspendInvalidated' =
               IF next = "accepting" THEN NoLease ELSE suspendInvalidated
     ELSE UNCHANGED <<suspendPhase, suspension, suspendInvalidated>>
  /\ UNCHANGED <<restartDraining, restartSignalPending, restartSignalGeneration,
                 suspendGeneration, rootVars, callVars, suspensionGeneration,
                 signal, signalGeneration, drainWaiter, resets>>

(* The transition function of lease u; a lease whose generation is past,   *)
(* or whose phase is not the expected one, has no effect.                  *)
Transition(u, expected, next) ==
  /\ IF suspensionGeneration[u] = suspendGeneration /\ suspendPhase = expected
     THEN /\ suspendPhase' = next
          /\ suspension' = [suspension EXCEPT ![u] =
                              IF next = "accepting" THEN "ended" ELSE next]
          /\ suspendInvalidated' =
               IF next = "accepting" THEN NoLease ELSE suspendInvalidated
          /\ state' = IF next = "accepting" THEN Woken(state) ELSE state
     ELSE UNCHANGED <<suspendPhase, suspension, suspendInvalidated, state>>
  /\ UNCHANGED <<restartDraining, restartSignalPending, restartSignalGeneration,
                 suspendGeneration, rootVars, how, parent, suspensionGeneration,
                 signal, signalGeneration, drainWaiter, resets>>

(* Holders use a lease at any time, also after it ended or was taken away. *)
Acquired(u) == suspension[u] \notin {"new", "refused"}

CommitSuspend(u) == Acquired(u) /\ Transition(u, "preparing", "prepared")
RollbackSuspend(u) == Acquired(u) /\ Transition(u, "preparing", "accepting")
ReleaseSuspend(u) == Acquired(u) /\ Transition(u, "prepared", "accepting")

(* Fault: the holder of the lease is not called back.                      *)
InvalidateSilently ==
  /\ suspendPhase' = "accepting"
  /\ suspendGeneration' = suspendGeneration + 1
  /\ suspendInvalidated' = NoLease
  /\ UNCHANGED suspension

(* invalidateSuspendAdmission, for a phase that is not "accepting": the    *)
(* lease is taken away and its holder called back.                         *)
Invalidate ==
  /\ suspendPhase' = "accepting"
  /\ suspendGeneration' = suspendGeneration + 1
  /\ suspendInvalidated' = NoLease
  /\ suspension' = [u \in Suspension |->
       IF u = suspendInvalidated THEN "invalidated" ELSE suspension[u]]

-----------------------------------------------------------------------------
(* The restart-signal fence and the restart drain.                         *)

BeginSignal(s) ==
  /\ signal[s] = "new"
  /\ IF restartDraining \/ restartSignalPending
     THEN /\ signal' = [signal EXCEPT ![s] = "refused"]
          /\ UNCHANGED <<restartSignalPending, restartSignalGeneration,
                         signalGeneration>>
     ELSE /\ restartSignalPending' = TRUE
          /\ restartSignalGeneration' = restartSignalGeneration + 1
          /\ signalGeneration' =
               [signalGeneration EXCEPT ![s] = restartSignalGeneration + 1]
          /\ signal' = [signal EXCEPT ![s] = "held"]
  /\ UNCHANGED <<restartDraining, suspendPhase, suspendGeneration,
                 suspendInvalidated, rootVars, callVars, suspension,
                 suspensionGeneration, drainWaiter, resets>>

(* Fault: the callers behind the fence are not woken.                      *)
ClearFenceSilently ==
  /\ restartSignalPending' = FALSE
  /\ restartSignalGeneration' = restartSignalGeneration + 1
  /\ UNCHANGED <<restartDraining, suspendPhase, suspendGeneration,
                 suspendInvalidated, rootVars, callVars, suspension,
                 suspensionGeneration, signalGeneration, drainWaiter, resets>>

(* clearRestartSignalFence, when there is a fence to clear.                *)
ClearFence ==
  /\ restartSignalPending' = FALSE
  /\ restartSignalGeneration' = restartSignalGeneration + 1
  /\ state' = Woken(state)
  /\ UNCHANGED <<restartDraining, suspendPhase, suspendGeneration,
                 suspendInvalidated, rootVars, how, parent, suspension,
                 suspensionGeneration, signalGeneration, drainWaiter, resets>>

(* The rollback function of lease s, which may have lost its fence.        *)
RollbackSignal(s) ==
  /\ signal[s] = "held"
  /\ signal' = [signal EXCEPT ![s] = "ended"]
  /\ IF restartSignalPending /\ signalGeneration[s] = restartSignalGeneration
     THEN ClearFence
     ELSE UNCHANGED <<fenceVars, rootVars, callVars, suspension,
                      suspensionGeneration, signalGeneration, drainWaiter,
                      resets>>

(* rollbackGatewayRestartSignalFence, for a fence whose lease was lost.    *)
ForceRollbackSignal ==
  /\ restartSignalPending
  /\ ClearFence
  /\ UNCHANGED signal

(* Fault: the drain leaves the fence of the signal in place.               *)
MarkRestartDrainingKeepsSignal ==
  /\ ~restartDraining
  /\ restartDraining' = TRUE
  /\ state' = Woken(state)
  /\ IF suspendPhase # "accepting"
     THEN Invalidate
     ELSE UNCHANGED <<suspendPhase, suspendGeneration, suspendInvalidated,
                      suspension>>
  /\ UNCHANGED <<restartSignalPending, restartSignalGeneration, rootVars, how,
                 parent, suspensionGeneration, signal, signalGeneration,
                 drainWaiter, resets>>

(* markGatewayRestartDraining.                                             *)
MarkRestartDraining ==
  /\ ~restartDraining
  /\ restartDraining' = TRUE
  /\ restartSignalPending' = FALSE
  /\ restartSignalGeneration' = restartSignalGeneration + 1
  /\ state' = Woken(state)
  /\ IF suspendPhase # "accepting"
     THEN Invalidate
     ELSE UNCHANGED <<suspendPhase, suspendGeneration, suspendInvalidated,
                      suspension>>
  /\ UNCHANGED <<rootVars, how, parent, suspensionGeneration, signal,
                 signalGeneration, drainWaiter, resets>>

(* resetGatewayWorkAdmission, called by resetAllLanes.                     *)
Reset ==
  /\ resets < MaxReset
  /\ resets' = resets + 1
  /\ references' = [c \in Chain |-> IF c \in activeRootWork THEN 0 ELSE references[c]]
  /\ released' = [c \in Chain |-> c \in activeRootWork \/ released[c]]
  /\ activeRootWork' = {}
  /\ drainWaiter' = Resolved(drainWaiter)
  /\ restartDraining' = FALSE
  /\ restartSignalPending' = FALSE
  /\ restartSignalGeneration' = restartSignalGeneration + 1
  /\ IF suspendPhase # "accepting"
     THEN Invalidate
     ELSE /\ suspendGeneration' = suspendGeneration + 1
          /\ suspendInvalidated' = NoLease
          /\ UNCHANGED <<suspendPhase, suspension>>
  /\ state' = Woken(state)
  /\ UNCHANGED <<handle, leaseReleased, how, parent, suspensionGeneration,
                 signal, signalGeneration>>

-----------------------------------------------------------------------------
Work ==
  \/ \E c \in Chain : \/ \E p \in Chain \cup {NoRoot} :
                           \/ BeginRoot(c, p) \/ BeginRootWhenOpen(c, p)
                           \/ RunIndependent(c, p) \/ RunContinuation(c, p)
                           \/ Retain(c, p)
                      \/ Recheck(c) \/ Release(c)
  \/ \E w \in Waiter : \/ \E zero \in BOOLEAN : WaitForRoots(w, zero)
                       \/ WaiterTimesOut(w) \/ WaiterReports(w)

Restart ==
  \/ \E s \in Signal : BeginSignal(s) \/ RollbackSignal(s)
  \/ ForceRollbackSignal
  \/ MarkRestartDraining
  \/ Reset

Suspend ==
  \E u \in Suspension : \/ BeginSuspend(u) \/ CommitSuspend(u)
                        \/ RollbackSuspend(u) \/ ReleaseSuspend(u)

Next == Work \/ Restart \/ Suspend

Spec == Init /\ [][Next]_vars
-----------------------------------------------------------------------------
(* Properties.                                                             *)

(* The types of the state.                                                 *)
TypeOK ==
  /\ restartDraining \in BOOLEAN
  /\ restartSignalPending \in BOOLEAN
  /\ restartSignalGeneration \in Nat
  /\ suspendPhase \in {"accepting", "preparing", "prepared"}
  /\ suspendGeneration \in Nat
  /\ suspendInvalidated \in Suspension \cup {NoLease}
  /\ activeRootWork \in SUBSET Chain
  /\ references \in [Chain -> Nat]
  /\ released \in [Chain -> BOOLEAN]
  /\ state \in [Chain -> {"new", "waiting", "woken", "running", "nested",
                          "sharing", "refused", "over"}]
  /\ how \in [Chain -> EntryPoint]
  /\ parent \in [Chain -> Chain \cup {NoRoot}]
  /\ handle \in [Chain -> Chain \cup {NoRoot}]
  /\ leaseReleased \in [Chain -> BOOLEAN]
  /\ suspension \in [Suspension -> {"new", "refused", "preparing", "prepared",
                                    "ended", "invalidated"}]
  /\ suspensionGeneration \in [Suspension -> Nat]
  /\ signal \in [Signal -> {"new", "refused", "held", "ended"}]
  /\ signalGeneration \in [Signal -> Nat]
  /\ drainWaiter \in [Waiter -> {"new", "pending", "resolved", "drained", "active"}]
  /\ resets \in Nat

(* The chains whose release function still counts for root r.              *)
Holders(r) == {c \in Chain : handle[c] = r /\ ~leaseReleased[c]}

(* A root is active exactly while someone who may still release it has not *)
(* done so, and its count is their number: neither a second call of a      *)
(* release function nor one that survives a reset (createGatewayRootWork-  *)
(* Release) ends the root of somebody else.                                *)
ReferencesExact ==
  /\ activeRootWork = {r \in Created : ~released[r]}
  /\ \A r \in activeRootWork :
       /\ references[r] = Cardinality(Holders(r))
       /\ Holders(r) # {}

(* A caller waits in suspendOpenWaiters only behind a fence that is closed *)
(* and reversible: every path that opens admission or makes it final       *)
(* (rollback, release, invalidation, drain, reset) has woken it.           *)
OpenWaiterNotStranded ==
  \A c \in Chain :
    state[c] = "waiting" => Closed /\ ~restartDraining

(* A pending waitForActiveGatewayRootWork has a root to wait for.          *)
DrainWaiterHasWork ==
  \A w \in Waiter : drainWaiter[w] = "pending" => activeRootWork # {}

(* What the holder of a suspension lease knows, from the results of its    *)
(* calls and from its callback, is what holds: a lease superseded by a     *)
(* restart or a reset is inert, and a closed phase always has a holder.    *)
LeaseHolderAgrees ==
  /\ \A u \in Suspension :
       suspension[u] \in {"preparing", "prepared"} =>
         /\ suspendPhase = suspension[u]
         /\ suspendGeneration = suspensionGeneration[u]
         /\ suspendInvalidated = u
  /\ suspendPhase # "accepting" =>
       /\ suspendInvalidated \in Suspension
       /\ suspension[suspendInvalidated] = suspendPhase

(* A pending restart-signal fence has exactly one lease that can roll it   *)
(* back, whatever leases earlier fences left behind, and none reaches a    *)
(* restart drain.                                                          *)
FenceHasOwner ==
  /\ restartSignalPending =>
       /\ ~restartDraining
       /\ \E s \in Signal :
            /\ signal[s] = "held"
            /\ signalGeneration[s] = restartSignalGeneration
  /\ \A s, t \in Signal :
       /\ signal[s] = "held" /\ signalGeneration[s] = restartSignalGeneration
       /\ signal[t] = "held" /\ signalGeneration[t] = restartSignalGeneration
       => s = t

(* Helpers of the induction.  A chain has a release function once it has   *)
(* a root of its own or shares one, and the root was created by a chain.   *)
HandlesSound ==
  \A c \in Chain :
    /\ handle[c] = NoRoot <=> state[c] \notin {"running", "sharing", "over"}
    /\ handle[c] # NoRoot => handle[c] \in Created
    /\ leaseReleased[c] => handle[c] # NoRoot
    /\ released[c] => c \in Created

(* No lease has captured a generation still to come, and the generation    *)
(* of a closed phase only the lease that closed it.                        *)
LeaseGenerations ==
  /\ \A u \in Suspension : suspensionGeneration[u] <= suspendGeneration
  /\ suspendPhase # "accepting" =>
       \A u \in Suspension :
         Acquired(u) /\ suspensionGeneration[u] = suspendGeneration
           => u = suspendInvalidated

SignalGenerations ==
  \A s \in Signal : signalGeneration[s] <= restartSignalGeneration

(* The inductive invariant, by the state it speaks of.                     *)
RootsInv == HandlesSound /\ ReferencesExact

FencesInv == /\ LeaseGenerations /\ LeaseHolderAgrees
             /\ SignalGenerations /\ FenceHasOwner

AdmissionInv == /\ TypeOK /\ RootsInv /\ FencesInv
                /\ OpenWaiterNotStranded /\ DrainWaiterHasWork

(* Once the restart drain has seen the last root end, no root appears      *)
(* until the reset: late children and continuations of ended roots do not  *)
(* enter.                                                                  *)
DrainIsFinal ==
  [][restartDraining /\ activeRootWork = {} /\ resets' = resets
       => activeRootWork' = {}]_vars

(* Behind any fence the roots only grow by work that a live root hands on. *)
ClosedAdmitsOnlyDescendants ==
  [][Closed => \A c \in activeRootWork' \ activeRootWork :
       parent'[c] \in activeRootWork]_vars
=============================================================================
