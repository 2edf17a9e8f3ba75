------------------------- MODULE SuspendCoordinator -------------------------
(***************************************************************************)
(* Host suspension of the gateway (src/src/infra/gateway-suspend-          *)
(* coordinator.ts) over process-wide admission (WorkAdmission).            *)
(*                                                                         *)
(* A host asks to prepare a suspension.  The coordinator closes admission, *)
(* pauses the cron scheduler and looks for active work in one synchronous  *)
(* section, then either holds the fence for a limited time or rolls it     *)
(* back.  Rollback, expiry and resume are fail-closed: admission reopens   *)
(* only after the scheduler has resumed, and a scheduler that throws is    *)
(* retried behind the closed fence.  A restart drain supersedes all of     *)
(* this through the callback of the lease.                                 *)
(*                                                                         *)
(* The lease of an entry stands for its owner object and suspensionId.     *)
(***************************************************************************)
EXTENDS WorkAdmission

CONSTANTS
  Request,    \* the requestIds of hosts
  NoRequest,
  Ttl,        \* GATEWAY_SUSPEND_TTL_MS, in ticks
  MaxRenew    \* bound on the renewals of held suspensions

ASSUME SuspendCoordinatorAssumption ==
  /\ NoRequest \notin Request
  /\ Ttl \in Nat \ {0}
  /\ MaxRenew \in Nat

VARIABLES
  current,    \* COORDINATOR_STATE.current
  retired,    \* COORDINATOR_STATE.retiredForLifecycleReset
  paused,     \* the scheduler of this lifecycle is paused
  age,        \* ticks since the current entry was armed or renewed
  renewals

coordinatorVars == <<current, retired, paused, age, renewals>>
allVars == <<vars, coordinatorVars>>

NoEntry == [kind |-> "none", lease |-> NoLease, request |-> NoRequest, phase |-> "none"]

(* An entry's `phase' is the one its reopenAdmission expects: admission.   *)
(* release of a prepared lease, or rollback of a preparing one.            *)
Entry == [kind : {"held"}, lease : Suspension, request : Request, phase : {"prepared"}]
           \cup [kind : {"recovering"}, lease : Suspension, request : {NoRequest},
                 phase : {"preparing", "prepared"}]

Held(u, id) == [kind |-> "held", lease |-> u, request |-> id, phase |-> "prepared"]

(* Fault: recovery keeps the request of the held suspension.               *)
RecoveringForHost(u, phase) ==
  [kind |-> "recovering", lease |-> u, request |-> current.request, phase |-> phase]

Recovering(u, phase) ==
  [kind |-> "recovering", lease |-> u, request |-> NoRequest, phase |-> phase]

Expired == current.kind = "held" /\ age = Ttl

(* reopenAdmission of the current entry would succeed.                     *)
LeaseCurrent ==
  /\ suspensionGeneration[current.lease] = suspendGeneration
  /\ suspendPhase = current.phase

CoordinatorInit ==
  /\ Init
  /\ current = NoEntry
  /\ retired = NoEntry
  /\ paused = FALSE
  /\ age = 0
  /\ renewals = 0

-----------------------------------------------------------------------------
(* Time passes towards the deadline of a held suspension.                  *)
Tick ==
  /\ current.kind = "held" /\ age < Ttl
  /\ age' = age + 1
  /\ UNCHANGED <<vars, current, retired, paused, renewals>>

(* Faults: a failure of the scheduler is not followed by recovery; or      *)
(* admission reopens although the scheduler threw.                         *)
ResumeAndForget(ok) ==
  /\ paused' = ~ok
  /\ IF ok
     THEN Transition(current.lease, current.phase, "accepting")
     ELSE UNCHANGED vars
  /\ current' = NoEntry
  /\ age' = 0
  /\ UNCHANGED <<retired, renewals>>

ReopenAnyway(ok) ==
  /\ paused' = ~ok
  /\ Transition(current.lease, current.phase, "accepting")
  /\ current' = NoEntry
  /\ age' = 0
  /\ UNCHANGED <<retired, renewals>>

(***************************************************************************)
(* resumeAndReopen of the current entry, ok saying whether the scheduler   *)
(* resumes or throws; enterSchedulerRecovery and its retry follow a        *)
(* failure of either part.                                                 *)
(***************************************************************************)
ResumeAndReopen(ok) ==
  /\ paused' = ~ok
  /\ IF ok
     THEN Transition(current.lease, current.phase, "accepting")
     ELSE UNCHANGED vars
  /\ current' = IF ok /\ LeaseCurrent THEN NoEntry
                ELSE Recovering(current.lease, current.phase)
  /\ age' = 0
  /\ UNCHANGED <<retired, renewals>>

(* The expiry timer of a held suspension, or normalizeExpiredHeldSuspension*)
(* in a call that finds it expired before the timer ran.                   *)
Lapse(ok) == Expired /\ ResumeAndReopen(ok)

(* scheduleRecoveryRetry.                                                  *)
Retry(ok) == current.kind = "recovering" /\ ResumeAndReopen(ok)

(* resumeGatewaySuspend with the id of the held suspension.                *)
Resume(ok) == current.kind = "held" /\ ResumeAndReopen(ok)

(* prepareGatewaySuspend by the host that holds the suspension.            *)
Renew(id) ==
  /\ current.kind = "held" /\ ~Expired
  /\ current.request = id
  /\ renewals < MaxRenew
  /\ renewals' = renewals + 1
  /\ age' = 0
  /\ UNCHANGED <<vars, current, retired, paused>>

(* What a call finds, and what it finds after releasing the lease of a     *)
(* held suspension that has expired.                                       *)
Found == [phase |-> suspendPhase, lease |-> suspendInvalidated,
          suspension |-> suspension, state |-> state, paused |-> paused]

Released == [phase |-> "accepting", lease |-> NoLease,
             suspension |-> [suspension EXCEPT ![current.lease] = "ended"],
             state |-> Woken(state), paused |-> FALSE]

(* Where a step leaves the phase, its lease and the callers.               *)
Leaves(at) ==
  /\ suspendPhase' = at.phase
  /\ suspendInvalidated' = at.lease
  /\ suspension' = at.suspension
  /\ state' = at.state
  /\ paused' = at.paused

(***************************************************************************)
(* The rest of prepareGatewaySuspend, once nothing is held.  The snapshot  *)
(* is idle only if every root but the caller's r is over; ok says whether  *)
(* the resumeScheduling of a rollback succeeds.  A pauseScheduling that    *)
(* throws is rolled back like active work, with nothing to resume.         *)
(***************************************************************************)
Acquire(u, id, r, idle, ok, at) ==
  LET taken == [at.suspension EXCEPT ![u] = IF idle THEN "prepared" ELSE "preparing"]
  IN /\ at.suspension[u] = "new"
     /\ idle => activeRootWork \subseteq {r}
     /\ IF restartDraining \/ restartSignalPending \/ at.phase # "accepting"
        THEN /\ Leaves(at)
             /\ current' = NoEntry
             /\ UNCHANGED <<suspendGeneration, suspensionGeneration>>
        ELSE /\ suspendGeneration' = suspendGeneration + 1
             /\ suspensionGeneration' =
                  [suspensionGeneration EXCEPT ![u] = suspendGeneration + 1]
             /\ \/ /\ idle
                   /\ Leaves([at EXCEPT !.phase = "prepared", !.lease = u,
                                        !.suspension = taken, !.paused = TRUE])
                   /\ current' = Held(u, id)
                \/ /\ ~idle /\ ok
                   /\ Leaves([at EXCEPT !.suspension = [@ EXCEPT ![u] = "ended"],
                                        !.state = Woken(@), !.paused = FALSE])
                   /\ current' = NoEntry
                \/ /\ ~idle /\ ~ok
                   /\ Leaves([at EXCEPT !.phase = "preparing", !.lease = u,
                                        !.suspension = taken, !.paused = TRUE])
                   /\ current' = Recovering(u, "preparing")
     /\ age' = 0
     /\ UNCHANGED <<restartDraining, restartSignalPending, restartSignalGeneration,
                    rootVars, how, parent, signal, signalGeneration, drainWaiter,
                    resets, retired, renewals>>

(***************************************************************************)
(* prepareGatewaySuspend, when nothing is held or what is held has         *)
(* expired.  Where the scheduler throws on the way out of the expired      *)
(* suspension the call ends in recovery: that is Lapse.                    *)
(***************************************************************************)
Prepare(u, id, r, idle, ok) ==
  \/ /\ current.kind = "none"
     /\ Acquire(u, id, r, idle, ok, Found)
  \/ /\ Expired /\ LeaseCurrent
     /\ Acquire(u, id, r, idle, ok, Released)

(***************************************************************************)
(* markGatewayRestartDraining with the callback given to                   *)
(* tryBeginGatewaySuspendAdmission: the entry of the lease it takes away   *)
(* is retired, its timer gone, its scheduler left paused.                  *)
(***************************************************************************)
RestartDrain ==
  /\ MarkRestartDraining
  /\ IF suspendPhase # "accepting" /\ current.lease = suspendInvalidated
     THEN current' = NoEntry /\ retired' = current
     ELSE UNCHANGED <<current, retired>>
  /\ age' = 0
  /\ UNCHANGED <<paused, renewals>>

(***************************************************************************)
(* The run loop's iteration hook after a drain: the coordinator is reset   *)
(* (what it retired resumes a scheduler that is going away and holds a     *)
(* lease that is past), then admission is (by resetAllLanes), and the next *)
(* lifecycle builds a scheduler of its own.                                *)
(***************************************************************************)
LifecycleRestart ==
  /\ restartDraining
  /\ Reset
  /\ current' = NoEntry
  /\ retired' = NoEntry
  /\ paused' = FALSE
  /\ age' = 0
  /\ UNCHANGED renewals

SignalFence ==
  \/ \E s \in Signal : BeginSignal(s) \/ RollbackSignal(s)
  \/ ForceRollbackSignal

CoordinatorNext ==
  \/ Tick
  \/ \E ok \in BOOLEAN : Lapse(ok) \/ Retry(ok) \/ Resume(ok)
  \/ \E id \in Request :
       \/ Renew(id)
       \/ \E u \in Suspension, r \in activeRootWork \cup {NoRoot}, idle, ok \in BOOLEAN :
            Prepare(u, id, r, idle, ok)
  \/ RestartDrain
  \/ LifecycleRestart
  \/ (Work \/ SignalFence) /\ UNCHANGED coordinatorVars

CoordinatorSpec == CoordinatorInit /\ [][CoordinatorNext]_allVars

(***************************************************************************)
(* Timers fire, woken callers run, the run loop goes on after a drain, and *)
(* a scheduler that is retried every second does not throw forever.        *)
(***************************************************************************)
CoordinatorFairness ==
  /\ WF_allVars(Tick)
  /\ WF_allVars(\E ok \in BOOLEAN : Lapse(ok))
  /\ SF_allVars(Retry(TRUE))
  /\ WF_allVars(LifecycleRestart)
  /\ \A c \in Chain : WF_allVars(Recheck(c) /\ UNCHANGED coordinatorVars)

LiveCoordinatorSpec == CoordinatorSpec /\ CoordinatorFairness
-----------------------------------------------------------------------------
(* Properties.                                                             *)

(* The types of the coordinator's state, and of admission under it.        *)
CoordinatorTypeOK ==
  /\ TypeOK
  /\ current \in Entry \cup {NoEntry}
  /\ retired \in Entry \cup {NoEntry}
  /\ paused \in BOOLEAN
  /\ age \in 0 .. Ttl
  /\ renewals \in 0 .. MaxRenew

(* The coordinator has an entry exactly while the suspension fence is      *)
(* closed, and the entry's lease is the one that can reopen it: no path    *)
(* (failed rollback, recovery, expiry, drain) leaves a fence nobody owns   *)
(* or an owner whose reopenAdmission returns false.                        *)
CoordinatorOwnsFence ==
  /\ current = NoEntry <=> suspendPhase = "accepting"
  /\ current # NoEntry => /\ current.lease = suspendInvalidated
                          /\ LeaseCurrent

(* Fail-closed: the scheduler stays paused for as long as the fence is     *)
(* closed, and is left paused with the fence open only when a restart      *)
(* drain retired the suspension.                                           *)
SchedulerFollowsFence ==
  /\ suspendPhase # "accepting" => paused
  /\ paused /\ suspendPhase = "accepting" => restartDraining /\ retired # NoEntry

(* The inductive invariant: that of admission, and how the coordinator's   *)
(* entry and its scheduler stand to the fence.                             *)
CoordinatorInv == /\ AdmissionInv /\ CoordinatorTypeOK
                  /\ CoordinatorOwnsFence /\ SchedulerFollowsFence

(* What `ready' tells the host: once the preparing request itself is over, *)
(* no root starts for as long as that suspension is held.                  *)
SuspendedStaysIdle ==
  [][/\ current.kind = "held" /\ current'.kind = "held"
     /\ current'.lease = current.lease
     /\ activeRootWork = {}
     => activeRootWork' = {}]_allVars

(* Deferred work is not blocked forever by a suspension: once its host     *)
(* stops renewing, every waiting caller is let in or refused.              *)
WaitingCallerAnswered ==
  \A c \in Chain :
    state[c] = "waiting" ~> state[c] \notin {"waiting", "woken"}
=============================================================================
