----------------------- MODULE SuspendCoordinatorProofs -----------------------
(***************************************************************************)
(* The suspend coordinator is fail-closed for any number of hosts, leases, *)
(* chains and restarts: the invariant of admission holds under its steps,  *)
(* and its entry owns the fence.                                           *)
(***************************************************************************)
EXTENDS SuspendCoordinator, WorkAdmissionProofs

(* What an entry carries.                                                  *)
LEMMA EntryFields ==
  /\ NoEntry.kind = "none" /\ NoEntry.lease = NoLease
  /\ \A e \in Entry : /\ e # NoEntry /\ e.kind \in {"held", "recovering"}
                      /\ e.lease \in Suspension
                      /\ e.phase \in {"preparing", "prepared"}
                      /\ e.kind = "held" => e.phase = "prepared"
BY DEF Entry, NoEntry

LEMMA EntriesMade ==
  ASSUME NEW u \in Suspension
  PROVE  /\ \A id \in Request : Held(u, id) \in Entry
         /\ \A phase \in {"preparing", "prepared"} : Recovering(u, phase) \in Entry
BY DEF Held, Recovering, Entry

(* A fresh coordinator over fresh admission.                               *)
LEMMA CoordinatorStarts == CoordinatorInit => CoordinatorInv
<1> SUFFICES ASSUME CoordinatorInit PROVE CoordinatorInv
  OBVIOUS
<1>1. AdmissionInv
  BY InitAdmission DEF CoordinatorInit
<1>2. /\ current = NoEntry /\ retired = NoEntry /\ paused = FALSE /\ age = 0
      /\ renewals = 0 /\ suspendPhase = "accepting"
  BY DEF CoordinatorInit, Init
<1>3. age \in 0 .. Ttl /\ renewals \in 0 .. MaxRenew
  BY <1>2, SuspendCoordinatorAssumption DEF SuspendCoordinatorAssumption
<1>4. CoordinatorTypeOK
  BY <1>1, <1>2, <1>3 DEF CoordinatorTypeOK, AdmissionInv
<1>5. CoordinatorOwnsFence /\ SchedulerFollowsFence
  BY <1>2 DEF CoordinatorOwnsFence, SchedulerFollowsFence
<1> QED
  BY <1>1, <1>4, <1>5 DEF CoordinatorInv

-----------------------------------------------------------------------------
(* Steps that leave the suspension fence and the entry alone.              *)
LEMMA FenceKept ==
  ASSUME CoordinatorInv, AdmissionInv',
         UNCHANGED <<restartDraining, suspendPhase, suspendGeneration,
                     suspendInvalidated, suspensionGeneration, current, retired, paused>>,
         age' \in 0 .. Ttl, renewals' \in 0 .. MaxRenew
  PROVE  CoordinatorInv'
<1>1. CoordinatorTypeOK'
  BY DEF CoordinatorInv, CoordinatorTypeOK, AdmissionInv
<1>2. CoordinatorOwnsFence'
  BY DEF CoordinatorInv, CoordinatorOwnsFence, LeaseCurrent
<1>3. SchedulerFollowsFence'
  BY DEF CoordinatorInv, SchedulerFollowsFence
<1> QED
  BY <1>1, <1>2, <1>3 DEF CoordinatorInv

(* No entry point of work, and no waiter, touches a fence.                 *)
LEMMA WorkKeepsFences ==
  ASSUME Work
  PROVE  UNCHANGED <<fenceVars, leaseVars>>
BY DEF Work, BeginRoot, BeginRootWhenOpen, RunIndependent, RunContinuation, Retain, Call,
       Recheck, Release, WaitForRoots, WaiterTimesOut, WaiterReports

LEMMA AdmissionOnlyStep ==
  ASSUME CoordinatorInv, Work \/ SignalFence, UNCHANGED coordinatorVars
  PROVE  CoordinatorInv'
<1>1. AdmissionInv'
  BY WorkStep, RestartStep DEF CoordinatorInv, SignalFence, Restart
<1>2. UNCHANGED <<restartDraining, suspendPhase, suspendGeneration,
                  suspendInvalidated, suspensionGeneration>>
  BY WorkKeepsFences
     DEF SignalFence, BeginSignal, RollbackSignal, ForceRollbackSignal, ClearFence,
         fenceVars, leaseVars
<1> QED
  BY <1>1, <1>2, FenceKept DEF CoordinatorInv, CoordinatorTypeOK, coordinatorVars

(* Time, and the renewal of a held suspension.                             *)
LEMMA ClockStep ==
  ASSUME CoordinatorInv, Tick \/ \E id \in Request : Renew(id)
  PROVE  CoordinatorInv'
<1>1. UNCHANGED vars /\ UNCHANGED <<current, retired, paused>>
  BY DEF Tick, Renew
<1>2. AdmissionInv'
  BY <1>1, AdmissionStep DEF CoordinatorInv
<1>3. age' \in 0 .. Ttl /\ renewals' \in 0 .. MaxRenew
  BY SuspendCoordinatorAssumption
     DEF SuspendCoordinatorAssumption, Tick, Renew, CoordinatorInv, CoordinatorTypeOK
<1> QED
  BY <1>1, <1>2, <1>3, FenceKept DEF vars, fenceVars, leaseVars

-----------------------------------------------------------------------------
(* Behind a closed fence the entry's lease is one its holder may use.      *)
LEMMA EntryOwns ==
  ASSUME CoordinatorInv, current # NoEntry
  PROVE  /\ current \in Entry /\ suspendPhase # "accepting" /\ paused
         /\ current.lease = suspendInvalidated /\ LeaseCurrent
         /\ suspension[current.lease] = suspendPhase
         /\ suspension[current.lease] = current.phase
         /\ Acquired(current.lease)
<1>1. /\ current \in Entry /\ suspendPhase # "accepting" /\ paused
      /\ current.lease = suspendInvalidated /\ LeaseCurrent
  BY DEF CoordinatorInv, CoordinatorTypeOK, CoordinatorOwnsFence, SchedulerFollowsFence
<1>2. suspension[current.lease] = suspendPhase
  BY <1>1 DEF CoordinatorInv, AdmissionInv, FencesInv, LeaseHolderAgrees
<1> QED
  BY <1>1, <1>2, EntryFields DEF LeaseCurrent, Acquired

(* resumeAndReopen, from the expiry timer, the retry timer or a resume.    *)
LEMMA ResumeStep ==
  ASSUME CoordinatorInv, current # NoEntry, NEW ok \in BOOLEAN, ResumeAndReopen(ok)
  PROVE  CoordinatorInv'
<1>1. /\ paused' = ~ok /\ age' = 0 /\ UNCHANGED <<retired, renewals>>
      /\ age' \in 0 .. Ttl /\ renewals' \in 0 .. MaxRenew
  BY SuspendCoordinatorAssumption
     DEF SuspendCoordinatorAssumption, ResumeAndReopen, CoordinatorInv, CoordinatorTypeOK
<1>2. /\ current.lease \in Suspension /\ current.phase \in {"preparing", "prepared"}
      /\ Recovering(current.lease, current.phase) \in Entry
  BY EntryOwns, EntryFields, EntriesMade
<1>3. CASE ok
  <2>1. Transition(current.lease, current.phase, "accepting") /\ current' = NoEntry
    BY <1>3, EntryOwns DEF ResumeAndReopen
  <2>2. AdmissionInv'
    BY <1>2, <2>1, EntryOwns, TransitionStep DEF CoordinatorInv
  <2>3. suspendPhase' = "accepting"
    BY <2>1, EntryOwns DEF Transition, LeaseCurrent
  <2>4. paused' = FALSE
    BY <1>1, <1>3
  <2>5. CoordinatorTypeOK'
    BY <1>1, <2>1, <2>2, <2>4 DEF CoordinatorTypeOK, CoordinatorInv, AdmissionInv
  <2> QED
    BY <2>1, <2>2, <2>3, <2>4, <2>5
       DEF CoordinatorInv, CoordinatorOwnsFence, SchedulerFollowsFence
<1>4. CASE ~ok
  <2>1. UNCHANGED vars /\ current' = Recovering(current.lease, current.phase)
    BY <1>4 DEF ResumeAndReopen
  <2>2. AdmissionInv'
    BY <2>1, AdmissionStep DEF CoordinatorInv
  <2>3. current' \in Entry /\ current' # NoEntry /\ paused' = TRUE
        /\ current'.lease = current.lease /\ current'.phase = current.phase
    BY <1>1, <1>2, <1>4, <2>1, EntryFields DEF Recovering
  <2>4. CoordinatorTypeOK'
    BY <1>1, <2>2, <2>3 DEF CoordinatorTypeOK, CoordinatorInv, AdmissionInv
  <2>5. CoordinatorOwnsFence' /\ SchedulerFollowsFence'
    BY <2>1, <2>3, EntryOwns
       DEF CoordinatorOwnsFence, SchedulerFollowsFence, LeaseCurrent, vars, fenceVars, leaseVars
  <2> QED
    BY <2>2, <2>4, <2>5 DEF CoordinatorInv
<1> QED
  BY <1>3, <1>4

-----------------------------------------------------------------------------
(* A restart drain retires the entry whose lease it takes away.            *)
LEMMA RestartDrainStep ==
  ASSUME CoordinatorInv, RestartDrain
  PROVE  CoordinatorInv'
<1>1. AdmissionInv'
  BY DrainStep DEF CoordinatorInv, RestartDrain
<1>2. restartDraining' /\ suspendPhase' = "accepting"
  BY DEF RestartDrain, MarkRestartDraining, Invalidate
<1>3. /\ current' = NoEntry /\ retired' \in Entry \cup {NoEntry}
      /\ paused' => retired' # NoEntry
  <2>1. CASE current = NoEntry
    <3>1. suspendPhase = "accepting" /\ ~restartDraining
      BY <2>1 DEF CoordinatorInv, CoordinatorOwnsFence, RestartDrain, MarkRestartDraining
    <3> QED
      BY <2>1, <3>1
         DEF RestartDrain, CoordinatorInv, CoordinatorTypeOK, SchedulerFollowsFence
  <2>2. CASE current # NoEntry
    BY <2>2, EntryOwns DEF RestartDrain
  <2> QED
    BY <2>1, <2>2
<1>4. paused' = paused /\ age' \in 0 .. Ttl /\ renewals' \in 0 .. MaxRenew
  BY SuspendCoordinatorAssumption
     DEF SuspendCoordinatorAssumption, RestartDrain, CoordinatorInv, CoordinatorTypeOK
<1>5. CoordinatorTypeOK'
  BY <1>1, <1>3, <1>4 DEF CoordinatorTypeOK, CoordinatorInv, AdmissionInv
<1> QED
  BY <1>1, <1>2, <1>3, <1>5
     DEF CoordinatorInv, CoordinatorOwnsFence, SchedulerFollowsFence

(* The in-process restart after a drain.                                   *)
LEMMA LifecycleStep ==
  ASSUME CoordinatorInv, LifecycleRestart
  PROVE  CoordinatorInv'
<1>1. AdmissionInv'
  BY ResetStep DEF CoordinatorInv, LifecycleRestart
<1>2. suspendPhase' = "accepting"
  BY DEF LifecycleRestart, Reset, Invalidate
<1>3. /\ current' = NoEntry /\ retired' = NoEntry /\ paused' = FALSE
      /\ age' \in 0 .. Ttl /\ renewals' \in 0 .. MaxRenew
  BY SuspendCoordinatorAssumption
     DEF SuspendCoordinatorAssumption, LifecycleRestart, CoordinatorInv, CoordinatorTypeOK
<1>4. CoordinatorTypeOK'
  BY <1>1, <1>3 DEF CoordinatorTypeOK, CoordinatorInv, AdmissionInv
<1> QED
  BY <1>1, <1>2, <1>3, <1>4
     DEF CoordinatorInv, CoordinatorOwnsFence, SchedulerFollowsFence

-----------------------------------------------------------------------------
(* prepareGatewaySuspend.                                                  *)

CallStates == {"new", "waiting", "woken", "running", "nested", "sharing", "refused", "over"}
LeaseStates == {"new", "refused", "preparing", "prepared", "ended", "invalidated"}

(* What a preparing call starts from: no fence of a suspension, no lease   *)
(* in use, and callers waiting behind the fence of a signal only.          *)
Reopened(at) ==
  /\ at \in [phase : {"accepting"}, lease : Suspension \cup {NoLease},
             suspension : [Suspension -> LeaseStates], state : [Chain -> CallStates],
             paused : BOOLEAN]
  /\ at.state \in {state, Woken(state)}
  /\ \A c \in Chain : at.state[c] = "waiting" => restartSignalPending /\ ~restartDraining
  /\ \A v \in Suspension : at.suspension[v] \notin {"preparing", "prepared"}
  /\ at.paused => restartDraining /\ retired # NoEntry

LEMMA FoundReopened ==
  ASSUME CoordinatorInv, current = NoEntry
  PROVE  Reopened(Found)
<1>1. suspendPhase = "accepting"
  BY DEF CoordinatorInv, CoordinatorOwnsFence
<1>2. /\ suspendInvalidated \in Suspension \cup {NoLease}
      /\ suspension \in [Suspension -> LeaseStates] /\ state \in [Chain -> CallStates]
      /\ paused \in BOOLEAN
  BY DEF CoordinatorInv, CoordinatorTypeOK, TypeOK, LeaseStates, CallStates
<1>3. \A c \in Chain : state[c] = "waiting" => restartSignalPending /\ ~restartDraining
  BY <1>1 DEF CoordinatorInv, AdmissionInv, OpenWaiterNotStranded, Closed
<1>4. \A v \in Suspension : suspension[v] \notin {"preparing", "prepared"}
  BY <1>1 DEF CoordinatorInv, AdmissionInv, FencesInv, LeaseHolderAgrees
<1>5. paused => restartDraining /\ retired # NoEntry
  BY <1>1 DEF CoordinatorInv, SchedulerFollowsFence
<1> QED
  BY <1>1, <1>2, <1>3, <1>4, <1>5 DEF Reopened, Found

LEMMA ReleasedReopened ==
  ASSUME CoordinatorInv, current # NoEntry
  PROVE  Reopened(Released)
<1>1. suspension \in [Suspension -> LeaseStates] /\ state \in [Chain -> CallStates]
  BY DEF CoordinatorInv, CoordinatorTypeOK, TypeOK, LeaseStates, CallStates
<1>2. Woken(state) \in [Chain -> CallStates]
      /\ \A c \in Chain : Woken(state)[c] # "waiting"
  BY <1>1 DEF Woken, CallStates
<1>3. [suspension EXCEPT ![current.lease] = "ended"] \in [Suspension -> LeaseStates]
  BY <1>1 DEF LeaseStates
<1>4. \A v \in Suspension :
        [suspension EXCEPT ![current.lease] = "ended"][v] \notin {"preparing", "prepared"}
  BY <1>1, EntryOwns DEF CoordinatorInv, AdmissionInv, FencesInv, LeaseHolderAgrees
<1> QED
  BY <1>1, <1>2, <1>3, <1>4 DEF Reopened, Released

(* What is left to show of admission for a step that only moves the        *)
(* suspension fence.                                                       *)
LEMMA SuspensionMoves ==
  ASSUME AdmissionInv,
         UNCHANGED <<restartDraining, restartSignalPending, restartSignalGeneration,
                     rootVars, how, parent, signal, signalGeneration, drainWaiter, resets>>,
         state' \in {state, Woken(state)},
         suspendPhase' \in {"accepting", "preparing", "prepared"},
         suspendGeneration' \in Nat, suspendInvalidated' \in Suspension \cup {NoLease},
         suspension' \in [Suspension -> LeaseStates],
         suspensionGeneration' \in [Suspension -> Nat],
         LeaseGenerations', LeaseHolderAgrees', OpenWaiterNotStranded'
  PROVE  AdmissionInv'
<1> USE DEF AdmissionInv
<1>1. state' \in [Chain -> CallStates]
  BY WokenWaitNot DEF TypeOK, CallStates
<1>2. TypeOK'
  BY <1>1 DEF TypeOK, LeaseStates, CallStates, rootVars
<1>3. RootsInv'
  BY RootsKept
<1>4. SignalGenerations' /\ FenceHasOwner'
  BY DEF FencesInv, SignalGenerations, FenceHasOwner
<1>5. DrainWaiterHasWork'
  BY DEF DrainWaiterHasWork, rootVars
<1> QED
  BY <1>2, <1>3, <1>4, <1>5 DEF FencesInv

LEMMA AcquireStep ==
  ASSUME CoordinatorInv, NEW u \in Suspension, NEW id \in Request, NEW r,
         NEW idle \in BOOLEAN, NEW ok \in BOOLEAN, NEW at, Reopened(at),
         Acquire(u, id, r, idle, ok, at)
  PROVE  CoordinatorInv'
<1> DEFINE taken == [at.suspension EXCEPT ![u] = IF idle THEN "prepared" ELSE "preparing"]
<1>1. /\ UNCHANGED <<restartDraining, restartSignalPending, restartSignalGeneration,
                     rootVars, how, parent, signal, signalGeneration, drainWaiter,
                     resets, retired, renewals>>
      /\ age' = 0 /\ age' \in 0 .. Ttl /\ renewals' \in 0 .. MaxRenew
      /\ retired' \in Entry \cup {NoEntry}
  BY SuspendCoordinatorAssumption
     DEF SuspendCoordinatorAssumption, Acquire, CoordinatorInv, CoordinatorTypeOK
<1>2. /\ suspendGeneration \in Nat /\ suspensionGeneration \in [Suspension -> Nat]
      /\ \A v \in Suspension : suspensionGeneration[v] <= suspendGeneration
  BY DEF CoordinatorInv, AdmissionInv, TypeOK, FencesInv, LeaseGenerations
<1>3. /\ at.phase = "accepting" /\ at.lease \in Suspension \cup {NoLease}
      /\ at.suspension \in [Suspension -> LeaseStates]
      /\ at.state \in [Chain -> CallStates] /\ at.paused \in BOOLEAN
      /\ at.state \in {state, Woken(state)} /\ Woken(at.state) = Woken(state)
      /\ \A v \in Suspension : at.suspension[v] \notin {"preparing", "prepared"}
  BY DEF Reopened, Woken
<1>4. ASSUME UNCHANGED <<suspendGeneration, suspensionGeneration>>,
             Leaves(at), current' = NoEntry,
             restartDraining \/ restartSignalPending
      PROVE  CoordinatorInv'
  <2>1. /\ suspendPhase' = "accepting" /\ suspendInvalidated' = at.lease
        /\ suspension' = at.suspension /\ state' = at.state /\ paused' = at.paused
    BY <1>3, <1>4 DEF Leaves
  <2>2. LeaseGenerations' /\ LeaseHolderAgrees'
    BY <1>2, <1>3, <1>4, <2>1 DEF LeaseGenerations, LeaseHolderAgrees
  <2>3. OpenWaiterNotStranded'
    BY <1>1, <2>1 DEF Reopened, OpenWaiterNotStranded, Closed
  <2>4. AdmissionInv'
    BY <1>1, <1>2, <1>3, <1>4, <2>1, <2>2, <2>3, SuspensionMoves DEF CoordinatorInv
  <2>5. CoordinatorTypeOK'
    BY <1>1, <1>3, <1>4, <2>1, <2>4 DEF CoordinatorTypeOK, AdmissionInv
  <2> QED
    BY <1>1, <1>4, <2>1, <2>4, <2>5
       DEF CoordinatorInv, CoordinatorOwnsFence, SchedulerFollowsFence, Reopened
<1>5. ASSUME ~restartDraining, ~restartSignalPending,
             suspendGeneration' = suspendGeneration + 1,
             suspensionGeneration' =
               [suspensionGeneration EXCEPT ![u] = suspendGeneration + 1]
      PROVE  /\ suspendGeneration' \in Nat /\ suspensionGeneration' \in [Suspension -> Nat]
             /\ \A v \in Suspension : suspensionGeneration'[v] <= suspendGeneration'
             /\ \A v \in Suspension :
                  suspensionGeneration'[v] = suspendGeneration' <=> v = u
             /\ \A c \in Chain : at.state[c] # "waiting"
  BY <1>2, <1>5 DEF Reopened
<1>6. ASSUME ~restartDraining, ~restartSignalPending,
             suspendGeneration' = suspendGeneration + 1,
             suspensionGeneration' =
               [suspensionGeneration EXCEPT ![u] = suspendGeneration + 1],
             NEW phase \in {"preparing", "prepared"},
             suspendPhase' = phase, suspendInvalidated' = u,
             suspension' = [at.suspension EXCEPT ![u] = phase],
             state' = at.state, paused' = TRUE,
             current' \in Entry, current'.lease = u, current'.phase = phase
      PROVE  CoordinatorInv'
  <2>1. LeaseGenerations' /\ LeaseHolderAgrees'
    BY <1>3, <1>5, <1>6 DEF LeaseGenerations, LeaseHolderAgrees
  <2>2. suspension' \in [Suspension -> LeaseStates]
    BY <1>3, <1>6 DEF LeaseStates
  <2>3. OpenWaiterNotStranded'
    BY <1>5, <1>6 DEF OpenWaiterNotStranded
  <2>4. AdmissionInv'
    BY <1>1, <1>3, <1>5, <1>6, <2>1, <2>2, <2>3, SuspensionMoves DEF CoordinatorInv
  <2>5. CoordinatorTypeOK'
    BY <1>1, <1>6, <2>4 DEF CoordinatorTypeOK, AdmissionInv
  <2>6. current' # NoEntry
    BY <1>6, EntryFields
  <2> QED
    BY <1>5, <1>6, <2>4, <2>5, <2>6
       DEF CoordinatorInv, CoordinatorOwnsFence, SchedulerFollowsFence, LeaseCurrent
<1>7. ASSUME ~restartDraining, ~restartSignalPending,
             suspendGeneration' = suspendGeneration + 1,
             suspensionGeneration' =
               [suspensionGeneration EXCEPT ![u] = suspendGeneration + 1],
             suspendPhase' = "accepting", suspendInvalidated' = at.lease,
             suspension' = [at.suspension EXCEPT ![u] = "ended"],
             state' = Woken(at.state), paused' = FALSE, current' = NoEntry
      PROVE  CoordinatorInv'
  <2>1. LeaseGenerations' /\ LeaseHolderAgrees'
    BY <1>3, <1>5, <1>7 DEF LeaseGenerations, LeaseHolderAgrees
  <2>2. suspension' \in [Suspension -> LeaseStates]
    BY <1>3, <1>7 DEF LeaseStates
  <2>3. OpenWaiterNotStranded'
    BY <1>7 DEF OpenWaiterNotStranded, Woken
  <2>4. AdmissionInv'
    BY <1>1, <1>3, <1>5, <1>7, <2>1, <2>2, <2>3, SuspensionMoves DEF CoordinatorInv
  <2>5. CoordinatorTypeOK'
    BY <1>1, <1>7, <2>4 DEF CoordinatorTypeOK, AdmissionInv
  <2> QED
    BY <1>7, <2>4, <2>5 DEF CoordinatorInv, CoordinatorOwnsFence, SchedulerFollowsFence
<1>8. CASE restartDraining \/ restartSignalPending
  BY <1>4, <1>8 DEF Acquire
<1>9. CASE ~restartDraining /\ ~restartSignalPending
  <2>1. /\ suspendGeneration' = suspendGeneration + 1
        /\ suspensionGeneration' =
             [suspensionGeneration EXCEPT ![u] = suspendGeneration + 1]
    BY <1>3, <1>9 DEF Acquire
  <2>2. CASE idle
    <3>1. /\ Leaves([at EXCEPT !.phase = "prepared", !.lease = u,
                               !.suspension = taken, !.paused = TRUE])
          /\ current' = Held(u, id)
      BY <1>3, <1>9, <2>2 DEF Acquire
    <3>2. /\ suspendPhase' = "prepared" /\ suspendInvalidated' = u /\ suspension' = taken
          /\ state' = at.state /\ paused' = TRUE
      BY <3>1 DEF Leaves, Reopened
    <3>3. Held(u, id) \in Entry /\ Held(u, id).lease = u /\ Held(u, id).phase = "prepared"
      BY EntriesMade DEF Held
    <3> QED
      BY <1>6, <1>9, <2>1, <2>2, <3>1, <3>2, <3>3
  <2>3. CASE ~idle /\ ok
    <3>1. /\ Leaves([at EXCEPT !.suspension = [@ EXCEPT ![u] = "ended"],
                               !.state = Woken(@), !.paused = FALSE])
          /\ current' = NoEntry
      BY <1>3, <1>9, <2>3 DEF Acquire
    <3>2. /\ suspendPhase' = "accepting" /\ suspendInvalidated' = at.lease
          /\ suspension' = [at.suspension EXCEPT ![u] = "ended"]
          /\ state' = Woken(at.state) /\ paused' = FALSE
      BY <1>3, <3>1 DEF Leaves, Reopened
    <3> QED
      BY <1>7, <1>9, <2>1, <3>1, <3>2
  <2>4. CASE ~idle /\ ~ok
    <3>1. /\ Leaves([at EXCEPT !.phase = "preparing", !.lease = u,
                               !.suspension = taken, !.paused = TRUE])
          /\ current' = Recovering(u, "preparing")
      BY <1>3, <1>9, <2>4 DEF Acquire
    <3>2. /\ suspendPhase' = "preparing" /\ suspendInvalidated' = u /\ suspension' = taken
          /\ state' = at.state /\ paused' = TRUE
      BY <3>1 DEF Leaves, Reopened
    <3>3. /\ Recovering(u, "preparing") \in Entry
          /\ Recovering(u, "preparing").lease = u
          /\ Recovering(u, "preparing").phase = "preparing"
      BY EntriesMade DEF Recovering
    <3> QED
      BY <1>6, <1>9, <2>1, <2>4, <3>1, <3>2, <3>3
  <2> QED
    BY <2>2, <2>3, <2>4
<1> QED
  BY <1>8, <1>9

(* prepareGatewaySuspend, over nothing or over an expired suspension.      *)
LEMMA PrepareStep ==
  ASSUME CoordinatorInv, NEW u \in Suspension, NEW id \in Request, NEW r,
         NEW idle \in BOOLEAN, NEW ok \in BOOLEAN, Prepare(u, id, r, idle, ok)
  PROVE  CoordinatorInv'
<1>1. CASE current.kind = "none" /\ Acquire(u, id, r, idle, ok, Found)
  <2>1. current = NoEntry
    BY <1>1, EntryFields DEF CoordinatorInv, CoordinatorTypeOK
  <2> QED
    BY <1>1, <2>1, FoundReopened, AcquireStep
<1>2. CASE Expired /\ LeaseCurrent /\ Acquire(u, id, r, idle, ok, Released)
  <2>1. current # NoEntry
    BY <1>2, EntryFields DEF Expired
  <2> QED
    BY <1>2, <2>1, ReleasedReopened, AcquireStep
<1> QED
  BY <1>1, <1>2 DEF Prepare

-----------------------------------------------------------------------------
(* The invariant over every step, and what follows from it.                *)
LEMMA CoordinatorStep ==
  ASSUME CoordinatorInv, [CoordinatorNext]_allVars
  PROVE  CoordinatorInv'
<1>1. ASSUME UNCHANGED allVars PROVE CoordinatorInv'
  <2>1. UNCHANGED vars /\ UNCHANGED <<current, retired, paused, age, renewals>>
    BY <1>1 DEF allVars, coordinatorVars
  <2>2. AdmissionInv'
    BY <2>1, AdmissionStep DEF CoordinatorInv
  <2> QED
    BY <2>1, <2>2, FenceKept DEF vars, fenceVars, leaseVars, CoordinatorInv, CoordinatorTypeOK
<1>2. ASSUME NEW ok \in BOOLEAN, Lapse(ok) \/ Retry(ok) \/ Resume(ok)
      PROVE  CoordinatorInv'
  <2>1. current # NoEntry /\ ResumeAndReopen(ok)
    BY <1>2, EntryFields DEF Lapse, Retry, Resume, Expired
  <2> QED
    BY <2>1, ResumeStep
<1> QED
  BY <1>1, <1>2, ClockStep, PrepareStep, RestartDrainStep, LifecycleStep, AdmissionOnlyStep
     DEF CoordinatorNext

(* The inductive invariant of the coordinator.                             *)
THEOREM CoordinatorInvariant == CoordinatorSpec => []CoordinatorInv
BY CoordinatorStarts, CoordinatorStep, PTL DEF CoordinatorSpec

(* The coordinator's state and the admission state under it keep their     *)
(* types.                                                                  *)
THEOREM CoordinatorTypes == CoordinatorSpec => []CoordinatorTypeOK
<1>1. CoordinatorInv => CoordinatorTypeOK
  BY DEF CoordinatorInv
<1> QED
  BY <1>1, CoordinatorInvariant, PTL

(* A closed suspension fence has an entry whose lease can reopen it, and   *)
(* an open one has none, after every failed rollback, expiry and drain.    *)
THEOREM FenceHasEntry == CoordinatorSpec => []CoordinatorOwnsFence
<1>1. CoordinatorInv => CoordinatorOwnsFence
  BY DEF CoordinatorInv
<1> QED
  BY <1>1, CoordinatorInvariant, PTL

(* Fail-closed: the scheduler is paused as long as the fence is closed.    *)
THEOREM FailClosed == CoordinatorSpec => []SchedulerFollowsFence
<1>1. CoordinatorInv => SchedulerFollowsFence
  BY DEF CoordinatorInv
<1> QED
  BY <1>1, CoordinatorInvariant, PTL

(* The promises of admission hold under the coordinator's steps as well.   *)
THEOREM AdmissionUnderSuspension ==
  CoordinatorSpec => [](/\ ReferencesExact /\ OpenWaiterNotStranded
                        /\ DrainWaiterHasWork /\ LeaseHolderAgrees /\ FenceHasOwner)
<1>1. CoordinatorInv => /\ ReferencesExact /\ OpenWaiterNotStranded
                        /\ DrainWaiterHasWork /\ LeaseHolderAgrees /\ FenceHasOwner
  BY DEF CoordinatorInv, AdmissionInv, RootsInv, FencesInv
<1> QED
  BY <1>1, CoordinatorInvariant, PTL

(* While a suspension is held the roots only grow by descendants, so that  *)
(* none appears once there is none.                                        *)
THEOREM HeldStaysIdle == CoordinatorSpec => SuspendedStaysIdle
<1>1. ASSUME CoordinatorInv, [CoordinatorNext]_allVars,
             current.kind = "held", activeRootWork = {}
      PROVE  activeRootWork' = {}
  <2>1. Closed /\ AdmissionInv
    BY <1>1, EntryFields DEF CoordinatorInv, CoordinatorOwnsFence, Closed
  <2>2. ASSUME Work PROVE activeRootWork' = {}
    BY <1>1, <2>1, <2>2, NewRootsDescend DEF Next
  <2>3. ASSUME UNCHANGED rootVars PROVE activeRootWork' = {}
    BY <1>1, <2>3 DEF rootVars
  <2>4. ASSUME NEW ok \in BOOLEAN, Lapse(ok) \/ Retry(ok) \/ Resume(ok)
        PROVE  UNCHANGED rootVars
    BY <2>4 DEF Lapse, Retry, Resume, ResumeAndReopen, Transition, vars
  <2>5. ASSUME NEW u \in Suspension, NEW id \in Request, NEW r, NEW idle \in BOOLEAN,
               NEW ok \in BOOLEAN, Prepare(u, id, r, idle, ok)
        PROVE  UNCHANGED rootVars
    BY <2>5 DEF Prepare, Acquire
  <2>6. LifecycleRestart => activeRootWork' = {}
    BY DEF LifecycleRestart, Reset
  <2>7. \/ Tick \/ \E id \in Request : Renew(id)
        \/ RestartDrain \/ SignalFence \/ UNCHANGED allVars
        => UNCHANGED rootVars
    BY DEF Tick, Renew, RestartDrain, MarkRestartDraining, SignalFence, BeginSignal,
           RollbackSignal, ForceRollbackSignal, ClearFence, allVars, vars
  <2> QED
    BY <1>1, <2>2, <2>3, <2>4, <2>5, <2>6, <2>7 DEF CoordinatorNext
<1> QED
  BY <1>1, CoordinatorInvariant, PTL DEF CoordinatorSpec, SuspendedStaysIdle
=============================================================================
