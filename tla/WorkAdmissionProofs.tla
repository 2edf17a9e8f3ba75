------------------------- MODULE WorkAdmissionProofs -------------------------
(***************************************************************************)
(* What process-wide admission keeps for any number of chains, leases,     *)
(* signals, waiters and restarts.                                          *)
(***************************************************************************)
EXTENDS WorkAdmission, FiniteSetTheorems, TLAPS

(* The fresh module state (gateway-work-admission.ts:20).                  *)
LEMMA InitAdmission == Init => AdmissionInv
<1> SUFFICES ASSUME Init PROVE AdmissionInv
  OBVIOUS
<1> USE WorkAdmissionAssumption DEF WorkAdmissionAssumption, Init
<1>1. TypeOK
  BY DEF TypeOK, EntryPoint
<1>2. RootsInv
  BY DEF RootsInv, HandlesSound, ReferencesExact, Created
<1>3. FencesInv
  BY DEF FencesInv, LeaseGenerations, LeaseHolderAgrees, SignalGenerations, FenceHasOwner
<1>4. OpenWaiterNotStranded /\ DrainWaiterHasWork
  BY DEF OpenWaiterNotStranded, DrainWaiterHasWork
<1> QED
  BY <1>1, <1>2, <1>3, <1>4 DEF AdmissionInv

-----------------------------------------------------------------------------
(* Steps that leave a group of variables alone keep what is said of it.    *)

(* Waking callers does not touch roots.                                    *)
LEMMA RootsKept ==
  ASSUME TypeOK, RootsInv, UNCHANGED rootVars, state' \in {state, Woken(state)}
  PROVE  RootsInv'
<1>1. \A r : Holders(r)' = Holders(r)
  BY DEF Holders, rootVars
<1>2. Created' = Created
  BY DEF Created, rootVars
<1>3. ReferencesExact'
  BY <1>1, <1>2 DEF RootsInv, ReferencesExact, rootVars
<1>4. HandlesSound'
  BY <1>2 DEF RootsInv, HandlesSound, rootVars, Woken, TypeOK
<1> QED
  BY <1>3, <1>4 DEF RootsInv

LEMMA FencesKept ==
  ASSUME FencesInv, UNCHANGED <<fenceVars, leaseVars>>
  PROVE  FencesInv'
BY DEF FencesInv, LeaseGenerations, LeaseHolderAgrees, SignalGenerations, FenceHasOwner,
       Acquired, fenceVars, leaseVars

(* After a section that wakes all callers nobody waits.                    *)
LEMMA WokenWaitNot ==
  ASSUME TypeOK, state' = Woken(state)
  PROVE  /\ state' \in [Chain -> {"new", "waiting", "woken", "running", "nested",
                                  "sharing", "refused", "over"}]
         /\ OpenWaiterNotStranded'
BY DEF TypeOK, Woken, OpenWaiterNotStranded

-----------------------------------------------------------------------------
(* Entry points of work.                                                   *)

(* A chain that has no root yet, and asks for one.                         *)
Asking(c) ==
  /\ state[c] \in {"new", "woken"}
  /\ how' \in [Chain -> EntryPoint]
  /\ parent' \in [Chain -> Chain \cup {NoRoot}]
  /\ UNCHANGED <<fenceVars, leaseVars, drainWaiter, resets>>

(* createGatewayRootWorkAdmission.                                         *)
LEMMA CreateRootStep ==
  ASSUME AdmissionInv, NEW c \in Chain, Asking(c), CreateRoot(c)
  PROVE  AdmissionInv'
<1> USE WorkAdmissionAssumption DEF WorkAdmissionAssumption, AdmissionInv
<1>1. TypeOK'
  BY DEF TypeOK, Asking, CreateRoot, fenceVars, leaseVars
<1>2. /\ handle[c] = NoRoot /\ ~leaseReleased[c] /\ ~released[c]
      /\ \A d \in Chain : handle[d] # c
  BY DEF RootsInv, HandlesSound, Created, Asking
<1>3. Created' = Created \cup {c}
  BY <1>2 DEF Created, CreateRoot, TypeOK
<1>4. HandlesSound'
  BY <1>2, <1>3 DEF RootsInv, HandlesSound, CreateRoot, TypeOK
<1>5. Holders(c)' = {c} /\ \A r \in Chain : r # c => Holders(r)' = Holders(r)
  BY <1>2 DEF Holders, CreateRoot, TypeOK
<1>6. ReferencesExact'
  <2>1. activeRootWork' = {r \in Created' : ~released'[r]}
    BY <1>2, <1>3 DEF RootsInv, ReferencesExact, CreateRoot
  <2>2. references'[c] = Cardinality(Holders(c)') /\ Holders(c)' # {}
    BY <1>5, FS_Singleton DEF CreateRoot, TypeOK
  <2>3. ASSUME NEW r \in activeRootWork', r # c
        PROVE  references'[r] = Cardinality(Holders(r)') /\ Holders(r)' # {}
    BY <1>5, <2>3 DEF RootsInv, ReferencesExact, CreateRoot, TypeOK
  <2> QED
    BY <2>1, <2>2, <2>3 DEF ReferencesExact
<1>7. FencesInv'
  BY FencesKept DEF Asking
<1>8. OpenWaiterNotStranded'
  BY DEF OpenWaiterNotStranded, CreateRoot, Asking, TypeOK, Closed, fenceVars
<1>9. DrainWaiterHasWork'
  BY DEF DrainWaiterHasWork, CreateRoot, Asking
<1> QED
  BY <1>1, <1>4, <1>6, <1>7, <1>8, <1>9 DEF RootsInv

(* A call that ends, or waits behind a fence, without a root of its own.   *)
LEMMA ReturnStep ==
  ASSUME AdmissionInv, NEW c \in Chain, Asking(c),
         NEW s \in {"nested", "refused", "waiting"}, Return(c, s),
         s = "waiting" => Closed /\ ~restartDraining
  PROVE  AdmissionInv'
<1> USE DEF AdmissionInv
<1>1. TypeOK'
  BY DEF TypeOK, Asking, Return, fenceVars, leaseVars, rootVars
<1>2. Created' = Created /\ \A r : Holders(r)' = Holders(r)
  BY DEF Created, Holders, Return, rootVars
<1>3. RootsInv'
  BY <1>2 DEF RootsInv, HandlesSound, ReferencesExact, Return, Asking, rootVars, TypeOK
<1>4. FencesInv'
  BY FencesKept DEF Asking
<1>5. OpenWaiterNotStranded'
  BY DEF OpenWaiterNotStranded, Return, Asking, TypeOK, Closed, fenceVars
<1>6. DrainWaiterHasWork'
  BY DEF DrainWaiterHasWork, Return, Asking, rootVars
<1> QED
  BY <1>1, <1>3, <1>4, <1>5, <1>6

(* The decisions of the entry points.                                      *)
LEMMA IndependentStep ==
  ASSUME AdmissionInv, NEW c \in Chain, Asking(c), Independent(c)
  PROVE  AdmissionInv'
BY CreateRootStep, ReturnStep DEF Independent

LEMMA TryStep ==
  ASSUME AdmissionInv, NEW c \in Chain, Asking(c), NEW p,
         NEW refusal \in {"refused", "waiting"}, Try(c, p, refusal),
         refusal = "waiting" => ~restartDraining
  PROVE  AdmissionInv'
BY CreateRootStep, ReturnStep DEF Try

LEMMA WhenOpenStep ==
  ASSUME AdmissionInv, NEW c \in Chain, Asking(c), NEW p, WhenOpen(c, p)
  PROVE  AdmissionInv'
BY TryStep, ReturnStep DEF WhenOpen

LEMMA CallAsks ==
  ASSUME TypeOK, NEW c \in Chain, NEW k \in EntryPoint, NEW p, Call(c, k, p)
  PROVE  Asking(c)
BY DEF TypeOK, Call, Asking, Created

(* retainGatewayRootWorkAdmissionContinuation.                             *)
LEMMA RetainStep ==
  ASSUME AdmissionInv, NEW c \in Chain, NEW p \in Chain \cup {NoRoot}, Retain(c, p)
  PROVE  AdmissionInv'
<1> USE WorkAdmissionAssumption DEF WorkAdmissionAssumption, AdmissionInv
<1>1. Asking(c)
  BY CallAsks DEF Retain, EntryPoint
<1>2. CASE ~Live(p)
  BY <1>1, <1>2, ReturnStep DEF Retain
<1>3. CASE Live(p)
  <2>1. /\ references' = [references EXCEPT ![p] = @ + 1]
        /\ handle' = [handle EXCEPT ![c] = p]
        /\ state' = [state EXCEPT ![c] = "sharing"]
        /\ UNCHANGED <<activeRootWork, released, leaseReleased>>
    BY <1>3 DEF Retain
  <2>2. p \in Chain /\ p \in Created /\ ~released[p] /\ p \in activeRootWork
    BY <1>3 DEF Live, Created, RootsInv, ReferencesExact
  <2>3. handle[c] = NoRoot /\ ~leaseReleased[c] /\ c \notin Created /\ p # c
    BY <1>1, <2>2 DEF RootsInv, HandlesSound, Created, Asking
  <2>4. TypeOK'
    BY <1>1, <2>1, <2>2 DEF TypeOK, Asking, fenceVars, leaseVars
  <2>5. Created' = Created
    BY <2>1, <2>2, <2>3 DEF Created, TypeOK
  <2>6. HandlesSound'
    BY <2>1, <2>2, <2>3, <2>5 DEF RootsInv, HandlesSound, TypeOK
  <2>7. /\ Holders(p)' = Holders(p) \cup {c} /\ c \notin Holders(p)
        /\ \A r \in Chain : r # p => Holders(r)' = Holders(r)
    BY <2>1, <2>2, <2>3 DEF Holders, TypeOK
  <2>8. IsFiniteSet(Holders(p))
    BY FS_Subset DEF Holders
  <2>9. references'[p] = Cardinality(Holders(p)') /\ Holders(p)' # {}
    <3>1. references[p] = Cardinality(Holders(p))
      BY <2>2 DEF RootsInv, ReferencesExact
    <3>2. Cardinality(Holders(p) \cup {c}) = Cardinality(Holders(p)) + 1
      BY <2>7, <2>8, FS_AddElement
    <3> QED
      BY <2>1, <2>2, <2>7, <3>1, <3>2 DEF TypeOK
  <2>10. ReferencesExact'
    BY <2>1, <2>2, <2>5, <2>7, <2>9 DEF RootsInv, ReferencesExact, TypeOK
  <2>11. FencesInv'
    BY <1>1, FencesKept DEF Asking
  <2>12. OpenWaiterNotStranded' /\ DrainWaiterHasWork'
    BY <1>1, <2>1 DEF OpenWaiterNotStranded, DrainWaiterHasWork, Asking, TypeOK, Closed,
                      fenceVars
  <2> QED
    BY <2>4, <2>6, <2>10, <2>11, <2>12 DEF RootsInv
<1> QED
  BY <1>2, <1>3

(* The release function of a lease, called once, again, or after a reset.  *)
LEMMA ReleaseStep ==
  ASSUME AdmissionInv, NEW c \in Chain, Release(c)
  PROVE  AdmissionInv'
<1> USE WorkAdmissionAssumption DEF WorkAdmissionAssumption, AdmissionInv
<1> DEFINE r == handle[c]
           last == references[r] = 1
<1>1. /\ state[c] \in {"running", "sharing", "over"}
      /\ state' = [state EXCEPT ![c] = "over"]
      /\ UNCHANGED <<fenceVars, handle, how, parent, leaseVars, resets>>
  BY DEF Release
<1>2. handle[c] # NoRoot /\ r \in Chain /\ r \in Created
  BY <1>1 DEF RootsInv, HandlesSound, TypeOK
<1>3. Created' = Created
  BY <1>1 DEF Created
<1>4. FencesInv'
  BY <1>1, FencesKept
<1>5. OpenWaiterNotStranded'
  BY <1>1 DEF OpenWaiterNotStranded, TypeOK, Closed, fenceVars
<1>6. CASE leaseReleased[c] \/ released[r]
  <2>1. UNCHANGED <<activeRootWork, references, released, leaseReleased, drainWaiter>>
    BY <1>6 DEF Release
  <2>2. TypeOK'
    BY <1>1, <2>1 DEF TypeOK, fenceVars, leaseVars
  <2>3. \A q : Holders(q)' = Holders(q)
    BY <1>1, <2>1 DEF Holders
  <2>4. RootsInv'
    BY <1>1, <1>3, <2>1, <2>3 DEF RootsInv, HandlesSound, ReferencesExact, TypeOK
  <2>5. DrainWaiterHasWork'
    BY <2>1 DEF DrainWaiterHasWork
  <2> QED
    BY <1>4, <1>5, <2>2, <2>4, <2>5
<1>7. CASE ~leaseReleased[c] /\ ~released[r]
  <2>1. /\ leaseReleased' = [leaseReleased EXCEPT ![c] = TRUE]
        /\ references' = [references EXCEPT ![r] = @ - 1]
        /\ released' = [released EXCEPT ![r] = last]
        /\ activeRootWork' = IF last THEN activeRootWork \ {r} ELSE activeRootWork
        /\ drainWaiter' = IF last /\ activeRootWork = {r}
                          THEN Resolved(drainWaiter) ELSE drainWaiter
    BY <1>7 DEF Release
  <2>2. r \in activeRootWork /\ c \in Holders(r)
    BY <1>2, <1>7 DEF RootsInv, ReferencesExact, Holders
  <2>3. IsFiniteSet(Holders(r)) /\ references[r] = Cardinality(Holders(r))
    BY <2>2, FS_Subset DEF Holders, RootsInv, ReferencesExact
  <2>4. /\ Holders(r)' = Holders(r) \ {c}
        /\ \A q \in Chain : q # r => Holders(q)' = Holders(q)
    BY <1>1, <2>1 DEF Holders, TypeOK
  <2>5. references[r] \in Nat /\ references[r] # 0
    BY <1>2, <2>2, <2>3, FS_EmptySet DEF TypeOK
  <2>6. Cardinality(Holders(r)') = references[r] - 1
    BY <2>2, <2>3, <2>4, FS_RemoveElement
  <2>7. ~last => Holders(r)' # {}
    BY <2>5, <2>6, FS_EmptySet
  <2>8. TypeOK'
    <3>1. references' \in [Chain -> Nat]
      BY <1>2, <2>1, <2>5 DEF TypeOK
    <3>2. drainWaiter' \in [Waiter -> {"new", "pending", "resolved", "drained", "active"}]
      BY <2>1 DEF TypeOK, Resolved
    <3>3. activeRootWork' \in SUBSET Chain /\ released' \in [Chain -> BOOLEAN]
      BY <2>1 DEF TypeOK
    <3> QED
      BY <1>1, <2>1, <3>1, <3>2, <3>3 DEF TypeOK, fenceVars, leaseVars
  <2>9. HandlesSound'
    BY <1>1, <1>2, <1>3, <2>1 DEF RootsInv, HandlesSound, TypeOK
  <2>10. ReferencesExact'
    <3>1. activeRootWork' = {q \in Created' : ~released'[q]}
      BY <1>2, <1>3, <2>1, <2>2 DEF RootsInv, ReferencesExact, TypeOK, Created
    <3>2. ASSUME NEW q \in activeRootWork'
          PROVE  references'[q] = Cardinality(Holders(q)') /\ Holders(q)' # {}
      <4>1. q \in activeRootWork /\ q \in Chain
        BY <2>1 DEF TypeOK
      <4>2. CASE q = r
        <5>1. references'[r] = references[r] - 1
          BY <1>2, <2>1 DEF TypeOK
        <5>2. ~last
          BY <2>1, <4>2
        <5> QED
          BY <1>1, <2>6, <2>7, <4>2, <5>1, <5>2
      <4>3. CASE q # r
        BY <1>2, <2>1, <2>4, <4>1, <4>3 DEF RootsInv, ReferencesExact, TypeOK
      <4> QED
        BY <4>2, <4>3
    <3> QED
      BY <3>1, <3>2 DEF ReferencesExact
  <2>11. DrainWaiterHasWork'
    BY <2>1, <2>2 DEF DrainWaiterHasWork, Resolved, TypeOK
  <2> QED
    BY <1>4, <1>5, <2>8, <2>9, <2>10, <2>11 DEF RootsInv
<1> QED
  BY <1>6, <1>7

-----------------------------------------------------------------------------
(* waitForActiveGatewayRootWork and its timer.                             *)
LEMMA WaiterStep ==
  ASSUME AdmissionInv, NEW w \in Waiter, NEW zero \in BOOLEAN,
         WaitForRoots(w, zero) \/ WaiterTimesOut(w) \/ WaiterReports(w)
  PROVE  AdmissionInv'
<1> USE DEF AdmissionInv
<1>1. UNCHANGED <<fenceVars, rootVars, callVars, leaseVars, resets>>
  BY DEF WaitForRoots, WaiterTimesOut, WaiterReports
<1>2. TypeOK'
  <2>1. drainWaiter' \in [Waiter -> {"new", "pending", "resolved", "drained", "active"}]
    BY DEF WaitForRoots, WaiterTimesOut, WaiterReports, TypeOK
  <2> QED
    BY <1>1, <2>1 DEF TypeOK, fenceVars, rootVars, callVars, leaseVars
<1>3. RootsInv'
  BY <1>1, RootsKept DEF callVars
<1>4. FencesInv'
  BY <1>1, FencesKept
<1>5. OpenWaiterNotStranded'
  BY <1>1 DEF OpenWaiterNotStranded, callVars, fenceVars, Closed
<1>6. DrainWaiterHasWork'
  BY <1>1 DEF DrainWaiterHasWork, rootVars, WaitForRoots, WaiterTimesOut, WaiterReports, TypeOK
<1> QED
  BY <1>2, <1>3, <1>4, <1>5, <1>6

(* Everything that callers do.                                             *)
LEMMA WorkStep ==
  ASSUME AdmissionInv, Work
  PROVE  AdmissionInv'
<1>1. ASSUME NEW c \in Chain, NEW p \in Chain \cup {NoRoot},
             \/ BeginRoot(c, p) \/ BeginRootWhenOpen(c, p)
             \/ RunIndependent(c, p) \/ RunContinuation(c, p)
      PROVE  AdmissionInv'
  <2>1. \A k \in EntryPoint : Call(c, k, p) => Asking(c)
    BY CallAsks DEF AdmissionInv
  <2>2. CASE BeginRoot(c, p)
    BY <2>1, <2>2, TryStep DEF BeginRoot, EntryPoint
  <2>3. CASE BeginRootWhenOpen(c, p)
    BY <2>1, <2>3, WhenOpenStep DEF BeginRootWhenOpen, EntryPoint
  <2>4. CASE RunIndependent(c, p)
    BY <2>1, <2>4, IndependentStep DEF RunIndependent, EntryPoint
  <2>5. CASE RunContinuation(c, p)
    BY <2>1, <2>5, IndependentStep, CreateRootStep DEF RunContinuation, EntryPoint
  <2> QED
    BY <1>1, <2>2, <2>3, <2>4, <2>5
<1>2. ASSUME NEW c \in Chain, NEW p \in Chain \cup {NoRoot}, Retain(c, p)
      PROVE  AdmissionInv'
  BY <1>2, RetainStep
<1>3. ASSUME NEW c \in Chain, Recheck(c) PROVE AdmissionInv'
  <2>1. Asking(c)
    BY <1>3 DEF Recheck, Asking, AdmissionInv, TypeOK
  <2> QED
    BY <1>3, <2>1, WhenOpenStep, IndependentStep DEF Recheck
<1>4. ASSUME NEW c \in Chain, Release(c) PROVE AdmissionInv'
  BY <1>4, ReleaseStep
<1>5. ASSUME NEW w \in Waiter, NEW zero \in BOOLEAN,
             WaitForRoots(w, zero) \/ WaiterTimesOut(w) \/ WaiterReports(w)
      PROVE  AdmissionInv'
  BY <1>5, WaiterStep
<1> QED
  BY <1>1, <1>2, <1>3, <1>4, <1>5 DEF Work

-----------------------------------------------------------------------------
(* Suspension leases.                                                      *)

(* tryBeginGatewaySuspendAdmission.                                        *)
LEMMA BeginSuspendStep ==
  ASSUME AdmissionInv, NEW u \in Suspension, BeginSuspend(u)
  PROVE  AdmissionInv'
<1> USE WorkAdmissionAssumption DEF WorkAdmissionAssumption, AdmissionInv
<1>1. TypeOK'
  BY DEF TypeOK, BeginSuspend, rootVars, callVars
<1>2. RootsInv'
  BY RootsKept DEF BeginSuspend, callVars
<1>3. LeaseGenerations' /\ LeaseHolderAgrees'
  <2>1. CASE Closed
    BY <2>1 DEF BeginSuspend, FencesInv, LeaseGenerations, LeaseHolderAgrees, Acquired, TypeOK
  <2>2. CASE ~Closed
    <3>1. suspendPhase = "accepting" /\ suspension[u] = "new"
      BY <2>2 DEF Closed, BeginSuspend
    <3>2. /\ suspendPhase' = "preparing" /\ suspendGeneration' = suspendGeneration + 1
          /\ suspendInvalidated' = u
          /\ suspension' = [suspension EXCEPT ![u] = "preparing"]
          /\ suspensionGeneration' =
               [suspensionGeneration EXCEPT ![u] = suspendGeneration + 1]
      BY <2>2 DEF BeginSuspend
    <3>3. LeaseGenerations'
      BY <3>1, <3>2 DEF FencesInv, LeaseGenerations, TypeOK
    <3>4. LeaseHolderAgrees'
      BY <3>1, <3>2 DEF FencesInv, LeaseHolderAgrees, TypeOK
    <3> QED
      BY <3>3, <3>4
  <2> QED
    BY <2>1, <2>2
<1>4. SignalGenerations' /\ FenceHasOwner'
  BY DEF BeginSuspend, FencesInv, SignalGenerations, FenceHasOwner
<1>5. OpenWaiterNotStranded' /\ DrainWaiterHasWork'
  BY DEF OpenWaiterNotStranded, DrainWaiterHasWork, BeginSuspend, Closed, callVars, rootVars
<1> QED
  BY <1>1, <1>2, <1>3, <1>4, <1>5 DEF FencesInv

(* The transition function of a lease, called by its holder at any time.   *)
LEMMA TransitionStep ==
  ASSUME AdmissionInv, NEW u \in Suspension, Acquired(u),
         NEW expected \in {"preparing", "prepared"},
         NEW next \in {"prepared", "accepting"}, Transition(u, expected, next)
  PROVE  AdmissionInv'
<1> USE WorkAdmissionAssumption DEF WorkAdmissionAssumption, AdmissionInv
<1>1. /\ UNCHANGED <<restartDraining, restartSignalPending, restartSignalGeneration,
                     suspendGeneration, rootVars, how, parent, suspensionGeneration,
                     signal, signalGeneration, drainWaiter, resets>>
      /\ state' \in {state, Woken(state)}
  BY DEF Transition
<1>2. TypeOK'
  BY <1>1, WokenWaitNot DEF TypeOK, Transition, rootVars
<1>3. RootsInv'
  BY <1>1, RootsKept
<1>4. LeaseGenerations' /\ LeaseHolderAgrees'
  <2>1. CASE suspensionGeneration[u] = suspendGeneration /\ suspendPhase = expected
    <3>1. suspendInvalidated = u /\ suspension[u] = expected
      BY <2>1 DEF FencesInv, LeaseGenerations, LeaseHolderAgrees
    <3>2. /\ suspendPhase' = next
          /\ suspension' = [suspension EXCEPT ![u] =
                              IF next = "accepting" THEN "ended" ELSE next]
          /\ suspendInvalidated' =
               IF next = "accepting" THEN NoLease ELSE suspendInvalidated
      BY <2>1 DEF Transition
    <3>3. LeaseGenerations'
      BY <1>1, <2>1, <3>1, <3>2 DEF FencesInv, LeaseGenerations, Acquired, TypeOK
    <3>4. LeaseHolderAgrees'
      BY <1>1, <2>1, <3>1, <3>2 DEF FencesInv, LeaseHolderAgrees, TypeOK
    <3> QED
      BY <3>3, <3>4
  <2>2. CASE ~(suspensionGeneration[u] = suspendGeneration /\ suspendPhase = expected)
    BY <1>1, <2>2 DEF Transition, FencesInv, LeaseGenerations, LeaseHolderAgrees, Acquired
  <2> QED
    BY <2>1, <2>2
<1>5. SignalGenerations' /\ FenceHasOwner'
  BY <1>1 DEF FencesInv, SignalGenerations, FenceHasOwner
<1>6. OpenWaiterNotStranded'
  BY <1>1 DEF OpenWaiterNotStranded, Transition, Closed, Woken, TypeOK
<1>7. DrainWaiterHasWork'
  BY <1>1 DEF DrainWaiterHasWork, rootVars
<1> QED
  BY <1>2, <1>3, <1>4, <1>5, <1>6, <1>7 DEF FencesInv

LEMMA SuspendStep ==
  ASSUME AdmissionInv, Suspend
  PROVE  AdmissionInv'
BY BeginSuspendStep, TransitionStep
   DEF Suspend, CommitSuspend, RollbackSuspend, ReleaseSuspend

-----------------------------------------------------------------------------
(* The restart-signal fence, the restart drain, the reset.                 *)

(* beginGatewayRestartSignalAdmission.                                     *)
LEMMA BeginSignalStep ==
  ASSUME AdmissionInv, NEW s \in Signal, BeginSignal(s)
  PROVE  AdmissionInv'
<1> USE DEF AdmissionInv
<1>1. TypeOK'
  <2>1. restartDraining' \in BOOLEAN /\ restartSignalPending' \in BOOLEAN
    BY Zenon DEF TypeOK, BeginSignal
  <2>2. /\ restartSignalGeneration' \in Nat
        /\ signal' \in [Signal -> {"new", "refused", "held", "ended"}]
        /\ signalGeneration' \in [Signal -> Nat]
    BY DEF TypeOK, BeginSignal
  <2> QED
    BY <2>1, <2>2 DEF TypeOK, BeginSignal, rootVars, callVars
<1>2. RootsInv'
  BY RootsKept DEF BeginSignal, callVars
<1>3. LeaseGenerations' /\ LeaseHolderAgrees'
  BY DEF BeginSignal, FencesInv, LeaseGenerations, LeaseHolderAgrees, Acquired
<1>4. SignalGenerations'
  BY DEF BeginSignal, FencesInv, SignalGenerations, TypeOK
<1>5. FenceHasOwner'
  BY DEF BeginSignal, FencesInv, SignalGenerations, FenceHasOwner, TypeOK
<1>6. OpenWaiterNotStranded' /\ DrainWaiterHasWork'
  BY DEF OpenWaiterNotStranded, DrainWaiterHasWork, BeginSignal, Closed, callVars, rootVars
<1> QED
  BY <1>1, <1>2, <1>3, <1>4, <1>5, <1>6 DEF FencesInv

(* clearRestartSignalFence, whoever calls it.                              *)
LEMMA ClearFenceStep ==
  ASSUME AdmissionInv, ClearFence,
         signal' \in [Signal -> {"new", "refused", "held", "ended"}]
  PROVE  AdmissionInv'
<1> USE DEF AdmissionInv
<1>1. TypeOK'
  <2>1. state' \in [Chain -> {"new", "waiting", "woken", "running", "nested",
                            "sharing", "refused", "over"}]
    BY WokenWaitNot DEF ClearFence
  <2>2. restartDraining' \in BOOLEAN /\ restartSignalPending' \in BOOLEAN
    BY Zenon DEF TypeOK, ClearFence
  <2> QED
    BY <2>1, <2>2 DEF TypeOK, ClearFence, rootVars
<1>2. RootsInv'
  BY RootsKept DEF ClearFence
<1>3. LeaseGenerations' /\ LeaseHolderAgrees'
  BY DEF ClearFence, FencesInv, LeaseGenerations, LeaseHolderAgrees, Acquired
<1>4. SignalGenerations' /\ FenceHasOwner'
  BY DEF ClearFence, FencesInv, SignalGenerations, FenceHasOwner, TypeOK
<1>5. OpenWaiterNotStranded' /\ DrainWaiterHasWork'
  BY WokenWaitNot DEF DrainWaiterHasWork, ClearFence, rootVars
<1> QED
  BY <1>1, <1>2, <1>3, <1>4, <1>5 DEF FencesInv

(* The rollback function of a signal's lease.                              *)
LEMMA RollbackSignalStep ==
  ASSUME AdmissionInv, NEW s \in Signal, RollbackSignal(s)
  PROVE  AdmissionInv'
<1> USE DEF AdmissionInv
<1>1. signal' = [signal EXCEPT ![s] = "ended"] /\ signal[s] = "held"
  BY DEF RollbackSignal
<1>2. CASE restartSignalPending /\ signalGeneration[s] = restartSignalGeneration
  BY <1>1, <1>2, ClearFenceStep DEF RollbackSignal, TypeOK
<1>3. CASE ~(restartSignalPending /\ signalGeneration[s] = restartSignalGeneration)
  <2>1. UNCHANGED <<fenceVars, rootVars, callVars, suspension, suspensionGeneration,
                    signalGeneration, drainWaiter, resets>>
    BY <1>3 DEF RollbackSignal
  <2>2. TypeOK'
    BY <1>1, <2>1 DEF TypeOK, fenceVars, rootVars, callVars
  <2>3. RootsInv'
    BY <2>1, RootsKept DEF callVars
  <2>4. LeaseGenerations' /\ LeaseHolderAgrees'
    BY <2>1 DEF FencesInv, LeaseGenerations, LeaseHolderAgrees, Acquired, fenceVars
  <2>5. SignalGenerations' /\ FenceHasOwner'
    BY <1>1, <1>3, <2>1 DEF FencesInv, SignalGenerations, FenceHasOwner, fenceVars, TypeOK
  <2>6. OpenWaiterNotStranded' /\ DrainWaiterHasWork'
    BY <2>1 DEF OpenWaiterNotStranded, DrainWaiterHasWork, Closed, callVars, rootVars, fenceVars
  <2> QED
    BY <2>2, <2>3, <2>4, <2>5, <2>6 DEF FencesInv
<1> QED
  BY <1>2, <1>3

(* The lease of a suspension is taken away by a drain or a reset.          *)
LEMMA InvalidateSound ==
  ASSUME TypeOK, FencesInv, suspendPhase' = "accepting",
         suspendGeneration' = suspendGeneration + 1, suspendInvalidated' = NoLease,
         suspensionGeneration' = suspensionGeneration,
         IF suspendPhase # "accepting" THEN Invalidate ELSE suspension' = suspension
  PROVE  /\ suspension' \in [Suspension -> {"new", "refused", "preparing", "prepared",
                                            "ended", "invalidated"}]
         /\ LeaseGenerations' /\ LeaseHolderAgrees'
<1>1. suspension' \in [Suspension -> {"new", "refused", "preparing", "prepared",
                                      "ended", "invalidated"}]
  BY DEF Invalidate, TypeOK
<1>2. LeaseGenerations'
  BY DEF FencesInv, LeaseGenerations, TypeOK
<1>3. LeaseHolderAgrees'
  BY DEF FencesInv, LeaseHolderAgrees, Invalidate, TypeOK
<1> QED
  BY <1>1, <1>2, <1>3

(* markGatewayRestartDraining.                                             *)
LEMMA DrainStep ==
  ASSUME AdmissionInv, MarkRestartDraining
  PROVE  AdmissionInv'
<1> USE DEF AdmissionInv
<1>1. /\ restartDraining' = TRUE /\ restartSignalPending' = FALSE
      /\ restartSignalGeneration' = restartSignalGeneration + 1
      /\ state' = Woken(state)
      /\ UNCHANGED <<rootVars, how, parent, suspensionGeneration, signal,
                     signalGeneration, drainWaiter, resets>>
  BY DEF MarkRestartDraining
<1>2. /\ suspendPhase' = "accepting" /\ suspendGeneration' \in Nat
      /\ suspendInvalidated' \in Suspension \cup {NoLease}
      /\ suspension' \in [Suspension -> {"new", "refused", "preparing", "prepared",
                                         "ended", "invalidated"}]
      /\ LeaseGenerations' /\ LeaseHolderAgrees'
  <2>1. CASE suspendPhase # "accepting"
    BY <1>1, <2>1, InvalidateSound DEF MarkRestartDraining, Invalidate, TypeOK
  <2>2. CASE suspendPhase = "accepting"
    BY <1>1, <2>2 DEF MarkRestartDraining, FencesInv, LeaseGenerations, LeaseHolderAgrees,
                      Acquired, TypeOK
  <2> QED
    BY <2>1, <2>2
<1>3. TypeOK'
  <2>1. state' \in [Chain -> {"new", "waiting", "woken", "running", "nested",
                            "sharing", "refused", "over"}]
    BY <1>1, WokenWaitNot
  <2>2. restartDraining' \in BOOLEAN /\ restartSignalPending' \in BOOLEAN
    BY <1>1, Zenon
  <2> QED
    BY <1>1, <1>2, <2>1, <2>2 DEF TypeOK, rootVars
<1>4. RootsInv'
  BY <1>1, RootsKept
<1>5. SignalGenerations' /\ FenceHasOwner'
  BY <1>1 DEF FencesInv, SignalGenerations, FenceHasOwner, TypeOK
<1>6. OpenWaiterNotStranded' /\ DrainWaiterHasWork'
  BY <1>1, WokenWaitNot DEF DrainWaiterHasWork, rootVars
<1> QED
  BY <1>2, <1>3, <1>4, <1>5, <1>6 DEF FencesInv

(* resetGatewayWorkAdmission.                                              *)
LEMMA ResetStep ==
  ASSUME AdmissionInv, Reset
  PROVE  AdmissionInv'
<1> USE DEF AdmissionInv
<1>1. /\ resets' = resets + 1
      /\ references' =
           [c \in Chain |-> IF c \in activeRootWork THEN 0 ELSE references[c]]
      /\ released' = [c \in Chain |-> c \in activeRootWork \/ released[c]]
      /\ activeRootWork' = {} /\ drainWaiter' = Resolved(drainWaiter)
      /\ restartDraining' = FALSE /\ restartSignalPending' = FALSE
      /\ restartSignalGeneration' = restartSignalGeneration + 1
      /\ state' = Woken(state)
      /\ UNCHANGED <<handle, leaseReleased, how, parent, suspensionGeneration,
                     signal, signalGeneration>>
  BY DEF Reset
<1>2. /\ suspendPhase' = "accepting" /\ suspendGeneration' = suspendGeneration + 1
      /\ suspendInvalidated' = NoLease
      /\ suspension' \in [Suspension -> {"new", "refused", "preparing", "prepared",
                                         "ended", "invalidated"}]
      /\ LeaseGenerations' /\ LeaseHolderAgrees'
  <2>1. CASE suspendPhase # "accepting"
    BY <1>1, <2>1, InvalidateSound DEF Reset, Invalidate
  <2>2. CASE suspendPhase = "accepting"
    BY <1>1, <2>2, InvalidateSound DEF Reset
  <2> QED
    BY <2>1, <2>2
<1>3. TypeOK'
  <2>1. drainWaiter' \in [Waiter -> {"new", "pending", "resolved", "drained", "active"}]
    BY <1>1 DEF TypeOK, Resolved
  <2>2. references' \in [Chain -> Nat] /\ released' \in [Chain -> BOOLEAN]
    BY <1>1 DEF TypeOK
  <2>3. state' \in [Chain -> {"new", "waiting", "woken", "running", "nested",
                            "sharing", "refused", "over"}]
    BY <1>1, WokenWaitNot
  <2>4. restartDraining' \in BOOLEAN /\ restartSignalPending' \in BOOLEAN
    BY <1>1, Zenon
  <2> QED
    BY <1>1, <1>2, <2>1, <2>2, <2>3, <2>4 DEF TypeOK
<1>4. RootsInv'
  <2>1. Created' = Created
    BY <1>1 DEF Created
  <2>2. HandlesSound'
    BY <1>1, <2>1 DEF RootsInv, HandlesSound, ReferencesExact, TypeOK, Woken
  <2>3. ReferencesExact'
    BY <1>1, <2>1 DEF RootsInv, ReferencesExact, Created
  <2> QED
    BY <2>2, <2>3 DEF RootsInv
<1>5. SignalGenerations' /\ FenceHasOwner'
  BY <1>1 DEF FencesInv, SignalGenerations, FenceHasOwner, TypeOK
<1>6. OpenWaiterNotStranded' /\ DrainWaiterHasWork'
  BY <1>1, WokenWaitNot DEF DrainWaiterHasWork, Resolved, TypeOK
<1> QED
  BY <1>2, <1>3, <1>4, <1>5, <1>6 DEF FencesInv

LEMMA RestartStep ==
  ASSUME AdmissionInv, Restart
  PROVE  AdmissionInv'
<1>1. ForceRollbackSignal => AdmissionInv'
  BY ClearFenceStep DEF ForceRollbackSignal, AdmissionInv, TypeOK
<1> QED
  BY <1>1, BeginSignalStep, RollbackSignalStep, DrainStep, ResetStep DEF Restart

-----------------------------------------------------------------------------
(* The invariant over every step, and what follows from it.                *)
LEMMA AdmissionStep ==
  ASSUME AdmissionInv, [Next]_vars
  PROVE  AdmissionInv'
<1>1. CASE UNCHANGED vars
  <2>1. UNCHANGED <<fenceVars, rootVars, callVars, leaseVars, drainWaiter, resets>>
    BY <1>1 DEF vars
  <2>2. TypeOK'
    BY <2>1 DEF AdmissionInv, TypeOK, fenceVars, rootVars, callVars, leaseVars
  <2>3. RootsInv'
    BY <2>1, RootsKept DEF AdmissionInv, callVars
  <2>4. FencesInv'
    BY <2>1, FencesKept DEF AdmissionInv
  <2>5. OpenWaiterNotStranded' /\ DrainWaiterHasWork'
    BY <2>1 DEF AdmissionInv, OpenWaiterNotStranded, DrainWaiterHasWork, Closed,
                fenceVars, rootVars, callVars
  <2> QED
    BY <2>2, <2>3, <2>4, <2>5 DEF AdmissionInv
<1>2. CASE Next
  BY <1>2, WorkStep, RestartStep, SuspendStep DEF Next
<1> QED
  BY <1>1, <1>2

(* The inductive invariant of admission.                                   *)
THEOREM AdmissionInvariant == Spec => []AdmissionInv
BY InitAdmission, AdmissionStep, PTL DEF Spec

(* Every variable of the module keeps its type: in particular no count of  *)
(* a root goes below zero, however often release functions are called.     *)
THEOREM AdmissionTypes == Spec => []TypeOK
<1>1. AdmissionInv => TypeOK
  BY DEF AdmissionInv
<1> QED
  BY <1>1, AdmissionInvariant, PTL

(* A root is active exactly while a release function that may still end it *)
(* is out, and its count is the number of those functions                  *)
(* (createGatewayRootWorkRelease).                                         *)
THEOREM RootsCounted == Spec => []ReferencesExact
<1>1. AdmissionInv => ReferencesExact
  BY DEF AdmissionInv, RootsInv
<1> QED
  BY <1>1, AdmissionInvariant, PTL

(* No caller is left in suspendOpenWaiters when admission opens or becomes *)
(* final.                                                                  *)
THEOREM OpeningWakesCallers == Spec => []OpenWaiterNotStranded
<1>1. AdmissionInv => OpenWaiterNotStranded
  BY DEF AdmissionInv
<1> QED
  BY <1>1, AdmissionInvariant, PTL

(* No waitForActiveGatewayRootWork is pending once the last root ended.    *)
THEOREM DrainingEndsWaits == Spec => []DrainWaiterHasWork
<1>1. AdmissionInv => DrainWaiterHasWork
  BY DEF AdmissionInv
<1> QED
  BY <1>1, AdmissionInvariant, PTL

(* A lease of a suspension is what its holder was last told, across drains *)
(* and resets that take leases away (invalidateSuspendAdmission).          *)
THEOREM LeasesAgree == Spec => []LeaseHolderAgrees
<1>1. AdmissionInv => LeaseHolderAgrees
  BY DEF AdmissionInv, FencesInv
<1> QED
  BY <1>1, AdmissionInvariant, PTL

(* A pending restart-signal fence has one lease that can lift it.          *)
THEOREM FenceOwned == Spec => []FenceHasOwner
<1>1. AdmissionInv => FenceHasOwner
  BY DEF AdmissionInv, FencesInv
<1> QED
  BY <1>1, AdmissionInvariant, PTL

(* Behind a fence only a continuation of a live root creates a root.       *)
LEMMA NewRootsDescend ==
  ASSUME AdmissionInv, [Next]_vars, Closed,
         NEW c \in activeRootWork' \ activeRootWork
  PROVE  parent'[c] \in activeRootWork
<1> USE DEF AdmissionInv
<1>1. Work
  <2>1. ~Restart
    BY DEF Restart, BeginSignal, RollbackSignal, ForceRollbackSignal, ClearFence,
           MarkRestartDraining, Reset, rootVars
  <2>2. ~Suspend
    BY DEF Suspend, BeginSuspend, CommitSuspend, RollbackSuspend, ReleaseSuspend,
           Transition, rootVars
  <2> QED
    BY <2>1, <2>2 DEF Next, vars, rootVars
<1>2. \A d \in Chain : ~Release(d)
  BY DEF Release
<1>3. \A w \in Waiter, zero \in BOOLEAN :
        ~WaitForRoots(w, zero) /\ ~WaiterTimesOut(w) /\ ~WaiterReports(w)
  BY DEF WaitForRoots, WaiterTimesOut, WaiterReports, rootVars
<1>4. ASSUME NEW d \in Chain PROVE ~Independent(d) /\ ~Recheck(d)
  BY DEF Recheck, Independent, WhenOpen, Try, Return, Closed, rootVars
<1>5. ASSUME NEW d \in Chain, NEW p \in Chain \cup {NoRoot}
      PROVE  ~BeginRoot(d, p) /\ ~BeginRootWhenOpen(d, p) /\ ~RunIndependent(d, p)
             /\ ~Retain(d, p)
  BY <1>4 DEF BeginRoot, BeginRootWhenOpen, RunIndependent, Retain, WhenOpen, Try,
              Return, rootVars
<1>6. PICK d \in Chain, p \in Chain \cup {NoRoot} : RunContinuation(d, p)
  BY <1>1, <1>2, <1>3, <1>4, <1>5 DEF Work
<1>7. Live(p) /\ CreateRoot(d) /\ parent' = [parent EXCEPT ![d] = p]
  BY <1>4, <1>6 DEF RunContinuation, Call
<1>8. p \in activeRootWork
  BY <1>7 DEF Live, RootsInv, ReferencesExact
<1> QED
  BY <1>7, <1>8 DEF CreateRoot, TypeOK

(* Behind any fence the roots only grow by work that a live root hands on. *)
THEOREM FencesAdmitDescendants == Spec => ClosedAdmitsOnlyDescendants
<1>1. ASSUME AdmissionInv, [Next]_vars
      PROVE  Closed => \A c \in activeRootWork' \ activeRootWork :
                         parent'[c] \in activeRootWork
  BY <1>1, NewRootsDescend
<1> QED
  BY <1>1, AdmissionInvariant, PTL DEF Spec, ClosedAdmitsOnlyDescendants

(* A restart drain that saw the last root end stays drained until the      *)
(* reset.                                                                  *)
THEOREM DrainStaysFinal == Spec => DrainIsFinal
<1>1. ASSUME AdmissionInv, [Next]_vars
      PROVE  restartDraining /\ activeRootWork = {} /\ resets' = resets
               => activeRootWork' = {}
  BY <1>1, NewRootsDescend DEF Closed
<1> QED
  BY <1>1, AdmissionInvariant, PTL DEF Spec, DrainIsFinal
=============================================================================
