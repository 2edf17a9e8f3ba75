-------------------------- MODULE GrokHarnessProofs --------------------------
(***************************************************************************)
(* What the harness of GrokHarness keeps for any number of runs, whether   *)
(* or not their callers wait for each other.                               *)
(***************************************************************************)
EXTENDS GrokHarness, TLAPS

(* The fresh backend (grok-build-backend.ts:88).                           *)
LEMMA InitInvariant == Init => IInv
<1> SUFFICES ASSUME Init PROVE IInv
  OBVIOUS
<1>1. TypeOK
  BY DEF Init, TypeOK, Stage, Underway, Alive
<1>2. ChildrenBelong /\ HandleConsults /\ RequestPending
  BY DEF Init, ChildrenBelong, HandleConsults, RequestPending, Alive
<1> QED
  BY <1>1, <1>2 DEF IInv

(* runChild, whoever calls it: a run that is about to have a child, and    *)
(* whose consultation is no longer remembered, gets one or fails; the      *)
(* request is cleared, so that it needs nobody to spend it.                *)
LEMMA RunChildStep ==
  ASSUME IInv, NEW r \in Run, NEW again \in BOOLEAN, RunChild(r, again),
         moaAbort' \in {moaAbort, NoRun}, moaAbort' # r, UNCHANGED history
  PROVE  IInv'
<1> USE GrokHarnessAssumption DEF GrokHarnessAssumption
<1>1. TypeOK'
  BY DEF IInv, TypeOK, RunChild, history, Stage, Underway, Alive
<1>2. ChildrenBelong'
  BY DEF IInv, TypeOK, ChildrenBelong, RunChild, Alive
<1>3. HandleConsults'
  BY DEF IInv, TypeOK, HandleConsults, RunChild
<1>4. RequestPending'
  BY DEF RequestPending, RunChild
<1> QED
  BY <1>1, <1>2, <1>3, <1>4 DEF IInv

(* A run that ends before it has a child, with no request outstanding or   *)
(* with the handle of its consultation released in the same step.          *)
LEMMA FailsStep ==
  ASSUME IInv, NEW r \in Run, Fails(r), UNCHANGED history,
         \/ stage[r] = "preflight" /\ moaAbort' = moaAbort
         \/ stage[r] = "consulting" /\ moaAbort' = NoRun /\ ~cancelRequested
  PROVE  IInv'
<1> USE GrokHarnessAssumption DEF GrokHarnessAssumption
<1>1. TypeOK'
  BY DEF IInv, TypeOK, Fails, childVars, history, Stage, Underway, Alive
<1>2. ChildrenBelong'
  BY DEF IInv, TypeOK, ChildrenBelong, Fails, childVars
<1>3. HandleConsults'
  BY DEF IInv, TypeOK, HandleConsults, Fails
<1>4. RequestPending'
  BY DEF IInv, TypeOK, RequestPending, Fails
<1> QED
  BY <1>1, <1>2, <1>3, <1>4 DEF IInv

(* The awaits of run: the call itself, the start of the consultation, the  *)
(* start of the child.                                                     *)
LEMMA PreflightStep ==
  ASSUME IInv, NEW r \in Run, Call(r) \/ Consult(r) \/ Start(r)
  PROVE  IInv'
<1> USE GrokHarnessAssumption DEF GrokHarnessAssumption
<1>1. CASE Call(r) \/ Consult(r)
  <2>1. alone' \in [Run -> BOOLEAN]
    <3>1. alone \in [Run -> BOOLEAN]
      BY DEF IInv, TypeOK
    <3>2. CASE alone' = alone
      BY <3>1, <3>2
    <3>3. CASE alone' # alone
      <4>1. PICK S : alone' = [s \in Run |-> alone[s] /\ s \notin S]
        BY <1>1, <3>3 DEF Call, Consult, history
      <4> QED
        BY <4>1
    <3> QED
      BY <3>2, <3>3
  <2>2. stage' \in [Run -> Stage]
    BY <1>1 DEF IInv, TypeOK, Call, Consult, Stage, Underway
  <2>3. TypeOK'
    BY <1>1, <2>1, <2>2 DEF IInv, TypeOK, Call, Consult, backendVars, childVars,
                            history
  <2>4. ChildrenBelong'
    BY <1>1 DEF IInv, TypeOK, ChildrenBelong, Call, Consult, backendVars, childVars
  <2>5. HandleConsults'
    BY <1>1 DEF IInv, TypeOK, HandleConsults, Call, Consult, backendVars
  <2>6. RequestPending'
    BY <1>1 DEF IInv, TypeOK, RequestPending, Call, Consult, backendVars
  <2> QED
    BY <2>3, <2>4, <2>5, <2>6 DEF IInv
<1>2. CASE Start(r)
  <2>1. /\ stage[r] = "preflight" /\ moaAbort' = moaAbort /\ UNCHANGED history
        /\ Fails(r) \/ RunChild(r, FALSE)
    BY <1>2 DEF Start
  <2>2. moaAbort' # r
    BY <2>1 DEF IInv, HandleConsults
  <2> QED
    BY <2>1, <2>2, FailsStep, RunChildStep
<1> QED
  BY <1>1, <1>2

(* The end of the consultation: the request, if there was one, is spent    *)
(* here.                                                                   *)
LEMMA ConsultedStep ==
  ASSUME IInv, NEW r \in Run, Consulted(r)
  PROVE  IInv'
<1> USE GrokHarnessAssumption DEF GrokHarnessAssumption
<1>1. stage[r] = "consulting" /\ moaAbort' = NoRun /\ UNCHANGED history
  BY DEF Consulted
<1>2. CASE cancelRequested
  <2>1. TypeOK'
    BY <1>2 DEF IInv, TypeOK, Consulted, childVars, history, Stage, Underway, Alive
  <2>2. ChildrenBelong'
    BY <1>2 DEF IInv, TypeOK, ChildrenBelong, Consulted, childVars
  <2>3. HandleConsults' /\ RequestPending'
    BY <1>2 DEF HandleConsults, RequestPending, Consulted
  <2> QED
    BY <2>1, <2>2, <2>3 DEF IInv
<1>3. CASE ~cancelRequested
  <2>1. Fails(r) \/ RunChild(r, FALSE)
    BY <1>3 DEF Consulted
  <2> QED
    BY <1>1, <1>3, <2>1, FailsStep, RunChildStep
<1> QED
  BY <1>2, <1>3

(* The events and timers that signal a child without ending it.            *)
LEMMA SignalStep ==
  ASSUME IInv, NEW r \in Run,
         ProtocolEnds(r) \/ CompletionTimer(r) \/ KillTimer(r)
  PROVE  IInv'
<1> USE GrokHarnessAssumption DEF GrokHarnessAssumption
<1>1. TypeOK'
  BY DEF IInv, TypeOK, ProtocolEnds, CompletionTimer, KillTimer, backendVars,
         history, Stage, Underway, Alive
<1>2. ChildrenBelong'
  BY DEF IInv, TypeOK, ChildrenBelong, ProtocolEnds, CompletionTimer, KillTimer,
         backendVars, Alive
<1>3. HandleConsults' /\ RequestPending'
  BY DEF IInv, HandleConsults, RequestPending, ProtocolEnds, CompletionTimer,
         KillTimer, backendVars
<1> QED
  BY <1>1, <1>2, <1>3 DEF IInv

(* The exit handler, with the fallback child of a failed run.              *)
LEMMA ExitStep ==
  ASSUME IInv, NEW r \in Run, NEW how \in {"zero", "nonzero", "signal"},
         Exit(r, how)
  PROVE  IInv'
<1> USE GrokHarnessAssumption DEF GrokHarnessAssumption
<1>1. /\ process[r] \in Alive /\ moaAbort' = moaAbort /\ UNCHANGED history
      /\ stage[r] = "running"
  BY DEF Exit, IInv, ChildrenBelong
<1>2. moaAbort # r
  BY <1>1 DEF IInv, HandleConsults
<1>3. CASE RunChild(r, TRUE)
  BY <1>1, <1>2, <1>3, RunChildStep
<1>4. CASE Settle(r, how)
  <2>1. Outcome(r, how) \in {"completed", "cancelled", "failed"}
    BY DEF Outcome
  <2>2. TypeOK'
    BY <1>1, <1>4, <2>1 DEF IInv, TypeOK, Settle, history, Stage, Underway, Alive
  <2>3. ChildrenBelong'
    BY <1>4, <2>1 DEF IInv, TypeOK, ChildrenBelong, Settle, Alive
  <2>4. HandleConsults'
    BY <1>1, <1>2, <1>4 DEF IInv, TypeOK, HandleConsults, Settle
  <2>5. RequestPending'
    BY <1>4 DEF RequestPending, Settle
  <2> QED
    BY <2>2, <2>3, <2>4, <2>5 DEF IInv
<1> QED
  BY <1>3, <1>4 DEF Exit

(* cancel: what it requests, a consultation or a child has still to spend. *)
LEMMA CancelStep ==
  ASSUME IInv, Cancel
  PROVE  IInv'
<1> USE GrokHarnessAssumption DEF GrokHarnessAssumption
<1>1. TypeOK'
  BY DEF IInv, TypeOK, Cancel, isRunning, Stage, Underway, Alive
<1>2. ChildrenBelong'
  BY DEF IInv, TypeOK, ChildrenBelong, Cancel, Alive
<1>3. HandleConsults'
  BY DEF HandleConsults, Cancel
<1>4. isRunning => \E r \in Run : stage[r] \in {"consulting", "running"}
  BY DEF IInv, TypeOK, ChildrenBelong, HandleConsults, isRunning
<1>5. RequestPending'
  BY <1>4 DEF IInv, RequestPending, Cancel
<1> QED
  BY <1>1, <1>2, <1>3, <1>5 DEF IInv

(* Every step of the harness, and of its surroundings, keeps the invariant.*)
LEMMA NextInvariant == IInv /\ [Next]_vars => IInv'
<1> SUFFICES ASSUME IInv, [Next]_vars PROVE IInv'
  OBVIOUS
<1>1. CASE UNCHANGED vars
  BY <1>1 DEF vars, backendVars, childVars, history, IInv, TypeOK, ChildrenBelong,
              HandleConsults, RequestPending
<1>2. CASE Cancel
  BY <1>2, CancelStep
<1>3. ASSUME NEW r \in Run, Call(r) \/ Consult(r) \/ Start(r) PROVE IInv'
  BY <1>3, PreflightStep
<1>4. ASSUME NEW r \in Run, Consulted(r) PROVE IInv'
  BY <1>4, ConsultedStep
<1>5. ASSUME NEW r \in Run, ProtocolEnds(r) \/ CompletionTimer(r) \/ KillTimer(r)
      PROVE  IInv'
  BY <1>5, SignalStep
<1>6. ASSUME NEW r \in Run, NEW how \in {"zero", "nonzero", "signal"}, Exit(r, how)
      PROVE  IInv'
  BY <1>6, ExitStep
<1> QED
  BY <1>1, <1>2, <1>3, <1>4, <1>5, <1>6 DEF Next

(* The invariant holds in every state, for any runs.                       *)
THEOREM Invariance == Spec => []IInv
  BY InitInvariant, NextInvariant, PTL DEF Spec

(* The fields of the backend keep their types.                             *)
THEOREM TypeCorrect == Spec => []TypeOK
<1>1. IInv => TypeOK
  BY DEF IInv
<1> QED
  BY <1>1, Invariance, PTL

(* The remembered child is alive and belongs to a run that is under way,   *)
(* and no child outlives its run (runChild, finish).                       *)
THEOREM ChildrenAccounted == Spec => []ChildrenBelong
<1>1. IInv => ChildrenBelong
  BY DEF IInv
<1> QED
  BY <1>1, Invariance, PTL

(* Runs that overlap, although run means to refuse them, leave neither a   *)
(* handle nor a request behind: the next run is neither refused nor        *)
(* cancelled on their account.                                             *)
THEOREM NothingLeftBehind == Spec => []NoResidue
<1>1. IInv => NoResidue
  BY DEF IInv, TypeOK, ChildrenBelong, HandleConsults, RequestPending, NoResidue,
         isRunning, Underway
<1> QED
  BY <1>1, Invariance, PTL

-----------------------------------------------------------------------------
(* The refinement.  Under the invariant, isRunning means that some run is  *)
(* working, and a request that some run will spend it.                     *)

(* A step that changes the stage of one run changes its standing alone.    *)
LEMMA ViewStep ==
  ASSUME TypeOK, NEW r \in Run, NEW to \in Stage,
         stage' = [stage EXCEPT ![r] = to]
  PROVE  View' = [View EXCEPT ![r] = Seen(to)]
BY DEF TypeOK, View, Seen

(* The fresh backend is the contract's.                                    *)
LEMMA InitMaps == Init => Contract!ContractInit
BY DEF Init, Contract!ContractInit, View, Seen, isRunning

(* Whoever is engaged or to be stopped is a run that is working.           *)
LEMMA SomeoneWorks ==
  ASSUME IInv'
  PROVE  isRunning' \/ cancelRequested' => Contract!Working'
<1> SUFFICES ASSUME isRunning' \/ cancelRequested'
             PROVE  Contract!Working'
  OBVIOUS
<1>1. PICK s \in Run : stage'[s] \in {"consulting", "running"}
  BY DEF IInv, TypeOK, ChildrenBelong, HandleConsults, RequestPending, isRunning
<1> QED
  BY <1>1 DEF Contract!Working, View, Seen

(* A run that gets a child engages, one whose child cannot be started has  *)
(* failed.                                                                 *)
LEMMA RunChildMaps ==
  ASSUME IInv, IInv', NEW r \in Run, NEW again \in BOOLEAN, RunChild(r, again),
         stage[r] \in Underway, moaAbort' \in {moaAbort, NoRun},
         isRunning' /\ stage'[r] = "failed" => isRunning
  PROVE  Contract!ContractNext
<1> USE GrokHarnessAssumption DEF GrokHarnessAssumption
<1>1. TypeOK /\ View[r] \in {"starting", "working"}
  BY DEF IInv, View, Seen, Underway
<1>2. /\ cancelRequested' = FALSE
      /\ \/ stage' = [stage EXCEPT ![r] = "running"] /\ current' = r
         \/ stage' = [stage EXCEPT ![r] = "failed"] /\ current' = NoRun
  BY DEF RunChild
<1>3. CASE stage' = [stage EXCEPT ![r] = "running"] /\ current' = r
  <2>1. View' = [View EXCEPT ![r] = "working"]
    BY <1>1, <1>3, ViewStep DEF Stage, Underway, Seen
  <2>2. isRunning'
    BY <1>3 DEF isRunning
  <2>3. Contract!Engage(r)
    BY <1>1, <1>2, <2>1, <2>2 DEF Contract!Engage
  <2> QED
    BY <2>3 DEF Contract!ContractNext
<1>4. CASE stage' = [stage EXCEPT ![r] = "failed"] /\ current' = NoRun
  <2>1. View' = [View EXCEPT ![r] = "failed"]
    BY <1>1, <1>4, ViewStep DEF Stage, Seen
  <2>2. stage'[r] = "failed"
    BY <1>1, <1>4 DEF TypeOK
  <2>3. isRunning' \in BOOLEAN /\ (isRunning' => isRunning)
    <3>1. isRunning' \in BOOLEAN
      BY DEF isRunning
    <3> QED
      BY <2>2, <3>1
  <2>4. isRunning' \/ cancelRequested' => Contract!Working'
    BY SomeoneWorks
  <2>5. Contract!End(r, "failed")
    BY <1>1, <1>2, <2>1, <2>3, <2>4 DEF Contract!End
  <2> QED
    BY <2>5 DEF Contract!ContractNext, Contract!Outcomes
<1> QED
  BY <1>2, <1>3, <1>4

(* A run that settles without another child.                               *)
LEMMA EndMaps ==
  ASSUME IInv, IInv', NEW r \in Run, NEW to \in Contract!Outcomes,
         stage[r] \in Underway, stage' = [stage EXCEPT ![r] = to],
         to # "failed" => stage[r] # "preflight",
         to = "cancelled" => cancelRequested,
         isRunning' => isRunning, cancelRequested' => cancelRequested
  PROVE  Contract!ContractNext
<1>1. TypeOK /\ TypeOK' /\ to \in Stage
  BY DEF IInv, Stage, Contract!Outcomes
<1>2. View' = [View EXCEPT ![r] = to]
  BY <1>1, ViewStep DEF Seen, Contract!Outcomes
<1>3. /\ View[r] \in {"starting", "working"}
      /\ to # "failed" => View[r] = "working"
  BY DEF View, Seen, Underway
<1>4. isRunning' \in BOOLEAN /\ cancelRequested' \in BOOLEAN
  BY <1>1 DEF isRunning, TypeOK
<1>5. isRunning' \/ cancelRequested' => Contract!Working'
  BY SomeoneWorks
<1>6. Contract!End(r, to)
  BY <1>2, <1>3, <1>4, <1>5 DEF Contract!End
<1> QED
  BY <1>6 DEF Contract!ContractNext

(* The test and the awaits of run.                                         *)
LEMMA PreflightMaps ==
  ASSUME IInv, IInv', NEW r \in Run, Call(r) \/ Consult(r) \/ Start(r)
  PROVE  Contract!ContractNext
<1> USE GrokHarnessAssumption DEF GrokHarnessAssumption
<1>1. TypeOK
  BY DEF IInv
<1>2. CASE Call(r)
  <2> DEFINE to == IF isRunning THEN "refused" ELSE "preflight"
  <2>1. View' = [View EXCEPT ![r] = IF isRunning THEN "refused" ELSE "starting"]
    <3>1. to \in Stage /\ stage' = [stage EXCEPT ![r] = to]
      BY <1>2 DEF Call, Stage, Underway
    <3>2. Seen(to) = IF isRunning THEN "refused" ELSE "starting"
      BY DEF Seen
    <3> HIDE DEF to
    <3> QED
      BY <1>1, <3>1, <3>2, ViewStep
  <2>2. View[r] = "new"
    BY <1>2 DEF Call, View, Seen
  <2>3. isRunning' = isRunning /\ cancelRequested' = cancelRequested
    BY <1>2 DEF Call, backendVars, isRunning
  <2>4. Contract!Call(r)
    BY <2>1, <2>2, <2>3 DEF Contract!Call
  <2> QED
    BY <2>4 DEF Contract!ContractNext
<1>3. CASE Consult(r)
  <2>1. View' = [View EXCEPT ![r] = "working"]
    BY <1>1, <1>3, ViewStep DEF Consult, Stage, Underway, Seen
  <2>2. View[r] = "starting" /\ cancelRequested' = cancelRequested
    BY <1>3 DEF Consult, View, Seen
  <2>3. isRunning' /\ cancelRequested' \in BOOLEAN
    BY <1>1, <1>3, <2>2 DEF Consult, isRunning, TypeOK
  <2>4. Contract!Engage(r)
    BY <2>1, <2>2, <2>3 DEF Contract!Engage
  <2> QED
    BY <2>4 DEF Contract!ContractNext
<1>4. CASE Start(r)
  <2>1. stage[r] = "preflight" /\ moaAbort' = moaAbort
    BY <1>4 DEF Start
  <2>2. CASE RunChild(r, FALSE)
    <3>1. isRunning' /\ stage'[r] = "failed" => isRunning
      BY <1>1, <2>1, <2>2 DEF RunChild, TypeOK, isRunning
    <3> QED
      BY <2>1, <2>2, <3>1, RunChildMaps DEF Underway
  <2>3. CASE Fails(r)
    BY <2>1, <2>3, EndMaps DEF Fails, Underway, Contract!Outcomes, isRunning
  <2> QED
    BY <1>4, <2>2, <2>3 DEF Start
<1> QED
  BY <1>2, <1>3, <1>4

(* The end of the consultation.                                            *)
LEMMA ConsultedMaps ==
  ASSUME IInv, IInv', NEW r \in Run, Consulted(r)
  PROVE  Contract!ContractNext
<1> USE GrokHarnessAssumption DEF GrokHarnessAssumption
<1>1. TypeOK /\ stage[r] = "consulting" /\ moaAbort' = NoRun
  BY DEF IInv, Consulted
<1>2. CASE cancelRequested
  <2>1. /\ stage' = [stage EXCEPT ![r] = "cancelled"]
        /\ isRunning' => isRunning
        /\ cancelRequested' = FALSE
    BY <1>1, <1>2 DEF Consulted, isRunning
  <2> QED
    BY <1>1, <1>2, <2>1, EndMaps DEF Underway, Contract!Outcomes
<1>3. CASE ~cancelRequested /\ Fails(r)
  <2>1. isRunning' => isRunning
    BY <1>1, <1>3 DEF Fails, isRunning
  <2> QED
    BY <1>1, <1>3, <2>1, EndMaps DEF Fails, Underway, Contract!Outcomes
<1>4. CASE RunChild(r, FALSE)
  <2>1. isRunning' /\ stage'[r] = "failed" => isRunning
    BY <1>1, <1>4 DEF RunChild, TypeOK, isRunning
  <2> QED
    BY <1>1, <1>4, <2>1, RunChildMaps DEF Underway
<1> QED
  BY <1>2, <1>3, <1>4 DEF Consulted

(* The exit handler.                                                       *)
LEMMA ExitMaps ==
  ASSUME IInv, IInv', NEW r \in Run, NEW how \in {"zero", "nonzero", "signal"},
         Exit(r, how)
  PROVE  Contract!ContractNext
<1> USE GrokHarnessAssumption DEF GrokHarnessAssumption
<1>1. TypeOK /\ stage[r] = "running" /\ moaAbort' = moaAbort
  BY DEF Exit, IInv, ChildrenBelong
<1>2. CASE Settle(r, how)
  <2>1. /\ Outcome(r, how) \in Contract!Outcomes
        /\ Outcome(r, how) = "cancelled" => cancelRequested
    BY DEF Outcome, Contract!Outcomes
  <2>2. /\ stage' = [stage EXCEPT ![r] = Outcome(r, how)]
        /\ isRunning' => isRunning
        /\ cancelRequested' = FALSE
    BY <1>1, <1>2 DEF Settle, isRunning
  <2> QED
    BY <1>1, <2>1, <2>2, EndMaps DEF Underway
<1>3. CASE RunChild(r, TRUE)
  <2>1. isRunning' /\ stage'[r] = "failed" => isRunning
    BY <1>1, <1>3 DEF RunChild, TypeOK, isRunning
  <2> QED
    BY <1>1, <1>3, <2>1, RunChildMaps DEF Underway
<1> QED
  BY <1>2, <1>3 DEF Exit

(* Every step of the harness is one of the contract, or one that callers   *)
(* cannot see.                                                             *)
LEMMA StepMaps ==
  IInv /\ IInv' /\ [Next]_vars => [Contract!ContractNext]_(Contract!contractVars)
<1> SUFFICES ASSUME IInv, IInv', [Next]_vars
             PROVE  \/ Contract!ContractNext
                    \/ View' = View /\ isRunning' = isRunning
                                    /\ cancelRequested' = cancelRequested
  BY DEF Contract!contractVars
<1>1. CASE UNCHANGED vars
  BY <1>1 DEF vars, backendVars, View, isRunning
<1>2. CASE Cancel
  <2>1. View' = View
    BY <1>2 DEF Cancel, View
  <2>2. isRunning' \in BOOLEAN /\ (isRunning' => isRunning)
    BY <1>2 DEF Cancel, isRunning
  <2>3. cancelRequested' = (cancelRequested \/ isRunning)
    BY <1>2 DEF Cancel
  <2>4. Contract!Cancel
    BY <2>1, <2>2, <2>3 DEF Contract!Cancel
  <2> QED
    BY <2>4 DEF Contract!ContractNext
<1>3. ASSUME NEW r \in Run, Call(r) \/ Consult(r) \/ Start(r)
      PROVE  Contract!ContractNext
  BY <1>3, PreflightMaps
<1>4. ASSUME NEW r \in Run, Consulted(r) PROVE Contract!ContractNext
  BY <1>4, ConsultedMaps
<1>5. ASSUME NEW r \in Run, ProtocolEnds(r) \/ CompletionTimer(r) \/ KillTimer(r)
      PROVE  View' = View /\ isRunning' = isRunning
                          /\ cancelRequested' = cancelRequested
  BY <1>5 DEF ProtocolEnds, CompletionTimer, KillTimer, backendVars, View, isRunning
<1>6. ASSUME NEW r \in Run, NEW how \in {"zero", "nonzero", "signal"}, Exit(r, how)
      PROVE  Contract!ContractNext
  BY <1>6, ExitMaps
<1> QED
  BY <1>1, <1>2, <1>3, <1>4, <1>5, <1>6 DEF Next

(* GrokHarness implements HarnessContract for any runs.                    *)
THEOREM ContractKept == Spec => ImplementsContract
  BY InitMaps, StepMaps, Invariance, PTL
     DEF Spec, ImplementsContract, Contract!ContractSpec

-----------------------------------------------------------------------------
(* Runs that are alone.  Nobody else's step spends or makes a request that *)
(* concerns them.                                                          *)

LEMMA InitAlone == Init => AloneInv
BY DEF Init, AloneInv, AloneApart, NotYetStarted, AloneSound, Underway

(* While a run is alone and under way, the handles are its own, and a      *)
(* request finds it with advisors or with a child.                         *)
LEMMA AloneOwns ==
  ASSUME IInv, AloneInv, NEW r \in Run, alone[r], stage[r] \in Underway
  PROVE  /\ \A s \in Run : s # r => stage[s] \notin Underway
         /\ cancelRequested => stage[r] \in {"consulting", "running"}
         /\ isRunning => stage[r] \in {"consulting", "running"}
BY DEF IInv, TypeOK, ChildrenBelong, HandleConsults, RequestPending, isRunning,
       AloneInv, AloneApart, Underway

(* A step of a run that is under way finds every other lone run at rest.   *)
LEMMA OtherAtRest ==
  ASSUME AloneInv, NEW r \in Run, stage[r] \in Underway, UNCHANGED history,
         NEW s \in Run, s # r, alone[s], stage'[s] = stage[s], process'[s] = process[s]
  PROVE  AloneSound(s)'
BY DEF AloneInv, AloneApart, AloneSound, Underway, history

(* A step of a run under way that leaves everyone else where they were.    *)
LEMMA AloneStep ==
  ASSUME IInv, AloneInv, NEW r \in Run, stage[r] \in Underway, UNCHANGED history,
         NEW to \in Stage, stage' = [stage EXCEPT ![r] = to], to # "new",
         NEW p, process' = [process EXCEPT ![r] = p],
         to \in {"refused", "preflight", "consulting"} => p = "none",
         to \in {"refused", "preflight"} => asked[r] # "consulting",
         alone[r] => AloneSound(r)'
  PROVE  AloneInv'
<1>1. TypeOK /\ stage'[r] = to /\ process'[r] = p
      /\ \A s \in Run : s # r => stage'[s] = stage[s] /\ process'[s] = process[s]
  BY DEF IInv, TypeOK
<1>2. AloneApart'
  BY <1>1 DEF AloneInv, AloneApart, history
<1>3. NotYetStarted'
  BY <1>1 DEF AloneInv, NotYetStarted, history
<1>4. \A s \in Run : alone'[s] => AloneSound(s)'
  BY <1>1, OtherAtRest DEF history
<1> QED
  BY <1>2, <1>3, <1>4 DEF AloneInv

(* runChild: the request is cleared, and a lone run that was stopped while *)
(* it consulted its advisors is not one that calls it.                     *)
LEMMA AloneRunChild ==
  ASSUME IInv, AloneInv, NEW r \in Run, stage[r] \in Underway, UNCHANGED history,
         NEW again \in BOOLEAN, RunChild(r, again),
         alone[r] => asked[r] # "consulting"
  PROVE  AloneInv'
<1>1. PICK to \in {"running", "failed"}, p \in {"alive", "exited"} :
        stage' = [stage EXCEPT ![r] = to] /\ process' = [process EXCEPT ![r] = p]
  BY DEF RunChild
<1>2. stage'[r] = to /\ cancelRequested' = FALSE
  BY <1>1 DEF RunChild, IInv, TypeOK
<1>3. alone[r] => AloneSound(r)'
  BY <1>2 DEF AloneSound, history
<1> QED
  BY <1>1, <1>3, AloneStep DEF Stage, Underway

(* The test of run.  One that is let in beside others takes them, and      *)
(* itself, off the lone runs.                                              *)
LEMMA AloneCall ==
  ASSUME IInv, AloneInv, NEW r \in Run, Call(r)
  PROVE  AloneInv'
<1> DEFINE others == {s \in Run : stage[s] \in Underway}
<1>1. /\ stage[r] = "new" /\ UNCHANGED <<backendVars, childVars, asked>>
      /\ \A s \in Run : s # r => stage'[s] = stage[s]
      /\ stage'[r] = IF isRunning THEN "refused" ELSE "preflight"
  BY DEF Call, IInv, TypeOK
<1>2. CASE isRunning \/ others = {}
  <2>1. alone' = alone
    BY <1>2 DEF Call
  <2>2. AloneApart'
    BY <1>1, <1>2, <2>1 DEF AloneInv, AloneApart, Underway
  <2>3. NotYetStarted'
    BY <1>1 DEF AloneInv, NotYetStarted, childVars
  <2>4. ~isRunning => ~cancelRequested
    BY <1>2 DEF IInv, RequestPending, Underway
  <2>5. AloneSound(r)'
    BY <1>1, <2>4 DEF AloneInv, NotYetStarted, AloneSound, Underway, backendVars
  <2>6. ASSUME NEW s \in Run, s # r, alone[s] PROVE AloneSound(s)'
    BY <1>1, <2>6 DEF AloneInv, AloneSound, backendVars, childVars
  <2> QED
    BY <2>1, <2>2, <2>3, <2>5, <2>6 DEF AloneInv
<1>3. CASE ~isRunning /\ others # {}
  <2>1. /\ \A s \in Run : alone'[s] => alone[s] /\ s \notin others /\ s # r
    <3>1. alone' = [s \in Run |-> alone[s] /\ s \notin others \cup {r}]
      BY <1>3, Zenon DEF Call
    <3> HIDE DEF others
    <3> QED
      BY <3>1, Zenon
  <2>2. AloneApart'
    BY <1>1, <2>1 DEF AloneApart, Underway
  <2>3. NotYetStarted'
    BY <1>1 DEF AloneInv, NotYetStarted, childVars
  <2>4. ASSUME NEW s \in Run, alone'[s] PROVE AloneSound(s)'
    BY <1>1, <2>1, <2>4 DEF AloneInv, AloneSound, backendVars, childVars
  <2> QED
    BY <2>2, <2>3, <2>4 DEF AloneInv
<1> QED
  BY <1>2, <1>3

(* The awaits of run.                                                      *)
LEMMA AlonePreflight ==
  ASSUME IInv, AloneInv, NEW r \in Run, Consult(r) \/ Start(r) \/ Consulted(r)
  PROVE  AloneInv'
<1>1. CASE Consult(r)
  <2>1. stage[r] = "preflight" /\ stage' = [stage EXCEPT ![r] = "consulting"]
        /\ moaAbort' = r /\ UNCHANGED <<current, cancelRequested, childVars, history>>
    BY <1>1 DEF Consult
  <2>2. process[r] = "none" /\ asked[r] # "consulting"
    BY <2>1 DEF AloneInv, NotYetStarted
  <2>3. alone[r] => ~cancelRequested
    BY <2>1, AloneOwns DEF Underway
  <2>4. alone[r] => AloneSound(r)'
    BY <2>1, <2>2, <2>3 DEF AloneSound, history, childVars, IInv, TypeOK
  <2>5. process' = [process EXCEPT ![r] = "none"]
    BY <2>1, <2>2 DEF childVars, IInv, TypeOK
  <2> QED
    BY <2>1, <2>4, <2>5, AloneStep DEF Stage, Underway
<1>2. ASSUME Fails(r), stage[r] \in {"preflight", "consulting"}, UNCHANGED history,
             alone[r] => asked[r] # "consulting"
      PROVE  AloneInv'
  <2>1. process' = [process EXCEPT ![r] = process[r]] /\ stage'[r] = "failed"
    BY <1>2 DEF Fails, childVars, IInv, TypeOK
  <2>2. alone[r] => AloneSound(r)'
    BY <1>2, <2>1 DEF AloneSound, history, Underway
  <2> QED
    BY <1>2, <2>1, <2>2, AloneStep DEF Fails, Stage, Underway
<1>3. CASE Start(r)
  <2>1. stage[r] = "preflight" /\ UNCHANGED history /\ asked[r] # "consulting"
        /\ (Fails(r) \/ RunChild(r, FALSE))
    BY <1>3 DEF Start, AloneInv, NotYetStarted
  <2> QED
    BY <1>2, <2>1, AloneRunChild DEF Underway
<1>4. CASE Consulted(r) /\ ~cancelRequested
  <2>1. stage[r] = "consulting" /\ UNCHANGED history /\ (Fails(r) \/ RunChild(r, FALSE))
    BY <1>4 DEF Consulted
  <2>2. alone[r] => asked[r] # "consulting"
    BY <1>4, <2>1 DEF AloneInv, AloneSound
  <2> QED
    BY <1>2, <1>4, <2>1, <2>2, AloneRunChild DEF Underway, Consulted
<1>5. CASE Consulted(r) /\ cancelRequested
  <2>1. /\ stage[r] = "consulting" /\ stage' = [stage EXCEPT ![r] = "cancelled"]
        /\ UNCHANGED <<childVars, history>>
    BY <1>5 DEF Consulted
  <2>2. stage'[r] = "cancelled" /\ process' = [process EXCEPT ![r] = process[r]]
    BY <2>1 DEF childVars, IInv, TypeOK
  <2>3. process'[r] = "none" /\ (alone[r] => asked[r] # "no")
    BY <1>5, <2>1 DEF AloneInv, NotYetStarted, AloneSound, Underway, childVars
  <2>4. alone[r] => AloneSound(r)'
    BY <2>2, <2>1, <2>3 DEF AloneSound, history, Underway
  <2> QED
    BY <2>1, <2>2, <2>4, AloneStep DEF Stage, Underway
<1> QED
  BY <1>1, <1>3, <1>4, <1>5

(* The events and timers that signal a child without ending it.            *)
LEMMA AloneSignal ==
  ASSUME IInv, AloneInv, NEW r \in Run,
         ProtocolEnds(r) \/ CompletionTimer(r) \/ KillTimer(r)
  PROVE  AloneInv'
<1>1. UNCHANGED <<backendVars, stage, history>>
  BY DEF ProtocolEnds, CompletionTimer, KillTimer
<1>2. \A s \in Run : process'[s] = process[s] \/ stage[s] = "running"
  BY GrokHarnessAssumption
     DEF GrokHarnessAssumption, ProtocolEnds, CompletionTimer, KillTimer, IInv, TypeOK, ChildrenBelong, Alive
<1>3. AloneApart'
  BY <1>1 DEF AloneInv, AloneApart, history
<1>4. NotYetStarted'
  BY <1>1, <1>2 DEF AloneInv, NotYetStarted, history
<1>5. \A s \in Run : alone'[s] => AloneSound(s)'
  BY <1>1, <1>2 DEF AloneInv, AloneSound, history, backendVars
<1> QED
  BY <1>3, <1>4, <1>5 DEF AloneInv

(* The exit handler reports `cancelled' only for a request.                *)
LEMMA AloneExit ==
  ASSUME IInv, AloneInv, NEW r \in Run, NEW how \in {"zero", "nonzero", "signal"},
         Exit(r, how)
  PROVE  AloneInv'
<1>1. stage[r] = "running" /\ UNCHANGED history
  BY DEF Exit, IInv, ChildrenBelong
<1>2. alone[r] => asked[r] # "consulting"
  BY <1>1 DEF AloneInv, AloneSound
<1>3. CASE RunChild(r, TRUE)
  BY <1>1, <1>2, <1>3, AloneRunChild DEF Underway
<1>4. CASE Settle(r, how)
  <2>1. PICK to \in {"completed", "cancelled", "failed"} :
          to = Outcome(r, how) /\ (to = "cancelled" => cancelRequested)
    BY DEF Outcome
  <2>2. /\ stage' = [stage EXCEPT ![r] = to] /\ stage'[r] = to
        /\ process' = [process EXCEPT ![r] = "exited"]
    BY <1>4, <2>1 DEF Settle, IInv, TypeOK
  <2>3. alone[r] /\ to = "cancelled" => asked[r] # "no"
    BY <1>1, <2>1 DEF AloneInv, AloneSound, Underway
  <2>4. alone[r] => AloneSound(r)'
    BY <1>1, <1>2, <2>2, <2>3 DEF AloneSound, history, Underway
  <2> QED
    BY <1>1, <2>1, <2>2, <2>4, AloneStep DEF Stage, Underway
<1> QED
  BY <1>3, <1>4 DEF Exit

(* cancel: a lone run that consults its advisors is engaged, so that the   *)
(* abort of its controller leaves a request behind.                        *)
LEMMA AloneCancel ==
  ASSUME IInv, AloneInv, Cancel
  PROVE  AloneInv'
<1> USE GrokHarnessAssumption DEF GrokHarnessAssumption
<1>1. /\ UNCHANGED <<stage, alone>> /\ moaAbort' = NoRun
      /\ cancelRequested' = (cancelRequested \/ isRunning)
      /\ \A s \in Run : asked'[s] = IF asked[s] = "no" /\ stage[s] \in Underway
                                    THEN stage[s] ELSE asked[s]
  BY DEF Cancel
<1>2. \A s \in Run : process'[s] = process[s] \/ stage[s] = "running"
  BY DEF Cancel, IInv, TypeOK, ChildrenBelong, Alive
<1>3. AloneApart'
  BY <1>1 DEF AloneInv, AloneApart
<1>4. NotYetStarted'
  BY <1>1, <1>2 DEF AloneInv, NotYetStarted, Underway
<1>5. ASSUME NEW s \in Run, alone'[s] PROVE AloneSound(s)'
  <2>1. alone[s] /\ AloneSound(s)
    BY <1>1, <1>5 DEF AloneInv
  <2>2. stage[s] \in Underway => asked'[s] # "no"
    BY <1>1 DEF Underway
  <2>3. stage[s] = "cancelled" => asked'[s] # "no"
    BY <1>1, <2>1 DEF AloneSound, Underway
  <2>4. CASE asked'[s] = "consulting"
    <3>1. CASE asked[s] = "consulting"
      <4>1. (cancelRequested' \/ stage[s] = "cancelled") /\ process'[s] = "none"
        BY <1>1, <1>2, <2>1, <3>1 DEF AloneSound
      <4> QED
        BY <1>1, <2>1, <2>2, <2>3, <3>1, <4>1 DEF AloneSound, Underway
    <3>2. CASE asked[s] # "consulting"
      <4>1. stage[s] = "consulting" /\ moaAbort = s
        BY <1>1, <2>1, <2>4, <3>2 DEF AloneSound
      <4>2. cancelRequested' /\ process'[s] = "none"
        BY <1>1, <1>2, <4>1 DEF isRunning, AloneInv, NotYetStarted
      <4> QED
        BY <1>1, <2>2, <2>3, <4>1, <4>2 DEF AloneSound, Underway
    <3> QED
      BY <3>1, <3>2
  <2>5. CASE asked'[s] # "consulting"
    BY <1>1, <2>2, <2>3, <2>5 DEF AloneSound, Underway
  <2> QED
    BY <2>4, <2>5
<1> QED
  BY <1>3, <1>4, <1>5 DEF AloneInv

LEMMA NextAlone == IInv /\ AloneInv /\ [Next]_vars => AloneInv'
<1> SUFFICES ASSUME IInv, AloneInv, [Next]_vars PROVE AloneInv'
  OBVIOUS
<1>1. CASE UNCHANGED vars
  BY <1>1 DEF vars, backendVars, childVars, history, AloneInv, AloneApart,
              NotYetStarted, AloneSound
<1> QED
  BY <1>1, AloneCall, AlonePreflight, AloneSignal, AloneExit, AloneCancel DEF Next

(* The second inductive invariant, on top of the first.                    *)
THEOREM AloneInvariance == Spec => []AloneInv
  BY InitAlone, NextAlone, Invariance, PTL DEF Spec

(* A run with no other beside it is reported as cancelled only if cancel   *)
(* was called during it: the request of an earlier run does not reach it.  *)
THEOREM CancelReported == Spec => []CancelReportTrue
<1>1. AloneInv => CancelReportTrue
  BY DEF AloneInv, AloneSound, CancelReportTrue
<1> QED
  BY <1>1, AloneInvariance, PTL

(* A lone run whose advisors were aborted starts no process.               *)
THEOREM AbortKeepsFromChild == Spec => []ConsultationStops
<1>1. AloneInv => ConsultationStops
  BY DEF AloneInv, AloneSound, ConsultationStops
<1> QED
  BY <1>1, AloneInvariance, PTL
=============================================================================

