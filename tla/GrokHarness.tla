----------------------------- MODULE GrokHarness -----------------------------
(***************************************************************************)
(* The harness of Grok Build Desktop: run, cancel and isRunning of         *)
(* GrokBuildBackend (src/packages/desktop/src/main/grok-build-backend.ts). *)
(* One backend object serves the window, Telegram and the task scheduler.  *)
(* It remembers one child process and one consultation of advisors         *)
(* (Mixture of Agents), but a run reaches neither until several awaits     *)
(* after the test that no other run is under way.                          *)
(*                                                                         *)
(* A child process is named by its run: a run has a second one only after  *)
(* the first has exited.  The operating system and the Grok CLI are free   *)
(* to let a process exit at any time, in any way.                          *)
(***************************************************************************)
EXTENDS Naturals, FiniteSets

CONSTANTS
  Run,       \* the calls of run
  NoRun

ASSUME GrokHarnessAssumption ==
  /\ IsFiniteSet(Run)
  /\ NoRun \notin Run

VARIABLES
  current,          \* the run whose child is remembered
  cancelRequested,
  moaAbort,         \* the run whose AbortController is remembered
  stage,            \* [Run -> where the call stands]
  process,          \* [Run -> its newest child process]
  retried,          \* [Run -> its fallback child was started]
  protocolEnded,    \* [Run -> the child has said `end']
  killTimer,        \* [Run -> cancel's SIGKILL timer is armed for the child]
  asked,            \* history: [Run -> its stage when cancel was first called]
  alone             \* history: [Run -> no other was under way with it]

backendVars == <<current, cancelRequested, moaAbort>>
childVars == <<process, retried, protocolEnded, killTimer>>
history == <<asked, alone>>
vars == <<backendVars, stage, childVars, history>>

Underway == {"preflight", "consulting", "running"}

Stage == Underway \cup {"new", "refused", "completed", "cancelled", "failed"}

(* SIGTERM may be ignored, SIGKILL may not.                                *)
Alive == {"alive", "termed", "killed"}

Init ==
  /\ current = NoRun
  /\ cancelRequested = FALSE
  /\ moaAbort = NoRun
  /\ stage = [r \in Run |-> "new"]
  /\ process = [r \in Run |-> "none"]
  /\ retried = [r \in Run |-> FALSE]
  /\ protocolEnded = [r \in Run |-> FALSE]
  /\ killTimer = [r \in Run |-> FALSE]
  /\ asked = [r \in Run |-> "no"]
  /\ alone = [r \in Run |-> TRUE]

isRunning == current # NoRun \/ moaAbort # NoRun

-----------------------------------------------------------------------------
(* The start of run: the test, then the first await.                       *)
Call(r) ==
  /\ stage[r] = "new"
  /\ stage' = [stage EXCEPT ![r] = IF isRunning THEN "refused" ELSE "preflight"]
  /\ alone' = LET others == {s \in Run : stage[s] \in Underway}
              IN  IF isRunning \/ others = {} THEN alone
                  ELSE [s \in Run |-> alone[s] /\ s \notin others \cup {r}]
  /\ UNCHANGED <<backendVars, childVars, asked>>

(* No usable CLI, or arguments that do not parse.                          *)
Fails(r) ==
  /\ stage' = [stage EXCEPT ![r] = "failed"]
  /\ UNCHANGED <<current, cancelRequested, childVars>>

(***************************************************************************)
(* runChild.  The new child takes the place of whatever current was; a     *)
(* child that cannot be started reports its error before anything else     *)
(* runs, and leaves current empty.                                         *)
(***************************************************************************)
RunChild(r, again) ==
  /\ cancelRequested' = FALSE
  /\ retried' = [retried EXCEPT ![r] = again]
  /\ protocolEnded' = [protocolEnded EXCEPT ![r] = FALSE]
  /\ killTimer' = [killTimer EXCEPT ![r] = FALSE]
  /\ \/ /\ current' = r
        /\ process' = [process EXCEPT ![r] = "alive"]
        /\ stage' = [stage EXCEPT ![r] = "running"]
     \/ /\ current' = NoRun
        /\ process' = [process EXCEPT ![r] = "exited"]
        /\ stage' = [stage EXCEPT ![r] = "failed"]

(* The awaits of status, model sync, CLI flags and memory are over; a run  *)
(* with advisors consults them, any other starts its child.                *)
Consult(r) ==
  /\ stage[r] = "preflight"
  /\ stage' = [stage EXCEPT ![r] = "consulting"]
  /\ moaAbort' = r
  /\ UNCHANGED <<current, cancelRequested, childVars, history>>

Start(r) ==
  /\ stage[r] = "preflight"
  /\ Fails(r) \/ RunChild(r, FALSE)
  /\ UNCHANGED <<moaAbort, history>>

(* All advisors have answered, failed or been aborted.                     *)
Consulted(r) ==
  /\ stage[r] = "consulting"
  /\ moaAbort' = NoRun
  /\ IF cancelRequested
     THEN /\ cancelRequested' = FALSE
          /\ stage' = [stage EXCEPT ![r] = "cancelled"]
          /\ UNCHANGED <<current, childVars>>
     ELSE Fails(r) \/ RunChild(r, FALSE)
  /\ UNCHANGED history

-----------------------------------------------------------------------------
(* The child says that the run has ended.                                  *)
ProtocolEnds(r) ==
  /\ process[r] \in {"alive", "termed"}
  /\ ~protocolEnded[r]
  /\ protocolEnded' = [protocolEnded EXCEPT ![r] = TRUE]
  /\ UNCHANGED <<backendVars, stage, process, retried, killTimer, history>>

(* Fault: the timer's test of current is the wrong way round.              *)
CompletionTimerOfOthers(r) ==
  /\ protocolEnded[r]
  /\ process[r] = "alive"
  /\ current # r
  /\ process' = [process EXCEPT ![r] = "termed"]
  /\ UNCHANGED <<backendVars, stage, retried, protocolEnded, killTimer, history>>

(* The completion timer: a child that lingers is asked to go.              *)
CompletionTimer(r) ==
  /\ protocolEnded[r]
  /\ process[r] = "alive"
  /\ current = r
  /\ process' = [process EXCEPT ![r] = "termed"]
  /\ UNCHANGED <<backendVars, stage, retried, protocolEnded, killTimer, history>>

(***************************************************************************)
(* The exit handler, how being "zero", "nonzero" or "signal".  A failure   *)
(* whose message names the provider or the session is tried once more,     *)
(* before anything else runs.                                              *)
(***************************************************************************)
Outcome(r, how) ==
  IF cancelRequested /\ how = "signal" THEN "cancelled"
  ELSE IF how = "zero" \/ protocolEnded[r] THEN "completed" ELSE "failed"

(* Faults: the exit handler forgets the request only where it reports it;  *)
(* or it keeps the handle.                                                 *)
SettleKeepsRequest(r, how) ==
  /\ cancelRequested' = (cancelRequested /\ Outcome(r, how) # "cancelled")
  /\ current' = IF current = r THEN NoRun ELSE current
  /\ process' = [process EXCEPT ![r] = "exited"]
  /\ killTimer' = [killTimer EXCEPT ![r] = FALSE]
  /\ stage' = [stage EXCEPT ![r] = Outcome(r, how)]
  /\ UNCHANGED <<retried, protocolEnded>>

SettleKeepsCurrent(r, how) ==
  /\ cancelRequested' = FALSE
  /\ process' = [process EXCEPT ![r] = "exited"]
  /\ killTimer' = [killTimer EXCEPT ![r] = FALSE]
  /\ stage' = [stage EXCEPT ![r] = Outcome(r, how)]
  /\ UNCHANGED <<current, retried, protocolEnded>>

Settle(r, how) ==
  /\ cancelRequested' = FALSE
  /\ current' = IF current = r THEN NoRun ELSE current
  /\ process' = [process EXCEPT ![r] = "exited"]
  /\ killTimer' = [killTimer EXCEPT ![r] = FALSE]
  /\ stage' = [stage EXCEPT ![r] = Outcome(r, how)]
  /\ UNCHANGED <<retried, protocolEnded>>

Exit(r, how) ==
  /\ process[r] \in Alive
  /\ process[r] = "killed" => how = "signal"
  /\ \/ Settle(r, how)
     \/ Outcome(r, how) = "failed" /\ ~retried[r] /\ RunChild(r, TRUE)
  /\ UNCHANGED <<moaAbort, history>>

(* Fault: cancel aborts the advisors and forgets to say so.                *)
CancelAbortsOnly ==
  /\ \E r \in Run : stage[r] \in Underway
  /\ cancelRequested' = (cancelRequested \/ current # NoRun)
  /\ moaAbort' = NoRun
  /\ process' = [r \in Run |->
       IF r = current /\ process[r] = "alive" THEN "termed" ELSE process[r]]
  /\ killTimer' = [r \in Run |-> r = current \/ killTimer[r]]
  /\ asked' = [r \in Run |->
       IF asked[r] = "no" /\ stage[r] \in Underway THEN stage[r] ELSE asked[r]]
  /\ UNCHANGED <<current, stage, retried, protocolEnded, alone>>

(* cancel, while some run is under way.                                    *)
Cancel ==
  /\ \E r \in Run : stage[r] \in Underway
  /\ cancelRequested' = (cancelRequested \/ isRunning)
  /\ moaAbort' = NoRun
  /\ process' = [r \in Run |->
       IF r = current /\ process[r] = "alive" THEN "termed" ELSE process[r]]
  /\ killTimer' = [r \in Run |-> r = current \/ killTimer[r]]
  /\ asked' = [r \in Run |->
       IF asked[r] = "no" /\ stage[r] \in Underway THEN stage[r] ELSE asked[r]]
  /\ UNCHANGED <<current, stage, retried, protocolEnded, alone>>

(* Fault: the timer's test of current is the wrong way round.              *)
KillTimerOfOthers(r) ==
  /\ killTimer[r]
  /\ killTimer' = [killTimer EXCEPT ![r] = FALSE]
  /\ process' = [process EXCEPT ![r] = IF current # r THEN "killed" ELSE @]
  /\ UNCHANGED <<backendVars, stage, retried, protocolEnded, history>>

(* The timer of cancel: a child that is no longer current is spared.       *)
KillTimer(r) ==
  /\ killTimer[r]
  /\ killTimer' = [killTimer EXCEPT ![r] = FALSE]
  /\ process' = [process EXCEPT ![r] = IF current = r THEN "killed" ELSE @]
  /\ UNCHANGED <<backendVars, stage, retried, protocolEnded, history>>

Next ==
  \/ \E r \in Run :
       \/ Call(r) \/ Consult(r) \/ Start(r) \/ Consulted(r)
       \/ ProtocolEnds(r) \/ CompletionTimer(r) \/ KillTimer(r)
       \/ \E how \in {"zero", "nonzero", "signal"} : Exit(r, how)
  \/ Cancel

Spec == Init /\ [][Next]_vars

(***************************************************************************)
(* Timers fire and SIGKILL works.  Nothing makes a child heed SIGTERM, an  *)
(* advisor answer or a run start.                                          *)
(***************************************************************************)
Fairness ==
  \A r \in Run :
    /\ WF_vars(CompletionTimer(r))
    /\ WF_vars(KillTimer(r))
    /\ WF_vars(process[r] = "killed" /\ Exit(r, "signal"))

LiveSpec == Spec /\ Fairness
-----------------------------------------------------------------------------
(* Properties.                                                             *)

(* The types of the state.                                                 *)
TypeOK ==
  /\ current \in Run \cup {NoRun}
  /\ cancelRequested \in BOOLEAN
  /\ moaAbort \in Run \cup {NoRun}
  /\ stage \in [Run -> Stage]
  /\ process \in [Run -> Alive \cup {"none", "exited"}]
  /\ retried \in [Run -> BOOLEAN]
  /\ protocolEnded \in [Run -> BOOLEAN]
  /\ killTimer \in [Run -> BOOLEAN]
  /\ asked \in [Run -> Underway \cup {"no"}]
  /\ alone \in [Run -> BOOLEAN]

(* Whatever runs overlapped and however they ended, once none is under way *)
(* the backend is as it was at first: no handle that would refuse the next *)
(* run and no cancellation left over for it, although finish clears        *)
(* current only for its own child and exit handlers of two runs share one  *)
(* cancelRequested.                                                        *)
NoResidue ==
  (\A r \in Run : stage[r] \notin Underway) => ~isRunning /\ ~cancelRequested

(* The child that current names is alive and belongs to a run that is      *)
(* under way, and a run is only under way with a child or before it.       *)
ChildrenBelong ==
  /\ current # NoRun => process[current] \in Alive
  /\ \A r \in Run : stage[r] = "running" <=> process[r] \in Alive

(* Helpers of the induction: the remembered controller belongs to a        *)
(* consultation, and a request to cancel is one that some run will spend.  *)
HandleConsults == moaAbort # NoRun => stage[moaAbort] = "consulting"

RequestPending ==
  cancelRequested => \E r \in Run : stage[r] \in {"consulting", "running"}

(* The inductive invariant.                                                *)
IInv == TypeOK /\ ChildrenBelong /\ HandleConsults /\ RequestPending

(* A run with no other beside it is reported as cancelled only if cancel   *)
(* was called during it: no request of an earlier run reaches it.          *)
CancelReportTrue ==
  \A r \in Run : alone[r] /\ stage[r] = "cancelled" => asked[r] # "no"

(* A run alone that is cancelled while it consults its advisors never      *)
(* starts a process: the abort is not lost on the way to runChild.         *)
ConsultationStops ==
  \A r \in Run : alone[r] /\ asked[r] = "consulting" => process[r] = "none"

(* Helpers of the induction: runs that are under way together are not      *)
(* alone, a run has no child before runChild, and while a run is alone the *)
(* handle and the request of the backend are its own.                      *)
AloneApart ==
  \A r, s \in Run :
    r # s /\ stage[r] \in Underway /\ stage[s] \in Underway => ~alone[r]

NotYetStarted ==
  \A r \in Run :
    /\ stage[r] \in {"new", "refused", "preflight", "consulting"} => process[r] = "none"
    /\ stage[r] \in {"new", "refused", "preflight"} => asked[r] # "consulting"

AloneSound(r) ==
  /\ stage[r] = "consulting" /\ asked[r] = "no" => moaAbort = r
  /\ asked[r] = "consulting" => /\ process[r] = "none"
                                /\ \/ stage[r] = "consulting" /\ cancelRequested
                                   \/ stage[r] = "cancelled"
  /\ stage[r] \in Underway /\ cancelRequested => asked[r] # "no"
  /\ stage[r] = "cancelled" => asked[r] # "no"

AloneInv == /\ AloneApart /\ NotYetStarted
            /\ \A r \in Run : alone[r] => AloneSound(r)

(* A child alone that cancel has signalled is gone in the end, even if it  *)
(* heeds no SIGTERM.                                                       *)
CancelledChildGoes ==
  \A r \in Run :
    killTimer[r] ~> ~alone[r] \/ process[r] \notin {"termed", "killed"}

(* A child alone that has said `end' does not linger without being told to *)
(* go.                                                                     *)
EndedChildTold ==
  \A r \in Run :
    protocolEnded[r] /\ process[r] = "alive" ~> ~alone[r] \/ process[r] # "alive"

(* The callers' view: the run itself, isRunning and the request to cancel. *)
Seen(at) == IF at = "preflight" THEN "starting"
            ELSE IF at \in {"consulting", "running"} THEN "working" ELSE at

View == [r \in Run |-> Seen(stage[r])]

Contract == INSTANCE HarnessContract
  WITH standing <- View, engaged <- isRunning, stopping <- cancelRequested

(* However runs overlap, are cancelled or fall back to a second child, the *)
(* callers see no more than HarnessContract allows: isRunning never holds  *)
(* for a run that is over, and none is reported as cancelled without a     *)
(* request.                                                                *)
ImplementsContract == Contract!ContractSpec

(* docs/TELEGRAM.md:22: `the single active Grok Build harness'.            *)
SingleHarness == Cardinality({r \in Run : process[r] \in Alive}) <= 1

(* docs/TELEGRAM.md:41: `/cancel' - stop the active task.  A run that was  *)
(* under way when cancel was called does not start a process afterwards.   *)
CancelStops ==
  [][\A r \in Run :
       asked[r] # "no" /\ process[r] \notin Alive => process'[r] \notin Alive]_vars
=============================================================================
