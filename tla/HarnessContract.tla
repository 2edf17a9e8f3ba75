--------------------------- MODULE HarnessContract ---------------------------
(***************************************************************************)
(* What the callers of the Grok Build harness may rely on: the window, the *)
(* Telegram agent and the task scheduler see of a run only whether it was  *)
(* refused, how it ended and what isRunning says meanwhile.                *)
(*                                                                         *)
(* A run that was let in is not yet noticed by isRunning, so that runs can *)
(* overlap; and what isRunning says of one run another one may take back.  *)
(* GrokHarness implements this specification, TelegramAgent is built on it.*)
(***************************************************************************)
CONSTANT Run       \* the calls of run

VARIABLES
  standing,        \* [Run -> what has become of the call]
  engaged,         \* what isRunning answers
  stopping         \* a request to cancel is outstanding

contractVars == <<standing, engaged, stopping>>

Outcomes == {"completed", "cancelled", "failed"}

Standing == {"new", "refused", "starting", "working"} \cup Outcomes

Working == \E r \in Run : standing[r] = "working"

ContractInit ==
  /\ standing = [r \in Run |-> "new"]
  /\ engaged = FALSE
  /\ stopping = FALSE

(* The test at the start of run, and the awaits that follow it.            *)
Call(r) ==
  /\ standing[r] = "new"
  /\ standing' = [standing EXCEPT ![r] = IF engaged THEN "refused" ELSE "starting"]
  /\ UNCHANGED <<engaged, stopping>>

(* The run gets its advisors, its child, or its child's replacement.       *)
Engage(r) ==
  /\ standing[r] \in {"starting", "working"}
  /\ standing' = [standing EXCEPT ![r] = "working"]
  /\ engaged' = TRUE
  /\ stopping' \in BOOLEAN /\ (stopping' => stopping)

(* The run settles.  Whatever isRunning and the request say afterwards is  *)
(* about another run.                                                      *)
End(r, outcome) ==
  /\ standing[r] \in {"starting", "working"}
  /\ outcome # "failed" => standing[r] = "working"
  /\ outcome = "cancelled" => stopping
  /\ standing' = [standing EXCEPT ![r] = outcome]
  /\ engaged' \in BOOLEAN /\ (engaged' => engaged)
  /\ stopping' \in BOOLEAN /\ (stopping' => stopping)
  /\ engaged' \/ stopping' => Working'

(* cancel: there is something to stop only if isRunning says so.           *)
Cancel ==
  /\ stopping' = (stopping \/ engaged)
  /\ engaged' \in BOOLEAN /\ (engaged' => engaged)
  /\ UNCHANGED standing

ContractNext ==
  \/ \E r \in Run :
       Call(r) \/ Engage(r) \/ \E outcome \in Outcomes : End(r, outcome)
  \/ Cancel

ContractSpec == ContractInit /\ [][ContractNext]_contractVars
=============================================================================
