---------------------------- MODULE SessionDelivery ----------------------------
(***************************************************************************)
(* The gateway's durable queue of session deliveries: agent turns that     *)
(* must reach a session although the gateway may crash, be stopped or be   *)
(* restarted meanwhile (src/src/infra/session-delivery-queue-storage.ts,   *)
(* -recovery.ts and -runtime.ts, with the deliver functions of             *)
(* src/src/gateway/server-restart-sentinel*.ts).                           *)
(*                                                                         *)
(* Rows live in SQLite; every access is synchronous and may fail.  Three   *)
(* kinds of workers drain a row, one at a time: the runtime's timer of the *)
(* row, the recovery at the start of the gateway, and the restart sentinel *)
(* itself.  A worker's steps are what it awaits: the dispatch of the turn, *)
(* its adoption, its end, the callback of the settlement.  Clock time is   *)
(* left out (a timer may fire and find that it is too early), the pace of  *)
(* the recovery, the expiry of tombstones, and system events, which are    *)
(* delivered at once.                                                      *)
(***************************************************************************)
EXTENDS Integers, FiniteSets

CONSTANTS
  Entry,         \* the keys of rows
  NoEntry,
  MaxRetries,    \* of every row, and of the sentinel's own drains
  MaxStart,      \* starts of the gateway in one process
  MaxCrash

ASSUME SessionDeliveryAssumption ==
  /\ NoEntry \notin Entry
  /\ MaxRetries \in Nat \ {0} /\ MaxStart \in Nat /\ MaxCrash \in Nat

(* Who may drain: timers, recoveries, the restart sentinel.                *)
Timer(e) == <<"timer", e>>
Recovery(n) == <<"recovery", n>>
Sentinel(e) == <<"sentinel", e>>

Worker == {Timer(e) : e \in Entry} \cup {Recovery(n) : n \in 1..MaxStart}
            \cup {Sentinel(e) : e \in Entry}

VARIABLES
  row,        \* [Entry -> the durable row]
  worker,     \* [Worker -> where it stands, on which row (entriesInProgress)]
  installed,  \* there is a runtime
  timers,     \* scheduledEntries
  scanDue,    \* pendingScanTimer
  continued,  \* rows the sentinel has enqueued and been cleared for
  starts, crashes,
  runs,       \* history: [Entry -> agent runs that were accepted]
  delivered,  \* history: rows whose deliver function has returned
  told        \* history: rows whose settlement callback has succeeded

runtimeVars == <<installed, timers, scanDue>>
boundVars == <<continued, starts, crashes>>
history == <<runs, delivered, told>>
vars == <<row, worker, runtimeVars, boundVars, history>>

(* A turn handed over by a subagent that made media, or one that continues *)
(* a session after a restart.                                              *)
Kinds == {"media", "continuation"}

NoRow == [status |-> "absent", kind |-> "none", retries |-> 0, attempt |-> 0, charged |-> FALSE,
          started |-> FALSE, outcome |-> "none", busy |-> FALSE]

IsMedia(e) == row[e].kind = "media"
IsContinuation(e) == row[e].kind = "continuation"

Idle == [at |-> "idle", on |-> NoEntry, current |-> FALSE, left |-> {}, tries |-> 0]

Busy == {"starting", "reconciling", "owned", "accepted", "settling"}

Init ==
  /\ row = [e \in Entry |-> NoRow]
  /\ worker = [w \in Worker |-> Idle]
  /\ installed = FALSE /\ timers = {} /\ scanDue = FALSE
  /\ continued = {} /\ starts = 0 /\ crashes = 0
  /\ runs = [e \in Entry |-> 0] /\ delivered = {} /\ told = {}

-----------------------------------------------------------------------------
Pending(rows) == {e \in Entry : rows[e].status = "pending"}

(* Insert-only: a row is its own tombstone.                                *)
Inserted(e, kind) ==
  IF row[e].status = "absent"
  THEN [row EXCEPT ![e].status = "pending", ![e].kind = kind] ELSE row

(* A key stands for one turn, of one kind.                                 *)
KeyOf(e, kind) == row[e].kind \in {"none", kind}

(* Fault: a drain of an earlier runtime keeps the row from being armed.    *)
ArmUnlessDrained(es) == timers' = timers \cup {e \in es : worker[Timer(e)].at = "idle"}

(* armSessionDelivery: the timer's drain arms the row itself when it ends, *)
(* unless it belongs to an earlier runtime.                                *)
Arm(es) ==
  timers' = timers \cup {e \in es : ~(worker[Timer(e)].at # "idle" /\ worker[Timer(e)].current)}

(* Fault: a drain that leaves a settlement to be finished arms nothing.    *)
LeavesUnarmed(w, e, as) ==
  /\ w[1] = "timer"
  /\ worker' = [worker EXCEPT ![w] = Idle]
  /\ timers' = IF as.current /\ row'[e].status = "pending" /\ row'[e].outcome = "none"
               THEN timers \cup {e} ELSE timers

(***************************************************************************)
(* A worker, whose record has become `as', leaves a row.  The runtime      *)
(* reads it again and arms it if it is pending or could not be read, the   *)
(* recovery goes on to the next row, the sentinel waits and tries again if *)
(* the session was busy.                                                   *)
(***************************************************************************)
Leaves(w, e, as) ==
  \/ /\ w[1] = "timer"
     /\ worker' = [worker EXCEPT ![w] = Idle]
     /\ \/ timers' = IF as.current THEN timers \cup {e} ELSE timers
        \/ e \notin Pending(row') /\ UNCHANGED timers
  \/ /\ w[1] = "recovery"
     /\ worker' = [worker EXCEPT ![w] = [as EXCEPT !.at = "looping", !.on = NoEntry]]
     /\ UNCHANGED timers
  \/ /\ w[1] = "sentinel"
     /\ worker' = [worker EXCEPT ![w] =
          IF e \in Pending(row') /\ row'[e].busy /\ as.tries < MaxRetries
          THEN [as EXCEPT !.at = "pausing", !.on = NoEntry] ELSE Idle]
     /\ UNCHANGED timers

(* The retry budget is used up.  A started attempt at the limit is         *)
(* reconciled first.                                                       *)
Exhausted(r) ==
  r.retries >= MaxRetries /\ ~(r.started /\ r.retries = MaxRetries)

(* A worker turns to a row that no drain of this process has claimed: a    *)
(* settlement is finished, a spent row settled, any other one delivered.   *)
Drains(w, e, as) ==
  LET spent == row[e].outcome = "none" /\ Exhausted(row[e]) IN
  /\ \A v \in Worker : worker[v].on # e
  /\ e \in Pending(row)
  /\ row' = IF spent THEN [row EXCEPT ![e].outcome = "moved-to-failed"] ELSE row
  /\ worker' = [worker EXCEPT ![w] = [as EXCEPT !.on = e,
       !.at = IF row'[e].outcome # "none" THEN "settling"
              ELSE IF row[e].started THEN "reconciling" ELSE "starting"]]

-----------------------------------------------------------------------------
(* The timer of a row fires, and the row is drained ...                    *)
FireDrains(e) ==
  /\ e \in timers
  /\ worker[Timer(e)].at = "idle"
  /\ Drains(Timer(e), e, [Idle EXCEPT !.current = TRUE])
  /\ timers' = timers \ {e}
  /\ UNCHANGED <<installed, scanDue, boundVars, history>>

(* ... or not: an earlier runtime's timer still drains it, it is claimed,  *)
(* not due, not readable, not pending.                                     *)
FireSkips(e) ==
  /\ e \in timers
  /\ UNCHANGED timers \/ (e \notin Pending(row) /\ timers' = timers \ {e})
  /\ UNCHANGED <<row, worker, installed, scanDue, boundVars, history>>

(* The recovery tries the rows it has listed, and ends with a scan, early  *)
(* if its time is up or the database fails.                                *)
RecoveryTries(n, e) ==
  LET w == Recovery(n)
      as == [worker[w] EXCEPT !.left = @ \ {e}]
  IN
  /\ worker[w].at = "looping" /\ e \in worker[w].left
  /\ \/ Drains(w, e, as) /\ UNCHANGED timers
     \/ UNCHANGED row /\ Leaves(w, e, as)
  /\ UNCHANGED <<installed, scanDue, boundVars, history>>

(* schedulePendingSessionDeliveries: if it fails it is tried again.        *)
Scan(due) ==
  IF ~installed THEN UNCHANGED <<timers, scanDue>>
  ELSE \/ Arm(Pending(row)) /\ scanDue' = due
       \/ UNCHANGED timers /\ scanDue' = TRUE

RecoveryEnds(n) ==
  /\ worker[Recovery(n)].at = "looping"
  /\ worker' = [worker EXCEPT ![Recovery(n)] = Idle]
  /\ Scan(scanDue)
  /\ UNCHANGED <<row, installed, boundVars, history>>

ScanAgain ==
  /\ scanDue
  /\ Scan(FALSE)
  /\ UNCHANGED <<row, worker, installed, boundVars, history>>

(* The sentinel tries its row, at most so often.                           *)
SentinelTries(e) ==
  LET w == Sentinel(e)
      as == [worker[w] EXCEPT !.tries = @ + 1]
  IN
  /\ worker[w].at = "pausing"
  /\ \/ Drains(w, e, as) /\ UNCHANGED timers
     \/ UNCHANGED row /\ Leaves(w, e, as)
     \/ UNCHANGED <<row, timers>> /\ worker' = [worker EXCEPT ![w] = Idle]
  /\ UNCHANGED <<installed, scanDue, boundVars, history>>

-----------------------------------------------------------------------------
(* Fault: every error gives the attempt up.                                *)
ChargedReleasing(r, safe, busy) ==
  [r EXCEPT !.retries = @ + 1, !.charged = TRUE, !.busy = busy, !.started = FALSE]

(* failSessionDelivery: only an error that proves that nothing has         *)
(* happened gives the attempt up.                                          *)
Charged(r, safe, busy) ==
  [r EXCEPT !.retries = @ + 1, !.charged = TRUE, !.busy = busy,
            !.started = @ /\ ~safe]

(* Fault: a new attempt is free.                                           *)
AdvancedFree(r) ==
  [r EXCEPT !.attempt = @ + 1, !.charged = FALSE, !.started = FALSE]

(* rearmAgentRun: the attempt is charged once, then a new one begins.      *)
Advanced(r) ==
  [(IF r.charged THEN r ELSE Charged(r, FALSE, FALSE))
     EXCEPT !.attempt = @ + 1, !.charged = FALSE, !.started = FALSE]

(* The row is updated or, when the database fails, is not; the worker      *)
(* leaves.                                                                 *)
Updates(w, e, r) ==
  /\ row' = [row EXCEPT ![e] = r] \/ UNCHANGED row
  /\ Leaves(w, e, worker[w])

(* markSessionDeliveryAttemptStarted: before the dispatch of a media turn, *)
(* when the runner adopts a continuation.                                  *)
Own(w, e) ==
  /\ worker[w].at = "starting"
  /\ row' = [row EXCEPT ![e].started = TRUE]
  /\ worker' = [worker EXCEPT ![w].at = "owned"]
  /\ UNCHANGED <<timers, history>>

(* The agent accepts the turn.                                             *)
Accept(w, e) ==
  /\ worker[w].at = "owned"
  /\ runs' = [runs EXCEPT ![e] = @ + 1]
  /\ worker' = [worker EXCEPT ![w].at = "accepted"]
  /\ UNCHANGED <<row, timers, delivered, told>>

(* A failure before the agent has accepted the turn: for a media turn only *)
(* once it was started, for a continuation because the session is busy.    *)
FailSafely(w, e) ==
  /\ worker[w].at \in IF IsMedia(e) THEN {"owned"} ELSE {"starting", "owned"}
  /\ Updates(w, e, Charged(row[e], TRUE, IsContinuation(e)))
  /\ UNCHANGED history

(* Any other failure; a continuation may also fail while it is reconciled, *)
(* which keeps its attempt.                                                *)
Fail(w, e) ==
  /\ \/ worker[w].at \in {"starting", "accepted", "reconciling"}
     \/ worker[w].at = "owned" /\ IsContinuation(e)
  /\ Updates(w, e, Charged(row[e], FALSE, FALSE))
  /\ UNCHANGED history

(* The media turn has ended without all its media, and provably so: a new  *)
(* attempt; the charge may be stored and the advance not.                  *)
Rearm(w, e) ==
  /\ IsMedia(e)
  /\ worker[w].at \in {"accepted", "reconciling"} /\ runs[e] > row[e].attempt
  /\ \/ Updates(w, e, Advanced(row[e]))
     \/ /\ ~row[e].charged
        /\ row' = [row EXCEPT ![e] = Charged(@, FALSE, FALSE)]
        /\ Leaves(w, e, worker[w])
  /\ UNCHANGED history

(* The media turn is still under way, the attempt could not be marked, or  *)
(* a settlement not be stored.                                             *)
Defer(w, e) ==
  /\ \/ worker[w].at = "starting"
     \/ worker[w].at \in {"accepted", "reconciling"} /\ IsMedia(e)
     \/ worker[w].at = "reconciling"
  /\ UNCHANGED row
  /\ Leaves(w, e, worker[w])
  /\ UNCHANGED history

(* Settlements are stored over the row as it was when the drain began, in  *)
(* which the attempt was not started, or was.                              *)
Settled(w, e, outcome) ==
  /\ row' = [row EXCEPT ![e].outcome = outcome,
                        ![e].started = worker[w].at = "reconciling"]
  /\ worker' = [worker EXCEPT ![w].at = "settling"]
  /\ UNCHANGED timers

(* A started attempt of which nothing is proven is never repeated.         *)
DeadLetter(w, e) ==
  /\ \/ worker[w].at = "reconciling"
     \/ IsMedia(e) /\ worker[w].at \in {"starting", "accepted"}
  /\ Settled(w, e, "moved-to-failed")
  /\ UNCHANGED history

(* The turn has done its work; a continuation whose session was replaced   *)
(* is delivered as a system event, whatever was begun.                     *)
Succeed(w, e) ==
  /\ \/ worker[w].at = "accepted"
     \/ IsContinuation(e) /\ worker[w].at \in {"starting", "reconciling"}
     \/ IsMedia(e) /\ worker[w].at = "reconciling" /\ runs[e] > row[e].attempt
  /\ delivered' = delivered \cup {e}
  /\ \/ Settled(w, e, "recovered")
     \/ UNCHANGED row /\ Leaves(w, e, worker[w])
  /\ UNCHANGED <<runs, told>>

(* The tombstone, or the failed row, according to the outcome.             *)
Final(r) ==
  [r EXCEPT !.status = IF r.outcome = "recovered" THEN "completed" ELSE "failed"]

(* Fault: the row is settled whatever the callback says.                   *)
FinishUntold(w, e) ==
  /\ worker[w].at = "settling"
  /\ told' \in {told, told \cup {e}}
  /\ Updates(w, e, Final(row[e]))
  /\ UNCHANGED <<runs, delivered>>

(* The settlement's callback succeeds, then the row becomes final, or not; *)
(* if the callback fails the row is left as it is.                         *)
Finish(w, e) ==
  /\ worker[w].at = "settling"
  /\ \/ told' = told \cup {e} /\ Updates(w, e, Final(row[e]))
     \/ UNCHANGED <<row, told>> /\ Leaves(w, e, worker[w])
  /\ UNCHANGED <<runs, delivered>>

DrainStep(w, e) ==
  /\ worker[w].on = e
  /\ \/ Own(w, e) \/ Accept(w, e) \/ FailSafely(w, e) \/ Fail(w, e) \/ Rearm(w, e)
     \/ Defer(w, e) \/ DeadLetter(w, e) \/ Succeed(w, e) \/ Finish(w, e)
  /\ UNCHANGED <<installed, scanDue, boundVars>>

-----------------------------------------------------------------------------
(* A subagent hands a media turn over, for the first time or again.        *)
Handoff(e) ==
  /\ KeyOf(e, "media")
  /\ row' = Inserted(e, "media")
  /\ IF installed /\ e \in Pending(row') THEN Arm({e}) ELSE UNCHANGED timers
  /\ UNCHANGED <<worker, installed, scanDue, boundVars, history>>

(* The restart sentinel makes its continuation durable, is cleared, and    *)
(* drains the row itself.                                                  *)
Continue(e) ==
  /\ KeyOf(e, "continuation")
  /\ e \notin continued
  /\ worker[Sentinel(e)].at = "idle"
  /\ continued' = continued \cup {e}
  /\ row' = Inserted(e, "continuation")
  /\ worker' = [worker EXCEPT ![Sentinel(e)].at = "pausing"]
  /\ UNCHANGED <<runtimeVars, starts, crashes, history>>

(* The gateway starts: a runtime, and the recovery of pending rows, except *)
(* those that are younger than the gateway.                                *)
RuntimeStart ==
  /\ ~installed /\ starts < MaxStart
  /\ starts' = starts + 1
  /\ installed' = TRUE /\ timers' = {} /\ scanDue' = FALSE
  /\ \E older \in SUBSET Pending(row) :
       worker' = [worker EXCEPT ![Recovery(starts')] =
                    [Idle EXCEPT !.at = "looping", !.left = older]]
  /\ UNCHANGED <<row, continued, crashes, history>>

Orphaned == [w \in Worker |-> [worker[w] EXCEPT !.current = FALSE]]

(* Fault: the timers are left to themselves.                               *)
RuntimeStopKeepsTimers ==
  /\ installed
  /\ installed' = FALSE /\ scanDue' = FALSE
  /\ worker' = Orphaned
  /\ UNCHANGED <<row, timers, boundVars, history>>

(* The gateway stops, in this process: drains go on, for nobody.           *)
RuntimeStop ==
  /\ installed
  /\ installed' = FALSE /\ timers' = {} /\ scanDue' = FALSE
  /\ worker' = Orphaned
  /\ UNCHANGED <<row, boundVars, history>>

(* The process dies.  Where the sentinel was not cleared yet, it is there  *)
(* again.                                                                  *)
Crash ==
  /\ crashes < MaxCrash
  /\ crashes' = crashes + 1
  /\ starts' = 0
  /\ worker' = [w \in Worker |-> Idle]
  /\ installed' = FALSE /\ timers' = {} /\ scanDue' = FALSE
  /\ continued' \in SUBSET continued
  /\ UNCHANGED <<row, history>>

Next ==
  \/ \E e \in Entry :
       FireDrains(e) \/ FireSkips(e) \/ \E w \in Worker : DrainStep(w, e)
  \/ \E n \in 1..MaxStart : RecoveryEnds(n) \/ \E e \in Entry : RecoveryTries(n, e)
  \/ \E e \in Entry : Handoff(e) \/ Continue(e) \/ SentinelTries(e)
  \/ ScanAgain \/ RuntimeStart \/ RuntimeStop \/ Crash

Spec == Init /\ [][Next]_vars

(* Timers fire, what a worker awaits comes, and the database, asked again  *)
(* and again, answers: a row that keeps being due is drained, and a drain  *)
(* that keeps being begun gets something stored.                           *)
Fairness ==
  /\ \A e \in Entry :
       /\ WF_vars(FireDrains(e) \/ FireSkips(e))
       /\ SF_vars(FireDrains(e))
       /\ SF_vars(DrainStep(Timer(e), e) /\ row'[e] # row[e])
  /\ \A w \in Worker : WF_vars(\E e \in Entry : DrainStep(w, e))
  /\ \A n \in 1..MaxStart :
       WF_vars(RecoveryEnds(n) \/ \E e \in Entry : RecoveryTries(n, e))
  /\ WF_vars(ScanAgain) /\ SF_vars(ScanAgain /\ ~scanDue')

LiveSpec == Spec /\ Fairness
-----------------------------------------------------------------------------
(* Properties.                                                             *)

(* The types of the state; the runtime's timers and drains go with it.     *)
TypeOK ==
  /\ \A e \in Entry :
       /\ row[e].status \in {"absent", "pending", "failed", "completed"}
       /\ row[e].kind \in Kinds \cup {"none"}
       /\ row[e].outcome \in {"none", "recovered", "moved-to-failed"}
       /\ row[e].retries \in 0..MaxRetries + 1
  /\ \A w \in Worker :
       /\ worker[w].at \in Busy \cup {"idle", "looping", "pausing"}
       /\ worker[w].at \in Busy <=> worker[w].on \in Entry
       /\ worker[w].current => w[1] = "timer" /\ installed
  /\ timers \subseteq Entry
  /\ timers # {} \/ scanDue => installed

(* No agent turn is run twice: whatever crashes, restarts of the gateway,  *)
(* competing drains and failed writes come between, an attempt is accepted *)
(* at most once, and a new one needs the proof that the last one ended.    *)
RunOnce ==
  \A e \in Entry : runs[e] <= row[e].attempt + 1

(* Attempts do not come for free: each new one has used up a retry, even   *)
(* if its charge was stored and its advance was not, and a continuation    *)
(* has but one.                                                            *)
BudgetKept ==
  \A e \in Entry :
    /\ row[e].attempt <= row[e].retries
    /\ runs[e] <= MaxRetries
    /\ IsContinuation(e) => row[e].attempt = 0

(* A row that is final tells the truth: a completed one was delivered, and *)
(* whoever waits for the settlement has been told before.                  *)
FinalIsTrue ==
  \A e \in Entry :
    /\ row[e].status = "completed" => e \in delivered
    /\ row[e].status \in {"completed", "failed"} => e \in told

(* server-runtime-services.ts:286: persisted rows are not left without     *)
(* timers.  While there is a runtime every media turn has a timer, or is   *)
(* under a drain or ahead of a scan that will arm one.                     *)
RowsWatched ==
  \A e \in Entry : IsMedia(e) /\ installed /\ row[e].status = "pending" =>
    \/ e \in timers \/ scanDue
    \/ worker[Timer(e)].current
    \/ \E n \in 1..MaxStart : worker[Recovery(n)].at # "idle"

(* Helpers of the induction.  The records in full.                         *)
RowRecord ==
  [status : {"absent", "pending", "failed", "completed"}, kind : Kinds \cup {"none"},
   retries : 0..MaxRetries + 1, attempt : Nat, charged : BOOLEAN, started : BOOLEAN,
   outcome : {"none", "recovered", "moved-to-failed"}, busy : BOOLEAN]

WorkerRecord ==
  [at : Busy \cup {"idle", "looping", "pausing"}, on : Entry \cup {NoEntry},
   current : BOOLEAN, left : SUBSET Entry, tries : Nat]

Typed ==
  /\ row \in [Entry -> RowRecord] /\ worker \in [Worker -> WorkerRecord]
  /\ installed \in BOOLEAN /\ scanDue \in BOOLEAN /\ timers \in SUBSET Entry
  /\ starts \in 0..MaxStart /\ runs \in [Entry -> Nat]

(* What a row says of its turn: an attempt that is not marked as started   *)
(* was not accepted, and a charge that is stored pays for the next one.    *)
RowSound(e) ==
  /\ row[e].status = "absent" => row[e].attempt = 0
  /\ ~row[e].started /\ row[e].outcome = "none" => runs[e] <= row[e].attempt
  /\ row[e].attempt + (IF row[e].charged THEN 1 ELSE 0) <= row[e].retries
  /\ runs[e] <= row[e].attempt + 1 /\ runs[e] <= MaxRetries
  /\ row[e].kind = "continuation" => row[e].attempt = 0
  /\ row[e].outcome = "recovered" \/ row[e].status = "completed" => e \in delivered
  /\ row[e].status \in {"completed", "failed"} => e \in told

(* A worker on a row, and the row under it.                                *)
DrainSound(w) ==
  LET e == worker[w].on IN
  e \in Entry =>
    /\ row[e].status = "pending"
    /\ worker[w].at # "settling" => row[e].outcome = "none" /\ row[e].retries <= MaxRetries
    /\ worker[w].at \in {"starting", "owned"} =>
         row[e].retries < MaxRetries /\ runs[e] <= row[e].attempt
    /\ worker[w].at = "owned" => row[e].started

WorkerSound(w) ==
  /\ worker[w].at \in Busy <=> worker[w].on \in Entry
  /\ worker[w].current => w[1] = "timer" /\ installed
  /\ w[1] = "timer" => worker[w].on \in {w[2], NoEntry}

Exclusive ==
  \A v, w \in Worker : worker[v].on \in Entry /\ worker[v].on = worker[w].on => v = w

DeliveryInv ==
  /\ Typed
  /\ \A e \in Entry : RowSound(e)
  /\ \A w \in Worker : WorkerSound(w) /\ DrainSound(w)
  /\ Exclusive
  /\ timers # {} \/ scanDue => installed
  /\ RowsWatched

(* Every media turn is settled, unless the gateway stops.                  *)
Settles ==
  \A e \in Entry : IsMedia(e) /\ installed /\ row[e].status = "pending" ~>
                     row[e].status # "pending" \/ ~installed
=============================================================================
