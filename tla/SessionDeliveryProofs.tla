------------------------- MODULE SessionDeliveryProofs -------------------------
(***************************************************************************)
(* What the queue of session deliveries keeps for any number of rows,      *)
(* retries, starts of the gateway and crashes.                             *)
(***************************************************************************)
EXTENDS SessionDelivery, TLAPS

USE SessionDeliveryAssumption DEF SessionDeliveryAssumption

(* Workers are told apart by their kind, and timers by their row.          *)
LEMMA WorkerNames ==
  /\ \A e \in Entry : Timer(e) \in Worker /\ Timer(e)[1] = "timer" /\ Timer(e)[2] = e
  /\ \A e \in Entry : Sentinel(e) \in Worker /\ Sentinel(e)[1] = "sentinel"
  /\ \A n \in 1..MaxStart : Recovery(n) \in Worker /\ Recovery(n)[1] = "recovery"
  /\ \A w \in Worker : /\ w[1] \in {"timer", "recovery", "sentinel"}
                       /\ w[1] = "timer" => w[2] \in Entry /\ w = Timer(w[2])
                       /\ w[1] = "recovery" => \E n \in 1..MaxStart : w = Recovery(n)
BY DEF Worker, Timer, Recovery, Sentinel

LEMMA RestRecords ==
  /\ Idle \in WorkerRecord /\ Idle.at = "idle" /\ Idle.on = NoEntry /\ Idle.current = FALSE
  /\ NoRow \in RowRecord
BY DEF Idle, WorkerRecord, NoRow, RowRecord

(* An empty database, nobody at work.                                      *)
LEMMA InitDelivery == Init => DeliveryInv
<1> SUFFICES ASSUME Init PROVE DeliveryInv
  OBVIOUS
<1> USE RestRecords DEF Init
<1>1. Typed
  <2>1. installed \in BOOLEAN /\ scanDue \in BOOLEAN
    BY Zenon
  <2> QED
    BY <2>1 DEF Typed
<1>2. ASSUME NEW e \in Entry PROVE RowSound(e)
  BY DEF RowSound, NoRow
<1>3. ASSUME NEW w \in Worker PROVE WorkerSound(w) /\ DrainSound(w)
  <2>1. worker[w].at = "idle" /\ worker[w].on = NoEntry /\ worker[w].current = FALSE
    OBVIOUS
  <2> QED
    BY <2>1 DEF WorkerSound, DrainSound, Busy
<1>4. Exclusive /\ RowsWatched
  BY DEF Exclusive, RowsWatched
<1> QED
  BY <1>1, <1>2, <1>3, <1>4 DEF DeliveryInv

-----------------------------------------------------------------------------
(* What a step may do without breaking anything.                           *)

(* Whether row e is looked after by the runtime.                           *)
Watched(e) ==
  \/ e \in timers \/ scanDue \/ worker[Timer(e)].current
  \/ \E n \in 1..MaxStart : worker[Recovery(n)].at # "idle"

(* Worker w, whose record becomes x, moves over row e, which nobody else   *)
(* is on and which becomes r.                                              *)
Moved(w, e, r, x) ==
  /\ row' = [row EXCEPT ![e] = r] /\ worker' = [worker EXCEPT ![w] = x]
  /\ \A v \in Worker : v # w => worker[v].on # e
  /\ x.on \in {e, NoEntry}
  /\ w[1] = "timer" => w = Timer(e)
  /\ w[1] = "recovery" => x.at # "idle"
  /\ runs' \in [Entry -> Nat] /\ \A f \in Entry : f # e => runs'[f] = runs[f]
  /\ delivered \subseteq delivered' /\ told \subseteq told'
  /\ UNCHANGED <<installed, scanDue, starts>>
  /\ row[e].status = "pending" /\ r.kind = row[e].kind
  /\ timers' \in SUBSET Entry /\ (timers' # {} => installed)
  /\ timers \ {e} \subseteq timers'
  /\ r.status = "pending" /\ (e \in timers \/ worker[Timer(e)].current)
     => e \in timers' \/ worker'[Timer(e)].current

(* Such a move keeps what is said of the others.                           *)
LEMMA MoveStep ==
  ASSUME DeliveryInv, NEW w \in Worker, NEW e \in Entry,
         NEW r \in RowRecord, NEW x \in WorkerRecord, Moved(w, e, r, x),
         RowSound(e)', WorkerSound(w)', DrainSound(w)'
  PROVE  DeliveryInv'
<1> USE DEF DeliveryInv, Moved
<1>1. Typed'
  BY DEF Typed
<1>2. /\ worker'[w] = x /\ \A v \in Worker : v # w => worker'[v] = worker[v]
      /\ row'[e] = r /\ \A f \in Entry : f # e => row'[f] = row[f]
  BY DEF Typed
<1>3. ASSUME NEW f \in Entry PROVE RowSound(f)'
  BY <1>2 DEF RowSound
<1>4. ASSUME NEW v \in Worker PROVE WorkerSound(v)' /\ DrainSound(v)'
  <2>1. CASE v = w
    BY <2>1
  <2>2. CASE v # w
    <3>1. worker'[v] = worker[v] /\ worker[v].on # e
      BY <1>2, <2>2
    <3>2. WorkerSound(v)'
      BY <3>1 DEF WorkerSound
    <3>3. DrainSound(v)'
      BY <1>2, <3>1 DEF DrainSound
    <3> QED
      BY <3>2, <3>3
  <2> QED
    BY <2>1, <2>2
<1>5. Exclusive'
  BY <1>2 DEF Exclusive
<1>6. RowsWatched'
  <2>1. SUFFICES ASSUME NEW f \in Entry, row'[f].kind = "media", installed,
                        row'[f].status = "pending"
                 PROVE  Watched(f)'
    BY DEF RowsWatched, IsMedia, Watched
  <2>2. Watched(f)
    BY <1>2, <2>1 DEF RowsWatched, IsMedia, Watched
  <2>3. ASSUME NEW n \in 1..MaxStart, worker[Recovery(n)].at # "idle"
        PROVE  worker'[Recovery(n)].at # "idle"
    BY <1>2, <2>3, WorkerNames
  <2>4. CASE f = e
    BY <1>2, <2>1, <2>2, <2>3, <2>4, WorkerNames DEF Watched
  <2>5. CASE f # e
    <3>1. Timer(f) # w
      BY <2>5, WorkerNames
    <3> QED
      BY <1>2, <2>2, <2>3, <2>5, <3>1, WorkerNames DEF Watched
  <2> QED
    BY <2>4, <2>5
<1> QED
  BY <1>1, <1>3, <1>4, <1>5, <1>6

(* One worker moves that is on no row and turns to none.                   *)
LEMMA RestStep ==
  ASSUME DeliveryInv, NEW w \in Worker,
         NEW x \in WorkerRecord, worker' = [worker EXCEPT ![w] = x],
         x.on = NoEntry, x.at \notin Busy, x.current = FALSE,
         UNCHANGED <<row, installed, starts, runs, delivered, told>>,
         timers' \in SUBSET Entry, scanDue' \in BOOLEAN,
         timers' # {} \/ scanDue' => installed, RowsWatched'
  PROVE  DeliveryInv'
<1> USE DEF DeliveryInv
<1>1. Typed'
  BY DEF Typed
<1>2. worker'[w] = x /\ \A v \in Worker : v # w => worker'[v] = worker[v]
  BY DEF Typed
<1>3. ASSUME NEW f \in Entry PROVE RowSound(f)'
  BY DEF RowSound
<1>4. ASSUME NEW v \in Worker PROVE WorkerSound(v)' /\ DrainSound(v)'
  BY <1>2 DEF WorkerSound, DrainSound
<1>5. Exclusive'
  BY <1>2 DEF Exclusive
<1> QED
  BY <1>1, <1>3, <1>4, <1>5

(* A worker that leaves a row rests; a timer of this runtime arms a row    *)
(* that is still pending.                                                  *)
LEMMA LeavesForms ==
  ASSUME DeliveryInv, NEW w \in Worker, NEW e \in Entry, NEW as \in WorkerRecord,
         as.current => w[1] = "timer", Leaves(w, e, as)
  PROVE  \E x \in WorkerRecord :
           /\ worker' = [worker EXCEPT ![w] = x]
           /\ x.on = NoEntry /\ x.at \notin Busy /\ x.current = FALSE
           /\ w[1] = "recovery" => x.at # "idle"
           /\ timers \subseteq timers' /\ timers' \subseteq timers \cup {e}
           /\ timers' # timers => as.current
           /\ as.current /\ row'[e].status = "pending" => e \in timers'
<1>1. CASE w[1] = "timer"
  <2>1. /\ worker' = [worker EXCEPT ![w] = Idle]
        /\ \/ timers' = IF as.current THEN timers \cup {e} ELSE timers
           \/ e \notin Pending(row') /\ UNCHANGED timers
    BY <1>1 DEF Leaves
  <2>2. /\ timers \subseteq timers' /\ timers' \subseteq timers \cup {e}
        /\ timers' # timers => as.current
        /\ as.current /\ row'[e].status = "pending" => e \in timers'
    BY <2>1 DEF Pending
  <2> QED
    BY <1>1, <2>1, <2>2, RestRecords DEF Busy
<1>2. CASE w[1] = "recovery"
  <2> DEFINE x == [as EXCEPT !.at = "looping", !.on = NoEntry]
  <2>1. worker' = [worker EXCEPT ![w] = x] /\ UNCHANGED timers
    BY <1>2 DEF Leaves
  <2>2. /\ x \in WorkerRecord /\ x.on = NoEntry /\ x.at = "looping"
        /\ x.current = FALSE /\ ~as.current
    BY <1>2 DEF WorkerRecord
  <2> HIDE DEF x
  <2> QED
    BY <2>1, <2>2 DEF Busy
<1>3. CASE w[1] = "sentinel"
  <2>1. /\ UNCHANGED timers
        /\ \E x \in {[as EXCEPT !.at = "pausing", !.on = NoEntry], Idle} :
             worker' = [worker EXCEPT ![w] = x]
    BY <1>3 DEF Leaves
  <2>2. \A x \in {[as EXCEPT !.at = "pausing", !.on = NoEntry], Idle} :
          /\ x \in WorkerRecord /\ x.on = NoEntry /\ x.at \in {"pausing", "idle"}
          /\ x.current = FALSE
    BY <1>3, RestRecords DEF WorkerRecord
  <2>3. ~as.current
    BY <1>3
  <2> QED
    BY <1>3, <2>1, <2>2, <2>3 DEF Busy
<1> QED
  BY <1>1, <1>2, <1>3, WorkerNames

-----------------------------------------------------------------------------
(* Steps of a drain.                                                       *)

(* What holds of a row while a worker is on it.                            *)
LEMMA Draining ==
  ASSUME DeliveryInv, NEW w \in Worker, NEW e \in Entry, worker[w].on = e
  PROVE  /\ row[e] \in RowRecord /\ worker[w] \in WorkerRecord
         /\ RowSound(e) /\ row[e].status = "pending"
         /\ worker[w].at \in Busy
         /\ worker[w].at # "settling" =>
              row[e].outcome = "none" /\ row[e].retries <= MaxRetries
         /\ worker[w].at \in {"starting", "owned"} =>
              row[e].retries < MaxRetries /\ runs[e] <= row[e].attempt
         /\ worker[w].at = "owned" => row[e].started
         /\ worker[w].current => w[1] = "timer" /\ installed
         /\ w[1] = "timer" => w = Timer(e)
         /\ \A v \in Worker : v # w => worker[v].on # e
         /\ runs[e] \in Nat
<1>1. row[e] \in RowRecord /\ worker[w] \in WorkerRecord /\ runs[e] \in Nat
  BY DEF DeliveryInv, Typed
<1>2. RowSound(e) /\ WorkerSound(w) /\ DrainSound(w) /\ Exclusive
  BY DEF DeliveryInv
<1>3. /\ worker[w].at \in Busy /\ (worker[w].current => w[1] = "timer" /\ installed)
      /\ w[1] = "timer" => w[2] = e
  BY <1>2 DEF WorkerSound
<1>4. w[1] = "timer" => w = Timer(e)
  BY <1>3, WorkerNames
<1>5. \A v \in Worker : v # w => worker[v].on # e
  BY <1>2 DEF Exclusive
<1>6. /\ row[e].status = "pending"
      /\ worker[w].at # "settling" =>
           row[e].outcome = "none" /\ row[e].retries <= MaxRetries
      /\ worker[w].at \in {"starting", "owned"} =>
           row[e].retries < MaxRetries /\ runs[e] <= row[e].attempt
      /\ worker[w].at = "owned" => row[e].started
  BY <1>2 DEF DrainSound
<1> QED
  BY <1>1, <1>2, <1>3, <1>4, <1>5, <1>6

(* The row becomes r, and the worker leaves.                               *)
LEMMA LeavingStep ==
  ASSUME DeliveryInv, NEW w \in Worker, NEW e \in Entry, worker[w].on = e,
         NEW r \in RowRecord, row' = [row EXCEPT ![e] = r], r.kind = row[e].kind,
         Leaves(w, e, worker[w]),
         UNCHANGED <<installed, scanDue, starts, runs>>,
         delivered \subseteq delivered', told \subseteq told', RowSound(e)'
  PROVE  DeliveryInv'
<1>1. PICK x \in WorkerRecord :
        /\ worker' = [worker EXCEPT ![w] = x]
        /\ x.on = NoEntry /\ x.at \notin Busy /\ x.current = FALSE
        /\ w[1] = "recovery" => x.at # "idle"
        /\ timers \subseteq timers' /\ timers' \subseteq timers \cup {e}
        /\ timers' # timers => worker[w].current
        /\ worker[w].current /\ row'[e].status = "pending" => e \in timers'
  <2>1. worker[w] \in WorkerRecord /\ (worker[w].current => w[1] = "timer")
    BY Draining
  <2> QED
    BY <2>1, LeavesForms
<1>2. worker'[w] = x /\ row'[e] = r
  BY <1>1 DEF DeliveryInv, Typed
<1>3. WorkerSound(w)' /\ DrainSound(w)'
  BY <1>1, <1>2 DEF WorkerSound, DrainSound
<1>4. timers' \in SUBSET Entry /\ (timers' # {} => installed)
  BY <1>1, Draining DEF DeliveryInv, Typed
<1>5. /\ r.status = "pending" /\ (e \in timers \/ worker[Timer(e)].current)
      => e \in timers' \/ worker'[Timer(e)].current
  BY <1>1, <1>2, WorkerNames DEF DeliveryInv, Typed
<1>6. /\ \A v \in Worker : v # w => worker[v].on # e
      /\ w[1] = "timer" => w = Timer(e)
      /\ row[e].status = "pending" /\ x.on \in {e, NoEntry}
      /\ runs' \in [Entry -> Nat] /\ \A f \in Entry : f # e => runs'[f] = runs[f]
      /\ timers \ {e} \subseteq timers'
  BY <1>1, Draining DEF DeliveryInv, Typed
<1>7. UNCHANGED <<installed, scanDue, starts>>
  OBVIOUS
<1> QED
  <2>1. Moved(w, e, r, x)
    BY <1>1, <1>4, <1>5, <1>6, <1>7 DEF Moved
  <2> QED
    BY <1>3, <2>1, MoveStep

(* The worker stays on the row, one step further.                          *)
LEMMA StayingStep ==
  ASSUME DeliveryInv, NEW w \in Worker, NEW e \in Entry, worker[w].on = e,
         NEW r \in RowRecord, row' = [row EXCEPT ![e] = r], r.kind = row[e].kind,
         r.status = "pending",
         NEW at \in Busy, worker' = [worker EXCEPT ![w].at = at],
         UNCHANGED <<installed, scanDue, starts, timers>>,
         runs' \in [Entry -> Nat], \A f \in Entry : f # e => runs'[f] = runs[f],
         delivered \subseteq delivered', told \subseteq told', RowSound(e)',
         at # "settling" => r.outcome = "none" /\ r.retries <= MaxRetries,
         at \in {"starting", "owned"} =>
           r.retries < MaxRetries /\ runs'[e] <= r.attempt /\ r.started
  PROVE  DeliveryInv'
<1> DEFINE x == [worker[w] EXCEPT !.at = at]
<1>1. /\ x \in WorkerRecord /\ x.at = at /\ x.on = e /\ x.current = worker[w].current
      /\ worker' = [worker EXCEPT ![w] = x]
  BY DEF DeliveryInv, Typed, WorkerRecord
<1> HIDE DEF x
<1>2. worker'[w] = x /\ row'[e] = r
  BY <1>1 DEF DeliveryInv, Typed
<1>3. WorkerSound(w)'
  BY <1>1, <1>2 DEF DeliveryInv, WorkerSound
<1>4. DrainSound(w)'
  BY <1>1, <1>2 DEF DrainSound
<1>5. /\ \A v \in Worker : v # w => worker[v].on # e
      /\ w[1] = "timer" => w = Timer(e)
      /\ w[1] = "recovery" => x.at # "idle"
      /\ row[e].status = "pending" /\ x.on \in {e, NoEntry}
  BY <1>1, Draining DEF Busy
<1>6. /\ timers' \in SUBSET Entry /\ (timers' # {} => installed)
      /\ timers \ {e} \subseteq timers'
      /\ UNCHANGED <<installed, scanDue, starts>>
  BY DEF DeliveryInv, Typed
<1>7. \A v \in Worker : worker'[v].current = worker[v].current
  BY <1>1, <1>2 DEF DeliveryInv, Typed
<1>8. /\ r.status = "pending" /\ (e \in timers \/ worker[Timer(e)].current)
      => e \in timers' \/ worker'[Timer(e)].current
  BY <1>7, WorkerNames
<1> QED
  <2>1. Moved(w, e, r, x)
    BY <1>1, <1>5, <1>6, <1>8 DEF Moved
  <2> QED
    BY <1>1, <1>3, <1>4, <2>1, MoveStep

(* What Updates may write: a row that is sound before and after.           *)
LEMMA UpdatesStep ==
  ASSUME DeliveryInv, NEW w \in Worker, NEW e \in Entry, worker[w].on = e,
         NEW r \in RowRecord, r.kind = row[e].kind, Updates(w, e, r),
         UNCHANGED <<installed, scanDue, starts, runs>>,
         delivered \subseteq delivered', told \subseteq told',
         row'[e] = r => RowSound(e)'
  PROVE  DeliveryInv'
<1>1. row \in [Entry -> RowRecord] /\ Leaves(w, e, worker[w])
  BY DEF DeliveryInv, Typed, Updates
<1>2. CASE row' = [row EXCEPT ![e] = r]
  <2>1. RowSound(e)'
    BY <1>1, <1>2
  <2> QED
    BY <1>1, <1>2, <2>1, LeavingStep
<1>3. CASE UNCHANGED row
  <2>1. row' = [row EXCEPT ![e] = row[e]] /\ row[e] \in RowRecord
    BY <1>1, <1>3
  <2>2. RowSound(e)'
    BY <1>3 DEF DeliveryInv, RowSound
  <2> QED
    BY <1>1, <2>1, <2>2, LeavingStep
<1> QED
  BY <1>2, <1>3 DEF Updates

(* failSessionDelivery.                                                    *)
LEMMA ChargedRow ==
  ASSUME NEW q \in RowRecord, q.retries <= MaxRetries,
         NEW safe \in BOOLEAN, NEW busy \in BOOLEAN
  PROVE  /\ Charged(q, safe, busy) \in RowRecord
         /\ Charged(q, safe, busy).status = q.status
         /\ Charged(q, safe, busy).kind = q.kind
         /\ Charged(q, safe, busy).outcome = q.outcome
         /\ Charged(q, safe, busy).attempt = q.attempt
         /\ Charged(q, safe, busy).retries = q.retries + 1
         /\ Charged(q, safe, busy).started = (q.started /\ ~safe)
<1>1. q.retries + 1 \in 0..MaxRetries + 1
  BY DEF RowRecord
<1> QED
  BY <1>1 DEF Charged, RowRecord

(* rearmAgentRun: the charge for an attempt is there when the next begins. *)
LEMMA AdvancedRow ==
  ASSUME NEW q \in RowRecord, q.retries <= MaxRetries
  PROVE  /\ Advanced(q) \in RowRecord
         /\ Advanced(q).status = q.status /\ Advanced(q).kind = q.kind
         /\ Advanced(q).outcome = q.outcome
         /\ Advanced(q).attempt = q.attempt + 1 /\ Advanced(q).charged = FALSE
         /\ Advanced(q).retries = IF q.charged THEN q.retries ELSE q.retries + 1
<1> DEFINE c == IF q.charged THEN q ELSE Charged(q, FALSE, FALSE)
<1>1. /\ c \in RowRecord /\ c.status = q.status /\ c.kind = q.kind
      /\ c.outcome = q.outcome /\ c.attempt = q.attempt
      /\ c.retries = IF q.charged THEN q.retries ELSE q.retries + 1
  BY ChargedRow
<1> HIDE DEF c
<1>2. Advanced(q) = [c EXCEPT !.attempt = @ + 1, !.charged = FALSE, !.started = FALSE]
  BY DEF Advanced, c
<1>3. c.attempt + 1 \in Nat
  BY <1>1 DEF RowRecord
<1>4. Advanced(q) \in RowRecord
  BY <1>1, <1>2, <1>3 DEF RowRecord
<1>5. /\ Advanced(q).status = c.status /\ Advanced(q).kind = c.kind
      /\ Advanced(q).outcome = c.outcome /\ Advanced(q).retries = c.retries
      /\ Advanced(q).attempt = c.attempt + 1 /\ Advanced(q).charged = FALSE
  BY <1>1, <1>2 DEF RowRecord
<1> QED
  BY <1>1, <1>4, <1>5

(* A failure charges the row; the attempt is given up only where the agent *)
(* has not accepted it.                                                    *)
LEMMA FailStep ==
  ASSUME DeliveryInv, NEW w \in Worker, NEW e \in Entry, worker[w].on = e,
         FailSafely(w, e) \/ Fail(w, e), UNCHANGED <<installed, scanDue, starts>>
  PROVE  DeliveryInv'
<1>1. UNCHANGED history /\ worker[w].at # "settling"
  BY DEF FailSafely, Fail
<1>2. row[e].retries <= MaxRetries /\ row[e] \in RowRecord
  BY <1>1, Draining
<1>3. PICK safe \in BOOLEAN, busy \in BOOLEAN :
        /\ Updates(w, e, Charged(row[e], safe, busy))
        /\ safe => worker[w].at \in {"starting", "owned"}
  BY DEF FailSafely, Fail, IsContinuation
<1> DEFINE r == Charged(row[e], safe, busy)
<1>4. /\ r \in RowRecord /\ r.kind = row[e].kind /\ r.status = row[e].status
      /\ r.outcome = row[e].outcome /\ r.attempt = row[e].attempt
      /\ r.retries = row[e].retries + 1 /\ r.started = (row[e].started /\ ~safe)
  BY <1>2, ChargedRow
<1> HIDE DEF r
<1>5. ~r.started /\ r.outcome = "none" => runs[e] <= r.attempt
  BY <1>3, <1>4, Draining DEF RowSound
<1>6. row'[e] = r => RowSound(e)'
  <2>1. /\ row[e].attempt <= row[e].retries /\ row[e].attempt \in Nat
        /\ row[e].retries \in Nat
    BY Draining DEF RowSound, RowRecord
  <2>2. r.attempt + (IF r.charged THEN 1 ELSE 0) <= r.retries
    BY <1>4, <2>1
  <2> QED
    BY <1>1, <1>4, <1>5, <2>2, Draining DEF RowSound, history
<1> QED
  BY <1>1, <1>3, <1>4, <1>6, UpdatesStep DEF r, history

(* Rearming needs the proof that the attempt was accepted and has ended,   *)
(* and has charged it once by the time the next one begins.                *)
LEMMA RearmStep ==
  ASSUME DeliveryInv, NEW w \in Worker, NEW e \in Entry, worker[w].on = e,
         Rearm(w, e), UNCHANGED <<installed, scanDue, starts>>
  PROVE  DeliveryInv'
<1>1. /\ UNCHANGED history /\ worker[w].at # "settling"
      /\ row[e].kind = "media" /\ runs[e] > row[e].attempt
  BY DEF Rearm, IsMedia
<1>2. /\ row[e].retries <= MaxRetries /\ row[e] \in RowRecord
      /\ row[e].attempt + (IF row[e].charged THEN 1 ELSE 0) <= row[e].retries
      /\ row[e].attempt \in Nat /\ row[e].retries \in Nat /\ row[e].status = "pending"
  BY <1>1, Draining DEF RowSound, RowRecord
<1>3. CASE Updates(w, e, Advanced(row[e]))
  <2> DEFINE r == Advanced(row[e])
  <2>1. /\ r \in RowRecord /\ r.status = row[e].status /\ r.kind = row[e].kind
        /\ r.outcome = row[e].outcome
        /\ r.attempt = row[e].attempt + 1 /\ r.charged = FALSE
        /\ r.retries = IF row[e].charged THEN row[e].retries ELSE row[e].retries + 1
    BY <1>2, AdvancedRow
  <2> HIDE DEF r
  <2>2. row'[e] = r => RowSound(e)'
    BY <1>1, <1>2, <2>1, Draining DEF RowSound, history
  <2> QED
    BY <1>1, <1>3, <2>1, <2>2, UpdatesStep DEF r, history
<1>4. CASE /\ ~row[e].charged
           /\ row' = [row EXCEPT ![e] = Charged(@, FALSE, FALSE)]
           /\ Leaves(w, e, worker[w])
  <2> DEFINE r == Charged(row[e], FALSE, FALSE)
  <2>1. /\ r \in RowRecord /\ r.kind = row[e].kind /\ r.status = row[e].status
        /\ r.outcome = row[e].outcome /\ r.attempt = row[e].attempt
        /\ r.retries = row[e].retries + 1 /\ r.started = row[e].started
    <3>1. row[e].started \in BOOLEAN
      BY <1>2 DEF RowRecord
    <3> QED
      BY <1>2, <3>1, ChargedRow
  <2>2. row' = [row EXCEPT ![e] = r] /\ row'[e] = r
    BY <1>4 DEF DeliveryInv, Typed
  <2> HIDE DEF r
  <2>3. r.attempt + (IF r.charged THEN 1 ELSE 0) <= r.retries
    BY <1>2, <1>4, <2>1
  <2>4. RowSound(e)'
    BY <1>1, <1>2, <2>1, <2>2, <2>3, Draining DEF RowSound, history
  <2> QED
    BY <1>1, <1>4, <2>1, <2>2, <2>4, LeavingStep DEF history
<1> QED
  BY <1>3, <1>4 DEF Rearm

(* The attempt is marked as started, then the agent accepts the turn.      *)
LEMMA OwnStep ==
  ASSUME DeliveryInv, NEW w \in Worker, NEW e \in Entry, worker[w].on = e,
         Own(w, e), UNCHANGED <<installed, scanDue, starts>>
  PROVE  DeliveryInv'
<1> DEFINE r == [row[e] EXCEPT !.started = TRUE]
<1>1. /\ worker[w].at = "starting" /\ UNCHANGED <<timers, runs, delivered, told>>
      /\ worker' = [worker EXCEPT ![w].at = "owned"]
  BY DEF Own, history
<1>2. row' = [row EXCEPT ![e] = r] /\ row'[e] = r
  BY DEF Own, DeliveryInv, Typed
<1>3. /\ r \in RowRecord /\ r.kind = row[e].kind /\ r.status = row[e].status
      /\ r.outcome = row[e].outcome /\ r.attempt = row[e].attempt
      /\ r.retries = row[e].retries /\ r.charged = row[e].charged /\ r.started = TRUE
  <2>1. row[e] \in RowRecord
    BY Draining
  <2> QED
    BY <2>1 DEF RowRecord
<1> HIDE DEF r
<1>4. RowSound(e)'
  BY <1>1, <1>2, <1>3, Draining DEF RowSound
<1>5. /\ r.status = "pending" /\ r.outcome = "none" /\ r.retries < MaxRetries
      /\ r.retries <= MaxRetries /\ runs'[e] <= r.attempt /\ r.started
  BY <1>1, <1>3, Draining
<1> QED
  BY <1>1, <1>2, <1>3, <1>4, <1>5, StayingStep DEF Busy, DeliveryInv, Typed

LEMMA AcceptStep ==
  ASSUME DeliveryInv, NEW w \in Worker, NEW e \in Entry, worker[w].on = e,
         Accept(w, e), UNCHANGED <<installed, scanDue, starts>>
  PROVE  DeliveryInv'
<1>1. /\ worker[w].at = "owned" /\ UNCHANGED <<row, timers, delivered, told>>
      /\ worker' = [worker EXCEPT ![w].at = "accepted"]
      /\ runs' = [runs EXCEPT ![e] = @ + 1]
  BY DEF Accept
<1>2. row' = [row EXCEPT ![e] = row[e]] /\ row[e] \in RowRecord
  BY <1>1 DEF DeliveryInv, Typed
<1>3. runs' \in [Entry -> Nat] /\ runs'[e] = runs[e] + 1
      /\ \A f \in Entry : f # e => runs'[f] = runs[f]
  BY <1>1 DEF DeliveryInv, Typed
<1>4. /\ row[e].started /\ runs[e] <= row[e].attempt /\ row[e].retries < MaxRetries
      /\ row[e].outcome = "none" /\ row[e].status = "pending" /\ RowSound(e)
      /\ row[e].attempt \in Nat /\ row[e].retries \in Nat /\ runs[e] \in Nat
  BY <1>1, Draining DEF RowRecord
<1>5. RowSound(e)'
  BY <1>1, <1>3, <1>4 DEF RowSound
<1>6. row[e].retries <= MaxRetries /\ delivered \subseteq delivered' /\ told \subseteq told'
  BY <1>1, <1>4
<1> QED
  BY <1>1, <1>2, <1>3, <1>4, <1>5, <1>6, StayingStep DEF Busy

(* A settlement is stored, and the worker turns to its callback.           *)
LEMMA SettledStep ==
  ASSUME DeliveryInv, NEW w \in Worker, NEW e \in Entry, worker[w].on = e,
         NEW outcome \in {"recovered", "moved-to-failed"}, Settled(w, e, outcome),
         UNCHANGED <<installed, scanDue, starts, runs, told>>,
         delivered \subseteq delivered', outcome = "recovered" => e \in delivered'
  PROVE  DeliveryInv'
<1> DEFINE r == [row[e] EXCEPT !.outcome = outcome,
                               !.started = worker[w].at = "reconciling"]
<1>1. /\ worker' = [worker EXCEPT ![w].at = "settling"] /\ UNCHANGED timers
      /\ row' = [row EXCEPT ![e] = r] /\ row'[e] = r
  BY DEF Settled, DeliveryInv, Typed
<1>2. /\ r \in RowRecord /\ r.kind = row[e].kind /\ r.status = row[e].status
      /\ r.outcome = outcome /\ r.attempt = row[e].attempt
      /\ r.retries = row[e].retries /\ r.charged = row[e].charged
  <2>1. row[e] \in RowRecord
    BY Draining
  <2> DEFINE started == worker[w].at = "reconciling"
  <2>2. started \in BOOLEAN
    BY Zenon
  <2> HIDE DEF started
  <2>3. r = [row[e] EXCEPT !.outcome = outcome, !.started = started]
    BY DEF started
  <2> HIDE DEF r
  <2> QED
    BY <2>1, <2>2, <2>3 DEF RowRecord
<1> HIDE DEF r
<1>3. RowSound(e)'
  BY <1>1, <1>2, Draining DEF RowSound
<1>4. r.status = "pending"
  BY <1>2, Draining
<1> QED
  BY <1>1, <1>2, <1>3, <1>4, StayingStep DEF Busy, DeliveryInv, Typed

(* The worker leaves the row as it is.                                     *)
LEMMA UntouchedStep ==
  ASSUME DeliveryInv, NEW w \in Worker, NEW e \in Entry, worker[w].on = e,
         UNCHANGED <<row, installed, scanDue, starts, runs>>, Leaves(w, e, worker[w]),
         delivered \subseteq delivered', told \subseteq told'
  PROVE  DeliveryInv'
<1>1. row' = [row EXCEPT ![e] = row[e]] /\ row[e] \in RowRecord
  BY DEF DeliveryInv, Typed
<1>2. RowSound(e)'
  BY DEF DeliveryInv, RowSound
<1> QED
  BY <1>1, <1>2, LeavingStep

(* The row becomes final only after the callback of its settlement.        *)
LEMMA FinishStep ==
  ASSUME DeliveryInv, NEW w \in Worker, NEW e \in Entry, worker[w].on = e,
         Finish(w, e), UNCHANGED <<installed, scanDue, starts>>
  PROVE  DeliveryInv'
<1>1. UNCHANGED <<runs, delivered>>
  BY DEF Finish
<1>2. CASE told' = told \cup {e} /\ Updates(w, e, Final(row[e]))
  <2> DEFINE r == Final(row[e])
  <2>1. /\ r \in RowRecord /\ r.kind = row[e].kind /\ r.outcome = row[e].outcome
        /\ r.attempt = row[e].attempt /\ r.retries = row[e].retries
        /\ r.charged = row[e].charged /\ r.started = row[e].started
        /\ r.status = IF r.outcome = "recovered" THEN "completed" ELSE "failed"
    BY Draining DEF Final, RowRecord
  <2> HIDE DEF r
  <2>2. row'[e] = r => RowSound(e)'
    BY <1>1, <1>2, <2>1, Draining DEF RowSound
  <2> QED
    BY <1>1, <1>2, <2>1, <2>2, UpdatesStep DEF r
<1>3. CASE UNCHANGED <<row, told>> /\ Leaves(w, e, worker[w])
  BY <1>1, <1>3, UntouchedStep
<1> QED
  BY <1>2, <1>3 DEF Finish

LEMMA DrainStepKeeps ==
  ASSUME DeliveryInv, NEW w \in Worker, NEW e \in Entry, DrainStep(w, e)
  PROVE  DeliveryInv'
<1>1. worker[w].on = e /\ UNCHANGED <<installed, scanDue, starts>>
  BY DEF DrainStep, boundVars
<1>2. CASE Defer(w, e)
  BY <1>1, <1>2, UntouchedStep DEF Defer, history
<1>3. CASE DeadLetter(w, e)
  BY <1>1, <1>3, SettledStep DEF DeadLetter, history
<1>4. CASE Succeed(w, e)
  <2>1. delivered' = delivered \cup {e} /\ UNCHANGED <<runs, told>>
    BY <1>4 DEF Succeed
  <2>2. CASE Settled(w, e, "recovered")
    BY <1>1, <2>1, <2>2, SettledStep
  <2>3. CASE UNCHANGED row /\ Leaves(w, e, worker[w])
    BY <1>1, <2>1, <2>3, UntouchedStep
  <2> QED
    BY <1>4, <2>2, <2>3 DEF Succeed
<1> QED
  BY <1>1, <1>2, <1>3, <1>4, OwnStep, AcceptStep, FailStep, RearmStep, FinishStep
     DEF DrainStep

-----------------------------------------------------------------------------
(* Steps by which workers come to rows.                                    *)

(* A worker turns to a pending row that nobody is on.                      *)
LEMMA ClaimStep ==
  ASSUME DeliveryInv, NEW w \in Worker, NEW e \in Entry, NEW as \in WorkerRecord,
         Drains(w, e, as), UNCHANGED <<installed, scanDue, starts, history>>,
         \/ w = Timer(e) /\ as.current = TRUE /\ installed /\ timers' = timers \ {e}
         \/ w[1] # "timer" /\ as.current = FALSE /\ UNCHANGED timers
  PROVE  DeliveryInv'
<1> DEFINE spent == row[e].outcome = "none" /\ Exhausted(row[e])
           r == IF spent THEN [row[e] EXCEPT !.outcome = "moved-to-failed"] ELSE row[e]
           at == IF r.outcome # "none" THEN "settling"
                 ELSE IF row[e].started THEN "reconciling" ELSE "starting"
           x == [as EXCEPT !.on = e, !.at = at]
<1>1. /\ row[e] \in RowRecord /\ row[e].status = "pending" /\ RowSound(e)
      /\ \A v \in Worker : worker[v].on # e
      /\ UNCHANGED <<runs, delivered, told>> /\ runs \in [Entry -> Nat]
  BY DEF Drains, Pending, DeliveryInv, Typed, history
<1>2. row' = [row EXCEPT ![e] = r] /\ row'[e] = r
  <2>1. row' = IF spent THEN [row EXCEPT ![e].outcome = "moved-to-failed"] ELSE row
    BY DEF Drains
  <2> QED
    BY <2>1 DEF DeliveryInv, Typed
<1>3. worker' = [worker EXCEPT ![w] = x]
  BY <1>2 DEF Drains
<1>4. /\ r \in RowRecord /\ r.kind = row[e].kind /\ r.status = row[e].status
      /\ r.attempt = row[e].attempt /\ r.retries = row[e].retries
      /\ r.charged = row[e].charged /\ r.started = row[e].started
      /\ r.outcome # "none" => r.outcome = row[e].outcome \/ r.outcome = "moved-to-failed"
      /\ r.outcome = "none" => row[e].outcome = "none" /\ ~spent
  BY <1>1 DEF RowRecord
<1> HIDE DEF r
<1>5. r.outcome = "none" => /\ row[e].retries <= MaxRetries
                            /\ ~row[e].started => row[e].retries < MaxRetries
  <2>1. row[e].retries \in Nat
    BY <1>1 DEF RowRecord
  <2> QED
    BY <1>4, <2>1 DEF Exhausted
<1>6. at \in {"starting", "reconciling", "settling"}
      /\ (at # "settling" => r.outcome = "none")
      /\ (at = "starting" => ~row[e].started)
  OBVIOUS
<1> HIDE DEF spent, at
<1>7. x \in WorkerRecord /\ x.on = e /\ x.at = at /\ x.current = as.current
  BY <1>6 DEF WorkerRecord, Busy
<1> HIDE DEF x
<1>8. worker'[w] = x
  BY <1>3 DEF DeliveryInv, Typed
<1>9. RowSound(e)'
  BY <1>1, <1>2, <1>4 DEF RowSound
<1>10. WorkerSound(w)'
  <2>1. x.at \in Busy /\ x.on \in Entry
    BY <1>6, <1>7 DEF Busy
  <2>2. \/ w[1] = "timer" /\ w[2] = e /\ installed
        \/ w[1] # "timer" /\ x.current = FALSE
    BY <1>7, WorkerNames
  <2> QED
    BY <1>7, <1>8, <2>1, <2>2 DEF WorkerSound
<1>11. DrainSound(w)'
  BY <1>1, <1>2, <1>4, <1>5, <1>6, <1>7, <1>8 DEF DrainSound, RowSound
<1>12. /\ timers' \in SUBSET Entry /\ (timers' # {} => installed)
       /\ timers \ {e} \subseteq timers'
  BY DEF DeliveryInv, Typed
<1>13. /\ r.status = "pending" /\ (e \in timers \/ worker[Timer(e)].current)
       => e \in timers' \/ worker'[Timer(e)].current
  BY <1>3, <1>7, <1>8, WorkerNames DEF DeliveryInv, Typed
<1>14. /\ \A v \in Worker : v # w => worker[v].on # e
       /\ w[1] = "timer" => w = Timer(e)
       /\ w[1] = "recovery" => x.at # "idle"
       /\ x.on \in {e, NoEntry}
       /\ runs' \in [Entry -> Nat] /\ \A f \in Entry : f # e => runs'[f] = runs[f]
       /\ delivered \subseteq delivered' /\ told \subseteq told'
       /\ UNCHANGED <<installed, scanDue, starts>>
  BY <1>1, <1>6, <1>7, WorkerNames
<1> QED
  <2>1. Moved(w, e, r, x)
    BY <1>1, <1>2, <1>3, <1>4, <1>12, <1>13, <1>14 DEF Moved
  <2> QED
    BY <1>4, <1>7, <1>9, <1>10, <1>11, <2>1, MoveStep

(* The timer of a row.                                                     *)
LEMMA FireStep ==
  ASSUME DeliveryInv, NEW e \in Entry, FireDrains(e) \/ FireSkips(e)
  PROVE  DeliveryInv'
<1>1. CASE FireDrains(e)
  <2>1. /\ e \in timers /\ timers' = timers \ {e}
        /\ Drains(Timer(e), e, [Idle EXCEPT !.current = TRUE])
        /\ UNCHANGED <<installed, scanDue, starts, history>>
    BY <1>1 DEF FireDrains, boundVars
  <2>2. [Idle EXCEPT !.current = TRUE] \in WorkerRecord
        /\ [Idle EXCEPT !.current = TRUE].current = TRUE
    BY DEF Idle, WorkerRecord
  <2>3. installed /\ Timer(e) \in Worker
    BY <2>1, WorkerNames DEF DeliveryInv
  <2> QED
    BY <2>1, <2>2, <2>3, ClaimStep
<1>2. CASE FireSkips(e)
  <2>1. /\ timers' = timers \/ (row[e].status # "pending" /\ timers' = timers \ {e})
        /\ UNCHANGED <<row, worker, installed, scanDue, starts, history>>
    BY <1>2 DEF FireSkips, boundVars, Pending
  <2>2. Typed' /\ (timers' # {} \/ scanDue' => installed')
    BY <2>1 DEF DeliveryInv, Typed, history
  <2>3. \A f \in Entry : RowSound(f)'
    BY <2>1 DEF DeliveryInv, RowSound, history
  <2>4. \A v \in Worker : WorkerSound(v)' /\ DrainSound(v)'
    BY <2>1 DEF DeliveryInv, WorkerSound, DrainSound, history
  <2>5. Exclusive'
    BY <2>1 DEF DeliveryInv, Exclusive
  <2>6. RowsWatched'
    BY <2>1 DEF DeliveryInv, RowsWatched, IsMedia
  <2> QED
    BY <2>2, <2>3, <2>4, <2>5, <2>6 DEF DeliveryInv
<1> QED
  BY <1>1, <1>2

(* What keeps the rows watched when they do not change themselves.         *)
LEMMA WatchKept ==
  ASSUME RowsWatched, UNCHANGED <<row, installed>>, timers \subseteq timers',
         scanDue => scanDue',
         \A v \in Worker : worker[v].current => worker'[v].current,
         \A n \in 1..MaxStart :
           worker[Recovery(n)].at # "idle" => worker'[Recovery(n)].at # "idle"
  PROVE  RowsWatched'
<1> SUFFICES ASSUME NEW f \in Entry, row'[f].kind = "media", installed',
                    row'[f].status = "pending"
             PROVE  Watched(f)'
  BY DEF RowsWatched, IsMedia, Watched
<1>1. Watched(f)
  BY DEF RowsWatched, IsMedia, Watched
<1> QED
  BY <1>1, WorkerNames DEF Watched

(* A worker between two rows is on none, and belongs to no timer.          *)
LEMMA Resting ==
  ASSUME DeliveryInv, NEW w \in Worker, worker[w].at \in {"idle", "looping", "pausing"}
  PROVE  /\ worker[w] \in WorkerRecord /\ worker[w].on = NoEntry
         /\ worker[w].current => w[1] = "timer"
BY DEF DeliveryInv, Typed, WorkerRecord, WorkerSound, Busy

(* A worker that tries a row and cannot have it.                           *)
LEMMA PassStep ==
  ASSUME DeliveryInv, NEW w \in Worker, w[1] # "timer", NEW e \in Entry,
         worker[w].on = NoEntry, worker[w].current = FALSE,
         NEW as \in WorkerRecord, as.current = FALSE, Leaves(w, e, as),
         UNCHANGED <<row, installed, scanDue, starts, runs, delivered, told>>
  PROVE  DeliveryInv'
<1>1. PICK x \in WorkerRecord :
        /\ worker' = [worker EXCEPT ![w] = x]
        /\ x.on = NoEntry /\ x.at \notin Busy /\ x.current = FALSE
        /\ w[1] = "recovery" => x.at # "idle"
        /\ timers \subseteq timers' /\ timers' \subseteq timers \cup {e}
        /\ timers' # timers => as.current
        /\ as.current /\ row'[e].status = "pending" => e \in timers'
  BY LeavesForms
<1>2. timers' = timers
  BY <1>1
<1>3. worker'[w] = x /\ \A v \in Worker : v # w => worker'[v] = worker[v]
  BY <1>1 DEF DeliveryInv, Typed
<1>4. RowsWatched'
  <2>1. \A v \in Worker : worker[v].current => worker'[v].current
    BY <1>3
  <2>2. \A n \in 1..MaxStart :
          worker[Recovery(n)].at # "idle" => worker'[Recovery(n)].at # "idle"
    BY <1>1, <1>3, WorkerNames
  <2> QED
    BY <1>2, <2>1, <2>2, WatchKept DEF DeliveryInv
<1>5. timers' \in SUBSET Entry /\ scanDue' \in BOOLEAN
      /\ (timers' # {} \/ scanDue' => installed)
  BY <1>2 DEF DeliveryInv, Typed
<1> QED
  BY <1>1, <1>4, <1>5, RestStep

(* The recovery tries a row it has listed.                                 *)
LEMMA RecoveryTriesStep ==
  ASSUME DeliveryInv, NEW n \in 1..MaxStart, NEW e \in Entry, RecoveryTries(n, e)
  PROVE  DeliveryInv'
<1> DEFINE w == Recovery(n)
           as == [worker[w] EXCEPT !.left = @ \ {e}]
<1>1. w \in Worker /\ w[1] = "recovery"
  BY WorkerNames
<1>2. /\ worker[w].at = "looping"
      /\ \/ Drains(w, e, as) /\ UNCHANGED timers
         \/ UNCHANGED row /\ Leaves(w, e, as)
      /\ UNCHANGED <<installed, scanDue, starts, history>>
  BY DEF RecoveryTries, boundVars
<1>3. worker[w] \in WorkerRecord /\ worker[w].on = NoEntry /\ ~worker[w].current
  BY <1>1, <1>2, Resting
<1>4. worker[w].current = FALSE
  BY <1>3 DEF WorkerRecord
<1>5. as \in WorkerRecord /\ as.current = FALSE
  BY <1>3, <1>4 DEF WorkerRecord
<1> HIDE DEF as, w
<1>6. CASE Drains(w, e, as) /\ UNCHANGED timers
  BY <1>1, <1>2, <1>5, <1>6, ClaimStep
<1>7. CASE UNCHANGED row /\ Leaves(w, e, as)
  BY <1>1, <1>2, <1>3, <1>4, <1>5, <1>7, PassStep DEF history
<1> QED
  BY <1>2, <1>6, <1>7

(* The restart sentinel tries its row.                                     *)
LEMMA SentinelTriesStep ==
  ASSUME DeliveryInv, NEW e \in Entry, SentinelTries(e)
  PROVE  DeliveryInv'
<1> DEFINE w == Sentinel(e)
           as == [worker[w] EXCEPT !.tries = @ + 1]
<1>1. w \in Worker /\ w[1] = "sentinel"
  BY WorkerNames
<1>2. /\ worker[w].at = "pausing"
      /\ \/ Drains(w, e, as) /\ UNCHANGED timers
         \/ UNCHANGED row /\ Leaves(w, e, as)
         \/ UNCHANGED <<row, timers>> /\ worker' = [worker EXCEPT ![w] = Idle]
      /\ UNCHANGED <<installed, scanDue, starts, history>>
  BY DEF SentinelTries, boundVars
<1>3. worker[w] \in WorkerRecord /\ worker[w].on = NoEntry /\ ~worker[w].current
  BY <1>1, <1>2, Resting
<1>4. worker[w].current = FALSE
  BY <1>3 DEF WorkerRecord
<1>5. as \in WorkerRecord /\ as.current = FALSE
  BY <1>3, <1>4 DEF WorkerRecord
<1> HIDE DEF as, w
<1>6. CASE Drains(w, e, as) /\ UNCHANGED timers
  BY <1>1, <1>2, <1>5, <1>6, ClaimStep
<1>7. CASE UNCHANGED row /\ Leaves(w, e, as)
  BY <1>1, <1>2, <1>3, <1>4, <1>5, <1>7, PassStep DEF history
<1>8. CASE UNCHANGED <<row, timers>> /\ worker' = [worker EXCEPT ![w] = Idle]
  <2>1. worker'[w] = Idle /\ \A v \in Worker : v # w => worker'[v] = worker[v]
    BY <1>1, <1>8 DEF DeliveryInv, Typed
  <2>2. RowsWatched'
    BY <1>1, <1>2, <1>3, <1>8, <2>1, WorkerNames, WatchKept DEF DeliveryInv
  <2>3. timers' \in SUBSET Entry /\ scanDue' \in BOOLEAN
        /\ (timers' # {} \/ scanDue' => installed)
    BY <1>2, <1>8 DEF DeliveryInv, Typed
  <2> QED
    BY <1>1, <1>2, <1>8, <2>2, <2>3, RestStep, RestRecords DEF Busy, history
<1> QED
  BY <1>2, <1>6, <1>7, <1>8

-----------------------------------------------------------------------------
(* Scans, which arm every pending row or are due again.                    *)

LEMMA ScanWatches ==
  ASSUME DeliveryInv, NEW due \in BOOLEAN, Scan(due), UNCHANGED <<row, installed>>,
         \A e \in Entry : worker'[Timer(e)] = worker[Timer(e)]
  PROVE  /\ timers' \in SUBSET Entry /\ scanDue' \in BOOLEAN
         /\ timers' # {} \/ scanDue' => installed
         /\ RowsWatched'
<1>1. CASE ~installed
  BY <1>1 DEF Scan, RowsWatched, DeliveryInv, Typed
<1>2. CASE installed /\ Arm(Pending(row)) /\ scanDue' = due
  <2>1. timers' \in SUBSET Entry
    BY <1>2 DEF Arm, Pending, DeliveryInv, Typed
  <2>2. ASSUME NEW e \in Entry, row[e].status = "pending"
        PROVE  e \in timers' \/ worker'[Timer(e)].current
    BY <1>2, <2>2 DEF Arm, Pending
  <2> QED
    BY <1>2, <2>1, <2>2 DEF RowsWatched
<1>3. CASE installed /\ UNCHANGED timers /\ scanDue' = TRUE
  BY <1>3 DEF RowsWatched, DeliveryInv, Typed
<1> QED
  BY <1>1, <1>2, <1>3 DEF Scan

LEMMA RecoveryEndsStep ==
  ASSUME DeliveryInv, NEW n \in 1..MaxStart, RecoveryEnds(n)
  PROVE  DeliveryInv'
<1> DEFINE w == Recovery(n)
<1>1. w \in Worker /\ \A e \in Entry : Timer(e) \in Worker /\ Timer(e) # w
  BY WorkerNames
<1>2. /\ worker' = [worker EXCEPT ![w] = Idle] /\ Scan(scanDue)
      /\ UNCHANGED <<row, installed, starts, runs, delivered, told>>
  BY DEF RecoveryEnds, boundVars, history
<1> HIDE DEF w
<1>3. \A e \in Entry : worker'[Timer(e)] = worker[Timer(e)]
  BY <1>1, <1>2 DEF DeliveryInv, Typed
<1>4. scanDue \in BOOLEAN
  BY DEF DeliveryInv, Typed
<1>5. /\ timers' \in SUBSET Entry /\ scanDue' \in BOOLEAN
      /\ (timers' # {} \/ scanDue' => installed) /\ RowsWatched'
  BY <1>2, <1>3, <1>4, ScanWatches
<1> QED
  BY <1>1, <1>2, <1>5, RestStep, RestRecords DEF Busy

(* Steps that move no worker and change no row.                            *)
LEMMA ScanAgainStep ==
  ASSUME DeliveryInv, ScanAgain
  PROVE  DeliveryInv'
<1>1. /\ UNCHANGED <<row, worker, installed, starts, runs, delivered, told>>
      /\ Scan(FALSE)
  BY DEF ScanAgain, boundVars, history
<1>2. /\ timers' \in SUBSET Entry /\ scanDue' \in BOOLEAN
      /\ (timers' # {} \/ scanDue' => installed) /\ RowsWatched'
  BY <1>1, ScanWatches
<1>3. Typed'
  BY <1>1, <1>2 DEF DeliveryInv, Typed
<1>4. \A f \in Entry : RowSound(f)'
  BY <1>1 DEF DeliveryInv, RowSound
<1>5. \A v \in Worker : WorkerSound(v)' /\ DrainSound(v)'
  BY <1>1 DEF DeliveryInv, WorkerSound, DrainSound
<1>6. Exclusive'
  BY <1>1 DEF DeliveryInv, Exclusive
<1> QED
  BY <1>1, <1>2, <1>3, <1>4, <1>5, <1>6 DEF DeliveryInv

-----------------------------------------------------------------------------
(* Rows that are handed over.                                              *)

(* A row is inserted once and is its own tombstone: one that a drain is on *)
(* does not change under it.                                               *)
LEMMA InsertKeeps ==
  ASSUME DeliveryInv, NEW e \in Entry, NEW kind \in Kinds, row' = Inserted(e, kind),
         UNCHANGED <<runs, delivered, told>>
  PROVE  /\ row' \in [Entry -> RowRecord]
         /\ \A f \in Entry : row[f].status # "absent" \/ f # e => row'[f] = row[f]
         /\ \A f \in Entry : RowSound(f)'
<1> DEFINE r == [row[e] EXCEPT !.status = "pending", !.kind = kind]
<1>1. row \in [Entry -> RowRecord] /\ \A f \in Entry : RowSound(f)
  BY DEF DeliveryInv, Typed
<1>2. CASE row[e].status = "absent"
  <2>1. row' = [row EXCEPT ![e] = r]
    BY <1>1, <1>2 DEF Inserted
  <2>2. /\ r \in RowRecord /\ r.status = "pending" /\ r.outcome = row[e].outcome
        /\ r.attempt = row[e].attempt /\ r.retries = row[e].retries
        /\ r.charged = row[e].charged /\ r.started = row[e].started
    BY <1>1 DEF RowRecord, Kinds
  <2> HIDE DEF r
  <2>3. row'[e] = r /\ \A f \in Entry : f # e => row'[f] = row[f]
    BY <1>1, <2>1
  <2>4. RowSound(e)'
    BY <1>1, <1>2, <2>2, <2>3 DEF RowSound
  <2>5. ASSUME NEW f \in Entry, f # e PROVE RowSound(f)'
    BY <1>1, <2>3, <2>5 DEF RowSound
  <2> QED
    BY <1>1, <1>2, <2>1, <2>2, <2>3, <2>4, <2>5
<1>3. CASE row[e].status # "absent"
  <2>1. row' = row
    BY <1>3 DEF Inserted
  <2> QED
    BY <1>1, <2>1 DEF RowSound
<1> QED
  BY <1>2, <1>3

(* Nobody is on a row that is not there.                                   *)
LEMMA AbsentAlone ==
  ASSUME DeliveryInv, NEW w \in Worker, worker[w].on \in Entry
  PROVE  row[worker[w].on].status = "pending"
BY DEF DeliveryInv, DrainSound

(* A subagent hands over a media turn.                                     *)
LEMMA HandoffStep ==
  ASSUME DeliveryInv, NEW e \in Entry, Handoff(e)
  PROVE  DeliveryInv'
<1>1. /\ row' = Inserted(e, "media")
      /\ IF installed /\ row'[e].status = "pending" THEN Arm({e}) ELSE UNCHANGED timers
      /\ UNCHANGED <<worker, installed, scanDue, starts, runs, delivered, told>>
  BY DEF Handoff, boundVars, history, Pending
<1>2. /\ row' \in [Entry -> RowRecord]
      /\ \A f \in Entry : row[f].status # "absent" \/ f # e => row'[f] = row[f]
      /\ \A f \in Entry : RowSound(f)'
  BY <1>1, InsertKeeps DEF Kinds
<1>3. /\ timers \subseteq timers' /\ timers' \in SUBSET Entry
      /\ timers' # {} \/ scanDue' => installed'
  BY <1>1 DEF Arm, DeliveryInv, Typed
<1>4. Typed'
  BY <1>1, <1>2, <1>3 DEF DeliveryInv, Typed
<1>5. ASSUME NEW v \in Worker PROVE WorkerSound(v)' /\ DrainSound(v)'
  <2>1. WorkerSound(v)'
    BY <1>1 DEF DeliveryInv, WorkerSound
  <2>2. worker[v].on \in Entry => row'[worker[v].on] = row[worker[v].on]
    BY <1>2, AbsentAlone
  <2>3. DrainSound(v)'
    BY <1>1, <2>2 DEF DeliveryInv, DrainSound
  <2> QED
    BY <2>1, <2>3
<1>6. Exclusive'
  BY <1>1 DEF DeliveryInv, Exclusive
<1>7. RowsWatched'
  <2> SUFFICES ASSUME NEW f \in Entry, row'[f].kind = "media", installed',
                      row'[f].status = "pending"
               PROVE  Watched(f)'
    BY DEF RowsWatched, IsMedia, Watched
  <2>1. CASE f = e
    BY <1>1, <2>1 DEF Arm, Watched
  <2>2. CASE f # e
    <3>1. Watched(f)
      BY <1>1, <1>2, <2>2 DEF DeliveryInv, RowsWatched, IsMedia, Watched
    <3> QED
      BY <1>1, <1>3, <3>1 DEF Watched
  <2> QED
    BY <2>1, <2>2
<1> QED
  BY <1>2, <1>3, <1>4, <1>5, <1>6, <1>7 DEF DeliveryInv

(* The sentinel makes its continuation durable.                            *)
LEMMA ContinueStep ==
  ASSUME DeliveryInv, NEW e \in Entry, Continue(e)
  PROVE  DeliveryInv'
<1> DEFINE w == Sentinel(e)
           x == [worker[w] EXCEPT !.at = "pausing"]
<1>1. /\ worker[w].at = "idle" /\ row' = Inserted(e, "continuation")
      /\ worker' = [worker EXCEPT ![w] = x]
      /\ UNCHANGED <<timers, installed, scanDue, starts, runs, delivered, told>>
      /\ row[e].kind \in {"none", "continuation"}
  BY DEF Continue, runtimeVars, history, KeyOf
<1>2. w \in Worker /\ w[1] = "sentinel"
      /\ (\A f \in Entry : Timer(f) # w) /\ (\A n \in 1..MaxStart : Recovery(n) # w)
  BY WorkerNames
<1> HIDE DEF w
<1>3. worker[w] \in WorkerRecord /\ worker[w].on = NoEntry /\ ~worker[w].current
  BY <1>1, <1>2, Resting
<1>4. x \in WorkerRecord /\ x.at = "pausing" /\ x.on = NoEntry /\ ~x.current
  BY <1>3 DEF WorkerRecord
<1> HIDE DEF x
<1>5. worker'[w] = x /\ \A v \in Worker : v # w => worker'[v] = worker[v]
  BY <1>1, <1>2 DEF DeliveryInv, Typed
<1>6. /\ row' \in [Entry -> RowRecord]
      /\ \A f \in Entry : row[f].status # "absent" \/ f # e => row'[f] = row[f]
      /\ \A f \in Entry : RowSound(f)'
  BY <1>1, InsertKeeps DEF Kinds
<1>7. Typed'
  BY <1>1, <1>4, <1>6 DEF DeliveryInv, Typed
<1>8. ASSUME NEW v \in Worker PROVE WorkerSound(v)' /\ DrainSound(v)'
  <2>1. CASE v = w
    BY <1>4, <1>5, <2>1 DEF WorkerSound, DrainSound, Busy
  <2>2. CASE v # w
    <3>1. worker'[v] = worker[v]
      BY <1>5, <2>2
    <3>2. worker[v].on \in Entry => row'[worker[v].on] = row[worker[v].on]
      BY <1>6, AbsentAlone
    <3>3. WorkerSound(v)'
      BY <1>1, <3>1 DEF DeliveryInv, WorkerSound
    <3>4. DrainSound(v)'
      BY <1>1, <3>1, <3>2 DEF DeliveryInv, DrainSound
    <3> QED
      BY <3>3, <3>4
  <2> QED
    BY <2>1, <2>2
<1>9. Exclusive'
  BY <1>2, <1>4, <1>5 DEF DeliveryInv, Exclusive
<1>10. RowsWatched'
  <2> SUFFICES ASSUME NEW f \in Entry, row'[f].kind = "media", installed',
                      row'[f].status = "pending"
               PROVE  Watched(f)'
    BY DEF RowsWatched, IsMedia, Watched
  <2>1. row'[f] = row[f]
    <3>1. CASE f = e /\ row[e].status = "absent"
      <4>1. row'[e].kind = "continuation"
        BY <1>1, <3>1 DEF Inserted, DeliveryInv, Typed, RowRecord
      <4> QED
        BY <3>1, <4>1
    <3> QED
      BY <1>6, <3>1
  <2>2. Watched(f)
    BY <1>1, <2>1 DEF DeliveryInv, RowsWatched, IsMedia, Watched
  <2> QED
    BY <1>1, <1>2, <1>5, <2>2, WorkerNames DEF Watched
<1>11. timers' # {} \/ scanDue' => installed'
  BY <1>1 DEF DeliveryInv
<1> QED
  BY <1>6, <1>7, <1>8, <1>9, <1>10, <1>11 DEF DeliveryInv

-----------------------------------------------------------------------------
(* The gateway.                                                            *)

(* A new runtime has a recovery under way, which ends with a scan.  An     *)
(* earlier one of the same number has not been in this process.            *)
LEMMA StartStep ==
  ASSUME DeliveryInv, RuntimeStart
  PROVE  DeliveryInv'
<1>1. /\ starts' = starts + 1 /\ starts < MaxStart
      /\ installed' = TRUE /\ timers' = {} /\ scanDue' = FALSE
      /\ UNCHANGED <<row, runs, delivered, told>>
  BY DEF RuntimeStart, history
<1>2. starts' \in 1..MaxStart
  BY <1>1 DEF DeliveryInv, Typed
<1> DEFINE w == Recovery(starts')
<1>3. w \in Worker /\ w[1] = "recovery"
  BY <1>2, WorkerNames
<1>4. PICK older \in SUBSET Pending(row) :
        worker' = [worker EXCEPT ![w] = [Idle EXCEPT !.at = "looping", !.left = older]]
  BY DEF RuntimeStart
<1> DEFINE x == [Idle EXCEPT !.at = "looping", !.left = older]
<1>5. x \in WorkerRecord /\ x.at = "looping" /\ x.on = NoEntry /\ x.current = FALSE
  BY DEF Idle, WorkerRecord, Pending
<1> HIDE DEF x
<1>6. worker' = [worker EXCEPT ![w] = x]
  BY <1>4 DEF x
<1> HIDE DEF w
<1>7. worker'[w] = x /\ \A v \in Worker : v # w => worker'[v] = worker[v]
  BY <1>3, <1>6 DEF DeliveryInv, Typed
<1>8. Typed'
  <2>1. installed' \in BOOLEAN /\ scanDue' \in BOOLEAN
    BY <1>1, Zenon
  <2>2. worker' \in [Worker -> WorkerRecord]
    BY <1>3, <1>5, <1>6 DEF DeliveryInv, Typed
  <2>3. starts' \in 0..MaxStart
    BY <1>2
  <2> QED
    BY <1>1, <2>1, <2>2, <2>3 DEF DeliveryInv, Typed
<1>9. \A f \in Entry : RowSound(f)'
  BY <1>1 DEF DeliveryInv, RowSound
<1>10. ASSUME NEW v \in Worker PROVE WorkerSound(v)' /\ DrainSound(v)'
  BY <1>1, <1>5, <1>7 DEF DeliveryInv, WorkerSound, DrainSound, Busy
<1>11. Exclusive'
  BY <1>5, <1>7 DEF DeliveryInv, Exclusive
<1>12. RowsWatched'
  <2>1. worker'[Recovery(starts')].at # "idle"
    BY <1>5, <1>7 DEF w
  <2> QED
    BY <1>2, <2>1 DEF RowsWatched
<1> QED
  BY <1>1, <1>8, <1>9, <1>10, <1>11, <1>12 DEF DeliveryInv

(* The gateway stops in this process, or with it; rows are not touched,    *)
(* and what is in them does not depend on who was at work.                 *)
LEMMA StopStep ==
  ASSUME DeliveryInv, RuntimeStop \/ Crash
  PROVE  DeliveryInv'
<1>1. /\ installed' = FALSE /\ timers' = {} /\ scanDue' = FALSE
      /\ UNCHANGED <<row, runs, delivered, told>> /\ starts' \in 0..MaxStart
  BY DEF RuntimeStop, Crash, boundVars, history, DeliveryInv, Typed
<1>2. \A f \in Entry : RowSound(f)'
  BY <1>1 DEF DeliveryInv, RowSound
<1>3. RowsWatched'
  BY <1>1 DEF RowsWatched
<1>4. /\ worker' \in [Worker -> WorkerRecord]
      /\ \A v \in Worker : worker'[v].current = FALSE
      /\ \A v \in Worker : \/ worker'[v].at = worker[v].at /\ worker'[v].on = worker[v].on
                           \/ worker'[v].at = "idle" /\ worker'[v].on = NoEntry
  <2>1. CASE RuntimeStop
    <3>1. worker' = [v \in Worker |-> [worker[v] EXCEPT !.current = FALSE]]
      BY <2>1 DEF RuntimeStop, Orphaned
    <3>2. ASSUME NEW v \in Worker
          PROVE  LET x == [worker[v] EXCEPT !.current = FALSE] IN
                 /\ x \in WorkerRecord /\ x.current = FALSE
                 /\ x.at = worker[v].at /\ x.on = worker[v].on
      <4>1. worker[v] \in WorkerRecord
        BY DEF DeliveryInv, Typed
      <4> QED
        BY <4>1 DEF WorkerRecord
    <3> QED
      BY <3>1, <3>2
  <2>2. CASE Crash
    BY <2>2, RestRecords DEF Crash
  <2> QED
    BY <2>1, <2>2
<1>5. Typed'
  <2>1. installed' \in BOOLEAN /\ scanDue' \in BOOLEAN
    BY <1>1, Zenon
  <2> QED
    BY <1>1, <1>4, <2>1 DEF DeliveryInv, Typed
<1>6. ASSUME NEW v \in Worker PROVE WorkerSound(v)' /\ DrainSound(v)'
  <2>1. WorkerSound(v)'
    BY <1>4 DEF DeliveryInv, WorkerSound, Busy
  <2>2. DrainSound(v)'
    BY <1>1, <1>4 DEF DeliveryInv, DrainSound
  <2> QED
    BY <2>1, <2>2
<1>7. Exclusive'
  BY <1>4 DEF DeliveryInv, Exclusive
<1> QED
  BY <1>1, <1>2, <1>3, <1>5, <1>6, <1>7 DEF DeliveryInv

(* A step that changes nothing.                                            *)
LEMMA StutterStep ==
  ASSUME DeliveryInv, UNCHANGED vars
  PROVE  DeliveryInv'
<1> USE DEF vars, runtimeVars, boundVars, history, DeliveryInv
<1>1. Typed'
  BY DEF Typed
<1>2. \A f \in Entry : RowSound(f)'
  BY DEF RowSound
<1>3. \A v \in Worker : WorkerSound(v)' /\ DrainSound(v)'
  BY DEF WorkerSound, DrainSound
<1>4. Exclusive' /\ RowsWatched'
  BY DEF Exclusive, RowsWatched, IsMedia
<1> QED
  BY <1>1, <1>2, <1>3, <1>4

(* DeliveryInv: what the rows and the workers on them always say of each   *)
(* other, one worker to a row (entriesInProgress), and every media row     *)
(* watched, through every step, fault and crash of the queue.              *)
THEOREM DeliveryInvariant == Spec => []DeliveryInv
<1>1. Init => DeliveryInv
  BY InitDelivery
<1>2. ASSUME DeliveryInv, [Next]_vars PROVE DeliveryInv'
  <2>1. ASSUME NEW e \in Entry, FireDrains(e) \/ FireSkips(e) PROVE DeliveryInv'
    BY <1>2, <2>1, FireStep
  <2>2. ASSUME NEW e \in Entry, NEW w \in Worker, DrainStep(w, e) PROVE DeliveryInv'
    BY <1>2, <2>2, DrainStepKeeps
  <2>3. ASSUME NEW n \in 1..MaxStart, RecoveryEnds(n) PROVE DeliveryInv'
    BY <1>2, <2>3, RecoveryEndsStep
  <2>4. ASSUME NEW n \in 1..MaxStart, NEW e \in Entry, RecoveryTries(n, e)
        PROVE  DeliveryInv'
    BY <1>2, <2>4, RecoveryTriesStep
  <2>5. ASSUME NEW e \in Entry, Handoff(e) PROVE DeliveryInv'
    BY <1>2, <2>5, HandoffStep
  <2>6. ASSUME NEW e \in Entry, Continue(e) PROVE DeliveryInv'
    BY <1>2, <2>6, ContinueStep
  <2>7. ASSUME NEW e \in Entry, SentinelTries(e) PROVE DeliveryInv'
    BY <1>2, <2>7, SentinelTriesStep
  <2>8. CASE ScanAgain
    BY <1>2, <2>8, ScanAgainStep
  <2>9. CASE RuntimeStart
    BY <1>2, <2>9, StartStep
  <2>10. CASE RuntimeStop \/ Crash
    BY <1>2, <2>10, StopStep
  <2>11. CASE UNCHANGED vars
    BY <1>2, <2>11, StutterStep
  <2> QED
    BY <1>2, <2>1, <2>2, <2>3, <2>4, <2>5, <2>6, <2>7, <2>8, <2>9, <2>10, <2>11 DEF Next
<1> QED
  BY <1>1, <1>2, PTL DEF Spec

-----------------------------------------------------------------------------
(* What follows from it.                                                   *)

(* TypeOK: the timers and the drains that arm rows are the runtime's, and  *)
(* go with it (stopSessionDeliveryRuntime).                                *)
THEOREM DeliveryTypes == Spec => []TypeOK
<1>1. DeliveryInv => TypeOK
  <2> SUFFICES ASSUME DeliveryInv PROVE TypeOK
    OBVIOUS
  <2>1. ASSUME NEW e \in Entry
        PROVE  /\ row[e].status \in {"absent", "pending", "failed", "completed"}
               /\ row[e].kind \in Kinds \cup {"none"}
               /\ row[e].outcome \in {"none", "recovered", "moved-to-failed"}
               /\ row[e].retries \in 0..MaxRetries + 1
    <3>1. row[e] \in RowRecord
      BY DEF DeliveryInv, Typed
    <3> QED
      BY <3>1 DEF RowRecord
  <2>2. ASSUME NEW w \in Worker
        PROVE  /\ worker[w].at \in Busy \cup {"idle", "looping", "pausing"}
               /\ worker[w].at \in Busy <=> worker[w].on \in Entry
               /\ worker[w].current => w[1] = "timer" /\ installed
    <3>1. worker[w] \in WorkerRecord
      BY DEF DeliveryInv, Typed
    <3> QED
      BY <3>1 DEF DeliveryInv, WorkerSound, WorkerRecord
  <2> QED
    BY <2>1, <2>2 DEF TypeOK, DeliveryInv, Typed
<1> QED
  BY <1>1, DeliveryInvariant, PTL

(* RunOnce: an attempt is accepted at most once, and a new one needs the   *)
(* proof that the last has ended (rearmAgentRun).                          *)
THEOREM AttemptsRunOnce == Spec => []RunOnce
<1>1. DeliveryInv => RunOnce
  BY DEF DeliveryInv, RowSound, RunOnce
<1> QED
  BY <1>1, DeliveryInvariant, PTL

(* BudgetKept: every attempt has used up a retry, whatever became of the   *)
(* writes that charged it (failSessionDelivery).                           *)
THEOREM AttemptsPaid == Spec => []BudgetKept
<1>1. DeliveryInv => BudgetKept
  <2> SUFFICES ASSUME DeliveryInv, NEW e \in Entry
               PROVE  /\ row[e].attempt <= row[e].retries
                      /\ runs[e] <= MaxRetries
                      /\ IsContinuation(e) => row[e].attempt = 0
    BY DEF BudgetKept
  <2>1. row[e] \in RowRecord /\ RowSound(e)
    BY DEF DeliveryInv, Typed
  <2> QED
    BY <2>1 DEF RowRecord, RowSound, IsContinuation
<1> QED
  BY <1>1, DeliveryInvariant, PTL

(* FinalIsTrue: a completed row was delivered, and whoever waits for a     *)
(* settlement is told before the row becomes final.                        *)
THEOREM SettlementsTrue == Spec => []FinalIsTrue
<1>1. DeliveryInv => FinalIsTrue
  BY DEF DeliveryInv, RowSound, FinalIsTrue
<1> QED
  BY <1>1, DeliveryInvariant, PTL

(* RowsWatched: under a runtime no pending media row is without timer,     *)
(* drain or scan to come (armSessionDelivery, schedulePending...).         *)
THEOREM NoRowForgotten == Spec => []RowsWatched
<1>1. DeliveryInv => RowsWatched
  BY DEF DeliveryInv
<1> QED
  BY <1>1, DeliveryInvariant, PTL
=============================================================================
