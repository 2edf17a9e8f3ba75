---------------------------- MODULE TelegramAgent ----------------------------
(***************************************************************************)
(* The Telegram agent of Grok Build Desktop: handleTelegramAgentMessage    *)
(* and processNextTelegramTask (src/packages/desktop/src/main/index.ts).   *)
(* Messages of all chats share one reservation and one queue in front of   *)
(* the harness, which the window and the scheduler use as well; of the     *)
(* harness only HarnessContract is assumed.                                *)
(*                                                                         *)
(* Every step runs from one await on the network or the harness to the     *)
(* next, with the microtasks it queues: the settlement of a run, the       *)
(* release of the reservation and the start of the next task are one.  A   *)
(* message, the run of its task and its run record have one name.  Model,  *)
(* project, mode and the native session's id are left out, and commands    *)
(* that touch nothing else.                                                *)
(***************************************************************************)
EXTENDS HarnessContract, Integers, Sequences, FiniteSets

CONSTANTS
  Chat, NoChat,
  Message,       \* messages with a task, among Run; other runs are the window's
  NoTask,        \*   and the scheduler's
  ChatOf,        \* [Message -> Chat]
  Earlier,       \* the chats that have a turn from an earlier run of the app,
  OldTask,       \*   and its task
  Kept,          \* turns kept in a transcript
  Compact,       \* turns kept by /compress
  MaxRestart

ASSUME TelegramAgentAssumption ==
  /\ NoChat \notin Chat
  /\ Message \subseteq Run /\ NoTask \notin Message /\ OldTask \notin Message
  /\ Earlier \subseteq Chat
  /\ ChatOf \in [Message -> Chat]
  /\ Compact \in 1..Kept /\ Kept \in Nat
  /\ MaxRestart \in Nat

VARIABLES
  job,           \* [Message -> its handler's locals and its run record]
  queue,         \* telegramQueue
  runningChat,   \* telegramRunningChat, set and cleared with the reservation
  taskCancelled, \* telegramTaskCancelled
  transcript,    \* [Chat -> the stored turns, each a task]
  lastTask,      \* [Chat -> the stored last task]
  restarts,
  stopped,       \* history: messages whose chat asked to stop them
  foreign        \* history: another front end has run or cancelled something

handlerVars == <<job, queue, runningChat, taskCancelled>>
storeVars == <<transcript, lastTask>>
historyVars == <<restarts, stopped, foreign>>
agentVars == <<handlerVars, storeVars, historyVars>>
vars == <<contractVars, agentVars>>

Other == Run \ Message

(* Where the handler of a message stands: in the queue, awaiting the       *)
(* progress card, the run, the card's last edit, its removal, the reply.   *)
Place == {"new", "queued", "announcing", "running", "reporting", "tidying",
          "replying", "done", "lost"}

(* The part between taking the reservation and giving it back.             *)
Holding == {"announcing", "running", "reporting"}

Fresh(t) == [at |-> "new", task |-> t, seen |-> <<>>, drained |-> FALSE,
             record |-> "none"]

(* Fault: slice(-n) keeps one more.                                        *)
LastOfOneMore(s, n) == SubSeq(s, (IF Len(s) > n THEN Len(s) - n ELSE 1), Len(s))

LastOf(s, n) == SubSeq(s, (IF Len(s) > n THEN Len(s) - n ELSE 0) + 1, Len(s))

Shortened(s) == IF s = <<>> THEN s ELSE SubSeq(s, 1, Len(s) - 1)

Init ==
  /\ ContractInit
  /\ job = [m \in Message |-> Fresh(m)]
  /\ queue = <<>>
  /\ runningChat = NoChat
  /\ taskCancelled = FALSE
  /\ transcript = [c \in Chat |-> IF c \in Earlier THEN <<OldTask>> ELSE <<>>]
  /\ lastTask = [c \in Chat |-> NoTask]
  /\ restarts = 0 /\ stopped = {} /\ foreign = FALSE

-----------------------------------------------------------------------------
(* Fault: the cancellation of the task before is not reset.                *)
StartsUnreset(jobs, m, turns, drained) ==
  \E read \in {turns, <<>>} :
    /\ job' = [jobs EXCEPT ![m].at = "announcing", ![m].record = "running",
                           ![m].seen = read, ![m].drained = drained]
    /\ runningChat' = ChatOf[m]
    /\ transcript' = [transcript EXCEPT ![ChatOf[m]] = read]
    /\ UNCHANGED taskCancelled

(***************************************************************************)
(* A task starts: the transcript is read, or reset after idle hours, the   *)
(* reservation taken, the run recorded, and the handler awaits the         *)
(* progress card.                                                          *)
(***************************************************************************)
Starts(jobs, m, turns, drained) ==
  \E read \in {turns, <<>>} :
    /\ job' = [jobs EXCEPT ![m].at = "announcing", ![m].record = "running",
                           ![m].seen = read, ![m].drained = drained]
    /\ runningChat' = ChatOf[m]
    /\ transcript' = [transcript EXCEPT ![ChatOf[m]] = read]
    /\ taskCancelled' = FALSE

(* Fault: the harness is asked, the reservation is not.                    *)
PumpUnreserved(jobs, q, chat) ==
  IF engaged' \/ q = <<>>
  THEN /\ job' = jobs /\ queue' = q /\ runningChat' = chat
       /\ UNCHANGED <<taskCancelled, transcript>>
  ELSE /\ Starts(jobs, Head(q), transcript[ChatOf[Head(q)]], TRUE)
       /\ queue' = Tail(q)

(* processNextTelegramTask, after a step that leaves these jobs, this      *)
(* queue and this chat running.                                            *)
Pump(jobs, q, chat) ==
  IF engaged' \/ chat # NoChat \/ q = <<>>
  THEN /\ job' = jobs /\ queue' = q /\ runningChat' = chat
       /\ UNCHANGED <<taskCancelled, transcript>>
  ELSE /\ Starts(jobs, Head(q), transcript[ChatOf[Head(q)]], TRUE)
       /\ queue' = Tail(q)

(* A task comes in and finds these turns.                                  *)
Submit(jobs, m, turns) ==
  IF engaged \/ runningChat # NoChat
  THEN /\ job' = [jobs EXCEPT ![m].at = "queued"]
       /\ queue' = Append(queue, m)
       /\ transcript' = [transcript EXCEPT ![ChatOf[m]] = turns]
       /\ UNCHANGED <<runningChat, taskCancelled>>
  ELSE /\ Starts(jobs, m, turns, FALSE)
       /\ UNCHANGED queue

(* A plain message, or /run.                                               *)
Task(m) ==
  /\ job[m].at = "new"
  /\ Submit(job, m, transcript[ChatOf[m]])
  /\ UNCHANGED <<contractVars, lastTask, historyVars>>

(* /retry: the last turn is removed, the last task comes in again.         *)
Retry(m) ==
  LET c == ChatOf[m] IN
  /\ job[m].at = "new"
  /\ lastTask[c] # NoTask
  /\ Submit([job EXCEPT ![m].task = lastTask[c]], m, Shortened(transcript[c]))
  /\ UNCHANGED <<contractVars, lastTask, historyVars>>

(* /steer and /interrupt: the instruction goes to the head of the queue.   *)
(* /interrupt stops the chat's own run first.                              *)
Stop(c) ==
  /\ Cancel
  /\ stopped' = stopped \cup {m \in Message : job[m].at \in Holding /\ ChatOf[m] = c}

Steer(m, interrupt) ==
  LET stops == interrupt /\ runningChat = ChatOf[m] IN
  /\ job[m].at = "new"
  /\ IF stops THEN Stop(ChatOf[m]) ELSE UNCHANGED <<contractVars, stopped>>
  /\ IF stops
     THEN /\ job' = [job EXCEPT ![m].at = "queued"]
          /\ queue' = <<m>> \o queue
          /\ taskCancelled' = TRUE
          /\ UNCHANGED <<runningChat, transcript>>
     ELSE Pump([job EXCEPT ![m].at = "queued"], <<m>> \o queue, runningChat)
  /\ UNCHANGED <<lastTask, restarts, foreign>>

(* /cancel, in the chat of the running task.                               *)
CancelTask(c) ==
  /\ runningChat = c
  /\ Stop(c)
  /\ taskCancelled' = TRUE
  /\ UNCHANGED <<job, queue, runningChat, storeVars, restarts, foreign>>

(* /new and the choice of a project; /undo; /compress.                     *)
Forget(c) ==
  /\ transcript' = [transcript EXCEPT ![c] = <<>>]
  /\ lastTask' = [lastTask EXCEPT ![c] = NoTask]
  /\ UNCHANGED <<contractVars, handlerVars, historyVars>>

Undo(c) ==
  /\ transcript[c] # <<>>
  /\ transcript' = [transcript EXCEPT ![c] = Shortened(@)]
  /\ lastTask' = [lastTask EXCEPT ![c] = NoTask]
  /\ UNCHANGED <<contractVars, handlerVars, historyVars>>

Compress(c) ==
  /\ Len(transcript[c]) >= Compact
  /\ transcript' = [transcript EXCEPT ![c] = LastOf(@, Compact)]
  /\ UNCHANGED <<contractVars, handlerVars, lastTask, historyVars>>

-----------------------------------------------------------------------------
(* The progress card is there or was given up: run is called.  It throws   *)
(* if another front end was faster.                                        *)
Announced(m) ==
  /\ job[m].at = "announcing"
  /\ Call(m)
  /\ job' = IF engaged
            THEN [job EXCEPT ![m].at = "reporting", ![m].record = "failed"]
            ELSE [job EXCEPT ![m].at = "running"]
  /\ UNCHANGED <<queue, runningChat, taskCancelled, storeVars, historyVars>>

Progresses(m) ==
  /\ job[m].at = "running"
  /\ Engage(m)
  /\ UNCHANGED agentVars

(***************************************************************************)
(* The run settles.  A failure or a cancellation is first reported on the  *)
(* progress card; a success gives the reservation back at once, and the    *)
(* next task starts before this one has saved its turn.                    *)
(***************************************************************************)
Settled(m, outcome) ==
  /\ job[m].at = "running"
  /\ End(m, outcome)
  /\ IF outcome = "failed"
     THEN /\ job' = [job EXCEPT ![m].at = "reporting", ![m].record = "failed"]
          /\ UNCHANGED <<queue, runningChat, taskCancelled, transcript>>
     ELSE IF taskCancelled
     THEN /\ job' = [job EXCEPT ![m].at = "reporting", ![m].record = "cancelled"]
          /\ UNCHANGED <<queue, runningChat, taskCancelled, transcript>>
     ELSE Pump([job EXCEPT ![m].at = "tidying", ![m].record = "completed"],
               queue, NoChat)
  /\ UNCHANGED <<lastTask, historyVars>>

(* The handler returns: what is left is to send the reply, which matters   *)
(* only if a task from the queue waits for it.                             *)
Returned(m) ==
  [job EXCEPT ![m].seen = <<>>, ![m].at = IF job[m].drained THEN "replying" ELSE "done"]

(* Fault: only a success looks at the queue.                               *)
ReportedUnpumped(m) ==
  /\ job[m].at = "reporting"
  /\ job' = Returned(m)
  /\ runningChat' = NoChat
  /\ UNCHANGED <<contractVars, queue, taskCancelled, transcript, lastTask, historyVars>>

(* The card of a failed or cancelled task has been edited: `finally'.      *)
Reported(m) ==
  /\ job[m].at = "reporting"
  /\ UNCHANGED contractVars
  /\ Pump(Returned(m), queue, NoChat)
  /\ UNCHANGED <<lastTask, historyVars>>

(* Fault: the turn is stored in the chat that runs now.                    *)
TidiedElsewhere(m) ==
  LET c == IF runningChat = NoChat THEN ChatOf[m] ELSE runningChat IN
  /\ job[m].at = "tidying"
  /\ job' = Returned(m)
  /\ transcript' = [transcript EXCEPT ![c] = LastOf(Append(job[m].seen, job[m].task), Kept)]
  /\ lastTask' = [lastTask EXCEPT ![c] = job[m].task]
  /\ UNCHANGED <<contractVars, queue, runningChat, taskCancelled, historyVars>>

(* The card of a successful task is gone: its turn is saved behind those   *)
(* it had read.                                                            *)
Tidied(m) ==
  LET c == ChatOf[m] IN
  /\ job[m].at = "tidying"
  /\ job' = Returned(m)
  /\ transcript' = [transcript EXCEPT ![c] = LastOf(Append(job[m].seen, job[m].task), Kept)]
  /\ lastTask' = [lastTask EXCEPT ![c] = job[m].task]
  /\ UNCHANGED <<contractVars, queue, runningChat, taskCancelled, historyVars>>

(* The reply to a task from the queue was sent, or its sending given up:   *)
(* the task makes way for the next one.                                    *)
Replied(m) ==
  /\ job[m].at = "replying"
  /\ UNCHANGED contractVars
  /\ Pump([job EXCEPT ![m].at = "done", ![m].drained = FALSE], queue, runningChat)
  /\ UNCHANGED <<lastTask, historyVars>>

-----------------------------------------------------------------------------
(* The window and the scheduler: their runs, and the window's stop button. *)
OtherRun(r) ==
  /\ Call(r) \/ Engage(r) \/ \E outcome \in Outcomes : End(r, outcome)
  /\ foreign' = TRUE
  /\ UNCHANGED <<handlerVars, storeVars, restarts, stopped>>

OtherCancel ==
  /\ engaged
  /\ Cancel
  /\ foreign' = TRUE
  /\ UNCHANGED <<handlerVars, storeVars, restarts, stopped>>

(* The process ends, by /restart or not, and starts again: only the store  *)
(* survives, where interrupted runs are marked as cancelled.               *)
Restart ==
  /\ restarts < MaxRestart
  /\ restarts' = restarts + 1
  /\ standing' = [r \in Run |->
       IF standing[r] \in {"starting", "working"} THEN "failed" ELSE standing[r]]
  /\ engaged' = FALSE /\ stopping' = FALSE
  /\ queue' = <<>> /\ runningChat' = NoChat /\ taskCancelled' = FALSE
  /\ job' = [m \in Message |->
       IF job[m].at \in {"new", "done"} THEN job[m]
       ELSE [job[m] EXCEPT !.at = "lost", !.seen = <<>>, !.drained = FALSE,
               !.record = IF @ = "running" THEN "cancelled" ELSE @]]
  /\ stopped' = stopped \cup {m \in Message : job[m].record = "running"}
  /\ UNCHANGED <<storeVars, foreign>>

Next ==
  \/ \E m \in Message :
       \/ Task(m) \/ Retry(m) \/ \E interrupt \in BOOLEAN : Steer(m, interrupt)
       \/ Announced(m) \/ Progresses(m) \/ \E o \in Outcomes : Settled(m, o)
       \/ Reported(m) \/ Tidied(m) \/ Replied(m)
  \/ \E c \in Chat : CancelTask(c) \/ Forget(c) \/ Undo(c) \/ Compress(c)
  \/ \E r \in Other : OtherRun(r)
  \/ OtherCancel \/ Restart

Spec == Init /\ [][Next]_vars
-----------------------------------------------------------------------------
(* Properties.                                                             *)

(* The types of the state.                                                 *)
TypeOK ==
  /\ standing \in [Run -> Standing] /\ engaged \in BOOLEAN /\ stopping \in BOOLEAN
  /\ \A m \in Message :
       /\ job[m].at \in Place /\ job[m].task \in Message
       /\ job[m].record \in {"none", "running"} \cup Outcomes
  /\ queue \in Seq(Message)
  /\ runningChat \in Chat \cup {NoChat}
  /\ \A c \in Chat : transcript[c] \in Seq(Message \cup {OldTask}) /\ Len(transcript[c]) <= Kept
  /\ lastTask \in [Chat -> Message \cup {NoTask}]

(* One reservation for all chats: at most one task is between taking and   *)
(* giving it back, whoever the harness is busy with, it belongs to the     *)
(* chat that /cancel checks against, and the queue holds exactly the tasks *)
(* that wait, each once.                                                   *)
OneTaskAtATime ==
  /\ \A m, n \in Message : {job[m].at, job[n].at} \subseteq Holding => m = n
  /\ \A m \in Message : job[m].at \in Holding => runningChat = ChatOf[m]
  /\ runningChat # NoChat => \E m \in Message : job[m].at \in Holding
  /\ {m \in Message : job[m].at = "queued"} = {queue[i] : i \in 1..Len(queue)}
  /\ \A i, j \in 1..Len(queue) : queue[i] = queue[j] => i = j

(* While the agent is the only front end, a task waits only behind a task: *)
(* every way a task can end looks at the queue.                            *)
NoStrandedTask == queue # <<>> /\ ~foreign => runningChat # NoChat

(* Run records tell the truth, across cancellations that come too early or *)
(* too late, failures and restarts: `running' is a task under way,         *)
(* `cancelled' one that its own chat or a restart has stopped, and while   *)
(* the agent is the only front end `completed' is one that was not.        *)
RecordsTrue ==
  \A m \in Message :
    /\ job[m].record = "running" <=> job[m].at \in {"announcing", "running"}
    /\ job[m].record = "cancelled" => m \in stopped
    /\ job[m].record = "completed" /\ ~foreign => standing[m] = "completed"

(* A task that a message has come in to retry; one that was completed in a *)
(* chat.                                                                   *)
Retried(jobs, t) == \E n \in Message : n # t /\ jobs[n].task = t

TurnOf(jobs, t, c) ==
  \E n \in Message : jobs[n].task = t /\ ChatOf[n] = c /\ jobs[n].record = "completed"

TurnsSound(jobs, turns, c) ==
  /\ \A i \in 1..Len(turns) :
       (i = 1 /\ turns[i] = OldTask) \/ TurnOf(jobs, turns[i], c)
  /\ \A i, j \in 1..Len(turns) : turns[i] = turns[j] => i = j \/ Retried(jobs, turns[i])

(* A transcript holds turns of its own chat's completed tasks, the earlier *)
(* one first, none twice unless it was retried, although tasks save turns  *)
(* they have read long before, and commands change what is stored          *)
(* meanwhile.                                                              *)
TranscriptSound == \A c \in Chat : TurnsSound(job, transcript[c], c)

(* docs/TELEGRAM.md:43: an idle reset, undo or compaction supplies `only   *)
(* the retained visible context, preventing removed replies ... from       *)
(* returning'.  A task that ends adds its turn to the transcript as it     *)
(* stands: it puts back no turn that was removed and takes none away.      *)
TurnsAddUp ==
  [][\A m \in Message :
       job[m].at = "tidying" /\ job'[m].at \in {"replying", "done"} =>
         transcript'[ChatOf[m]] =
           LastOf(Append(transcript[ChatOf[m]], job[m].task), Kept)]_vars

(* Helpers of the induction, of the state a step leaves and of the one it  *)
(* hands to Pump.  The records in full.                                    *)
JobRecord ==
  [at : Place, task : Message, seen : Seq(Message \cup {OldTask}), drained : BOOLEAN,
   record : {"none", "running"} \cup Outcomes]

(* Where a handler stands, and what it has recorded and reserved.          *)
JobSound(jobs, m, chat) ==
  /\ jobs[m].at = "new" => jobs[m].task = m
  /\ jobs[m].at \in {"new", "queued"} => jobs[m].record = "none"
  /\ jobs[m].record = "running" <=> jobs[m].at \in {"announcing", "running"}
  /\ jobs[m].at = "tidying" => jobs[m].record = "completed"
  /\ jobs[m].at \in Holding => chat = ChatOf[m]

InQueue(q, m) == \E i \in 1..Len(q) : q[i] = m

JobsSound(jobs, q, chat) ==
  /\ \A m \in Message :
       JobSound(jobs, m, chat) /\ (jobs[m].at = "queued" <=> InQueue(q, m))
  /\ \A i, j \in 1..Len(q) : q[i] = q[j] => i = j
  /\ \A m, n \in Message : {jobs[m].at, jobs[n].at} \subseteq Holding => m = n
  /\ chat # NoChat => \E m \in Message : jobs[m].at \in Holding

(* Cancellations are the chat's own or a restart's.                        *)
CancelsSound(jobs, cancelled, stops) ==
  \A m \in Message :
    /\ jobs[m].at \in Holding /\ cancelled => m \in stops
    /\ jobs[m].record = "cancelled" => m \in stops

(* What the harness does for a task, while nobody else uses it.            *)
RunsSound(jobs, stands, others) ==
  \A m \in Message :
    /\ stands[m] \in {"starting", "working"} => jobs[m].at = "running"
    /\ jobs[m].record = "completed" /\ ~others => stands[m] = "completed"

HarnessSound(stands, busy, stops, cancelled, others) ==
  ~others =>
    /\ \A r \in Other : stands[r] = "new"
    /\ busy \/ stops => \E r \in Run : stands[r] = "working"
    /\ stops => cancelled

(* What is stored, and what a task has read of it before it runs.          *)
StoreSound(jobs, turns) ==
  /\ \A c \in Chat : Len(turns[c]) <= Kept /\ TurnsSound(jobs, turns[c], c)
  /\ \A m \in Message :
       /\ TurnsSound(jobs, jobs[m].seen, ChatOf[m])
       /\ jobs[m].at \in Holding \cup {"tidying"} =>
            \A i \in 1..Len(jobs[m].seen) : jobs[m].seen[i] = m => Retried(jobs, m)

Typed(jobs, q, chat, cancelled, turns) ==
  /\ jobs \in [Message -> JobRecord] /\ q \in Seq(Message)
  /\ chat \in Chat \cup {NoChat} /\ cancelled \in BOOLEAN
  /\ turns \in [Chat -> Seq(Message \cup {OldTask})]

AgentInv ==
  /\ standing \in [Run -> Standing] /\ engaged \in BOOLEAN /\ stopping \in BOOLEAN
  /\ lastTask \in [Chat -> Message \cup {NoTask}]
  /\ Typed(job, queue, runningChat, taskCancelled, transcript)
  /\ JobsSound(job, queue, runningChat)
  /\ CancelsSound(job, taskCancelled, stopped)
  /\ RunsSound(job, standing, foreign)
  /\ HarnessSound(standing, engaged, stopping, taskCancelled, foreign)
  /\ StoreSound(job, transcript)
  /\ NoStrandedTask
=============================================================================
