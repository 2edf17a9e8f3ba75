---------------------------- MODULE TelegramBridge ----------------------------
(***************************************************************************)
(* The long polling of Grok Build Desktop's Telegram bridge (class         *)
(* TelegramBridge, src/packages/desktop/src/main/telegram.ts).  A loop     *)
(* asks for updates from an offset on, starts the handler of each and does *)
(* not wait for it; the offset is kept in memory and stored after a batch. *)
(* A connection and a disconnection may find an older loop still waiting   *)
(* for the network; what it does then depends on its generation, or does   *)
(* not.                                                                    *)
(*                                                                         *)
(* Telegram numbers the updates of a bot and forgets those below an offset *)
(* it was asked for.  One bot is modelled, and the loop's awaits: the      *)
(* request, the notice to a chat that is not paired, the pause after a     *)
(* failure.  Updates without a text are left out.                          *)
(***************************************************************************)
EXTENDS Integers, FiniteSets, FiniteSetsExt

CONSTANTS
  Chat,
  Arrivals,       \* number of updates
  ChatOf,         \* [1..Arrivals -> Chat]
  MaxGeneration,  \* of one process
  MaxConnect,
  MaxRestart

Update == 1..Arrivals
Generation == 1..MaxGeneration

ASSUME TelegramBridgeAssumption ==
  /\ IsFiniteSet(Chat)
  /\ Arrivals \in Nat /\ MaxGeneration \in Nat \ {0}
  /\ MaxConnect \in Nat /\ MaxRestart \in Nat
  /\ ChatOf \in [Update -> Chat]

VARIABLES
  connected,      \* a token is stored
  polling,
  generation,     \* pollGeneration
  offset,         \* in memory
  stored,         \* updateOffset in the store
  allowed,        \* allowedChatIds
  pending,        \* pendingChatIds
  notified,       \* unauthorizedNotified
  loop,           \* [Generation -> the loop: where it stands, the offset it
                  \*   asked for, or the rest of its batch]
  arrived,        \* Telegram: the newest update
  confirmed,      \* Telegram: updates below it are forgotten
  handled,        \* history: [Update -> handlers started, up to two]
  turnedAway,     \* history: updates of chats that were not paired
  connects, restarts

chats == <<allowed, pending, notified>>
server == <<arrived, confirmed>>
history == <<handled, turnedAway, connects, restarts>>
vars == <<connected, polling, generation, offset, stored, chats, loop, server, history>>

(* The awaits of a loop: the webhook and the command menu, the request on  *)
(* its way and received, the notice, the pause.                            *)
Alive == {"bootstrapping", "asking", "heard", "sending", "waiting"}

Idle == [at |-> "none", next |-> 0, last |-> 0]

Larger(a, b) == IF a > b THEN a ELSE b

Stale(g) == ~polling \/ generation # g

(* The app starts, with or without a token from an earlier run.            *)
Init ==
  /\ connected \in BOOLEAN
  /\ polling = connected
  /\ generation = IF connected THEN 1 ELSE 0
  /\ offset = 0 /\ stored = 0
  /\ allowed \in SUBSET Chat
  /\ pending = {} /\ notified = {}
  /\ loop = [g \in Generation |->
       IF connected /\ g = 1 THEN [Idle EXCEPT !.at = "bootstrapping"] ELSE Idle]
  /\ arrived = 0 /\ confirmed = 0
  /\ handled = [u \in Update |-> 0] /\ turnedAway = {}
  /\ connects = 0 /\ restarts = 0

-----------------------------------------------------------------------------
Moves(g, place) == loop' = [loop EXCEPT ![g] = [Idle EXCEPT !.at = place]]

(* The head of the loop: it ends if it is stale or has no token, else it   *)
(* asks from the offset on.                                                *)
Ask(g) ==
  IF Stale(g) \/ ~connected
  THEN Moves(g, "over")
  ELSE loop' = [loop EXCEPT ![g] = [at |-> "asking", next |-> offset', last |-> 0]]

(* Fault: a failed bootstrap only logs.                                    *)
BootstrappedSilently(g) ==
  /\ loop[g].at = "bootstrapping"
  /\ UNCHANGED <<polling, offset>>
  /\ Ask(g) \/ Moves(g, "over")
  /\ UNCHANGED <<connected, generation, stored, chats, server, history>>

(* deleteWebhook has succeeded, or failed: then polling is paused, unless  *)
(* the loop is stale.                                                      *)
Bootstrapped(g) ==
  /\ loop[g].at = "bootstrapping"
  /\ \/ UNCHANGED <<polling, offset>> /\ Ask(g)
     \/ polling' = (polling /\ generation # g) /\ Moves(g, "over") /\ UNCHANGED offset
  /\ UNCHANGED <<connected, generation, stored, chats, server, history>>

(* Fault: the offset is that of the update itself.                         *)
OffsetOfLast(current, end) == Larger(current, end)

(* The offset after the updates up to this one.                            *)
OffsetAfter(current, end) == Larger(current, end + 1)

(* Fault: the offset in the store is taken once the batch is under way.    *)
StoresEarly(notice, last) == stored' = Larger(offset', last + 1)

(* The store follows when the batch is done.                               *)
Stores(notice, last) == stored' = IF notice THEN stored ELSE offset'

(***************************************************************************)
(* A batch from next on: the handler of each update of a paired chat is    *)
(* started, other chats are put on the pending list, up to the first chat  *)
(* to be notified, if any.                                                 *)
(***************************************************************************)
Deal(g, next, last) ==
  LET unknown == {u \in next..last : ChatOf[u] \notin allowed \cup notified}
      notice == unknown # {}
      end == IF notice THEN Min(unknown) ELSE last
      mine == {u \in next..end : ChatOf[u] \in allowed}
      others == (next..end) \ mine
  IN
  /\ offset' = IF next > end THEN offset ELSE OffsetAfter(offset, end)
  /\ handled' = [u \in Update |-> IF u \in mine /\ handled[u] < 2 THEN handled[u] + 1
                                  ELSE handled[u]]
  /\ turnedAway' = turnedAway \cup others
  /\ pending' = pending \cup {ChatOf[u] : u \in others}
  /\ notified' = IF notice THEN notified \cup {ChatOf[end]} ELSE notified
  /\ Stores(notice, last)
  /\ IF notice
     THEN loop' = [loop EXCEPT ![g] = [at |-> "sending", next |-> end + 1, last |-> last]]
     ELSE Ask(g)

(* Telegram receives the request, forgets what is below its offset ...     *)
Received(g) ==
  /\ loop[g].at = "asking"
  /\ confirmed' = Larger(confirmed, loop[g].next)
  /\ loop' = [loop EXCEPT ![g].at = "heard"]
  /\ UNCHANGED <<connected, polling, generation, offset, stored, chats, arrived, history>>

(* ... and answers with the rest.  The answer is used whatever has become  *)
(* of the loop's generation.                                               *)
Answered(g) ==
  LET first == Larger(1, Larger(confirmed, loop[g].next)) IN
  /\ loop[g].at = "heard"
  /\ IF first <= arrived
     THEN Deal(g, first, arrived)
     ELSE UNCHANGED <<offset, stored, pending, notified, handled, turnedAway>> /\ Ask(g)
  /\ UNCHANGED <<connected, polling, generation, allowed, server, connects, restarts>>

(* The notice has been sent, or could not be: the rest of the batch.       *)
Sent(g) ==
  /\ loop[g].at = "sending"
  /\ Deal(g, loop[g].next, loop[g].last)
  /\ UNCHANGED <<connected, polling, generation, allowed, server, connects, restarts>>

(* An invalid token or a rate limit: polling is paused, of whichever       *)
(* generation.                                                             *)
AuthError(g) ==
  /\ loop[g].at = "heard"
  /\ polling' = FALSE
  /\ Moves(g, "over")
  /\ UNCHANGED <<connected, generation, offset, stored, chats, server, history>>

(* Fault: a failed request ends the loop.                                  *)
FailedForGood(g) ==
  /\ loop[g].at \in {"asking", "heard"}
  /\ Moves(g, "over")
  /\ UNCHANGED <<connected, polling, generation, offset, stored, chats, server, history>>

(* A timeout, a lost connection, an answer that says no.                   *)
Failed(g) ==
  /\ loop[g].at \in {"asking", "heard"}
  /\ Moves(g, IF Stale(g) THEN "over" ELSE "waiting")
  /\ UNCHANGED <<connected, polling, generation, offset, stored, chats, server, history>>

Waited(g) ==
  /\ loop[g].at = "waiting"
  /\ UNCHANGED offset
  /\ Ask(g)
  /\ UNCHANGED <<connected, polling, generation, stored, chats, server, history>>

-----------------------------------------------------------------------------
(* connect, once getMe has accepted the token: the offsets are reset and   *)
(* polling is started unless it is on.                                     *)
Connect ==
  /\ connects < MaxConnect
  /\ connects' = connects + 1
  /\ connected' = TRUE
  /\ offset' = 0 /\ stored' = 0
  /\ polling' = TRUE
  /\ IF polling
     THEN UNCHANGED <<generation, loop>>
     ELSE /\ generation < MaxGeneration
          /\ generation' = generation + 1
          /\ Moves(generation', "bootstrapping")
  /\ UNCHANGED <<chats, server, handled, turnedAway, restarts>>

Disconnect ==
  /\ connected
  /\ generation < MaxGeneration
  /\ connected' = FALSE
  /\ polling' = FALSE
  /\ generation' = generation + 1
  /\ stored' = offset
  /\ UNCHANGED <<offset, chats, loop, server, history>>

(* Fault: an approved chat stays on the pending list.                      *)
SetAllowedKeepsPending ==
  /\ allowed' \in SUBSET Chat
  /\ notified' = notified \ allowed'
  /\ UNCHANGED <<connected, polling, generation, offset, stored, pending, loop, server,
                 history>>

(* setAllowedChats: chats are approved and withdrawn.                      *)
SetAllowed ==
  /\ allowed' \in SUBSET Chat
  /\ pending' = pending \ allowed'
  /\ notified' = notified \ allowed'
  /\ UNCHANGED <<connected, polling, generation, offset, stored, loop, server, history>>

(* Somebody writes to the bot.                                             *)
Arrive ==
  /\ arrived < Arrivals
  /\ arrived' = arrived + 1
  /\ UNCHANGED <<connected, polling, generation, offset, stored, chats, loop, confirmed,
                 history>>

(* The process ends and starts again: only the store survives.             *)
Restart ==
  /\ restarts < MaxRestart
  /\ restarts' = restarts + 1
  /\ polling' = connected
  /\ generation' = IF connected THEN 1 ELSE 0
  /\ offset' = IF connected THEN stored ELSE 0
  /\ notified' = {}
  /\ loop' = [g \in Generation |->
       IF connected /\ g = 1 THEN [Idle EXCEPT !.at = "bootstrapping"] ELSE Idle]
  /\ UNCHANGED <<connected, stored, allowed, pending, server, handled, turnedAway, connects>>

LoopStep(g) ==
  \/ Bootstrapped(g) \/ Received(g) \/ Answered(g) \/ Sent(g)
  \/ AuthError(g) \/ Failed(g) \/ Waited(g)

Next ==
  \/ \E g \in Generation : LoopStep(g)
  \/ Connect \/ Disconnect \/ SetAllowed \/ Arrive \/ Restart

Spec == Init /\ [][Next]_vars

(* A loop goes on when what it waits for has come, and a request that is   *)
(* repeated for ever gets through and is answered.                         *)
Fairness ==
  \A g \in Generation :
    /\ WF_vars(LoopStep(g))
    /\ SF_vars(Received(g))
    /\ SF_vars(Answered(g))

LiveSpec == Spec /\ Fairness
-----------------------------------------------------------------------------
(* Properties.                                                             *)

Dealt(u) == handled[u] > 0 \/ u \in turnedAway

(* The types of the state; no offset is ahead of what has arrived.         *)
TypeOK ==
  /\ {connected, polling} \subseteq BOOLEAN
  /\ generation \in 0..MaxGeneration
  /\ {offset, stored, confirmed} \subseteq 0..arrived + 1
  /\ allowed \subseteq Chat /\ pending \subseteq Chat \ allowed /\ notified \subseteq Chat
  /\ \A g \in Generation : loop[g].at \in Alive \cup {"none", "over"}
  /\ arrived \in 0..Arrivals
  /\ handled \in [Update -> 0..2] /\ turnedAway \subseteq Update

(* No update is lost: what the bridge remembers as dealt with, in memory,  *)
(* in the store or by having told Telegram to forget it, was handed to the *)
(* agent or turned away, whichever loops, connections and restarts it took.*)
NothingSkipped ==
  \A u \in 1..arrived : u < offset \/ u < stored \/ u < confirmed => Dealt(u)

(* The status shown to the user is true: while it says that the bot is     *)
(* polled there is a token, and a loop of the current generation runs.     *)
PollingHonest ==
  polling => connected /\ generation > 0 /\ loop[generation].at \in Alive

(* docs/TELEGRAM.md:48, as far as it goes: an update is handled again only *)
(* after a restart, if its batch was not finished, or after a connection.  *)
StoredIsFinal ==
  [][\A u \in Update : handled'[u] > handled[u] =>
       \/ connects > 0
       \/ u >= stored /\ (handled[u] > 0 => restarts > 0)]_vars

(* Helpers of the induction.  The state in full.                           *)
LoopRecord == [at : Alive \cup {"none", "over"}, next : Nat, last : Nat]

Typed ==
  /\ connected \in BOOLEAN /\ polling \in BOOLEAN /\ generation \in 0..MaxGeneration
  /\ offset \in Nat /\ stored \in Nat /\ confirmed \in Nat /\ arrived \in 0..Arrivals
  /\ allowed \in SUBSET Chat /\ pending \in SUBSET (Chat \ allowed)
  /\ notified \in SUBSET Chat
  /\ loop \in [Generation -> LoopRecord]
  /\ handled \in [Update -> 0..2] /\ turnedAway \in SUBSET Update
  /\ connects \in Nat /\ restarts \in Nat

(* An offset that promises nothing of an update that was not dealt with.   *)
Honest(n) == n <= arrived + 1 /\ \A u \in 1..arrived : u < n => Dealt(u)

(* A loop asks from, or has got so far in its batch, only what is dealt    *)
(* with before.                                                            *)
LoopSound(g) ==
  /\ Honest(loop[g].next) /\ loop[g].last <= arrived
  /\ loop[g].at = "sending" => loop[g].next > 0

(* Until a connection there is one loop at most, the only one that moves   *)
(* the offset and the store.                                               *)
FirstLoop ==
  connects = 0 =>
    /\ \A g \in Generation :
         /\ loop[g].at \in Alive => g = 1 /\ stored <= offset
         /\ loop[g].at \in {"asking", "heard", "sending"} => offset <= loop[g].next
    /\ restarts = 0 => \A u \in Update : handled[u] > 0 => u < offset

BridgeInv ==
  /\ Typed
  /\ Honest(offset) /\ Honest(stored) /\ Honest(confirmed)
  /\ \A g \in Generation : LoopSound(g)
  /\ PollingHonest
  /\ FirstLoop

(* A message to a polled bot is dealt with, unless polling is paused.      *)
PolledIsDealt ==
  \A u \in Update : polling /\ arrived >= u ~> Dealt(u) \/ ~polling
=============================================================================
