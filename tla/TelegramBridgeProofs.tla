-------------------------- MODULE TelegramBridgeProofs --------------------------
(***************************************************************************)
(* What the polling of the Telegram bridge keeps for any number of         *)
(* updates, chats, loops, connections and restarts.                        *)
(***************************************************************************)
EXTENDS TelegramBridge, WellFoundedInduction, TLAPS

USE TelegramBridgeAssumption DEF TelegramBridgeAssumption, Update, Generation

(* The first of some updates.                                              *)
LEMMA SmallestOf ==
  ASSUME NEW S \in SUBSET Nat, S # {}
  PROVE  Min(S) \in S /\ \A y \in S : Min(S) <= y
<1> DEFINE R == OpToRel(<, Nat)
<1>1. \A y, x \in Nat : <<y, x>> \in R <=> y < x
  BY DEF OpToRel
<1>2. IsWellFoundedOn(R, Nat)
  BY NatLessThanWellFounded, Zenon
<1> HIDE DEF R
<1>3. PICK x \in S : \A y \in S : ~ (<<y, x>> \in R)
  BY <1>2, WFMin, Zenon
<1>4. ASSUME NEW y \in S PROVE x <= y
  <2>1. x \in Nat /\ y \in Nat /\ ~ (<<y, x>> \in R)
    BY <1>3
  <2>2. ~ (y < x)
    BY <1>1, <2>1, Zenon
  <2> QED
    BY <2>1, <2>2
<1> QED
  BY <1>4 DEF Min

-----------------------------------------------------------------------------
(* Offsets.                                                                *)

LEMMA HonestLarger ==
  ASSUME NEW a \in Nat, NEW b \in Nat, Honest(a), Honest(b)
  PROVE  Larger(a, b) \in Nat /\ Honest(Larger(a, b))
BY DEF Larger, Honest

(* What is dealt with stays dealt with, so that an offset stays honest.    *)
LEMMA StaysHonest ==
  ASSUME Typed, arrived' = arrived \/ arrived' = arrived + 1,
         turnedAway \subseteq turnedAway',
         \A u \in Update : handled[u] > 0 => handled'[u] > 0,
         NEW n \in Nat, Honest(n)
  PROVE  Honest(n)'
<1>1. arrived' \in Nat /\ arrived \in Nat /\ arrived <= Arrivals /\ n <= arrived' + 1
  BY DEF Typed, Honest
<1>2. ASSUME NEW u \in 1..arrived', u < n PROVE Dealt(u)'
  <2>1. u \in 1..arrived /\ u \in Update
    BY <1>1, <1>2 DEF Honest
  <2>2. Dealt(u)
    BY <1>2, <2>1 DEF Honest
  <2> QED
    BY <2>1, <2>2 DEF Dealt
<1> QED
  BY <1>1, <1>2 DEF Honest

LEMMA RestRecord ==
  /\ Idle \in LoopRecord /\ Idle.at = "none" /\ Idle.next = 0 /\ Idle.last = 0
  /\ \A place \in Alive \cup {"none", "over"} :
       /\ [Idle EXCEPT !.at = place] \in LoopRecord
       /\ [Idle EXCEPT !.at = place].at = place
       /\ [Idle EXCEPT !.at = place].next = 0 /\ [Idle EXCEPT !.at = place].last = 0
BY DEF Idle, LoopRecord

LEMMA InitBridge == Init => BridgeInv
<1> SUFFICES ASSUME Init PROVE BridgeInv
  OBVIOUS
<1>1. /\ connected \in BOOLEAN /\ polling = connected
      /\ generation = IF connected THEN 1 ELSE 0
      /\ offset = 0 /\ stored = 0 /\ confirmed = 0 /\ arrived = 0
      /\ handled = [u \in Update |-> 0] /\ turnedAway = {} /\ pending = {} /\ notified = {}
      /\ allowed \in SUBSET Chat /\ connects = 0 /\ restarts = 0
  BY DEF Init
<1>2. \A g \in Generation :
        loop[g] = IF connected /\ g = 1 THEN [Idle EXCEPT !.at = "bootstrapping"] ELSE Idle
  BY DEF Init
<1>3. loop \in [Generation -> LoopRecord]
      /\ \A g \in Generation :
           /\ loop[g].next = 0 /\ loop[g].last = 0
           /\ loop[g].at = IF connected /\ g = 1 THEN "bootstrapping" ELSE "none"
  BY <1>2, RestRecord DEF Init, Alive
<1>4. Typed
  <2>1. polling \in BOOLEAN
    BY <1>1, Zenon
  <2> QED
    BY <1>1, <1>3, <2>1 DEF Typed
<1>5. Honest(0)
  BY <1>1 DEF Honest
<1>6. \A g \in Generation : LoopSound(g)
  BY <1>1, <1>3, <1>5 DEF LoopSound
<1>7. PollingHonest
  BY <1>1, <1>3 DEF PollingHonest, Alive
<1>8. FirstLoop
  BY <1>1, <1>3 DEF FirstLoop, Alive
<1> QED
  BY <1>1, <1>4, <1>5, <1>6, <1>7, <1>8 DEF BridgeInv

-----------------------------------------------------------------------------
(* Steps of a loop.                                                        *)

(* One loop moves, and what it changes is honest.                          *)
LEMMA LoopMove ==
  ASSUME BridgeInv, NEW g \in Generation, loop[g].at \in Alive,
         NEW x \in LoopRecord, loop' = [loop EXCEPT ![g] = x],
         UNCHANGED <<connected, generation, allowed, arrived, connects, restarts>>,
         polling' \in BOOLEAN, polling' => polling,
         x.at \notin Alive => generation # g \/ ~polling',
         offset' \in Nat, stored' \in Nat, confirmed' \in Nat,
         Honest(offset)', Honest(stored)', Honest(confirmed)',
         pending' \in SUBSET (Chat \ allowed), notified' \in SUBSET Chat,
         handled' \in [Update -> 0..2], turnedAway' \in SUBSET Update,
         turnedAway \subseteq turnedAway',
         \A u \in Update : handled[u] > 0 => handled'[u] > 0,
         Honest(x.next)', x.last <= arrived, x.at = "sending" => x.next > 0,
         connects = 0 =>
           /\ stored' <= offset'
           /\ x.at \in {"asking", "heard", "sending"} => offset' <= x.next
           /\ restarts = 0 => \A u \in Update : handled'[u] > 0 => u < offset'
  PROVE  BridgeInv'
<1>1. loop'[g] = x /\ \A h \in Generation : h # g => loop'[h] = loop[h]
  BY DEF BridgeInv, Typed
<1>2. Typed'
  BY DEF BridgeInv, Typed
<1>3. ASSUME NEW h \in Generation PROVE LoopSound(h)'
  <2>1. CASE h = g
    BY <1>1, <2>1 DEF LoopSound
  <2>2. CASE h # g
    <3>1. loop'[h] = loop[h] /\ loop[h].next \in Nat /\ LoopSound(h)
      BY <1>1, <2>2 DEF BridgeInv, Typed, LoopRecord
    <3>2. Honest(loop[h].next)'
      BY <1>1, <3>1, StaysHonest, <2>2 DEF BridgeInv, LoopSound
    <3> QED
      BY <3>1, <3>2 DEF LoopSound
  <2> QED
    BY <2>1, <2>2
<1>4. PollingHonest'
  <2> SUFFICES ASSUME polling'
               PROVE  connected' /\ generation' > 0 /\ loop'[generation'].at \in Alive
    BY DEF PollingHonest
  <2>1. connected /\ generation \in Generation /\ loop[generation].at \in Alive
    BY DEF BridgeInv, PollingHonest, Typed
  <2> QED
    BY <1>1, <2>1
<1>5. FirstLoop'
  <2> SUFFICES ASSUME connects = 0
               PROVE  /\ \A h \in Generation :
                           /\ loop'[h].at \in Alive => h = 1 /\ stored' <= offset'
                           /\ loop'[h].at \in {"asking", "heard", "sending"}
                              => offset' <= loop'[h].next
                      /\ restarts = 0 => \A u \in Update : handled'[u] > 0 => u < offset'
    BY DEF FirstLoop
  <2>1. \A h \in Generation : loop[h].at \in Alive => h = 1
    BY DEF BridgeInv, FirstLoop
  <2>2. \A h \in Generation : h # g => loop'[h].at \notin Alive
    BY <1>1, <2>1
  <2> QED
    BY <1>1, <2>1, <2>2 DEF Alive
<1> QED
  BY <1>2, <1>3, <1>4, <1>5 DEF BridgeInv

(* What the head of the loop does.                                         *)
LEMMA AskForms ==
  ASSUME BridgeInv, NEW g \in Generation, Ask(g), offset' \in Nat
  PROVE  \E x \in LoopRecord :
           /\ loop' = [loop EXCEPT ![g] = x] /\ x.last = 0
           /\ \/ x.at = "over" /\ x.next = 0 /\ (generation # g \/ ~polling)
              \/ x.at = "asking" /\ x.next = offset'
<1>1. CASE Stale(g) \/ ~connected
  <2>1. generation # g \/ ~polling
    BY <1>1 DEF Stale, BridgeInv, PollingHonest
  <2>2. loop' = [loop EXCEPT ![g] = [Idle EXCEPT !.at = "over"]]
    BY <1>1 DEF Ask, Moves
  <2> QED
    BY <2>1, <2>2, RestRecord
<1>2. CASE ~(Stale(g) \/ ~connected)
  <2> DEFINE x == [at |-> "asking", next |-> offset', last |-> 0]
  <2>1. loop' = [loop EXCEPT ![g] = x]
    BY <1>2 DEF Ask
  <2>2. x \in LoopRecord /\ x.at = "asking" /\ x.next = offset' /\ x.last = 0
    BY DEF LoopRecord, Alive
  <2> QED
    BY <2>1, <2>2
<1> QED
  BY <1>1, <1>2

(* A loop that has learnt nothing goes to its head or elsewhere.           *)
LEMMA NothingLearnt ==
  ASSUME BridgeInv, NEW g \in Generation, loop[g].at \in Alive,
         NEW x \in LoopRecord, loop' = [loop EXCEPT ![g] = x],
         x.next \in {0, offset}, x.last = 0, x.at # "sending",
         x.at \in {"asking", "heard"} => x.next = offset,
         UNCHANGED <<connected, generation, allowed, arrived, connects, restarts, offset,
                     stored, confirmed, pending, notified, handled, turnedAway>>,
         polling' \in BOOLEAN, polling' => polling,
         x.at \notin Alive => generation # g \/ ~polling'
  PROVE  BridgeInv'
<1>1. /\ Honest(offset)' /\ Honest(stored)' /\ Honest(confirmed)' /\ Honest(0)'
      /\ offset' \in Nat /\ stored' \in Nat /\ confirmed' \in Nat
      /\ pending' \in SUBSET (Chat \ allowed) /\ notified' \in SUBSET Chat
      /\ handled' \in [Update -> 0..2] /\ turnedAway' \in SUBSET Update
      /\ arrived \in Nat /\ offset \in Nat
  BY DEF BridgeInv, Typed, Honest, Dealt
<1>2. connects = 0 =>
        /\ stored' <= offset'
        /\ x.at \in {"asking", "heard", "sending"} => offset' <= x.next
        /\ restarts = 0 => \A u \in Update : handled'[u] > 0 => u < offset'
  BY <1>1 DEF BridgeInv, FirstLoop
<1>3. Honest(x.next)' /\ x.last <= arrived /\ (x.at = "sending" => x.next > 0)
  BY <1>1
<1>4. /\ turnedAway \subseteq turnedAway'
      /\ \A u \in Update : handled[u] > 0 => handled'[u] > 0
  OBVIOUS
<1> QED
  BY <1>1, <1>2, <1>3, <1>4, LoopMove
-----------------------------------------------------------------------------
(* Batches.                                                                *)

(* What is done with the updates of a batch, up to `end'.                  *)
DealtUpTo(next, end) ==
  /\ offset' = IF next > end THEN offset ELSE OffsetAfter(offset, end)
  /\ handled' \in [Update -> 0..2] /\ turnedAway' \in SUBSET Update
  /\ turnedAway \subseteq turnedAway'
  /\ \A u \in Update : handled[u] > 0 => handled'[u] > 0
  /\ \A u \in Update : u \in next..end => Dealt(u)'
  /\ \A u \in Update : handled'[u] # handled[u] => u \in next..end
  /\ pending' \in SUBSET (Chat \ allowed) /\ notified' \in SUBSET Chat

(* The batch is dealt with to its end or to the first chat to be notified. *)
LEMMA DealForms ==
  ASSUME BridgeInv, NEW g \in Generation, NEW next \in Nat, NEW last \in Nat,
         next > 0, last <= arrived, Deal(g, next, last)
  PROVE  \E end \in 0..last :
           /\ DealtUpTo(next, end)
           /\ \/ /\ next <= end /\ stored' = stored
                 /\ loop' = [loop EXCEPT ![g] =
                               [at |-> "sending", next |-> end + 1, last |-> last]]
              \/ end = last /\ stored' = offset' /\ Ask(g)
<1> DEFINE unknown == {u \in next..last : ChatOf[u] \notin allowed \cup notified}
           notice == unknown # {}
           end == IF notice THEN Min(unknown) ELSE last
           mine == {u \in next..end : ChatOf[u] \in allowed}
           others == (next..end) \ mine
<1>1. end \in 0..last /\ (notice => end \in next..last)
  <2>1. CASE notice
    <3>1. unknown \in SUBSET Nat
      OBVIOUS
    <3>2. Min(unknown) \in unknown
      BY <2>1, <3>1, SmallestOf
    <3> QED
      BY <2>1, <3>2
  <2>2. CASE ~notice
    BY <2>2
  <2> QED
    BY <2>1, <2>2
<1>2. /\ offset' = IF next > end THEN offset ELSE OffsetAfter(offset, end)
      /\ handled' = [u \in Update |-> IF u \in mine /\ handled[u] < 2 THEN handled[u] + 1
                                      ELSE handled[u]]
      /\ turnedAway' = turnedAway \cup others
      /\ pending' = pending \cup {ChatOf[u] : u \in others}
      /\ notified' = IF notice THEN notified \cup {ChatOf[end]} ELSE notified
      /\ stored' = IF notice THEN stored ELSE offset'
      /\ IF notice
         THEN loop' = [loop EXCEPT ![g] =
                         [at |-> "sending", next |-> end + 1, last |-> last]]
         ELSE Ask(g)
  BY DEF Deal, Stores
<1> HIDE DEF unknown, notice, end
<1>3. next..end \subseteq Update
  BY <1>1 DEF BridgeInv, Typed
<1>4. handled \in [Update -> 0..2] /\ pending \in SUBSET (Chat \ allowed)
      /\ turnedAway \in SUBSET Update /\ notified \in SUBSET Chat
  BY DEF BridgeInv, Typed
<1>5. /\ handled' \in [Update -> 0..2]
      /\ \A u \in Update : handled[u] > 0 => handled'[u] > 0
      /\ \A u \in Update : handled'[u] # handled[u] => u \in next..end
      /\ \A u \in Update : u \in mine => handled'[u] > 0
  <2>1. ASSUME NEW u \in Update
        PROVE  /\ handled[u] \in 0..2
               /\ handled'[u] = IF u \in mine /\ handled[u] < 2 THEN handled[u] + 1
                                ELSE handled[u]
    BY <1>2, <1>4
  <2>2. handled' \in [Update -> 0..2]
    BY <1>2, <1>4
  <2>3. mine \subseteq next..end
    OBVIOUS
  <2> HIDE DEF mine
  <2> QED
    BY <2>1, <2>2, <2>3
<1>6. turnedAway' \in SUBSET Update /\ turnedAway \subseteq turnedAway'
  BY <1>2, <1>3, <1>4
<1>7. \A u \in Update : u \in next..end => Dealt(u)'
  BY <1>2, <1>5 DEF Dealt
<1>8. \A u \in others : ChatOf[u] \in Chat \ allowed
  BY <1>3
<1>9. pending' \in SUBSET (Chat \ allowed)
  BY <1>2, <1>4, <1>8
<1>10. notified' \in SUBSET Chat
  <2>1. notice => ChatOf[end] \in Chat
    BY <1>1, <1>3
  <2> QED
    BY <1>2, <1>4, <2>1
<1>11. DealtUpTo(next, end)
  BY <1>2, <1>5, <1>6, <1>7, <1>9, <1>10 DEF DealtUpTo
<1>12. ~notice => end = last
  BY DEF end
<1> QED
  BY <1>1, <1>2, <1>11, <1>12

(* The offset after part of a batch is as honest as the one it began with. *)
LEMMA DealtHonest ==
  ASSUME BridgeInv, NEW next \in Nat, NEW end \in Nat, next > 0, end <= arrived,
         Honest(next), DealtUpTo(next, end), UNCHANGED arrived
  PROVE  /\ Honest(offset)' /\ offset' \in Nat /\ offset <= offset'
         /\ next <= end => Honest(end + 1)' /\ end + 1 <= offset'
<1>1. /\ offset \in Nat /\ arrived \in Nat /\ arrived <= Arrivals
      /\ Honest(offset)
  BY DEF BridgeInv, Typed
<1>2. \A n \in Nat : Honest(n) => Honest(n)'
  BY StaysHonest DEF BridgeInv, DealtUpTo
<1>3. CASE next > end
  <2>1. offset' = offset
    BY <1>3 DEF DealtUpTo
  <2> QED
    BY <1>1, <1>2, <1>3, <2>1 DEF Honest
<1>4. CASE next <= end
  <2>1. Honest(end + 1)'
    <3>1. ASSUME NEW u \in 1..arrived, u < end + 1 PROVE Dealt(u)'
      <4>1. u \in Update
        BY <1>1
      <4>2. CASE u < next
        <5>1. Dealt(u)
          BY <3>1, <4>2 DEF Honest
        <5> QED
          BY <4>1, <5>1 DEF Dealt, DealtUpTo
      <4>3. CASE u >= next
        BY <3>1, <4>1, <4>3 DEF DealtUpTo
      <4> QED
        BY <4>2, <4>3
    <3> QED
      BY <1>1, <3>1 DEF Honest
  <2>2. offset' = Larger(offset, end + 1)
    BY <1>4 DEF DealtUpTo, OffsetAfter
  <2>3. offset' = offset => Honest(offset)'
    BY <1>1, <1>2 DEF Honest
  <2>4. offset' = end + 1 => Honest(offset)'
    BY <2>1 DEF Honest
  <2>5. offset' \in Nat /\ offset <= offset' /\ end + 1 <= offset'
    BY <1>1, <2>2 DEF Larger
  <2> QED
    BY <1>4, <2>1, <2>2, <2>3, <2>4, <2>5 DEF Larger
<1> QED
  BY <1>3, <1>4

(* A batch, or the rest of it.                                             *)
LEMMA DealStep ==
  ASSUME BridgeInv, NEW g \in Generation, loop[g].at \in Alive,
         NEW next \in Nat, NEW last \in Nat, next > 0, last <= arrived,
         Honest(next), Deal(g, next, last),
         UNCHANGED <<connected, polling, generation, allowed, arrived, confirmed,
                     connects, restarts>>,
         connects = 0 => offset <= next
  PROVE  BridgeInv'
<1>1. PICK end \in 0..last :
        /\ DealtUpTo(next, end)
        /\ \/ /\ next <= end /\ stored' = stored
              /\ loop' = [loop EXCEPT ![g] =
                            [at |-> "sending", next |-> end + 1, last |-> last]]
           \/ end = last /\ stored' = offset' /\ Ask(g)
  BY DealForms
<1>2. arrived \in Nat /\ end \in Nat /\ end <= arrived /\ offset \in Nat /\ stored \in Nat
      /\ confirmed \in Nat
  BY DEF BridgeInv, Typed
<1>3. /\ Honest(offset)' /\ offset' \in Nat /\ offset <= offset'
      /\ next <= end => Honest(end + 1)' /\ end + 1 <= offset'
  BY <1>1, <1>2, DealtHonest
<1>4. /\ handled' \in [Update -> 0..2] /\ turnedAway' \in SUBSET Update
      /\ turnedAway \subseteq turnedAway'
      /\ \A u \in Update : handled[u] > 0 => handled'[u] > 0
      /\ pending' \in SUBSET (Chat \ allowed) /\ notified' \in SUBSET Chat
  BY <1>1 DEF DealtUpTo
<1>5. /\ Honest(stored)' /\ stored' \in Nat
      /\ Honest(confirmed)' /\ confirmed' \in Nat
  <2>1. \A n \in Nat : Honest(n) => Honest(n)'
    BY <1>4, StaysHonest DEF BridgeInv
  <2>2. Honest(confirmed)' /\ (stored' = stored => Honest(stored)')
    BY <1>2, <2>1 DEF BridgeInv, Honest
  <2>3. stored' = offset' => Honest(stored)'
    BY <1>3 DEF Honest
  <2> QED
    BY <1>1, <1>2, <1>3, <2>2, <2>3
<1>6. connects = 0 =>
        /\ stored' <= offset' /\ offset' <= IF next <= end THEN end + 1 ELSE offset
        /\ restarts = 0 => \A u \in Update : handled'[u] > 0 => u < offset'
  <2> SUFFICES ASSUME connects = 0
               PROVE  /\ stored' <= offset'
                      /\ offset' <= IF next <= end THEN end + 1 ELSE offset
                      /\ restarts = 0 => \A u \in Update : handled'[u] > 0 => u < offset'
    OBVIOUS
  <2>1. stored <= offset /\ offset <= next
    BY DEF BridgeInv, FirstLoop
  <2>2. stored' <= offset'
    BY <1>1, <1>2, <1>3, <2>1
  <2>3. offset' <= IF next <= end THEN end + 1 ELSE offset
    BY <1>1, <1>2, <2>1 DEF DealtUpTo, OffsetAfter, Larger
  <2>4. ASSUME restarts = 0, NEW u \in Update, handled'[u] > 0 PROVE u < offset'
    <3>1. CASE handled'[u] = handled[u]
      <4>1. u < offset
        BY <2>4, <3>1 DEF BridgeInv, FirstLoop
      <4> QED
        BY <1>2, <1>3, <4>1
    <3>2. CASE handled'[u] # handled[u]
      <4>1. u \in next..end
        BY <1>1, <3>2 DEF DealtUpTo
      <4> QED
        BY <1>2, <1>3, <4>1
    <3> QED
      BY <3>1, <3>2
  <2> QED
    BY <2>2, <2>3, <2>4
<1>7. CASE /\ next <= end /\ stored' = stored
           /\ loop' = [loop EXCEPT ![g] =
                         [at |-> "sending", next |-> end + 1, last |-> last]]
  <2> DEFINE x == [at |-> "sending", next |-> end + 1, last |-> last]
  <2>1. x \in LoopRecord /\ x.at = "sending" /\ x.next = end + 1 /\ x.last = last
        /\ x.at \in Alive
    BY <1>2 DEF LoopRecord, Alive
  <2>2. loop' = [loop EXCEPT ![g] = x]
    BY <1>7
  <2> HIDE DEF x
  <2>3. Honest(x.next)' /\ x.last <= arrived /\ (x.at = "sending" => x.next > 0)
    BY <1>2, <1>3, <1>7, <2>1 DEF Honest, Dealt
  <2>4. /\ polling' \in BOOLEAN /\ (polling' => polling)
        /\ (x.at \notin Alive => generation # g \/ ~polling')
        /\ UNCHANGED <<connected, generation, allowed, arrived, connects, restarts>>
    BY <2>1 DEF BridgeInv, Typed
  <2>5. connects = 0 =>
          /\ stored' <= offset'
          /\ x.at \in {"asking", "heard", "sending"} => offset' <= x.next
          /\ restarts = 0 => \A u \in Update : handled'[u] > 0 => u < offset'
    BY <1>6, <1>7, <2>1
  <2> QED
    BY <1>3, <1>4, <1>5, <2>1, <2>2, <2>3, <2>4, <2>5, LoopMove
<1>8. CASE end = last /\ stored' = offset' /\ Ask(g)
  <2>1. PICK x \in LoopRecord :
          /\ loop' = [loop EXCEPT ![g] = x] /\ x.last = 0
          /\ \/ x.at = "over" /\ x.next = 0 /\ (generation # g \/ ~polling)
             \/ x.at = "asking" /\ x.next = offset'
    BY <1>3, <1>8, AskForms
  <2>2. Honest(x.next)' /\ x.last <= arrived /\ (x.at = "sending" => x.next > 0)
    <3>1. Honest(0)'
      BY <1>2 DEF Honest
    <3>2. CASE x.next = 0
      BY <1>2, <2>1, <3>1, <3>2
    <3>3. CASE x.at = "asking" /\ x.next = offset'
      BY <1>2, <1>3, <2>1, <3>3 DEF Honest, Dealt
    <3> QED
      BY <2>1, <3>2, <3>3
  <2>3. /\ polling' \in BOOLEAN /\ (polling' => polling)
        /\ (x.at \notin Alive => generation # g \/ ~polling')
        /\ UNCHANGED <<connected, generation, allowed, arrived, connects, restarts>>
    BY <2>1 DEF BridgeInv, Typed, Alive
  <2>4. connects = 0 =>
          /\ stored' <= offset'
          /\ x.at \in {"asking", "heard", "sending"} => offset' <= x.next
          /\ restarts = 0 => \A u \in Update : handled'[u] > 0 => u < offset'
    BY <1>3, <1>6, <2>1
  <2> QED
    BY <1>3, <1>4, <1>5, <2>1, <2>2, <2>3, <2>4, LoopMove
<1> QED
  BY <1>1, <1>7, <1>8

-----------------------------------------------------------------------------
(* The steps of a loop, one by one.                                        *)

LEMMA BootstrapOrWaitStep ==
  ASSUME BridgeInv, NEW g \in Generation, Bootstrapped(g) \/ Waited(g)
  PROVE  BridgeInv'
<1>1. /\ loop[g].at \in Alive /\ offset' = offset
      /\ UNCHANGED <<connected, generation, allowed, arrived, connects, restarts,
                     stored, confirmed, pending, notified, handled, turnedAway>>
  BY DEF Bootstrapped, Waited, chats, server, history, Alive
<1>2. offset' \in Nat /\ polling \in BOOLEAN
  BY <1>1 DEF BridgeInv, Typed
<1>3. CASE polling' = polling /\ Ask(g)
  <2>1. PICK x \in LoopRecord :
          /\ loop' = [loop EXCEPT ![g] = x] /\ x.last = 0
          /\ \/ x.at = "over" /\ x.next = 0 /\ (generation # g \/ ~polling)
             \/ x.at = "asking" /\ x.next = offset'
    BY <1>2, <1>3, AskForms
  <2>2. polling' \in BOOLEAN /\ (polling' => polling)
        /\ (x.at \notin Alive => generation # g \/ ~polling')
    BY <1>2, <1>3, <2>1 DEF Alive
  <2> QED
    BY <1>1, <2>1, <2>2, NothingLearnt
<1>4. CASE polling' = (polling /\ generation # g) /\ Moves(g, "over")
  <2> DEFINE x == [Idle EXCEPT !.at = "over"]
  <2>1. x \in LoopRecord /\ x.at = "over" /\ x.next = 0 /\ x.last = 0
        /\ loop' = [loop EXCEPT ![g] = x]
    BY <1>4, RestRecord DEF Moves
  <2> HIDE DEF x
  <2>2. polling' \in BOOLEAN
    BY <1>4, Zenon
  <2>3. (polling' => polling) /\ (generation # g \/ ~polling')
    BY <1>4
  <2> QED
    BY <1>1, <2>1, <2>2, <2>3, NothingLearnt
<1> QED
  BY <1>3, <1>4 DEF Bootstrapped, Waited

LEMMA ReceivedStep ==
  ASSUME BridgeInv, NEW g \in Generation, Received(g)
  PROVE  BridgeInv'
<1>1. /\ loop[g].at = "asking"
      /\ confirmed' = Larger(confirmed, loop[g].next)
      /\ UNCHANGED <<connected, polling, generation, offset, stored, allowed, pending,
                     notified, arrived, handled, turnedAway, connects, restarts>>
  BY DEF Received, chats, history
<1>2. loop[g] \in LoopRecord /\ LoopSound(g)
  BY DEF BridgeInv, Typed
<1>3. PICK x \in LoopRecord :
        /\ x.at = "heard" /\ x.next = loop[g].next /\ x.last = loop[g].last
        /\ loop' = [loop EXCEPT ![g] = x]
  <2> DEFINE x == [loop[g] EXCEPT !.at = "heard"]
  <2>1. x \in LoopRecord /\ x.at = "heard" /\ x.next = loop[g].next
        /\ x.last = loop[g].last
    BY <1>2 DEF LoopRecord, Alive
  <2>2. loop' = [loop EXCEPT ![g] = x]
    BY DEF Received
  <2> QED
    BY <2>1, <2>2
<1>4. confirmed' \in Nat /\ Honest(confirmed) /\ Honest(Larger(confirmed, loop[g].next))
  BY <1>1, <1>2, HonestLarger DEF BridgeInv, Typed, LoopRecord, LoopSound
<1>5. \A n : Honest(n) => n <= arrived' + 1 /\ \A u \in 1..arrived' : u < n => Dealt(u)'
  BY <1>1 DEF Honest, Dealt
<1>6. Honest(offset)' /\ Honest(stored)' /\ Honest(confirmed)'
  BY <1>1, <1>4, <1>5 DEF BridgeInv, Honest
<1>7. Honest(x.next)' /\ x.last <= arrived /\ (x.at = "sending" => x.next > 0)
  BY <1>2, <1>3, <1>5 DEF LoopSound, Honest
<1>8. /\ polling' \in BOOLEAN /\ offset' \in Nat /\ stored' \in Nat
      /\ pending' \in SUBSET (Chat \ allowed) /\ notified' \in SUBSET Chat
      /\ handled' \in [Update -> 0..2] /\ turnedAway' \in SUBSET Update
      /\ turnedAway \subseteq turnedAway'
      /\ \A u \in Update : handled[u] > 0 => handled'[u] > 0
  BY <1>1 DEF BridgeInv, Typed
<1>9. connects = 0 =>
        /\ stored' <= offset'
        /\ x.at \in {"asking", "heard", "sending"} => offset' <= x.next
        /\ restarts = 0 => \A u \in Update : handled'[u] > 0 => u < offset'
  BY <1>1, <1>3 DEF BridgeInv, FirstLoop, Alive
<1>10. /\ loop[g].at \in Alive /\ (polling' => polling)
       /\ x.at \notin Alive => generation # g \/ ~polling'
  BY <1>1, <1>3 DEF Alive
<1> QED
  BY <1>1, <1>3, <1>4, <1>6, <1>7, <1>8, <1>9, <1>10, LoopMove

(* The batch that answers a request begins where it asked from, or later.  *)
LEMMA AnsweredFrom ==
  ASSUME BridgeInv, NEW g \in Generation, loop[g].at = "heard"
  PROVE  LET first == Larger(1, Larger(confirmed, loop[g].next)) IN
         /\ first \in Nat /\ first > 0 /\ (first <= arrived => Honest(first))
         /\ connects = 0 => stored <= offset /\ offset <= first
<1>1. loop[g] \in LoopRecord /\ LoopSound(g) /\ Honest(confirmed) /\ confirmed \in Nat
      /\ stored \in Nat /\ offset \in Nat /\ arrived \in Nat
  BY DEF BridgeInv, Typed
<1>2. loop[g].next \in Nat /\ Honest(loop[g].next)
  BY <1>1 DEF LoopRecord, LoopSound
<1>3. Honest(1)
  BY <1>1 DEF Honest
<1>4. /\ Larger(confirmed, loop[g].next) \in Nat /\ Honest(Larger(confirmed, loop[g].next))
      /\ loop[g].next <= Larger(confirmed, loop[g].next)
  BY <1>1, <1>2, HonestLarger DEF Larger
<1> DEFINE m == Larger(confirmed, loop[g].next)
<1> HIDE DEF m
<1>5. m \in Nat /\ Honest(m) /\ loop[g].next <= m
  BY <1>4 DEF m
<1>6. Larger(1, m) \in Nat /\ Honest(Larger(1, m)) /\ Larger(1, m) > 0 /\ m <= Larger(1, m)
  BY <1>3, <1>5, HonestLarger DEF Larger
<1>7. connects = 0 => stored <= offset /\ offset <= loop[g].next
  BY DEF BridgeInv, FirstLoop, Alive
<1> QED
  BY <1>1, <1>2, <1>5, <1>6, <1>7 DEF m

LEMMA AnsweredStep ==
  ASSUME BridgeInv, NEW g \in Generation, Answered(g)
  PROVE  BridgeInv'
<1> DEFINE first == Larger(1, Larger(confirmed, loop[g].next))
<1>1. /\ loop[g].at = "heard" /\ loop[g].at \in Alive
      /\ UNCHANGED <<connected, polling, generation, allowed, arrived, confirmed,
                     connects, restarts>>
      /\ IF first <= arrived
         THEN Deal(g, first, arrived)
         ELSE UNCHANGED <<offset, stored, pending, notified, handled, turnedAway>> /\ Ask(g)
  BY DEF Answered, server, Alive
<1>2. /\ first \in Nat /\ first > 0 /\ (first <= arrived => Honest(first))
      /\ connects = 0 => offset <= first
  BY <1>1, AnsweredFrom
<1>3. arrived \in Nat
  BY DEF BridgeInv, Typed
<1> HIDE DEF first
<1>4. CASE first <= arrived
  <2>1. Deal(g, first, arrived)
    BY <1>1, <1>4
  <2> QED
    BY <1>1, <1>2, <1>3, <1>4, <2>1, DealStep
<1>5. CASE ~(first <= arrived)
  <2>1. UNCHANGED <<offset, stored, pending, notified, handled, turnedAway>> /\ Ask(g)
    BY <1>1, <1>5
  <2>2. offset' \in Nat /\ polling' \in BOOLEAN /\ (polling' => polling)
    BY <1>1, <2>1 DEF BridgeInv, Typed
  <2>3. PICK x \in LoopRecord :
          /\ loop' = [loop EXCEPT ![g] = x] /\ x.last = 0
          /\ \/ x.at = "over" /\ x.next = 0 /\ (generation # g \/ ~polling)
             \/ x.at = "asking" /\ x.next = offset'
    BY <2>1, <2>2, AskForms
  <2>4. /\ x.next \in {0, offset} /\ x.at # "sending"
        /\ x.at \in {"asking", "heard"} => x.next = offset
        /\ x.at \notin Alive => generation # g \/ ~polling'
    BY <1>1, <2>1, <2>3 DEF Alive
  <2> QED
    BY <1>1, <2>1, <2>2, <2>3, <2>4, NothingLearnt
<1> QED
  BY <1>4, <1>5

LEMMA SentStep ==
  ASSUME BridgeInv, NEW g \in Generation, Sent(g)
  PROVE  BridgeInv'
<1>1. /\ loop[g].at = "sending" /\ loop[g].at \in Alive
      /\ Deal(g, loop[g].next, loop[g].last)
      /\ UNCHANGED <<connected, polling, generation, allowed, arrived, confirmed,
                     connects, restarts>>
  BY DEF Sent, server, Alive
<1>2. /\ loop[g].next \in Nat /\ loop[g].last \in Nat /\ loop[g].next > 0
      /\ loop[g].last <= arrived /\ Honest(loop[g].next)
  BY <1>1 DEF BridgeInv, Typed, LoopRecord, LoopSound
<1>3. connects = 0 => offset <= loop[g].next
  BY <1>1 DEF BridgeInv, FirstLoop
<1> QED
  BY <1>1, <1>2, <1>3, DealStep

LEMMA FailureStep ==
  ASSUME BridgeInv, NEW g \in Generation, AuthError(g) \/ Failed(g)
  PROVE  BridgeInv'
<1>1. /\ loop[g].at \in Alive
      /\ UNCHANGED <<connected, generation, allowed, arrived, connects, restarts, offset,
                     stored, confirmed, pending, notified, handled, turnedAway>>
      /\ polling' = polling \/ polling' = FALSE
  BY DEF AuthError, Failed, chats, server, history, Alive
<1>2. PICK place \in {"over", "waiting"} :
        /\ Moves(g, place)
        /\ place = "over" => (Stale(g) /\ polling' = polling) \/ polling' = FALSE
  BY DEF AuthError, Failed
<1> DEFINE x == [Idle EXCEPT !.at = place]
<1>3. x \in LoopRecord /\ x.at = place /\ x.next = 0 /\ x.last = 0
      /\ loop' = [loop EXCEPT ![g] = x]
  BY <1>2, RestRecord DEF Moves, Alive
<1> HIDE DEF x
<1>4. polling \in BOOLEAN
  BY DEF BridgeInv, Typed
<1>5. polling' \in BOOLEAN
  BY <1>1, <1>4, Zenon
<1>6. /\ polling' => polling
      /\ x.at \notin Alive => generation # g \/ ~polling'
      /\ x.at \notin {"asking", "heard", "sending"}
  BY <1>1, <1>2, <1>3 DEF Stale, Alive
<1> QED
  BY <1>1, <1>3, <1>5, <1>6, NothingLearnt

LEMMA LoopKeeps ==
  ASSUME BridgeInv, NEW g \in Generation, LoopStep(g)
  PROVE  BridgeInv'
BY BootstrapOrWaitStep, ReceivedStep, AnsweredStep, SentStep, FailureStep DEF LoopStep

-----------------------------------------------------------------------------
(* Connections, chats, messages and restarts.                              *)

(* What keeps every offset honest and every loop sound but for one.        *)
LEMMA RestKept ==
  ASSUME BridgeInv, UNCHANGED <<arrived, handled, turnedAway>>
  PROVE  /\ \A n \in Nat : Honest(n) => Honest(n)'
         /\ Honest(0)
         /\ \A g \in Generation : loop'[g] = loop[g] => LoopSound(g)'
<1>1. \A n \in Nat : Honest(n) => Honest(n)'
  BY StaysHonest DEF BridgeInv
<1>2. Honest(0)
  BY DEF BridgeInv, Typed, Honest
<1>3. ASSUME NEW g \in Generation, loop'[g] = loop[g] PROVE LoopSound(g)'
  <2>1. LoopSound(g) /\ loop[g].next \in Nat
    BY DEF BridgeInv, Typed, LoopRecord
  <2>2. Honest(loop[g].next)'
    BY <1>1, <1>3, <2>1 DEF LoopSound, Honest
  <2> QED
    BY <1>3, <2>1, <2>2 DEF LoopSound
<1> QED
  BY <1>1, <1>2, <1>3

LEMMA ConnectStep ==
  ASSUME BridgeInv, Connect
  PROVE  BridgeInv'
<1>1. /\ connects' = connects + 1 /\ connected' = TRUE /\ polling' = TRUE
      /\ offset' = 0 /\ stored' = 0
      /\ UNCHANGED <<allowed, pending, notified, arrived, confirmed, handled, turnedAway,
                     restarts>>
  BY DEF Connect, chats, server
<1>2. connected' \in BOOLEAN /\ polling' \in BOOLEAN
  BY <1>1, Zenon
<1>3. Honest(offset)' /\ Honest(stored)' /\ Honest(confirmed)'
  BY <1>1, RestKept DEF BridgeInv, Typed, Honest
<1>4. FirstLoop'
  BY <1>1 DEF FirstLoop, BridgeInv, Typed
<1>5. CASE polling
  <2>1. UNCHANGED <<generation, loop>>
    BY <1>5 DEF Connect
  <2>2. Typed'
    BY <1>1, <1>2, <2>1 DEF BridgeInv, Typed
  <2>3. \A g \in Generation : LoopSound(g)'
    BY <1>1, <2>1, RestKept
  <2>4. PollingHonest'
    BY <1>1, <1>5, <2>1 DEF BridgeInv, PollingHonest
  <2> QED
    BY <1>3, <1>4, <2>2, <2>3, <2>4 DEF BridgeInv
<1>6. CASE ~polling
  <2> DEFINE x == [Idle EXCEPT !.at = "bootstrapping"]
  <2>1. /\ generation < MaxGeneration /\ generation' = generation + 1
        /\ loop' = [loop EXCEPT ![generation'] = x]
    BY <1>6 DEF Connect, Moves
  <2>2. x \in LoopRecord /\ x.at = "bootstrapping" /\ x.next = 0 /\ x.last = 0
    BY RestRecord DEF Alive
  <2> HIDE DEF x
  <2>3. generation' \in Generation
    BY <2>1 DEF BridgeInv, Typed
  <2>4. loop'[generation'] = x
        /\ \A g \in Generation : g # generation' => loop'[g] = loop[g]
    BY <2>1, <2>3 DEF BridgeInv, Typed
  <2>5. Typed'
    <3>1. loop' \in [Generation -> LoopRecord]
      BY <2>1, <2>2 DEF BridgeInv, Typed
    <3> QED
      BY <1>1, <1>2, <2>3, <3>1 DEF BridgeInv, Typed
  <2>6. ASSUME NEW g \in Generation PROVE LoopSound(g)'
    <3>1. CASE g = generation'
      <4>1. Honest(0)' /\ arrived' \in Nat
        BY <1>1, RestKept DEF BridgeInv, Typed
      <4> QED
        BY <2>2, <2>4, <3>1, <4>1 DEF LoopSound, Honest
    <3>2. CASE g # generation'
      BY <1>1, <2>4, <3>2, RestKept
    <3> QED
      BY <3>1, <3>2
  <2>7. PollingHonest'
    BY <1>1, <2>2, <2>3, <2>4 DEF PollingHonest, Alive
  <2> QED
    BY <1>3, <1>4, <2>5, <2>6, <2>7 DEF BridgeInv
<1> QED
  BY <1>5, <1>6

LEMMA DisconnectStep ==
  ASSUME BridgeInv, Disconnect
  PROVE  BridgeInv'
<1>1. /\ connected' = FALSE /\ polling' = FALSE /\ stored' = offset
      /\ generation < MaxGeneration /\ generation' = generation + 1
      /\ UNCHANGED <<allowed, pending, notified, loop, arrived, confirmed, handled,
                     turnedAway, connects, restarts, offset>>
  BY DEF Disconnect, chats, server, history
<1>2. connected' \in BOOLEAN /\ polling' \in BOOLEAN
  BY <1>1, Zenon
<1>3. Typed'
  BY <1>1, <1>2 DEF BridgeInv, Typed
<1>4. Honest(offset)' /\ Honest(stored)' /\ Honest(confirmed)'
  BY <1>1, RestKept DEF BridgeInv, Typed, Honest
<1>5. \A g \in Generation : LoopSound(g)'
  BY <1>1, RestKept
<1>6. PollingHonest'
  BY <1>1 DEF PollingHonest
<1>7. FirstLoop'
  BY <1>1 DEF BridgeInv, Typed, FirstLoop
<1> QED
  BY <1>3, <1>4, <1>5, <1>6, <1>7 DEF BridgeInv

LEMMA SetAllowedStep ==
  ASSUME BridgeInv, SetAllowed
  PROVE  BridgeInv'
<1>1. /\ allowed' \in SUBSET Chat /\ pending' = pending \ allowed'
      /\ notified' = notified \ allowed'
      /\ UNCHANGED <<connected, polling, generation, offset, stored, loop, arrived,
                     confirmed, handled, turnedAway, connects, restarts>>
  BY DEF SetAllowed, server, history
<1>2. pending' \in SUBSET (Chat \ allowed')
  BY <1>1 DEF BridgeInv, Typed
<1>3. Typed'
  BY <1>1, <1>2 DEF BridgeInv, Typed
<1>4. Honest(offset)' /\ Honest(stored)' /\ Honest(confirmed)'
  BY <1>1, RestKept DEF BridgeInv, Typed, Honest
<1>5. \A g \in Generation : LoopSound(g)'
  BY <1>1, RestKept
<1>6. PollingHonest'
  BY <1>1 DEF BridgeInv, PollingHonest
<1>7. FirstLoop'
  BY <1>1 DEF BridgeInv, FirstLoop
<1> QED
  BY <1>3, <1>4, <1>5, <1>6, <1>7 DEF BridgeInv

(* No offset is beyond the next message, which is not dealt with yet.      *)
LEMMA ArriveStep ==
  ASSUME BridgeInv, Arrive
  PROVE  BridgeInv'
<1>1. /\ arrived < Arrivals /\ arrived' = arrived + 1
      /\ UNCHANGED <<connected, polling, generation, offset, stored, allowed, pending,
                     notified, loop, confirmed, handled, turnedAway, connects, restarts>>
  BY DEF Arrive, chats, history
<1>2. Typed'
  BY <1>1 DEF BridgeInv, Typed
<1>3. \A n \in Nat : Honest(n) => Honest(n)'
  BY <1>1, StaysHonest DEF BridgeInv
<1>4. Honest(offset)' /\ Honest(stored)' /\ Honest(confirmed)'
  BY <1>1, <1>3 DEF BridgeInv, Typed, Honest
<1>5. ASSUME NEW g \in Generation PROVE LoopSound(g)'
  <2>1. LoopSound(g) /\ loop[g].next \in Nat /\ loop[g].last \in Nat /\ arrived \in Nat
    BY DEF BridgeInv, Typed, LoopRecord
  <2>2. Honest(loop[g].next)'
    BY <1>1, <1>3, <2>1 DEF LoopSound, Honest
  <2> QED
    BY <1>1, <2>1, <2>2 DEF LoopSound
<1>6. PollingHonest'
  BY <1>1 DEF BridgeInv, PollingHonest
<1>7. FirstLoop'
  BY <1>1 DEF BridgeInv, FirstLoop
<1> QED
  BY <1>2, <1>4, <1>5, <1>6, <1>7 DEF BridgeInv

LEMMA RestartStep ==
  ASSUME BridgeInv, Restart
  PROVE  BridgeInv'
<1>1. /\ restarts' = restarts + 1 /\ polling' = connected
      /\ generation' = IF connected THEN 1 ELSE 0
      /\ offset' = IF connected THEN stored ELSE 0
      /\ notified' = {}
      /\ UNCHANGED <<connected, stored, allowed, pending, arrived, confirmed, handled,
                     turnedAway, connects>>
  BY DEF Restart, server
<1>2. loop' = [g \in Generation |->
         IF connected /\ g = 1 THEN [Idle EXCEPT !.at = "bootstrapping"] ELSE Idle]
  BY DEF Restart
<1>3. loop' \in [Generation -> LoopRecord]
      /\ \A g \in Generation :
           /\ loop'[g].next = 0 /\ loop'[g].last = 0
           /\ loop'[g].at = IF connected /\ g = 1 THEN "bootstrapping" ELSE "none"
  BY <1>2, RestRecord DEF Alive
<1>4. Typed'
  <2>1. connected \in BOOLEAN
    BY DEF BridgeInv, Typed
  <2>2. connected' \in BOOLEAN /\ polling' \in BOOLEAN
    BY <1>1, <2>1, Zenon
  <2> QED
    BY <1>1, <1>3, <2>2 DEF BridgeInv, Typed
<1>5. Honest(0)' /\ \A n \in Nat : Honest(n) => Honest(n)'
  BY <1>1, RestKept
<1>6. Honest(stored)' /\ Honest(confirmed)'
  BY <1>1, <1>5 DEF BridgeInv, Typed, Honest
<1>7. Honest(offset)'
  BY <1>1, <1>5, <1>6 DEF Honest
<1>8. ASSUME NEW g \in Generation PROVE LoopSound(g)'
  <2>1. arrived' \in Nat
    BY <1>1 DEF BridgeInv, Typed
  <2> QED
    BY <1>3, <1>5, <2>1 DEF LoopSound, Honest
<1>9. PollingHonest'
  BY <1>1, <1>3 DEF PollingHonest, Alive
<1>10. FirstLoop'
  BY <1>1, <1>3 DEF BridgeInv, Typed, FirstLoop, Alive
<1> QED
  BY <1>4, <1>6, <1>7, <1>8, <1>9, <1>10 DEF BridgeInv

(* BridgeInv: every offset that is kept anywhere, in memory, in the store, *)
(* at Telegram or by a loop in the middle of its batch, promises only what *)
(* was dealt with; and a loop polls whenever the status says so.           *)
THEOREM BridgeInvariant == Spec => []BridgeInv
<1>1. Init => BridgeInv
  BY InitBridge
<1>2. ASSUME BridgeInv, [Next]_vars PROVE BridgeInv'
  <2>1. ASSUME NEW g \in Generation, LoopStep(g) PROVE BridgeInv'
    BY <1>2, <2>1, LoopKeeps
  <2>2. CASE Connect
    BY <1>2, <2>2, ConnectStep
  <2>3. CASE Disconnect
    BY <1>2, <2>3, DisconnectStep
  <2>4. CASE SetAllowed
    BY <1>2, <2>4, SetAllowedStep
  <2>5. CASE Arrive
    BY <1>2, <2>5, ArriveStep
  <2>6. CASE Restart
    BY <1>2, <2>6, RestartStep
  <2>7. CASE UNCHANGED vars
    <3> USE <2>7 DEF vars, chats, server, history, BridgeInv
    <3>1. Typed'
      BY <1>2 DEF Typed
    <3>2. Honest(offset)' /\ Honest(stored)' /\ Honest(confirmed)'
      BY <1>2 DEF Honest, Dealt
    <3>3. \A g \in Generation : LoopSound(g)'
      BY <1>2, RestKept
    <3>4. PollingHonest' /\ FirstLoop'
      BY <1>2 DEF PollingHonest, FirstLoop
    <3> QED
      BY <3>1, <3>2, <3>3, <3>4
  <2> QED
    BY <1>2, <2>1, <2>2, <2>3, <2>4, <2>5, <2>6, <2>7 DEF Next
<1> QED
  BY <1>1, <1>2, PTL DEF Spec

-----------------------------------------------------------------------------
(* What follows from it.                                                   *)

(* TypeOK: no chat is both paired and asking to be, no offset is ahead of  *)
(* what has arrived.                                                       *)
THEOREM BridgeTypes == Spec => []TypeOK
<1>1. BridgeInv => TypeOK
  <2> SUFFICES ASSUME BridgeInv PROVE TypeOK
    OBVIOUS
  <2>1. {connected, polling} \subseteq BOOLEAN
    BY Zenon DEF BridgeInv, Typed
  <2>2. {offset, stored, confirmed} \subseteq 0..arrived + 1
    BY DEF BridgeInv, Typed, Honest
  <2>3. \A g \in Generation : loop[g].at \in Alive \cup {"none", "over"}
    BY DEF BridgeInv, Typed, LoopRecord
  <2> QED
    BY <2>1, <2>2, <2>3 DEF BridgeInv, Typed, TypeOK
<1> QED
  BY <1>1, BridgeInvariant, PTL

(* NothingSkipped: no message is lost to an offset that runs ahead of it   *)
(* (poll, persistOffset, connect, disconnect).                             *)
THEOREM NoUpdateSkipped == Spec => []NothingSkipped
<1>1. BridgeInv => NothingSkipped
  BY DEF BridgeInv, Honest, NothingSkipped
<1> QED
  BY <1>1, BridgeInvariant, PTL

(* PollingHonest: the status that is shown is that of a loop that runs.    *)
THEOREM StatusTrue == Spec => []PollingHonest
<1>1. BridgeInv => PollingHonest
  BY DEF BridgeInv
<1> QED
  BY <1>1, BridgeInvariant, PTL

(* A batch starts handlers of messages it is the first to come to.         *)
LEMMA DealHandles ==
  ASSUME BridgeInv, NEW g \in Generation, NEW next \in Nat, NEW last \in Nat,
         next > 0, last <= arrived, Deal(g, next, last),
         connects = 0 => stored <= offset /\ offset <= next,
         NEW u \in Update, handled'[u] > handled[u]
  PROVE  connects > 0 \/ (u >= stored /\ (handled[u] > 0 => restarts > 0))
<1>1. PICK end \in 0..last : DealtUpTo(next, end)
  BY DealForms
<1>2. u \in next..end
  BY <1>1 DEF DealtUpTo, BridgeInv, Typed
<1>3. /\ connects \in Nat /\ restarts \in Nat /\ offset \in Nat /\ stored \in Nat
      /\ connects = 0 /\ restarts = 0 => (handled[u] > 0 => u < offset)
  BY DEF BridgeInv, Typed, FirstLoop
<1> QED
  BY <1>2, <1>3

(* StoredIsFinal: before any connection a message is handled again only    *)
(* after a restart, and one that the store is past never is.               *)
THEOREM HandledOnce == Spec => StoredIsFinal
<1>1. ASSUME BridgeInv, [Next]_vars, NEW u \in Update, handled'[u] > handled[u]
      PROVE  connects > 0 \/ (u >= stored /\ (handled[u] > 0 => restarts > 0))
  <2>1. handled' # handled
    BY <1>1 DEF BridgeInv, Typed
  <2>2. PICK g \in Generation : Answered(g) \/ Sent(g)
    BY <1>1, <2>1 DEF Next, LoopStep, Bootstrapped, Received, AuthError, Failed, Waited,
       Connect, Disconnect, SetAllowed, Arrive, Restart, vars, history
  <2>3. CASE Answered(g)
    <3> DEFINE first == Larger(1, Larger(confirmed, loop[g].next))
    <3>1. first <= arrived /\ Deal(g, first, arrived) /\ loop[g].at = "heard"
      BY <2>1, <2>3 DEF Answered
    <3>2. first \in Nat /\ first > 0 /\ (connects = 0 => stored <= offset /\ offset <= first)
      BY <1>1, <3>1, AnsweredFrom
    <3>3. arrived \in Nat
      BY <1>1 DEF BridgeInv, Typed
    <3> HIDE DEF first
    <3> QED
      BY <1>1, <3>1, <3>2, <3>3, DealHandles
  <2>4. CASE Sent(g)
    <3>1. loop[g].at = "sending" /\ Deal(g, loop[g].next, loop[g].last)
      BY <2>4 DEF Sent
    <3>2. /\ loop[g].next \in Nat /\ loop[g].last \in Nat /\ loop[g].next > 0
          /\ loop[g].last <= arrived
          /\ connects = 0 => stored <= offset /\ offset <= loop[g].next
      BY <1>1, <3>1 DEF BridgeInv, Typed, LoopRecord, LoopSound, FirstLoop, Alive
    <3> QED
      BY <1>1, <3>1, <3>2, DealHandles
  <2> QED
    BY <2>2, <2>3, <2>4
<1>2. BridgeInv /\ [Next]_vars =>
        [\A u \in Update : handled'[u] > handled[u] =>
           \/ connects > 0
           \/ u >= stored /\ (handled[u] > 0 => restarts > 0)]_vars
  BY <1>1
<1> QED
  BY <1>2, BridgeInvariant, PTL DEF Spec, StoredIsFinal
=============================================================================
