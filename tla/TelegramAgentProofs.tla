-------------------------- MODULE TelegramAgentProofs --------------------------
(***************************************************************************)
(* What the Telegram agent keeps for any number of messages, chats, runs   *)
(* of other front ends and restarts.                                       *)
(***************************************************************************)
EXTENDS TelegramAgent, SequenceTheorems, TLAPS

USE TelegramAgentAssumption DEF TelegramAgentAssumption

Turn == Message \cup {OldTask}

-----------------------------------------------------------------------------
(* Parts of transcripts.                                                   *)

(* What is left of a transcript stands in it further down, or where it was.*)
LEMMA LastOfPart ==
  ASSUME NEW s \in Seq(Turn), NEW n \in Nat \ {0}
  PROVE  /\ LastOf(s, n) \in Seq(Turn) /\ Len(LastOf(s, n)) <= n
         /\ Len(LastOf(s, n)) <= Len(s)
         /\ \E k \in Nat : /\ Len(LastOf(s, n)) + k = Len(s)
                           /\ \A i \in 1..Len(LastOf(s, n)) : LastOf(s, n)[i] = s[i + k]
<1> DEFINE k == IF Len(s) > n THEN Len(s) - n ELSE 0
<1>1. Len(s) \in Nat /\ \A i \in 1..Len(s) : s[i] \in Turn
  BY LenProperties, ElementOfSeq
<1>2. k \in Nat /\ k <= Len(s) /\ LastOf(s, n) = SubSeq(s, k + 1, Len(s))
  BY <1>1 DEF LastOf
<1>3. Len(s) - k <= n
  BY <1>1
<1> HIDE DEF k
<1>4. /\ SubSeq(s, k + 1, Len(s)) \in Seq(Turn)
      /\ Len(SubSeq(s, k + 1, Len(s))) =
           IF k + 1 <= Len(s) THEN Len(s) - (k + 1) + 1 ELSE 0
      /\ \A i \in 1..(Len(s) - (k + 1) + 1) :
           SubSeq(s, k + 1, Len(s))[i] = s[(k + 1) + i - 1]
  <2>1. k + 1 \in Int /\ Len(s) \in Int /\ \A i \in (k + 1)..Len(s) : s[i] \in Turn
    BY <1>1, <1>2
  <2> QED
    BY <2>1, SubSeqProperties
<1>5. Len(LastOf(s, n)) = Len(s) - k
  BY <1>1, <1>2, <1>4
<1>6. \A i \in 1..Len(LastOf(s, n)) : LastOf(s, n)[i] = s[i + k]
  <2> SUFFICES ASSUME NEW i \in 1..Len(LastOf(s, n)) PROVE LastOf(s, n)[i] = s[i + k]
    OBVIOUS
  <2>1. i \in 1..(Len(s) - (k + 1) + 1) /\ (k + 1) + i - 1 = i + k
    BY <1>1, <1>2, <1>5
  <2> QED
    BY <1>2, <1>4, <2>1
<1> QED
  BY <1>1, <1>2, <1>3, <1>4, <1>5, <1>6

LEMMA ShortenedPart ==
  ASSUME NEW s \in Seq(Turn)
  PROVE  /\ Shortened(s) \in Seq(Turn) /\ Len(Shortened(s)) <= Len(s)
         /\ \A i \in 1..Len(Shortened(s)) : Shortened(s)[i] = s[i]
<1>1. Len(s) \in Nat /\ \A i \in 1..Len(s) : s[i] \in Turn
  BY LenProperties, ElementOfSeq
<1>2. CASE s = <<>>
  BY <1>1, <1>2 DEF Shortened
<1>3. CASE s # <<>>
  <2>1. Len(s) > 0
    BY <1>1, <1>3, EmptySeq
  <2> DEFINE p == SubSeq(s, 1, Len(s) - 1)
  <2>2. /\ p \in Seq(Turn)
        /\ Len(p) = IF 1 <= Len(s) - 1 THEN (Len(s) - 1) - 1 + 1 ELSE 0
        /\ \A i \in 1..((Len(s) - 1) - 1 + 1) : p[i] = s[1 + i - 1]
    <3>1. 1 \in Int /\ Len(s) - 1 \in Int /\ \A i \in 1..(Len(s) - 1) : s[i] \in Turn
      BY <1>1
    <3> QED
      BY <3>1, SubSeqProperties
  <2>3. Shortened(s) = p
    BY <1>3 DEF Shortened
  <2> HIDE DEF p
  <2>4. Len(p) = Len(s) - 1
    <3>1. PICK n \in Nat : n = Len(s)
      BY <1>1
    <3>2. n > 0 /\ Len(p) = IF 1 <= n - 1 THEN (n - 1) - 1 + 1 ELSE 0
      BY <2>1, <2>2, <3>1
    <3>3. Len(p) = n - 1
      BY <3>2
    <3> QED
      BY <3>1, <3>3
  <2>5. \A i \in 1..(Len(s) - 1) : p[i] = s[i]
    <3> SUFFICES ASSUME NEW i \in 1..(Len(s) - 1) PROVE p[i] = s[i]
      OBVIOUS
    <3>1. i \in 1..((Len(s) - 1) - 1 + 1) /\ 1 + i - 1 = i
      BY <1>1
    <3> QED
      BY <2>2, <3>1
  <2> QED
    BY <1>1, <2>1, <2>2, <2>3, <2>4, <2>5
<1> QED
  BY <1>2, <1>3

(* Fewer turns are as sound as they were.                                  *)
LEMMA PartSound ==
  ASSUME NEW jobs, NEW c, NEW s \in Seq(Turn), NEW t \in Seq(Turn), NEW k \in Nat,
         Len(t) + k <= Len(s), \A i \in 1..Len(t) : t[i] = s[i + k],
         TurnsSound(jobs, s, c)
  PROVE  TurnsSound(jobs, t, c)
<1>1. Len(s) \in Nat /\ Len(t) \in Nat
  BY LenProperties
<1>2. ASSUME NEW i \in 1..Len(t)
      PROVE  i + k \in 1..Len(s) /\ t[i] = s[i + k] /\ (i + k = 1 => i = 1)
  BY <1>1
<1>3. ASSUME NEW i \in 1..Len(t)
      PROVE  (i = 1 /\ t[i] = OldTask) \/ TurnOf(jobs, t[i], c)
  BY <1>2 DEF TurnsSound
<1>4. ASSUME NEW i \in 1..Len(t), NEW j \in 1..Len(t), t[i] = t[j]
      PROVE  i = j \/ Retried(jobs, t[i])
  <2>1. i + k = j + k \/ Retried(jobs, s[i + k])
    BY <1>2, <1>4 DEF TurnsSound
  <2> QED
    BY <1>1, <1>2, <2>1
<1> QED
  BY <1>3, <1>4 DEF TurnsSound

(* A turn is saved behind those that were read: it is new there, or was    *)
(* retried.                                                                *)
LEMMA AppendSound ==
  ASSUME NEW jobs, NEW m \in Message, NEW s \in Seq(Turn), jobs[m].task \in Message,
         jobs[m].record = "completed", TurnsSound(jobs, s, ChatOf[m]),
         \A i \in 1..Len(s) : s[i] = m => Retried(jobs, m)
  PROVE  /\ Append(s, jobs[m].task) \in Seq(Turn)
         /\ TurnsSound(jobs, Append(s, jobs[m].task), ChatOf[m])
<1> DEFINE t == jobs[m].task
           a == Append(s, t)
<1>1. /\ a \in Seq(Turn) /\ Len(a) = Len(s) + 1 /\ Len(s) \in Nat
      /\ \A i \in 1..Len(s) : a[i] = s[i]
      /\ a[Len(s) + 1] = t
  BY AppendProperties, LenProperties DEF Turn
<1>2. TurnOf(jobs, t, ChatOf[m])
  BY DEF TurnOf
<1>3. ASSUME NEW i \in 1..Len(s), s[i] = t PROVE Retried(jobs, t)
  <2>1. CASE t = m
    BY <1>3, <2>1
  <2>2. CASE t # m
    BY <2>2 DEF Retried
  <2> QED
    BY <2>1, <2>2
<1> HIDE DEF a, t
<1>4. ASSUME NEW i \in 1..Len(a)
      PROVE  /\ (i = 1 /\ a[i] = OldTask) \/ TurnOf(jobs, a[i], ChatOf[m])
             /\ i \in 1..Len(s) \/ i = Len(s) + 1
  BY <1>1, <1>2 DEF TurnsSound
<1>5. ASSUME NEW i \in 1..Len(a), NEW j \in 1..Len(a), a[i] = a[j]
      PROVE  i = j \/ Retried(jobs, a[i])
  BY <1>1, <1>3, <1>4, <1>5 DEF TurnsSound
<1> QED
  BY <1>1, <1>4, <1>5 DEF TurnsSound, a, t

-----------------------------------------------------------------------------
(* The queue.                                                              *)

Distinct(q) == \A i, j \in 1..Len(q) : q[i] = q[j] => i = j

LEMMA AppendQueue ==
  ASSUME NEW q \in Seq(Message), Distinct(q), NEW m \in Message, ~InQueue(q, m)
  PROVE  /\ Append(q, m) \in Seq(Message) /\ Distinct(Append(q, m))
         /\ Append(q, m) # <<>>
         /\ \A n \in Message : InQueue(Append(q, m), n) <=> InQueue(q, n) \/ n = m
<1> DEFINE a == Append(q, m)
<1>1. /\ a \in Seq(Message) /\ Len(a) = Len(q) + 1 /\ Len(q) \in Nat /\ a # <<>>
      /\ \A i \in 1..Len(q) : a[i] = q[i]
      /\ a[Len(q) + 1] = m
  BY AppendProperties, LenProperties
<1> HIDE DEF a
<1>2. \A i \in 1..Len(a) : i \in 1..Len(q) \/ i = Len(q) + 1
  BY <1>1
<1>3. 1..Len(q) \subseteq 1..Len(a) /\ Len(q) + 1 \in 1..Len(a)
  BY <1>1
<1>4. Distinct(a)
  BY <1>1, <1>2 DEF Distinct, InQueue
<1>5. \A n \in Message : InQueue(a, n) <=> InQueue(q, n) \/ n = m
  BY <1>1, <1>2, <1>3 DEF InQueue
<1> QED
  BY <1>1, <1>4, <1>5 DEF a

LEMMA PrependQueue ==
  ASSUME NEW q \in Seq(Message), Distinct(q), NEW m \in Message, ~InQueue(q, m)
  PROVE  /\ <<m>> \o q \in Seq(Message) /\ Distinct(<<m>> \o q)
         /\ <<m>> \o q # <<>>
         /\ \A n \in Message : InQueue(<<m>> \o q, n) <=> InQueue(q, n) \/ n = m
<1> DEFINE a == <<m>> \o q
<1>1. /\ a \in Seq(Message) /\ Len(a) = 1 + Len(q) /\ Len(q) \in Nat
      /\ \A i \in 1..(1 + Len(q)) : a[i] = IF i <= 1 THEN <<m>>[i] ELSE q[i - 1]
  <2>1. <<m>> \in Seq(Message) /\ Len(<<m>>) = 1
    OBVIOUS
  <2> QED
    BY <2>1, ConcatProperties, LenProperties
<1>2. a # <<>>
  <2>1. Len(a) # 0
    BY <1>1
  <2> QED
    BY <2>1
<1> HIDE DEF a
<1>3. a[1] = m /\ \A i \in 2..(1 + Len(q)) : a[i] = q[i - 1] /\ i - 1 \in 1..Len(q)
  BY <1>1
<1>4. Distinct(a)
  <2> SUFFICES ASSUME NEW i \in 1..Len(a), NEW j \in 1..Len(a), a[i] = a[j] PROVE i = j
    BY DEF Distinct
  <2>1. (i = 1 \/ i \in 2..(1 + Len(q))) /\ (j = 1 \/ j \in 2..(1 + Len(q)))
    BY <1>1
  <2>2. \A k \in 2..(1 + Len(q)) : a[k] # m
    BY <1>3 DEF InQueue
  <2>3. ASSUME i \in 2..(1 + Len(q)), j \in 2..(1 + Len(q)) PROVE i = j
    <3>1. i - 1 = j - 1
      BY <1>3, <2>3 DEF Distinct
    <3> QED
      BY <1>1, <3>1
  <2> QED
    BY <1>3, <2>1, <2>2, <2>3
<1>5. ASSUME NEW n \in Message PROVE InQueue(a, n) <=> InQueue(q, n) \/ n = m
  <2>1. ASSUME InQueue(a, n) PROVE InQueue(q, n) \/ n = m
    <3>1. PICK i \in 1..Len(a) : a[i] = n
      BY <2>1 DEF InQueue
    <3>2. i = 1 \/ i \in 2..(1 + Len(q))
      BY <1>1
    <3> QED
      BY <1>3, <3>1, <3>2 DEF InQueue
  <2>2. ASSUME InQueue(q, n) PROVE InQueue(a, n)
    <3>1. PICK i \in 1..Len(q) : q[i] = n
      BY <2>2 DEF InQueue
    <3>2. i + 1 \in 2..(1 + Len(q)) /\ i + 1 \in 1..Len(a) /\ (i + 1) - 1 = i
      BY <1>1
    <3> QED
      BY <1>3, <3>1, <3>2 DEF InQueue
  <2>3. InQueue(a, m)
    <3>1. 1 \in 1..Len(a)
      BY <1>1
    <3> QED
      BY <1>3, <3>1 DEF InQueue
  <2> QED
    BY <2>1, <2>2, <2>3
<1> QED
  BY <1>1, <1>2, <1>4, <1>5 DEF a

LEMMA TailQueue ==
  ASSUME NEW q \in Seq(Message), Distinct(q), q # <<>>
  PROVE  /\ Tail(q) \in Seq(Message) /\ Distinct(Tail(q))
         /\ Head(q) \in Message /\ InQueue(q, Head(q))
         /\ \A n \in Message : InQueue(Tail(q), n) <=> InQueue(q, n) /\ n # Head(q)
<1> DEFINE a == Tail(q)
<1>1. /\ a \in Seq(Message) /\ Len(a) = Len(q) - 1 /\ Len(q) \in Nat \ {0}
      /\ \A i \in 1..Len(a) : a[i] = q[i + 1]
      /\ Head(q) \in Message /\ Head(q) = q[1]
  BY HeadTailProperties, EmptySeq
<1> HIDE DEF a
<1>2. \A i \in 1..Len(a) : i + 1 \in 1..Len(q) /\ i + 1 # 1
  BY <1>1
<1>3. Distinct(a)
  <2> SUFFICES ASSUME NEW i \in 1..Len(a), NEW j \in 1..Len(a), a[i] = a[j] PROVE i = j
    BY DEF Distinct
  <2>1. i + 1 = j + 1
    BY <1>1, <1>2 DEF Distinct
  <2> QED
    BY <1>1, <2>1
<1>4. 1 \in 1..Len(q)
  BY <1>1
<1>5. ASSUME NEW n \in Message PROVE InQueue(a, n) <=> InQueue(q, n) /\ n # Head(q)
  <2>1. ASSUME InQueue(a, n) PROVE InQueue(q, n) /\ n # Head(q)
    BY <1>1, <1>2, <1>4, <2>1 DEF InQueue, Distinct
  <2>2. ASSUME InQueue(q, n), n # Head(q) PROVE InQueue(a, n)
    <3>1. PICK i \in 1..Len(q) : q[i] = n
      BY <2>2 DEF InQueue
    <3>2. i - 1 \in 1..Len(a) /\ (i - 1) + 1 = i
      BY <1>1, <2>2, <3>1
    <3> QED
      BY <1>1, <3>1, <3>2 DEF InQueue
  <2> QED
    BY <2>1, <2>2
<1> QED
  BY <1>1, <1>3, <1>4, <1>5 DEF a, InQueue

-----------------------------------------------------------------------------
(* One handler moves on.                                                   *)

(* The job of one message changes; its task only as it comes in, its       *)
(* record never from `completed'.                                          *)
Moves(J, J2, m) ==
  /\ J \in [Message -> JobRecord] /\ J2 \in [Message -> JobRecord]
  /\ \A n \in Message \ {m} : J2[n] = J[n]
  /\ J2[m].task = J[m].task \/ J[m].at = "new"
  /\ J[m].record = "completed" => J2[m].record = "completed"

LEMMA TurnsKept ==
  ASSUME NEW J, NEW J2, NEW m \in Message, Moves(J, J2, m), NEW ch, JobSound(J, m, ch)
  PROVE  /\ \A t \in Turn : Retried(J, t) => Retried(J2, t)
         /\ \A s \in Seq(Turn), c \in Chat : TurnsSound(J, s, c) => TurnsSound(J2, s, c)
<1>1. ASSUME NEW t \in Turn, Retried(J, t) PROVE Retried(J2, t)
  BY <1>1 DEF Retried, Moves, JobSound
<1>2. ASSUME NEW t, NEW c \in Chat, TurnOf(J, t, c) PROVE TurnOf(J2, t, c)
  BY <1>2 DEF TurnOf, Moves, JobSound
<1>3. ASSUME NEW s \in Seq(Turn), NEW c \in Chat, TurnsSound(J, s, c)
      PROVE  TurnsSound(J2, s, c)
  <2>1. \A i \in 1..Len(s) : s[i] \in Turn
    BY ElementOfSeq
  <2> QED
    BY <1>1, <1>2, <1>3, <2>1 DEF TurnsSound
<1> QED
  BY <1>1, <1>3

(* What the step of a handler owes the reservation and the queue.          *)
Reserves(J, J2, m, q, q2, ch, ch2) ==
  /\ JobSound(J2, m, ch2)
  /\ J2[m].at = "queued" <=> InQueue(q2, m)
  /\ \A n \in Message \ {m} : InQueue(q2, n) <=> InQueue(q, n)
  /\ Distinct(q2)
  /\ \A n \in Message \ {m} : J[n].at \in Holding => ch2 = ch
  /\ J2[m].at \in Holding => J[m].at \in Holding \/ \A n \in Message : J[n].at \notin Holding
  /\ ch2 # NoChat => J2[m].at \in Holding \/ (ch # NoChat /\ J[m].at \notin Holding)

LEMMA JobsMove ==
  ASSUME NEW J, NEW J2, NEW m \in Message, Moves(J, J2, m),
         NEW q, NEW q2, NEW ch, NEW ch2, JobsSound(J, q, ch),
         Reserves(J, J2, m, q, q2, ch, ch2)
  PROVE  JobsSound(J2, q2, ch2)
<1>1. ASSUME NEW n \in Message
      PROVE  JobSound(J2, n, ch2) /\ (J2[n].at = "queued" <=> InQueue(q2, n))
  <2>1. CASE n = m
    BY <2>1 DEF Reserves
  <2>2. CASE n # m
    <3>1. J2[n] = J[n] /\ JobSound(J, n, ch) /\ (J[n].at \in Holding => ch2 = ch)
      BY <2>2 DEF Moves, JobsSound, Reserves
    <3>2. J2[n].at = "queued" <=> InQueue(q2, n)
      BY <2>2, <3>1 DEF JobsSound, Reserves
    <3> QED
      BY <3>1, <3>2 DEF JobSound
  <2> QED
    BY <2>1, <2>2
<1>2. ASSUME NEW n \in Message, NEW o \in Message, {J2[n].at, J2[o].at} \subseteq Holding
      PROVE  n = o
  <2>1. J2[n].at \in Holding /\ J2[o].at \in Holding
    BY <1>2
  <2>2. \A x, y \in Message : J[x].at \in Holding /\ J[y].at \in Holding => x = y
    BY DEF JobsSound
  <2> QED
    BY <2>1, <2>2 DEF Moves, Reserves
<1>3. ASSUME ch2 # NoChat PROVE \E n \in Message : J2[n].at \in Holding
  <2>1. CASE J2[m].at \in Holding
    BY <2>1
  <2>2. CASE J2[m].at \notin Holding
    <3>1. ch # NoChat /\ J[m].at \notin Holding
      BY <1>3, <2>2 DEF Reserves
    <3>2. PICK n \in Message : J[n].at \in Holding
      BY <3>1 DEF JobsSound
    <3> QED
      BY <3>1, <3>2 DEF Moves
  <2> QED
    BY <2>1, <2>2
<1>4. \A i, j \in 1..Len(q2) : q2[i] = q2[j] => i = j
  BY DEF Reserves, Distinct
<1> QED
  BY <1>1, <1>2, <1>3, <1>4 DEF JobsSound

(* What it owes the store, of which it has read what is sound.             *)
Stores(J, J2, m, T2) ==
  /\ T2 \in [Chat -> Seq(Turn)]
  /\ \A c \in Chat : Len(T2[c]) <= Kept /\ TurnsSound(J, T2[c], c)
  /\ TurnsSound(J, J2[m].seen, ChatOf[m])
  /\ J2[m].at \in Holding \cup {"tidying"} =>
       \A i \in 1..Len(J2[m].seen) : J2[m].seen[i] = m => Retried(J, m)

LEMMA StoreMove ==
  ASSUME NEW J, NEW J2, NEW m \in Message, Moves(J, J2, m), NEW ch, JobSound(J, m, ch),
         NEW T, NEW T2, StoreSound(J, T), Stores(J, J2, m, T2)
  PROVE  StoreSound(J2, T2)
<1>1. /\ \A t \in Turn : Retried(J, t) => Retried(J2, t)
      /\ \A s \in Seq(Turn), c \in Chat : TurnsSound(J, s, c) => TurnsSound(J2, s, c)
  BY TurnsKept
<1>2. \A c \in Chat : Len(T2[c]) <= Kept /\ TurnsSound(J2, T2[c], c)
  BY <1>1 DEF Stores
<1>3. ASSUME NEW n \in Message
      PROVE  /\ TurnsSound(J2, J2[n].seen, ChatOf[n])
             /\ J2[n].at \in Holding \cup {"tidying"} =>
                  \A i \in 1..Len(J2[n].seen) : J2[n].seen[i] = n => Retried(J2, n)
  <2>1. J2[n].seen \in Seq(Turn) /\ ChatOf[n] \in Chat /\ n \in Turn
    BY DEF Moves, JobRecord, Turn
  <2>2. CASE n = m
    BY <1>1, <2>1, <2>2 DEF Stores
  <2>3. CASE n # m
    <3>1. J2[n] = J[n]
      BY <2>3 DEF Moves
    <3>2. /\ TurnsSound(J, J[n].seen, ChatOf[n])
          /\ J[n].at \in Holding \cup {"tidying"} =>
               \A i \in 1..Len(J[n].seen) : J[n].seen[i] = n => Retried(J, n)
      BY DEF StoreSound
    <3> QED
      BY <1>1, <2>1, <3>1, <3>2
  <2> QED
    BY <2>2, <2>3
<1> QED
  BY <1>2, <1>3 DEF StoreSound

-----------------------------------------------------------------------------
(* The next task starts.                                                   *)

(* The invariant of the jobs, the queue, the chat, the cancellation and    *)
(* the transcripts that a step hands to Pump, with what the step leaves of *)
(* the harness.                                                            *)
Sound(J, q, ch, canc, T) ==
  /\ Typed(J, q, ch, canc, T)
  /\ JobsSound(J, q, ch)
  /\ CancelsSound(J, canc, stopped')
  /\ RunsSound(J, standing', foreign')
  /\ HarnessSound(standing', engaged', stopping', canc, foreign')
  /\ StoreSound(J, T)

(* Only if nobody holds the reservation is the harness free of tasks.      *)
LEMMA EngagedByTask ==
  ASSUME NEW J, NEW q, NEW ch, NEW canc, NEW T, Sound(J, q, ch, canc, T), ~foreign',
         engaged' \/ stopping'
  PROVE  ch # NoChat
<1>1. PICK r \in Run : standing'[r] = "working"
  BY DEF Sound, HarnessSound
<1>2. r \in Message
  BY <1>1 DEF Sound, HarnessSound, Other
<1>3. J[r].at = "running"
  BY <1>1, <1>2 DEF Sound, RunsSound
<1>4. ch = ChatOf[r] /\ ChatOf[r] \in Chat
  BY <1>2, <1>3 DEF Sound, JobsSound, JobSound, Holding
<1> QED
  BY <1>4

(* A task that starts has come in, anew or again, or has waited; it        *)
(* leaves the queue and finds turns that it may.                           *)
Comes(J, L, m, q, q2, turns) ==
  /\ L \in [Message -> JobRecord]
  /\ \A n \in Message \ {m} : L[n] = J[n]
  /\ J[m].at = "new" \/ (J[m].at = "queued" /\ L[m].task = J[m].task)
  /\ q2 \in Seq(Message) /\ Distinct(q2)
  /\ \A n \in Message : InQueue(q2, n) <=> InQueue(q, n) /\ n # m
  /\ turns \in Seq(Turn) /\ Len(turns) <= Kept /\ TurnsSound(J, turns, ChatOf[m])

LEMMA StartsStep ==
  ASSUME NEW J, NEW L, NEW m \in Message, NEW q, NEW q2, NEW turns, NEW d \in BOOLEAN,
         Sound(J, q, NoChat, taskCancelled, transcript), Comes(J, L, m, q, q2, turns),
         engaged' => foreign', Starts(L, m, turns, d), queue' = q2
  PROVE  Sound(job', queue', runningChat', taskCancelled', transcript') /\ NoStrandedTask'
<1> USE DEF Sound
<1>1. PICK read \in {turns, <<>>} :
        /\ job' = [L EXCEPT ![m].at = "announcing", ![m].record = "running",
                            ![m].seen = read, ![m].drained = d]
        /\ runningChat' = ChatOf[m]
        /\ transcript' = [transcript EXCEPT ![ChatOf[m]] = read]
        /\ taskCancelled' = FALSE
  BY DEF Starts
<1>2. /\ ChatOf[m] \in Chat /\ ChatOf[m] # NoChat
      /\ J \in [Message -> JobRecord] /\ transcript \in [Chat -> Seq(Turn)]
      /\ J[m].record = "none" /\ (J[m].at = "new" => J[m].task = m)
      /\ JobSound(J, m, NoChat)
  BY DEF Typed, JobsSound, JobSound, Comes, Turn
<1>3. read \in Seq(Turn) /\ Len(read) <= Kept /\ TurnsSound(J, read, ChatOf[m])
  <2>1. <<>> \in Seq(Turn) /\ Len(<<>>) = 0
    BY EmptySeq
  <2>2. TurnsSound(J, <<>>, ChatOf[m])
    BY <2>1 DEF TurnsSound
  <2>3. 0 <= Kept
    OBVIOUS
  <2> QED
    BY <1>1, <2>1, <2>2, <2>3 DEF Comes
<1>4. /\ job' \in [Message -> JobRecord]
      /\ job'[m] = [L[m] EXCEPT !.at = "announcing", !.record = "running",
                                !.seen = read, !.drained = d]
      /\ \A n \in Message \ {m} : job'[n] = J[n]
  <2>1. L[m] \in JobRecord
    BY DEF Comes
  <2>2. [L[m] EXCEPT !.at = "announcing", !.record = "running",
                     !.seen = read, !.drained = d] \in JobRecord
    BY <1>3, <2>1 DEF JobRecord, Place, Turn
  <2>3. job' = [L EXCEPT ![m] = [L[m] EXCEPT !.at = "announcing", !.record = "running",
                                             !.seen = read, !.drained = d]]
    BY <1>1, <2>1 DEF Comes
  <2> HIDE DEF Sound
  <2> QED
    BY <2>1, <2>2, <2>3 DEF Comes
<1>5. /\ job'[m].at = "announcing" /\ job'[m].record = "running" /\ job'[m].seen = read
      /\ job'[m].task = L[m].task
  <2>1. L[m] \in JobRecord
    BY DEF Comes
  <2> QED
    BY <1>4, <2>1 DEF JobRecord
<1>6. Moves(J, job', m)
  BY <1>2, <1>4, <1>5 DEF Moves, Comes
<1>7. \A n \in Message : J[n].at \notin Holding
  BY DEF JobsSound, JobSound
<1>8. JobsSound(job', queue', runningChat')
  <2>1. JobSound(job', m, runningChat')
    BY <1>1, <1>5 DEF JobSound
  <2>2. Reserves(J, job', m, q, queue', NoChat, runningChat')
    BY <1>5, <1>7, <2>1 DEF Reserves, Holding, Comes
  <2> QED
    BY <1>6, <2>2, JobsMove
<1>9. StoreSound(job', transcript')
  <2>1. transcript' \in [Chat -> Seq(Turn)]
    BY <1>1, <1>2, <1>3
  <2>2. \A c \in Chat : Len(transcript'[c]) <= Kept /\ TurnsSound(J, transcript'[c], c)
    BY <1>1, <1>2, <1>3 DEF StoreSound
  <2>3. ASSUME NEW i \in 1..Len(read), read[i] = m PROVE Retried(J, m)
    <3>1. TurnOf(J, m, ChatOf[m])
      BY <1>3, <2>3 DEF TurnsSound
    <3>2. PICK n \in Message : J[n].task = m /\ J[n].record = "completed"
      BY <3>1 DEF TurnOf
    <3> QED
      BY <1>2, <3>2 DEF Retried
  <2>4. Stores(J, job', m, transcript')
    BY <1>3, <1>5, <2>1, <2>2, <2>3 DEF Stores
  <2> QED
    BY <1>2, <1>6, <2>4, StoreMove
<1>10. CancelsSound(job', taskCancelled', stopped')
  BY <1>1, <1>4, <1>5 DEF CancelsSound
<1>11. RunsSound(job', standing', foreign')
  <2>1. RunsSound(J, standing', foreign')
    OBVIOUS
  <2>2. \A n \in Message : J[n].at = "running" => job'[n].at = "running"
    BY <1>4 DEF Comes
  <2>3. \A n \in Message : job'[n].record = "completed" => J[n].record = "completed"
    BY <1>4, <1>5
  <2> HIDE DEF Sound
  <2> QED
    BY <2>1, <2>2, <2>3 DEF RunsSound
<1>12. HarnessSound(standing', engaged', stopping', taskCancelled', foreign')
  <2>1. ~foreign' => ~engaged' /\ ~stopping'
    BY EngagedByTask
  <2> QED
    BY <2>1 DEF HarnessSound
<1>13. Typed(job', queue', runningChat', taskCancelled', transcript')
  <2>1. taskCancelled' \in BOOLEAN
    BY <1>1, Zenon
  <2>2. transcript' \in [Chat -> Seq(Turn)]
    BY <1>1, <1>2, <1>3
  <2> QED
    BY <1>1, <1>2, <1>4, <2>1, <2>2 DEF Typed, Turn, Comes
<1>14. NoStrandedTask'
  BY <1>1, <1>2 DEF NoStrandedTask
<1> QED
  BY <1>8, <1>9, <1>10, <1>11, <1>12, <1>13, <1>14

LEMMA PumpStep ==
  ASSUME NEW J, NEW q, NEW ch, Sound(J, q, ch, taskCancelled, transcript), Pump(J, q, ch)
  PROVE  Sound(job', queue', runningChat', taskCancelled', transcript') /\ NoStrandedTask'
<1>1. CASE engaged' \/ ch # NoChat \/ q = <<>>
  <2>1. /\ job' = J /\ queue' = q /\ runningChat' = ch
        /\ taskCancelled' = taskCancelled /\ transcript' = transcript
    BY <1>1 DEF Pump
  <2>2. Sound(job', queue', runningChat', taskCancelled', transcript')
    BY <2>1
  <2>3. ~foreign' /\ engaged' => ch # NoChat
    BY EngagedByTask
  <2> QED
    BY <1>1, <2>1, <2>2, <2>3 DEF NoStrandedTask
<1>2. CASE ~(engaged' \/ ch # NoChat \/ q = <<>>)
  <2> DEFINE m == Head(q)
             turns == transcript[ChatOf[m]]
  <2>1. ~engaged' /\ ch = NoChat /\ q # <<>> /\ Starts(J, m, turns, TRUE) /\ queue' = Tail(q)
    BY <1>2 DEF Pump
  <2>2. q \in Seq(Message) /\ J \in [Message -> JobRecord] /\ transcript \in [Chat -> Seq(Turn)]
    BY DEF Sound, Typed, Turn
  <2>3. Distinct(q)
    BY DEF Sound, JobsSound, Distinct
  <2>4. /\ Tail(q) \in Seq(Message) /\ Distinct(Tail(q)) /\ m \in Message /\ InQueue(q, m)
        /\ \A n \in Message : InQueue(Tail(q), n) <=> InQueue(q, n) /\ n # m
    BY <2>1, <2>2, <2>3, TailQueue
  <2>5. /\ turns \in Seq(Turn) /\ Len(turns) <= Kept /\ TurnsSound(J, turns, ChatOf[m])
    BY <2>2, <2>4 DEF Sound, StoreSound
  <2>6. Comes(J, J, m, q, Tail(q), turns)
    BY <2>2, <2>4, <2>5 DEF Comes, Sound, JobsSound
  <2>7. Sound(J, q, NoChat, taskCancelled, transcript)
    BY <2>1
  <2>8. TRUE \in BOOLEAN /\ (engaged' => foreign')
    BY <2>1
  <2> HIDE DEF m, turns
  <2> QED
    BY <2>1, <2>4, <2>6, <2>7, <2>8, StartsStep
<1> QED
  BY <1>1, <1>2

(* A task that comes in finds the turns it may.                            *)
LEMMA SubmitStep ==
  ASSUME AgentInv, NEW m \in Message, job[m].at = "new", NEW t \in Message,
         NEW turns \in Seq(Turn), Len(turns) <= Kept, TurnsSound(job, turns, ChatOf[m]),
         NEW L, L = [job EXCEPT ![m].task = t], Submit(L, m, turns),
         UNCHANGED <<contractVars, lastTask, historyVars>>
  PROVE  AgentInv'
<1>1. /\ job \in [Message -> JobRecord] /\ transcript \in [Chat -> Seq(Turn)]
      /\ queue \in Seq(Message) /\ ChatOf[m] \in Chat /\ taskCancelled \in BOOLEAN
      /\ runningChat \in Chat \cup {NoChat}
  BY DEF AgentInv, Typed, Turn
<1>2. Sound(job, queue, runningChat, taskCancelled, transcript)
  BY DEF AgentInv, Sound, contractVars, historyVars
<1>3. /\ standing' \in [Run -> Standing] /\ engaged' \in BOOLEAN /\ stopping' \in BOOLEAN
      /\ lastTask' \in [Chat -> Message \cup {NoTask}]
  BY DEF AgentInv, contractVars
<1>4. L \in [Message -> JobRecord] /\ L[m] = [job[m] EXCEPT !.task = t]
      /\ \A n \in Message \ {m} : L[n] = job[n]
  BY <1>1 DEF JobRecord
<1>5. Distinct(queue) /\ ~InQueue(queue, m) /\ JobSound(job, m, runningChat)
  BY <1>2 DEF Sound, JobsSound, Distinct
<1>6. CASE engaged \/ runningChat # NoChat
  <2>1. /\ job' = [L EXCEPT ![m].at = "queued"] /\ queue' = Append(queue, m)
        /\ transcript' = [transcript EXCEPT ![ChatOf[m]] = turns]
        /\ runningChat' = runningChat /\ taskCancelled' = taskCancelled
    BY <1>6 DEF Submit
  <2>2. /\ job' \in [Message -> JobRecord] /\ \A n \in Message \ {m} : job'[n] = job[n]
        /\ job'[m] = [job[m] EXCEPT !.task = t, !.at = "queued"]
    BY <1>1, <1>4, <2>1 DEF JobRecord, Place
  <2>3. /\ job'[m].at = "queued" /\ job'[m].record = job[m].record
        /\ job'[m].seen = job[m].seen /\ job'[m].task = t
    BY <1>1, <2>2 DEF JobRecord
  <2>4. Moves(job, job', m)
    BY <1>1, <2>2, <2>3 DEF Moves
  <2>5. /\ queue' \in Seq(Message) /\ Distinct(queue') /\ queue' # <<>>
        /\ \A n \in Message : InQueue(queue', n) <=> InQueue(queue, n) \/ n = m
    BY <1>1, <1>5, <2>1, AppendQueue
  <2>6. JobsSound(job', queue', runningChat')
    <3>1. JobSound(job', m, runningChat')
      BY <1>5, <2>3 DEF JobSound, Holding
    <3>2. Reserves(job, job', m, queue, queue', runningChat, runningChat')
      BY <2>1, <2>3, <2>5, <3>1 DEF Reserves, Holding
    <3> QED
      BY <1>2, <2>4, <3>2, JobsMove DEF Sound
  <2>7. StoreSound(job', transcript')
    <3>1. transcript' \in [Chat -> Seq(Turn)]
      BY <1>1, <2>1
    <3>2. \A c \in Chat : Len(transcript'[c]) <= Kept /\ TurnsSound(job, transcript'[c], c)
      BY <1>1, <1>2, <2>1 DEF Sound, StoreSound
    <3>3. Stores(job, job', m, transcript')
      BY <1>2, <2>3, <3>1, <3>2 DEF Stores, Sound, StoreSound, Holding
    <3> QED
      BY <1>2, <1>5, <2>4, <3>3, StoreMove DEF Sound
  <2>8. CancelsSound(job', taskCancelled', stopped')
    BY <1>2, <2>1, <2>2, <2>3 DEF CancelsSound, Sound, Holding
  <2>9. RunsSound(job', standing', foreign')
    <3>1. RunsSound(job, standing', foreign')
      BY <1>2 DEF Sound
    <3>2. /\ \A n \in Message : job[n].at = "running" => job'[n].at = "running"
          /\ \A n \in Message : job'[n].record = "completed" => job[n].record = "completed"
      BY <2>2, <2>3
    <3> QED
      BY <3>1, <3>2 DEF RunsSound
  <2>10. HarnessSound(standing', engaged', stopping', taskCancelled', foreign')
    BY <1>2, <2>1 DEF Sound
  <2>11. Typed(job', queue', runningChat', taskCancelled', transcript')
    <3>1. transcript' \in [Chat -> Seq(Turn)]
      BY <1>1, <2>1
    <3> QED
      BY <1>1, <2>1, <2>2, <2>5, <3>1 DEF Typed, Turn
  <2>12. NoStrandedTask'
    <3>1. ~foreign' /\ engaged' => runningChat # NoChat
      BY <1>2, EngagedByTask
    <3>2. engaged' = engaged
      BY DEF contractVars
    <3> QED
      BY <1>6, <2>1, <3>1, <3>2 DEF NoStrandedTask
  <2> QED
    BY <1>3, <2>6, <2>7, <2>8, <2>9, <2>10, <2>11, <2>12 DEF AgentInv
<1>7. CASE ~(engaged \/ runningChat # NoChat)
  <2>1. /\ runningChat = NoChat /\ ~engaged' /\ Starts(L, m, turns, FALSE) /\ queue' = queue
    BY <1>7 DEF Submit, contractVars
  <2>2. \A n \in Message : InQueue(queue, n) <=> InQueue(queue, n) /\ n # m
    BY <1>5
  <2>3. Comes(job, L, m, queue, queue, turns)
    BY <1>1, <1>4, <1>5, <2>2 DEF Comes
  <2>4. Sound(job', queue', runningChat', taskCancelled', transcript') /\ NoStrandedTask'
    <3>1. Sound(job, queue, NoChat, taskCancelled, transcript) /\ FALSE \in BOOLEAN
      BY <1>2, <2>1
    <3>2. engaged' => foreign'
      BY <2>1
    <3> QED
      BY <2>1, <2>3, <3>1, <3>2, StartsStep
  <2> QED
    BY <1>3, <2>4 DEF AgentInv, Sound
<1> QED
  BY <1>6, <1>7

-----------------------------------------------------------------------------
(* The steps of the handlers.                                              *)

(* The harness, whoever calls it.                                          *)
LEMMA ContractTypes ==
  ASSUME AgentInv,
         \/ UNCHANGED contractVars \/ Cancel
         \/ \E r \in Run : Call(r) \/ Engage(r) \/ \E o \in Outcomes : End(r, o)
  PROVE  standing' \in [Run -> Standing] /\ engaged' \in BOOLEAN /\ stopping' \in BOOLEAN
<1>1. standing \in [Run -> Standing] /\ engaged \in BOOLEAN /\ stopping \in BOOLEAN
  BY DEF AgentInv
<1>2. CASE UNCHANGED contractVars
  BY <1>1, <1>2 DEF contractVars
<1>3. CASE Cancel
  <2>1. standing' = standing /\ stopping' = (stopping \/ engaged) /\ engaged' \in BOOLEAN
    BY <1>3 DEF Cancel
  <2>2. stopping' \in BOOLEAN
    BY <2>1, Zenon
  <2> QED
    BY <1>1, <2>1, <2>2
<1>4. CASE \E r \in Run : Call(r) \/ Engage(r) \/ \E o \in Outcomes : End(r, o)
  <2>1. PICK r \in Run : Call(r) \/ Engage(r) \/ \E o \in Outcomes : End(r, o)
    BY <1>4
  <2>2. CASE Call(r)
    BY <1>1, <2>2 DEF Call, Standing
  <2>3. CASE Engage(r)
    <3>1. standing' = [standing EXCEPT ![r] = "working"] /\ engaged' = TRUE /\ stopping' \in BOOLEAN
      BY <2>3 DEF Engage
    <3>2. engaged' \in BOOLEAN
      BY <3>1, Zenon
    <3> QED
      BY <1>1, <3>1, <3>2 DEF Standing
  <2>4. CASE \E o \in Outcomes : End(r, o)
    BY <1>1, <2>4 DEF End, Standing
  <2> QED
    BY <2>1, <2>2, <2>3, <2>4
<1> QED
  BY <1>2, <1>3, <1>4

(* While only the agent calls, what the harness works at is a task, and a  *)
(* request to cancel is the agent's.                                       *)
LEMMA HarnessKept ==
  ASSUME AgentInv, NEW canc, taskCancelled => canc, foreign' = foreign,
         \/ UNCHANGED contractVars \/ (Cancel /\ canc)
         \/ \E m \in Message : Call(m) \/ Engage(m) \/ \E o \in Outcomes : End(m, o)
  PROVE  HarnessSound(standing', engaged', stopping', canc, foreign')
<1>1. /\ standing \in [Run -> Standing]
      /\ HarnessSound(standing, engaged, stopping, taskCancelled, foreign)
  BY DEF AgentInv
<1>2. CASE UNCHANGED contractVars
  BY <1>1, <1>2 DEF contractVars, HarnessSound
<1>3. CASE Cancel /\ canc
  BY <1>1, <1>3 DEF Cancel, HarnessSound
<1>4. CASE \E m \in Message : Call(m) \/ Engage(m) \/ \E o \in Outcomes : End(m, o)
  <2>1. PICK m \in Message : Call(m) \/ Engage(m) \/ \E o \in Outcomes : End(m, o)
    BY <1>4
  <2>2. m \in Run /\ m \notin Other
    BY DEF Other
  <2>3. CASE Call(m)
    BY <1>1, <2>2, <2>3 DEF Call, HarnessSound, Other
  <2>4. CASE Engage(m)
    BY <1>1, <2>2, <2>4 DEF Engage, HarnessSound, Other
  <2>5. CASE \E o \in Outcomes : End(m, o)
    BY <1>1, <2>2, <2>5 DEF End, HarnessSound, Other, Working
  <2> QED
    BY <2>1, <2>3, <2>4, <2>5
<1> QED
  BY <1>2, <1>3, <1>4

(* What the step owes the cancellations.                                   *)
Cancels(J2, m, canc) ==
  /\ canc \in BOOLEAN
  /\ stopped \subseteq stopped'
  /\ \A n \in Message : J2[n].at \in Holding /\ canc => n \in stopped'
  /\ J2[m].record = "cancelled" => job[m].record = "cancelled" \/ m \in stopped'

LEMMA MoveStep ==
  ASSUME AgentInv, NEW m \in Message, NEW J2, NEW q2 \in Seq(Message),
         NEW ch2 \in Chat \cup {NoChat}, NEW canc, NEW T2,
         Moves(job, J2, m), Reserves(job, J2, m, queue, q2, runningChat, ch2),
         Stores(job, J2, m, T2), Cancels(J2, m, canc),
         RunsSound(J2, standing', foreign'),
         HarnessSound(standing', engaged', stopping', canc, foreign')
  PROVE  Sound(J2, q2, ch2, canc, T2)
<1>1. JobSound(job, m, runningChat) /\ JobsSound(job, queue, runningChat)
      /\ StoreSound(job, transcript) /\ CancelsSound(job, taskCancelled, stopped)
  BY DEF AgentInv, JobsSound
<1>2. JobsSound(J2, q2, ch2)
  BY <1>1, JobsMove
<1>3. StoreSound(J2, T2)
  BY <1>1, StoreMove
<1>4. CancelsSound(J2, canc, stopped')
  BY <1>1 DEF Moves, Cancels, CancelsSound
<1>5. Typed(J2, q2, ch2, canc, T2)
  BY DEF Typed, Moves, Stores, Cancels, Turn
<1> QED
  BY <1>2, <1>3, <1>4, <1>5 DEF Sound

(* Task and Retry.                                                         *)
LEMMA TaskStep ==
  ASSUME AgentInv, NEW m \in Message, Task(m)
  PROVE  AgentInv'
<1> DEFINE turns == transcript[ChatOf[m]]
           L == [job EXCEPT ![m].task = m]
<1>1. /\ job \in [Message -> JobRecord] /\ ChatOf[m] \in Chat
      /\ turns \in Seq(Turn) /\ Len(turns) <= Kept /\ TurnsSound(job, turns, ChatOf[m])
      /\ job[m].at = "new" /\ job[m].task = m
  BY DEF AgentInv, Typed, StoreSound, JobsSound, JobSound, Task, Turn
<1>2. job = L
  <2>1. [job[m] EXCEPT !.task = m] = job[m]
    BY <1>1 DEF JobRecord
  <2> QED
    BY <1>1, <2>1
<1>3. Submit(job, m, turns) /\ UNCHANGED <<contractVars, lastTask, historyVars>>
  BY DEF Task
<1> HIDE DEF turns
<1> QED
  BY <1>1, <1>2, <1>3, SubmitStep

LEMMA RetryStep ==
  ASSUME AgentInv, NEW m \in Message, Retry(m)
  PROVE  AgentInv'
<1> DEFINE c == ChatOf[m]
           turns == transcript[c]
           less == Shortened(turns)
           L == [job EXCEPT ![m].task = lastTask[c]]
<1>1. /\ c \in Chat /\ turns \in Seq(Turn) /\ Len(turns) <= Kept /\ TurnsSound(job, turns, c)
      /\ job[m].at = "new" /\ lastTask[c] \in Message
  BY DEF AgentInv, Typed, StoreSound, Retry, Turn
<1>2. Submit(L, m, less) /\ UNCHANGED <<contractVars, lastTask, historyVars>>
  BY DEF Retry
<1> HIDE DEF L, turns, less
<1>3. /\ less \in Seq(Turn) /\ Len(less) <= Len(turns)
      /\ \A i \in 1..Len(less) : less[i] = turns[i]
  BY <1>1, ShortenedPart DEF less
<1>4. Len(less) \in Nat /\ Len(turns) \in Nat
  BY <1>1, <1>3, LenProperties
<1>5. Len(less) <= Kept /\ Len(less) + 0 <= Len(turns)
      /\ \A i \in 1..Len(less) : less[i] = turns[i + 0]
  BY <1>1, <1>3, <1>4
<1>6. TurnsSound(job, less, c)
  BY <1>1, <1>3, <1>5, PartSound
<1> QED
  BY <1>1, <1>2, <1>3, <1>5, <1>6, SubmitStep DEF L

(* The transcripts as they are.                                            *)
LEMMA StoreTyped ==
  ASSUME AgentInv
  PROVE  /\ transcript \in [Chat -> Seq(Turn)]
         /\ \A c \in Chat : Len(transcript[c]) <= Kept /\ TurnsSound(job, transcript[c], c)
BY DEF AgentInv, Typed, StoreSound, Turn

(* Whatever the chat that runs has in hand is asked to stop.               *)
LEMMA StopStep ==
  ASSUME AgentInv, NEW c \in Chat, runningChat = c, Stop(c), foreign' = foreign
  PROVE  /\ \A n \in Message : job[n].at \in Holding => n \in stopped'
         /\ stopped \subseteq stopped' /\ standing' = standing
         /\ HarnessSound(standing', engaged', stopping', TRUE, foreign')
         /\ standing' \in [Run -> Standing] /\ engaged' \in BOOLEAN /\ stopping' \in BOOLEAN
<1>1. Cancel /\ stopped' = stopped \cup {m \in Message : job[m].at \in Holding /\ ChatOf[m] = c}
  BY DEF Stop
<1>2. \A n \in Message : job[n].at \in Holding => ChatOf[n] = c
  BY DEF AgentInv, JobsSound, JobSound
<1>3. HarnessSound(standing', engaged', stopping', TRUE, foreign')
  BY <1>1, HarnessKept
<1> QED
  BY <1>1, <1>2, <1>3, ContractTypes DEF Cancel

(* Steer, with and without an interruption.                                *)
LEMMA SteerStep ==
  ASSUME AgentInv, NEW m \in Message, NEW interrupt \in BOOLEAN, Steer(m, interrupt)
  PROVE  AgentInv'
<1> DEFINE J2 == [job EXCEPT ![m].at = "queued"]
           q2 == <<m>> \o queue
<1>1. /\ job \in [Message -> JobRecord] /\ transcript \in [Chat -> Seq(Turn)]
      /\ queue \in Seq(Message) /\ ChatOf[m] \in Chat /\ taskCancelled \in BOOLEAN
      /\ runningChat \in Chat \cup {NoChat} /\ job[m].at = "new"
      /\ JobSound(job, m, runningChat) /\ Distinct(queue) /\ ~InQueue(queue, m)
  BY DEF AgentInv, Typed, Turn, JobsSound, Distinct, Steer
<1>2. /\ J2 \in [Message -> JobRecord] /\ \A n \in Message \ {m} : J2[n] = job[n]
      /\ J2[m] = [job[m] EXCEPT !.at = "queued"]
  <2>1. [job[m] EXCEPT !.at = "queued"] \in JobRecord
    BY <1>1 DEF JobRecord, Place
  <2>2. J2 = [job EXCEPT ![m] = [job[m] EXCEPT !.at = "queued"]]
    BY <1>1
  <2> HIDE DEF J2
  <2> QED
    BY <1>1, <2>1, <2>2
<1>3. /\ J2[m].at = "queued" /\ J2[m].record = job[m].record
      /\ J2[m].seen = job[m].seen /\ J2[m].task = job[m].task
  BY <1>1, <1>2 DEF JobRecord
<1>4. /\ q2 \in Seq(Message) /\ Distinct(q2) /\ q2 # <<>>
      /\ \A n \in Message : InQueue(q2, n) <=> InQueue(queue, n) \/ n = m
  BY <1>1, PrependQueue
<1> HIDE DEF J2, q2
<1>5. Moves(job, J2, m)
  BY <1>1, <1>2, <1>3 DEF Moves
<1>6. Reserves(job, J2, m, queue, q2, runningChat, runningChat)
  <2>1. JobSound(J2, m, runningChat)
    BY <1>1, <1>3 DEF JobSound, Holding
  <2> QED
    BY <1>1, <1>3, <1>4, <2>1 DEF Reserves, Holding
<1>7. Stores(job, J2, m, transcript)
  <2>1. TurnsSound(job, J2[m].seen, ChatOf[m]) /\ J2[m].at \notin Holding \cup {"tidying"}
    BY <1>3 DEF AgentInv, StoreSound, Holding
  <2> QED
    BY <2>1, StoreTyped DEF Stores
<1>8. lastTask' = lastTask /\ foreign' = foreign
  BY DEF Steer
<1>9. standing' = standing => RunsSound(J2, standing', foreign')
  <2>1. RunsSound(job, standing, foreign) /\ job[m].at = "new"
    BY <1>1 DEF AgentInv
  <2>2. \A n \in Message : /\ job[n].at = "running" => J2[n].at = "running"
                           /\ J2[n].record = "completed" => job[n].record = "completed"
    BY <1>1, <1>2, <1>3
  <2> QED
    BY <1>8, <2>1, <2>2 DEF RunsSound
<1>10. CASE interrupt /\ runningChat = ChatOf[m]
  <2>1. /\ Stop(ChatOf[m]) /\ job' = J2 /\ queue' = q2 /\ taskCancelled' = TRUE
        /\ runningChat' = runningChat /\ transcript' = transcript
    BY <1>10 DEF Steer, J2, q2
  <2>2. /\ \A n \in Message : job[n].at \in Holding => n \in stopped'
        /\ stopped \subseteq stopped' /\ standing' = standing
        /\ HarnessSound(standing', engaged', stopping', TRUE, foreign')
        /\ standing' \in [Run -> Standing] /\ engaged' \in BOOLEAN /\ stopping' \in BOOLEAN
    BY <1>1, <1>8, <1>10, <2>1, StopStep
  <2>3. Cancels(J2, m, TRUE)
    BY <1>2, <1>3, <2>2 DEF Cancels, Holding
  <2>4. Sound(J2, q2, runningChat, TRUE, transcript)
    BY <1>1, <1>4, <1>5, <1>6, <1>7, <1>9, <2>2, <2>3, MoveStep
  <2>5. Sound(job', queue', runningChat', taskCancelled', transcript')
    <3>1. taskCancelled' = TRUE /\ Sound(J2, q2, runningChat, taskCancelled', transcript)
      BY <2>1, <2>4, Zenon
    <3> QED
      BY <2>1, <3>1
  <2>6. NoStrandedTask'
    BY <1>1, <1>10, <2>1 DEF NoStrandedTask
  <2> QED
    BY <1>8, <2>2, <2>5, <2>6 DEF AgentInv, Sound
<1>11. CASE ~(interrupt /\ runningChat = ChatOf[m])
  <2>1. UNCHANGED <<contractVars, stopped>> /\ Pump(J2, q2, runningChat)
    BY <1>11 DEF Steer, J2, q2
  <2>2. standing' = standing
    BY <2>1 DEF contractVars
  <2>3. Cancels(J2, m, taskCancelled)
    BY <1>1, <1>2, <1>3, <2>1 DEF Cancels, Holding, AgentInv, CancelsSound
  <2>4. HarnessSound(standing', engaged', stopping', taskCancelled, foreign')
    BY <1>8, <2>1, HarnessKept
  <2>5. Sound(J2, q2, runningChat, taskCancelled, transcript)
    BY <1>1, <1>4, <1>5, <1>6, <1>7, <1>9, <2>2, <2>3, <2>4, MoveStep
  <2>6. Sound(job', queue', runningChat', taskCancelled', transcript') /\ NoStrandedTask'
    BY <2>1, <2>5, PumpStep
  <2>7. standing' \in [Run -> Standing] /\ engaged' \in BOOLEAN /\ stopping' \in BOOLEAN
    BY <2>1, ContractTypes
  <2> QED
    BY <1>8, <2>6, <2>7 DEF AgentInv, Sound
<1> QED
  BY <1>10, <1>11

(* CancelTask, and the commands that change what is stored.                *)
LEMMA CancelTaskStep ==
  ASSUME AgentInv, NEW c \in Chat, CancelTask(c)
  PROVE  AgentInv'
<1>1. /\ runningChat = c /\ Stop(c) /\ taskCancelled' = TRUE /\ foreign' = foreign
      /\ job' = job /\ queue' = queue /\ runningChat' = runningChat
      /\ transcript' = transcript /\ lastTask' = lastTask
  BY DEF CancelTask, storeVars
<1>2. /\ \A n \in Message : job[n].at \in Holding => n \in stopped'
      /\ stopped \subseteq stopped' /\ standing' = standing
      /\ HarnessSound(standing', engaged', stopping', TRUE, foreign')
      /\ standing' \in [Run -> Standing] /\ engaged' \in BOOLEAN /\ stopping' \in BOOLEAN
  BY <1>1, StopStep
<1>3. HarnessSound(standing', engaged', stopping', taskCancelled', foreign')
  BY <1>1, <1>2 DEF HarnessSound
<1>4. CancelsSound(job', taskCancelled', stopped')
  BY <1>1, <1>2 DEF AgentInv, CancelsSound
<1>5. Typed(job', queue', runningChat', taskCancelled', transcript')
  <2>1. taskCancelled' \in BOOLEAN
    BY <1>1, Zenon
  <2> QED
    BY <1>1, <2>1 DEF AgentInv, Typed
<1>6. /\ JobsSound(job', queue', runningChat') /\ RunsSound(job', standing', foreign')
      /\ StoreSound(job', transcript') /\ NoStrandedTask'
      /\ lastTask' \in [Chat -> Message \cup {NoTask}]
  BY <1>1, <1>2 DEF AgentInv, NoStrandedTask
<1> QED
  BY <1>2, <1>3, <1>4, <1>5, <1>6 DEF AgentInv

LEMMA StoredStep ==
  ASSUME AgentInv, NEW c \in Chat, NEW s, s \in Seq(Turn), Len(s) <= Kept,
         TurnsSound(job, s, c), transcript' = [transcript EXCEPT ![c] = s],
         lastTask' = lastTask \/ lastTask' = [lastTask EXCEPT ![c] = NoTask],
         UNCHANGED <<contractVars, handlerVars, historyVars>>
  PROVE  AgentInv'
<1>1. /\ job' = job /\ queue' = queue /\ runningChat' = runningChat
      /\ taskCancelled' = taskCancelled /\ standing' = standing /\ engaged' = engaged
      /\ stopping' = stopping /\ stopped' = stopped /\ foreign' = foreign
  BY DEF contractVars, handlerVars, historyVars
<1>2. transcript \in [Chat -> Seq(Turn)]
  BY DEF AgentInv, Typed, Turn
<1>3. transcript' \in [Chat -> Seq(Turn)]
  BY <1>2
<1>4. StoreSound(job', transcript')
  BY <1>1, <1>2 DEF AgentInv, StoreSound
<1>5. lastTask' \in [Chat -> Message \cup {NoTask}]
  BY DEF AgentInv
<1>6. Typed(job', queue', runningChat', taskCancelled', transcript')
  BY <1>1, <1>3 DEF AgentInv, Typed, Turn
<1>7. /\ standing' \in [Run -> Standing] /\ engaged' \in BOOLEAN /\ stopping' \in BOOLEAN
      /\ JobsSound(job', queue', runningChat') /\ RunsSound(job', standing', foreign')
      /\ CancelsSound(job', taskCancelled', stopped') /\ NoStrandedTask'
      /\ HarnessSound(standing', engaged', stopping', taskCancelled', foreign')
  BY <1>1 DEF AgentInv, NoStrandedTask
<1> QED
  BY <1>4, <1>5, <1>6, <1>7 DEF AgentInv

LEMMA CommandStep ==
  ASSUME AgentInv, NEW c \in Chat, Forget(c) \/ Undo(c) \/ Compress(c)
  PROVE  AgentInv'
<1> DEFINE s == transcript[c]
<1>1. s \in Seq(Turn) /\ Len(s) <= Kept /\ TurnsSound(job, s, c)
  BY DEF AgentInv, Typed, StoreSound, Turn
<1>2. Len(s) \in Nat
  BY <1>1, LenProperties
<1>3. CASE Forget(c)
  <2>1. <<>> \in Seq(Turn) /\ Len(<<>>) <= Kept /\ TurnsSound(job, <<>>, c)
    BY EmptySeq DEF TurnsSound
  <2> QED
    BY <1>3, <2>1, StoredStep DEF Forget
<1>4. CASE Undo(c)
  <2> DEFINE less == Shortened(s)
  <2>1. /\ transcript' = [transcript EXCEPT ![c] = less]
        /\ lastTask' = [lastTask EXCEPT ![c] = NoTask]
        /\ UNCHANGED <<contractVars, handlerVars, historyVars>>
    BY <1>4 DEF Undo
  <2> HIDE DEF less, s
  <2>2. /\ less \in Seq(Turn) /\ Len(less) <= Len(s)
        /\ \A i \in 1..Len(less) : less[i] = s[i]
    BY <1>1, ShortenedPart DEF less
  <2>3. Len(less) \in Nat
    BY <2>2, LenProperties
  <2>4. Len(less) <= Kept /\ Len(less) + 0 <= Len(s)
        /\ \A i \in 1..Len(less) : less[i] = s[i + 0]
    BY <1>1, <1>2, <2>2, <2>3
  <2>5. TurnsSound(job, less, c)
    BY <1>1, <2>2, <2>4, PartSound
  <2> QED
    BY <2>1, <2>2, <2>4, <2>5, StoredStep
<1>5. CASE Compress(c)
  <2> DEFINE less == LastOf(s, Compact)
  <2>1. /\ transcript' = [transcript EXCEPT ![c] = less] /\ lastTask' = lastTask
        /\ UNCHANGED <<contractVars, handlerVars, historyVars>>
    BY <1>5 DEF Compress
  <2> HIDE DEF less, s
  <2>2. Compact \in Nat \ {0} /\ Compact <= Kept
    OBVIOUS
  <2>3. /\ less \in Seq(Turn) /\ Len(less) <= Compact
        /\ \E k \in Nat : /\ Len(less) + k = Len(s)
                          /\ \A i \in 1..Len(less) : less[i] = s[i + k]
    BY <1>1, <2>2, LastOfPart DEF less
  <2>4. PICK k \in Nat : /\ Len(less) + k = Len(s)
                         /\ \A i \in 1..Len(less) : less[i] = s[i + k]
    BY <2>3
  <2>5. Len(less) \in Nat
    BY <2>3, LenProperties
  <2>6. Len(less) + k <= Len(s) /\ Len(less) <= Kept
    BY <1>2, <2>2, <2>3, <2>4, <2>5
  <2>7. TurnsSound(job, less, c)
    BY <1>1, <2>3, <2>4, <2>6, PartSound
  <2> QED
    BY <2>1, <2>3, <2>6, <2>7, StoredStep
<1> QED
  BY <1>3, <1>4, <1>5

(* A handler that waits for nothing but the harness and the network moves  *)
(* on, and keeps or gives back the reservation.                            *)
Advances(J2, m, ch2) ==
  /\ job[m].at \notin {"new", "queued"}
  /\ J2 = [job EXCEPT ![m] = J2[m]] /\ J2[m] \in JobRecord
  /\ J2[m].task = job[m].task
  /\ J2[m].at \notin {"new", "queued"}
  /\ \/ J2[m].seen = <<>> /\ J2[m].at \notin Holding \cup {"tidying"}
     \/ /\ J2[m].seen = job[m].seen
        /\ J2[m].at \in Holding \cup {"tidying"} => job[m].at \in Holding \cup {"tidying"}
  /\ J2[m].record = "running" <=> J2[m].at \in {"announcing", "running"}
  /\ J2[m].at = "tidying" \/ job[m].record = "completed" => J2[m].record = "completed"
  /\ J2[m].record = "cancelled" =>
       job[m].record = "cancelled" \/ (taskCancelled /\ job[m].at \in Holding)
  /\ \/ ch2 = runningChat /\ (J2[m].at \in Holding <=> job[m].at \in Holding)
     \/ ch2 = NoChat /\ job[m].at \in Holding /\ J2[m].at \notin Holding

LEMMA AdvanceStep ==
  ASSUME AgentInv, NEW m \in Message, NEW J2, NEW ch2, Advances(J2, m, ch2), NEW T2,
         T2 \in [Chat -> Seq(Turn)],
         \A c \in Chat : Len(T2[c]) <= Kept /\ TurnsSound(job, T2[c], c),
         stopped' = stopped, RunsSound(J2, standing', foreign'),
         HarnessSound(standing', engaged', stopping', taskCancelled, foreign')
  PROVE  Sound(J2, queue, ch2, taskCancelled, T2)
<1>1. /\ job \in [Message -> JobRecord] /\ queue \in Seq(Message)
      /\ runningChat \in Chat \cup {NoChat} /\ taskCancelled \in BOOLEAN
      /\ JobsSound(job, queue, runningChat) /\ JobSound(job, m, runningChat)
      /\ (job[m].at = "queued" <=> InQueue(queue, m)) /\ Distinct(queue)
  BY DEF AgentInv, Typed, JobsSound, Distinct
<1>2. /\ J2 \in [Message -> JobRecord] /\ \A n \in Message \ {m} : J2[n] = job[n]
      /\ ch2 \in Chat \cup {NoChat}
  BY <1>1 DEF Advances
<1>3. Moves(job, J2, m)
  BY <1>1, <1>2 DEF Advances, Moves
<1>4. Reserves(job, J2, m, queue, queue, runningChat, ch2)
  <2>1. JobSound(J2, m, ch2)
    BY <1>1 DEF Advances, JobSound, Holding
  <2>2. \A n \in Message \ {m} : job[n].at \in Holding => job[m].at \notin Holding
    BY <1>1 DEF JobsSound
  <2>3. \A n \in Message \ {m} : job[n].at \in Holding => ch2 = runningChat
    BY <2>2 DEF Advances
  <2>4. ch2 # NoChat =>
          J2[m].at \in Holding \/ (runningChat # NoChat /\ job[m].at \notin Holding)
    BY DEF Advances
  <2>5. J2[m].at \in Holding => job[m].at \in Holding
    BY DEF Advances
  <2>6. J2[m].at = "queued" <=> InQueue(queue, m)
    BY <1>1 DEF Advances
  <2> QED
    BY <1>1, <2>1, <2>3, <2>4, <2>5, <2>6 DEF Reserves
<1>5. Stores(job, J2, m, T2)
  <2>1. TurnsSound(job, <<>>, ChatOf[m]) /\ Len(<<>>) = 0
    BY EmptySeq DEF TurnsSound
  <2>2. /\ TurnsSound(job, job[m].seen, ChatOf[m])
        /\ job[m].at \in Holding \cup {"tidying"} =>
             \A i \in 1..Len(job[m].seen) : job[m].seen[i] = m => Retried(job, m)
    BY DEF AgentInv, StoreSound
  <2>3. CASE J2[m].seen = <<>> /\ J2[m].at \notin Holding \cup {"tidying"}
    BY <2>1, <2>3 DEF Stores
  <2>4. CASE /\ J2[m].seen = job[m].seen
             /\ J2[m].at \in Holding \cup {"tidying"} => job[m].at \in Holding \cup {"tidying"}
    BY <2>2, <2>4 DEF Stores
  <2> QED
    BY <2>3, <2>4 DEF Advances
<1>6. Cancels(J2, m, taskCancelled)
  <2>1. CancelsSound(job, taskCancelled, stopped)
    BY DEF AgentInv
  <2>2. \A n \in Message : J2[n].at \in Holding => job[n].at \in Holding
    BY <1>2 DEF Advances
  <2>3. J2[m].record = "cancelled" => job[m].record = "cancelled" \/ m \in stopped'
    BY <2>1 DEF Advances, CancelsSound
  <2> QED
    BY <1>1, <2>1, <2>2, <2>3 DEF Cancels, CancelsSound
<1> QED
  BY <1>1, <1>2, <1>3, <1>4, <1>5, <1>6, MoveStep

(* A handler that stands where it holds the reservation or has its run's   *)
(* success to tell, and what the harness does for the others.              *)
LEMMA RunsKept ==
  ASSUME AgentInv, NEW m \in Message, NEW J2, NEW ch2, Advances(J2, m, ch2),
         foreign' = foreign, \A n \in Message \ {m} : standing'[n] = standing[n],
         standing'[m] \in {"starting", "working"} => J2[m].at = "running",
         J2[m].record = "completed" /\ ~foreign => standing'[m] = "completed"
  PROVE  RunsSound(J2, standing', foreign')
<1>1. /\ job \in [Message -> JobRecord] /\ RunsSound(job, standing, foreign)
      /\ \A n \in Message \ {m} : J2[n] = job[n]
  BY DEF AgentInv, Typed, Advances
<1> QED
  BY <1>1 DEF RunsSound

LEMMA AnnouncedStep ==
  ASSUME AgentInv, NEW m \in Message, Announced(m)
  PROVE  AgentInv'
<1>1. /\ job \in [Message -> JobRecord] /\ job[m] \in JobRecord /\ job[m].at = "announcing"
      /\ job[m].record = "running" /\ standing \in [Run -> Standing]
  BY DEF Announced, AgentInv, Typed, JobsSound, JobSound
<1>2. /\ Call(m) /\ queue' = queue /\ runningChat' = runningChat
      /\ taskCancelled' = taskCancelled /\ transcript' = transcript /\ lastTask' = lastTask
      /\ stopped' = stopped /\ foreign' = foreign
  BY DEF Announced, storeVars, historyVars
<1>3. /\ standing' = [standing EXCEPT ![m] = IF engaged THEN "refused" ELSE "starting"]
      /\ standing'[m] = IF engaged THEN "refused" ELSE "starting"
      /\ \A n \in Message \ {m} : standing'[n] = standing[n]
  BY <1>1, <1>2 DEF Call
<1>4. job'[m] = IF engaged THEN [job[m] EXCEPT !.at = "reporting", !.record = "failed"]
                           ELSE [job[m] EXCEPT !.at = "running"]
  BY <1>1 DEF Announced
<1>5. Advances(job', m, runningChat')
  <2>1. job' = [job EXCEPT ![m] = job'[m]]
    BY <1>1, <1>4 DEF Announced
  <2>2. CASE engaged
    <3>1. job'[m] = [job[m] EXCEPT !.at = "reporting", !.record = "failed"]
      BY <1>4, <2>2
    <3> QED
      BY <1>1, <1>2, <2>1, <3>1 DEF Advances, JobRecord, Place, Holding, Outcomes
  <2>3. CASE ~engaged
    <3>1. job'[m] = [job[m] EXCEPT !.at = "running"]
      BY <1>4, <2>3
    <3> QED
      BY <1>1, <1>2, <2>1, <3>1 DEF Advances, JobRecord, Place, Holding, Outcomes
  <2> QED
    BY <2>2, <2>3
<1>6. RunsSound(job', standing', foreign')
  <2>1. /\ standing'[m] \in {"starting", "working"} => job'[m].at = "running"
        /\ job'[m].record # "completed"
    BY <1>1, <1>3, <1>4 DEF JobRecord
  <2> QED
    BY <1>2, <1>3, <1>5, <2>1, RunsKept
<1>7. HarnessSound(standing', engaged', stopping', taskCancelled, foreign')
  BY <1>2, HarnessKept
<1>8. Sound(job', queue, runningChat', taskCancelled, transcript)
  BY <1>2, <1>5, <1>6, <1>7, StoreTyped, AdvanceStep
<1>9. standing' \in [Run -> Standing] /\ engaged' \in BOOLEAN /\ stopping' \in BOOLEAN
  BY <1>2, ContractTypes
<1> QED
  BY <1>2, <1>8, <1>9 DEF AgentInv, Sound, NoStrandedTask

LEMMA ProgressesStep ==
  ASSUME AgentInv, NEW m \in Message, Progresses(m)
  PROVE  AgentInv'
<1>1. /\ Engage(m) /\ job[m].at = "running" /\ job' = job /\ queue' = queue
      /\ runningChat' = runningChat /\ taskCancelled' = taskCancelled
      /\ transcript' = transcript /\ lastTask' = lastTask
      /\ stopped' = stopped /\ foreign' = foreign
  BY DEF Progresses, agentVars, handlerVars, storeVars, historyVars
<1>2. RunsSound(job', standing', foreign')
  <2>1. /\ standing \in [Run -> Standing] /\ RunsSound(job, standing, foreign)
        /\ job[m].record = "running"
    BY <1>1 DEF AgentInv, JobsSound, JobSound
  <2>2. standing' = [standing EXCEPT ![m] = "working"]
    BY <1>1 DEF Engage
  <2> QED
    BY <1>1, <2>1, <2>2 DEF RunsSound
<1>3. HarnessSound(standing', engaged', stopping', taskCancelled, foreign')
  BY <1>1, HarnessKept
<1>4. standing' \in [Run -> Standing] /\ engaged' \in BOOLEAN /\ stopping' \in BOOLEAN
  BY <1>1, ContractTypes
<1> QED
  BY <1>1, <1>2, <1>3, <1>4 DEF AgentInv, NoStrandedTask

(* Settled: only a task that is not cancelled is recorded as completed,    *)
(* and a run ends cancelled only if there was a request.                   *)
LEMMA SettledStep ==
  ASSUME AgentInv, NEW m \in Message, NEW outcome \in Outcomes, Settled(m, outcome)
  PROVE  AgentInv'
<1>1. /\ job \in [Message -> JobRecord] /\ job[m] \in JobRecord /\ job[m].at = "running"
      /\ job[m].record = "running" /\ standing \in [Run -> Standing]
  BY DEF Settled, AgentInv, Typed, JobsSound, JobSound
<1>2. /\ End(m, outcome) /\ lastTask' = lastTask /\ stopped' = stopped /\ foreign' = foreign
  BY DEF Settled, historyVars
<1>3. /\ standing' = [standing EXCEPT ![m] = outcome] /\ standing'[m] = outcome
      /\ \A n \in Message \ {m} : standing'[n] = standing[n]
      /\ outcome = "cancelled" => stopping
  BY <1>1, <1>2 DEF End
<1>4. standing' \in [Run -> Standing] /\ engaged' \in BOOLEAN /\ stopping' \in BOOLEAN
  BY <1>2, ContractTypes
<1>5. HarnessSound(standing', engaged', stopping', taskCancelled, foreign')
  BY <1>2, HarnessKept
<1>6. ASSUME outcome = "failed" \/ taskCancelled PROVE AgentInv'
  <2> DEFINE told == IF outcome = "failed" THEN "failed" ELSE "cancelled"
  <2>1. /\ job' = [job EXCEPT ![m].at = "reporting", ![m].record = told]
        /\ queue' = queue /\ runningChat' = runningChat
        /\ taskCancelled' = taskCancelled /\ transcript' = transcript
    BY <1>6 DEF Settled
  <2>2. job'[m] = [job[m] EXCEPT !.at = "reporting", !.record = told]
    BY <1>1, <2>1
  <2>3. Advances(job', m, runningChat')
    <3>1. job' = [job EXCEPT ![m] = job'[m]]
      BY <1>1, <2>1, <2>2
    <3>2. told = "cancelled" => taskCancelled
      BY <1>6
    <3> QED
      BY <1>1, <2>1, <2>2, <3>1, <3>2 DEF Advances, JobRecord, Place, Holding, Outcomes
  <2>4. RunsSound(job', standing', foreign')
    <3>1. /\ standing'[m] \notin {"starting", "working"}
          /\ job'[m].record # "completed"
      BY <1>1, <1>3, <2>2 DEF JobRecord, Outcomes
    <3> QED
      BY <1>2, <1>3, <2>3, <3>1, RunsKept
  <2>5. Sound(job', queue, runningChat', taskCancelled, transcript)
    BY <1>2, <1>5, <2>3, <2>4, StoreTyped, AdvanceStep
  <2> QED
    BY <1>2, <1>4, <2>1, <2>5 DEF AgentInv, Sound, NoStrandedTask
<1>7. ASSUME ~(outcome = "failed" \/ taskCancelled) PROVE AgentInv'
  <2> DEFINE J2 == [job EXCEPT ![m].at = "tidying", ![m].record = "completed"]
  <2>1. Pump(J2, queue, NoChat)
    BY <1>7 DEF Settled
  <2>2. /\ J2[m] = [job[m] EXCEPT !.at = "tidying", !.record = "completed"]
        /\ J2 = [job EXCEPT ![m] = J2[m]]
    BY <1>1
  <2> HIDE DEF J2
  <2>3. Advances(J2, m, NoChat)
    BY <1>1, <2>2 DEF Advances, JobRecord, Place, Holding, Outcomes
  <2>4. RunsSound(J2, standing', foreign')
    <3>1. ~foreign => outcome = "completed"
      BY <1>3, <1>7 DEF AgentInv, HarnessSound, Outcomes
    <3>2. standing'[m] \notin {"starting", "working"}
      BY <1>3 DEF Outcomes
    <3> QED
      BY <1>2, <1>3, <2>3, <3>1, <3>2, RunsKept
  <2>5. Sound(J2, queue, NoChat, taskCancelled, transcript)
    BY <1>2, <1>5, <2>3, <2>4, StoreTyped, AdvanceStep
  <2>6. Sound(job', queue', runningChat', taskCancelled', transcript') /\ NoStrandedTask'
    BY <2>1, <2>5, PumpStep
  <2> QED
    BY <1>2, <1>4, <2>6 DEF AgentInv, Sound
<1> QED
  BY <1>6, <1>7

(* The handler of a task returns.                                          *)
LEMMA ReturnedFrom ==
  ASSUME AgentInv, NEW m \in Message, job[m].at \in {"reporting", "tidying"},
         NEW ch, ch = IF job[m].at = "reporting" THEN NoChat ELSE runningChat,
         standing' = standing, foreign' = foreign
  PROVE  Advances(Returned(m), m, ch) /\ RunsSound(Returned(m), standing', foreign')
<1> DEFINE J2 == Returned(m)
<1>1. /\ job \in [Message -> JobRecord] /\ job[m] \in JobRecord
      /\ job[m].record # "running" /\ RunsSound(job, standing, foreign)
      /\ job[m].at = "tidying" => job[m].record = "completed"
  BY DEF AgentInv, Typed, JobsSound, JobSound
<1>2. /\ J2[m] = [job[m] EXCEPT !.seen = <<>>,
                                !.at = IF job[m].drained THEN "replying" ELSE "done"]
      /\ J2 = [job EXCEPT ![m] = J2[m]]
  BY <1>1 DEF Returned
<1> HIDE DEF J2
<1>3. J2[m] \in JobRecord /\ J2[m].at \in {"replying", "done"} /\ J2[m].seen = <<>>
      /\ J2[m].task = job[m].task /\ J2[m].record = job[m].record
  <2>1. <<>> \in Seq(Message \cup {OldTask})
    BY EmptySeq
  <2> QED
    BY <1>1, <1>2, <2>1 DEF JobRecord, Place
<1>4. Advances(J2, m, ch)
  BY <1>1, <1>2, <1>3 DEF Advances, Holding
<1>5. RunsSound(J2, standing', foreign')
  <2>1. standing[m] \notin {"starting", "working"}
    BY <1>1 DEF RunsSound
  <2>2. J2[m].record = "completed" /\ ~foreign => standing'[m] = "completed"
    BY <1>1, <1>3 DEF RunsSound
  <2> QED
    BY <1>4, <2>1, <2>2, RunsKept
<1> QED
  BY <1>4, <1>5 DEF J2

LEMMA ReportedStep ==
  ASSUME AgentInv, NEW m \in Message, Reported(m)
  PROVE  AgentInv'
<1>1. /\ job[m].at = "reporting" /\ UNCHANGED contractVars /\ Pump(Returned(m), queue, NoChat)
      /\ lastTask' = lastTask /\ stopped' = stopped /\ foreign' = foreign
  BY DEF Reported, historyVars
<1>2. Advances(Returned(m), m, NoChat) /\ RunsSound(Returned(m), standing', foreign')
  <2>1. standing' = standing
    BY <1>1 DEF contractVars
  <2> QED
    BY <1>1, <2>1, ReturnedFrom
<1>3. HarnessSound(standing', engaged', stopping', taskCancelled, foreign')
  BY <1>1, HarnessKept
<1>4. Sound(Returned(m), queue, NoChat, taskCancelled, transcript)
  BY <1>1, <1>2, <1>3, StoreTyped, AdvanceStep
<1>5. Sound(job', queue', runningChat', taskCancelled', transcript') /\ NoStrandedTask'
  BY <1>1, <1>4, PumpStep
<1>6. standing' \in [Run -> Standing] /\ engaged' \in BOOLEAN /\ stopping' \in BOOLEAN
  BY <1>1, ContractTypes
<1> QED
  BY <1>1, <1>5, <1>6 DEF AgentInv, Sound

(* Tidied: the turn goes behind those that the task has read.              *)
LEMMA TidiedStep ==
  ASSUME AgentInv, NEW m \in Message, Tidied(m)
  PROVE  AgentInv'
<1> DEFINE c == ChatOf[m]
           seen == job[m].seen
           all == Append(seen, job[m].task)
           turns == LastOf(all, Kept)
<1>1. /\ job[m].at = "tidying" /\ job' = Returned(m) /\ UNCHANGED contractVars
      /\ transcript' = [transcript EXCEPT ![c] = turns]
      /\ lastTask' = [lastTask EXCEPT ![c] = job[m].task]
      /\ queue' = queue /\ runningChat' = runningChat /\ taskCancelled' = taskCancelled
      /\ stopped' = stopped /\ foreign' = foreign
  BY DEF Tidied, historyVars
<1>2. /\ job[m] \in JobRecord /\ c \in Chat /\ job[m].task \in Message
      /\ job[m].record = "completed" /\ seen \in Seq(Turn) /\ TurnsSound(job, seen, c)
      /\ \A i \in 1..Len(seen) : seen[i] = m => Retried(job, m)
      /\ lastTask \in [Chat -> Message \cup {NoTask}]
  BY <1>1 DEF AgentInv, Typed, JobsSound, JobSound, StoreSound, JobRecord, Turn
<1>3. all \in Seq(Turn) /\ TurnsSound(job, all, c)
  BY <1>2, AppendSound
<1>4. Kept \in Nat \ {0}
  OBVIOUS
<1> HIDE DEF seen, all, turns
<1>5. turns \in Seq(Turn) /\ Len(turns) <= Kept /\ TurnsSound(job, turns, c)
  <2>1. /\ turns \in Seq(Turn) /\ Len(turns) <= Kept
        /\ \E k \in Nat : /\ Len(turns) + k = Len(all)
                          /\ \A i \in 1..Len(turns) : turns[i] = all[i + k]
    BY <1>3, <1>4, LastOfPart DEF turns
  <2>2. PICK k \in Nat : /\ Len(turns) + k = Len(all)
                         /\ \A i \in 1..Len(turns) : turns[i] = all[i + k]
    BY <2>1
  <2>3. Len(turns) + k <= Len(all)
    <3>1. Len(all) \in Nat
      BY <1>3, LenProperties
    <3> QED
      BY <2>2, <3>1
  <2> QED
    BY <1>3, <2>1, <2>2, <2>3, PartSound
<1>6. Advances(job', m, runningChat) /\ RunsSound(job', standing', foreign')
  <2>1. standing' = standing
    BY <1>1 DEF contractVars
  <2> QED
    BY <1>1, <2>1, ReturnedFrom
<1>7. HarnessSound(standing', engaged', stopping', taskCancelled, foreign')
  BY <1>1, HarnessKept
<1>8. /\ transcript' \in [Chat -> Seq(Turn)]
      /\ \A x \in Chat : Len(transcript'[x]) <= Kept /\ TurnsSound(job, transcript'[x], x)
  BY <1>1, <1>2, <1>5, StoreTyped
<1>9. Sound(job', queue, runningChat, taskCancelled, transcript')
  BY <1>1, <1>6, <1>7, <1>8, AdvanceStep
<1>10. /\ standing' \in [Run -> Standing] /\ engaged' \in BOOLEAN /\ stopping' \in BOOLEAN
       /\ lastTask' \in [Chat -> Message \cup {NoTask}]
  BY <1>1, <1>2, ContractTypes
<1> QED
  BY <1>1, <1>9, <1>10 DEF AgentInv, Sound, NoStrandedTask

LEMMA RepliedStep ==
  ASSUME AgentInv, NEW m \in Message, Replied(m)
  PROVE  AgentInv'
<1> DEFINE J2 == [job EXCEPT ![m].at = "done", ![m].drained = FALSE]
<1>1. /\ job[m].at = "replying" /\ UNCHANGED contractVars /\ Pump(J2, queue, runningChat)
      /\ lastTask' = lastTask /\ stopped' = stopped /\ foreign' = foreign
  BY DEF Replied, historyVars
<1>2. /\ job \in [Message -> JobRecord] /\ job[m] \in JobRecord
      /\ job[m].record # "running" /\ RunsSound(job, standing, foreign)
  BY <1>1 DEF AgentInv, Typed, JobsSound, JobSound
<1>3. /\ J2[m] = [job[m] EXCEPT !.at = "done", !.drained = FALSE]
      /\ J2 = [job EXCEPT ![m] = J2[m]]
  BY <1>2
<1> HIDE DEF J2
<1>4. /\ J2[m] \in JobRecord /\ J2[m].at = "done" /\ J2[m].seen = job[m].seen
      /\ J2[m].task = job[m].task /\ J2[m].record = job[m].record
  BY <1>2, <1>3 DEF JobRecord, Place
<1>5. Advances(J2, m, runningChat)
  BY <1>1, <1>2, <1>3, <1>4 DEF Advances, Holding
<1>6. RunsSound(J2, standing', foreign')
  <2>1. standing' = standing
    BY <1>1 DEF contractVars
  <2>2. standing[m] \notin {"starting", "working"}
    BY <1>1, <1>2 DEF RunsSound
  <2>3. J2[m].record = "completed" /\ ~foreign => standing'[m] = "completed"
    BY <1>2, <1>4, <2>1 DEF RunsSound
  <2> QED
    BY <1>1, <1>5, <2>1, <2>2, <2>3, RunsKept
<1>7. HarnessSound(standing', engaged', stopping', taskCancelled, foreign')
  BY <1>1, HarnessKept
<1>8. Sound(J2, queue, runningChat, taskCancelled, transcript)
  BY <1>1, <1>5, <1>6, <1>7, StoreTyped, AdvanceStep
<1>9. Sound(job', queue', runningChat', taskCancelled', transcript') /\ NoStrandedTask'
  BY <1>1, <1>8, PumpStep
<1>10. standing' \in [Run -> Standing] /\ engaged' \in BOOLEAN /\ stopping' \in BOOLEAN
  BY <1>1, ContractTypes
<1> QED
  BY <1>1, <1>9, <1>10 DEF AgentInv, Sound

(* The window and the scheduler run what is theirs, and cancel.            *)
LEMMA OtherStep ==
  ASSUME AgentInv, (\E r \in Other : OtherRun(r)) \/ OtherCancel
  PROVE  AgentInv'
<1>1. /\ foreign' = TRUE /\ job' = job /\ queue' = queue /\ runningChat' = runningChat
      /\ taskCancelled' = taskCancelled /\ transcript' = transcript
      /\ lastTask' = lastTask /\ stopped' = stopped
  BY DEF OtherRun, OtherCancel, handlerVars, storeVars
<1>2. \/ Cancel
      \/ \E r \in Run : Call(r) \/ Engage(r) \/ \E o \in Outcomes : End(r, o)
  BY DEF OtherRun, OtherCancel, Other
<1>3. standing' \in [Run -> Standing] /\ engaged' \in BOOLEAN /\ stopping' \in BOOLEAN
  BY <1>2, ContractTypes
<1>4. RunsSound(job', standing', foreign')
  <2>1. standing \in [Run -> Standing] /\ RunsSound(job, standing, foreign)
    BY DEF AgentInv
  <2>2. \A m \in Message : standing'[m] = standing[m]
    BY <2>1 DEF OtherRun, OtherCancel, Other, Call, Engage, End, Cancel
  <2> QED
    BY <1>1, <2>1, <2>2 DEF RunsSound
<1>5. HarnessSound(standing', engaged', stopping', taskCancelled', foreign')
  BY <1>1 DEF HarnessSound
<1> QED
  BY <1>1, <1>3, <1>4, <1>5 DEF AgentInv, NoStrandedTask

(* Restart: no handler is left, and no task that runs.                     *)
LEMMA RestartStep ==
  ASSUME AgentInv, Restart
  PROVE  AgentInv'
<1>1. /\ standing \in [Run -> Standing] /\ job \in [Message -> JobRecord]
      /\ JobsSound(job, queue, runningChat) /\ CancelsSound(job, taskCancelled, stopped)
      /\ RunsSound(job, standing, foreign) /\ StoreSound(job, transcript)
      /\ HarnessSound(standing, engaged, stopping, taskCancelled, foreign)
  BY DEF AgentInv, Typed
<1>2. /\ engaged' = FALSE /\ stopping' = FALSE /\ queue' = <<>> /\ runningChat' = NoChat
      /\ taskCancelled' = FALSE /\ transcript' = transcript /\ lastTask' = lastTask
      /\ foreign' = foreign
      /\ stopped' = stopped \cup {m \in Message : job[m].record = "running"}
  BY DEF Restart, storeVars
<1>3. engaged' \in BOOLEAN /\ stopping' \in BOOLEAN /\ taskCancelled' \in BOOLEAN
  BY <1>2, Zenon
<1>4. /\ standing' \in [Run -> Standing]
      /\ \A r \in Run : standing'[r] = IF standing[r] \in {"starting", "working"}
                                       THEN "failed" ELSE standing[r]
  BY <1>1 DEF Restart, Standing, Outcomes
<1>5. <<>> \in Seq(Message \cup {OldTask}) /\ <<>> \in Seq(Message) /\ Len(<<>>) = 0
  BY EmptySeq
<1>6. ASSUME NEW m \in Message
      PROVE  \/ job'[m] = job[m] /\ job[m].at \in {"new", "done"}
             \/ /\ job'[m] \in JobRecord /\ job'[m].at = "lost" /\ job'[m].seen = <<>>
                /\ job'[m].task = job[m].task /\ job[m].at \notin {"new", "done"}
                /\ job'[m].record =
                     IF job[m].record = "running" THEN "cancelled" ELSE job[m].record
  <2> DEFINE told == IF job[m].record = "running" THEN "cancelled" ELSE job[m].record
  <2>1. job'[m] = IF job[m].at \in {"new", "done"} THEN job[m]
                  ELSE [job[m] EXCEPT !.at = "lost", !.seen = <<>>, !.drained = FALSE,
                                      !.record = told]
    BY DEF Restart
  <2>2. job[m] \in JobRecord
    BY <1>1
  <2>3. told \in {"none", "running"} \cup Outcomes
    BY <2>2 DEF JobRecord, Outcomes
  <2> HIDE DEF told
  <2>4. CASE job[m].at \in {"new", "done"}
    BY <2>1, <2>4
  <2>5. CASE job[m].at \notin {"new", "done"}
    <3>1. job'[m] = [job[m] EXCEPT !.at = "lost", !.seen = <<>>, !.drained = FALSE,
                                   !.record = told]
      BY <2>1, <2>5
    <3>2. job'[m] \in JobRecord
      BY <1>5, <2>2, <2>3, <3>1 DEF JobRecord, Place
    <3>3. /\ job'[m].at = "lost" /\ job'[m].seen = <<>>
          /\ job'[m].task = job[m].task /\ job'[m].record = told
      BY <2>2, <3>1 DEF JobRecord
    <3> QED
      BY <2>5, <3>2, <3>3 DEF told
  <2> QED
    BY <2>4, <2>5
<1>7. job' \in [Message -> JobRecord]
  <2>1. job' = [m \in Message |-> job'[m]]
    BY DEF Restart
  <2>2. \A m \in Message : job'[m] \in JobRecord
    BY <1>1, <1>6
  <2> QED
    BY <2>1, <2>2
<1>8. JobsSound(job', queue', runningChat')
  <2>1. \A m \in Message : ~InQueue(queue', m)
    BY <1>2, <1>5 DEF InQueue
  <2>2. \A m \in Message : job'[m].at \notin Holding \cup {"queued"}
    BY <1>6 DEF Holding
  <2>3. ASSUME NEW m \in Message PROVE JobSound(job', m, runningChat')
    <3>1. JobSound(job, m, runningChat)
      BY <1>1 DEF JobsSound
    <3> QED
      BY <1>6, <2>2, <3>1 DEF JobSound, Holding
  <2> QED
    BY <1>2, <1>5, <2>1, <2>2, <2>3 DEF JobsSound
<1>9. CancelsSound(job', taskCancelled', stopped')
  <2>1. ASSUME NEW m \in Message, job'[m].record = "cancelled" PROVE m \in stopped'
    BY <1>1, <1>2, <1>6, <2>1 DEF CancelsSound
  <2> QED
    BY <1>2, <2>1 DEF CancelsSound
<1>10. RunsSound(job', standing', foreign')
  <2>1. ASSUME NEW m \in Message
        PROVE  /\ standing'[m] \notin {"starting", "working"}
               /\ job'[m].record = "completed" /\ ~foreign => standing'[m] = "completed"
    BY <1>1, <1>4, <1>6 DEF RunsSound
  <2> QED
    BY <1>2, <2>1 DEF RunsSound
<1>11. HarnessSound(standing', engaged', stopping', taskCancelled', foreign')
  BY <1>1, <1>2, <1>4 DEF HarnessSound, Other
<1>12. StoreSound(job', transcript')
  <2>1. \A t : Retried(job, t) => Retried(job', t)
    BY <1>6 DEF Retried
  <2>2. \A t, c : TurnOf(job, t, c) => TurnOf(job', t, c)
    BY <1>6 DEF TurnOf
  <2>3. \A s, c : TurnsSound(job, s, c) => TurnsSound(job', s, c)
    BY <2>1, <2>2 DEF TurnsSound
  <2>4. ASSUME NEW m \in Message
        PROVE  /\ TurnsSound(job', job'[m].seen, ChatOf[m])
               /\ job'[m].at \notin Holding \cup {"tidying"}
    <3>1. TurnsSound(job', <<>>, ChatOf[m])
      BY <1>5 DEF TurnsSound
    <3>2. TurnsSound(job, job[m].seen, ChatOf[m])
      BY <1>1 DEF StoreSound
    <3>3. job'[m] = job[m] \/ job'[m].seen = <<>>
      BY <1>6
    <3> QED
      BY <1>6, <2>3, <3>1, <3>2, <3>3 DEF Holding
  <2>5. \A c \in Chat : Len(transcript'[c]) <= Kept /\ TurnsSound(job', transcript'[c], c)
    BY <1>1, <1>2, <2>3 DEF StoreSound
  <2> QED
    BY <2>4, <2>5 DEF StoreSound
<1>13. Typed(job', queue', runningChat', taskCancelled', transcript')
  BY <1>2, <1>3, <1>5, <1>7 DEF AgentInv, Typed
<1>14. NoStrandedTask' /\ lastTask' \in [Chat -> Message \cup {NoTask}]
  BY <1>2 DEF AgentInv, NoStrandedTask
<1> QED
  BY <1>3, <1>4, <1>8, <1>9, <1>10, <1>11, <1>12, <1>13, <1>14 DEF AgentInv

-----------------------------------------------------------------------------
(* The theorems.                                                           *)

LEMMA InitAgent == Init => AgentInv
<1> SUFFICES ASSUME Init PROVE AgentInv
  OBVIOUS
<1>1. <<>> \in Seq(Turn) /\ <<>> \in Seq(Message) /\ Len(<<>>) = 0
  BY EmptySeq
<1>2. /\ standing = [r \in Run |-> "new"] /\ engaged = FALSE /\ stopping = FALSE
      /\ job = [m \in Message |-> Fresh(m)] /\ queue = <<>> /\ runningChat = NoChat
      /\ taskCancelled = FALSE /\ lastTask = [c \in Chat |-> NoTask]
      /\ transcript = [c \in Chat |-> IF c \in Earlier THEN <<OldTask>> ELSE <<>>]
  BY DEF Init, ContractInit
<1>3. engaged \in BOOLEAN /\ stopping \in BOOLEAN /\ taskCancelled \in BOOLEAN
  BY <1>2, Zenon
<1>4. \A m \in Message : /\ job[m] = Fresh(m) /\ job[m] \in JobRecord
                         /\ job[m].at = "new" /\ job[m].task = m
                         /\ job[m].seen = <<>> /\ job[m].record = "none"
  <2>1. FALSE \in BOOLEAN
    OBVIOUS
  <2> QED
    BY <1>1, <1>2, <2>1 DEF Fresh, JobRecord, Place, Turn
<1>5. job \in [Message -> JobRecord]
  BY <1>2, <1>4
<1>6. <<OldTask>> \in Seq(Turn) /\ Len(<<OldTask>>) = 1 /\ <<OldTask>>[1] = OldTask
  BY DEF Turn
<1>7. Kept \in Nat /\ 1 <= Kept
  OBVIOUS
<1>8. \A c \in Chat : TurnsSound(job, <<>>, c) /\ TurnsSound(job, <<OldTask>>, c)
  <2>1. 1..Len(<<>>) = {} /\ 1..Len(<<OldTask>>) = {1}
    BY <1>1, <1>6
  <2> QED
    BY <1>6, <2>1 DEF TurnsSound
<1>9. StoreSound(job, transcript)
  <2>1. \A c \in Chat : Len(transcript[c]) <= Kept /\ TurnsSound(job, transcript[c], c)
    BY <1>1, <1>2, <1>6, <1>7, <1>8
  <2> QED
    BY <1>4, <1>8, <2>1 DEF StoreSound, Holding
<1>10. JobsSound(job, queue, runningChat)
  <2>1. \A m \in Message : ~InQueue(queue, m)
    BY <1>1, <1>2 DEF InQueue
  <2>2. \A m \in Message : job[m].at \notin Holding
    BY <1>4 DEF Holding
  <2>3. \A m \in Message : JobSound(job, m, runningChat)
    BY <1>4 DEF JobSound, Holding
  <2> QED
    BY <1>1, <1>2, <1>4, <2>1, <2>2, <2>3 DEF JobsSound
<1>11. CancelsSound(job, taskCancelled, stopped)
  BY <1>4 DEF CancelsSound, Holding
<1>12. /\ RunsSound(job, standing, foreign)
       /\ HarnessSound(standing, engaged, stopping, taskCancelled, foreign)
  BY <1>2, <1>4 DEF RunsSound, HarnessSound, Other
<1>13. Typed(job, queue, runningChat, taskCancelled, transcript)
  <2>1. transcript \in [Chat -> Seq(Turn)]
    BY <1>1, <1>2, <1>6
  <2> QED
    BY <1>1, <1>2, <1>3, <1>5, <2>1 DEF Typed, Turn
<1>14. standing \in [Run -> Standing] /\ lastTask \in [Chat -> Message \cup {NoTask}]
  BY <1>2 DEF Standing
<1> QED
  BY <1>2, <1>3, <1>9, <1>10, <1>11, <1>12, <1>13, <1>14 DEF AgentInv, NoStrandedTask

(* The invariant of the induction: what AgentInv adds to the properties    *)
(* below is what a handler remembers over its awaits (the turns it has     *)
(* read), what the harness does on behalf of which handler, and that       *)
(* whoever holds the reservation was stopped if the flag says so.          *)
THEOREM AgentInvariant == Spec => []AgentInv
<1>1. Init => AgentInv
  BY InitAgent
<1>2. AgentInv /\ [Next]_vars => AgentInv'
  <2> SUFFICES ASSUME AgentInv, [Next]_vars PROVE AgentInv'
    OBVIOUS
  <2>1. ASSUME NEW m \in Message, Task(m) PROVE AgentInv'
    BY <2>1, TaskStep
  <2>2. ASSUME NEW m \in Message, Retry(m) PROVE AgentInv'
    BY <2>2, RetryStep
  <2>3. ASSUME NEW m \in Message, NEW interrupt \in BOOLEAN, Steer(m, interrupt)
        PROVE  AgentInv'
    BY <2>3, SteerStep
  <2>4. ASSUME NEW m \in Message, Announced(m) PROVE AgentInv'
    BY <2>4, AnnouncedStep
  <2>5. ASSUME NEW m \in Message, Progresses(m) PROVE AgentInv'
    BY <2>5, ProgressesStep
  <2>6. ASSUME NEW m \in Message, NEW o \in Outcomes, Settled(m, o) PROVE AgentInv'
    BY <2>6, SettledStep
  <2>7. ASSUME NEW m \in Message, Reported(m) PROVE AgentInv'
    BY <2>7, ReportedStep
  <2>8. ASSUME NEW m \in Message, Tidied(m) PROVE AgentInv'
    BY <2>8, TidiedStep
  <2>9. ASSUME NEW m \in Message, Replied(m) PROVE AgentInv'
    BY <2>9, RepliedStep
  <2>10. ASSUME NEW c \in Chat, CancelTask(c) PROVE AgentInv'
    BY <2>10, CancelTaskStep
  <2>11. ASSUME NEW c \in Chat, Forget(c) \/ Undo(c) \/ Compress(c) PROVE AgentInv'
    BY <2>11, CommandStep
  <2>12. CASE (\E r \in Other : OtherRun(r)) \/ OtherCancel
    BY <2>12, OtherStep
  <2>13. CASE Restart
    BY <2>13, RestartStep
  <2>14. CASE UNCHANGED vars
    BY <2>14 DEF AgentInv, NoStrandedTask, vars, contractVars, agentVars, handlerVars,
       storeVars, historyVars
  <2> QED
    BY <2>1, <2>2, <2>3, <2>4, <2>5, <2>6, <2>7, <2>8, <2>9, <2>10, <2>11, <2>12, <2>13,
       <2>14 DEF Next
<1> QED
  BY <1>1, <1>2, PTL DEF Spec

(* TypeOK: no step of a handler or command leaves the types, and no        *)
(* transcript outgrows its bound.                                          *)
THEOREM AgentTypes == Spec => []TypeOK
<1>1. AgentInv => TypeOK
  BY DEF AgentInv, TypeOK, Typed, StoreSound, JobRecord
<1> QED
  BY <1>1, AgentInvariant, PTL

(* OneTaskAtATime: the reservation has one holder, the chat that runs is   *)
(* the holder's, and the queue holds the tasks that wait, each once.       *)
THEOREM OneReservation == Spec => []OneTaskAtATime
<1>1. AgentInv => OneTaskAtATime
  <2> SUFFICES ASSUME AgentInv PROVE OneTaskAtATime
    OBVIOUS
  <2>1. JobsSound(job, queue, runningChat) /\ queue \in Seq(Message)
    BY DEF AgentInv, Typed
  <2>2. \A i \in 1..Len(queue) : queue[i] \in Message
    BY <2>1, ElementOfSeq
  <2>3. {m \in Message : job[m].at = "queued"} = {queue[i] : i \in 1..Len(queue)}
    BY <2>1, <2>2 DEF JobsSound, InQueue
  <2> QED
    BY <2>1, <2>3 DEF JobsSound, JobSound, OneTaskAtATime
<1> QED
  BY <1>1, AgentInvariant, PTL

(* NoStrandedTask: no way a task can end leaves the next one waiting for   *)
(* nobody.                                                                 *)
THEOREM QueueServed == Spec => []NoStrandedTask
<1>1. AgentInv => NoStrandedTask
  BY DEF AgentInv
<1> QED
  BY <1>1, AgentInvariant, PTL

(* RecordsTrue: a run record says what became of the task, whichever of    *)
(* cancellation, settlement and restart came first.                        *)
THEOREM RecordsTellTheTruth == Spec => []RecordsTrue
<1>1. AgentInv => RecordsTrue
  BY DEF AgentInv, RecordsTrue, JobsSound, JobSound, CancelsSound, RunsSound
<1> QED
  BY <1>1, AgentInvariant, PTL

(* TranscriptSound: what a transcript holds was completed in its chat, and *)
(* stands there once unless it was retried.                                *)
THEOREM TranscriptsTrue == Spec => []TranscriptSound
<1>1. AgentInv => TranscriptSound
  BY DEF AgentInv, StoreSound, TranscriptSound
<1> QED
  BY <1>1, AgentInvariant, PTL
=============================================================================
