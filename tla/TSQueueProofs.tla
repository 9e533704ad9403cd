--------------------------- MODULE TSQueueProofs ---------------------------
(***************************************************************************)
(* Theorems about TSQueue, for any threads, any items and any bound on     *)
(* Update.  The invariants build on each other: types and mutexes first    *)
(* (Typed, Locking), then what one consumer and the operations the program *)
(* uses add (NoPopOnEmpty, HandledInOrder), then the channel refinement.   *)
(***************************************************************************)
EXTENDS TSQueue, SequenceTheorems, FiniteSetTheorems, TLAPS

(* The program has one thread that removes from each queue.                *)
OneConsumer == \A c, d \in Consumers : c = d
-----------------------------------------------------------------------------
(* TypeOK is not inductive: that the counter stays within Update's bound   *)
(* depends on the test that precedes a pop.                                *)
CountBelowBound == \A c \in Consumers :
  pc[c] = "pop" => nMessagesCount[c] < nMaxMessages

Typed == TypeOK /\ CountBelowBound

(* A producer is no consumer, and no thread is the free mutex.             *)
LEMMA ThreadsDisjoint ==
  /\ \A t \in Producers : t \notin Consumers /\ t # None
  /\ \A c \in Consumers : c \notin Producers /\ c # None
BY TSQueueAssumption DEF Threads

(* The initial state has the types.                                        *)
LEMMA InitTyped == Init => Typed
<1> SUFFICES ASSUME Init PROVE Typed
  OBVIOUS
<1>1. deqQueue \in Seq(Items) /\ pushed \in Seq(Items) /\ handled \in Seq(Items)
  BY EmptySeq DEF Init
<1>2. nMaxMessages \in Nat \ {0}
  BY TSQueueAssumption
<1>3. nMessagesCount \in [Consumers -> 0 .. nMaxMessages]
  BY <1>2 DEF Init
<1>4. /\ pc \in [Threads -> ProducerLabels \cup ConsumerLabels]
      /\ \A t \in Producers : pc[t] \in ProducerLabels
      /\ \A c \in Consumers : pc[c] \in ConsumerLabels
      /\ \A c \in Consumers : pc[c] # "pop"
  BY ThreadsDisjoint DEF Init, Threads, ProducerLabels, ConsumerLabels
<1> QED
  BY <1>1, <1>3, <1>4 DEF Init, Typed, TypeOK, CountBelowBound

(* A producer's step keeps the types.                                      *)
LEMMA ProducerTyped ==
  ASSUME Typed, NEW t \in Producers, Producer(t)
  PROVE  Typed'
<1> USE DEF Typed, TypeOK, CountBelowBound, Threads, Goto, ProducerLabels, ConsumerLabels
<1>1. ASSUME NEW item \in Items, NEW q \in Seq(Items), Emplace(t, item, q)
      PROVE  Typed'
  <2>1. Append(pushed, item) \in Seq(Items)
    OBVIOUS
  <2> QED
    BY <1>1, <2>1, ThreadsDisjoint DEF Emplace
<1>2. CASE push_back(t)
  <2>1. PICK item \in Items : Emplace(t, item, Append(deqQueue, item))
    BY <1>2 DEF push_back
  <2>2. Append(deqQueue, item) \in Seq(Items)
    OBVIOUS
  <2> QED
    BY <1>1, <2>1, <2>2
<1>3. CASE push_front(t)
  <2>1. PICK item \in Items : Emplace(t, item, <<item>> \o deqQueue)
    BY <1>3 DEF push_front
  <2>2. <<item>> \o deqQueue \in Seq(Items)
    BY ConcatProperties
  <2> QED
    BY <1>1, <2>1, <2>2
<1>4. CASE notify_one(t)
  BY <1>4, ThreadsDisjoint DEF notify_one
<1>5. CASE push_return(t)
  BY <1>5, ThreadsDisjoint DEF push_return
<1> QED
  BY <1>2, <1>3, <1>4, <1>5 DEF Producer, Finish

(* A consumer's step keeps the types.                                      *)
LEMMA ConsumerTyped ==
  ASSUME Typed, NEW c \in Consumers, Consumer(c)
  PROVE  Typed'
<1> USE ThreadsDisjoint
    DEF Typed, TypeOK, CountBelowBound, Threads, Goto, ProducerLabels, ConsumerLabels
<1>0. nMaxMessages \in Nat \ {0}
  BY TSQueueAssumption
<1>1. CASE Update(c)
  BY <1>0, <1>1 DEF Update
<1>2. CASE wait_test(c)
  BY <1>2 DEF wait_test, empty
<1>3. CASE wait_lock(c)
  BY <1>3 DEF wait_lock
<1>4. CASE wait_sleep(c)
  BY <1>4 DEF wait_sleep
<1>5. CASE wait_woken(c)
  BY <1>5 DEF wait_woken
<1>6. CASE wait_again(c)
  BY <1>6 DEF wait_again
<1>7. CASE drain_bound(c)
  BY <1>7 DEF drain_bound
<1>8. CASE drain_test(c)
  BY <1>0, <1>8 DEF drain_test, empty
<1>9. ASSUME NEW item \in Items, NEW q \in Seq(Items), Take(c, item, q)
      PROVE  Typed'
  <2>1. Append(handled, item) \in Seq(Items)
    OBVIOUS
  <2>2. nMessagesCount[c] + 1 \in 0 .. nMaxMessages
    BY <1>0, <1>9 DEF Take
  <2> QED
    BY <1>9, <2>1, <2>2 DEF Take
<1>10. CASE pop_front(c)
  <2>1. Head(deqQueue) \in Items /\ Tail(deqQueue) \in Seq(Items)
    BY <1>10, HeadTailProperties DEF pop_front, Take
  <2> QED
    BY <1>9, <1>10, <2>1 DEF pop_front
<1>11. CASE pop_back(c)
  <2> DEFINE last == Len(deqQueue)
  <2>1. last \in Nat \ {0}
    BY <1>11, EmptySeq DEF pop_back, Take
  <2>2. \A i \in 1 .. last : deqQueue[i] \in Items
    BY ElementOfSeq
  <2>3. deqQueue[last] \in Items
    BY <2>1, <2>2
  <2>4. SubSeq(deqQueue, 1, last - 1) \in Seq(Items)
    BY <2>1, <2>2, SubSeqProperties
  <2> QED
    BY <1>9, <1>11, <2>3, <2>4 DEF pop_back
<1>12. CASE clear(c)
  <2>1. Contents(deqQueue) \subseteq Items
    BY ElementOfSeq, LenProperties DEF Contents
  <2>2. << >> \in Seq(Items)
    BY EmptySeq
  <2> QED
    BY <1>12, <2>1, <2>2 DEF clear
<1>13. CASE SpuriousWakeup(c)
  BY <1>13 DEF SpuriousWakeup
<1> QED
  BY <1>1, <1>2, <1>3, <1>4, <1>5, <1>6, <1>7, <1>8, <1>10, <1>11, <1>12, <1>13
  DEF Consumer, Drain

(* Every state of a run has the types.                                     *)
THEOREM AlwaysTyped == Spec => []Typed
<1>1. Typed /\ UNCHANGED vars => Typed'
  BY DEF Typed, TypeOK, CountBelowBound, vars
<1>2. Typed /\ [Next]_vars => Typed'
  BY <1>1, ProducerTyped, ConsumerTyped DEF Next
<1> QED
  BY InitTyped, <1>2, PTL DEF Spec

(* The queue, its mutexes and its threads keep their types, and Update     *)
(* never handles more messages a call than it was told to.                 *)
THEOREM TypeCorrect == Spec => []TypeOK
<1>1. Typed => TypeOK
  BY DEF Typed
<1> QED
  BY AlwaysTyped, <1>1, PTL
-----------------------------------------------------------------------------
(* Who may hold each mutex, by where the thread stands.  A pusher holds    *)
(* muxQueue from the emplace to the return, and muxBlocking inside that.   *)
Locking ==
  /\ \A t \in Producers : pc[t] \in {"emplaced", "notified"} => muxQueue = t
  /\ \A t \in Producers : muxBlocking = t => pc[t] = "notified"
  /\ \A c \in Consumers : muxBlocking = c => pc[c] \in {"locked", "woken"}
  /\ \A c \in cvBlocking : pc[c] = "asleep"

LEMMA InitLocking == Init => Locking
BY ThreadsDisjoint DEF Init, Locking, Threads

(* Producers: only the holder of muxQueue comes to take muxBlocking.       *)
LEMMA ProducerLocking ==
  ASSUME Typed, Locking, NEW t \in Producers, Producer(t)
  PROVE  Locking'
<1> USE ThreadsDisjoint DEF Typed, TypeOK, Locking, Threads, Goto
<1>1. ASSUME NEW item, NEW q, Emplace(t, item, q)
      PROVE  Locking'
  BY <1>1 DEF Emplace
<1>2. CASE push_back(t) \/ push_front(t)
  BY <1>1, <1>2 DEF push_back, push_front
<1>3. CASE notify_one(t)
  BY <1>3 DEF notify_one
<1>4. CASE push_return(t)
  BY <1>4 DEF push_return
<1> QED
  BY <1>2, <1>3, <1>4 DEF Producer, Finish

(* Consumers: muxBlocking is dropped before any other mutex is asked for.  *)
LEMMA ConsumerLocking ==
  ASSUME Typed, Locking, NEW c \in Consumers, Consumer(c)
  PROVE  Locking'
<1> USE ThreadsDisjoint DEF Typed, TypeOK, Locking, Threads, Goto
<1>1. CASE Update(c)
  BY <1>1 DEF Update
<1>2. CASE wait_test(c)
  BY <1>2 DEF wait_test, empty
<1>3. CASE wait_lock(c)
  BY <1>3 DEF wait_lock
<1>4. CASE wait_sleep(c)
  BY <1>4 DEF wait_sleep
<1>5. CASE wait_woken(c)
  BY <1>5 DEF wait_woken
<1>6. CASE wait_again(c)
  BY <1>6 DEF wait_again
<1>7. CASE drain_bound(c)
  BY <1>7 DEF drain_bound
<1>8. CASE drain_test(c)
  BY <1>8 DEF drain_test, empty
<1>9. CASE pop_front(c) \/ pop_back(c)
  BY <1>9 DEF pop_front, pop_back, Take
<1>10. CASE clear(c)
  BY <1>10 DEF clear
<1>11. CASE SpuriousWakeup(c)
  BY <1>11 DEF SpuriousWakeup
<1> QED
  BY <1>1, <1>2, <1>3, <1>4, <1>5, <1>6, <1>7, <1>8, <1>9, <1>10, <1>11
  DEF Consumer, Drain

(* Who holds muxQueue or muxBlocking stands where the code holds it.       *)
THEOREM AlwaysLocking == Spec => []Locking
<1>1. Locking /\ UNCHANGED vars => Locking'
  BY DEF Locking, vars
<1>2. Typed /\ Locking /\ [Next]_vars => Locking'
  BY <1>1, ProducerLocking, ConsumerLocking DEF Next
<1> QED
  BY AlwaysTyped, InitLocking, <1>2, PTL DEF Spec

(* Whatever the operations and however many threads: the two mutexes are   *)
(* taken in one order, so push_back and wait() cannot block each other.    *)
THEOREM LocksOrdered == Spec => []LockOrder
<1>1. Locking => LockOrder
  BY DEF Locking, LockOrder
<1> QED
  BY AlwaysLocking, <1>1, PTL
-----------------------------------------------------------------------------
(* empty() then pop_front() of Update's loop, as two acquisitions of the   *)
(* mutex: with one consumer the deque cannot become empty in between.      *)
THEOREM NeverPopsEmpty == OneConsumer => (Spec => []NoPopOnEmpty)
<1> SUFFICES ASSUME OneConsumer PROVE Spec => []NoPopOnEmpty
  OBVIOUS
<1> USE DEF Goto
<1>1. Init => NoPopOnEmpty
  BY ThreadsDisjoint DEF Init, NoPopOnEmpty, Threads
<1>2. ASSUME Typed, NoPopOnEmpty, NEW t \in Producers, Producer(t)
      PROVE  NoPopOnEmpty'
  <2> USE DEF NoPopOnEmpty, Typed, TypeOK, Threads
  <2>1. CASE push_back(t) \/ push_front(t)
    <3>1. PICK item \in Items : \/ Emplace(t, item, Append(deqQueue, item))
                               \/ Emplace(t, item, <<item>> \o deqQueue)
      BY <2>1 DEF push_back, push_front
    <3>2. Append(deqQueue, item) # << >> /\ <<item>> \o deqQueue # << >>
      <4>1. <<item>> \in Seq(Items) /\ <<item>> # << >>
        OBVIOUS
      <4>2. <<item>> \o deqQueue # << >>
        BY <1>2, <4>1, ConcatEqualIffEmpty
      <4>3. Len(Append(deqQueue, item)) # 0
        BY <1>2, LenProperties
      <4>4. Append(deqQueue, item) # << >>
        BY <4>3, EmptySeq, Zenon
      <4> QED
        BY <4>2, <4>4
    <3> QED
      BY <3>1, <3>2 DEF Emplace
  <2>2. CASE Finish(t)
    BY <1>2, <2>2, ThreadsDisjoint DEF Finish, notify_one, push_return
  <2> QED
    BY <1>2, <2>1, <2>2 DEF Producer
<1>3. ASSUME Typed, NoPopOnEmpty, NEW c \in Consumers, Consumer(c)
      PROVE  NoPopOnEmpty'
  <2> USE DEF NoPopOnEmpty, Typed, TypeOK, Threads
  <2>1. \A d \in Consumers : d = c
    BY DEF OneConsumer
  <2>2. pc'[c] = "pop" => deqQueue' # << >>
    BY <1>3 DEF Consumer, Drain, Update, wait_test, empty, wait_lock, wait_sleep, wait_woken,
       wait_again, drain_bound, drain_test, pop_front, pop_back, Take, clear,
       SpuriousWakeup
  <2> QED
    BY <2>1, <2>2
<1>4. NoPopOnEmpty /\ UNCHANGED vars => NoPopOnEmpty'
  BY DEF NoPopOnEmpty, vars
<1>5. Typed /\ NoPopOnEmpty /\ [Next]_vars => NoPopOnEmpty'
  BY <1>2, <1>3, <1>4 DEF Next
<1> QED
  BY AlwaysTyped, <1>1, <1>5, PTL DEF Spec
-----------------------------------------------------------------------------
(* Moving the front item from one sequence to the end of another.          *)
LEMMA MoveHead ==
  ASSUME NEW S, NEW done \in Seq(S), NEW todo \in Seq(S), todo # << >>
  PROVE  Append(done, Head(todo)) \o Tail(todo) = done \o todo
<1> DEFINE moved == Append(done, Head(todo))
<1>1. /\ Head(todo) \in S
      /\ Tail(todo) \in Seq(S)
      /\ Len(Tail(todo)) = Len(todo) - 1
      /\ \A i \in 1 .. Len(Tail(todo)) : Tail(todo)[i] = todo[i + 1]
  BY HeadTailProperties
<1>2. /\ moved \in Seq(S)
      /\ Len(moved) = Len(done) + 1
      /\ \A i \in 1 .. Len(done) : moved[i] = done[i]
      /\ moved[Len(done) + 1] = todo[1]
  BY <1>1
<1> HIDE DEF moved
<1>3. /\ moved \o Tail(todo) \in Seq(S)
      /\ Len(moved \o Tail(todo)) = Len(moved) + Len(Tail(todo))
      /\ \A i \in 1 .. Len(moved) + Len(Tail(todo)) : (moved \o Tail(todo))[i] =
           IF i <= Len(moved) THEN moved[i] ELSE Tail(todo)[i - Len(moved)]
  BY <1>1, <1>2, ConcatProperties
<1>4. /\ done \o todo \in Seq(S)
      /\ Len(done \o todo) = Len(done) + Len(todo)
      /\ \A i \in 1 .. Len(done) + Len(todo) : (done \o todo)[i] =
           IF i <= Len(done) THEN done[i] ELSE todo[i - Len(done)]
  BY ConcatProperties
<1>5. Len(done) \in Nat /\ Len(todo) \in Nat \ {0}
  BY EmptySeq, LenProperties
<1>6. ASSUME NEW i \in 1 .. Len(done) + Len(todo)
      PROVE  (moved \o Tail(todo))[i] = (done \o todo)[i]
  <2>0. i \in Int /\ (i <= Len(done) \/ i = Len(done) + 1 \/ i > Len(done) + 1)
    BY <1>5
  <2>1. CASE i <= Len(done)
    BY <1>1, <1>2, <1>3, <1>4, <1>5, <2>1
  <2>2. CASE i = Len(done) + 1
    BY <1>1, <1>2, <1>3, <1>4, <1>5, <2>2
  <2>3. CASE i > Len(done) + 1
    BY <1>1, <1>2, <1>3, <1>4, <1>5, <2>3
  <2> QED
    BY <2>0, <2>1, <2>2, <2>3
<1> QED
  BY <1>1, <1>2, <1>3, <1>4, <1>5, <1>6, SeqEqual

(* The same for a push: what is added at the end stays at the end.         *)
LEMMA AppendToSecond ==
  ASSUME NEW S, NEW done \in Seq(S), NEW todo \in Seq(S), NEW item \in S
  PROVE  done \o Append(todo, item) = Append(done \o todo, item)
<1>1. <<item>> \in Seq(S)
  OBVIOUS
<1>2. Append(todo, item) = todo \o <<item>>
      /\ Append(done \o todo, item) = (done \o todo) \o <<item>>
  BY <1>1, ConcatProperties
<1> QED
  BY <1>1, <1>2, ConcatAssociative

(* A program does not change what it makes of its queue.                   *)
LEMMA StepKeepsUse ==
  ASSUME [Next]_vars
  PROVE  UNCHANGED use
<1>1. ASSUME NEW t \in Producers, Producer(t) PROVE UNCHANGED use
  BY <1>1 DEF Producer, Finish, push_back, push_front, Emplace, notify_one, push_return
<1>2. ASSUME NEW c \in Consumers, Consumer(c) PROVE UNCHANGED use
  BY <1>2 DEF Consumer, Drain, Update, wait_test, wait_lock, wait_sleep, wait_woken,
     wait_again, drain_bound, drain_test, pop_front, pop_back, Take, clear, SpuriousWakeup
<1> QED
  BY <1>1, <1>2 DEF Next, vars

(* What a program that uses the queue first in, first out does besides its *)
(* pushes and pops leaves the messages where they are.                     *)
LEMMA OtherProducerSteps ==
  ASSUME FirstInFirstOut, NEW t \in Producers, Producer(t), ~push_back(t)
  PROVE  UNCHANGED <<deqQueue, pushed, handled>>
BY DEF Producer, Finish, push_front, notify_one, push_return, FirstInFirstOut

LEMMA OtherConsumerSteps ==
  ASSUME FirstInFirstOut, NEW c \in Consumers, Consumer(c), ~pop_front(c)
  PROVE  UNCHANGED <<deqQueue, pushed, handled>>
BY DEF Consumer, Drain, Update, wait_test, empty, wait_lock, wait_sleep, wait_woken,
   wait_again, drain_bound, drain_test, pop_back, clear, SpuriousWakeup, FirstInFirstOut

(* With the operations the program uses, messages are handled once each in *)
(* the order they were pushed, however pushes and pops interleave.         *)
LEMMA StepHandlesInOrder ==
  ASSUME Typed, HandledInOrder, [Next]_vars
  PROVE  HandledInOrder'
<1>0. UNCHANGED use
  BY StepKeepsUse
<1> SUFFICES ASSUME FirstInFirstOut PROVE (handled \o deqQueue = pushed)'
  BY <1>0 DEF HandledInOrder, FirstInFirstOut, PushOps, PopOps
<1> USE DEF HandledInOrder, Typed, TypeOK
<1>1. CASE UNCHANGED <<deqQueue, pushed, handled>>
  BY <1>1
<1>2. ASSUME NEW t \in Producers, push_back(t)
      PROVE  (handled \o deqQueue = pushed)'
  BY <1>2, AppendToSecond DEF push_back, Emplace
<1>3. ASSUME NEW c \in Consumers, pop_front(c)
      PROVE  (handled \o deqQueue = pushed)'
  BY <1>3, MoveHead DEF pop_front, Take
<1>4. ASSUME NEW t \in Producers, Producer(t), ~push_back(t)
      PROVE  UNCHANGED <<deqQueue, pushed, handled>>
  BY <1>4, OtherProducerSteps
<1>5. ASSUME NEW c \in Consumers, Consumer(c), ~pop_front(c)
      PROVE  UNCHANGED <<deqQueue, pushed, handled>>
  BY <1>5, OtherConsumerSteps
<1> QED
  BY <1>1, <1>2, <1>3, <1>4, <1>5 DEF Next, vars

(* net_tsqueue.h: a program that pushes at the back and pops at the front, *)
(* as CustomServer does, is handed each message once, in push order.       *)
THEOREM AlwaysInOrder == Spec => []HandledInOrder
<1>1. Init => HandledInOrder
  BY DEF Init, HandledInOrder
<1>2. Typed /\ HandledInOrder /\ [Next]_vars => HandledInOrder'
  BY StepHandlesInOrder
<1> QED
  BY AlwaysTyped, <1>1, <1>2, PTL DEF Spec
-----------------------------------------------------------------------------
(* A step of the queue is a step of the channel or leaves it alone: a push *)
(* sends, a pop receives what the channel would deliver next.              *)
LEMMA StepRefines ==
  ASSUME Typed, HandledInOrder, [Next]_vars
  PROVE  [Pipe!Next]_(Pipe!vars)
<1>0. UNCHANGED use
  BY StepKeepsUse
<1>1. CASE ~FirstInFirstOut
  BY <1>0, <1>1 DEF Pipe!vars, FirstInFirstOut, PushOps, PopOps
<1>2. CASE FirstInFirstOut
  <2> USE <1>2 DEF Typed, TypeOK, HandledInOrder
  <2>0. FirstInFirstOut'
    BY <1>0 DEF FirstInFirstOut, PushOps, PopOps
  <2>1. ASSUME NEW t \in Producers, push_back(t)
        PROVE  Pipe!Send
    BY <2>0, <2>1 DEF push_back, Emplace, Pipe!Send
  <2>2. ASSUME NEW c \in Consumers, pop_front(c)
        PROVE  Pipe!Receive
    <3>1. /\ deqQueue # << >>
          /\ handled' = Append(handled, Head(deqQueue))
          /\ pushed' = pushed
      BY <2>2 DEF pop_front, Take
    <3>2. Len(handled) \in Nat /\ Len(deqQueue) \in Nat \ {0}
      BY <3>1, EmptySeq, LenProperties
    <3>3. Len(pushed) = Len(handled) + Len(deqQueue)
      BY ConcatProperties
    <3>4. pushed[Len(handled) + 1] = deqQueue[1]
      BY <3>2, ConcatProperties
    <3> QED
      BY <2>0, <3>1, <3>2, <3>3, <3>4 DEF Pipe!Receive
  <2>3. ASSUME UNCHANGED <<deqQueue, pushed, handled>>
        PROVE  UNCHANGED Pipe!vars
    BY <2>0, <2>3 DEF Pipe!vars
  <2>4. ASSUME NEW t \in Producers, Producer(t), ~push_back(t)
        PROVE  UNCHANGED <<deqQueue, pushed, handled>>
    BY <2>4, OtherProducerSteps
  <2>5. ASSUME NEW c \in Consumers, Consumer(c), ~pop_front(c)
        PROVE  UNCHANGED <<deqQueue, pushed, handled>>
    BY <2>5, OtherConsumerSteps
  <2>6. CASE UNCHANGED vars
    BY <2>3, <2>6 DEF vars
  <2> QED
    BY <2>1, <2>2, <2>3, <2>4, <2>5, <2>6 DEF Next, Pipe!Next
<1> QED
  BY <1>1, <1>2

(* For such a program the queue implements the message channel.            *)
THEOREM QueueIsChannel == Spec => IsChannel
<1>1. Init => Pipe!Init
  BY DEF Init, Pipe!Init
<1>2. Typed /\ HandledInOrder /\ [Next]_vars => [Pipe!Next]_(Pipe!vars)
  BY StepRefines
<1> QED
  BY <1>1, <1>2, AlwaysTyped, AlwaysInOrder, PTL DEF Spec, Pipe!Spec, IsChannel
-----------------------------------------------------------------------------
(* Items in sequences: with no item twice, a sequence is as long as the    *)
(* set of its items is large.                                              *)
Once(s) == \A i, j \in DOMAIN s : s[i] = s[j] => i = j

LEMMA ContentsOfOne ==
  ASSUME NEW S, NEW x \in S
  PROVE  /\ <<x>> \in Seq(S) /\ Len(<<x>>) = 1
         /\ Contents(<<x>>) = {x} /\ Once(<<x>>)
<1>1. DOMAIN <<x>> = 1 .. 1 /\ <<x>>[1] = x /\ \A i \in 1 .. 1 : i = 1
  OBVIOUS
<1> QED
  BY <1>1 DEF Contents, Once

LEMMA ContentsOfConcat ==
  ASSUME NEW S, NEW s \in Seq(S), NEW t \in Seq(S)
  PROVE  /\ s \o t \in Seq(S) /\ Len(s \o t) = Len(s) + Len(t)
         /\ Contents(s \o t) = Contents(s) \cup Contents(t)
         /\ Once(s \o t) <=> Once(s) /\ Once(t) /\ Contents(s) \cap Contents(t) = {}
<1> DEFINE m == Len(s)
           n == Len(t)
           u == s \o t
<1>1. /\ u \in Seq(S) /\ Len(u) = m + n /\ m \in Nat /\ n \in Nat
      /\ \A i \in 1 .. m + n : u[i] = IF i <= m THEN s[i] ELSE t[i - m]
  BY ConcatProperties, LenProperties
<1>2. DOMAIN s = 1 .. m /\ DOMAIN t = 1 .. n
  BY LenProperties
<1> HIDE DEF u, m, n
<1>3. DOMAIN u = 1 .. m + n
  BY <1>1, LenProperties
<1>4. \A i \in 1 .. m : i \in 1 .. m + n /\ u[i] = s[i]
  BY <1>1
<1>5. ASSUME NEW i \in 1 .. n PROVE i + m \in 1 .. m + n /\ u[i + m] = t[i]
  <2>1. i + m \in 1 .. m + n /\ ~(i + m <= m) /\ i + m - m = i
    BY <1>1
  <2> QED
    BY <1>1, <2>1
<1>6. ASSUME NEW i \in 1 .. m + n
      PROVE  i \in 1 .. m \/ \E j \in 1 .. n : i = j + m
  <2>1. i \in 1 .. m \/ (i - m \in 1 .. n /\ i = (i - m) + m)
    BY <1>1
  <2> QED
    BY <2>1
<1>7. Contents(u) = Contents(s) \cup Contents(t)
  BY <1>2, <1>3, <1>4, <1>5, <1>6 DEF Contents
<1>8. ASSUME Once(u)
      PROVE  Once(s) /\ Once(t) /\ Contents(s) \cap Contents(t) = {}
  <2>1. Once(s)
    BY <1>2, <1>3, <1>4, <1>8 DEF Once
  <2>2. Once(t)
    <3> SUFFICES ASSUME NEW i \in 1 .. n, NEW j \in 1 .. n, t[i] = t[j] PROVE i = j
      BY <1>2 DEF Once
    <3>1. i + m = j + m
      BY <1>3, <1>5, <1>8 DEF Once
    <3> QED
      BY <1>1, <3>1
  <2>3. ASSUME NEW i \in 1 .. m, NEW j \in 1 .. n PROVE s[i] # t[j]
    <3>1. i # j + m
      BY <1>1
    <3> QED
      BY <1>3, <1>4, <1>5, <1>8, <3>1 DEF Once
  <2> QED
    BY <1>2, <2>1, <2>2, <2>3 DEF Contents
<1>9. ASSUME Once(s), Once(t), Contents(s) \cap Contents(t) = {}
      PROVE  Once(u)
  <2> SUFFICES ASSUME NEW i \in 1 .. m + n, NEW j \in 1 .. m + n, u[i] = u[j] PROVE i = j
    BY <1>3 DEF Once
  <2>1. \A k \in 1 .. m, l \in 1 .. n : s[k] # t[l]
    BY <1>2, <1>9 DEF Contents
  <2>2. CASE i \in 1 .. m /\ j \in 1 .. m
    BY <1>2, <1>4, <1>9, <2>2 DEF Once
  <2>3. CASE i \in 1 .. m /\ ~(j \in 1 .. m)
    BY <1>4, <1>5, <1>6, <2>1, <2>3
  <2>4. CASE ~(i \in 1 .. m) /\ j \in 1 .. m
    BY <1>4, <1>5, <1>6, <2>1, <2>4
  <2>5. CASE ~(i \in 1 .. m) /\ ~(j \in 1 .. m)
    <3>1. PICK k \in 1 .. n, l \in 1 .. n : i = k + m /\ j = l + m
      BY <1>6, <2>5
    <3>2. t[k] = t[l]
      BY <1>5, <3>1
    <3> QED
      BY <1>2, <1>9, <3>1, <3>2 DEF Once
  <2> QED
    BY <2>2, <2>3, <2>4, <2>5
<1> QED
  BY <1>1, <1>7, <1>8, <1>9 DEF u, m, n

LEMMA ContentsCounted ==
  ASSUME NEW S, NEW s \in Seq(S), Once(s)
  PROVE  IsFiniteSet(Contents(s)) /\ Cardinality(Contents(s)) = Len(s)
<1> DEFINE n == Len(s)
           T == Contents(s)
<1>1. n \in Nat /\ DOMAIN s = 1 .. n /\ s \in [1 .. n -> S]
  BY LenProperties
<1>2. T = {s[i] : i \in 1 .. n}
  BY <1>1 DEF Contents
<1> HIDE DEF n, T
<1>3. s \in [1 .. n -> T]
  BY <1>1, <1>2
<1>4. s \in Bijection(1 .. n, T)
  BY <1>1, <1>2, <1>3 DEF Once, Bijection, Injection, IsInjective, Surjection
<1>5. ExistsBijection(1 .. n, T)
  BY <1>4 DEF ExistsBijection
<1>6. IsFiniteSet(1 .. n) /\ Cardinality(1 .. n) = n
  <2>1. 1 \in Int /\ n \in Int
    BY <1>1
  <2>2. IsFiniteSet(1 .. n) /\ Cardinality(1 .. n) = IF 1 > n THEN 0 ELSE n - 1 + 1
    BY <2>1, FS_Interval
  <2>3. (IF 1 > n THEN 0 ELSE n - 1 + 1) = n
    BY <1>1
  <2> QED
    BY <2>2, <2>3
<1> QED
  BY <1>5, <1>6, FS_Bijection DEF n, T

(* The ends of a sequence.                                                 *)
LEMMA SequenceEnds ==
  ASSUME NEW S, NEW s \in Seq(S), s # << >>
  PROVE  /\ Head(s) \in S /\ Tail(s) \in Seq(S) /\ s = <<Head(s)>> \o Tail(s)
         /\ s[Len(s)] \in S /\ SubSeq(s, 1, Len(s) - 1) \in Seq(S)
         /\ s = SubSeq(s, 1, Len(s) - 1) \o <<s[Len(s)]>>
<1>1. Len(s) \in Nat \ {0}
  BY EmptySeq, LenProperties
<1>2. 1 \in 1 .. Len(s) /\ Len(s) \in 1 .. Len(s) /\ 1 + 1 = 2
  BY <1>1
<1>3. SubSeq(s, 1, Len(s)) = s
  BY SubSeqFull
<1>4. SubSeq(s, 1, Len(s)) = <<s[1]>> \o SubSeq(s, 1 + 1, Len(s))
  BY <1>2, SubSeqRecursiveFirst
<1>5. SubSeq(s, 1, Len(s)) = SubSeq(s, 1, Len(s) - 1) \o <<s[Len(s)]>>
  BY <1>2, SubSeqRecursiveSecond
<1>6. Tail(s) = SubSeq(s, 2, Len(s)) /\ Tail(s) \in Seq(S)
  BY TailIsSubSeq, HeadTailProperties
<1>7. \A i \in 1 .. Len(s) : s[i] \in S
  BY ElementOfSeq
<1>8. SubSeq(s, 1, Len(s) - 1) \in Seq(S)
  BY <1>1, <1>7, SubSeqProperties
<1>9. Head(s) = s[1]
  OBVIOUS
<1> QED
  BY <1>2, <1>3, <1>4, <1>5, <1>6, <1>7, <1>8, <1>9

(* A push at either end, and a pop from either end.                        *)
LEMMA ItemAdded ==
  ASSUME NEW S, NEW s \in Seq(S), NEW x \in S, NEW d,
         d = Append(s, x) \/ d = <<x>> \o s
  PROVE  /\ d \in Seq(S) /\ Len(d) = Len(s) + 1
         /\ Contents(d) = Contents(s) \cup {x}
         /\ Once(d) <=> Once(s) /\ x \notin Contents(s)
<1>1. <<x>> \in Seq(S) /\ Len(<<x>>) = 1 /\ Contents(<<x>>) = {x} /\ Once(<<x>>)
  BY ContentsOfOne
<1>2. CASE d = Append(s, x)
  <2>1. d = s \o <<x>>
    BY <1>2, AppendIsConcat
  <2>2. /\ s \o <<x>> \in Seq(S) /\ Len(s \o <<x>>) = Len(s) + 1
        /\ Contents(s \o <<x>>) = Contents(s) \cup {x}
        /\ Once(s \o <<x>>) <=> Once(s) /\ Contents(s) \cap {x} = {}
    BY <1>1, ContentsOfConcat
  <2> QED
    BY <2>1, <2>2
<1>3. CASE d = <<x>> \o s
  <2>1. /\ <<x>> \o s \in Seq(S) /\ Len(<<x>> \o s) = 1 + Len(s)
        /\ Contents(<<x>> \o s) = {x} \cup Contents(s)
        /\ Once(<<x>> \o s) <=> Once(s) /\ {x} \cap Contents(s) = {}
    <3> DEFINE o == <<x>>
    <3>1. o \in Seq(S) /\ Len(o) = 1 /\ Contents(o) = {x} /\ Once(o)
      BY <1>1
    <3> HIDE DEF o
    <3>2. /\ o \o s \in Seq(S) /\ Len(o \o s) = Len(o) + Len(s)
          /\ Contents(o \o s) = Contents(o) \cup Contents(s)
          /\ Once(o \o s) <=> Once(o) /\ Once(s) /\ Contents(o) \cap Contents(s) = {}
      BY <3>1, ContentsOfConcat
    <3>3. /\ o \o s \in Seq(S) /\ Len(o \o s) = 1 + Len(s)
          /\ Contents(o \o s) = {x} \cup Contents(s)
          /\ Once(o \o s) <=> Once(s) /\ {x} \cap Contents(s) = {}
      BY <3>1, <3>2
    <3> QED
      BY <3>3 DEF o
  <2>2. Len(s) \in Nat
    BY LenProperties
  <2>3. Len(d) = Len(s) + 1
    BY <1>3, <2>1, <2>2
  <2> QED
    BY <1>3, <2>1, <2>3
<1> QED
  BY <1>2, <1>3

LEMMA ItemRemoved ==
  ASSUME NEW S, NEW s \in Seq(S), s # << >>, NEW x, NEW d,
         \/ x = Head(s) /\ d = Tail(s)
         \/ x = s[Len(s)] /\ d = SubSeq(s, 1, Len(s) - 1)
  PROVE  /\ x \in S /\ d \in Seq(S) /\ Len(s) = Len(d) + 1
         /\ Contents(s) = Contents(d) \cup {x}
         /\ Once(s) => Once(d) /\ x \notin Contents(d)
<1>1. x \in S /\ d \in Seq(S) /\ (s = <<x>> \o d \/ s = d \o <<x>>)
  BY SequenceEnds
<1>2. d \o <<x>> = Append(d, x)
  BY <1>1, AppendIsConcat
<1> QED
  BY <1>1, <1>2, ItemAdded
-----------------------------------------------------------------------------
(* Conservation counts, so it is kept only where nothing is counted twice: *)
(* an item in the deque is there once and was not cleared before.          *)
Separate == /\ Once(deqQueue)
            /\ Contents(deqQueue) \cap dropped = {}
            /\ IsFiniteSet(dropped)

Conserved == Separate /\ Conservation

LEMMA InitConserved == Init => Conserved
<1> SUFFICES ASSUME Init PROVE Conserved
  OBVIOUS
<1>1. deqQueue = << >> /\ pushed = << >> /\ handled = << >> /\ dropped = {}
  BY DEF Init
<1>2. Contents(<< >>) = {} /\ Once(<< >>)
  BY DEF Contents, Once
<1>3. Len(<< >>) = 0 /\ Cardinality({}) = 0 /\ IsFiniteSet({})
  BY FS_EmptySet
<1> QED
  BY <1>1, <1>2, <1>3 DEF Conserved, Separate, Conservation

LEMMA PushConserves ==
  ASSUME Typed, Conserved, NEW t \in Producers, push_back(t) \/ push_front(t)
  PROVE  Conserved'
<1>1. PICK item \in Items \ Contents(pushed) : \/ Emplace(t, item, Append(deqQueue, item))
                                             \/ Emplace(t, item, <<item>> \o deqQueue)
  BY DEF push_back, push_front
<1>2. /\ deqQueue' = Append(deqQueue, item) \/ deqQueue' = <<item>> \o deqQueue
      /\ pushed' = Append(pushed, item)
      /\ handled' = handled /\ dropped' = dropped
  BY <1>1 DEF Emplace
<1>3. deqQueue \in Seq(Items) /\ pushed \in Seq(Items) /\ handled \in Seq(Items)
  BY DEF Typed, TypeOK
<1>4. item \notin Contents(deqQueue) /\ item \notin dropped
  BY DEF Conserved, Conservation
<1>5. /\ Len(deqQueue') = Len(deqQueue) + 1
      /\ Contents(deqQueue)' = Contents(deqQueue) \cup {item}
      /\ Once(deqQueue)' <=> Once(deqQueue) /\ item \notin Contents(deqQueue)
  <2> DEFINE d == deqQueue'
  <2>1. d = Append(deqQueue, item) \/ d = <<item>> \o deqQueue
    BY <1>2
  <2> HIDE DEF d
  <2>2. /\ Len(d) = Len(deqQueue) + 1
        /\ Contents(d) = Contents(deqQueue) \cup {item}
        /\ Once(d) <=> Once(deqQueue) /\ item \notin Contents(deqQueue)
    BY <1>3, <2>1, ItemAdded
  <2> QED
    BY <2>2 DEF d, Contents, Once
<1>6. /\ Len(pushed') = Len(pushed) + 1
      /\ Contents(pushed)' = Contents(pushed) \cup {item}
  <2> DEFINE d == Append(pushed, item)
  <2>1. item \in Items /\ d = Append(pushed, item)
    OBVIOUS
  <2> HIDE DEF d
  <2>2. /\ Len(d) = Len(pushed) + 1
        /\ Contents(d) = Contents(pushed) \cup {item}
    <3>1. \A e : e = Append(pushed, item) \/ e = <<item>> \o pushed =>
              Len(e) = Len(pushed) + 1 /\ Contents(e) = Contents(pushed) \cup {item}
      BY <1>3, <2>1, ItemAdded
    <3> QED
      BY <2>1, <3>1
  <2> QED
    BY <1>2, <2>2 DEF d, Contents
<1>7. Separate'
  BY <1>2, <1>4, <1>5 DEF Conserved, Separate
<1>8. Contents(handled)' = Contents(handled)
  BY <1>2 DEF Contents
<1>9. Len(pushed') = Len(deqQueue') + Len(handled') + Cardinality(dropped')
  <2>1. Len(deqQueue) \in Nat /\ Len(handled) \in Nat /\ Cardinality(dropped) \in Nat
    BY <1>3, LenProperties, FS_CardinalityType DEF Conserved, Separate
  <2>2. Len(pushed) = Len(deqQueue) + Len(handled) + Cardinality(dropped)
    BY DEF Conserved, Conservation
  <2>3. Len(handled') = Len(handled) /\ Cardinality(dropped') = Cardinality(dropped)
    BY <1>2
  <2> QED
    BY <1>5, <1>6, <2>1, <2>2, <2>3
<1>10. Contents(pushed)' = Contents(deqQueue)' \cup Contents(handled)' \cup dropped'
  BY <1>2, <1>5, <1>6, <1>8 DEF Conserved, Conservation
<1> QED
  BY <1>7, <1>9, <1>10 DEF Conserved, Conservation

LEMMA PopConserves ==
  ASSUME Typed, Conserved, NEW c \in Consumers, pop_front(c) \/ pop_back(c)
  PROVE  Conserved'
<1>1. PICK item : /\ handled' = Append(handled, item)
                  /\ deqQueue # << >>
                  /\ \/ item = Head(deqQueue) /\ deqQueue' = Tail(deqQueue)
                     \/ /\ item = deqQueue[Len(deqQueue)]
                        /\ deqQueue' = SubSeq(deqQueue, 1, Len(deqQueue) - 1)
                  /\ pushed' = pushed /\ dropped' = dropped
  BY DEF pop_front, pop_back, Take
<1>2. deqQueue \in Seq(Items) /\ handled \in Seq(Items)
  BY DEF Typed, TypeOK
<1>3. /\ item \in Items /\ deqQueue' \in Seq(Items)
      /\ Len(deqQueue) = Len(deqQueue') + 1
      /\ Contents(deqQueue) = Contents(deqQueue)' \cup {item}
      /\ Once(deqQueue) => Once(deqQueue)'
  <2> DEFINE d == deqQueue'
  <2>1. \/ item = Head(deqQueue) /\ d = Tail(deqQueue)
        \/ item = deqQueue[Len(deqQueue)] /\ d = SubSeq(deqQueue, 1, Len(deqQueue) - 1)
    BY <1>1
  <2> HIDE DEF d
  <2>2. /\ item \in Items /\ d \in Seq(Items) /\ Len(deqQueue) = Len(d) + 1
        /\ Contents(deqQueue) = Contents(d) \cup {item}
        /\ Once(deqQueue) => Once(d)
    BY <1>1, <1>2, <2>1, ItemRemoved
  <2> QED
    BY <2>2 DEF d, Contents, Once
<1>4. /\ Len(handled') = Len(handled) + 1
      /\ Contents(handled)' = Contents(handled) \cup {item}
  <2> DEFINE d == Append(handled, item)
  <2>1. item \in Items /\ d = Append(handled, item)
    BY <1>3
  <2> HIDE DEF d
  <2>2. /\ Len(d) = Len(handled) + 1
        /\ Contents(d) = Contents(handled) \cup {item}
    <3>1. \A e : e = Append(handled, item) \/ e = <<item>> \o handled =>
              Len(e) = Len(handled) + 1 /\ Contents(e) = Contents(handled) \cup {item}
      BY <1>2, <2>1, ItemAdded
    <3> QED
      BY <2>1, <3>1
  <2> QED
    BY <1>1, <2>2 DEF d, Contents
<1>5. Separate'
  BY <1>1, <1>3 DEF Conserved, Separate
<1>6. Contents(pushed)' = Contents(pushed)
  BY <1>1 DEF Contents
<1>7. Contents(pushed)' = Contents(deqQueue)' \cup Contents(handled)' \cup dropped'
  BY <1>1, <1>3, <1>4, <1>6 DEF Conserved, Conservation
<1>8. Len(pushed') = Len(deqQueue') + Len(handled') + Cardinality(dropped')
  <2>1. Len(deqQueue') \in Nat /\ Len(handled) \in Nat /\ Cardinality(dropped) \in Nat
    BY <1>2, <1>3, LenProperties, FS_CardinalityType DEF Conserved, Separate
  <2>2. Len(pushed) = Len(deqQueue) + Len(handled) + Cardinality(dropped)
    BY DEF Conserved, Conservation
  <2>3. Len(pushed') = Len(pushed) /\ Cardinality(dropped') = Cardinality(dropped)
    BY <1>1
  <2> QED
    BY <1>3, <1>4, <2>1, <2>2, <2>3
<1> QED
  BY <1>5, <1>7, <1>8 DEF Conserved, Conservation

LEMMA ClearConserves ==
  ASSUME Typed, Conserved, NEW c \in Consumers, clear(c)
  PROVE  Conserved'
<1>1. /\ deqQueue' = << >> /\ dropped' = dropped \cup Contents(deqQueue)
      /\ pushed' = pushed /\ handled' = handled
  BY DEF clear
<1>2. deqQueue \in Seq(Items) /\ handled \in Seq(Items)
  BY DEF Typed, TypeOK
<1>3. Contents(deqQueue)' = {} /\ Once(deqQueue)' /\ Len(deqQueue') = 0
  BY <1>1 DEF Contents, Once
<1>4. /\ IsFiniteSet(Contents(deqQueue)) /\ Cardinality(Contents(deqQueue)) = Len(deqQueue)
  BY <1>2, ContentsCounted DEF Conserved, Separate
<1>5. IsFiniteSet(dropped) /\ dropped \cap Contents(deqQueue) = {}
  BY DEF Conserved, Separate
<1>6. /\ IsFiniteSet(dropped \cup Contents(deqQueue))
      /\ Cardinality(dropped \cup Contents(deqQueue))
           = Cardinality(dropped) + Cardinality(Contents(deqQueue)) - Cardinality({})
  BY <1>4, <1>5, FS_Union
<1>7. Separate'
  BY <1>1, <1>3, <1>6 DEF Separate
<1>8. Contents(pushed)' = Contents(pushed) /\ Contents(handled)' = Contents(handled)
  BY <1>1 DEF Contents
<1>9. Contents(pushed)' = Contents(deqQueue)' \cup Contents(handled)' \cup dropped'
  BY <1>1, <1>3, <1>8 DEF Conserved, Conservation
<1>10. Len(pushed') = Len(deqQueue') + Len(handled') + Cardinality(dropped')
  <2>1. Len(deqQueue) \in Nat /\ Len(handled) \in Nat /\ Cardinality(dropped) \in Nat
    BY <1>2, <1>5, LenProperties, FS_CardinalityType
  <2>2. Len(pushed) = Len(deqQueue) + Len(handled) + Cardinality(dropped)
    BY DEF Conserved, Conservation
  <2>3. Cardinality(dropped') = Cardinality(dropped) + Len(deqQueue)
    BY <1>1, <1>4, <1>6, <2>1, FS_EmptySet
  <2>4. Len(pushed') = Len(pushed) /\ Len(handled') = Len(handled)
    BY <1>1
  <2> QED
    BY <1>3, <2>1, <2>2, <2>3, <2>4
<1> QED
  BY <1>7, <1>9, <1>10 DEF Conserved, Conservation

(* Every item pushed is queued, handled or cleared, in one place only,     *)
(* whatever the threads, the operations they use and the way they          *)
(* interleave, spurious wakeups included.                                  *)
THEOREM NothingLost == Spec => []Conservation
<1>1. ASSUME Typed, Conserved, UNCHANGED <<deqQueue, pushed, handled, dropped>>
      PROVE  Conserved'
  BY <1>1 DEF Conserved, Separate, Conservation, Contents, Once
<1>2. ASSUME NEW t \in Producers, Producer(t), ~(push_back(t) \/ push_front(t))
      PROVE  UNCHANGED <<deqQueue, pushed, handled, dropped>>
  BY <1>2 DEF Producer, Finish, notify_one, push_return
<1>3. ASSUME NEW c \in Consumers, Consumer(c), ~(pop_front(c) \/ pop_back(c)), ~clear(c)
      PROVE  UNCHANGED <<deqQueue, pushed, handled, dropped>>
  BY <1>3 DEF Consumer, Drain, Update, wait_test, wait_lock, wait_sleep, wait_woken,
     wait_again, drain_bound, drain_test, SpuriousWakeup
<1>4. UNCHANGED vars => UNCHANGED <<deqQueue, pushed, handled, dropped>>
  BY DEF vars
<1>5. Typed /\ Conserved /\ [Next]_vars => Conserved'
  BY <1>1, <1>2, <1>3, <1>4, PushConserves, PopConserves, ClearConserves DEF Next
<1>6. Conserved => Conservation
  BY DEF Conserved
<1> QED
  BY AlwaysTyped, InitConserved, <1>5, <1>6, PTL DEF Spec
=============================================================================
