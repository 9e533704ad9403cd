------------------------------ MODULE TSQueue ------------------------------
(***************************************************************************)
(* tsqueue<T> (NetCommon/net_tsqueue.h) together with the loop that drains *)
(* it, server_interface::Update (NetCommon/net_server.h).  A thread is     *)
(* between two lock operations in every state: one action is what a thread *)
(* does from one acquisition or release of muxQueue or muxBlocking to the  *)
(* next.  Data guarded by a mutex is only touched by its holder, so        *)
(* acquiring muxQueue and editing deqQueue is one action.                  *)
(*                                                                         *)
(* CustomServer drains with bWait = TRUE and nMaxMessages = size_t(-1),    *)
(* uses push_back and pop_front alone and has one thread for each.  The    *)
(* loop of SimpleClient, which stops when its socket closes, is in Client. *)
(***************************************************************************)
EXTENDS Integers, Sequences, FiniteSets

CONSTANTS Producers,     \* threads that push: the asio thread
          Consumers,     \* threads that drain: the program's main thread
          Items,         \* the messages; each is pushed at most once
          None,          \* no thread: a free mutex
          Uses,          \* what a program may make of its queue: the pushes
                         \* and removals it calls, Update's second argument
          nMaxMessages   \* Update's first argument

Threads == Producers \cup Consumers

ASSUME TSQueueAssumption ==
  /\ Producers \cap Consumers = {}
  /\ None \notin Threads
  /\ Uses \subseteq [push : SUBSET {"push_back", "push_front"},
                     pop : SUBSET {"pop_front", "pop_back", "clear"},
                     bWait : BOOLEAN]
  /\ nMaxMessages \in Nat \ {0}

VARIABLES deqQueue,        \* the deque, front first
          muxQueue,        \* the thread that holds muxQueue, or None
          muxBlocking,     \* the thread that holds muxBlocking, or None
          cvBlocking,      \* the threads asleep in cvBlocking.wait
          pc,              \* where each thread stands
          nMessagesCount,  \* Update's counter, per consumer
          pushed,          \* history: every item pushed, in emplace order
          handled,         \* history: every item popped and given to OnMessage
          dropped,         \* history: the items removed by clear()
          use              \* which of Uses the program is; never changes

vars == <<deqQueue, muxQueue, muxBlocking, cvBlocking, pc, nMessagesCount,
          pushed, handled, dropped, use>>

Init == /\ deqQueue = << >>
        /\ muxQueue = None
        /\ muxBlocking = None
        /\ cvBlocking = {}
        /\ pc = [t \in Threads |-> IF t \in Producers THEN "idle" ELSE "update"]
        /\ nMessagesCount = [c \in Consumers |-> 0]
        /\ pushed = << >>
        /\ handled = << >>
        /\ dropped = {}
        /\ use \in Uses

PushOps == use.push
PopOps == use.pop
bWait == use.bWait

(* What CustomServer uses: a message goes in at the back, out at the front.*)
FirstInFirstOut == PushOps = {"push_back"} /\ PopOps = {"pop_front"}

Goto(t, label) == pc' = [pc EXCEPT ![t] = label]

Contents(s) == {s[i] : i \in DOMAIN s}
-----------------------------------------------------------------------------
(* push_back and push_front: emplace under muxQueue, then take muxBlocking *)
(* while still holding muxQueue, notify, and release both on return.       *)

Emplace(t, item, newDeque) ==
  /\ pc[t] = "idle"
  /\ muxQueue = None
  /\ muxQueue' = t
  /\ deqQueue' = newDeque
  /\ pushed' = Append(pushed, item)
  /\ Goto(t, "emplaced")
  /\ UNCHANGED <<muxBlocking, cvBlocking, nMessagesCount, handled, dropped, use>>

(* A slip: push_back emplaces at the front.                                *)
push_backAtFront(t) ==
  \E item \in Items \ Contents(pushed) : Emplace(t, item, <<item>> \o deqQueue)

push_back(t) ==
  /\ "push_back" \in PushOps
  /\ \E item \in Items \ Contents(pushed) : Emplace(t, item, Append(deqQueue, item))

push_front(t) ==
  /\ "push_front" \in PushOps
  /\ \E item \in Items \ Contents(pushed) : Emplace(t, item, <<item>> \o deqQueue)

notify_one(t) ==
  /\ pc[t] = "emplaced"
  /\ muxBlocking = None
  /\ muxBlocking' = t
  /\ \/ cvBlocking = {} /\ UNCHANGED cvBlocking
     \/ \E c \in cvBlocking : cvBlocking' = cvBlocking \ {c}
  /\ Goto(t, "notified")
  /\ UNCHANGED <<deqQueue, muxQueue, nMessagesCount, pushed, handled, dropped, use>>

push_return(t) ==
  /\ pc[t] = "notified"
  /\ muxBlocking' = None
  /\ muxQueue' = None
  /\ Goto(t, "idle")
  /\ UNCHANGED <<deqQueue, cvBlocking, nMessagesCount, pushed, handled, dropped, use>>
-----------------------------------------------------------------------------
(* empty() takes muxQueue, looks and releases it, so what it saw may be    *)
(* stale as soon as the step is over; the caller goes on by the answer.    *)
empty(c, yes, no) == /\ muxQueue = None
                     /\ Goto(c, IF deqQueue = << >> THEN yes ELSE no)

(* Update: reset the counter and, if bWait, block in tsqueue::wait.        *)

Update(c) ==
  /\ pc[c] = "update"
  /\ nMessagesCount' = [nMessagesCount EXCEPT ![c] = 0]
  /\ Goto(c, IF bWait THEN "wait" ELSE "drain")
  /\ UNCHANGED <<deqQueue, muxQueue, muxBlocking, cvBlocking, pushed,
                 handled, dropped, use>>

(* The loop test of wait().                                                *)
wait_test(c) ==
  /\ pc[c] = "wait"
  /\ empty(c, "lock", "drain")
  /\ UNCHANGED <<deqQueue, muxQueue, muxBlocking, cvBlocking, nMessagesCount,
                 pushed, handled, dropped, use>>

wait_lock(c) ==
  /\ pc[c] = "lock"
  /\ muxBlocking = None
  /\ muxBlocking' = c
  /\ Goto(c, "locked")
  /\ UNCHANGED <<deqQueue, muxQueue, cvBlocking, nMessagesCount, pushed,
                 handled, dropped, use>>

(* A slip: the sleeper keeps muxBlocking.                                  *)
wait_sleepLocked(c) ==
  /\ pc[c] = "locked"
  /\ cvBlocking' = cvBlocking \cup {c}
  /\ Goto(c, "asleep")
  /\ UNCHANGED <<deqQueue, muxQueue, muxBlocking, nMessagesCount, pushed,
                 handled, dropped, use>>

(* cvBlocking.wait(ul) releases muxBlocking and falls asleep atomically.   *)
wait_sleep(c) ==
  /\ pc[c] = "locked"
  /\ muxBlocking' = None
  /\ cvBlocking' = cvBlocking \cup {c}
  /\ Goto(c, "asleep")
  /\ UNCHANGED <<deqQueue, muxQueue, nMessagesCount, pushed, handled, dropped, use>>

(* The standard lets a condition variable wake a thread unasked.           *)
SpuriousWakeup(c) ==
  /\ c \in cvBlocking
  /\ cvBlocking' = cvBlocking \ {c}
  /\ UNCHANGED <<deqQueue, muxQueue, muxBlocking, pc, nMessagesCount, pushed,
                 handled, dropped, use>>

(* A woken thread holds muxBlocking again before wait(ul) returns ...      *)
wait_woken(c) ==
  /\ pc[c] = "asleep"
  /\ c \notin cvBlocking
  /\ muxBlocking = None
  /\ muxBlocking' = c
  /\ Goto(c, "woken")
  /\ UNCHANGED <<deqQueue, muxQueue, cvBlocking, nMessagesCount, pushed,
                 handled, dropped, use>>

(* Two slips: the lock outlives the loop body, and the loop waits again    *)
(* without a test.                                                         *)
wait_againLocked(c) ==
  /\ pc[c] = "woken"
  /\ Goto(c, "wait")
  /\ UNCHANGED <<deqQueue, muxQueue, muxBlocking, cvBlocking, nMessagesCount,
                 pushed, handled, dropped, use>>

wait_againUntested(c) ==
  /\ pc[c] = "woken"
  /\ muxBlocking' = None
  /\ Goto(c, "lock")
  /\ UNCHANGED <<deqQueue, muxQueue, cvBlocking, nMessagesCount, pushed,
                 handled, dropped, use>>

(* ... and drops it at the end of the loop body, before the next test.     *)
wait_again(c) ==
  /\ pc[c] = "woken"
  /\ muxBlocking' = None
  /\ Goto(c, "wait")
  /\ UNCHANGED <<deqQueue, muxQueue, cvBlocking, nMessagesCount, pushed,
                 handled, dropped, use>>
-----------------------------------------------------------------------------
(* Update's loop: the bound is tested first, then empty(); the item found  *)
(* there is removed by a second, separate acquisition of muxQueue.         *)
drain_bound(c) ==
  /\ pc[c] = "drain"
  /\ nMessagesCount[c] >= nMaxMessages
  /\ Goto(c, "update")
  /\ UNCHANGED <<deqQueue, muxQueue, muxBlocking, cvBlocking, nMessagesCount,
                 pushed, handled, dropped, use>>

(* Two slips: empty() is not asked, and the bound is off by one.           *)
drain_testBoundOnly(c) ==
  /\ pc[c] = "drain"
  /\ nMessagesCount[c] < nMaxMessages
  /\ Goto(c, "pop")
  /\ UNCHANGED <<deqQueue, muxQueue, muxBlocking, cvBlocking, nMessagesCount,
                 pushed, handled, dropped, use>>

drain_testOneMore(c) ==
  /\ pc[c] = "drain"
  /\ nMessagesCount[c] <= nMaxMessages
  /\ empty(c, "update", "pop")
  /\ UNCHANGED <<deqQueue, muxQueue, muxBlocking, cvBlocking, nMessagesCount,
                 pushed, handled, dropped, use>>

drain_test(c) ==
  /\ pc[c] = "drain"
  /\ nMessagesCount[c] < nMaxMessages
  /\ empty(c, "update", "pop")
  /\ UNCHANGED <<deqQueue, muxQueue, muxBlocking, cvBlocking, nMessagesCount,
                 pushed, handled, dropped, use>>

(* Remove one item and hand it to OnMessage.  Popping an empty deque is    *)
(* undefined; NoPopOnEmpty says that no thread gets that far.              *)
Take(c, item, newDeque) ==
  /\ pc[c] = "pop"
  /\ muxQueue = None
  /\ deqQueue # << >>
  /\ deqQueue' = newDeque
  /\ handled' = Append(handled, item)
  /\ nMessagesCount' = [nMessagesCount EXCEPT ![c] = @ + 1]
  /\ Goto(c, "drain")
  /\ UNCHANGED <<muxQueue, muxBlocking, cvBlocking, pushed, dropped, use>>

(* Slips: the item returned, or the item removed, is at the other end.     *)
pop_frontAtBack(c) == Take(c, deqQueue[Len(deqQueue)],
                           SubSeq(deqQueue, 1, Len(deqQueue) - 1))

pop_backKeepsBack(c) == Take(c, deqQueue[Len(deqQueue)], Tail(deqQueue))

pop_front(c) == /\ "pop_front" \in PopOps
                /\ Take(c, Head(deqQueue), Tail(deqQueue))

pop_back(c) == /\ "pop_back" \in PopOps
               /\ Take(c, deqQueue[Len(deqQueue)],
                       SubSeq(deqQueue, 1, Len(deqQueue) - 1))

clear(c) ==
  /\ "clear" \in PopOps
  /\ pc[c] = "update"
  /\ muxQueue = None
  /\ deqQueue' = << >>
  /\ dropped' = dropped \cup Contents(deqQueue)
  /\ UNCHANGED <<muxQueue, muxBlocking, cvBlocking, pc, nMessagesCount, pushed,
                 handled, use>>
-----------------------------------------------------------------------------
Finish(t) == notify_one(t) \/ push_return(t)

Producer(t) == push_back(t) \/ push_front(t) \/ Finish(t)

(* The steps the scheduler gives a draining thread; clear() is the         *)
(* program's choice and a spurious wakeup the runtime's.                   *)
Drain(c) == \/ Update(c) \/ wait_test(c) \/ wait_lock(c) \/ wait_sleep(c)
            \/ wait_woken(c) \/ wait_again(c)
            \/ drain_bound(c) \/ drain_test(c) \/ pop_front(c) \/ pop_back(c)

Consumer(c) == Drain(c) \/ clear(c) \/ SpuriousWakeup(c)

Next == \/ \E t \in Producers : Producer(t)
        \/ \E c \in Consumers : Consumer(c)

Spec == Init /\ [][Next]_vars

(* The operating system runs every runnable thread: a push that has begun  *)
(* goes on, and so does a consumer that is not asleep.  Nothing makes a    *)
(* producer push, and nothing promises a spurious wakeup.                  *)
Fairness == /\ \A t \in Producers : WF_vars(Finish(t))
            /\ \A c \in Consumers : WF_vars(Drain(c))

FairSpec == Spec /\ Fairness
-----------------------------------------------------------------------------
ProducerLabels == {"idle", "emplaced", "notified"}
ConsumerLabels == {"update", "wait", "lock", "locked", "asleep", "woken", "drain", "pop"}

(* Types of the queue, its mutexes and its threads.                        *)
TypeOK ==
  /\ deqQueue \in Seq(Items)
  /\ muxQueue \in Producers \cup {None}
  /\ muxBlocking \in Threads \cup {None}
  /\ cvBlocking \subseteq Consumers
  /\ pc \in [Threads -> ProducerLabels \cup ConsumerLabels]
  /\ \A t \in Producers : pc[t] \in ProducerLabels
  /\ \A c \in Consumers : pc[c] \in ConsumerLabels
  /\ nMessagesCount \in [Consumers -> 0 .. nMaxMessages]
  /\ pushed \in Seq(Items)
  /\ handled \in Seq(Items)
  /\ dropped \subseteq Items
  /\ use \in Uses

(* The item Update's loop saw through empty() is still there when it pops: *)
(* the two calls take muxQueue separately, so this rests on one thread     *)
(* alone removing items, whatever the producers do in between.             *)
NoPopOnEmpty == \A c \in Consumers : pc[c] = "pop" => deqQueue # << >>

(* Pushed at the back and popped at the front, messages are handled once   *)
(* each in the order they were pushed: what is handled followed by what is *)
(* queued is what was pushed.                                              *)
HandledInOrder == FirstInFirstOut => handled \o deqQueue = pushed

(* No item is lost or duplicated under any mix of the queue's operations:  *)
(* each pushed item is queued, handled or cleared, in one place only.      *)
Conservation ==
  /\ Contents(pushed) = Contents(deqQueue) \cup Contents(handled) \cup dropped
  /\ Len(pushed) = Len(deqQueue) + Len(handled) + Cardinality(dropped)

(* The two mutexes are taken in one order: a pusher waits for muxBlocking  *)
(* while it holds muxQueue, so no holder of muxBlocking may come to wait   *)
(* for muxQueue (push_back against wait()), or both would wait forever.    *)
LockOrder ==
  /\ muxBlocking \in Consumers => pc[muxBlocking] \in {"locked", "woken"}
  /\ muxBlocking \in Producers => muxQueue = muxBlocking

(* "While the queue is empty the server rests until there are new          *)
(* processes" (net_tsqueue.h): with no push under way, a consumer asleep   *)
(* in wait() has nothing to handle.                                        *)
SleepsOnlyWhileEmpty ==
  \A c \in Consumers : c \in cvBlocking /\ muxQueue = None => deqQueue = << >>

(* The notification of a consumer that sleeps in wait() is not lost: once  *)
(* woken it does not go back to sleep over what is queued, and calls of    *)
(* Update, each up to its bound, go on until the queue has been empty.     *)
NotifiedDrains ==
  \A c \in Consumers : (pc[c] = "asleep" /\ c \notin cvBlocking) ~> deqQueue = << >>

(* A push that has begun returns: neither a sleeping nor a waking consumer *)
(* can keep the asio thread inside push_back.                              *)
PushReturns == \A t \in Producers : pc[t] = "emplaced" ~> pc[t] = "idle"

(* The queue as CustomServer uses it is a message channel.                 *)
Pipe == INSTANCE Channel WITH
  sent <- IF FirstInFirstOut THEN pushed ELSE << >>,
  rcvd <- IF FirstInFirstOut THEN handled ELSE << >>
IsChannel == Pipe!Spec
=============================================================================
