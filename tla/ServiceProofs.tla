--------------------------- MODULE ServiceProofs ---------------------------
(***************************************************************************)
(* Theorems about Service, for any messages, any bounds and any Update: it *)
(* is a Session, what its client asks is handled in order, and what its    *)
(* server answers is what was asked.                                       *)
(***************************************************************************)
EXTENDS Service, SessionChannelProofs, FiniteSetTheorems

(* The step of Service that is a step of the program thread at the server. *)
LEMMA AnswerIsSend ==
  ASSUME NEW msg, OnMessage(msg)
  PROVE  \/ msg \in HasBody /\ msg \in SentBy["server"] /\ Send("server", msg)
         \/ msg \notin HasBody /\ UNCHANGED vars
BY ServiceAssumption DEF OnMessage

LEMMA ServiceStepIsSessionStep ==
  ASSUME [ServiceNext]_allVars
  PROVE  [Next]_vars
<1>1. CASE ClientSide
  BY <1>1, BothEnds DEF ClientSide, Next
<1>2. CASE AsioHandler
  BY <1>2 DEF AsioHandler, Next
<1>3. CASE PushGoesOn \/ UpdateGoesOn \/ Wakeup \/ UNCHANGED allVars
  BY <1>3 DEF PushGoesOn, UpdateGoesOn, Wakeup, allVars
<1>4. CASE PopAndHandle
  <2>1. PICK msg : OnMessage(msg)
    BY <1>4 DEF PopAndHandle
  <2> QED
    BY <2>1, AnswerIsSend, BothEnds DEF Next, Program
<1> QED
  BY <1>1, <1>2, <1>3, <1>4 DEF ServiceNext, AsioThread, MainThread

(* Service is a Session: with the main thread and the queue in the place   *)
(* of the server's program, each behaviour is one that Session allows, and *)
(* every theorem about Session holds of it.                                *)
THEOREM ServiceIsSession == ServiceSpec => Spec
<1>1. ServiceInit => Init
  BY DEF ServiceInit
<1>2. [ServiceNext]_allVars => [Next]_vars
  BY ServiceStepIsSessionStep
<1> QED
  BY <1>1, <1>2, PTL DEF ServiceSpec, Spec

(* It is a TSQueue as well, with one thread that pushes and one that pops: *)
(* what TSQueueProofs has of such a queue holds of the server's.           *)
THEOREM ServiceIsTSQueue == ServiceSpec => Queue!Spec
<1>1. ServiceInit => Queue!Init
  BY DEF ServiceInit
<1>2. [ServiceNext]_allVars => [Queue!Next]_(Queue!vars)
  <2> SUFFICES ASSUME [ServiceNext]_allVars, ~UNCHANGED Queue!vars
               PROVE  Queue!Next
    OBVIOUS
  <2>1. Queue!Producer("asio") \/ Queue!Consumer("main")
    <3>1. CASE ClientSide \/ UNCHANGED allVars
      BY <3>1 DEF ClientSide, allVars, queue, Queue!vars
    <3>2. CASE AsioHandler \/ PushGoesOn
      BY <3>2 DEF AsioHandler, PushGoesOn, queue, Queue!vars, Queue!Producer
    <3>3. CASE PopAndHandle \/ UpdateGoesOn \/ Wakeup
      BY <3>3 DEF PopAndHandle, UpdateGoesOn, Wakeup, Queue!Consumer, Queue!Drain
    <3> QED
      BY <3>1, <3>2, <3>3 DEF ServiceNext, AsioThread, MainThread
  <2> QED
    BY <2>1 DEF Queue!Next
<1> QED
  BY <1>1, <1>2, PTL DEF ServiceSpec, Queue!Spec
-----------------------------------------------------------------------------
(* The queue's part of the type invariant, with what it needs of Update.   *)
QueueTyped == Queue!TypeOK /\ (pc["main"] = "pop" => nMessagesCount["main"] < nMaxMessages)

LEMMA QueueBounds == nMaxMessages \in Nat \ {0} /\ MaxSends["client"] \in Nat
BY ServiceAssumption, SessionAssumption, BothEnds

LEMMA InitQueueTyped == Queue!Init => QueueTyped
<1> SUFFICES ASSUME Queue!Init PROVE QueueTyped
  OBVIOUS
<1>1. deqQueue = << >> /\ pushed = << >> /\ handled = << >>
  BY DEF Queue!Init
<1>2. << >> \in Seq(1 .. MaxSends["client"])
  BY EmptySeq
<1>3. nMessagesCount \in [{"main"} -> 0 .. nMaxMessages]
  BY QueueBounds DEF Queue!Init
<1>4. /\ pc \in [Queue!Threads -> Queue!ProducerLabels \cup Queue!ConsumerLabels]
      /\ pc["asio"] = "idle" /\ pc["main"] = "update"
  BY DEF Queue!Init, Queue!Threads, Queue!ProducerLabels, Queue!ConsumerLabels
<1> QED
  BY <1>1, <1>2, <1>3, <1>4 DEF QueueTyped, Queue!TypeOK, Queue!Init, Queue!Threads,
     Queue!ProducerLabels, Queue!ConsumerLabels

(* What a step does to the messages in the queue: a push adds one at the   *)
(* back, a pop takes the one at the front, and nothing else touches them.  *)
Untouched == UNCHANGED <<deqQueue, handled, pushed>>

Pushed == /\ \E item \in 1 .. MaxSends["client"] :
               deqQueue' = Append(deqQueue, item) /\ pushed' = Append(pushed, item)
          /\ UNCHANGED handled

Popped == /\ deqQueue # << >> /\ deqQueue' = Tail(deqQueue)
          /\ handled' = Append(handled, Head(deqQueue))
          /\ UNCHANGED pushed

LEMMA PushStep ==
  ASSUME QueueTyped, Queue!push_back("asio")
  PROVE  QueueTyped' /\ Pushed
<1> USE DEF Queue!push_back, Queue!Emplace, Queue!Goto
<1>1. PICK item \in 1 .. MaxSends["client"] : Queue!Emplace("asio", item, Append(deqQueue, item))
  OBVIOUS
<1>2. Pushed
  BY <1>1 DEF Pushed
<1>3. deqQueue' \in Seq(1 .. MaxSends["client"]) /\ pushed' \in Seq(1 .. MaxSends["client"])
  BY <1>1 DEF QueueTyped, Queue!TypeOK
<1>4. QueueTyped'
  BY <1>1, <1>3 DEF QueueTyped, Queue!TypeOK, Queue!Threads, Queue!ProducerLabels,
     Queue!ConsumerLabels
<1> QED
  BY <1>2, <1>4

LEMMA FinishStep ==
  ASSUME QueueTyped, Queue!Finish("asio")
  PROVE  QueueTyped' /\ Untouched
BY DEF QueueTyped, Queue!TypeOK, Queue!Threads, Queue!ProducerLabels, Queue!ConsumerLabels,
   Queue!Finish, Queue!notify_one, Queue!push_return, Queue!Goto, Untouched

LEMMA PopStep ==
  ASSUME QueueTyped, Queue!pop_front("main")
  PROVE  QueueTyped' /\ Popped
<1> USE DEF Queue!pop_front, Queue!Take, Queue!Goto
<1>1. Popped
  BY DEF Popped
<1>2. /\ deqQueue \in Seq(1 .. MaxSends["client"]) /\ deqQueue # << >>
      /\ handled \in Seq(1 .. MaxSends["client"])
  BY DEF QueueTyped, Queue!TypeOK
<1>3. Head(deqQueue) \in 1 .. MaxSends["client"] /\ Tail(deqQueue) \in Seq(1 .. MaxSends["client"])
  BY <1>2, HeadTailProperties
<1>4. deqQueue' \in Seq(1 .. MaxSends["client"]) /\ handled' \in Seq(1 .. MaxSends["client"])
  BY <1>2, <1>3
<1>5. nMessagesCount["main"] + 1 \in 0 .. nMaxMessages
  BY QueueBounds DEF QueueTyped, Queue!TypeOK
<1>6. QueueTyped'
  BY <1>4, <1>5 DEF QueueTyped, Queue!TypeOK, Queue!Threads, Queue!ProducerLabels,
     Queue!ConsumerLabels
<1> QED
  BY <1>1, <1>6

LEMMA DrainStep ==
  ASSUME QueueTyped, pc["main"] # "pop", Queue!Drain("main")
  PROVE  QueueTyped' /\ Untouched
<1> USE QueueBounds DEF QueueTyped, Queue!TypeOK, Queue!Threads, Queue!ProducerLabels,
        Queue!ConsumerLabels, Queue!Goto, Untouched
<1>1. CASE Queue!Update("main")
  BY <1>1 DEF Queue!Update
<1>2. CASE Queue!wait_test("main")
  BY <1>2 DEF Queue!wait_test, Queue!empty
<1>3. CASE Queue!wait_lock("main")
  BY <1>3 DEF Queue!wait_lock
<1>4. CASE Queue!wait_sleep("main")
  BY <1>4 DEF Queue!wait_sleep
<1>5. CASE Queue!wait_woken("main")
  BY <1>5 DEF Queue!wait_woken
<1>6. CASE Queue!wait_again("main")
  BY <1>6 DEF Queue!wait_again
<1>7. CASE Queue!drain_bound("main")
  BY <1>7 DEF Queue!drain_bound
<1>8. CASE Queue!drain_test("main")
  BY <1>8 DEF Queue!drain_test, Queue!empty
<1> QED
  BY <1>1, <1>2, <1>3, <1>4, <1>5, <1>6, <1>7, <1>8
  DEF Queue!Drain, Queue!pop_front, Queue!pop_back, Queue!Take

LEMMA WakeupStep ==
  ASSUME QueueTyped, Queue!SpuriousWakeup("main")
  PROVE  QueueTyped' /\ Untouched
BY DEF QueueTyped, Queue!TypeOK, Queue!Threads, Queue!SpuriousWakeup, Untouched

LEMMA QueueKept ==
  ASSUME QueueTyped, UNCHANGED queue
  PROVE  QueueTyped' /\ Untouched
BY DEF QueueTyped, Queue!TypeOK, Queue!Threads, queue, Untouched

LEMMA StepTyped == QueueTyped /\ [ServiceNext]_allVars => QueueTyped'
<1> SUFFICES ASSUME QueueTyped, [ServiceNext]_allVars PROVE QueueTyped'
  OBVIOUS
<1>1. CASE ClientSide \/ UNCHANGED allVars
  BY <1>1, QueueKept DEF ClientSide, allVars
<1>2. CASE AsioHandler
  BY <1>2, QueueKept, PushStep DEF AsioHandler
<1>3. CASE PushGoesOn
  BY <1>3, FinishStep DEF PushGoesOn
<1>4. CASE PopAndHandle
  BY <1>4, PopStep DEF PopAndHandle
<1>5. CASE UpdateGoesOn
  BY <1>5, DrainStep DEF UpdateGoesOn
<1>6. CASE Wakeup
  BY <1>6, WakeupStep DEF Wakeup
<1> QED
  BY <1>1, <1>2, <1>3, <1>4, <1>5, <1>6 DEF ServiceNext, AsioThread, MainThread

(* Queue and threads stay typed through push_back and Update.              *)
THEOREM AlwaysQueueTyped == ServiceSpec => []QueueTyped
<1>1. ServiceInit => QueueTyped
  BY InitQueueTyped DEF ServiceInit
<1> QED
  BY <1>1, StepTyped, PTL DEF ServiceSpec

(* The two ends, the queue and the server's threads keep their types, and  *)
(* Update handles no more messages a call than it was told to.             *)
THEOREM ServiceTypeCorrect == ServiceSpec => []ServiceTypeOK
<1>1. QueueTyped => Queue!TypeOK
  BY DEF QueueTyped
<1> QED
  BY <1>1, ServiceIsSession, TypeCorrect, AlwaysQueueTyped, PTL DEF ServiceTypeOK
-----------------------------------------------------------------------------
(* From the client's Send to the server's OnMessage.  What an end receives *)
(* is what its peer sent, place by place.                                  *)
InTurn == \A e \in Ends :
  /\ Len(m_qMessagesIn[e]) <= Len(sent[Peer(e)])
  /\ \A i \in 1 .. Len(m_qMessagesIn[e]) : m_qMessagesIn[e][i].header = sent[Peer(e)][i]

(* Of n numbers, those handled are the first, those queued the rest.       *)
InQueue(done, waiting, n) ==
  /\ Len(done) + Len(waiting) = n
  /\ \A i \in 1 .. Len(done) : done[i] = i
  /\ \A i \in 1 .. Len(waiting) : waiting[i] = Len(done) + i

Backlog == InQueue(handled, deqQueue, Len(m_qMessagesIn["server"]))

(* Appending changes no place that was there.                              *)
LEMMA Appended ==
  ASSUME NEW S, NEW s \in Seq(S), NEW x \in S
  PROVE  /\ Append(s, x) \in Seq(S) /\ Len(s) \in Nat /\ Len(Append(s, x)) = Len(s) + 1
         /\ \A i \in 1 .. Len(s) : Append(s, x)[i] = s[i]
         /\ Append(s, x)[Len(s) + 1] = x
BY AppendProperties, LenProperties

LEMMA StepInTurn == ReadChain /\ Moves /\ InTurn => InTurn'
<1> SUFFICES ASSUME ReadChain, Moves, InTurn, NEW e \in Ends
             PROVE  /\ Len(m_qMessagesIn'[e]) <= Len(sent'[Peer(e)])
                    /\ \A i \in 1 .. Len(m_qMessagesIn'[e]) :
                         m_qMessagesIn'[e][i].header = sent'[Peer(e)][i]
  BY DEF InTurn
<1> DEFINE in == m_qMessagesIn[e]
           out == sent[Peer(e)]
<1>1. /\ Peer(e) \in Ends /\ Peer(Peer(e)) = e /\ in \in Seq(Temporaries) /\ out \in Seq(Messages)
      /\ m_qMessagesIn \in [Ends -> Seq(Temporaries)] /\ sent \in [Ends -> Seq(Messages)]
      /\ Len(in) \in Nat /\ Len(out) \in Nat
      /\ Len(in) <= Len(out) /\ \A i \in 1 .. Len(in) : in[i].header = out[i]
  BY BothEnds, LenProperties DEF ReadChain, InboundTyped, InTurn
<1>2. ASSUME NEW msg \in Messages, m_qMessagesIn'[e] = in, sent'[Peer(e)] = Append(out, msg)
      PROVE  /\ Len(in) <= Len(sent'[Peer(e)])
             /\ \A i \in 1 .. Len(in) : in[i].header = sent'[Peer(e)][i]
  <2> HIDE DEF in, out
  <2>1. \A i \in 1 .. Len(in) : i \in 1 .. Len(out)
    BY <1>1
  <2> QED
    BY <1>1, <1>2, <2>1, Appended
<1>3. ASSUME NEW m \in Temporaries, m_qMessagesIn'[e] = Append(in, m), NextSent(e, m.header),
             sent'[Peer(e)] = out
      PROVE  /\ Len(Append(in, m)) <= Len(out)
             /\ \A i \in 1 .. Len(Append(in, m)) : Append(in, m)[i].header = out[i]
  <2>1. Len(in) < Len(out) /\ m.header = out[Len(in) + 1]
    BY <1>3 DEF NextSent
  <2> HIDE DEF in, out
  <2>2. \A i \in 1 .. Len(in) + 1 : i \in 1 .. Len(in) \/ i = Len(in) + 1
    BY <1>1
  <2> QED
    BY <1>1, <2>1, <2>2, Appended
<1>4. ASSUME NEW x \in Ends, Sends(x), UNCHANGED m_qMessagesIn
      PROVE  \/ \E msg \in Messages : sent'[Peer(e)] = Append(out, msg)
             \/ sent'[Peer(e)] = out
  BY <1>1, <1>4 DEF Sends
<1>5. ASSUME NEW x \in Ends, Delivers(x), UNCHANGED sent
      PROVE  \/ m_qMessagesIn'[e] = in
             \/ \E m \in Temporaries :
                  m_qMessagesIn'[e] = Append(in, m) /\ NextSent(e, m.header)
  BY <1>1, <1>5 DEF Delivers
<1> QED
  BY <1>1, <1>2, <1>3, <1>4, <1>5 DEF Moves

(* Each end of a connection gets the messages of its peer's calls of Send  *)
(* in their order, none left out and none twice.                           *)
THEOREM AlwaysInTurn == Spec => []InTurn
<1>1. Init => InTurn
  <2> SUFFICES ASSUME Init PROVE InTurn
    OBVIOUS
  <2>1. \A e \in Ends : m_qMessagesIn[e] = << >> /\ sent[Peer(e)] = << >>
    BY BothEnds DEF Init
  <2> QED
    BY <2>1 DEF InTurn
<1>2. ReadChain /\ WriteChain /\ Framed /\ Numbering /\ InTurn /\ [Next]_vars => InTurn'
  BY StepMoves, StepInTurn
<1> QED
  BY <1>1, <1>2, AlwaysReadChain, AlwaysWriteChain, AlwaysFramed, AlwaysNumbered, PTL DEF Spec

LEMMA HandlerSendsNothing ==
  ASSUME ReadChain, NEW e \in Ends, Handler(e)
  PROVE  UNCHANGED <<sent, accepted>> /\ \A d \in Ends \ {e} : m_qMessagesIn'[d] = m_qMessagesIn[d]
<1>0. m_qMessagesIn \in [Ends -> Seq(Temporaries)]
  BY DEF ReadChain, InboundTyped
<1>1. CASE WriteValidationCompletes(e) \/ WriteValidationFails(e) \/ ReadError(e)
  BY <1>1 DEF WriteValidationCompletes, WriteValidationThenRead, WriteValidationFails, ReadError,
     program, link, inbound, received
<1>2. CASE ReadHeader(e)
  BY <1>0, <1>2 DEF ReadHeader, AddToIncomingMessageQueue, program, link
<1>3. CASE ReadBody(e)
  BY <1>0, <1>3 DEF ReadBody, AddToIncomingMessageQueue, program, link
<1>4. CASE PostedSend(e) \/ PostedClose(e)
  BY <1>4 DEF PostedSend, QueueToSend, PostedClose, link, inbound, received
<1>5. CASE WriteHeader(e) \/ WriteBody(e) \/ WriteError(e)
  BY <1>5 DEF WriteHeader, WriteBody, WriteError, program, link, inbound, received
<1> QED
  BY <1>1, <1>2, <1>3, <1>4, <1>5 DEF Handler

(* What the client's machine does reaches neither the queue nor what the   *)
(* server's program is given or sends.                                     *)
LEMMA ClientStep ==
  ASSUME ReadChain, ClientSide
  PROVE  /\ UNCHANGED <<accepted, queue>> /\ sent'["server"] = sent["server"]
         /\ m_qMessagesIn'["server"] = m_qMessagesIn["server"]
         /\ \/ sent'["client"] = sent["client"]
            \/ \E msg \in Messages : sent'["client"] = Append(sent["client"], msg)
<1>1. sent \in [Ends -> Seq(Messages)] /\ SentBy["client"] \subseteq Messages
  BY BothEnds, SessionAssumption DEF ReadChain, InboundTyped
<1>2. CASE ConnectToServer \/ TcpConnect \/ NetworkFails
  BY <1>2 DEF ClientSide, ConnectToServer, TcpConnect, NetworkFails, program, link, inbound, received
<1>3. CASE Program("client")
  BY <1>1, <1>3, BothEnds
  DEF ClientSide, Program, Send, Disconnect, link, inbound, received
<1>4. CASE ConnectCompletes \/ ReadValidationClient \/ RunReturns
  BY <1>4 DEF ClientSide, ConnectCompletes, ReadValidationClient, AnswerWith, RunReturns, program,
     link, inbound, received
<1>5. CASE Handler("client")
  BY <1>5, BothEnds, HandlerSendsNothing DEF ClientSide
<1> QED
  BY <1>2, <1>3, <1>4, <1>5 DEF ClientSide, ClientThread

(* The asio thread pushes the number of each message that it reads, and    *)
(* sends ServerAccept when it accepts.                                     *)
LEMMA AsioStep ==
  ASSUME ReadChain, QueueTyped, Moves, AsioHandler
  PROVE  /\ sent'["client"] = sent["client"] /\ handled' = handled
         /\ \/ UNCHANGED <<sent, accepted>>
            \/ /\ ~accepted /\ accepted'
               /\ sent'["server"] = Append(sent["server"], Accept)
         /\ \/ /\ m_qMessagesIn'["server"] = m_qMessagesIn["server"]
               /\ deqQueue' = deqQueue
            \/ \E m \in Temporaries :
                 /\ m_qMessagesIn'["server"] = Append(m_qMessagesIn["server"], m)
                 /\ deqQueue' = Append(deqQueue, Len(m_qMessagesIn["server"]) + 1)
<1> DEFINE in == m_qMessagesIn["server"]
<1>1. /\ in \in Seq(Temporaries) /\ m_qMessagesIn \in [Ends -> Seq(Temporaries)]
      /\ sent \in [Ends -> Seq(Messages)] /\ Len(in) \in Nat
  BY BothEnds, LenProperties DEF ReadChain, InboundTyped
<1>2. /\ sent'["client"] = sent["client"]
      /\ \/ UNCHANGED <<sent, accepted>>
         \/ /\ ~accepted /\ accepted'
            /\ sent'["server"] = Append(sent["server"], Accept)
  <2>1. CASE AcceptConnection
    BY <1>1, <2>1, BothEnds DEF AcceptConnection
  <2>2. CASE ReadValidationServer
    BY <2>2 DEF ReadValidationServer, program, link
  <2>3. CASE Handler("server")
    BY <2>3, BothEnds, HandlerSendsNothing
  <2> QED
    BY <2>1, <2>2, <2>3 DEF AsioHandler, ServerThread
<1>3. m_qMessagesIn'["server"] = in \/ \E m \in Temporaries : m_qMessagesIn'["server"] = Append(in, m)
  BY <1>1, BothEnds DEF Moves, Delivers
<1>4. CASE m_qMessagesIn'["server"] = in
  BY <1>2, <1>4, QueueKept DEF AsioHandler, QueuedNow, Untouched
<1>5. ASSUME NEW m \in Temporaries, m_qMessagesIn'["server"] = Append(in, m)
      PROVE  handled' = handled /\ deqQueue' = Append(deqQueue, Len(in) + 1)
  <2>1. QueuedNow = Len(in) + 1
    BY <1>1, <1>5, Appended DEF QueuedNow
  <2>2. Queue!push_back("asio") /\ pushed' = Append(pushed, Len(in) + 1)
    BY <1>1, <2>1 DEF AsioHandler
  <2>3. Pushed
    BY <2>2, PushStep
  <2>4. PICK item \in 1 .. MaxSends["client"] :
          deqQueue' = Append(deqQueue, item) /\ pushed' = Append(pushed, item)
    BY <2>3 DEF Pushed
  <2>5. item = Len(in) + 1
    <3>1. pushed \in Seq(Nat) /\ item \in Nat /\ Len(in) + 1 \in Nat
      BY <1>1, ElementOfSeq, QueueBounds DEF QueueTyped, Queue!TypeOK
    <3> QED
      BY <2>2, <2>4, <3>1, Appended
  <2> QED
    BY <2>3, <2>4, <2>5 DEF Pushed
<1> QED
  BY <1>2, <1>3, <1>4, <1>5

(* The invariant of the order in which messages are handled: those handled *)
(* and then those queued are those read, by their numbers.                 *)
LEMMA InQueuePushed ==
  ASSUME NEW done \in Seq(Nat), NEW waiting \in Seq(Nat), NEW n \in Nat, InQueue(done, waiting, n)
  PROVE  InQueue(done, Append(waiting, n + 1), n + 1)
<1>1. Len(done) \in Nat /\ Len(waiting) \in Nat /\ n + 1 \in Nat
  BY LenProperties
<1>2. \A i \in 1 .. Len(waiting) + 1 : i \in 1 .. Len(waiting) \/ i = Len(waiting) + 1
  BY <1>1
<1>3. /\ Len(Append(waiting, n + 1)) = Len(waiting) + 1
      /\ \A i \in 1 .. Len(waiting) : Append(waiting, n + 1)[i] = waiting[i]
      /\ Append(waiting, n + 1)[Len(waiting) + 1] = n + 1
  BY <1>1, Appended
<1> QED
  BY <1>1, <1>2, <1>3 DEF InQueue

LEMMA InQueuePopped ==
  ASSUME NEW done \in Seq(Nat), NEW waiting \in Seq(Nat), NEW n \in Nat,
         InQueue(done, waiting, n), waiting # << >>
  PROVE  /\ Head(waiting) = Len(done) + 1 /\ Len(done) + 1 <= n
         /\ InQueue(Append(done, Head(waiting)), Tail(waiting), n)
<1>1. Len(done) \in Nat /\ Len(waiting) \in Nat \ {0}
  BY LenProperties, EmptySeq
<1>2. /\ Head(waiting) = waiting[1] /\ Len(Tail(waiting)) = Len(waiting) - 1
      /\ \A i \in 1 .. Len(Tail(waiting)) : Tail(waiting)[i] = waiting[i + 1]
  BY HeadTailProperties
<1>3. Head(waiting) = Len(done) + 1 /\ Len(done) + 1 \in Nat /\ Len(done) + 1 <= n
  BY <1>1, <1>2 DEF InQueue
<1>4. /\ Len(Append(done, Head(waiting))) = Len(done) + 1
      /\ \A i \in 1 .. Len(done) : Append(done, Head(waiting))[i] = done[i]
      /\ Append(done, Head(waiting))[Len(done) + 1] = Head(waiting)
  BY <1>3, Appended
<1> DEFINE more == Append(done, Head(waiting))
           less == Tail(waiting)
<1>5. Len(more) + Len(less) = n
  <2>1. Len(done) + Len(waiting) = n
    BY DEF InQueue
  <2>2. Len(more) = Len(done) + 1 /\ Len(less) = Len(waiting) - 1
    BY <1>2, <1>4
  <2> HIDE DEF more, less
  <2> QED
    BY <1>1, <2>1, <2>2
<1>6. ASSUME NEW i \in 1 .. Len(more) PROVE more[i] = i
  <2>1. i \in 1 .. Len(done) \/ i = Len(done) + 1
    BY <1>1, <1>4
  <2> QED
    BY <1>3, <1>4, <2>1 DEF InQueue
<1>7. ASSUME NEW i \in 1 .. Len(less) PROVE less[i] = Len(more) + i
  <2>1. i + 1 \in 1 .. Len(waiting) /\ i \in Nat
    BY <1>1, <1>2
  <2>2. waiting[i + 1] = Len(done) + (i + 1)
    BY <2>1 DEF InQueue
  <2> QED
    BY <1>1, <1>2, <1>4, <2>1, <2>2
<1> HIDE DEF more, less
<1>8. InQueue(more, less, n)
  BY <1>5, <1>6, <1>7 DEF InQueue
<1> QED
  BY <1>3, <1>8 DEF more, less

LEMMA QueueOfNumbers ==
  ASSUME QueueTyped
  PROVE  handled \in Seq(Nat) /\ deqQueue \in Seq(Nat)
<1>1. handled \in Seq(1 .. MaxSends["client"]) /\ deqQueue \in Seq(1 .. MaxSends["client"])
  BY DEF QueueTyped, Queue!TypeOK
<1> QED
  BY <1>1, ElementOfSeq, QueueBounds

(* The step of the main thread that handles a message.                     *)
LEMMA HandlingStep ==
  ASSUME ReadChain, QueueTyped, InTurn, Backlog, PopAndHandle
  PROVE  LET n == Len(handled) + 1
             msg == sent["client"][n]
         IN  /\ n \in 1 .. Len(m_qMessagesIn["server"]) /\ n \in 1 .. Len(sent["client"])
             /\ handled' = Append(handled, n) /\ deqQueue' = Tail(deqQueue) /\ Backlog'
             /\ UNCHANGED <<accepted, m_qMessagesIn>> /\ sent'["client"] = sent["client"]
             /\ IF msg \in HasBody
                THEN accepted /\ sent'["server"] = Append(sent["server"], msg)
                ELSE sent'["server"] = sent["server"]
<1> DEFINE n == Len(handled) + 1
           in == m_qMessagesIn["server"]
           msg == sent["client"][n]
<1>1. /\ in \in Seq(Temporaries) /\ Len(in) \in Nat /\ sent["client"] \in Seq(Messages)
      /\ Len(sent["client"]) \in Nat /\ Len(handled) \in Nat
      /\ sent \in [Ends -> Seq(Messages)]
      /\ handled \in Seq(Nat) /\ deqQueue \in Seq(Nat)
  BY BothEnds, LenProperties, QueueOfNumbers DEF ReadChain, InboundTyped
<1>2. Popped /\ OnMessage(in[Head(deqQueue)].header)
  BY PopStep DEF PopAndHandle
<1>3. /\ Head(deqQueue) = n /\ n <= Len(in)
      /\ InQueue(Append(handled, Head(deqQueue)), Tail(deqQueue), Len(in))
  BY <1>1, <1>2, InQueuePopped DEF Popped, Backlog
<1>4. n \in 1 .. Len(in) /\ n \in 1 .. Len(sent["client"]) /\ in[n].header = msg
  BY <1>1, <1>3, BothEnds DEF InTurn
<1>5. OnMessage(msg)
  BY <1>2, <1>3, <1>4
<1>6. /\ UNCHANGED <<accepted, m_qMessagesIn>> /\ sent'["client"] = sent["client"]
      /\ IF msg \in HasBody
         THEN accepted /\ sent'["server"] = Append(sent["server"], msg)
         ELSE sent'["server"] = sent["server"]
  <2> HIDE DEF msg, in, n
  <2>1. CASE msg \in HasBody
    <3>1. Send("server", msg)
      BY <1>5, <2>1 DEF OnMessage
    <3> QED
      BY <1>1, <2>1, <3>1, BothEnds DEF Send, link, inbound, received
  <2>2. CASE msg \notin HasBody
    BY <1>5, <2>2 DEF OnMessage, vars, link, program, inbound, received
  <2> QED
    BY <2>1, <2>2
<1>7. Backlog'
  BY <1>2, <1>3, <1>6 DEF Popped, Backlog
<1> QED
  BY <1>2, <1>3, <1>4, <1>6, <1>7 DEF Popped

(* The other steps: the queue is drained no further.                       *)
LEMMA OtherStep ==
  ASSUME QueueTyped, PushGoesOn \/ UpdateGoesOn \/ Wakeup \/ UNCHANGED allVars
  PROVE  Untouched /\ UNCHANGED <<accepted, sent, m_qMessagesIn>>
<1>1. UNCHANGED vars
  BY DEF PushGoesOn, UpdateGoesOn, Wakeup, allVars
<1>2. Untouched
  BY FinishStep, DrainStep, WakeupStep, QueueKept DEF PushGoesOn, UpdateGoesOn, Wakeup, allVars
<1> QED
  BY <1>1, <1>2 DEF vars, link, program, inbound, received

(* What Session's invariants say of a state, and so of a step.             *)
SessionInv == ReadChain /\ WriteChain /\ Framed /\ Numbering /\ InTurn

LEMMA ServiceMoves == SessionInv /\ [ServiceNext]_allVars => ReadChain /\ InTurn /\ Moves
BY ServiceStepIsSessionStep, StepMoves DEF SessionInv

LEMMA AlwaysSessionInv == ServiceSpec => []SessionInv
<1>1. ReadChain /\ WriteChain /\ Framed /\ Numbering /\ InTurn => SessionInv
  BY DEF SessionInv
<1> QED
  BY <1>1, ServiceIsSession, AlwaysReadChain, AlwaysWriteChain, AlwaysFramed, AlwaysNumbered,
     AlwaysInTurn, PTL

LEMMA StepBacklog == SessionInv /\ QueueTyped /\ Backlog /\ [ServiceNext]_allVars => Backlog'
<1> SUFFICES ASSUME SessionInv, QueueTyped, Backlog, [ServiceNext]_allVars
             PROVE  Backlog'
  OBVIOUS
<1>0. ReadChain /\ InTurn /\ Moves
  BY ServiceMoves
<1>1. /\ handled \in Seq(Nat) /\ deqQueue \in Seq(Nat)
      /\ m_qMessagesIn["server"] \in Seq(Temporaries) /\ Len(m_qMessagesIn["server"]) \in Nat
  BY QueueOfNumbers, BothEnds, LenProperties, <1>0 DEF ReadChain, InboundTyped
<1>2. CASE ClientSide
  BY <1>0, <1>2, ClientStep DEF queue, Backlog
<1>3. CASE AsioHandler
  <2>1. handled' = handled
    BY <1>0, <1>3, AsioStep
  <2>2. CASE m_qMessagesIn'["server"] = m_qMessagesIn["server"] /\ deqQueue' = deqQueue
    BY <2>1, <2>2 DEF Backlog
  <2>3. ASSUME NEW m \in Temporaries,
               m_qMessagesIn'["server"] = Append(m_qMessagesIn["server"], m),
               deqQueue' = Append(deqQueue, Len(m_qMessagesIn["server"]) + 1)
        PROVE  Backlog'
    <3>1. Len(m_qMessagesIn'["server"]) = Len(m_qMessagesIn["server"]) + 1
      BY <1>1, <2>3, Appended
    <3> QED
      BY <1>1, <2>1, <2>3, <3>1, InQueuePushed DEF Backlog
  <2> QED
    BY <1>0, <1>3, <2>2, <2>3, AsioStep
<1>4. CASE PopAndHandle
  BY <1>0, <1>4, HandlingStep
<1>5. CASE PushGoesOn \/ UpdateGoesOn \/ Wakeup \/ UNCHANGED allVars
  BY <1>5, OtherStep DEF Untouched, Backlog
<1> QED
  BY <1>2, <1>3, <1>4, <1>5 DEF ServiceNext, AsioThread, MainThread

LEMMA InitBacklog == ServiceInit => Backlog
<1> SUFFICES ASSUME ServiceInit PROVE Backlog
  OBVIOUS
<1>1. handled = << >> /\ deqQueue = << >> /\ m_qMessagesIn["server"] = << >> /\ Len(<< >>) = 0
  BY BothEnds DEF ServiceInit, Init, Queue!Init
<1> QED
  BY <1>1 DEF Backlog, InQueue

(* What AddToIncomingMessageQueue pushed is what Update popped and what    *)
(* still waits, in the order it was read.                                  *)
THEOREM AlwaysBacklog == ServiceSpec => []Backlog
BY InitBacklog, StepBacklog, AlwaysQueueTyped, AlwaysSessionInv, PTL DEF ServiceSpec
-----------------------------------------------------------------------------
(* The refinement of Channel, from program to program.                     *)

(* A prefix that grows by one place.                                       *)
LEMMA PrefixGrows ==
  ASSUME NEW s \in Seq(Messages), NEW k \in Nat, k + 1 <= Len(s)
  PROVE  /\ Len([n \in 1 .. k |-> s[n]]) = k
         /\ [n \in 1 .. k + 1 |-> s[n]] = Append([n \in 1 .. k |-> s[n]], s[k + 1])
<1> DEFINE f == [n \in 1 .. k |-> s[n]]
           g == [n \in 1 .. k + 1 |-> s[n]]
<1>1. Len(s) \in Nat /\ \A n \in 1 .. k + 1 : s[n] \in Messages
  BY LenProperties, ElementOfSeq
<1>2. f \in [1 .. k -> Messages] /\ g \in [1 .. k + 1 -> Messages] /\ s[k + 1] \in Messages
  BY <1>1
<1>3. f \in Seq(Messages) /\ g \in Seq(Messages) /\ DOMAIN f = 1 .. k /\ DOMAIN g = 1 .. k + 1
  <2>1. k + 1 \in Nat
    OBVIOUS
  <2> QED
    BY <1>2, <2>1
<1>4. \A n \in 1 .. k + 1 : IF n = k + 1 THEN g[n] = s[k + 1] ELSE n \in 1 .. k /\ g[n] = f[n]
  OBVIOUS
<1> HIDE DEF f, g
<1>5. Len(f) = k /\ Len(g) = k + 1
  BY <1>3, LenProperties
<1>6. /\ Append(f, s[k + 1]) \in Seq(Messages) /\ Len(Append(f, s[k + 1])) = k + 1
      /\ \A n \in 1 .. k : Append(f, s[k + 1])[n] = f[n]
      /\ Append(f, s[k + 1])[k + 1] = s[k + 1]
  BY <1>2, <1>3, <1>5, Appended
<1>7. g = Append(f, s[k + 1])
  BY <1>3, <1>4, <1>5, <1>6, SeqEqual
<1> QED
  BY <1>5, <1>7 DEF f, g

(* What was handled is a prefix of what the client sent.                   *)
HandledFirst ==
  /\ Handled = [n \in 1 .. Len(handled) |-> sent["client"][n]]
  /\ Len(handled) \in Nat /\ Len(handled) <= Len(m_qMessagesIn["server"])
  /\ Len(m_qMessagesIn["server"]) <= Len(sent["client"])

LEMMA AlwaysHandledFirst == ServiceSpec => []HandledFirst
<1>1. ASSUME SessionInv, QueueTyped, Backlog PROVE HandledFirst
  <2> DEFINE in == m_qMessagesIn["server"]
  <2>1. /\ handled \in Seq(Nat) /\ deqQueue \in Seq(Nat) /\ in \in Seq(Temporaries)
        /\ Len(handled) \in Nat /\ Len(deqQueue) \in Nat /\ DOMAIN handled = 1 .. Len(handled)
    BY <1>1, QueueOfNumbers, LenProperties, BothEnds DEF SessionInv, ReadChain, InboundTyped
  <2>2. /\ Len(handled) + Len(deqQueue) = Len(in)
        /\ \A i \in 1 .. Len(handled) : handled[i] = i
    BY <1>1 DEF Backlog, InQueue
  <2>3. /\ Len(in) <= Len(sent["client"])
        /\ \A i \in 1 .. Len(in) : in[i].header = sent["client"][i]
    BY <1>1, BothEnds DEF SessionInv, InTurn
  <2>4. \A n \in 1 .. Len(handled) : n \in 1 .. Len(in)
    BY <2>1, <2>2
  <2>5. \A n \in 1 .. Len(handled) : in[handled[n]].header = sent["client"][n]
    BY <2>2, <2>3, <2>4
  <2>6. Handled = [n \in 1 .. Len(handled) |-> sent["client"][n]]
    BY <2>1, <2>5 DEF Handled
  <2>7. Len(handled) <= Len(in)
    BY <2>1, <2>2
  <2> QED
    BY <2>1, <2>3, <2>6, <2>7 DEF HandledFirst
<1> QED
  BY <1>1, AlwaysSessionInv, AlwaysQueueTyped, AlwaysBacklog, PTL

(* Steps of the channel, as seen in what was sent and how much handled.    *)
LEMMA StepOfChannel ==
  ASSUME SessionInv, QueueTyped, Backlog, [ServiceNext]_allVars
  PROVE  \/ /\ UNCHANGED handled
            /\ \/ sent'["client"] = sent["client"]
               \/ \E msg \in Messages : sent'["client"] = Append(sent["client"], msg)
         \/ /\ sent'["client"] = sent["client"] /\ Len(handled) + 1 <= Len(sent["client"])
            /\ Len(handled') = Len(handled) + 1
<1>1. ReadChain /\ InTurn /\ Moves
  BY ServiceMoves
<1>2. CASE ClientSide
  BY <1>1, <1>2, ClientStep DEF queue
<1>3. CASE AsioHandler
  BY <1>1, <1>3, AsioStep
<1>4. CASE PopAndHandle
  <2>1. handled \in Seq(Nat) /\ Len(handled) + 1 \in Nat
    BY QueueOfNumbers, LenProperties
  <2> QED
    BY <1>1, <1>4, <2>1, HandlingStep, Appended
<1>5. CASE PushGoesOn \/ UpdateGoesOn \/ Wakeup \/ UNCHANGED allVars
  BY <1>5, OtherStep DEF Untouched
<1> QED
  BY <1>2, <1>3, <1>4, <1>5 DEF ServiceNext, AsioThread, MainThread

(* From the client's Send to OnMessage, the connection, the two threads    *)
(* and the queue between them implement a message channel: each message    *)
(* is handled at most once, unchanged and in the order it was sent.        *)
THEOREM RequestsKeepOrder == ServiceSpec => RequestsAreChannel
<1>1. ServiceInit => ToProgram!Init
  <2> SUFFICES ASSUME ServiceInit PROVE ToProgram!Init
    OBVIOUS
  <2>1. handled = << >> /\ sent["client"] = << >> /\ DOMAIN << >> = {}
    BY BothEnds DEF ServiceInit, Init, Queue!Init
  <2>2. [n \in {} |-> m_qMessagesIn["server"][(<< >>)[n]].header] = << >>
    OBVIOUS
  <2> QED
    BY <2>1, <2>2 DEF ToProgram!Init, Handled
<1>2. ASSUME SessionInv, QueueTyped, Backlog, [ServiceNext]_allVars,
             HandledFirst, HandledFirst'
      PROVE  [ToProgram!Next]_(ToProgram!vars)
  <2> DEFINE s == sent["client"]
             t == sent'["client"]
             k == Len(handled)
  <2>1. s \in Seq(Messages) /\ Len(s) \in Nat
    BY <1>2, BothEnds, LenProperties DEF SessionInv, ReadChain, InboundTyped
  <2>2. /\ Handled = [n \in 1 .. k |-> s[n]] /\ k \in Nat /\ k <= Len(s)
        /\ Handled' = [n \in 1 .. Len(handled') |-> t[n]]
    <3>1. k \in Nat /\ k <= Len(m_qMessagesIn["server"]) /\ Len(m_qMessagesIn["server"]) <= Len(s)
          /\ Len(m_qMessagesIn["server"]) \in Nat
      BY <1>2, BothEnds, LenProperties DEF HandledFirst, SessionInv, ReadChain, InboundTyped
    <3> QED
      BY <1>2, <2>1, <3>1 DEF HandledFirst
  <2>3. \/ handled' = handled /\ (t = s \/ \E msg \in Messages : t = Append(s, msg))
        \/ t = s /\ k + 1 <= Len(s) /\ Len(handled') = k + 1
    BY <1>2, StepOfChannel
  <2> HIDE DEF s, t
  <2>4. CASE handled' = handled /\ t = s
    <3>1. Handled' = Handled
      BY <2>2, <2>4
    <3> QED
      BY <2>4, <3>1 DEF ToProgram!vars, s, t
  <2>5. ASSUME handled' = handled, NEW msg \in Messages, t = Append(s, msg)
        PROVE  [ToProgram!Next]_(ToProgram!vars)
    <3>1. \A n \in 1 .. k : n \in 1 .. Len(s)
      BY <2>1, <2>2
    <3>2. Handled' = Handled
      BY <2>1, <2>2, <2>5, <3>1, Appended
    <3> QED
      BY <2>5, <3>2 DEF ToProgram!Next, ToProgram!Send, s, t
  <2>6. CASE t = s /\ k + 1 <= Len(s) /\ Len(handled') = k + 1
    <3> HIDE DEF k
    <3>1. Len(Handled) = k /\ Handled' = Append(Handled, s[k + 1])
      BY <2>1, <2>2, <2>6, PrefixGrows
    <3>2. Len(Handled) < Len(s)
      BY <2>1, <2>2, <2>6, <3>1
    <3> QED
      BY <2>6, <3>1, <3>2 DEF ToProgram!Next, ToProgram!Receive, s, t
  <2> QED
    BY <2>3, <2>4, <2>5, <2>6
<1> QED
  BY <1>1, <1>2, AlwaysSessionInv, AlwaysQueueTyped, AlwaysBacklog, AlwaysHandledFirst, PTL
  DEF ServiceSpec, RequestsAreChannel, ToProgram!Spec
-----------------------------------------------------------------------------
(* From OnMessage back to the client.                                      *)

(* Counting pings along a sequence.                                        *)
LEMMA PingsCounted ==
  ASSUME NEW s, NEW n \in Nat
  PROVE  /\ PingsAmong(s, n) \in Nat /\ PingsAmong(s, 0) = 0
         /\ PingsAmong(s, n + 1) =
              IF s[n + 1] \in HasBody THEN PingsAmong(s, n) + 1 ELSE PingsAmong(s, n)
<1> DEFINE P(k) == {i \in 1 .. k : s[i] \in HasBody}
<1>1. IsFiniteSet(P(n)) /\ Cardinality(P(n)) \in Nat
  <2>1. IsFiniteSet(1 .. n) /\ P(n) \in SUBSET (1 .. n)
    BY FS_Interval
  <2> QED
    BY <2>1, FS_Subset, FS_CardinalityType
<1>2. P(0) = {}
  OBVIOUS
<1>3. CASE s[n + 1] \in HasBody
  <2>1. P(n + 1) = P(n) \cup {n + 1} /\ n + 1 \notin P(n)
    BY <1>3
  <2> HIDE DEF P
  <2>2. Cardinality(P(n + 1)) = Cardinality(P(n)) + 1
    BY <1>1, <2>1, FS_AddElement
  <2> QED
    BY <1>1, <1>2, <1>3, <2>2, FS_EmptySet DEF P, PingsAmong
<1>4. CASE s[n + 1] \notin HasBody
  <2>1. P(n + 1) = P(n)
    BY <1>4
  <2> QED
    BY <1>1, <1>2, <1>4, <2>1, FS_EmptySet DEF PingsAmong
<1> QED
  BY <1>3, <1>4

LEMMA PingsSame ==
  ASSUME NEW s, NEW t, NEW n \in Nat, \A i \in 1 .. n : s[i] = t[i]
  PROVE  PingsAmong(s, n) = PingsAmong(t, n)
<1>1. {i \in 1 .. n : s[i] \in HasBody} = {i \in 1 .. n : t[i] \in HasBody}
  OBVIOUS
<1> QED
  BY <1>1 DEF PingsAmong

(* What the server has sent, out, when the first n messages of the client, *)
(* in, were handled: ServerAccept, and then the pings among them in order. *)
Answers(in, n, out) ==
  /\ n \in Nat /\ n <= Len(in)
  /\ Len(out) = 1 + PingsAmong(in, n)
  /\ out[1] = Accept
  /\ \A i \in 2 .. Len(out) : \E k \in 1 .. n :
       in[k] \in HasBody /\ out[i] = in[k] /\ PingsAmong(in, k) = i - 1

LEMMA AcceptAnswersNone ==
  ASSUME NEW in \in Seq(Messages)
  PROVE  Answers(in, 0, << Accept >>)
<1>1. Len(<< Accept >>) = 1 /\ << Accept >>[1] = Accept /\ Len(in) \in Nat
  BY LenProperties
<1>2. PingsAmong(in, 0) = 0
  BY PingsCounted
<1> QED
  BY <1>1, <1>2 DEF Answers

(* More of the client does not change what was answered ...                *)
LEMMA AnswersMore ==
  ASSUME NEW in \in Seq(Messages), NEW n, NEW out, Answers(in, n, out), NEW msg \in Messages
  PROVE  Answers(Append(in, msg), n, out)
<1> DEFINE z == Append(in, msg)
<1>1. /\ Len(in) \in Nat /\ Len(z) = Len(in) + 1 /\ n \in Nat /\ n <= Len(in)
      /\ \A i \in 1 .. Len(in) : z[i] = in[i]
  BY Appended DEF Answers
<1> HIDE DEF z
<1>2. ASSUME NEW k \in 0 .. n PROVE PingsAmong(z, k) = PingsAmong(in, k)
  <2>1. k \in Nat /\ \A i \in 1 .. k : z[i] = in[i]
    BY <1>1
  <2> QED
    BY <2>1, PingsSame
<1>3. ASSUME NEW k \in 1 .. n PROVE k \in 0 .. n /\ z[k] = in[k]
  BY <1>1
<1>4. n <= Len(z) /\ PingsAmong(z, n) = PingsAmong(in, n)
  BY <1>1, <1>2
<1>5. ASSUME NEW i \in 2 .. Len(out)
      PROVE  \E k \in 1 .. n : z[k] \in HasBody /\ out[i] = z[k] /\ PingsAmong(z, k) = i - 1
  <2>1. PICK k \in 1 .. n : in[k] \in HasBody /\ out[i] = in[k] /\ PingsAmong(in, k) = i - 1
    BY DEF Answers
  <2> QED
    BY <1>2, <1>3, <2>1
<1>6. Answers(z, n, out)
  BY <1>1, <1>4, <1>5 DEF Answers
<1> QED
  BY <1>6 DEF z

(* ... a message that is no ping adds nothing to it, and a ping itself.    *)
LEMMA AnswersOther ==
  ASSUME NEW in \in Seq(Messages), NEW n, NEW out, Answers(in, n, out),
         n + 1 <= Len(in), in[n + 1] \notin HasBody
  PROVE  Answers(in, n + 1, out)
<1>1. n \in Nat /\ n + 1 \in Nat /\ PingsAmong(in, n + 1) = PingsAmong(in, n)
  <2>1. n \in Nat
    BY DEF Answers
  <2>2. PingsAmong(in, n + 1) =
          IF in[n + 1] \in HasBody THEN PingsAmong(in, n) + 1 ELSE PingsAmong(in, n)
    BY <2>1, PingsCounted
  <2> QED
    BY <2>1, <2>2
<1>2. \A k \in 1 .. n : k \in 1 .. n + 1
  BY <1>1
<1> QED
  BY <1>1, <1>2 DEF Answers

LEMMA AnswersPing ==
  ASSUME NEW in \in Seq(Messages), NEW n, NEW out \in Seq(Messages), Answers(in, n, out),
         n + 1 <= Len(in), in[n + 1] \in HasBody
  PROVE  Answers(in, n + 1, Append(out, in[n + 1]))
<1> DEFINE msg == in[n + 1]
           z == Append(out, msg)
<1>1. n \in Nat /\ n + 1 \in 1 .. n + 1 /\ PingsAmong(in, n) \in Nat
      /\ PingsAmong(in, n + 1) = PingsAmong(in, n) + 1
  <2>1. n \in Nat
    BY DEF Answers
  <2> QED
    BY <2>1, PingsCounted
<1>2. msg \in Messages
  BY SessionAssumption
<1> HIDE DEF msg
<1>3. /\ Len(out) \in Nat /\ Len(z) = Len(out) + 1
      /\ \A i \in 1 .. Len(out) : z[i] = out[i]
      /\ z[Len(out) + 1] = msg
  BY <1>2, Appended
<1> HIDE DEF z
<1>4. Len(out) = 1 + PingsAmong(in, n) /\ Len(z) = 1 + PingsAmong(in, n + 1) /\ z[1] = Accept
  <2>1. Len(out) = 1 + PingsAmong(in, n) /\ out[1] = Accept
    BY DEF Answers
  <2>2. 1 \in 1 .. Len(out)
    BY <1>1, <2>1
  <2> QED
    BY <1>1, <1>3, <2>1, <2>2
<1>5. ASSUME NEW i \in 2 .. Len(z)
      PROVE  \E k \in 1 .. n + 1 : in[k] \in HasBody /\ z[i] = in[k] /\ PingsAmong(in, k) = i - 1
  <2>1. CASE i = Len(out) + 1
    <3>1. z[i] = in[n + 1] /\ PingsAmong(in, n + 1) = i - 1
      BY <1>1, <1>3, <1>4, <2>1 DEF msg
    <3> QED
      BY <1>1, <3>1
  <2>2. CASE i # Len(out) + 1
    <3>1. i \in 2 .. Len(out) /\ i \in 1 .. Len(out)
      BY <1>3, <2>2
    <3>2. PICK k \in 1 .. n : in[k] \in HasBody /\ out[i] = in[k] /\ PingsAmong(in, k) = i - 1
      BY <3>1 DEF Answers
    <3>3. k \in 1 .. n + 1
      BY <1>1
    <3> QED
      BY <1>3, <3>1, <3>2, <3>3
  <2> QED
    BY <2>1, <2>2
<1>6. Answers(in, n + 1, z)
  <2>1. n + 1 \in Nat
    BY <1>1
  <2> QED
    BY <1>4, <1>5, <2>1 DEF Answers
<1> QED
  BY <1>6 DEF z, msg

(* The invariant behind AnswersInOrder.                                    *)
Answered == IF accepted THEN Answers(sent["client"], Len(handled), sent["server"])
                        ELSE sent["server"] = << >>

LEMMA StepAnswered ==
  SessionInv /\ QueueTyped /\ Backlog /\ HandledFirst /\ Answered /\ [ServiceNext]_allVars
  => Answered'
<1> SUFFICES ASSUME SessionInv, QueueTyped, Backlog, HandledFirst, Answered, [ServiceNext]_allVars
             PROVE  Answered'
  OBVIOUS
<1> DEFINE in == sent["client"]
           out == sent["server"]
           n == Len(handled)
<1>1. ReadChain /\ InTurn /\ Moves
  BY ServiceMoves
<1>2. /\ in \in Seq(Messages) /\ out \in Seq(Messages) /\ n \in Nat /\ n <= Len(in)
      /\ Len(in) \in Nat
  <2>1. Len(m_qMessagesIn["server"]) \in Nat /\ Len(in) \in Nat
    BY <1>1, BothEnds, LenProperties DEF ReadChain, InboundTyped
  <2> QED
    BY <1>1, <2>1, BothEnds DEF HandledFirst, ReadChain, InboundTyped
<1>3. ~accepted => n = 0
  <2>1. ~accepted => Len(m_qMessagesIn["server"]) = 0
    BY <1>1 DEF ReadChain, NothingBeforeAccept
  <2> QED
    BY <2>1 DEF HandledFirst
<1>4. CASE ClientSide
  <2>1. /\ UNCHANGED <<accepted, handled>> /\ sent'["server"] = out
        /\ sent'["client"] = in \/ \E msg \in Messages : sent'["client"] = Append(in, msg)
    BY <1>1, <1>4, ClientStep DEF queue
  <2> HIDE DEF in, out
  <2>2. accepted => Answers(sent'["client"], n, out)
    BY <1>2, <2>1, AnswersMore DEF Answered, in, out
  <2> QED
    BY <2>1, <2>2 DEF Answered, out
<1>5. CASE AsioHandler
  <2>1. sent'["client"] = in /\ handled' = handled
    BY <1>1, <1>5, AsioStep
  <2>2. CASE UNCHANGED <<sent, accepted>>
    BY <2>1, <2>2 DEF Answered
  <2>3. CASE ~accepted /\ accepted' /\ sent'["server"] = Append(out, Accept)
    <3>1. sent'["server"] = << Accept >>
      <4>1. out = << >>
        BY <2>3 DEF Answered
      <4> QED
        BY <2>3, <4>1
    <3>2. Answers(in, n, << Accept >>)
      BY <1>2, <1>3, <2>3, AcceptAnswersNone
    <3> QED
      BY <2>1, <2>3, <3>1, <3>2 DEF Answered
  <2> QED
    BY <1>1, <1>5, <2>2, <2>3, AsioStep
<1>6. CASE PopAndHandle
  <2>1. /\ n + 1 \in 1 .. Len(m_qMessagesIn["server"]) /\ n + 1 <= Len(in)
        /\ handled' = Append(handled, n + 1)
        /\ accepted' = accepted /\ sent'["client"] = in
        /\ IF in[n + 1] \in HasBody THEN sent'["server"] = Append(out, in[n + 1])
                                    ELSE sent'["server"] = out
    BY <1>1, <1>2, <1>6, HandlingStep
  <2>2. accepted
    <3>1. Len(m_qMessagesIn["server"]) # 0
      BY <2>1
    <3> QED
      BY <1>1, <3>1 DEF ReadChain, NothingBeforeAccept, InboundTyped
  <2>3. Len(handled') = n + 1
    <3>1. handled \in Seq(Nat) /\ n + 1 \in Nat
      BY <1>2, QueueOfNumbers
    <3> QED
      BY <2>1, <3>1, Appended
  <2>4. Answers(in, n, out)
    BY <2>2 DEF Answered
  <2> HIDE DEF in, out, n
  <2>5. Answers(in, n + 1, sent'["server"])
    BY <1>2, <2>1, <2>4, AnswersOther, AnswersPing
  <2> QED
    BY <2>1, <2>2, <2>3, <2>5 DEF Answered
<1>7. CASE PushGoesOn \/ UpdateGoesOn \/ Wakeup \/ UNCHANGED allVars
  BY <1>7, OtherStep DEF Untouched, Answered
<1> QED
  BY <1>4, <1>5, <1>6, <1>7 DEF ServiceNext, AsioThread, MainThread

(* OnClientConnect and OnMessage have given Send the ServerAccept and then *)
(* each ping that was handled, and nothing else.                           *)
THEOREM AlwaysAnswered == ServiceSpec => []Answered
<1>1. ServiceInit => Answered
  BY BothEnds DEF ServiceInit, Init, Answered
<1> QED
  BY <1>1, StepAnswered, AlwaysSessionInv, AlwaysQueueTyped, AlwaysBacklog, AlwaysHandledFirst, PTL
  DEF ServiceSpec

(* The client gets ServerAccept and then its own pings back, one for one   *)
(* and in their order, each with its body and only after the main thread   *)
(* of the server took it up, whatever else is sent, closed or fails.       *)
THEOREM AnswersKeepOrder == ServiceSpec => []AnswersInOrder
<1>1. ASSUME SessionInv, BodyDelivered, HandledFirst, QueueTyped, Answered PROVE AnswersInOrder
  <2> SUFFICES ASSUME NEW i \in DOMAIN m_qMessagesIn["client"]
               PROVE  LET answer == m_qMessagesIn["client"][i]
                      IN  IF i = 1 THEN answer.header = Accept
                          ELSE /\ answer.header \in HasBody /\ answer.body = answer.header
                               /\ \E k \in DOMAIN handled :
                                    /\ answer.header = sent["client"][k]
                                    /\ PingsAmong(sent["client"], k) = i - 1
    BY DEF AnswersInOrder
  <2> DEFINE answer == m_qMessagesIn["client"][i]
             out == sent["server"]
  <2>1. /\ m_qMessagesIn["client"] \in Seq(Temporaries) /\ out \in Seq(Messages)
        /\ Len(m_qMessagesIn["client"]) \in Nat /\ Len(out) \in Nat
        /\ i \in 1 .. Len(m_qMessagesIn["client"]) /\ Len(m_qMessagesIn["client"]) <= Len(out)
        /\ answer.header = out[i]
    <3>1. m_qMessagesIn["client"] \in Seq(Temporaries) /\ out \in Seq(Messages)
      BY <1>1, BothEnds DEF SessionInv, ReadChain, InboundTyped
    <3>2. i \in 1 .. Len(m_qMessagesIn["client"])
      BY <3>1, LenProperties
    <3>3. /\ Len(m_qMessagesIn["client"]) <= Len(out)
          /\ \A j \in 1 .. Len(m_qMessagesIn["client"]) : m_qMessagesIn["client"][j].header = out[j]
      BY <1>1, BothEnds DEF SessionInv, InTurn
    <3> QED
      BY <3>1, <3>2, <3>3, LenProperties
  <2>2. i \in 1 .. Len(out)
    BY <2>1
  <2>3. Answers(sent["client"], Len(handled), out)
    <3>1. accepted
      BY <1>1, <2>2 DEF Answered
    <3> QED
      BY <1>1, <3>1 DEF Answered
  <2>4. CASE i = 1
    BY <2>1, <2>3, <2>4 DEF Answers
  <2>5. CASE i # 1
    <3>1. i \in 2 .. Len(out)
      BY <2>2, <2>5
    <3>2. PICK k \in 1 .. Len(handled) :
            /\ sent["client"][k] \in HasBody /\ out[i] = sent["client"][k]
            /\ PingsAmong(sent["client"], k) = i - 1
      BY <2>3, <3>1 DEF Answers
    <3>3. k \in DOMAIN handled
      BY <1>1, QueueOfNumbers, LenProperties
    <3>4. answer.header \in HasBody /\ answer.body = answer.header
      BY <1>1, <2>1, <3>2, BothEnds DEF BodyDelivered
    <3> QED
      BY <2>1, <2>5, <3>2, <3>3, <3>4
  <2> QED
    BY <2>4, <2>5
<1> QED
  BY <1>1, ServiceIsSession, AlwaysSessionInv, AlwaysBodyDelivered, AlwaysHandledFirst,
     AlwaysQueueTyped, AlwaysAnswered, PTL
=============================================================================
