------------------------------ MODULE Service ------------------------------
(***************************************************************************)
(* CustomServer (SimpleServer.cpp) at work for one client: Session, where  *)
(* what the server's program sends is no longer free.  Its incoming queue  *)
(* is TSQueue's: the asio thread pushes to it, and the main thread drains  *)
(* it and calls OnMessage, which answers.                                  *)
(*                                                                         *)
(* A handler of the asio thread that queues a message is inside push_back  *)
(* until the push returns, and the thread runs no other handler meanwhile. *)
(* That the next header is read only then makes no difference: what a read *)
(* may do depends on the socket, which only this thread closes.  The main  *)
(* thread is in OnMessage between a pop_front and the next test of the     *)
(* queue; its one effect on others is the lambda that Send posts.          *)
(***************************************************************************)
EXTENDS Session

CONSTANT nMaxMessages  \* Update's first argument

VARIABLES deqQueue, muxQueue, muxBlocking, cvBlocking, pc, nMessagesCount,
          pushed, handled, dropped

queue == <<deqQueue, muxQueue, muxBlocking, cvBlocking, pc, nMessagesCount,
           pushed, handled, dropped>>
allVars == <<vars, queue>>

(* Update(nMaxMessages, true) behind the handlers of the asio thread.      *)
ServerUse == [push |-> {"push_back"}, pop |-> {"pop_front"}, bWait |-> TRUE]

(* A queued message is its number among the messages that were queued.     *)
(* (TLC takes an UNCHANGED use only of a record written out.)              *)
Queue == INSTANCE TSQueue WITH
  Producers <- {"asio"}, Consumers <- {"main"}, Items <- 1 .. MaxSends["client"],
  None <- "nobody", Uses <- {ServerUse},
  use <- [push |-> {"push_back"}, pop |-> {"pop_front"}, bWait |-> TRUE]

(* OnMessage's answers are among what Session lets a server send, and its  *)
(* bound leaves room for ServerAccept and an answer to each message.       *)
ASSUME ServiceAssumption ==
  /\ HasBody \subseteq SentBy["server"]
  /\ Accept \notin SentBy["client"]
  /\ MaxSends["server"] > MaxSends["client"]
  /\ nMaxMessages \in Nat \ {0}

ServiceInit == Init /\ Queue!Init

QueuedNow == Len(m_qMessagesIn'["server"])

AsioHandler ==
  /\ pc["asio"] = "idle"
  /\ ServerThread
  /\ IF QueuedNow = Len(m_qMessagesIn["server"])
     THEN UNCHANGED queue
     ELSE Queue!push_back("asio") /\ pushed' = Append(pushed, QueuedNow)

PushGoesOn == Queue!Finish("asio") /\ UNCHANGED vars

(* A slip: whatever it is, it is sent back.                                *)
OnMessageEchoes(msg) == Send("server", msg)

(* A ping is sent back; MessageAll goes to the other clients.              *)
OnMessage(msg) ==
  IF msg \in HasBody THEN Send("server", msg) ELSE UNCHANGED vars

PopAndHandle ==
  /\ Queue!pop_front("main")
  /\ OnMessage(m_qMessagesIn["server"][Head(deqQueue)].header)

UpdateGoesOn == pc["main"] # "pop" /\ Queue!Drain("main") /\ UNCHANGED vars

Wakeup == Queue!SpuriousWakeup("main") /\ UNCHANGED vars

ClientSide ==
  /\ \/ ConnectToServer \/ TcpConnect \/ NetworkFails
     \/ Program("client") \/ ClientThread
  /\ UNCHANGED queue

AsioThread == AsioHandler \/ PushGoesOn
MainThread == PopAndHandle \/ UpdateGoesOn

ServiceNext == ClientSide \/ AsioThread \/ MainThread \/ Wakeup

ServiceSpec == ServiceInit /\ [][ServiceNext]_allVars

(* Both threads of the server are scheduled, and the client's asio thread. *)
ServiceFairness ==
  /\ WF_allVars(ClientThread /\ UNCHANGED queue)
  /\ WF_allVars(AsioThread) /\ WF_allVars(MainThread)

FairServiceSpec == ServiceSpec /\ ServiceFairness
-----------------------------------------------------------------------------
(* Types of both ends, of the queue and of the server's two threads.       *)
ServiceTypeOK == TypeOK /\ Queue!TypeOK

(* What the main thread hands to OnMessage is, once each and in order,     *)
(* what the client gave to Send, across the connection, both threads and   *)
(* the queue between them.                                                 *)
Handled == [n \in DOMAIN handled |-> m_qMessagesIn["server"][handled[n]].header]

ToProgram == INSTANCE Channel WITH Items <- Messages, sent <- sent["client"],
                                   rcvd <- Handled
RequestsAreChannel == ToProgram!Spec

(* The first message that reaches the client is ServerAccept, and the n-th *)
(* after it the client's own n-th ping, with its body, which OnMessage was *)
(* given before, whatever else the client sent in between.                 *)
PingsAmong(s, n) == Cardinality({i \in 1 .. n : s[i] \in HasBody})

AnswersInOrder == \A i \in DOMAIN m_qMessagesIn["client"] :
  LET answer == m_qMessagesIn["client"][i]
  IN  IF i = 1 THEN answer.header = Accept
      ELSE /\ answer.header \in HasBody /\ answer.body = answer.header
           /\ \E k \in DOMAIN handled :
                /\ answer.header = sent["client"][k]
                /\ PingsAmong(sent["client"], k) = i - 1

(* A ping sent on an established connection is answered, unless the        *)
(* connection is cut or the main thread sleeps for good over a message     *)
(* that has reached its queue, as wait() may (SleepsOnlyWhileEmpty of      *)
(* TSQueue): nothing else on the way there and back loses it.              *)
PingAnswered == \A n \in 1 .. MaxSends["client"] :
  established /\ PingsAmong(sent["client"], Len(sent["client"])) >= n
    ~> \/ Len(m_qMessagesIn["client"]) > n
       \/ broken
       \/ []("main" \in cvBlocking /\ deqQueue # << >>)
=============================================================================
