------------------------------ MODULE Session ------------------------------
(***************************************************************************)
(* One connection, both ends of it: connection<T> (net_connection.h) as    *)
(* the client and as the server instantiate it, with the TCP stream        *)
(* between them.  Each end has a program thread, which calls Send and      *)
(* Disconnect, and an asio thread, which runs one handler at a time.  An   *)
(* action of the asio thread is one handler: an outstanding operation      *)
(* completes and its lambda runs to the end.                               *)
(*                                                                         *)
(* The stream carries chunks: the 8 bytes of a validation value, the 8     *)
(* bytes of a message header, the bytes of a body.  A write hands its      *)
(* chunk to the stream when it is started; its handler runs later.         *)
(***************************************************************************)
EXTENDS Integers, Sequences, FiniteSets

CONSTANTS Messages,    \* the messages the two programs send
          HasBody,     \* those with a body (ServerPing); the others are a header
          Accept,      \* ServerAccept, what OnClientConnect sends
          ValidationValues,  \* the values m_nADVOut may take at the server
          Scrambled(_), \* connection::scramble
          CloseOp,     \* a posted socket close, as opposed to a posted Send
          None,        \* no message
          SentBy,      \* per end: the messages its program sends
          MaxSends     \* bound, per end: how many

Ends == {"client", "server"}
Peer(e) == IF e = "client" THEN "server" ELSE "client"

ASSUME SessionAssumption ==
  /\ HasBody \subseteq Messages
  /\ Accept \in Messages \ HasBody
  /\ CloseOp \notin Messages
  /\ None \notin Messages
  /\ SentBy \in [Ends -> SUBSET Messages]
  /\ MaxSends \in [Ends -> Nat]

VARIABLES
  m_socket,          \* per end: "none", "open", "connected" or "closed"
  connecting,        \* the client's async_connect is outstanding
  accepted,          \* the server's accept handler has made its connection
  established,       \* TCP connected the two sockets (never reset)
  broken,            \* the stream is cut: an end closed, or the network failed
  net,               \* per end: the chunks on their way to it
  running,           \* the client's thread is inside m_context.run()
  posted,            \* per end: lambdas given to asio::post, oldest first
  reading,           \* per end: the outstanding async_reads
  writing,           \* per end: the outstanding async_writes of messages
  advWriting,        \* per end: the outstanding async_write of WriteValidation
  m_qMessagesOut,    \* per end: queue of messages to write
  m_qMessagesIn,     \* per end: every message queued for the program
  m_msgTemporaryIn,  \* per end: the message being read
  m_nADVOut,         \* per end: the validation value to write
  validated,         \* the server called OnClientValidated
  rejected,          \* the server closed on a wrong validation value
  sent               \* history, per end: the messages given to Send

wire == <<m_socket, broken, net>>
link == <<connecting, accepted, established, running>>
program == <<posted, sent>>
handshake == <<m_nADVOut, validated, rejected, advWriting>>
received == <<m_qMessagesIn, m_msgTemporaryIn>>
inbound == <<reading, received>>
outbound == <<writing, m_qMessagesOut>>
vars == <<wire, link, program, handshake, inbound, outbound>>

Init ==
  /\ m_socket = [e \in Ends |-> "none"]
  /\ connecting = FALSE
  /\ accepted = FALSE
  /\ established = FALSE
  /\ broken = FALSE
  /\ net = [e \in Ends |-> << >>]
  /\ running = FALSE
  /\ posted = [e \in Ends |-> << >>]
  /\ reading = [e \in Ends |-> << >>]
  /\ writing = [e \in Ends |-> << >>]
  /\ advWriting = [e \in Ends |-> "idle"]
  /\ m_qMessagesOut = [e \in Ends |-> << >>]
  /\ m_qMessagesIn = [e \in Ends |-> << >>]
  /\ m_msgTemporaryIn = [e \in Ends |-> [header |-> None, body |-> None]]
  /\ m_nADVOut = [e \in Ends |-> None]
  /\ validated = FALSE
  /\ rejected = FALSE
  /\ sent = [e \in Ends |-> << >>]
-----------------------------------------------------------------------------
(* Operations, chunks, and the ways a handler is entered.                  *)

IsConnected(e) == m_socket[e] \in {"open", "connected"}
Connected(e) == m_socket[e] = "connected"

Chunk(kind, val) == [kind |-> kind, val |-> val]

(* An operation started on a socket that is not connected can only fail.   *)
Op(e, kind) == [kind |-> kind, live |-> Connected(e)]
Live(e) == IF Connected(e) THEN "live" ELSE "dead"

Transmit(e, chunk) ==
  net' = IF Connected(e) /\ ~broken
         THEN [net EXCEPT ![Peer(e)] = Append(@, chunk)] ELSE net

Close(e) == /\ m_socket' = [m_socket EXCEPT ![e] = "closed"]
            /\ broken' = TRUE

(* The server's context always has an accept outstanding and never stops.  *)
Running(e) == e = "server" \/ running

ReadCompletes(e, kind) ==
  /\ Running(e)
  /\ reading[e] # << >>
  /\ Head(reading[e]) = [kind |-> kind, live |-> TRUE]
  /\ net[e] # << >>

ReadFails(e) ==
  /\ Running(e)
  /\ reading[e] # << >>
  /\ ~Head(reading[e]).live \/ broken

StartRead(e, kind) == reading' = [reading EXCEPT ![e] = Append(@, Op(e, kind))]

ReadNext(e, ops) == reading' = [reading EXCEPT ![e] = Tail(@) \o ops]

WriteCompletes(e, kind) ==
  /\ Running(e)
  /\ writing[e] # << >>
  /\ Head(writing[e]) = [kind |-> kind, live |-> TRUE]

WriteFails(e) ==
  /\ Running(e)
  /\ writing[e] # << >>
  /\ ~Head(writing[e]).live \/ broken

WriteNext(e, ops) == writing' = [writing EXCEPT ![e] = Tail(@) \o ops]
-----------------------------------------------------------------------------
(* Program threads.                                                        *)

(* client_interface::Connect: async_connect opens the socket at once, then *)
(* the thread enters run().  Connect is called once, and for one endpoint. *)
ConnectToServer ==
  /\ m_socket["client"] = "none"
  /\ m_socket' = [m_socket EXCEPT !["client"] = "open"]
  /\ connecting' = TRUE
  /\ running' = TRUE
  /\ UNCHANGED <<broken, net, accepted, established, program, handshake,
                 inbound, outbound>>

(* client_interface::Send asks IsConnected() first; the server's OnMessage *)
(* calls connection::Send on the connection it was given.                  *)
Send(e, msg) ==
  /\ IF e = "client" THEN IsConnected(e) ELSE accepted
  /\ Len(sent[e]) < MaxSends[e]
  /\ sent' = [sent EXCEPT ![e] = Append(@, msg)]
  /\ posted' = [posted EXCEPT ![e] = Append(@, msg)]
  /\ UNCHANGED <<wire, link, handshake, inbound, outbound>>

(* Bound: one close is posted at a time.                                   *)
Disconnect(e) ==
  /\ IsConnected(e)
  /\ \A i \in DOMAIN posted[e] : posted[e][i] # CloseOp
  /\ posted' = [posted EXCEPT ![e] = Append(@, CloseOp)]
  /\ UNCHANGED <<sent, wire, link, handshake, inbound, outbound>>
-----------------------------------------------------------------------------
(* Environment: the TCP handshake with the listening socket, and a failure *)
(* of the network that both ends get to know as an error.                  *)
TcpConnect ==
  /\ connecting
  /\ m_socket["client"] = "open"
  /\ m_socket' = [m_socket EXCEPT !["client"] = "connected"]
  /\ established' = TRUE
  /\ UNCHANGED <<broken, net, running, connecting, accepted, program,
                 handshake, inbound, outbound>>

NetworkFails ==
  /\ established
  /\ ~broken
  /\ broken' = TRUE
  /\ UNCHANGED <<m_socket, net, link, program, handshake, inbound, outbound>>
-----------------------------------------------------------------------------
(* asio threads: connecting.                                               *)

(* The lambda of ConnectToServer.  On an error it does nothing at all.     *)
ConnectCompletes ==
  /\ running
  /\ connecting
  /\ connecting' = FALSE
  /\ IF Connected("client")
     THEN StartRead("client", "adv")
     ELSE UNCHANGED reading
  /\ UNCHANGED <<running, accepted, established, wire, program, handshake,
                 outbound, received>>

(* The accept handler of WaitForClientConnection: OnClientConnect posts    *)
(* ServerAccept, then ConnectToClient starts WriteValidation and           *)
(* ReadValidation.                                                         *)
AcceptConnection ==
  /\ established
  /\ ~accepted
  /\ accepted' = TRUE
  /\ m_socket' = [m_socket EXCEPT !["server"] = "connected"]
  /\ sent' = [sent EXCEPT !["server"] = Append(@, Accept)]
  /\ posted' = [posted EXCEPT !["server"] = Append(@, Accept)]
  /\ \E challenge \in ValidationValues :
       /\ m_nADVOut' = [m_nADVOut EXCEPT !["server"] = challenge]
       /\ net' = IF broken THEN net
                 ELSE [net EXCEPT !["client"] = Append(@, Chunk("adv", challenge))]
  /\ advWriting' = [advWriting EXCEPT !["server"] = "live"]
  /\ reading' = [reading EXCEPT !["server"] = << [kind |-> "adv", live |-> TRUE] >>]
  /\ UNCHANGED <<broken, running, connecting, established, validated, rejected,
                 outbound, received>>

m_nADVCheck == Scrambled(m_nADVOut["server"])

(* A slip: a wrong answer does not end the connection.                     *)
ReadValidationNoClose ==
  /\ ReadCompletes("server", "adv")
  /\ net' = [net EXCEPT !["server"] = Tail(@)]
  /\ validated' = (Head(net["server"]) = Chunk("adv", m_nADVCheck))
  /\ rejected' = ~validated'
  /\ ReadNext("server", << Op("server", "hdr") >>)
  /\ UNCHANGED <<m_socket, broken, advWriting, m_nADVOut, link, program,
                 outbound, received>>

(* The lambda of ReadValidation at the server and at the client.           *)
ReadValidationServer ==
  /\ ReadCompletes("server", "adv")
  /\ net' = [net EXCEPT !["server"] = Tail(@)]
  /\ IF Head(net["server"]) = Chunk("adv", m_nADVCheck)
     THEN /\ validated' = TRUE
          /\ ReadNext("server", << Op("server", "hdr") >>)
          /\ UNCHANGED <<m_socket, broken, rejected>>
     ELSE /\ rejected' = TRUE
          /\ ReadNext("server", << >>)
          /\ Close("server")
          /\ UNCHANGED validated
  /\ UNCHANGED <<advWriting, m_nADVOut, link, program, outbound, received>>

AnswerWith(answer) ==
  /\ ReadCompletes("client", "adv")
  /\ m_nADVOut' = [m_nADVOut EXCEPT !["client"] = answer]
  /\ net' = [net EXCEPT !["client"] = Tail(@),
                        !["server"] = IF Connected("client") /\ ~broken
                                      THEN Append(@, Chunk("adv", answer)) ELSE @]
  /\ advWriting' = [advWriting EXCEPT !["client"] = Live("client")]
  /\ ReadNext("client", << >>)
  /\ UNCHANGED <<m_socket, broken, validated, rejected, link, program,
                 outbound, received>>

(* A slip: the challenge is sent back as it came.                          *)
ReadValidationEchoes == AnswerWith(Head(net["client"]).val)

ReadValidationClient == AnswerWith(Scrambled(Head(net["client"]).val))

(* The lambda of WriteValidation: the client goes on to read messages.     *)
WriteValidationThenRead(e, readers) ==
  /\ Running(e)
  /\ advWriting[e] = "live"
  /\ advWriting' = [advWriting EXCEPT ![e] = "idle"]
  /\ IF e \in readers THEN StartRead(e, "hdr") ELSE UNCHANGED reading
  /\ UNCHANGED <<m_nADVOut, validated, rejected, wire, link, program, outbound,
                 received>>

(* A slip: the server reads on too, next to its ReadValidation.            *)
WriteValidationAllRead(e) == WriteValidationThenRead(e, Ends)

WriteValidationCompletes(e) == WriteValidationThenRead(e, {"client"})

WriteValidationFails(e) ==
  /\ Running(e)
  /\ advWriting[e] = "dead" \/ (advWriting[e] = "live" /\ broken)
  /\ advWriting' = [advWriting EXCEPT ![e] = "idle"]
  /\ Close(e)
  /\ UNCHANGED <<net, m_nADVOut, validated, rejected, link, program, inbound,
                 outbound>>
-----------------------------------------------------------------------------
(* asio threads: reading messages.                                         *)

(* AddToIncomingMessageQueue: the temporary message goes to the program as *)
(* it is, and the next header is read.                                     *)
AddToIncomingMessageQueue(e, temporary) ==
  /\ m_qMessagesIn' = [m_qMessagesIn EXCEPT ![e] = Append(@, temporary)]
  /\ ReadNext(e, << Op(e, "hdr") >>)

(* The lambda of ReadHeader.  The body is only resized, and so replaced,   *)
(* when the header announces one.                                          *)
ReadHeader(e) ==
  /\ ReadCompletes(e, "hdr")
  /\ Head(net[e]).kind = "hdr"
  /\ net' = [net EXCEPT ![e] = Tail(@)]
  /\ LET msg == Head(net[e]).val
         temporary == [m_msgTemporaryIn[e] EXCEPT !.header = msg]
     IN /\ m_msgTemporaryIn' = [m_msgTemporaryIn EXCEPT ![e] = temporary]
        /\ \/ /\ msg \in HasBody
              /\ ReadNext(e, << Op(e, "body") >>)
              /\ UNCHANGED m_qMessagesIn
           \/ /\ msg \notin HasBody
              /\ AddToIncomingMessageQueue(e, temporary)
  /\ UNCHANGED <<m_socket, broken, link, program, handshake, outbound>>

(* A slip: the bytes read do not reach the temporary message.              *)
ReadBodyElsewhere(e) ==
  /\ ReadCompletes(e, "body")
  /\ net' = [net EXCEPT ![e] = Tail(@)]
  /\ AddToIncomingMessageQueue(e, m_msgTemporaryIn[e])
  /\ UNCHANGED <<m_socket, broken, m_msgTemporaryIn, link, program, handshake,
                 outbound>>

ReadBody(e) ==
  /\ ReadCompletes(e, "body")
  /\ Head(net[e]).kind = "body"
  /\ net' = [net EXCEPT ![e] = Tail(@)]
  /\ LET temporary == [m_msgTemporaryIn[e] EXCEPT !.body = Head(net[e]).val]
     IN /\ m_msgTemporaryIn' = [m_msgTemporaryIn EXCEPT ![e] = temporary]
        /\ AddToIncomingMessageQueue(e, temporary)
  /\ UNCHANGED <<m_socket, broken, link, program, handshake, outbound>>

(* A slip: a read error closes nothing.                                    *)
ReadErrorIgnored(e) ==
  /\ ReadFails(e)
  /\ ReadNext(e, << >>)
  /\ UNCHANGED <<wire, link, program, handshake, outbound, received>>

(* Any failed async_read, of a validation value, a header or a body.       *)
ReadError(e) ==
  /\ ReadFails(e)
  /\ ReadNext(e, << >>)
  /\ Close(e)
  /\ UNCHANGED <<net, link, program, handshake, outbound, received>>
-----------------------------------------------------------------------------
(* asio threads: writing messages.                                         *)

(* The lambda posted by Send: start writing unless a write is under way.   *)
QueueToSend(e, bWritingMessage) ==
  /\ Running(e)
  /\ posted[e] # << >>
  /\ posted' = [posted EXCEPT ![e] = Tail(@)]
  /\ m_qMessagesOut' = [m_qMessagesOut EXCEPT ![e] = Append(@, Head(posted[e]))]
  /\ IF bWritingMessage
     THEN UNCHANGED <<writing, net>>
     ELSE /\ writing' = [writing EXCEPT ![e] = Append(@, Op(e, "hdr"))]
          /\ Transmit(e, Chunk("hdr", Head(posted[e])))
  /\ UNCHANGED <<m_socket, broken, sent, link, handshake, inbound>>

(* Slips: a write is always started; the queue is looked at after the      *)
(* push_back; every posted lambda is taken for a Send.                     *)
PostedSendAlwaysWrites(e) ==
  posted[e] # << >> /\ Head(posted[e]) # CloseOp /\ QueueToSend(e, FALSE)
PostedSendLooksLate(e) ==
  posted[e] # << >> /\ Head(posted[e]) # CloseOp /\ QueueToSend(e, TRUE)
PostedSendAnything(e) == QueueToSend(e, m_qMessagesOut[e] # << >>)

PostedSend(e) ==
  /\ posted[e] # << >>
  /\ Head(posted[e]) # CloseOp
  /\ QueueToSend(e, m_qMessagesOut[e] # << >>)

(* The lambda posted by Disconnect.                                        *)
PostedClose(e) ==
  /\ Running(e)
  /\ posted[e] # << >>
  /\ Head(posted[e]) = CloseOp
  /\ posted' = [posted EXCEPT ![e] = Tail(@)]
  /\ Close(e)
  /\ UNCHANGED <<net, sent, link, handshake, inbound, outbound>>

(* A slip: the next header is written before the pop_front.                *)
WriteNextAndPop(e) ==
  /\ m_qMessagesOut' = [m_qMessagesOut EXCEPT ![e] = Tail(@)]
  /\ IF Tail(m_qMessagesOut[e]) # << >>
     THEN /\ WriteNext(e, << Op(e, "hdr") >>)
          /\ Transmit(e, Chunk("hdr", Head(m_qMessagesOut[e])))
     ELSE /\ WriteNext(e, << >>)
          /\ UNCHANGED net

(* pop_front, and WriteHeader for the next message if there is one.        *)
PopAndWriteNext(e) ==
  /\ m_qMessagesOut' = [m_qMessagesOut EXCEPT ![e] = Tail(@)]
  /\ IF Tail(m_qMessagesOut[e]) # << >>
     THEN /\ WriteNext(e, << Op(e, "hdr") >>)
          /\ Transmit(e, Chunk("hdr", Head(Tail(m_qMessagesOut[e]))))
     ELSE /\ WriteNext(e, << >>)
          /\ UNCHANGED net

(* A slip: the body of the front message is forgotten.                     *)
WriteHeaderOnly(e) ==
  /\ WriteCompletes(e, "hdr")
  /\ PopAndWriteNext(e)
  /\ UNCHANGED <<m_socket, broken, link, program, handshake, inbound>>

WriteHeader(e) ==
  /\ WriteCompletes(e, "hdr")
  /\ IF Head(m_qMessagesOut[e]) \in HasBody
     THEN /\ WriteNext(e, << Op(e, "body") >>)
          /\ Transmit(e, Chunk("body", Head(m_qMessagesOut[e])))
          /\ UNCHANGED m_qMessagesOut
     ELSE PopAndWriteNext(e)
  /\ UNCHANGED <<m_socket, broken, link, program, handshake, inbound>>

WriteBody(e) ==
  /\ WriteCompletes(e, "body")
  /\ PopAndWriteNext(e)
  /\ UNCHANGED <<m_socket, broken, link, program, handshake, inbound>>

WriteError(e) ==
  /\ WriteFails(e)
  /\ WriteNext(e, << >>)
  /\ Close(e)
  /\ UNCHANGED <<net, m_qMessagesOut, link, program, handshake, inbound>>

(* run() returns when the client's context has no work left; what is       *)
(* posted afterwards is never run.                                         *)
RunReturns ==
  /\ running
  /\ ~connecting
  /\ posted["client"] = << >> /\ reading["client"] = << >>
  /\ writing["client"] = << >> /\ advWriting["client"] = "idle"
  /\ running' = FALSE
  /\ UNCHANGED <<connecting, accepted, established, wire, program, handshake,
                 inbound, outbound>>
-----------------------------------------------------------------------------
Program(e) == (\E msg \in SentBy[e] : Send(e, msg)) \/ Disconnect(e)

(* What the asio thread of an end does, whatever the programs do.          *)
Handler(e) ==
  \/ WriteValidationCompletes(e) \/ WriteValidationFails(e)
  \/ ReadHeader(e) \/ ReadBody(e) \/ ReadError(e)
  \/ PostedSend(e) \/ PostedClose(e)
  \/ WriteHeader(e) \/ WriteBody(e) \/ WriteError(e)

ClientThread == ConnectCompletes \/ ReadValidationClient \/ Handler("client") \/ RunReturns
ServerThread == AcceptConnection \/ ReadValidationServer \/ Handler("server")

Next == \/ ConnectToServer \/ TcpConnect \/ NetworkFails
        \/ \E e \in Ends : Program(e)
        \/ ClientThread \/ ServerThread

Spec == Init /\ [][Next]_vars

(* Each asio thread keeps running handlers while any can run.  Nothing is  *)
(* assumed of the programs, of the peer's machine or of the network.       *)
Fairness == WF_vars(ClientThread) /\ WF_vars(ServerThread)

FairSpec == Spec /\ Fairness
-----------------------------------------------------------------------------
Chunks == [kind : {"adv", "hdr", "body"}, val : UNION {Messages, ValidationValues, {Scrambled(c) : c \in ValidationValues}}]
Ops(kinds) == [kind : kinds, live : BOOLEAN]
Temporaries == [header : Messages \cup {None}, body : Messages \cup {None}]

(* Types of both ends and of the stream.                                   *)
TypeOK ==
  /\ m_socket \in [Ends -> {"none", "open", "connected", "closed"}]
  /\ connecting \in BOOLEAN /\ accepted \in BOOLEAN /\ established \in BOOLEAN
  /\ broken \in BOOLEAN /\ running \in BOOLEAN
  /\ validated \in BOOLEAN /\ rejected \in BOOLEAN
  /\ net \in [Ends -> Seq(Chunks)]
  /\ posted \in [Ends -> Seq(Messages \cup {CloseOp})]
  /\ reading \in [Ends -> Seq(Ops({"adv", "hdr", "body"}))]
  /\ writing \in [Ends -> Seq(Ops({"hdr", "body"}))]
  /\ advWriting \in [Ends -> {"idle", "live", "dead"}]
  /\ m_qMessagesOut \in [Ends -> Seq(Messages)]
  /\ m_qMessagesIn \in [Ends -> Seq(Temporaries)]
  /\ m_msgTemporaryIn \in [Ends -> Temporaries]
  /\ sent \in [Ends -> Seq(Messages)]

(* The chain of message writes: at most one is outstanding, it writes the  *)
(* front of m_qMessagesOut, and a queue that is not empty on an open       *)
(* socket always has its write outstanding.  Send decides from the queue   *)
(* alone whether to start one, so if this breaks, messages are interleaved *)
(* on the stream or stay queued for good.                                  *)
OneMessageWrite == \A e \in Ends :
  /\ Len(writing[e]) <= 1
  /\ writing[e] # << >> => m_qMessagesOut[e] # << >>
  /\ IsConnected(e) /\ m_qMessagesOut[e] # << >> => writing[e] # << >>

(* The chain of reads: never two at once on a socket (read.hpp asks for    *)
(* it), and never none on an established connection past its handshake, or *)
(* the end would not notice that the peer has gone.                        *)
OneRead ==
  /\ \A e \in Ends : Len(reading[e]) <= 1
  /\ Connected("server") => reading["server"] # << >>
  /\ Connected("client") /\ ~connecting =>
       reading["client"] # << >> \/ advWriting["client"] # "idle"

(* A header is never read as a body nor a body as a header, and a body is  *)
(* that of the header just read.                                           *)
Framed == \A e \in Ends :
  LET op == Head(reading[e])
      chunk == Head(net[e])
  IN  reading[e] # << >> /\ net[e] # << >> /\ op.live /\ op.kind \in {"hdr", "body"} =>
        /\ chunk.kind = op.kind
        /\ op.kind = "body" => chunk.val = m_msgTemporaryIn[e].header

(* Messages of a client reach the server's program only after the client   *)
(* answered the challenge, and a client that was rejected has none there.  *)
OnlyValidatedClientsHeard ==
  m_qMessagesIn["server"] # << >> => validated /\ ~rejected

(* A message that announces a body is delivered with that body.            *)
BodyDelivered == \A e \in Ends : \A i \in DOMAIN m_qMessagesIn[e] :
  LET m == m_qMessagesIn[e][i] IN m.header \in HasBody => m.body = m.header

(* Each direction of the connection is a message channel: what the other   *)
(* program is given is a prefix of what was sent, once each, in order.     *)
Headers(e) == [i \in DOMAIN m_qMessagesIn[e] |-> m_qMessagesIn[e][i].header]

ToServer == INSTANCE Channel WITH Items <- Messages, sent <- sent["client"],
                                  rcvd <- Headers("server")
ToClient == INSTANCE Channel WITH Items <- Messages, sent <- sent["server"],
                                  rcvd <- Headers("client")
IsChannel == ToServer!Spec /\ ToClient!Spec

(* Once a connection is cut, each end that took part in it closes its own  *)
(* socket, without anybody sending on it.                                  *)
CutIsNoticed ==
  /\ established /\ broken ~> m_socket["client"] = "closed"
  /\ accepted /\ broken ~> m_socket["server"] = "closed"
-----------------------------------------------------------------------------
(* Statements of the repository that the code does not keep.               *)

(* net_connection.h on the challenge: the client "can validate itself and  *)
(* so show that it is part of the system".  Both ends here run this code.  *)
GenuineClientAccepted == ~rejected

(* SimpleClient: "if it is not connected, the server closed the connection *)
(* ... and we leave": a client that did not reach the server finds out.    *)
ConnectFailureNoticed ==
  connecting ~> (established \/ ~IsConnected("client"))
=============================================================================
