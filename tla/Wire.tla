-------------------------------- MODULE Wire --------------------------------
(***************************************************************************)
(* What Session calls a chunk, word by word: the composed operations       *)
(* async_read and async_write of asio (read_op, write_op) between          *)
(* connection<T> and a stream that may take and give part of a buffer at a *)
(* time, and the messages of SimpleClient and SimpleServer as << and >>    *)
(* make and read them.                                                     *)
(*                                                                         *)
(* The sockets are connected from the start; connecting, posting and       *)
(* closing are in Session.  A program's Send and the lambda it posts are   *)
(* one step here.                                                          *)
(***************************************************************************)
EXTENDS NetMessage, FiniteSets

CONSTANTS MaxTransfer,  \* default_max_transfer_size
          Challenge,    \* m_nADVOut of the server
          Answer,       \* m_nADVCheck: the scrambled challenge
          OtherAnswer,  \* what scramble makes of anything else
          TimePoints,   \* what the clock shows at each ping of the client
          OtherID,      \* the identifier of another client
          MaxSends,     \* bound: messages of the client
          MaxGreetings  \* bound: broadcasts by the other client

Ends == {"client", "server"}
Peer(e) == IF e = "client" THEN "server" ELSE "client"

(* CustomMsgTypes, and sizes in words.                                     *)
ServerAccept == 0
ServerPing == 2
MessageAll == 3
HeaderSize == 2
ValidationSize == 2
TimePointSize == 2
IDSize == 1

(* A word holds one value of uint32_t.                                     *)
Words == 0 .. UInt32 - 1

ASSUME WireAssumption ==
  /\ MessageAll \in Words
  /\ MaxTransfer \in Nat \ {0}
  /\ {Challenge, Answer, OtherAnswer} \subseteq [1 .. ValidationSize -> Words]
  /\ TimePoints \in Seq([1 .. TimePointSize -> Words])
  /\ OtherID \in [1 .. IDSize -> Words]
  /\ MaxSends \in 0 .. Len(TimePoints) /\ MaxGreetings \in Nat

VARIABLES
  open,              \* the ends whose socket is open
  broken,            \* an end has closed, or the network failed
  stream,            \* per end: the words on their way to it
  reading,           \* per end: its async_read
  writing,           \* per end: its async_writes, of a validation and a message
  requests,          \* per end: its writes inside async_write_some, oldest first
  moved,             \* per end and write: words taken, the handler not yet run
  m_qMessagesOut,
  m_qMessagesIn,     \* per end: every message queued for the program
  m_msgTemporaryIn,
  handled,           \* how many messages OnMessage of the server was given
  greetings,
  sent,              \* history, per end: the messages given to Send
  begun,             \* history, per end: the buffers given to async_write
  filled,            \* history, per end: the buffers async_read has filled
  mixed              \* history: ends that wrote into the middle of another buffer

transport == <<open, broken>>
writes == <<writing, requests, moved, begun>>
inputs == <<reading, filled>>
program == <<handled, greetings, sent>>
vars == <<transport, stream, inputs, writes, m_qMessagesOut, m_qMessagesIn,
          m_msgTemporaryIn, program, mixed>>

Writes == {"validation", "message"}
Idle == [kind |-> "none", data |-> << >>, done |-> 0]
Buffer(kind, size) == [kind |-> kind, size |-> size, got |-> << >>]
Nothing == Buffer("none", 0)
Data(kind, words) == [kind |-> kind, data |-> words, done |-> 0]

(* The client's connect handler has started ReadValidation.                *)
Init ==
  /\ open = Ends
  /\ broken = FALSE
  /\ stream = [e \in Ends |-> << >>]
  /\ reading = [client |-> Buffer("validation", ValidationSize), server |-> Nothing]
  /\ writing = [e \in Ends |-> [w \in Writes |-> Idle]]
  /\ requests = [e \in Ends |-> << >>]
  /\ moved = [e \in Ends |-> [w \in Writes |-> 0]]
  /\ m_qMessagesOut = [e \in Ends |-> << >>]
  /\ m_qMessagesIn = [e \in Ends |-> << >>]
  /\ m_msgTemporaryIn = [e \in Ends |-> Message(0)]
  /\ handled = 0
  /\ greetings = 0
  /\ sent = [e \in Ends |-> << >>]
  /\ begun = [e \in Ends |-> << >>]
  /\ filled = [e \in Ends |-> << >>]
  /\ mixed = {}
-----------------------------------------------------------------------------
(* async_write: write_op::operator().                                      *)

AtMost(n) == IF n < MaxTransfer THEN n ELSE MaxTransfer

Begin(e, w, data) ==
  /\ writing' = [writing EXCEPT ![e][w] = data]
  /\ requests' = [requests EXCEPT ![e] = Append(@, w)]
  /\ begun' = [begun EXCEPT ![e] = Append(@, data.data)]

Finish(e, w) ==
  /\ writing' = [writing EXCEPT ![e][w] = Idle]
  /\ UNCHANGED <<requests, begun>>

Unsent(e, w) == Len(writing[e][w].data) - writing[e][w].done - moved[e][w]
HalfSent(e, w) == Unsent(e, w) \in 1 .. Len(writing[e][w].data) - 1

(* The stream takes some of the words that async_write_some was given.     *)
Transfer(e) ==
  /\ ~broken
  /\ requests[e] # << >>
  /\ LET w == Head(requests[e])
         buffer == writing[e][w]
     IN \E n \in 1 .. AtMost(Unsent(e, w)) :
          /\ stream' = [stream EXCEPT ![Peer(e)] =
                          @ \o SubSeq(buffer.data, buffer.done + 1, buffer.done + n)]
          /\ moved' = [moved EXCEPT ![e][w] = n]
          /\ mixed' = mixed \cup {x \in {e} : \E o \in Writes \ {w} : HalfSent(e, o)}
  /\ requests' = [requests EXCEPT ![e] = Tail(@)]
  /\ UNCHANGED <<transport, inputs, writing, begun, m_qMessagesOut, m_qMessagesIn,
                 m_msgTemporaryIn, program>>

(* A slip: what was taken counts again for the next buffer.                *)
WriteSomeKeeps(e, w) == e \in open /\ moved[e][w] > 0 /\ UNCHANGED moved

(* async_write_some is done: buffers_.consume, and again unless empty.     *)
WriteSome(e, w) ==
  /\ e \in open
  /\ moved[e][w] > 0
  /\ moved' = [moved EXCEPT ![e][w] = 0]

WriteContinues(e, w) ==
  /\ WriteSome(e, w)
  /\ Unsent(e, w) > 0
  /\ writing' = [writing EXCEPT ![e][w].done = @ + moved[e][w]]
  /\ requests' = [requests EXCEPT ![e] = Append(@, w)]
  /\ UNCHANGED <<transport, stream, inputs, begun, m_qMessagesOut, m_qMessagesIn,
                 m_msgTemporaryIn, program, mixed>>

(* A slip: what the stream took the first time is taken for all.           *)
WrittenAtOnce(e, w, kind) == WriteSome(e, w) /\ writing[e][w].kind = kind

Written(e, w, kind) ==
  /\ WriteSome(e, w)
  /\ Unsent(e, w) = 0
  /\ writing[e][w].kind = kind

(* async_read: read_op::operator().  One handler consumes n words; Filled  *)
(* is the last.                                                            *)
Got(e, n) == reading[e].got \o SubSeq(stream[e], 1, n)

ReadSome(e, n) ==
  /\ e \in open
  /\ n <= AtMost(reading[e].size - Len(reading[e].got))
  /\ n <= Len(stream[e])
  /\ stream' = [stream EXCEPT ![e] = SubSeq(@, n + 1, Len(@))]

ReadContinues(e) ==
  /\ \E n \in 1 .. MaxTransfer :
       /\ ReadSome(e, n)
       /\ Len(Got(e, n)) < reading[e].size
       /\ reading' = [reading EXCEPT ![e].got = Got(e, n)]
  /\ UNCHANGED <<transport, filled, writes, m_qMessagesOut, m_qMessagesIn,
                 m_msgTemporaryIn, program, mixed>>

Filled(e, kind, n) ==
  /\ reading[e].kind = kind
  /\ ReadSome(e, n)
  /\ Len(Got(e, n)) = reading[e].size
  /\ filled' = [filled EXCEPT ![e] = Append(@, Got(e, n))]

StartRead(e, kind, size) == reading' = [reading EXCEPT ![e] = Buffer(kind, size)]

ReadNothing(e) == reading' = [reading EXCEPT ![e] = Nothing]
-----------------------------------------------------------------------------
(* The handshake.                                                          *)

(* ConnectToClient, in the accept handler: WriteValidation, ReadValidation. *)
ConnectToClient ==
  /\ begun["server"] = << >>
  /\ Begin("server", "validation", Data("validation", Challenge))
  /\ StartRead("server", "validation", ValidationSize)
  /\ UNCHANGED <<transport, stream, filled, moved, m_qMessagesOut, m_qMessagesIn,
                 m_msgTemporaryIn, program, mixed>>

ValidationWritten(e) ==
  /\ Written(e, "validation", "validation")
  /\ Finish(e, "validation")
  /\ IF e = "client" THEN StartRead(e, "header", HeaderSize) ELSE UNCHANGED reading
  /\ UNCHANGED <<transport, stream, filled, m_qMessagesOut, m_qMessagesIn,
                 m_msgTemporaryIn, program, mixed>>

AnswerRead ==
  /\ \E n \in 1 .. MaxTransfer :
       /\ Filled("server", "validation", n)
       /\ IF Got("server", n) = Answer
          THEN StartRead("server", "header", HeaderSize) /\ UNCHANGED transport
          ELSE /\ ReadNothing("server")
               /\ open' = open \ {"server"}
               /\ broken' = TRUE
  /\ UNCHANGED <<writes, m_qMessagesOut, m_qMessagesIn, m_msgTemporaryIn,
                 program, mixed>>

ChallengeRead ==
  /\ \E n \in 1 .. MaxTransfer :
       /\ Filled("client", "validation", n)
       /\ Begin("client", "validation", Data("validation",
            IF Got("client", n) = Challenge THEN Answer ELSE OtherAnswer))
  /\ ReadNothing("client")
  /\ UNCHANGED <<transport, moved, m_qMessagesOut, m_qMessagesIn,
                 m_msgTemporaryIn, program, mixed>>
-----------------------------------------------------------------------------
(* Reading messages: the lambdas of ReadHeader and ReadBody.               *)

(* vector::resize keeps what is there.                                     *)
Resized(body, n) == [i \in 1 .. n |-> IF i <= Len(body) THEN body[i] ELSE 0]

AddToIncomingMessageQueue(e, msg) ==
  /\ m_qMessagesIn' = [m_qMessagesIn EXCEPT ![e] = Append(@, msg)]
  /\ StartRead(e, "header", HeaderSize)

ReadHeader(e) ==
  /\ \E n \in 1 .. MaxTransfer :
       /\ Filled(e, "header", n)
       /\ LET id == Got(e, n)[1]
              size == Got(e, n)[2]
              msg == [m_msgTemporaryIn[e] EXCEPT !.id = id, !.size = size]
          IN IF size > 0
             THEN /\ m_msgTemporaryIn' = [m_msgTemporaryIn EXCEPT ![e] =
                       [msg EXCEPT !.body = Resized(@, size)]]
                  /\ StartRead(e, "body", size)
                  /\ UNCHANGED m_qMessagesIn
             ELSE /\ m_msgTemporaryIn' = [m_msgTemporaryIn EXCEPT ![e] = msg]
                  /\ AddToIncomingMessageQueue(e, msg)
  /\ UNCHANGED <<transport, writes, m_qMessagesOut, program, mixed>>

ReadBody(e) ==
  /\ \E n \in 1 .. MaxTransfer :
       /\ Filled(e, "body", n)
       /\ LET msg == [m_msgTemporaryIn[e] EXCEPT !.body = Got(e, n)]
          IN /\ m_msgTemporaryIn' = [m_msgTemporaryIn EXCEPT ![e] = msg]
             /\ AddToIncomingMessageQueue(e, msg)
  /\ UNCHANGED <<transport, writes, m_qMessagesOut, program, mixed>>
-----------------------------------------------------------------------------
(* Writing messages: the lambdas of Send, WriteHeader and WriteBody.       *)

Header(msg) == Data("header", <<msg.id, msg.size>>)

Send(e, msg) ==
  /\ e \in open
  /\ m_qMessagesOut' = [m_qMessagesOut EXCEPT ![e] = Append(@, msg)]
  /\ sent' = [sent EXCEPT ![e] = Append(@, msg)]
  /\ IF m_qMessagesOut[e] = << >>
     THEN Begin(e, "message", Header(msg)) /\ UNCHANGED moved
     ELSE UNCHANGED writes
  /\ UNCHANGED <<transport, stream, inputs, m_qMessagesIn, m_msgTemporaryIn,
                 mixed>>

(* A slip: the next header is written before the pop_front.                *)
WriteNextAndPop(e) ==
  /\ m_qMessagesOut' = [m_qMessagesOut EXCEPT ![e] = Tail(@)]
  /\ IF Tail(m_qMessagesOut[e]) # << >>
     THEN Begin(e, "message", Header(Head(m_qMessagesOut[e])))
     ELSE Finish(e, "message")

PopAndWriteNext(e) ==
  /\ m_qMessagesOut' = [m_qMessagesOut EXCEPT ![e] = Tail(@)]
  /\ IF Tail(m_qMessagesOut[e]) # << >>
     THEN Begin(e, "message", Header(Head(Tail(m_qMessagesOut[e]))))
     ELSE Finish(e, "message")

WriteHeader(e) ==
  /\ Written(e, "message", "header")
  /\ LET body == Head(m_qMessagesOut[e]).body
     IN IF body # << >>
        THEN Begin(e, "message", Data("body", body)) /\ UNCHANGED m_qMessagesOut
        ELSE PopAndWriteNext(e)
  /\ UNCHANGED <<transport, stream, inputs, m_qMessagesIn, m_msgTemporaryIn,
                 program, mixed>>

WriteBody(e) ==
  /\ Written(e, "message", "body")
  /\ PopAndWriteNext(e)
  /\ UNCHANGED <<transport, stream, inputs, m_qMessagesIn, m_msgTemporaryIn,
                 program, mixed>>
-----------------------------------------------------------------------------
(* SimpleClient: PingServer and MessageAll.                                *)

ClientSends(msg) ==
  /\ Len(sent["client"]) < MaxSends
  /\ Send("client", msg)
  /\ UNCHANGED <<handled, greetings>>

PingServer ==
  ClientSends(Push(Message(ServerPing), TimePoints[Len(sent["client"]) + 1]))

MessageAllKey == ClientSends(Message(MessageAll))

(* SimpleServer.  What OnClientConnect sends is posted first, and runs      *)
(* when the accept handler is over; then OnMessage for a request of this   *)
(* client, and for one of another, which greets this one.                  *)
OnClientConnect ==
  /\ begun["server"] # << >>
  /\ sent["server"] = << >>
  /\ Send("server", Message(ServerAccept))
  /\ UNCHANGED <<handled, greetings>>

Takes(n) ==
  /\ sent["server"] # << >>
  /\ n = handled + 1
  /\ n <= Len(m_qMessagesIn["server"])
  /\ handled' = n

(* Slips: whatever the request is, it is sent back; a ping is answered     *)
(* with a message of its own.                                              *)
EchoesAll(n) ==
  /\ Takes(n)
  /\ Send("server", m_qMessagesIn["server"][n])
  /\ UNCHANGED greetings

EchoesHeader(n) ==
  /\ Takes(n)
  /\ m_qMessagesIn["server"][n].id = ServerPing
  /\ Send("server", Message(ServerPing))
  /\ UNCHANGED greetings

Echoes(n) ==
  /\ Takes(n)
  /\ m_qMessagesIn["server"][n].id = ServerPing
  /\ Send("server", m_qMessagesIn["server"][n])
  /\ UNCHANGED greetings

TakesOther(n) ==
  /\ Takes(n)
  /\ m_qMessagesIn["server"][n].id # ServerPing
  /\ UNCHANGED <<transport, stream, inputs, writes, m_qMessagesOut,
                 m_qMessagesIn, m_msgTemporaryIn, greetings, sent, mixed>>

Greeting ==
  /\ sent["server"] # << >>
  /\ greetings < MaxGreetings
  /\ greetings' = greetings + 1
  /\ Send("server", Push(Message(MessageAll), OtherID))
  /\ UNCHANGED handled
-----------------------------------------------------------------------------
(* The network fails; an operation reports that the stream is cut, and its *)
(* handler closes the socket.                                              *)
Break ==
  /\ ~broken
  /\ broken' = TRUE
  /\ UNCHANGED <<open, stream, inputs, writes, m_qMessagesOut, m_qMessagesIn,
                 m_msgTemporaryIn, program, mixed>>

OperationFails(e) ==
  /\ broken
  /\ e \in open
  /\ reading[e].kind # "none" \/ \E w \in Writes : writing[e][w] # Idle
  /\ open' = open \ {e}
  /\ UNCHANGED <<broken, stream, inputs, writes, m_qMessagesOut, m_qMessagesIn,
                 m_msgTemporaryIn, program, mixed>>

Next ==
  \/ \E e \in Ends :
       \/ Transfer(e) \/ ReadContinues(e) \/ OperationFails(e)
       \/ \E w \in Writes : WriteContinues(e, w)
       \/ ValidationWritten(e)
       \/ ReadHeader(e) \/ ReadBody(e) \/ WriteHeader(e) \/ WriteBody(e)
  \/ ConnectToClient \/ AnswerRead \/ ChallengeRead
  \/ PingServer \/ MessageAllKey
  \/ OnClientConnect \/ Greeting
  \/ \E n \in 1 .. Len(m_qMessagesIn["server"]) : Echoes(n) \/ TakesOther(n)
  \/ Break

Spec == Init /\ [][Next]_vars
-----------------------------------------------------------------------------
Messages == [id : Words, size : Words, body : Seq(Words)]

(* Types, and no operation past the end of its buffer.                     *)
TypeOK ==
  /\ open \subseteq Ends /\ broken \in BOOLEAN
  /\ stream \in [Ends -> Seq(Words)]
  /\ reading \in [Ends -> [kind : {"none", "validation", "header", "body"},
                           size : Nat, got : Seq(Words)]]
  /\ \A e \in Ends : Len(reading[e].got) <= reading[e].size
  /\ writing \in [Ends -> [Writes -> [kind : {"none", "validation", "header", "body"},
                                      data : Seq(Words), done : Nat]]]
  /\ requests \in [Ends -> Seq(Writes)]
  /\ moved \in [Ends -> [Writes -> Nat]]
  /\ \A e \in Ends, w \in Writes : Unsent(e, w) >= 0
  /\ m_qMessagesOut \in [Ends -> Seq(Messages)]
  /\ m_qMessagesIn \in [Ends -> Seq(Messages)]
  /\ m_msgTemporaryIn \in [Ends -> Messages]
  /\ handled \in Nat /\ greetings \in 0 .. MaxGreetings
  /\ sent \in [Ends -> Seq(Messages)]
  /\ begun \in [Ends -> Seq(Seq(Words))] /\ filled \in [Ends -> Seq(Seq(Words))]
  /\ mixed \subseteq Ends

(* As long as no two writes mix, composed reads and writes make a stream   *)
(* of words into a channel of whole buffers, each way: the chunks that     *)
(* Session is about.                                                       *)
Buffers == {Challenge, Answer, OtherAnswer, OtherID}
           \cup {TimePoints[i] : i \in DOMAIN TimePoints}
           \cup {<<id, size>> : id \in {ServerAccept, ServerPing, MessageAll},
                               size \in 0 .. TimePointSize}

ToClient == INSTANCE Channel WITH Items <- Buffers, sent <- begun["server"],
                                  rcvd <- filled["client"]
ToServer == INSTANCE Channel WITH Items <- Buffers, sent <- begun["client"],
                                  rcvd <- filled["server"]

BuffersAreChannel ==
  /\ ToClient!Init /\ [][ToClient!Next \/ mixed' # {}]_(ToClient!vars)
  /\ ToServer!Init /\ [][ToServer!Next \/ mixed' # {}]_(ToServer!vars)

(* The writer goes on to a body by body.size(), the reader by header.size: *)
(* they agree for every message that is to be written, those sent back as  *)
(* they were received in the reused temporary message included.            *)
SizesTrue == mixed = {} => \A e \in Ends : \A i \in DOMAIN m_qMessagesOut[e] :
  m_qMessagesOut[e][i].size = Len(m_qMessagesOut[e][i].body)

(* The n-th message that a program is given is the n-th that the other one *)
(* sent, with its body if it has one.                                      *)
ReceivedAsSent == mixed = {} => \A e \in Ends : \A i \in DOMAIN m_qMessagesIn[Peer(e)] :
  LET msg == m_qMessagesIn[Peer(e)][i]
  IN  /\ i \in DOMAIN sent[e]
      /\ msg.id = sent[e][i].id /\ msg.size = sent[e][i].size
      /\ sent[e][i].body # << >> => msg.body = sent[e][i].body

(* What the client takes out with >> is there, and is what was put in with *)
(* <<: the time of the n-th ping that comes back is that of the n-th that  *)
(* was sent, and a greeting names its author.                              *)
PingsAmong(s, n) == Cardinality({i \in 1 .. n : s[i].id = ServerPing})

PopsWhatWasPushed == mixed = {} => \A i \in DOMAIN m_qMessagesIn["client"] :
  LET back == m_qMessagesIn["client"]
  IN  /\ back[i].id = ServerPing =>
           /\ PopDefined(back[i], TimePointSize)
           /\ \E k \in DOMAIN sent["client"] :
                LET ping == sent["client"][k]
                IN  /\ ping.id = ServerPing
                    /\ PingsAmong(sent["client"], k) = PingsAmong(back, i)
                    /\ Popped(ping, TimePointSize) = Popped(back[i], TimePointSize)
      /\ back[i].id = MessageAll =>
           PopDefined(back[i], IDSize) /\ Popped(back[i], IDSize) = OtherID
=============================================================================
