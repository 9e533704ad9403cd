--------------------------- MODULE SessionProofs ---------------------------
(***************************************************************************)
(* Theorems about Session, for any messages, any validation values, any    *)
(* scramble and any bound on what is sent.                                 *)
(***************************************************************************)
EXTENDS Session, SequenceTheorems, TLAPS

(* OneMessageWrite is not inductive.  A lambda posted before the socket is *)
(* there would fill the queue without a write to show for it once the      *)
(* socket opens: nothing is posted or queued before that.                  *)
OutboundTyped ==
  /\ m_socket \in [Ends -> {"none", "open", "connected", "closed"}]
  /\ posted \in [Ends -> Seq(Messages \cup {CloseOp})]
  /\ writing \in [Ends -> Seq(Ops({"hdr", "body"}))]
  /\ m_qMessagesOut \in [Ends -> Seq(Messages)]

NothingBeforeSocket ==
  /\ m_socket["client"] = "none" =>
       posted["client"] = << >> /\ m_qMessagesOut["client"] = << >>
  /\ ~accepted => /\ ~IsConnected("server")
                  /\ posted["server"] = << >> /\ m_qMessagesOut["server"] = << >>

WriteChain == OutboundTyped /\ NothingBeforeSocket /\ OneMessageWrite
-----------------------------------------------------------------------------
LEMMA OpTyped ==
  ASSUME NEW e \in Ends, NEW kinds, NEW kind \in kinds
  PROVE  Op(e, kind) \in Ops(kinds)
BY DEF Op, Ops, Connected

(* A sequence of at most one element has an empty tail.                    *)
LEMMA TailOfOne ==
  ASSUME NEW S, NEW s \in Seq(S), s # << >>, Len(s) <= 1
  PROVE  Tail(s) = << >>
<1>1. Tail(s) \in Seq(S) /\ Len(Tail(s)) = Len(s) - 1
  BY HeadTailProperties
<1>2. Len(s) \in Nat \ {0}
  BY EmptySeq
<1>3. Len(Tail(s)) = 0
  BY <1>1, <1>2
<1> QED
  BY <1>1, <1>3, EmptySeq

LEMMA InitWriteChain == Init => WriteChain
<1> SUFFICES ASSUME Init PROVE WriteChain
  OBVIOUS
<1>1. OutboundTyped
  BY EmptySeq DEF Init, OutboundTyped
<1>2. NothingBeforeSocket
  BY DEF Init, NothingBeforeSocket, IsConnected, Ends
<1>3. OneMessageWrite
  BY DEF Init, OneMessageWrite, IsConnected
<1> QED
  BY <1>1, <1>2, <1>3 DEF WriteChain

(* What an end posts while its socket is there does not touch the chain.   *)
LEMMA PostKeepsChain ==
  ASSUME WriteChain, NEW e \in Ends, NEW op \in Messages \cup {CloseOp},
         IF e = "server" THEN accepted ELSE m_socket[e] # "none",
         posted' = [posted EXCEPT ![e] = Append(@, op)],
         UNCHANGED <<m_socket, accepted, outbound>>
  PROVE  WriteChain'
<1> USE DEF WriteChain, outbound
<1>1. OutboundTyped'
  BY DEF OutboundTyped
<1>2. NothingBeforeSocket'
  BY DEF NothingBeforeSocket, OutboundTyped, IsConnected, Ends
<1>3. OneMessageWrite'
  BY DEF OneMessageWrite, IsConnected
<1> QED
  BY <1>1, <1>2, <1>3

(* Nor does a step that leaves the outbound side alone, if it opens no     *)
(* socket, or closes one.                                                  *)
LEMMA QuietKeepsChain ==
  ASSUME WriteChain, UNCHANGED <<accepted, posted, outbound>>,
         \/ UNCHANGED m_socket
         \/ \E e \in Ends : Close(e)
  PROVE  WriteChain'
<1> USE DEF WriteChain, outbound
<1>1. OutboundTyped'
  BY DEF OutboundTyped, Close
<1>2. NothingBeforeSocket'
  BY DEF NothingBeforeSocket, OutboundTyped, IsConnected, Close, Ends
<1>3. OneMessageWrite'
  BY DEF OneMessageWrite, OutboundTyped, IsConnected, Close
<1> QED
  BY <1>1, <1>2, <1>3
-----------------------------------------------------------------------------
LEMMA SendKeepsChain ==
  ASSUME WriteChain, NEW e \in Ends, NEW msg \in SentBy[e], Send(e, msg)
  PROVE  WriteChain'
<1>1. msg \in Messages \cup {CloseOp}
  BY SessionAssumption
<1>2. IF e = "server" THEN accepted ELSE m_socket[e] # "none"
  BY DEF Send, IsConnected, Ends
<1>3. posted' = [posted EXCEPT ![e] = Append(@, msg)]
  BY DEF Send
<1>4. UNCHANGED <<m_socket, accepted, outbound>>
  BY DEF Send, wire, link
<1> QED
  BY <1>1, <1>2, <1>3, <1>4, PostKeepsChain

LEMMA DisconnectKeepsChain ==
  ASSUME WriteChain, NEW e \in Ends, Disconnect(e)
  PROVE  WriteChain'
<1>1. IF e = "server" THEN accepted ELSE m_socket[e] # "none"
  BY DEF Disconnect, IsConnected, WriteChain, NothingBeforeSocket
<1>2. posted' = [posted EXCEPT ![e] = Append(@, CloseOp)]
  BY DEF Disconnect
<1>3. UNCHANGED <<m_socket, accepted, outbound>>
  BY DEF Disconnect, wire, link
<1> QED
  BY <1>1, <1>2, <1>3, PostKeepsChain

(* The socket appears, with nothing posted or queued before it.            *)
LEMMA OpeningKeepsChain ==
  ASSUME WriteChain, ConnectToServer \/ TcpConnect
  PROVE  WriteChain'
<1>1. UNCHANGED <<accepted, posted, outbound>>
  BY DEF ConnectToServer, TcpConnect, program
<1>2. OutboundTyped'
  BY <1>1 DEF WriteChain, OutboundTyped, ConnectToServer, TcpConnect, outbound
<1>3. NothingBeforeSocket'
  BY <1>1 DEF WriteChain, OutboundTyped, NothingBeforeSocket, ConnectToServer,
     TcpConnect, IsConnected, outbound, Ends
<1>4. OneMessageWrite'
  BY <1>1 DEF WriteChain, OutboundTyped, NothingBeforeSocket, OneMessageWrite,
     ConnectToServer, TcpConnect, IsConnected, outbound, Ends
<1> QED
  BY <1>2, <1>3, <1>4 DEF WriteChain

LEMMA AcceptKeepsChain ==
  ASSUME WriteChain, AcceptConnection
  PROVE  WriteChain'
<1>1. /\ ~accepted /\ accepted'
      /\ m_socket' = [m_socket EXCEPT !["server"] = "connected"]
      /\ posted' = [posted EXCEPT !["server"] = Append(@, Accept)]
      /\ UNCHANGED <<writing, m_qMessagesOut>>
  BY DEF AcceptConnection, outbound
<1>2. Accept \in Messages
  BY SessionAssumption
<1>3. OutboundTyped'
  BY <1>1, <1>2 DEF WriteChain, OutboundTyped, Ends
<1>4. NothingBeforeSocket'
  BY <1>1 DEF WriteChain, OutboundTyped, NothingBeforeSocket, Ends
<1>5. OneMessageWrite'
  BY <1>1 DEF WriteChain, OutboundTyped, NothingBeforeSocket, OneMessageWrite,
     IsConnected, Ends
<1> QED
  BY <1>3, <1>4, <1>5 DEF WriteChain
-----------------------------------------------------------------------------
(* The handlers of the write chain.                                        *)

LEMMA PostedSendKeepsChain ==
  ASSUME WriteChain, NEW e \in Ends, PostedSend(e)
  PROVE  WriteChain'
<1> DEFINE msg == Head(posted[e])
<1>1. /\ posted[e] \in Seq(Messages \cup {CloseOp}) /\ posted[e] # << >>
      /\ m_qMessagesOut[e] \in Seq(Messages)
      /\ writing[e] \in Seq(Ops({"hdr", "body"}))
  BY DEF PostedSend, WriteChain, OutboundTyped
<1>2. msg \in Messages /\ Tail(posted[e]) \in Seq(Messages \cup {CloseOp})
  BY <1>1, HeadTailProperties DEF PostedSend
<1>3. /\ posted' = [posted EXCEPT ![e] = Tail(@)]
      /\ m_qMessagesOut' = [m_qMessagesOut EXCEPT ![e] = Append(@, msg)]
      /\ UNCHANGED <<m_socket, accepted>>
      /\ m_qMessagesOut[e] # << >> => UNCHANGED writing
      /\ m_qMessagesOut[e] = << >> =>
           writing' = [writing EXCEPT ![e] = Append(@, Op(e, "hdr"))]
  BY DEF PostedSend, QueueToSend, link
<1> HIDE DEF msg
<1>4. Op(e, "hdr") \in Ops({"hdr", "body"})
  BY OpTyped
<1>5. OutboundTyped'
  <2>1. Append(m_qMessagesOut[e], msg) \in Seq(Messages)
    BY <1>1, <1>2
  <2>2. Append(writing[e], Op(e, "hdr")) \in Seq(Ops({"hdr", "body"}))
    BY <1>1, <1>4
  <2>3. m_qMessagesOut' \in [Ends -> Seq(Messages)]
    BY <1>3, <2>1 DEF WriteChain, OutboundTyped
  <2>4. writing' \in [Ends -> Seq(Ops({"hdr", "body"}))]
    BY <1>3, <2>2 DEF WriteChain, OutboundTyped
  <2>5. posted' \in [Ends -> Seq(Messages \cup {CloseOp})]
    BY <1>2, <1>3 DEF WriteChain, OutboundTyped
  <2> QED
    BY <1>3, <2>3, <2>4, <2>5 DEF WriteChain, OutboundTyped
<1>6. NothingBeforeSocket'
  BY <1>1, <1>3 DEF WriteChain, OutboundTyped, NothingBeforeSocket, IsConnected, Ends
<1>7. Append(m_qMessagesOut[e], msg) # << >>
  <2>1. Len(Append(m_qMessagesOut[e], msg)) # 0
    BY <1>1, <1>2, LenProperties
  <2> QED
    BY <2>1, EmptySeq, Zenon
<1>8. OneMessageWrite'
  <2>1. CASE m_qMessagesOut[e] # << >>
    BY <1>1, <1>3, <1>7, <2>1 DEF WriteChain, OutboundTyped, OneMessageWrite, IsConnected
  <2>2. CASE m_qMessagesOut[e] = << >>
    <3>1. writing[e] = << >>
      BY <2>2 DEF WriteChain, OneMessageWrite
    <3>2. writing' = [writing EXCEPT ![e] = << Op(e, "hdr") >>]
      BY <1>3, <2>2, <3>1
    <3> QED
      BY <1>3, <1>7, <3>2 DEF WriteChain, OutboundTyped, OneMessageWrite, IsConnected
  <2> QED
    BY <2>1, <2>2
<1> QED
  BY <1>5, <1>6, <1>8 DEF WriteChain

(* Replacing the outstanding write by the one that follows it, while the   *)
(* socket is there or not: what a completed message write does.            *)
LEMMA NextWriteKeepsChain ==
  ASSUME WriteChain, NEW e \in Ends, writing[e] # << >>,
         NEW queue \in Seq(Messages), NEW ops \in Seq(Ops({"hdr", "body"})),
         Len(ops) <= 1, ops # << >> <=> queue # << >>,
         m_qMessagesOut[e] # << >>,
         m_qMessagesOut' = [m_qMessagesOut EXCEPT ![e] = queue],
         WriteNext(e, ops),
         UNCHANGED <<m_socket, accepted, posted>>
  PROVE  WriteChain'
<1>1. Tail(writing[e]) \o ops = ops
  <2>1. writing[e] \in Seq(Ops({"hdr", "body"})) /\ Len(writing[e]) <= 1
    BY DEF WriteChain, OutboundTyped, OneMessageWrite
  <2>2. Tail(writing[e]) = << >>
    BY <2>1, TailOfOne
  <2> QED
    BY <2>2, ConcatEmptySeq
<1>2. writing' = [writing EXCEPT ![e] = ops]
  BY <1>1 DEF WriteNext
<1>3. OutboundTyped'
  BY <1>2 DEF WriteChain, OutboundTyped
<1>4. NothingBeforeSocket'
  BY DEF WriteChain, OutboundTyped, NothingBeforeSocket, IsConnected, Ends
<1>5. OneMessageWrite'
  BY <1>2 DEF WriteChain, OutboundTyped, OneMessageWrite, IsConnected
<1> QED
  BY <1>3, <1>4, <1>5 DEF WriteChain

LEMMA OneOp ==
  ASSUME NEW e \in Ends, NEW kind \in {"hdr", "body"}
  PROVE  /\ << Op(e, kind) >> \in Seq(Ops({"hdr", "body"}))
         /\ Len(<< Op(e, kind) >>) <= 1
         /\ << Op(e, kind) >> # << >>
<1>1. Op(e, kind) \in Ops({"hdr", "body"})
  BY OpTyped
<1> QED
  BY <1>1

LEMMA PopAndWriteNextKeepsChain ==
  ASSUME WriteChain, NEW e \in Ends, writing[e] # << >>, PopAndWriteNext(e),
         UNCHANGED <<m_socket, accepted, posted>>
  PROVE  WriteChain'
<1> DEFINE queue == Tail(m_qMessagesOut[e])
<1>1. m_qMessagesOut[e] \in Seq(Messages) /\ m_qMessagesOut[e] # << >>
  BY DEF WriteChain, OutboundTyped, OneMessageWrite
<1>2. queue \in Seq(Messages)
  BY <1>1, HeadTailProperties
<1>3. m_qMessagesOut' = [m_qMessagesOut EXCEPT ![e] = queue]
  BY DEF PopAndWriteNext
<1>4. CASE queue # << >>
  <2>1. WriteNext(e, << Op(e, "hdr") >>)
    BY <1>4 DEF PopAndWriteNext
  <2> DEFINE ops == << Op(e, "hdr") >>
  <2>2. ops \in Seq(Ops({"hdr", "body"})) /\ Len(ops) <= 1 /\ ops # << >>
    BY OneOp
  <2>3. WriteNext(e, ops)
    BY <2>1
  <2> HIDE DEF queue, ops
  <2> QED
    BY <1>1, <1>2, <1>3, <1>4, <2>2, <2>3, NextWriteKeepsChain
<1>5. CASE queue = << >>
  <2>1. WriteNext(e, << >>)
    BY <1>5 DEF PopAndWriteNext
  <2>2. << >> \in Seq(Ops({"hdr", "body"})) /\ Len(<< >>) <= 1
    BY EmptySeq
  <2> HIDE DEF queue
  <2> QED
    BY <1>1, <1>2, <1>3, <1>5, <2>1, <2>2, NextWriteKeepsChain
<1> QED
  BY <1>4, <1>5

LEMMA WriteHeaderKeepsChain ==
  ASSUME WriteChain, NEW e \in Ends, WriteHeader(e)
  PROVE  WriteChain'
<1>1. writing[e] # << >> /\ UNCHANGED <<m_socket, accepted, posted>>
  BY DEF WriteHeader, WriteCompletes, link, program
<1>2. CASE Head(m_qMessagesOut[e]) \in HasBody
  <2>1. WriteNext(e, << Op(e, "body") >>) /\ UNCHANGED m_qMessagesOut
    BY <1>2 DEF WriteHeader
  <2>2. /\ m_qMessagesOut[e] \in Seq(Messages) /\ m_qMessagesOut[e] # << >>
        /\ m_qMessagesOut' = [m_qMessagesOut EXCEPT ![e] = m_qMessagesOut[e]]
    BY <1>1, <2>1 DEF WriteChain, OutboundTyped, OneMessageWrite
  <2> DEFINE ops == << Op(e, "body") >>
  <2>3. ops \in Seq(Ops({"hdr", "body"})) /\ Len(ops) <= 1 /\ ops # << >>
    BY OneOp
  <2>4. WriteNext(e, ops)
    BY <2>1
  <2> HIDE DEF ops
  <2> QED
    BY <1>1, <2>2, <2>3, <2>4, NextWriteKeepsChain
<1>3. CASE Head(m_qMessagesOut[e]) \notin HasBody
  BY <1>1, <1>3, PopAndWriteNextKeepsChain DEF WriteHeader
<1> QED
  BY <1>2, <1>3

LEMMA WriteBodyKeepsChain ==
  ASSUME WriteChain, NEW e \in Ends, WriteBody(e)
  PROVE  WriteChain'
<1>1. writing[e] # << >> /\ UNCHANGED <<m_socket, accepted, posted>> /\ PopAndWriteNext(e)
  BY DEF WriteBody, WriteCompletes, link, program
<1> QED
  BY <1>1, PopAndWriteNextKeepsChain

(* A failed write leaves its queue full and closes the socket.             *)
LEMMA WriteErrorKeepsChain ==
  ASSUME WriteChain, NEW e \in Ends, WriteError(e)
  PROVE  WriteChain'
<1>1. /\ writing[e] \in Seq(Ops({"hdr", "body"})) /\ writing[e] # << >>
      /\ Len(writing[e]) <= 1
  BY DEF WriteChain, OutboundTyped, OneMessageWrite, WriteError, WriteFails
<1>2. Tail(writing[e]) \o << >> = << >>
  BY <1>1, TailOfOne, EmptySeq, ConcatEmptySeq
<1>3. /\ writing' = [writing EXCEPT ![e] = << >>]
      /\ m_socket' = [m_socket EXCEPT ![e] = "closed"]
      /\ UNCHANGED <<accepted, posted, m_qMessagesOut>>
  BY <1>2 DEF WriteError, WriteNext, Close, link, program
<1>4. OutboundTyped'
  BY <1>3, EmptySeq DEF WriteChain, OutboundTyped
<1>5. NothingBeforeSocket'
  BY <1>3 DEF WriteChain, OutboundTyped, NothingBeforeSocket, IsConnected, Ends
<1>6. OneMessageWrite'
  BY <1>3 DEF WriteChain, OutboundTyped, OneMessageWrite, IsConnected
<1> QED
  BY <1>4, <1>5, <1>6 DEF WriteChain

LEMMA PostedCloseKeepsChain ==
  ASSUME WriteChain, NEW e \in Ends, PostedClose(e)
  PROVE  WriteChain'
<1>1. /\ posted[e] \in Seq(Messages \cup {CloseOp}) /\ posted[e] # << >>
      /\ posted' = [posted EXCEPT ![e] = Tail(@)]
      /\ m_socket' = [m_socket EXCEPT ![e] = "closed"]
      /\ UNCHANGED <<accepted, writing, m_qMessagesOut>>
  BY DEF PostedClose, Close, WriteChain, OutboundTyped, link, outbound
<1>2. OutboundTyped'
  BY <1>1, HeadTailProperties DEF WriteChain, OutboundTyped
<1>3. NothingBeforeSocket'
  BY <1>1 DEF WriteChain, OutboundTyped, NothingBeforeSocket, IsConnected, Ends
<1>4. OneMessageWrite'
  BY <1>1 DEF WriteChain, OutboundTyped, OneMessageWrite, IsConnected
<1> QED
  BY <1>2, <1>3, <1>4 DEF WriteChain
-----------------------------------------------------------------------------
(* The handlers and events outside the write chain.                        *)
LEMMA OthersKeepChain ==
  ASSUME WriteChain, NEW e \in Ends,
         \/ NetworkFails \/ ConnectCompletes \/ RunReturns
         \/ ReadValidationServer \/ ReadValidationClient
         \/ WriteValidationCompletes(e) \/ WriteValidationFails(e)
         \/ ReadHeader(e) \/ ReadBody(e) \/ ReadError(e)
  PROVE  WriteChain'
<1>1. UNCHANGED <<accepted, posted, outbound>>
  BY DEF NetworkFails, ConnectCompletes, RunReturns, ReadValidationServer,
     ReadValidationClient, AnswerWith, WriteValidationCompletes, WriteValidationThenRead,
     WriteValidationFails, ReadHeader, ReadBody, ReadError, link, program, outbound
<1>2. (UNCHANGED m_socket) \/ (\E d \in Ends : Close(d))
  BY DEF NetworkFails, ConnectCompletes, RunReturns, ReadValidationServer,
     ReadValidationClient, AnswerWith, WriteValidationCompletes, WriteValidationThenRead,
     WriteValidationFails, ReadHeader, ReadBody, ReadError, wire, Ends
<1> QED
  BY <1>1, <1>2, QuietKeepsChain

(* The invariant behind the theorem below: Send, the write handlers and    *)
(* the closes keep queue and outstanding write in step.                    *)
THEOREM AlwaysWriteChain == Spec => []WriteChain
<1>1. WriteChain /\ UNCHANGED vars => WriteChain'
  BY DEF WriteChain, OutboundTyped, NothingBeforeSocket, OneMessageWrite, IsConnected,
     vars, wire, link, program, outbound
<1>2. ASSUME WriteChain, NEW e \in Ends, Handler(e)
      PROVE  WriteChain'
  BY <1>2, OthersKeepChain, PostedSendKeepsChain, PostedCloseKeepsChain,
     WriteHeaderKeepsChain, WriteBodyKeepsChain, WriteErrorKeepsChain DEF Handler
<1>3. ASSUME WriteChain, NEW e \in Ends, Program(e)
      PROVE  WriteChain'
  BY <1>3, SendKeepsChain, DisconnectKeepsChain DEF Program
<1>4. "client" \in Ends /\ "server" \in Ends
  BY DEF Ends
<1>5. WriteChain /\ Next => WriteChain'
  BY <1>2, <1>3, <1>4, OpeningKeepsChain, AcceptKeepsChain, OthersKeepChain
  DEF Next, ClientThread, ServerThread
<1>6. WriteChain /\ [Next]_vars => WriteChain'
  BY <1>1, <1>5
<1> QED
  BY InitWriteChain, <1>6, PTL DEF Spec

(* Send, the write handlers, closes and failures in any interleaving: a    *)
(* socket has at most one message write outstanding, and while it is open  *)
(* a queued message has one on its way.                                    *)
THEOREM OneWriteAtATime == Spec => []OneMessageWrite
<1>1. WriteChain => OneMessageWrite
  BY DEF WriteChain
<1> QED
  BY AlwaysWriteChain, <1>1, PTL
-----------------------------------------------------------------------------
(* The reading side: one read at a time, and only validated clients heard. *)

Kinds == {"adv", "hdr", "body"}
Reads(e, kind) == reading[e] # << >> /\ Head(reading[e]).kind = kind

(* The end has not yet read the validation value of its peer.              *)
Awaits(e) == \/ Reads(e, "adv")
             \/ IF e = "client" THEN m_socket[e] = "none" \/ connecting ELSE ~accepted

ValuesTo(e) == IF e = "client" THEN ValidationValues
                               ELSE {Scrambled(c) : c \in ValidationValues}
ChunksTo(e) == [kind : {"adv"}, val : ValuesTo(e)] \cup [kind : {"hdr", "body"}, val : Messages]

InboundTyped ==
  /\ connecting \in BOOLEAN /\ accepted \in BOOLEAN /\ established \in BOOLEAN
  /\ broken \in BOOLEAN /\ running \in BOOLEAN
  /\ validated \in BOOLEAN /\ rejected \in BOOLEAN
  /\ net \in [Ends -> Seq(ChunksTo("client") \cup ChunksTo("server"))]
  /\ net["client"] \in Seq(ChunksTo("client"))
  /\ reading \in [Ends -> Seq(Ops(Kinds))]
  /\ advWriting \in [Ends -> {"idle", "live", "dead"}]
  /\ m_qMessagesIn \in [Ends -> Seq(Temporaries)]
  /\ m_msgTemporaryIn \in [Ends -> Temporaries]
  /\ sent \in [Ends -> Seq(Messages)]

(* OneRead, and where the client stands before it reads.                   *)
OneReader ==
  /\ OneRead
  /\ m_socket["client"] = "none" => ~connecting /\ ~established
  /\ m_socket["client"] = "open" => ~established
  /\ Connected("client") => established
  /\ m_socket["client"] = "none" \/ connecting =>
       reading["client"] = << >> /\ advWriting["client"] = "idle"
  /\ reading["client"] # << >> => advWriting["client"] = "idle"

(* There is nothing of a server's connection before it is accepted.        *)
NothingBeforeAccept ==
  /\ accepted => established
  /\ ~established => net["server"] = << >>
  /\ ~accepted => /\ m_socket["server"] = "none" /\ reading["server"] = << >>
                  /\ advWriting["server"] = "idle" /\ net["client"] = << >>
                  /\ ~validated /\ ~rejected /\ m_qMessagesIn["server"] = << >>
                  /\ advWriting["client"] = "idle"
                  /\ reading["client"] # << >> => Reads("client", "adv")

(* The challenge is the first chunk to the client, whose answer cannot be  *)
(* on its way before it was read.                                          *)
ChallengeFirst == Awaits("client") =>
  /\ net["client"] # << >> => Head(net["client"]).kind = "adv"
  /\ net["client"] = << >> => ~accepted \/ broken
  /\ \A i \in DOMAIN net["server"] : net["server"][i].kind # "adv"
  /\ ~validated

HeardOnceValidated ==
  /\ OnlyValidatedClientsHeard
  /\ Reads("server", "adv") => ~validated /\ ~rejected /\ m_qMessagesIn["server"] = << >>
  /\ reading["server"] # << >> /\ ~Reads("server", "adv") => validated /\ ~rejected

ReadChain == /\ InboundTyped /\ OneReader /\ NothingBeforeAccept
             /\ ChallengeFirst /\ HeardOnceValidated
-----------------------------------------------------------------------------
LEMMA ReadOpTyped ==
  ASSUME NEW e \in Ends, NEW kind \in Kinds
  PROVE  /\ << Op(e, kind) >> \in Seq(Ops(Kinds)) /\ Len(<< Op(e, kind) >>) <= 1
         /\ << Op(e, kind) >> # << >> /\ Head(<< Op(e, kind) >>).kind = kind
<1>1. Op(e, kind) \in Ops(Kinds)
  BY OpTyped
<1>2. Op(e, kind).kind = kind
  BY DEF Op
<1> QED
  BY <1>1, <1>2

(* The handler of the only read replaces it.                               *)
LEMMA ReadNextReplaces ==
  ASSUME ReadChain, NEW e \in Ends, reading[e] # << >>,
         NEW ops \in Seq(Ops(Kinds)), ReadNext(e, ops)
  PROVE  reading' = [reading EXCEPT ![e] = ops]
<1>1. reading[e] \in Seq(Ops(Kinds)) /\ Len(reading[e]) <= 1
  BY DEF ReadChain, InboundTyped, OneReader, OneRead
<1>2. Tail(reading[e]) = << >>
  BY <1>1, TailOfOne
<1> QED
  BY <1>2, ConcatEmptySeq DEF ReadNext

LEMMA AppendKeeps ==
  ASSUME NEW S, NEW s \in Seq(S), NEW x \in S
  PROVE  /\ s # << >> => Head(s) = Head(Append(s, x))
         /\ Append(s, x) # << >>
         /\ \A i \in DOMAIN Append(s, x) :
              Append(s, x)[i] = x \/ \E j \in DOMAIN s : Append(s, x)[i] = s[j]
<1>1. /\ Append(s, x) \in Seq(S) /\ Len(Append(s, x)) = Len(s) + 1
      /\ \A i \in 1 .. Len(s) : Append(s, x)[i] = s[i]
      /\ Append(s, x)[Len(s) + 1] = x
  BY AppendProperties
<1>2. Len(s) \in Nat /\ (s # << >> => Len(s) > 0)
  BY LenProperties, EmptySeq
<1>3. Append(s, x) # << >>
  BY <1>1, <1>2
<1>4. s # << >> => Head(s) = Head(Append(s, x))
  BY <1>1, <1>2, <1>3, HeadTailProperties
<1>5. DOMAIN s = 1 .. Len(s) /\ DOMAIN Append(s, x) = 1 .. Len(s) + 1
  BY <1>1, LenProperties
<1>6. \A i \in 1 .. Len(s) + 1 : i = Len(s) + 1 \/ i \in 1 .. Len(s)
  BY <1>2
<1> QED
  BY <1>1, <1>3, <1>4, <1>5, <1>6

LEMMA StartReadBegins ==
  ASSUME ReadChain, NEW e \in Ends, reading[e] = << >>, NEW kind \in Kinds,
         StartRead(e, kind)
  PROVE  reading' = [reading EXCEPT ![e] = << Op(e, kind) >>]
BY DEF StartRead

LEMMA ChunkTyped ==
  ASSUME NEW e \in Ends, NEW msg \in Messages, NEW kind \in {"hdr", "body"}
  PROVE  /\ Chunk(kind, msg) \in ChunksTo(e)
         /\ Chunk(kind, msg).kind = kind /\ Chunk(kind, msg).val = msg
BY DEF Chunk, ChunksTo

LEMMA ChunkInverts ==
  ASSUME NEW e \in Ends, NEW chunk \in ChunksTo(e)
  PROVE  /\ chunk = Chunk(chunk.kind, chunk.val)
         /\ chunk.kind = "adv" => chunk.val \in ValuesTo(e)
         /\ chunk.kind \in {"hdr", "body"} => chunk.val \in Messages
         /\ chunk.kind \in Kinds
BY DEF ChunksTo, Chunk, Kinds

LEMMA InitReadChain == Init => ReadChain
<1> SUFFICES ASSUME Init PROVE ReadChain
  OBVIOUS
<1>1. InboundTyped
  BY EmptySeq DEF Init, InboundTyped, Temporaries, Ends
<1>2. OneReader
  BY DEF Init, OneReader, OneRead, Connected, Ends
<1>3. NothingBeforeAccept
  BY DEF Init, NothingBeforeAccept, Ends
<1>4. ChallengeFirst
  BY DEF Init, ChallengeFirst, Ends
<1>5. HeardOnceValidated
  BY DEF Init, HeardOnceValidated, OnlyValidatedClientsHeard, Reads, Ends
<1> QED
  BY <1>1, <1>2, <1>3, <1>4, <1>5 DEF ReadChain
-----------------------------------------------------------------------------
(* Posting, the end of run() and a failure of the network.                 *)
LEMMA QuietKeepsReads ==
  ASSUME ReadChain, UNCHANGED <<m_socket, net, connecting, accepted, established,
                                handshake, inbound>>,
         running' \in BOOLEAN, broken' \in BOOLEAN, broken => broken',
         sent' \in [Ends -> Seq(Messages)]
  PROVE  ReadChain'
<1> USE DEF ReadChain, handshake, inbound, received
<1>1. InboundTyped'
  BY DEF InboundTyped
<1>2. OneReader'
  BY DEF OneReader, OneRead, Connected
<1>3. NothingBeforeAccept'
  BY DEF NothingBeforeAccept, Reads
<1>4. ChallengeFirst'
  BY DEF ChallengeFirst, Awaits, Reads
<1>5. HeardOnceValidated'
  BY DEF HeardOnceValidated, OnlyValidatedClientsHeard, Reads
<1> QED
  BY <1>1, <1>2, <1>3, <1>4, <1>5

(* A chunk of a message, handed to the stream or not.                      *)
LEMMA WritingKeepsReads ==
  ASSUME ReadChain, NEW e \in Ends, NEW chunk \in ChunksTo(Peer(e)), chunk.kind # "adv",
         Transmit(e, chunk) \/ UNCHANGED net,
         UNCHANGED <<m_socket, broken, link, handshake, inbound, sent>>
  PROVE  ReadChain'
<1> USE DEF handshake, inbound, received, link
<1>1. CASE UNCHANGED net
  BY <1>1, QuietKeepsReads DEF ReadChain, InboundTyped
<1>2. CASE /\ Connected(e) /\ ~broken
           /\ net' = [net EXCEPT ![Peer(e)] = Append(@, chunk)]
  <2> DEFINE d == Peer(e)
  <2> USE DEF ReadChain
  <2>1. d \in Ends /\ net[d] \in Seq(ChunksTo("client") \cup ChunksTo("server"))
    BY DEF Peer, Ends, InboundTyped
  <2>2. /\ Append(net[d], chunk) \in Seq(ChunksTo("client") \cup ChunksTo("server"))
        /\ d = "client" => Append(net[d], chunk) \in Seq(ChunksTo(d))
    BY <2>1 DEF Peer, Ends, InboundTyped
  <2>3. InboundTyped'
    BY <1>2, <2>1, <2>2 DEF InboundTyped, Ends
  <2>4. OneReader'
    BY DEF OneReader, OneRead, Connected
  <2>5. NothingBeforeAccept'
    <3>1. CASE e = "client"
      BY <1>2, <2>1, <3>1 DEF NothingBeforeAccept, OneReader, InboundTyped, Reads, Peer, Ends
    <3>2. CASE e = "server"
      BY <1>2, <2>1, <3>2 DEF NothingBeforeAccept, InboundTyped, Connected, Reads, Peer, Ends
    <3> QED
      BY <3>1, <3>2 DEF Ends
  <2>6. ChallengeFirst'
    <3>1. Awaits("client")' <=> Awaits("client")
      BY DEF Awaits, Reads
    <3>2. /\ net[d] # << >> => Head(net[d]) = Head(net'[d])
          /\ net'[d] # << >>
          /\ \A i \in DOMAIN net'[d] : net'[d][i] = chunk \/ \E j \in DOMAIN net[d] : net'[d][i] = net[d][j]
      <4>1. net'[d] = Append(net[d], chunk)
        BY <1>2, <2>1 DEF InboundTyped
      <4>2. chunk \in ChunksTo("client") \cup ChunksTo("server")
        BY <2>1 DEF Ends
      <4> HIDE DEF d
      <4> QED
        BY <2>1, <4>1, <4>2, AppendKeeps
    <3>3. \A x \in Ends : x # d => net'[x] = net[x]
      BY <1>2, <2>1 DEF InboundTyped
    <3>4. d = "client" => Connected("server") /\ accepted
      BY <1>2 DEF Peer, Ends, NothingBeforeAccept, Connected
    <3> QED
      BY <1>2, <2>1, <3>1, <3>2, <3>3, <3>4 DEF ChallengeFirst, Peer, Ends
  <2>7. HeardOnceValidated'
    BY DEF HeardOnceValidated, OnlyValidatedClientsHeard, Reads
  <2> QED
    BY <2>3, <2>4, <2>5, <2>6, <2>7
<1> QED
  BY <1>1, <1>2 DEF Transmit

(* A handler that closes the socket, the end of an operation or not.       *)
LEMMA ClosingKeepsReads ==
  ASSUME ReadChain, NEW e \in Ends, e = "server" => accepted,
         Close(e),
         UNCHANGED reading \/ reading' = [reading EXCEPT ![e] = << >>],
         UNCHANGED advWriting \/ advWriting' = [advWriting EXCEPT ![e] = "idle"],
         m_socket \in [Ends -> {"none", "open", "connected", "closed"}],
         UNCHANGED <<net, link, m_nADVOut, validated, rejected, received, sent>>
  PROVE  ReadChain'
<1> USE DEF ReadChain, link, received
<1>1. \A d \in Ends : /\ reading'[d] = reading[d] \/ reading'[d] = << >>
                      /\ advWriting'[d] = advWriting[d] \/ advWriting'[d] = "idle"
                      /\ m_socket'[d] = m_socket[d] \/ m_socket'[d] = "closed"
                      /\ d = e => m_socket'[d] = "closed"
                      /\ d # e => /\ reading'[d] = reading[d] /\ m_socket'[d] = m_socket[d]
                                  /\ advWriting'[d] = advWriting[d]
  BY DEF InboundTyped, Close
<1>2. "client" \in Ends /\ "server" \in Ends /\ \A d \in Ends : d \in {"client", "server"}
  BY DEF Ends
<1>3. InboundTyped'
  <2>1. reading' \in [Ends -> Seq(Ops(Kinds))]
    <3>1. << >> \in Seq(Ops(Kinds)) /\ reading \in [Ends -> Seq(Ops(Kinds))]
      BY EmptySeq DEF InboundTyped
    <3> QED
      BY <3>1
  <2>2. advWriting' \in [Ends -> {"idle", "live", "dead"}]
    BY DEF InboundTyped
  <2> QED
    BY <2>1, <2>2 DEF InboundTyped, Close
<1>4. OneReader'
  BY <1>1, <1>2, EmptySeq DEF OneReader, OneRead, Connected
<1>5. NothingBeforeAccept'
  BY <1>1, <1>2 DEF NothingBeforeAccept, Reads
<1>6. ChallengeFirst'
  BY <1>1, <1>2 DEF ChallengeFirst, Awaits, Reads, Close
<1>7. HeardOnceValidated'
  BY <1>1, <1>2 DEF HeardOnceValidated, OnlyValidatedClientsHeard, Reads
<1> QED
  BY <1>3, <1>4, <1>5, <1>6, <1>7
-----------------------------------------------------------------------------
LEMMA OpeningKeepsReads ==
  ASSUME ReadChain, OutboundTyped, ConnectToServer \/ TcpConnect
  PROVE  ReadChain'
<1> USE DEF ReadChain, OutboundTyped, ConnectToServer, TcpConnect, handshake, inbound,
            received, program
<1>1. InboundTyped'
  BY DEF InboundTyped
<1>2. OneReader'
  BY DEF OneReader, OneRead, Connected, InboundTyped, Ends
<1>3. NothingBeforeAccept'
  BY DEF NothingBeforeAccept, InboundTyped, OneReader, Reads, Ends
<1>4. ChallengeFirst'
  BY DEF ChallengeFirst, Awaits, Reads, Ends
<1>5. HeardOnceValidated'
  BY DEF HeardOnceValidated, OnlyValidatedClientsHeard, Reads
<1> QED
  BY <1>1, <1>2, <1>3, <1>4, <1>5

LEMMA ConnectCompletesKeepsReads ==
  ASSUME ReadChain, ConnectCompletes
  PROVE  ReadChain'
<1> USE DEF ReadChain
<1>1. "client" \in Ends /\ "server" \in Ends /\ "adv" \in Kinds
      /\ \A d \in Ends : d \in {"client", "server"}
  BY DEF Ends, Kinds
<1>2. connecting /\ reading["client"] = << >> /\ advWriting["client"] = "idle"
  BY DEF ConnectCompletes, OneReader
<1>3. /\ connecting' = FALSE
      /\ Connected("client") => reading' = [reading EXCEPT !["client"] = << Op("client", "adv") >>]
      /\ ~Connected("client") => UNCHANGED reading
      /\ UNCHANGED <<running, accepted, established, wire, sent, handshake, received>>
  BY <1>1, <1>2, StartReadBegins DEF ConnectCompletes, program
<1> DEFINE op == << Op("client", "adv") >>
<1>4. /\ op \in Seq(Ops(Kinds)) /\ Len(op) <= 1 /\ op # << >> /\ Head(op).kind = "adv"
  BY <1>1, ReadOpTyped
<1>a. Connected("client") => reading' = [reading EXCEPT !["client"] = op]
  BY <1>3
<1> HIDE DEF op
<1>5. /\ Connected("client") => reading'["client"] = op
      /\ ~Connected("client") => reading'["client"] = reading["client"]
      /\ reading'["server"] = reading["server"]
      /\ reading' \in [Ends -> Seq(Ops(Kinds))]
  <2>1. reading \in [Ends -> Seq(Ops(Kinds))]
    BY DEF InboundTyped
  <2>2. CASE Connected("client")
    BY <1>1, <1>4, <1>a, <2>1, <2>2
  <2>3. CASE ~Connected("client")
    BY <1>3, <2>1, <2>3
  <2> QED
    BY <2>2, <2>3
<1> USE DEF wire, handshake, received
<1>6. InboundTyped'
  BY <1>3, <1>5 DEF InboundTyped
<1>7. OneReader'
  <2>1. \A d \in Ends : Len(reading'[d]) <= 1
    <3>1. Len(reading["client"]) <= 1 /\ Len(reading["server"]) <= 1
      BY <1>1 DEF OneReader, OneRead
    <3>2. Len(reading'["client"]) <= 1 /\ Len(reading'["server"]) <= 1
      BY <1>4, <1>5, <3>1, Zenon
    <3> QED
      BY <1>1, <3>2
  <2>2. OneRead'
    BY <1>3, <1>4, <1>5, <2>1 DEF OneReader, OneRead, Connected
  <2> QED
    BY <1>2, <1>3, <2>2 DEF OneReader, Connected
<1>8. NothingBeforeAccept'
  BY <1>2, <1>3, <1>4, <1>5 DEF NothingBeforeAccept, Reads
<1>9. ChallengeFirst'
  BY <1>1, <1>2, <1>3, <1>5 DEF ChallengeFirst, Awaits, Reads
<1>10. HeardOnceValidated'
  BY <1>3, <1>5 DEF HeardOnceValidated, OnlyValidatedClientsHeard, Reads
<1> QED
  BY <1>6, <1>7, <1>8, <1>9, <1>10

LEMMA AcceptKeepsReads ==
  ASSUME ReadChain, OutboundTyped, AcceptConnection
  PROVE  ReadChain'
<1> USE DEF ReadChain
<1>1. "client" \in Ends /\ "server" \in Ends /\ "adv" \in Kinds
      /\ (\A d \in Ends : d \in {"client", "server"}) /\ Accept \in Messages
  BY SessionAssumption DEF Ends, Kinds
<1> DEFINE op == << [kind |-> "adv", live |-> TRUE] >>
<1>2. op \in Seq(Ops(Kinds)) /\ Len(op) <= 1 /\ op # << >> /\ Head(op).kind = "adv"
  BY <1>1 DEF Ops
<1>3. PICK challenge \in ValidationValues :
        net' = IF broken THEN net
               ELSE [net EXCEPT !["client"] = Append(@, Chunk("adv", challenge))]
  BY DEF AcceptConnection
<1> DEFINE chunk == Chunk("adv", challenge)
<1>4. chunk \in ChunksTo("client") /\ chunk.kind = "adv"
  BY DEF ChunksTo, ValuesTo, Chunk
<1>5. /\ established /\ ~accepted /\ accepted'
      /\ m_socket' = [m_socket EXCEPT !["server"] = "connected"]
      /\ sent' = [sent EXCEPT !["server"] = Append(@, Accept)]
      /\ advWriting' = [advWriting EXCEPT !["server"] = "live"]
      /\ reading' = [reading EXCEPT !["server"] = op]
      /\ UNCHANGED <<broken, running, connecting, established, validated, rejected, received>>
  BY DEF AcceptConnection
<1>6. /\ ~broken => net'["client"] = << chunk >>
      /\ broken => net'["client"] = net["client"]
      /\ net'["server"] = net["server"] /\ net["client"] = << >>
      /\ net' \in [Ends -> Seq(ChunksTo("client") \cup ChunksTo("server"))]
      /\ net'["client"] \in Seq(ChunksTo("client"))
  <2>1. net["client"] = << >>
    BY <1>5 DEF NothingBeforeAccept, Reads
  <2>2. Append(net["client"], chunk) = << chunk >>
    BY <2>1
  <2>3. << chunk >> \in Seq(ChunksTo("client"))
        /\ << chunk >> \in Seq(ChunksTo("client") \cup ChunksTo("server"))
    BY <1>4
  <2>4. net' = IF broken THEN net ELSE [net EXCEPT !["client"] = << chunk >>]
    BY <1>3, <2>1, <2>2 DEF InboundTyped
  <2> HIDE DEF chunk
  <2>5. CASE broken
    BY <2>1, <2>4, <2>5 DEF InboundTyped
  <2>6. CASE ~broken
    BY <1>1, <2>1, <2>3, <2>4, <2>6 DEF InboundTyped
  <2> QED
    BY <2>5, <2>6
<1>7. << chunk >> # << >> /\ Head(<< chunk >>) = chunk
  OBVIOUS
<1> HIDE DEF op, chunk
<1>8. /\ reading'["server"] = op /\ reading'["client"] = reading["client"]
      /\ advWriting'["client"] = advWriting["client"]
      /\ m_socket'["server"] = "connected" /\ m_socket'["client"] = m_socket["client"]
  BY <1>1, <1>5 DEF InboundTyped, OutboundTyped
<1> USE DEF received
<1>9. InboundTyped'
  <2>1. reading' \in [Ends -> Seq(Ops(Kinds))]
    BY <1>2, <1>5 DEF InboundTyped
  <2>2. advWriting' \in [Ends -> {"idle", "live", "dead"}]
    BY <1>5 DEF InboundTyped
  <2>3. sent' \in [Ends -> Seq(Messages)]
    BY <1>1, <1>5 DEF InboundTyped
  <2> QED
    BY <1>5, <1>6, <2>1, <2>2, <2>3 DEF InboundTyped
<1>10. OneReader'
  <2>1. \A d \in Ends : Len(reading'[d]) <= 1
    <3>1. Len(reading["client"]) <= 1
      BY <1>1 DEF OneReader, OneRead
    <3>2. Len(reading'["client"]) <= 1 /\ Len(reading'["server"]) <= 1
      BY <1>2, <1>8, <3>1, Zenon
    <3> QED
      BY <1>1, <3>2
  <2>2. OneRead'
    BY <1>2, <1>5, <1>8, <2>1 DEF OneReader, OneRead, Connected
  <2> QED
    BY <1>5, <1>8, <2>2 DEF OneReader, Connected
<1>11. NothingBeforeAccept'
  BY <1>5, <1>6, <1>8 DEF NothingBeforeAccept, Reads
<1>12. ChallengeFirst'
  BY <1>1, <1>4, <1>5, <1>6, <1>7, <1>8 DEF ChallengeFirst, Awaits, Reads
<1>13. HeardOnceValidated'
  BY <1>2, <1>5, <1>8 DEF HeardOnceValidated, OnlyValidatedClientsHeard, Reads, NothingBeforeAccept
<1> QED
  BY <1>9, <1>10, <1>11, <1>12, <1>13
-----------------------------------------------------------------------------
(* The handlers of the handshake.                                          *)

(* Taking the first chunk off the stream.                                  *)
LEMMA TakeChunk ==
  ASSUME ReadChain, NEW e \in Ends, net[e] # << >>,
         net' = [net EXCEPT ![e] = Tail(@)]
  PROVE  /\ net' \in [Ends -> Seq(ChunksTo("client") \cup ChunksTo("server"))]
         /\ net'["client"] \in Seq(ChunksTo("client"))
         /\ net'[e] = Tail(net[e])
         /\ \A d \in Ends : d # e => net'[d] = net[d]
         /\ \A d \in Ends : \A i \in DOMAIN net'[d] : \E j \in DOMAIN net[d] : net'[d][i] = net[d][j]
         /\ Head(net[e]) \in ChunksTo("client") \cup ChunksTo("server")
         /\ e = "client" => Head(net[e]) \in ChunksTo("client")
         /\ 1 \in DOMAIN net[e] /\ Head(net[e]) = net[e][1]
<1> DEFINE All == ChunksTo("client") \cup ChunksTo("server")
<1>1. net \in [Ends -> Seq(All)] /\ net[e] \in Seq(All) /\ net["client"] \in Seq(ChunksTo("client"))
  BY DEF ReadChain, InboundTyped
<1> HIDE DEF All
<1>2. Tail(net[e]) \in Seq(All) /\ Head(net[e]) \in All
  BY <1>1, HeadTailProperties
<1>3. e = "client" => /\ Tail(net[e]) \in Seq(ChunksTo("client"))
                      /\ Head(net[e]) \in ChunksTo("client")
  BY <1>1, HeadTailProperties
<1>4. net'[e] = Tail(net[e]) /\ \A d \in Ends : d # e => net'[d] = net[d]
  BY <1>1
<1>5. net' \in [Ends -> Seq(All)] /\ net'["client"] \in Seq(ChunksTo("client"))
  <2>1. "client" \in Ends
    BY DEF Ends
  <2>2. net'["client"] \in Seq(ChunksTo("client"))
    BY <1>1, <1>3, <1>4, <2>1
  <2> QED
    BY <1>1, <1>2, <2>2
<1>6. 1 \in DOMAIN net[e] /\ Head(net[e]) = net[e][1]
  BY <1>1, EmptySeq, LenProperties, HeadTailProperties
<1>7. \A i \in DOMAIN Tail(net[e]) : \E j \in DOMAIN net[e] : Tail(net[e])[i] = net[e][j]
  <2>1. /\ Len(Tail(net[e])) = Len(net[e]) - 1
        /\ \A i \in 1 .. Len(Tail(net[e])) : Tail(net[e])[i] = net[e][i + 1]
    BY <1>1, HeadTailProperties
  <2>2. DOMAIN net[e] = 1 .. Len(net[e]) /\ DOMAIN Tail(net[e]) = 1 .. Len(Tail(net[e]))
        /\ Len(net[e]) \in Nat
    BY <1>1, <1>2, LenProperties
  <2>3. ASSUME NEW i \in 1 .. Len(Tail(net[e])) PROVE i + 1 \in 1 .. Len(net[e])
    BY <2>1, <2>2
  <2> QED
    BY <2>1, <2>2, <2>3
<1> QED
  BY <1>1, <1>2, <1>3, <1>4, <1>5, <1>6, <1>7 DEF All

LEMMA ReadValidationServerKeepsReads ==
  ASSUME ReadChain, OutboundTyped, ReadValidationServer
  PROVE  ReadChain'
<1> USE DEF ReadChain
<1>1. "client" \in Ends /\ "server" \in Ends /\ "hdr" \in Kinds
      /\ \A d \in Ends : d \in {"client", "server"}
  BY DEF Ends, Kinds
<1>2. /\ reading["server"] # << >> /\ Head(reading["server"]) = [kind |-> "adv", live |-> TRUE]
      /\ net["server"] # << >>
      /\ net' = [net EXCEPT !["server"] = Tail(@)]
      /\ UNCHANGED <<advWriting, m_nADVOut, link, program, received>>
  BY DEF ReadValidationServer, ReadCompletes
<1>3. Reads("server", "adv") /\ accepted
  BY <1>2 DEF Reads, NothingBeforeAccept
<1> DEFINE op == << Op("server", "hdr") >>
<1>4. op \in Seq(Ops(Kinds)) /\ Len(op) <= 1 /\ op # << >> /\ Head(op).kind = "hdr"
  BY <1>1, ReadOpTyped
<1>5. /\ net' \in [Ends -> Seq(ChunksTo("client") \cup ChunksTo("server"))]
      /\ net'["client"] = net["client"]
      /\ \A i \in DOMAIN net'["server"] : \E j \in DOMAIN net["server"] :
           net'["server"][i] = net["server"][j]
      /\ 1 \in DOMAIN net["server"] /\ Head(net["server"]) = net["server"][1]
  BY <1>1, <1>2, TakeChunk
<1>6. Awaits("client")' => Awaits("client")
  <2>1. reading'["client"] = reading["client"]
    BY <1>1 DEF ReadValidationServer, ReadNext, InboundTyped
  <2>2. m_socket'["client"] = m_socket["client"]
    BY <1>1 DEF ReadValidationServer, Close, OutboundTyped
  <2> QED
    BY <1>2, <2>1, <2>2 DEF Awaits, Reads, link
<1> USE DEF link, program, received
<1>7. CASE Head(net["server"]) = Chunk("adv", m_nADVCheck)
  <2>1. /\ validated' = TRUE /\ reading' = [reading EXCEPT !["server"] = op]
        /\ UNCHANGED <<m_socket, broken, rejected>>
    BY <1>1, <1>2, <1>4, <1>7, ReadNextReplaces DEF ReadValidationServer
  <2>2. ~Awaits("client")
    BY <1>5, <1>7 DEF ChallengeFirst, Chunk
  <2>3. /\ reading'["server"] = op /\ reading'["client"] = reading["client"]
        /\ reading' \in [Ends -> Seq(Ops(Kinds))]
    BY <1>1, <1>4, <2>1 DEF InboundTyped
  <2> HIDE DEF op
  <2>4. InboundTyped'
    BY <1>2, <1>5, <2>1, <2>3 DEF InboundTyped
  <2>5. OneReader'
    <3>1. \A d \in Ends : Len(reading'[d]) <= 1
      <4>1. Len(reading["client"]) <= 1 /\ Len(op) <= 1
        BY <1>1, <1>4 DEF OneReader, OneRead
      <4>2. Len(reading'["client"]) <= 1 /\ Len(reading'["server"]) <= 1
        BY <2>3, <4>1, Zenon
      <4> QED
        BY <1>1, <4>2
    <3>2. OneRead'
      BY <1>2, <1>4, <2>1, <2>3, <3>1 DEF OneReader, OneRead, Connected
    <3> QED
      BY <1>2, <2>1, <2>3, <3>2 DEF OneReader, Connected
  <2>6. NothingBeforeAccept'
    BY <1>2, <1>3, <1>5 DEF NothingBeforeAccept, OneReader, Reads
  <2>7. ChallengeFirst'
    BY <1>6, <2>2 DEF ChallengeFirst
  <2>8. HeardOnceValidated'
    BY <1>2, <1>3, <1>4, <2>1, <2>3 DEF HeardOnceValidated, OnlyValidatedClientsHeard, Reads
  <2> QED
    BY <2>4, <2>5, <2>6, <2>7, <2>8
<1>8. CASE Head(net["server"]) # Chunk("adv", m_nADVCheck)
  <2>0. << >> \in Seq(Ops(Kinds))
    BY EmptySeq
  <2>1. /\ rejected' = TRUE /\ reading' = [reading EXCEPT !["server"] = << >>]
        /\ m_socket' = [m_socket EXCEPT !["server"] = "closed"] /\ broken' = TRUE
        /\ UNCHANGED validated
    BY <1>1, <1>2, <1>8, <2>0, ReadNextReplaces DEF ReadValidationServer, Close
  <2>2. /\ reading'["server"] = << >> /\ reading'["client"] = reading["client"]
        /\ reading' \in [Ends -> Seq(Ops(Kinds))]
        /\ m_socket'["server"] = "closed" /\ m_socket'["client"] = m_socket["client"]
    BY <1>1, <2>0, <2>1 DEF InboundTyped, OutboundTyped
  <2>3. InboundTyped'
    BY <1>2, <1>5, <2>1, <2>2 DEF InboundTyped
  <2>4. OneReader'
    <3>1. \A d \in Ends : Len(reading'[d]) <= 1
      BY <1>1, <2>2, EmptySeq DEF OneReader, OneRead
    <3>2. OneRead'
      BY <1>2, <2>1, <2>2, <3>1 DEF OneReader, OneRead, Connected
    <3> QED
      BY <1>2, <2>1, <2>2, <3>2 DEF OneReader, Connected
  <2>5. NothingBeforeAccept'
    BY <1>2, <1>3, <1>5 DEF NothingBeforeAccept, OneReader, Reads
  <2>6. ChallengeFirst'
    BY <1>2, <1>5, <1>6, <2>1 DEF ChallengeFirst
  <2>7. HeardOnceValidated'
    BY <1>2, <1>3, <2>1, <2>2 DEF HeardOnceValidated, OnlyValidatedClientsHeard, Reads
  <2> QED
    BY <2>3, <2>4, <2>5, <2>6, <2>7
<1> QED
  BY <1>7, <1>8

LEMMA ReadValidationClientKeepsReads ==
  ASSUME ReadChain, ReadValidationClient
  PROVE  ReadChain'
<1> USE DEF ReadChain
<1>1. "client" \in Ends /\ "server" \in Ends /\ (\A d \in Ends : d \in {"client", "server"})
      /\ Peer("client") = "server"
  BY DEF Ends, Peer
<1> DEFINE answer == Scrambled(Head(net["client"]).val)
           chunk == Chunk("adv", answer)
<1>2. /\ reading["client"] # << >> /\ Head(reading["client"]) = [kind |-> "adv", live |-> TRUE]
      /\ net["client"] # << >>
      /\ net' = [net EXCEPT !["client"] = Tail(@),
                            !["server"] = IF Connected("client") /\ ~broken
                                          THEN Append(@, chunk) ELSE @]
      /\ advWriting' = [advWriting EXCEPT !["client"] = Live("client")]
      /\ UNCHANGED <<m_socket, broken, validated, rejected, link, program, received>>
  BY DEF ReadValidationClient, AnswerWith, ReadCompletes
<1>3. << >> \in Seq(Ops(Kinds)) /\ Len(<< >>) <= 1
  BY EmptySeq
<1>4. reading' = [reading EXCEPT !["client"] = << >>]
  BY <1>1, <1>2, <1>3, ReadNextReplaces DEF ReadValidationClient, AnswerWith
<1>5. /\ reading'["client"] = << >> /\ reading'["server"] = reading["server"]
      /\ reading' \in [Ends -> Seq(Ops(Kinds))]
  BY <1>1, <1>3, <1>4 DEF InboundTyped
<1>6. Awaits("client") /\ accepted /\ m_socket["client"] # "none" /\ ~connecting
  BY <1>2 DEF Awaits, Reads, OneReader, NothingBeforeAccept
<1>7. chunk \in ChunksTo("client") \cup ChunksTo("server")
  <2>1. Head(net["client"]) \in ChunksTo("client")
    BY <1>1, <1>2, HeadTailProperties DEF InboundTyped
  <2>2. Head(net["client"]).kind = "adv"
    BY <1>2, <1>6 DEF ChallengeFirst
  <2>3. Head(net["client"]).val \in ValidationValues
    BY <1>1, <2>1, <2>2, ChunkInverts DEF ValuesTo
  <2> QED
    BY <2>3 DEF ChunksTo, ValuesTo, Chunk
<1> HIDE DEF chunk, answer
<1>8. /\ net' \in [Ends -> Seq(ChunksTo("client") \cup ChunksTo("server"))]
      /\ net'["client"] \in Seq(ChunksTo("client"))
      /\ Connected("client") \/ net'["server"] = net["server"]
  <2> DEFINE All == ChunksTo("client") \cup ChunksTo("server")
  <2>1. /\ net \in [Ends -> Seq(All)] /\ net["client"] \in Seq(ChunksTo("client"))
        /\ net["client"] \in Seq(All) /\ net["server"] \in Seq(All)
    BY <1>1 DEF InboundTyped
  <2>2. Tail(net["client"]) \in Seq(ChunksTo("client"))
    BY <1>2, <2>1, HeadTailProperties
  <2> HIDE DEF All
  <2>3. Tail(net["client"]) \in Seq(All) /\ Append(net["server"], chunk) \in Seq(All)
    BY <1>2, <1>7, <2>1, HeadTailProperties DEF All
  <2>4. /\ net'["client"] = Tail(net["client"])
        /\ net'["server"] = IF Connected("client") /\ ~broken
                            THEN Append(net["server"], chunk) ELSE net["server"]
    BY <1>1, <1>2, <2>1
  <2>5. net' \in [Ends -> Seq(All)]
    <3>1. CASE Connected("client") /\ ~broken
      BY <1>2, <2>1, <2>3, <3>1
    <3>2. CASE ~(Connected("client") /\ ~broken)
      BY <1>2, <2>1, <2>3, <3>2
    <3> QED
      BY <3>1, <3>2
  <2> QED
    BY <2>2, <2>4, <2>5 DEF All
<1> USE DEF link, program, received
<1>9. /\ advWriting' \in [Ends -> {"idle", "live", "dead"}]
      /\ advWriting'["client"] \in {"live", "dead"} /\ advWriting'["server"] = advWriting["server"]
  BY <1>1, <1>2 DEF InboundTyped, Live
<1>10. InboundTyped'
  BY <1>2, <1>5, <1>8, <1>9 DEF InboundTyped
<1>11. OneReader'
  <2>1. \A d \in Ends : Len(reading'[d]) <= 1
    <3>1. Len(reading["server"]) <= 1
      BY <1>1 DEF OneReader, OneRead
    <3>2. Len(reading'["client"]) <= 1 /\ Len(reading'["server"]) <= 1
      BY <1>3, <1>5, <3>1, Zenon
    <3> QED
      BY <1>1, <3>2
  <2>2. OneRead'
    BY <1>2, <1>5, <1>9, <2>1 DEF OneReader, OneRead, Connected
  <2> QED
    BY <1>2, <1>5, <1>6, <2>2 DEF OneReader, Connected
<1>12. NothingBeforeAccept'
  BY <1>2, <1>6, <1>8 DEF NothingBeforeAccept, Reads
<1>13. ChallengeFirst'
  BY <1>2, <1>5, <1>6 DEF ChallengeFirst, Awaits, Reads
<1>14. HeardOnceValidated'
  BY <1>2, <1>5 DEF HeardOnceValidated, OnlyValidatedClientsHeard, Reads
<1> QED
  BY <1>10, <1>11, <1>12, <1>13, <1>14

LEMMA WriteValidationKeepsReads ==
  ASSUME ReadChain, NEW e \in Ends, WriteValidationCompletes(e)
  PROVE  ReadChain'
<1> USE DEF ReadChain
<1>1. "client" \in Ends /\ "server" \in Ends /\ "hdr" \in Kinds
      /\ \A d \in Ends : d \in {"client", "server"}
  BY DEF Ends, Kinds
<1>2. /\ advWriting[e] = "live" /\ advWriting' = [advWriting EXCEPT ![e] = "idle"]
      /\ e = "client" => StartRead(e, "hdr")
      /\ e = "server" => UNCHANGED reading
      /\ UNCHANGED <<m_nADVOut, validated, rejected, wire, link, program, received>>
  BY DEF WriteValidationCompletes, WriteValidationThenRead
<1>3. /\ advWriting'[e] = "idle" /\ \A d \in Ends : d # e => advWriting'[d] = advWriting[d]
      /\ advWriting' \in [Ends -> {"idle", "live", "dead"}]
  BY <1>2 DEF InboundTyped
<1> USE DEF wire, link, program, received
<1>4. CASE e = "server"
  <2>1. UNCHANGED reading
    BY <1>2, <1>4
  <2>2. InboundTyped'
    BY <1>2, <1>3, <2>1 DEF InboundTyped
  <2>3. OneReader'
    BY <1>1, <1>2, <1>3, <1>4, <2>1 DEF OneReader, OneRead, Connected
  <2>4. NothingBeforeAccept'
    BY <1>2, <1>3, <1>4, <2>1 DEF NothingBeforeAccept, Reads
  <2>5. ChallengeFirst'
    BY <1>2, <2>1 DEF ChallengeFirst, Awaits, Reads
  <2>6. HeardOnceValidated'
    BY <1>2, <2>1 DEF HeardOnceValidated, OnlyValidatedClientsHeard, Reads
  <2> QED
    BY <2>2, <2>3, <2>4, <2>5, <2>6
<1>5. CASE e = "client"
  <2> DEFINE op == << Op("client", "hdr") >>
  <2>1. op \in Seq(Ops(Kinds)) /\ Len(op) <= 1 /\ op # << >> /\ Head(op).kind = "hdr"
    BY <1>1, ReadOpTyped
  <2>2. reading["client"] = << >> /\ m_socket["client"] # "none" /\ ~connecting
    BY <1>2, <1>5 DEF OneReader
  <2>3. reading' = [reading EXCEPT !["client"] = op]
    BY <1>1, <1>2, <1>5, <2>2, StartReadBegins
  <2>4. /\ reading'["client"] = op /\ reading'["server"] = reading["server"]
        /\ reading' \in [Ends -> Seq(Ops(Kinds))]
    BY <1>1, <2>1, <2>3 DEF InboundTyped
  <2> HIDE DEF op
  <2>5. InboundTyped'
    BY <1>2, <1>3, <2>4 DEF InboundTyped
  <2>6. OneReader'
    <3>1. Len(reading["server"]) <= 1
      BY <1>1 DEF OneReader, OneRead
    <3>2. Len(reading'["client"]) <= 1 /\ Len(reading'["server"]) <= 1
      BY <2>1, <2>4, <3>1, Zenon
    <3>3. OneRead'
      BY <1>1, <1>2, <2>1, <2>4, <3>2 DEF OneReader, OneRead, Connected
    <3> QED
      BY <1>2, <1>3, <1>5, <2>2, <3>3 DEF OneReader, Connected
  <2>7. NothingBeforeAccept'
    BY <1>1, <1>2, <1>3, <1>5, <2>4 DEF NothingBeforeAccept, Reads
  <2>8. ChallengeFirst'
    BY <1>2, <2>1, <2>2, <2>4 DEF Awaits, Reads, ChallengeFirst
  <2>9. HeardOnceValidated'
    BY <1>2, <2>4 DEF HeardOnceValidated, OnlyValidatedClientsHeard, Reads
  <2> QED
    BY <2>5, <2>6, <2>7, <2>8, <2>9
<1> QED
  BY <1>1, <1>4, <1>5
-----------------------------------------------------------------------------
(* A handler of ReadHeader or ReadBody: a chunk off the stream, the read   *)
(* replaced by the next, perhaps a message for the program.                *)
LEMMA ReadingKeepsReads ==
  ASSUME ReadChain, NEW e \in Ends, NEW kind \in {"hdr", "body"},
         reading[e] # << >>, ~Reads(e, "adv"), net[e] # << >>,
         net' = [net EXCEPT ![e] = Tail(@)],
         ReadNext(e, << Op(e, kind) >>),
         NEW temporary \in Temporaries,
         m_msgTemporaryIn' = [m_msgTemporaryIn EXCEPT ![e] = temporary],
         \/ UNCHANGED m_qMessagesIn
         \/ m_qMessagesIn' = [m_qMessagesIn EXCEPT ![e] = Append(@, temporary)],
         UNCHANGED <<m_socket, broken, link, program, handshake>>
  PROVE  ReadChain'
<1> USE DEF ReadChain, link, program, handshake
<1>1. "client" \in Ends /\ "server" \in Ends /\ kind \in Kinds
      /\ \A d \in Ends : d \in {"client", "server"}
  BY DEF Ends, Kinds
<1> DEFINE op == << Op(e, kind) >>
<1>2. op \in Seq(Ops(Kinds)) /\ Len(op) <= 1 /\ op # << >> /\ Head(op).kind = kind
  BY <1>1, ReadOpTyped
<1>3. reading' = [reading EXCEPT ![e] = op]
  BY <1>2, ReadNextReplaces
<1>4. /\ reading'[e] = op /\ \A d \in Ends : d # e => reading'[d] = reading[d]
      /\ reading' \in [Ends -> Seq(Ops(Kinds))]
  BY <1>2, <1>3 DEF InboundTyped
<1> HIDE DEF op
<1>5. /\ net' \in [Ends -> Seq(ChunksTo("client") \cup ChunksTo("server"))]
      /\ net'["client"] \in Seq(ChunksTo("client"))
      /\ \A d \in Ends : d # e => net'[d] = net[d]
      /\ \A d \in Ends : \A i \in DOMAIN net'[d] : \E j \in DOMAIN net[d] : net'[d][i] = net[d][j]
  BY TakeChunk
<1>6. /\ e = "server" => accepted /\ established /\ validated /\ ~rejected
      /\ e = "client" => m_socket["client"] # "none" /\ ~connecting
  BY DEF NothingBeforeAccept, HeardOnceValidated, OneReader
<1>7. InboundTyped'
  <2>1. m_qMessagesIn' \in [Ends -> Seq(Temporaries)]
    <3>1. Append(m_qMessagesIn[e], temporary) \in Seq(Temporaries)
      BY DEF InboundTyped
    <3> QED
      BY <3>1 DEF InboundTyped
  <2>2. m_msgTemporaryIn' \in [Ends -> Temporaries]
    BY DEF InboundTyped
  <2> QED
    BY <1>4, <1>5, <2>1, <2>2 DEF InboundTyped
<1>8. OneReader'
  <2>1. \A d \in Ends : Len(reading'[d]) <= 1
    <3> SUFFICES ASSUME NEW d \in Ends PROVE Len(reading'[d]) <= 1
      OBVIOUS
    <3>1. CASE d = e
      BY <1>2, <1>4, <3>1, Zenon
    <3>2. CASE d # e
      <4>1. Len(reading[d]) <= 1
        BY DEF OneReader, OneRead
      <4> QED
        BY <1>4, <3>2, <4>1, Zenon
    <3> QED
      BY <3>1, <3>2
  <2>2. OneRead'
    BY <1>1, <1>2, <1>4, <2>1 DEF OneReader, OneRead, Connected
  <2> QED
    BY <1>1, <1>2, <1>4, <1>6, <2>2 DEF OneReader, Connected
<1>9. NothingBeforeAccept'
  BY <1>1, <1>4, <1>5, <1>6 DEF NothingBeforeAccept, InboundTyped, Reads
<1>10. ChallengeFirst'
  <2>1. CASE e = "client"
    BY <1>2, <1>4, <1>6, <2>1 DEF Awaits, Reads, ChallengeFirst
  <2>2. CASE e = "server"
    <3>1. Awaits("client")' => Awaits("client")
      BY <1>1, <1>4, <2>2 DEF Awaits, Reads
    <3> QED
      BY <1>1, <1>5, <2>2, <3>1 DEF ChallengeFirst
  <2> QED
    BY <1>1, <2>1, <2>2
<1>11. HeardOnceValidated'
  <2>1. CASE e = "client"
    BY <1>1, <1>4, <2>1 DEF HeardOnceValidated, OnlyValidatedClientsHeard, Reads, InboundTyped
  <2>2. CASE e = "server"
    BY <1>2, <1>4, <1>6, <2>2 DEF HeardOnceValidated, OnlyValidatedClientsHeard, Reads
  <2> QED
    BY <1>1, <2>1, <2>2
<1> QED
  BY <1>7, <1>8, <1>9, <1>10, <1>11

LEMMA ReadHeaderKeepsReads ==
  ASSUME ReadChain, NEW e \in Ends, ReadHeader(e)
  PROVE  ReadChain'
<1> DEFINE msg == Head(net[e]).val
           temporary == [m_msgTemporaryIn[e] EXCEPT !.header = msg]
<1>1. /\ reading[e] # << >> /\ Head(reading[e]) = [kind |-> "hdr", live |-> TRUE]
      /\ net[e] # << >> /\ Head(net[e]).kind = "hdr"
      /\ net' = [net EXCEPT ![e] = Tail(@)]
      /\ m_msgTemporaryIn' = [m_msgTemporaryIn EXCEPT ![e] = temporary]
      /\ UNCHANGED <<m_socket, broken, link, program, handshake>>
  BY DEF ReadHeader, ReadCompletes
<1>2. ~Reads(e, "adv")
  BY <1>1 DEF Reads
<1>3. temporary \in Temporaries
  <2>1. Head(net[e]) \in ChunksTo("client") \cup ChunksTo("server")
    BY <1>1, TakeChunk
  <2>2. msg \in Messages
    BY <1>1, <2>1, ChunkInverts DEF Ends
  <2> HIDE DEF msg
  <2> QED
    BY <2>2 DEF ReadChain, InboundTyped, Temporaries
<1>4. \/ ReadNext(e, << Op(e, "body") >>) /\ UNCHANGED m_qMessagesIn
      \/ /\ ReadNext(e, << Op(e, "hdr") >>)
         /\ m_qMessagesIn' = [m_qMessagesIn EXCEPT ![e] = Append(@, temporary)]
  BY DEF ReadHeader, AddToIncomingMessageQueue
<1> HIDE DEF temporary, msg
<1> QED
  BY <1>1, <1>2, <1>3, <1>4, ReadingKeepsReads

LEMMA ReadBodyKeepsReads ==
  ASSUME ReadChain, NEW e \in Ends, ReadBody(e)
  PROVE  ReadChain'
<1> DEFINE temporary == [m_msgTemporaryIn[e] EXCEPT !.body = Head(net[e]).val]
<1>1. /\ reading[e] # << >> /\ Head(reading[e]) = [kind |-> "body", live |-> TRUE]
      /\ net[e] # << >> /\ Head(net[e]).kind = "body"
      /\ net' = [net EXCEPT ![e] = Tail(@)]
      /\ m_msgTemporaryIn' = [m_msgTemporaryIn EXCEPT ![e] = temporary]
      /\ ReadNext(e, << Op(e, "hdr") >>)
      /\ m_qMessagesIn' = [m_qMessagesIn EXCEPT ![e] = Append(@, temporary)]
      /\ UNCHANGED <<m_socket, broken, link, program, handshake>>
  BY DEF ReadBody, ReadCompletes, AddToIncomingMessageQueue
<1>2. ~Reads(e, "adv")
  BY <1>1 DEF Reads
<1>3. temporary \in Temporaries
  <2>1. Head(net[e]) \in ChunksTo("client") \cup ChunksTo("server")
    BY <1>1, TakeChunk
  <2>2. Head(net[e]).val \in Messages
    BY <1>1, <2>1, ChunkInverts DEF Ends
  <2> QED
    BY <2>2 DEF ReadChain, InboundTyped, Temporaries
<1> HIDE DEF temporary
<1> QED
  BY <1>1, <1>2, <1>3, ReadingKeepsReads
-----------------------------------------------------------------------------
LEMMA PostingKeepsReads ==
  ASSUME ReadChain, NEW e \in Ends, Program(e)
  PROVE  ReadChain'
<1>1. /\ UNCHANGED <<m_socket, net, broken, connecting, accepted, established, running,
                     handshake, inbound>>
      /\ sent' \in [Ends -> Seq(Messages)]
  <2>1. CASE Disconnect(e)
    BY <2>1 DEF Disconnect, wire, link, ReadChain, InboundTyped
  <2>2. ASSUME NEW msg \in SentBy[e], Send(e, msg)
        PROVE  /\ UNCHANGED <<m_socket, net, broken, connecting, accepted, established, running,
                             handshake, inbound>>
               /\ sent' \in [Ends -> Seq(Messages)]
    <3>1. msg \in Messages
      BY SessionAssumption
    <3> QED
      BY <2>2, <3>1 DEF Send, wire, link, ReadChain, InboundTyped
  <2> QED
    BY <2>1, <2>2 DEF Program
<1> QED
  BY <1>1, QuietKeepsReads DEF ReadChain, InboundTyped

LEMMA EndingKeepsReads ==
  ASSUME ReadChain, RunReturns \/ NetworkFails
  PROVE  ReadChain'
<1>1. /\ UNCHANGED <<m_socket, net, connecting, accepted, established, handshake, inbound, sent>>
      /\ running' \in BOOLEAN /\ broken' \in BOOLEAN /\ (broken => broken')
  BY DEF RunReturns, NetworkFails, wire, link, program, ReadChain, InboundTyped
<1> QED
  BY <1>1, QuietKeepsReads DEF ReadChain, InboundTyped

LEMMA ClosersKeepReads ==
  ASSUME ReadChain, WriteChain, NEW e \in Ends,
         WriteValidationFails(e) \/ ReadError(e) \/ PostedClose(e) \/ WriteError(e)
  PROVE  ReadChain'
<1>1. /\ Close(e)
      /\ UNCHANGED <<net, link, m_nADVOut, validated, rejected, received, sent>>
  BY DEF WriteValidationFails, ReadError, PostedClose, WriteError, handshake, inbound, program
<1>2. e = "server" => accepted
  BY DEF WriteValidationFails, ReadError, ReadFails, PostedClose, WriteError, WriteFails,
     ReadChain, NothingBeforeAccept, WriteChain, NothingBeforeSocket, OneMessageWrite
<1>3. UNCHANGED reading \/ reading' = [reading EXCEPT ![e] = << >>]
  <2>1. CASE ReadError(e)
    <3>1. << >> \in Seq(Ops(Kinds))
      BY EmptySeq
    <3> QED
      BY <2>1, <3>1, ReadNextReplaces DEF ReadError, ReadFails
  <2> QED
    BY <2>1 DEF WriteValidationFails, PostedClose, WriteError, inbound
<1>4. UNCHANGED advWriting \/ advWriting' = [advWriting EXCEPT ![e] = "idle"]
  BY DEF WriteValidationFails, ReadError, PostedClose, WriteError, handshake
<1>5. m_socket \in [Ends -> {"none", "open", "connected", "closed"}]
  BY DEF WriteChain, OutboundTyped
<1> QED
  BY <1>1, <1>2, <1>3, <1>4, <1>5, ClosingKeepsReads

(* The chunks that the write chain hands over are of queued messages.      *)
LEMMA WritersTransmit ==
  ASSUME WriteChain, NEW e \in Ends, PostedSend(e) \/ WriteHeader(e) \/ WriteBody(e)
  PROVE  /\ UNCHANGED <<m_socket, broken, link, handshake, inbound, sent>>
         /\ \/ UNCHANGED net
            \/ \E kind \in {"hdr", "body"}, msg \in Messages : Transmit(e, Chunk(kind, msg))
<1>1. UNCHANGED <<m_socket, broken, link, handshake, inbound, sent>>
  BY DEF PostedSend, QueueToSend, WriteHeader, WriteBody, program
<1>2. CASE PostedSend(e)
  <2>1. Head(posted[e]) \in Messages
    BY <1>2, HeadTailProperties DEF PostedSend, WriteChain, OutboundTyped
  <2>2. UNCHANGED net \/ Transmit(e, Chunk("hdr", Head(posted[e])))
    BY <1>2 DEF PostedSend, QueueToSend
  <2> QED
    BY <1>1, <2>1, <2>2
<1>3. CASE WriteHeader(e) \/ WriteBody(e)
  <2> DEFINE queue == m_qMessagesOut[e]
  <2>1. queue \in Seq(Messages) /\ queue # << >>
    BY <1>3 DEF WriteHeader, WriteBody, WriteCompletes, WriteChain, OutboundTyped, OneMessageWrite
  <2>2. Head(queue) \in Messages /\ Tail(queue) \in Seq(Messages)
    BY <2>1, HeadTailProperties
  <2>3. Tail(queue) # << >> => Head(Tail(queue)) \in Messages
    BY <2>2, HeadTailProperties
  <2>4. \/ UNCHANGED net
        \/ Transmit(e, Chunk("body", Head(queue)))
        \/ Tail(queue) # << >> /\ Transmit(e, Chunk("hdr", Head(Tail(queue))))
    BY <1>3 DEF WriteHeader, WriteBody, PopAndWriteNext
  <2> QED
    BY <1>1, <2>2, <2>3, <2>4
<1> QED
  BY <1>2, <1>3

LEMMA WritersKeepReads ==
  ASSUME ReadChain, WriteChain, NEW e \in Ends,
         PostedSend(e) \/ WriteHeader(e) \/ WriteBody(e)
  PROVE  ReadChain'
<1>1. UNCHANGED <<m_socket, broken, link, handshake, inbound, sent>>
  BY WritersTransmit
<1>2. CASE UNCHANGED net
  BY <1>1, <1>2, QuietKeepsReads DEF ReadChain, InboundTyped, link
<1>3. ASSUME NEW kind \in {"hdr", "body"}, NEW msg \in Messages, Transmit(e, Chunk(kind, msg))
      PROVE  ReadChain'
  <2> DEFINE chunk == Chunk(kind, msg)
  <2>1. Peer(e) \in Ends
    BY DEF Peer, Ends
  <2>2. chunk \in ChunksTo(Peer(e)) /\ chunk.kind # "adv"
    BY <2>1, ChunkTyped
  <2>3. Transmit(e, chunk)
    BY <1>3
  <2> HIDE DEF chunk
  <2> QED
    BY <1>1, <2>2, <2>3, WritingKeepsReads
<1> QED
  BY <1>2, <1>3, WritersTransmit

(* The invariant behind the theorems below: every handler and every call   *)
(* of the two programs leaves the reads, the challenge and its answer in   *)
(* step.                                                                   *)
THEOREM AlwaysReadChain == Spec => []ReadChain
<1>1. ReadChain /\ UNCHANGED vars => ReadChain'
  BY QuietKeepsReads DEF ReadChain, InboundTyped, vars, wire, link, program
<1>2. ASSUME ReadChain, WriteChain, NEW e \in Ends, Handler(e)
      PROVE  ReadChain'
  BY <1>2, WriteValidationKeepsReads, ClosersKeepReads, ReadHeaderKeepsReads,
     ReadBodyKeepsReads, WritersKeepReads DEF Handler
<1>3. "client" \in Ends /\ "server" \in Ends /\ (WriteChain => OutboundTyped)
  BY DEF Ends, WriteChain
<1>4. ReadChain /\ WriteChain /\ Next => ReadChain'
  BY <1>2, <1>3, OpeningKeepsReads, EndingKeepsReads, PostingKeepsReads,
     ConnectCompletesKeepsReads, ReadValidationClientKeepsReads, AcceptKeepsReads,
     ReadValidationServerKeepsReads DEF Next, ClientThread, ServerThread
<1>5. ReadChain /\ WriteChain /\ [Next]_vars => ReadChain'
  BY <1>1, <1>4
<1> QED
  BY InitReadChain, AlwaysWriteChain, <1>5, PTL DEF Spec

(* Connecting, the handshake, reads that fail or bring something, closes   *)
(* from either side: a socket has never two reads at once, and an          *)
(* established one that is past its connect has one or is about to.        *)
THEOREM OneReadAtATime == Spec => []OneRead
<1>1. ReadChain => OneRead
  BY DEF ReadChain, OneReader
<1> QED
  BY AlwaysReadChain, <1>1, PTL

(* Whatever a client sends, and whenever: the server's program has         *)
(* messages only of one that answered the challenge.                       *)
THEOREM OnlyValidated == Spec => []OnlyValidatedClientsHeard
<1>1. ReadChain => OnlyValidatedClientsHeard
  BY DEF ReadChain, HeardOnceValidated
<1> QED
  BY AlwaysReadChain, <1>1, PTL

LEMMA EndsTyped ==
  ASSUME ReadChain, WriteChain
  PROVE  TypeOK
<1> DEFINE All == ChunksTo("client") \cup ChunksTo("server")
<1>1. All \subseteq Chunks
  BY DEF ChunksTo, ValuesTo, Chunks
<1>2. net \in [Ends -> Seq(All)]
  BY DEF ReadChain, InboundTyped
<1> HIDE DEF All
<1>3. \A e \in Ends : net[e] \in Seq(Chunks)
  <2> SUFFICES ASSUME NEW e \in Ends PROVE net[e] \in Seq(Chunks)
    OBVIOUS
  <2>1. net[e] \in Seq(All)
    BY <1>2
  <2> QED
    BY <1>1, <2>1
<1> QED
  BY <1>2, <1>3 DEF ReadChain, InboundTyped, WriteChain, OutboundTyped, TypeOK, Kinds

(* The types of both ends and of the stream, any values of the constants.  *)
THEOREM TypeCorrect == Spec => []TypeOK
BY AlwaysReadChain, AlwaysWriteChain, EndsTyped, PTL
=============================================================================
