--------------------------- MODULE ScrambleProofs ---------------------------
(***************************************************************************)
(* connection::scramble for every 64-bit argument: what it computes, and   *)
(* that the answers to two challenges are told apart; and the handshake of *)
(* Session with it, where both ends mean the same challenge.               *)
(***************************************************************************)
EXTENDS MCSession, SessionProofs

LEMMA DigitsTyped == \A n \in Int : Digit(n) \in SUBSET Bits
BY DEF Digit

LEMMA DigitNone == Digit(0) = {}
<1>1. \A b \in Bits : (0 \div Weight[b]) % 2 = 0
  BY DEF Bits, Weight
<1> QED
  BY <1>1 DEF Digit

LEMMA DigitAll == Digit(15) = Bits
<1>1. \A b \in Bits : b = 0 \/ b = 1 \/ b = 2 \/ b = 3
  BY DEF Bits
<1>2. Weight[0] = 1 /\ Weight[1] = 2 /\ Weight[2] = 4 /\ Weight[3] = 8
  BY DEF Weight, Bits
<1>3. (15 \div 1) % 2 = 1 /\ (15 \div 2) % 2 = 1 /\ (15 \div 4) % 2 = 1 /\ (15 \div 8) % 2 = 1
  OBVIOUS
<1>4. \A b \in Bits : (15 \div Weight[b]) % 2 = 1
  BY <1>1, <1>2, <1>3
<1> QED
  BY <1>4 DEF Digit

LEMMA KeysTyped == KeyIn \in Words /\ KeyOut \in Words
<1>1. ASSUME NEW s \in [1 .. 16 -> Int], Len(s) = 16
      PROVE  Hex(s) \in Words
  <2>1. \A d \in Digits : 16 - d \in 1 .. 16
    BY DEF Digits
  <2> QED
    BY <1>1, <2>1, DigitsTyped DEF Hex, Words
<1> QED
  BY <1>1 DEF KeyIn, KeyOut

(* The masks keep every other digit below the fourteenth.                  *)
LEMMA MaskDigits ==
  ASSUME NEW s \in [1 .. 14 -> {0, 15}], Len(s) = 14, NEW d \in Digits
  PROVE  Hex(s)[d] = IF d <= 13 /\ s[14 - d] = 15 THEN Bits ELSE {}
<1>1. CASE d <= 13
  <2>1. d < 14 /\ 14 - d \in 1 .. 14
    BY <1>1 DEF Digits
  <2>2. s[14 - d] \in {0, 15}
    BY <2>1
  <2>3. Hex(s)[d] = Digit(s[14 - d])
    BY <2>1 DEF Hex
  <2> QED
    BY <1>1, <2>2, <2>3, DigitNone, DigitAll
<1>2. CASE ~(d <= 13)
  BY <1>2 DEF Hex, Digits
<1> QED
  BY <1>1, <1>2

LEMMA HighMaskDigits ==
  \A d \in Digits : HighMask[d] = IF d <= 13 /\ d % 2 = 1 THEN Bits ELSE {}
<1> DEFINE s == <<15,0, 15,0, 15,0, 15,0, 15,0, 15,0, 15,0>>
<1>1. s \in [1 .. 14 -> {0, 15}] /\ Len(s) = 14
  OBVIOUS
<1>2. \A d \in 0 .. 13 : s[14 - d] = 15 <=> d % 2 = 1
  OBVIOUS
<1> HIDE DEF s
<1>3. \A d \in Digits : Hex(s)[d] = IF d <= 13 /\ s[14 - d] = 15 THEN Bits ELSE {}
  BY <1>1, MaskDigits
<1>4. HighMask = Hex(s)
  BY DEF HighMask, s
<1> QED
  BY <1>2, <1>3, <1>4 DEF Digits

LEMMA LowMaskDigits ==
  \A d \in Digits : LowMask[d] = IF d <= 13 /\ d % 2 = 0 THEN Bits ELSE {}
<1> DEFINE s == <<0,15, 0,15, 0,15, 0,15, 0,15, 0,15, 0,15>>
<1>1. s \in [1 .. 14 -> {0, 15}] /\ Len(s) = 14
  OBVIOUS
<1>2. \A d \in 0 .. 13 : s[14 - d] = 15 <=> d % 2 = 0
  OBVIOUS
<1> HIDE DEF s
<1>3. \A d \in Digits : Hex(s)[d] = IF d <= 13 /\ s[14 - d] = 15 THEN Bits ELSE {}
  BY <1>1, MaskDigits
<1>4. LowMask = Hex(s)
  BY DEF LowMask, s
<1> QED
  BY <1>2, <1>3, <1>4 DEF Digits
-----------------------------------------------------------------------------
LEMMA FlipBack ==
  ASSUME NEW s \in SUBSET Bits, NEW t \in SUBSET Bits, NEW k \in SUBSET Bits,
         Flipped(s, k) = Flipped(t, k)
  PROVE  s = t
<1>1. \A b \in Bits : b \in s <=> b \in t
  BY DEF Flipped
<1> QED
  BY <1>1

(* Half of the digits come from the left neighbour, half from the right.   *)
LEMMA SwappedDigits ==
  ASSUME NEW out \in Words, NEW d \in Digits
  PROVE  SwapDigits(out)[d] = IF d <= 13 THEN out[Partner(d)] ELSE {}
<1> DEFINE high == Masked(out, HighMask)
           low == Masked(out, LowMask)
<1>1. \A e \in Digits : /\ high[e] = IF e <= 13 /\ e % 2 = 1 THEN out[e] ELSE {}
                        /\ low[e] = IF e <= 13 /\ e % 2 = 0 THEN out[e] ELSE {}
  BY HighMaskDigits, LowMaskDigits DEF Masked, Words
<1> HIDE DEF high, low
<1>2. /\ ShiftRight(high)[d] = IF d = 15 THEN {} ELSE high[d + 1]
      /\ ShiftLeft(low)[d] = IF d = 0 THEN {} ELSE low[d - 1]
  BY DEF ShiftRight, ShiftLeft
<1>3. SwapDigits(out)[d] = ShiftRight(high)[d] \cup ShiftLeft(low)[d]
  BY DEF SwapDigits, Joined, high, low
<1>4. CASE d <= 13 /\ d % 2 = 0
  <2>1. d + 1 \in Digits /\ d + 1 <= 13 /\ (d + 1) % 2 = 1 /\ d # 15
    BY <1>4 DEF Digits
  <2>2. d # 0 => d - 1 \in Digits /\ (d - 1) % 2 = 1
    BY <1>4 DEF Digits
  <2> QED
    BY <1>1, <1>2, <1>3, <1>4, <2>1, <2>2 DEF Partner
<1>5. CASE d <= 13 /\ d % 2 = 1
  <2>1. d - 1 \in Digits /\ d - 1 <= 13 /\ (d - 1) % 2 = 0 /\ d # 0
    BY <1>5 DEF Digits
  <2>2. d + 1 \in Digits /\ ~(d + 1 <= 13 /\ (d + 1) % 2 = 1) /\ d # 15
    BY <1>5 DEF Digits
  <2> QED
    BY <1>1, <1>2, <1>3, <1>5, <2>1, <2>2 DEF Partner
<1>6. CASE ~(d <= 13)
  <2>1. d \in {14, 15}
    BY <1>6 DEF Digits
  <2> QED
    BY <1>1, <1>2, <1>3, <1>6, <2>1 DEF Digits
<1> QED
  BY <1>4, <1>5, <1>6 DEF Digits

(* The digits of the answer, for every argument of 64 bits.                *)
THEOREM ScramblesByPairs == \A nInput \in Words : scramble(nInput) = ByPairs(nInput)
<1> SUFFICES ASSUME NEW nInput \in Words PROVE scramble(nInput) = ByPairs(nInput)
  OBVIOUS
<1> DEFINE out == Xored(nInput, KeyIn)
<1>1. out \in Words /\ \A e \in Digits : out[e] = Flipped(nInput[e], KeyIn[e])
  BY KeysTyped DEF Xored, Words, Flipped
<1> HIDE DEF out
<1>2. \A d \in Digits : SwapDigits(out)[d] = IF d <= 13 THEN out[Partner(d)] ELSE {}
  BY <1>1, SwappedDigits
<1>3. \A d \in Digits : d <= 13 => Partner(d) \in Digits
  BY DEF Partner, Digits
<1>4. \A d \in Digits : Xored(SwapDigits(out), KeyOut)[d] = ByPairs(nInput)[d]
  <2>1. \A s : Flipped({}, s) = s
    BY DEF Flipped
  <2> QED
    BY <1>1, <1>2, <1>3, <2>1 DEF Xored, ByPairs
<1>5. scramble(nInput) = Xored(SwapDigits(out), KeyOut)
  BY DEF scramble, out
<1> QED
  BY <1>4, <1>5 DEF Xored, ByPairs

(* A challenge of a server is a small number.                              *)
LEMMA ChallengeTyped ==
  ASSUME NEW c \in Challenges
  PROVE  c \in Words /\ c[14] = {} /\ c[15] = {}
<1>1. PICK n \in 0 .. SizeOfUint64 - 1 : c = Challenge(n)
  BY DEF Challenges
<1>2. n % SizeOfUint64 \in Int
  BY ScrambleAssumption
<1> QED
  BY <1>1, <1>2, DigitsTyped DEF Challenge, Zero, Words, Digits

(* For every 64-bit value that a client may send back.                     *)
THEOREM OneChallengeAnswered ==
  \A nInput \in Words, c \in Challenges : AnswersOnly(nInput, c)
<1> SUFFICES ASSUME NEW nInput \in Words, NEW c \in Challenges
             PROVE  AnswersOnly(nInput, c)
  OBVIOUS
<1>1. c \in Words /\ c[14] = {} /\ c[15] = {}
  BY ChallengeTyped
<1>2. \A x \in Words : /\ scramble(x)[15] = KeyOut[15]
                       /\ \A d \in Digits : d <= 13 => scramble(x)[d] =
                            Flipped(Flipped(x[Partner(d)], KeyIn[Partner(d)]), KeyOut[d])
  BY ScramblesByPairs DEF ByPairs, Digits
<1>3. scramble(c) # c
  <2>1. KeyOut[15] = Digit(12)
    BY DEF KeyOut, Hex, Digits
  <2>2. 3 \in Digit(12)
    BY DEF Digit, Bits, Weight
  <2> QED
    BY <1>1, <1>2, <2>1, <2>2
<1>4. ASSUME nInput[14] = {}, nInput[15] = {}, scramble(nInput) = scramble(c)
      PROVE  nInput = c
  <2>1. ASSUME NEW e \in Digits, e <= 13 PROVE nInput[e] = c[e]
    <3>1. PICK d \in Digits : d <= 13 /\ Partner(d) = e
      <4>1. Partner(e) \in Digits /\ Partner(e) <= 13 /\ Partner(Partner(e)) = e
        BY <2>1 DEF Partner, Digits
      <4> QED
        BY <4>1
    <3>2. Flipped(Flipped(nInput[e], KeyIn[e]), KeyOut[d]) =
          Flipped(Flipped(c[e], KeyIn[e]), KeyOut[d])
      BY <1>1, <1>2, <1>4, <3>1
    <3>3. /\ nInput[e] \in SUBSET Bits /\ c[e] \in SUBSET Bits
          /\ KeyIn[e] \in SUBSET Bits /\ KeyOut[d] \in SUBSET Bits
      BY <1>1, KeysTyped DEF Words
    <3>4. Flipped(nInput[e], KeyIn[e]) = Flipped(c[e], KeyIn[e])
      <4>1. /\ Flipped(nInput[e], KeyIn[e]) \in SUBSET Bits
            /\ Flipped(c[e], KeyIn[e]) \in SUBSET Bits
        BY <3>3 DEF Flipped
      <4> QED
        BY <3>2, <3>3, <4>1, FlipBack
    <3> QED
      BY <3>3, <3>4, FlipBack
  <2>2. \A e \in Digits : nInput[e] = c[e]
    BY <1>1, <1>4, <2>1 DEF Digits
  <2> QED
    BY <1>1, <2>2 DEF Words
<1> QED
  BY <1>3, <1>4 DEF AnswersOnly
-----------------------------------------------------------------------------
(* The handshake.  What the two ends hold need not be of one challenge     *)
(* unless what waits at the front of the stream is the one of this         *)
(* connection, until the client has read it.                               *)
Values == ValidationValues \cup {Scrambled(c) : c \in ValidationValues} \cup {None}

Agreed ==
  /\ m_nADVOut \in [Ends -> Values]
  /\ accepted => m_nADVOut["server"] \in ValidationValues
  /\ m_nADVOut["client"] # None =>
       accepted /\ m_nADVOut["client"] = Scrambled(m_nADVOut["server"])
  /\ Awaits("client") /\ net["client"] # << >> =>
       Head(net["client"]) = Chunk("adv", m_nADVOut["server"])

(* Both ends run the code above: Scramble says what Session leaves open.   *)
ScramblesChallenges ==
  \A c \in ValidationValues : c \in Challenges /\ Scrambled(c) = scramble(c)

LEMMA InitAgreed == Init => Agreed
<1> SUFFICES ASSUME Init PROVE Agreed
  OBVIOUS
<1>1. m_nADVOut = [e \in Ends |-> None] /\ accepted = FALSE
  BY DEF Init
<1>2. net["client"] = << >> /\ m_nADVOut["client"] = None
  BY <1>1 DEF Init, Ends
<1> QED
  BY <1>1, <1>2 DEF Agreed, Values

(* The front of the stream to a client that has not read it stays.         *)
LEMMA FrontKept ==
  ASSUME Agreed, UNCHANGED <<m_nADVOut, accepted>>,
         Awaits("client")' /\ net'["client"] # << >> =>
           /\ Awaits("client") /\ net["client"] # << >>
           /\ Head(net'["client"]) = Head(net["client"])
  PROVE  Agreed'
BY DEF Agreed

(* Steps that hand the client nothing, and do not make it wait.            *)
LEMMA QuietKeepsAgreed ==
  ASSUME Agreed, UNCHANGED <<m_nADVOut, accepted>>, net'["client"] = net["client"],
         Awaits("client")' => Awaits("client")
  PROVE  Agreed'
BY FrontKept

LEMMA ConnectingKeepsAgreed ==
  ASSUME ReadChain, WriteChain, Agreed, ConnectToServer \/ TcpConnect \/ ConnectCompletes
  PROVE  Agreed'
<1>1. UNCHANGED <<m_nADVOut, accepted, net>>
  BY DEF ConnectToServer, TcpConnect, ConnectCompletes, handshake, wire
<1>2. Awaits("client")
  BY DEF ConnectToServer, TcpConnect, ConnectCompletes, Awaits
<1> QED
  BY <1>1, <1>2, QuietKeepsAgreed

LEMMA AcceptKeepsAgreed ==
  ASSUME ReadChain, Agreed, AcceptConnection
  PROVE  Agreed'
<1>1. PICK challenge \in ValidationValues :
        /\ m_nADVOut' = [m_nADVOut EXCEPT !["server"] = challenge]
        /\ net' = IF broken THEN net
                  ELSE [net EXCEPT !["client"] = Append(@, Chunk("adv", challenge))]
  BY DEF AcceptConnection
<1>2. ~accepted /\ accepted' /\ net["client"] = << >>
  BY DEF AcceptConnection, ReadChain, NothingBeforeAccept
<1>3. /\ m_nADVOut' \in [Ends -> Values] /\ m_nADVOut'["server"] = challenge
      /\ m_nADVOut'["client"] = None
  BY <1>1, <1>2 DEF Agreed, Values, Ends
<1>4. net'["client"] # << >> => Head(net'["client"]) = Chunk("adv", challenge)
  BY <1>1, <1>2 DEF ReadChain, InboundTyped, Ends
<1> QED
  BY <1>2, <1>3, <1>4 DEF Agreed

(* The client answers what it read, which is the challenge.                *)
LEMMA AnswerKeepsAgreed ==
  ASSUME ReadChain, Agreed, ReadValidationClient
  PROVE  Agreed'
<1>1. /\ reading["client"] # << >> /\ Head(reading["client"]) = [kind |-> "adv", live |-> TRUE]
      /\ net["client"] # << >>
      /\ m_nADVOut' = [m_nADVOut EXCEPT !["client"] = Scrambled(Head(net["client"]).val)]
      /\ ReadNext("client", << >>)
      /\ UNCHANGED <<m_socket, connecting, accepted>>
  BY DEF ReadValidationClient, AnswerWith, ReadCompletes, link
<1>2. "client" \in Ends /\ "server" \in Ends
  BY DEF Ends
<1>3. Awaits("client") /\ accepted /\ m_socket["client"] # "none" /\ ~connecting
  BY <1>1 DEF Awaits, Reads, ReadChain, OneReader, NothingBeforeAccept
<1>4. Head(net["client"]).val = m_nADVOut["server"]
  BY <1>1, <1>3 DEF Agreed, Chunk
<1>5. /\ m_nADVOut'["client"] = Scrambled(m_nADVOut["server"])
      /\ m_nADVOut'["server"] = m_nADVOut["server"]
      /\ m_nADVOut["server"] \in ValidationValues
      /\ m_nADVOut' \in [Ends -> Values]
  BY <1>1, <1>2, <1>3, <1>4 DEF Agreed, Values
<1>6. ~Awaits("client")'
  <2>1. reading' = [reading EXCEPT !["client"] = << >>]
    BY <1>1, <1>2, ReadNextReplaces, EmptySeq
  <2>2. reading'["client"] = << >>
    BY <1>2, <2>1 DEF ReadChain, InboundTyped
  <2> QED
    BY <1>1, <1>3, <2>2 DEF Awaits, Reads
<1> QED
  BY <1>1, <1>3, <1>5, <1>6 DEF Agreed

LEMMA ServerReadKeepsAgreed ==
  ASSUME ReadChain, WriteChain, Agreed, ReadValidationServer
  PROVE  Agreed'
<1>1. /\ UNCHANGED <<m_nADVOut, accepted, connecting>>
      /\ net' = [net EXCEPT !["server"] = Tail(@)]
      /\ \E ops : ReadNext("server", ops)
      /\ UNCHANGED m_socket \/ Close("server")
  BY DEF ReadValidationServer, link
<1>2. /\ net'["client"] = net["client"] /\ reading'["client"] = reading["client"]
      /\ m_socket'["client"] = m_socket["client"]
  BY <1>1 DEF ReadChain, InboundTyped, WriteChain, OutboundTyped, ReadNext, Close, Ends
<1> QED
  BY <1>1, <1>2, QuietKeepsAgreed DEF Awaits, Reads

(* A message written to the client comes behind the challenge.             *)
LEMMA WritersKeepAgreed ==
  ASSUME ReadChain, WriteChain, Agreed, NEW e \in Ends,
         PostedSend(e) \/ WriteHeader(e) \/ WriteBody(e)
  PROVE  Agreed'
<1>1. UNCHANGED <<m_socket, link, handshake, inbound>>
  BY WritersTransmit
<1>2. UNCHANGED <<m_nADVOut, accepted>> /\ (Awaits("client")' <=> Awaits("client"))
  BY <1>1 DEF link, handshake, inbound, Awaits, Reads
<1>3. CASE net'["client"] = net["client"]
  BY <1>2, <1>3, QuietKeepsAgreed
<1>4. ASSUME NEW kind \in {"hdr", "body"}, NEW msg \in Messages, Transmit(e, Chunk(kind, msg)),
             net'["client"] # net["client"], Awaits("client")
      PROVE  net["client"] # << >> /\ Head(net'["client"]) = Head(net["client"])
  <2>1. /\ e = "server" /\ Connected("server") /\ ~broken
        /\ net'["client"] = Append(net["client"], Chunk(kind, msg))
    BY <1>4 DEF Transmit, Peer, Ends, ReadChain, InboundTyped
  <2>2. net["client"] # << >>
    BY <1>4, <2>1 DEF ReadChain, NothingBeforeAccept, ChallengeFirst, Connected
  <2>3. net["client"] \in Seq(ChunksTo("client")) /\ Chunk(kind, msg) \in ChunksTo("client")
    BY ChunkTyped DEF ReadChain, InboundTyped, Ends
  <2> QED
    BY <2>1, <2>2, <2>3, AppendKeeps
<1> QED
  BY <1>2, <1>3, <1>4, FrontKept, WritersTransmit

(* Once the client has read the challenge, it waits for no other.          *)
LEMMA ReadersKeepAgreed ==
  ASSUME ReadChain, Agreed, NEW e \in Ends,
         ReadHeader(e) \/ ReadBody(e) \/ WriteValidationCompletes(e)
  PROVE  Agreed'
<1>1. UNCHANGED <<m_nADVOut, accepted, connecting, m_socket>>
  BY DEF ReadHeader, ReadBody, WriteValidationCompletes, WriteValidationThenRead,
     handshake, link, wire
<1>2. ASSUME e = "client"
      PROVE  ~Awaits("client")'
  <2>1. m_socket["client"] # "none" /\ ~connecting
    BY <1>2 DEF ReadHeader, ReadBody, ReadCompletes, WriteValidationCompletes,
       WriteValidationThenRead, ReadChain, OneReader
  <2>2. ~Reads("client", "adv")'
    <3>1. ASSUME NEW kind \in {"hdr", "body"}, reading["client"] # << >>,
                 ReadNext("client", << Op("client", kind) >>)
          PROVE  ~Reads("client", "adv")'
      <4>1. << Op("client", kind) >> \in Seq(Ops(Kinds)) /\ Head(<< Op("client", kind) >>).kind = kind
        BY ReadOpTyped DEF Ends, Kinds
      <4> DEFINE ops == << Op("client", kind) >>
      <4>2. ops \in Seq(Ops(Kinds)) /\ Head(ops).kind = kind /\ ReadNext("client", ops)
        BY <3>1, <4>1
      <4> HIDE DEF ops
      <4>3. reading' = [reading EXCEPT !["client"] = ops]
        BY <3>1, <4>2, ReadNextReplaces DEF Ends
      <4>4. reading'["client"] = ops
        BY <4>3 DEF ReadChain, InboundTyped, Ends
      <4> QED
        BY <4>2, <4>4 DEF Reads
    <3>2. CASE ReadHeader(e) \/ ReadBody(e)
      BY <1>2, <3>1, <3>2 DEF ReadHeader, ReadBody, ReadCompletes, AddToIncomingMessageQueue
    <3>3. CASE WriteValidationCompletes(e)
      <4> DEFINE op == Op("client", "hdr")
      <4>1. reading["client"] = << >> /\ StartRead("client", "hdr")
        BY <1>2, <3>3 DEF WriteValidationCompletes, WriteValidationThenRead, ReadChain, OneReader
      <4>2. reading' = [reading EXCEPT !["client"] = << op >>]
        BY <4>1, StartReadBegins DEF Ends, Kinds
      <4>3. op.kind = "hdr"
        BY DEF Op
      <4> HIDE DEF op
      <4>4. reading'["client"] = << op >>
        BY <4>2 DEF ReadChain, InboundTyped, Ends
      <4> QED
        BY <4>3, <4>4 DEF Reads
    <3> QED
      BY <3>2, <3>3
  <2> QED
    BY <1>1, <2>1, <2>2 DEF Awaits
<1>3. ASSUME e = "server"
      PROVE  net'["client"] = net["client"] /\ reading'["client"] = reading["client"]
  BY <1>3 DEF ReadHeader, ReadBody, WriteValidationCompletes, WriteValidationThenRead, wire,
     AddToIncomingMessageQueue, ReadNext, ReadChain, InboundTyped, Ends
<1> QED
  BY <1>1, <1>2, <1>3, FrontKept, QuietKeepsAgreed DEF Awaits, Reads, Ends

LEMMA ClosersKeepAgreed ==
  ASSUME ReadChain, WriteChain, Agreed, NEW e \in Ends,
         WriteValidationFails(e) \/ ReadError(e) \/ PostedClose(e) \/ WriteError(e)
  PROVE  Agreed'
<1>1. Close(e) /\ UNCHANGED <<m_nADVOut, accepted, connecting, net>>
  BY DEF WriteValidationFails, ReadError, PostedClose, WriteError, handshake, link
<1>2. m_socket'["client"] # "none" \/ m_socket'["client"] = m_socket["client"]
  BY <1>1 DEF Close, WriteChain, OutboundTyped, Ends
<1>3. reading'["client"] # << >> => reading'["client"] = reading["client"]
  <2>1. UNCHANGED reading \/ (reading[e] # << >> /\ ReadNext(e, << >>))
    BY DEF WriteValidationFails, ReadError, ReadFails, PostedClose, WriteError, inbound
  <2>2. ASSUME reading[e] # << >>, ReadNext(e, << >>)
        PROVE  reading' = [reading EXCEPT ![e] = << >>]
    BY <2>2, ReadNextReplaces, EmptySeq
  <2> QED
    BY <2>1, <2>2 DEF ReadChain, InboundTyped, Ends
<1> QED
  BY <1>1, <1>2, <1>3, QuietKeepsAgreed DEF Awaits, Reads

LEMMA ProgramKeepsAgreed ==
  ASSUME Agreed, \/ \E e \in Ends : Program(e)
                 \/ NetworkFails \/ RunReturns \/ UNCHANGED vars
  PROVE  Agreed'
<1>1. UNCHANGED <<m_nADVOut, accepted, connecting, net, m_socket, reading>>
  BY DEF Program, Send, Disconnect, NetworkFails, RunReturns, vars, wire, link, handshake, inbound
<1> QED
  BY <1>1, QuietKeepsAgreed DEF Awaits, Reads

(* The invariant: whatever closes, fails or is sent meanwhile, the client  *)
(* answers the challenge that the server waits on.                         *)
THEOREM AlwaysAgreed == Spec => []Agreed
<1>1. ASSUME ReadChain, WriteChain, Agreed, NEW e \in Ends, Handler(e)
      PROVE  Agreed'
  BY <1>1, ReadersKeepAgreed, WritersKeepAgreed, ClosersKeepAgreed DEF Handler
<1>2. ReadChain /\ WriteChain /\ Agreed /\ [Next]_vars => Agreed'
  BY <1>1, ConnectingKeepsAgreed, AcceptKeepsAgreed, AnswerKeepsAgreed, ServerReadKeepsAgreed,
     ProgramKeepsAgreed DEF Next, ClientThread, ServerThread, Ends
<1> QED
  BY InitAgreed, AlwaysReadChain, AlwaysWriteChain, <1>2, PTL DEF Spec

(* What the client answers is the answer to the challenge of its server,   *)
(* by the reference definition, and to no other challenge a server poses.  *)
THEOREM ChallengeAnswered ==
  ASSUME ScramblesChallenges
  PROVE  Spec => []AnswersThisChallenge
<1>1. ASSUME Agreed
      PROVE  AnswersThisChallenge
  <2> DEFINE answer == m_nADVOut["client"]
             challenge == m_nADVOut["server"]
  <2> SUFFICES ASSUME answer # None
               PROVE  /\ answer = ByPairs(challenge) /\ answer # challenge
                      /\ \A c \in Challenges \ {challenge} : scramble(c) # answer
    BY DEF AnswersThisChallenge
  <2>1. challenge \in Challenges /\ answer = scramble(challenge)
    BY <1>1 DEF Agreed, ScramblesChallenges
  <2>2. \A c \in Challenges : c \in Words /\ c[14] = {} /\ c[15] = {}
    BY ChallengeTyped
  <2>3. answer = ByPairs(challenge)
    BY <2>1, <2>2, ScramblesByPairs
  <2>4. \A c \in Challenges : AnswersOnly(c, challenge)
    BY <2>1, <2>2, OneChallengeAnswered
  <2> QED
    BY <2>1, <2>2, <2>3, <2>4 DEF AnswersOnly
<1> QED
  BY AlwaysAgreed, <1>1, PTL
=============================================================================
