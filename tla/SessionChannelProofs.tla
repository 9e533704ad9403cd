------------------------ MODULE SessionChannelProofs ------------------------
(***************************************************************************)
(* The bytes between the two ends of Session stay in frames, a body        *)
(* reaches the message it belongs to, and so each direction is a Channel:  *)
(* what the other program is given is a prefix of what was sent, for any   *)
(* messages and any bound.                                                 *)
(***************************************************************************)
EXTENDS SessionProofs
-----------------------------------------------------------------------------
(* Frames.                                                                 *)

(* The chunks on their way to an end, after the validation value if it is  *)
(* awaited, are headers followed each by its body if it has one.  Due is   *)
(* the body that must come at place i, or None.                            *)
After(chunk) == IF chunk.kind = "hdr" /\ chunk.val \in HasBody THEN chunk.val ELSE None
Fits(chunk, due) == IF due = None THEN chunk.kind = "hdr" ELSE chunk = Chunk("body", due)
Due(s, i, first) == IF i > 1 THEN After(s[i - 1]) ELSE first
Aligned(s, first) == \A i \in DOMAIN s : Fits(s[i], Due(s, i, first))
LastDue(s, first) == Due(s, Len(s) + 1, first)

Rest(e) == IF Awaits(e) /\ net[e] # << >> THEN Tail(net[e]) ELSE net[e]
First(e) == IF Reads(e, "body") THEN m_msgTemporaryIn[e].header ELSE None

(* The end will read on if nothing fails.                                  *)
Listening(e) == \/ Awaits(e) \/ reading[e] # << >>
                \/ e = "client" /\ advWriting[e] = "live"
AdvFirst(e) == Awaits(e) /\ net[e] # << >> => Head(net[e]).kind = "adv"

(* What a writer is to put on the stream next, of the message it is at.    *)
Sending(e) == Connected(e) /\ ~broken
BodyDue(e) == IF /\ writing[e] # << >> /\ Head(writing[e]) = [kind |-> "hdr", live |-> TRUE]
                 /\ Head(m_qMessagesOut[e]) \in HasBody
              THEN Head(m_qMessagesOut[e]) ELSE None

FrameTo(e) == Listening(e) /\ AdvFirst(e) =>
  /\ Aligned(Rest(e), First(e))
  /\ Sending(Peer(e)) => LastDue(Rest(e), First(e)) = BodyDue(Peer(e))

Frames ==
  /\ \A e \in Ends : FrameTo(e)
  /\ \A e \in Ends : Reads(e, "body") => m_msgTemporaryIn[e].header \in HasBody
  /\ ~established => BodyDue("client") = None
  /\ BodyDelivered
-----------------------------------------------------------------------------
(* Sequences of chunks in frames.                                          *)

LEMMA AlignedEmpty ==
  ASSUME NEW first
  PROVE  Aligned(<< >>, first) /\ LastDue(<< >>, first) = first
BY EmptySeq DEF Aligned, LastDue, Due

LEMMA AlignedAppend ==
  ASSUME NEW S, NEW s \in Seq(S), NEW x \in S, NEW first,
         Aligned(s, first), Fits(x, LastDue(s, first))
  PROVE  Aligned(Append(s, x), first) /\ LastDue(Append(s, x), first) = After(x)
<1> DEFINE t == Append(s, x)
<1>1. /\ t \in Seq(S) /\ Len(t) = Len(s) + 1 /\ Len(s) \in Nat
      /\ \A i \in 1 .. Len(s) : t[i] = s[i]
      /\ t[Len(s) + 1] = x
  BY AppendProperties, LenProperties
<1> HIDE DEF t
<1>2. DOMAIN t = 1 .. Len(s) + 1 /\ DOMAIN s = 1 .. Len(s)
  BY <1>1, LenProperties
<1>3. ASSUME NEW i \in 1 .. Len(s) + 1
      PROVE  Due(t, i, first) = Due(s, i, first)
  <2>1. i > 1 => i - 1 \in 1 .. Len(s)
    BY <1>1
  <2> QED
    BY <1>1, <2>1 DEF Due
<1>4. Aligned(t, first)
  <2> SUFFICES ASSUME NEW i \in 1 .. Len(s) + 1 PROVE Fits(t[i], Due(t, i, first))
    BY <1>2 DEF Aligned
  <2>1. CASE i = Len(s) + 1
    BY <1>1, <1>3, <2>1 DEF LastDue
  <2>2. CASE i # Len(s) + 1
    <3>1. i \in 1 .. Len(s)
      BY <1>1, <2>2
    <3> QED
      BY <1>1, <1>2, <1>3, <3>1 DEF Aligned
  <2> QED
    BY <2>1, <2>2
<1>5. LastDue(t, first) = After(x)
  <2>1. Len(t) + 1 > 1 /\ Len(t) + 1 - 1 = Len(s) + 1
    BY <1>1
  <2> QED
    BY <1>1, <2>1 DEF LastDue, Due
<1> QED
  BY <1>4, <1>5 DEF t

LEMMA AlignedTail ==
  ASSUME NEW S, NEW s \in Seq(S), s # << >>, NEW first, Aligned(s, first)
  PROVE  /\ Fits(Head(s), first)
         /\ Aligned(Tail(s), After(Head(s)))
         /\ LastDue(Tail(s), After(Head(s))) = LastDue(s, first)
<1> DEFINE t == Tail(s)
           h == Head(s)
<1>1. /\ t \in Seq(S) /\ Len(t) = Len(s) - 1 /\ Len(t) \in Nat /\ Len(s) \in Nat
      /\ \A i \in 1 .. Len(t) : t[i] = s[i + 1]
      /\ h = s[1] /\ 1 \in 1 .. Len(s)
  BY HeadTailProperties, EmptySeq, LenProperties
<1> HIDE DEF t, h
<1>2. DOMAIN t = 1 .. Len(t) /\ DOMAIN s = 1 .. Len(s)
  BY <1>1, LenProperties
<1>3. ASSUME NEW i \in 1 .. Len(t) + 1
      PROVE  Due(t, i, After(h)) = Due(s, i + 1, first)
  <2>1. i + 1 > 1 /\ i + 1 - 1 = i
    BY <1>1
  <2>2. CASE i = 1
    BY <1>1, <2>1, <2>2 DEF Due
  <2>3. CASE i # 1
    <3>1. i > 1 /\ i - 1 \in 1 .. Len(t) /\ i - 1 + 1 = i
      BY <1>1, <2>3
    <3> QED
      BY <1>1, <2>1, <3>1 DEF Due
  <2> QED
    BY <2>2, <2>3
<1>4. Fits(h, first)
  <2>1. Due(s, 1, first) = first
    BY DEF Due
  <2> QED
    BY <1>1, <1>2, <2>1 DEF Aligned
<1>5. Aligned(t, After(h))
  <2> SUFFICES ASSUME NEW i \in 1 .. Len(t) PROVE Fits(t[i], Due(t, i, After(h)))
    BY <1>2 DEF Aligned
  <2>1. i + 1 \in 1 .. Len(s) /\ i \in 1 .. Len(t) + 1
    BY <1>1
  <2> QED
    BY <1>1, <1>2, <1>3, <2>1 DEF Aligned
<1>6. LastDue(t, After(h)) = LastDue(s, first)
  <2>1. Len(t) + 1 \in 1 .. Len(t) + 1 /\ Len(t) + 1 + 1 = Len(s) + 1
    BY <1>1
  <2> QED
    BY <1>3, <2>1 DEF LastDue
<1> QED
  BY <1>4, <1>5, <1>6 DEF t, h

LEMMA TailAppend ==
  ASSUME NEW S, NEW s \in Seq(S), NEW x \in S
  PROVE  /\ s # << >> => Tail(Append(s, x)) = Append(Tail(s), x)
         /\ s = << >> => Tail(Append(s, x)) = << >>
<1>1. CASE s = << >>
  BY <1>1
<1>2. CASE s # << >>
  <2> DEFINE a == Append(s, x)
             l == Tail(a)
             r == Append(Tail(s), x)
  <2>1. a \in Seq(S) /\ a # << >> /\ Len(a) = Len(s) + 1 /\ Len(s) \in Nat \ {0}
        /\ (\A i \in 1 .. Len(s) : a[i] = s[i]) /\ a[Len(s) + 1] = x
    BY <1>2, AppendProperties, AppendKeeps, EmptySeq, LenProperties
  <2>2. Tail(s) \in Seq(S) /\ Len(Tail(s)) = Len(s) - 1
        /\ \A i \in 1 .. Len(Tail(s)) : Tail(s)[i] = s[i + 1]
    BY <1>2, HeadTailProperties
  <2>3. l \in Seq(S) /\ Len(l) = Len(a) - 1 /\ \A i \in 1 .. Len(l) : l[i] = a[i + 1]
    BY <2>1, HeadTailProperties
  <2>4. r \in Seq(S) /\ Len(r) = Len(Tail(s)) + 1
        /\ (\A i \in 1 .. Len(Tail(s)) : r[i] = Tail(s)[i]) /\ r[Len(Tail(s)) + 1] = x
    BY <2>2, AppendProperties
  <2> HIDE DEF a, l, r
  <2>5. Len(l) = Len(s) /\ Len(r) = Len(s)
    BY <2>1, <2>2, <2>3, <2>4
  <2>6. ASSUME NEW i \in 1 .. Len(s) PROVE l[i] = r[i]
    <3>1. CASE i = Len(s)
      BY <2>1, <2>2, <2>3, <2>4, <2>5, <3>1
    <3>2. CASE i # Len(s)
      <4> DEFINE n == Len(s)
                 m == Len(Tail(s))
      <4>0. n \in Nat \ {0} /\ m = n - 1 /\ i \in 1 .. n /\ i # n
        BY <2>1, <2>2, <3>2
      <4> HIDE DEF n, m
      <4>a. i \in 1 .. m /\ i + 1 \in 1 .. n
        BY <4>0
      <4>1. i \in 1 .. Len(Tail(s)) /\ i + 1 \in 1 .. Len(s)
        BY <4>a DEF n, m
      <4> QED
        BY <2>1, <2>2, <2>3, <2>4, <2>5, <4>1
    <3> QED
      BY <3>1, <3>2
  <2>7. l = r
    BY <2>3, <2>4, <2>5, <2>6, SeqEqual
  <2> QED
    BY <1>2, <2>7 DEF a, l, r
<1> QED
  BY <1>1, <1>2
-----------------------------------------------------------------------------
(* What a step does to the frames on their way to an end.                  *)

LEMMA PrimedFrames ==
  ASSUME NEW e \in Ends
  PROVE  /\ Aligned(Rest(e), First(e))' <=> Aligned(Rest(e)', First(e)')
         /\ LastDue(Rest(e), First(e))' = LastDue(Rest(e)', First(e)')
BY DEF Aligned, LastDue, Fits, Due, After

(* Nothing reaches the end, which goes on as it was if it reads on, and    *)
(* its peer owes the body that it owed, unless nothing more is sent.       *)
LEMMA FrameKept ==
  ASSUME NEW e \in Ends, FrameTo(e), net'[e] = net[e],
         Listening(e)' => /\ Listening(e) /\ First(e)' = First(e)
                          /\ Awaits(e)' <=> Awaits(e),
         Sending(Peer(e))' => Sending(Peer(e)) /\ BodyDue(Peer(e))' = BodyDue(Peer(e))
  PROVE  FrameTo(e)'
<1> SUFFICES ASSUME Listening(e)', AdvFirst(e)'
             PROVE  /\ Aligned(Rest(e)', First(e)')
                    /\ Sending(Peer(e))' => LastDue(Rest(e)', First(e)') = BodyDue(Peer(e))'
  BY PrimedFrames DEF FrameTo
<1>1. Listening(e) /\ AdvFirst(e) /\ Rest(e)' = Rest(e) /\ First(e)' = First(e)
  BY DEF AdvFirst, Rest
<1> QED
  BY <1>1 DEF FrameTo

(* Its peer sends the chunk that is due.                                   *)
LEMMA FrameGrows ==
  ASSUME NEW e \in Ends, FrameTo(e), NEW S, net[e] \in Seq(S), NEW chunk \in S,
         chunk.kind # "adv", net'[e] = Append(net[e], chunk),
         Listening(e)' => Listening(e), First(e)' = First(e), Awaits(e)' <=> Awaits(e),
         Sending(Peer(e)), Fits(chunk, BodyDue(Peer(e))),
         BodyDue(Peer(e))' = After(chunk)
  PROVE  FrameTo(e)'
<1> SUFFICES ASSUME Listening(e)', AdvFirst(e)'
             PROVE  /\ Aligned(Rest(e)', First(e)')
                    /\ LastDue(Rest(e)', First(e)') = BodyDue(Peer(e))'
  BY PrimedFrames DEF FrameTo
<1>1. /\ Append(net[e], chunk) # << >>
      /\ net[e] # << >> => Head(net[e]) = Head(Append(net[e], chunk))
  BY AppendKeeps
<1>2. Awaits(e) => net[e] # << >>
  <2>1. net[e] = << >> => Head(Append(net[e], chunk)) = chunk
    OBVIOUS
  <2> QED
    BY <1>1, <2>1 DEF AdvFirst
<1>3. Listening(e) /\ AdvFirst(e)
  BY <1>1 DEF AdvFirst
<1>4. Aligned(Rest(e), First(e)) /\ LastDue(Rest(e), First(e)) = BodyDue(Peer(e))
  BY <1>3 DEF FrameTo
<1>5. Rest(e)' = Append(Rest(e), chunk) /\ Rest(e) \in Seq(S)
  BY <1>1, <1>2, TailAppend, HeadTailProperties DEF Rest
<1> HIDE DEF Rest, First
<1> QED
  BY <1>4, <1>5, AlignedAppend

(* The end reads what comes first, which is what was due.                  *)
LEMMA FrameShrinks ==
  ASSUME NEW e \in Ends, FrameTo(e), NEW S, net[e] \in Seq(S), net[e] # << >>,
         reading[e] # << >>, ~Awaits(e),
         net'[e] = Tail(net[e]), ~Awaits(e)'
  PROVE  /\ Fits(Head(net[e]), First(e))
         /\ /\ First(e)' = After(Head(net[e]))
            /\ Sending(Peer(e))' =>
                 Sending(Peer(e)) /\ BodyDue(Peer(e))' = BodyDue(Peer(e))
            => FrameTo(e)'
<1>1. Listening(e) /\ AdvFirst(e) /\ Rest(e) = net[e] /\ Rest(e)' = Tail(net[e])
  BY DEF Listening, AdvFirst, Rest
<1>2. /\ Aligned(net[e], First(e))
      /\ Sending(Peer(e)) => LastDue(net[e], First(e)) = BodyDue(Peer(e))
  BY <1>1 DEF FrameTo
<1> DEFINE s == net[e]
           first == First(e)
<1>3. s \in Seq(S) /\ s # << >> /\ Aligned(s, first)
  BY <1>2
<1> HIDE DEF s, first
<1>4. /\ Fits(Head(s), first)
      /\ Aligned(Tail(s), After(Head(s)))
      /\ LastDue(Tail(s), After(Head(s))) = LastDue(s, first)
  BY <1>3, AlignedTail
<1> QED
  BY <1>1, <1>2, <1>4, PrimedFrames DEF FrameTo, s, first

(* The end reads the validation value that came first.                     *)
LEMMA FrameAnswered ==
  ASSUME NEW e \in Ends, FrameTo(e), Awaits(e), net[e] # << >>,
         Head(net[e]).kind = "adv", net'[e] = Tail(net[e]), ~Awaits(e)',
         First(e)' = First(e),
         Sending(Peer(e))' => Sending(Peer(e)) /\ BodyDue(Peer(e))' = BodyDue(Peer(e))
  PROVE  FrameTo(e)'
<1>1. Listening(e) /\ AdvFirst(e) /\ Rest(e)' = Rest(e)
  BY DEF Listening, AdvFirst, Rest
<1> QED
  BY <1>1, PrimedFrames DEF FrameTo

(* No more than a validation value is on its way.                          *)
LEMMA FrameStarts ==
  ASSUME NEW e \in Ends, Rest(e)' = << >>, First(e)' = None,
         Sending(Peer(e))' => BodyDue(Peer(e))' = None
  PROVE  FrameTo(e)'
BY PrimedFrames, AlignedEmpty DEF FrameTo
-----------------------------------------------------------------------------
LEMMA BothEnds ==
  /\ "client" \in Ends /\ "server" \in Ends /\ \A e \in Ends : e \in {"client", "server"}
  /\ Peer("client") = "server" /\ Peer("server") = "client"
  /\ \A e \in Ends : Peer(e) \in Ends /\ Peer(Peer(e)) = e /\ Peer(e) # e
BY DEF Ends, Peer

LEMMA NoneIsNoMessage == None \notin HasBody /\ \A msg \in Messages : msg # None
BY SessionAssumption

LEMMA InitFrames == Init => Frames
<1> SUFFICES ASSUME Init PROVE Frames
  OBVIOUS
<1>1. \A e \in Ends : Rest(e) = << >> /\ First(e) = None /\ ~Sending(e)
  BY DEF Init, Rest, First, Reads, Sending, Connected
<1>2. \A e \in Ends : FrameTo(e)
  BY <1>1, AlignedEmpty, BothEnds DEF FrameTo
<1>3. \A e \in Ends : ~Reads(e, "body")
  BY DEF Init, Reads
<1>4. BodyDue("client") = None
  BY BothEnds DEF Init, BodyDue
<1>5. BodyDelivered
  BY DEF Init, BodyDelivered
<1> QED
  BY <1>2, <1>3, <1>4, <1>5 DEF Frames

(* Nothing is read or sent.                                                *)
LEMMA FramesKept ==
  ASSUME Frames, UNCHANGED <<net, received>>, established => established',
         \A e \in Ends :
           /\ Listening(e)' => Listening(e) /\ First(e)' = First(e) /\ (Awaits(e)' <=> Awaits(e))
           /\ Reads(e, "body")' => Reads(e, "body")
           /\ Sending(e)' => Sending(e) /\ BodyDue(e)' = BodyDue(e),
         BodyDue("client")' \in {BodyDue("client"), None}
  PROVE  Frames'
<1>1. ASSUME NEW e \in Ends PROVE FrameTo(e)'
  BY FrameKept, BothEnds DEF Frames
<1>2. \A e \in Ends : Reads(e, "body")' => m_msgTemporaryIn'[e].header \in HasBody
  BY DEF Frames, received
<1>3. ~established' => BodyDue("client")' = None
  BY DEF Frames
<1>4. BodyDelivered'
  BY DEF Frames, BodyDelivered, received
<1> QED
  BY <1>1, <1>2, <1>3, <1>4 DEF Frames

LEMMA QuietKeepsFrames ==
  ASSUME Frames, UNCHANGED <<m_socket, net, connecting, accepted, established, advWriting,
                             inbound, outbound>>,
         broken => broken'
  PROVE  Frames'
<1> USE DEF inbound, outbound, received
<1>1. ASSUME NEW e \in Ends
      PROVE  /\ Listening(e)' => Listening(e) /\ First(e)' = First(e) /\ (Awaits(e)' <=> Awaits(e))
             /\ Reads(e, "body")' => Reads(e, "body")
             /\ Sending(e)' => Sending(e) /\ BodyDue(e)' = BodyDue(e)
  BY DEF Listening, First, Awaits, Reads, Sending, Connected, BodyDue
<1>2. BodyDue("client")' = BodyDue("client")
  BY DEF BodyDue
<1> QED
  BY <1>1, <1>2, FramesKept

LEMMA ConnectToServerKeepsFrames ==
  ASSUME Frames, OutboundTyped, ConnectToServer
  PROVE  Frames'
<1> USE DEF ConnectToServer, inbound, outbound, received, handshake
<1>1. m_socket'["client"] = "open" /\ m_socket'["server"] = m_socket["server"]
  BY BothEnds DEF OutboundTyped
<1>2. ASSUME NEW e \in Ends
      PROVE  /\ Listening(e)' => Listening(e) /\ First(e)' = First(e) /\ (Awaits(e)' <=> Awaits(e))
             /\ Reads(e, "body")' => Reads(e, "body")
             /\ Sending(e)' => Sending(e) /\ BodyDue(e)' = BodyDue(e)
  BY <1>1, BothEnds DEF Listening, First, Awaits, Reads, Sending, Connected, BodyDue
<1>3. BodyDue("client")' = BodyDue("client")
  BY DEF BodyDue
<1> QED
  BY <1>2, <1>3, FramesKept

(* TCP connects: nothing was sent before.                                  *)
LEMMA TcpConnectKeepsFrames ==
  ASSUME ReadChain, Frames, OutboundTyped, TcpConnect
  PROVE  Frames'
<1> USE DEF TcpConnect, inbound, outbound, received, handshake
<1>1. /\ m_socket["client"] = "open" /\ ~established /\ established' /\ connecting /\ connecting'
      /\ m_socket'["server"] = m_socket["server"]
  BY BothEnds DEF OutboundTyped, ReadChain, OneReader
<1>2. ~accepted /\ net["server"] = << >> /\ reading["server"] = << >>
  BY <1>1 DEF ReadChain, NothingBeforeAccept
<1>3. FrameTo("server")'
  <2>1. Rest("server")' = << >> /\ First("server")' = None
    BY <1>2 DEF Rest, First, Reads
  <2>2. BodyDue("client")' = None
    BY <1>1 DEF BodyDue, Frames
  <2> QED
    BY <2>1, <2>2, FrameStarts, BothEnds
<1>4. FrameTo("client")'
  <2>1. Listening("client")' => /\ Listening("client") /\ First("client")' = First("client")
                                /\ Awaits("client")' <=> Awaits("client")
    BY <1>1 DEF Listening, First, Awaits, Reads
  <2>2. Sending("server")' => Sending("server") /\ BodyDue("server")' = BodyDue("server")
    BY <1>1 DEF Sending, Connected, BodyDue
  <2> QED
    BY <2>1, <2>2, FrameKept, BothEnds DEF Frames
<1>5. \A e \in Ends : Reads(e, "body")' => m_msgTemporaryIn'[e].header \in HasBody
  BY DEF Frames, Reads
<1>6. BodyDelivered'
  BY DEF Frames, BodyDelivered
<1> QED
  BY <1>1, <1>3, <1>4, <1>5, <1>6, BothEnds DEF Frames

LEMMA ConnectCompletesKeepsFrames ==
  ASSUME ReadChain, Frames, ConnectCompletes
  PROVE  Frames'
<1>1. /\ connecting /\ reading["client"] = << >> /\ advWriting["client"] = "idle"
      /\ m_socket["client"] # "none"
  BY DEF ConnectCompletes, ReadChain, OneReader
<1>2. /\ connecting' = FALSE
      /\ UNCHANGED <<accepted, established, wire, handshake, received, outbound>>
  BY DEF ConnectCompletes
<1> DEFINE op == << Op("client", "adv") >>
<1>3. op # << >> /\ Head(op).kind = "adv" /\ op \in Seq(Ops(Kinds))
  BY ReadOpTyped, BothEnds DEF Kinds
<1>4. reading' = [reading EXCEPT !["client"] = op] \/ UNCHANGED reading
  BY <1>1, StartReadBegins, BothEnds DEF ConnectCompletes, Kinds
<1> HIDE DEF op
<1>5. /\ reading'["server"] = reading["server"]
      /\ reading'["client"] = op \/ reading'["client"] = << >>
  BY <1>1, <1>3, <1>4, BothEnds DEF ReadChain, InboundTyped
<1> USE DEF wire, handshake, received, outbound
<1>6. /\ Listening("client")' => /\ Listening("client") /\ First("client")' = First("client")
                                 /\ Awaits("client")' <=> Awaits("client")
      /\ ~Reads("client", "body")'
  BY <1>1, <1>2, <1>3, <1>5 DEF Listening, First, Awaits, Reads
<1>7. /\ Listening("server")' => /\ Listening("server") /\ First("server")' = First("server")
                                 /\ Awaits("server")' <=> Awaits("server")
      /\ Reads("server", "body")' => Reads("server", "body")
  BY <1>1, <1>2, <1>5 DEF Listening, First, Awaits, Reads
<1>8. \A e \in Ends : Sending(e)' => Sending(e) /\ BodyDue(e)' = BodyDue(e)
  BY <1>2 DEF Sending, Connected, BodyDue
<1>9. BodyDue("client")' = BodyDue("client")
  BY <1>2 DEF BodyDue
<1> QED
  BY <1>2, <1>6, <1>7, <1>8, <1>9, FramesKept, BothEnds
-----------------------------------------------------------------------------
(* The handshake.                                                          *)

(* An end that awaits its validation value is not in a message.            *)
LEMMA AwaitsFirst ==
  ASSUME ReadChain, NEW e \in Ends, Awaits(e)
  PROVE  First(e) = None /\ ~Reads(e, "body")
<1>1. Reads(e, "adv") \/ reading[e] = << >>
  BY BothEnds DEF Awaits, ReadChain, OneReader, NothingBeforeAccept
<1> QED
  BY <1>1 DEF First, Reads

LEMMA AcceptKeepsFrames ==
  ASSUME ReadChain, WriteChain, Frames, AcceptConnection
  PROVE  Frames'
<1> DEFINE op == << [kind |-> "adv", live |-> TRUE] >>
<1>1. PICK challenge \in ValidationValues :
        net' = IF broken THEN net
               ELSE [net EXCEPT !["client"] = Append(@, Chunk("adv", challenge))]
  BY DEF AcceptConnection
<1>2. /\ established /\ ~accepted /\ accepted'
      /\ m_socket' = [m_socket EXCEPT !["server"] = "connected"]
      /\ advWriting' = [advWriting EXCEPT !["server"] = "live"]
      /\ reading' = [reading EXCEPT !["server"] = op]
      /\ UNCHANGED <<broken, connecting, established, outbound, received>>
  BY DEF AcceptConnection
<1>3. op # << >> /\ Head(op).kind = "adv"
  OBVIOUS
<1> HIDE DEF op
<1>4. /\ reading'["server"] = op /\ reading'["client"] = reading["client"]
      /\ advWriting'["client"] = advWriting["client"] /\ m_socket'["client"] = m_socket["client"]
  BY <1>2, BothEnds DEF ReadChain, InboundTyped, WriteChain, OutboundTyped
<1>5. /\ reading["server"] = << >> /\ net["client"] = << >> /\ advWriting["client"] = "idle"
      /\ reading["client"] # << >> => Reads("client", "adv")
  BY <1>2 DEF ReadChain, NothingBeforeAccept
<1>6. writing["server"] = << >>
  BY <1>2, BothEnds DEF WriteChain, NothingBeforeSocket, OneMessageWrite
<1>7. /\ net'["server"] = net["server"]
      /\ net'["client"] = << >> \/ net'["client"] = << Chunk("adv", challenge) >>
  BY <1>1, <1>5, BothEnds DEF ReadChain, InboundTyped
<1> USE DEF outbound, received
<1>8. FrameTo("server")'
  <2>1. /\ Listening("server")' => Listening("server") /\ First("server")' = First("server")
                                   /\ (Awaits("server")' <=> Awaits("server"))
    BY <1>2, <1>3, <1>4, <1>5 DEF Listening, First, Awaits, Reads
  <2>2. Sending("client")' => Sending("client") /\ BodyDue("client")' = BodyDue("client")
    BY <1>2, <1>4 DEF Sending, Connected, BodyDue
  <2> QED
    BY <1>7, <2>1, <2>2, FrameKept, BothEnds DEF Frames
<1>9. FrameTo("client")'
  <2>1. CASE ~Listening("client")'
    BY <2>1 DEF FrameTo
  <2>2. CASE Listening("client")'
    <3>1. Awaits("client") /\ Awaits("client")'
      BY <1>2, <1>4, <1>5, <2>2 DEF Listening, Awaits, Reads
    <3>2. First("client")' = None
      BY <1>2, <1>4, <3>1, AwaitsFirst, BothEnds DEF First, Reads
    <3>3. Rest("client")' = << >>
      <4>1. CASE net'["client"] = << >>
        BY <3>1, <4>1 DEF Rest
      <4>2. CASE net'["client"] = << Chunk("adv", challenge) >>
        <5>1. net'["client"] # << >> /\ Tail(net'["client"]) = << >>
          BY <4>2
        <5> QED
          BY <3>1, <5>1 DEF Rest
      <4> QED
        BY <1>7, <4>1, <4>2
    <3>4. BodyDue("server")' = None
      BY <1>2, <1>6 DEF BodyDue
    <3> QED
      BY <3>2, <3>3, <3>4, FrameStarts, BothEnds
  <2> QED
    BY <2>1, <2>2
<1>10. \A e \in Ends : Reads(e, "body")' => m_msgTemporaryIn'[e].header \in HasBody
  BY <1>2, <1>3, <1>4, BothEnds DEF Frames, Reads
<1>11. BodyDelivered'
  BY <1>2 DEF Frames, BodyDelivered
<1> QED
  BY <1>2, <1>8, <1>9, <1>10, <1>11, BothEnds DEF Frames

LEMMA ReadValidationServerKeepsFrames ==
  ASSUME ReadChain, OutboundTyped, Frames, ReadValidationServer
  PROVE  Frames'
<1>1. /\ reading["server"] # << >> /\ Head(reading["server"]) = [kind |-> "adv", live |-> TRUE]
      /\ net["server"] # << >>
      /\ net' = [net EXCEPT !["server"] = Tail(@)]
      /\ UNCHANGED <<advWriting, link, outbound, received>>
  BY DEF ReadValidationServer, ReadCompletes
<1>2. Reads("server", "adv") /\ accepted /\ accepted'
  BY <1>1 DEF Reads, ReadChain, NothingBeforeAccept, link
<1> DEFINE op == << Op("server", "hdr") >>
           accepts == Head(net["server"]) = Chunk("adv", m_nADVCheck)
<1>3. op \in Seq(Ops(Kinds)) /\ << >> \in Seq(Ops(Kinds)) /\ op # << >> /\ Head(op).kind = "hdr"
  BY BothEnds, ReadOpTyped, EmptySeq DEF Kinds
<1>4. /\ accepts => reading' = [reading EXCEPT !["server"] = op] /\ UNCHANGED <<m_socket, broken>>
      /\ ~accepts => reading' = [reading EXCEPT !["server"] = << >>] /\ Close("server")
  BY <1>1, <1>3, BothEnds, ReadNextReplaces DEF ReadValidationServer
<1>5. accepts => Head(net["server"]).kind = "adv"
  BY DEF Chunk
<1> HIDE DEF op, accepts
<1>6. /\ net'["server"] = Tail(net["server"]) /\ net'["client"] = net["client"]
      /\ reading'["client"] = reading["client"]
      /\ reading'["server"] = IF accepts THEN op ELSE << >>
      /\ m_socket'["client"] = m_socket["client"]
  BY <1>1, <1>4, BothEnds DEF ReadChain, InboundTyped, OutboundTyped, Close
<1> USE DEF outbound, received, link
<1>7. FrameTo("client")'
  <2>1. Listening("client")' => /\ Listening("client") /\ First("client")' = First("client")
                                /\ Awaits("client")' <=> Awaits("client")
    BY <1>1, <1>6 DEF Listening, First, Awaits, Reads
  <2>2. Sending("server")' => Sending("server") /\ BodyDue("server")' = BodyDue("server")
    BY <1>1, <1>4 DEF Sending, Connected, BodyDue, Close
  <2> QED
    BY <1>6, <2>1, <2>2, FrameKept, BothEnds DEF Frames
<1>8. FrameTo("server")'
  <2>1. Awaits("server") /\ ~Awaits("server")'
    BY <1>2, <1>3, <1>6 DEF Awaits, Reads
  <2>2. CASE ~accepts
    BY <1>6, <2>1, <2>2 DEF FrameTo, Listening
  <2>3. CASE accepts
    <3>1. First("server")' = First("server")
      BY <1>2, <1>3, <1>6, <2>3 DEF First, Reads
    <3>2. Sending("client")' => Sending("client") /\ BodyDue("client")' = BodyDue("client")
      BY <1>1, <1>4, <2>3 DEF Sending, Connected, BodyDue
    <3> QED
      BY <1>1, <1>5, <1>6, <2>1, <2>3, <3>1, <3>2, FrameAnswered, BothEnds DEF Frames
  <2> QED
    BY <2>2, <2>3
<1>9. \A e \in Ends : Reads(e, "body")' => m_msgTemporaryIn'[e].header \in HasBody
  BY <1>1, <1>3, <1>6, BothEnds DEF Frames, Reads
<1>10. BodyDelivered'
  BY <1>1 DEF Frames, BodyDelivered
<1>11. ~established' => BodyDue("client")' = None
  BY <1>1 DEF Frames, BodyDue
<1> QED
  BY <1>7, <1>8, <1>9, <1>10, <1>11, BothEnds DEF Frames

LEMMA ReadValidationClientKeepsFrames ==
  ASSUME ReadChain, Frames, ReadValidationClient
  PROVE  Frames'
<1> DEFINE chunk == Chunk("adv", Scrambled(Head(net["client"]).val))
<1>1. /\ reading["client"] # << >> /\ Head(reading["client"]) = [kind |-> "adv", live |-> TRUE]
      /\ net["client"] # << >>
      /\ net' = [net EXCEPT !["client"] = Tail(@),
                            !["server"] = IF Connected("client") /\ ~broken
                                          THEN Append(@, chunk) ELSE @]
      /\ advWriting' = [advWriting EXCEPT !["client"] = Live("client")]
      /\ UNCHANGED <<m_socket, broken, validated, link, outbound, received>>
  BY DEF ReadValidationClient, AnswerWith, ReadCompletes
<1>2. reading' = [reading EXCEPT !["client"] = << >>]
  BY <1>1, EmptySeq, ReadNextReplaces, BothEnds DEF ReadValidationClient, AnswerWith
<1>3. chunk.kind = "adv"
  BY DEF Chunk
<1> HIDE DEF chunk
<1>4. /\ net'["client"] = Tail(net["client"])
      /\ net'["server"] = IF Sending("client") THEN Append(net["server"], chunk)
                                               ELSE net["server"]
      /\ reading'["client"] = << >> /\ reading'["server"] = reading["server"]
  BY <1>1, <1>2, BothEnds DEF ReadChain, InboundTyped, Sending
<1>5. Awaits("client") /\ m_socket["client"] # "none" /\ ~connecting
  BY <1>1 DEF Awaits, Reads, ReadChain, OneReader
<1>6. /\ Head(net["client"]).kind = "adv" /\ ~validated
      /\ \A i \in DOMAIN net["server"] : net["server"][i].kind # "adv"
  BY <1>1, <1>5 DEF ReadChain, ChallengeFirst
<1> USE DEF link, outbound, received
<1>7. \A e \in Ends : Sending(e)' => Sending(e) /\ BodyDue(e)' = BodyDue(e)
  BY <1>1 DEF Sending, Connected, BodyDue
<1>8. FrameTo("client")'
  <2>1. ~Awaits("client")' /\ First("client")' = None
    BY <1>1, <1>4, <1>5 DEF Awaits, First, Reads
  <2>2. First("client") = None
    BY <1>5, AwaitsFirst, BothEnds
  <2> QED
    BY <1>1, <1>4, <1>5, <1>6, <1>7, <2>1, <2>2, FrameAnswered, BothEnds DEF Frames
<1>9. FrameTo("server")'
  <2>1. /\ Listening("server")' => Listening("server")
        /\ Awaits("server")' <=> Awaits("server")
        /\ First("server")' = First("server")
    BY <1>1, <1>4 DEF Listening, Awaits, First, Reads
  <2>2. CASE ~Sending("client")
    BY <1>4, <1>7, <2>1, <2>2, FrameKept, BothEnds DEF Frames
  <2>3. CASE Sending("client") /\ ~Awaits("server")
    <3>1. reading["server"] = << >>
      BY <1>6, <2>3 DEF Awaits, ReadChain, HeardOnceValidated
    <3> QED
      BY <2>1, <2>3, <3>1 DEF FrameTo, Listening
  <2>4. CASE Sending("client") /\ Awaits("server") /\ net["server"] = << >>
    <3>1. Append(net["server"], chunk) = << chunk >> /\ Tail(<< chunk >>) = << >>
      BY <2>4
    <3>2. Rest("server")' = << >> /\ Rest("server") = << >>
      <4>1. net'["server"] = << chunk >> /\ << chunk >> # << >>
        BY <1>4, <2>4, <3>1
      <4> QED
        BY <2>1, <2>4, <3>1, <4>1 DEF Rest
    <3>3. First("server") = None
      BY <2>4, AwaitsFirst, BothEnds
    <3>4. BodyDue("client") = None
      BY <2>4, <3>2, <3>3, AlignedEmpty, BothEnds DEF Frames, FrameTo, Listening, AdvFirst
    <3> QED
      BY <1>7, <2>1, <3>2, <3>3, <3>4, FrameStarts, BothEnds
  <2>5. CASE Sending("client") /\ Awaits("server") /\ net["server"] # << >>
    <3>1. net["server"] \in Seq(ChunksTo("client") \cup ChunksTo("server"))
      BY BothEnds DEF ReadChain, InboundTyped
    <3>2. Head(net["server"]).kind # "adv"
      BY <1>6, <2>5, <3>1, EmptySeq, LenProperties, HeadTailProperties
    <3>3. net'["server"] # << >> /\ Head(net'["server"]) = Head(net["server"])
      <4>1. chunk \in ChunksTo("client") \cup ChunksTo("server") \cup {chunk}
        OBVIOUS
      <4>2. net["server"] \in Seq(ChunksTo("client") \cup ChunksTo("server") \cup {chunk})
        BY <3>1
      <4> QED
        BY <1>4, <2>5, <4>1, <4>2, AppendKeeps
    <3> QED
      BY <2>1, <2>5, <3>2, <3>3 DEF FrameTo, AdvFirst
  <2> QED
    BY <2>2, <2>3, <2>4, <2>5
<1>10. \A e \in Ends : Reads(e, "body")' => m_msgTemporaryIn'[e].header \in HasBody
  BY <1>1, <1>4, BothEnds DEF Frames, Reads
<1>11. BodyDelivered'
  BY <1>1 DEF Frames, BodyDelivered
<1>12. ~established' => BodyDue("client")' = None
  BY <1>1 DEF Frames, BodyDue
<1> QED
  BY <1>8, <1>9, <1>10, <1>11, <1>12, BothEnds DEF Frames

LEMMA WriteValidationKeepsFrames ==
  ASSUME ReadChain, Frames, NEW e \in Ends, WriteValidationCompletes(e)
  PROVE  Frames'
<1>1. /\ advWriting[e] = "live" /\ advWriting' = [advWriting EXCEPT ![e] = "idle"]
      /\ e = "client" => StartRead(e, "hdr")
      /\ e = "server" => UNCHANGED reading
      /\ UNCHANGED <<wire, link, outbound, received>>
  BY DEF WriteValidationCompletes, WriteValidationThenRead
<1> USE DEF wire, link, outbound, received
<1>2. \A d \in Ends : Sending(d)' => Sending(d) /\ BodyDue(d)' = BodyDue(d)
  BY <1>1 DEF Sending, Connected, BodyDue
<1>3. BodyDue("client")' = BodyDue("client")
  BY <1>1 DEF BodyDue
<1>4. CASE e = "server"
  <2>1. \A d \in Ends :
          /\ Listening(d)' => Listening(d) /\ First(d)' = First(d) /\ (Awaits(d)' <=> Awaits(d))
          /\ Reads(d, "body")' => Reads(d, "body")
    BY <1>1, <1>4 DEF Listening, First, Awaits, Reads, ReadChain, InboundTyped
  <2> QED
    BY <1>1, <1>2, <1>3, <2>1, FramesKept
<1>5. CASE e = "client"
  <2> DEFINE op == << Op("client", "hdr") >>
  <2>1. op \in Seq(Ops(Kinds)) /\ op # << >> /\ Head(op).kind = "hdr"
    BY ReadOpTyped, BothEnds DEF Kinds
  <2>2. reading["client"] = << >> /\ m_socket["client"] # "none" /\ ~connecting
    BY <1>1, <1>5 DEF ReadChain, OneReader
  <2>3. reading' = [reading EXCEPT !["client"] = op]
    BY <1>1, <1>5, <2>2, StartReadBegins, BothEnds DEF Kinds
  <2> HIDE DEF op
  <2>4. reading'["client"] = op /\ reading'["server"] = reading["server"]
    BY <2>3, BothEnds DEF ReadChain, InboundTyped
  <2>5. /\ Listening("client") /\ First("client")' = First("client")
        /\ Awaits("client")' <=> Awaits("client")
        /\ ~Reads("client", "body")'
    BY <1>1, <1>5, <2>1, <2>2, <2>4 DEF Listening, First, Awaits, Reads
  <2>6. /\ Listening("server")' => Listening("server")
        /\ First("server")' = First("server")
        /\ Awaits("server")' <=> Awaits("server")
        /\ Reads("server", "body")' => Reads("server", "body")
    BY <1>1, <2>4 DEF Listening, First, Awaits, Reads
  <2> QED
    BY <1>1, <1>2, <1>3, <2>5, <2>6, FramesKept, BothEnds
<1> QED
  BY <1>4, <1>5, BothEnds

(* A handler that closes the socket ends what is sent in both directions.  *)
LEMMA ClosersKeepFrames ==
  ASSUME ReadChain, WriteChain, Frames, NEW e \in Ends,
         WriteValidationFails(e) \/ ReadError(e) \/ PostedClose(e) \/ WriteError(e)
  PROVE  Frames'
<1>1. Close(e) /\ UNCHANGED <<net, link, received>>
  BY DEF WriteValidationFails, ReadError, PostedClose, WriteError, inbound
<1>2. /\ m_socket'[e] = "closed"
      /\ \A d \in Ends : d # e => m_socket'[d] = m_socket[d]
  BY <1>1 DEF Close, WriteChain, OutboundTyped
<1>3. e = "client" => m_socket[e] # "none"
  BY DEF WriteValidationFails, ReadError, ReadFails, PostedClose, WriteError, WriteFails,
     ReadChain, OneReader, WriteChain, NothingBeforeSocket, OneMessageWrite
<1> USE DEF link, received
<1>4. \A d \in Ends : ~Sending(d)'
  BY <1>1 DEF Close, Sending
<1>5. BodyDue("client")' \in {BodyDue("client"), None}
  <2>1. CASE WriteError(e)
    <3>1. /\ writing[e] \in Seq(Ops({"hdr", "body"})) /\ writing[e] # << >>
          /\ Len(writing[e]) <= 1
      BY <2>1 DEF WriteChain, OutboundTyped, OneMessageWrite, WriteError, WriteFails
    <3>2. Tail(writing[e]) \o << >> = << >>
      BY <3>1, TailOfOne, EmptySeq, ConcatEmptySeq
    <3>3. writing' = [writing EXCEPT ![e] = << >>] /\ UNCHANGED m_qMessagesOut
      BY <2>1, <3>2 DEF WriteError, WriteNext
    <3>4. writing'["client"] \in {writing["client"], << >>}
      BY <3>3, BothEnds DEF WriteChain, OutboundTyped
    <3> QED
      BY <3>3, <3>4 DEF BodyDue
  <2>2. CASE ~WriteError(e)
    BY <2>2 DEF BodyDue, WriteValidationFails, ReadError, PostedClose, outbound
  <2> QED
    BY <2>1, <2>2
<1>6. CASE ReadError(e)
  <2>1. reading[e] # << >> /\ UNCHANGED advWriting
    BY <1>6 DEF ReadError, ReadFails, handshake
  <2>2. reading' = [reading EXCEPT ![e] = << >>]
    BY <1>6, <2>1, EmptySeq, ReadNextReplaces DEF ReadError
  <2>3. reading'[e] = << >> /\ \A d \in Ends : d # e => reading'[d] = reading[d]
    BY <2>2 DEF ReadChain, InboundTyped
  <2>4. IF e = "client" THEN ~connecting /\ advWriting[e] = "idle" ELSE accepted
    BY <2>1, BothEnds DEF ReadChain, OneReader, NothingBeforeAccept
  <2>5. ~Listening(e)' /\ ~Reads(e, "body")'
    BY <1>1, <1>2, <2>1, <2>3, <2>4 DEF Listening, Awaits, Reads
  <2>6. ASSUME NEW d \in Ends, d # e
        PROVE  /\ Listening(d)' => Listening(d) /\ First(d)' = First(d) /\ (Awaits(d)' <=> Awaits(d))
               /\ Reads(d, "body")' => Reads(d, "body")
    BY <1>1, <1>2, <2>1, <2>3, <2>6 DEF Listening, First, Awaits, Reads
  <2> QED
    BY <1>1, <1>4, <1>5, <2>5, <2>6, FramesKept
<1>7. CASE ~ReadError(e)
  <2>1. /\ UNCHANGED reading
        /\ UNCHANGED advWriting \/ advWriting' = [advWriting EXCEPT ![e] = "idle"]
    BY <1>7 DEF WriteValidationFails, PostedClose, WriteError, inbound, handshake
  <2>2. \A d \in Ends : advWriting'[d] \in {advWriting[d], "idle"}
    BY <2>1 DEF ReadChain, InboundTyped
  <2>3. ASSUME NEW d \in Ends
        PROVE  /\ Listening(d)' => Listening(d) /\ First(d)' = First(d) /\ (Awaits(d)' <=> Awaits(d))
               /\ Reads(d, "body")' => Reads(d, "body")
    BY <1>1, <1>2, <1>3, <2>1, <2>2 DEF Listening, First, Awaits, Reads
  <2> QED
    BY <1>1, <1>4, <1>5, <2>3, FramesKept
<1> QED
  BY <1>6, <1>7
-----------------------------------------------------------------------------
(* Reading messages.                                                       *)

(* What is common to ReadHeader and ReadBody: the next read is of what the *)
(* chunk just read is followed by.                                         *)
LEMMA ReadingKeepsFrames ==
  ASSUME ReadChain, Frames, NEW e \in Ends, NEW kind \in {"hdr", "body"},
         reading[e] # << >>, ~Reads(e, "adv"), net[e] # << >>,
         net' = [net EXCEPT ![e] = Tail(@)],
         ReadNext(e, << Op(e, kind) >>),
         NEW temporary \in Temporaries,
         m_msgTemporaryIn' = [m_msgTemporaryIn EXCEPT ![e] = temporary],
         UNCHANGED <<m_socket, broken, link, advWriting, outbound>>,
         Fits(Head(net[e]), First(e)) =>
           /\ After(Head(net[e])) = (IF kind = "body" THEN temporary.header ELSE None)
           /\ kind = "body" => temporary.header \in HasBody
           /\ BodyDelivered'
  PROVE  Frames'
<1> USE DEF link, outbound
<1> DEFINE op == << Op(e, kind) >>
           chunk == Head(net[e])
           ahead == IF kind = "body" THEN temporary.header ELSE None
<1>1. op \in Seq(Ops(Kinds)) /\ op # << >> /\ Head(op).kind = kind
  BY ReadOpTyped DEF Kinds
<1>2. reading' = [reading EXCEPT ![e] = op]
  BY <1>1, ReadNextReplaces
<1> HIDE DEF op
<1>3. /\ reading'[e] = op /\ \A d \in Ends : d # e => reading'[d] = reading[d]
      /\ net'[e] = Tail(net[e]) /\ \A d \in Ends : d # e => net'[d] = net[d]
      /\ m_msgTemporaryIn'[e] = temporary
      /\ \A d \in Ends : d # e => m_msgTemporaryIn'[d] = m_msgTemporaryIn[d]
  BY <1>2 DEF ReadChain, InboundTyped
<1>4. /\ ~Awaits(e)
      /\ e = "client" => m_socket["client"] # "none" /\ ~connecting
      /\ e = "server" => accepted
  BY BothEnds DEF Awaits, ReadChain, OneReader, NothingBeforeAccept
<1>5. ~Awaits(e)'
  BY <1>1, <1>3, <1>4, BothEnds DEF Awaits, Reads
<1>6. \A d \in Ends : Sending(d)' => Sending(d) /\ BodyDue(d)' = BodyDue(d)
  BY DEF Sending, Connected, BodyDue
<1>7. First(e)' = ahead
  BY <1>1, <1>3 DEF First, Reads
<1> HIDE DEF chunk
<1>8. net[e] \in Seq(ChunksTo("client") \cup ChunksTo("server"))
  BY DEF ReadChain, InboundTyped
<1>9. Fits(chunk, First(e)) /\ (First(e)' = After(chunk) => FrameTo(e)')
  BY <1>3, <1>4, <1>5, <1>6, <1>8, FrameShrinks, BothEnds DEF Frames, chunk
<1>10. /\ After(chunk) = ahead
       /\ kind = "body" => temporary.header \in HasBody
       /\ BodyDelivered'
  BY <1>9 DEF chunk
<1>11. ASSUME NEW d \in Ends, d # e
       PROVE  FrameTo(d)'
  <2>1. Listening(d)' => Listening(d) /\ First(d)' = First(d) /\ (Awaits(d)' <=> Awaits(d))
    BY <1>3, <1>11 DEF Listening, First, Awaits, Reads
  <2> QED
    BY <1>3, <1>6, <1>11, <2>1, FrameKept, BothEnds DEF Frames
<1>12. \A d \in Ends : Reads(d, "body")' => m_msgTemporaryIn'[d].header \in HasBody
  BY <1>1, <1>3, <1>10 DEF Frames, Reads
<1>13. ~established' => BodyDue("client")' = None
  BY DEF Frames, BodyDue
<1> QED
  BY <1>7, <1>9, <1>10, <1>11, <1>12, <1>13 DEF Frames

(* The program is given one message more.                                  *)
LEMMA DeliveredAppend ==
  ASSUME ReadChain, Frames, NEW e \in Ends, NEW temporary \in Temporaries,
         temporary.header \in HasBody => temporary.body = temporary.header,
         m_qMessagesIn' = [m_qMessagesIn EXCEPT ![e] = Append(@, temporary)]
  PROVE  BodyDelivered'
<1> SUFFICES ASSUME NEW d \in Ends, NEW i \in DOMAIN m_qMessagesIn'[d],
                    m_qMessagesIn'[d][i].header \in HasBody
             PROVE  m_qMessagesIn'[d][i].body = m_qMessagesIn'[d][i].header
  BY DEF BodyDelivered
<1>1. m_qMessagesIn \in [Ends -> Seq(Temporaries)] /\ BodyDelivered
  BY DEF ReadChain, InboundTyped, Frames
<1>2. CASE d = e
  <2>1. m_qMessagesIn'[e] = Append(m_qMessagesIn[e], temporary) /\ m_qMessagesIn[e] \in Seq(Temporaries)
    BY <1>1
  <2>2. \/ m_qMessagesIn'[e][i] = temporary
        \/ \E j \in DOMAIN m_qMessagesIn[e] : m_qMessagesIn'[e][i] = m_qMessagesIn[e][j]
    BY <1>2, <2>1, AppendKeeps
  <2> QED
    BY <1>1, <1>2, <2>2 DEF BodyDelivered
<1>3. CASE d # e
  BY <1>1, <1>3 DEF BodyDelivered
<1> QED
  BY <1>2, <1>3

LEMMA ReadHeaderKeepsFrames ==
  ASSUME ReadChain, Frames, NEW e \in Ends, ReadHeader(e)
  PROVE  Frames'
<1> DEFINE msg == Head(net[e]).val
           temporary == [m_msgTemporaryIn[e] EXCEPT !.header = msg]
<1>1. /\ reading[e] # << >> /\ Head(reading[e]) = [kind |-> "hdr", live |-> TRUE]
      /\ net[e] # << >> /\ Head(net[e]).kind = "hdr"
      /\ net' = [net EXCEPT ![e] = Tail(@)]
      /\ m_msgTemporaryIn' = [m_msgTemporaryIn EXCEPT ![e] = temporary]
      /\ UNCHANGED <<m_socket, broken, link, advWriting, outbound>>
      /\ \/ msg \in HasBody /\ ReadNext(e, << Op(e, "body") >>) /\ UNCHANGED m_qMessagesIn
         \/ /\ msg \notin HasBody /\ ReadNext(e, << Op(e, "hdr") >>)
            /\ m_qMessagesIn' = [m_qMessagesIn EXCEPT ![e] = Append(@, temporary)]
  BY DEF ReadHeader, ReadCompletes, AddToIncomingMessageQueue, handshake
<1>2. ~Reads(e, "adv")
  BY <1>1 DEF Reads
<1>3. temporary \in Temporaries /\ temporary.header = msg
  <2>1. Head(net[e]) \in ChunksTo("client") \cup ChunksTo("server")
    BY <1>1, TakeChunk
  <2>2. msg \in Messages
    BY <1>1, <2>1, ChunkInverts, BothEnds
  <2> HIDE DEF msg
  <2> QED
    BY <2>2 DEF ReadChain, InboundTyped, Temporaries
<1>4. After(Head(net[e])) = IF msg \in HasBody THEN msg ELSE None
  BY <1>1 DEF After
<1> HIDE DEF temporary, msg
<1>5. CASE msg \in HasBody
  <2>1. BodyDelivered'
    BY <1>1, <1>5 DEF Frames, BodyDelivered
  <2> QED
    BY <1>1, <1>2, <1>3, <1>4, <1>5, <2>1, ReadingKeepsFrames
<1>6. CASE msg \notin HasBody
  <2>1. BodyDelivered'
    BY <1>1, <1>3, <1>6, DeliveredAppend
  <2> QED
    BY <1>1, <1>2, <1>3, <1>4, <1>6, <2>1, ReadingKeepsFrames
<1> QED
  BY <1>5, <1>6

LEMMA ReadBodyKeepsFrames ==
  ASSUME ReadChain, Frames, NEW e \in Ends, ReadBody(e)
  PROVE  Frames'
<1> DEFINE temporary == [m_msgTemporaryIn[e] EXCEPT !.body = Head(net[e]).val]
<1>1. /\ reading[e] # << >> /\ Head(reading[e]) = [kind |-> "body", live |-> TRUE]
      /\ net[e] # << >> /\ Head(net[e]).kind = "body"
      /\ net' = [net EXCEPT ![e] = Tail(@)]
      /\ m_msgTemporaryIn' = [m_msgTemporaryIn EXCEPT ![e] = temporary]
      /\ ReadNext(e, << Op(e, "hdr") >>)
      /\ m_qMessagesIn' = [m_qMessagesIn EXCEPT ![e] = Append(@, temporary)]
      /\ UNCHANGED <<m_socket, broken, link, advWriting, outbound>>
  BY DEF ReadBody, ReadCompletes, AddToIncomingMessageQueue, handshake
<1>2. ~Reads(e, "adv") /\ First(e) = m_msgTemporaryIn[e].header /\ First(e) \in HasBody
  BY <1>1 DEF Reads, First, Frames
<1>3. /\ temporary \in Temporaries
      /\ temporary.header = First(e) /\ temporary.body = Head(net[e]).val
  <2>1. Head(net[e]) \in ChunksTo("client") \cup ChunksTo("server")
    BY <1>1, TakeChunk
  <2>2. Head(net[e]).val \in Messages
    BY <1>1, <2>1, ChunkInverts, BothEnds
  <2> QED
    BY <1>2, <2>2 DEF ReadChain, InboundTyped, Temporaries
<1> HIDE DEF temporary
<1>4. ASSUME Fits(Head(net[e]), First(e))
      PROVE  After(Head(net[e])) = None /\ BodyDelivered'
  <2>1. Head(net[e]).val = First(e)
    BY <1>2, <1>4, NoneIsNoMessage DEF Fits, Chunk
  <2>2. BodyDelivered'
    BY <1>1, <1>3, <2>1, DeliveredAppend
  <2> QED
    BY <1>1, <2>2 DEF After
<1> QED
  BY <1>1, <1>2, <1>3, <1>4, ReadingKeepsFrames
-----------------------------------------------------------------------------
(* Writing messages.                                                       *)

(* A writer sends what is due of it, or nothing.                           *)
LEMMA SendingKeepsFrames ==
  ASSUME ReadChain, Frames, NEW e \in Ends,
         \/ UNCHANGED net /\ (Sending(e) => BodyDue(e)' = BodyDue(e))
         \/ \E chunk \in ChunksTo(Peer(e)) :
              /\ chunk.kind # "adv" /\ Transmit(e, chunk)
              /\ Fits(chunk, BodyDue(e))
              /\ Sending(e) => BodyDue(e)' = After(chunk),
         ~Connected(e) => BodyDue(e)' \in {BodyDue(e), None},
         BodyDue(Peer(e))' = BodyDue(Peer(e)),
         UNCHANGED <<m_socket, broken, link, advWriting, inbound>>
  PROVE  Frames'
<1> USE DEF link, inbound, received
<1>1. \A d \in Ends : /\ Listening(d)' <=> Listening(d)
                      /\ First(d)' = First(d)
                      /\ Awaits(d)' <=> Awaits(d)
                      /\ Sending(d)' <=> Sending(d)
                      /\ Reads(d, "body")' <=> Reads(d, "body")
  BY DEF Listening, First, Awaits, Reads, Sending, Connected
<1>2. ASSUME UNCHANGED net, Sending(e) => BodyDue(e)' = BodyDue(e)
      PROVE  \A d \in Ends : FrameTo(d)'
  <2>1. ASSUME NEW d \in Ends PROVE FrameTo(d)'
    <3>1. CASE d = e
      BY <1>1, <1>2, <3>1, FrameKept, BothEnds DEF Frames
    <3>2. CASE d = Peer(e)
      BY <1>1, <1>2, <3>2, FrameKept, BothEnds DEF Frames
    <3> QED
      BY <3>1, <3>2, BothEnds
  <2> QED
    BY <2>1
<1>3. ASSUME NEW chunk \in ChunksTo(Peer(e)), chunk.kind # "adv", Transmit(e, chunk),
             Fits(chunk, BodyDue(e)), Sending(e) => BodyDue(e)' = After(chunk)
      PROVE  \A d \in Ends : FrameTo(d)'
  <2>1. /\ net'[e] = net[e]
        /\ net'[Peer(e)] = IF Sending(e) THEN Append(net[Peer(e)], chunk) ELSE net[Peer(e)]
    BY <1>3, BothEnds DEF Transmit, Sending, ReadChain, InboundTyped
  <2>2. FrameTo(e)'
    BY <1>1, <2>1, FrameKept, BothEnds DEF Frames
  <2>3. FrameTo(Peer(e))'
    <3>1. CASE ~Sending(e)
      BY <1>1, <2>1, <3>1, FrameKept, BothEnds DEF Frames
    <3>2. CASE Sending(e)
      <4> DEFINE All == ChunksTo("client") \cup ChunksTo("server")
      <4>1. chunk \in All /\ net[Peer(e)] \in Seq(All)
        BY BothEnds DEF ReadChain, InboundTyped
      <4> HIDE DEF All
      <4> QED
        BY <1>1, <1>3, <2>1, <3>2, <4>1, FrameGrows, BothEnds DEF Frames
    <3> QED
      BY <3>1, <3>2
  <2> QED
    BY <2>2, <2>3, BothEnds
<1>4. \A d \in Ends : FrameTo(d)'
  BY <1>2, <1>3
<1>5. \A d \in Ends : Reads(d, "body")' => m_msgTemporaryIn'[d].header \in HasBody
  BY <1>1 DEF Frames
<1>6. BodyDelivered'
  BY DEF Frames, BodyDelivered
<1>7. ~established' => BodyDue("client")' = None
  <2>1. ~established => BodyDue("client") = None /\ ~Connected("client")
    BY DEF Frames, ReadChain, OneReader
  <2> QED
    BY <2>1, BothEnds
<1> QED
  BY <1>4, <1>5, <1>6, <1>7 DEF Frames

(* The header of a message is given to an outstanding write, of a socket   *)
(* that had no body due.                                                   *)
LEMMA HeaderKeepsFrames ==
  ASSUME ReadChain, WriteChain, Frames, NEW e \in Ends, NEW queue \in Seq(Messages), queue # << >>,
         BodyDue(e) = None,
         writing' = [writing EXCEPT ![e] = << Op(e, "hdr") >>],
         m_qMessagesOut' = [m_qMessagesOut EXCEPT ![e] = queue],
         Transmit(e, Chunk("hdr", Head(queue))),
         UNCHANGED <<m_socket, broken, link, advWriting, inbound>>
  PROVE  Frames'
<1> DEFINE msg == Head(queue)
           chunk == Chunk("hdr", msg)
           op == << Op(e, "hdr") >>
<1>1. msg \in Messages
  BY HeadTailProperties
<1>2. chunk \in ChunksTo(Peer(e)) /\ chunk.kind = "hdr" /\ chunk.val = msg
  BY <1>1, ChunkTyped, BothEnds
<1>3. /\ op # << >>
      /\ IF Connected(e) THEN Head(op) = [kind |-> "hdr", live |-> TRUE]
                         ELSE Head(op) # [kind |-> "hdr", live |-> TRUE]
  <2>1. Head(op) = Op(e, "hdr") /\ op # << >>
    OBVIOUS
  <2>2. IF Connected(e) THEN Op(e, "hdr") = [kind |-> "hdr", live |-> TRUE]
                        ELSE Op(e, "hdr").live = FALSE
    BY DEF Op, Connected
  <2>3. [kind |-> "hdr", live |-> TRUE].live = TRUE
    OBVIOUS
  <2> HIDE DEF op
  <2> QED
    BY <2>1, <2>2, <2>3
<1>4. Transmit(e, chunk)
  OBVIOUS
<1> HIDE DEF chunk, op
<1>5. /\ writing'[e] = op /\ m_qMessagesOut'[e] = queue
      /\ writing'[Peer(e)] = writing[Peer(e)]
      /\ m_qMessagesOut'[Peer(e)] = m_qMessagesOut[Peer(e)]
  BY BothEnds DEF WriteChain, OutboundTyped, op
<1>6. BodyDue(e)' = IF Connected(e) /\ msg \in HasBody THEN msg ELSE None
  <2>1. CASE Connected(e)
    <3>1. /\ writing'[e] # << >> /\ Head(writing'[e]) = [kind |-> "hdr", live |-> TRUE]
          /\ Head(m_qMessagesOut'[e]) = msg
      BY <1>3, <1>5, <2>1
    <3> HIDE DEF msg
    <3> QED
      BY <2>1, <3>1 DEF BodyDue
  <2>2. CASE ~Connected(e)
    BY <1>3, <1>5, <2>2 DEF BodyDue
  <2> QED
    BY <2>1, <2>2
<1>7. BodyDue(Peer(e))' = BodyDue(Peer(e))
  BY <1>5 DEF BodyDue
<1>8. Fits(chunk, BodyDue(e)) /\ (Sending(e) => BodyDue(e)' = After(chunk))
  BY <1>2, <1>6 DEF Fits, After, Sending
<1> QED
  BY <1>2, <1>4, <1>6, <1>7, <1>8, SendingKeepsFrames

LEMMA PostedSendKeepsFrames ==
  ASSUME ReadChain, WriteChain, Frames, NEW e \in Ends, PostedSend(e)
  PROVE  Frames'
<1> DEFINE msg == Head(posted[e])
           queue == m_qMessagesOut[e]
<1>1. /\ posted[e] # << >> /\ msg # CloseOp
      /\ m_qMessagesOut' = [m_qMessagesOut EXCEPT ![e] = Append(queue, msg)]
      /\ queue # << >> => UNCHANGED <<writing, net>>
      /\ queue = << >> => /\ writing' = [writing EXCEPT ![e] = Append(@, Op(e, "hdr"))]
                          /\ Transmit(e, Chunk("hdr", msg))
      /\ UNCHANGED <<m_socket, broken, link, advWriting, inbound>>
  BY DEF PostedSend, QueueToSend, handshake
<1>2. queue \in Seq(Messages) /\ posted[e] \in Seq(Messages \cup {CloseOp})
  BY DEF WriteChain, OutboundTyped
<1>3. msg \in Messages
  BY <1>1, <1>2, HeadTailProperties
<1> HIDE DEF msg
<1>4. Append(queue, msg) \in Seq(Messages) /\ Append(queue, msg) # << >>
      /\ (queue # << >> => Head(Append(queue, msg)) = Head(queue))
  BY <1>2, <1>3, AppendKeeps
<1>5. CASE queue # << >>
  <2>1. /\ m_qMessagesOut'[e] = Append(queue, msg)
        /\ m_qMessagesOut'[Peer(e)] = m_qMessagesOut[Peer(e)]
    BY <1>1, BothEnds DEF WriteChain, OutboundTyped
  <2>2. BodyDue(e)' = BodyDue(e) /\ BodyDue(Peer(e))' = BodyDue(Peer(e))
    BY <1>1, <1>4, <1>5, <2>1 DEF BodyDue
  <2> QED
    BY <1>1, <1>5, <2>2, SendingKeepsFrames
<1>6. CASE queue = << >>
  <2>1. writing[e] = << >>
    BY <1>6 DEF WriteChain, OneMessageWrite
  <2>2. writing' = [writing EXCEPT ![e] = << Op(e, "hdr") >>]
    BY <1>1, <1>6, <2>1
  <2>3. BodyDue(e) = None
    BY <2>1 DEF BodyDue
  <2>4. Head(Append(queue, msg)) = msg
    BY <1>6
  <2> HIDE DEF queue
  <2> QED
    BY <1>1, <1>4, <1>6, <2>2, <2>3, <2>4, HeaderKeepsFrames
<1> QED
  BY <1>5, <1>6

(* The outstanding write of a message is replaced.                         *)
LEMMA WriteNextReplaces ==
  ASSUME WriteChain, NEW e \in Ends, writing[e] # << >>,
         NEW ops \in Seq(Ops({"hdr", "body"})), WriteNext(e, ops)
  PROVE  writing' = [writing EXCEPT ![e] = ops]
<1>1. writing[e] \in Seq(Ops({"hdr", "body"})) /\ Len(writing[e]) <= 1
  BY DEF WriteChain, OutboundTyped, OneMessageWrite
<1>2. Tail(writing[e]) = << >>
  BY <1>1, TailOfOne
<1> QED
  BY <1>2, ConcatEmptySeq DEF WriteNext

LEMMA PopAndWriteNextKeepsFrames ==
  ASSUME ReadChain, WriteChain, Frames, NEW e \in Ends, writing[e] # << >>, BodyDue(e) = None,
         PopAndWriteNext(e), UNCHANGED <<m_socket, broken, link, advWriting, inbound>>
  PROVE  Frames'
<1> DEFINE queue == Tail(m_qMessagesOut[e])
<1>1. queue \in Seq(Messages)
  BY HeadTailProperties DEF WriteChain, OutboundTyped, OneMessageWrite
<1>2. m_qMessagesOut' = [m_qMessagesOut EXCEPT ![e] = queue]
  BY DEF PopAndWriteNext
<1>3. CASE queue # << >>
  <2> DEFINE ops == << Op(e, "hdr") >>
  <2>1. ops \in Seq(Ops({"hdr", "body"}))
    BY OneOp
  <2>2. WriteNext(e, ops) /\ Transmit(e, Chunk("hdr", Head(queue)))
    BY <1>3 DEF PopAndWriteNext
  <2> HIDE DEF ops
  <2>3. writing' = [writing EXCEPT ![e] = ops]
    BY <2>1, <2>2, WriteNextReplaces
  <2> HIDE DEF queue
  <2> QED
    BY <1>1, <1>2, <1>3, <2>2, <2>3, HeaderKeepsFrames DEF ops
<1>4. CASE queue = << >>
  <2>1. writing' = [writing EXCEPT ![e] = << >>] /\ UNCHANGED net
    BY <1>4, EmptySeq, WriteNextReplaces DEF PopAndWriteNext
  <2>2. /\ writing'[e] = << >> /\ writing'[Peer(e)] = writing[Peer(e)]
        /\ m_qMessagesOut'[Peer(e)] = m_qMessagesOut[Peer(e)]
    BY <1>2, <2>1, BothEnds DEF WriteChain, OutboundTyped
  <2>3. BodyDue(e)' = None /\ BodyDue(Peer(e))' = BodyDue(Peer(e))
    BY <2>2 DEF BodyDue
  <2> QED
    BY <2>1, <2>3, SendingKeepsFrames
<1> QED
  BY <1>3, <1>4

LEMMA WriteHeaderKeepsFrames ==
  ASSUME ReadChain, WriteChain, Frames, NEW e \in Ends, WriteHeader(e)
  PROVE  Frames'
<1> DEFINE msg == Head(m_qMessagesOut[e])
<1>1. /\ writing[e] # << >> /\ Head(writing[e]) = [kind |-> "hdr", live |-> TRUE]
      /\ UNCHANGED <<m_socket, broken, link, advWriting, inbound>>
  BY DEF WriteHeader, WriteCompletes, handshake
<1>2. msg \in Messages
  BY <1>1, HeadTailProperties DEF WriteChain, OutboundTyped, OneMessageWrite
<1>3. BodyDue(e) = IF msg \in HasBody THEN msg ELSE None
  BY <1>1 DEF BodyDue
<1>4. CASE msg \notin HasBody
  BY <1>1, <1>3, <1>4, PopAndWriteNextKeepsFrames DEF WriteHeader
<1>5. CASE msg \in HasBody
  <2> DEFINE ops == << Op(e, "body") >>
             chunk == Chunk("body", msg)
  <2>1. ops \in Seq(Ops({"hdr", "body"})) /\ ops # << >>
    BY OneOp
  <2>2. Head(ops).kind = "body"
    BY DEF Op
  <2>3. WriteNext(e, ops) /\ Transmit(e, chunk) /\ UNCHANGED m_qMessagesOut
    BY <1>5 DEF WriteHeader
  <2>4. chunk \in ChunksTo(Peer(e)) /\ chunk.kind = "body"
    BY <1>2, ChunkTyped, BothEnds
  <2>5. Fits(chunk, BodyDue(e)) /\ After(chunk) = None
    BY <1>2, <1>3, <1>5, <2>4, NoneIsNoMessage DEF Fits, After
  <2> HIDE DEF ops, chunk, msg
  <2>6. writing' = [writing EXCEPT ![e] = ops]
    BY <1>1, <2>1, <2>3, WriteNextReplaces
  <2>7. writing'[e] = ops /\ writing'[Peer(e)] = writing[Peer(e)]
    BY <2>6, BothEnds DEF WriteChain, OutboundTyped
  <2>8. BodyDue(e)' = None /\ BodyDue(Peer(e))' = BodyDue(Peer(e))
    BY <2>1, <2>2, <2>3, <2>7 DEF BodyDue
  <2> QED
    BY <1>1, <2>3, <2>4, <2>5, <2>8, SendingKeepsFrames
<1> QED
  BY <1>4, <1>5

LEMMA WriteBodyKeepsFrames ==
  ASSUME ReadChain, WriteChain, Frames, NEW e \in Ends, WriteBody(e)
  PROVE  Frames'
<1>1. /\ writing[e] # << >> /\ Head(writing[e]) = [kind |-> "body", live |-> TRUE]
      /\ PopAndWriteNext(e)
      /\ UNCHANGED <<m_socket, broken, link, advWriting, inbound>>
  BY DEF WriteBody, WriteCompletes, handshake
<1>2. BodyDue(e) = None
  BY <1>1 DEF BodyDue
<1> QED
  BY <1>1, <1>2, PopAndWriteNextKeepsFrames
-----------------------------------------------------------------------------
LEMMA ProgramKeepsFrames ==
  ASSUME Frames, \/ \E e \in Ends : Program(e)
                 \/ NetworkFails \/ RunReturns \/ UNCHANGED vars
  PROVE  Frames'
<1>1. /\ UNCHANGED <<m_socket, net, connecting, accepted, established, advWriting, inbound, outbound>>
      /\ broken => broken'
  BY DEF Program, Send, Disconnect, NetworkFails, RunReturns, vars, wire, link, handshake
<1> QED
  BY <1>1, QuietKeepsFrames

(* The invariant behind the theorems below: whatever is interleaved, what  *)
(* is on the stream and what each writer still owes are whole frames.      *)
THEOREM AlwaysFrames == Spec => []Frames
<1>1. ASSUME ReadChain, WriteChain, Frames, NEW e \in Ends, Handler(e)
      PROVE  Frames'
  BY <1>1, WriteValidationKeepsFrames, ClosersKeepFrames, ReadHeaderKeepsFrames,
     ReadBodyKeepsFrames, PostedSendKeepsFrames, WriteHeaderKeepsFrames,
     WriteBodyKeepsFrames DEF Handler
<1>2. WriteChain => OutboundTyped
  BY DEF WriteChain
<1>3. Frames /\ ReadChain /\ WriteChain /\ [Next]_vars => Frames'
  BY <1>1, <1>2, BothEnds, ProgramKeepsFrames, ConnectToServerKeepsFrames,
     TcpConnectKeepsFrames, ConnectCompletesKeepsFrames, ReadValidationClientKeepsFrames,
     AcceptKeepsFrames, ReadValidationServerKeepsFrames DEF Next, ClientThread, ServerThread
<1> QED
  BY InitFrames, AlwaysReadChain, AlwaysWriteChain, <1>3, PTL DEF Spec

(* What a message read finds first on the stream is what it reads: the     *)
(* validation values do not come between, and the writers of one end never *)
(* put two messages into each other.                                       *)
THEOREM AlwaysFramed == Spec => []Framed
<1>1. ASSUME ReadChain, Frames, NEW e \in Ends, reading[e] # << >>, net[e] # << >>,
             Head(reading[e]).kind \in {"hdr", "body"}
      PROVE  /\ Head(net[e]).kind = Head(reading[e]).kind
             /\ Head(reading[e]).kind = "body" =>
                  Head(net[e]).val = m_msgTemporaryIn[e].header
  <2>1. ~Awaits(e) /\ Listening(e)
    BY <1>1, BothEnds DEF Awaits, Listening, Reads, ReadChain, OneReader, NothingBeforeAccept
  <2>2. Aligned(net[e], First(e))
    BY <1>1, <2>1 DEF Frames, FrameTo, AdvFirst, Rest
  <2>3. net[e] \in Seq(ChunksTo("client") \cup ChunksTo("server"))
    BY <1>1 DEF ReadChain, InboundTyped
  <2> DEFINE s == net[e]
             first == First(e)
  <2>4. s # << >> /\ s \in Seq(ChunksTo("client") \cup ChunksTo("server")) /\ Aligned(s, first)
    BY <1>1, <2>2, <2>3
  <2> HIDE DEF s, first
  <2>5. Fits(Head(s), first)
    BY <2>4, AlignedTail
  <2>6. CASE Head(reading[e]).kind = "hdr"
    <3>1. First(e) = None
      BY <2>6 DEF First, Reads
    <3> QED
      BY <2>5, <2>6, <3>1 DEF Fits, s, first
  <2>7. CASE Head(reading[e]).kind = "body"
    <3>1. First(e) = m_msgTemporaryIn[e].header /\ First(e) # None
      BY <1>1, <2>7, NoneIsNoMessage DEF First, Reads, Frames
    <3> QED
      BY <2>5, <2>7, <3>1 DEF Fits, Chunk, s, first
  <2> QED
    BY <1>1, <2>6, <2>7
<1>2. ReadChain /\ Frames => Framed
  BY <1>1 DEF Framed
<1> QED
  BY AlwaysReadChain, AlwaysFrames, <1>2, PTL

(* Every message that the program is given, of any length of conversation, *)
(* has the body that its own header announced.                             *)
THEOREM AlwaysBodyDelivered == Spec => []BodyDelivered
<1>1. Frames => BodyDelivered
  BY DEF Frames
<1> QED
  BY AlwaysFrames, <1>1, PTL
-----------------------------------------------------------------------------
(* The channels.                                                           *)

(* R says how far each element takes a count: the elements of s take it    *)
(* from lo to hi.                                                          *)
Counts(s, R, lo, hi) == \E at \in [1 .. Len(s) + 1 -> Nat] :
  /\ at[1] = lo /\ at[Len(s) + 1] = hi
  /\ \A i \in 1 .. Len(s) : <<s[i], at[i], at[i + 1]>> \in R

(* The count is that of messages of the history S.  A queued message and a *)
(* lambda of Send stand for the next one, that of Disconnect for none.     *)
Lambdas(S) == {r \in (Messages \cup {CloseOp}) \X Nat \X Nat :
  IF r[1] = CloseOp THEN r[3] = r[2]
  ELSE r[2] < Len(S) /\ r[1] = S[r[2] + 1] /\ r[3] = r[2] + 1}

(* So does a chunk, which completes it unless its body is still to come.   *)
AllChunks == ChunksTo("client") \cup ChunksTo("server")
Contents(S) == {r \in AllChunks \X Nat \X Nat :
  IF r[1].kind = "adv" THEN r[3] = r[2]
  ELSE /\ r[2] < Len(S) /\ r[1].val = S[r[2] + 1]
       /\ r[3] = IF After(r[1]) = None THEN r[2] + 1 ELSE r[2]}

(* p messages were written and popped, q reached the queue, and the chunks *)
(* of w were handed to the stream.                                         *)
Outbox(e, p, q) ==
  /\ Counts(m_qMessagesOut[e], Lambdas(sent[e]), p, q)
  /\ Counts(posted[e], Lambdas(sent[e]), q, Len(sent[e]))

Stream(e, w) == Listening(Peer(e)) =>
  Counts(net[Peer(e)], Contents(sent[e]), Len(m_qMessagesIn[Peer(e)]), w)

(* The front message is on the stream, to its last chunk.                  *)
LiveWrite(e) == writing[e] # << >> /\ Head(writing[e]).live = TRUE
Written(e) == IF LiveWrite(e) /\ BodyDue(e) = None THEN 1 ELSE 0

Unstarted(e) == IF e = "client" THEN ~established ELSE ~accepted

Numbered(e, p, q, w) ==
  /\ Outbox(e, p, q)
  /\ Stream(e, w)
  /\ Sending(e) => w = p + Written(e)
  /\ Unstarted(e) => p = 0 /\ w = 0

Numbering ==
  /\ \A e \in Ends : \E p, q, w \in Nat : Numbered(e, p, q, w)
  /\ \A e \in Ends : Unstarted(e) => ~LiveWrite(e)
-----------------------------------------------------------------------------
(* Counting along a sequence.                                              *)

LEMMA CountsEmpty ==
  ASSUME NEW R, NEW n \in Nat
  PROVE  Counts(<< >>, R, n, n)
<1> DEFINE at == [i \in 1 .. 0 + 1 |-> n]
<1>1. at \in [1 .. 0 + 1 -> Nat] /\ at[1] = n /\ at[0 + 1] = n
  OBVIOUS
<1>2. Len(<< >>) = 0
  OBVIOUS
<1> HIDE DEF at
<1> QED
  BY <1>1, <1>2 DEF Counts

LEMMA CountsNothing ==
  ASSUME NEW R, NEW lo, NEW hi, Counts(<< >>, R, lo, hi)
  PROVE  lo = hi
<1>1. Len(<< >>) + 1 = 1
  OBVIOUS
<1> QED
  BY <1>1 DEF Counts

LEMMA CountsAppend ==
  ASSUME NEW S, NEW s \in Seq(S), NEW x \in S, NEW R, NEW lo, NEW mid, NEW hi \in Nat,
         Counts(s, R, lo, mid), <<x, mid, hi>> \in R
  PROVE  Counts(Append(s, x), R, lo, hi)
<1> DEFINE t == Append(s, x)
           n == Len(s)
<1>1. /\ t \in Seq(S) /\ Len(t) = n + 1 /\ n \in Nat
      /\ \A i \in 1 .. n : t[i] = s[i]
      /\ t[n + 1] = x
  BY AppendProperties, LenProperties
<1> HIDE DEF t
<1>2. PICK at \in [1 .. n + 1 -> Nat] :
        /\ at[1] = lo /\ at[n + 1] = mid
        /\ \A i \in 1 .. n : <<s[i], at[i], at[i + 1]>> \in R
  BY DEF Counts
<1> HIDE DEF n
<1> DEFINE to == [i \in 1 .. (n + 1) + 1 |-> IF i = n + 2 THEN hi ELSE at[i]]
<1>3. \A i \in 1 .. (n + 1) + 1 : i # n + 2 => i \in 1 .. n + 1
  BY <1>1
<1>4. to \in [1 .. (n + 1) + 1 -> Nat]
  BY <1>3
<1>5. to[1] = lo /\ to[(n + 1) + 1] = hi /\ to[n + 1] = mid
  BY <1>1, <1>2
<1>6. ASSUME NEW i \in 1 .. n + 1
      PROVE  <<t[i], to[i], to[i + 1]>> \in R
  <2>1. CASE i = n + 1
    <3>1. to[i] = mid /\ to[i + 1] = hi /\ t[i] = x
      BY <1>1, <1>5, <2>1
    <3> HIDE DEF to
    <3> QED
      BY <3>1
  <2>2. CASE i # n + 1
    <3>1. i \in 1 .. n
      BY <1>1, <2>2
    <3>2. to[i] = at[i] /\ to[i + 1] = at[i + 1]
      BY <1>1, <3>1
    <3> HIDE DEF to
    <3> QED
      BY <1>1, <1>2, <3>1, <3>2
  <2> QED
    BY <2>1, <2>2
<1> HIDE DEF to
<1>7. Counts(t, R, lo, hi)
  BY <1>1, <1>4, <1>5, <1>6 DEF Counts
<1> QED
  BY <1>7 DEF t

LEMMA CountsTail ==
  ASSUME NEW S, NEW s \in Seq(S), s # << >>, NEW R, NEW lo, NEW hi,
         Counts(s, R, lo, hi)
  PROVE  \E mid \in Nat : <<Head(s), lo, mid>> \in R /\ Counts(Tail(s), R, mid, hi)
<1> DEFINE t == Tail(s)
           n == Len(t)
<1>1. /\ t \in Seq(S) /\ n = Len(s) - 1 /\ n \in Nat /\ Len(s) \in Nat
      /\ \A i \in 1 .. n : t[i] = s[i + 1]
      /\ Head(s) = s[1]
  BY HeadTailProperties, EmptySeq, LenProperties
<1>2. Len(s) = n + 1
  BY <1>1
<1> HIDE DEF t
<1>3. PICK at \in [1 .. (n + 1) + 1 -> Nat] :
        /\ at[1] = lo /\ at[(n + 1) + 1] = hi
        /\ \A i \in 1 .. n + 1 : <<s[i], at[i], at[i + 1]>> \in R
  BY <1>2 DEF Counts
<1> HIDE DEF n
<1> DEFINE to == [i \in 1 .. n + 1 |-> at[i + 1]]
<1>4. to \in [1 .. n + 1 -> Nat] /\ to[1] = at[2] /\ to[n + 1] = hi /\ at[2] \in Nat
  BY <1>1, <1>3
<1>5. ASSUME NEW i \in 1 .. n
      PROVE  <<t[i], to[i], to[i + 1]>> \in R
  <2>1. i + 1 \in 1 .. n + 1 /\ i \in 1 .. n + 1
    BY <1>1
  <2>2. to[i] = at[i + 1] /\ to[i + 1] = at[(i + 1) + 1] /\ t[i] = s[i + 1]
    BY <1>1, <2>1
  <2> HIDE DEF to
  <2> QED
    BY <1>3, <2>1, <2>2
<1>6. <<Head(s), lo, at[2]>> \in R
  <2>1. 1 \in 1 .. n + 1 /\ 1 + 1 = 2
    BY <1>1
  <2> QED
    BY <1>1, <1>3, <2>1
<1> HIDE DEF to
<1>7. Counts(t, R, at[2], hi)
  BY <1>4, <1>5 DEF Counts, n
<1> QED
  BY <1>4, <1>6, <1>7 DEF t

LEMMA CountsMore ==
  ASSUME NEW s, NEW R, NEW Q, R \subseteq Q, NEW lo, NEW hi, Counts(s, R, lo, hi)
  PROVE  Counts(s, Q, lo, hi)
BY DEF Counts
-----------------------------------------------------------------------------
(* The history grows: what stood for a message of it still does.           *)

LEMMA LongerHistory ==
  ASSUME NEW S \in Seq(Messages), NEW msg \in Messages
  PROVE  /\ Lambdas(S) \subseteq Lambdas(Append(S, msg))
         /\ Contents(S) \subseteq Contents(Append(S, msg))
         /\ <<msg, Len(S), Len(S) + 1>> \in Lambdas(Append(S, msg))
<1> DEFINE T == Append(S, msg)
<1>1. /\ Len(T) = Len(S) + 1 /\ Len(S) \in Nat
      /\ \A i \in 1 .. Len(S) : T[i] = S[i]
      /\ T[Len(S) + 1] = msg
  BY AppendProperties, LenProperties
<1> HIDE DEF T
<1>2. \A n \in Nat : n < Len(S) => n < Len(T) /\ S[n + 1] = T[n + 1]
  BY <1>1
<1>3. Lambdas(S) \subseteq Lambdas(T)
  BY <1>2 DEF Lambdas
<1>4. Contents(S) \subseteq Contents(T)
  BY <1>2 DEF Contents
<1>5. <<msg, Len(S), Len(S) + 1>> \in Lambdas(T)
  BY <1>1, SessionAssumption DEF Lambdas
<1> QED
  BY <1>3, <1>4, <1>5 DEF T

LEMMA LambdaMeans ==
  ASSUME NEW S, NEW x, NEW a, NEW b, <<x, a, b>> \in Lambdas(S)
  PROVE  /\ a \in Nat /\ b \in Nat
         /\ x = CloseOp => b = a
         /\ x # CloseOp => a < Len(S) /\ x = S[a + 1] /\ b = a + 1
BY DEF Lambdas

LEMMA ContentMeans ==
  ASSUME NEW S, NEW x, NEW a, NEW b, <<x, a, b>> \in Contents(S)
  PROVE  /\ x \in AllChunks /\ a \in Nat /\ b \in Nat
         /\ x.kind = "adv" => b = a
         /\ x.kind # "adv" => /\ a < Len(S) /\ x.val = S[a + 1]
                             /\ b = IF After(x) = None THEN a + 1 ELSE a
BY DEF Contents
-----------------------------------------------------------------------------
(* Parts of the invariant after a step.                                    *)

LEMMA PrimedNumbers ==
  ASSUME NEW e \in Ends, NEW p \in Nat, NEW q \in Nat, NEW w \in Nat
  PROVE  /\ Outbox(e, p, q)' <=>
              /\ Counts(m_qMessagesOut'[e], Lambdas(sent'[e]), p, q)
              /\ Counts(posted'[e], Lambdas(sent'[e]), q, Len(sent'[e]))
         /\ Stream(e, w)' <=>
              (Listening(Peer(e))' =>
                 Counts(net'[Peer(e)], Contents(sent'[e]), Len(m_qMessagesIn'[Peer(e)]), w))
<1>1. Outbox(e, p, q)' <=>
        /\ Counts(m_qMessagesOut'[e], Lambdas(sent'[e]), p, q)
        /\ Counts(posted'[e], Lambdas(sent'[e]), q, Len(sent'[e]))
  BY DEF Outbox, Counts, Lambdas
<1>2. Stream(e, w)' <=>
        (Listening(Peer(e))' =>
           Counts(net'[Peer(e)], Contents(sent'[e]), Len(m_qMessagesIn'[Peer(e)]), w))
  BY DEF Stream, Counts, Contents, AllChunks, ChunksTo, ValuesTo, After
<1> QED
  BY <1>1, <1>2

LEMMA ChannelTyped ==
  ASSUME ReadChain, WriteChain, NEW e \in Ends
  PROVE  /\ sent[e] \in Seq(Messages) /\ net[e] \in Seq(AllChunks)
         /\ posted[e] \in Seq(Messages \cup {CloseOp})
         /\ m_qMessagesOut[e] \in Seq(Messages) /\ m_qMessagesIn[e] \in Seq(Temporaries)
         /\ writing[e] \in Seq(Ops({"hdr", "body"})) /\ reading[e] \in Seq(Ops(Kinds))
         /\ \A f \in {sent, net, posted, writing, reading, m_qMessagesOut, m_qMessagesIn} :
              f = [d \in Ends |-> f[d]]
BY DEF ReadChain, InboundTyped, WriteChain, OutboundTyped, AllChunks

(* A direction that sends has started.                                     *)
LEMMA SendingStarted ==
  ASSUME ReadChain, NEW e \in Ends, Sending(e)
  PROVE  ~Unstarted(e)
BY BothEnds DEF ReadChain, OneReader, NothingBeforeAccept, Sending, Connected, Unstarted

LEMMA InitNumbering == Init => Numbering
<1> SUFFICES ASSUME Init PROVE Numbering
  OBVIOUS
<1>1. ASSUME NEW e \in Ends PROVE Numbered(e, 0, 0, 0) /\ ~LiveWrite(e)
  <2>1. /\ m_qMessagesOut[e] = << >> /\ posted[e] = << >> /\ sent[e] = << >>
        /\ net[Peer(e)] = << >> /\ m_qMessagesIn[Peer(e)] = << >> /\ writing[e] = << >>
        /\ ~Sending(e)
    BY BothEnds DEF Init, Sending, Connected
  <2>2. Len(<< >>) = 0 /\ 0 \in Nat
    OBVIOUS
  <2>3. Counts(<< >>, Lambdas(<< >>), 0, 0) /\ Counts(<< >>, Contents(<< >>), 0, 0)
    BY <2>2, CountsEmpty
  <2>4. Outbox(e, 0, 0)
    BY <2>1, <2>2, <2>3 DEF Outbox
  <2>5. Stream(e, 0)
    BY <2>1, <2>2, <2>3 DEF Stream
  <2> QED
    BY <2>1, <2>4, <2>5 DEF Numbered, LiveWrite
<1>2. 0 \in Nat
  OBVIOUS
<1> QED
  BY <1>1, <1>2 DEF Numbering

(* A direction that a step leaves alone, but for its socket.               *)
LEMMA DirectionKept ==
  ASSUME NEW e \in Ends, NEW p \in Nat, NEW q \in Nat, NEW w \in Nat, Numbered(e, p, q, w),
         posted'[e] = posted[e], m_qMessagesOut'[e] = m_qMessagesOut[e], sent'[e] = sent[e],
         net'[Peer(e)] = net[Peer(e)], m_qMessagesIn'[Peer(e)] = m_qMessagesIn[Peer(e)],
         Listening(Peer(e))' => Listening(Peer(e)), Unstarted(e)' => Unstarted(e),
         Sending(e)' => \/ Sending(e) /\ Written(e)' = Written(e)
                        \/ Unstarted(e) /\ Written(e)' = 0
  PROVE  Numbered(e, p, q, w)'
<1>1. Outbox(e, p, q)'
  BY PrimedNumbers DEF Numbered, Outbox
<1>2. Stream(e, w)'
  BY PrimedNumbers DEF Numbered, Stream
<1>3. Sending(e)' => w = p + Written(e)'
  <2>1. 0 + 0 = 0
    OBVIOUS
  <2> QED
    BY <2>1 DEF Numbered
<1> QED
  BY <1>1, <1>2, <1>3 DEF Numbered

(* No message is posted, sent or read.                                     *)
LEMMA NumberingKept ==
  ASSUME Numbering, UNCHANGED <<posted, m_qMessagesOut, sent, net, m_qMessagesIn>>,
         \A e \in Ends :
           /\ Listening(e)' => Listening(e)
           /\ Unstarted(e)' => Unstarted(e)
           /\ LiveWrite(e)' => LiveWrite(e)
           /\ Sending(e)' => \/ Sending(e) /\ Written(e)' = Written(e)
                             \/ Unstarted(e) /\ Written(e)' = 0
  PROVE  Numbering'
<1>1. ASSUME NEW e \in Ends PROVE \E p, q, w \in Nat : Numbered(e, p, q, w)'
  <2>1. PICK p \in Nat, q \in Nat, w \in Nat : Numbered(e, p, q, w)
    BY DEF Numbering
  <2>2. Numbered(e, p, q, w)'
    BY <2>1, DirectionKept, BothEnds
  <2> QED
    BY <2>2
<1>2. \A e \in Ends : Unstarted(e)' => ~LiveWrite(e)'
  BY DEF Numbering
<1> QED
  BY <1>1, <1>2 DEF Numbering
-----------------------------------------------------------------------------
(* Steps that move no message.                                             *)

LEMMA QuietKeepsNumbering ==
  ASSUME Numbering, NetworkFails \/ RunReturns \/ UNCHANGED vars
  PROVE  Numbering'
<1> USE DEF NetworkFails, RunReturns, vars, wire, link, program, handshake, inbound,
            outbound, received
<1>1. UNCHANGED <<posted, m_qMessagesOut, sent, net, m_qMessagesIn, reading, writing,
                  m_socket, connecting, accepted, established, advWriting>>
      /\ (broken => broken')
  OBVIOUS
<1>2. ASSUME NEW e \in Ends
      PROVE  /\ Listening(e)' => Listening(e)
             /\ Unstarted(e)' => Unstarted(e)
             /\ LiveWrite(e)' => LiveWrite(e)
             /\ Sending(e)' => Sending(e) /\ Written(e)' = Written(e)
  BY <1>1 DEF Listening, Awaits, Reads, Unstarted, LiveWrite, Sending, Connected, Written, BodyDue
<1> QED
  BY <1>1, <1>2, NumberingKept

LEMMA OpeningKeepsNumbering ==
  ASSUME ReadChain, WriteChain, Numbering, ConnectToServer \/ TcpConnect
  PROVE  Numbering'
<1> USE DEF ConnectToServer, TcpConnect, wire, link, program, handshake, inbound, outbound, received
<1>1. /\ UNCHANGED <<posted, m_qMessagesOut, sent, net, m_qMessagesIn, reading, writing,
                     broken, accepted, advWriting>>
      /\ m_socket'["server"] = m_socket["server"] /\ m_socket["client"] \in {"none", "open"}
      /\ connecting \/ m_socket["client"] = "none"
      /\ established => established'
      /\ m_socket'["client"] = "connected" => established'
  BY BothEnds DEF WriteChain, OutboundTyped
<1>2. ~established
  BY <1>1 DEF ReadChain, OneReader
<1>3. ASSUME NEW e \in Ends
      PROVE  /\ Listening(e)' => Listening(e)
             /\ Unstarted(e)' => Unstarted(e)
             /\ LiveWrite(e)' => LiveWrite(e)
             /\ Sending(e)' => \/ Sending(e) /\ Written(e)' = Written(e)
                               \/ Unstarted(e) /\ Written(e)' = 0
  <2>1. Listening(e)' => Listening(e)
    BY <1>1, BothEnds DEF Listening, Awaits, Reads
  <2>2. (Unstarted(e)' => Unstarted(e)) /\ (LiveWrite(e)' => LiveWrite(e))
    BY <1>1 DEF Unstarted, LiveWrite
  <2>3. Written(e)' = Written(e)
    BY <1>1 DEF Written, LiveWrite, BodyDue
  <2>4. CASE e = "client"
    <3>1. Unstarted(e) /\ ~LiveWrite(e)
      BY <1>2, <2>4 DEF Unstarted, Numbering
    <3> QED
      BY <2>1, <2>2, <2>3, <3>1 DEF Written
  <2>5. CASE e = "server"
    BY <1>1, <2>1, <2>2, <2>3, <2>5 DEF Sending, Connected
  <2> QED
    BY <2>4, <2>5, BothEnds
<1> QED
  BY <1>1, <1>3, NumberingKept

LEMMA HandshakeKeepsNumbering ==
  ASSUME ReadChain, Numbering,
         ConnectCompletes \/ \E e \in Ends : WriteValidationCompletes(e)
  PROVE  Numbering'
<1> USE DEF ConnectCompletes, WriteValidationCompletes, WriteValidationThenRead, wire, link,
            program, handshake, inbound, outbound, received
<1>1. UNCHANGED <<posted, m_qMessagesOut, sent, net, m_qMessagesIn, writing, m_socket,
                  broken, accepted, established>>
  OBVIOUS
<1>2. \A d \in Ends : Listening(d)' => Listening(d)
  <2>1. CASE ConnectCompletes
    <3>1. /\ connecting /\ UNCHANGED advWriting /\ reading'["server"] = reading["server"]
      BY <2>1, BothEnds DEF StartRead, ReadChain, InboundTyped
    <3> QED
      BY <1>1, <3>1, BothEnds DEF Listening, Awaits, Reads
  <2>2. ASSUME NEW e \in Ends, WriteValidationCompletes(e)
        PROVE  \A d \in Ends : Listening(d)' => Listening(d)
    <3>1. /\ advWriting[e] = "live" /\ UNCHANGED connecting
          /\ \A d \in Ends : advWriting'[d] = advWriting[d] \/ advWriting'[d] = "idle"
          /\ \A d \in Ends : d # "client" \/ e # "client" => reading'[d] = reading[d]
      BY <2>2 DEF StartRead, ReadChain, InboundTyped
    <3> QED
      BY <1>1, <3>1, BothEnds DEF Listening, Awaits, Reads
  <2> QED
    BY <2>1, <2>2
<1>3. ASSUME NEW e \in Ends
      PROVE  /\ Unstarted(e)' => Unstarted(e)
             /\ LiveWrite(e)' => LiveWrite(e)
             /\ Sending(e)' => Sending(e) /\ Written(e)' = Written(e)
  BY <1>1 DEF Unstarted, LiveWrite, Sending, Connected, Written, BodyDue
<1> QED
  BY <1>1, <1>2, <1>3, NumberingKept

(* Nothing is handed to the stream once it is cut.                         *)
LEMMA FailingKeepsNumbering ==
  ASSUME ReadChain, WriteChain, Numbering, NEW e \in Ends,
         WriteValidationFails(e) \/ ReadError(e) \/ WriteError(e)
  PROVE  Numbering'
<1> USE DEF WriteValidationFails, ReadError, WriteError, wire, link, program, handshake,
            inbound, outbound, received
<1>1. /\ UNCHANGED <<posted, m_qMessagesOut, sent, net, m_qMessagesIn, accepted, established,
                     connecting>>
      /\ Close(e)
  OBVIOUS
<1>2. \A d \in Ends : ~Sending(d)'
  BY <1>1 DEF Close, Sending
<1>3. \A d \in Ends : writing'[d] = writing[d] \/ writing'[d] = << >>
  <2>1. CASE WriteError(e)
    <3>1. << >> \in Seq(Ops({"hdr", "body"})) /\ writing[e] # << >> /\ WriteNext(e, << >>)
      BY <2>1, EmptySeq DEF WriteFails
    <3> QED
      BY <3>1, WriteNextReplaces DEF WriteChain, OutboundTyped
  <2> QED
    BY <2>1
<1>4. \A d \in Ends : reading'[d] = reading[d] \/ reading'[d] = << >>
  <2>1. CASE ReadError(e)
    <3>1. << >> \in Seq(Ops(Kinds)) /\ reading[e] # << >> /\ ReadNext(e, << >>)
      BY <2>1, EmptySeq DEF ReadFails
    <3> QED
      BY <3>1, ReadNextReplaces DEF ReadChain, InboundTyped
  <2> QED
    BY <2>1
<1>5. ASSUME NEW d \in Ends
      PROVE  /\ Listening(d)' => Listening(d)
             /\ Unstarted(d)' => Unstarted(d)
             /\ LiveWrite(d)' => LiveWrite(d)
  <2>1. advWriting'[d] = advWriting[d] \/ advWriting'[d] = "idle"
    BY DEF ReadChain, InboundTyped
  <2>2. m_socket'[d] = m_socket[d] \/ m_socket'[d] = "closed"
    BY <1>1 DEF Close, WriteChain, OutboundTyped
  <2> QED
    BY <1>1, <1>3, <1>4, <2>1, <2>2 DEF Listening, Awaits, Reads, Unstarted, LiveWrite
<1> QED
  BY <1>1, <1>2, <1>5, NumberingKept
-----------------------------------------------------------------------------
(* Posting: the history and the lambdas grow together.                     *)

LEMMA PostedGrows ==
  ASSUME ReadChain, WriteChain, NEW e \in Ends, NEW p \in Nat, NEW q \in Nat,
         Outbox(e, p, q), NEW msg \in Messages,
         sent'[e] = Append(sent[e], msg), posted'[e] = Append(posted[e], msg),
         m_qMessagesOut'[e] = m_qMessagesOut[e]
  PROVE  Outbox(e, p, q)'
<1> DEFINE S == sent[e]
           T == Append(S, msg)
           s == posted[e]
           M == Messages \cup {CloseOp}
<1>1. S \in Seq(Messages) /\ s \in Seq(M) /\ Len(S) \in Nat /\ msg \in M
  BY ChannelTyped, LenProperties
<1>2. /\ Counts(m_qMessagesOut[e], Lambdas(S), p, q) /\ Counts(s, Lambdas(S), q, Len(S))
  BY DEF Outbox
<1>3. sent'[e] = T /\ posted'[e] = Append(s, msg)
  OBVIOUS
<1> HIDE DEF S, s, M
<1>4. Lambdas(S) \subseteq Lambdas(T) /\ <<msg, Len(S), Len(S) + 1>> \in Lambdas(T)
  BY <1>1, LongerHistory
<1>5. Len(T) = Len(S) + 1
  BY <1>1, AppendProperties
<1> HIDE DEF T
<1>6. Counts(m_qMessagesOut[e], Lambdas(T), p, q) /\ Counts(s, Lambdas(T), q, Len(S))
  BY <1>2, <1>4, CountsMore
<1>7. Len(S) + 1 \in Nat
  BY <1>1
<1>8. Counts(Append(s, msg), Lambdas(T), q, Len(S) + 1)
  BY <1>1, <1>4, <1>6, <1>7, CountsAppend
<1> QED
  BY <1>3, <1>5, <1>6, <1>8, PrimedNumbers

(* What is on the stream does not depend on what is sent later.            *)
LEMMA StreamOfLongerHistory ==
  ASSUME ReadChain, WriteChain, NEW e \in Ends, NEW w \in Nat, Stream(e, w), NEW msg \in Messages,
         sent'[e] = Append(sent[e], msg),
         Listening(Peer(e))' => Listening(Peer(e)),
         net'[Peer(e)] = net[Peer(e)], m_qMessagesIn'[Peer(e)] = m_qMessagesIn[Peer(e)]
  PROVE  Stream(e, w)'
<1>1. Contents(sent[e]) \subseteq Contents(sent'[e])
  BY ChannelTyped, LongerHistory
<1>2. Listening(Peer(e))' =>
        Counts(net'[Peer(e)], Contents(sent'[e]), Len(m_qMessagesIn'[Peer(e)]), w)
  BY <1>1, CountsMore DEF Stream
<1> QED
  BY <1>2, PrimedNumbers

LEMMA SendKeepsNumbering ==
  ASSUME ReadChain, WriteChain, Numbering, NEW e \in Ends, NEW msg \in SentBy[e], Send(e, msg)
  PROVE  Numbering'
<1> USE DEF Send, wire, link, handshake, inbound, outbound, received
<1>1. /\ UNCHANGED <<m_qMessagesOut, net, m_qMessagesIn, reading, writing, m_socket,
                     broken, connecting, accepted, established, advWriting>>
      /\ sent'[e] = Append(sent[e], msg) /\ posted'[e] = Append(posted[e], msg)
      /\ sent'[Peer(e)] = sent[Peer(e)] /\ posted'[Peer(e)] = posted[Peer(e)]
  BY BothEnds DEF ReadChain, InboundTyped, WriteChain, OutboundTyped
<1>2. msg \in Messages
  BY SessionAssumption
<1>3. ASSUME NEW d \in Ends
      PROVE  /\ Listening(d)' <=> Listening(d)
             /\ Unstarted(d)' <=> Unstarted(d)
             /\ LiveWrite(d)' <=> LiveWrite(d)
             /\ Sending(d)' <=> Sending(d)
             /\ Written(d)' = Written(d)
  BY <1>1 DEF Listening, Awaits, Reads, Unstarted, LiveWrite, Sending, Connected, Written, BodyDue
<1>4. \E p, q, w \in Nat : Numbered(e, p, q, w)'
  <2>1. PICK p \in Nat, q \in Nat, w \in Nat : Numbered(e, p, q, w)
    BY DEF Numbering
  <2>2. Outbox(e, p, q) /\ Stream(e, w)
    BY <2>1 DEF Numbered
  <2>3. Outbox(e, p, q)'
    BY <1>1, <1>2, <2>2, PostedGrows
  <2>4. Stream(e, w)'
    BY <1>1, <1>2, <1>3, <2>2, StreamOfLongerHistory, BothEnds
  <2>5. Numbered(e, p, q, w)'
    BY <1>3, <2>1, <2>3, <2>4 DEF Numbered
  <2> QED
    BY <2>5
<1>5. \E p, q, w \in Nat : Numbered(Peer(e), p, q, w)'
  <2>1. PICK p \in Nat, q \in Nat, w \in Nat : Numbered(Peer(e), p, q, w)
    BY BothEnds DEF Numbering
  <2>2. Numbered(Peer(e), p, q, w)'
    BY <1>1, <1>3, <2>1, DirectionKept, BothEnds
  <2> QED
    BY <2>2
<1>6. \A d \in Ends : d = e \/ d = Peer(e)
  BY BothEnds
<1>7. \A d \in Ends : \E p, q, w \in Nat : Numbered(d, p, q, w)'
  BY <1>4, <1>5, <1>6
<1>8. \A d \in Ends : Unstarted(d)' => ~LiveWrite(d)'
  BY <1>3 DEF Numbering
<1> QED
  BY <1>7, <1>8 DEF Numbering
LEMMA BothNumbered ==
  ASSUME NEW e \in Ends,
         \E p, q, w \in Nat : Numbered(e, p, q, w)',
         \E p, q, w \in Nat : Numbered(Peer(e), p, q, w)',
         \A d \in Ends : Unstarted(d)' => ~LiveWrite(d)'
  PROVE  Numbering'
<1>1. \A d \in Ends : d = e \/ d = Peer(e)
  BY BothEnds
<1>2. \A d \in Ends : \E p, q, w \in Nat : Numbered(d, p, q, w)'
  BY <1>1
<1> QED
  BY <1>2 DEF Numbering

LEMMA OtherKept ==
  ASSUME Numbering, NEW e \in Ends,
         posted'[e] = posted[e], m_qMessagesOut'[e] = m_qMessagesOut[e], sent'[e] = sent[e],
         net'[Peer(e)] = net[Peer(e)], m_qMessagesIn'[Peer(e)] = m_qMessagesIn[Peer(e)],
         Listening(Peer(e))' => Listening(Peer(e)), Unstarted(e)' => Unstarted(e),
         Sending(e)' => Sending(e) /\ Written(e)' = Written(e)
  PROVE  \E p, q, w \in Nat : Numbered(e, p, q, w)'
<1>1. PICK p \in Nat, q \in Nat, w \in Nat : Numbered(e, p, q, w)
  BY DEF Numbering
<1>2. Numbered(e, p, q, w)'
  BY <1>1, DirectionKept
<1> QED
  BY <1>2

LEMMA DisconnectKeepsNumbering ==
  ASSUME ReadChain, WriteChain, Numbering, NEW e \in Ends, Disconnect(e)
  PROVE  Numbering'
<1> USE DEF Disconnect, wire, link, handshake, inbound, outbound, received
<1>1. /\ UNCHANGED <<sent, m_qMessagesOut, net, m_qMessagesIn, reading, writing, m_socket,
                     broken, connecting, accepted, established, advWriting>>
      /\ posted'[e] = Append(posted[e], CloseOp)
      /\ posted'[Peer(e)] = posted[Peer(e)]
  BY BothEnds DEF WriteChain, OutboundTyped
<1>2. ASSUME NEW d \in Ends
      PROVE  /\ Listening(d)' <=> Listening(d)
             /\ Unstarted(d)' <=> Unstarted(d)
             /\ LiveWrite(d)' <=> LiveWrite(d)
             /\ Sending(d)' <=> Sending(d)
             /\ Written(d)' = Written(d)
  BY <1>1 DEF Listening, Awaits, Reads, Unstarted, LiveWrite, Sending, Connected, Written, BodyDue
<1>3. \E p, q, w \in Nat : Numbered(e, p, q, w)'
  <2>1. PICK p \in Nat, q \in Nat, w \in Nat : Numbered(e, p, q, w)
    BY DEF Numbering
  <2> DEFINE S == sent[e]
             s == posted[e]
             M == Messages \cup {CloseOp}
  <2>2. S \in Seq(Messages) /\ s \in Seq(M) /\ Len(S) \in Nat /\ CloseOp \in M
    BY ChannelTyped, LenProperties
  <2>3. Counts(m_qMessagesOut[e], Lambdas(S), p, q) /\ Counts(s, Lambdas(S), q, Len(S))
    BY <2>1 DEF Numbered, Outbox
  <2>4. posted'[e] = Append(s, CloseOp) /\ sent'[e] = S /\ m_qMessagesOut'[e] = m_qMessagesOut[e]
    BY <1>1
  <2>5. Stream(e, w)
    BY <2>1 DEF Numbered
  <2> HIDE DEF S, s, M
  <2>6. <<CloseOp, Len(S), Len(S)>> \in Lambdas(S)
    BY <2>2 DEF Lambdas
  <2>7. Counts(Append(s, CloseOp), Lambdas(S), q, Len(S))
    BY <2>2, <2>3, <2>6, CountsAppend
  <2>8. Outbox(e, p, q)'
    BY <2>3, <2>4, <2>7, PrimedNumbers
  <2>9. Stream(e, w)'
    BY <1>1, <1>2, <2>5, PrimedNumbers, BothEnds DEF Stream
  <2>10. Numbered(e, p, q, w)'
    BY <1>2, <2>1, <2>8, <2>9 DEF Numbered
  <2> QED
    BY <2>10
<1>4. \E p, q, w \in Nat : Numbered(Peer(e), p, q, w)'
  BY <1>1, <1>2, OtherKept, BothEnds
<1>5. \A d \in Ends : Unstarted(d)' => ~LiveWrite(d)'
  BY <1>2 DEF Numbering
<1> QED
  BY <1>3, <1>4, <1>5, BothNumbered

LEMMA PostedCloseKeepsNumbering ==
  ASSUME ReadChain, WriteChain, Numbering, NEW e \in Ends, PostedClose(e)
  PROVE  Numbering'
<1> USE DEF PostedClose, wire, link, handshake, inbound, outbound, received
<1>1. /\ UNCHANGED <<sent, m_qMessagesOut, net, m_qMessagesIn, reading, writing,
                     connecting, accepted, established, advWriting>>
      /\ Close(e) /\ posted[e] # << >> /\ Head(posted[e]) = CloseOp
      /\ posted'[e] = Tail(posted[e])
      /\ posted'[Peer(e)] = posted[Peer(e)]
  BY BothEnds DEF WriteChain, OutboundTyped
<1>2. ASSUME NEW d \in Ends
      PROVE  /\ Listening(d)' => Listening(d)
             /\ Unstarted(d)' <=> Unstarted(d)
             /\ LiveWrite(d)' <=> LiveWrite(d)
             /\ ~Sending(d)'
  <2>1. m_socket'[d] = m_socket[d] \/ m_socket'[d] = "closed"
    BY <1>1 DEF Close, WriteChain, OutboundTyped
  <2> QED
    BY <1>1, <2>1 DEF Close, Listening, Awaits, Reads, Unstarted, LiveWrite, Sending
<1>3. \E p, q, w \in Nat : Numbered(e, p, q, w)'
  <2>1. PICK p \in Nat, q \in Nat, w \in Nat : Numbered(e, p, q, w)
    BY DEF Numbering
  <2> DEFINE S == sent[e]
             s == posted[e]
             M == Messages \cup {CloseOp}
  <2>2. s \in Seq(M) /\ s # << >> /\ Head(s) = CloseOp
    BY <1>1, ChannelTyped
  <2>3. Counts(m_qMessagesOut[e], Lambdas(S), p, q) /\ Counts(s, Lambdas(S), q, Len(S))
    BY <2>1 DEF Numbered, Outbox
  <2>4. posted'[e] = Tail(s) /\ sent'[e] = S /\ m_qMessagesOut'[e] = m_qMessagesOut[e]
    BY <1>1
  <2>5. Stream(e, w)
    BY <2>1 DEF Numbered
  <2> HIDE DEF S, s, M
  <2>6. PICK mid \in Nat : <<Head(s), q, mid>> \in Lambdas(S) /\ Counts(Tail(s), Lambdas(S), mid, Len(S))
    BY <2>2, <2>3, CountsTail
  <2>7. mid = q
    BY <2>2, <2>6, LambdaMeans
  <2>8. Outbox(e, p, q)'
    BY <2>3, <2>4, <2>6, <2>7, PrimedNumbers
  <2>9. Stream(e, w)'
    BY <1>1, <1>2, <2>5, PrimedNumbers, BothEnds DEF Stream
  <2>10. Numbered(e, p, q, w)'
    BY <1>2, <2>1, <2>8, <2>9 DEF Numbered
  <2> QED
    BY <2>10
<1>4. \E p, q, w \in Nat : Numbered(Peer(e), p, q, w)'
  BY <1>1, <1>2, OtherKept, BothEnds
<1>5. \A d \in Ends : Unstarted(d)' => ~LiveWrite(d)'
  BY <1>2 DEF Numbering
<1> QED
  BY <1>3, <1>4, <1>5, BothNumbered
-----------------------------------------------------------------------------
(* What is handed to the stream and taken from it.                         *)

LEMMA Handed ==
  ASSUME NEW e \in Ends, net[Peer(e)] \in Seq(AllChunks), NEW w \in Nat, Stream(e, w),
         NEW chunk \in AllChunks, NEW mid \in Nat,
         Contents(sent[e]) \subseteq Contents(sent'[e]),
         <<chunk, w, mid>> \in Contents(sent'[e]),
         net'[Peer(e)] = Append(net[Peer(e)], chunk),
         m_qMessagesIn'[Peer(e)] = m_qMessagesIn[Peer(e)],
         Listening(Peer(e))' => Listening(Peer(e))
  PROVE  Stream(e, mid)'
<1> DEFINE s == net[Peer(e)]
           lo == Len(m_qMessagesIn[Peer(e)])
           R == Contents(sent'[e])
<1>1. ASSUME Listening(Peer(e))' PROVE Counts(Append(s, chunk), R, lo, mid)
  <2>1. Counts(s, R, lo, w)
    BY <1>1, CountsMore DEF Stream
  <2>2. s \in Seq(AllChunks) /\ <<chunk, w, mid>> \in R
    OBVIOUS
  <2> HIDE DEF s, lo, R
  <2> QED
    BY <2>1, <2>2, CountsAppend
<1> QED
  BY <1>1, PrimedNumbers

LEMMA Taken ==
  ASSUME NEW e \in Ends, net[Peer(e)] \in Seq(AllChunks), NEW w \in Nat, Stream(e, w),
         Listening(Peer(e)), net[Peer(e)] # << >>,
         net'[Peer(e)] = Tail(net[Peer(e)]), sent'[e] = sent[e]
  PROVE  \E mid \in Nat :
           /\ <<Head(net[Peer(e)]), Len(m_qMessagesIn[Peer(e)]), mid>> \in Contents(sent[e])
           /\ (Listening(Peer(e))' => Len(m_qMessagesIn'[Peer(e)]) = mid) => Stream(e, w)'
<1> DEFINE s == net[Peer(e)]
           lo == Len(m_qMessagesIn[Peer(e)])
           R == Contents(sent[e])
<1>1. s \in Seq(AllChunks) /\ s # << >> /\ Counts(s, R, lo, w)
  BY DEF Stream
<1> HIDE DEF s, lo, R
<1>2. PICK mid \in Nat : <<Head(s), lo, mid>> \in R /\ Counts(Tail(s), R, mid, w)
  BY <1>1, CountsTail
<1> USE DEF s, lo, R
<1>3. ASSUME Listening(Peer(e))' => Len(m_qMessagesIn'[Peer(e)]) = mid
      PROVE  Stream(e, w)'
  BY <1>2, <1>3, PrimedNumbers
<1> QED
  BY <1>2, <1>3

(* A validation value stands for no message.                               *)
LEMMA ValueIsNoContent ==
  ASSUME NEW S, NEW n \in Nat, NEW chunk \in AllChunks, chunk.kind = "adv"
  PROVE  <<chunk, n, n>> \in Contents(S)
BY DEF Contents

LEMMA AnswerReadKeepsNumbering ==
  ASSUME ReadChain, WriteChain, Numbering, ReadValidationServer
  PROVE  Numbering'
<1> USE DEF ReadValidationServer, ReadCompletes, wire, link, program, outbound, received
<1>1. /\ UNCHANGED <<posted, sent, m_qMessagesOut, m_qMessagesIn, writing, advWriting,
                     connecting, accepted, established>>
      /\ reading["server"] # << >> /\ Head(reading["server"]).kind = "adv"
      /\ net["server"] # << >> /\ net'["server"] = Tail(net["server"])
      /\ net'["client"] = net["client"]
      /\ broken => broken'
      /\ \A d \in Ends : m_socket'[d] = m_socket[d] \/ m_socket'[d] = "closed"
  BY BothEnds DEF ReadChain, InboundTyped, WriteChain, OutboundTyped, Close
<1>2. accepted /\ Awaits("server")
  BY <1>1, BothEnds DEF Awaits, Reads, ReadChain, NothingBeforeAccept
<1>3. /\ reading'["client"] = reading["client"]
      /\ Head(net["server"]).kind # "adv" => reading'["server"] = << >>
  <2>1. << >> \in Seq(Ops(Kinds)) /\ "server" \in Ends
    BY EmptySeq, BothEnds
  <2>2. reading'["client"] = reading["client"]
    BY BothEnds DEF ReadNext, ReadChain, InboundTyped
  <2>3. ASSUME Head(net["server"]).kind # "adv" PROVE ReadNext("server", << >>)
    BY <2>3 DEF Chunk
  <2>4. ASSUME ReadNext("server", << >>) PROVE reading'["server"] = << >>
    <3>1. reading' = [reading EXCEPT !["server"] = << >>]
      BY <1>1, <2>1, <2>4, ReadNextReplaces
    <3> QED
      BY <2>1, <3>1 DEF ReadChain, InboundTyped
  <2> QED
    BY <2>2, <2>3, <2>4
<1>4. ASSUME NEW d \in Ends
      PROVE  /\ Unstarted(d)' <=> Unstarted(d)
             /\ LiveWrite(d)' <=> LiveWrite(d)
             /\ Sending(d)' => Sending(d)
             /\ Written(d)' = Written(d)
  BY <1>1 DEF Unstarted, LiveWrite, Sending, Connected, Written, BodyDue
<1>5. Listening("server") /\ (Listening("client")' => Listening("client"))
  BY <1>1, <1>2, <1>3, BothEnds DEF Listening, Awaits, Reads
<1>6. Listening("server")' => Head(net["server"]).kind = "adv"
  BY <1>1, <1>2, <1>3, BothEnds DEF Listening, Awaits, Reads
<1>7. \E p, q, w \in Nat : Numbered("client", p, q, w)'
  <2>1. PICK p \in Nat, q \in Nat, w \in Nat : Numbered("client", p, q, w)
    BY BothEnds DEF Numbering
  <2>2. Outbox("client", p, q) /\ Stream("client", w)
    BY <2>1 DEF Numbered
  <2>3. Outbox("client", p, q)'
    BY <1>1, <2>2, PrimedNumbers, BothEnds DEF Outbox
  <2>4. PICK mid \in Nat :
          /\ <<Head(net["server"]), Len(m_qMessagesIn["server"]), mid>> \in Contents(sent["client"])
          /\ (Listening("server")' => Len(m_qMessagesIn'["server"]) = mid) => Stream("client", w)'
    <3>1. net[Peer("client")] \in Seq(AllChunks) /\ Peer("client") = "server" /\ "client" \in Ends
      BY ChannelTyped, BothEnds
    <3> QED
      BY <1>1, <1>5, <2>2, <3>1, Taken
  <2>5. Head(net["server"]).kind = "adv" => mid = Len(m_qMessagesIn["server"])
    BY <2>4, ContentMeans
  <2>6. Stream("client", w)'
    BY <1>1, <1>6, <2>4, <2>5
  <2>7. Numbered("client", p, q, w)'
    BY <1>4, <2>1, <2>3, <2>6, BothEnds DEF Numbered
  <2> QED
    BY <2>7
<1>8. \E p, q, w \in Nat : Numbered("server", p, q, w)'
  BY <1>1, <1>4, <1>5, OtherKept, BothEnds
<1>9. \A d \in Ends : Unstarted(d)' => ~LiveWrite(d)'
  BY <1>4 DEF Numbering
<1> QED
  BY <1>7, <1>8, <1>9, BothNumbered, BothEnds
LEMMA ChallengeReadKeepsNumbering ==
  ASSUME ReadChain, WriteChain, Numbering, ReadValidationClient
  PROVE  Numbering'
<1> DEFINE answer == Scrambled(Head(net["client"]).val)
           chunk == Chunk("adv", answer)
<1>1. /\ UNCHANGED <<posted, sent, m_qMessagesOut, m_qMessagesIn, writing,
                     connecting, accepted, established, m_socket, broken>>
      /\ reading["client"] # << >> /\ Head(reading["client"]).kind = "adv"
      /\ net["client"] # << >> /\ ReadNext("client", << >>)
      /\ net' = [net EXCEPT !["client"] = Tail(@),
                            !["server"] = IF Connected("client") /\ ~broken
                                          THEN Append(@, chunk) ELSE @]
  BY DEF ReadValidationClient, AnswerWith, ReadCompletes, link, program, outbound, received
<1>2. Awaits("client") /\ Head(net["client"]).kind = "adv"
  BY <1>1, BothEnds DEF Awaits, Reads, ReadChain, ChallengeFirst
<1>3. chunk \in AllChunks /\ chunk.kind = "adv"
  <2>1. Head(net["client"]) \in ChunksTo("client") /\ "client" \in Ends
    BY <1>1, BothEnds, HeadTailProperties DEF ReadChain, InboundTyped
  <2>2. Head(net["client"]).val \in ValidationValues
    BY <1>2, <2>1, ChunkInverts DEF ValuesTo
  <2> QED
    BY <2>2 DEF AllChunks, ChunksTo, ValuesTo, Chunk
<1> HIDE DEF chunk, answer
<1>4. /\ net'["client"] = Tail(net["client"])
      /\ net'["server"] = IF Sending("client") THEN Append(net["server"], chunk) ELSE net["server"]
  BY <1>1, BothEnds DEF Sending, ReadChain, InboundTyped
<1>5. Listening("client") /\ (Listening("server")' => Listening("server"))
  <2>1. << >> \in Seq(Ops(Kinds)) /\ "client" \in Ends
    BY EmptySeq, BothEnds
  <2>2. reading' = [reading EXCEPT !["client"] = << >>]
    BY <1>1, <2>1, ReadNextReplaces
  <2>3. reading'["server"] = reading["server"]
    BY <2>2, BothEnds DEF ReadChain, InboundTyped
  <2> QED
    BY <1>1, <1>2, <2>3, BothEnds DEF Listening, Awaits, Reads
<1>6. ASSUME NEW d \in Ends
      PROVE  /\ Unstarted(d)' <=> Unstarted(d)
             /\ LiveWrite(d)' <=> LiveWrite(d)
             /\ Sending(d)' <=> Sending(d)
             /\ Written(d)' = Written(d)
  BY <1>1 DEF Unstarted, LiveWrite, Sending, Connected, Written, BodyDue
<1>7. \E p, q, w \in Nat : Numbered("client", p, q, w)'
  <2>1. PICK p \in Nat, q \in Nat, w \in Nat : Numbered("client", p, q, w)
    BY BothEnds DEF Numbering
  <2>2. Outbox("client", p, q) /\ Stream("client", w)
    BY <2>1 DEF Numbered
  <2>3. Outbox("client", p, q)'
    BY <1>1, <2>2, PrimedNumbers, BothEnds DEF Outbox
  <2>4. Stream("client", w)'
    <3>1. net[Peer("client")] \in Seq(AllChunks) /\ Peer("client") = "server" /\ "client" \in Ends
      BY ChannelTyped, BothEnds
    <3>2. <<chunk, w, w>> \in Contents(sent["client"])
      BY <1>3, ValueIsNoContent
    <3>3. sent'["client"] = sent["client"] /\ m_qMessagesIn'["server"] = m_qMessagesIn["server"]
      BY <1>1
    <3>4. CASE Sending("client")
      BY <1>3, <1>4, <1>5, <2>2, <3>1, <3>2, <3>3, <3>4, Handed
    <3>5. CASE ~Sending("client")
      BY <1>4, <1>5, <2>2, <3>1, <3>3, <3>5, PrimedNumbers DEF Stream
    <3> QED
      BY <3>4, <3>5
  <2>5. Numbered("client", p, q, w)'
    BY <1>6, <2>1, <2>3, <2>4, BothEnds DEF Numbered
  <2> QED
    BY <2>5
<1>8. \E p, q, w \in Nat : Numbered("server", p, q, w)'
  <2>1. PICK p \in Nat, q \in Nat, w \in Nat : Numbered("server", p, q, w)
    BY BothEnds DEF Numbering
  <2>2. Outbox("server", p, q) /\ Stream("server", w)
    BY <2>1 DEF Numbered
  <2>3. Outbox("server", p, q)'
    BY <1>1, <2>2, PrimedNumbers, BothEnds DEF Outbox
  <2>4. PICK mid \in Nat :
          /\ <<Head(net["client"]), Len(m_qMessagesIn["client"]), mid>> \in Contents(sent["server"])
          /\ (Listening("client")' => Len(m_qMessagesIn'["client"]) = mid) => Stream("server", w)'
    <3>1. net[Peer("server")] \in Seq(AllChunks) /\ Peer("server") = "client" /\ "server" \in Ends
      BY ChannelTyped, BothEnds
    <3> QED
      BY <1>1, <1>4, <1>5, <2>2, <3>1, Taken
  <2>5. Stream("server", w)'
    BY <1>1, <1>2, <2>4, ContentMeans
  <2>6. Numbered("server", p, q, w)'
    BY <1>6, <2>1, <2>3, <2>5, BothEnds DEF Numbered
  <2> QED
    BY <2>6
<1>9. \A d \in Ends : Unstarted(d)' => ~LiveWrite(d)'
  BY <1>6 DEF Numbering
<1> QED
  BY <1>7, <1>8, <1>9, BothNumbered, BothEnds

LEMMA AcceptKeepsNumbering ==
  ASSUME ReadChain, WriteChain, Numbering, AcceptConnection
  PROVE  Numbering'
<1>1. PICK challenge \in ValidationValues :
        net' = IF broken THEN net
               ELSE [net EXCEPT !["client"] = Append(@, Chunk("adv", challenge))]
  BY DEF AcceptConnection
<1> DEFINE chunk == Chunk("adv", challenge)
<1>2. chunk \in AllChunks /\ chunk.kind = "adv"
  BY DEF AllChunks, ChunksTo, ValuesTo, Chunk
<1>3. net' = IF broken THEN net ELSE [net EXCEPT !["client"] = Append(@, chunk)]
  BY <1>1
<1> HIDE DEF chunk
<1>4. /\ UNCHANGED <<m_qMessagesOut, m_qMessagesIn, writing, broken, connecting, established>>
      /\ ~accepted /\ accepted' /\ established
      /\ sent'["server"] = Append(sent["server"], Accept)
      /\ posted'["server"] = Append(posted["server"], Accept)
      /\ sent'["client"] = sent["client"] /\ posted'["client"] = posted["client"]
      /\ m_socket'["client"] = m_socket["client"] /\ reading'["client"] = reading["client"]
      /\ advWriting'["client"] = advWriting["client"]
  BY BothEnds DEF AcceptConnection, outbound, received, ReadChain, InboundTyped,
     WriteChain, OutboundTyped
<1>5. /\ net'["server"] = net["server"]
      /\ net'["client"] = IF broken THEN net["client"] ELSE Append(net["client"], chunk)
  BY <1>3, BothEnds DEF ReadChain, InboundTyped
<1>6. /\ Listening("client")' => Listening("client")
      /\ Listening("server")' => Listening("server")
  BY <1>4, BothEnds DEF Listening, Awaits, Reads
<1>7. writing["server"] = << >>
  BY <1>4, BothEnds DEF WriteChain, NothingBeforeSocket, OneMessageWrite
<1>8. \E p, q, w \in Nat : Numbered("server", p, q, w)'
  <2>1. PICK p \in Nat, q \in Nat, w \in Nat : Numbered("server", p, q, w)
    BY BothEnds DEF Numbering
  <2>2. Outbox("server", p, q) /\ Stream("server", w) /\ p = 0 /\ w = 0
    BY <1>4, <2>1 DEF Numbered, Unstarted
  <2>3. Outbox("server", p, q)'
    BY <1>4, <2>2, PostedGrows, SessionAssumption, BothEnds
  <2>4. Stream("server", w)'
    <3>1. /\ net["client"] \in Seq(AllChunks) /\ sent["server"] \in Seq(Messages)
          /\ Peer("server") = "client" /\ "server" \in Ends /\ Accept \in Messages
      BY ChannelTyped, BothEnds, SessionAssumption
    <3>2. CASE broken
      BY <1>4, <1>5, <1>6, <2>2, <3>1, <3>2, StreamOfLongerHistory
    <3>3. CASE ~broken
      <4>1. <<chunk, w, w>> \in Contents(sent'["server"])
        BY <1>2, ValueIsNoContent
      <4>2. Contents(sent["server"]) \subseteq Contents(sent'["server"])
        BY <1>4, <3>1, LongerHistory
      <4> QED
        BY <1>2, <1>4, <1>5, <1>6, <2>2, <3>1, <3>3, <4>1, <4>2, Handed
    <3> QED
      BY <3>2, <3>3
  <2>5. Written("server")' = 0 /\ ~Unstarted("server")'
    BY <1>4, <1>7 DEF Written, LiveWrite, Unstarted
  <2>6. w = p + 0
    BY <2>2
  <2>7. Numbered("server", p, q, w)'
    BY <2>3, <2>4, <2>5, <2>6 DEF Numbered
  <2> QED
    BY <2>7
<1>9. \E p, q, w \in Nat : Numbered("client", p, q, w)'
  <2>1. /\ Unstarted("client")' => Unstarted("client")
        /\ Sending("client")' => Sending("client") /\ Written("client")' = Written("client")
    BY <1>4 DEF Unstarted, Sending, Connected, Written, LiveWrite, BodyDue
  <2> QED
    BY <1>4, <1>5, <1>6, <2>1, OtherKept, BothEnds
<1>10. \A d \in Ends : Unstarted(d)' => ~LiveWrite(d)'
  BY <1>4, BothEnds DEF Numbering, Unstarted, LiveWrite
<1> QED
  BY <1>8, <1>9, <1>10, BothNumbered, BothEnds
-----------------------------------------------------------------------------
(* Reading messages: what is completed is the next message that was sent.  *)

Completes(e) == After(Head(net[e])) = None
NextSent(e, msg) == /\ Len(m_qMessagesIn[e]) < Len(sent[Peer(e)])
                    /\ msg = sent[Peer(e)][Len(m_qMessagesIn[e]) + 1]

LEMMA ReadingKeepsNumbering ==
  ASSUME ReadChain, WriteChain, Numbering, NEW e \in Ends, reading[e] # << >>, net[e] # << >>,
         net' = [net EXCEPT ![e] = Tail(@)], Head(net[e]).kind # "adv",
         NEW temporary \in Temporaries,
         IF Completes(e) THEN m_qMessagesIn' = [m_qMessagesIn EXCEPT ![e] = Append(@, temporary)]
                         ELSE UNCHANGED m_qMessagesIn,
         reading'[Peer(e)] = reading[Peer(e)],
         UNCHANGED <<m_socket, broken, link, program, handshake, outbound>>
  PROVE  Numbering' /\ (Completes(e) => NextSent(e, Head(net[e]).val))
<1> USE DEF link, program, handshake, outbound
<1> DEFINE d == Peer(e)
<1>1. d \in Ends /\ Peer(d) = e /\ d # e
  BY BothEnds
<1>2. net'[e] = Tail(net[e]) /\ net'[d] = net[d] /\ net[e] \in Seq(AllChunks)
  BY <1>1, ChannelTyped DEF ReadChain, InboundTyped
<1>3. Listening(e) /\ (Listening(d)' => Listening(d))
  BY <1>1 DEF Listening, Awaits, Reads
<1>4. /\ m_qMessagesIn'[d] = m_qMessagesIn[d]
      /\ Len(m_qMessagesIn'[e]) = Len(m_qMessagesIn[e]) + (IF Completes(e) THEN 1 ELSE 0)
      /\ Len(m_qMessagesIn[e]) \in Nat
  <2>1. m_qMessagesIn[e] \in Seq(Temporaries)
    BY ChannelTyped
  <2>2. Len(Append(m_qMessagesIn[e], temporary)) = Len(m_qMessagesIn[e]) + 1
        /\ Len(m_qMessagesIn[e]) \in Nat
    BY <2>1, AppendProperties, LenProperties
  <2>3. CASE Completes(e)
    <3>1. m_qMessagesIn'[e] = Append(m_qMessagesIn[e], temporary)
      BY <2>3 DEF ReadChain, InboundTyped
    <3>2. m_qMessagesIn'[d] = m_qMessagesIn[d]
      BY <1>1, <2>3 DEF ReadChain, InboundTyped
    <3> QED
      BY <2>2, <2>3, <3>1, <3>2
  <2>4. CASE ~Completes(e)
    BY <2>2, <2>4
  <2> QED
    BY <2>3, <2>4
<1>5. ASSUME NEW x \in Ends
      PROVE  /\ Unstarted(x)' <=> Unstarted(x)
             /\ LiveWrite(x)' <=> LiveWrite(x)
             /\ Sending(x)' <=> Sending(x)
             /\ Written(x)' = Written(x)
  BY DEF Unstarted, LiveWrite, Sending, Connected, Written, BodyDue
<1>6. (\E p, q, w \in Nat : Numbered(d, p, q, w)') /\ (Completes(e) => NextSent(e, Head(net[e]).val))
  <2>1. PICK p \in Nat, q \in Nat, w \in Nat : Numbered(d, p, q, w)
    BY <1>1 DEF Numbering
  <2>2. Outbox(d, p, q) /\ Stream(d, w)
    BY <2>1 DEF Numbered
  <2>3. Outbox(d, p, q)'
    BY <1>1, <2>2, PrimedNumbers DEF Outbox
  <2>4. PICK mid \in Nat :
          /\ <<Head(net[e]), Len(m_qMessagesIn[e]), mid>> \in Contents(sent[d])
          /\ (Listening(e)' => Len(m_qMessagesIn'[e]) = mid) => Stream(d, w)'
    <3>1. /\ net[Peer(d)] \in Seq(AllChunks) /\ Listening(Peer(d)) /\ net[Peer(d)] # << >>
          /\ net'[Peer(d)] = Tail(net[Peer(d)]) /\ sent'[d] = sent[d]
      BY <1>1, <1>2, <1>3
    <3> HIDE DEF d
    <3>2. \E mid \in Nat :
             /\ <<Head(net[Peer(d)]), Len(m_qMessagesIn[Peer(d)]), mid>> \in Contents(sent[d])
             /\ (Listening(Peer(d))' => Len(m_qMessagesIn'[Peer(d)]) = mid) => Stream(d, w)'
      BY <1>1, <2>2, <3>1, Taken
    <3>3. Listening(Peer(d))' <=> Listening(e)'
      BY <1>1
    <3> QED
      BY <1>1, <3>2, <3>3
  <2>5. /\ Len(m_qMessagesIn[e]) < Len(sent[d])
        /\ Head(net[e]).val = sent[d][Len(m_qMessagesIn[e]) + 1]
        /\ mid = IF Completes(e) THEN Len(m_qMessagesIn[e]) + 1 ELSE Len(m_qMessagesIn[e])
    BY <2>4, ContentMeans, SMTT(60) DEF Completes
  <2>6. Stream(d, w)'
    <3>1. Len(m_qMessagesIn'[e]) = mid
      BY <1>4, <2>5
    <3> QED
      BY <2>4, <3>1
  <2>7. Numbered(d, p, q, w)'
    BY <1>1, <1>5, <2>1, <2>3, <2>6 DEF Numbered
  <2> QED
    BY <2>5, <2>7 DEF NextSent
<1>7. \E p, q, w \in Nat : Numbered(e, p, q, w)'
  BY <1>1, <1>2, <1>3, <1>4, <1>5, OtherKept
<1>8. \A x \in Ends : Unstarted(x)' => ~LiveWrite(x)'
  BY <1>5 DEF Numbering
<1> QED
  BY <1>6, <1>7, <1>8, BothNumbered

(* One step of the channel that e reads.                                   *)
Delivers(e) == \E m \in Temporaries :
  /\ m_qMessagesIn' = [m_qMessagesIn EXCEPT ![e] = Append(@, m)]
  /\ NextSent(e, m.header)

LEMMA ReadHeaderKeepsNumbering ==
  ASSUME ReadChain, WriteChain, Numbering, NEW e \in Ends, ReadHeader(e)
  PROVE  Numbering' /\ (UNCHANGED m_qMessagesIn \/ Delivers(e))
<1> DEFINE msg == Head(net[e]).val
           temporary == [m_msgTemporaryIn[e] EXCEPT !.header = msg]
<1>1. /\ reading[e] # << >> /\ net[e] # << >> /\ Head(net[e]).kind = "hdr"
      /\ net' = [net EXCEPT ![e] = Tail(@)]
      /\ \/ msg \in HasBody /\ UNCHANGED m_qMessagesIn /\ ReadNext(e, << Op(e, "body") >>)
         \/ /\ msg \notin HasBody
            /\ m_qMessagesIn' = [m_qMessagesIn EXCEPT ![e] = Append(@, temporary)]
            /\ ReadNext(e, << Op(e, "hdr") >>)
      /\ UNCHANGED <<m_socket, broken, link, program, handshake, outbound>>
  BY DEF ReadHeader, ReadCompletes, AddToIncomingMessageQueue
<1>2. msg \in Messages
  <2>1. Head(net[e]) \in AllChunks
    BY <1>1, ChannelTyped, HeadTailProperties
  <2> QED
    BY <1>1, <2>1, ChunkInverts, BothEnds DEF AllChunks
<1>3. temporary \in Temporaries /\ temporary.header = msg
  BY <1>2 DEF ReadChain, InboundTyped, Temporaries
<1>4. Completes(e) <=> msg \notin HasBody
  BY <1>1, NoneIsNoMessage DEF Completes, After
<1>5. reading'[Peer(e)] = reading[Peer(e)]
  BY <1>1, BothEnds DEF ReadNext, ReadChain, InboundTyped
<1> HIDE DEF temporary
<1>6. IF Completes(e) THEN m_qMessagesIn' = [m_qMessagesIn EXCEPT ![e] = Append(@, temporary)]
                      ELSE UNCHANGED m_qMessagesIn
  BY <1>1, <1>4
<1>7. Numbering' /\ (Completes(e) => NextSent(e, msg))
  BY <1>1, <1>3, <1>5, <1>6, ReadingKeepsNumbering
<1> QED
  BY <1>3, <1>6, <1>7 DEF Delivers

LEMMA ReadBodyKeepsNumbering ==
  ASSUME ReadChain, WriteChain, Framed, Numbering, NEW e \in Ends, ReadBody(e)
  PROVE  Numbering' /\ Delivers(e)
<1> DEFINE msg == Head(net[e]).val
           temporary == [m_msgTemporaryIn[e] EXCEPT !.body = msg]
<1>1. /\ reading[e] # << >> /\ net[e] # << >> /\ Head(net[e]).kind = "body"
      /\ Head(reading[e]) = [kind |-> "body", live |-> TRUE]
      /\ net' = [net EXCEPT ![e] = Tail(@)]
      /\ m_qMessagesIn' = [m_qMessagesIn EXCEPT ![e] = Append(@, temporary)]
      /\ ReadNext(e, << Op(e, "hdr") >>)
      /\ UNCHANGED <<m_socket, broken, link, program, handshake, outbound>>
  BY DEF ReadBody, ReadCompletes, AddToIncomingMessageQueue
<1>2. msg \in Messages
  <2>1. Head(net[e]) \in AllChunks
    BY <1>1, ChannelTyped, HeadTailProperties
  <2> QED
    BY <1>1, <2>1, ChunkInverts, BothEnds DEF AllChunks
<1>3. msg = m_msgTemporaryIn[e].header
  BY <1>1 DEF Framed
<1>4. temporary \in Temporaries /\ temporary.header = msg
  BY <1>2, <1>3 DEF ReadChain, InboundTyped, Temporaries
<1>5. Completes(e)
  BY <1>1 DEF Completes, After
<1>6. reading'[Peer(e)] = reading[Peer(e)]
  BY <1>1, BothEnds DEF ReadNext, ReadChain, InboundTyped
<1> HIDE DEF temporary
<1>7. Numbering' /\ NextSent(e, msg)
  BY <1>1, <1>4, <1>5, <1>6, ReadingKeepsNumbering
<1> QED
  BY <1>1, <1>4, <1>7 DEF Delivers
-----------------------------------------------------------------------------
(* Writing messages.                                                       *)

(* A chunk of the front message, handed over or lost with the connection.  *)
LEMMA MaybeHanded ==
  ASSUME ReadChain, WriteChain, NEW e \in Ends, NEW w \in Nat, Stream(e, w),
         NEW chunk \in AllChunks, NEW mid \in Nat,
         Sending(e) => <<chunk, w, mid>> \in Contents(sent[e]),
         Transmit(e, chunk), sent' = sent, m_qMessagesIn' = m_qMessagesIn,
         Listening(Peer(e))' => Listening(Peer(e))
  PROVE  /\ Sending(e) => Stream(e, mid)'
         /\ ~Sending(e) => Stream(e, w)'
         /\ net'[e] = net[e]
<1>1. Peer(e) \in Ends /\ Peer(e) # e /\ net[Peer(e)] \in Seq(AllChunks)
  BY BothEnds, ChannelTyped
<1>2. /\ net'[e] = net[e]
      /\ net'[Peer(e)] = IF Sending(e) THEN Append(net[Peer(e)], chunk) ELSE net[Peer(e)]
  BY <1>1 DEF Transmit, Sending, ReadChain, InboundTyped
<1>3. sent'[e] = sent[e] /\ m_qMessagesIn'[Peer(e)] = m_qMessagesIn[Peer(e)]
  OBVIOUS
<1>4. CASE Sending(e)
  <2>1. Stream(e, mid)'
    BY <1>1, <1>2, <1>3, <1>4, Handed
  <2> QED
    BY <1>2, <1>4, <2>1
<1>5. CASE ~Sending(e)
  <2>1. Stream(e, w)'
    BY <1>2, <1>3, <1>5, PrimedNumbers DEF Stream
  <2> QED
    BY <1>2, <1>5, <2>1
<1> QED
  BY <1>4, <1>5

(* What a writer leaves alone: the other direction, and the readers.       *)
Writes(e) == /\ UNCHANGED <<m_socket, broken, link, sent, advWriting, inbound>>
             /\ net'[e] = net[e]
             /\ \A d \in Ends : d # e => /\ writing'[d] = writing[d]
                                         /\ posted'[d] = posted[d]
                                         /\ m_qMessagesOut'[d] = m_qMessagesOut[d]

LEMMA WritesOneDirection ==
  ASSUME Numbering, NEW e \in Ends, Writes(e),
         \E p, q, w \in Nat : Numbered(e, p, q, w)',
         Unstarted(e)' => ~LiveWrite(e)'
  PROVE  Numbering'
<1> USE DEF Writes, link, inbound, received
<1>1. Peer(e) \in Ends /\ Peer(Peer(e)) = e /\ Peer(e) # e
  BY BothEnds
<1>2. /\ Listening(e)' => Listening(e)
      /\ Unstarted(Peer(e))' <=> Unstarted(Peer(e))
      /\ LiveWrite(Peer(e))' <=> LiveWrite(Peer(e))
      /\ Sending(Peer(e))' => Sending(Peer(e)) /\ Written(Peer(e))' = Written(Peer(e))
  BY <1>1 DEF Listening, Awaits, Reads, Unstarted, LiveWrite, Sending, Connected, Written, BodyDue
<1>3. \E p, q, w \in Nat : Numbered(Peer(e), p, q, w)'
  BY <1>1, <1>2, OtherKept
<1>4. \A d \in Ends : Unstarted(d)' => ~LiveWrite(d)'
  <2>1. \A d \in Ends : d = e \/ d = Peer(e)
    BY BothEnds
  <2> QED
    BY <1>1, <1>2, <2>1 DEF Numbering
<1> QED
  BY <1>3, <1>4, BothNumbered

(* WriteHeader: the header of the front message goes out.                  *)
LEMMA HeaderNumbered ==
  ASSUME ReadChain, WriteChain, NEW e \in Ends, NEW p \in Nat, NEW q \in Nat, NEW w \in Nat,
         NEW queue \in Seq(Messages), queue # << >>,
         Counts(queue, Lambdas(sent[e]), p, q),
         Counts(posted'[e], Lambdas(sent[e]), q, Len(sent[e])),
         Stream(e, w), Sending(e) => w = p, Unstarted(e) => p = 0 /\ w = 0,
         m_qMessagesOut' = [m_qMessagesOut EXCEPT ![e] = queue],
         writing' = [writing EXCEPT ![e] = << Op(e, "hdr") >>],
         Transmit(e, Chunk("hdr", Head(queue))),
         UNCHANGED <<m_socket, broken, link, sent, advWriting, inbound>>
  PROVE  /\ \E n \in Nat : Numbered(e, p, q, n)'
         /\ Unstarted(e)' => ~LiveWrite(e)'
         /\ net'[e] = net[e]
<1> USE DEF link, inbound, received
<1> DEFINE msg == Head(queue)
           chunk == Chunk("hdr", msg)
           S == sent[e]
           mid == IF msg \in HasBody THEN p ELSE p + 1
<1>1. msg \in Messages /\ msg # CloseOp
  BY HeadTailProperties, SessionAssumption
<1>2. chunk \in AllChunks /\ chunk.kind = "hdr" /\ chunk.val = msg
  BY <1>1, ChunkTyped, BothEnds DEF AllChunks
<1>3. p < Len(S) /\ msg = S[p + 1]
  <2>1. PICK n \in Nat : <<Head(queue), p, n>> \in Lambdas(S)
    BY CountsTail
  <2> QED
    BY <1>1, <2>1, LambdaMeans
<1>4. (After(chunk) = None <=> msg \notin HasBody) /\ mid \in Nat
  BY <1>1, <1>2, NoneIsNoMessage DEF After
<1>5. Transmit(e, chunk)
  OBVIOUS
<1> HIDE DEF chunk
<1>6. <<chunk, p, mid>> \in Contents(S)
  BY <1>2, <1>3, <1>4 DEF Contents
<1>7. /\ m_qMessagesOut'[e] = queue
      /\ writing'[e] = << Op(e, "hdr") >>
  BY DEF WriteChain, OutboundTyped
<1>8. /\ Listening(Peer(e))' => Listening(Peer(e))
      /\ Sending(e)' <=> Sending(e)
      /\ Unstarted(e)' <=> Unstarted(e)
  BY DEF Listening, Awaits, Reads, Sending, Connected, Unstarted
<1>9. (Sending(e) => Stream(e, mid)') /\ (~Sending(e) => Stream(e, w)') /\ net'[e] = net[e]
  <2>1. Sending(e) => <<chunk, w, mid>> \in Contents(S)
    BY <1>6
  <2> HIDE DEF mid
  <2> QED
    BY <1>2, <1>4, <1>5, <1>8, <2>1, MaybeHanded
<1>10. Outbox(e, p, q)'
  BY <1>7, PrimedNumbers
<1>11. LiveWrite(e)' <=> Connected(e)
  <2>1. writing'[e] # << >> /\ Head(writing'[e]) = Op(e, "hdr")
    BY <1>7
  <2>2. Op(e, "hdr").live = Connected(e)
    BY DEF Op
  <2> QED
    BY <2>1, <2>2 DEF LiveWrite, Connected
<1>12. Sending(e) => Written(e)' = IF msg \in HasBody THEN 0 ELSE 1
  <2>1. Sending(e) => Head(writing'[e]) = [kind |-> "hdr", live |-> TRUE] /\ writing'[e] # << >>
    <3>1. Connected(e) => Op(e, "hdr") = [kind |-> "hdr", live |-> TRUE]
      BY DEF Op, Connected
    <3>2. writing'[e] # << >> /\ Head(writing'[e]) = Op(e, "hdr")
      BY <1>7
    <3> QED
      BY <3>1, <3>2 DEF Sending
  <2>2. Sending(e) => BodyDue(e)' = IF msg \in HasBody THEN msg ELSE None
    BY <1>7, <2>1 DEF BodyDue
  <2>3. Sending(e) => LiveWrite(e)'
    BY <1>11 DEF Sending
  <2> QED
    BY <1>1, <2>2, <2>3, NoneIsNoMessage DEF Written
<1>13. Sending(e)' => mid = p + Written(e)'
  BY <1>8, <1>12
<1>14. CASE Sending(e)
  <2>1. Stream(e, mid)'
    BY <1>9, <1>14
  <2>2. ~Unstarted(e)
    BY <1>14, SendingStarted
  <2> HIDE DEF mid
  <2>3. Numbered(e, p, q, mid)'
    BY <1>8, <1>10, <1>13, <2>1, <2>2 DEF Numbered
  <2> QED
    BY <1>4, <1>8, <1>9, <2>2, <2>3
<1>15. CASE ~Sending(e)
  <2>1. Numbered(e, p, q, w)'
    BY <1>8, <1>9, <1>10, <1>15 DEF Numbered
  <2>2. Unstarted(e) => ~Connected(e)
    BY BothEnds DEF ReadChain, OneReader, NothingBeforeAccept, Connected, Unstarted
  <2> QED
    BY <1>8, <1>9, <1>11, <2>1, <2>2
<1> QED
  BY <1>14, <1>15
LEMMA PostedSendKeepsNumbering ==
  ASSUME ReadChain, WriteChain, Numbering, NEW e \in Ends, PostedSend(e)
  PROVE  Numbering'
<1> DEFINE msg == Head(posted[e])
           queue == m_qMessagesOut[e]
           S == sent[e]
           M == Messages \cup {CloseOp}
<1>1. /\ posted[e] # << >> /\ msg # CloseOp
      /\ posted' = [posted EXCEPT ![e] = Tail(@)]
      /\ m_qMessagesOut' = [m_qMessagesOut EXCEPT ![e] = Append(queue, msg)]
      /\ queue # << >> => UNCHANGED <<writing, net>>
      /\ queue = << >> => /\ writing' = [writing EXCEPT ![e] = Append(@, Op(e, "hdr"))]
                          /\ Transmit(e, Chunk("hdr", msg))
      /\ UNCHANGED <<m_socket, broken, sent, link, advWriting, inbound>>
  BY DEF PostedSend, QueueToSend, handshake
<1>2. queue \in Seq(Messages) /\ posted[e] \in Seq(M) /\ msg \in Messages
  <2>1. queue \in Seq(Messages) /\ posted[e] \in Seq(M)
    BY ChannelTyped
  <2> QED
    BY <1>1, <2>1, HeadTailProperties
<1>3. posted'[e] = Tail(posted[e]) /\ m_qMessagesOut'[e] = Append(queue, msg)
  BY <1>1 DEF WriteChain, OutboundTyped
<1>4. \A d \in Ends : d # e => /\ posted'[d] = posted[d]
                              /\ m_qMessagesOut'[d] = m_qMessagesOut[d]
                              /\ writing'[d] = writing[d]
  BY <1>1 DEF WriteChain, OutboundTyped
<1>5. PICK p \in Nat, q \in Nat, w \in Nat : Numbered(e, p, q, w)
  BY DEF Numbering
<1>6. /\ Counts(queue, Lambdas(S), p, q) /\ Counts(posted[e], Lambdas(S), q, Len(S))
      /\ Stream(e, w)
  BY <1>5 DEF Numbered, Outbox
<1>7. PICK n \in Nat : /\ <<msg, q, n>> \in Lambdas(S)
                      /\ Counts(Tail(posted[e]), Lambdas(S), n, Len(S))
  BY <1>1, <1>2, <1>6, CountsTail
<1>8. Counts(Append(queue, msg), Lambdas(S), p, n)
  <2> HIDE DEF msg, queue, S
  <2> QED
    BY <1>2, <1>6, <1>7, CountsAppend
<1>9. Append(queue, msg) \in Seq(Messages) /\ Append(queue, msg) # << >>
      /\ (queue # << >> => Head(Append(queue, msg)) = Head(queue))
  <2> HIDE DEF msg, queue
  <2> QED
    BY <1>2, AppendKeeps
<1>10. CASE queue # << >>
  <2>1. Writes(e)
    BY <1>1, <1>4, <1>10 DEF Writes
  <2>2. /\ Listening(Peer(e))' <=> Listening(Peer(e))
        /\ Unstarted(e)' <=> Unstarted(e)
        /\ LiveWrite(e)' <=> LiveWrite(e)
        /\ Sending(e)' <=> Sending(e)
    BY <1>1, <1>10 DEF link, inbound, received, Listening, Awaits, Reads, Unstarted, LiveWrite,
       Sending, Connected
  <2>3. Written(e)' = Written(e)
    <3>1. Head(m_qMessagesOut'[e]) = Head(m_qMessagesOut[e]) /\ writing'[e] = writing[e]
      BY <1>1, <1>3, <1>9, <1>10
    <3> QED
      BY <3>1 DEF Written, LiveWrite, BodyDue
  <2>4. Outbox(e, p, n)'
    BY <1>1, <1>3, <1>7, <1>8, PrimedNumbers
  <2>5. Stream(e, w)'
    BY <1>1, <1>6, <1>10, <2>2, PrimedNumbers DEF Stream, inbound, received
  <2>6. Numbered(e, p, n, w)'
    BY <1>5, <2>2, <2>3, <2>4, <2>5 DEF Numbered
  <2>7. Unstarted(e)' => ~LiveWrite(e)'
    BY <2>2 DEF Numbering
  <2> QED
    BY <2>1, <2>6, <2>7, WritesOneDirection
<1>11. CASE queue = << >>
  <2>1. writing[e] = << >>
    BY <1>11 DEF WriteChain, OneMessageWrite
  <2>2. writing' = [writing EXCEPT ![e] = << Op(e, "hdr") >>]
    BY <1>1, <1>11, <2>1
  <2>3. Head(Append(queue, msg)) = msg
    BY <1>11
  <2>4. Sending(e) => w = p
    <3>1. Written(e) = 0 /\ p + 0 = p
      BY <2>1 DEF Written, LiveWrite
    <3> QED
      BY <1>5, <3>1 DEF Numbered
  <2>5. Unstarted(e) => p = 0 /\ w = 0
    BY <1>5 DEF Numbered
  <2> DEFINE longer == Append(queue, msg)
  <2>6. /\ longer \in Seq(Messages) /\ longer # << >>
        /\ Counts(longer, Lambdas(S), p, n)
        /\ Counts(posted'[e], Lambdas(S), n, Len(S))
        /\ m_qMessagesOut' = [m_qMessagesOut EXCEPT ![e] = longer]
        /\ Transmit(e, Chunk("hdr", Head(longer)))
    BY <1>1, <1>3, <1>7, <1>8, <1>9, <1>11, <2>3
  <2> HIDE DEF longer, queue, msg
  <2>7. /\ \E v \in Nat : Numbered(e, p, n, v)'
        /\ Unstarted(e)' => ~LiveWrite(e)'
        /\ net'[e] = net[e]
    BY <1>1, <1>6, <2>2, <2>4, <2>5, <2>6, HeaderNumbered
  <2>8. Writes(e)
    BY <1>1, <1>4, <2>7 DEF Writes
  <2> QED
    BY <2>7, <2>8, WritesOneDirection
<1> QED
  BY <1>10, <1>11

(* The handler of the last chunk of the front message: it is popped, and   *)
(* the stream has as much as was popped.                                   *)
LEMMA PopAndWriteNextKeepsNumbering ==
  ASSUME ReadChain, WriteChain, Numbering, NEW e \in Ends, LiveWrite(e), BodyDue(e) = None,
         PopAndWriteNext(e),
         UNCHANGED <<m_socket, broken, sent, posted, link, advWriting, inbound>>
  PROVE  Numbering'
<1> DEFINE queue == Tail(m_qMessagesOut[e])
           S == sent[e]
<1>1. writing[e] # << >> /\ m_qMessagesOut[e] \in Seq(Messages) /\ m_qMessagesOut[e] # << >>
  BY DEF LiveWrite, WriteChain, OutboundTyped, OneMessageWrite
<1>2. queue \in Seq(Messages) /\ Head(m_qMessagesOut[e]) \in Messages
  BY <1>1, HeadTailProperties
<1>3. m_qMessagesOut' = [m_qMessagesOut EXCEPT ![e] = queue]
  BY DEF PopAndWriteNext
<1>4. PICK p \in Nat, q \in Nat, w \in Nat : Numbered(e, p, q, w)
  BY DEF Numbering
<1>5. /\ Counts(m_qMessagesOut[e], Lambdas(S), p, q) /\ Counts(posted[e], Lambdas(S), q, Len(S))
      /\ Stream(e, w)
  BY <1>4 DEF Numbered, Outbox
<1>6. PICK n \in Nat : /\ <<Head(m_qMessagesOut[e]), p, n>> \in Lambdas(S)
                      /\ Counts(queue, Lambdas(S), n, q)
  BY <1>1, <1>5, CountsTail
<1>7. n = p + 1
  BY <1>2, <1>6, LambdaMeans, SessionAssumption
<1>8. Sending(e) => w = n
  <2>1. Written(e) = 1
    BY DEF Written
  <2> QED
    BY <1>4, <1>7, <2>1 DEF Numbered
<1>9. ~Unstarted(e)
  BY DEF Numbering
<1>10. \A d \in Ends : d # e => m_qMessagesOut'[d] = m_qMessagesOut[d] /\ writing'[d] = writing[d]
  BY <1>3 DEF PopAndWriteNext, WriteNext, WriteChain, OutboundTyped
<1> HIDE DEF queue
<1>11. CASE queue # << >>
  <2> DEFINE ops == << Op(e, "hdr") >>
  <2>1. ops \in Seq(Ops({"hdr", "body"}))
    BY OneOp
  <2>2. WriteNext(e, ops) /\ Transmit(e, Chunk("hdr", Head(queue)))
    BY <1>11 DEF PopAndWriteNext, queue
  <2> HIDE DEF ops
  <2>3. writing' = [writing EXCEPT ![e] = ops]
    BY <1>1, <2>1, <2>2, WriteNextReplaces
  <2>4. Counts(posted'[e], Lambdas(S), q, Len(S))
    BY <1>5
  <2>5. /\ \E v \in Nat : Numbered(e, n, q, v)'
        /\ Unstarted(e)' => ~LiveWrite(e)'
        /\ net'[e] = net[e]
    BY <1>2, <1>3, <1>5, <1>6, <1>8, <1>9, <1>11, <2>2, <2>3, <2>4, HeaderNumbered DEF ops
  <2>6. Writes(e)
    BY <1>10, <2>5 DEF Writes
  <2> QED
    BY <2>5, <2>6, WritesOneDirection
<1>12. CASE queue = << >>
  <2>1. writing' = [writing EXCEPT ![e] = << >>] /\ UNCHANGED net
    BY <1>1, <1>12, EmptySeq, WriteNextReplaces DEF PopAndWriteNext, queue
  <2>2. writing'[e] = << >> /\ m_qMessagesOut'[e] = queue
    BY <1>3, <2>1 DEF WriteChain, OutboundTyped
  <2>3. /\ Listening(Peer(e))' <=> Listening(Peer(e))
        /\ Unstarted(e)' <=> Unstarted(e)
        /\ Sending(e)' <=> Sending(e)
        /\ ~LiveWrite(e)' /\ Written(e)' = 0
    BY <2>2 DEF link, inbound, received, Listening, Awaits, Reads, Unstarted, LiveWrite,
       Sending, Connected, Written
  <2>4. Outbox(e, n, q)'
    BY <1>5, <1>6, <2>2, PrimedNumbers
  <2>5. Stream(e, w)'
    BY <1>5, <2>1, <2>3, PrimedNumbers DEF Stream, inbound, received
  <2>6. n + 0 = n
    OBVIOUS
  <2>7. Numbered(e, n, q, w)'
    BY <1>8, <1>9, <2>3, <2>4, <2>5, <2>6 DEF Numbered
  <2>8. Writes(e)
    BY <1>10, <2>1 DEF Writes
  <2> QED
    BY <2>3, <2>7, <2>8, WritesOneDirection
<1> QED
  BY <1>11, <1>12

LEMMA WriteHeaderKeepsNumbering ==
  ASSUME ReadChain, WriteChain, Numbering, NEW e \in Ends, WriteHeader(e)
  PROVE  Numbering'
<1> DEFINE msg == Head(m_qMessagesOut[e])
           S == sent[e]
<1>1. /\ writing[e] # << >> /\ Head(writing[e]) = [kind |-> "hdr", live |-> TRUE]
      /\ UNCHANGED <<m_socket, broken, sent, posted, link, advWriting, inbound>>
  BY DEF WriteHeader, WriteCompletes, handshake, program
<1>2. LiveWrite(e) /\ ~Unstarted(e)
  BY <1>1 DEF LiveWrite, Numbering
<1>3. m_qMessagesOut[e] \in Seq(Messages) /\ m_qMessagesOut[e] # << >> /\ msg \in Messages
  BY <1>1, HeadTailProperties DEF WriteChain, OutboundTyped, OneMessageWrite
<1>4. BodyDue(e) = IF msg \in HasBody THEN msg ELSE None
  BY <1>1 DEF BodyDue
<1>5. CASE msg \notin HasBody
  BY <1>1, <1>2, <1>4, <1>5, PopAndWriteNextKeepsNumbering DEF WriteHeader
<1>6. CASE msg \in HasBody
  <2> DEFINE ops == << Op(e, "body") >>
             chunk == Chunk("body", msg)
  <2>1. ops \in Seq(Ops({"hdr", "body"})) /\ ops # << >> /\ Head(ops) = Op(e, "body")
    BY OneOp
  <2>2. WriteNext(e, ops) /\ Transmit(e, chunk) /\ UNCHANGED m_qMessagesOut
    BY <1>6 DEF WriteHeader
  <2>3. chunk \in AllChunks /\ chunk.kind = "body" /\ chunk.val = msg
    BY <1>3, ChunkTyped, BothEnds DEF AllChunks
  <2> HIDE DEF ops, chunk
  <2>4. writing' = [writing EXCEPT ![e] = ops]
    BY <1>1, <2>1, <2>2, WriteNextReplaces
  <2>5. /\ writing'[e] = ops
        /\ \A d \in Ends : d # e => writing'[d] = writing[d]
    BY <2>4 DEF WriteChain, OutboundTyped
  <2>6. PICK p \in Nat, q \in Nat, w \in Nat : Numbered(e, p, q, w)
    BY DEF Numbering
  <2>7. /\ Counts(m_qMessagesOut[e], Lambdas(S), p, q)
        /\ Outbox(e, p, q) /\ Stream(e, w)
    BY <2>6 DEF Numbered, Outbox
  <2>8. p < Len(S) /\ msg = S[p + 1]
    <3>1. PICK n \in Nat : <<msg, p, n>> \in Lambdas(S)
      BY <1>3, <2>7, CountsTail
    <3> QED
      BY <1>3, <3>1, LambdaMeans, SessionAssumption
  <2>9. Sending(e) => w = p
    <3>1. Written(e) = 0 /\ p + 0 = p
      BY <1>3, <1>4, <1>6, NoneIsNoMessage DEF Written
    <3> QED
      BY <2>6, <3>1 DEF Numbered
  <2>10. Sending(e) => <<chunk, w, p + 1>> \in Contents(S)
    <3>1. After(chunk) = None /\ p + 1 \in Nat
      BY <2>3 DEF After
    <3> QED
      BY <2>3, <2>8, <2>9, <3>1 DEF Contents
  <2>11. /\ Listening(Peer(e))' <=> Listening(Peer(e))
         /\ Unstarted(e)' <=> Unstarted(e)
         /\ Sending(e)' <=> Sending(e)
    BY <1>1 DEF link, inbound, received, Listening, Awaits, Reads, Unstarted, Sending, Connected
  <2>12. /\ Sending(e) => Stream(e, p + 1)'
         /\ ~Sending(e) => Stream(e, w)'
         /\ net'[e] = net[e]
    <3>1. p + 1 \in Nat /\ m_qMessagesIn' = m_qMessagesIn /\ sent' = sent
      BY <1>1 DEF inbound, received
    <3> QED
      BY <2>2, <2>3, <2>7, <2>10, <2>11, <3>1, MaybeHanded
  <2>13. Outbox(e, p, q)'
    BY <1>1, <2>2, <2>7, PrimedNumbers DEF Outbox
  <2>14. Sending(e) => Written(e)' = 1
    <3>1. Sending(e) => Op(e, "body").live = TRUE
      BY DEF Op, Sending, Connected
    <3>2. Op(e, "body").kind = "body" /\ [kind |-> "hdr", live |-> TRUE].kind = "hdr"
      BY DEF Op
    <3> QED
      BY <2>1, <2>5, <3>1, <3>2 DEF Written, LiveWrite, BodyDue
  <2>15. \E n \in Nat : Numbered(e, p, q, n)'
    <3>1. CASE Sending(e)
      <4>1. p + 1 \in Nat /\ Stream(e, p + 1)' /\ (Sending(e)' => p + 1 = p + Written(e)')
        BY <2>12, <2>14, <3>1
      <4>2. Numbered(e, p, q, p + 1)'
        BY <1>2, <2>11, <2>13, <4>1 DEF Numbered
      <4> QED
        BY <4>1, <4>2
    <3>2. CASE ~Sending(e)
      <4>1. Numbered(e, p, q, w)'
        BY <1>2, <2>11, <2>12, <2>13, <3>2 DEF Numbered
      <4> QED
        BY <4>1
    <3> QED
      BY <3>1, <3>2
  <2>16. Writes(e)
    BY <1>1, <2>2, <2>5, <2>12 DEF Writes
  <2> QED
    BY <1>2, <2>11, <2>15, <2>16, WritesOneDirection
<1> QED
  BY <1>5, <1>6

LEMMA WriteBodyKeepsNumbering ==
  ASSUME ReadChain, WriteChain, Numbering, NEW e \in Ends, WriteBody(e)
  PROVE  Numbering'
<1>1. /\ writing[e] # << >> /\ Head(writing[e]) = [kind |-> "body", live |-> TRUE]
      /\ PopAndWriteNext(e)
      /\ UNCHANGED <<m_socket, broken, sent, posted, link, advWriting, inbound>>
  BY DEF WriteBody, WriteCompletes, handshake, program
<1>2. LiveWrite(e) /\ BodyDue(e) = None
  BY <1>1 DEF LiveWrite, BodyDue
<1> QED
  BY <1>1, <1>2, PopAndWriteNextKeepsNumbering
-----------------------------------------------------------------------------
(* What a step does to the two channels: a message is sent, one is         *)
(* delivered to one end, or neither.                                       *)
Sends(e) == \E msg \in Messages : sent' = [sent EXCEPT ![e] = Append(@, msg)]

Moves == \/ \E e \in Ends : Sends(e) /\ UNCHANGED m_qMessagesIn
         \/ \E e \in Ends : Delivers(e) /\ UNCHANGED sent
         \/ UNCHANGED <<sent, m_qMessagesIn>>

LEMMA HandlerMoves ==
  ASSUME ReadChain, WriteChain, Framed, Numbering, NEW e \in Ends, Handler(e)
  PROVE  Numbering' /\ Moves
<1>1. CASE WriteValidationCompletes(e)
  BY <1>1, HandshakeKeepsNumbering
  DEF Moves, WriteValidationCompletes, WriteValidationThenRead, program, received
<1>2. CASE WriteValidationFails(e) \/ ReadError(e) \/ WriteError(e)
  BY <1>2, FailingKeepsNumbering
  DEF Moves, WriteValidationFails, ReadError, WriteError, program, inbound, received
<1>3. CASE ReadHeader(e)
  <2>1. UNCHANGED sent
    BY <1>3 DEF ReadHeader, program
  <2> QED
    BY <1>3, <2>1, ReadHeaderKeepsNumbering DEF Moves
<1>4. CASE ReadBody(e)
  <2>1. UNCHANGED sent
    BY <1>4 DEF ReadBody, program
  <2> QED
    BY <1>4, <2>1, ReadBodyKeepsNumbering DEF Moves
<1>5. CASE PostedSend(e)
  BY <1>5, PostedSendKeepsNumbering DEF Moves, PostedSend, QueueToSend, inbound, received
<1>6. CASE PostedClose(e)
  BY <1>6, PostedCloseKeepsNumbering DEF Moves, PostedClose, inbound, received
<1>7. CASE WriteHeader(e)
  BY <1>7, WriteHeaderKeepsNumbering DEF Moves, WriteHeader, program, inbound, received
<1>8. CASE WriteBody(e)
  BY <1>8, WriteBodyKeepsNumbering DEF Moves, WriteBody, program, inbound, received
<1> QED
  BY <1>1, <1>2, <1>3, <1>4, <1>5, <1>6, <1>7, <1>8 DEF Handler

LEMMA ProgramMoves ==
  ASSUME ReadChain, WriteChain, Numbering, NEW e \in Ends, Program(e)
  PROVE  Numbering' /\ Moves
<1>1. ASSUME NEW msg \in SentBy[e], Send(e, msg)
      PROVE  Numbering' /\ Moves
  <2>1. Sends(e) /\ UNCHANGED m_qMessagesIn
    BY <1>1, SessionAssumption DEF Send, Sends, inbound, received
  <2> QED
    BY <1>1, <2>1, SendKeepsNumbering DEF Moves
<1>2. CASE Disconnect(e)
  BY <1>2, DisconnectKeepsNumbering DEF Moves, Disconnect, inbound, received
<1> QED
  BY <1>1, <1>2 DEF Program

LEMMA StepMoves ==
  ASSUME ReadChain, WriteChain, Framed, Numbering, [Next]_vars
  PROVE  Numbering' /\ Moves
<1>1. CASE NetworkFails \/ RunReturns \/ UNCHANGED vars
  BY <1>1, QuietKeepsNumbering
  DEF Moves, NetworkFails, RunReturns, vars, program, inbound, received
<1>2. CASE ConnectToServer \/ TcpConnect
  BY <1>2, OpeningKeepsNumbering
  DEF Moves, ConnectToServer, TcpConnect, program, inbound, received
<1>3. CASE ConnectCompletes
  BY <1>3, HandshakeKeepsNumbering DEF Moves, ConnectCompletes, program, received
<1>4. CASE AcceptConnection
  <2>1. Sends("server") /\ UNCHANGED m_qMessagesIn
    BY <1>4, SessionAssumption DEF AcceptConnection, Sends, received
  <2> QED
    BY <1>4, <2>1, AcceptKeepsNumbering, BothEnds DEF Moves
<1>5. CASE ReadValidationServer
  BY <1>5, AnswerReadKeepsNumbering DEF Moves, ReadValidationServer, program, received
<1>6. CASE ReadValidationClient
  BY <1>6, ChallengeReadKeepsNumbering
  DEF Moves, ReadValidationClient, AnswerWith, program, received
<1>7. ASSUME NEW e \in Ends, Program(e) \/ Handler(e)
      PROVE  Numbering' /\ Moves
  BY <1>7, ProgramMoves, HandlerMoves
<1> QED
  BY <1>1, <1>2, <1>3, <1>4, <1>5, <1>6, <1>7, BothEnds DEF Next, ClientThread, ServerThread

(* The invariant behind the refinement: the queue, the posted lambdas and  *)
(* the stream hold consecutive stretches of what was sent, the stream from *)
(* the message that its reader is at.                                      *)
THEOREM AlwaysNumbered == Spec => []Numbering
<1>1. ReadChain /\ WriteChain /\ Framed /\ Numbering /\ [Next]_vars => Numbering'
  BY StepMoves
<1> QED
  BY InitNumbering, AlwaysReadChain, AlwaysWriteChain, AlwaysFramed, <1>1, PTL DEF Spec
-----------------------------------------------------------------------------
(* The refinement: Session implements a Channel in each direction.         *)

LEMMA HeadersAppend ==
  ASSUME NEW e \in Ends, m_qMessagesIn[e] \in Seq(Temporaries), NEW m \in Temporaries,
         m_qMessagesIn'[e] = Append(m_qMessagesIn[e], m)
  PROVE  /\ Headers(e)' = Append(Headers(e), m.header)
         /\ Len(Headers(e)) = Len(m_qMessagesIn[e])
<1> DEFINE s == m_qMessagesIn[e]
           t == Append(s, m)
           n == Len(s)
           V == Messages \cup {None}
           h == [i \in DOMAIN s |-> s[i].header]
           k == [i \in DOMAIN t |-> t[i].header]
<1>1. /\ s \in Seq(Temporaries) /\ t \in Seq(Temporaries) /\ n \in Nat /\ Len(t) = n + 1
      /\ \A i \in 1 .. n : t[i] = s[i]
      /\ t[n + 1] = m
  BY AppendProperties, LenProperties
<1>2. Headers(e) = h /\ Headers(e)' = k
  BY DEF Headers
<1>3. m.header \in V /\ \A x \in Temporaries : x.header \in V
  BY DEF Temporaries
<1> HIDE DEF s, t, V
<1>4. /\ DOMAIN s = 1 .. n /\ DOMAIN t = 1 .. n + 1
      /\ (\A i \in 1 .. n : s[i] \in Temporaries)
      /\ (\A i \in 1 .. n + 1 : t[i] \in Temporaries)
  BY <1>1, LenProperties, ElementOfSeq
<1> HIDE DEF n
<1>5. h \in [1 .. n -> V] /\ k \in [1 .. n + 1 -> V]
  BY <1>3, <1>4
<1>6. h \in Seq(V) /\ k \in Seq(V) /\ Len(h) = n /\ Len(k) = n + 1
  <2>1. n + 1 \in Nat
    BY <1>1 DEF n
  <2>2. h \in Seq(V) /\ k \in Seq(V)
    BY <1>1, <1>5, <2>1 DEF n
  <2>3. DOMAIN h = 1 .. n /\ DOMAIN k = 1 .. n + 1
    BY <1>5
  <2> HIDE DEF h, k
  <2>4. Len(h) = n /\ Len(k) = n + 1
    BY <1>1, <2>1, <2>2, <2>3, LenProperties DEF n
  <2> QED
    BY <2>2, <2>4
<1>7. /\ \A i \in 1 .. n : k[i] = h[i]
      /\ k[n + 1] = m.header
  BY <1>1, <1>4 DEF n
<1> HIDE DEF h, k
<1>8. /\ Append(h, m.header) \in Seq(V) /\ Len(Append(h, m.header)) = n + 1
      /\ \A i \in 1 .. n : Append(h, m.header)[i] = h[i]
      /\ Append(h, m.header)[n + 1] = m.header
  BY <1>3, <1>6, AppendProperties
<1>9. k = Append(h, m.header)
  <2>1. \A i \in 1 .. n + 1 : i \in 1 .. n \/ i = n + 1
    BY <1>1 DEF n
  <2> QED
    BY <1>6, <1>7, <1>8, <2>1, SeqEqual
<1> QED
  BY <1>2, <1>6, <1>9 DEF n, s

LEMMA MoveOfChannel ==
  ASSUME ReadChain, WriteChain, Moves, NEW e \in Ends
  PROVE  \/ /\ \E msg \in Messages : sent'[e] = Append(sent[e], msg)
            /\ Headers(Peer(e))' = Headers(Peer(e))
         \/ /\ Len(Headers(Peer(e))) < Len(sent[e])
            /\ Headers(Peer(e))' = Append(Headers(Peer(e)), sent[e][Len(Headers(Peer(e))) + 1])
            /\ sent'[e] = sent[e]
         \/ sent'[e] = sent[e] /\ Headers(Peer(e))' = Headers(Peer(e))
<1> DEFINE d == Peer(e)
<1>1. d \in Ends /\ Peer(d) = e /\ m_qMessagesIn[d] \in Seq(Temporaries)
  BY BothEnds, ChannelTyped
<1>2. m_qMessagesIn'[d] = m_qMessagesIn[d] => Headers(d)' = Headers(d)
  BY DEF Headers
<1>3. ASSUME NEW x \in Ends, Sends(x), UNCHANGED m_qMessagesIn
      PROVE  \/ \E msg \in Messages : sent'[e] = Append(sent[e], msg)
             \/ sent'[e] = sent[e]
  BY <1>3 DEF Sends, ReadChain, InboundTyped
<1>4. ASSUME NEW x \in Ends, Delivers(x), UNCHANGED sent
      PROVE  \/ m_qMessagesIn'[d] = m_qMessagesIn[d]
             \/ /\ Len(Headers(d)) < Len(sent[e])
                /\ Headers(d)' = Append(Headers(d), sent[e][Len(Headers(d)) + 1])
  <2>1. PICK m \in Temporaries : /\ m_qMessagesIn' = [m_qMessagesIn EXCEPT ![x] = Append(@, m)]
                                 /\ NextSent(x, m.header)
    BY <1>4 DEF Delivers
  <2>2. CASE x # d
    BY <1>1, <2>1, <2>2 DEF ReadChain, InboundTyped
  <2>3. CASE x = d
    <3>1. m_qMessagesIn'[d] = Append(m_qMessagesIn[d], m)
      BY <1>1, <2>1, <2>3 DEF ReadChain, InboundTyped
    <3>2. /\ Len(m_qMessagesIn[d]) < Len(sent[e])
          /\ m.header = sent[e][Len(m_qMessagesIn[d]) + 1]
      BY <1>1, <2>1, <2>3 DEF NextSent
    <3> HIDE DEF d
    <3>3. /\ Headers(d)' = Append(Headers(d), m.header)
          /\ Len(Headers(d)) = Len(m_qMessagesIn[d])
      BY <1>1, <3>1, HeadersAppend
    <3> QED
      BY <3>2, <3>3
  <2> QED
    BY <2>2, <2>3
<1> QED
  BY <1>2, <1>3, <1>4 DEF Moves

(* Each direction of the connection implements the message channel: what   *)
(* the other program is given is a prefix of what was sent, once each and  *)
(* in order, whatever closes, fails or is interleaved.                     *)
THEOREM SessionIsChannel == Spec => IsChannel
<1>1. Init => ToServer!Init /\ ToClient!Init
  <2> SUFFICES ASSUME Init PROVE ToServer!Init /\ ToClient!Init
    OBVIOUS
  <2>1. DOMAIN << >> = {}
    OBVIOUS
  <2>2. \A e \in Ends : sent[e] = << >> /\ m_qMessagesIn[e] = << >>
    BY DEF Init
  <2>3. [i \in {} |-> << >>[i].header] = << >>
    OBVIOUS
  <2>4. \A e \in Ends : Headers(e) = << >>
    BY <2>1, <2>2, <2>3 DEF Headers
  <2> QED
    BY <2>2, <2>4, BothEnds DEF ToServer!Init, ToClient!Init
<1>2. ReadChain /\ WriteChain /\ Framed /\ Numbering /\ [Next]_vars =>
        [ToServer!Next]_(ToServer!vars) /\ [ToClient!Next]_(ToClient!vars)
  <2> SUFFICES ASSUME ReadChain, WriteChain, Framed, Numbering, [Next]_vars
               PROVE  [ToServer!Next]_(ToServer!vars) /\ [ToClient!Next]_(ToClient!vars)
    OBVIOUS
  <2>1. Moves
    BY StepMoves
  <2>2. [ToServer!Next]_(ToServer!vars)
    BY <2>1, MoveOfChannel, BothEnds
    DEF ToServer!Next, ToServer!Send, ToServer!Receive, ToServer!vars
  <2>3. [ToClient!Next]_(ToClient!vars)
    BY <2>1, MoveOfChannel, BothEnds
    DEF ToClient!Next, ToClient!Send, ToClient!Receive, ToClient!vars
  <2> QED
    BY <2>2, <2>3
<1> QED
  BY <1>1, <1>2, AlwaysReadChain, AlwaysWriteChain, AlwaysFramed, AlwaysNumbered, PTL
  DEF Spec, IsChannel, ToServer!Spec, ToClient!Spec
=============================================================================
