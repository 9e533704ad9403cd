---------------------------- MODULE ClientProofs ----------------------------
(***************************************************************************)
(* Theorems about Client, for any number of connections and any bounds.    *)
(***************************************************************************)
EXTENDS Client, SequenceTheorems, TLAPS

(* The write chain of a connection: at most one write is outstanding or    *)
(* waits for its handler, and while one is its message is in the queue.    *)
IsWriteOf(c, entry) == entry.op = "write" /\ entry.conn = c

WriteChain == \A c \in Connections :
  /\ "write" \in ops[c] => /\ m_qMessagesOut[c] > 0
                           /\ \A i \in DOMAIN port : ~IsWriteOf(c, port[i])
  /\ \A i \in DOMAIN port : IsWriteOf(c, port[i]) =>
       /\ m_qMessagesOut[c] > 0
       /\ \A j \in DOMAIN port : IsWriteOf(c, port[j]) => i = j

(* Every connection has been given up, undestroyed, by the time Connect    *)
(* makes the next one.                                                     *)
Released == /\ destroyed = {}
            /\ pc = "begin" => m_connection = Null

(* Posts are made on a connection.                                         *)
Posting == pc \in {"send", "close"} => m_connection # Null

Inv == TypeOK /\ WriteChain /\ Released /\ Posting
-----------------------------------------------------------------------------
LEMMA StopTyped == Stop \in Entries /\ Stop.op # "write" /\ Stop.conn = Null
BY DEF Stop, Entries

LEMMA EntryTyped ==
  ASSUME NEW c \in Connections, NEW ok \in BOOLEAN,
         NEW op \in OpKinds \cup {"send", "close"}
  PROVE  [op |-> op, conn |-> c, ok |-> ok] \in Entries
BY DEF Entries

(* What Append and Tail do to the indexes of the port.                     *)
LEMMA AppendIndexes ==
  ASSUME NEW s \in Seq(Entries), NEW e \in Entries
  PROVE  /\ Append(s, e) \in Seq(Entries)
         /\ DOMAIN Append(s, e) = 1 .. Len(s) + 1
         /\ DOMAIN s = 1 .. Len(s) /\ Len(s) \in Nat
         /\ \A i \in 1 .. Len(s) : Append(s, e)[i] = s[i]
         /\ Append(s, e)[Len(s) + 1] = e
BY AppendProperties, LenProperties

LEMMA TailIndexes ==
  ASSUME NEW s \in Seq(Entries), s # << >>
  PROVE  /\ Tail(s) \in Seq(Entries)
         /\ Head(s) = s[1] /\ 1 \in DOMAIN s
         /\ \A i \in DOMAIN Tail(s) : Tail(s)[i] = s[i + 1] /\ i + 1 \in DOMAIN s
                                      /\ i \in Nat
BY HeadTailProperties, EmptySeq, LenProperties

(* The context's queue after Serve: the tail, or nothing but the stop      *)
(* event.                                                                  *)
LEMMA ServeShifts ==
  ASSUME TypeOK, NEW c \in Connections, NEW op, NEW ok, NEW started,
         Serve(c, op, ok, started)
  PROVE  /\ 1 \in DOMAIN port /\ port[1] = [op |-> op, conn |-> c, ok |-> ok]
         /\ port' \in Seq(Entries) /\ stopped' \in BOOLEAN
         /\ \A i \in DOMAIN port' :
              port'[i] = Stop \/ (i \in Nat /\ i + 1 \in DOMAIN port /\ port'[i] = port[i + 1])
<1>1. port \in Seq(Entries) /\ port # << >> /\ stopped \in BOOLEAN
  BY DEF TypeOK, Serve
<1>2. port' = <<Stop>> \/ port' = Tail(port)
  BY DEF Serve
<1>3. <<Stop>> \in Seq(Entries) /\ \A i \in DOMAIN <<Stop>> : <<Stop>>[i] = Stop
  BY StopTyped
<1>4. stopped' \in BOOLEAN
  BY <1>1 DEF Serve
<1> QED
  BY <1>1, <1>2, <1>3, <1>4, TailIndexes DEF Serve
-----------------------------------------------------------------------------
LEMMA InitInv == Init => Inv
<1> SUFFICES ASSUME Init PROVE Inv
  OBVIOUS
<1>1. TypeOK
  <2>1. << >> \in Seq(Entries)
    OBVIOUS
  <2>2. 0 \in 0 .. MaxConnects /\ 0 \in 0 .. MaxReads /\ 0 \in 0 .. MaxSends
    BY ClientAssumption
  <2> QED
    BY <2>1, <2>2 DEF Init, TypeOK
<1>2. WriteChain /\ Released /\ Posting
  BY DEF Init, WriteChain, Released, Posting
<1> QED
  BY <1>1, <1>2 DEF Inv

(* The main thread.                                                        *)
LEMMA AppendKeepsChain ==
  ASSUME TypeOK, WriteChain, NEW e \in Entries, e.op # "write",
         port' = Append(port, e), UNCHANGED <<ops, m_qMessagesOut>>
  PROVE  WriteChain' /\ port' \in Seq(Entries)
<1>1. port \in Seq(Entries)
  BY DEF TypeOK
<1>2. port' \in Seq(Entries)
  BY <1>1, AppendIndexes
<1>3. \A c \in Connections, i \in DOMAIN port' :
        IsWriteOf(c, port'[i]) => i \in DOMAIN port /\ port'[i] = port[i]
  BY <1>1, AppendIndexes DEF IsWriteOf
<1> QED
  BY <1>2, <1>3 DEF WriteChain

LEMMA ConnectKeepsInv == Inv /\ Connect => Inv'
<1> SUFFICES ASSUME Inv, Connect PROVE Inv'
  OBVIOUS
<1> USE DEF Inv
<1>1. connects + 1 \in Connections
  BY ClientAssumption DEF Connect, TypeOK, Connections
<1>2. TypeOK'
  <2>1. connects' \in 0 .. MaxConnects
    BY ClientAssumption DEF Connect, TypeOK
  <2>2. destroyed' \subseteq Connections /\ m_connection' \in Connections
    BY <1>1 DEF Connect, TypeOK
  <2>3. /\ m_socket' \in [Connections -> {"none", "open", "closed"}]
        /\ ops' \in [Connections -> SUBSET OpKinds]
    BY <1>1 DEF Connect, TypeOK, OpKinds
  <2> QED
    BY <2>1, <2>2, <2>3 DEF Connect, TypeOK, Goto, network
<1>3. WriteChain'
  BY <1>1 DEF Connect, TypeOK, WriteChain, OpKinds
<1>4. Released' /\ Posting'
  BY <1>1, ClientAssumption DEF Connect, Released, Posting, Goto
<1> QED
  BY <1>2, <1>3, <1>4

LEMMA PostKeepsInv == Inv /\ (PostSend \/ PostClose) => Inv'
<1> SUFFICES ASSUME Inv, PostSend \/ PostClose PROVE Inv'
  OBVIOUS
<1> USE DEF Inv
<1>1. PICK op \in {"send", "close"} : Post(op)
  BY DEF PostSend, PostClose
<1>2. m_connection \in Connections
  BY DEF PostSend, PostClose, Posting, TypeOK
<1>3. [op |-> op, conn |-> m_connection, ok |-> TRUE] \in Entries
  BY <1>2, EntryTyped
<1>4. WriteChain' /\ port' \in Seq(Entries)
  BY <1>1, <1>3, AppendKeepsChain DEF Post, PostSend, PostClose, sockets
<1>5. TypeOK'
  BY <1>4 DEF TypeOK, PostSend, PostClose, Goto, program, sockets, network
<1>6. Released' /\ Posting'
  BY DEF Released, Posting, PostSend, PostClose, Goto, program
<1> QED
  BY <1>4, <1>5, <1>6

LEMMA StopContextKeepsInv == Inv /\ StopContext => Inv'
<1> SUFFICES ASSUME Inv, StopContext PROVE Inv'
  OBVIOUS
<1> USE DEF Inv
<1>1. WriteChain' /\ port' \in Seq(Entries)
  <2>1. CASE stopped
    BY <2>1 DEF StopContext, WriteChain, TypeOK, sockets
  <2>2. CASE ~stopped
    BY <2>2, StopTyped, AppendKeepsChain DEF StopContext, sockets
  <2> QED
    BY <2>1, <2>2
<1>2. TypeOK'
  BY <1>1 DEF TypeOK, StopContext, Goto, program, sockets, network
<1>3. Released' /\ Posting'
  BY DEF Released, Posting, StopContext, Goto, program
<1> QED
  BY <1>1, <1>2, <1>3

LEMMA MainKeepsInv == Inv /\ Main => Inv'
<1> SUFFICES ASSUME Inv, Main PROVE Inv'
  OBVIOUS
<1> USE DEF Inv
<1>1. CASE ConnectThrows \/ Send \/ Quit \/ Poll \/ Disconnect
  <2> USE DEF ConnectThrows, Send, Quit, Poll, PollMoreThan, Disconnect,
              DisconnectBy, Goto, program, context, sockets, network
  <2>1. TypeOK'
    <3>1. m_qMessagesIn' \in Nat
      BY <1>1 DEF TypeOK
    <3>2. sends' \in 0 .. MaxSends
      BY <1>1, ClientAssumption DEF TypeOK
    <3>3. pc' \in {"loop", "last", "send", "disconnect", "close", "stop"}
      BY <1>1
    <3> QED
      BY <1>1, <3>1, <3>2, <3>3 DEF TypeOK
  <2>2. WriteChain'
    BY <1>1 DEF WriteChain
  <2>3. Released' /\ Posting'
    BY <1>1 DEF Released, Posting, IsConnected
  <2> QED
    BY <2>1, <2>2, <2>3
<1>2. CASE JoinAndRelease
  <2> USE <1>2 DEF JoinAndRelease, JoinAndGiveUp, Goto, sockets, network
  <2>1. TypeOK'
    BY DEF TypeOK
  <2>2. WriteChain'
    BY DEF WriteChain
  <2>3. Released' /\ Posting'
    BY DEF Released, Posting
  <2> QED
    BY <2>1, <2>2, <2>3
<1> QED
  BY <1>1, <1>2, ConnectKeepsInv, PostKeepsInv, StopContextKeepsInv
     DEF Main, Looping, Disconnecting
-----------------------------------------------------------------------------
(* The network.                                                            *)
LEMMA NetworkKeepsInv == Inv /\ Network => Inv'
<1> SUFFICES ASSUME Inv, NEW c \in Connections,
                    Cut(c) \/ \E k \in OpKinds, ok \in BOOLEAN : Completes(c, k, ok)
             PROVE  Inv'
  BY DEF Network
<1> USE DEF Inv
<1>1. CASE Cut(c)
  BY <1>1 DEF Cut, TypeOK, WriteChain, Released, Posting, program, context, sockets
<1>2. CASE \E k \in OpKinds, ok \in BOOLEAN : Completes(c, k, ok)
  <2>1. PICK k \in OpKinds, ok \in BOOLEAN : Completes(c, k, ok)
    BY <1>2
  <2> DEFINE e == [op |-> k, conn |-> c, ok |-> ok]
  <2>2. e \in Entries /\ port' = Append(port, e) /\ port \in Seq(Entries)
    BY <2>1, EntryTyped DEF Completes, TypeOK
  <2>3. TypeOK'
    <3>1. port' \in Seq(Entries)
      BY <2>2, AppendIndexes
    <3>2. reads' \in 0 .. MaxReads
      BY <2>1, ClientAssumption DEF Completes, TypeOK
    <3> QED
      BY <2>1, <3>1, <3>2 DEF Completes, TypeOK, program, sockets
  <2>4. WriteChain'
    <3>1. /\ DOMAIN port' = 1 .. Len(port) + 1 /\ DOMAIN port = 1 .. Len(port)
          /\ Len(port) \in Nat
          /\ \A i \in 1 .. Len(port) : port'[i] = port[i]
          /\ port'[Len(port) + 1] = e
      BY <2>2, AppendIndexes
    <3>2. /\ \A d \in Connections : d # c => ops'[d] = ops[d]
          /\ ops'[c] = ops[c] \ {k} /\ k \in ops[c]
          /\ m_qMessagesOut' = m_qMessagesOut
      BY <2>1 DEF Completes, TypeOK, sockets
    <3>3. ASSUME NEW d \in Connections, ~(d = c /\ k = "write")
          PROVE  \A i \in DOMAIN port' : IsWriteOf(d, port'[i]) =>
                   i \in DOMAIN port /\ port'[i] = port[i]
      BY <3>1, <3>3 DEF IsWriteOf
    <3>4. ASSUME k = "write"
          PROVE  \A i \in DOMAIN port' : IsWriteOf(c, port'[i]) => i = Len(port) + 1
      BY <3>1, <3>2, <3>4 DEF IsWriteOf, WriteChain
    <3> QED
      BY <3>2, <3>3, <3>4 DEF WriteChain
  <2>5. Released' /\ Posting'
    BY <2>1 DEF Completes, Released, Posting, program
  <2> QED
    BY <2>3, <2>4, <2>5
<1> QED
  BY <1>1, <1>2
-----------------------------------------------------------------------------
(* The asio thread.                                                        *)
LEMMA ServeKeepsProgram ==
  ASSUME Inv, NEW c \in Connections, NEW op, NEW ok, NEW started,
         Serve(c, op, ok, started)
  PROVE  Released' /\ Posting'
BY DEF Inv, Serve, Released, Posting, program

(* A handler that starts no write, and is that of none.                    *)
LEMMA ServeKeepsChain ==
  ASSUME Inv, NEW c \in Connections, NEW op, NEW ok, NEW started,
         Serve(c, op, ok, started), "write" \notin started,
         UNCHANGED m_qMessagesOut
  PROVE  WriteChain'
<1>1. /\ \A i \in DOMAIN port' : port'[i] = Stop \/
           (i \in Nat /\ i + 1 \in DOMAIN port /\ port'[i] = port[i + 1])
  BY ServeShifts DEF Inv
<1>2. \A d \in Connections : "write" \in ops'[d] => "write" \in ops[d]
  BY DEF Serve, Inv, TypeOK
<1>3. \A d \in Connections, i \in DOMAIN port' : IsWriteOf(d, port'[i]) =>
        i \in Nat /\ i + 1 \in DOMAIN port /\ port'[i] = port[i + 1]
  BY <1>1, StopTyped DEF IsWriteOf
<1> QED
  BY <1>2, <1>3 DEF WriteChain, Inv

LEMMA HandlerKeepsInv ==
  ASSUME Inv, NEW c \in Connections, Handler(c)
  PROVE  Inv'
<1> USE DEF Inv
<1>1. CASE Connected(c) \/ ConnectFailed(c) \/ ReadDone(c) \/ ReadFailed(c)
           \/ WriteFailed(c) \/ PostedClose(c)
  <2>1. PICK op \in {"connect", "read", "write", "close"}, ok \in BOOLEAN,
             started \in SUBSET {"read"} : Serve(c, op, ok, started)
    BY <1>1 DEF Connected, ConnectFailed, ReadDone, ReadFailed, WriteFailed,
                PostedClose
  <2>2. UNCHANGED m_qMessagesOut
    BY <1>1 DEF Connected, ConnectFailed, ReadDone, ReadFailed, WriteFailed,
                PostedClose, Close, sockets
  <2>3. port' \in Seq(Entries) /\ stopped' \in BOOLEAN
    BY <2>1, ServeShifts
  <2>4. TypeOK'
    <3>1. /\ m_socket' \in [Connections -> {"none", "open", "closed"}]
          /\ established' \subseteq Connections
          /\ m_qMessagesIn' \in Nat
      <4>1. CASE Connected(c) \/ ConnectFailed(c) \/ ReadDone(c)
        <5>1. m_qMessagesIn' \in Nat /\ m_socket' = m_socket
          <6>1. /\ m_qMessagesIn' = m_qMessagesIn \/ m_qMessagesIn' = m_qMessagesIn + 1
                /\ m_socket' = m_socket
            BY <4>1 DEF Connected, ConnectFailed, ReadDone, sockets
          <6> QED
            BY <6>1 DEF TypeOK
        <5>2. established' \subseteq established \cup {c}
          BY <4>1 DEF Connected, ConnectFailed, ReadDone, sockets
        <5> QED
          BY <5>1, <5>2 DEF TypeOK
      <4>2. CASE Close(c)
        BY <4>2 DEF TypeOK, Close
      <4> QED
        BY <1>1, <4>1, <4>2 DEF ReadFailed, WriteFailed, PostedClose
    <3> QED
      BY <2>1, <2>2, <2>3, <3>1
         DEF TypeOK, Serve, OpKinds, program, network
  <2>5. WriteChain'
    BY <2>1, <2>2, ServeKeepsChain
  <2> QED
    BY <2>1, <2>4, <2>5, ServeKeepsProgram
<1>2. CASE PostedSend(c)
  <2> DEFINE started == IF m_qMessagesOut[c] = 0 THEN {"write"} ELSE {}
  <2>1. Serve(c, "send", TRUE, started)
    BY <1>2 DEF PostedSend
  <2>2. /\ \A i \in DOMAIN port' : port'[i] = Stop \/
             (i \in Nat /\ i + 1 \in DOMAIN port /\ port'[i] = port[i + 1])
        /\ port' \in Seq(Entries) /\ stopped' \in BOOLEAN
    BY <2>1, ServeShifts
  <2>3. TypeOK'
    <3>1. m_qMessagesOut' \in [Connections -> Nat] /\ m_socket' = m_socket
          /\ established' = established /\ m_qMessagesIn' = m_qMessagesIn
      BY <1>2 DEF TypeOK, PostedSend
    <3>2. ops' \in [Connections -> SUBSET OpKinds]
      BY <2>1 DEF TypeOK, Serve, OpKinds
    <3> HIDE DEF started
    <3> QED
      BY <2>1, <2>2, <3>1, <3>2 DEF TypeOK, Serve, program, network
  <2>4. \A d \in Connections, i \in DOMAIN port' : IsWriteOf(d, port'[i]) =>
          i \in Nat /\ i + 1 \in DOMAIN port /\ port'[i] = port[i + 1]
    BY <2>2, StopTyped DEF IsWriteOf
  <2>5. /\ \A d \in Connections : m_qMessagesOut'[d] \in Nat /\ m_qMessagesOut[d] \in Nat
        /\ \A d \in Connections : d # c => m_qMessagesOut'[d] = m_qMessagesOut[d]
                                           /\ ops'[d] = ops[d]
        /\ m_qMessagesOut'[c] = m_qMessagesOut[c] + 1
        /\ ops'[c] = ops[c] \cup started
    BY <1>2, <2>1 DEF TypeOK, PostedSend, Serve
  <2>6. WriteChain'
    BY <2>4, <2>5 DEF WriteChain
  <2> QED
    BY <2>1, <2>3, <2>6, ServeKeepsProgram
<1>3. CASE WriteDone(c)
  <2> DEFINE started == IF m_qMessagesOut[c] > 1 THEN {"write"} ELSE {}
  <2>1. Serve(c, "write", TRUE, started)
    BY <1>3 DEF WriteDone
  <2>2. /\ 1 \in DOMAIN port /\ IsWriteOf(c, port[1])
        /\ \A i \in DOMAIN port' : port'[i] = Stop \/
             (i \in Nat /\ i + 1 \in DOMAIN port /\ port'[i] = port[i + 1])
        /\ port' \in Seq(Entries) /\ stopped' \in BOOLEAN
    <3> HIDE DEF started
    <3>1. port[1] = [op |-> "write", conn |-> c, ok |-> TRUE]
      BY <2>1, ServeShifts, ZenonT(60)
    <3>2. IsWriteOf(c, port[1])
      BY <3>1 DEF IsWriteOf
    <3> QED
      BY <2>1, <3>2, ServeShifts
  <2>3. m_qMessagesOut[c] \in Nat /\ m_qMessagesOut[c] > 0 /\ "write" \notin ops[c]
    BY <2>2 DEF WriteChain, TypeOK
  <2>4. TypeOK'
    <3>1. m_qMessagesOut' \in [Connections -> Nat] /\ m_socket' = m_socket
          /\ established' = established /\ m_qMessagesIn' = m_qMessagesIn
      BY <1>3, <2>3 DEF TypeOK, WriteDone
    <3>2. ops' \in [Connections -> SUBSET OpKinds]
      BY <2>1 DEF TypeOK, Serve, OpKinds
    <3> HIDE DEF started
    <3> QED
      BY <2>1, <2>2, <3>1, <3>2 DEF TypeOK, Serve, program, network
  <2>5. \A d \in Connections, i \in DOMAIN port' : IsWriteOf(d, port'[i]) =>
          i \in DOMAIN port' /\ i \in Nat /\ i + 1 \in DOMAIN port
          /\ port'[i] = port[i + 1]
    BY <2>2, StopTyped DEF IsWriteOf
  <2>6. \A i \in DOMAIN port' : i \in Nat => ~IsWriteOf(c, port'[i])
    <3> SUFFICES ASSUME NEW i \in DOMAIN port', i \in Nat, IsWriteOf(c, port'[i])
                 PROVE  FALSE
      OBVIOUS
    <3>1. i + 1 \in DOMAIN port /\ IsWriteOf(c, port[i + 1])
      BY <2>5
    <3>2. i + 1 = 1
      BY <2>2, <3>1 DEF WriteChain
    <3>3. i \in 1 .. Len(port')
      BY <2>2, LenProperties
    <3> QED
      BY <3>2, <3>3
  <2>7. /\ \A d \in Connections : d # c => m_qMessagesOut'[d] = m_qMessagesOut[d]
                                           /\ ops'[d] = ops[d]
        /\ m_qMessagesOut'[c] = m_qMessagesOut[c] - 1
        /\ ops'[c] = ops[c] \cup started
    BY <1>3, <2>1 DEF TypeOK, WriteDone, Serve
  <2>8. ASSUME NEW d \in Connections, d # c
        PROVE  /\ "write" \in ops'[d] => /\ m_qMessagesOut'[d] > 0
                                         /\ \A i \in DOMAIN port' : ~IsWriteOf(d, port'[i])
               /\ \A i \in DOMAIN port' : IsWriteOf(d, port'[i]) =>
                    /\ m_qMessagesOut'[d] > 0
                    /\ \A j \in DOMAIN port' : IsWriteOf(d, port'[j]) => i = j
    BY <2>5, <2>7, <2>8 DEF WriteChain
  <2>9. WriteChain'
    BY <2>3, <2>5, <2>6, <2>7, <2>8 DEF WriteChain
  <2> QED
    BY <2>1, <2>4, <2>9, ServeKeepsProgram
<1> QED
  BY <1>1, <1>2, <1>3 DEF Handler

LEMMA RunBeginsKeepsInv == Inv /\ RunBegins => Inv'
<1> SUFFICES ASSUME Inv, RunBegins PROVE Inv'
  OBVIOUS
<1> USE DEF Inv
<1>1. WriteChain' /\ port' \in Seq(Entries)
  <2>1. CASE port' = port
    BY <2>1 DEF RunBegins, WriteChain, TypeOK, sockets
  <2>2. CASE port' = Append(port, Stop)
    BY <2>2, StopTyped, AppendKeepsChain DEF RunBegins, sockets
  <2> QED
    BY <2>1, <2>2 DEF RunBegins
<1>2. thread' \in {"serve", "returned"} /\ stopped' \in BOOLEAN
  BY DEF RunBegins, TypeOK
<1>3. TypeOK'
  BY <1>1, <1>2 DEF TypeOK, RunBegins, program, sockets, network
<1>4. Released' /\ Posting'
  BY DEF Released, Posting, RunBegins, program
<1> QED
  BY <1>1, <1>3, <1>4

LEMMA StopEventKeepsInv == Inv /\ StopEvent => Inv'
<1> SUFFICES ASSUME Inv, StopEvent PROVE Inv'
  OBVIOUS
<1> USE DEF Inv
<1>1. /\ port \in Seq(Entries) /\ port # << >> /\ Tail(port) \in Seq(Entries)
      /\ port' = Append(Tail(port), Stop)
  BY TailIndexes DEF TypeOK, StopEvent
<1>2. port' \in Seq(Entries)
  BY <1>1, StopTyped, AppendIndexes
<1>3. \A c \in Connections, i \in DOMAIN port' : IsWriteOf(c, port'[i]) =>
        i \in Nat /\ i + 1 \in DOMAIN port /\ port'[i] = port[i + 1]
  <2> SUFFICES ASSUME NEW c \in Connections, NEW i \in DOMAIN port',
                      IsWriteOf(c, port'[i])
               PROVE  i \in Nat /\ i + 1 \in DOMAIN port /\ port'[i] = port[i + 1]
    OBVIOUS
  <2>1. i \in DOMAIN Tail(port) /\ port'[i] = Tail(port)[i]
    BY <1>1, StopTyped, AppendIndexes DEF IsWriteOf
  <2> QED
    BY <1>1, <2>1, TailIndexes
<1>4. WriteChain'
  BY <1>3 DEF WriteChain, StopEvent, sockets
<1>5. TypeOK'
  BY <1>2 DEF TypeOK, StopEvent, program, sockets, network
<1>6. Released' /\ Posting'
  BY DEF Released, Posting, StopEvent, program
<1> QED
  BY <1>4, <1>5, <1>6

LEMMA NextKeepsInv == Inv /\ [Next]_vars => Inv'
<1>1. ASSUME Inv, UNCHANGED vars PROVE Inv'
  BY <1>1 DEF Inv, TypeOK, WriteChain, Released, Posting, vars, program,
              context, sockets, network
<1> QED
  BY <1>1, MainKeepsInv, NetworkKeepsInv, RunBeginsKeepsInv,
     StopEventKeepsInv, HandlerKeepsInv DEF Next, Run
-----------------------------------------------------------------------------
LEMMA AlwaysInv == Spec => []Inv
BY InitInv, NextKeepsInv, PTL DEF Spec

(* Main thread, asio thread and completion port keep their types; above    *)
(* all, no queue of messages is popped when it is empty (net_client.h,     *)
(* SimpleClient.cpp).                                                      *)
THEOREM TypeCorrect == Spec => []TypeOK
<1>1. Inv => TypeOK
  BY DEF Inv
<1> QED
  BY <1>1, AlwaysInv, PTL

(* No handler outlives its connection, however often the program connects: *)
(* Connect never takes the place of a connection that is owned, and        *)
(* Disconnect releases it.                                                 *)
THEOREM HandlersKeepConnection == Spec => []HandlersHaveConnection
<1>1. Inv => HandlersHaveConnection
  BY DEF Inv, Released, HandlersHaveConnection
<1> QED
  BY <1>1, AlwaysInv, PTL
-----------------------------------------------------------------------------
(* A connection which reached the server is closed by the time run() has   *)
(* returned.                                                               *)

HasEntry(op, c) == \E i \in DOMAIN port : port[i].op = op /\ port[i].conn = c

Owned == m_connection = Null <=> thread = "none"

(* Connections are numbered as they are made, and opened then.             *)
Numbered ==
  /\ m_connection # Null => m_connection <= connects
  /\ \A c \in Connections :
       IF c <= connects THEN m_socket[c] # "none"
       ELSE /\ ops[c] = {} /\ c \notin established
            /\ \A i \in DOMAIN port : port[i].conn # c

(* A live connection has a read under way, and a thread to serve it.       *)
ReadChain == \A c \in established : m_socket[c] = "open" =>
  /\ m_connection = c /\ thread = "serve"
  /\ "read" \in ops[c] \/ HasEntry("read", c)

(* Disconnect posts its close before it stops the context.                 *)
ClosePosted == pc = "stop" /\ IsConnected => HasEntry("close", m_connection)

(* A stop event left over by an earlier run() is ahead of everything that  *)
(* concerns the connection.                                                *)
Late(c) == \E s \in DOMAIN port :
  /\ port[s] = Stop
  /\ \A i \in 1 .. s : port[i].conn # c

(* The connection is live, or may become so.                               *)
Served(c) ==
  /\ m_socket[c] = "open"
  /\ c \in established \/ "connect" \in ops[c] \/ HasEntry("connect", c)

ClosedFirst(c) == \A j \in DOMAIN port : port[j] = Stop =>
  \E i \in 1 .. j : port[i].op = "close" /\ port[i].conn = c

(* A run() will not hear of the connection, or its stop event is behind    *)
(* the close.                                                              *)
StopEvents == thread \in {"begin", "serve"} =>
  \/ Late(m_connection) /\ m_connection \notin established
  \/ Served(m_connection) => ClosedFirst(m_connection)

Closing == Owned /\ Numbered /\ ReadChain /\ ClosePosted /\ StopEvents
-----------------------------------------------------------------------------
(* What the steps do to the port.                                          *)
LEMMA AppendEntries ==
  ASSUME port \in Seq(Entries), NEW e \in Entries, port' = Append(port, e),
         NEW c
  PROVE  /\ \A op : HasEntry(op, c) => HasEntry(op, c)'
         /\ \A op : HasEntry(op, c)' => HasEntry(op, c) \/ (e.op = op /\ e.conn = c)
         /\ HasEntry(e.op, e.conn)'
         /\ Late(c) => Late(c)'
         /\ ClosedFirst(c) /\ (e # Stop \/ HasEntry("close", c)) => ClosedFirst(c)'
<1>1. /\ DOMAIN port' = 1 .. Len(port) + 1
      /\ DOMAIN port = 1 .. Len(port) /\ Len(port) \in Nat
      /\ \A i \in 1 .. Len(port) : port'[i] = port[i]
      /\ port'[Len(port) + 1] = e
  BY AppendIndexes
<1>2. \A op : HasEntry(op, c) => HasEntry(op, c)'
  BY <1>1 DEF HasEntry
<1>3. \A op : HasEntry(op, c)' => HasEntry(op, c) \/ (e.op = op /\ e.conn = c)
  BY <1>1 DEF HasEntry
<1>4. HasEntry(e.op, e.conn)'
  BY <1>1 DEF HasEntry
<1>5. Late(c) => Late(c)'
  BY <1>1 DEF Late
<1>6. ClosedFirst(c) /\ (e # Stop \/ HasEntry("close", c)) => ClosedFirst(c)'
  <2> SUFFICES ASSUME ClosedFirst(c), e # Stop \/ HasEntry("close", c),
                      NEW j \in DOMAIN port', port'[j] = Stop
               PROVE  \E i \in 1 .. j : port'[i].op = "close" /\ port'[i].conn = c
    BY DEF ClosedFirst
  <2>1. CASE j \in DOMAIN port
    BY <1>1, <2>1 DEF ClosedFirst
  <2>2. CASE j = Len(port) + 1
    BY <1>1, <2>2 DEF HasEntry
  <2> QED
    BY <1>1, <2>1, <2>2
<1> QED
  BY <1>2, <1>3, <1>4, <1>5, <1>6

LEMMA OneLong ==
  ASSUME NEW n \in Nat, n # 0, 1 .. n - 1 = {}
  PROVE  n = 1
<1>1. ~(1 =< n - 1)
  OBVIOUS
<1> QED
  BY <1>1

LEMMA ServeEntries ==
  ASSUME TypeOK, NEW c \in Connections, NEW op, NEW ok, NEW started,
         Serve(c, op, ok, started), op # "stop", NEW d \in Connections
  PROVE  /\ HasEntry(op, c)
         /\ \A o : HasEntry(o, d)' => HasEntry(o, d) \/ o = "stop"
         /\ \A o : HasEntry(o, d) /\ ~(o = op /\ d = c) => HasEntry(o, d)'
         /\ Late(d) => Late(d)' /\ d # c
         /\ ClosedFirst(d) /\ ~(op = "close" /\ d = c) =>
              ClosedFirst(d)' \/ (~Outstanding' /\ port' = <<Stop>>)
<1>1. port \in Seq(Entries) /\ port # << >> /\ Null \notin Connections
  BY ClientAssumption DEF TypeOK, Serve
<1>2. /\ 1 \in DOMAIN port /\ DOMAIN port = 1 .. Len(port) /\ Len(port) \in Nat
      /\ port[1].op = op /\ port[1].conn = c /\ port[1] # Stop
  <2>1. port[1] = [op |-> op, conn |-> c, ok |-> ok] /\ 1 \in DOMAIN port
    BY ServeShifts
  <2>2. port[1].op = op /\ port[1].conn = c
    BY <2>1
  <2>3. port[1] # Stop
    BY <1>1, <2>2, StopTyped
  <2> QED
    BY <1>1, <2>1, <2>2, <2>3, LenProperties
<1>3. /\ Tail(port) \in Seq(Entries) /\ DOMAIN Tail(port) = 1 .. Len(port) - 1
      /\ \A i \in 1 .. Len(port) - 1 : Tail(port)[i] = port[i + 1]
  BY <1>1, HeadTailProperties, LenProperties
<1>4. \/ port' = Tail(port)
      \/ port' = <<Stop>> /\ Tail(port) = << >> /\ ~Outstanding'
  BY DEF TypeOK, Serve
<1>5. CASE port' = Tail(port)
  <2>1. \A o : HasEntry(o, d)' => HasEntry(o, d) \/ o = "stop"
    BY <1>2, <1>3, <1>5 DEF HasEntry
  <2>2. ASSUME NEW o, HasEntry(o, d), ~(o = op /\ d = c)
        PROVE  HasEntry(o, d)'
    <3>1. PICK i \in DOMAIN port : port[i].op = o /\ port[i].conn = d
      BY <2>2 DEF HasEntry
    <3>2. i - 1 \in DOMAIN port' /\ port'[i - 1] = port[i]
      BY <1>2, <1>3, <1>5, <2>2, <3>1
    <3> QED
      BY <3>1, <3>2 DEF HasEntry
  <2>3. ASSUME Late(d)
        PROVE  Late(d)' /\ d # c
    <3>1. PICK s \in DOMAIN port : port[s] = Stop /\ \A i \in 1 .. s : port[i].conn # d
      BY <2>3 DEF Late
    <3>2. s > 1 /\ 1 \in 1 .. s /\ s - 1 \in DOMAIN port' /\ port'[s - 1] = Stop
      BY <1>2, <1>3, <1>5, <3>1
    <3>3. \A i \in 1 .. s - 1 : port'[i].conn # d
      BY <1>2, <1>3, <1>5, <3>1, <3>2
    <3> QED
      BY <1>2, <3>1, <3>2, <3>3 DEF Late
  <2>4. ASSUME ClosedFirst(d), ~(op = "close" /\ d = c)
        PROVE  ClosedFirst(d)'
    <3> SUFFICES ASSUME NEW j \in DOMAIN port', port'[j] = Stop
                 PROVE  \E i \in 1 .. j : port'[i].op = "close" /\ port'[i].conn = d
      BY DEF ClosedFirst
    <3>1. j + 1 \in DOMAIN port /\ port[j + 1] = Stop
      BY <1>2, <1>3, <1>5
    <3>2. PICK i \in 1 .. j + 1 : port[i].op = "close" /\ port[i].conn = d
      BY <2>4, <3>1 DEF ClosedFirst
    <3>3. i # 1
      BY <1>2, <2>4, <3>2
    <3>4. i - 1 \in 1 .. j /\ port'[i - 1] = port[i]
      BY <1>2, <1>3, <1>5, <3>1, <3>2, <3>3
    <3> QED
      BY <3>2, <3>4
  <2> QED
    BY <1>2, <2>1, <2>2, <2>3, <2>4 DEF HasEntry
<1>6. CASE port' = <<Stop>> /\ Tail(port) = << >> /\ ~Outstanding'
  <2>1. DOMAIN port = {1}
    <3>1. 1 .. Len(port) - 1 = {}
      BY <1>3, <1>6
    <3>2. Len(port) \in Nat /\ Len(port) # 0
      BY <1>2
    <3>3. Len(port) = 1
      BY <3>1, <3>2, OneLong
    <3> QED
      BY <1>2, <3>3
  <2>2. DOMAIN port' = {1} /\ port'[1] = Stop
    BY <1>6
  <2>3. HasEntry(op, c)
    BY <1>2 DEF HasEntry
  <2>4. \A o : HasEntry(o, d)' => HasEntry(o, d) \/ o = "stop"
    BY <1>1, <2>2, StopTyped DEF HasEntry
  <2>5. \A o : HasEntry(o, d) /\ ~(o = op /\ d = c) => HasEntry(o, d)'
    BY <1>2, <2>1 DEF HasEntry
  <2>6. ~Late(d)
    BY <1>2, <2>1 DEF Late
  <2> QED
    BY <1>6, <2>3, <2>4, <2>5, <2>6
<1> QED
  BY <1>4, <1>5, <1>6
-----------------------------------------------------------------------------
LEMMA InitClosing == Init => Closing
BY DEF Init, Closing, Owned, Numbered, ReadChain, ClosePosted, StopEvents

LEMMA ConnectKeepsClosing == Inv /\ Closing /\ Connect => Closing'
<1> SUFFICES ASSUME Inv, Closing, Connect PROVE Closing'
  OBVIOUS
<1> USE DEF Inv, Closing
<1>0. connects + 1 \in Connections /\ connects \in Nat
  BY ClientAssumption DEF Connect, TypeOK, Connections
<1> PICK c \in Connections : c = connects + 1
  BY <1>0
<1>1. /\ c \in Connections /\ connects \in Nat /\ c # Null /\ c = connects + 1
      /\ connects' = c /\ m_connection' = c /\ pc' = "loop"
      /\ thread = "none" /\ thread' = "begin"
      /\ port' = port /\ established' = established
      /\ m_socket' = [m_socket EXCEPT ![c] = "open"]
      /\ ops' = [ops EXCEPT ![c] = {"connect"}]
  BY <1>0, ClientAssumption DEF Connect, TypeOK, Goto
<1>2. c \notin established /\ \A i \in DOMAIN port : port[i].conn # c
  BY <1>1 DEF Numbered
<1>3. Owned' /\ ClosePosted'
  BY <1>1 DEF Owned, ClosePosted
<1>4. Numbered'
  <2>1. \A d \in Connections : d \in Nat /\ (d <= connects' => d <= connects \/ d = c)
                               /\ (d <= connects => d <= connects')
    BY <1>1 DEF Connections
  <2> QED
    BY <1>1, <1>2, <2>1 DEF Numbered, TypeOK
<1>5. ReadChain'
  BY <1>1, <1>2 DEF ReadChain, TypeOK
<1>6. StopEvents'
  <2>1. CASE \E s \in DOMAIN port : port[s] = Stop
    <3>1. port \in Seq(Entries)
      BY DEF TypeOK
    <3>2. DOMAIN port = 1 .. Len(port) /\ Len(port) \in Nat
      BY <3>1, LenProperties
    <3>3. Late(c)'
      BY <1>1, <1>2, <2>1, <3>2 DEF Late
    <3> QED
      BY <1>1, <1>2, <3>3 DEF StopEvents
  <2>2. CASE ~\E s \in DOMAIN port : port[s] = Stop
    BY <1>1, <2>2 DEF StopEvents, ClosedFirst
  <2> QED
    BY <2>1, <2>2
<1> QED
  BY <1>3, <1>4, <1>5, <1>6
-----------------------------------------------------------------------------
(* A step of the main thread that leaves the connection and the context.   *)
LEMMA QuietKeepsClosing ==
  ASSUME Closing, ClosePosted',
         UNCHANGED <<m_connection, connects, thread, port, ops, m_socket, established>>
  PROVE  Closing'
BY DEF Closing, Owned, Numbered, ReadChain, StopEvents, HasEntry, Late, Served,
       ClosedFirst

(* An entry is appended; if it takes the place of an outstanding operation *)
(* it is that operation's.                                                 *)
LEMMA AppendKeepsClosing ==
  ASSUME Inv, Closing, ClosePosted',
         UNCHANGED <<m_connection, connects, thread, m_socket, established>>,
         NEW e \in Entries, port' = Append(port, e),
         e # Stop => e.conn \in Connections /\ e.conn <= connects,
         e.op = "connect" => "connect" \in ops[e.conn],
         e = Stop /\ IsConnected => HasEntry("close", m_connection),
         \A d \in Connections :
           /\ ops'[d] \subseteq ops[d]
           /\ "read" \in ops[d] => "read" \in ops'[d] \/ (e.op = "read" /\ e.conn = d)
  PROVE  Closing'
<1> USE DEF Inv, Closing
<1>1. port \in Seq(Entries) /\ Null \notin Connections
  BY ClientAssumption DEF TypeOK
<1>2. Owned'
  BY DEF Owned
<1>3. Numbered'
  <2>1. \A d \in Connections : (\A i \in DOMAIN port : port[i].conn # d) /\ e.conn # d
          => \A i \in DOMAIN port' : port'[i].conn # d
    BY <1>1, AppendIndexes
  <2>2. ASSUME NEW d \in Connections, ~(d <= connects)
        PROVE  e.conn # d
    BY <1>1, <2>2, StopTyped
  <2> QED
    BY <2>1, <2>2 DEF Numbered
<1>4. ReadChain'
  <2> SUFFICES ASSUME NEW d \in Connections, d \in established, m_socket[d] = "open"
               PROVE  "read" \in ops'[d] \/ HasEntry("read", d)'
    BY DEF ReadChain, TypeOK
  <2>1. "read" \in ops[d] \/ HasEntry("read", d)
    BY DEF ReadChain
  <2>2. HasEntry("read", d) => HasEntry("read", d)'
    BY <1>1, AppendEntries
  <2>3. e.op = "read" /\ e.conn = d => HasEntry("read", d)'
    BY <1>1, AppendEntries
  <2> QED
    BY <2>1, <2>2, <2>3
<1>5. StopEvents'
  <2> SUFFICES ASSUME thread \in {"begin", "serve"}
               PROVE  StopEvents'
    BY DEF StopEvents
  <2>1. PICK d \in Connections : d = m_connection
    BY DEF Owned, TypeOK
  <2>2. Late(d) => Late(d)'
    BY <1>1, AppendEntries
  <2>3. Served(d)' => Served(d)
    <3>1. HasEntry("connect", d)' => HasEntry("connect", d) \/ (e.op = "connect" /\ e.conn = d)
      BY <1>1, AppendEntries
    <3> QED
      BY <3>1 DEF Served
  <2>4. Served(d) => e # Stop \/ HasEntry("close", d)
    BY <1>1, <2>1 DEF Served, IsConnected
  <2>5. ClosedFirst(d) /\ (e # Stop \/ HasEntry("close", d)) => ClosedFirst(d)'
    BY <1>1, AppendEntries
  <2>6. (Late(d) /\ d \notin established) \/ (Served(d) => ClosedFirst(d))
    BY <2>1 DEF StopEvents
  <2>7. (Late(d)' /\ d \notin established') \/ (Served(d)' => ClosedFirst(d)')
    BY <2>2, <2>3, <2>4, <2>5, <2>6
  <2> QED
    BY <2>1, <2>7 DEF StopEvents, Late, Served, ClosedFirst, HasEntry
<1> QED
  BY <1>2, <1>3, <1>4, <1>5

LEMMA PostKeepsClosing == Inv /\ Closing /\ (PostSend \/ PostClose) => Closing'
<1> SUFFICES ASSUME Inv, Closing, PostSend \/ PostClose PROVE Closing'
  OBVIOUS
<1> USE DEF Inv
<1>1. PICK op \in {"send", "close"} : Post(op) /\ (PostClose => op = "close")
  BY DEF PostSend, PostClose
<1>2. PICK d \in Connections : d = m_connection
  BY DEF PostSend, PostClose, Posting, TypeOK
<1> DEFINE e == [op |-> op, conn |-> d, ok |-> TRUE]
<1>3. e \in Entries /\ e.op = op /\ e.conn = d /\ port' = Append(port, e)
  BY <1>1, <1>2, EntryTyped DEF Post
<1>4. UNCHANGED <<m_connection, connects, thread, ops, m_socket, established>>
  BY DEF PostSend, PostClose, program, sockets
<1>5. d <= connects
  BY <1>2, ClientAssumption DEF Closing, Numbered, TypeOK
<1> HIDE DEF e
<1>6. HasEntry(op, d)'
  BY <1>3, AppendEntries DEF TypeOK
<1>7. ClosePosted'
  BY <1>1, <1>2, <1>4, <1>6 DEF ClosePosted, PostSend, PostClose, Goto, HasEntry
<1>8. e # Stop
  BY <1>2, <1>3, StopTyped, ClientAssumption
<1> QED
  BY <1>1, <1>3, <1>4, <1>5, <1>7, <1>8, AppendKeepsClosing

LEMMA StopContextKeepsClosing == Inv /\ Closing /\ StopContext => Closing'
<1> SUFFICES ASSUME Inv, Closing, StopContext PROVE Closing'
  OBVIOUS
<1> USE DEF Inv
<1>1. ClosePosted' /\ UNCHANGED <<m_connection, connects, thread, ops, m_socket, established>>
  BY DEF ClosePosted, StopContext, Goto, program, sockets
<1>2. CASE stopped
  BY <1>1, <1>2, QuietKeepsClosing DEF StopContext
<1>3. CASE ~stopped
  <2>1. port' = Append(port, Stop) /\ (IsConnected => HasEntry("close", m_connection))
    BY <1>3 DEF StopContext, Closing, ClosePosted
  <2>2. Stop.op \notin {"connect", "read"}
    BY DEF Stop
  <2> QED
    BY <1>1, <2>1, <2>2, StopTyped, AppendKeepsClosing
<1> QED
  BY <1>2, <1>3

LEMMA MainKeepsClosing == Inv /\ Closing /\ Main => Closing'
<1> SUFFICES ASSUME Inv, Closing, Main PROVE Closing'
  OBVIOUS
<1>1. CASE ConnectThrows \/ Send \/ Quit \/ Poll \/ Disconnect
  <2>1. UNCHANGED <<m_connection, connects, thread, port, ops, m_socket, established>>
    BY <1>1 DEF ConnectThrows, Send, Quit, Poll, PollMoreThan, Disconnect,
                DisconnectBy, program, context, sockets
  <2>2. ClosePosted'
    BY <1>1, <2>1 DEF ClosePosted, ConnectThrows, Send, Quit, Poll,
                PollMoreThan, Disconnect, DisconnectBy, Goto, IsConnected
  <2> QED
    BY <2>1, <2>2, QuietKeepsClosing
<1>2. CASE JoinAndRelease
  <2> USE <1>2 DEF JoinAndRelease, JoinAndGiveUp, Goto, sockets, Closing
  <2>1. Owned' /\ ClosePosted' /\ StopEvents'
    BY DEF Owned, ClosePosted, StopEvents
  <2>2. Numbered'
    BY DEF Numbered
  <2>3. ReadChain'
    BY DEF ReadChain
  <2> QED
    BY <2>1, <2>2, <2>3
<1> QED
  BY <1>1, <1>2, ConnectKeepsClosing, PostKeepsClosing, StopContextKeepsClosing
     DEF Main, Looping, Disconnecting

LEMMA NetworkKeepsClosing == Inv /\ Closing /\ Network => Closing'
<1> SUFFICES ASSUME Inv, Closing, NEW c \in Connections,
                    Cut(c) \/ \E k \in OpKinds, ok \in BOOLEAN : Completes(c, k, ok)
             PROVE  Closing'
  BY DEF Network
<1>1. CASE Cut(c)
  <2>1. UNCHANGED <<m_connection, connects, thread, port, ops, m_socket, established, pc>>
    BY <1>1 DEF Cut, program, context, sockets
  <2>2. ClosePosted'
    BY <2>1 DEF ClosePosted, Closing, IsConnected, HasEntry
  <2> QED
    BY <2>1, <2>2, QuietKeepsClosing
<1>2. CASE \E k \in OpKinds, ok \in BOOLEAN : Completes(c, k, ok)
  <2>1. PICK k \in OpKinds, ok \in BOOLEAN : Completes(c, k, ok)
    BY <1>2
  <2> DEFINE e == [op |-> k, conn |-> c, ok |-> ok]
  <2>2. e \in Entries /\ e.op = k /\ e.conn = c /\ port' = Append(port, e)
    BY <2>1, EntryTyped DEF Completes
  <2>3. UNCHANGED <<pc, m_connection, connects, thread, m_socket, established>>
    BY <2>1 DEF Completes, program, sockets
  <2>4. /\ k \in ops[c] /\ ops'[c] = ops[c] \ {k}
        /\ \A d \in Connections : d # c => ops'[d] = ops[d]
    BY <2>1 DEF Completes, Inv, TypeOK
  <2>5. c <= connects
    BY <2>4 DEF Closing, Numbered
  <2> HIDE DEF e
  <2>6. ClosePosted'
    <3>1. PICK d : d = m_connection
      OBVIOUS
    <3>2. HasEntry("close", d) => HasEntry("close", d)'
      BY <2>2, AppendEntries DEF Inv, TypeOK
    <3> QED
      BY <2>3, <3>1, <3>2 DEF ClosePosted, Closing, IsConnected, HasEntry
  <2>7. e # Stop
    BY <2>2, StopTyped, ClientAssumption
  <2> QED
    BY <2>2, <2>3, <2>4, <2>5, <2>6, <2>7, AppendKeepsClosing
<1> QED
  BY <1>1, <1>2
-----------------------------------------------------------------------------
LEMMA RunBeginsKeepsClosing == Inv /\ Closing /\ RunBegins => Closing'
<1> SUFFICES ASSUME Inv, Closing, RunBegins PROVE Closing'
  OBVIOUS
<1> USE DEF Inv, Closing
<1>1. /\ thread = "begin" /\ thread' = IF HasWork THEN "serve" ELSE "returned"
      /\ UNCHANGED <<pc, m_connection, connects, ops, m_socket, established>>
  BY DEF RunBegins, program, sockets
<1>2. ReadChain' /\ Owned'
  BY <1>1 DEF ReadChain, Owned
<1>3. CASE HasWork
  <2>1. port' = port
    BY <1>3 DEF RunBegins, TypeOK
  <2>2. Numbered' /\ ClosePosted'
    BY <1>1, <2>1 DEF Numbered, ClosePosted, IsConnected, HasEntry
  <2>3. StopEvents'
    BY <1>1, <2>1 DEF StopEvents, Late, Served, ClosedFirst, HasEntry
  <2> QED
    BY <1>2, <2>2, <2>3
<1>4. CASE ~HasWork
  <2>1. port' = port \/ port' = Append(port, Stop)
    BY DEF RunBegins
  <2>2. \A i \in DOMAIN port' : port'[i] = Stop \/ (i \in DOMAIN port /\ port'[i] = port[i])
    BY <2>1, StopTyped, AppendIndexes, SMTT(60) DEF TypeOK
  <2>3. Numbered'
    BY <1>1, <2>2, StopTyped, ClientAssumption DEF Numbered
  <2>4. ClosePosted'
    <3>1. PICK d : d = m_connection
      OBVIOUS
    <3>2. HasEntry("close", d) => HasEntry("close", d)'
      <4>1. CASE port' = port
        BY <4>1 DEF HasEntry
      <4>2. CASE port' = Append(port, Stop)
        BY <4>2, StopTyped, AppendEntries DEF TypeOK
      <4> QED
        BY <2>1, <4>1, <4>2
    <3> QED
      BY <1>1, <3>1, <3>2 DEF ClosePosted, IsConnected, HasEntry
  <2> QED
    BY <1>1, <1>2, <1>4, <2>3, <2>4 DEF StopEvents
<1> QED
  BY <1>3, <1>4

LEMMA StopEventKeepsClosing == Inv /\ Closing /\ StopEvent => Closing'
<1> SUFFICES ASSUME Inv, Closing, StopEvent PROVE Closing'
  OBVIOUS
<1> USE DEF Inv, Closing
<1>1. /\ thread = "serve" /\ thread' = "returned"
      /\ UNCHANGED <<pc, m_connection, connects, ops, m_socket, established>>
  BY DEF StopEvent, program, sockets
<1>2. /\ port \in Seq(Entries) /\ Tail(port) \in Seq(Entries)
      /\ 1 \in DOMAIN port /\ port[1] = Stop /\ port' = Append(Tail(port), Stop)
      /\ DOMAIN port = 1 .. Len(port) /\ Len(port) \in Nat
      /\ DOMAIN Tail(port) = 1 .. Len(port) - 1
      /\ \A i \in 1 .. Len(port) - 1 : Tail(port)[i] = port[i + 1]
  BY TailIndexes, HeadTailProperties, LenProperties DEF TypeOK, StopEvent
<1>3. /\ \A i \in DOMAIN Tail(port) : i \in DOMAIN port' /\ port'[i] = Tail(port)[i]
      /\ \A i \in DOMAIN port' : port'[i] = Stop \/
           (i \in DOMAIN Tail(port) /\ port'[i] = Tail(port)[i])
  BY <1>2, StopTyped, AppendIndexes
<1>4. \A i \in DOMAIN port' : port'[i] = Stop \/
        \E k \in DOMAIN port : port'[i] = port[k]
  BY <1>2, <1>3
<1>5. Numbered'
  BY <1>1, <1>4, StopTyped, ClientAssumption DEF Numbered
<1>6. ReadChain'
  <2>1. ASSUME NEW d \in Connections, d \in established, m_socket[d] = "open"
        PROVE  FALSE
    <3>1. d = m_connection
      BY <2>1 DEF ReadChain
    <3>2. ClosedFirst(d)
      BY <1>1, <2>1, <3>1 DEF StopEvents, Served
    <3>3. PICK i \in 1 .. 1 : port[i].op = "close"
      BY <1>2, <3>2 DEF ClosedFirst
    <3> QED
      BY <1>2, <3>3 DEF Stop
  <2> QED
    BY <1>1, <2>1 DEF ReadChain, TypeOK
<1>7. ClosePosted'
  <2>1. ASSUME NEW d, HasEntry("close", d)
        PROVE  HasEntry("close", d)'
    <3>1. PICK i \in DOMAIN port : port[i].op = "close" /\ port[i].conn = d
      BY <2>1 DEF HasEntry
    <3>2. i # 1
      BY <1>2, <3>1 DEF Stop
    <3>3. i - 1 \in DOMAIN Tail(port) /\ Tail(port)[i - 1] = port[i]
      BY <1>2, <3>1, <3>2
    <3> QED
      BY <1>3, <3>1, <3>3 DEF HasEntry
  <2>2. PICK d : d = m_connection
    OBVIOUS
  <2> QED
    BY <1>1, <2>1, <2>2 DEF ClosePosted, IsConnected, HasEntry
<1> QED
  BY <1>1, <1>5, <1>6, <1>7 DEF Owned, StopEvents

(* What the handlers have in common.                                       *)
LEMMA HandlerEffects ==
  ASSUME NEW c \in Connections, Handler(c), TypeOK
  PROVE  \E op \in OpKinds \cup {"send", "close"}, ok \in BOOLEAN,
            started \in SUBSET {"read", "write"} :
           /\ Serve(c, op, ok, started)
           /\ m_socket' = m_socket \/ m_socket' = [m_socket EXCEPT ![c] = "closed"]
           /\ op = "close" => m_socket'[c] = "closed"
           /\ op = "read" => m_socket'[c] = "closed" \/ "read" \in started
           /\ established' = established
              \/ /\ established' = established \cup ({c} \cap {m_connection})
                 /\ op = "connect" /\ "read" \in started
<1>1. CASE Connected(c)
  <2>1. Serve(c, "connect", TRUE, {"read"})
    BY <1>1 DEF Connected
  <2> QED
    BY <1>1, <2>1 DEF Connected, OpKinds
<1>2. CASE ConnectFailed(c)
  <2>1. PICK ok \in BOOLEAN : Serve(c, "connect", ok, {})
    BY <1>2 DEF ConnectFailed
  <2> QED
    BY <1>2, <2>1 DEF ConnectFailed, OpKinds, sockets
<1>3. CASE ReadDone(c)
  <2>1. Serve(c, "read", TRUE, {"read"})
    BY <1>3 DEF ReadDone
  <2> QED
    BY <1>3, <2>1 DEF ReadDone, OpKinds, sockets
<1>4. CASE PostedSend(c)
  <2>1. PICK started \in SUBSET {"read", "write"} : Serve(c, "send", TRUE, started)
    BY <1>4 DEF PostedSend
  <2> QED
    BY <1>4, <2>1 DEF PostedSend
<1>5. CASE WriteDone(c)
  <2>1. PICK started \in SUBSET {"read", "write"} : Serve(c, "write", TRUE, started)
    BY <1>5 DEF WriteDone
  <2> QED
    BY <1>5, <2>1 DEF WriteDone, OpKinds
<1>6. CASE ReadFailed(c) \/ WriteFailed(c) \/ PostedClose(c)
  <2>1. PICK op \in {"read", "write", "close"}, ok \in BOOLEAN : Serve(c, op, ok, {})
    BY <1>6 DEF ReadFailed, WriteFailed, PostedClose
  <2>2. /\ m_socket' = [m_socket EXCEPT ![c] = "closed"] /\ m_socket'[c] = "closed"
        /\ established' = established
    BY <1>6 DEF ReadFailed, WriteFailed, PostedClose, Close, TypeOK
  <2> QED
    BY <2>1, <2>2 DEF OpKinds
<1> QED
  BY <1>1, <1>2, <1>3, <1>4, <1>5, <1>6 DEF Handler

LEMMA HandlerKeepsClosing ==
  ASSUME Inv, Closing, NEW c \in Connections, Handler(c)
  PROVE  Closing'
<1> USE DEF Inv, Closing
<1>1. PICK op \in OpKinds \cup {"send", "close"}, ok \in BOOLEAN,
           started \in SUBSET {"read", "write"} :
        /\ Serve(c, op, ok, started)
        /\ m_socket' = m_socket \/ m_socket' = [m_socket EXCEPT ![c] = "closed"]
        /\ op = "close" => m_socket'[c] = "closed"
        /\ op = "read" => m_socket'[c] = "closed" \/ "read" \in started
        /\ established' = established
           \/ /\ established' = established \cup ({c} \cap {m_connection})
              /\ op = "connect" /\ "read" \in started
  BY HandlerEffects
<1>2. op # "stop" /\ "connect" \notin started
  BY DEF OpKinds
<1>3. /\ thread = "serve" /\ UNCHANGED <<pc, m_connection, connects, thread>>
      /\ ops'[c] = ops[c] \cup started
      /\ \A d \in Connections : d # c => ops'[d] = ops[d]
  BY <1>1 DEF Serve, program, TypeOK
<1>4. \A d \in Connections :
        /\ m_socket'[d] = m_socket[d] \/ m_socket'[d] = "closed"
        /\ d # c => m_socket'[d] = m_socket[d]
  BY <1>1 DEF TypeOK
<1>5. PICK m \in Connections : m = m_connection
  BY <1>3 DEF Owned, TypeOK
<1>6. \A d \in Connections :
        /\ HasEntry(op, c)
        /\ \A o : HasEntry(o, d)' => HasEntry(o, d) \/ o = "stop"
        /\ \A o : HasEntry(o, d) /\ ~(o = op /\ d = c) => HasEntry(o, d)'
  BY <1>1, <1>2, ServeEntries
<1>7. Late(m) => Late(m)' /\ m # c
  BY <1>1, <1>2, ServeEntries
<1>8. ClosedFirst(m) /\ ~(op = "close" /\ m = c) =>
        ClosedFirst(m)' \/ (~Outstanding' /\ port' = <<Stop>>)
  BY <1>1, <1>2, ServeEntries
<1>9. Owned'
  BY <1>3 DEF Owned
<1>10. Numbered'
  <2>1. c <= connects
    BY <1>6 DEF Numbered, HasEntry
  <2>2. \A d \in Connections : (\A i \in DOMAIN port : port[i].conn # d)
          => \A i \in DOMAIN port' : port'[i].conn # d
    <3>1. \A i \in DOMAIN port' : port'[i] = Stop \/
            (i \in Nat /\ i + 1 \in DOMAIN port /\ port'[i] = port[i + 1])
      BY <1>1, ServeShifts
    <3> QED
      BY <3>1, StopTyped, ClientAssumption
  <2>3. \A d \in Connections : d # c => (d \in established' <=> d \in established)
    BY <1>1
  <2> QED
    BY <1>3, <1>4, <2>1, <2>2, <2>3 DEF Numbered
<1>11. ReadChain'
  <2> SUFFICES ASSUME NEW d \in Connections, d \in established', m_socket'[d] = "open"
               PROVE  /\ m_connection' = d /\ thread' = "serve"
                      /\ "read" \in ops'[d] \/ HasEntry("read", d)'
    BY <1>1 DEF ReadChain, TypeOK
  <2>1. m_socket[d] = "open"
    BY <1>4
  <2>2. CASE d \in established
    <3>1. m_connection = d /\ ("read" \in ops[d] \/ HasEntry("read", d))
      BY <2>1, <2>2 DEF ReadChain
    <3>2. "read" \in ops[d] => "read" \in ops'[d]
      BY <1>3
    <3>3. HasEntry("read", d) => HasEntry("read", d)' \/ "read" \in ops'[d]
      BY <1>1, <1>3, <1>6
    <3> QED
      BY <1>3, <3>1, <3>2, <3>3
  <2>3. CASE d \notin established
    BY <1>1, <1>3, <2>3
  <2> QED
    BY <2>2, <2>3
<1>12. ClosePosted'
  <2> SUFFICES ASSUME pc' = "stop", m_socket'[m] = "open"
               PROVE  HasEntry("close", m)'
    BY <1>3, <1>5 DEF ClosePosted, IsConnected, HasEntry
  <2>1. HasEntry("close", m)
    BY <1>3, <1>4, <1>5, ClientAssumption DEF ClosePosted, IsConnected, HasEntry
  <2>2. ~(op = "close" /\ m = c)
    BY <1>1
  <2> QED
    BY <1>6, <2>1, <2>2
<1>13. StopEvents'
  <2>1. CASE Late(m) /\ m \notin established
    <3>1. Late(m)' /\ m \notin established'
      BY <1>1, <1>7, <2>1
    <3> QED
      BY <1>3, <1>5, <3>1 DEF StopEvents, Late
  <2>2. CASE Served(m) => ClosedFirst(m)
    <3>1. SUFFICES ASSUME Served(m)'
                   PROVE  ClosedFirst(m)'
      BY <1>3, <1>5 DEF StopEvents, Served, ClosedFirst, HasEntry
    <3>2. HasEntry("connect", m)' => HasEntry("connect", m)
      BY <1>6
    <3>3. Served(m)
      BY <1>1, <1>2, <1>3, <1>4, <1>5, <1>6, <3>1, <3>2 DEF Served
    <3>4. ~(op = "close" /\ m = c)
      BY <1>1, <3>1 DEF Served
    <3>5. ASSUME ~Outstanding', port' = <<Stop>>
          PROVE  FALSE
      <4>1. ~HasEntry("connect", m)' /\ ~HasEntry("read", m)'
        BY <3>5 DEF HasEntry, Stop
      <4>2. ops'[m] = {}
        BY <3>5 DEF Outstanding
      <4> QED
        BY <1>11, <3>1, <4>1, <4>2 DEF Served, ReadChain
    <3> QED
      BY <1>8, <2>2, <3>3, <3>4, <3>5
  <2> QED
    BY <1>3, <1>5, <2>1, <2>2 DEF StopEvents
<1> QED
  BY <1>9, <1>10, <1>11, <1>12, <1>13

LEMMA NextKeepsClosing == Inv /\ Closing /\ [Next]_vars => Closing'
<1> SUFFICES ASSUME Inv, Closing, [Next]_vars PROVE Closing'
  OBVIOUS
<1>1. CASE UNCHANGED vars
  <2>1. UNCHANGED <<m_connection, connects, thread, port, ops, m_socket, established, pc>>
    BY <1>1 DEF vars, program, context, sockets
  <2>2. ClosePosted'
    BY <2>1 DEF ClosePosted, Closing, IsConnected, HasEntry
  <2> QED
    BY <2>1, <2>2, QuietKeepsClosing
<1>2. CASE Next
  BY <1>2, MainKeepsClosing, NetworkKeepsClosing, RunBeginsKeepsClosing,
     StopEventKeepsClosing, HandlerKeepsClosing DEF Next, Run
<1> QED
  BY <1>1, <1>2
-----------------------------------------------------------------------------
(* A connection that reached the server is closed when run() has returned: *)
(* by Disconnect's own posted close, by a failed read or write; whichever  *)
(* way main() and the handlers interleave, and however many runs came      *)
(* before (net_client.h, net_connection.h).                                *)
THEOREM ServerSeesClientGo == Spec => []ClosedWhenRunReturns
<1>1. Inv /\ Closing => ClosedWhenRunReturns
  <2> SUFFICES ASSUME Inv, Closing, thread \in {"none", "returned"},
                      NEW c \in established
               PROVE  m_socket[c] = "closed"
    BY DEF ClosedWhenRunReturns
  <2>1. c \in Connections /\ m_socket[c] \in {"none", "open", "closed"}
    BY DEF Inv, TypeOK
  <2>2. m_socket[c] # "none"
    BY <2>1 DEF Closing, Numbered
  <2>3. m_socket[c] # "open"
    BY DEF Closing, ReadChain
  <2> QED
    BY <2>1, <2>2, <2>3
<1>2. Spec => []Closing
  BY AlwaysInv, InitClosing, NextKeepsClosing, PTL DEF Spec
<1> QED
  BY <1>1, <1>2, AlwaysInv, PTL
=============================================================================
