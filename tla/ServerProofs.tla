---------------------------- MODULE ServerProofs ----------------------------
(***************************************************************************)
(* Theorems about Server, for any number of clients, requests and          *)
(* identifiers.                                                            *)
(***************************************************************************)
EXTENDS Server, SequenceTheorems, FiniteSetTheorems, TLAPS

(* The connections that were accepted; from then on they are open or       *)
(* closed.                                                                 *)
Opened == {c \in Clients : m_socket[c] \in {"open", "closed"}}

Registered(c) == \E i \in DOMAIN m_deqConnections : m_deqConnections[i] = c

(* Only an accepted connection has operations and messages.                *)
Started == \A c \in Clients \ Opened :
  /\ \A k \in OpKinds : ops[c][k] = 0
  /\ \A i \in DOMAIN m_qMessagesIn : m_qMessagesIn[i].remote # c

NoneTwice == \A i, j \in DOMAIN m_deqConnections :
  m_deqConnections[i] # Null /\ m_deqConnections[i] = m_deqConnections[j] => i = j

Registry ==
  /\ NoneTwice
  /\ \A c \in Clients : Registered(c) => c \in Opened /\ c \notin dropped
  /\ \A c \in dropped : m_socket[c] = "closed"
  /\ \A c \in Opened :
       Registered(c) \/ c \in dropped \/ c \in lost \/ thread = "destroyed"

(* Where the main thread stands in the deque, and where null pointers are. *)
Visits ==
  /\ main.remote \in Clients
  /\ main.cursor \in 1 .. main.end + 1
  /\ main.end <= Len(m_deqConnections)

Erases ==
  /\ main.cursor <= main.end /\ main.end <= Len(m_deqConnections)
  /\ \A i \in DOMAIN m_deqConnections :
       m_deqConnections[i] = Null <=> main.cursor < i /\ i <= main.end

NullAllowed(i) ==
  \/ main.pc \in {"remove", "erase"}
  \/ main.pc = "visit" /\ i < main.cursor /\ main.bInvalidClientExists

Swept ==
  /\ main.pc = "visit" => Visits
  /\ main.pc = "erase" => Erases
  /\ lost = {} => \A i \in DOMAIN m_deqConnections :
                    m_deqConnections[i] = Null => NullAllowed(i)

(* The connection is at a place of the deque that the loop will come to,   *)
(* or has been at.                                                         *)
Ahead(c) == \E i \in main.cursor .. main.end : m_deqConnections[i] = c
Behind(c) == \E i \in 1 .. main.cursor - 1 : m_deqConnections[i] = c

Broadcasting ==
  /\ main.pc # "visit" => \A c \in Clients : reached[c] = 0
  /\ main.pc = "visit" =>
       /\ reached[main.remote] = 0
       /\ \A c \in Clients : reached[c] # 0 => reached[c] = 1 /\ Behind(c)
       /\ \A c \in audience.all \ {main.remote} :
            Ahead(c) \/ m_socket[c] = "closed" \/ reached[c] = 1
       /\ \A c \in audience.closed :
            m_socket[c] = "closed" /\ (Ahead(c) \/ c \in dropped)

Ordered == Registry /\ Swept /\ Broadcasting /\ NoNullVisited

Inv == TypeOK /\ Started /\ Ordered

-----------------------------------------------------------------------------
(* Types.                                                                  *)

MainStates == [pc : {"update", "join", "visit", "remove", "erase"},
               remote : Clients \cup {Null}, cursor : Nat, end : Nat,
               bInvalidClientExists : BOOLEAN]

LEMMA UpdatingTyped == Updating \in MainStates /\ Updating.pc = "update"
BY DEF Updating, MainStates

LEMMA CountTyped ==
  ASSUME TypeOK, NEW c \in Clients, NEW k \in OpKinds, NEW n \in Int, ops[c][k] + n \in Nat,
         ops' = CountOp(c, k, n)
  PROVE  ops' \in [Clients -> [OpKinds -> Nat]]
BY DEF TypeOK, CountOp

LEMMA OpsNatural ==
  ASSUME TypeOK, NEW c \in Clients, NEW k \in OpKinds
  PROVE  ops[c][k] \in Nat /\ ops[c][k] + 1 \in Nat /\ (ops[c][k] > 0 => ops[c][k] + (-1) \in Nat)
<1>1. ops[c][k] \in Nat
  BY ZenonT(180) DEF TypeOK
<1> QED
  BY <1>1

LEMMA SendTyped ==
  ASSUME TypeOK, NEW c \in Clients, Send(c)
  PROVE  ops' \in [Clients -> [OpKinds -> Nat]]
<1>1. "send" \in OpKinds /\ ops' = CountOp(c, "send", 1)
  BY DEF OpKinds, Send
<1> QED
  BY <1>1, CountTyped, OpsNatural

LEMMA Remainder == ASSUME NEW m \in Nat \ {0}, NEW k \in Int PROVE k % m \in 0 .. m - 1
OBVIOUS

(* back() of a deque that is not empty, when it is not null.               *)
LEMMA BackTyped ==
  ASSUME TypeOK, ~BackIsNull
  PROVE  /\ Len(m_deqConnections) \in DOMAIN m_deqConnections
         /\ Back \in Clients
<1>1. m_deqConnections \in Seq(Clients \cup {Null}) /\ m_deqConnections # << >>
      /\ Back # Null
  BY DEF TypeOK, BackIsNull
<1>2. Len(m_deqConnections) \in 1 .. Len(m_deqConnections)
  <2>1. Len(m_deqConnections) \in Nat /\ Len(m_deqConnections) # 0
    BY <1>1, EmptySeq, LenProperties
  <2> QED
    BY <2>1
<1> QED
  BY <1>1, <1>2, LenProperties, ElementOfSeq DEF Back

LEMMA KindsOfOp == {"challenge", "answer", "message", "send"} = OpKinds
BY DEF OpKinds

LEMMA InitTyped == Init => TypeOK
<1> SUFFICES ASSUME Init PROVE TypeOK
  OBVIOUS
<1>1. NoOps \in [OpKinds -> Nat]
  BY DEF NoOps
<1>2. main \in MainStates
  BY UpdatingTyped DEF Init
<1>3. ops \in [Clients -> [OpKinds -> Nat]]
  BY <1>1 DEF Init
<1>4. m_deqConnections \in Seq(Clients \cup {Null})
      /\ m_qMessagesIn \in Seq([remote : Clients, kind : Requests])
  BY EmptySeq DEF Init
<1>5. nIDCounter \in 0 .. IDs - 1 /\ requests \in 0 .. MaxRequests
      /\ id \in [Clients -> 0 .. IDs - 1 \cup {Null}]
  BY ServerAssumption DEF Init
<1>6. audience \in [all : SUBSET Clients, closed : SUBSET Clients]
  BY DEF Init, NoAudience
<1> QED
  BY <1>2, <1>3, <1>4, <1>5, <1>6 DEF Init, TypeOK, MainStates

(* The actions that no thread of the server takes, and the handlers.       *)
LEMMA HandlersTyped ==
  ASSUME TypeOK, NEW c \in Clients,
         Arrive(c) \/ AcceptHandler(c) \/ ConnectionHandler(c)
  PROVE  TypeOK'
<1> USE DEF elsewhere, acceptor, identity, history, broadcast, incoming, Requests
<1>1. CASE Arrive(c)
  BY <1>1, ZenonT(180) DEF TypeOK, Arrive
<1>2. CASE AcceptError(c)
  BY <1>2, ZenonT(180) DEF TypeOK, AcceptError
<1>3. CASE RemoteEndpointThrows(c)
  BY <1>3 DEF TypeOK, RemoteEndpointThrows
<1>4. CASE AcceptVetoed(c)
  BY <1>4, ZenonT(180) DEF TypeOK, AcceptVetoed
<1>5. CASE AcceptConnection(c)
  <2>1. ops' \in [Clients -> [OpKinds -> Nat]]
    <3>1. ops' = CountOp(c, "send", 1)
      BY <1>5 DEF AcceptConnection
    <3> QED
      BY <3>1, CountTyped, OpsNatural, KindsOfOp
  <2>2. m_deqConnections' \in Seq(Clients \cup {Null})
    BY <1>5, AppendProperties DEF AcceptConnection, TypeOK
  <2> QED
    BY <1>5, <2>1, <2>2, ZenonT(180) DEF TypeOK, AcceptConnection
<1>6. CASE ChallengeWritten(c)
  <2>1. ops' \in [Clients -> [OpKinds -> Nat]]
    BY <1>6, CountTyped, OpsNatural, KindsOfOp DEF ChallengeWritten, Completes
  <2> QED
    BY <1>6, <2>1, ZenonT(180) DEF TypeOK, ChallengeWritten
<1>7. CASE ReadValidation(c)
  <2>1. ops' \in [Clients -> [OpKinds -> Nat]]
    <3>1. ops[c]["answer"] + (-1) \in Nat /\ ops[c]["message"] + 1 \in Nat
      BY <1>7, OpsNatural, KindsOfOp DEF ReadValidation, Completes
    <3>2. CASE ops' = CountOp(c, "answer", -1)
      BY <3>1, <3>2, CountTyped, KindsOfOp
    <3>3. CASE ops' = [ops EXCEPT ![c].answer = @ - 1, ![c].message = @ + 1]
      BY <3>1, <3>3 DEF TypeOK, OpKinds
    <3> QED
      BY <1>7, <3>2, <3>3 DEF ReadValidation
  <2>2. m_socket' = m_socket \/ CloseSocket(c)
    BY <1>7 DEF ReadValidation
  <2>3. m_socket' \in [Clients -> {"away", "waiting", "open", "closed", "refused"}]
    BY <2>2 DEF CloseSocket, TypeOK
  <2>4. validated' \subseteq Clients
    BY <1>7 DEF ReadValidation, TypeOK
  <2> QED
    BY <1>7, <2>1, <2>3, <2>4, ZenonT(180) DEF TypeOK, ReadValidation
<1>8. ASSUME NEW kind \in Requests, ReadMessage(c, kind)
      PROVE  TypeOK'
  <2>1. m_qMessagesIn' \in Seq([remote : Clients, kind : Requests])
    BY <1>8, AppendProperties, ZenonT(180) DEF ReadMessage, TypeOK
  <2>2. requests' \in 0 .. MaxRequests
    <3>1. requests \in 0 .. MaxRequests
      BY DEF TypeOK
    <3>2. requests < MaxRequests /\ requests' = requests + 1
      BY <1>8 DEF ReadMessage
    <3> QED
      BY <3>1, <3>2, ServerAssumption
  <2> QED
    BY <1>8, <2>1, <2>2, ZenonT(180) DEF TypeOK, ReadMessage
<1>9. CASE SendCompletes(c)
  <2>1. ops' \in [Clients -> [OpKinds -> Nat]]
    BY <1>9, CountTyped, OpsNatural, KindsOfOp DEF SendCompletes, Completes
  <2> QED
    BY <1>9, <2>1, ZenonT(180) DEF TypeOK, SendCompletes
<1>10. ASSUME NEW k \in OpKinds, OperationFails(c, k)
       PROVE  TypeOK'
  <2>1. PICK n \in 1 .. ops[c][k] : ops' = CountOp(c, k, -n)
    <3>1. ops[c][k] \in Nat /\ ops[c][k] > 0
      BY <1>10, OpsNatural DEF OperationFails
    <3>2. 1 \in 1 .. ops[c][k]
      BY <3>1
    <3> QED
      BY <1>10, <3>2 DEF OperationFails
  <2>2. ops[c][k] + (-n) \in Nat /\ -n \in Int
    BY <2>1, OpsNatural
  <2>3. ops' \in [Clients -> [OpKinds -> Nat]]
    BY <2>1, <2>2, CountTyped
  <2> QED
    BY <1>10, <2>3, ZenonT(180) DEF TypeOK, OperationFails, CloseSocket
<1>11. CASE HandlerOfDestroyed(c)
  <2>1. ops' \in [Clients -> [OpKinds -> Nat]]
    <3>1. PICK k \in OpKinds : ops[c][k] > 0 /\ ops' = CountOp(c, k, -1)
      BY <1>11 DEF HandlerOfDestroyed
    <3>2. ops[c][k] + (-1) \in Nat
      BY <3>1, OpsNatural
    <3> QED
      BY <3>1, <3>2, CountTyped
  <2> QED
    BY <1>11, <2>1, ZenonT(180) DEF TypeOK, HandlerOfDestroyed
<1> QED
  BY <1>1, <1>2, <1>3, <1>4, <1>5, <1>6, <1>7, <1>8, <1>9, <1>10, <1>11
     DEF AcceptHandler, ConnectionHandler

(* Start and Stop, and the end of the accept handler.                      *)
LEMMA ProgramTyped ==
  ASSUME TypeOK, Start \/ Stop \/ Join \/ Destroy \/ ConnectBack \/ AnnounceBack
  PROVE  TypeOK'
<1> USE DEF acceptor, identity, history, broadcast, incoming
<1>1. CASE Start
  BY <1>1 DEF TypeOK, Start
<1>2. CASE Stop
  BY <1>2 DEF TypeOK, Stop, StopAndJoin
<1>3. CASE Join
  <2>1. main' \in MainStates
    BY <1>3, UpdatingTyped DEF Join
  <2> QED
    BY <1>3, <2>1 DEF TypeOK, Join, MainStates
<1>4. CASE Destroy
  <2>1. ops' \in [Clients -> [OpKinds -> Nat]]
    BY <1>4 DEF Destroy, NoOps
  <2>2. /\ m_deqConnections' \in Seq(Clients \cup {Null})
        /\ m_qMessagesIn' \in Seq([remote : Clients, kind : Requests])
    BY <1>4, EmptySeq DEF Destroy
  <2>3. m_socket' \in [Clients -> {"away", "waiting", "open", "closed", "refused"}]
    BY <1>4 DEF Destroy, TypeOK
  <2> QED
    BY <1>4, <2>1, <2>2, <2>3 DEF TypeOK, Destroy
<1>5. CASE ConnectBack
  <2> DEFINE c == Back
  <2>1. nIDCounter' \in 0 .. IDs - 1
    <3>1. nIDCounter' = (nIDCounter + 1) % IDs
      BY <1>5 DEF ConnectBack, ConnectBackNumbering
    <3>2. nIDCounter \in 0 .. IDs - 1
      BY DEF TypeOK
    <3>3. nIDCounter + 1 \in Int
      BY <3>2, ServerAssumption
    <3> QED
      BY <3>1, <3>3, Remainder, ServerAssumption
  <2>2. /\ fault' \in {fault, "null back"}
        /\ UNCHANGED <<id, ops>> \/ (c \in Clients /\ ConnectToClient(c))
    BY <1>5, BackTyped DEF ConnectBack, ConnectBackNumbering
  <2> HIDE DEF c
  <2>3. id' \in [Clients -> 0 .. IDs - 1 \cup {Null}]
    BY <2>2 DEF ConnectToClient, TypeOK
  <2>4. ops' \in [Clients -> [OpKinds -> Nat]]
    <3>1. CASE UNCHANGED ops
      BY <3>1 DEF TypeOK
    <3>2. CASE /\ c \in Clients
               /\ ops' = [ops EXCEPT ![c].challenge = @ + 1, ![c].answer = @ + 1]
      <4>1. ops[c]["challenge"] + 1 \in Nat /\ ops[c]["answer"] + 1 \in Nat
        BY <3>2, OpsNatural, KindsOfOp
      <4> QED
        BY <3>2, <4>1 DEF TypeOK
    <3> QED
      BY <2>2, <3>1, <3>2 DEF ConnectToClient
  <2>5. /\ announcing' \in BOOLEAN
        /\ UNCHANGED <<m_socket, thread, armed, accepting, m_deqConnections>>
        /\ UNCHANGED <<validated, m_qMessagesIn, requests, main>>
        /\ UNCHANGED <<reported, dropped, audience, reached, lost>>
    BY <1>5 DEF ConnectBack, ConnectBackNumbering
  <2>6. fault' \in {"none", "remote_endpoint", "null back", "null visited",
                    "destroyed connection", "destroyed context"}
    BY <2>2 DEF TypeOK
  <2> QED
    BY <2>1, <2>3, <2>4, <2>5, <2>6, ZenonT(180) DEF TypeOK
<1>6. CASE AnnounceBack
  <2>1. armed' \in BOOLEAN /\ accepting' = Null /\ announcing' \in BOOLEAN
    <3>1. armed \in BOOLEAN
      BY DEF TypeOK
    <3> QED
      BY <1>6, <3>1 DEF AnnounceBack, AnnounceBackAndGoOn
  <2>2. fault' \in {fault, "null back"}
    BY <1>6 DEF AnnounceBack, AnnounceBackAndGoOn
  <2>3. /\ UNCHANGED <<m_socket, thread, nIDCounter, id, m_deqConnections, ops>>
        /\ UNCHANGED <<validated, m_qMessagesIn, requests, main>>
        /\ UNCHANGED <<reported, dropped, audience, reached, lost>>
    BY <1>6 DEF AnnounceBack, AnnounceBackAndGoOn
  <2> QED
    BY <2>1, <2>2, <2>3, ZenonT(180) DEF TypeOK
<1> QED
  BY <1>1, <1>2, <1>3, <1>4, <1>5, <1>6

(* The pointers that are not null can be counted.                          *)
LEMMA PlacesCounted ==
  ASSUME NEW s \in Seq(Clients \cup {Null})
  PROVE  LET places == {i \in DOMAIN s : s[i] # Null}
         IN  /\ IsFiniteSet(places) /\ Cardinality(places) \in Nat
             /\ Cardinality(places) <= Len(s)
<1> DEFINE places == {i \in DOMAIN s : s[i] # Null}
           n == Len(s)
<1>1. n \in Nat /\ DOMAIN s = 1 .. n
  BY LenProperties
<1>2. IsFiniteSet(1 .. n) /\ Cardinality(1 .. n) = n
  BY <1>1, FS_Interval
<1>3. places \in SUBSET (1 .. n)
  BY <1>1
<1> HIDE DEF places, n
<1>4. IsFiniteSet(places) /\ Cardinality(places) <= n
  BY <1>2, <1>3, FS_Subset
<1> QED
  BY <1>4, FS_CardinalityType DEF places, n

(* A piece of a sequence.                                                  *)
LEMMA Piece ==
  ASSUME NEW S, NEW s \in Seq(S), NEW a \in 0 .. Len(s), NEW b \in a .. Len(s)
  PROVE  /\ SubSeq(s, a + 1, b) \in Seq(S)
         /\ Len(SubSeq(s, a + 1, b)) = b - a
         /\ \A i \in 1 .. b - a : SubSeq(s, a + 1, b)[i] = s[a + i]
         /\ ToSet(SubSeq(s, a + 1, b)) = {s[i] : i \in a + 1 .. b}
<1> DEFINE t == SubSeq(s, a + 1, b)
<1>1. Len(s) \in Nat /\ DOMAIN s = 1 .. Len(s)
  BY LenProperties
<1>2. a \in Nat /\ b \in Nat /\ a <= b /\ b <= Len(s)
  BY <1>1
<1>3. \A i \in a + 1 .. b : s[i] \in S
  BY <1>1, <1>2, ElementOfSeq
<1>4. /\ t \in Seq(S)
      /\ Len(t) = IF a + 1 <= b THEN b - (a + 1) + 1 ELSE 0
      /\ \A i \in 1 .. b - (a + 1) + 1 : t[i] = s[a + 1 + i - 1]
  BY <1>2, <1>3, SubSeqProperties
<1> HIDE DEF t
<1>5. Len(t) = b - a /\ \A i \in 1 .. b - a : t[i] = s[a + i]
  <2>1. b - (a + 1) + 1 = b - a /\ (a + 1 <= b \/ b - a = 0)
    BY <1>2
  <2>2. Len(t) = b - a
    BY <1>2, <1>4, <2>1
  <2>3. ASSUME NEW i \in 1 .. b - a PROVE t[i] = s[a + i]
    <3>1. a + 1 + i - 1 = a + i
      BY <1>2
    <3> QED
      BY <1>4, <2>1, <3>1
  <2> QED
    BY <2>2, <2>3
<1>6. ToSet(t) = {s[i] : i \in a + 1 .. b}
  <2>1. DOMAIN t = 1 .. b - a
    BY <1>4, <1>5, LenProperties
  <2>2. \A i \in 1 .. b - a : a + i \in a + 1 .. b
    BY <1>2
  <2>3. \A i \in a + 1 .. b : i - a \in 1 .. b - a /\ a + (i - a) = i
    BY <1>2
  <2> QED
    BY <1>5, <2>1, <2>2, <2>3 DEF ToSet
<1> QED
  BY <1>4, <1>5, <1>6 DEF t

(* The front of a sequence, and a piece from behind it.                    *)
LEMMA FrontAndPiece ==
  ASSUME NEW S, NEW s \in Seq(S), NEW k \in 0 .. Len(s), NEW a \in k .. Len(s),
         NEW b \in a .. Len(s), NEW t, t = SubSeq(s, 1, k) \o SubSeq(s, a + 1, b)
  PROVE  /\ t \in Seq(S)
         /\ Len(t) = k + (b - a)
         /\ \A i \in 1 .. Len(t) : t[i] = s[IF i <= k THEN i ELSE a + (i - k)]
<1> DEFINE front == SubSeq(s, 1, k)
           piece == SubSeq(s, a + 1, b)
<1>1. Len(s) \in Nat /\ k \in Nat /\ a \in Nat /\ b \in Nat /\ k <= a /\ a <= b
  BY LenProperties
<1>2. /\ front \in Seq(S) /\ Len(front) = k
      /\ \A i \in 1 .. k : front[i] = s[i]
  <2>1. 0 \in 0 .. Len(s) /\ k \in 0 .. Len(s) /\ 0 + 1 = 1 /\ k - 0 = k
    BY <1>1
  <2>2. \A i \in 1 .. k : 0 + i = i
    BY <1>1
  <2> QED
    BY <2>1, <2>2, Piece
<1>3. /\ piece \in Seq(S) /\ Len(piece) = b - a
      /\ \A i \in 1 .. b - a : piece[i] = s[a + i]
  <2>1. a \in 0 .. Len(s)
    BY <1>1
  <2> QED
    BY <2>1, Piece
<1> HIDE DEF front, piece
<1>4. t = front \o piece
  BY DEF front, piece
<1>5. /\ t \in Seq(S) /\ Len(t) = Len(front) + Len(piece)
      /\ \A i \in 1 .. Len(front) + Len(piece) :
           t[i] = IF i <= Len(front) THEN front[i] ELSE piece[i - Len(front)]
  <2>1. front \in Seq(S) /\ piece \in Seq(S)
    BY <1>2, <1>3
  <2> QED
    BY <1>4, <2>1, ConcatProperties, ZenonT(180)
<1>6. ASSUME NEW i \in 1 .. Len(t)
      PROVE  t[i] = s[IF i <= k THEN i ELSE a + (i - k)]
  <2>1. i \in 1 .. k + (b - a)
    BY <1>2, <1>3, <1>5
  <2>2. CASE i <= k
    BY <1>1, <1>2, <1>3, <1>5, <2>1, <2>2
  <2>3. CASE ~(i <= k)
    <3>1. i - k \in 1 .. b - a
      BY <1>1, <2>1, <2>3
    <3> QED
      BY <1>1, <1>2, <1>3, <1>5, <2>1, <2>3, <3>1
  <2> QED
    BY <2>2, <2>3
<1> QED
  BY <1>2, <1>3, <1>5, <1>6

(* What is left of the deque by SweepErase: its front, and a piece that is *)
(* what was pushed, or nothing, or as long as that and begins too early.   *)
LEMMA ErasedTail ==
  ASSUME TypeOK, Erases, SweepErase
  PROVE  LET s == m_deqConnections
             k == main.cursor
             n == Len(s)
         IN  \E a, b \in k .. n :
               /\ a <= b
               /\ \/ a = main.end /\ b = n
                  \/ a = b
                  \/ a = k /\ b = k + (n - main.end)
               /\ s' \in Seq(Clients \cup {Null})
               /\ Len(s') = k + (b - a)
               /\ \A i \in 1 .. Len(s') : s'[i] = s[IF i <= k THEN i ELSE a + (i - k)]
               /\ lost' = lost \cup ({s[i] : i \in main.end + 1 .. n} \ {s[i] : i \in a + 1 .. b})
<1> DEFINE s == m_deqConnections
           k == main.cursor
           e == main.end
           n == Len(s)
           S == Clients \cup {Null}
           tail == SubSeq(s, k + 1, n)
           pushed == SubSeq(s, e + 1, n)
<1>1. s \in Seq(S) /\ n \in Nat /\ k \in Nat /\ e \in Nat /\ k <= e /\ e <= n
  BY LenProperties DEF TypeOK, Erases
<1>2. PICK rest \in {pushed, << >>, SubSeq(tail, 1, Len(pushed))} :
        /\ s' = SubSeq(s, 1, k) \o rest
        /\ lost' = lost \cup (ToSet(pushed) \ ToSet(rest))
  BY DEF SweepErase
<1> HIDE DEF s, k, e, n, S
<1>3. /\ pushed \in Seq(S) /\ Len(pushed) = n - e
      /\ ToSet(pushed) = {s[i] : i \in e + 1 .. n}
  <2>1. e \in 0 .. Len(s) /\ n \in e .. Len(s)
    BY <1>1 DEF n
  <2> QED
    BY <1>1, <2>1, Piece, ZenonT(180)
<1>4. \E a, b \in k .. n : /\ a <= b
                           /\ \/ (a = e /\ b = n) \/ a = b \/ (a = k /\ b = k + (n - e))
                           /\ rest = SubSeq(s, a + 1, b)
  <2>1. CASE rest = pushed
    <3>1. e \in k .. n /\ n \in k .. n /\ e <= n
      BY <1>1
    <3>2. rest = SubSeq(s, e + 1, n)
      BY <2>1
    <3> HIDE DEF pushed, tail
    <3> QED
      BY <3>1, <3>2
  <2>2. CASE rest = << >>
    <3>1. k \in k .. n /\ k < k + 1 /\ k + 1 \in Int /\ k \in Int
      BY <1>1
    <3>2. SubSeq(s, k + 1, k) = << >>
      BY <3>1, SubSeqEmpty
    <3> QED
      BY <1>1, <2>2, <3>1, <3>2
  <2>3. CASE rest = SubSeq(tail, 1, Len(pushed)) /\ n - e = 0
    <3>1. k \in k .. n /\ k < k + 1 /\ k + 1 \in Int /\ k \in Int
      BY <1>1
    <3>2. SubSeq(s, k + 1, k) = << >>
      BY <3>1, SubSeqEmpty
    <3>3. SubSeq(tail, 1, 0) = << >>
      BY SubSeqEmpty
    <3>4. rest = << >>
      BY <1>3, <2>3, <3>3
    <3> QED
      BY <1>1, <3>1, <3>2, <3>4
  <2>4. CASE rest = SubSeq(tail, 1, Len(pushed)) /\ n - e # 0
    <3>1. /\ k + 1 \in 1 .. n /\ n \in 1 .. n
          /\ 1 \in 1 .. n - (k + 1) + 1 /\ n - e \in 1 .. n - (k + 1) + 1
      BY <1>1, <2>4
    <3>2. SubSeq(tail, 1, n - e) = SubSeq(s, k + 1 + 1 - 1, k + 1 + (n - e) - 1)
      BY <1>1, <3>1, SubSeqOfSubSeq DEF n
    <3>3. k + 1 + 1 - 1 = k + 1 /\ k + 1 + (n - e) - 1 = k + (n - e)
      BY <1>1
    <3>4. rest = SubSeq(s, k + 1, k + (n - e))
      BY <1>3, <2>4, <3>2, <3>3
    <3>5. k \in k .. n /\ k + (n - e) \in k .. n /\ k <= k + (n - e)
      BY <1>1
    <3> QED
      BY <3>4, <3>5
  <2> QED
    BY <1>2, <2>1, <2>2, <2>3, <2>4
<1>5. PICK a \in k .. n, b \in k .. n :
        /\ a <= b
        /\ \/ (a = e /\ b = n) \/ a = b \/ (a = k /\ b = k + (n - e))
        /\ rest = SubSeq(s, a + 1, b)
  BY <1>4
<1>6. k \in 0 .. Len(s) /\ a \in k .. Len(s) /\ b \in a .. Len(s) /\ a \in 0 .. Len(s)
  BY <1>1, <1>5 DEF n
<1>7. /\ s' \in Seq(S)
      /\ Len(s') = k + (b - a)
      /\ \A i \in 1 .. Len(s') : s'[i] = s[IF i <= k THEN i ELSE a + (i - k)]
  <2>1. s' = SubSeq(s, 1, k) \o SubSeq(s, a + 1, b) /\ s \in Seq(S)
    BY <1>1, <1>2, <1>5
  <2> QED
    <3> DEFINE t == SubSeq(s, 1, k) \o SubSeq(s, a + 1, b)
    <3>1. /\ t \in Seq(S)
          /\ Len(t) = k + (b - a)
          /\ \A i \in 1 .. Len(t) : t[i] = s[IF i <= k THEN i ELSE a + (i - k)]
      BY <1>6, <2>1, FrontAndPiece, SMTT(60)
    <3> QED
      BY <2>1, <3>1
<1>8. ToSet(rest) = {s[i] : i \in a + 1 .. b}
  <2>1. ToSet(SubSeq(s, a + 1, b)) = {s[i] : i \in a + 1 .. b}
    BY <1>1, <1>6, Piece
  <2> QED
    BY <1>5, <2>1
<1> QED
  BY <1>2, <1>3, <1>5, <1>7, <1>8 DEF s, k, e, n, S

(* The main thread inside OnMessage.                                       *)
LEMMA OnMessageTyped ==
  ASSUME TypeOK, Swept, OnMessage
  PROVE  TypeOK'
<1> USE DEF asio, acceptor, identity, history, broadcast, incoming
<1>1. ASSUME NEW kind, NextRequest(kind)
      PROVE  /\ Head(m_qMessagesIn).remote \in Clients
             /\ m_qMessagesIn' \in Seq([remote : Clients, kind : Requests])
  <2>1. m_qMessagesIn \in Seq([remote : Clients, kind : Requests]) /\ m_qMessagesIn # << >>
    BY <1>1 DEF TypeOK, NextRequest
  <2>2. Head(m_qMessagesIn) \in [remote : Clients, kind : Requests]
        /\ Tail(m_qMessagesIn) \in Seq([remote : Clients, kind : Requests])
    BY <2>1, HeadTailProperties
  <2> QED
    BY <1>1, <2>2 DEF NextRequest
<1>2. CASE SendPingBack
  <2>1. ops' \in [Clients -> [OpKinds -> Nat]]
    <3>1. \E c \in Clients : Send(c)
      BY <1>1, <1>2 DEF SendPingBack
    <3> QED
      BY <3>1, SendTyped
  <2> QED
    BY <1>1, <1>2, <2>1, ZenonT(180) DEF SendPingBack, TypeOK
<1>3. CASE MessageClientClosed
  BY <1>1, <1>3 DEF MessageClientClosed, TypeOK
<1>4. CASE OnMessageAll
  <2>1. main' \in MainStates
    BY <1>1, <1>4, LenProperties DEF OnMessageAll, Updating, MainStates, TypeOK
  <2>2. audience' \in [all : SUBSET Clients, closed : SUBSET Clients]
    BY <1>4 DEF OnMessageAll
  <2> QED
    BY <1>1, <1>4, <2>1, <2>2 DEF OnMessageAll, TypeOK, MainStates
<1>5. ASSUME Visiting
      PROVE  /\ main.cursor \in DOMAIN m_deqConnections
             /\ Visited \in Clients \cup {Null}
             /\ main.cursor + 1 \in Nat
  <2>1. main.cursor \in 1 .. Len(m_deqConnections)
    <3>1. /\ main.cursor \in 1 .. main.end + 1 /\ main.end <= Len(m_deqConnections)
          /\ main.cursor <= main.end
      BY <1>5 DEF Visiting, Swept, Visits
    <3>2. main.end \in Nat /\ Len(m_deqConnections) \in Nat
      BY LenProperties DEF TypeOK
    <3> QED
      BY <3>1, <3>2
  <2>2. m_deqConnections \in Seq(Clients \cup {Null})
    BY DEF TypeOK
  <2> QED
    BY <2>1, <2>2, LenProperties, ElementOfSeq DEF Visited
<1>6. CASE VisitConnected
  <2>1. Visited \in Clients /\ main.cursor + 1 \in Nat
    BY <1>5, <1>6 DEF VisitConnected
  <2>2. \/ Send(Visited) /\ reached' = [reached EXCEPT ![Visited] = @ + 1]
        \/ UNCHANGED <<ops, reached>>
    BY <1>6 DEF VisitConnected
  <2>3. ops' \in [Clients -> [OpKinds -> Nat]]
    <3>1. CASE ops' = ops
      BY <3>1 DEF TypeOK
    <3>2. CASE Send(Visited)
      BY <2>1, <3>2, SendTyped
    <3> QED
      BY <2>2, <3>1, <3>2
  <2>4. reached' \in [Clients -> Nat]
    <3>1. reached \in [Clients -> Nat]
      BY DEF TypeOK
    <3>2. reached[Visited] + 1 \in Nat
      BY <2>1, <3>1
    <3> QED
      BY <2>1, <2>2, <3>1, <3>2
  <2>5. main' \in MainStates
    BY <1>6, <2>1 DEF VisitConnected, TypeOK, MainStates
  <2> QED
    BY <1>6, <2>3, <2>4, <2>5 DEF VisitConnected, TypeOK, MainStates
<1>7. CASE VisitClosed
  <2>1. /\ main.cursor \in DOMAIN m_deqConnections /\ Visited \in Clients
        /\ main.cursor + 1 \in Nat
    BY <1>5, <1>7 DEF VisitClosed, ReportVisited
  <2>2. m_deqConnections' \in Seq(Clients \cup {Null})
    <3>1. /\ m_deqConnections \in Seq(Clients \cup {Null})
          /\ main.cursor \in 1 .. Len(m_deqConnections)
          /\ Null \in Clients \cup {Null}
      BY <2>1, LenProperties DEF TypeOK
    <3>2. m_deqConnections' = [m_deqConnections EXCEPT ![main.cursor] = Null]
      BY <1>7 DEF VisitClosed, ReportVisited
    <3> QED
      BY <3>1, <3>2, ExceptSeq
  <2>3. main' \in MainStates
    BY <1>7, <2>1 DEF VisitClosed, ReportVisited, TypeOK, MainStates
  <2> QED
    BY <1>7, <2>1, <2>2, <2>3 DEF VisitClosed, ReportVisited, TypeOK, MainStates
<1>8. CASE VisitNull
  BY <1>8, ZenonT(180) DEF VisitNull, elsewhere, TypeOK
<1>9. CASE BroadcastEnds
  <2>1. main' \in MainStates
    BY <1>9, UpdatingTyped DEF BroadcastEnds, BroadcastEndsThen, TypeOK, MainStates
  <2>2. NoAudience \in [all : SUBSET Clients, closed : SUBSET Clients]
    BY DEF NoAudience
  <2> QED
    BY <1>9, <2>1, <2>2 DEF BroadcastEnds, BroadcastEndsThen, TypeOK, MainStates
<1>10. CASE SweepRemove
  <2> DEFINE places == {i \in DOMAIN m_deqConnections : m_deqConnections[i] # Null}
             kept == Cardinality(places)
  <2>1. m_deqConnections \in Seq(Clients \cup {Null}) /\ Len(m_deqConnections) \in Nat
    BY LenProperties DEF TypeOK
  <2>2. kept \in Nat /\ kept <= Len(m_deqConnections)
    BY <2>1, PlacesCounted
  <2>3. PICK from \in [1 .. kept -> places] :
          m_deqConnections' = [i \in DOMAIN m_deqConnections |->
                                 IF i <= kept THEN m_deqConnections[from[i]] ELSE Null]
    BY <1>10 DEF SweepRemove
  <2>4. main' \in MainStates
    BY <1>10, <2>1, <2>2 DEF SweepRemove, TypeOK, MainStates
  <2>5. m_deqConnections' \in Seq(Clients \cup {Null})
    <3> HIDE DEF kept, places
    <3>1. ASSUME NEW i \in DOMAIN m_deqConnections
          PROVE  m_deqConnections'[i] \in Clients \cup {Null}
      <4>1. CASE i <= kept
        <5>1. from[i] \in places
          BY <2>1, <2>2, <4>1, LenProperties
        <5>2. from[i] \in DOMAIN m_deqConnections
          BY <5>1 DEF places
        <5> QED
          BY <2>1, <2>3, <4>1, <5>2, LenProperties, ElementOfSeq
      <4>2. CASE ~(i <= kept)
        BY <2>3, <4>2
      <4> QED
        BY <4>1, <4>2
    <3>2. m_deqConnections' \in [1 .. Len(m_deqConnections) -> Clients \cup {Null}]
      BY <2>1, <2>3, <3>1, LenProperties
    <3> QED
      BY <2>1, <3>2, SeqDef
  <2> QED
    BY <1>10, <2>4, <2>5 DEF SweepRemove, TypeOK, MainStates
<1>11. CASE SweepErase
  <2>1. Erases
    BY <1>11 DEF SweepErase, Swept
  <2>2. m_deqConnections' \in Seq(Clients \cup {Null})
    BY <1>11, <2>1, ErasedTail
  <2>3. lost' \subseteq Clients
    <3> DEFINE n == Len(m_deqConnections)
               pushed == {m_deqConnections[i] : i \in main.end + 1 .. n}
    <3>1. lost' \subseteq lost \cup pushed
      BY <1>11, <2>1, ErasedTail
    <3>2. ASSUME NEW i \in main.end + 1 .. n PROVE m_deqConnections[i] \in Clients
      <4>1. /\ m_deqConnections \in Seq(Clients \cup {Null}) /\ n \in Nat
            /\ main.end \in Nat
        BY LenProperties DEF TypeOK
      <4>2. i \in 1 .. n /\ ~(i <= main.end)
        BY <4>1
      <4> QED
        BY <2>1, <4>1, <4>2, LenProperties, ElementOfSeq DEF Erases
    <3>3. pushed \subseteq Clients
      BY <3>2
    <3>4. lost \subseteq Clients
      BY DEF TypeOK
    <3> QED
      BY <3>1, <3>3, <3>4
  <2>4. main' \in MainStates
    BY <1>11, UpdatingTyped DEF SweepErase
  <2> QED
    BY <1>11, <2>2, <2>3, <2>4 DEF SweepErase, TypeOK, MainStates
<1> QED
  BY <1>2, <1>3, <1>4, <1>6, <1>7, <1>8, <1>9, <1>10, <1>11 DEF OnMessage
-----------------------------------------------------------------------------
(* The registry and the main thread's way through it.                      *)

(* No connection is accepted, and none that is closed opens again.         *)
SocketsKept == /\ Opened' = Opened
               /\ \A c \in Clients : m_socket[c] = "closed" => m_socket'[c] = "closed"

Idle == main.pc \in {"update", "join"}

(* A step that touches neither the deque nor what is remembered of the     *)
(* broadcast, and leaves the main thread in its loop or out of it.         *)
LEMMA QuietKeepsOrder ==
  ASSUME TypeOK, Ordered, SocketsKept,
         UNCHANGED <<m_deqConnections, dropped, broadcast, lost>>,
         thread = "destroyed" => thread' = "destroyed",
         fault' = "null visited" => fault = "null visited" \/ lost # {},
         \/ UNCHANGED main
         \/ Idle /\ main'.pc \in {"update", "join", "remove"}
  PROVE  Ordered'
<1> USE DEF Ordered, SocketsKept, broadcast
<1>1. Registry'
  BY DEF Registry, NoneTwice, Registered, TypeOK
<1>2. Swept'
  BY DEF Swept, Visits, Erases, NullAllowed, Idle
<1>3. Broadcasting'
  <2>1. CASE main'.pc # "visit"
    BY <2>1 DEF Broadcasting, Idle
  <2>2. CASE main'.pc = "visit"
    <3>1. UNCHANGED <<main, reached, audience, m_deqConnections, dropped>>
      BY <2>2
    <3>2. audience.all \subseteq Clients /\ audience.closed \subseteq Clients
      BY DEF TypeOK
    <3>3. /\ main.pc = "visit" /\ reached[main.remote] = 0
          /\ \A c \in Clients : reached[c] # 0 => reached[c] = 1 /\ Behind(c)
          /\ \A c \in audience.all \ {main.remote} :
               Ahead(c) \/ m_socket[c] = "closed" \/ reached[c] = 1
          /\ \A c \in audience.closed :
               m_socket[c] = "closed" /\ (Ahead(c) \/ c \in dropped)
      BY <2>2, <3>1 DEF Broadcasting
    <3>4. \A c : (Ahead(c) => Ahead(c)') /\ (Behind(c) => Behind(c)')
      BY <3>1 DEF Ahead, Behind
    <3>5. \A c \in Clients : m_socket[c] = "closed" => m_socket'[c] = "closed"
      BY DEF SocketsKept
    <3> HIDE DEF Ordered, SocketsKept
    <3> QED
      BY <3>1, <3>2, <3>3, <3>4, <3>5 DEF Broadcasting
  <2> QED
    BY <2>1, <2>2
<1>4. NoNullVisited'
  BY DEF NoNullVisited
<1> QED
  BY <1>1, <1>2, <1>3, <1>4

LEMMA HandlersElsewhere ==
  ASSUME TypeOK, Started, NEW c \in Clients,
         Arrive(c) \/ AcceptHandler(c) \/ ConnectionHandler(c), ~AcceptConnection(c)
  PROVE  /\ Started' /\ SocketsKept
         /\ UNCHANGED <<thread, m_deqConnections, main, history>>
         /\ fault' = "null visited" => fault = "null visited"
<1> USE DEF elsewhere, acceptor
<1>a. UNCHANGED elsewhere \/ RemoteEndpointThrows(c)
  BY DEF Arrive, AcceptHandler, ConnectionHandler, AcceptError, AcceptVetoed, ChallengeWritten,
     ReadValidation, ReadMessage, SendCompletes, OperationFails, HandlerOfDestroyed
<1>b. fault' = fault \/ fault' \in {"none", "remote_endpoint", "destroyed connection"}
  BY DEF Arrive, AcceptHandler, ConnectionHandler, AcceptError, AcceptVetoed, ChallengeWritten,
     ReadValidation, ReadMessage, SendCompletes, OperationFails, HandlerOfDestroyed, RemoteEndpointThrows
<1> SUFFICES Started' /\ SocketsKept
  BY <1>a, <1>b DEF RemoteEndpointThrows
<1>0. m_socket \in [Clients -> {"away", "waiting", "open", "closed", "refused"}]
  BY DEF TypeOK
<1>1. CASE Arrive(c)
  <2>1. m_socket[c] = "away" /\ m_socket' = [m_socket EXCEPT ![c] = "waiting"]
        /\ UNCHANGED <<ops, m_qMessagesIn>>
    BY <1>1 DEF Arrive, incoming
  <2>2. SocketsKept
    BY <1>0, <2>1 DEF SocketsKept, Opened
  <2>3. Opened' = Opened /\ ops' = ops /\ m_qMessagesIn' = m_qMessagesIn
    BY <2>1, <2>2 DEF SocketsKept
  <2>4. Started'
    BY <2>3 DEF Started
  <2> QED
    BY <2>2, <2>4
<1>2. CASE AcceptError(c) \/ AcceptVetoed(c)
  <2>1. m_socket[c] = "waiting" /\ m_socket' = [m_socket EXCEPT ![c] = "refused"]
        /\ UNCHANGED <<ops, m_qMessagesIn>>
    BY <1>2 DEF AcceptError, AcceptVetoed, AcceptCompletes, incoming
  <2>2. SocketsKept
    BY <1>0, <2>1 DEF SocketsKept, Opened
  <2>3. Opened' = Opened /\ ops' = ops /\ m_qMessagesIn' = m_qMessagesIn
    BY <2>1, <2>2 DEF SocketsKept
  <2>4. Started'
    BY <2>3 DEF Started
  <2> QED
    BY <2>2, <2>4
<1>3. CASE RemoteEndpointThrows(c)
  BY <1>3 DEF RemoteEndpointThrows, SocketsKept, Opened, Started, incoming
<1>4. ASSUME c \in Opened, m_socket' = m_socket \/ CloseSocket(c),
             \A d \in Clients : d # c => ops'[d] = ops[d],
             UNCHANGED m_qMessagesIn
      PROVE  Started' /\ SocketsKept
  <2>1. SocketsKept
    BY <1>4 DEF SocketsKept, Opened, CloseSocket, TypeOK
  <2>2. \A d \in Clients \ Opened : d # c
    BY <1>4
  <2> QED
    BY <1>4, <2>1, <2>2 DEF Started, SocketsKept
<1>5. ASSUME NEW k \in OpKinds, ops[c][k] > 0
      PROVE  c \in Opened
  BY <1>5 DEF Started
<1>6. ASSUME NEW k \in OpKinds, NEW n \in Int, ops' = CountOp(c, k, n)
      PROVE  \A d \in Clients : d # c => ops'[d] = ops[d]
  BY <1>6 DEF CountOp, TypeOK
<1>7. CASE ChallengeWritten(c)
  <2>1. /\ ops[c]["challenge"] > 0 /\ ops' = CountOp(c, "challenge", -1)
        /\ UNCHANGED <<m_socket, m_qMessagesIn>>
    BY <1>7 DEF ChallengeWritten, Completes, incoming
  <2>2. -1 \in Int
    OBVIOUS
  <2> QED
    BY <1>4, <1>5, <1>6, <2>1, <2>2, KindsOfOp
<1>8. CASE ReadValidation(c)
  <2>1. \A d \in Clients : d # c => ops'[d] = ops[d]
    <3>1. \/ ops' = [ops EXCEPT ![c].answer = @ - 1, ![c].message = @ + 1]
          \/ ops' = CountOp(c, "answer", -1)
      BY <1>8 DEF ReadValidation
    <3>2. ops \in [Clients -> [OpKinds -> Nat]]
      BY DEF TypeOK
    <3> QED
      BY <1>6, <3>1, <3>2, KindsOfOp
  <2> QED
    BY <1>4, <1>5, <1>8, <2>1, KindsOfOp DEF ReadValidation, Completes, incoming
<1>9. ASSUME NEW kind \in Requests, ReadMessage(c, kind)
      PROVE  Started' /\ SocketsKept
  <2>1. c \in Opened /\ SocketsKept
    BY <1>5, <1>9, KindsOfOp DEF ReadMessage, Completes, SocketsKept, Opened
  <2>2. m_qMessagesIn \in Seq([remote : Clients, kind : Requests])
        /\ [remote |-> c, kind |-> kind] \in [remote : Clients, kind : Requests]
    BY DEF TypeOK
  <2>3. m_qMessagesIn' = Append(m_qMessagesIn, [remote |-> c, kind |-> kind])
    BY <1>9 DEF ReadMessage
  <2>4. \A i \in DOMAIN m_qMessagesIn' :
          \/ i \in DOMAIN m_qMessagesIn /\ m_qMessagesIn'[i] = m_qMessagesIn[i]
          \/ m_qMessagesIn'[i].remote = c
    BY <2>2, <2>3, AppendProperties, LenProperties
  <2>5. UNCHANGED ops
    BY <1>9 DEF ReadMessage
  <2> QED
    BY <2>1, <2>4, <2>5 DEF Started, SocketsKept
<1>10. CASE SendCompletes(c)
  <2>1. /\ ops[c]["send"] > 0 /\ ops' = CountOp(c, "send", -1)
        /\ UNCHANGED <<m_socket, m_qMessagesIn>>
    BY <1>10 DEF SendCompletes, Completes, incoming
  <2>2. -1 \in Int
    OBVIOUS
  <2> QED
    BY <1>4, <1>5, <1>6, <2>1, <2>2, KindsOfOp
<1>11. ASSUME NEW k \in OpKinds, OperationFails(c, k)
       PROVE  Started' /\ SocketsKept
  <2>1. PICK n \in Int : ops' = CountOp(c, k, n)
    <3>1. ops[c][k] \in Nat
      BY ZenonT(180) DEF TypeOK
    <3> QED
      BY <1>11, <3>1 DEF OperationFails
  <2> QED
    BY <1>4, <1>5, <1>6, <1>11, <2>1 DEF OperationFails, incoming
<1>12. CASE HandlerOfDestroyed(c)
  <2>1. PICK k \in OpKinds : ops[c][k] > 0 /\ ops' = CountOp(c, k, -1)
    BY <1>12 DEF HandlerOfDestroyed
  <2>2. Started' /\ SocketsKept
    <3>1. UNCHANGED <<m_socket, m_qMessagesIn>>
      BY <1>12 DEF HandlerOfDestroyed, incoming
    <3>2. -1 \in Int
      OBVIOUS
    <3> QED
      BY <1>4, <1>5, <1>6, <2>1, <3>1, <3>2
  <2> QED
    BY <1>12, <2>2 DEF HandlerOfDestroyed
<1> QED
  BY <1>1, <1>2, <1>3, <1>7, <1>8, <1>9, <1>10, <1>11, <1>12
     DEF AcceptHandler, ConnectionHandler

LEMMA AcceptKeepsOrder ==
  ASSUME TypeOK, Started, Ordered, NEW c \in Clients, AcceptConnection(c)
  PROVE  Started' /\ Ordered'
<1> DEFINE s == m_deqConnections
           n == Len(s)
<1>1. /\ m_socket[c] = "waiting" /\ m_socket' = [m_socket EXCEPT ![c] = "open"]
      /\ ops' = CountOp(c, "send", 1)
      /\ s' = Append(s, c)
      /\ UNCHANGED <<thread, m_qMessagesIn, main, fault, dropped, audience, reached, lost>>
  BY DEF AcceptConnection, AcceptCompletes, incoming, history, broadcast
<1>2. /\ s \in Seq(Clients \cup {Null}) /\ n \in Nat /\ DOMAIN s = 1 .. n
      /\ m_socket \in [Clients -> {"away", "waiting", "open", "closed", "refused"}]
      /\ audience.all \subseteq Clients /\ audience.closed \subseteq Clients
      /\ dropped \subseteq Clients
      /\ main.end \in Nat /\ main.cursor \in Nat
  BY LenProperties DEF TypeOK
<1>3. /\ s' \in Seq(Clients \cup {Null}) /\ Len(s') = n + 1
      /\ s'[n + 1] = c /\ \A i \in 1 .. n : s'[i] = s[i]
  BY <1>1, <1>2, AppendProperties
<1>4. DOMAIN s' = 1 .. n + 1 /\ c # Null
  BY <1>3, LenProperties, ServerAssumption
<1>5. /\ c \notin Opened /\ Opened' = Opened \cup {c}
      /\ \A d \in Clients : m_socket[d] = "closed" => m_socket'[d] = "closed"
      /\ \A d \in Clients : d # c => m_socket'[d] = m_socket[d]
  BY <1>1, <1>2 DEF Opened
<1>6. Started'
  <2>1. \A d \in Clients : d # c => ops'[d] = ops[d]
    BY <1>1, KindsOfOp DEF CountOp, TypeOK
  <2> QED
    BY <1>1, <1>5, <2>1 DEF Started
<1>7. ~Registered(c) /\ c \notin dropped
  BY <1>1, <1>5 DEF Ordered, Registry
<1> HIDE DEF s, n
<1>8. Registry'
  <2>1. NoneTwice'
    <3> SUFFICES ASSUME NEW i \in 1 .. n + 1, NEW j \in 1 .. n + 1, s'[i] = s'[j], s'[i] # Null
                 PROVE  i = j
      BY <1>3, <1>4 DEF NoneTwice, s
    <3>1. \A k \in 1 .. n : s'[k] = s[k] /\ s[k] # c
      BY <1>2, <1>3, <1>7 DEF Registered, s
    <3>2. CASE i \in 1 .. n /\ j \in 1 .. n
      BY <1>2, <3>1, <3>2 DEF Ordered, Registry, NoneTwice, s
    <3>3. CASE i \notin 1 .. n \/ j \notin 1 .. n
      BY <1>2, <1>3, <3>1, <3>3
    <3> QED
      BY <3>2, <3>3
  <2>2. \A d : Registered(d)' <=> Registered(d) \/ d = c
    BY <1>2, <1>3, <1>4 DEF Registered, s
  <2> QED
    BY <1>1, <1>2, <1>5, <1>7, <2>1, <2>2 DEF Ordered, Registry
<1>9. Swept'
  <2>1. main.pc = "visit" => Visits'
    BY <1>1, <1>2, <1>3 DEF Ordered, Swept, Visits, s, n
  <2>2. main.pc = "erase" => Erases'
    <3> SUFFICES ASSUME main.pc = "erase" PROVE Erases'
      OBVIOUS
    <3>1. /\ main.cursor <= main.end /\ main.end <= n
          /\ \A i \in 1 .. n : s[i] = Null <=> main.cursor < i /\ i <= main.end
      BY <1>2 DEF Ordered, Swept, Erases, s, n
    <3>2. ASSUME NEW i \in 1 .. n + 1
          PROVE  s'[i] = Null <=> main.cursor < i /\ i <= main.end
      <4>1. CASE i \in 1 .. n
        BY <1>3, <3>1, <4>1
      <4>2. CASE i = n + 1
        BY <1>2, <1>3, <1>4, <3>1, <4>2
      <4> QED
        BY <1>2, <4>1, <4>2
    <3> QED
      BY <1>1, <1>2, <1>3, <1>4, <3>1, <3>2 DEF Erases, s
  <2>3. lost = {} => \A i \in 1 .. n + 1 : s'[i] = Null => NullAllowed(i)'
    <3>1. \A i : NullAllowed(i)' <=> NullAllowed(i)
      BY <1>1 DEF NullAllowed
    <3>2. \A i \in 1 .. n + 1 : s'[i] = Null => i \in 1 .. n /\ s[i] = Null
      BY <1>2, <1>3, <1>4
    <3> QED
      BY <1>2, <3>1, <3>2 DEF Ordered, Swept, s
  <2> QED
    BY <1>1, <1>4, <2>1, <2>2, <2>3 DEF Swept, s
<1>10. Broadcasting'
  <2>1. CASE main.pc # "visit"
    BY <1>1, <2>1 DEF Ordered, Broadcasting
  <2>2. CASE main.pc = "visit"
    <3>1. main.end <= n /\ main.cursor \in 1 .. main.end + 1
      BY <2>2 DEF Ordered, Swept, Visits, s, n
    <3>2. \A d : (Ahead(d) => Ahead(d)') /\ (Behind(d) => Behind(d)')
      <4>1. \A i \in main.cursor .. main.end : i \in 1 .. n
        BY <1>2, <3>1
      <4>2. \A i \in 1 .. main.cursor - 1 : i \in 1 .. n
        BY <1>2, <3>1
      <4> QED
        BY <1>1, <1>3, <4>1, <4>2 DEF Ahead, Behind, s
    <3>3. /\ reached[main.remote] = 0
          /\ \A d \in Clients : reached[d] # 0 => reached[d] = 1 /\ Behind(d)
          /\ \A d \in audience.all \ {main.remote} :
               Ahead(d) \/ m_socket[d] = "closed" \/ reached[d] = 1
          /\ \A d \in audience.closed :
               m_socket[d] = "closed" /\ (Ahead(d) \/ d \in dropped)
      BY <2>2 DEF Ordered, Broadcasting
    <3> QED
      BY <1>1, <1>2, <1>5, <2>2, <3>2, <3>3 DEF Broadcasting
  <2> QED
    BY <2>1, <2>2
<1> QED
  BY <1>1, <1>6, <1>8, <1>9, <1>10 DEF Ordered, NoNullVisited

LEMMA ProgramKeepsOrder ==
  ASSUME TypeOK, Started, Ordered,
         Start \/ Stop \/ Join \/ Destroy \/ ConnectBack \/ AnnounceBack
  PROVE  Started' /\ Ordered'
<1> USE DEF acceptor, identity, history, broadcast, incoming
<1>1. CASE Start \/ Stop \/ Join
  <2>1. /\ UNCHANGED <<m_socket, ops, m_qMessagesIn, m_deqConnections, history, fault>>
        /\ thread # "destroyed"
        /\ UNCHANGED main \/ (Idle /\ main'.pc \in {"update", "join", "remove"})
    BY <1>1, UpdatingTyped DEF Start, Stop, StopAndJoin, Join, Idle, TypeOK
  <2>2. Opened' = Opened
    BY <2>1 DEF Opened
  <2>3. SocketsKept
    BY <2>1, <2>2 DEF SocketsKept
  <2>4. Started'
    BY <2>1, <2>2 DEF Started
  <2> QED
    BY <2>1, <2>3, <2>4, QuietKeepsOrder
<1>2. CASE Destroy
  <2>1. /\ m_deqConnections' = << >> /\ m_qMessagesIn' = << >> /\ thread' = "destroyed"
        /\ ops' = [c \in Clients |-> NoOps]
        /\ m_socket' = [c \in Clients |-> IF IsConnected(c) THEN "closed" ELSE m_socket[c]]
        /\ main.pc = "update" /\ fault' # "null visited"
        /\ UNCHANGED <<main, history>>
    BY <1>2 DEF Destroy
  <2>2. Opened' = Opened /\ \A c \in Clients : m_socket[c] = "closed" => m_socket'[c] = "closed"
    BY <2>1 DEF Opened, IsConnected
  <2>3. DOMAIN m_deqConnections' = {} /\ DOMAIN m_qMessagesIn' = {}
    <3>1. DOMAIN << >> = {}
      OBVIOUS
    <3> QED
      BY <2>1, <3>1
  <2>4. Started'
    BY <2>1, <2>3 DEF Started, NoOps
  <2>5. Registry'
    <3>1. dropped \subseteq Clients
      BY DEF TypeOK
    <3>2. NoneTwice' /\ \A c : ~Registered(c)'
      BY <2>3 DEF NoneTwice, Registered
    <3> QED
      BY <2>1, <2>2, <3>1, <3>2 DEF Ordered, Registry
  <2>6. Swept'
    BY <2>1, <2>3 DEF Swept
  <2>7. Broadcasting'
    BY <2>1 DEF Ordered, Broadcasting
  <2> QED
    BY <2>1, <2>4, <2>5, <2>6, <2>7 DEF Ordered, NoNullVisited
<1>3. CASE ConnectBack \/ AnnounceBack
  <2> DEFINE c == Back
  <2>1. /\ UNCHANGED <<m_socket, thread, m_deqConnections, m_qMessagesIn, main, history>>
        /\ fault' = fault \/ fault' = "null back"
        /\ UNCHANGED ops \/ (~BackIsNull /\ ConnectToClient(c))
    BY <1>3 DEF ConnectBack, ConnectBackNumbering, AnnounceBack, AnnounceBackAndGoOn
  <2>2. Opened' = Opened
    BY <2>1 DEF Opened
  <2>3. SocketsKept
    BY <2>1, <2>2 DEF SocketsKept
  <2>4. ~BackIsNull => c \in Opened
    BY BackTyped DEF Back, Ordered, Registry, Registered
  <2> HIDE DEF c
  <2>5. Started'
    <3>1. ASSUME c \in Opened, ConnectToClient(c)
          PROVE  \A d \in Clients : d # c => ops'[d] = ops[d]
      BY <3>1 DEF ConnectToClient, TypeOK
    <3>2. \A d \in Clients \ Opened : ops'[d] = ops[d]
      BY <2>1, <2>4, <3>1
    <3>3. m_qMessagesIn' = m_qMessagesIn
      BY <2>1
    <3> QED
      BY <2>2, <3>2, <3>3 DEF Started
  <2> QED
    BY <2>1, <2>3, <2>5, QuietKeepsOrder
<1> QED
  BY <1>1, <1>2, <1>3

(* Taking a request off the queue.                                         *)
LEMMA RequestTaken ==
  ASSUME TypeOK, Started, NEW kind, NextRequest(kind)
  PROVE  /\ Head(m_qMessagesIn).remote \in Opened
         /\ \A c \in Clients \ Opened :
              \A i \in DOMAIN m_qMessagesIn' : m_qMessagesIn'[i].remote # c
<1> DEFINE q == m_qMessagesIn
           M == [remote : Clients, kind : Requests]
<1>1. q \in Seq(M) /\ q # << >> /\ q' = Tail(q)
  BY DEF TypeOK, NextRequest
<1>2. \A c \in Clients \ Opened : \A i \in DOMAIN q : q[i].remote # c
  BY DEF Started
<1> HIDE DEF q, M
<1>3. Len(q) \in Nat /\ Len(q) # 0 /\ DOMAIN q = 1 .. Len(q)
  BY <1>1, EmptySeq, LenProperties
<1>4. /\ Head(q) = q[1] /\ Head(q) \in M /\ Tail(q) \in Seq(M)
      /\ Len(Tail(q)) = Len(q) - 1
      /\ \A i \in 1 .. Len(q) - 1 : Tail(q)[i] = q[i + 1]
  BY <1>1, <1>3, HeadTailProperties
<1>5. Head(q).remote \in Opened
  <2>1. 1 \in DOMAIN q
    BY <1>3
  <2>2. Head(q).remote \in Clients
    BY <1>4 DEF M
  <2> QED
    BY <1>2, <1>4, <2>1, <2>2
<1>6. ASSUME NEW c \in Clients \ Opened, NEW i \in DOMAIN Tail(q)
      PROVE  Tail(q)[i].remote # c
  <2>1. i \in 1 .. Len(q) - 1
    BY <1>4, LenProperties
  <2>2. i + 1 \in DOMAIN q
    BY <1>3, <2>1
  <2> QED
    BY <1>2, <1>4, <2>1, <2>2
<1> QED
  BY <1>1, <1>5, <1>6 DEF q

LEMMA PingKeepsOrder ==
  ASSUME TypeOK, Started, Ordered, SendPingBack \/ MessageClientClosed
  PROVE  Started' /\ Ordered'
<1> USE DEF asio, acceptor, identity, history, broadcast, incoming
<1>1. NextRequest("ServerPing")
  BY DEF SendPingBack, MessageClientClosed
<1> DEFINE client == Head(m_qMessagesIn).remote
<1>2. /\ client \in Opened
      /\ \A c \in Clients \ Opened :
           \A i \in DOMAIN m_qMessagesIn' : m_qMessagesIn'[i].remote # c
  BY <1>1, RequestTaken
<1>3. main.pc = "update"
  BY <1>1 DEF NextRequest
<1>4. /\ UNCHANGED <<m_socket, thread, m_deqConnections, dropped, broadcast, lost, fault>>
      /\ \/ UNCHANGED ops /\ main' = [main EXCEPT !.pc = "remove", !.remote = client]
         \/ UNCHANGED main /\ Send(client)
  BY DEF SendPingBack, MessageClientClosed
<1>5. SocketsKept
  BY <1>4 DEF SocketsKept, Opened
<1> HIDE DEF client
<1>6. Started'
  <2>1. \A c \in Clients \ Opened : ops'[c] = ops[c]
    <3>1. CASE ops' = ops
      BY <3>1
    <3>2. CASE Send(client)
      <4>1. ops' = [ops EXCEPT ![client]["send"] = @ + 1]
        BY <3>2 DEF Send, CountOp
      <4>2. ops \in [Clients -> [OpKinds -> Nat]]
        BY DEF TypeOK
      <4> QED
        BY <1>2, <4>1, <4>2
    <3> QED
      BY <1>4, <3>1, <3>2
  <2>2. Opened' = Opened
    BY <1>5 DEF SocketsKept
  <2> QED
    BY <1>2, <2>1, <2>2 DEF Started
<1>7. UNCHANGED main \/ (Idle /\ main'.pc \in {"update", "join", "remove"})
  BY <1>3, <1>4 DEF Idle, TypeOK
<1>8. UNCHANGED <<m_deqConnections, dropped, broadcast, lost>> /\ thread' = thread
      /\ fault' = fault
  BY <1>4
<1> HIDE DEF asio, acceptor, identity, history, broadcast, incoming
<1> QED
  BY <1>5, <1>6, <1>7, <1>8, QuietKeepsOrder

(* Where the main thread is in the deque.                                  *)
LEMMA Places ==
  ASSUME TypeOK
  PROVE  /\ m_deqConnections \in Seq(Clients \cup {Null})
         /\ Len(m_deqConnections) \in Nat
         /\ DOMAIN m_deqConnections = 1 .. Len(m_deqConnections)
         /\ main.cursor \in Nat /\ main.end \in Nat
         /\ \A i \in DOMAIN m_deqConnections : m_deqConnections[i] \in Clients \cup {Null}
         /\ Null \notin Clients
         /\ audience.all \subseteq Clients /\ audience.closed \subseteq Clients
<1>1. m_deqConnections \in Seq(Clients \cup {Null})
  BY DEF TypeOK
<1>2. main.cursor \in Nat /\ main.end \in Nat
  BY DEF TypeOK
<1>3. audience.all \subseteq Clients /\ audience.closed \subseteq Clients
  BY DEF TypeOK
<1> QED
  BY <1>1, <1>2, <1>3, LenProperties, ElementOfSeq, ServerAssumption

LEMMA AllKeepsOrder ==
  ASSUME TypeOK, Started, Ordered, OnMessageAll
  PROVE  Started' /\ Ordered'
<1> DEFINE s == m_deqConnections
           n == Len(s)
           sender == Head(m_qMessagesIn).remote
<1>1. /\ NextRequest("MessageAll")
      /\ main' = [Updating EXCEPT !.pc = "visit", !.cursor = 1, !.remote = sender, !.end = n]
      /\ audience' = [all |-> ToSet(s) \cap Clients,
                      closed |-> {c \in ToSet(s) \cap Clients : ~IsConnected(c)}]
      /\ reached' = [c \in Clients |-> 0]
      /\ UNCHANGED <<m_socket, thread, s, ops, fault, dropped, lost>>
  BY DEF OnMessageAll, asio, acceptor
<1>2. /\ sender \in Opened
      /\ \A c \in Clients \ Opened :
           \A i \in DOMAIN m_qMessagesIn' : m_qMessagesIn'[i].remote # c
  BY <1>1, RequestTaken
<1>3. n \in Nat /\ DOMAIN s = 1 .. n
  BY Places
<1> HIDE DEF s, n, sender
<1>4. /\ main'.pc = "visit" /\ main'.cursor = 1 /\ main'.end = n /\ main'.remote = sender
  BY <1>1 DEF Updating
<1>5. main.pc = "update"
  BY <1>1 DEF NextRequest
<1>6. Opened' = Opened /\ sender \in Clients
  BY <1>1, <1>2 DEF Opened
<1>7. Started'
  BY <1>1, <1>2, <1>6 DEF Started
<1>8. Registry'
  BY <1>1, <1>6 DEF Ordered, Registry, NoneTwice, Registered, s
<1>9. Swept'
  <2>1. Visits'
    BY <1>1, <1>3, <1>4, <1>6 DEF Visits, s, n
  <2>2. lost = {} => \A i \in DOMAIN s : s[i] # Null
    BY <1>5 DEF Ordered, Swept, NullAllowed, s
  <2> QED
    BY <1>1, <1>4, <2>1, <2>2 DEF Swept, s
<1>10. Broadcasting'
  <2>1. ASSUME NEW c \in ToSet(s) \cap Clients
        PROVE  Ahead(c)' /\ (IsConnected(c) \/ m_socket[c] = "closed")
    <3>1. PICK i \in 1 .. n : s[i] = c
      BY <1>3, <2>1 DEF ToSet
    <3>2. Ahead(c)'
      BY <1>1, <1>4, <3>1 DEF Ahead, s
    <3>3. c \in Opened
      BY <1>3, <3>1 DEF Ordered, Registry, Registered, s
    <3> QED
      BY <3>2, <3>3 DEF Opened, IsConnected
  <2>2. /\ audience'.all = ToSet(s) \cap Clients
        /\ audience'.closed = {c \in ToSet(s) \cap Clients : ~IsConnected(c)}
    BY <1>1
  <2>3. m_socket' = m_socket /\ \A c \in Clients : reached'[c] = 0
    BY <1>1
  <2> QED
    BY <1>4, <1>6, <2>1, <2>2, <2>3 DEF Broadcasting
<1>11. NoNullVisited'
  BY <1>1 DEF Ordered, NoNullVisited
<1> QED
  BY <1>7, <1>8, <1>9, <1>10, <1>11 DEF Ordered

LEMMA EndKeepsOrder ==
  ASSUME TypeOK, Started, Ordered, BroadcastEnds
  PROVE  Started' /\ Ordered'
<1>1. /\ main.pc = "visit"
      /\ main' = IF main.bInvalidClientExists THEN [main EXCEPT !.pc = "remove"] ELSE Updating
      /\ reached' = [c \in Clients |-> 0]
      /\ UNCHANGED <<m_socket, thread, m_deqConnections, ops, m_qMessagesIn, fault, dropped, lost>>
  BY DEF BroadcastEnds, BroadcastEndsThen, asio, acceptor, incoming
<1>2. /\ main'.pc \in {"update", "remove"}
      /\ main.bInvalidClientExists => main'.pc = "remove"
  BY <1>1 DEF Updating, TypeOK
<1>3. Opened' = Opened
  BY <1>1 DEF Opened
<1>4. Started'
  BY <1>1, <1>3 DEF Started
<1>5. Registry'
  BY <1>1, <1>3 DEF Ordered, Registry, NoneTwice, Registered
<1>6. Swept'
  <2>1. lost = {} => \A i \in DOMAIN m_deqConnections :
                       m_deqConnections[i] = Null => main'.pc = "remove"
    BY <1>1, <1>2 DEF Ordered, Swept, NullAllowed
  <2> QED
    BY <1>1, <1>2, <2>1 DEF Swept, NullAllowed
<1>7. Broadcasting'
  BY <1>1, <1>2 DEF Broadcasting
<1> QED
  BY <1>1, <1>4, <1>5, <1>6, <1>7 DEF Ordered, NoNullVisited

(* The place the loop is at, while it is in the loop.                      *)
LEMMA AtVisited ==
  ASSUME TypeOK, Ordered, Visiting
  PROVE  /\ main.pc = "visit"
         /\ main.cursor \in 1 .. Len(m_deqConnections)
         /\ main.end \in main.cursor .. Len(m_deqConnections)
         /\ Visited # Null => Visited \in Opened
<1>1. /\ main.pc = "visit" /\ main.cursor <= main.end
      /\ main.cursor \in 1 .. main.end + 1 /\ main.end <= Len(m_deqConnections)
  BY DEF Visiting, Ordered, Swept, Visits
<1>2. main.cursor \in 1 .. Len(m_deqConnections) /\ main.end \in main.cursor .. Len(m_deqConnections)
  BY <1>1, Places
<1> QED
  BY <1>1, <1>2, Places DEF Visited, Ordered, Registry, Registered

LEMMA ConnectedKeepsOrder ==
  ASSUME TypeOK, Started, Ordered, VisitConnected
  PROVE  Started' /\ Ordered'
<1> DEFINE s == m_deqConnections
           n == Len(s)
           k == main.cursor
           e == main.end
           v == Visited
<1>1. /\ Visiting /\ v # Null /\ m_socket[v] = "open"
      /\ \/ v # main.remote /\ Send(v) /\ reached' = [reached EXCEPT ![v] = @ + 1]
         \/ v = main.remote /\ UNCHANGED <<ops, reached>>
      /\ main' = [main EXCEPT !.cursor = @ + 1]
      /\ UNCHANGED <<m_socket, thread, s, m_qMessagesIn, fault, dropped, audience, lost>>
  BY DEF VisitConnected, IsConnected, asio, acceptor, incoming
<1>2. /\ main.pc = "visit" /\ k \in 1 .. n /\ e \in k .. n /\ v \in Opened /\ v = s[k]
      /\ v \in Clients
  BY <1>1, AtVisited DEF Visited, Opened
<1>3. /\ n \in Nat /\ DOMAIN s = 1 .. n /\ k \in Nat /\ e \in Nat
      /\ audience.all \subseteq Clients /\ audience.closed \subseteq Clients
  BY Places
<1>4. main'.pc = "visit" /\ main'.cursor = k + 1 /\ main'.end = e /\ main'.remote = main.remote
      /\ main'.bInvalidClientExists = main.bInvalidClientExists
  BY <1>1, <1>2 DEF TypeOK
<1>5. Opened' = Opened
  BY <1>1 DEF Opened
<1> HIDE DEF s, n, k, e, v
<1>6. Started'
  <2>1. \A c \in Clients \ Opened : ops'[c] = ops[c]
    BY <1>1, <1>2 DEF Send, CountOp, TypeOK
  <2>2. m_qMessagesIn' = m_qMessagesIn
    BY <1>1
  <2> QED
    BY <1>5, <2>1, <2>2 DEF Started
<1>7. Registry'
  BY <1>1, <1>5 DEF Ordered, Registry, NoneTwice, Registered, s
<1>8. Swept'
  <2>1. Visits'
    <3>1. main.remote \in Clients /\ k + 1 \in 1 .. e + 1 /\ e <= n
      BY <1>2, <1>3 DEF Ordered, Swept, Visits
    <3> QED
      BY <1>1, <1>4, <3>1 DEF Visits, s, n
  <2>2. \A i \in 1 .. n : NullAllowed(i) => NullAllowed(i)'
    BY <1>2, <1>3, <1>4 DEF NullAllowed, k
  <2> QED
    BY <1>1, <1>3, <1>4, <2>1, <2>2 DEF Ordered, Swept, s
<1>9. Broadcasting'
  <2>1. /\ reached[main.remote] = 0 /\ main.remote \in Clients
        /\ \A c \in Clients : reached[c] # 0 => reached[c] = 1 /\ Behind(c)
        /\ \A c \in audience.all \ {main.remote} :
             Ahead(c) \/ m_socket[c] = "closed" \/ reached[c] = 1
        /\ \A c \in audience.closed :
             m_socket[c] = "closed" /\ (Ahead(c) \/ c \in dropped)
    BY <1>2 DEF Ordered, Broadcasting, Swept, Visits
  <2>2. \A c : (Behind(c) => Behind(c)') /\ (c = v => Behind(c)')
    <3>1. \A i \in 1 .. k - 1 : i \in 1 .. k + 1 - 1
      BY <1>3
    <3>2. k \in 1 .. k + 1 - 1
      BY <1>2, <1>3
    <3> QED
      BY <1>1, <1>2, <1>4, <3>1, <3>2 DEF Behind, s, k
  <2>3. \A c : Ahead(c) => Ahead(c)' \/ c = v
    <3> SUFFICES ASSUME NEW i \in k .. e PROVE i \in k + 1 .. e \/ s[i] = v
      BY <1>1, <1>4 DEF Ahead, s, k, e
    <3> QED
      BY <1>2, <1>3
  <2>4. ~Behind(v)
    <3> SUFFICES ASSUME NEW i \in 1 .. k - 1, s[i] = v PROVE FALSE
      BY DEF Behind, s, k
    <3>1. i \in 1 .. n /\ i # k
      BY <1>2, <1>3
    <3> QED
      BY <1>1, <1>2, <1>3, <3>1 DEF Ordered, Registry, NoneTwice, s
  <2>5. reached[v] = 0
    BY <1>2, <2>1, <2>4
  <2>6. /\ reached'[main.remote] = 0
        /\ \A c \in Clients : c # v => reached'[c] = reached[c]
        /\ v # main.remote => reached'[v] = 1
        /\ v = main.remote => reached'[v] = 0
    <3>1. reached \in [Clients -> Nat]
      BY DEF TypeOK
    <3> QED
      BY <1>1, <1>2, <2>1, <2>5, <3>1
  <2>7. \A c \in Clients : reached'[c] # 0 => reached'[c] = 1 /\ Behind(c)'
    BY <2>1, <2>2, <2>6
  <2>8. \A c \in audience.all \ {main.remote} :
          Ahead(c)' \/ m_socket[c] = "closed" \/ reached'[c] = 1
    BY <1>3, <2>1, <2>3, <2>6
  <2>9. \A c \in audience.closed : m_socket[c] = "closed" /\ (Ahead(c)' \/ c \in dropped)
    BY <1>1, <2>1, <2>3
  <2>10. m_socket' = m_socket /\ audience' = audience /\ dropped' = dropped
    BY <1>1
  <2> QED
    BY <1>4, <2>6, <2>7, <2>8, <2>9, <2>10 DEF Broadcasting
<1> QED
  BY <1>1, <1>6, <1>7, <1>8, <1>9 DEF Ordered, NoNullVisited

LEMMA ClosedKeepsOrder ==
  ASSUME TypeOK, Started, Ordered, VisitClosed
  PROVE  Started' /\ Ordered'
<1> DEFINE s == m_deqConnections
           n == Len(s)
           k == main.cursor
           e == main.end
           v == Visited
<1>1. /\ Visiting /\ v # Null /\ m_socket[v] # "open"
      /\ dropped' = dropped \cup {v}
      /\ s' = [s EXCEPT ![k] = Null]
      /\ main' = [main EXCEPT !.cursor = @ + 1, !.end = e, !.bInvalidClientExists = TRUE]
      /\ UNCHANGED <<m_socket, thread, ops, m_qMessagesIn, fault, audience, reached, lost>>
  BY DEF VisitClosed, ReportVisited, IsConnected, asio, acceptor, incoming, broadcast
<1>2. /\ main.pc = "visit" /\ k \in 1 .. n /\ e \in k .. n /\ v \in Opened /\ v = s[k]
      /\ v \in Clients /\ m_socket[v] = "closed"
  BY <1>1, AtVisited DEF Visited, Opened
<1>3. /\ n \in Nat /\ DOMAIN s = 1 .. n /\ k \in Nat /\ e \in Nat /\ Null \notin Clients
      /\ s \in Seq(Clients \cup {Null})
      /\ audience.all \subseteq Clients /\ audience.closed \subseteq Clients
  BY Places
<1>4. main'.pc = "visit" /\ main'.cursor = k + 1 /\ main'.end = e /\ main'.remote = main.remote
      /\ main'.bInvalidClientExists = TRUE
  BY <1>1, <1>2 DEF TypeOK
<1>5. Opened' = Opened
  BY <1>1 DEF Opened
<1> HIDE DEF s, n, k, e, v
<1>6. /\ DOMAIN s' = 1 .. n /\ s'[k] = Null /\ \A i \in 1 .. n : i # k => s'[i] = s[i]
  BY <1>1, <1>2, <1>3
<1>7. Len(s') = n
  <2>1. s' \in Seq(Clients \cup {Null})
    BY <1>1, <1>2, <1>3, ExceptSeq DEF n
  <2> QED
    BY <1>3, <1>6, <2>1, LenProperties
<1>8. Started'
  BY <1>1, <1>5 DEF Started
<1>9. \A i, j \in 1 .. n : s[i] # Null /\ s[i] = s[j] => i = j
  BY <1>3 DEF Ordered, Registry, NoneTwice, s
<1>10. Registry'
  <2>1. NoneTwice'
    <3> SUFFICES ASSUME NEW i \in 1 .. n, NEW j \in 1 .. n, s'[i] # Null, s'[i] = s'[j]
                 PROVE  i = j
      BY <1>6 DEF NoneTwice, s
    <3> QED
      BY <1>6, <1>9
  <2>2. \A c \in Clients : Registered(c)' <=> Registered(c) /\ c # v
    <3> SUFFICES ASSUME NEW c \in Clients
                 PROVE  (\E i \in 1 .. n : s'[i] = c) <=> (\E i \in 1 .. n : s[i] = c) /\ c # v
      BY <1>3, <1>6 DEF Registered, s
    <3> QED
      BY <1>1, <1>2, <1>3, <1>6, <1>9
  <2>3. thread' = thread /\ m_socket' = m_socket /\ lost' = lost /\ dropped' = dropped \cup {v}
    BY <1>1
  <2>4. /\ \A c \in Clients : Registered(c) => c \in Opened /\ c \notin dropped
        /\ \A c \in dropped : m_socket[c] = "closed"
        /\ \A c \in Opened :
             Registered(c) \/ c \in dropped \/ c \in lost \/ thread = "destroyed"
    BY DEF Ordered, Registry
  <2>5. /\ \A c \in Clients : Registered(c)' => c \in Opened' /\ c \notin dropped'
        /\ \A c \in dropped' : m_socket'[c] = "closed"
    BY <1>2, <1>5, <2>2, <2>3, <2>4
  <2>6. ASSUME NEW c \in Opened
        PROVE  Registered(c)' \/ c \in dropped' \/ c \in lost' \/ thread' = "destroyed"
    BY <2>2, <2>3, <2>4 DEF Opened
  <2> QED
    BY <1>5, <2>1, <2>5, <2>6 DEF Registry
<1>11. Swept'
  <2>1. Visits'
    <3>1. main.remote \in Clients /\ k + 1 \in 1 .. e + 1 /\ e <= n
      BY <1>2, <1>3 DEF Ordered, Swept, Visits
    <3> QED
      BY <1>4, <1>7, <3>1 DEF Visits, s
  <2>2. lost = {} => \A i \in 1 .. n : s'[i] = Null => i = k \/ i < k
    BY <1>2, <1>3, <1>6 DEF Ordered, Swept, NullAllowed, s, k
  <2>3. \A i \in 1 .. n : i = k \/ i < k => NullAllowed(i)'
    BY <1>3, <1>4 DEF NullAllowed
  <2> QED
    BY <1>1, <1>4, <1>6, <2>1, <2>2, <2>3 DEF Swept, s
<1>12. Broadcasting'
  <2>1. /\ reached[main.remote] = 0
        /\ \A c \in Clients : reached[c] # 0 => reached[c] = 1 /\ Behind(c)
        /\ \A c \in audience.all \ {main.remote} :
             Ahead(c) \/ m_socket[c] = "closed" \/ reached[c] = 1
        /\ \A c \in audience.closed :
             m_socket[c] = "closed" /\ (Ahead(c) \/ c \in dropped)
    BY <1>2 DEF Ordered, Broadcasting
  <2>2. \A c : Behind(c) => Behind(c)'
    <3>1. \A i \in 1 .. k - 1 : i \in 1 .. k + 1 - 1 /\ s'[i] = s[i]
      BY <1>2, <1>3, <1>6
    <3> SUFFICES ASSUME NEW c, Behind(c) PROVE Behind(c)'
      OBVIOUS
    <3>2. PICK i \in 1 .. k - 1 : s[i] = c
      BY DEF Behind, s, k
    <3>3. s'[i] = c /\ i \in 1 .. k + 1 - 1
      BY <3>1, <3>2
    <3>4. main'.cursor = k + 1 /\ k \in Nat
      BY <1>3, <1>4
    <3>5. i \in 1 .. main'.cursor - 1
      BY <3>3, <3>4
    <3> QED
      BY <3>3, <3>5 DEF Behind, s
  <2>3. \A c : Ahead(c) => Ahead(c)' \/ c = v
    <3> SUFFICES ASSUME NEW i \in k .. e PROVE (i \in k + 1 .. e /\ s'[i] = s[i]) \/ s[i] = v
      BY <1>4 DEF Ahead, s, k, e
    <3> QED
      BY <1>2, <1>3, <1>6
  <2>4. reached' = reached /\ m_socket' = m_socket /\ audience' = audience
        /\ dropped' = dropped \cup {v}
    BY <1>1
  <2> QED
    BY <1>2, <1>3, <1>4, <2>1, <2>2, <2>3, <2>4 DEF Broadcasting
<1> QED
  BY <1>1, <1>8, <1>10, <1>11, <1>12 DEF Ordered, NoNullVisited

LEMMA NullKeepsOrder ==
  ASSUME TypeOK, Started, Ordered, VisitNull
  PROVE  Started' /\ Ordered'
<1>1. /\ Visiting /\ Visited = Null
      /\ UNCHANGED <<thread, m_deqConnections, main, history>>
      /\ UNCHANGED <<m_socket, ops, m_qMessagesIn>>
  BY DEF VisitNull, elsewhere, acceptor, incoming
<1>2. Opened' = Opened
  BY <1>1 DEF Opened
<1>3. SocketsKept
  BY <1>1, <1>2 DEF SocketsKept
<1>4. Started'
  BY <1>1, <1>2 DEF Started
<1>5. lost # {}
  <2>1. main.cursor \in DOMAIN m_deqConnections /\ main.pc = "visit" /\ main.cursor \in Nat
    BY <1>1, AtVisited, Places
  <2>2. ~NullAllowed(main.cursor)
    BY <2>1 DEF NullAllowed
  <2> QED
    BY <1>1, <2>1, <2>2 DEF Visited, Ordered, Swept
<1> QED
  BY <1>1, <1>3, <1>4, <1>5, QuietKeepsOrder DEF history

(* std::remove finds a place for every pointer that is not null.           *)
Pointers(s) == {i \in DOMAIN s : s[i] # Null}

LEMMA AllPlacesKept ==
  ASSUME NEW s \in Seq(Clients \cup {Null}),
         NEW from \in [1 .. Cardinality(Pointers(s)) -> Pointers(s)],
         \A i, j \in 1 .. Cardinality(Pointers(s)) : i < j => from[i] < from[j]
  PROVE  /\ \A i, j \in 1 .. Cardinality(Pointers(s)) : from[i] = from[j] => i = j
         /\ \A p \in Pointers(s) : \E i \in 1 .. Cardinality(Pointers(s)) : from[i] = p
<1> DEFINE places == Pointers(s)
           m == Cardinality(places)
<1>1. IsFiniteSet(places) /\ m \in Nat
  BY PlacesCounted DEF Pointers
<1>2. IsFiniteSet(1 .. m) /\ Cardinality(1 .. m) = m
  BY <1>1, FS_Interval
<1>3. \A i \in 1 .. m : from[i] \in Int
  <2>1. DOMAIN s = 1 .. Len(s) /\ Len(s) \in Nat
    BY LenProperties
  <2> QED
    BY <2>1 DEF Pointers
<1> HIDE DEF m
<1>4. from \in [1 .. m -> places] /\ \A i, j \in 1 .. m : i < j => from[i] < from[j]
  BY DEF m
<1>5. \A i, j \in 1 .. m : from[i] = from[j] => i = j
  <2> SUFFICES ASSUME NEW i \in 1 .. m, NEW j \in 1 .. m, from[i] = from[j], i # j PROVE FALSE
    OBVIOUS
  <2>1. i < j \/ j < i
    BY <1>1
  <2>2. from[i] < from[j] \/ from[j] < from[i]
    BY <1>4, <2>1
  <2> QED
    BY <1>3, <2>2
<1>6. from \in Injection(1 .. m, places)
  BY <1>4, <1>5 DEF Injection, IsInjective
<1>7. from \in Surjection(1 .. m, places)
  BY <1>1, <1>2, <1>6, FS_Injection DEF m
<1> QED
  BY <1>5, <1>7 DEF Surjection, m

LEMMA RemoveKeepsOrder ==
  ASSUME TypeOK, Started, Ordered, SweepRemove
  PROVE  Started' /\ Ordered'
<1> DEFINE s == m_deqConnections
           n == Len(s)
           places == Pointers(s)
           kept == Cardinality(places)
<1>1. PICK from \in [1 .. kept -> places] :
        /\ \A i, j \in 1 .. kept : i < j => from[i] < from[j]
        /\ s' = [i \in DOMAIN s |-> IF i <= kept THEN s[from[i]] ELSE Null]
  BY DEF SweepRemove, Pointers
<1>2. /\ main.pc = "remove"
      /\ main' = [main EXCEPT !.pc = "erase", !.cursor = kept, !.end = n]
      /\ UNCHANGED <<m_socket, thread, ops, m_qMessagesIn, fault, dropped, reached, lost>>
  BY DEF SweepRemove, asio, acceptor, incoming, history, broadcast, Pointers
<1>3. s \in Seq(Clients \cup {Null}) /\ n \in Nat /\ DOMAIN s = 1 .. n
  BY Places
<1>4. kept \in Nat /\ kept <= n
  BY <1>3, PlacesCounted DEF Pointers
<1>5. /\ \A i, j \in 1 .. kept : from[i] = from[j] => i = j
      /\ \A p \in places : \E i \in 1 .. kept : from[i] = p
  <2>1. \A i, j \in 1 .. kept : i < j => from[i] < from[j]
    BY <1>1
  <2>2. s \in Seq(Clients \cup {Null})
    BY <1>3
  <2> HIDE DEF s
  <2> QED
    BY <2>1, <2>2, AllPlacesKept
<1>6. \A i \in 1 .. kept : from[i] \in 1 .. n /\ s[from[i]] # Null
  BY <1>1, <1>3 DEF Pointers
<1>7. \A p \in 1 .. n : s[p] # Null => \E i \in 1 .. kept : from[i] = p
  BY <1>3, <1>5 DEF Pointers
<1> HIDE DEF s, n, places, kept
<1>8. /\ DOMAIN s' = 1 .. n
      /\ \A i \in 1 .. n : s'[i] = IF i <= kept THEN s[from[i]] ELSE Null
      /\ \A i \in 1 .. kept : s'[i] = s[from[i]] /\ i \in 1 .. n
  BY <1>1, <1>3, <1>4
<1>9. Len(s') = n
  <2>1. OnMessage
    BY DEF OnMessage
  <2>2. s' \in Seq(Clients \cup {Null})
    BY <2>1, OnMessageTyped DEF Ordered, TypeOK, s
  <2> QED
    BY <1>3, <1>8, <2>2, LenProperties
<1>10. main'.pc = "erase" /\ main'.cursor = kept /\ main'.end = n
  BY <1>2 DEF TypeOK
<1>11. Opened' = Opened
  BY <1>2 DEF Opened
<1>12. Started'
  BY <1>2, <1>11 DEF Started
<1>13. Registry'
  <2>1. NoneTwice'
    <3> SUFFICES ASSUME NEW i \in 1 .. n, NEW j \in 1 .. n, s'[i] # Null, s'[i] = s'[j]
                 PROVE  i = j
      BY <1>8 DEF NoneTwice, s
    <3>1. i \in 1 .. kept /\ j \in 1 .. kept
      BY <1>4, <1>8
    <3>2. s[from[i]] = s[from[j]] /\ s[from[i]] # Null
      BY <1>6, <1>8, <3>1
    <3>3. from[i] = from[j]
      BY <1>3, <1>6, <3>1, <3>2 DEF Ordered, Registry, NoneTwice, s
    <3> QED
      BY <1>5, <3>1, <3>3
  <2>2. ASSUME NEW c \in Clients
        PROVE  Registered(c)' <=> Registered(c)
    <3>1. c # Null
      BY Places
    <3>2. ASSUME NEW i \in 1 .. n, s'[i] = c PROVE \E p \in 1 .. n : s[p] = c
      <4>1. i \in 1 .. kept
        BY <1>4, <1>8, <3>1, <3>2
      <4> QED
        BY <1>6, <1>8, <3>2, <4>1
    <3>3. ASSUME NEW p \in 1 .. n, s[p] = c PROVE \E i \in 1 .. n : s'[i] = c
      <4>1. PICK i \in 1 .. kept : from[i] = p
        BY <1>7, <3>1, <3>3
      <4> QED
        BY <1>8, <3>3, <4>1
    <3> QED
      BY <1>3, <1>8, <3>2, <3>3 DEF Registered, s
  <2>3. thread' = thread /\ m_socket' = m_socket /\ lost' = lost /\ dropped' = dropped
    BY <1>2
  <2>4. Opened \subseteq Clients
    BY DEF Opened
  <2> QED
    BY <1>11, <2>1, <2>2, <2>3, <2>4 DEF Ordered, Registry
<1>14. Swept'
  <2>1. \A i \in 1 .. n : s'[i] = Null <=> kept < i /\ i <= n
    <3> SUFFICES ASSUME NEW i \in 1 .. n PROVE s'[i] = Null <=> kept < i /\ i <= n
      OBVIOUS
    <3>1. CASE i <= kept
      <4>1. i \in 1 .. kept
        BY <1>4, <3>1
      <4> QED
        BY <1>3, <1>4, <1>6, <1>8, <3>1, <4>1
    <3>2. CASE ~(i <= kept)
      BY <1>3, <1>4, <1>8, <3>2
    <3> QED
      BY <3>1, <3>2
  <2>2. Erases'
    BY <1>4, <1>8, <1>9, <1>10, <2>1 DEF Erases, s
  <2>3. \A i : NullAllowed(i)'
    BY <1>10 DEF NullAllowed
  <2> QED
    BY <1>10, <2>2, <2>3 DEF Swept
<1>15. Broadcasting'
  BY <1>2, <1>10 DEF Ordered, Broadcasting
<1> QED
  BY <1>2, <1>12, <1>13, <1>14, <1>15 DEF Ordered, NoNullVisited

LEMMA EraseKeepsOrder ==
  ASSUME TypeOK, Started, Ordered, SweepErase
  PROVE  Started' /\ Ordered'
<1> DEFINE s == m_deqConnections
           n == Len(s)
           k == main.cursor
           e == main.end
           src(i, a) == IF i <= k THEN i ELSE a + (i - k)
<1>1. /\ main.pc = "erase" /\ main' = Updating
      /\ UNCHANGED <<m_socket, thread, ops, m_qMessagesIn, fault, dropped, reached>>
  BY DEF SweepErase, asio, acceptor, incoming, broadcast
<1>2. Erases
  BY <1>1 DEF Ordered, Swept
<1>3. PICK a \in k .. n, b \in k .. n :
        /\ a <= b
        /\ \/ a = e /\ b = n
           \/ a = b
           \/ a = k /\ b = k + (n - e)
        /\ s' \in Seq(Clients \cup {Null})
        /\ Len(s') = k + (b - a)
        /\ \A i \in 1 .. Len(s') : s'[i] = s[src(i, a)]
        /\ lost' = lost \cup ({s[i] : i \in e + 1 .. n} \ {s[i] : i \in a + 1 .. b})
  BY <1>2, ErasedTail
<1>4. /\ n \in Nat /\ DOMAIN s = 1 .. n /\ k \in Nat /\ e \in Nat /\ Null \notin Clients
      /\ k <= e /\ e <= n
      /\ \A i \in 1 .. n : s[i] = Null <=> k < i /\ i <= e
  BY <1>2, Places DEF Erases
<1>5. main'.pc = "update"
  BY <1>1, UpdatingTyped
<1>6. Opened' = Opened
  BY <1>1 DEF Opened
<1> HIDE DEF s, n, k, e
<1>7. DOMAIN s' = 1 .. k + (b - a) /\ Len(s') = k + (b - a)
  BY <1>3, LenProperties
<1>8. /\ \A i \in 1 .. k + (b - a) : src(i, a) \in 1 .. n /\ s'[i] = s[src(i, a)]
      /\ \A i, j \in 1 .. k + (b - a) : src(i, a) = src(j, a) => i = j
  BY <1>3, <1>4
<1>9. \A i, j \in 1 .. n : s[i] # Null /\ s[i] = s[j] => i = j
  BY <1>4 DEF Ordered, Registry, NoneTwice, s
<1>10. Started'
  BY <1>1, <1>6 DEF Started
<1>11. Registry'
  <2>1. NoneTwice'
    <3> SUFFICES ASSUME NEW i \in 1 .. k + (b - a), NEW j \in 1 .. k + (b - a),
                        s'[i] # Null, s'[i] = s'[j]
                 PROVE  i = j
      BY <1>7 DEF NoneTwice, s
    <3> HIDE DEF src
    <3>1. src(i, a) = src(j, a)
      BY <1>8, <1>9
    <3> QED
      BY <1>8, <3>1
  <2>2. ASSUME NEW c \in Clients, Registered(c)'
        PROVE  Registered(c)
    <3>1. PICK i \in 1 .. k + (b - a) : s'[i] = c
      BY <1>7, <2>2 DEF Registered, s
    <3> HIDE DEF src
    <3>2. src(i, a) \in 1 .. n /\ s[src(i, a)] = c
      BY <1>8, <3>1
    <3> QED
      BY <1>4, <3>2 DEF Registered, s
  <2>3. ASSUME NEW c \in Clients, Registered(c)
        PROVE  Registered(c)' \/ c \in lost'
    <3>1. PICK j \in 1 .. n : s[j] = c
      BY <1>4, <2>3 DEF Registered, s
    <3>2. j <= k \/ j > e
      BY <1>4, <3>1
    <3>3. CASE j <= k
      <4>1. j \in 1 .. k + (b - a) /\ src(j, a) = j
        BY <1>3, <1>4, <3>3
      <4>2. s'[j] = c
        BY <1>8, <3>1, <4>1
      <4> QED
        BY <1>7, <4>1, <4>2 DEF Registered, s
    <3>4. CASE j > e /\ j \in a + 1 .. b
      <4> DEFINE i == k + (j - a)
      <4>1. i \in 1 .. k + (b - a) /\ src(i, a) = j
        BY <1>3, <1>4, <3>4
      <4> HIDE DEF i
      <4>2. s'[i] = c
        BY <1>8, <3>1, <4>1
      <4> QED
        BY <1>7, <4>1, <4>2 DEF Registered, s
    <3>5. CASE j > e /\ j \notin a + 1 .. b
      <4>1. \A i \in a + 1 .. b : i \in 1 .. n /\ i # j
        BY <1>3, <1>4, <3>5
      <4>2. \A i \in a + 1 .. b : s[i] # c
        BY <1>4, <1>9, <3>1, <4>1
      <4>3. j \in e + 1 .. n
        BY <1>4, <3>5
      <4> QED
        BY <1>3, <3>1, <4>2, <4>3
    <3> QED
      BY <3>2, <3>3, <3>4, <3>5
  <2>4. thread' = thread /\ m_socket' = m_socket /\ lost \subseteq lost' /\ dropped' = dropped
    BY <1>1, <1>3
  <2>5. Opened \subseteq Clients
    BY DEF Opened
  <2>6. /\ \A c \in Clients : Registered(c) => c \in Opened /\ c \notin dropped
        /\ \A c \in dropped : m_socket[c] = "closed"
        /\ \A c \in Opened :
             Registered(c) \/ c \in dropped \/ c \in lost \/ thread = "destroyed"
    BY DEF Ordered, Registry
  <2>7. /\ \A c \in Clients : Registered(c)' => c \in Opened' /\ c \notin dropped'
        /\ \A c \in dropped' : m_socket'[c] = "closed"
    BY <1>6, <2>2, <2>4, <2>6
  <2>8. \A c \in Opened' :
          Registered(c)' \/ c \in dropped' \/ c \in lost' \/ thread' = "destroyed"
    BY <1>6, <2>3, <2>4, <2>5, <2>6
  <2> QED
    BY <2>1, <2>7, <2>8 DEF Registry
<1>12. Swept'
  <2>1. ASSUME lost' = {}, NEW i \in 1 .. k + (b - a), s'[i] = Null
        PROVE  FALSE
    <3>1. src(i, a) \in 1 .. n /\ k < src(i, a) /\ src(i, a) <= e
      <4> HIDE DEF src
      <4> QED
        BY <1>4, <1>8, <2>1
    <3>2. i > k /\ a < b /\ a + (i - k) <= e
      BY <1>3, <1>4, <3>1
    <3>3. a = k /\ b = k + (n - e) /\ k < e /\ e < n
      BY <1>3, <1>4, <3>2
    <3>4. n \in e + 1 .. n /\ s[n] # Null
      BY <1>4, <3>3
    <3>5. PICK j \in a + 1 .. b : s[j] = s[n]
      <4>1. lost' = lost \cup ({s[x] : x \in e + 1 .. n} \ {s[x] : x \in a + 1 .. b})
        BY <1>3
      <4>2. s[n] \in {s[x] : x \in e + 1 .. n}
        BY <3>4
      <4>3. s[n] \in {s[x] : x \in a + 1 .. b}
        BY <2>1, <4>1, <4>2
      <4> QED
        BY <4>3
    <3>6. j \in 1 .. n /\ n \in 1 .. n
      BY <1>3, <1>4, <3>3
    <3>7. j = n
      BY <1>9, <3>4, <3>5, <3>6
    <3> QED
      BY <1>4, <3>3, <3>7
  <2>2. lost' = {} => \A i \in DOMAIN s' : s'[i] # Null
    BY <1>7, <2>1
  <2> QED
    BY <1>5, <2>2 DEF Swept, s
<1>13. Broadcasting'
  BY <1>1, <1>5 DEF Ordered, Broadcasting
<1>14. NoNullVisited'
  BY <1>1, <1>3 DEF Ordered, NoNullVisited
<1> QED
  BY <1>10, <1>11, <1>12, <1>13, <1>14 DEF Ordered
-----------------------------------------------------------------------------
(* The invariant, and what follows from it.                                *)

LEMMA InitInv == Init => Inv
<1> SUFFICES ASSUME Init PROVE Inv
  OBVIOUS
<1>1. TypeOK
  BY InitTyped
<1>2. DOMAIN m_deqConnections = {} /\ DOMAIN m_qMessagesIn = {} /\ Opened = {}
  BY DEF Init, Opened
<1>3. main.pc = "update" /\ fault = "none" /\ dropped = {}
  BY UpdatingTyped DEF Init
<1>4. Started
  BY <1>2 DEF Init, Started, NoOps
<1>5. Registry
  BY <1>2, <1>3 DEF Registry, NoneTwice, Registered
<1>6. Swept
  BY <1>2, <1>3 DEF Swept
<1>7. Broadcasting
  BY <1>3 DEF Init, Broadcasting
<1> QED
  BY <1>1, <1>3, <1>4, <1>5, <1>6, <1>7 DEF Inv, Ordered, NoNullVisited

LEMMA OnMessageKeepsOrder ==
  ASSUME TypeOK, Started, Ordered, OnMessage
  PROVE  Started' /\ Ordered'
BY PingKeepsOrder, AllKeepsOrder, ConnectedKeepsOrder, ClosedKeepsOrder, NullKeepsOrder,
   EndKeepsOrder, RemoveKeepsOrder, EraseKeepsOrder DEF OnMessage

LEMMA StepInv == Inv /\ [Next]_vars => Inv'
<1> SUFFICES ASSUME Inv, [Next]_vars PROVE Inv'
  OBVIOUS
<1> USE DEF Inv
<1>1. ASSUME NEW c \in Clients, Arrive(c) \/ AcceptHandler(c) \/ ConnectionHandler(c)
      PROVE  Inv'
  <2>1. TypeOK'
    BY <1>1, HandlersTyped
  <2>2. CASE AcceptConnection(c)
    BY <2>1, <2>2, AcceptKeepsOrder
  <2>3. CASE ~AcceptConnection(c)
    BY <1>1, <2>1, <2>3, HandlersElsewhere, QuietKeepsOrder DEF history
  <2> QED
    BY <2>2, <2>3
<1>2. CASE Start \/ Stop \/ Join \/ Destroy \/ ConnectBack \/ AnnounceBack
  BY <1>2, ProgramTyped, ProgramKeepsOrder
<1>3. CASE OnMessage
  <2>1. TypeOK'
    BY <1>3, OnMessageTyped DEF Ordered
  <2> QED
    BY <1>3, <2>1, OnMessageKeepsOrder
<1>4. CASE UNCHANGED vars
  <2>1. /\ UNCHANGED <<m_socket, thread, armed, accepting, announcing, nIDCounter, id>>
        /\ UNCHANGED <<m_deqConnections, ops, validated, m_qMessagesIn, requests>>
        /\ UNCHANGED <<main, fault, history>>
    BY <1>4 DEF vars, acceptor, identity, incoming
  <2>2. TypeOK'
    BY <2>1, ZenonT(180) DEF TypeOK, history, broadcast
  <2>3. SocketsKept
    BY <2>1 DEF SocketsKept, Opened
  <2>4. Started'
    BY <2>1, <2>3 DEF Started, SocketsKept
  <2> QED
    BY <2>1, <2>2, <2>3, <2>4, QuietKeepsOrder DEF history
<1> QED
  BY <1>1, <1>2, <1>3, <1>4 DEF Next, MainThread

LEMMA Invariance == Spec => []Inv
<1> QED
  BY InitInv, StepInv, PTL DEF Spec

(* The state of the server keeps its type, the cursor and the end of the   *)
(* main thread's loop among it, for any number of clients.                 *)
THEOREM TypeCorrect == Spec => []TypeOK
<1>1. Inv => TypeOK
  BY DEF Inv
<1> QED
  BY <1>1, Invariance, PTL

(* MessageClient reports closed connections only, and what has closed     *)
(* stays closed.                                                           *)
ReportedClosed == \A c \in reported : m_socket[c] = "closed"

LEMMA ReportedStep == Inv /\ ReportedClosed /\ [Next]_vars => ReportedClosed'
<1> SUFFICES ASSUME Inv, ReportedClosed, [Next]_vars PROVE ReportedClosed'
  OBVIOUS
<1> USE DEF ReportedClosed
<1>1. reported \subseteq Clients
      /\ m_socket \in [Clients -> {"away", "waiting", "open", "closed", "refused"}]
  BY DEF Inv, TypeOK
<1>2. ASSUME UNCHANGED reported,
             \A c \in Clients : m_socket[c] = "closed" => m_socket'[c] = "closed"
      PROVE  ReportedClosed'
  BY <1>1, <1>2
<1>3. ASSUME NEW c \in Clients, Arrive(c) \/ AcceptHandler(c) \/ ConnectionHandler(c)
      PROVE  ReportedClosed'
  <2>1. CASE AcceptConnection(c)
    BY <1>1, <1>2, <2>1 DEF AcceptConnection, AcceptCompletes, history
  <2>2. CASE ~AcceptConnection(c)
    BY <1>2, <1>3, <2>2, HandlersElsewhere DEF Inv, SocketsKept, history
  <2> QED
    BY <2>1, <2>2
<1>4. CASE Start \/ Stop \/ Join \/ Destroy \/ ConnectBack \/ AnnounceBack
  <2>1. UNCHANGED reported
    BY <1>4 DEF Start, Stop, StopAndJoin, Join, Destroy, ConnectBack, ConnectBackNumbering,
       AnnounceBack, AnnounceBackAndGoOn, history
  <2>2. UNCHANGED m_socket \/ Destroy
    BY <1>4 DEF Start, Stop, StopAndJoin, Join, ConnectBack, ConnectBackNumbering,
       AnnounceBack, AnnounceBackAndGoOn
  <2> QED
    BY <1>2, <2>1, <2>2 DEF Destroy, IsConnected
<1>5. CASE MessageClientClosed
  <2> DEFINE client == Head(m_qMessagesIn).remote
  <2>1. NextRequest("ServerPing") /\ ~IsConnected(client)
        /\ reported' = reported \cup {client} /\ UNCHANGED m_socket
    BY <1>5 DEF MessageClientClosed, asio
  <2>2. client \in Opened
    BY <2>1, RequestTaken DEF Inv
  <2>3. m_socket[client] = "closed"
    BY <2>1, <2>2 DEF Opened, IsConnected
  <2> HIDE DEF client
  <2> QED
    BY <2>1, <2>3
<1>6. CASE OnMessage /\ ~MessageClientClosed
  BY <1>2, <1>6 DEF OnMessage, SendPingBack, OnMessageAll, VisitConnected, VisitClosed,
     ReportVisited, VisitNull, BroadcastEnds, BroadcastEndsThen, SweepRemove, SweepErase,
     asio, elsewhere, history
<1>7. CASE UNCHANGED vars
  BY <1>2, <1>7 DEF vars, history
<1> QED
  BY <1>3, <1>4, <1>5, <1>6, <1>7 DEF Next, MainThread

(* net_server.h, m_deqConnections: a connection that was accepted is there *)
(* exactly once until it is reported, it is reported, by a broadcast or by *)
(* MessageClient, only when closed, and after a broadcast has reported it  *)
(* it is there no more, whatever the two threads do to the deque; only one *)
(* pushed during a sweep may be missing.                                   *)
THEOREM RegistryKept == Spec => []RegistrySound
<1>1. Inv /\ ReportedClosed => RegistrySound
  <2> SUFFICES ASSUME Inv, ReportedClosed, NEW c \in Clients,
                      m_socket[c] \in {"open", "closed"},
                      c \notin lost, thread # "destroyed"
               PROVE  \/ c \in dropped /\ Occurrences(c) = 0 /\ m_socket[c] = "closed"
                      \/ c \notin dropped /\ Occurrences(c) = 1
    BY DEF RegistrySound, ReportedClosed
  <2> DEFINE at == {i \in DOMAIN m_deqConnections : m_deqConnections[i] = c}
  <2>1. /\ Registered(c) => c \notin dropped
        /\ c \in dropped => m_socket[c] = "closed"
        /\ Registered(c) \/ c \in dropped
        /\ NoneTwice /\ c # Null
    BY ServerAssumption DEF Inv, Ordered, Registry, Opened
  <2>2. CASE ~Registered(c)
    <3>1. at = {}
      BY <2>2 DEF Registered
    <3> QED
      BY <2>1, <2>2, <3>1, FS_EmptySet DEF Occurrences
  <2>3. CASE Registered(c)
    <3>1. PICK i \in DOMAIN m_deqConnections : m_deqConnections[i] = c
      BY <2>3 DEF Registered
    <3>2. at = {i}
      BY <2>1, <3>1 DEF NoneTwice
    <3> QED
      BY <2>1, <2>3, <3>2, FS_Singleton DEF Occurrences
  <2> QED
    BY <2>2, <2>3
<1>2. Init => ReportedClosed
  BY DEF Init, ReportedClosed
<1> QED
  BY <1>1, <1>2, ReportedStep, Invariance, PTL DEF Spec

(* net_server.h:170, MessageAllClients: the loop finds a null pointer only *)
(* after a sweep has raced with the accept handler's push_back.            *)
THEOREM NoNullInTheLoop == Spec => []NoNullVisited
<1>1. Inv => NoNullVisited
  BY DEF Inv, Ordered
<1> QED
  BY <1>1, Invariance, PTL

LEMMA LoopIsOver ==
  ASSUME Inv, main.pc = "visit", main.cursor > main.end, NEW c
  PROVE  ~Ahead(c)
<1>1. main.cursor \in Nat /\ main.end \in Nat
  BY Places DEF Inv
<1> QED
  BY <1>1 DEF Ahead

(* net_server.h, MessageAllClients: a broadcast is sent once to each       *)
(* connection that was registered when it began and is open at its end,    *)
(* never to its sender, although the deque grows under the loop.           *)
THEOREM BroadcastDelivers == Spec => []BroadcastReaches
<1>1. Inv => BroadcastReaches
  <2> SUFFICES ASSUME Inv PROVE BroadcastReaches
    OBVIOUS
  <2>1. /\ \A c \in Clients : reached[c] = 0 \/ reached[c] = 1
        /\ main.pc = "visit" => reached[main.remote] = 0
    BY DEF Inv, Ordered, Broadcasting
  <2>2. ASSUME main.pc = "visit", main.cursor > main.end,
               NEW c \in audience.all \ {main.remote}, IsConnected(c)
        PROVE  reached[c] = 1
    BY <2>2, LoopIsOver DEF Inv, Ordered, Broadcasting, IsConnected
  <2> QED
    BY <2>1, <2>2 DEF BroadcastReaches
<1> QED
  BY <1>1, Invariance, PTL

(* net_server.h, MessageAllClients and OnClientDisconnect: when the loop   *)
(* is over, every registered connection that was closed when it began has  *)
(* been reported and reset.                                                *)
THEOREM BroadcastFindsTheClosed == Spec => []BroadcastReports
<1>1. Inv => BroadcastReports
  BY LoopIsOver DEF Inv, Ordered, Broadcasting, BroadcastReports
<1> QED
  BY <1>1, Invariance, PTL
-----------------------------------------------------------------------------
(* Identifiers.                                                            *)

(* How many connections have been through ConnectToClient, the             *)
(* identifiers they were given, and the one that has not been there yet.   *)
Identifier(n) == (FirstID + n) % IDs

Unnumbered == IF accepting # Null /\ ~announcing THEN 1 ELSE 0

Numbered == \E serial \in Nat :
  /\ serial + Unnumbered = Cardinality(Opened)
  /\ announcing => accepting # Null
  /\ nIDCounter = Identifier(serial)
  /\ \A c \in Clients : id[c] # Null => \E n \in 0 .. serial - 1 : id[c] = Identifier(n)
  /\ UniqueIDs

LEMMA Remainders ==
  ASSUME NEW m \in Nat \ {0}, NEW x \in 0 .. 2 * m - 1
  PROVE  x % m = IF x < m THEN x ELSE x - m
<1>1. CASE x < m
  <2>1. x \in 0 .. m - 1
    BY <1>1
  <2>2. x % m = x
    BY <2>1
  <2> QED
    BY <1>1, <2>2
<1>2. CASE ~(x < m)
  <2>1. x \in m .. 2 * m - 1
    BY <1>2
  <2>2. x % m = x - m
    BY <2>1
  <2> QED
    BY <1>2, <2>2
<1> QED
  BY <1>1, <1>2

(* Fewer connections than identifiers get different ones.                  *)
LEMMA IdentifiersDiffer ==
  /\ \A n \in 0 .. IDs - 1 : Identifier(n) \in 0 .. IDs - 1
  /\ \A n \in 0 .. IDs - 1 : (Identifier(n) + 1) % IDs = Identifier(n + 1)
  /\ \A i, j \in 0 .. IDs - 1 : i # j => Identifier(i) # Identifier(j)
<1>1. IDs \in Nat \ {0} /\ FirstID \in 0 .. IDs - 1
  BY ServerAssumption
<1>2. ASSUME NEW n \in 0 .. IDs
      PROVE  Identifier(n) = IF FirstID + n < IDs THEN FirstID + n ELSE FirstID + n - IDs
  <2> DEFINE x == FirstID + n
  <2>1. x \in 0 .. 2 * IDs - 1
    BY <1>1
  <2> HIDE DEF x
  <2>2. x % IDs = IF x < IDs THEN x ELSE x - IDs
    BY <1>1, <2>1, Remainders
  <2>3. Identifier(n) = x % IDs /\ x = FirstID + n
    BY DEF Identifier, x
  <2> QED
    BY <1>1, <2>1, <2>2, <2>3
<1>3. ASSUME NEW n \in 0 .. IDs - 1
      PROVE  Identifier(n) \in 0 .. IDs - 1 /\ n \in 0 .. IDs /\ n + 1 \in 0 .. IDs
  BY <1>1, <1>2
<1>4. ASSUME NEW n \in 0 .. IDs - 1
      PROVE  (Identifier(n) + 1) % IDs = Identifier(n + 1)
  <2> DEFINE x == Identifier(n) + 1
  <2>1. x \in 0 .. 2 * IDs - 1
    BY <1>1, <1>3
  <2>2. x % IDs = IF x < IDs THEN x ELSE x - IDs
    <3> HIDE DEF x
    <3> QED
      BY <1>1, <2>1, Remainders
  <2>3. Identifier(n + 1) = IF FirstID + (n + 1) < IDs THEN FirstID + (n + 1)
                            ELSE FirstID + (n + 1) - IDs
    BY <1>2, <1>3
  <2>4. Identifier(n) = IF FirstID + n < IDs THEN FirstID + n ELSE FirstID + n - IDs
    BY <1>2, <1>3
  <2> QED
    BY <1>1, <2>2, <2>3, <2>4
<1>5. ASSUME NEW i \in 0 .. IDs - 1, NEW j \in 0 .. IDs - 1, i # j
      PROVE  Identifier(i) # Identifier(j)
  <2>1. /\ Identifier(i) = IF FirstID + i < IDs THEN FirstID + i ELSE FirstID + i - IDs
        /\ Identifier(j) = IF FirstID + j < IDs THEN FirstID + j ELSE FirstID + j - IDs
    BY <1>2, <1>3
  <2> QED
    BY <1>1, <1>5, <2>1
<1> QED
  BY <1>3, <1>4, <1>5

LEMMA OpenedCounted ==
  ASSUME IsFiniteSet(Clients), Cardinality(Clients) <= IDs
  PROVE  /\ IsFiniteSet(Opened) /\ Cardinality(Opened) \in Nat
         /\ Cardinality(Opened) <= IDs
<1>1. Opened \in SUBSET Clients
  BY DEF Opened
<1>2. IsFiniteSet(Opened) /\ Cardinality(Opened) <= Cardinality(Clients)
  BY <1>1, FS_Subset
<1>3. Cardinality(Opened) \in Nat /\ Cardinality(Clients) \in Nat
  BY <1>2, FS_CardinalityType
<1> QED
  BY <1>2, <1>3, ServerAssumption

(* Identifiers are given by the accept handler only.                       *)
LEMMA NumbersElsewhere ==
  ASSUME TypeOK, Started, [Next]_vars, ~ConnectBack, ~AnnounceBack,
         \A c \in Clients : ~AcceptConnection(c)
  PROVE  UNCHANGED <<accepting, announcing, nIDCounter, id>> /\ Opened' = Opened
<1> USE DEF identity, acceptor
<1>1. ASSUME NEW c \in Clients, Arrive(c) \/ AcceptHandler(c) \/ ConnectionHandler(c)
      PROVE  UNCHANGED <<accepting, announcing, nIDCounter, id>> /\ Opened' = Opened
  <2>1. Opened' = Opened
    BY <1>1, HandlersElsewhere DEF SocketsKept
  <2>2. UNCHANGED <<accepting, announcing, nIDCounter, id>>
    BY <1>1 DEF Arrive, AcceptHandler, ConnectionHandler, AcceptError, AcceptVetoed,
       RemoteEndpointThrows, ChallengeWritten, ReadValidation, ReadMessage, SendCompletes,
       OperationFails, HandlerOfDestroyed, elsewhere
  <2> QED
    BY <2>1, <2>2
<1>2. CASE Start \/ Stop \/ Join
  BY <1>2 DEF Start, Stop, StopAndJoin, Join, Opened
<1>3. CASE Destroy
  BY <1>3 DEF Destroy, Opened, IsConnected
<1>4. CASE OnMessage
  BY <1>4 DEF OnMessage, SendPingBack, MessageClientClosed, OnMessageAll, VisitConnected,
     VisitClosed, ReportVisited, VisitNull, BroadcastEnds, BroadcastEndsThen, SweepRemove,
     SweepErase, asio, elsewhere, Opened
<1>5. CASE UNCHANGED vars
  BY <1>5 DEF vars, Opened
<1> QED
  BY <1>1, <1>2, <1>3, <1>4, <1>5 DEF Next, MainThread

LEMMA NumberedStep ==
  ASSUME IsFiniteSet(Clients), Cardinality(Clients) <= IDs, Inv, Numbered, [Next]_vars
  PROVE  Numbered'
<1>1. PICK serial \in Nat :
        /\ serial + Unnumbered = Cardinality(Opened)
        /\ announcing => accepting # Null
        /\ nIDCounter = Identifier(serial)
        /\ \A c \in Clients : id[c] # Null => \E n \in 0 .. serial - 1 : id[c] = Identifier(n)
        /\ UniqueIDs
  BY DEF Numbered
<1>2. ASSUME UNCHANGED <<nIDCounter, id>>, Opened' = Opened, Unnumbered' = Unnumbered,
             announcing' => accepting' # Null
      PROVE  Numbered'
  BY <1>1, <1>2 DEF Numbered, UniqueIDs
<1>3. ASSUME NEW c \in Clients, AcceptConnection(c)
      PROVE  Numbered'
  <2>1. /\ accepting = Null /\ accepting' = c /\ c # Null /\ UNCHANGED announcing
        /\ c \notin Opened /\ Opened' = Opened \cup {c}
        /\ UNCHANGED <<nIDCounter, id>>
    <3>1. /\ accepting = Null /\ accepting' = c /\ UNCHANGED <<announcing, nIDCounter, id>>
          /\ m_socket[c] = "waiting" /\ m_socket' = [m_socket EXCEPT ![c] = "open"]
      BY <1>3 DEF AcceptConnection, AcceptCompletes, Serving, identity
    <3>2. m_socket \in [Clients -> {"away", "waiting", "open", "closed", "refused"}]
      BY DEF Inv, TypeOK
    <3>3. c \notin Opened /\ Opened' = Opened \cup {c}
      BY <3>1, <3>2 DEF Opened
    <3> QED
      BY <3>1, <3>3, ServerAssumption
  <2>2. Cardinality(Opened \cup {c}) = Cardinality(Opened) + 1
    BY <2>1, OpenedCounted, FS_AddElement
  <2>3. serial + Unnumbered' = Cardinality(Opened') /\ accepting' # Null
    <3>1. Unnumbered = 0 /\ Unnumbered' = 1
      BY <1>1, <2>1 DEF Unnumbered
    <3> QED
      BY <1>1, <2>1, <2>2, <3>1
  <2>4. Opened' = Opened \cup {c} /\ id' = id /\ nIDCounter' = nIDCounter
    BY <2>1
  <2> QED
    BY <1>1, <2>3, <2>4 DEF Numbered, UniqueIDs
<1>4. CASE ConnectBack
  <2> DEFINE b == Back
  <2>1. /\ accepting # Null /\ accepting' = accepting /\ ~announcing /\ announcing'
        /\ nIDCounter' = (nIDCounter + 1) % IDs
        /\ UNCHANGED m_socket
        /\ UNCHANGED id \/ (~BackIsNull /\ id' = [id EXCEPT ![b] = nIDCounter])
    BY <1>4 DEF ConnectBack, ConnectBackNumbering, ConnectToClient
  <2>2. ~BackIsNull => b \in Clients
    BY BackTyped DEF Inv
  <2>3. id \in [Clients -> 0 .. IDs - 1 \cup {Null}]
    BY DEF Inv, TypeOK
  <2> HIDE DEF b
  <2>4. serial + 1 = Cardinality(Opened) /\ serial \in 0 .. IDs - 1 /\ serial + 1 \in Nat
        /\ serial \in 0 .. serial + 1 - 1
    <3>1. Unnumbered = 1
      BY <2>1 DEF Unnumbered
    <3> QED
      BY <1>1, <3>1, OpenedCounted, ServerAssumption
  <2>5. nIDCounter' = Identifier(serial + 1)
    BY <1>1, <2>1, <2>4, IdentifiersDiffer
  <2>6. Opened' = Opened
    BY <2>1 DEF Opened
  <2>7. ASSUME NEW n \in 0 .. serial - 1
        PROVE  n \in 0 .. serial + 1 - 1 /\ Identifier(n) # nIDCounter
    <3>1. n \in 0 .. IDs - 1 /\ n # serial /\ n \in 0 .. serial + 1 - 1
      BY <2>4, ServerAssumption
    <3> QED
      BY <1>1, <2>4, <3>1, IdentifiersDiffer
  <2>8. \A d \in Clients : id[d] # Null => id[d] # nIDCounter
    BY <1>1, <2>7
  <2>9. ASSUME NEW d \in Clients
        PROVE  id'[d] = id[d] \/ (d = b /\ id'[d] = nIDCounter)
    BY <2>1, <2>2, <2>3
  <2>10. \A d \in Clients : id'[d] # Null =>
           \E n \in 0 .. serial + 1 - 1 : id'[d] = Identifier(n)
    BY <1>1, <2>4, <2>7, <2>9
  <2>11. ASSUME NEW c \in Clients, NEW d \in Clients, c # d, id'[c] # Null
         PROVE  id'[c] # id'[d]
    BY <1>1, <2>8, <2>9, <2>11 DEF UniqueIDs
  <2>12. UniqueIDs'
    BY <2>11 DEF UniqueIDs
  <2>13. serial + 1 + Unnumbered' = Cardinality(Opened') /\ accepting' # Null
    <3>1. Unnumbered' = 0
      BY <2>1 DEF Unnumbered
    <3> QED
      BY <2>1, <2>4, <2>6, <3>1
  <2> HIDE DEF UniqueIDs
  <2> QED
    BY <2>4, <2>5, <2>10, <2>12, <2>13 DEF Numbered
<1>5. CASE AnnounceBack
  <2>1. /\ announcing /\ ~announcing' /\ accepting' = Null
        /\ UNCHANGED <<m_socket, nIDCounter, id>>
    BY <1>5 DEF AnnounceBack, AnnounceBackAndGoOn, identity
  <2> QED
    BY <1>2, <2>1 DEF Unnumbered, Opened
<1>6. CASE UNCHANGED <<accepting, announcing, nIDCounter, id>> /\ Opened' = Opened
  BY <1>1, <1>2, <1>6 DEF Unnumbered
<1> QED
  BY <1>3, <1>4, <1>5, <1>6, NumbersElsewhere DEF Inv

(* net_server.h, ConnectToClient(this, nIDCounter++): the identifiers of   *)
(* different connections are different, from any first identifier and also *)
(* when the counter wraps around, for as long as there are no more         *)
(* connections than uint32_t has values.                                   *)
THEOREM IdentifiersUnique ==
  ASSUME IsFiniteSet(Clients), Cardinality(Clients) <= IDs
  PROVE  Spec => []UniqueIDs
<1>1. Init => Numbered
  <2> SUFFICES ASSUME Init PROVE Numbered
    OBVIOUS
  <2>1. Opened = {} /\ accepting = Null /\ ~announcing /\ nIDCounter = FirstID
        /\ \A c \in Clients : id[c] = Null
    BY DEF Init, Opened
  <2>2. Cardinality(Opened) = 0
    BY <2>1, FS_EmptySet
  <2>3. nIDCounter = Identifier(0)
    BY <2>1, ServerAssumption, Remainders DEF Identifier
  <2>4. UniqueIDs
    BY <2>1 DEF UniqueIDs
  <2>5. 0 \in Nat /\ 0 + Unnumbered = Cardinality(Opened)
    BY <2>1, <2>2 DEF Unnumbered
  <2> HIDE DEF UniqueIDs
  <2> QED
    BY <2>1, <2>3, <2>4, <2>5 DEF Numbered
<1>2. Inv /\ Numbered /\ [Next]_vars => Numbered'
  BY NumberedStep
<1>3. Numbered => UniqueIDs
  BY DEF Numbered
<1> QED
  BY <1>1, <1>2, <1>3, Invariance, PTL DEF Spec
=============================================================================
