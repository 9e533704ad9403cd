------------------------------- MODULE Server -------------------------------
(***************************************************************************)
(* server_interface<T> (net_server.h) with several clients, as             *)
(* SimpleServer.cpp uses it: the asio thread accepts connections and runs  *)
(* their handlers, the main thread runs Update, OnMessage and the          *)
(* broadcast, and both work on m_deqConnections without a lock.            *)
(*                                                                         *)
(* A connection object lives while a shared_ptr refers to it: in           *)
(* m_deqConnections, in a queued message, or in the message the main       *)
(* thread is handling.  Its handlers hold the raw `this' only.  What they  *)
(* read and write is in Session; here an operation is outstanding or not,  *)
(* and a Send is one operation from asio::post to the end of its write.    *)
(***************************************************************************)
EXTENDS Integers, SequencesExt

CONSTANTS Clients,        \* the connections clients open, one object each
          ReplyWith,      \* how OnMessage answers: "Send", "MessageClient"
          FirstID,        \* the initial value of nIDCounter
          IDs,            \* the number of values of uint32_t
          MaxRequests,    \* bound: requests read from all the clients
          Null            \* the null shared_ptr, and no message

ASSUME ServerAssumption ==
  /\ ReplyWith \subseteq {"Send", "MessageClient"}
  /\ IDs \in Nat \ {0} /\ FirstID \in 0 .. IDs - 1
  /\ MaxRequests \in Nat
  /\ Null \notin Clients

VARIABLES
  m_socket,         \* "away", "waiting" for accept, "open", "closed", "refused"
  thread,           \* "none", "running", "stopping", "stopped", "destroyed"
  armed,            \* an async_accept is outstanding
  accepting,        \* whose accept handler is under way, or Null
  announcing,       \* it has come to the line that prints the identifier
  nIDCounter,
  id,               \* per connection, Null before ConnectToClient
  m_deqConnections,
  ops,              \* per connection and kind: how many are outstanding
  validated,        \* the connections OnClientValidated was called for
  m_qMessagesIn,    \* requests for the main thread, each with its connection
  main,             \* where the main thread stands
  fault,            \* "none", or what ended the program
  requests,         \* how many requests have been read
  reported,         \* history: connections MessageClient reported
  dropped,          \* history: connections the broadcast reported and reset
  audience,         \* history: who was registered when the broadcast began,
                    \* and whose socket was closed then
  reached,          \* history: Sends of the broadcast, per connection
  lost              \* history: connections that a sweep dropped by a race

acceptor == <<thread, armed, accepting, announcing>>
identity == <<nIDCounter, id>>
incoming == <<m_qMessagesIn, requests>>
broadcast == <<audience, reached>>
history == <<reported, dropped, broadcast, lost>>
vars == <<m_socket, acceptor, identity, m_deqConnections, ops, validated,
          incoming, main, fault, history>>

(* What handlers of a connection, and the main thread, leave alone.        *)
elsewhere == <<acceptor, identity, m_deqConnections, main, history>>
asio == <<m_socket, validated, acceptor, identity>>

NoAudience == [all |-> {}, closed |-> {}]
Requests == {"ServerPing", "MessageAll"}
OpKinds == {"challenge", "answer", "message", "send"}
NoOps == [k \in OpKinds |-> 0]

(* The main thread outside OnMessage.                                      *)
Updating == [pc |-> "update", remote |-> Null, cursor |-> 0, end |-> 0,
             bInvalidClientExists |-> FALSE]

Init ==
  /\ m_socket = [c \in Clients |-> "away"]
  /\ thread = "none"
  /\ armed = FALSE
  /\ accepting = Null
  /\ announcing = FALSE
  /\ nIDCounter = FirstID
  /\ id = [c \in Clients |-> Null]
  /\ m_deqConnections = << >>
  /\ ops = [c \in Clients |-> NoOps]
  /\ validated = {}
  /\ m_qMessagesIn = << >>
  /\ main = Updating
  /\ fault = "none"
  /\ requests = 0
  /\ reported = {}
  /\ dropped = {}
  /\ audience = NoAudience
  /\ reached = [c \in Clients |-> 0]
  /\ lost = {}
-----------------------------------------------------------------------------
IsConnected(c) == m_socket[c] = "open"

(* Some shared_ptr refers to the connection.                               *)
Alive(c) == \/ c \in ToSet(m_deqConnections)
            \/ \E i \in DOMAIN m_qMessagesIn : m_qMessagesIn[i].remote = c
            \/ main.remote = c

Up == fault = "none"

(* The asio thread is between two handlers.                                *)
Serving == Up /\ thread = "running" /\ accepting = Null

CountOp(c, k, n) == [ops EXCEPT ![c][k] = @ + n]
CloseSocket(c) == m_socket' = [m_socket EXCEPT ![c] = "closed"]
-----------------------------------------------------------------------------
(* Clients and the network.                                                *)

Arrive(c) ==
  /\ Up
  /\ m_socket[c] = "away"
  /\ m_socket' = [m_socket EXCEPT ![c] = "waiting"]
  /\ UNCHANGED <<elsewhere, ops, validated, incoming, fault>>
-----------------------------------------------------------------------------
(* Start and Stop, by the program.                                         *)

Start ==
  /\ Up
  /\ thread = "none"
  /\ thread' = "running"
  /\ armed' = TRUE
  /\ UNCHANGED <<m_socket, accepting, announcing, identity, m_deqConnections,
                 ops, validated, incoming, main, fault, history>>

(* m_asioContext.stop(): the handler under way is the last one.            *)
StopAndJoin(context) ==
  /\ Up
  /\ thread = "running"
  /\ main.pc = "update"
  /\ thread' = context
  /\ main' = [main EXCEPT !.pc = "join"]
  /\ UNCHANGED <<m_socket, armed, accepting, announcing, identity,
                 m_deqConnections, ops, validated, incoming, fault, history>>

(* A slip: the thread is joined without a stop of its context.             *)
JoinOnly == StopAndJoin("running")

Stop == StopAndJoin("stopping")

Join ==
  /\ Up
  /\ main.pc = "join"
  /\ thread = "stopping" /\ accepting = Null
  /\ thread' = "stopped"
  /\ main' = Updating
  /\ UNCHANGED <<m_socket, armed, accepting, announcing, identity,
                 m_deqConnections, ops, validated, incoming, fault, history>>

(* ~server_interface after its Stop: the members go, last declared first,  *)
(* so the deque, then the acceptor, the context with every outstanding     *)
(* operation, and the queue last.  A connection that only a message in it  *)
(* refers to closes its socket in a context that is no more.               *)
Destroy ==
  /\ Up
  /\ thread = "stopped" /\ main.pc = "update"
  /\ thread' = "destroyed"
  /\ armed' = FALSE
  /\ m_deqConnections' = << >>
  /\ ops' = [c \in Clients |-> NoOps]
  /\ m_socket' = [c \in Clients |-> IF IsConnected(c) THEN "closed" ELSE m_socket[c]]
  /\ m_qMessagesIn' = << >>
  /\ fault' \in {"none"} \cup {f \in {"destroyed context"} : m_qMessagesIn # << >>}
  /\ UNCHANGED <<accepting, announcing, identity, validated, requests, main,
                 history>>
-----------------------------------------------------------------------------
(* The accept handler.  The main thread may take steps between its         *)
(* push_back and the back() that follows, and before it calls back() again.*)

AcceptCompletes(c) == Serving /\ armed /\ m_socket[c] = "waiting"

(* The client may have hung up by now.  With an error code nothing is made *)
(* of the socket, and the acceptor is armed again.                         *)
AcceptError(c) ==
  /\ AcceptCompletes(c)
  /\ m_socket' = [m_socket EXCEPT ![c] = "refused"]
  /\ UNCHANGED <<elsewhere, ops, validated, incoming, fault>>

(* remote_endpoint() throws when the socket is not connected any more, and *)
(* nothing in the thread catches it.                                       *)
RemoteEndpointThrows(c) ==
  /\ AcceptCompletes(c)
  /\ armed' = FALSE
  /\ fault' = "remote_endpoint"
  /\ UNCHANGED <<m_socket, thread, accepting, announcing, identity,
                 m_deqConnections, ops, validated, incoming, main, history>>

(* OnClientConnect returns false: newConn is destroyed, and its socket.    *)
AcceptVetoed(c) ==
  /\ AcceptCompletes(c)
  /\ m_socket' = [m_socket EXCEPT ![c] = "refused"]
  /\ UNCHANGED <<elsewhere, ops, validated, incoming, fault>>

(* OnClientConnect sends ServerAccept and returns true.                    *)
AcceptConnection(c) ==
  /\ AcceptCompletes(c)
  /\ armed' = FALSE
  /\ accepting' = c
  /\ m_socket' = [m_socket EXCEPT ![c] = "open"]
  /\ ops' = CountOp(c, "send", 1)
  /\ m_deqConnections' = Append(m_deqConnections, c)
  /\ UNCHANGED <<thread, announcing, identity, validated, incoming, main, fault,
                 history>>

(* ConnectToClient: challenge the client and wait for its answer.          *)
ConnectToClient(c) ==
  IF IsConnected(c)
  THEN /\ id' = [id EXCEPT ![c] = nIDCounter]
       /\ ops' = [ops EXCEPT ![c].challenge = @ + 1, ![c].answer = @ + 1]
  ELSE UNCHANGED <<id, ops>>

Back == m_deqConnections[Len(m_deqConnections)]
BackIsNull == m_deqConnections = << >> \/ Back = Null

(* back()->ConnectToClient(this, nIDCounter++).                            *)
ConnectBackNumbering(nextID) ==
  /\ Up
  /\ accepting # Null /\ ~announcing
  /\ announcing' = TRUE
  /\ nIDCounter' = nextID
  /\ IF BackIsNull
     THEN fault' = "null back" /\ UNCHANGED <<id, ops>>
     ELSE ConnectToClient(Back) /\ UNCHANGED fault
  /\ UNCHANGED <<m_socket, thread, armed, accepting, m_deqConnections,
                 validated, incoming, main, history>>

(* Slips: the counter is not incremented, or has more bits than the        *)
(* identifier.                                                             *)
ConnectBackSameID == ConnectBackNumbering(nIDCounter)
ConnectBackWide == ConnectBackNumbering(nIDCounter + 1)

ConnectBack == ConnectBackNumbering((nIDCounter + 1) % IDs)

(* back()->GetID() in the line that is printed, and the acceptor again.    *)
AnnounceBackAndGoOn(rearmed) ==
  /\ Up
  /\ announcing
  /\ announcing' = FALSE
  /\ accepting' = Null
  /\ IF BackIsNull
     THEN fault' = "null back" /\ UNCHANGED armed
     ELSE armed' = rearmed /\ UNCHANGED fault
  /\ UNCHANGED <<m_socket, thread, identity, m_deqConnections, ops, validated,
                 incoming, main, history>>

(* A slip: WaitForClientConnection is not called.                          *)
AnnounceBackOnly == AnnounceBackAndGoOn(FALSE)

AnnounceBack == AnnounceBackAndGoOn(TRUE)
-----------------------------------------------------------------------------
(* Handlers of one connection: net_connection.h.                           *)

Completes(c, k) == Serving /\ Alive(c) /\ ops[c][k] > 0 /\ IsConnected(c)

ChallengeWritten(c) ==
  /\ Completes(c, "challenge")
  /\ ops' = CountOp(c, "challenge", -1)
  /\ UNCHANGED <<elsewhere, m_socket, validated, incoming, fault>>

ReadValidation(c) ==
  /\ Completes(c, "answer")
  /\ \/ /\ validated' = validated \cup {c}
        /\ ops' = [ops EXCEPT ![c].answer = @ - 1, ![c].message = @ + 1]
        /\ UNCHANGED m_socket
     \/ /\ CloseSocket(c)
        /\ ops' = CountOp(c, "answer", -1)
        /\ UNCHANGED validated
  /\ UNCHANGED <<elsewhere, incoming, fault>>

(* A whole message was read: it is queued with shared_from_this(), and the *)
(* next read is started.                                                   *)
ReadMessage(c, kind) ==
  /\ Completes(c, "message")
  /\ requests < MaxRequests
  /\ requests' = requests + 1
  /\ m_qMessagesIn' = Append(m_qMessagesIn, [remote |-> c, kind |-> kind])
  /\ UNCHANGED <<elsewhere, m_socket, ops, validated, fault>>

(* The lambda of Send, and the write it leads to.                          *)
SendCompletes(c) ==
  /\ Completes(c, "send")
  /\ ops' = CountOp(c, "send", -1)
  /\ UNCHANGED <<elsewhere, m_socket, validated, incoming, fault>>

(* An operation fails, because the peer hung up, the network failed or the *)
(* socket was closed before: its handler closes the socket.  After a write *)
(* has failed the messages queued behind it are never written.             *)
OperationFails(c, k) ==
  /\ Serving
  /\ Alive(c)
  /\ ops[c][k] > 0
  /\ \E n \in IF k = "send" THEN 1 .. ops[c][k] ELSE {1} :
       ops' = CountOp(c, k, -n)
  /\ CloseSocket(c)
  /\ UNCHANGED <<elsewhere, validated, incoming, fault>>

(* A handler runs with a `this' that was destroyed: the program may end,   *)
(* or go on if the memory was not reused.                                  *)
HandlerOfDestroyed(c) ==
  /\ Serving
  /\ ~Alive(c)
  /\ fault' \in {"none", "destroyed connection"}
  /\ \E k \in OpKinds : ops[c][k] > 0 /\ ops' = CountOp(c, k, -1)
  /\ UNCHANGED <<elsewhere, m_socket, validated, incoming>>
-----------------------------------------------------------------------------
(* The main thread: Update hands each request to OnMessage.                *)

NextRequest(kind) ==
  /\ Up
  /\ main.pc = "update"
  /\ m_qMessagesIn # << >>
  /\ Head(m_qMessagesIn).kind = kind
  /\ m_qMessagesIn' = Tail(m_qMessagesIn)

Send(c) == ops' = CountOp(c, "send", 1)

(* A ping is sent back to the client it came from.                         *)
SendPingBack ==
  /\ NextRequest("ServerPing")
  /\ LET client == Head(m_qMessagesIn).remote
     IN /\ "Send" \in ReplyWith \/ IsConnected(client)
        /\ Send(client)
  /\ UNCHANGED <<asio, m_deqConnections, requests, main, fault, history>>

(* MessageClient on a connection that is closed: after OnClientDisconnect  *)
(* its own parameter is reset, and what equals that, null, is swept.       *)
MessageClientClosed ==
  /\ NextRequest("ServerPing")
  /\ LET client == Head(m_qMessagesIn).remote
     IN /\ "MessageClient" \in ReplyWith /\ ~IsConnected(client)
        /\ main' = [main EXCEPT !.pc = "remove", !.remote = client]
        /\ reported' = reported \cup {client}
  /\ UNCHANGED <<asio, m_deqConnections, ops, requests, fault, dropped,
                 broadcast, lost>>

(* MessageAllClients, with the sender as the one to ignore; the loop keeps *)
(* the end of the deque as it is now.                                      *)
OnMessageAll ==
  /\ NextRequest("MessageAll")
  /\ main' = [Updating EXCEPT !.pc = "visit", !.cursor = 1,
                              !.remote = Head(m_qMessagesIn).remote,
                              !.end = Len(m_deqConnections)]
  /\ LET registered == ToSet(m_deqConnections) \cap Clients
     IN audience' = [all |-> registered,
                     closed |-> {c \in registered : ~IsConnected(c)}]
  /\ reached' = [c \in Clients |-> 0]
  /\ UNCHANGED <<asio, m_deqConnections, ops, requests, fault, reported,
                 dropped, lost>>

Visiting == Up /\ main.pc = "visit" /\ main.cursor <= main.end
Visited == m_deqConnections[main.cursor]

VisitConnected ==
  /\ Visiting
  /\ Visited # Null
  /\ IsConnected(Visited)
  /\ IF Visited # main.remote
     THEN Send(Visited) /\ reached' = [reached EXCEPT ![Visited] = @ + 1]
     ELSE UNCHANGED <<ops, reached>>
  /\ main' = [main EXCEPT !.cursor = @ + 1]
  /\ UNCHANGED <<asio, m_deqConnections, incoming, fault, reported, dropped,
                 audience, lost>>

(* OnClientDisconnect(client), and what becomes of the deque.              *)
ReportVisited(deque, end) ==
  /\ Visiting
  /\ Visited # Null
  /\ ~IsConnected(Visited)
  /\ dropped' = dropped \cup {Visited}
  /\ m_deqConnections' = deque
  /\ main' = [main EXCEPT !.cursor = @ + 1, !.end = end,
                          !.bInvalidClientExists = TRUE]
  /\ UNCHANGED <<asio, ops, incoming, fault, reported, broadcast, lost>>

(* Slips: the dead element is erased inside the loop, so that the one      *)
(* after it is skipped; it is reported and not reset.                      *)
VisitClosedErases ==
  ReportVisited(RemoveAt(m_deqConnections, main.cursor), main.end - 1)
VisitClosedKeeps == ReportVisited(m_deqConnections, main.end)

(* client.reset().                                                         *)
VisitClosed ==
  ReportVisited([m_deqConnections EXCEPT ![main.cursor] = Null], main.end)

(* OnClientDisconnect of SimpleServer asks its argument for GetID().       *)
VisitNull ==
  /\ Visiting
  /\ Visited = Null
  /\ fault' = "null visited"
  /\ UNCHANGED <<elsewhere, m_socket, ops, validated, incoming>>

BroadcastEndsThen(next) ==
  /\ Up
  /\ main.pc = "visit"
  /\ main.cursor > main.end
  /\ main' = next
  /\ audience' = NoAudience
  /\ reached' = [c \in Clients |-> 0]
  /\ UNCHANGED <<asio, m_deqConnections, ops, incoming, fault, reported,
                 dropped, lost>>

(* A slip: what was reset stays in the deque.                              *)
BroadcastEndsUnswept == BroadcastEndsThen(Updating)

BroadcastEnds ==
  BroadcastEndsThen(IF main.bInvalidClientExists
                    THEN [main EXCEPT !.pc = "remove"] ELSE Updating)

(* std::remove moves the pointers that are not null to the front and keeps *)
(* their order: the one now at i was at from[i].  cursor becomes how many  *)
(* there are.                                                              *)
SweepRemove ==
  /\ Up
  /\ main.pc = "remove"
  /\ LET places == {i \in DOMAIN m_deqConnections : m_deqConnections[i] # Null}
         kept == Cardinality(places)
     IN /\ \E from \in [1 .. kept -> places] :
             /\ \A i, j \in 1 .. kept : i < j => from[i] < from[j]
             /\ m_deqConnections' =
                  [i \in DOMAIN m_deqConnections |->
                     IF i <= kept THEN m_deqConnections[from[i]] ELSE Null]
        /\ main' = [main EXCEPT !.pc = "erase", !.cursor = kept,
                                !.end = Len(m_deqConnections)]
  /\ UNCHANGED <<asio, ops, incoming, fault, history>>

(* erase of the tail.  If the asio thread pushed since std::remove, what   *)
(* is left behind kept depends on when end() is evaluated and the size     *)
(* written: the new elements; nothing; or as many elements of the tail.    *)
SweepErase ==
  /\ Up
  /\ main.pc = "erase"
  /\ LET n == Len(m_deqConnections)
         kept == SubSeq(m_deqConnections, 1, main.cursor)
         tail == SubSeq(m_deqConnections, main.cursor + 1, n)
         pushed == SubSeq(m_deqConnections, main.end + 1, n)
     IN \E rest \in {pushed, << >>, SubSeq(tail, 1, Len(pushed))} :
          /\ m_deqConnections' = kept \o rest
          /\ lost' = lost \cup (ToSet(pushed) \ ToSet(rest))
  /\ main' = Updating
  /\ UNCHANGED <<asio, ops, incoming, fault, reported, dropped, broadcast>>
-----------------------------------------------------------------------------
AcceptHandler(c) == \/ AcceptError(c) \/ RemoteEndpointThrows(c)
                    \/ AcceptVetoed(c) \/ AcceptConnection(c)

ConnectionHandler(c) ==
  \/ ChallengeWritten(c) \/ ReadValidation(c)
  \/ \E kind \in Requests : ReadMessage(c, kind)
  \/ SendCompletes(c)
  \/ \E k \in OpKinds : OperationFails(c, k)
  \/ HandlerOfDestroyed(c)

OnMessage == \/ SendPingBack \/ MessageClientClosed \/ OnMessageAll
             \/ VisitConnected \/ VisitClosed \/ VisitNull \/ BroadcastEnds
             \/ SweepRemove \/ SweepErase

MainThread == OnMessage \/ Join

Next == \/ \E c \in Clients : Arrive(c)
        \/ Start \/ Stop \/ Destroy \/ MainThread
        \/ \E c \in Clients : AcceptHandler(c) \/ ConnectionHandler(c)
        \/ ConnectBack \/ AnnounceBack

Spec == Init /\ [][Next]_vars

(* run() serves what has completed in the order in which it completed, so  *)
(* a connection in the backlog or an outstanding operation is not passed   *)
(* over for good.  The main thread goes on inside OnMessage and Stop; that *)
(* it takes up a request is not assumed, as wait() may sleep over one.     *)
Fairness == /\ WF_vars(main.pc # "update" /\ MainThread)
            /\ WF_vars(ConnectBack \/ AnnounceBack)
            /\ \A c \in Clients : /\ WF_vars(AcceptHandler(c))
                                  /\ WF_vars(ConnectionHandler(c))

FairSpec == Spec /\ Fairness
-----------------------------------------------------------------------------
(* Types, and the counters within what the bounds allow.                   *)
TypeOK ==
  /\ m_socket \in [Clients -> {"away", "waiting", "open", "closed", "refused"}]
  /\ thread \in {"none", "running", "stopping", "stopped", "destroyed"}
  /\ armed \in BOOLEAN
  /\ accepting \in Clients \cup {Null}
  /\ announcing \in BOOLEAN
  /\ nIDCounter \in 0 .. IDs - 1
  /\ id \in [Clients -> 0 .. IDs - 1 \cup {Null}]
  /\ m_deqConnections \in Seq(Clients \cup {Null})
  /\ ops \in [Clients -> [OpKinds -> Nat]]
  /\ validated \subseteq Clients
  /\ m_qMessagesIn \in Seq([remote : Clients, kind : Requests])
  /\ main \in [pc : {"update", "join", "visit", "remove", "erase"},
               remote : Clients \cup {Null}, cursor : Nat, end : Nat,
               bInvalidClientExists : BOOLEAN]
  /\ fault \in {"none", "remote_endpoint", "null back", "null visited",
                "destroyed connection", "destroyed context"}
  /\ requests \in 0 .. MaxRequests
  /\ reported \subseteq Clients
  /\ dropped \subseteq Clients
  /\ audience \in [all : SUBSET Clients, closed : SUBSET Clients]
  /\ reached \in [Clients -> Nat]
  /\ lost \subseteq Clients

Occurrences(c) ==
  Cardinality({i \in DOMAIN m_deqConnections : m_deqConnections[i] = c})

(* m_deqConnections against the connections there are: one that was        *)
(* accepted is there exactly once until it is reported to the program,     *)
(* which happens only when it is closed, and no more after a broadcast has *)
(* reported it.  Whether MessageClient removes what it reports is not      *)
(* said here (ReportedIsRemoved).  The one exception is a connection       *)
(* pushed while a sweep was under way.                                     *)
RegistrySound == \A c \in Clients : m_socket[c] \in {"open", "closed"} =>
  \/ c \in lost \/ thread = "destroyed"
  \/ c \in dropped /\ Occurrences(c) = 0 /\ m_socket[c] = "closed"
  \/ c \in reported \ dropped /\ Occurrences(c) <= 1 /\ m_socket[c] = "closed"
  \/ c \notin reported \cup dropped /\ Occurrences(c) = 1

(* A broadcast is sent at most once to a connection, never to its sender,  *)
(* and, when the loop is over, exactly once to each other connection that  *)
(* was registered when it began and is open still.                         *)
BroadcastReaches ==
  /\ \A c \in Clients : reached[c] <= 1
  /\ main.pc = "visit" => reached[main.remote] = 0
  /\ main.pc = "visit" /\ main.cursor > main.end =>
       \A c \in audience.all \ {main.remote} :
         IsConnected(c) => reached[c] = 1

(* A broadcast is when the program learns of a connection that has closed: *)
(* every one that was registered and closed when the loop began, also the  *)
(* sender's own, has been reported and reset when the loop is over.        *)
BroadcastReports ==
  main.pc = "visit" /\ main.cursor > main.end => audience.closed \subseteq dropped

(* A broadcast meets no null pointer in m_deqConnections, unless a sweep   *)
(* raced with a push: each sweep removes what its loop has reset.          *)
NoNullVisited == fault = "null visited" => lost # {}

(* No two connections have the same identifier, as the greeting of a       *)
(* broadcast tells clients apart by it.                                    *)
UniqueIDs == \A c, d \in Clients : c # d /\ id[c] # Null => id[c] # id[d]

(* The accept handler leaves the acceptor armed whatever became of the     *)
(* connection, so every client that arrives is accepted or refused while   *)
(* the program runs.                                                       *)
EveryoneAnswered == \A c \in Clients :
  thread = "running" /\ m_socket[c] = "waiting" ~>
    m_socket[c] # "waiting" \/ thread # "running" \/ ~Up

(* The main thread comes back from OnMessage, and Stop returns, whatever   *)
(* the asio thread does meanwhile.                                         *)
MainReturns == main.pc # "update" ~> main.pc = "update" \/ ~Up
-----------------------------------------------------------------------------
(* Statements of the repository that the code does not keep.               *)

(* write.hpp on the buffers of async_write: "they remain valid until the   *)
(* handler is called".                                                     *)
BuffersOutliveOperations ==
  \A c \in Clients : (\E k \in OpKinds : ops[c][k] > 0) => Alive(c)

(* net_server.h after the push_back: "already added, it is time to assign  *)
(* it an ID ... and tell it that this server wants to validate it".        *)
AcceptedHasID == \A c \in Clients :
  m_socket[c] \in {"open", "closed"} /\ (accepting # c \/ announcing) => id[c] # Null

(* net_server.h in MessageClient: "one can assume that it is disconnected, *)
(* so the respective event has to be run ... and eliminate it".            *)
ReportedIsRemoved ==
  main.pc = "update" => \A c \in reported : Occurrences(c) = 0
=============================================================================
