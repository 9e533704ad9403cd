------------------------------- MODULE Client -------------------------------
(***************************************************************************)
(* client_interface<T> (net_client.h) as SimpleClient.cpp uses it: the     *)
(* main thread connects, polls, sends and disconnects, perhaps to connect  *)
(* again; the asio thread runs m_context.run().                            *)
(*                                                                         *)
(* The programs are Windows programs, so the context is the one of asio's  *)
(* I/O completion port: a queue of completed operations, posted functions  *)
(* and at most one stop event, served first come first served.  stop()     *)
(* queues the event behind what is there, and nothing ever calls           *)
(* restart().  What a handler reads and writes is in Session; here the     *)
(* reads of a connection, the answer to the challenge included, are one    *)
(* chain.                                                                  *)
(***************************************************************************)
EXTENDS Integers, Sequences

CONSTANTS MaxConnects,   \* bound: calls of Connect that reach the resolver's end
          MaxReads,      \* bound: reads that bring data
          MaxSends,      \* bound: messages sent
          Null

Connections == 1 .. MaxConnects

ASSUME ClientAssumption ==
  /\ MaxConnects \in Nat \ {0}
  /\ MaxReads \in Nat /\ MaxSends \in Nat
  /\ Null \notin Connections

VARIABLES
  pc,               \* where main() stands
  m_connection,     \* the unique_ptr
  connects,         \* how many connection objects there have been
  destroyed,        \* those whose object is gone
  thread,           \* thrContext: "none", or where its run() stands
  stopped,          \* stopped_ of the context
  port,             \* what the context will serve, first to last
  ops,              \* per connection, the outstanding operations
  m_socket,         \* per connection: "none", "open" or "closed"
  m_qMessagesOut,   \* per connection, how many messages
  m_qMessagesIn,    \* how many messages
  cut,              \* connections whose server has closed, or network failed
  reads, sends,     \* how many so far
  established       \* history: connections that reached the server in time

program == <<m_connection, connects, destroyed>>
context == <<thread, stopped, port, ops>>
sockets == <<m_socket, m_qMessagesOut, established>>
network == <<cut, reads>>
vars == <<pc, program, context, sockets, m_qMessagesIn, network, sends>>

OpKinds == {"connect", "read", "write"}
Stop == [op |-> "stop", conn |-> Null, ok |-> TRUE]
Entries == [op : OpKinds \cup {"send", "close"}, conn : Connections, ok : BOOLEAN]
           \cup {Stop}

Init ==
  /\ pc = "begin"
  /\ m_connection = Null
  /\ connects = 0
  /\ destroyed = {}
  /\ thread = "none"
  /\ stopped = FALSE
  /\ port = << >>
  /\ ops = [c \in Connections |-> {}]
  /\ m_socket = [c \in Connections |-> "none"]
  /\ m_qMessagesOut = [c \in Connections |-> 0]
  /\ m_qMessagesIn = 0
  /\ cut = {}
  /\ reads = 0
  /\ sends = 0
  /\ established = {}

Goto(label) == pc' = label
IsConnected == m_connection # Null /\ m_socket[m_connection] = "open"

Post(op) == port' = Append(port, [op |-> op, conn |-> m_connection, ok |-> TRUE])

(* outstanding_work_ is not zero.                                          *)
Outstanding == \E c \in Connections : ops[c] # {}
HasWork == Outstanding \/ \E i \in DOMAIN port : port[i] # Stop
-----------------------------------------------------------------------------
(* The main thread.                                                        *)

(* The host cannot be resolved: Connect returns false, which main() does   *)
(* not look at.                                                            *)
ConnectThrows ==
  /\ pc = "begin"
  /\ Goto("loop")
  /\ UNCHANGED <<program, context, sockets, m_qMessagesIn, network, sends>>

(* A new connection takes the place of the old one, if there is one; its   *)
(* socket is open as soon as async_connect has begun.                      *)
Connect ==
  /\ pc = "begin"
  /\ thread = "none"
  /\ connects < MaxConnects
  /\ LET c == connects + 1
     IN /\ connects' = c
        /\ destroyed' = destroyed \cup ({m_connection} \ {Null})
        /\ m_connection' = c
        /\ m_socket' = [m_socket EXCEPT ![c] = "open"]
        /\ ops' = [ops EXCEPT ![c] = {"connect"}]
  /\ thread' = "begin"
  /\ Goto("loop")
  /\ UNCHANGED <<stopped, port, m_qMessagesOut, established, m_qMessagesIn,
                 network, sends>>

(* The keys: a message, which goes out if the socket is open still, or     *)
(* the last turn of the loop.                                              *)
Send ==
  /\ pc = "loop"
  /\ sends < MaxSends
  /\ IsConnected
  /\ sends' = sends + 1
  /\ Goto("send")
  /\ UNCHANGED <<program, context, sockets, m_qMessagesIn, network>>

PostSend ==
  /\ pc = "send"
  /\ Post("send")
  /\ Goto("loop")
  /\ UNCHANGED <<program, thread, stopped, ops, sockets, m_qMessagesIn,
                 network, sends>>

Quit ==
  /\ pc = "loop"
  /\ Goto("last")
  /\ UNCHANGED <<program, context, sockets, m_qMessagesIn, network, sends>>

(* The rest of a turn: one message, if the client is connected and there   *)
(* are more than this many.                                                *)
PollMoreThan(n) ==
  /\ pc \in {"loop", "last"}
  /\ m_qMessagesIn' = IF IsConnected /\ m_qMessagesIn > n
                      THEN m_qMessagesIn - 1 ELSE m_qMessagesIn
  /\ Goto(IF pc = "last" \/ ~IsConnected THEN "disconnect" ELSE "loop")
  /\ UNCHANGED <<program, context, sockets, network, sends>>

(* Slips: the last message is left in the queue; the queue is not tested.  *)
PollButOne == PollMoreThan(1)
PollUntested == PollMoreThan(-1)

Poll == PollMoreThan(0)

(* Disconnect, by main() or by the destructor.                             *)
DisconnectBy(step) ==
  /\ pc = "disconnect"
  /\ Goto(IF IsConnected THEN step ELSE "stop")
  /\ UNCHANGED <<program, context, sockets, m_qMessagesIn, network, sends>>

(* Slips: the context is stopped and the socket left as it is; the thread  *)
(* is joined at once.                                                      *)
DisconnectOpen == DisconnectBy("stop")
DisconnectJoins == DisconnectBy("join")

Disconnect == DisconnectBy("close")

PostClose ==
  /\ pc = "close"
  /\ Post("close")
  /\ Goto("stop")
  /\ UNCHANGED <<program, thread, stopped, ops, sockets, m_qMessagesIn,
                 network, sends>>

(* m_context.stop(): the event is queued once for good.                    *)
StopContext ==
  /\ pc = "stop"
  /\ stopped' = TRUE
  /\ port' = IF stopped THEN port ELSE Append(port, Stop)
  /\ Goto("join")
  /\ UNCHANGED <<program, thread, ops, sockets, m_qMessagesIn, network, sends>>

(* join(), if there is a thread, and what becomes of m_connection.         *)
JoinAndGiveUp(objects) ==
  /\ pc = "join"
  /\ thread \in {"none", "returned"}
  /\ thread' = "none"
  /\ m_connection' = Null
  /\ destroyed' = destroyed \cup objects
  /\ Goto("begin")
  /\ UNCHANGED <<connects, stopped, port, ops, sockets, m_qMessagesIn,
                 network, sends>>

(* A slip: reset(), as "we destroy the object" in the comment has it.      *)
JoinAndReset == JoinAndGiveUp({m_connection} \ {Null})

(* release(): nobody owns the object any more, and nothing destroys it.    *)
JoinAndRelease == JoinAndGiveUp({})
-----------------------------------------------------------------------------
(* The network and the operating system.                                   *)

Cut(c) ==
  /\ c \notin cut
  /\ m_socket[c] = "open"
  /\ cut' = cut \cup {c}
  /\ UNCHANGED <<pc, program, context, sockets, m_qMessagesIn, reads, sends>>

(* An operation ends and is queued for its handler.  Data that was sent    *)
(* before a cut may still be read.                                         *)
Completes(c, k, ok) ==
  /\ k \in ops[c]
  /\ ok => m_socket[c] = "open" /\ (k = "read" => reads < MaxReads)
  /\ reads' = IF ok /\ k = "read" THEN reads + 1 ELSE reads
  /\ ops' = [ops EXCEPT ![c] = @ \ {k}]
  /\ port' = Append(port, [op |-> k, conn |-> c, ok |-> ok])
  /\ UNCHANGED <<pc, program, thread, stopped, sockets, m_qMessagesIn, cut,
                 sends>>
-----------------------------------------------------------------------------
(* The asio thread: run() of the context.                                  *)

(* run() without work stops the context and returns.                       *)
RunBegins ==
  /\ thread = "begin"
  /\ thread' = IF HasWork THEN "serve" ELSE "returned"
  /\ stopped' = (stopped \/ ~HasWork)
  /\ port' = IF stopped' # stopped THEN Append(port, Stop) ELSE port
  /\ UNCHANGED <<pc, program, ops, sockets, m_qMessagesIn, network, sends>>

(* The stop event ends run() and is queued again, for the next one.        *)
StopEvent ==
  /\ thread = "serve"
  /\ port # << >>
  /\ Head(port) = Stop
  /\ port' = Append(Tail(port), Stop)
  /\ thread' = "returned"
  /\ UNCHANGED <<pc, program, stopped, ops, sockets, m_qMessagesIn, network,
                 sends>>

(* The handler of the first entry runs, and starts these operations on its *)
(* connection; the context stops itself when the last work is done.        *)
Serve(c, op, ok, started) ==
  /\ thread = "serve"
  /\ port # << >>
  /\ Head(port) = [op |-> op, conn |-> c, ok |-> ok]
  /\ ops' = [ops EXCEPT ![c] = @ \cup started]
  /\ stopped' = (stopped \/ (Tail(port) = << >> /\ ~Outstanding'))
  /\ port' = IF stopped' # stopped THEN <<Stop>> ELSE Tail(port)
  /\ UNCHANGED <<pc, program, thread, network, sends>>

(* m_socket.close(): what is outstanding on it can only fail.              *)
Close(c) == /\ m_socket' = [m_socket EXCEPT ![c] = "closed"]
            /\ UNCHANGED <<m_qMessagesOut, established, m_qMessagesIn>>

(* ConnectToServer's handler: read the challenge, or nothing at all.  A     *)
(* socket that was closed since then counts as an operation aborted.       *)
Connected(c) ==
  /\ m_socket[c] = "open"
  /\ Serve(c, "connect", TRUE, {"read"})
  /\ established' = established \cup ({c} \cap {m_connection})
  /\ UNCHANGED <<m_socket, m_qMessagesOut, m_qMessagesIn>>

ConnectFailed(c) ==
  /\ \E ok \in BOOLEAN : /\ ok => m_socket[c] # "open"
                         /\ Serve(c, "connect", ok, {})
  /\ UNCHANGED <<sockets, m_qMessagesIn>>

(* Data: the challenge, part of a message, or the end of one.              *)
ReadDone(c) ==
  /\ Serve(c, "read", TRUE, {"read"})
  /\ m_qMessagesIn' \in {m_qMessagesIn, m_qMessagesIn + 1}
  /\ UNCHANGED sockets

(* A slip: the handler of a failed read does not close the socket.         *)
ReadErrorIgnored(c) ==
  /\ Serve(c, "read", FALSE, {})
  /\ UNCHANGED <<sockets, m_qMessagesIn>>

ReadFailed(c) == Serve(c, "read", FALSE, {}) /\ Close(c)

(* The lambda of connection::Send.                                         *)
PostedSend(c) ==
  /\ Serve(c, "send", TRUE, IF m_qMessagesOut[c] = 0 THEN {"write"} ELSE {})
  /\ m_qMessagesOut' = [m_qMessagesOut EXCEPT ![c] = @ + 1]
  /\ UNCHANGED <<m_socket, established, m_qMessagesIn>>

WriteDone(c) ==
  /\ Serve(c, "write", TRUE, IF m_qMessagesOut[c] > 1 THEN {"write"} ELSE {})
  /\ m_qMessagesOut' = [m_qMessagesOut EXCEPT ![c] = @ - 1]
  /\ UNCHANGED <<m_socket, established, m_qMessagesIn>>

WriteFailed(c) == Serve(c, "write", FALSE, {}) /\ Close(c)

PostedClose(c) == Serve(c, "close", TRUE, {}) /\ Close(c)
-----------------------------------------------------------------------------
Disconnecting == \/ Disconnect \/ PostClose \/ StopContext \/ JoinAndRelease

Looping == Poll \/ PostSend

Main == \/ ConnectThrows \/ Connect \/ Send \/ Quit
        \/ Looping \/ Disconnecting

Handler(c) == \/ Connected(c) \/ ConnectFailed(c)
              \/ ReadDone(c) \/ ReadFailed(c)
              \/ PostedSend(c) \/ WriteDone(c) \/ WriteFailed(c)
              \/ PostedClose(c)

Run == RunBegins \/ StopEvent \/ \E c \in Connections : Handler(c)

Network == \E c \in Connections :
  Cut(c) \/ \E k \in OpKinds, ok \in BOOLEAN : Completes(c, k, ok)

Next == Main \/ Run \/ Network

Spec == Init /\ [][Next]_vars

(* The operating system runs both threads; main() goes on polling, and     *)
(* through Disconnect.  An operation on a socket that is closed, or whose  *)
(* other end is, comes to its end.                                         *)
Ends(c, k) == /\ m_socket[c] = "closed" \/ c \in cut
              /\ \E ok \in BOOLEAN : Completes(c, k, ok)

Fairness == /\ WF_vars(Looping) /\ WF_vars(Disconnecting) /\ WF_vars(Run)
            /\ \A c \in Connections, k \in OpKinds : WF_vars(Ends(c, k))

FairSpec == Spec /\ Fairness
-----------------------------------------------------------------------------
(* Types of the program, the context and the connections.                  *)
TypeOK ==
  /\ pc \in {"begin", "loop", "send", "last", "disconnect", "close", "stop", "join"}
  /\ m_connection \in Connections \cup {Null}
  /\ connects \in 0 .. MaxConnects
  /\ destroyed \subseteq Connections
  /\ thread \in {"none", "begin", "serve", "returned"}
  /\ stopped \in BOOLEAN
  /\ port \in Seq(Entries)
  /\ ops \in [Connections -> SUBSET OpKinds]
  /\ m_socket \in [Connections -> {"none", "open", "closed"}]
  /\ m_qMessagesOut \in [Connections -> Nat]
  /\ m_qMessagesIn \in Nat
  /\ cut \subseteq Connections
  /\ reads \in 0 .. MaxReads
  /\ sends \in 0 .. MaxSends
  /\ established \subseteq Connections

(* A connection that reached the server is closed by the time run() has    *)
(* returned: run() does not run out of work under a live connection, and   *)
(* Disconnect's posted close is served before its stop() takes effect.  So *)
(* the server sees the client go, although release() leaks the socket.     *)
ClosedWhenRunReturns ==
  thread \in {"none", "returned"} =>
    \A c \in established : m_socket[c] = "closed"

(* No handler outlives the object whose `this' it holds: what a Disconnect *)
(* leaves in the context is served by the run() of the next Connect.       *)
HandlersHaveConnection ==
  /\ \A c \in destroyed : ops[c] = {}
  /\ \A i \in DOMAIN port : port[i].conn \notin destroyed

(* Disconnect, and so the destructor, returns, whatever is outstanding and *)
(* however often the client has connected before.                          *)
DisconnectReturns == pc \in {"disconnect", "close", "stop", "join"} ~> pc = "begin"

InLoop == pc \in {"loop", "send", "last"}

(* SimpleClient's loop ends when the server has closed the connection.     *)
QuitsWhenCut == InLoop /\ m_connection \in established \cap cut ~> ~InLoop

(* SimpleClient's loop handles the messages it was sent, as long as it     *)
(* runs and the connection is open.                                        *)
ReceivedIsHandled == InLoop /\ m_qMessagesIn > 0 ~> m_qMessagesIn = 0 \/ ~InLoop
=============================================================================
