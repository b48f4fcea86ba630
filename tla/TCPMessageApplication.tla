------------------------ MODULE TCPMessageApplication -----------------------
(***************************************************************************)
(* TCPMessageApplication sends each message of its script over a TCP       *)
(* connection of its own and serves the connections of others.  It keeps a *)
(* socket per connection, each with a thread, the object that TCP calls    *)
(* back.  Messages of TCP to it wait in fromTcp, as events of one instant. *)
(*                                                                         *)
(* A connection is named by its ends, <<client, server>>: the local port   *)
(* 20000 + destination leaves room for one to a destination, and nothing   *)
(* ever closes it, so that peerClosed() and closed() are never called.     *)
(* rcvThreadMap and sndThreadMap are written but never read; the socket    *)
(* map has the sockets of the threads.  The other statistics stay 0.       *)
(***************************************************************************)
EXTENDS Naturals, Sequences, VirtualIP

CONSTANT Servers

VARIABLES
  threads,    \* [server -> its threads, one per socket]
  numBroken,  \* [server -> connections that failed]
  fromTcp,    \* [server -> messages of TCP that the application has not handled]
  received    \* connections whose message reached the application

appVars == <<threads, numBroken, fromTcp, received>>

Connections == {conn \in Servers \X Servers : conn[1] # conn[2]}

AppInit ==
  /\ threads = [s \in Servers |-> {}]
  /\ numBroken = [s \in Servers |-> 0]
  /\ fromTcp = [s \in Servers |-> << >>]
  /\ received = {}

(* TCPThreadSend and TCPThreadReceive.                                     *)
Thread(conn, type, destination) ==
  [conn |-> conn, type |-> type, destination |-> destination]

SocketOf(s, conn) == {thread \in threads[s] : thread.conn = conn}

(* activateMessage(): a socket that TCP is asked to connect and to send by.*)
outgoingConnection(s, dest) ==
  threads' = [threads EXCEPT ![s] = @ \cup {Thread(<<s, dest>>, "send", dest)}]

(* Mutant of FoundOrIncoming: the IP address is not converted.             *)
FoundOrIncomingUnconverted(s, msg) ==
  IF SocketOf(s, msg.conn) # {} THEN threads[s]
  ELSE threads[s] \cup {Thread(msg.conn, "receive", msg.remoteIP)}

(* A message of TCP for no known socket is a new connection, whose address *)
(* is taken from the message.                                              *)
FoundOrIncoming(s, msg) ==
  IF SocketOf(s, msg.conn) # {} THEN threads[s]
  ELSE threads[s] \cup {Thread(msg.conn, "receive", convertIPAddressToDC(msg.remoteIP))}

removeThread(found, conn) == {thread \in found : thread.conn # conn}

(* Mutant of Failed: the failure is not counted.                           *)
FailedUncounted(s, msg) ==
  /\ msg.kind = "FAILURE"
  /\ threads' = [threads EXCEPT ![s] = removeThread(FoundOrIncoming(s, msg), msg.conn)]
  /\ UNCHANGED <<numBroken, received>>

(* failure() of the thread.                                                *)
Failed(s, msg) ==
  /\ msg.kind = "FAILURE"
  /\ numBroken' = [numBroken EXCEPT ![s] = @ + 1]
  /\ threads' = [threads EXCEPT ![s] = removeThread(FoundOrIncoming(s, msg), msg.conn)]
  /\ UNCHANGED received

(* dataArrived(): the data is deleted, and counted nowhere.                *)
DataArrived(s, msg) ==
  /\ msg.kind = "DATA"
  /\ threads' = [threads EXCEPT ![s] = FoundOrIncoming(s, msg)]
  /\ received' = received \cup {msg.conn}
  /\ UNCHANGED numBroken

(* established() and statusArrived(): nothing but logging, once there is a *)
(* socket.                                                                 *)
Notified(s, msg) ==
  /\ msg.kind \in {"ESTABLISHED", "STATUS"}
  /\ threads' = [threads EXCEPT ![s] = FoundOrIncoming(s, msg)]
  /\ UNCHANGED <<numBroken, received>>

(* handleMessage() for a message of TCP.                                   *)
HandleFromTcp(s) ==
  /\ fromTcp[s] # << >>
  /\ fromTcp' = [fromTcp EXCEPT ![s] = Tail(@)]
  /\ LET msg == Head(fromTcp[s])
     IN  Failed(s, msg) \/ DataArrived(s, msg) \/ Notified(s, msg)
=============================================================================
