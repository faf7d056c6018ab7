------------------------------- MODULE OtaBus --------------------------------
(***************************************************************************)
(* Several update nodes on one CAN bus, each for a bootloader of its own.  *)
(* Stm32OtaNode computes the two CAN ids of its pair from its parameters;  *)
(* CanTransport sends, and takes from a raw socket whatever frame is on    *)
(* the bus, of which receiveById and parseReply leave the replies.  The    *)
(* bootloaders and the other devices on the bus are external.              *)
(***************************************************************************)
EXTENDS Integers, Sequences

CONSTANTS
  Hosts,          \* the nodes; the bootloader of a node has its name
  NodeIds,        \* node_id, as somebody may set it
  RequestBase,    \* request_base_id
  ResponseBase,   \* response_base_id
  StdMax, ExtMax, \* 0x7ff, 0x1fffffff
  MaxOrders,      \* bound: commands
  MaxStrays,      \* bound: frames of other devices
  SocketBuffer    \* frames a socket holds; more are dropped

IdMax(extended) == IF extended THEN ExtMax ELSE StdMax

RequestId(n) == RequestBase + n
ResponseId(n) == ResponseBase + n

\* checkedU32Parameter
InRange(value, max) == value \in 0 .. max

\* loadClientOptions does not throw.
Accepted(n, extended) ==
  LET max == IdMax(extended)
  IN /\ InRange(n, max)
     /\ InRange(RequestBase, max)
     /\ InRange(ResponseBase, max)
     /\ RequestId(n) <= max
     /\ ResponseId(n) <= max

ASSUME BusAssumption ==
  /\ \A n \in NodeIds : n \in Int
  /\ RequestBase \in Int /\ ResponseBase \in Int
  /\ StdMax \in Int /\ ExtMax \in Int
  /\ MaxOrders \in Nat /\ MaxStrays \in Nat /\ SocketBuffer \in Nat

\* No two node ids are as far apart as the bases: a response id is then
\* never a request id.
ASSUME BasesFarApart ==
  \A m, n \in NodeIds : RequestId(m) # ResponseId(n)

Stray == "stray"

ASSUME StrayIsNoHost == Stray \notin Hosts

\* marker is whether parseReply finds ACK or NACK in data[0]: not in a frame
\* of fewer than 8 bytes, nor in a remote frame, which has no data.
Frame(id, ext, marker, from, nr) ==
  [id |-> id, extended |-> ext, marker |-> marker, from |-> from, nr |-> nr]

VARIABLES
  nodeId, extended,  \* the parameters of each host
  stage,             \* "constructing", "ready", or "thrown"
  open,              \* socket_fd_ >= 0
  waiting,           \* in receiveById
  buffer,            \* what the socket holds
  orders,            \* a bootloader's commands, to be answered
  sent,              \* commands sent
  strays,            \* frames of other devices
  obeyed,            \* history: whose commands a bootloader took
  replied,           \* history: own replies that reached the open socket
  heard              \* history: what parseReply found valid since open()

busVars == <<nodeId, extended, stage, open, waiting, buffer, orders, sent,
             strays, obeyed, replied, heard>>

-----------------------------------------------------------------------------
(* Stm32OtaNode's constructor                                              *)

\* It declares its parameters, loads the options and makes the client, the
\* publisher, the services and the timer; what throws ends the process.
Construct(h) ==
  /\ stage[h] = "constructing"
  /\ stage' = [stage EXCEPT
       ![h] = IF Accepted(nodeId[h], extended[h]) THEN "ready" ELSE "thrown"]
  /\ UNCHANGED <<nodeId, extended, open, waiting, buffer, orders, sent, strays,
                 obeyed, replied, heard>>

-----------------------------------------------------------------------------
(* CanTransport                                                            *)

\* Every open socket but the sender's gets a frame, if it has room.
Reached(h, sender) == open[h] /\ h # sender /\ Len(buffer[h]) < SocketBuffer

Broadcast(f, sender) ==
  buffer' = [h \in Hosts |->
    IF Reached(h, sender) THEN Append(buffer[h], f) ELSE buffer[h]]

\* close(): the file descriptor, and with it what the socket held.
Closed(h) ==
  /\ buffer' = [buffer EXCEPT ![h] = <<>>]
  /\ replied' = [replied EXCEPT ![h] = <<>>]
  /\ heard' = [heard EXCEPT ![h] = <<>>]

\* open() of a new run: the old socket goes; socket, ioctl or bind may fail.
Open(h) ==
  /\ stage[h] = "ready"
  /\ ~waiting[h]
  /\ Closed(h)
  /\ \E ok \in BOOLEAN : open' = [open EXCEPT ![h] = ok]
  /\ UNCHANGED <<nodeId, extended, stage, waiting, orders, sent, strays, obeyed>>

\* ~CanTransport, at the end of a run.
Close(h) ==
  /\ open[h]
  /\ ~waiting[h]
  /\ Closed(h)
  /\ open' = [open EXCEPT ![h] = FALSE]
  /\ UNCHANGED <<nodeId, extended, stage, waiting, orders, sent, strays, obeyed>>

\* A bootloader takes the frames with the request id of its number.
Takes(b, f) ==
  /\ Accepted(nodeId[b], extended[b])
  /\ f.id = RequestId(nodeId[b])
  /\ f.extended = extended[b]

Command(h) == Frame(RequestId(nodeId[h]), extended[h], FALSE, h, sent)

\* What a data frame is to the bootloaders.
Obey(f) ==
  obeyed' = [b \in Hosts |->
    IF Takes(b, f) THEN obeyed[b] \cup {f.from} ELSE obeyed[b]]

\* send(), when write() takes the frame; otherwise nothing happens.
Send(h) ==
  /\ open[h]
  /\ ~waiting[h]
  /\ sent < MaxOrders
  /\ sent' = sent + 1
  /\ Broadcast(Command(h), h)
  /\ Obey(Command(h))
  /\ orders' = [b \in Hosts |->
       IF Takes(b, Command(h)) THEN Append(orders[b], sent) ELSE orders[b]]
  /\ UNCHANGED <<nodeId, extended, stage, open, waiting, strays, replied, heard>>

\* receiveById, called.
Wait(h) ==
  /\ open[h]
  /\ ~waiting[h]
  /\ waiting' = [waiting EXCEPT ![h] = TRUE]
  /\ UNCHANGED <<nodeId, extended, stage, open, buffer, orders, sent, strays,
                 obeyed, replied, heard>>

\* parseReply: a reply that is valid.
ValidReply(h, f) ==
  /\ f.id = ResponseId(nodeId[h])
  /\ f.extended = extended[h]
  /\ f.marker

\* receive() reads a frame; receiveById goes on if the id is another's, and
\* otherwise returns it to be parsed.
Receive(h) ==
  /\ waiting[h]
  /\ buffer[h] # <<>>
  /\ LET f == Head(buffer[h]) IN
       /\ waiting' = [waiting EXCEPT ![h] = f.id # ResponseId(nodeId[h])]
       /\ heard' = [heard EXCEPT ![h] = IF ValidReply(h, f) THEN Append(@, f) ELSE @]
  /\ buffer' = [buffer EXCEPT ![h] = Tail(@)]
  /\ UNCHANGED <<nodeId, extended, stage, open, orders, sent, strays, obeyed, replied>>

\* The deadline, a select() that timed out or was interrupted, a read() that
\* failed: receiveById gives up, whatever the socket holds.
GiveUp(h) ==
  /\ waiting[h]
  /\ waiting' = [waiting EXCEPT ![h] = FALSE]
  /\ UNCHANGED <<nodeId, extended, stage, open, buffer, orders, sent, strays,
                 obeyed, replied, heard>>

-----------------------------------------------------------------------------
(* The bootloaders and other devices                                       *)

Reply(b) == Frame(ResponseId(nodeId[b]), extended[b], TRUE, b, Head(orders[b]))

\* A bootloader answers its commands in their order ...
Answer(b) ==
  /\ orders[b] # <<>>
  /\ orders' = [orders EXCEPT ![b] = Tail(@)]
  /\ Broadcast(Reply(b), Stray)
  /\ Obey(Reply(b))
  /\ replied' = [replied EXCEPT ![b] =
       IF Reached(b, Stray) THEN Append(@, Reply(b)) ELSE @]
  /\ UNCHANGED <<nodeId, extended, stage, open, waiting, sent, strays, heard>>

\* ... or keeps silent.
Ignore(b) ==
  /\ orders[b] # <<>>
  /\ orders' = [orders EXCEPT ![b] = Tail(@)]
  /\ UNCHANGED <<nodeId, extended, stage, open, waiting, buffer, sent, strays,
                 obeyed, replied, heard>>

\* Whose id a frame carries, in its format.
Owned(id, ext) ==
  \E h \in Hosts :
    /\ extended[h] = ext
    /\ id \in {RequestId(nodeId[h]), ResponseId(nodeId[h])}

\* Another device sends: data with an id of its own, be it only for the
\* format of the frame, or a remote frame, which the bootloaders ignore.
StrayFrame(id, ext, marker) ==
  /\ strays < MaxStrays
  /\ strays' = strays + 1
  /\ marker => ~Owned(id, ext)
  /\ Broadcast(Frame(id, ext, marker, Stray, 0), Stray)
  /\ UNCHANGED <<nodeId, extended, stage, open, waiting, orders, sent, obeyed,
                 replied, heard>>

-----------------------------------------------------------------------------
\* The nodes are given different numbers.
BusInit ==
  /\ nodeId \in [Hosts -> NodeIds]
  /\ \A g, h \in Hosts : nodeId[g] = nodeId[h] => g = h
  /\ extended \in [Hosts -> BOOLEAN]
  /\ stage = [h \in Hosts |-> "constructing"]
  /\ open = [h \in Hosts |-> FALSE]
  /\ waiting = [h \in Hosts |-> FALSE]
  /\ buffer = [h \in Hosts |-> <<>>]
  /\ orders = [h \in Hosts |-> <<>>]
  /\ sent = 0
  /\ strays = 0
  /\ obeyed = [h \in Hosts |-> {}]
  /\ replied = [h \in Hosts |-> <<>>]
  /\ heard = [h \in Hosts |-> <<>>]

HostStep(h) ==
  \/ Construct(h) \/ Open(h) \/ Close(h)
  \/ Send(h) \/ Wait(h) \/ Receive(h) \/ GiveUp(h)

BusNext ==
  \/ \E h \in Hosts : HostStep(h) \/ Answer(h) \/ Ignore(h)
  \/ \E id \in {ResponseId(n) : n \in NodeIds}, ext, marker \in BOOLEAN : StrayFrame(id, ext, marker)

BusSpec == BusInit /\ [][BusNext]_busVars

-----------------------------------------------------------------------------
(***************************************************************************)
(* Nodes with different numbers do not hear or drive each other's          *)
(* bootloaders, whatever else is on the bus, frames of the other format    *)
(* and remote frames with the same ids included: every reply a node takes  *)
(* is its own bootloader's, and what reaches a bootloader on its request   *)
(* id is its own node's.                                                   *)
(***************************************************************************)
NoCrossTalk ==
  \A h \in Hosts :
    /\ \A i \in 1 .. Len(heard[h]) : heard[h][i].from = h
    /\ obeyed[h] \subseteq {h}

\* The frames of s that come from h.
Own(s, h) ==
  LET own[n \in 0 .. Len(s)] ==
        IF n = 0 THEN <<>>
        ELSE IF s[n].from = h THEN Append(own[n - 1], s[n]) ELSE own[n - 1]
  IN  own[Len(s)]

(***************************************************************************)
(* What the bootloader answered since open() is what the node has heard,   *)
(* in order, and then what waits in its socket: skipping other frames,     *)
(* giving up and waiting again lose none, and a socket opened for a new    *)
(* run brings none of the last one's.                                      *)
(***************************************************************************)
Kept ==
  \A h \in Hosts : replied[h] = heard[h] \o Own(buffer[h], h)
=============================================================================
