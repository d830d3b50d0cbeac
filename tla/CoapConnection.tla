--------------------------- MODULE CoapConnection ---------------------------
(***************************************************************************)
(* The CoAP message layer of the reader: `CoAPConnection` and its `run`    *)
(* loop (src/src/net/coap.rs).  One task owns the connection.  It selects  *)
(* between a datagram from the DTLS session, a packet from the bounded     *)
(* channel `packets_send`, the retransmission timer of ONE packet in       *)
(* flight and the ping timer, and runs one handler to completion.          *)
(*                                                                         *)
(* The peer and the network are unconstrained: any well-formed datagram    *)
(* may arrive at any time, so loss, delay, reordering and duplication of   *)
(* what either side sends are all covered.  Time is a count of ticks, and  *)
(* every deadline (`timeout_at`, `next_ping`) is kept relative to now.     *)
(* The content of a packet is abstracted to its identity.                  *)
(***************************************************************************)
EXTENDS Integers, Sequences, FiniteSets

CONSTANTS
  Packets,          \* what the client hands over, each with a token of its own
  Unserialisable,   \* the packets `to_bytes` refuses (too long for a datagram)
  Ping,             \* the empty confirmable packet
  NStart,           \* CoAPTransmissionParameters.nstart
  MaxRetransmit,    \* CoAPTransmissionParameters.max_retransmit
  AckTimeouts,      \* the values new_timeout() can draw, in ticks
  PingInterval,     \* ticks between two pings
  IdSpace,          \* number of message ids (2^16 in the code)
  SendCapacity,     \* capacity of packets_send
  RecvCapacity,     \* capacity of packets_recv
  MaxLag            \* bound: ticks the ping timer can be overdue

ASSUME ConnectionAssumption ==
  /\ Unserialisable \subseteq Packets
  /\ Ping \notin Packets
  /\ NStart \in Nat \ {0}
  /\ MaxRetransmit \in Nat
  /\ AckTimeouts \subseteq Nat \ {0} /\ AckTimeouts # {}
  /\ PingInterval \in Nat \ {0}
  /\ IdSpace \in Nat \ {0, 1}
  /\ SendCapacity \in Nat \ {0}
  /\ RecvCapacity \in Nat \ {0}
  /\ MaxLag \in Nat

VARIABLES
  status,           \* "open", or why run() returned
  in_flight,        \* message id -> InFlightPacket
  ping_in_flight,
  send_queue,
  next_message_id,
  packets_send,     \* channel: client tasks -> run()
  packets_recv,     \* channel: run() -> client task; only its length matters
  delivering,       \* run() is suspended in packets_recv.send(packet).await
  next_ping,        \* ticks until the ping timer fires, negative when overdue
  silence           \* history: ticks spent listening since the last datagram

channels == <<packets_send, packets_recv>>
sender == <<in_flight, ping_in_flight, send_queue, next_message_id>>
loop == <<status, delivering, next_ping, silence>>
vars == <<sender, channels, loop>>

-----------------------------------------------------------------------------
Ids == 0 .. IdSpace - 1

\* InFlightPacket
InFlightPacket ==
  [packet : Packets \cup {Ping}, timeout : Nat, timeout_at : Nat,
   retransmission_count : Nat, is_ping : BOOLEAN]

Insert(flight, id, p) ==
  [i \in DOMAIN flight \cup {id} |-> IF i = id THEN p ELSE flight[i]]

Remove(flight, id) == [i \in DOMAIN flight \ {id} |-> flight[i]]

Nothing == [i \in {} |-> 0]

\* `next_timeout.sort()` orders (id, deadline) pairs: the deadline that run()
\* waits for is the one of the LOWEST id, whichever deadline comes first.
IsLowest(id) ==
  /\ id \in DOMAIN in_flight
  /\ \A other \in DOMAIN in_flight : id <= other

Selecting == status = "open" /\ ~delivering

TypeOK ==
  /\ status \in {"open", "TLSError", "PingTimeout"}
  /\ DOMAIN in_flight \subseteq Ids
  /\ in_flight \in [DOMAIN in_flight -> InFlightPacket]
  /\ ping_in_flight \in BOOLEAN
  /\ send_queue \in Seq(Packets)
  /\ next_message_id \in Ids
  /\ packets_send \in Seq(Packets) /\ Len(packets_send) <= SendCapacity
  /\ packets_recv \in 0 .. RecvCapacity
  /\ delivering \in BOOLEAN
  /\ next_ping \in Int
  /\ silence \in Nat

\* CoAPConnection::new, and the first ping deadline of run().
Init ==
  /\ status = "open"
  /\ in_flight = Nothing
  /\ ping_in_flight = FALSE
  /\ send_queue = <<>>
  /\ next_message_id = 0
  /\ packets_send = <<>> /\ packets_recv = 0
  /\ delivering = FALSE
  /\ next_ping = PingInterval
  /\ silence = 0

-----------------------------------------------------------------------------
(* Handlers' helpers.  `flight` is in_flight as the handler has left it so  *)
(* far.                                                                     *)

\* Mutant: the message id is not wrapped.
transmit_packet_no_wrap(flight, packet, is_ping) ==
  /\ next_message_id' = next_message_id + 1
  /\ \E t \in AckTimeouts :
       in_flight' = Insert(flight, next_message_id,
         [packet |-> packet, timeout |-> t, timeout_at |-> t,
          retransmission_count |-> 0, is_ping |-> is_ping])

\* transmit_packet: the id is spent even when serialisation fails, and then
\* nothing is sent and nothing is recorded, yet the call returns Ok.
transmit_packet(flight, packet, is_ping) ==
  /\ next_message_id' = (next_message_id + 1) % IdSpace
  /\ IF packet \in Unserialisable
     THEN in_flight' = flight
     ELSE \E t \in AckTimeouts :
            in_flight' = Insert(flight, next_message_id,
              [packet |-> packet, timeout |-> t, timeout_at |-> t,
               retransmission_count |-> 0, is_ping |-> is_ping])

\* Mutant: the newest waiting packet is sent first (pop_back).
try_drain_send_queue_newest(flight) ==
  IF Cardinality(DOMAIN flight) < NStart /\ send_queue # <<>>
  THEN /\ transmit_packet(flight, send_queue[Len(send_queue)], FALSE)
       /\ send_queue' = SubSeq(send_queue, 1, Len(send_queue) - 1)
  ELSE /\ in_flight' = flight
       /\ UNCHANGED <<send_queue, next_message_id>>

\* try_drain_send_queue: at most one packet leaves the queue per call.
try_drain_send_queue(flight) ==
  IF Cardinality(DOMAIN flight) < NStart /\ send_queue # <<>>
  THEN /\ transmit_packet(flight, Head(send_queue), FALSE)
       /\ send_queue' = Tail(send_queue)
  ELSE /\ in_flight' = flight
       /\ UNCHANGED <<send_queue, next_message_id>>

\* Any handler that returns Err: run() shuts the session down and returns, and
\* the connection, its queue and its channels are dropped.  The variables then
\* hold what the next connection starts with.
Shutdown(error) ==
  /\ status' = error
  /\ in_flight' = Nothing
  /\ ping_in_flight' = FALSE
  /\ send_queue' = <<>>
  /\ next_message_id' = 0
  /\ packets_send' = <<>> /\ packets_recv' = 0
  /\ delivering' = FALSE
  /\ next_ping' = PingInterval
  /\ silence' = 0

-----------------------------------------------------------------------------
(* The client side of the channels.                                         *)

\* packets_send.send(packet) by a client task; the tokens of two packets in
\* the system differ, so a packet is not handed over twice at a time.
Pending == send_queue \o packets_send

InSystem(p) ==
  \/ \E i \in DOMAIN Pending : Pending[i] = p
  \/ \E id \in DOMAIN in_flight : in_flight[id].packet = p

Submit(p) ==
  /\ status = "open"
  /\ Len(packets_send) < SendCapacity
  /\ ~InSystem(p)
  /\ packets_send' = Append(packets_send, p)
  /\ UNCHANGED <<sender, packets_recv, loop>>

\* packets_recv.receive() by run_coap_client.
TakeResponse ==
  /\ packets_recv > 0
  /\ packets_recv' = packets_recv - 1
  /\ UNCHANGED <<sender, packets_send, loop>>

-----------------------------------------------------------------------------
(* run(): one action per arm of the select, in the order they are polled.    *)

\* Mutant: the reply to a ping does not clear ping_in_flight.
settle_keeps_flag(id) ==
  IF id \in DOMAIN in_flight
  THEN try_drain_send_queue(Remove(in_flight, id)) /\ UNCHANGED ping_in_flight
  ELSE UNCHANGED sender

\* Mutant: the reply to a ping does not restart the queue.
settle_ping_no_drain(id) ==
  IF id \in DOMAIN in_flight
  THEN IF in_flight[id].is_ping
       THEN /\ ping_in_flight' = FALSE
            /\ in_flight' = Remove(in_flight, id)
            /\ UNCHANGED <<send_queue, next_message_id>>
       ELSE try_drain_send_queue(Remove(in_flight, id)) /\ UNCHANGED ping_in_flight
  ELSE UNCHANGED sender

\* handle_incoming_data for an acknowledgement or a reset of message `id`.
settle(id) ==
  IF id \in DOMAIN in_flight
  THEN /\ ping_in_flight' = (ping_in_flight /\ ~in_flight[id].is_ping)
       /\ try_drain_send_queue(Remove(in_flight, id))
  ELSE UNCHANGED sender

IncomingReply(id, is_empty) ==
  /\ Selecting
  /\ settle(id)
  /\ delivering' = ~is_empty
  /\ silence' = 0
  /\ UNCHANGED <<channels, status, next_ping>>

\* handle_incoming_data for a confirmable packet (acknowledged on the spot,
\* whatever becomes of it) or a non-confirmable one.
IncomingMessage(is_empty) ==
  /\ Selecting
  /\ delivering' = ~is_empty
  /\ silence' = 0
  /\ UNCHANGED <<sender, channels, status, next_ping>>

\* packets_recv.send(packet).await at the end of handle_incoming_data: run()
\* does nothing else until the channel has room.
DeliverResponse ==
  /\ delivering
  /\ packets_recv < RecvCapacity
  /\ packets_recv' = packets_recv + 1
  /\ delivering' = FALSE
  /\ UNCHANGED <<sender, packets_send, status, next_ping, silence>>

\* Mutant: NSTART + 1 packets are let through.
handle_outgoing_packet_off_by_one(packet) ==
  IF Cardinality(DOMAIN in_flight) > NStart
  THEN /\ send_queue' = Append(send_queue, packet)
       /\ UNCHANGED <<in_flight, next_message_id>>
  ELSE /\ transmit_packet(in_flight, packet, FALSE)
       /\ UNCHANGED send_queue

handle_outgoing_packet(packet) ==
  IF Cardinality(DOMAIN in_flight) >= NStart
  THEN /\ send_queue' = Append(send_queue, packet)
       /\ UNCHANGED <<in_flight, next_message_id>>
  ELSE /\ transmit_packet(in_flight, packet, FALSE)
       /\ UNCHANGED send_queue

OutgoingPacket ==
  /\ Selecting
  /\ packets_send # <<>>
  /\ packets_send' = Tail(packets_send)
  /\ handle_outgoing_packet(Head(packets_send))
  /\ UNCHANGED <<ping_in_flight, packets_recv, loop>>

\* The three outcomes of handle_retransmit_timeout.  The bytes were serialised
\* once already, so the error branch of the second to_bytes() cannot be taken.
retransmit(id) ==
  /\ in_flight[id].retransmission_count < MaxRetransmit
  /\ in_flight' = [in_flight EXCEPT
        ![id].retransmission_count = @ + 1,
        ![id].timeout = 2 * @,
        ![id].timeout_at = 2 * in_flight[id].timeout]
  /\ UNCHANGED <<ping_in_flight, send_queue, next_message_id, channels, loop>>

ping_timeout(id) ==
  /\ in_flight[id].retransmission_count >= MaxRetransmit
  /\ in_flight[id].is_ping
  /\ Shutdown("PingTimeout")

\* Mutant: giving a packet up does not restart the queue.
give_up_no_drain(id) ==
  /\ in_flight[id].retransmission_count >= MaxRetransmit
  /\ ~in_flight[id].is_ping
  /\ in_flight' = Remove(in_flight, id)
  /\ UNCHANGED <<ping_in_flight, send_queue, next_message_id, channels, loop>>

give_up(id) ==
  /\ in_flight[id].retransmission_count >= MaxRetransmit
  /\ ~in_flight[id].is_ping
  /\ try_drain_send_queue(Remove(in_flight, id))
  /\ UNCHANGED <<ping_in_flight, channels, loop>>

RetransmitTimeout(id) ==
  /\ Selecting
  /\ packets_send = <<>>
  /\ IsLowest(id) /\ in_flight[id].timeout_at = 0
  /\ retransmit(id) \/ ping_timeout(id) \/ give_up(id)

\* Mutant: a ping waits for a free slot, like a request.
handle_ping_in_turn ==
  IF ping_in_flight \/ Cardinality(DOMAIN in_flight) >= NStart
  THEN UNCHANGED <<in_flight, ping_in_flight, next_message_id>>
  ELSE /\ transmit_packet(in_flight, Ping, TRUE)
       /\ ping_in_flight' = TRUE

\* A ping does not wait for NSTART.
handle_ping ==
  IF ping_in_flight
  THEN UNCHANGED <<in_flight, ping_in_flight, next_message_id>>
  ELSE /\ transmit_packet(in_flight, Ping, TRUE)
       /\ ping_in_flight' = TRUE

\* Nothing that run() waits for before the ping timer is ready.
NothingElseDue ==
  /\ packets_send = <<>>
  /\ \A id \in DOMAIN in_flight : IsLowest(id) => in_flight[id].timeout_at > 0

\* The next deadline is counted from the last deadline, not from now.
PingTimer ==
  /\ Selecting
  /\ NothingElseDue
  /\ next_ping <= 0
  /\ next_ping' = next_ping + PingInterval
  /\ handle_ping
  /\ UNCHANGED <<send_queue, channels, status, delivering, silence>>

\* read_data or a write_data in any handler fails.
TlsError == Selecting /\ Shutdown("TLSError")

\* server_connection loops: a new session, a new CoAPConnection.
Reconnect ==
  /\ status # "open"
  /\ status' = "open"
  /\ UNCHANGED <<sender, channels, delivering, next_ping, silence>>

\* Time passes while run() waits: nothing run() waits for is ready, or it is
\* suspended in the delivery of a response.
Tick ==
  /\ status = "open"
  /\ delivering \/ (NothingElseDue /\ next_ping > 0)
  /\ next_ping > -MaxLag
  /\ next_ping' = next_ping - 1
  /\ in_flight' = [id \in DOMAIN in_flight |-> [in_flight[id] EXCEPT
                     !.timeout_at = IF @ > 0 THEN @ - 1 ELSE 0]]
  /\ silence' = IF delivering THEN silence ELSE silence + 1
  /\ UNCHANGED <<ping_in_flight, send_queue, next_message_id, channels, status,
                 delivering>>

-----------------------------------------------------------------------------
Next ==
  \/ \E p \in Packets : Submit(p)
  \/ TakeResponse
  \/ \E id \in Ids, is_empty \in BOOLEAN : IncomingReply(id, is_empty)
  \/ \E is_empty \in BOOLEAN : IncomingMessage(is_empty)
  \/ DeliverResponse
  \/ OutgoingPacket
  \/ \E id \in Ids : RetransmitTimeout(id)
  \/ PingTimer
  \/ TlsError
  \/ Reconnect
  \/ Tick

\* The executor polls run() again when its channel has room (weak fairness).  The
\* other arms of the select, and time, are strongly fair: the peer and the clients
\* act at a finite rate, so the datagrams that are polled first cannot keep a
\* waiting packet or a due timer out for ever.  Nothing is assumed of the client
\* task, which may stop receiving for good.
Fairness ==
  /\ WF_vars(DeliverResponse)
  /\ SF_vars(OutgoingPacket)
  /\ SF_vars(\E id \in Ids : RetransmitTimeout(id))
  /\ SF_vars(PingTimer)
  /\ SF_vars(Tick)

\* Assumption about time: a message id does not come round again while the
\* packet that holds it is in flight (2^16 exchanges, against the 93 seconds
\* of a packet's retransmissions).
IdIsFree ==
  next_message_id' # next_message_id => next_message_id \notin DOMAIN in_flight

Spec == Init /\ [][Next /\ IdIsFree]_vars
FairSpec == Spec /\ Fairness

-----------------------------------------------------------------------------
(* Safety                                                                   *)

PingIds == {id \in DOMAIN in_flight : in_flight[id].is_ping}
RequestIds == DOMAIN in_flight \ PingIds

\* `ping_in_flight` says exactly whether a ping is outstanding, and there is
\* never more than one: it is set and cleared in four handlers, and a flag left
\* set would end the keep-alive of the connection for good (coap.rs 235-250,
\* 346-348, 355-366).
PingFlagExact ==
  /\ ping_in_flight <=> PingIds # {}
  /\ Cardinality(PingIds) <= 1

\* At most NSTART requests are outstanding, although a ping takes a slot away
\* from them and is itself sent without looking at the limit (coap.rs 264-273,
\* 309-316, 355-366).
Window ==
  /\ Cardinality(RequestIds) <= NStart
  /\ Cardinality(DOMAIN in_flight) <= NStart + 1

\* Nothing restarts the queue by itself: it moves only when a packet in flight
\* is settled.  So a waiting packet needs all NSTART slots in use (coap.rs
\* 264-273, 309-316); this is also what keeps a new packet from overtaking it.
QueueHasOpener ==
  send_queue # <<>> => Cardinality(DOMAIN in_flight) >= NStart

\* A peer that has fallen silent is noticed: one ping interval, one full
\* retransmission span for every request that may be ahead of the ping in id
\* order, and the span of the ping itself.
Span ==
  LET longest == CHOOSE t \in AckTimeouts : \A u \in AckTimeouts : u <= t
  IN  (2 ^ (MaxRetransmit + 1) - 1) * longest

SilenceBounded == silence <= PingInterval + (NStart + 1) * Span

-----------------------------------------------------------------------------
(* What the client tasks can rely on                                        *)

Outstanding == {in_flight[id].packet : id \in RequestIds}

ToClients == INSTANCE SendWindow
  WITH Limit <- NStart, waiting <- Pending, outstanding <- Outstanding

\* Requests are put on the wire for the first time in the order the clients
\* handed them over, whether they went through the queue or round it, and at
\* most NSTART are unanswered (coap.rs 205-316), provided every packet can be
\* serialised.
ImplementsSendWindow == ToClients!Spec

-----------------------------------------------------------------------------
(* Liveness                                                                 *)

\* run() waits for room in packets_recv.  Nothing bounds the wait: run_coap_client,
\* which is to make room, may itself wait for a reader of a response, with the
\* registry locked, or for room in packets_send (coap.rs 569-576).
HeldUp == delivering /\ packets_recv = RecvCapacity

\* Every packet the connection accepts is settled: acknowledged, reset, given
\* up, or lost with the connection.  No help of the peer is needed, and a
\* packet that cannot be serialised does not strand those queued behind it:
\* the reply to the next ping reopens the queue (or its absence ends the
\* connection).  The one exception is a client task that stops receiving for
\* good: the connection stops with it (coap.rs 253-255).
EveryPacketSettled ==
  \A p \in Packets : <>[]HeldUp \/ (InSystem(p) ~> ~InSystem(p))

\* Every ping is answered or ends the connection, with the same exception.
EveryPingSettled == <>[]HeldUp \/ (ping_in_flight ~> ~ping_in_flight)
=============================================================================
