------------------------ MODULE CoapConnectionProofs ------------------------
(***************************************************************************)
(* Proofs about CoapConnection for every window, id space, set of packets  *)
(* and choice of timeouts: types, the ping flag and the window, and, when  *)
(* every packet can be serialised, that the queue has an opener and that   *)
(* the module implements SendWindow.  Last, with the NSTART and the number *)
(* of retransmissions of the code, that a silent peer is noticed in time.  *)
(***************************************************************************)
EXTENDS CoapConnection, FiniteSetTheorems, SequenceTheorems, TLAPS

(***************************************************************************)
(* The table of packets in flight                                          *)
(***************************************************************************)

\* A table that respects the types of `in_flight`.
IsFlight(flight) ==
  DOMAIN flight \subseteq Ids /\ flight \in [DOMAIN flight -> InFlightPacket]

\* The ping entries of a table: PingIds is Pings(in_flight).
Pings(flight) == {id \in DOMAIN flight : flight[id].is_ping}

\* What a transmission does to a table: nothing if the packet could not be
\* serialised, or one entry at a free id.
Adds(flight, new, packet, is_ping) ==
  \E id \in Ids \ DOMAIN flight :
    /\ DOMAIN new = DOMAIN flight \cup {id}
    /\ \A i \in DOMAIN flight : new[i] = flight[i]
    /\ new[id].is_ping = is_ping
    /\ new[id].packet = packet

\* The empty table is well typed.
LEMMA NothingIsFlight == IsFlight(Nothing) /\ DOMAIN Nothing = {}
  BY DEF IsFlight, Nothing

\* Removing an entry keeps the table well typed and the other entries as
\* they are (in_flight.remove).
LEMMA RemoveType ==
  ASSUME NEW flight, IsFlight(flight), NEW id
  PROVE  /\ IsFlight(Remove(flight, id))
         /\ DOMAIN Remove(flight, id) = DOMAIN flight \ {id}
         /\ \A i \in DOMAIN flight \ {id} : Remove(flight, id)[i] = flight[i]
  BY DEF IsFlight, Remove

\* Inserting a well-typed entry keeps the table well typed and the other
\* entries as they are (in_flight.insert).
LEMMA InsertType ==
  ASSUME NEW flight, IsFlight(flight), NEW id \in Ids, NEW p \in InFlightPacket
  PROVE  /\ IsFlight(Insert(flight, id, p))
         /\ DOMAIN Insert(flight, id, p) = DOMAIN flight \cup {id}
         /\ \A i \in DOMAIN flight \ {id} : Insert(flight, id, p)[i] = flight[i]
         /\ Insert(flight, id, p)[id] = p
  BY DEF IsFlight, Insert

\* The tables are finite.
LEMMA FlightFinite ==
  ASSUME NEW flight, IsFlight(flight)
  PROVE  IsFiniteSet(DOMAIN flight) /\ Cardinality(DOMAIN flight) \in Nat
<1>1. IsFiniteSet(Ids)
  BY ConnectionAssumption, FS_Interval DEF Ids
<1>2. IsFiniteSet(DOMAIN flight)
  BY <1>1, FS_Subset DEF IsFlight
<1> QED
  BY <1>2, FS_CardinalityType

\* transmit_packet uses the next id up, and adds at most one entry.
LEMMA TransmitType ==
  ASSUME NEW flight, IsFlight(flight), next_message_id \in Ids,
         NEW packet \in Packets \cup {Ping}, NEW is_ping \in BOOLEAN,
         transmit_packet(flight, packet, is_ping)
  PROVE  /\ IsFlight(in_flight') /\ next_message_id' \in Ids
         /\ next_message_id \notin DOMAIN flight =>
              \/ in_flight' = flight /\ packet \in Unserialisable
              \/ Adds(flight, in_flight', packet, is_ping)
<1>1. next_message_id' \in Ids
  BY ConnectionAssumption DEF transmit_packet, Ids
<1>2. CASE packet \in Unserialisable
  BY <1>1, <1>2 DEF transmit_packet
<1>3. CASE packet \notin Unserialisable
  <2> DEFINE entry(t) == [packet |-> packet, timeout |-> t, timeout_at |-> t,
                          retransmission_count |-> 0, is_ping |-> is_ping]
  <2>1. PICK t \in AckTimeouts :
          in_flight' = Insert(flight, next_message_id, entry(t))
    BY <1>3 DEF transmit_packet
  <2>2. entry(t) \in InFlightPacket
    BY ConnectionAssumption DEF InFlightPacket
  <2>3. entry(t).is_ping = is_ping /\ entry(t).packet = packet
    OBVIOUS
  <2> HIDE DEF entry
  <2>4. /\ IsFlight(in_flight')
        /\ DOMAIN in_flight' = DOMAIN flight \cup {next_message_id}
        /\ \A i \in DOMAIN flight \ {next_message_id} : in_flight'[i] = flight[i]
        /\ in_flight'[next_message_id] = entry(t)
    BY <2>1, <2>2, InsertType
  <2> QED
    BY <1>1, <2>3, <2>4 DEF Adds
<1> QED
  BY <1>2, <1>3

\* try_drain_send_queue keeps the types.
LEMMA DrainType ==
  ASSUME NEW flight, IsFlight(flight), next_message_id \in Ids,
         send_queue \in Seq(Packets), try_drain_send_queue(flight)
  PROVE  IsFlight(in_flight') /\ next_message_id' \in Ids /\ send_queue' \in Seq(Packets)
<1>1. CASE Cardinality(DOMAIN flight) < NStart /\ send_queue # <<>>
  <2>1. Head(send_queue) \in Packets /\ Tail(send_queue) \in Seq(Packets)
    BY <1>1
  <2>2. transmit_packet(flight, Head(send_queue), FALSE) /\ send_queue' = Tail(send_queue)
    BY <1>1 DEF try_drain_send_queue
  <2> QED
    BY <2>1, <2>2, TransmitType
<1>2. CASE ~(Cardinality(DOMAIN flight) < NStart /\ send_queue # <<>>)
  BY <1>2 DEF try_drain_send_queue
<1> QED
  BY <1>1, <1>2

(***************************************************************************)
(* Type correctness                                                        *)
(***************************************************************************)

\* The types of the variables that belong to the sender, and of the others.
SenderOK ==
  /\ IsFlight(in_flight)
  /\ ping_in_flight \in BOOLEAN
  /\ send_queue \in Seq(Packets)
  /\ next_message_id \in Ids

ChannelsOK ==
  /\ packets_send \in Seq(Packets) /\ Len(packets_send) <= SendCapacity
  /\ packets_recv \in 0 .. RecvCapacity

LoopOK ==
  /\ status \in {"open", "TLSError", "PingTimeout"}
  /\ delivering \in BOOLEAN
  /\ next_ping \in Int
  /\ silence \in Nat

LEMMA TypeParts == TypeOK <=> SenderOK /\ ChannelsOK /\ LoopOK
  BY DEF TypeOK, SenderOK, ChannelsOK, LoopOK, IsFlight

\* What a new connection starts with is well typed.
LEMMA FreshType == <<>> \in Seq(Packets) /\ Len(<<>>) = 0 /\ 0 \in Ids
                   /\ PingInterval \in Int /\ SendCapacity \in Nat /\ RecvCapacity \in Nat
<1>1. 0 \in Ids
  BY ConnectionAssumption DEF Ids
<1>2. <<>> \in Seq(Packets)
  OBVIOUS
<1>3. Len(<<>>) = 0
  OBVIOUS
<1> QED
  BY <1>1, <1>2, <1>3, ConnectionAssumption

LEMMA InitType == Init => TypeOK
<1> SUFFICES ASSUME Init PROVE SenderOK /\ ChannelsOK /\ LoopOK
  BY TypeParts
<1>1. SenderOK
  BY NothingIsFlight, FreshType DEF Init, SenderOK
<1>2. ChannelsOK
  BY FreshType DEF Init, ChannelsOK
<1>3. LoopOK
  BY FreshType DEF Init, LoopOK
<1> QED
  BY <1>1, <1>2, <1>3

\* A failed connection leaves what the next one starts with.
LEMMA ShutdownType ==
  ASSUME NEW error \in {"TLSError", "PingTimeout"}, Shutdown(error)
  PROVE  (SenderOK /\ ChannelsOK /\ LoopOK)'
<1>1. SenderOK'
  <2>1. IsFlight(Nothing)' /\ in_flight' = Nothing
    BY NothingIsFlight DEF Shutdown, IsFlight, Nothing, Ids, InFlightPacket
  <2> QED
    BY <2>1, FreshType DEF Shutdown, SenderOK, IsFlight
<1>2. ChannelsOK'
  BY FreshType DEF Shutdown, ChannelsOK
<1>3. LoopOK'
  BY FreshType DEF Shutdown, LoopOK
<1> QED
  BY <1>1, <1>2, <1>3

LEMMA NextType == TypeOK /\ [Next]_vars => TypeOK'
<1> SUFFICES ASSUME SenderOK, ChannelsOK, LoopOK, [Next]_vars
             PROVE  TypeOK'
  BY TypeParts
<1>0. (SenderOK /\ ChannelsOK /\ LoopOK)' => TypeOK'
  BY DEF TypeOK, SenderOK, ChannelsOK, LoopOK, IsFlight
<1>1. ASSUME NEW p \in Packets, Submit(p) PROVE TypeOK'
  <2>1. ChannelsOK'
    BY <1>1, ConnectionAssumption DEF ChannelsOK, Submit
  <2>2. SenderOK' /\ LoopOK'
    BY <1>1 DEF SenderOK, LoopOK, Submit, sender, loop, IsFlight
  <2> QED
    BY <2>1, <2>2, <1>0
<1>2. CASE TakeResponse
  <2>1. ChannelsOK'
    BY <1>2, ConnectionAssumption DEF ChannelsOK, TakeResponse
  <2>2. SenderOK' /\ LoopOK'
    BY <1>2 DEF SenderOK, LoopOK, TakeResponse, sender, loop, IsFlight
  <2> QED
    BY <2>1, <2>2, <1>0
<1>3. ASSUME NEW id \in Ids, NEW is_empty \in BOOLEAN, IncomingReply(id, is_empty)
      PROVE  TypeOK'
  <2>1. SenderOK'
    <3>1. CASE id \in DOMAIN in_flight
      <4>1. IsFlight(Remove(in_flight, id))
        BY RemoveType DEF SenderOK
      <4>2. try_drain_send_queue(Remove(in_flight, id)) /\ ping_in_flight' \in BOOLEAN
        BY <1>3, <3>1 DEF IncomingReply, settle, SenderOK
      <4> QED
        BY <4>1, <4>2, DrainType DEF SenderOK
    <3>2. CASE id \notin DOMAIN in_flight
      BY <1>3, <3>2 DEF IncomingReply, settle, SenderOK, sender, IsFlight
    <3> QED
      BY <3>1, <3>2
  <2>2. ChannelsOK' /\ LoopOK'
    BY <1>3 DEF ChannelsOK, LoopOK, IncomingReply, channels
  <2> QED
    BY <2>1, <2>2, <1>0
<1>4. ASSUME NEW is_empty \in BOOLEAN, IncomingMessage(is_empty) PROVE TypeOK'
  <2>1. SenderOK' /\ ChannelsOK' /\ LoopOK'
    BY <1>4 DEF SenderOK, ChannelsOK, LoopOK, IncomingMessage, sender, channels, IsFlight
  <2> QED
    BY <2>1, <1>0
<1>5. CASE DeliverResponse
  <2>1. ChannelsOK'
    BY <1>5, ConnectionAssumption DEF ChannelsOK, DeliverResponse
  <2>2. SenderOK' /\ LoopOK'
    BY <1>5 DEF SenderOK, LoopOK, DeliverResponse, sender, IsFlight
  <2> QED
    BY <2>1, <2>2, <1>0
<1>6. CASE OutgoingPacket
  <2>1. Head(packets_send) \in Packets /\ Tail(packets_send) \in Seq(Packets)
        /\ Len(Tail(packets_send)) <= SendCapacity
    BY <1>6, ConnectionAssumption DEF OutgoingPacket, ChannelsOK
  <2>2. ChannelsOK' /\ LoopOK'
    BY <1>6, <2>1 DEF ChannelsOK, LoopOK, OutgoingPacket, loop
  <2>3. SenderOK'
    <3>1. CASE Cardinality(DOMAIN in_flight) >= NStart
      <4>1. /\ send_queue' = Append(send_queue, Head(packets_send))
            /\ UNCHANGED <<in_flight, next_message_id, ping_in_flight>>
        BY <1>6, <3>1 DEF OutgoingPacket, handle_outgoing_packet
      <4>2. send_queue' \in Seq(Packets)
        BY <2>1, <4>1 DEF SenderOK
      <4> QED
        BY <4>1, <4>2 DEF SenderOK, IsFlight
    <3>2. CASE ~(Cardinality(DOMAIN in_flight) >= NStart)
      <4>1. transmit_packet(in_flight, Head(packets_send), FALSE)
            /\ UNCHANGED <<send_queue, ping_in_flight>>
        BY <1>6, <3>2 DEF OutgoingPacket, handle_outgoing_packet
      <4> QED
        BY <2>1, <4>1, TransmitType DEF SenderOK
    <3> QED
      BY <3>1, <3>2
  <2> QED
    BY <2>2, <2>3, <1>0
<1>7. ASSUME NEW id \in Ids, RetransmitTimeout(id) PROVE TypeOK'
  <2>0. id \in DOMAIN in_flight
    BY <1>7 DEF RetransmitTimeout, IsLowest
  <2>1. CASE retransmit(id)
    <3>1. IsFlight(in_flight')
      <4> DEFINE e == in_flight[id]
      <4>1. e \in InFlightPacket
        BY <2>0 DEF SenderOK, IsFlight
      <4>2. /\ e.retransmission_count + 1 \in Nat /\ 2 * e.timeout \in Nat
            /\ e.packet \in Packets \cup {Ping} /\ e.is_ping \in BOOLEAN
        BY <4>1 DEF InFlightPacket
      <4> DEFINE new == [e EXCEPT !.retransmission_count = @ + 1,
                                  !.timeout = 2 * @, !.timeout_at = 2 * e.timeout]
      <4>3. new \in InFlightPacket
        BY <4>1, <4>2 DEF InFlightPacket
      <4>4. in_flight' = [in_flight EXCEPT ![id] = new]
        BY <2>0, <2>1 DEF retransmit, SenderOK, IsFlight
      <4> HIDE DEF new
      <4> QED
        BY <2>0, <4>3, <4>4 DEF SenderOK, IsFlight
    <3>2. SenderOK' /\ ChannelsOK' /\ LoopOK'
      BY <2>1, <3>1 DEF retransmit, SenderOK, ChannelsOK, LoopOK, channels, loop
    <3> QED
      BY <3>2, <1>0
  <2>2. CASE ping_timeout(id)
    BY <2>2, ShutdownType, <1>0 DEF ping_timeout
  <2>3. CASE give_up(id)
    <3>1. IsFlight(Remove(in_flight, id))
      BY RemoveType DEF SenderOK
    <3>2. try_drain_send_queue(Remove(in_flight, id)) /\ UNCHANGED ping_in_flight
      BY <2>3 DEF give_up
    <3>3. SenderOK'
      BY <3>1, <3>2, DrainType DEF SenderOK
    <3>4. ChannelsOK' /\ LoopOK'
      BY <2>3 DEF give_up, ChannelsOK, LoopOK, channels, loop
    <3> QED
      BY <3>3, <3>4, <1>0
  <2> QED
    BY <1>7, <2>1, <2>2, <2>3 DEF RetransmitTimeout
<1>8. CASE PingTimer
  <2>1. SenderOK'
    <3>1. CASE ping_in_flight
      BY <1>8, <3>1 DEF PingTimer, handle_ping, SenderOK, IsFlight
    <3>2. CASE ~ping_in_flight
      <4>1. transmit_packet(in_flight, Ping, TRUE) /\ ping_in_flight' = TRUE
            /\ UNCHANGED send_queue
        BY <1>8, <3>2 DEF PingTimer, handle_ping
      <4> QED
        BY <4>1, TransmitType DEF SenderOK
    <3> QED
      BY <3>1, <3>2
  <2>2. ChannelsOK' /\ LoopOK'
    BY <1>8, ConnectionAssumption DEF PingTimer, ChannelsOK, LoopOK, channels
  <2> QED
    BY <2>1, <2>2, <1>0
<1>9. CASE TlsError
  BY <1>9, ShutdownType, <1>0 DEF TlsError
<1>10. CASE Reconnect
  <2>1. SenderOK' /\ ChannelsOK' /\ LoopOK'
    BY <1>10 DEF SenderOK, ChannelsOK, LoopOK, Reconnect, sender, channels, IsFlight
  <2> QED
    BY <2>1, <1>0
<1>11. CASE Tick
  <2>1. IsFlight(in_flight')
    <3> DEFINE passed(e) == [e EXCEPT !.timeout_at = IF @ > 0 THEN @ - 1 ELSE 0]
    <3>1. \A e \in InFlightPacket : passed(e) \in InFlightPacket
      BY DEF InFlightPacket
    <3>2. in_flight' = [id \in DOMAIN in_flight |-> passed(in_flight[id])]
      BY <1>11 DEF Tick
    <3> HIDE DEF passed
    <3> QED
      BY <3>1, <3>2 DEF SenderOK, IsFlight
  <2>2. SenderOK' /\ ChannelsOK'
    BY <1>11, <2>1 DEF Tick, SenderOK, ChannelsOK, channels
  <2>3. LoopOK'
    BY <1>11 DEF Tick, LoopOK
  <2> QED
    BY <2>2, <2>3, <1>0
<1>12. CASE UNCHANGED vars
  <2>1. SenderOK' /\ ChannelsOK' /\ LoopOK'
    BY <1>12 DEF SenderOK, ChannelsOK, LoopOK, vars, sender, channels, loop, IsFlight
  <2> QED
    BY <2>1, <1>0
<1> QED
  BY <1>1, <1>2, <1>3, <1>4, <1>5, <1>6, <1>7, <1>8, <1>9, <1>10, <1>11, <1>12
     DEF Next

\* Every variable keeps its type: message ids wrap inside the id space, and the
\* channels of the connection never hold more than their capacity
\* (coap.rs 93-115, 280-281).
THEOREM TypeCorrect == Spec => []TypeOK
<1>1. Init => TypeOK
  BY InitType
<1>2. TypeOK /\ [Next /\ IdIsFree]_vars => TypeOK'
  BY NextType
<1> QED
  BY <1>1, <1>2, PTL DEF Spec

(***************************************************************************)
(* The keep-alive flag and the window                                      *)
(***************************************************************************)

Requests(flight) == DOMAIN flight \ Pings(flight)

\* PingFlagExact and the first half of Window, of any table and flag.
OnePing(flight, flag) ==
  /\ flag <=> Pings(flight) # {}
  /\ \A i, j \in Pings(flight) : i = j

InWindow(flight) == Cardinality(Requests(flight)) <= NStart

\* The entries of a table are finitely many, so are its pings and requests.
LEMMA PartsFinite ==
  ASSUME NEW flight, IsFlight(flight)
  PROVE  /\ IsFiniteSet(DOMAIN flight) /\ Cardinality(DOMAIN flight) \in Nat
         /\ IsFiniteSet(Pings(flight)) /\ Cardinality(Pings(flight)) \in Nat
         /\ IsFiniteSet(Requests(flight)) /\ Cardinality(Requests(flight)) \in Nat
         /\ Cardinality(Requests(flight)) <= Cardinality(DOMAIN flight)
         /\ Cardinality(DOMAIN flight) = Cardinality(Requests(flight)) + Cardinality(Pings(flight))
<1>1. IsFiniteSet(DOMAIN flight) /\ Cardinality(DOMAIN flight) \in Nat
  BY FlightFinite
<1>2. /\ Pings(flight) \subseteq DOMAIN flight
      /\ Requests(flight) \subseteq DOMAIN flight
      /\ Requests(flight) \cup Pings(flight) = DOMAIN flight
      /\ Requests(flight) \cap Pings(flight) = {}
  BY DEF Pings, Requests
<1>3. IsFiniteSet(Pings(flight)) /\ Cardinality(Pings(flight)) \in Nat
  BY <1>1, <1>2, FS_Subset, FS_CardinalityType
<1>4. /\ IsFiniteSet(Requests(flight)) /\ Cardinality(Requests(flight)) \in Nat
      /\ Cardinality(Requests(flight)) <= Cardinality(DOMAIN flight)
  BY <1>1, <1>2, FS_Subset, FS_CardinalityType
<1>5. Cardinality(Requests(flight) \cup Pings(flight))
        = Cardinality(Requests(flight)) + Cardinality(Pings(flight))
          - Cardinality(Requests(flight) \cap Pings(flight))
  BY <1>3, <1>4, FS_Union
<1>6. Cardinality(Requests(flight) \cap Pings(flight)) = 0
  BY <1>2, FS_EmptySet
<1> QED
  BY <1>1, <1>2, <1>3, <1>4, <1>5, <1>6

\* A set with at most one element has cardinality at most one, and conversely.
LEMMA AtMostOne ==
  ASSUME NEW S, IsFiniteSet(S)
  PROVE  Cardinality(S) <= 1 <=> \A x, y \in S : x = y
<1>1. Cardinality(S) \in Nat
  BY FS_CardinalityType
<1>2. ASSUME \A x, y \in S : x = y PROVE Cardinality(S) <= 1
  <2>1. CASE S = {}
    BY <2>1, FS_EmptySet
  <2>2. CASE S # {}
    <3>1. PICK x \in S : S = {x}
      BY <1>2, <2>2
    <3> QED
      BY <3>1, FS_Singleton
  <2> QED
    BY <2>1, <2>2
<1>3. ASSUME Cardinality(S) <= 1, NEW x \in S, NEW y \in S PROVE x = y
  <2>1. Cardinality(S) # 0
    BY FS_EmptySet, <1>3
  <2>2. Cardinality(S) = 1
    BY <1>1, <1>3, <2>1
  <2>3. PICK z : S = {z}
    BY <2>2, FS_Singleton
  <2> QED
    BY <2>3
<1> QED
  BY <1>2, <1>3

\* The two invariants in terms of the table.
LEMMA InvariantParts ==
  ASSUME IsFlight(in_flight), ping_in_flight \in BOOLEAN
  PROVE  PingFlagExact /\ Window <=> OnePing(in_flight, ping_in_flight) /\ InWindow(in_flight)
<1>1. PingIds = Pings(in_flight) /\ RequestIds = Requests(in_flight)
  BY DEF PingIds, Pings, RequestIds, Requests
<1>2. Cardinality(Pings(in_flight)) <= 1 <=> \A i, j \in Pings(in_flight) : i = j
  BY PartsFinite, AtMostOne
<1>3. PingFlagExact <=> OnePing(in_flight, ping_in_flight)
  BY <1>1, <1>2 DEF PingFlagExact, OnePing
<1>4. OnePing(in_flight, ping_in_flight) => Cardinality(Pings(in_flight)) <= 1
  BY <1>2 DEF OnePing
<1>5. InWindow(in_flight) /\ Cardinality(Pings(in_flight)) <= 1
        => Cardinality(DOMAIN in_flight) <= NStart + 1
  BY PartsFinite, ConnectionAssumption DEF InWindow
<1>6. Window <=> InWindow(in_flight) /\ Cardinality(DOMAIN in_flight) <= NStart + 1
  BY <1>1 DEF Window, InWindow
<1> QED
  BY <1>3, <1>4, <1>5, <1>6

\* Settling an entry: the flag has to be cleared with the ping.
LEMMA RemoveKeeps ==
  ASSUME NEW flight, IsFlight(flight), NEW id \in DOMAIN flight,
         NEW flag \in BOOLEAN, OnePing(flight, flag), InWindow(flight)
  PROVE  /\ OnePing(Remove(flight, id), flag /\ ~flight[id].is_ping)
         /\ InWindow(Remove(flight, id))
<1> DEFINE rest == Remove(flight, id)
<1>1. /\ IsFlight(rest) /\ DOMAIN rest = DOMAIN flight \ {id}
      /\ \A i \in DOMAIN flight \ {id} : rest[i] = flight[i]
  BY RemoveType
<1> HIDE DEF rest
<1>2. Pings(rest) = Pings(flight) \ {id}
  BY <1>1 DEF Pings
<1>3. OnePing(rest, flag /\ ~flight[id].is_ping)
  <2>1. CASE flight[id].is_ping
    BY <1>2, <2>1 DEF OnePing, Pings
  <2>2. CASE ~flight[id].is_ping
    <3>1. id \notin Pings(flight)
      BY <2>2 DEF Pings
    <3> QED
      BY <1>2, <2>2, <3>1 DEF OnePing
  <2> QED
    BY <2>1, <2>2
<1>4. InWindow(rest)
  <2>1. Requests(rest) \subseteq Requests(flight)
    BY <1>1, <1>2 DEF Requests
  <2>2. Cardinality(Requests(rest)) <= Cardinality(Requests(flight))
    BY <2>1, PartsFinite, FS_Subset
  <2> QED
    BY <1>1, <2>2, PartsFinite, ConnectionAssumption DEF InWindow
<1> QED
  BY <1>3, <1>4 DEF rest

\* A request that finds a free slot keeps the window.
LEMMA AddRequestKeeps ==
  ASSUME NEW flight, IsFlight(flight), NEW new, IsFlight(new), NEW packet,
         Adds(flight, new, packet, FALSE),
         NEW flag \in BOOLEAN, OnePing(flight, flag),
         Cardinality(DOMAIN flight) < NStart
  PROVE  OnePing(new, flag) /\ InWindow(new)
<1>1. PICK id \in Ids \ DOMAIN flight :
        /\ DOMAIN new = DOMAIN flight \cup {id}
        /\ \A i \in DOMAIN flight : new[i] = flight[i]
        /\ new[id].is_ping = FALSE
  BY DEF Adds
<1>2. Pings(new) = Pings(flight)
  BY <1>1 DEF Pings
<1>3. Cardinality(DOMAIN new) = Cardinality(DOMAIN flight) + 1
  BY <1>1, FS_AddElement, PartsFinite
<1>4. InWindow(new)
  BY <1>3, PartsFinite, ConnectionAssumption DEF InWindow
<1> QED
  BY <1>2, <1>4 DEF OnePing

\* A ping is sent only when none is outstanding, and takes no request's place.
LEMMA AddPingKeeps ==
  ASSUME NEW flight, IsFlight(flight), NEW new, IsFlight(new), NEW packet,
         Adds(flight, new, packet, TRUE),
         OnePing(flight, FALSE), InWindow(flight)
  PROVE  OnePing(new, TRUE) /\ InWindow(new)
<1>1. PICK id \in Ids \ DOMAIN flight :
        /\ DOMAIN new = DOMAIN flight \cup {id}
        /\ \A i \in DOMAIN flight : new[i] = flight[i]
        /\ new[id].is_ping = TRUE
  BY DEF Adds
<1>2. Pings(flight) = {}
  BY DEF OnePing
<1>3. Pings(new) = {id}
  BY <1>1, <1>2 DEF Pings
<1>4. Requests(new) = Requests(flight)
  BY <1>1, <1>2, <1>3 DEF Requests
<1> QED
  BY <1>3, <1>4 DEF OnePing, InWindow

\* A transmission always moves on to another id.
LEMMA NextIdDiffers ==
  ASSUME next_message_id \in Ids
  PROVE  (next_message_id + 1) % IdSpace # next_message_id
<1>1. next_message_id \in Nat /\ next_message_id + 1 <= IdSpace /\ IdSpace \in Nat /\ IdSpace > 1
  BY ConnectionAssumption DEF Ids
<1>2. CASE next_message_id + 1 = IdSpace
  BY <1>1, <1>2
<1>3. CASE next_message_id + 1 < IdSpace
  BY <1>1, <1>3
<1> QED
  BY <1>1, <1>2, <1>3

\* transmit_packet under IdIsFree.
LEMMA TransmitAdds ==
  ASSUME NEW flight, IsFlight(flight), next_message_id \in Ids,
         DOMAIN flight \subseteq DOMAIN in_flight, IdIsFree,
         NEW packet \in Packets \cup {Ping}, NEW is_ping \in BOOLEAN,
         transmit_packet(flight, packet, is_ping)
  PROVE  /\ IsFlight(in_flight')
         /\ \/ in_flight' = flight /\ packet \in Unserialisable
            \/ Adds(flight, in_flight', packet, is_ping)
<1>1. next_message_id' # next_message_id
  BY NextIdDiffers DEF transmit_packet
<1>2. next_message_id \notin DOMAIN flight
  BY <1>1 DEF IdIsFree
<1> QED
  BY <1>2, TransmitType

\* try_drain_send_queue keeps the flag and the window.
LEMMA DrainKeeps ==
  ASSUME NEW flight, IsFlight(flight), next_message_id \in Ids,
         send_queue \in Seq(Packets),
         DOMAIN flight \subseteq DOMAIN in_flight, IdIsFree,
         NEW flag \in BOOLEAN, OnePing(flight, flag), InWindow(flight),
         try_drain_send_queue(flight)
  PROVE  OnePing(in_flight', flag) /\ InWindow(in_flight')
<1>1. CASE Cardinality(DOMAIN flight) < NStart /\ send_queue # <<>>
  <2>1. Head(send_queue) \in Packets
    BY <1>1
  <2>2. transmit_packet(flight, Head(send_queue), FALSE)
    BY <1>1 DEF try_drain_send_queue
  <2>3. /\ IsFlight(in_flight')
        /\ \/ in_flight' = flight
           \/ Adds(flight, in_flight', Head(send_queue), FALSE)
    BY <2>1, <2>2, TransmitAdds
  <2> QED
    BY <1>1, <2>3, AddRequestKeeps
<1>2. CASE ~(Cardinality(DOMAIN flight) < NStart /\ send_queue # <<>>)
  BY <1>2 DEF try_drain_send_queue
<1> QED
  BY <1>1, <1>2

\* OnePing and InWindow only look at the ids and at the is_ping of each entry.
LEMMA SamePings ==
  ASSUME NEW flight, NEW new, NEW flag, OnePing(flight, flag), InWindow(flight),
         DOMAIN new = DOMAIN flight,
         \A id \in DOMAIN flight : new[id].is_ping = flight[id].is_ping
  PROVE  OnePing(new, flag) /\ InWindow(new)
<1>1. Pings(new) = Pings(flight)
  BY DEF Pings
<1> QED
  BY <1>1 DEF OnePing, InWindow, Requests

\* A connection starts, and is started again, with nothing in flight.
LEMMA NothingKeeps == OnePing(Nothing, FALSE) /\ InWindow(Nothing)
<1>1. Pings(Nothing) = {} /\ Requests(Nothing) = {}
  BY NothingIsFlight DEF Pings, Requests
<1>2. Cardinality({}) = 0
  BY FS_EmptySet
<1> QED
  BY <1>1, <1>2, ConnectionAssumption DEF OnePing, InWindow

\* The step of the induction.
LEMMA NextWindow ==
  ASSUME TypeOK, OnePing(in_flight, ping_in_flight), InWindow(in_flight),
         [Next /\ IdIsFree]_vars
  PROVE  OnePing(in_flight, ping_in_flight)' /\ InWindow(in_flight)'
<1>0. IsFlight(in_flight) /\ ping_in_flight \in BOOLEAN
      /\ send_queue \in Seq(Packets) /\ next_message_id \in Ids
      /\ packets_send \in Seq(Packets)
  BY DEF TypeOK, IsFlight
<1>1. SUFFICES OnePing(in_flight', ping_in_flight') /\ InWindow(in_flight')
  BY DEF OnePing, InWindow, Pings, Requests
<1>2. CASE UNCHANGED <<in_flight, ping_in_flight>>
  BY <1>2
<1>3. ASSUME NEW id \in Ids, NEW is_empty \in BOOLEAN, IncomingReply(id, is_empty), IdIsFree
      PROVE  OnePing(in_flight', ping_in_flight') /\ InWindow(in_flight')
  <2>1. CASE id \in DOMAIN in_flight
    <3>1. /\ IsFlight(Remove(in_flight, id))
          /\ DOMAIN Remove(in_flight, id) \subseteq DOMAIN in_flight
      BY <1>0, RemoveType
    <3>2. /\ try_drain_send_queue(Remove(in_flight, id))
          /\ ping_in_flight' = (ping_in_flight /\ ~in_flight[id].is_ping)
      BY <1>3, <2>1 DEF IncomingReply, settle
    <3>3. /\ OnePing(Remove(in_flight, id), ping_in_flight')
          /\ InWindow(Remove(in_flight, id))
      BY <1>0, <2>1, <3>2, RemoveKeeps
    <3>4. ping_in_flight' \in BOOLEAN
      BY <3>2, <1>0
    <3> QED
      BY <1>0, <1>3, <3>1, <3>2, <3>3, <3>4, DrainKeeps
  <2>2. CASE id \notin DOMAIN in_flight
    BY <1>2, <1>3, <2>2 DEF IncomingReply, settle, sender
  <2> QED
    BY <2>1, <2>2
<1>4. ASSUME OutgoingPacket, IdIsFree
      PROVE  OnePing(in_flight', ping_in_flight') /\ InWindow(in_flight')
  <2>1. CASE Cardinality(DOMAIN in_flight) >= NStart
    BY <1>2, <1>4, <2>1 DEF OutgoingPacket, handle_outgoing_packet
  <2>2. CASE ~(Cardinality(DOMAIN in_flight) >= NStart)
    <3>0. Head(packets_send) \in Packets
      BY <1>0, <1>4 DEF OutgoingPacket
    <3>1. transmit_packet(in_flight, Head(packets_send), FALSE)
          /\ ping_in_flight' = ping_in_flight
      BY <1>4, <2>2 DEF OutgoingPacket, handle_outgoing_packet
    <3>2. /\ IsFlight(in_flight')
          /\ \/ in_flight' = in_flight
             \/ Adds(in_flight, in_flight', Head(packets_send), FALSE)
      BY <1>0, <1>4, <3>0, <3>1, TransmitAdds
    <3>3. Cardinality(DOMAIN in_flight) < NStart
      BY <1>0, <2>2, PartsFinite, ConnectionAssumption
    <3> QED
      BY <1>0, <3>1, <3>2, <3>3, AddRequestKeeps
  <2> QED
    BY <2>1, <2>2
<1>5. ASSUME NEW id \in Ids, RetransmitTimeout(id), IdIsFree
      PROVE  OnePing(in_flight', ping_in_flight') /\ InWindow(in_flight')
  <2>0. id \in DOMAIN in_flight
    BY <1>5 DEF RetransmitTimeout, IsLowest
  <2>1. CASE retransmit(id)
    <3>1. /\ DOMAIN in_flight' = DOMAIN in_flight
          /\ \A i \in DOMAIN in_flight : in_flight'[i].is_ping = in_flight[i].is_ping
      BY <1>0, <2>0, <2>1 DEF retransmit, IsFlight, InFlightPacket
    <3> QED
      BY <2>1, <3>1, SamePings DEF retransmit
  <2>2. CASE ping_timeout(id)
    BY <2>2, NothingKeeps DEF ping_timeout, Shutdown
  <2>3. CASE give_up(id)
    <3>1. /\ IsFlight(Remove(in_flight, id))
          /\ DOMAIN Remove(in_flight, id) \subseteq DOMAIN in_flight
      BY <1>0, RemoveType
    <3>2. /\ try_drain_send_queue(Remove(in_flight, id))
          /\ ping_in_flight' = ping_in_flight /\ ~in_flight[id].is_ping
      BY <2>3 DEF give_up
    <3>3. (ping_in_flight /\ ~in_flight[id].is_ping) = ping_in_flight
      BY <1>0, <3>2
    <3>4. /\ OnePing(Remove(in_flight, id), ping_in_flight)
          /\ InWindow(Remove(in_flight, id))
      BY <1>0, <2>0, <3>3, RemoveKeeps
    <3> QED
      BY <1>0, <1>5, <3>1, <3>2, <3>4, DrainKeeps
  <2> QED
    BY <1>5, <2>1, <2>2, <2>3 DEF RetransmitTimeout
<1>6. ASSUME PingTimer, IdIsFree
      PROVE  OnePing(in_flight', ping_in_flight') /\ InWindow(in_flight')
  <2>1. CASE ping_in_flight
    BY <1>2, <1>6, <2>1 DEF PingTimer, handle_ping
  <2>2. CASE ~ping_in_flight
    <3>1. transmit_packet(in_flight, Ping, TRUE) /\ ping_in_flight' = TRUE
      BY <1>6, <2>2 DEF PingTimer, handle_ping
    <3>2. /\ IsFlight(in_flight')
          /\ Adds(in_flight, in_flight', Ping, TRUE)
      BY <1>0, <1>6, <3>1, TransmitAdds, ConnectionAssumption
    <3>3. OnePing(in_flight, FALSE)
      BY <2>2 DEF OnePing
    <3> QED
      BY <1>0, <3>1, <3>2, <3>3, AddPingKeeps
  <2> QED
    BY <2>1, <2>2
<1>7. CASE TlsError
  BY <1>7, NothingKeeps DEF TlsError, Shutdown
<1>8. CASE Tick
  <2>1. /\ DOMAIN in_flight' = DOMAIN in_flight
        /\ \A i \in DOMAIN in_flight : in_flight'[i].is_ping = in_flight[i].is_ping
    BY <1>0, <1>8 DEF Tick, IsFlight, InFlightPacket
  <2> QED
    BY <1>8, <2>1, SamePings DEF Tick
<1>9. CASE \/ \E p \in Packets : Submit(p)
           \/ TakeResponse \/ DeliverResponse \/ Reconnect
           \/ \E is_empty \in BOOLEAN : IncomingMessage(is_empty)
           \/ UNCHANGED vars
  BY <1>2, <1>9 DEF Submit, TakeResponse, DeliverResponse, Reconnect, IncomingMessage,
                    sender, vars
<1> QED
  BY <1>3, <1>4, <1>5, <1>6, <1>7, <1>8, <1>9 DEF Next

\* The inductive invariant.
WindowInvariant == TypeOK /\ OnePing(in_flight, ping_in_flight) /\ InWindow(in_flight)

LEMMA WindowInductive == Spec => []WindowInvariant
<1>1. Init => WindowInvariant
  BY InitType, NothingKeeps DEF WindowInvariant, Init
<1>2. WindowInvariant /\ [Next /\ IdIsFree]_vars => WindowInvariant'
  BY NextType, NextWindow DEF WindowInvariant
<1> QED
  BY <1>1, <1>2, PTL DEF Spec

LEMMA WindowParts == WindowInvariant => PingFlagExact /\ Window
  BY InvariantParts DEF WindowInvariant, TypeOK, IsFlight

\* ping_in_flight is set exactly while a ping is outstanding, and there is
\* never a second one, for every window and id space (coap.rs 235-250,
\* 346-348, 355-366).
THEOREM PingFlagIsExact == Spec => []PingFlagExact
  BY WindowInductive, WindowParts, PTL

\* At most NSTART requests and one ping are in flight (coap.rs 264-273, 309-316,
\* 355-366).
THEOREM WindowHolds == Spec => []Window
  BY WindowInductive, WindowParts, PTL

(***************************************************************************)
(* Sequences                                                               *)
(***************************************************************************)

Elements(s) == {s[i] : i \in DOMAIN s}

NoRepeats(s) == \A i, j \in DOMAIN s : s[i] = s[j] => i = j

\* The queue and the channel behave like one sequence: taking the head of a
\* queue that is not empty is taking the head of both.
LEMMA HeadOfConcat ==
  ASSUME NEW S, NEW q \in Seq(S), NEW s \in Seq(S), q # <<>>
  PROVE  /\ q \o s \in Seq(S) /\ q \o s # <<>>
         /\ Head(q \o s) = Head(q)
         /\ Tail(q \o s) = Tail(q) \o s
<1>1. Len(q) \in Nat \ {0} /\ Len(s) \in Nat
  BY EmptySeq, LenProperties
<1>2. /\ q \o s \in Seq(S) /\ Len(q \o s) = Len(q) + Len(s)
      /\ \A i \in 1 .. Len(q) + Len(s) :
           (q \o s)[i] = IF i <= Len(q) THEN q[i] ELSE s[i - Len(q)]
  BY ConcatProperties
<1>3. q \o s # <<>>
  BY <1>1, <1>2, EmptySeq
<1>4. Head(q \o s) = Head(q)
  <2>1. Head(q \o s) = (q \o s)[1] /\ Head(q) = q[1]
    BY <1>2, <1>3
  <2> QED
    BY <1>1, <1>2, <2>1
<1>5. /\ Tail(q) \in Seq(S) /\ Len(Tail(q)) = Len(q) - 1
      /\ \A i \in 1 .. Len(Tail(q)) : Tail(q)[i] = q[i + 1]
  BY HeadTailProperties
<1>6. /\ Tail(q \o s) \in Seq(S) /\ Len(Tail(q \o s)) = Len(q) + Len(s) - 1
      /\ \A i \in 1 .. Len(Tail(q \o s)) : Tail(q \o s)[i] = (q \o s)[i + 1]
  BY <1>2, <1>3, HeadTailProperties
<1>7. /\ Tail(q) \o s \in Seq(S) /\ Len(Tail(q) \o s) = Len(q) - 1 + Len(s)
      /\ \A i \in 1 .. Len(q) - 1 + Len(s) :
           (Tail(q) \o s)[i] = IF i <= Len(q) - 1 THEN Tail(q)[i] ELSE s[i - (Len(q) - 1)]
  BY <1>5, ConcatProperties
<1>8. \A i \in 1 .. Len(Tail(q \o s)) : Tail(q \o s)[i] = (Tail(q) \o s)[i]
  <2> SUFFICES ASSUME NEW i \in 1 .. Len(q) + Len(s) - 1
               PROVE  Tail(q \o s)[i] = (Tail(q) \o s)[i]
    BY <1>6
  <2>1. Tail(q \o s)[i] = IF i + 1 <= Len(q) THEN q[i + 1] ELSE s[i + 1 - Len(q)]
    BY <1>1, <1>2, <1>6
  <2>2. CASE i + 1 <= Len(q)
    BY <1>1, <1>5, <1>7, <2>1, <2>2
  <2>3. CASE ~(i + 1 <= Len(q))
    <3>1. i - (Len(q) - 1) = i + 1 - Len(q)
      BY <1>1
    <3>2. (Tail(q) \o s)[i] = s[i - (Len(q) - 1)]
      BY <1>1, <1>7, <2>3
    <3> QED
      BY <2>1, <2>3, <3>1, <3>2
  <2> QED
    BY <2>2, <2>3
<1>9. Tail(q \o s) = Tail(q) \o s
  <2>1. Len(Tail(q \o s)) = Len(Tail(q) \o s)
    BY <1>1, <1>6, <1>7
  <2> QED
    BY <1>6, <1>7, <1>8, <2>1, SeqEqual
<1> QED
  BY <1>2, <1>3, <1>4, <1>9

\* Appending to the channel is appending to both.
LEMMA AppendToConcat ==
  ASSUME NEW S, NEW q \in Seq(S), NEW s \in Seq(S), NEW x \in S
  PROVE  q \o Append(s, x) = Append(q \o s, x)
<1>1. /\ Append(s, x) = s \o <<x>> /\ Append(q \o s, x) = (q \o s) \o <<x>>
      /\ <<x>> \in Seq(S)
  BY AppendIsConcat, ConcatProperties
<1> QED
  BY <1>1, ConcatAssociative

\* Moving the head of the channel to the end of the queue changes neither.
LEMMA MoveHead ==
  ASSUME NEW S, NEW q \in Seq(S), NEW s \in Seq(S), s # <<>>
  PROVE  Append(q, Head(s)) \o Tail(s) = q \o s
<1>1. Head(s) \in S /\ Tail(s) \in Seq(S)
  BY HeadTailProperties
<1>2. Append(q, Head(s)) = q \o <<Head(s)>> /\ <<Head(s)>> \in Seq(S)
  BY <1>1, AppendIsConcat
<1>3. <<Head(s)>> \o Tail(s) = s
  <2>1. Len(s) \in Nat \ {0}
    BY EmptySeq
  <2>2. /\ Len(Tail(s)) = Len(s) - 1
        /\ \A i \in 1 .. Len(Tail(s)) : Tail(s)[i] = s[i + 1]
    BY HeadTailProperties
  <2>3. /\ <<Head(s)>> \o Tail(s) \in Seq(S)
        /\ Len(<<Head(s)>> \o Tail(s)) = 1 + Len(Tail(s))
        /\ \A i \in 1 .. 1 + Len(Tail(s)) : (<<Head(s)>> \o Tail(s))[i] =
             IF i <= 1 THEN <<Head(s)>>[i] ELSE Tail(s)[i - 1]
    <3>1. Len(<<Head(s)>>) = 1
      OBVIOUS
    <3> QED
      BY <1>1, <1>2, <3>1, ConcatProperties
  <2>4. \A i \in 1 .. Len(s) : (<<Head(s)>> \o Tail(s))[i] = s[i]
    <3> SUFFICES ASSUME NEW i \in 1 .. Len(s)
                 PROVE  (<<Head(s)>> \o Tail(s))[i] = s[i]
      OBVIOUS
    <3>1. CASE i = 1
      BY <2>1, <2>2, <2>3, <3>1
    <3>2. CASE i # 1
      <4>1. i - 1 \in 1 .. Len(Tail(s)) /\ (i - 1) + 1 = i
        BY <2>1, <2>2, <3>2
      <4>2. (<<Head(s)>> \o Tail(s))[i] = Tail(s)[i - 1]
        BY <2>1, <2>2, <2>3, <3>2
      <4> QED
        BY <2>2, <4>1, <4>2
    <3> QED
      BY <3>1, <3>2
  <2>5. Len(<<Head(s)>> \o Tail(s)) = Len(s)
    BY <2>1, <2>2, <2>3
  <2> QED
    BY <2>3, <2>4, <2>5, SeqEqual
<1> QED
  BY <1>1, <1>2, <1>3, ConcatAssociative

\* What a sequence without repetitions loses with its head.
LEMMA TailOfDistinct ==
  ASSUME NEW S, NEW s \in Seq(S), s # <<>>, NoRepeats(s)
  PROVE  /\ Tail(s) \in Seq(S) /\ NoRepeats(Tail(s))
         /\ Head(s) \in Elements(s)
         /\ Elements(Tail(s)) = Elements(s) \ {Head(s)}
<1>1. Len(s) \in Nat \ {0} /\ DOMAIN s = 1 .. Len(s) /\ Head(s) = s[1]
  BY EmptySeq, LenProperties
<1>2. /\ Tail(s) \in Seq(S) /\ Len(Tail(s)) = Len(s) - 1
      /\ DOMAIN Tail(s) = 1 .. Len(Tail(s))
      /\ \A i \in 1 .. Len(Tail(s)) : Tail(s)[i] = s[i + 1]
  BY HeadTailProperties, LenProperties
<1>3. NoRepeats(Tail(s))
  BY <1>1, <1>2 DEF NoRepeats
<1>4. Head(s) \in Elements(s)
  BY <1>1 DEF Elements
<1>5. ASSUME NEW x \in Elements(Tail(s)) PROVE x \in Elements(s) \ {Head(s)}
  <2>1. PICK i \in DOMAIN Tail(s) : x = Tail(s)[i]
    BY <1>5 DEF Elements
  <2>2. i + 1 \in DOMAIN s /\ x = s[i + 1] /\ i + 1 # 1
    BY <1>1, <1>2, <2>1
  <2> QED
    BY <1>1, <2>2 DEF Elements, NoRepeats
<1>6. ASSUME NEW x \in Elements(s) \ {Head(s)} PROVE x \in Elements(Tail(s))
  <2>1. PICK i \in DOMAIN s : x = s[i]
    BY <1>6 DEF Elements
  <2>2. i # 1
    BY <1>1, <1>6, <2>1
  <2>3. i - 1 \in DOMAIN Tail(s) /\ (i - 1) + 1 = i
    BY <1>1, <1>2, <2>1, <2>2
  <2>4. Tail(s)[i - 1] = s[i]
    BY <1>2, <2>3
  <2> QED
    BY <2>1, <2>3, <2>4 DEF Elements
<1> QED
  BY <1>2, <1>3, <1>4, <1>5, <1>6

\* And what it gains with a new last element.
LEMMA AppendToDistinct ==
  ASSUME NEW S, NEW s \in Seq(S), NEW x \in S, NoRepeats(s), x \notin Elements(s)
  PROVE  NoRepeats(Append(s, x)) /\ Elements(Append(s, x)) = Elements(s) \cup {x}
<1>1. Len(s) \in Nat /\ DOMAIN s = 1 .. Len(s)
  BY LenProperties
<1>2. /\ Append(s, x) \in Seq(S) /\ Len(Append(s, x)) = Len(s) + 1
      /\ \A i \in 1 .. Len(s) : Append(s, x)[i] = s[i]
      /\ Append(s, x)[Len(s) + 1] = x
  BY AppendProperties
<1>3. DOMAIN Append(s, x) = 1 .. Len(s) + 1
  BY <1>2, LenProperties
<1>4. DOMAIN Append(s, x) = DOMAIN s \cup {Len(s) + 1}
  BY <1>1, <1>3
<1>5. Elements(Append(s, x)) = Elements(s) \cup {x}
  BY <1>1, <1>2, <1>4 DEF Elements
<1>6. NoRepeats(Append(s, x))
  BY <1>1, <1>2, <1>4 DEF NoRepeats, Elements
<1> QED
  BY <1>5, <1>6

(***************************************************************************)
(* The requests in flight                                                  *)
(***************************************************************************)

\* The packets of the request entries: Outstanding is PacketsOf(in_flight).
PacketsOf(flight) == {flight[id].packet : id \in Requests(flight)}

\* No packet is in flight under two ids.
Distinct(flight) ==
  \A i, j \in Requests(flight) : flight[i].packet = flight[j].packet => i = j

\* There are no more packets than entries.
LEMMA PacketsFit ==
  ASSUME NEW flight, IsFlight(flight)
  PROVE  /\ IsFiniteSet(PacketsOf(flight))
         /\ Cardinality(PacketsOf(flight)) \in Nat
         /\ Cardinality(PacketsOf(flight)) <= Cardinality(DOMAIN flight)
<1> DEFINE f == [id \in Requests(flight) |-> flight[id].packet]
<1>1. f \in Surjection(Requests(flight), PacketsOf(flight))
  BY DEF Surjection, PacketsOf
<1>2. /\ IsFiniteSet(PacketsOf(flight))
      /\ Cardinality(PacketsOf(flight)) <= Cardinality(Requests(flight))
  BY <1>1, PartsFinite, FS_Surjection
<1>3. Cardinality(PacketsOf(flight)) \in Nat
  BY <1>2, FS_CardinalityType
<1> QED
  BY <1>2, <1>3, PartsFinite

\* Settling a request finishes with its packet and no other; settling a ping
\* finishes with none.
LEMMA RemovePackets ==
  ASSUME NEW flight, IsFlight(flight), NEW id \in DOMAIN flight, Distinct(flight)
  PROVE  /\ Distinct(Remove(flight, id))
         /\ id \in Requests(flight) =>
              PacketsOf(Remove(flight, id)) = PacketsOf(flight) \ {flight[id].packet}
         /\ id \notin Requests(flight) =>
              PacketsOf(Remove(flight, id)) = PacketsOf(flight)
<1> DEFINE rest == Remove(flight, id)
<1>1. /\ DOMAIN rest = DOMAIN flight \ {id}
      /\ \A i \in DOMAIN flight \ {id} : rest[i] = flight[i]
  BY RemoveType
<1> HIDE DEF rest
<1>2. Requests(rest) = Requests(flight) \ {id}
  BY <1>1 DEF Requests, Pings
<1>3. Requests(flight) \subseteq DOMAIN flight
  BY DEF Requests
<1>4. Distinct(rest)
  BY <1>1, <1>2, <1>3 DEF Distinct
<1>5. ASSUME id \in Requests(flight)
      PROVE  PacketsOf(rest) = PacketsOf(flight) \ {flight[id].packet}
  BY <1>1, <1>2, <1>3, <1>5 DEF PacketsOf, Distinct
<1>6. ASSUME id \notin Requests(flight)
      PROVE  PacketsOf(rest) = PacketsOf(flight)
  BY <1>1, <1>2, <1>3, <1>6 DEF PacketsOf
<1> QED
  BY <1>4, <1>5, <1>6 DEF rest

\* Transmitting a request that is not in flight adds its packet.
LEMMA AddRequestPackets ==
  ASSUME NEW flight, NEW new, NEW packet, Adds(flight, new, packet, FALSE),
         Distinct(flight), packet \notin PacketsOf(flight)
  PROVE  /\ Distinct(new)
         /\ PacketsOf(new) = PacketsOf(flight) \cup {packet}
<1>1. PICK id \in Ids \ DOMAIN flight :
        /\ DOMAIN new = DOMAIN flight \cup {id}
        /\ \A i \in DOMAIN flight : new[i] = flight[i]
        /\ new[id].is_ping = FALSE
        /\ new[id].packet = packet
  BY DEF Adds
<1>2. Requests(new) = Requests(flight) \cup {id} /\ Requests(flight) \subseteq DOMAIN flight
  BY <1>1 DEF Requests, Pings
<1>3. PacketsOf(new) = PacketsOf(flight) \cup {packet}
  BY <1>1, <1>2 DEF PacketsOf
<1>4. Distinct(new)
  BY <1>1, <1>2 DEF Distinct, PacketsOf
<1> QED
  BY <1>3, <1>4

\* Transmitting a ping adds none.
LEMMA AddPingPackets ==
  ASSUME NEW flight, NEW new, NEW packet, Adds(flight, new, packet, TRUE),
         Distinct(flight)
  PROVE  Distinct(new) /\ PacketsOf(new) = PacketsOf(flight)
<1>1. PICK id \in Ids \ DOMAIN flight :
        /\ DOMAIN new = DOMAIN flight \cup {id}
        /\ \A i \in DOMAIN flight : new[i] = flight[i]
        /\ new[id].is_ping = TRUE
  BY DEF Adds
<1>2. Requests(new) = Requests(flight) /\ Requests(flight) \subseteq DOMAIN flight
  BY <1>1 DEF Requests, Pings
<1> QED
  BY <1>1, <1>2 DEF PacketsOf, Distinct

\* Timers do not touch packets.
LEMMA SamePackets ==
  ASSUME NEW flight, NEW new, DOMAIN new = DOMAIN flight, Distinct(flight),
         \A id \in DOMAIN flight : /\ new[id].is_ping = flight[id].is_ping
                                   /\ new[id].packet = flight[id].packet
  PROVE  Distinct(new) /\ PacketsOf(new) = PacketsOf(flight)
<1>1. Requests(new) = Requests(flight) /\ Requests(flight) \subseteq DOMAIN flight
  BY DEF Requests, Pings
<1> QED
  BY <1>1 DEF PacketsOf, Distinct

(***************************************************************************)
(* The invariant                                                           *)
(***************************************************************************)

\* The packets of the system are all different: a packet waits once, or is in
\* flight once.
OnePlaceEach ==
  /\ NoRepeats(Pending)
  /\ Distinct(in_flight)
  /\ Elements(Pending) \cap PacketsOf(in_flight) = {}

SendInvariant == WindowInvariant /\ QueueHasOpener /\ OnePlaceEach

\* A table and a queue that keep QueueHasOpener.
Opened(flight, queue) == queue # <<>> => Cardinality(DOMAIN flight) >= NStart

\* What the clients see of a step that has finished with the packets `settled`:
\* nothing more, or the start of the oldest waiting packet.
Advance(flight) ==
  \/ /\ PacketsOf(in_flight') = PacketsOf(flight)
     /\ Pending' = Pending
  \/ /\ Pending # <<>>
     /\ Cardinality(PacketsOf(flight)) < NStart
     /\ PacketsOf(in_flight') = PacketsOf(flight) \cup {Head(Pending)}
     /\ Pending' = Tail(Pending)

\* try_drain_send_queue starts the oldest packet or leaves everything as it is,
\* and leaves no packet waiting while there is room.
LEMMA DrainAdvances ==
  ASSUME NEW flight, IsFlight(flight), next_message_id \in Ids,
         send_queue \in Seq(Packets), packets_send \in Seq(Packets),
         DOMAIN flight \subseteq DOMAIN in_flight, IdIsFree, Unserialisable = {},
         Distinct(flight), Elements(Pending) \cap PacketsOf(flight) = {},
         NoRepeats(Pending),
         send_queue # <<>> => Cardinality(DOMAIN flight) >= NStart - 1,
         try_drain_send_queue(flight), packets_send' = packets_send
  PROVE  /\ Distinct(in_flight') /\ Advance(flight)
         /\ Opened(in_flight', send_queue')
<1>1. CASE Cardinality(DOMAIN flight) < NStart /\ send_queue # <<>>
  <2>1. /\ Pending \in Seq(Packets) /\ Pending # <<>>
        /\ Head(Pending) = Head(send_queue) /\ Tail(Pending) = Tail(send_queue) \o packets_send
    BY <1>1, HeadOfConcat DEF Pending
  <2>2. Head(send_queue) \in Packets
    BY <1>1
  <2>3. transmit_packet(flight, Head(send_queue), FALSE) /\ send_queue' = Tail(send_queue)
    BY <1>1 DEF try_drain_send_queue
  <2>4. IsFlight(in_flight') /\ Adds(flight, in_flight', Head(send_queue), FALSE)
    BY <2>2, <2>3, TransmitAdds
  <2>5. Head(send_queue) \notin PacketsOf(flight)
    BY <2>1, TailOfDistinct
  <2>6. Distinct(in_flight') /\ PacketsOf(in_flight') = PacketsOf(flight) \cup {Head(Pending)}
    BY <2>1, <2>4, <2>5, AddRequestPackets
  <2>7. Pending' = Tail(Pending)
    BY <2>1, <2>3 DEF Pending
  <2>8. Cardinality(PacketsOf(flight)) < NStart
    BY <1>1, PacketsFit, FlightFinite, ConnectionAssumption
  <2>9. Cardinality(DOMAIN in_flight') = Cardinality(DOMAIN flight) + 1
    BY <2>4, FS_AddElement, FlightFinite DEF Adds
  <2>10. Opened(in_flight', send_queue')
    BY <1>1, <2>9, FlightFinite, ConnectionAssumption DEF Opened
  <2> QED
    BY <2>1, <2>6, <2>7, <2>8, <2>10 DEF Advance
<1>2. CASE ~(Cardinality(DOMAIN flight) < NStart /\ send_queue # <<>>)
  <2>1. in_flight' = flight /\ send_queue' = send_queue
    BY <1>2 DEF try_drain_send_queue
  <2>2. Opened(in_flight', send_queue')
    BY <1>2, <2>1, FlightFinite, ConnectionAssumption DEF Opened
  <2> QED
    BY <2>1, <2>2 DEF Advance, Pending
<1> QED
  BY <1>1, <1>2

(***************************************************************************)
(* The step                                                                *)
(***************************************************************************)

\* SendWindow counts the way this module does.
LEMMA SameCount ==
  ASSUME NEW S
  PROVE  ToClients!Cardinality(S) = Cardinality(S)
  BY DEF ToClients!Cardinality, Cardinality

\* SendWindow's variables in terms of the tables.
LEMMA ClientView ==
  /\ Outstanding = PacketsOf(in_flight) /\ Outstanding' = PacketsOf(in_flight')
  /\ ToClients!Range(Pending) = Elements(Pending)
  BY DEF Outstanding, PacketsOf, RequestIds, PingIds, Requests, Pings,
         ToClients!Range, Elements

\* A packet that has started is no longer waiting.
LEMMA AdvanceKeeps ==
  ASSUME NEW flight, Pending \in Seq(Packets), NoRepeats(Pending),
         Elements(Pending) \cap PacketsOf(flight) = {}, Advance(flight)
  PROVE  NoRepeats(Pending') /\ Elements(Pending') \cap PacketsOf(in_flight') = {}
<1>1. CASE PacketsOf(in_flight') = PacketsOf(flight) /\ Pending' = Pending
  BY <1>1
<1>2. CASE /\ Pending # <<>>
           /\ PacketsOf(in_flight') = PacketsOf(flight) \cup {Head(Pending)}
           /\ Pending' = Tail(Pending)
  <2>1. /\ NoRepeats(Tail(Pending)) /\ Head(Pending) \in Elements(Pending)
        /\ Elements(Tail(Pending)) = Elements(Pending) \ {Head(Pending)}
    BY <1>2, TailOfDistinct
  <2> QED
    BY <1>2, <2>1
<1> QED
  BY <1>1, <1>2 DEF Advance

\* Nothing the clients see has changed.
LEMMA NothingSeen ==
  ASSUME PacketsOf(in_flight') = PacketsOf(in_flight), Pending' = Pending
  PROVE  [ToClients!Next]_(ToClients!window)
  BY ClientView DEF ToClients!window

\* Settling an entry and advancing is a step of SendWindow.
LEMMA SettleImplements ==
  ASSUME NEW id \in DOMAIN in_flight, IsFlight(in_flight), Distinct(in_flight),
         Advance(Remove(in_flight, id))
  PROVE  [ToClients!Next]_(ToClients!window)
<1> DEFINE p == in_flight[id].packet
<1> DEFINE rest == Remove(in_flight, id)
<1>1. CASE id \in Requests(in_flight)
  <2>1. PacketsOf(rest) = Outstanding \ {p} /\ p \in Outstanding
    <3>1. PacketsOf(rest) = PacketsOf(in_flight) \ {p}
      BY ONLY <1>1, IsFlight(in_flight), Distinct(in_flight), id \in DOMAIN in_flight,
         RemovePackets
    <3>2. p \in PacketsOf(in_flight)
      BY <1>1 DEF PacketsOf
    <3> QED
      BY <3>1, <3>2, ClientView
  <2>2. CASE PacketsOf(in_flight') = PacketsOf(rest) /\ Pending' = Pending
    <3>1. Outstanding' = Outstanding \ {p}
      BY <2>1, <2>2, ClientView
    <3>2. ToClients!Settle(p)
      BY <2>2, <3>1 DEF ToClients!Settle
    <3> QED
      BY <2>1, <3>2 DEF ToClients!Next
  <2>3. CASE /\ Pending # <<>> /\ Cardinality(PacketsOf(rest)) < NStart
             /\ PacketsOf(in_flight') = PacketsOf(rest) \cup {Head(Pending)}
             /\ Pending' = Tail(Pending)
    <3>1. ToClients!Start({p})
      BY <2>1, <2>3, ClientView, SameCount DEF ToClients!Start
    <3> QED
      BY <2>1, <3>1 DEF ToClients!Next
  <2> QED
    BY <2>2, <2>3 DEF Advance
<1>2. CASE id \notin Requests(in_flight)
  <2>1. PacketsOf(rest) = PacketsOf(in_flight)
    BY ONLY <1>2, IsFlight(in_flight), Distinct(in_flight), id \in DOMAIN in_flight,
       RemovePackets
  <2>2. CASE PacketsOf(in_flight') = PacketsOf(rest) /\ Pending' = Pending
    BY <2>1, <2>2, NothingSeen
  <2>3. CASE /\ Pending # <<>> /\ Cardinality(PacketsOf(rest)) < NStart
             /\ PacketsOf(in_flight') = PacketsOf(rest) \cup {Head(Pending)}
             /\ Pending' = Tail(Pending)
    <3>1. Outstanding \ {} = Outstanding
      OBVIOUS
    <3>2. ToClients!Start({})
      BY <2>1, <2>3, <3>1, ClientView, SameCount DEF ToClients!Start
    <3> QED
      BY <3>2 DEF ToClients!Next
  <2> QED
    BY <2>2, <2>3 DEF Advance
<1> QED
  BY <1>1, <1>2

\* What a step has to establish.
Keeps ==
  /\ Opened(in_flight', send_queue')
  /\ NoRepeats(Pending') /\ Distinct(in_flight')
  /\ Elements(Pending') \cap PacketsOf(in_flight') = {}
  /\ [ToClients!Next]_(ToClients!window)

\* Handlers that settle an entry and drain the queue.
LEMMA SettleKeeps ==
  ASSUME TypeOK, SendInvariant, Unserialisable = {}, IdIsFree,
         NEW id \in DOMAIN in_flight,
         try_drain_send_queue(Remove(in_flight, id)), packets_send' = packets_send
  PROVE  Keeps
<1> DEFINE rest == Remove(in_flight, id)
<1>0. /\ IsFlight(in_flight) /\ next_message_id \in Ids
      /\ send_queue \in Seq(Packets) /\ packets_send \in Seq(Packets)
      /\ Distinct(in_flight) /\ NoRepeats(Pending)
      /\ Elements(Pending) \cap PacketsOf(in_flight) = {}
  BY DEF TypeOK, IsFlight, SendInvariant, OnePlaceEach
<1>1. Pending \in Seq(Packets)
  BY <1>0, ConcatProperties DEF Pending
<1>2. /\ IsFlight(rest) /\ DOMAIN rest = DOMAIN in_flight \ {id}
  BY <1>0, RemoveType
<1>3. Distinct(rest) /\ PacketsOf(rest) \subseteq PacketsOf(in_flight)
  BY <1>0, RemovePackets
<1>4. Cardinality(DOMAIN rest) = Cardinality(DOMAIN in_flight) - 1
  BY <1>0, <1>2, FS_RemoveElement, FlightFinite
<1>5. send_queue # <<>> => Cardinality(DOMAIN rest) >= NStart - 1
  BY <1>0, <1>4, FlightFinite, ConnectionAssumption DEF SendInvariant, QueueHasOpener
<1>6. Elements(Pending) \cap PacketsOf(rest) = {} /\ DOMAIN rest \subseteq DOMAIN in_flight
  BY <1>0, <1>2, <1>3
<1>7. try_drain_send_queue(rest)
  OBVIOUS
<1>8. Distinct(in_flight') /\ Advance(rest) /\ Opened(in_flight', send_queue')
  <2> HIDE DEF rest
  <2> QED
    BY <1>0, <1>2, <1>3, <1>5, <1>6, <1>7, DrainAdvances
<1>9. NoRepeats(Pending') /\ Elements(Pending') \cap PacketsOf(in_flight') = {}
  BY <1>0, <1>1, <1>6, <1>8, AdvanceKeeps
<1>10. [ToClients!Next]_(ToClients!window)
  BY <1>0, <1>8, SettleImplements
<1> QED
  BY <1>8, <1>9, <1>10 DEF Keeps

\* Steps that leave the packets and the queues as they are.
LEMMA SameKeeps ==
  ASSUME SendInvariant, IsFlight(in_flight), Pending' = Pending,
         DOMAIN in_flight' = DOMAIN in_flight, send_queue' = send_queue,
         \A id \in DOMAIN in_flight : /\ in_flight'[id].is_ping = in_flight[id].is_ping
                                      /\ in_flight'[id].packet = in_flight[id].packet
  PROVE  Keeps
<1>1. Distinct(in_flight') /\ PacketsOf(in_flight') = PacketsOf(in_flight)
  BY SamePackets DEF SendInvariant, OnePlaceEach
<1>2. Opened(in_flight', send_queue')
  BY DEF SendInvariant, QueueHasOpener, Opened
<1>3. NoRepeats(Pending') /\ Elements(Pending') \cap PacketsOf(in_flight') = {}
  BY <1>1 DEF SendInvariant, OnePlaceEach
<1> QED
  BY <1>1, <1>2, <1>3, NothingSeen DEF Keeps

\* A connection that fails loses its packets.
LEMMA ShutdownKeeps ==
  ASSUME NEW error, Shutdown(error)
  PROVE  Keeps
<1>1. in_flight' = Nothing /\ send_queue' = <<>> /\ packets_send' = <<>>
  BY DEF Shutdown
<1>2. Pending' = <<>>
  BY <1>1 DEF Pending
<1>3. Requests(Nothing) = {}
  BY NothingIsFlight DEF Requests, Pings
<1>4. PacketsOf(in_flight') = {} /\ Distinct(in_flight')
  BY <1>1, <1>3 DEF PacketsOf, Distinct
<1>5. NoRepeats(Pending') /\ Elements(Pending') \cap PacketsOf(in_flight') = {}
  <2>1. DOMAIN <<>> = {}
    OBVIOUS
  <2> QED
    BY <1>2, <1>4, <2>1 DEF NoRepeats
<1>6. ToClients!Lose
  BY <1>2, <1>4, ClientView DEF ToClients!Lose
<1> QED
  BY <1>1, <1>4, <1>5, <1>6 DEF Keeps, Opened, ToClients!Next

\* A client hands over a packet.
LEMMA SubmitKeeps ==
  ASSUME TypeOK, SendInvariant, NEW p \in Packets, Submit(p)
  PROVE  Keeps
<1>1. /\ IsFlight(in_flight)
      /\ send_queue \in Seq(Packets) /\ packets_send \in Seq(Packets)
      /\ Distinct(in_flight) /\ NoRepeats(Pending)
      /\ Elements(Pending) \cap PacketsOf(in_flight) = {}
  BY DEF TypeOK, IsFlight, SendInvariant, OnePlaceEach
<1>2. /\ in_flight' = in_flight /\ send_queue' = send_queue
      /\ packets_send' = Append(packets_send, p)
  BY DEF Submit, sender
<1>3. Pending \in Seq(Packets) /\ Pending' = Append(Pending, p)
  BY <1>1, <1>2, ConcatProperties, AppendToConcat DEF Pending
<1>4. p \notin Elements(Pending) /\ p \notin PacketsOf(in_flight)
  BY DEF Submit, InSystem, Elements, PacketsOf, Requests
<1>5. NoRepeats(Pending') /\ Elements(Pending') = Elements(Pending) \cup {p}
  BY <1>3, <1>1, <1>4, AppendToDistinct
<1>6. PacketsOf(in_flight') = PacketsOf(in_flight) /\ Distinct(in_flight')
  BY <1>1, <1>2
<1>7. Opened(in_flight', send_queue')
  BY <1>2 DEF SendInvariant, QueueHasOpener, Opened
<1>8. ToClients!Accept(p)
  BY <1>3, <1>4, <1>6, ClientView DEF ToClients!Accept
<1> QED
  BY <1>1, <1>4, <1>5, <1>6, <1>7, <1>8 DEF Keeps, ToClients!Next

\* The packet goes round the queue only when the queue is empty: it is the
\* oldest one.
LEMMA OutgoingKeeps ==
  ASSUME TypeOK, SendInvariant, Unserialisable = {}, IdIsFree, OutgoingPacket
  PROVE  Keeps
<1>1. /\ IsFlight(in_flight) /\ next_message_id \in Ids
      /\ send_queue \in Seq(Packets) /\ packets_send \in Seq(Packets)
      /\ Distinct(in_flight) /\ NoRepeats(Pending)
      /\ Elements(Pending) \cap PacketsOf(in_flight) = {}
  BY DEF TypeOK, IsFlight, SendInvariant, OnePlaceEach
<1>2. /\ packets_send # <<>> /\ packets_send' = Tail(packets_send)
      /\ handle_outgoing_packet(Head(packets_send))
  BY DEF OutgoingPacket
<1>3. CASE Cardinality(DOMAIN in_flight) >= NStart
  <2>1. send_queue' = Append(send_queue, Head(packets_send)) /\ in_flight' = in_flight
    BY <1>2, <1>3 DEF handle_outgoing_packet
  <2>2. Pending' = Pending
    BY <1>1, <1>2, <2>1, MoveHead DEF Pending
  <2>3. PacketsOf(in_flight') = PacketsOf(in_flight) /\ Distinct(in_flight')
    BY <1>1, <2>1
  <2>4. Opened(in_flight', send_queue')
    BY <1>3, <2>1 DEF Opened
  <2>5. [ToClients!Next]_(ToClients!window)
    BY <2>2, <2>3, NothingSeen
  <2> QED
    BY <1>1, <2>2, <2>3, <2>4, <2>5 DEF Keeps
<1>4. CASE ~(Cardinality(DOMAIN in_flight) >= NStart)
  <2>0. Cardinality(DOMAIN in_flight) < NStart
    BY <1>1, <1>4, FlightFinite, ConnectionAssumption
  <2>1. send_queue = <<>>
    BY <1>4 DEF SendInvariant, QueueHasOpener
  <2>2. /\ transmit_packet(in_flight, Head(packets_send), FALSE)
        /\ send_queue' = send_queue
    BY <1>2, <1>4 DEF handle_outgoing_packet
  <2>3. Pending = packets_send /\ Pending' = Tail(packets_send)
    <3>1. Tail(packets_send) \in Seq(Packets)
      BY <1>1, <1>2
    <3> QED
      BY <1>1, <1>2, <2>1, <2>2, <3>1, ConcatEmptySeq DEF Pending
  <2>4. /\ NoRepeats(Tail(Pending)) /\ Head(Pending) \in Elements(Pending)
        /\ Elements(Tail(Pending)) = Elements(Pending) \ {Head(Pending)}
    BY <1>1, <1>2, <2>3, TailOfDistinct
  <2>5. Head(packets_send) \in Packets
    BY <1>1, <1>2
  <2>6. Adds(in_flight, in_flight', Head(packets_send), FALSE)
    BY <1>1, <2>2, <2>5, TransmitAdds
  <2>7. /\ Distinct(in_flight')
        /\ PacketsOf(in_flight') = PacketsOf(in_flight) \cup {Head(Pending)}
    <3>1. Head(packets_send) \notin PacketsOf(in_flight)
      BY <1>1, <2>3, <2>4
    <3> QED
      BY <1>1, <2>3, <2>6, <3>1, AddRequestPackets
  <2>8. Cardinality(PacketsOf(in_flight)) < NStart
    BY <1>1, <2>0, PacketsFit, FlightFinite, ConnectionAssumption
  <2>9. ToClients!Start({})
    <3>1. Outstanding \ {} = Outstanding
      OBVIOUS
    <3> QED
      BY <1>2, <2>3, <2>7, <2>8, <3>1, ClientView, SameCount DEF ToClients!Start
  <2>10. Opened(in_flight', send_queue')
    BY <2>1, <2>2 DEF Opened
  <2> QED
    BY <1>1, <2>3, <2>4, <2>7, <2>9, <2>10 DEF Keeps, ToClients!Next
<1> QED
  BY <1>3, <1>4

\* A ping takes a slot away and changes nothing the clients see.
LEMMA PingKeeps ==
  ASSUME TypeOK, SendInvariant, IdIsFree, PingTimer
  PROVE  Keeps
<1>1. IsFlight(in_flight) /\ next_message_id \in Ids /\ Distinct(in_flight)
  BY DEF TypeOK, IsFlight, SendInvariant, OnePlaceEach
<1>2. send_queue' = send_queue /\ Pending' = Pending
  BY DEF PingTimer, channels, Pending
<1>3. CASE ping_in_flight
  <2>1. in_flight' = in_flight
    BY <1>3 DEF PingTimer, handle_ping
  <2> QED
    BY <1>1, <1>2, <2>1, SameKeeps
<1>4. CASE ~ping_in_flight
  <2>1. transmit_packet(in_flight, Ping, TRUE)
    BY <1>4 DEF PingTimer, handle_ping
  <2>2. IsFlight(in_flight') /\ Adds(in_flight, in_flight', Ping, TRUE)
    BY <1>1, <2>1, TransmitAdds, ConnectionAssumption
  <2>3. Distinct(in_flight') /\ PacketsOf(in_flight') = PacketsOf(in_flight)
    BY <1>1, <2>2, AddPingPackets
  <2>4. Cardinality(DOMAIN in_flight') = Cardinality(DOMAIN in_flight) + 1
    BY <1>1, <2>2, FS_AddElement, FlightFinite DEF Adds
  <2>5. Opened(in_flight', send_queue')
    BY <1>1, <1>2, <2>4, FlightFinite, ConnectionAssumption
    DEF Opened, SendInvariant, QueueHasOpener
  <2>6. NoRepeats(Pending') /\ Elements(Pending') \cap PacketsOf(in_flight') = {}
    BY <1>2, <2>3 DEF SendInvariant, OnePlaceEach
  <2> QED
    BY <1>2, <2>3, <2>5, <2>6, NothingSeen DEF Keeps
<1> QED
  BY <1>3, <1>4

\* The step of the induction.
LEMMA NextSend ==
  ASSUME TypeOK, SendInvariant, Unserialisable = {}, [Next /\ IdIsFree]_vars
  PROVE  Keeps
<1>0. IsFlight(in_flight)
  BY DEF TypeOK, IsFlight
<1>1. ASSUME in_flight' = in_flight, send_queue' = send_queue, packets_send' = packets_send
      PROVE  Keeps
  <2>1. Pending' = Pending
    BY <1>1 DEF Pending
  <2> QED
    BY <1>0, <1>1, <2>1, SameKeeps
<1>2. CASE \/ TakeResponse \/ DeliverResponse \/ Reconnect
           \/ \E is_empty \in BOOLEAN : IncomingMessage(is_empty)
           \/ UNCHANGED vars
  BY <1>1, <1>2 DEF TakeResponse, DeliverResponse, Reconnect, IncomingMessage,
                    sender, channels, vars
<1>3. ASSUME NEW id \in Ids, NEW is_empty \in BOOLEAN, IncomingReply(id, is_empty), IdIsFree
      PROVE  Keeps
  <2>1. CASE id \in DOMAIN in_flight
    <3>1. /\ try_drain_send_queue(Remove(in_flight, id))
          /\ packets_send' = packets_send
      BY <1>3, <2>1 DEF IncomingReply, settle, channels
    <3> QED
      BY <1>3, <2>1, <3>1, SettleKeeps
  <2>2. CASE id \notin DOMAIN in_flight
    BY <1>1, <1>3, <2>2 DEF IncomingReply, settle, sender, channels
  <2> QED
    BY <2>1, <2>2
<1>4. ASSUME NEW id \in Ids, RetransmitTimeout(id), IdIsFree
      PROVE  Keeps
  <2>0. id \in DOMAIN in_flight
    BY <1>4 DEF RetransmitTimeout, IsLowest
  <2>1. CASE retransmit(id)
    <3>1. /\ DOMAIN in_flight' = DOMAIN in_flight
          /\ \A i \in DOMAIN in_flight : /\ in_flight'[i].is_ping = in_flight[i].is_ping
                                         /\ in_flight'[i].packet = in_flight[i].packet
      BY <1>0, <2>0, <2>1 DEF retransmit, IsFlight, InFlightPacket
    <3>2. send_queue' = send_queue /\ Pending' = Pending
      BY <2>1 DEF retransmit, channels, Pending
    <3> QED
      BY <1>0, <3>1, <3>2, SameKeeps
  <2>2. CASE ping_timeout(id)
    BY <2>2, ShutdownKeeps DEF ping_timeout
  <2>3. CASE give_up(id)
    <3>1. /\ try_drain_send_queue(Remove(in_flight, id))
          /\ packets_send' = packets_send
      BY <2>3 DEF give_up, channels
    <3> QED
      BY <1>4, <2>0, <3>1, SettleKeeps
  <2> QED
    BY <1>4, <2>1, <2>2, <2>3 DEF RetransmitTimeout
<1>5. CASE Tick
  <2>1. /\ DOMAIN in_flight' = DOMAIN in_flight
        /\ \A i \in DOMAIN in_flight : /\ in_flight'[i].is_ping = in_flight[i].is_ping
                                       /\ in_flight'[i].packet = in_flight[i].packet
    BY <1>0, <1>5 DEF Tick, IsFlight, InFlightPacket
  <2>2. send_queue' = send_queue /\ Pending' = Pending
    BY <1>5 DEF Tick, channels, Pending
  <2> QED
    BY <1>0, <2>1, <2>2, SameKeeps
<1>6. CASE TlsError
  BY <1>6, ShutdownKeeps DEF TlsError
<1> QED
  BY <1>2, <1>3, <1>4, <1>5, <1>6, SubmitKeeps, OutgoingKeeps, PingKeeps DEF Next

LEMMA SendInductive ==
  ASSUME Unserialisable = {}
  PROVE  Spec => []SendInvariant
<1>1. Init => SendInvariant
  <2> SUFFICES ASSUME Init PROVE SendInvariant
    OBVIOUS
  <2>1. in_flight = Nothing /\ send_queue = <<>> /\ Pending = <<>>
    BY DEF Init, Pending
  <2>2. WindowInvariant
    BY InitType, NothingKeeps DEF WindowInvariant, Init
  <2>3. Requests(Nothing) = {}
    BY NothingIsFlight DEF Requests, Pings
  <2>4. OnePlaceEach
    BY <2>1, <2>3 DEF OnePlaceEach, NoRepeats, Distinct, PacketsOf, Elements
  <2> QED
    BY <2>1, <2>2, <2>4 DEF SendInvariant, QueueHasOpener
<1>2. SendInvariant /\ [Next /\ IdIsFree]_vars => SendInvariant'
  <2> SUFFICES ASSUME SendInvariant, [Next /\ IdIsFree]_vars PROVE SendInvariant'
    OBVIOUS
  <2>1. WindowInvariant'
    BY NextType, NextWindow DEF SendInvariant, WindowInvariant
  <2>2. Keeps
    BY NextSend DEF SendInvariant, WindowInvariant
  <2>3. OnePlaceEach'
    BY <2>2 DEF Keeps, OnePlaceEach, NoRepeats, Distinct, Elements, PacketsOf,
                Requests, Pings
  <2>4. QueueHasOpener'
    BY <2>2 DEF Keeps, Opened, QueueHasOpener
  <2> QED
    BY <2>1, <2>3, <2>4 DEF SendInvariant
<1> QED
  BY <1>1, <1>2, PTL DEF Spec

\* When every packet can be serialised, a packet waits only while every slot of
\* the window is taken, for every window and id space: the queue always has
\* somebody to open it (coap.rs 264-273, 309-316).
THEOREM QueueIsOpened ==
  ASSUME Unserialisable = {}
  PROVE  Spec => []QueueHasOpener
<1>1. SendInvariant => QueueHasOpener
  BY DEF SendInvariant
<1> QED
  BY <1>1, SendInductive, PTL

\* When every packet can be serialised, the connection is to its clients a
\* bounded window that transmits in the order of submission: the initial state
\* maps to an initial state of SendWindow and every step to a step of it or to
\* none (coap.rs 205-316).
THEOREM Refinement ==
  ASSUME Unserialisable = {}
  PROVE  Spec => ImplementsSendWindow
<1>1. Init => ToClients!Init
  <2> SUFFICES ASSUME Init PROVE ToClients!Init
    OBVIOUS
  <2>1. in_flight = Nothing /\ Pending = <<>>
    BY DEF Init, Pending
  <2>2. Requests(Nothing) = {}
    BY NothingIsFlight DEF Requests, Pings
  <2>3. Outstanding = {}
    BY <2>1, <2>2, ClientView DEF PacketsOf
  <2> QED
    BY <2>1, <2>3 DEF ToClients!Init
<1>2. SendInvariant /\ [Next /\ IdIsFree]_vars => [ToClients!Next]_(ToClients!window)
  BY NextSend DEF SendInvariant, WindowInvariant, Keeps
<1> QED
  BY <1>1, <1>2, SendInductive, PTL DEF Spec, ToClients!Spec, ImplementsSendWindow

(***************************************************************************)
(* The silence of the peer                                                 *)
(***************************************************************************)

\* The timeouts that are still to come after the next one, counted in the present
\* timeout, for a packet that was sent again count times.
Doublings(count) == 2 ^ (MaxRetransmit + 1 - count) - 2

\* Ticks until the packet is given up, if it is served on time.
Rest(p) == p.timeout_at + Doublings(p.retransmission_count) * p.timeout

\* A packet that may be in flight.
Lives(p) ==
  /\ p \in InFlightPacket
  /\ p.retransmission_count <= MaxRetransmit
  /\ Rest(p) <= Span

AllLive(flight) == \A id \in DOMAIN flight : Lives(flight[id])

Limit == PingInterval + 2 * Span

\* What is left until a ping is given up: its own rest and that of the request it
\* stands behind.
Within(flight, s) ==
  \A p \in Pings(flight) :
    /\ s + Rest(flight[p]) <= Limit
    /\ \A r \in Requests(flight) :
         r < p => s + Rest(flight[p]) + Rest(flight[r]) <= Limit

SilenceInvariant ==
  /\ WindowInvariant
  /\ AllLive(in_flight)
  /\ next_ping <= PingInterval
  /\ ~ping_in_flight => silence <= PingInterval /\ silence + next_ping <= PingInterval
  /\ Within(in_flight, silence)

\* The values of the code, and timeouts that have a largest one.
CodeValues ==
  /\ NStart = 1 /\ MaxRetransmit = 4
  /\ \E t \in AckTimeouts : \A u \in AckTimeouts : u <= t

\* What is left after each number of retransmissions, for four of them.
LEMMA Powers ==
  ASSUME CodeValues
  PROVE  /\ Doublings(0) = 30 /\ Doublings(1) = 14 /\ Doublings(2) = 6
         /\ Doublings(3) = 2 /\ Doublings(4) = 0
         /\ \A c \in 0 .. 4 : Doublings(c) \in Nat
         /\ \A c \in 0 .. 3 : Doublings(c) = 2 + 2 * Doublings(c + 1)
<1>1. 2 ^ 5 = 32 /\ 2 ^ 4 = 16 /\ 2 ^ 3 = 8 /\ 2 ^ 2 = 4 /\ 2 ^ 1 = 2
  BY SMT
<1>2. MaxRetransmit + 1 - 0 = 5 /\ MaxRetransmit + 1 - 1 = 4 /\ MaxRetransmit + 1 - 2 = 3
      /\ MaxRetransmit + 1 - 3 = 2 /\ MaxRetransmit + 1 - 4 = 1
  BY DEF CodeValues
<1>3. /\ Doublings(0) = 30 /\ Doublings(1) = 14 /\ Doublings(2) = 6
      /\ Doublings(3) = 2 /\ Doublings(4) = 0
  <2>1. /\ Doublings(0) = 2 ^ 5 - 2 /\ Doublings(1) = 2 ^ 4 - 2 /\ Doublings(2) = 2 ^ 3 - 2
        /\ Doublings(3) = 2 ^ 2 - 2 /\ Doublings(4) = 2 ^ 1 - 2
    BY <1>2, Zenon DEF Doublings
  <2> QED
    BY <1>1, <2>1
<1>4. \A c \in 0 .. 4 : Doublings(c) \in Nat
  BY <1>3
<1>5. ASSUME NEW c \in 0 .. 3 PROVE Doublings(c) = 2 + 2 * Doublings(c + 1)
  <2>1. c = 0 \/ c = 1 \/ c = 2 \/ c = 3
    OBVIOUS
  <2>2. 0 + 1 = 1 /\ 1 + 1 = 2 /\ 2 + 1 = 3 /\ 3 + 1 = 4
    OBVIOUS
  <2> QED
    BY <1>3, <2>1, <2>2
<1> QED
  BY <1>3, <1>4, <1>5

\* A packet that was just sent has a whole span before it, at most.
LEMMA SpanIs ==
  ASSUME CodeValues
  PROVE  Span \in Nat /\ \A t \in AckTimeouts : t \in Nat /\ t + 30 * t <= Span
<1> DEFINE longest == CHOOSE t \in AckTimeouts : \A u \in AckTimeouts : u <= t
<1>1. longest \in AckTimeouts /\ \A u \in AckTimeouts : u <= longest
  BY DEF CodeValues
<1>2. \A t \in AckTimeouts : t \in Nat
  BY ConnectionAssumption
<1>3. 2 ^ (MaxRetransmit + 1) = 32
  <2>1. MaxRetransmit + 1 = 5 /\ 2 ^ 5 = 32
    BY DEF CodeValues
  <2> QED
    BY <2>1
<1>4. Span = (32 - 1) * longest
  BY <1>3 DEF Span
<1> HIDE DEF longest
<1> QED
  BY <1>1, <1>2, <1>4

\* The bounds on a packet that may be in flight.
LEMMA RestIs ==
  ASSUME CodeValues, NEW p, Lives(p)
  PROVE  Rest(p) \in Nat /\ p.timeout_at <= Rest(p) /\ Rest(p) <= Span
         /\ p.timeout \in Nat /\ p.timeout_at \in Nat /\ p.retransmission_count \in 0 .. 4
<1>1. p.timeout \in Nat /\ p.timeout_at \in Nat /\ p.retransmission_count \in 0 .. 4
  BY DEF Lives, InFlightPacket, CodeValues
<1>2. Doublings(p.retransmission_count) \in Nat
  BY <1>1, Powers
<1>3. Doublings(p.retransmission_count) * p.timeout \in Nat
  BY <1>1, <1>2
<1> QED
  BY <1>1, <1>3 DEF Rest, Lives

\* Sending again uses up one doubling.
LEMMA AgainIs ==
  ASSUME CodeValues, NEW p, Lives(p), p.timeout_at = 0,
         p.retransmission_count < MaxRetransmit, NEW q \in InFlightPacket,
         q.retransmission_count = p.retransmission_count + 1,
         q.timeout = 2 * p.timeout, q.timeout_at = 2 * p.timeout
  PROVE  Lives(q) /\ Rest(q) = Rest(p)
<1>1. p.timeout \in Nat /\ p.retransmission_count \in 0 .. 3
  BY RestIs DEF CodeValues
<1> DEFINE d == Doublings(p.retransmission_count + 1)
<1>2. d \in Nat /\ Doublings(p.retransmission_count) = 2 + 2 * d
  <2>1. p.retransmission_count + 1 \in 0 .. 4
    BY <1>1
  <2>2. d \in Nat
    BY <2>1, Powers
  <2> QED
    BY <1>1, <2>2, Powers
<1>3. Rest(p) = (2 + 2 * d) * p.timeout
  BY <1>1, <1>2 DEF Rest
<1>4. Rest(q) = 2 * p.timeout + d * (2 * p.timeout)
  BY DEF Rest
<1> HIDE DEF d
<1>5. Rest(q) = Rest(p)
  BY <1>1, <1>2, <1>3, <1>4, Z3T(30)
<1> QED
  BY <1>1, <1>5, RestIs DEF Lives, CodeValues

\* What transmit_packet puts in flight lives.
LEMMA TransmitLives ==
  ASSUME CodeValues, NEW flight, IsFlight(flight), AllLive(flight), next_message_id \in Ids,
         NEW packet \in Packets \cup {Ping}, NEW is_ping \in BOOLEAN,
         transmit_packet(flight, packet, is_ping)
  PROVE  AllLive(in_flight')
<1>1. CASE packet \in Unserialisable
  BY <1>1 DEF transmit_packet
<1>2. CASE packet \notin Unserialisable
  <2> DEFINE entry(t) == [packet |-> packet, timeout |-> t, timeout_at |-> t,
                          retransmission_count |-> 0, is_ping |-> is_ping]
  <2>1. PICK t \in AckTimeouts : in_flight' = Insert(flight, next_message_id, entry(t))
    BY <1>2 DEF transmit_packet
  <2>2. entry(t) \in InFlightPacket /\ t \in Nat
    BY ConnectionAssumption DEF InFlightPacket
  <2>3. entry(t).timeout_at = t /\ entry(t).timeout = t /\ entry(t).retransmission_count = 0
    OBVIOUS
  <2> HIDE DEF entry
  <2>4. Rest(entry(t)) = t + 30 * t
    BY <2>3, Powers DEF Rest
  <2>5. Lives(entry(t))
    BY <2>2, <2>3, <2>4, SpanIs, ConnectionAssumption DEF Lives
  <2>6. /\ IsFlight(in_flight')
        /\ DOMAIN in_flight' = DOMAIN flight \cup {next_message_id}
        /\ \A i \in DOMAIN flight \ {next_message_id} : in_flight'[i] = flight[i]
        /\ in_flight'[next_message_id] = entry(t)
    BY <2>1, <2>2, InsertType
  <2> QED
    BY <2>5, <2>6 DEF AllLive
<1> QED
  BY <1>1, <1>2

\* Nor does the packet that leaves the queue exceed its span.
LEMMA DrainLives ==
  ASSUME CodeValues, NEW flight, IsFlight(flight), AllLive(flight), next_message_id \in Ids,
         send_queue \in Seq(Packets), try_drain_send_queue(flight)
  PROVE  AllLive(in_flight')
<1>1. CASE Cardinality(DOMAIN flight) < NStart /\ send_queue # <<>>
  <2>1. Head(send_queue) \in Packets
    BY <1>1
  <2>2. transmit_packet(flight, Head(send_queue), FALSE)
    BY <1>1 DEF try_drain_send_queue
  <2> QED
    BY <2>1, <2>2, TransmitLives
<1>2. CASE ~(Cardinality(DOMAIN flight) < NStart /\ send_queue # <<>>)
  BY <1>2 DEF try_drain_send_queue
<1> QED
  BY <1>1, <1>2

\* Whatever is in flight, a ping interval of silence leaves two spans.
LEMMA Early ==
  ASSUME CodeValues, NEW flight, AllLive(flight), NEW s \in Nat, s <= PingInterval
  PROVE  Within(flight, s)
<1>1. Span \in Nat /\ PingInterval \in Nat
  BY SpanIs, ConnectionAssumption
<1>2. \A id \in DOMAIN flight : Rest(flight[id]) \in Nat /\ Rest(flight[id]) <= Span
  BY RestIs DEF AllLive
<1>3. ASSUME NEW p \in DOMAIN flight, NEW r \in DOMAIN flight
      PROVE  s + Rest(flight[p]) <= Limit /\ s + Rest(flight[p]) + Rest(flight[r]) <= Limit
  <2>1. /\ Rest(flight[p]) \in Nat /\ Rest(flight[p]) <= Span
        /\ Rest(flight[r]) \in Nat /\ Rest(flight[r]) <= Span
    BY <1>2
  <2> QED
    BY <1>1, <2>1 DEF Limit
<1> QED
  BY <1>3 DEF Within, Pings, Requests

\* With less in flight, or the same with no more rest, it is no worse.
LEMMA NoWorse ==
  ASSUME CodeValues, NEW flight, AllLive(flight), NEW new, AllLive(new), NEW s \in Nat,
         Within(flight, s), DOMAIN new \subseteq DOMAIN flight,
         \A id \in DOMAIN new : /\ new[id].is_ping = flight[id].is_ping
                                /\ Rest(new[id]) <= Rest(flight[id])
  PROVE  Within(new, s)
<1>1. Pings(new) \subseteq Pings(flight) /\ Requests(new) \subseteq Requests(flight)
      /\ Pings(new) \subseteq DOMAIN new /\ Requests(new) \subseteq DOMAIN new
  BY DEF Pings, Requests
<1>2. /\ \A id \in DOMAIN flight : Rest(flight[id]) \in Nat
      /\ \A id \in DOMAIN new : Rest(new[id]) \in Nat
  BY RestIs DEF AllLive
<1>3. Limit \in Nat
  BY SpanIs, ConnectionAssumption DEF Limit
<1>4. ASSUME NEW p \in Pings(new) PROVE s + Rest(new[p]) <= Limit
  <2>1. s + Rest(flight[p]) <= Limit /\ p \in DOMAIN flight /\ p \in DOMAIN new
    BY <1>1 DEF Within
  <2>2. Rest(new[p]) <= Rest(flight[p]) /\ Rest(flight[p]) \in Nat /\ Rest(new[p]) \in Nat
    BY <1>2, <2>1
  <2> QED
    BY <1>3, <2>1, <2>2
<1>5. ASSUME NEW p \in Pings(new), NEW r \in Requests(new), r < p
      PROVE  s + Rest(new[p]) + Rest(new[r]) <= Limit
  <2>1. /\ s + Rest(flight[p]) + Rest(flight[r]) <= Limit
        /\ {p, r} \subseteq DOMAIN flight /\ {p, r} \subseteq DOMAIN new
    BY <1>1, <1>5 DEF Within
  <2>2. /\ Rest(new[p]) <= Rest(flight[p]) /\ Rest(flight[p]) \in Nat /\ Rest(new[p]) \in Nat
        /\ Rest(new[r]) <= Rest(flight[r]) /\ Rest(flight[r]) \in Nat /\ Rest(new[r]) \in Nat
    BY <1>2, <2>1
  <2> QED
    BY <1>3, <2>1, <2>2
<1> QED
  BY <1>4, <1>5 DEF Within

\* With an NSTART of one there is one request at most.
LEMMA OneRequest ==
  ASSUME CodeValues, IsFlight(in_flight), InWindow(in_flight)
  PROVE  \A r, q \in Requests(in_flight) : r = q
<1>1. IsFiniteSet(Requests(in_flight)) /\ Cardinality(Requests(in_flight)) <= 1
  BY PartsFinite DEF CodeValues, InWindow
<1> QED
  BY <1>1, AtMostOne

\* While run() waits for the lowest id, the rest of the ping or of the request it
\* stands behind runs down with the time.
LEMMA TickWithin ==
  ASSUME CodeValues, WindowInvariant, AllLive(in_flight), NEW s \in Nat,
         Within(in_flight, s), NothingElseDue,
         NEW new, DOMAIN new = DOMAIN in_flight, AllLive(new),
         \A id \in DOMAIN in_flight :
           /\ new[id].is_ping = in_flight[id].is_ping
           /\ Rest(new[id]) <= Rest(in_flight[id])
           /\ in_flight[id].timeout_at > 0 => Rest(new[id]) + 1 <= Rest(in_flight[id])
  PROVE  Within(new, s + 1)
<1>0. IsFlight(in_flight) /\ DOMAIN in_flight \subseteq Nat
      /\ OnePing(in_flight, ping_in_flight) /\ InWindow(in_flight)
  BY DEF WindowInvariant, TypeOK, IsFlight, Ids
<1>1. Pings(new) = Pings(in_flight) /\ Requests(new) = Requests(in_flight)
      /\ Pings(new) \subseteq DOMAIN new /\ Requests(new) \subseteq DOMAIN new
      /\ DOMAIN new = Pings(new) \cup Requests(new)
  BY DEF Pings, Requests
<1>2. \A id \in DOMAIN new : Rest(in_flight[id]) \in Nat /\ Rest(new[id]) \in Nat
  BY RestIs DEF AllLive
<1>3. Limit \in Nat
  BY SpanIs, ConnectionAssumption DEF Limit
<1>4. ASSUME NEW id \in DOMAIN new, \A other \in DOMAIN new : id <= other
      PROVE  Rest(new[id]) + 1 <= Rest(in_flight[id])
  <2>1. in_flight[id].timeout_at > 0
    BY <1>4 DEF NothingElseDue, IsLowest
  <2> QED
    BY <2>1
<1>5. ASSUME NEW p \in Pings(new), NEW r \in Requests(new), r < p
      PROVE  s + 1 + Rest(new[p]) + Rest(new[r]) <= Limit
             /\ s + 1 + Rest(new[p]) <= Limit
  <2>1. \A other \in DOMAIN new : r <= other
    <3>1. \A q \in Pings(new) : q = p
      BY <1>0, <1>1 DEF OnePing
    <3>2. \A q \in Requests(new) : q = r
      BY <1>0, <1>1, OneRequest
    <3>3. r \in Nat /\ p \in Nat /\ r <= p /\ r <= r
      BY <1>0, <1>1, <1>5
    <3>4. ASSUME NEW other \in DOMAIN new PROVE other = p \/ other = r
      BY <1>1, <3>1, <3>2, <3>4
    <3> QED
      BY <3>3, <3>4
  <2>2. Rest(new[r]) + 1 <= Rest(in_flight[r])
    BY <1>1, <1>4, <2>1
  <2>3. s + Rest(in_flight[p]) + Rest(in_flight[r]) <= Limit
        /\ Rest(new[p]) <= Rest(in_flight[p])
    BY <1>1, <1>5 DEF Within
  <2>4. /\ Rest(in_flight[p]) \in Nat /\ Rest(new[p]) \in Nat
        /\ Rest(in_flight[r]) \in Nat /\ Rest(new[r]) \in Nat
    BY <1>1, <1>2
  <2> QED
    BY <1>3, <2>2, <2>3, <2>4
<1>6. ASSUME NEW p \in Pings(new) PROVE s + 1 + Rest(new[p]) <= Limit
  <2>1. CASE \E r \in Requests(new) : r < p
    BY <1>5, <2>1
  <2>2. CASE ~ \E r \in Requests(new) : r < p
    <3>1. \A q \in Pings(new) : q = p
      BY <1>0, <1>1 DEF OnePing
    <3>2. \A other \in DOMAIN new : p <= other
      BY <1>0, <1>1, <2>2, <3>1
    <3>3. Rest(new[p]) + 1 <= Rest(in_flight[p])
      BY <1>1, <1>4, <3>2
    <3>4. s + Rest(in_flight[p]) <= Limit
          /\ Rest(in_flight[p]) \in Nat /\ Rest(new[p]) \in Nat
      BY <1>1, <1>2 DEF Within
    <3> QED
      BY <1>3, <3>3, <3>4
  <2> QED
    BY <2>1, <2>2
<1> QED
  BY <1>5, <1>6 DEF Within

\* What a step makes of the table, the flag, the timer of the ping and the silence.
SilenceKept ==
  /\ AllLive(in_flight')
  /\ next_ping' <= PingInterval
  /\ ~ping_in_flight' => silence' <= PingInterval /\ silence' + next_ping' <= PingInterval
  /\ Within(in_flight', silence')

\* The connection that follows starts from nothing.
LEMMA ShutdownSilence ==
  ASSUME CodeValues, NEW error, Shutdown(error)
  PROVE  SilenceKept
<1>1. in_flight' = Nothing /\ silence' = 0 /\ next_ping' = PingInterval
  BY DEF Shutdown
<1>2. AllLive(Nothing)
  BY NothingIsFlight DEF AllLive
<1>3. Within(Nothing, 0)
  BY NothingIsFlight DEF Within, Pings
<1> QED
  BY <1>1, <1>2, <1>3, ConnectionAssumption DEF SilenceKept

\* A reply, like every datagram, ends the silence.
LEMMA ReplySilence ==
  ASSUME CodeValues, SilenceInvariant, NEW id \in Ids, NEW is_empty \in BOOLEAN,
         IncomingReply(id, is_empty)
  PROVE  SilenceKept
<1>1. IsFlight(in_flight) /\ next_message_id \in Ids /\ send_queue \in Seq(Packets)
      /\ next_ping \in Int
  BY DEF SilenceInvariant, WindowInvariant, TypeOK, IsFlight
<1>0. AllLive(in_flight)
  BY DEF SilenceInvariant
<1>2. AllLive(in_flight')
  <2>1. CASE id \in DOMAIN in_flight
    <3> DEFINE rest == Remove(in_flight, id)
    <3>1. /\ IsFlight(rest) /\ DOMAIN rest = DOMAIN in_flight \ {id}
          /\ \A i \in DOMAIN in_flight \ {id} : rest[i] = in_flight[i]
      BY <1>1, RemoveType
    <3>2. try_drain_send_queue(rest)
      BY <2>1 DEF IncomingReply, settle
    <3> HIDE DEF rest
    <3>3. AllLive(rest)
      BY <1>0, <3>1 DEF AllLive
    <3> QED
      BY <1>1, <3>1, <3>2, <3>3, DrainLives
  <2>2. CASE id \notin DOMAIN in_flight
    BY <2>2 DEF IncomingReply, settle, sender, SilenceInvariant
  <2> QED
    BY <2>1, <2>2
<1>3. silence' = 0 /\ next_ping' = next_ping /\ next_ping <= PingInterval
  BY DEF IncomingReply, SilenceInvariant
<1>4. Within(in_flight', 0)
  BY <1>2, Early, ConnectionAssumption
<1> QED
  BY <1>1, <1>2, <1>3, <1>4, ConnectionAssumption DEF SilenceKept

\* A packet finds a free slot only while there is no ping.
LEMMA OutgoingSilence ==
  ASSUME CodeValues, SilenceInvariant, OutgoingPacket
  PROVE  SilenceKept
<1>1. IsFlight(in_flight) /\ next_message_id \in Ids /\ packets_send \in Seq(Packets)
      /\ OnePing(in_flight, ping_in_flight) /\ silence \in Nat
  BY DEF SilenceInvariant, WindowInvariant, TypeOK, IsFlight
<1>2. UNCHANGED <<ping_in_flight, next_ping, silence>>
  BY DEF OutgoingPacket, loop
<1>3. CASE Cardinality(DOMAIN in_flight) >= NStart
  BY <1>2, <1>3 DEF OutgoingPacket, handle_outgoing_packet, SilenceInvariant, SilenceKept
<1>4. CASE ~(Cardinality(DOMAIN in_flight) >= NStart)
  <2>1. Head(packets_send) \in Packets /\ transmit_packet(in_flight, Head(packets_send), FALSE)
    <3>1. packets_send # <<>> /\ handle_outgoing_packet(Head(packets_send))
      BY DEF OutgoingPacket
    <3>2. Head(packets_send) \in Packets
      BY <1>1, <3>1
    <3>3. transmit_packet(in_flight, Head(packets_send), FALSE)
      BY <1>4, <3>1 DEF handle_outgoing_packet
    <3> QED
      BY <3>2, <3>3
  <2>2. AllLive(in_flight')
    BY <1>1, <2>1, TransmitLives DEF SilenceInvariant
  <2>3. DOMAIN in_flight = {}
    <3>1. IsFiniteSet(DOMAIN in_flight) /\ Cardinality(DOMAIN in_flight) = 0
      BY <1>1, <1>4, FlightFinite DEF CodeValues
    <3> QED
      BY <3>1, FS_EmptySet
  <2>4. ~ping_in_flight
    BY <1>1, <2>3 DEF OnePing, Pings
  <2>5. silence <= PingInterval
    BY <2>4 DEF SilenceInvariant
  <2>6. Within(in_flight', silence)
    BY <1>1, <2>2, <2>5, Early
  <2> QED
    BY <1>2, <2>2, <2>4, <2>6 DEF SilenceInvariant, SilenceKept
<1> QED
  BY <1>3, <1>4

\* Sending again moves the rest of a packet and does not lengthen it; a request that
\* is given up is out of the way, and while there is a ping none takes its place.
LEMMA TimeoutSilence ==
  ASSUME CodeValues, SilenceInvariant, NEW id \in Ids, RetransmitTimeout(id)
  PROVE  SilenceKept
<1>1. IsFlight(in_flight) /\ next_message_id \in Ids /\ send_queue \in Seq(Packets)
      /\ OnePing(in_flight, ping_in_flight) /\ silence \in Nat /\ AllLive(in_flight)
  BY DEF SilenceInvariant, WindowInvariant, TypeOK, IsFlight
<1>2. id \in DOMAIN in_flight /\ in_flight[id].timeout_at = 0 /\ Lives(in_flight[id])
  BY <1>1 DEF RetransmitTimeout, IsLowest, AllLive
<1>3. CASE retransmit(id)
  <2> DEFINE p == in_flight[id]
             q == in_flight'[id]
  <2>1. p \in InFlightPacket
    BY <1>2 DEF Lives
  <2>2. /\ DOMAIN in_flight' = DOMAIN in_flight
        /\ \A i \in DOMAIN in_flight \ {id} : in_flight'[i] = in_flight[i]
        /\ q = [p EXCEPT !.retransmission_count = @ + 1, !.timeout = 2 * @,
                         !.timeout_at = 2 * p.timeout]
    BY <1>1, <1>2, <1>3 DEF retransmit, IsFlight
  <2>3. /\ q \in InFlightPacket /\ q.is_ping = p.is_ping
        /\ q.retransmission_count = p.retransmission_count + 1
        /\ q.timeout = 2 * p.timeout /\ q.timeout_at = 2 * p.timeout
    <3>1. /\ p.packet \in Packets \cup {Ping} /\ p.timeout \in Nat /\ p.timeout_at \in Nat
          /\ p.retransmission_count \in Nat /\ p.is_ping \in BOOLEAN
      BY <2>1 DEF InFlightPacket
    <3>2. p.retransmission_count + 1 \in Nat /\ 2 * p.timeout \in Nat
      BY <3>1
    <3> HIDE DEF p, q
    <3>3. q = [packet |-> p.packet, timeout |-> 2 * p.timeout, timeout_at |-> 2 * p.timeout,
               retransmission_count |-> p.retransmission_count + 1, is_ping |-> p.is_ping]
      BY <2>1, <2>2 DEF InFlightPacket
    <3> QED
      BY <3>1, <3>2, <3>3 DEF InFlightPacket
  <2>4. p.retransmission_count < MaxRetransmit
    BY <1>3 DEF retransmit
  <2> HIDE DEF q
  <2>5. Lives(q) /\ Rest(q) = Rest(p)
    BY <1>2, <2>3, <2>4, AgainIs
  <2>6. AllLive(in_flight')
    BY <1>1, <2>2, <2>5 DEF AllLive, q
  <2>7. \A i \in DOMAIN in_flight' : /\ in_flight'[i].is_ping = in_flight[i].is_ping
                                     /\ Rest(in_flight'[i]) <= Rest(in_flight[i])
    <3>1. \A i \in DOMAIN in_flight : Rest(in_flight[i]) \in Nat
      BY <1>1, RestIs DEF AllLive
    <3>2. ASSUME NEW i \in DOMAIN in_flight'
          PROVE  in_flight'[i].is_ping = in_flight[i].is_ping
                 /\ Rest(in_flight'[i]) = Rest(in_flight[i])
      BY <2>2, <2>3, <2>5 DEF q
    <3> QED
      BY <2>2, <3>1, <3>2
  <2>8. Within(in_flight', silence)
    BY <1>1, <2>2, <2>6, <2>7, NoWorse DEF SilenceInvariant
  <2> QED
    BY <1>3, <2>6, <2>8 DEF retransmit, loop, SilenceInvariant, SilenceKept
<1>4. CASE ping_timeout(id)
  BY <1>4, ShutdownSilence DEF ping_timeout
<1>5. CASE give_up(id)
  <2> DEFINE rest == Remove(in_flight, id)
  <2>1. /\ IsFlight(rest) /\ DOMAIN rest = DOMAIN in_flight \ {id}
        /\ \A i \in DOMAIN in_flight \ {id} : rest[i] = in_flight[i]
    BY <1>1, RemoveType
  <2>2. try_drain_send_queue(rest) /\ UNCHANGED <<ping_in_flight, next_ping, silence>>
        /\ ~in_flight[id].is_ping
    BY <1>5 DEF give_up, loop
  <2> HIDE DEF rest
  <2>3. AllLive(rest)
    BY <1>1, <2>1 DEF AllLive
  <2>4. AllLive(in_flight')
    BY <1>1, <2>1, <2>2, <2>3, DrainLives
  <2>5. CASE ~ping_in_flight
    <3>1. Within(in_flight', silence)
      BY <1>1, <2>4, <2>5, Early DEF SilenceInvariant
    <3> QED
      BY <2>2, <2>4, <3>1 DEF SilenceInvariant, SilenceKept
  <2>6. CASE ping_in_flight
    <3>1. PICK p \in DOMAIN in_flight : in_flight[p].is_ping
      BY <1>1, <2>6 DEF OnePing, Pings
    <3>2. p \in DOMAIN rest
      BY <2>1, <2>2, <3>1
    <3>3. Cardinality(DOMAIN rest) \in Nat /\ Cardinality(DOMAIN rest) # 0
      BY <2>1, <3>2, FlightFinite, FS_EmptySet
    <3>4. in_flight' = rest
      <4>1. ~(Cardinality(DOMAIN rest) < NStart)
        BY <3>3 DEF CodeValues
      <4> QED
        BY <2>2, <4>1, Zenon DEF try_drain_send_queue
    <3>5. \A i \in DOMAIN rest : /\ rest[i].is_ping = in_flight[i].is_ping
                                 /\ Rest(rest[i]) <= Rest(in_flight[i])
      <4>1. \A i \in DOMAIN in_flight : Rest(in_flight[i]) \in Nat
        BY <1>1, RestIs DEF AllLive
      <4> QED
        BY <2>1, <4>1
    <3>6. Within(rest, silence)
      BY <1>1, <2>1, <2>3, <3>5, NoWorse DEF SilenceInvariant
    <3> QED
      BY <2>2, <2>4, <2>6, <3>4, <3>6 DEF SilenceInvariant, SilenceKept
  <2> QED
    BY <2>5, <2>6
<1> QED
  BY <1>3, <1>4, <1>5 DEF RetransmitTimeout

\* The ping is sent within a ping interval of silence.
LEMMA PingSilence ==
  ASSUME CodeValues, SilenceInvariant, PingTimer
  PROVE  SilenceKept
<1>1. IsFlight(in_flight) /\ next_message_id \in Ids /\ silence \in Nat /\ next_ping \in Int
      /\ AllLive(in_flight) /\ PingInterval \in Nat
  BY ConnectionAssumption DEF SilenceInvariant, WindowInvariant, TypeOK, IsFlight
<1>2. next_ping' <= PingInterval /\ silence' = silence
  BY <1>1 DEF PingTimer
<1>3. CASE ping_in_flight
  BY <1>2, <1>3 DEF PingTimer, handle_ping, SilenceInvariant, SilenceKept
<1>4. CASE ~ping_in_flight
  <2>1. transmit_packet(in_flight, Ping, TRUE) /\ ping_in_flight' = TRUE
    BY <1>4 DEF PingTimer, handle_ping
  <2>2. AllLive(in_flight')
    BY <1>1, <2>1, TransmitLives
  <2>3. Within(in_flight', silence)
    BY <1>1, <1>4, <2>2, Early DEF SilenceInvariant
  <2> QED
    BY <1>2, <2>1, <2>2, <2>3 DEF SilenceKept
<1> QED
  BY <1>3, <1>4

\* Time that is spent delivering a response is not spent listening.
LEMMA TickSilence ==
  ASSUME CodeValues, SilenceInvariant, Tick
  PROVE  SilenceKept
<1>1. IsFlight(in_flight) /\ silence \in Nat /\ next_ping \in Int /\ AllLive(in_flight)
      /\ PingInterval \in Nat /\ WindowInvariant
  BY ConnectionAssumption DEF SilenceInvariant, WindowInvariant, TypeOK, IsFlight
<1>2. DOMAIN in_flight' = DOMAIN in_flight
  BY DEF Tick
<1>3. ASSUME NEW id \in DOMAIN in_flight
      PROVE  /\ Lives(in_flight'[id])
             /\ in_flight'[id].is_ping = in_flight[id].is_ping
             /\ Rest(in_flight'[id]) <= Rest(in_flight[id])
             /\ in_flight[id].timeout_at > 0
                  => Rest(in_flight'[id]) + 1 <= Rest(in_flight[id])
  <2> DEFINE p == in_flight[id]
             q == in_flight'[id]
             d == Doublings(p.retransmission_count) * p.timeout
  <2>1. Lives(p) /\ p \in InFlightPacket
    BY <1>1 DEF AllLive, Lives
  <2>2. q = [p EXCEPT !.timeout_at = IF @ > 0 THEN @ - 1 ELSE 0]
    BY DEF Tick
  <2>3. /\ q \in InFlightPacket /\ q.is_ping = p.is_ping /\ q.timeout = p.timeout
        /\ q.retransmission_count = p.retransmission_count
        /\ q.timeout_at = IF p.timeout_at > 0 THEN p.timeout_at - 1 ELSE 0
    BY <2>1, <2>2 DEF InFlightPacket
  <2> HIDE DEF q
  <2>4. Rest(p) = p.timeout_at + d /\ Rest(q) = q.timeout_at + d
    BY <2>3 DEF Rest
  <2>5. p.timeout_at \in Nat /\ d \in Nat /\ Span \in Nat /\ Rest(p) <= Span
        /\ p.retransmission_count <= MaxRetransmit
    <3>1. p.timeout_at \in Nat /\ p.timeout \in Nat
          /\ Doublings(p.retransmission_count) \in Nat
      BY <2>1, RestIs, Powers
    <3> QED
      BY <2>1, <3>1, SpanIs DEF Lives
  <2> HIDE DEF d
  <2>6. Rest(q) <= Rest(p) /\ (p.timeout_at > 0 => Rest(q) + 1 <= Rest(p)) /\ Rest(q) <= Span
    BY <2>3, <2>4, <2>5
  <2> QED
    BY <2>3, <2>5, <2>6 DEF Lives, q
<1>4. AllLive(in_flight')
  BY <1>2, <1>3 DEF AllLive
<1>5. CASE delivering
  <2>1. silence' = silence /\ next_ping' = next_ping - 1 /\ ping_in_flight' = ping_in_flight
    BY <1>5 DEF Tick
  <2>2. Within(in_flight', silence)
    BY <1>1, <1>2, <1>3, <1>4, NoWorse DEF SilenceInvariant
  <2> QED
    BY <1>1, <1>4, <2>1, <2>2 DEF SilenceInvariant, SilenceKept
<1>6. CASE ~delivering
  <2>1. silence' = silence + 1 /\ next_ping' = next_ping - 1 /\ ping_in_flight' = ping_in_flight
        /\ NothingElseDue /\ next_ping > 0
    BY <1>6 DEF Tick
  <2>2. Within(in_flight', silence + 1)
    BY <1>1, <1>2, <1>3, <1>4, <2>1, TickWithin DEF SilenceInvariant
  <2> QED
    BY <1>1, <1>4, <2>1, <2>2 DEF SilenceInvariant, SilenceKept
<1> QED
  BY <1>5, <1>6

\* Every step keeps the bound.
LEMMA NextSilence ==
  ASSUME CodeValues, SilenceInvariant, [Next /\ IdIsFree]_vars
  PROVE  SilenceKept
<1>1. CASE UNCHANGED <<in_flight, ping_in_flight, next_ping, silence>>
  BY <1>1 DEF SilenceInvariant, SilenceKept
<1>2. CASE \/ \E p \in Packets : Submit(p)
           \/ TakeResponse \/ DeliverResponse \/ Reconnect \/ UNCHANGED vars
  BY <1>1, <1>2 DEF Submit, TakeResponse, DeliverResponse, Reconnect, sender, loop, vars
<1>3. ASSUME NEW is_empty \in BOOLEAN, IncomingMessage(is_empty) PROVE SilenceKept
  <2>1. /\ UNCHANGED <<in_flight, ping_in_flight, next_ping>> /\ silence' = 0
        /\ next_ping \in Int /\ AllLive(in_flight)
    BY <1>3 DEF IncomingMessage, sender, SilenceInvariant, WindowInvariant, TypeOK
  <2>2. Within(in_flight, 0)
    BY <2>1, Early, ConnectionAssumption
  <2> QED
    BY <2>1, <2>2, ConnectionAssumption DEF SilenceInvariant, SilenceKept
<1>4. CASE TlsError
  BY <1>4, ShutdownSilence DEF TlsError
<1> QED
  BY <1>2, <1>3, <1>4, ReplySilence, OutgoingSilence, TimeoutSilence, PingSilence, TickSilence
     DEF Next

\* What is left until the peer is noticed is bounded in every state.
LEMMA SilenceInductive ==
  ASSUME CodeValues
  PROVE  Spec => []SilenceInvariant
<1>1. Init => SilenceInvariant
  <2> SUFFICES ASSUME Init PROVE SilenceInvariant
    OBVIOUS
  <2>1. WindowInvariant
    BY InitType, NothingKeeps DEF WindowInvariant, Init
  <2>2. in_flight = Nothing /\ silence = 0 /\ next_ping = PingInterval
    BY DEF Init
  <2>3. AllLive(in_flight) /\ Within(in_flight, silence)
    BY <2>2, NothingIsFlight DEF AllLive, Within, Pings
  <2> QED
    BY <2>1, <2>2, <2>3, ConnectionAssumption DEF SilenceInvariant
<1>2. SilenceInvariant /\ [Next /\ IdIsFree]_vars => SilenceInvariant'
  <2> SUFFICES ASSUME SilenceInvariant, [Next /\ IdIsFree]_vars PROVE SilenceInvariant'
    OBVIOUS
  <2>1. WindowInvariant'
    BY NextType, NextWindow DEF SilenceInvariant, WindowInvariant
  <2>2. SilenceKept
    BY NextSilence
  <2>3. AllLive(in_flight)' /\ Within(in_flight, silence)'
    BY <2>2 DEF SilenceKept, AllLive, Within, Pings, Requests
  <2> QED
    BY <2>1, <2>2, <2>3 DEF SilenceInvariant, SilenceKept
<1> QED
  BY <1>1, <1>2, PTL DEF Spec

\* With the NSTART and the retransmissions of the code, a peer that has fallen silent is
\* noticed within a ping interval and two retransmission spans, for all timeouts,
\* ping intervals and id spaces, wherever the ids are when they wrap (coap.rs
\* 117-138, 161-167, 318-366).
THEOREM SilenceIsBounded ==
  ASSUME NStart = 1, MaxRetransmit = 4,
         \E t \in AckTimeouts : \A u \in AckTimeouts : u <= t
  PROVE  Spec => []SilenceBounded
<1>1. CodeValues
  BY DEF CodeValues
<1>2. SilenceInvariant => SilenceBounded
  <2> SUFFICES ASSUME SilenceInvariant PROVE silence <= PingInterval + 2 * Span
    BY <1>1 DEF SilenceBounded, CodeValues
  <2>1. Span \in Nat /\ PingInterval \in Nat /\ silence \in Nat
    BY <1>1, SpanIs, ConnectionAssumption DEF SilenceInvariant, WindowInvariant, TypeOK
  <2>2. CASE ~ping_in_flight
    BY <2>1, <2>2 DEF SilenceInvariant
  <2>3. CASE ping_in_flight
    <3>1. PICK p \in Pings(in_flight) : silence + Rest(in_flight[p]) <= Limit
      BY <2>3 DEF SilenceInvariant, WindowInvariant, OnePing, Within
    <3>2. Rest(in_flight[p]) \in Nat
      BY <1>1, RestIs DEF SilenceInvariant, AllLive, Pings
    <3> QED
      BY <2>1, <3>1, <3>2 DEF Limit
  <2> QED
    BY <2>2, <2>3
<1> QED
  BY <1>1, <1>2, SilenceInductive, PTL
=============================================================================
