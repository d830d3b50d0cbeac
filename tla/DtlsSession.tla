----------------------------- MODULE DtlsSession -----------------------------
(***************************************************************************)
(* The handshake of the DTLS session with the server: the future that      *)
(* drives it (src/src/net/tls.rs 200-270) and the client of wolfSSL 5.8.2  *)
(* under it (dtls13.c, tls13.c, internal.c), with its flights, its timer,  *)
(* its retransmissions and its acknowledgements, over a UDP socket that    *)
(* may refuse to send and a network that loses, reorders and duplicates.   *)
(*                                                                         *)
(* A poll of the future is one step: wolfSSL is called, the calls it makes *)
(* are made in their order, and it returns as soon as one of them fails.   *)
(* A record is one datagram; EncryptedExtensions to CertificateVerify are  *)
(* one message, CERT, and so are Certificate and CertificateVerify.  The   *)
(* server is external and honest: it accepts the messages of the client in *)
(* order, sends each of its own more than once, and acknowledges.          *)
(***************************************************************************)
EXTENDS Dtls13Record, Sequences, SequencesExt, FiniteSets

CONSTANTS
  RnSize,         \* DTLS13_RETRANS_RN_SIZE: numbers remembered for a message (3)
  MaxLevel,       \* times dtls_timeout is doubled, 1 s to 64 s (6)
  MaxTrouble,     \* bound: sends the socket refuses, datagrams the network
                  \* delivers again and messages the server sends again
  MaxAcks         \* bound: acknowledgements of the server

ASSUME SessionAssumption ==
  /\ RnSize \in Nat \ {0}
  /\ {MaxLevel, MaxTrouble, MaxAcks} \subseteq Nat

VARIABLES
  future,          \* ConnectionConnectFuture: "connecting", "ok" or "error"
  ssl,             \* the WOLFSSL of the client, see Init
  peer,            \* epoch -> what has been received of it
  server,          \* retry, got, seen, acked, next, sent, resends, acks, silent
  to_server, to_client,        \* datagrams under way
  faults, duplicates,
  accepted,        \* history: epoch -> numbers that have been processed
  carries,         \* history: server's record -> number of its message
  acknowledged     \* history: the server's records the client acknowledged

history == <<accepted, carries, acknowledged>>
vars == <<future, ssl, peer, server, to_server, to_client, faults, duplicates, history>>

-----------------------------------------------------------------------------
(* Messages                                                                 *)

Epochs == {0, 2, 3}    \* plaintext, handshake, traffic

\* The messages of each side, in order, numbered from zero.  The server may ask
\* for a second ClientHello.
Flights == IF server.retry THEN <<"HRR", "SH", "CERT", "FIN">> ELSE <<"SH", "CERT", "FIN">>
Hellos == IF server.retry THEN 2 ELSE 1
Answers == (IF server.retry THEN <<"CH", "CH">> ELSE <<"CH">>) \o <<"CERT", "FIN">>
FlightEpoch(no) == IF Flights[no + 1] \in {"HRR", "SH"} THEN 0 ELSE 2

\* serverState, in the order of the enumeration.
NULL_STATE == 0
SERVER_HELLO_RETRY_REQUEST_COMPLETE == 1
SERVER_HELLO_COMPLETE == 2
SERVER_FINISHED_COMPLETE == 3
SERVER_FINISHED_ACKED == 4
StateAfter(no) ==
  CASE Flights[no + 1] = "HRR" -> SERVER_HELLO_RETRY_REQUEST_COMPLETE
    [] Flights[no + 1] \in {"SH", "CERT"} -> SERVER_HELLO_COMPLETE
    [] Flights[no + 1] = "FIN" -> SERVER_FINISHED_COMPLETE

Waiting == {"CLIENT_HELLO_SENT", "HELLO_AGAIN_REPLY", "WAIT_FINISHED_ACK"}

Handshake(e, n, kind, no) ==
  [epoch |-> e, seq |-> n, type |-> kind, no |-> no, acks |-> {}]
Ack(e, n, rns) == [epoch |-> e, seq |-> n, type |-> "ack", no |-> 0, acks |-> rns]

Number(r) == <<r.epoch, r.seq>>

\* error: what the call in progress has failed with; the socket takes `room`
\* more datagrams, then fails with `fault`; `sent` is what it has taken.
Init ==
  /\ future = "connecting"
  /\ ssl = [connectState |-> "CONNECT_BEGIN", serverState |-> NULL_STATE,
            dtls_handshake_number |-> 0, expected |-> 0, rx_msgs |-> {},
            rtx |-> <<>>, seenRecords |-> {}, sendAcks |-> FALSE,
            retransmit |-> FALSE, FastTimeout |-> FALSE,
            SendingAckOrRtx |-> FALSE, seenUnifiedHdr |-> FALSE,
            handShakeDone |-> FALSE, level |-> 0, hellos |-> 0,
            nextSeq |-> [e \in Epochs |-> 0], outputBuffer |-> <<>>,
            error |-> "none", room |-> 0, fault |-> "none", sent |-> {}]
  /\ peer = [e \in Epochs |-> FreshEpoch]
  /\ \E retry \in BOOLEAN :
     server = [retry |-> retry, got |-> 0, seen |-> {}, acked |-> {}, next |-> [e \in Epochs |-> 0],
               sent |-> {}, resends |-> 0, acks |-> 0, silent |-> FALSE]
  /\ to_server = {} /\ to_client = {}
  /\ faults = 0 /\ duplicates = 0
  /\ accepted = [e \in Epochs |-> {}]
  /\ carries = {} /\ acknowledged = {}

-----------------------------------------------------------------------------
(* wolfSSL: sending.  Every operator takes the state of the session and     *)
(* returns the one that follows.                                            *)

Fine(s) == s.error = "none"
Refused == -1

\* dtls13Epoch: the epoch of what is sent.
dtls13Epoch(s) ==
  IF s.handShakeDone THEN 3
  ELSE IF s.serverState >= SERVER_HELLO_COMPLETE THEN 2 ELSE 0

\* What the socket does not take stays in the output buffer.
SendBuffered(s) ==
  IF s.outputBuffer = <<>> THEN s
  ELSE IF s.room <= 0 THEN [s EXCEPT !.error = s.fault, !.room = Refused]
  ELSE [s EXCEPT !.room = @ - 1, !.sent = @ \cup ToSet(s.outputBuffer),
                 !.outputBuffer = <<>>]

\* A record takes a number when it is built.
SendRecord(s, r) ==
  SendBuffered([s EXCEPT !.nextSeq[r.epoch] = @ + 1,
                         !.outputBuffer = Append(@, r)])

SendDtls13Ack(s) ==
  LET e == dtls13Epoch(s)
  IN [SendRecord(s, Ack(e, s.nextSeq[e], s.seenRecords)) EXCEPT !.seenRecords = {}]

\* The number of one more transmission; the list starts over when it is full.
Track(r, n) ==
  [r EXCEPT !.rns = IF Len(@) >= RnSize THEN <<n>> ELSE Append(@, n)]

\* One message again.  If the socket is full it goes to the end of the list,
\* the next retransmission begins with another one.
ResendRecord(s, k) ==
  LET r == s.rtx[k]
      n == s.nextSeq[r.epoch]
      t == SendRecord(s, Handshake(r.epoch, n, r.kind, r.no))
  IN CASE ~Fine(s) -> s
       [] Fine(s) /\ Fine(t) -> [t EXCEPT !.rtx[k] = Track(r, n)]
       [] Fine(s) /\ t.error = "WANT_WRITE" ->
            [t EXCEPT !.rtx = Append(RemoveAt(s.rtx, k), Track(r, n))]
       [] OTHER -> t

\* The whole list again, as it is when this begins.
Dtls13RtxSendBuffered(s) ==
  LET after[k \in 0 .. Len(s.rtx)] ==
        IF k = 0 THEN s ELSE ResendRecord(after[k - 1], k)
  IN after[Len(s.rtx)]

\* Mutant: a message that the socket has not taken yet is not kept.
Dtls13HandshakeSend_lost_when_blocked(s, kind) ==
  LET e == dtls13Epoch(s)
      n == s.nextSeq[e]
      no == s.dtls_handshake_number
      t == SendRecord([s EXCEPT !.seenRecords = {}], Handshake(e, n, kind, no))
  IN [t EXCEPT !.dtls_handshake_number = @ + 1,
               !.rtx = IF Fine(t) THEN Append(@, [epoch |-> e, kind |-> kind, no |-> no,
                                                  rns |-> <<n>>]) ELSE @]

\* A new message.  It flushes the list of numbers to acknowledge, which its
\* arrival implies, and is kept for retransmission unless the send failed.
Dtls13HandshakeSend(s, kind) ==
  LET e == dtls13Epoch(s)
      n == s.nextSeq[e]
      no == s.dtls_handshake_number
      t == SendRecord([s EXCEPT !.seenRecords = {}], Handshake(e, n, kind, no))
  IN IF t.error \in {"none", "WANT_WRITE"}
     THEN [t EXCEPT !.rtx = Append(@, [epoch |-> e, kind |-> kind, no |-> no,
                                       rns |-> <<n>>]),
                    !.dtls_handshake_number = @ + 1]
     ELSE t

SendTls13ClientHello(s) ==
  [Dtls13HandshakeSend(s, "CH") EXCEPT !.hellos = @ + 1]

\* An error of the socket is not returned, and the session does not move to the
\* epoch of the traffic then.
SendTls13Finished(s) ==
  LET t == Dtls13HandshakeSend(s, "FIN")
  IN IF t.error \in {"none", "WANT_WRITE"} THEN [t EXCEPT !.handShakeDone = TRUE]
     ELSE [t EXCEPT !.error = "none"]

\* Mutant: after the last doubling the timer is fast again, for ever.
Dtls13RtxTimeout_never_gives_up(s) ==
  IF s.FastTimeout THEN [s EXCEPT !.FastTimeout = FALSE]
  ELSE IF s.level = MaxLevel THEN [s EXCEPT !.FastTimeout = TRUE]
  ELSE Dtls13RtxSendBuffered([s EXCEPT !.level = @ + 1])

\* Dtls13RtxTimeout.  When there is something to acknowledge FastTimeout is
\* cleared, so that a fast timer retransmits as well.
Dtls13RtxTimeout(s) ==
  LET mayAck == s.seenRecords # {}
                /\ (s.serverState >= SERVER_HELLO_COMPLETE \/ s.seenUnifiedHdr)
      a == IF mayAck
           THEN SendDtls13Ack([s EXCEPT !.sendAcks = FALSE, !.FastTimeout = FALSE])
           ELSE s
  IN IF ~Fine(a) THEN a
     ELSE IF a.FastTimeout THEN [a EXCEPT !.FastTimeout = FALSE]
     ELSE IF a.level = MaxLevel THEN [a EXCEPT !.error = "FATAL"]
     ELSE Dtls13RtxSendBuffered([a EXCEPT !.level = @ + 1])

\* After each datagram that was processed.
Dtls13DoScheduledWork(s) ==
  LET begun == [s EXCEPT !.SendingAckOrRtx = TRUE, !.sendAcks = FALSE]
      a == IF s.sendAcks THEN SendDtls13Ack(begun) ELSE begun
      b == IF Fine(a) /\ a.retransmit
           THEN Dtls13RtxSendBuffered([a EXCEPT !.retransmit = FALSE]) ELSE a
  IN [b EXCEPT !.SendingAckOrRtx = ~Fine(b)]

-----------------------------------------------------------------------------
(* wolfSSL_connect_TLSv13                                                   *)

\* The stage after the one whose message has been sent.
Following(stage) ==
  CASE stage = "CONNECT_BEGIN" -> "CLIENT_HELLO_SENT"
    [] stage = "HELLO_AGAIN" -> "HELLO_AGAIN_REPLY"
    [] stage = "FIRST_REPLY_SECOND" -> "FIRST_REPLY_FOURTH"
    [] stage = "FIRST_REPLY_FOURTH" -> "WAIT_FINISHED_ACK"

Sending == {"CONNECT_BEGIN", "HELLO_AGAIN", "FIRST_REPLY_SECOND", "FIRST_REPLY_FOURTH"}

Advance(s) == [s EXCEPT !.connectState = Following(@)]

\* Mutant: output that was left over always completes a stage.
FlushOutput_always_advances(s) ==
  LET t == SendBuffered(s)
      u == [t EXCEPT !.SendingAckOrRtx = FALSE]
  IN IF s.outputBuffer = <<>> \/ ~Fine(t) THEN t
     ELSE IF s.connectState = "HELLO_AGAIN_REPLY"
          THEN [u EXCEPT !.connectState = "FIRST_REPLY_SECOND"]
     ELSE IF s.connectState \in Sending THEN Advance(u) ELSE u

\* First the output that was left over.  If it was the message of the current
\* stage, and not an acknowledgement or a retransmission, the stage is complete.
FlushOutput(s) ==
  LET t == SendBuffered(s)
      u == [t EXCEPT !.SendingAckOrRtx = FALSE]
  IN IF s.outputBuffer = <<>> \/ ~Fine(t) THEN t
     ELSE IF s.connectState \in Sending /\ ~s.SendingAckOrRtx THEN Advance(u) ELSE u

\* The message of a stage; the stage is complete if it was sent.
Send(s, stage, t) ==
  IF Fine(s) /\ s.connectState = stage
  THEN IF Fine(t) THEN Advance(t) ELSE t
  ELSE s

\* The messages of the server that a stage waits for have been processed.
Await(s, stage, state, next) ==
  IF Fine(s) /\ s.connectState = stage /\ s.serverState >= state
  THEN [s EXCEPT !.connectState = next] ELSE s

HelloAgain(s) ==
  IF Fine(s) /\ s.connectState = "HELLO_AGAIN"
     /\ s.serverState # SERVER_HELLO_RETRY_REQUEST_COMPLETE
  THEN Advance(s)
  ELSE Send(s, "HELLO_AGAIN", SendTls13ClientHello(s))

\* The switch: from the current stage through all those that need not wait.
Stages(s) ==
  LET a == Send(s, "CONNECT_BEGIN", SendTls13ClientHello(s))
      b == Await(a, "CLIENT_HELLO_SENT", SERVER_HELLO_RETRY_REQUEST_COMPLETE, "HELLO_AGAIN")
      c == HelloAgain(b)
      d == Await(c, "HELLO_AGAIN_REPLY", SERVER_FINISHED_COMPLETE, "FIRST_REPLY_SECOND")
      e == Send(d, "FIRST_REPLY_SECOND", Dtls13HandshakeSend(d, "CERT"))
      f == Send(e, "FIRST_REPLY_FOURTH", SendTls13Finished(e))
  IN Await(f, "WAIT_FINISHED_ACK", SERVER_FINISHED_ACKED, "FINISHED_DONE")

wolfSSL_connect(s) ==
  LET t == FlushOutput(s) IN IF Fine(t) THEN Stages(t) ELSE t

-----------------------------------------------------------------------------
(* ProcessReply                                                             *)

\* Keys of the epoch exist; those of the handshake are the server's only if the
\* two agree on what has been said.
HasKeys(s, e) ==
  \/ e = 2 /\ s.serverState >= SERVER_HELLO_COMPLETE
  \/ e = 3 /\ s.serverState >= SERVER_FINISHED_COMPLETE

\* A record that is dropped for its header: no keys for it yet, or plaintext
\* when it is too late for that.
DropsHeader(s, r) ==
  IF r.epoch = 0 THEN s.handShakeDone \/ dtls13Epoch(s) # 0 ELSE ~HasKeys(s, r.epoch)

\* The header is read: a protected record before the ServerHello is answered
\* with an empty acknowledgement, to make the server send it again.
GetDtlsRecordHeader(s, r) ==
  IF r.epoch = 0 THEN s
  ELSE [s EXCEPT !.seenUnifiedHdr = TRUE,
                 !.sendAcks = @ \/ (~HasKeys(s, r.epoch)
                                    /\ s.serverState < SERVER_HELLO_COMPLETE)]

Decrypts(s, r) ==
  r.epoch # 0 =>
    /\ s.hellos = Hellos
    /\ ReconstructSeqNumber(peer[r.epoch].next, r.seq % SeqModulus) = r.seq

\* Mutant: the first acknowledgement ends the handshake.
DoDtls13Ack_of_anything(s, r) ==
  IF s.connectState = "WAIT_FINISHED_ACK"
  THEN [s EXCEPT !.serverState = SERVER_FINISHED_ACKED] ELSE s

\* One of the transmissions of a message is among the numbers.
Dtls13RtxIsTrackedByRn(m, rns) == \E i \in DOMAIN m.rns : <<m.epoch, m.rns[i]>> \in rns

\* The list without the messages that are acknowledged.  A number was used for one
\* record: to remove the first message it is of is to remove all.
Dtls13RtxRemoveRecords(list, rns) ==
  LET kept[k \in 0 .. Len(list)] ==
        IF k = 0 THEN <<>>
        ELSE IF Dtls13RtxIsTrackedByRn(list[k], rns) THEN kept[k - 1] ELSE Append(kept[k - 1], list[k])
  IN kept[Len(list)]

\* What is acknowledged is not sent again, and what is missing is.  When nothing
\* is left of the last flight the handshake is complete.
DoDtls13Ack(s, r) ==
  LET rtx == Dtls13RtxRemoveRecords(s.rtx, r.acks)
  IN [s EXCEPT !.rtx = rtx,
               !.retransmit = @ \/ rtx # <<>>,
               !.serverState = IF s.connectState = "WAIT_FINISHED_ACK" /\ rtx = <<>>
                               THEN SERVER_FINISHED_ACKED ELSE @]

\* Dtls13RtxMsgRecvd: a message of the next flight implies that ours arrived.
RtxMsgRecvd(s, r) ==
  IF r.no >= s.expected
  THEN IF ~s.handShakeDone /\ (s.serverState >= SERVER_HELLO_COMPLETE \/ s.seenUnifiedHdr)
       THEN [s EXCEPT !.rtx = <<>>] ELSE s
  ELSE [s EXCEPT !.retransmit = TRUE, !.sendAcks = @ \/ s.seenRecords # {}]

\* Mutant: a message that is not the next one is not kept.
Dtls13HandshakeRecv_in_order_only(s, r) ==
  LET t == RtxMsgRecvd(s, r)
  IN IF r.no # s.expected THEN t
     ELSE [t EXCEPT !.expected = r.no + 1, !.serverState = StateAfter(r.no),
                    !.sendAcks = FALSE]

\* The message is stored, and the messages that are complete are processed in
\* their order.
Dtls13HandshakeRecv(s, r) ==
  LET t == RtxMsgRecvd(s, r)
      stored == s.rx_msgs \cup {r.no}
      next == CHOOSE n \in s.expected .. Len(Flights) :
                n \notin stored /\ s.expected .. n - 1 \subseteq stored
  IN IF r.no < s.expected THEN t
     ELSE [t EXCEPT !.rx_msgs = stored \ (0 .. next - 1),
                    !.expected = next,
                    !.serverState = IF next > s.expected THEN StateAfter(next - 1) ELSE @,
                    !.sendAcks = @ /\ next = s.expected]

\* A record that was decrypted and is new.
ProcessRecord(s, r) ==
  IF r.type = "ack" THEN DoDtls13Ack(s, r)
  ELSE Dtls13HandshakeRecv([s EXCEPT !.FastTimeout = TRUE,
                                     !.seenRecords = @ \cup {Number(r)}], r)

-----------------------------------------------------------------------------
(* The polls of the future                                                  *)

Trouble == faults + duplicates + server.resends

\* What the socket does during a poll: it takes everything, or it refuses.
Plenty == [room |-> 2 * (Len(Answers) + Len(Flights) + 4), fault |-> "none"]
Outcomes ==
  {Plenty} \cup
  IF Trouble < MaxTrouble
  THEN [room : 0 .. Len(Answers), fault : {"WANT_WRITE", "SOCKET_ERROR_E"}] ELSE {}

Acks(rs) == UNION {r.acks : r \in rs}

AckedMessages(r) == {c[3] : c \in {d \in carries : <<d[1], d[2]>> \in r.acks}}

\* Datagrams that their receiver would ignore are not kept: it is as if they
\* were lost.  Those of the same plaintext message are the same to the server.
ForServer(sv, rs) ==
  {r \in rs :
     /\ ~sv.silent
     /\ IF r.type = "ack" THEN ~(AckedMessages(r) \subseteq sv.acked)
        ELSE \/ r.no >= sv.got
             \/ r.epoch # 0 /\ sv.acks < MaxAcks /\ Number(r) \notin sv.seen
     /\ r.epoch = 0 => \A q \in rs : q.epoch = 0 /\ q.no = r.no => q.seq >= r.seq}

ForClient(s, p, rs) ==
  {r \in rs : CheckWindow(p[r.epoch], r.seq) /\ (r.epoch = 0 => ~DropsHeader(s, r))}

\* The call s returns, or the future does.
Return(s) ==
  /\ future' = IF s.error \notin {"none", "WANT_WRITE"} THEN "error"
               ELSE IF s.connectState = "FINISHED_DONE" THEN "ok" ELSE "connecting"
  /\ ssl' = [s EXCEPT !.error = "none", !.room = 0, !.fault = "none", !.sent = {}]
  /\ to_server' = ForServer(server, to_server \cup s.sent)
  /\ acknowledged' = acknowledged \cup Acks(s.sent)

Called(io) == [ssl EXCEPT !.room = io.room, !.fault = io.fault]

\* s is what the session makes of a poll in which the socket behaves as io says.
Polled(io, s) ==
  /\ io # Plenty => s.room = Refused
  /\ Return(s)
  /\ faults' = IF io = Plenty THEN faults ELSE faults + 1

\* The socket can be written to, or it is the first poll.
Poll ==
  /\ future = "connecting"
  /\ \E io \in Outcomes :
       Polled(io, wolfSSL_connect(Called(io)))
  /\ UNCHANGED <<peer, server, to_client, duplicates, accepted, carries>>

\* Something has been sent, or tried to be.
TimerRuns == ssl.connectState # "CONNECT_BEGIN" \/ ssl.outputBuffer # <<>>

\* The timer has expired: wolfSSL_dtls_got_timeout, and connect unless it fails.
\* That it fails because the socket is full ends the handshake too.
Timeout ==
  /\ future = "connecting"
  /\ TimerRuns
  /\ \E io \in Outcomes :
       LET t == Dtls13RtxTimeout(Called(io))
       IN Polled(io, IF Fine(t) THEN wolfSSL_connect(t)
                     ELSE [t EXCEPT !.error = "FATAL"])
  /\ UNCHANGED <<peer, server, to_client, duplicates, accepted, carries>>

\* What the handshake makes of a datagram: all that follows from its message, or
\* nothing if it is dropped, save for what its header shows.  ProcessReply returns
\* for one that does not decrypt, so that pending work is done, but not for one
\* that comes again.
Processed(s, r, isNew) ==
  IF DropsHeader(s, r) THEN IF s.sendAcks THEN Dtls13DoScheduledWork(s) ELSE s
  ELSE IF isNew THEN Dtls13DoScheduledWork(ProcessRecord(s, r))
  ELSE IF Decrypts(s, r) THEN s ELSE Dtls13DoScheduledWork(s)

\* A datagram arrives while the handshake waits for one.
Receive ==
  /\ future = "connecting"
  /\ ssl.connectState \in Waiting /\ ssl.outputBuffer = <<>>
  /\ \E r \in to_client, io \in Outcomes :
       LET h == GetDtlsRecordHeader(Called(io), r)
           isNew == ~DropsHeader(h, r) /\ Decrypts(h, r)
                    /\ CheckWindow(peer[r.epoch], r.seq)
           t == Processed(h, r, isNew)
       IN
       /\ Polled(io, IF Fine(t) THEN Stages(t) ELSE t)
       /\ IF isNew
          THEN /\ peer' = [peer EXCEPT ![r.epoch] = UpdateWindow(@, r.seq)]
               /\ accepted' = [accepted EXCEPT ![r.epoch] = @ \cup {r.seq}]
          ELSE UNCHANGED <<peer, accepted>>
       /\ \/ to_client' = ForClient(ssl', peer', to_client \ {r}) /\ UNCHANGED duplicates
          \/ /\ Trouble < MaxTrouble
             /\ duplicates' = duplicates + 1 /\ to_client' = ForClient(ssl', peer', to_client)
  /\ UNCHANGED <<server, carries>>

-----------------------------------------------------------------------------
(* The server (external)                                                    *)

Done == server.got = Len(Answers)

\* Its next flight answers what it has got of the client.
Released(no) ==
  IF Flights[no + 1] = "HRR" THEN server.got = 1 ELSE Hellos <= server.got

\* A message it does not expect makes it give the handshake up; whatever it has
\* already got is acknowledged again.
ServerReceive ==
  /\ ~server.silent
  /\ \E r \in to_server :
       /\ LET seen == IF r.epoch = 2 THEN server.seen \cup {Number(r)} ELSE server.seen
          IN server' =
             IF r.type = "ack"
             THEN [server EXCEPT !.acked = @ \cup AckedMessages(r)]
             ELSE IF r.no < server.got THEN [server EXCEPT !.seen = seen]
             ELSE IF r.no > server.got \/ Done THEN server
             ELSE IF r.type = Answers[r.no + 1]
             THEN [server EXCEPT !.got = @ + 1, !.seen = seen]
             ELSE [server EXCEPT !.silent = TRUE]
       /\ to_server' = ForServer(server', to_server \ {r})
  /\ UNCHANGED <<future, ssl, peer, to_client, faults, duplicates, history>>

\* The client's Certificate implies that it has the whole flight.
Outstanding ==
  {no \in 0 .. Len(Flights) - 1 :
     Released(no) /\ no \notin server.acked /\ server.got <= Hellos}

ServerSend ==
  /\ ~server.silent
  /\ \E no \in Outstanding :
       LET e == FlightEpoch(no)
           n == server.next[e]
           again == IF no \in server.sent THEN 1 ELSE 0 IN
       /\ again = 1 => Trouble < MaxTrouble
       /\ server' = [server EXCEPT !.sent = @ \cup {no}, !.resends = @ + again,
                                   !.next[e] = @ + 1]
       /\ to_client' = ForClient(ssl, peer, to_client) \cup {Handshake(e, n, Flights[no + 1], no)}
       /\ carries' = carries \cup {<<e, n, no>>}
  /\ UNCHANGED <<future, ssl, peer, to_server, faults, duplicates, accepted, acknowledged>>

ServerAck ==
  /\ ~server.silent /\ server.seen # {} /\ server.acks < MaxAcks
  /\ LET e == IF Done THEN 3 ELSE 2
         n == server.next[e] IN
     /\ server' = [server EXCEPT !.acks = @ + 1, !.next[e] = @ + 1, !.seen = {}]
     /\ to_client' = to_client \cup {Ack(e, n, server.seen)}
  /\ UNCHANGED <<future, ssl, peer, to_server, faults, duplicates, history>>

-----------------------------------------------------------------------------
Client == Poll \/ Timeout \/ Receive
Server == ServerReceive \/ ServerSend \/ ServerAck

Next == future = "connecting" /\ (Client \/ Server)

Spec == Init /\ [][Next]_vars

\* The executor polls a new future, and again whenever its timer has expired.
\* The server may do nothing and the network may lose everything.  This is weak
\* fairness of <<Poll>>_vars and <<Timeout>>_vars, with the states in which they
\* are enabled written out.
Unpolled == future = "connecting" /\ ~TimerRuns
FairSpec ==
  /\ Spec
  /\ []<>~Unpolled \/ []<><<Poll>>_vars
  /\ []<>(~TimerRuns \/ future # "connecting") \/ []<><<Timeout>>_vars

-----------------------------------------------------------------------------
TypeOK ==
  /\ future \in {"connecting", "ok", "error"}
  /\ ssl.connectState \in Sending \cup Waiting \cup {"FINISHED_DONE"}
  /\ ssl.serverState \in NULL_STATE .. SERVER_FINISHED_ACKED
  /\ ssl.expected \in 0 .. Len(Flights) /\ ssl.rx_msgs \subseteq 1 .. Len(Flights)
  /\ ssl.level \in 0 .. MaxLevel
  /\ peer \in [Epochs -> [next : Nat, window : [0 .. Words - 1 -> SUBSET (0 .. WordBits - 1)]]]

(* Safety                                                                   *)

\* The window of every epoch is exactly the set of the records that have been
\* processed, as far back as it reaches, whatever order they came in: no record
\* is taken twice and none is refused for another (internal.c 18466-18505,
\* 18532-18560, 18722-18776).
WindowExact == \A e \in Epochs : Exact(peer[e], accepted[e])

\* A record of the server that the client has acknowledged carries a message
\* that is processed or stored: the server will not send it again (dtls13.c
\* 1527-1542, 1848-1884, 2850-2920).
NothingAckedIsLost ==
  \A c \in carries :
    <<c[1], c[2]>> \in acknowledged => c[3] < ssl.expected \/ c[3] \in ssl.rx_msgs

\* The handshake cannot stand still with both sides waiting: the client has
\* something to retransmit or to write, or the server still has a message that
\* the client lacks and has not been told that it arrived (dtls13.c 874-935,
\* 2784-2848).
SomebodyRetransmits ==
  future = "connecting" /\ ssl.connectState \in Waiting =>
    \/ ssl.rtx # <<>> \/ ssl.outputBuffer # <<>>
    \/ \E no \in Outstanding : no >= ssl.expected

\* Nothing of the client's last flight is sent before the whole flight of the
\* server has been processed (tls13.c 13166-13203, 13318-13341).
FlightsInOrder ==
  ssl.dtls_handshake_number > ssl.hellos => ssl.expected = Len(Flights)

\* When the future returns success the server has the client's last flight
\* (dtls13.c 2809-2816, tls13.c 13459-13473).
FinishedDelivered == future = "ok" /\ ssl.handShakeDone => Done

(* Liveness                                                                 *)

\* The future returns, with a session or an error, even if nothing ever arrives
\* (ssl.c 9924-9967, internal.c 9804-9814).
ConnectReturns == future = "connecting" ~> future # "connecting"
=============================================================================
