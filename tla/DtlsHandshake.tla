---------------------------- MODULE DtlsHandshake ----------------------------
(***************************************************************************)
(* What holds of DtlsSession between two steps and, taken together, holds  *)
(* after the next one: how far the handshake is, what the numbers of       *)
(* records and messages may be taken for, and who still owes what.  The    *)
(* properties of the session are read off HandshakeInv; DtlsSessionProofs  *)
(* proves that it always holds.                                            *)
(*                                                                         *)
(* s stands for a session: the one between two polls, ssl, or what a part  *)
(* of a poll makes of it.                                                  *)
(***************************************************************************)
EXTENDS DtlsSession

-----------------------------------------------------------------------------
(* Types                                                                    *)

SessionFields ==
  {"connectState", "serverState", "dtls_handshake_number", "expected", "rx_msgs", "hellos",
   "handShakeDone", "seenUnifiedHdr", "rtx", "seenRecords", "nextSeq", "outputBuffer", "sent",
   "error", "room", "fault", "sendAcks", "retransmit", "FastTimeout", "SendingAckOrRtx", "level"}

Numbers == Epochs \X Nat
Kinds == {"CH", "CERT", "FIN"}
Datagrams == [epoch : Epochs, seq : Nat, type : Kinds \cup {"ack"}, no : Nat, acks : SUBSET Numbers]
Entries == [epoch : Epochs, kind : Kinds, no : Nat, rns : Seq(Nat)]
Stage == Sending \cup Waiting \cup {"FINISHED_DONE"}

IsSession(s) ==
  /\ DOMAIN s = SessionFields
  /\ s.connectState \in Stage /\ s.serverState \in 0 .. 4
  /\ s.dtls_handshake_number \in Nat /\ s.hellos \in Nat /\ s.expected \in Nat
  /\ s.rx_msgs \in SUBSET Nat
  /\ s.rtx \in Seq(Entries) /\ s.seenRecords \in SUBSET Numbers
  /\ s.nextSeq \in [Epochs -> Nat]
  /\ s.outputBuffer \in Seq(Datagrams) /\ s.sent \in SUBSET Datagrams

ServerType ==
  server \in [retry : BOOLEAN, got : Nat, seen : SUBSET Numbers, acked : SUBSET Nat,
              next : [Epochs -> Nat], sent : SUBSET Nat, resends : Nat, acks : Nat,
              silent : BOOLEAN]

\* The numbers the server confirms, or may still confirm.
Confirmed == server.seen \cup UNION {r.acks : r \in to_client}

WireType ==
  /\ to_server \in SUBSET Datagrams /\ Confirmed \in SUBSET Numbers
  /\ server.got \in 0 .. Len(Answers)

-----------------------------------------------------------------------------
(* What the client has said                                                 *)

\* What a poll has written, and what it could not write.
Out(s) == ToSet(s.outputBuffer) \cup s.sent

\* The client's messages that may still reach the server.
Sent(s) == {r \in Out(s) \cup to_server : r.type # "ack"}

\* The client's messages, by number: those it keeps to send them again too.
Said(s) == {<<m.no, m.kind>> : m \in ToSet(s.rtx)} \cup {<<r.no, r.type>> : r \in Sent(s)}

TracksOne(m, x) == x[1] = m.epoch /\ x[2] \in ToSet(m.rns)

HasFin(s) == \E m \in ToSet(s.rtx) : m.kind = "FIN"

\* No record number is used twice, so an acknowledgement is taken for the message
\* whose record it names, and for no other: the server has that message.
Numbered(s) ==
  /\ \A m \in ToSet(s.rtx) : \A n \in ToSet(m.rns) : n < s.nextSeq[m.epoch]
  /\ \A r \in Sent(s) : r.seq < s.nextSeq[r.epoch]
  /\ \A m \in ToSet(s.rtx), r \in Sent(s) : TracksOne(m, Number(r)) => r.no = m.no
  /\ \A x \in Confirmed : x[2] < s.nextSeq[x[1]]
  /\ \A x \in Confirmed, m \in ToSet(s.rtx) : TracksOne(m, x) => m.no < server.got

-----------------------------------------------------------------------------
(* What the client has heard                                                *)

\* The numbers of the server's records that it has acknowledged or will.
AckNums(s) == s.seenRecords \cup UNION {r.acks : r \in Out(s)}

\* The client has the message, processed or stored.
Kept(s, no) == no < s.expected \/ no \in s.rx_msgs

\* What is acknowledged is kept.
Claim(s) ==
  /\ \A c \in carries : <<c[1], c[2]>> \in AckNums(s) \cup acknowledged => Kept(s, c[3])
  /\ \A x \in AckNums(s) \cup acknowledged : x[1] \in Epochs /\ x[2] \in Nat /\ x[2] < server.next[x[1]]

\* The client has what lets the server send this message.
ReleasedOnce(no) == server.got >= IF Flights[no + 1] = "HRR" THEN 1 ELSE Hellos

\* The records of the server, and what the client says of them.
Carried ==
  /\ \A c \in carries : /\ c[1] \in Epochs /\ c[2] \in Nat /\ c[2] < server.next[c[1]]
                        /\ c[3] \in 0 .. Len(Flights) - 1
  /\ \A c, d \in carries : c[1] = d[1] /\ c[2] = d[2] => c[3] = d[3]
  /\ \A r \in to_client :
       /\ r.epoch \in Epochs /\ r.seq \in Nat /\ r.seq < server.next[r.epoch]
       /\ r.type # "ack" => /\ <<r.epoch, r.seq, r.no>> \in carries
                            /\ r.epoch = FlightEpoch(r.no) /\ ReleasedOnce(r.no)
  /\ \A x \in Confirmed : x[1] = 2
  /\ \A r \in to_server : r.acks \subseteq acknowledged
  /\ \A no \in server.acked : \E c \in carries : c[3] = no /\ <<c[1], c[2]>> \in acknowledged

-----------------------------------------------------------------------------
(* How far the handshake is.  In the middle of a poll connectState may be   *)
(* behind: the stage is a parameter of its own                              *)

Early == {"CONNECT_BEGIN", "CLIENT_HELLO_SENT", "HELLO_AGAIN", "HELLO_AGAIN_REPLY"}
Late == {"WAIT_FINISHED_ACK", "FINISHED_DONE"}

\* A stage is entered when the messages it waits for have been processed, in
\* their order, and serverState says which of them was the last.
ProgressedAt(s, stage) ==
  /\ s.expected \in 0 .. Len(Flights) /\ s.expected \notin s.rx_msgs
  /\ s.rx_msgs \subseteq 0 .. Len(Flights) - 1
  /\ stage \in Early => s.dtls_handshake_number <= s.hellos
  /\ stage \notin Early => s.expected = Len(Flights)
  /\ s.serverState >= 3 => s.expected = Len(Flights)
  /\ s.serverState = 4 => stage \in Late
  /\ stage = "FINISHED_DONE" => s.serverState = 4
  /\ s.serverState = 4 \/ s.serverState = IF s.expected = 0 THEN 0 ELSE StateAfter(s.expected - 1)
  /\ stage = "CONNECT_BEGIN" => s.serverState = 0
  /\ stage \in {"HELLO_AGAIN", "HELLO_AGAIN_REPLY"} => s.serverState >= 1
  /\ s.serverState < 2 => \A no \in s.rx_msgs : FlightEpoch(no) = 0
  /\ \A no \in 0 .. Len(Flights) - 1 : Kept(s, no) => ReleasedOnce(no)

\* A number stands for one message, the one the server takes it for, and a
\* Finished that was sent is kept until the server has it.
HonestAt(s, stage) ==
  /\ \A a, b \in Said(s) : a[1] = b[1] => a[2] = b[2]
  /\ \A a \in Said(s) : a[1] < server.got => a[2] = Answers[a[1] + 1]
  /\ \A a \in Said(s) : a[1] < s.dtls_handshake_number
                        \/ (a[1] = s.dtls_handshake_number /\ stage \in Late)
  /\ stage \notin Late => server.got <= s.dtls_handshake_number
  /\ stage \in Early =>
       /\ \A a \in Said(s) : a[2] = "CH"
       /\ \A m \in ToSet(s.rtx) : m.epoch = 0
       /\ ~s.handShakeDone /\ server.got <= Hellos
  /\ s.handShakeDone => Done \/ HasFin(s)
  /\ s.handShakeDone /\ s.serverState = 4 => Done

\* A client that keeps no message waits only when the server has all it needs.
CoveredAt(s, stage) ==
  /\ stage = "CLIENT_HELLO_SENT" /\ s.rtx = <<>> => server.got >= 1
  /\ stage = "HELLO_AGAIN_REPLY" /\ s.rtx = <<>> => server.got >= Hellos
  /\ stage = "FIRST_REPLY_FOURTH" => s.rtx # <<>>
  /\ stage = "WAIT_FINISHED_ACK" /\ s.rtx = <<>> => s.serverState = 4

Progressed(s) == ProgressedAt(s, s.connectState)
Honest(s) == HonestAt(s, s.connectState)
Covered(s) == CoveredAt(s, s.connectState)

\* No error, or one after which the handshake is polled again.
Alright(s) == s.error \in {"none", "WANT_WRITE"}

SessionInv(s) ==
  /\ IsSession(s) /\ Progressed(s) /\ Claim(s) /\ Numbered(s)
  /\ Alright(s) => Honest(s) /\ Covered(s)

-----------------------------------------------------------------------------
(* Between two polls                                                        *)

\* Nothing more can be done before something arrives.
Settled(s) ==
  /\ s.connectState \notin Sending
  /\ s.connectState = "CLIENT_HELLO_SENT" => s.serverState = 0
  /\ s.connectState = "HELLO_AGAIN_REPLY" => s.serverState < 3
  /\ s.connectState = "WAIT_FINISHED_ACK" => s.serverState < 4

\* Where a poll finds the session: it has nothing left to write and waits, or
\* begins, or it has output left over, and keeps the message it belongs to.
Resting(s) ==
  IF s.outputBuffer = <<>> THEN Settled(s) \/ s.connectState = "CONNECT_BEGIN"
  ELSE s.connectState \in Sending => s.rtx # <<>>

HandshakeInv ==
  /\ WireType /\ ServerType /\ Carried
  /\ ssl.error = "none" /\ ssl.sent = {}
  /\ IsSession(ssl) /\ Progressed(ssl) /\ Claim(ssl) /\ Numbered(ssl)
  /\ future # "error" => Honest(ssl) /\ Covered(ssl)
  /\ future = "connecting" => Resting(ssl) /\ ssl.connectState # "FINISHED_DONE"
  /\ future = "ok" => ssl.connectState = "FINISHED_DONE"
=============================================================================
