--------------------------- MODULE ClientRequests ---------------------------
(***************************************************************************)
(* What always holds of the CoAP client: the inductive invariant ClientInv *)
(* of the proofs.  It follows a token through its life.  A request is in   *)
(* one place, with the vas task, in the channel to run() or with the       *)
(* server, and as long as it is there nothing has come of it (OneRequest); *)
(* so an answer is the first word on its token, and a message without the  *)
(* Observe option is the last one (LastWord).  What ends an observation is *)
(* therefore never older than the config in use.  Only the tokens of the   *)
(* request and of the observation that are under way are in a registry     *)
(* that is alive, save for those left behind (Entered), and request and    *)
(* observation exclude each other unless a tap is submitted (OneConfig).   *)
(***************************************************************************)
EXTENDS CoapClient, SequencesExt

\* What is in the channel to run(), and what of it is for the server to answer.
Requests == [token : Tokens, kind : {"observe", "tap"}]
Packets == [token : Tokens, kind : {"observe", "tap", "reset"}]

\* The request is being made and has not been given to the message layer.
Asking == {"register", "send", "sending"}

\* What each variable may be, by groups: together they say more than TypeOK.
LinkShape ==
  /\ link \in {"down", "up", "panicked"}
  /\ generation \in 0 .. MaxConnections
  /\ link = "up" => /\ generation > 0
                    /\ dispatcher.gen = generation /\ dispatcher.pc # "exited"

ChannelShape ==
  /\ packets_send \in Seq(Packets) /\ Len(packets_send) <= SendCapacity
  /\ packets_recv \in Seq(Messages) /\ Len(packets_recv) <= RecvCapacity
  /\ delivering \in Seq(Messages) /\ Len(delivering) <= 1

RegistryShape ==
  /\ DOMAIN registry \subseteq Tokens
  /\ \A t \in DOMAIN registry :
       /\ DOMAIN registry[t] = {"gen", "queue"}
       /\ registry[t].gen \in 1 .. generation
       /\ registry[t].queue \in Seq(Messages) /\ Len(registry[t].queue) <= 1

DispatcherShape ==
  /\ DOMAIN dispatcher = {"pc", "gen", "msg"}
  /\ dispatcher.pc \in {"exited", "recv", "chan_send", "reset_send"}
  /\ dispatcher.gen \in 0 .. generation
  /\ dispatcher.msg \in Seq(Messages)
  /\ dispatcher.pc \in {"chan_send", "reset_send"} => Len(dispatcher.msg) = 1

VasShape ==
  /\ DOMAIN vas = {"pc", "gen", "token", "kind"}
  /\ vas.pc \in InRequest
       \cup {"fetch", "main", "exchange", "next", "close_error", "close_plain"}
  /\ vas.gen \in 0 .. generation
  /\ vas.pc \in InRequest =>
       /\ vas.token \in Tokens /\ vas.gen > 0
       /\ vas.kind \in {"observe", "tap", "failed"}
       /\ vas.pc # "unregister" => vas.kind # "failed"

ObservationShape ==
  /\ observation # None =>
       /\ DOMAIN observation = {"token", "gen", "last", "is_done"}
       /\ observation.token \in Tokens /\ observation.gen \in 1 .. generation
       /\ observation.last \in 0 .. server_sequence /\ observation.is_done \in BOOLEAN
  /\ config \in 0 .. MaxSequence /\ leaked \subseteq Tokens

ServerShape ==
  /\ server_sequence \in 0 .. MaxSequence
  /\ owed \subseteq Requests /\ observers \subseteq Tokens
  /\ net \subseteq Messages

Shape ==
  /\ LinkShape /\ ChannelShape /\ RegistryShape /\ DispatcherShape
  /\ VasShape /\ ObservationShape /\ ServerShape

\* There is no observation while the config is asked for, and its token is not
\* that of the request.
OneConfig ==
  /\ vas.pc = "fetch" => observation = None
  /\ vas.pc \in InRequest => /\ vas.kind # "tap" => observation = None
                             /\ observation # None => observation.token # vas.token
  /\ vas.pc \in {"close_error", "close_plain"} => observation # None /\ observation.is_done
  /\ vas.pc = "next" => observation # None /\ ~observation.is_done

\* RegistryExact, and of which connection the entries are.
Entered ==
  /\ vas.pc = "register" => vas.token \notin DOMAIN registry
  /\ \A t \in Pending : t \in DOMAIN registry /\ registry[t].gen = vas.gen
  /\ \A t \in Observed : observation.gen = generation =>
        t \in DOMAIN registry /\ registry[t].gen = generation
  /\ \A t \in DOMAIN registry :
        RegistryAlive(registry[t].gen) => t \in Pending \cup Observed \cup leaked
  /\ \A t \in DOMAIN registry : \A m \in ToSet(registry[t].queue) : m.token = t

\* The messages that somebody may still read.
Queued == UNION {ToSet(registry[t].queue) : t \in DOMAIN registry}
Received == IF dispatcher.pc = "exited" THEN {} ELSE ToSet(packets_recv) \cup ToSet(dispatcher.msg)
InFlight == net \cup ToSet(delivering) \cup Received \cup Queued

\* Nothing has come of a request with this token.
Open(t) ==
  /\ t \notin observers
  /\ \A m \in InFlight : m.token # t
  /\ observation # None => observation.token # t

\* The places in the channel where there is a request.
InChannel == IF link = "up" THEN {i \in DOMAIN packets_send : packets_send[i].kind # "reset"} ELSE {}

\* A request is in one place, and is answered once.
OneRequest ==
  /\ \A i, j \in InChannel : packets_send[i].token = packets_send[j].token => i = j
  /\ \A i \in InChannel : /\ Open(packets_send[i].token)
                          /\ \A r \in owed : r.token # packets_send[i].token
  /\ \A r \in owed : Open(r.token)
  /\ \A r, q \in owed : r.token = q.token => r = q
  /\ vas.pc \in Asking =>
       /\ Open(vas.token)
       /\ \A i \in InChannel : packets_send[i].token # vas.token
       /\ \A r \in owed : r.token # vas.token

\* A message without the Observe option is the last one of its token, and nothing
\* older is in use.
LastWord ==
  /\ \A m \in InFlight : m.sequence <= server_sequence
  /\ \A m \in InFlight : ~Observes(m) =>
       /\ m.token \notin observers
       /\ \A n \in InFlight : n.token = m.token => n.sequence <= m.sequence
       /\ observation # None /\ observation.token = m.token => observation.last <= m.sequence
  /\ observation # None /\ ~observation.is_done => config <= observation.last

ClientInv == Shape /\ OneConfig /\ Entered /\ OneRequest /\ LastWord

=============================================================================
