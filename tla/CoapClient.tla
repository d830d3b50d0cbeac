----------------------------- MODULE CoapClient -----------------------------
(***************************************************************************)
(* The CoAP client above the message layer (src/src/net/coap.rs 369-578),  *)
(* with the tasks that share it:                                           *)
(*   - server_connection makes a connection, publishes a client for it in  *)
(*     COAP_CLIENT and runs the connection until it fails (main.rs);       *)
(*   - run_coap_client, one task per connection out of a pool of ONE,      *)
(*     hands each response to the channel registered for its token, and    *)
(*     holds the registry's lock while it does;                            *)
(*   - vas fetches /config, observes it, and submits the taps (main.rs).   *)
(* The message layer is reduced to its two bounded channels and to the     *)
(* point where run() stops while packets_recv is full; CoapConnection      *)
(* models the rest of it.  The server is external: it answers a request in *)
(* any of the ways ResponseKinds lists, and notifies observers.            *)
(***************************************************************************)
EXTENDS Naturals, Sequences, FiniteSets

CONSTANTS
  Tokens,           \* the random 8-byte tokens of send_packet
  ResponseKinds,    \* what the server may send, see Kinds
  SendCapacity,     \* capacity of packets_send
  RecvCapacity,     \* capacity of packets_recv
  Duplicates,       \* the network may deliver a notification twice
  NotifyWindow,     \* bound: unread responses to observe requests
  MaxSequence,      \* bound: number of the last notification
  MaxConnections    \* bound: connections made

\* notify: a config with an Observe option; garbage: the same, but the payload
\* is no valid ReaderConfig; plain: a config without the option; error: an
\* error status.
Kinds == {"notify", "garbage", "plain", "error"}

\* Half of the 24-bit numbers of notifications.
Half == 8388608

\* The numbers of a connection do not wrap.
ASSUME ClientAssumption ==
  /\ ResponseKinds \subseteq Kinds
  /\ MaxSequence <= Half
  /\ {SendCapacity, RecvCapacity, NotifyWindow, MaxSequence, MaxConnections}
       \subseteq Nat \ {0}
  /\ Duplicates \in BOOLEAN

VARIABLES
  link,             \* the state of server_connection
  generation,       \* connections made; COAP_CLIENT holds the client of this one
  packets_send, packets_recv,
  delivering,       \* the packet run() is suspended with, if any
  registry,         \* token -> [gen, queue]: `packets`, a channel per token
  dispatcher,       \* run_coap_client: [pc, gen, msg]
  vas,              \* [pc, gen, token, kind]: the vas task and its request
  observation,      \* config_observe: [token, last, is_done]
  config,           \* sequence number of the config in use
  leaked,           \* history: tokens of observations that were dropped without a word
  owed, observers,  \* server: requests to answer, tokens to notify
  server_sequence,
  net               \* datagrams on their way to the reader

clientVars == <<registry, dispatcher>>
vasVars == <<vas, observation, config, leaked>>
serverVars == <<owed, observers, server_sequence>>
runVars == <<packets_send, packets_recv, delivering>>
world == <<link, generation, serverVars, net>>
vars == <<world, runVars, clientVars, vasVars>>

-----------------------------------------------------------------------------
None == <<>>

\* The vas task between two requests.
At(pc) == [pc |-> pc, gen |-> 0, token |-> None, kind |-> "none"]

Messages == [token : Tokens, kind : Kinds, sequence : 0 .. MaxSequence]

InRequest == {"register", "send", "sending", "wait", "unregister"}

\* The strong references to the channel of connection g: run() owns it, and a
\* task has one from an upgrade() to the end of the operation it made it for.
OwnedByRun(g) == link = "up" /\ g = generation
HeldByDispatcher(g) == dispatcher.pc # "exited" /\ dispatcher.gen = g
HeldByVas(g) == vas.pc = "sending" /\ vas.gen = g

\* The registry of connection g is still owned by COAP_CLIENT, by its
\* dispatcher or by the clone of the client a request is made with.
RegistryAlive(g) ==
  \/ g = generation
  \/ HeldByDispatcher(g)
  \/ vas.pc \in InRequest /\ vas.gen = g

Registered(t) == t \in DOMAIN registry /\ RegistryAlive(registry[t].gen)

\* Only the dispatcher keeps the registry's mutex across an await.
Locked(g) == dispatcher.gen = g /\ dispatcher.pc \in {"chan_send", "reset_send"}

\* CoAPObservation::has_next
HasNext ==
  /\ observation # None
  /\ \/ observation.is_done
     \/ ~Registered(observation.token)
     \/ registry[observation.token].queue # <<>>

Pop(t) == [registry EXCEPT ![t].queue = Tail(@)]
Push(t, m) == [registry EXCEPT ![t].queue = Append(@, m)]
Without(t) == [u \in DOMAIN registry \ {t} |-> registry[u]]

\* Messages that carry an Observe option and have not been read by the vas task.
Observes(m) == m.kind \in {"notify", "garbage"}
Unread ==
  Cardinality({m \in net : Observes(m)})
  + Len(SelectSeq(packets_recv \o delivering, Observes))
  + Len(SelectSeq(dispatcher.msg, Observes))
  + Cardinality({t \in DOMAIN registry :
                   registry[t].queue # <<>> /\ Observes(Head(registry[t].queue))})

TokensOf(s) == {s[i].token : i \in DOMAIN s}

TokenInUse(t) ==
  \/ t \in DOMAIN registry \cup observers
  \/ t \in {m.token : m \in net \cup owed}
  \/ t \in TokensOf(delivering \o dispatcher.msg)
  \/ link = "up" /\ t \in TokensOf(packets_send)
  \/ dispatcher.pc # "exited" /\ t \in TokensOf(packets_recv)
  \/ observation # None /\ observation.token = t

TypeOK ==
  /\ link \in {"down", "up", "panicked"}
  /\ generation \in 0 .. MaxConnections
  /\ packets_send \in Seq([token : Tokens, kind : {"observe", "tap", "reset"}])
  /\ Len(packets_send) <= SendCapacity
  /\ packets_recv \in Seq(Messages) /\ Len(packets_recv) <= RecvCapacity
  /\ delivering \in Seq(Messages) /\ Len(delivering) <= 1
  /\ DOMAIN registry \subseteq Tokens
  /\ \A t \in DOMAIN registry :
       /\ registry[t].gen \in 1 .. MaxConnections
       /\ registry[t].queue \in Seq(Messages) /\ Len(registry[t].queue) <= 1
  /\ dispatcher.pc \in {"exited", "recv", "chan_send", "reset_send"}
  /\ dispatcher.gen \in 0 .. MaxConnections
  /\ dispatcher.msg \in Seq(Messages)
  /\ vas.pc \in InRequest
       \cup {"fetch", "main", "exchange", "next", "close_error", "close_plain"}
  /\ observation = None \/ observation.token \in Tokens
  /\ config \in 0 .. MaxSequence /\ leaked \subseteq Tokens
  /\ observers \subseteq Tokens
  /\ net \subseteq Messages

Init ==
  /\ link = "down" /\ generation = 0
  /\ packets_send = <<>> /\ packets_recv = <<>> /\ delivering = <<>>
  /\ registry = [t \in {} |-> 0]
  /\ dispatcher = [pc |-> "exited", gen |-> 0, msg |-> <<>>]
  /\ vas = At("fetch")
  /\ observation = None /\ config = 0 /\ leaked = {}
  /\ owed = {} /\ observers = {} /\ server_sequence = 0
  /\ net = {}

-----------------------------------------------------------------------------
(* server_connection                                                        *)

\* Finding the server and shaking hands takes seconds: by the time the next
\* connection is made, the 300 ms timeouts have expired and every task has got
\* as far as it can, save for the exchange with a card and a request's wait.
TasksHaveRun ==
  /\ dispatcher.pc # "recv"
  /\ dispatcher.pc = "chan_send" => registry[dispatcher.msg[1].token].queue # <<>>
  /\ dispatcher.pc = "reset_send" => Len(packets_send) = SendCapacity
  /\ vas.pc \notin {"send", "sending"}
  /\ vas.pc \in {"register", "unregister"} => Locked(vas.gen)
  /\ vas.pc \in {"close_error", "close_plain"} => Locked(observation.gen)
  /\ vas.pc = "wait" => registry[vas.token].queue = <<>>
  /\ vas.pc \in {"main", "next"} => ~HasNext

\* CoAPConnection::new, CoAPClient::new and the publication of the client.
\* spawn() fails while the only instance of run_coap_client is in use, and its
\* result is unwrapped.
Connect ==
  /\ link = "down"
  /\ generation < MaxConnections
  /\ TasksHaveRun
  /\ IF dispatcher.pc # "exited"
     THEN /\ link' = "panicked"
          /\ UNCHANGED <<generation, runVars, clientVars, leaked>>
     ELSE /\ link' = "up"
          /\ generation' = generation + 1
          /\ packets_send' = <<>> /\ packets_recv' = <<>> /\ delivering' = <<>>
          /\ dispatcher' = [pc |-> "recv", gen |-> generation + 1, msg |-> <<>>]
          /\ registry' =
               [t \in {u \in DOMAIN registry :
                         vas.pc \in InRequest /\ registry[u].gen = vas.gen}
                  |-> registry[t]]
          /\ leaked' = leaked \cap DOMAIN registry'
  /\ UNCHANGED <<vas, observation, config, serverVars, net>>

\* run() returns an error (it cannot while it delivers a packet).  The session
\* is gone, for the server too.
ConnectionLost ==
  /\ link = "up" /\ delivering = <<>>
  /\ link' = "down"
  /\ owed' = {} /\ observers' = {} /\ net' = {}
  /\ UNCHANGED <<generation, runVars, clientVars, vasVars, server_sequence>>

-----------------------------------------------------------------------------
(* run(), reduced to its channels                                           *)

\* The packet is acknowledged and handed over, or given up as lost.  A reset
\* travels under a new message id, so the server may or may not make sense of it.
RunSend ==
  /\ link = "up" /\ delivering = <<>> /\ packets_send # <<>>
  /\ packets_send' = Tail(packets_send)
  /\ LET p == Head(packets_send) IN
     IF p.kind = "reset"
     THEN /\ observers' \in {observers, observers \ {p.token}}
          /\ UNCHANGED owed
     ELSE /\ owed' \in {owed, owed \cup {p}}
          /\ UNCHANGED observers
  /\ UNCHANGED <<link, generation, packets_recv, delivering, clientVars, vasVars, server_sequence, net>>

RunReceive ==
  /\ link = "up" /\ delivering = <<>>
  /\ \E m \in net :
       /\ delivering' = <<m>>
       /\ net' \in {net \ {m}} \cup IF Duplicates /\ Observes(m) THEN {net} ELSE {}
  /\ UNCHANGED <<link, generation, packets_send, packets_recv, clientVars, vasVars, serverVars>>

\* Mutant: try_send with the error ignored, into a channel without a limit.
RunDeliver_unbounded ==
  /\ delivering # <<>>
  /\ packets_recv' = packets_recv \o delivering
  /\ delivering' = <<>>
  /\ UNCHANGED <<world, packets_send, clientVars, vasVars>>

\* packets_recv.send(packet).await
RunDeliver ==
  /\ delivering # <<>> /\ Len(packets_recv) < RecvCapacity
  /\ packets_recv' = packets_recv \o delivering
  /\ delivering' = <<>>
  /\ UNCHANGED <<world, packets_send, clientVars, vasVars>>

-----------------------------------------------------------------------------
(* run_coap_client                                                          *)

\* Mutant: the task keeps the strong reference it has.
NextIteration_keeps_arc == [dispatcher EXCEPT !.msg = <<>>, !.pc = "recv"]

\* The end of an iteration: the strong reference is dropped and the next
\* upgrade() decides whether there is another one.
NextIteration ==
  [dispatcher EXCEPT !.msg = <<>>,
     !.pc = IF OwnedByRun(dispatcher.gen) \/ HeldByVas(dispatcher.gen)
            THEN "recv" ELSE "exited"]

\* Receive a response, lock the registry, and send the response on to the
\* channel of its token, or a reset to the server if there is none.  Both sends
\* happen under the lock and suspend the task when the channel is full.
Dispatch ==
  /\ dispatcher.pc = "recv" /\ packets_recv # <<>>
  /\ packets_recv' = Tail(packets_recv)
  /\ LET m == Head(packets_recv) IN
     IF m.token \in DOMAIN registry /\ registry[m.token].gen = dispatcher.gen
     THEN /\ IF registry[m.token].queue = <<>>
             THEN registry' = Push(m.token, m) /\ dispatcher' = NextIteration
             ELSE /\ dispatcher' = [dispatcher EXCEPT !.pc = "chan_send",
                                                      !.msg = <<m>>]
                  /\ UNCHANGED registry
          /\ UNCHANGED packets_send
     ELSE /\ IF Len(packets_send) < SendCapacity
             THEN /\ packets_send' = Append(packets_send,
                                       [token |-> m.token, kind |-> "reset"])
                  /\ dispatcher' = NextIteration
             ELSE /\ dispatcher' = [dispatcher EXCEPT !.pc = "reset_send",
                                                      !.msg = <<m>>]
                  /\ UNCHANGED packets_send
          /\ UNCHANGED registry
  /\ UNCHANGED <<world, delivering, vasVars>>

\* chan.send(resp).await completes: somebody has read the channel.
DispatchResume ==
  /\ dispatcher.pc = "chan_send"
  /\ LET m == dispatcher.msg[1] IN
       /\ registry[m.token].queue = <<>>
       /\ registry' = Push(m.token, m)
  /\ dispatcher' = NextIteration
  /\ UNCHANGED <<world, runVars, vasVars>>

\* packets_send.send(packet).await completes.
ResetResume ==
  /\ dispatcher.pc = "reset_send" /\ Len(packets_send) < SendCapacity
  /\ packets_send' = Append(packets_send,
                       [token |-> dispatcher.msg[1].token, kind |-> "reset"])
  /\ dispatcher' = NextIteration
  /\ UNCHANGED <<world, packets_recv, delivering, registry, vasVars>>

\* 300 ms without a response, and the connection is gone.
DispatcherExit ==
  /\ dispatcher.pc = "recv" /\ packets_recv = <<>>
  /\ NextIteration.pc = "exited"
  /\ dispatcher' = NextIteration
  /\ UNCHANGED <<world, runVars, registry, vasVars>>

-----------------------------------------------------------------------------
(* vas: requests.  send_packet, send_request and send_observe_request       *)

Request(t, kind) ==
  /\ generation > 0
  /\ ~TokenInUse(t)
  /\ vas' = [pc |-> "register", gen |-> generation, token |-> t, kind |-> kind]

\* 'outer: take the published client and ask for the config.
Fetch(t) ==
  /\ vas.pc = "fetch"
  /\ Request(t, "observe")
  /\ UNCHANGED <<world, runVars, clientVars, observation, config, leaked>>

\* A card is found: until the exchange with it is over nobody reads the
\* observation.
Tap ==
  /\ vas.pc = "main" /\ ~HasNext
  /\ vas' = At("exchange")
  /\ UNCHANGED <<world, runVars, clientVars, observation, config, leaked>>

\* handle_response submits the result; an exchange without one ends here.
Submit(t) ==
  /\ vas.pc = "exchange"
  /\ Request(t, "tap")
  /\ UNCHANGED <<world, runVars, clientVars, observation, config, leaked>>

NoResult ==
  /\ vas.pc = "exchange"
  /\ vas' = At("main")
  /\ UNCHANGED <<world, runVars, clientVars, observation, config, leaked>>

\* self.packets.lock().await.insert(..)
Register ==
  /\ vas.pc = "register" /\ ~Locked(vas.gen)
  /\ registry' = [t \in DOMAIN registry \cup {vas.token} |->
                    IF t = vas.token THEN [gen |-> vas.gen, queue |-> <<>>]
                    ELSE registry[t]]
  /\ vas' = [vas EXCEPT !.pc = "send"]
  /\ leaked' = leaked \ {vas.token}
  /\ UNCHANGED <<world, runVars, dispatcher, observation, config>>

\* The request is about to return an error: a tap is then over, the config has
\* to be fetched again.
Failed == [vas EXCEPT !.pc = "unregister",
                      !.kind = IF @ = "tap" THEN "tap" ELSE "failed"]

\* One round of the loop in send_packet: upgrade, then send with a timeout.
SendUpgrade ==
  /\ vas.pc = "send"
  /\ vas' = IF OwnedByRun(vas.gen) \/ HeldByDispatcher(vas.gen)
            THEN [vas EXCEPT !.pc = "sending"] ELSE Failed
  /\ UNCHANGED <<world, runVars, clientVars, observation, config, leaked>>

SendPacket ==
  /\ vas.pc = "sending"
  /\ IF Len(packets_send) < SendCapacity
     THEN /\ packets_send' = Append(packets_send,
                               [token |-> vas.token, kind |-> vas.kind])
          /\ vas' = [vas EXCEPT !.pc = "wait"]
     ELSE /\ vas' = [vas EXCEPT !.pc = "send"]
          /\ UNCHANGED packets_send
  /\ UNCHANGED <<world, packets_recv, delivering, clientVars, observation, config, leaked>>

\* The request has its response.  The channel of an observe request stays
\* registered exactly when the response has an Observe option.
tap_answered(m) ==
  /\ vas.kind = "tap"
  /\ vas' = [vas EXCEPT !.pc = "unregister"]
  /\ UNCHANGED <<observation, config, leaked>>

config_refused(m) ==
  /\ vas.kind = "observe" /\ m.kind = "error"
  /\ vas' = Failed
  /\ UNCHANGED <<observation, config, leaked>>

\* Mutant: the token is only removed when the request fails.
config_without_observe_keeps_token(m) ==
  /\ vas.kind = "observe" /\ m.kind = "plain"
  /\ vas' = At("main")
  /\ config' = m.sequence
  /\ UNCHANGED <<observation, leaked>>

config_without_observe(m) ==
  /\ vas.kind = "observe" /\ m.kind = "plain"
  /\ vas' = [vas EXCEPT !.pc = "unregister"]
  /\ config' = m.sequence
  /\ UNCHANGED <<observation, leaked>>

config_observed(m) ==
  /\ vas.kind = "observe" /\ m.kind = "notify"
  /\ vas' = At("main")
  /\ config' = m.sequence
  /\ observation' = [token |-> vas.token, gen |-> vas.gen,
                     last |-> m.sequence, is_done |-> FALSE]
  /\ UNCHANGED leaked

\* The config cannot be parsed: back to 'outer, and the new observation is
\* dropped without a word to the registry.
config_invalid(m) ==
  /\ vas.kind = "observe" /\ m.kind = "garbage"
  /\ vas' = At("fetch")
  /\ leaked' = leaked \cup {vas.token}
  /\ UNCHANGED <<observation, config>>

Response ==
  /\ vas.pc = "wait" /\ registry[vas.token].queue # <<>>
  /\ LET m == Head(registry[vas.token].queue) IN
       \/ tap_answered(m) \/ config_refused(m) \/ config_without_observe(m)
       \/ config_observed(m) \/ config_invalid(m)
  /\ registry' = Pop(vas.token)
  /\ UNCHANGED <<world, runVars, dispatcher>>

\* Mutant: only observe requests are given a timeout.
RequestTimeout_observe_only ==
  /\ vas.pc = "wait" /\ registry[vas.token].queue = <<>>
  /\ link = "up" /\ delivering = <<>> => packets_send = <<>>
  /\ dispatcher.pc = "recv" => packets_recv = <<>>
  /\ vas.kind = "observe"
  /\ vas' = Failed
  /\ UNCHANGED <<world, runVars, clientVars, observation, config, leaked>>

\* with_timeout(max_transmit_wait) expires: RequestTimeout.  In those 92 seconds
\* the packets in the two channels have been taken by whoever can take them.
RequestTimeout ==
  /\ vas.pc = "wait" /\ registry[vas.token].queue = <<>>
  /\ link = "up" /\ delivering = <<>> => packets_send = <<>>
  /\ dispatcher.pc = "recv" => packets_recv = <<>>
  /\ vas' = Failed
  /\ UNCHANGED <<world, runVars, clientVars, observation, config, leaked>>

\* self.packets.lock().await.remove(&token), and the request returns.
Unregister ==
  /\ vas.pc = "unregister" /\ ~Locked(vas.gen)
  /\ registry' = Without(vas.token)
  /\ vas' = At(IF vas.kind = "failed" THEN "fetch" ELSE "main")
  /\ UNCHANGED <<world, runVars, dispatcher, observation, config, leaked>>

-----------------------------------------------------------------------------
(* vas: the observation.  has_next and next                                 *)

\* Mutant: whatever differs from the last sequence number is taken for new.
IsNewer_any_change(sequence) == sequence # observation.last

\* Numbers are compared the shorter way round.
IsNewer(sequence) ==
  \/ sequence > observation.last /\ sequence - observation.last < Half
  \/ sequence < observation.last /\ observation.last - sequence > Half

\* next() takes a response: an error or a config without the option ends the
\* observation, a newer config is used, and anything else keeps next() waiting.
observation_ended(m) ==
  /\ ~Observes(m)
  /\ vas' = At(IF m.kind = "error" THEN "close_error" ELSE "close_plain")
  /\ config' = IF m.kind = "plain" THEN m.sequence ELSE config
  /\ observation' = [observation EXCEPT !.is_done = TRUE]
  /\ UNCHANGED leaked

config_updated(m) ==
  /\ m.kind = "notify" /\ IsNewer(m.sequence)
  /\ vas' = At("main")
  /\ config' = m.sequence
  /\ observation' = [observation EXCEPT !.last = m.sequence]
  /\ UNCHANGED leaked

\* As config_invalid, from 'main: the observation in use is dropped.
update_invalid(m) ==
  /\ m.kind = "garbage" /\ IsNewer(m.sequence)
  /\ vas' = At("fetch")
  /\ observation' = None
  /\ leaked' = leaked \cup {observation.token}
  /\ UNCHANGED config

update_stale(m) ==
  /\ Observes(m) /\ ~IsNewer(m.sequence)
  /\ vas' = At("next")
  /\ UNCHANGED <<observation, config, leaked>>

TakeNotification ==
  /\ vas.pc \in {"main", "next"}
  /\ observation # None /\ ~observation.is_done
  /\ Registered(observation.token)
  /\ registry[observation.token].queue # <<>>
  /\ LET m == Head(registry[observation.token].queue) IN
       \/ observation_ended(m) \/ config_updated(m)
       \/ update_invalid(m) \/ update_stale(m)
  /\ registry' = Pop(observation.token)
  /\ UNCHANGED <<world, runVars, dispatcher>>

\* next() removes the token of a finished observation from the registry.
CloseObservation ==
  /\ vas.pc \in {"close_error", "close_plain"}
  /\ ~Locked(observation.gen)
  /\ registry' = Without(observation.token)
  /\ \/ /\ vas.pc = "close_error"
        /\ vas' = At("fetch")
        /\ observation' = None
     \/ /\ vas.pc = "close_plain"
        /\ vas' = At("main")
        /\ UNCHANGED observation
  /\ UNCHANGED <<world, runVars, dispatcher, config, leaked>>

\* Mutant: a dead channel is only noticed inside next().
ObservationLost_in_next_only ==
  /\ vas.pc = "next"
  /\ observation # None /\ ~observation.is_done
  /\ ~Registered(observation.token)
  /\ vas' = At("fetch")
  /\ observation' = None
  /\ UNCHANGED <<world, runVars, clientVars, config, leaked>>

\* The Weak channel is dead (the client of its connection has been replaced):
\* next() returns ConnectionClosed and the config is fetched anew.
ObservationLost ==
  /\ vas.pc \in {"main", "next"}
  /\ observation # None /\ ~observation.is_done
  /\ ~Registered(observation.token)
  /\ vas' = At("fetch")
  /\ observation' = None
  /\ UNCHANGED <<world, runVars, clientVars, config, leaked>>

\* next() on a finished observation returns Ok(None).
ObservationDone ==
  /\ vas.pc = "main"
  /\ observation # None /\ observation.is_done
  /\ observation' = None
  /\ UNCHANGED <<world, runVars, clientVars, vas, config, leaked>>

-----------------------------------------------------------------------------
(* The server and the network (external)                                    *)

\* A tap is acknowledged; an observe request gets the current config or an error.
Answer ==
  /\ \E r \in owed, k \in ResponseKinds :
       /\ r.kind = "tap" => k = "plain"
       /\ k \in {"notify", "garbage"} => Unread < NotifyWindow
       /\ net' = net \cup {[token |-> r.token, kind |-> k, sequence |->
                            IF r.kind = "tap" THEN 0 ELSE server_sequence]}
       /\ owed' = owed \ {r}
       /\ observers' = IF k \in {"notify", "garbage"}
                       THEN observers \cup {r.token} ELSE observers
  /\ UNCHANGED <<link, generation, runVars, clientVars, vasVars, server_sequence>>

Notify ==
  /\ server_sequence < MaxSequence /\ Unread < NotifyWindow
  /\ server_sequence' = server_sequence + 1
  /\ \E t \in observers, k \in ResponseKinds :
       /\ net' = net \cup {[token |-> t, kind |-> k,
                            sequence |-> server_sequence']}
       /\ observers' = IF k \in {"notify", "garbage"}
                       THEN observers ELSE observers \ {t}
  /\ UNCHANGED <<link, generation, runVars, clientVars, vasVars, owed>>

Lose ==
  /\ \E m \in net : net' = net \ {m}
  /\ UNCHANGED <<link, generation, runVars, clientVars, vasVars, serverVars>>

-----------------------------------------------------------------------------
Run == RunSend \/ RunReceive \/ RunDeliver

Dispatcher == Dispatch \/ DispatchResume \/ ResetResume \/ DispatcherExit

Vas ==
  \/ \E t \in Tokens : Fetch(t) \/ Submit(t)
  \/ Register \/ SendUpgrade \/ SendPacket \/ Response \/ RequestTimeout
  \/ Unregister
  \/ TakeNotification \/ CloseObservation \/ ObservationLost \/ ObservationDone

\* The executor is cooperative and has one thread: once polled, the vas task
\* runs until it has to wait for a lock, for room or for a response.
VasRunning ==
  \/ vas.pc \in {"register", "unregister"} /\ ~Locked(vas.gen)
  \/ vas.pc \in {"close_error", "close_plain"} /\ ~Locked(observation.gen)
  \/ vas.pc = "send"
  \/ vas.pc = "sending" /\ Len(packets_send) < SendCapacity

Others ==
  \/ Connect \/ ConnectionLost
  \/ Run \/ Dispatcher
  \/ Tap \/ NoResult
  \/ Answer \/ Notify \/ Lose

\* The panic handler stalls both cores: nothing runs any more.
Next ==
  /\ link # "panicked"
  /\ Vas \/ (~VasRunning /\ Others)

Spec == Init /\ [][Next]_vars

\* The executor polls every ready task again.  No card need ever be presented,
\* the server need not answer, and the network may lose what it does.
Fairness ==
  /\ SF_vars(Connect)
  /\ SF_vars(Run)
  /\ SF_vars(RunSend)
  /\ SF_vars(Dispatcher)
  /\ WF_vars(Vas)
  /\ SF_vars(NoResult)

FairSpec == Spec /\ Fairness

-----------------------------------------------------------------------------
(* Safety                                                                   *)

\* spawn(run_coap_client(..)).unwrap() (coap.rs 403-405) takes for granted that
\* the client task of the previous connection has ended.
SpawnSucceeds == link # "panicked"

\* The registry holds the channel of the request that is being made and of the
\* observation that is in use, and of nothing else: every other path removes
\* its token (coap.rs 420, 442, 465, 477, 485, 530, 538), save where a config
\* that cannot be parsed makes the vas task drop its observation (main.rs 268,
\* 289).  A token that stays behind has a channel that nobody reads.
Pending ==
  IF vas.pc \in {"send", "sending", "wait", "unregister"} THEN {vas.token} ELSE {}
Observed ==
  IF observation # None
     /\ (~observation.is_done \/ vas.pc \in {"close_error", "close_plain"})
  THEN {observation.token} ELSE {}

RegistryExact ==
  /\ \A t \in Tokens : Registered(t) => t \in Pending \cup Observed \cup leaked
  /\ \A t \in Pending : Registered(t)
  /\ \A t \in Observed : observation.gen = generation => Registered(t)

\* The config never goes back to an older one while an observation lasts, in
\* whatever order the notifications arrive and however often (coap.rs 543-549).
ConfigMonotone ==
  [][/\ observation # None /\ observation' # None
     /\ observation'.token = observation.token
     => config' >= config]_vars

-----------------------------------------------------------------------------
(* Liveness                                                                 *)

\* A request of the vas task returns, with an answer or an error.
EveryRequestReturns ==
  vas.pc \in InRequest ~> vas.pc \in {"main", "fetch"}

\* A lost connection is replaced: the old client task ends, so that the next
\* one can be spawned.
EveryConnectionReplaced ==
  link = "down" /\ generation < MaxConnections ~> link = "up"

\* The config of a connection that has been replaced is not used for ever: the
\* vas task notices that its observation is dead and fetches the config again.
StaleObservationDropped ==
  observation # None /\ observation.gen < generation ~> vas.pc = "fetch"

=============================================================================
