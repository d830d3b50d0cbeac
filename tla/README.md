# A TLA+ model of the tappybara reader firmware

The repository is the firmware of a contactless reader (ESP32, Rust, embassy).
It finds its server over mDNS, keeps one CoAP-over-DTLS connection to it,
fetches and observes its configuration, polls for cards and phones with a PN532,
runs the Apple and Google value-added-service exchanges with them, and submits
the result. This directory holds TLA+ modules translated from the source, TLC
configurations that check them and TLAPS proofs about them.

    tlc -workers 2 -config <run>.cfg <MC module>.tla
    tlapm <module>Proofs.tla          (CoapClient, Discovery: ServerConnectionProofs.tla)

A run is named after its cfg. `CoapConnection*.cfg`, `CoapClient*.cfg` and
`Discovery.cfg` belong to the modules `MCCoapConnection`, `MCCoapClient` and
`MCDiscovery`, the others to the module they are named after. Every safety property of the
runs is proved, for all values of the constants (section 4); liveness is model-checked.

## 1. The system

The tasks of the network and the VAS task run on one cooperative executor on the
first core; `lights()` and `pn532::io()` run on an interrupt executor on the second
core (`init.rs` 57-67). On either, a task is suspended only at an `await`. The
two sides share channels, watches and `IO_LOCK`. Paths are below `src/src/`.

| Component | State | Operations | Talks to |
|---|---|---|---|
| CoAP message layer, `net/coap.rs` 13-367 | packets in flight by message id, ping flag, queue, next id, two channels of 5 | `run` and its handlers for a datagram, a packet, a retransmission timer, the ping timer | DTLS session; clients through `packets_send`, `packets_recv` |
| CoAP client, `net/coap.rs` 369-578 | registry token -> channel of 1, behind a mutex | `send_request`, `send_observe_request`, `CoAPObservation::{has_next, next}`, task `run_coap_client` | the message layer's channels (weak references) |
| Server connection, `main.rs` 619-708 | the DTLS context | find a server, shake hands, make the connection and its client, run it, start again | mDNS, DTLS, CoAP; publishes `COAP_CLIENT`, `DTLS_STATUS` |
| VAS task, `main.rs` 148-617 | reader config and its observation | `'outer` (fetch the config), `'main` (notifications, poll, exchange, submit) | CoAP client, PN532, VAS protocols, `VAS_STATUS` |
| mDNS, `net/mdns.rs` | records of one 5-second search | query, collect, choose | UDP |
| DTLS, `net/tls.rs` and wolfSSL 5.8.2 below it (`dtls13.c`, `tls13.c`, `internal.c`) | the future of a connect and its timer; stage, flights, record numbers and windows | connect, read, write, shutdown and the socket callbacks | UDP, server |
| WiFi, `net/mod.rs` | client configuration | scan, connect, follow configuration changes | `CONNECTION_CONFIG`, `WIFI_STATUS`, `WIFI_SCAN` |
| Provisioning, `improv.rs`, `config.rs`, `init.rs` | connection config, identity | Improv commands, persistence, start-up | serial line, flash, `CONNECTION_CONFIG` |
| PN532, `pn532/{io,mod,types}.rs` | command and response channels, interrupt line | one command at a time: write, acknowledgement, response | I2C, `IO_LOCK` |
| ISO-DEP, `pn532/iso_dep.rs` | block number | chained exchange with retransmission and waiting-time extension | PN532 |
| VAS protocols, `vas/` | Smart Tap session | Apple VAS, Google Smart Tap | ISO-DEP |
| LEDs, `ui/` | pulse buffer, two halves | animation, interrupt-fed transfer | `IO_LOCK`, status watches |
| Support, `crypto.rs`, `ecc.rs`, `storage.rs`, `util.rs` | none that is shared across steps | accelerators, flash, logging, panic | |

What is hard here, and what would make each part correct:

* **Message layer.** Four sources of events in any order, a flag and a table
  updated by four handlers, a queue that only moves when something else is
  settled. Correct: the flag is exact, the window is kept, the queue is never
  stranded, packets leave in order, everything is settled, a dead peer is found.
* **Client.** A lock held across a wait, weak references whose target lives as
  long as somebody else's operation, a pool of one task, reconnection. Correct:
  the registry matches the requests being made, requests return, a connection
  can be replaced, the config never goes back, a stale observation is dropped.
* **DTLS.** Datagrams that are lost, repeated and reordered, a socket that may refuse
  any send of a poll, and a timer that is armed once and may fire at any point of a
  flight. Correct: no record is processed twice and none is refused for another, what is
  acknowledged is not dropped, the two sides never both wait, a handshake ends, and
  success means that the server has the client's last flight.
* **PN532 and ISO-DEP.** Timeouts that race late answers, retransmission.
* **WiFi and provisioning.** A configuration that changes in any state of the task
  that follows it, a write between taking effect and being answered, power
  failures. Correct: what was answered survives, the identity stays, no change is
  forgotten, a config that stays is used.
* **mDNS.** A choice among what happened to be received, from records that are
  not said twice. Correct: a result belongs together and is of this search; a
  search with a usable server ends.
* **VAS.** A session with numbers on both sides, answers in parts that are asked for
  again, errors at every step. Correct: what the LEDs say is what became of the
  passes; a correct phone is not refused.
* **LEDs.** An interrupt that signals a task through a flag that holds one bit.

`PROJECT.json` lists each hazard at the line where it bites, with the properties
that cover it.

## 2. Modules

### CoapConnection (`net/coap.rs` 13-367)

One action per arm of the `select` in `run`, each of them the whole handler
including the drain of the queue that ends it.

| Code | Model |
|---|---|
| `in_flight`, `ping_in_flight`, `send_queue`, `next_message_id` | the same names |
| `packets_send` | a sequence; `packets_recv` only its length, its content is CoapClient's |
| `timeout_at`, `next_ping` | ticks from now; `next_ping` goes negative when overdue |
| `handle_incoming_data` | `IncomingReply` (acknowledgement or reset, any id), `IncomingMessage` (anything else); `DeliverResponse` is the suspended `packets_recv.send` |
| `handle_outgoing_packet` | `OutgoingPacket` |
| the timer of the lowest id | `RetransmitTimeout`: `retransmit`, `ping_timeout`, `give_up` |
| `handle_ping` | `PingTimer` |
| an error from the session, in any handler | `TlsError`, `Shutdown` |
| a new `CoAPConnection` | `Reconnect` |

The peer is unconstrained: acknowledgements and resets of any id, and messages,
at any time. Loss, duplication and reordering need no model of their own. A packet
is its identity; two packets in the system never have the same token, so they are
different. `Unserialisable` are the packets `to_bytes` refuses. `silence` is a
history variable. Random timeouts are a choice from `AckTimeouts`.

Assumptions that are part of the specification: `IdIsFree` (an id does not come
round while its packet is in flight: 2^16 exchanges against 93 seconds) and
`ConnectionAssumption`.

### SendWindow

What the message layer promises its clients: packets start in the order they were
accepted, a bounded number is outstanding, each is finished with after it was
started, a failed connection loses everything. `CoapConnection!ImplementsSendWindow`
instantiates it with the two queues as `waiting` and the request packets in flight
as `outstanding`. It holds when every packet can be serialised; otherwise a
packet can be dropped from the queue without ever being outstanding, and those
behind it are stranded until the next ping is answered (coap.rs 286, 311).

### CoapClient (`net/coap.rs` 369-578, `main.rs` 252-312, 594-616, 660-696)

| Code | Model |
|---|---|
| `COAP_CLIENT` | `generation`: the client of the latest connection |
| `CoAPConnectionChannel` behind a `Weak` | `OwnedByRun`, `HeldByDispatcher`, `HeldByVas`: who has a strong reference |
| registry, its mutex, its channels | `registry`, `Locked`, `queue` (length at most 1) |
| `run_coap_client` | `Dispatch`, `DispatchResume`, `ResetResume`, `DispatcherExit` |
| `send_packet` | `Register`, `SendUpgrade`, `SendPacket` |
| `send_request`, `send_observe_request` | `Response` and its five outcomes, `RequestTimeout`, `Unregister` |
| `has_next`, `next` | `HasNext`, `TakeNotification`, `CloseObservation`, `ObservationLost`, `ObservationDone` |
| `vas` | `Fetch`, `Tap`, `Submit`, `NoResult` |
| `server_connection` | `Connect`, `ConnectionLost` |
| server and network (external) | `Answer`, `Notify`, `Lose`, duplication in `RunReceive` |

The message layer is its two channels and the point where it stops while
`packets_recv` is full. Between two waits a task runs alone (`VasRunning`).
Finding the server and shaking hands takes over five seconds, so what a task can
do in the 300 ms of its timeouts it has done by the next `Connect`
(`TasksHaveRun`); a request's 92-second wait and an exchange with a card may
outlast it. A panic stalls both cores (`util.rs` 154-178).

`IsNewer` is the code's comparison of 24-bit numbers, the shorter way round
(`net/coap.rs` 543-544), and `ClientAssumption` lets a connection have at most half of them
(`MaxSequence` <= 2^23): the number of a connection's notifications does not wrap.

`leaked` is history: the tokens that `vas` leaves in the registry when it drops an
observation whose config does not parse (`main.rs` 268, 289). `RegistryExact` sets
them apart, so that it still says that there are no others.

### Dtls13Record (`wolfssl-5.8.2/src/dtls13.c` 1339-1386, 1618-1627, `internal.c` 18466-18784)

What an endpoint remembers of the records of an epoch, as operators: `CheckWindow`,
`UpdateWindow` (with the shift by words and by bits and its carry) and
`ReconstructSeqNumber`. A word is the set of its bits that are set. `Exact` is the
reference definition: the bits are the numbers received, as far back as the window
reaches.

### DtlsSession (`net/tls.rs` 200-270, 388-416 and the client of wolfSSL under it)

| Code | Model |
|---|---|
| `ConnectionConnectFuture::poll`, its timer | `Poll`, `Receive` (there is a datagram), `Timeout`; `future` is what has been returned |
| `socket_send` | `Outcomes`: it takes so many datagrams, then is full or fails |
| `wolfSSL_connect_TLSv13` | `FlushOutput`, then `Stages`: the switch, from `connectState` through all that need not wait |
| `SendBuffered`, `Dtls13SendFragment`, `Dtls13HandshakeSend`, `SendDtls13Ack` | `SendBuffered`, `SendRecord`, `Dtls13HandshakeSend`, `SendDtls13Ack` |
| the list for retransmission, its record numbers | `rtx`, `Track`, `Dtls13RtxSendBuffered` |
| `wolfSSL_dtls_got_timeout`, `Dtls13RtxTimeout` | `Timeout`, `Dtls13RtxTimeout` |
| `ProcessReply` | `GetDtlsRecordHeader`, `DropsHeader`, `Decrypts`, `ProcessRecord`, `Dtls13DoScheduledWork` |
| `_Dtls13HandshakeRecv`, `Dtls13RtxMsgRecvd`, `DoDtls13Ack` | `Dtls13HandshakeRecv`, `RtxMsgRecvd`, `DoDtls13Ack` |
| the server and the network (external) | `ServerReceive`, `ServerSend`, `ServerAck`; losing, repeating and reordering is in the sets of datagrams |

A poll is one step: wolfSSL is called, the calls it makes are made in their order on
the record `ssl`, and it returns when one of them fails. The callbacks of `net/tls.rs`
run inside that call, so nothing interleaves with it.

Abstracted: a record is one datagram, and a message is never fragmented;
EncryptedExtensions to CertificateVerify of the server are one message (`CERT`), and so
are Certificate and CertificateVerify of the client. The server is honest: it accepts
the client's messages in order, sends its own any number of times, acknowledges, and
gives the handshake up (`silent`) at a message it does not expect. Decryption is
`Decrypts`: the keys exist, the two sides agree on what was said, and the number was
reconstructed. A datagram that its receiver would ignore is not kept.

### Pn532Io (`pn532/io.rs` 106-309, `pn532/mod.rs` 41-47)

| Code | Model |
|---|---|
| `COMMANDS`, `RESPONSE` | sequences of length at most 1 |
| `execute_command` of `mod.rs` | `Call`, `Return` |
| the task `io` and `execute_command` of `io.rs` | `Take`, `Write`, `Ready`, `NotReady`, `ReadAck`, `Pause`, `Read`, and the errors of each |
| `IO_LOCK` | the holder and the one that waits, in that order; `LightsAcquire`, `LightsRelease` for the other task |
| the chip (external) | `ChipAck`, `ChipAnswer`: late, or never |

Each step of `io` is the stretch between two waits. What is read may be damaged: it fails a
check (`ReadError`), or has no start code, which is then looked for in what the chip sends
next, under the lock and without a bound (`NoStartCode`, `io.rs` 171-173). The search ends
with an error of the bus, a start code after all, or a panic (`ReadPanics`): the bytes it
has looked at are kept (96 KiB of heap, `util.rs` 35-50), and `val` computes a negative
number for an acknowledgement at an odd place (`io.rs` 53). That a damaged frame is not
taken for another one is left to its checksums. A response carries the code
of its command and nothing else, so the model adds a serial number that the code
never looks at. One fact about the chip is assumed: a command that is written
ends the one before and discards its unread frame. Not modelled: lengths and
checksums, the sequence of commands of `poll_target`.

### IsoDep (`pn532/iso_dep.rs` 37-131)

| Code | Model |
|---|---|
| `pni`, `i`, `data`, `parts` | the same names; a block is its place in the command |
| `exchange` | `Exchange`, `SendBlock`, `Receive` with one operator per outcome, `CommunicationError` |
| `new_type_a`, `deselect` | `Activate`, `ActivateShort`, `Deselect` |
| the card (external) | `CardBlock`, `CardExtended`, `CardAsksAgain`, `CardEmpty` |

The reader has one frame in the air and waits for one. An error may come at any
time and stands for loss, damage and a card that is late; the frame may have
reached the card all the same. `cid` is 0, as `new_type_a` makes it.

### ApduExchange

What `Target::transmit` promises `vas/`: a command is executed at most once and as
given, an answer is the answer to it, and after an error nobody knows.
`IsoDep!ImplementsApduExchange` instantiates it. In an exchange in which the card asked
for a block again, the mapping hides what the command became; `NoBlockMissing` says
what is left of it.

### Ws2812 (`ui/ws2812.rs` 28-169)

| Code | Model |
|---|---|
| `State` | `frame` and `length` for the buffer, `offset`, `half` |
| `COPY`, `DONE` | one bit each |
| `write` | `Write`, and its loop as `Copy` and `Finish` |
| `State::copy`, `interrupt_handler` | the same names |
| the transmitter (external) | `Send`, `Stop`, `TransmissionError` on `ram` and `pos` |

A pulse is its place in its frame, and the frames are told apart by a bit, so an
old pulse shows. `shown`, `glitch` and `late` are history. A transmission error is
unwrapped by `lights()`, so the task may panic.

### Provisioning (`init.rs` 116-144, `config.rs`, `improv.rs` 159-300, `net/mod.rs` 6-108)

| Code | Model |
|---|---|
| `CONNECTION_CONFIG` and the receiver's place in it | `CONNECTION_CONFIG`, `unseen` |
| `/config`, `/identity` | `config_file`, `identity_file`: what was written |
| `get_identity` | `get_identity`, `write_identity` |
| `get_connection_config`, `init` | `get_connection_config`, `LoadConfig` |
| `send_wifi_settings`, `set_server_identity` | the same names, then `persist_connection_config` and `Reply` |
| `wifi_connection` | `wifi` is the place in its loop: one action per stretch between two waits, `Configure` for the unwrapped `set_configuration` |
| access point, power (external) | `LinkLost`, `Reset` |

The three steps of a command are one stretch without a wait, since the lock of the
file system is free, so no task runs in between (`Running`); the power may fail
between them. Assumed of littlefs: a write happens entirely or not at all. Assumed
of the radio: the loss of a link while the task waits for it is reported. Of the
configuration, a network and a server's identity are kept. A network may have an empty
SSID (`Nameless`: to the WiFi task it is none), may be one the driver refuses
(`Refused`), and may be `Oversized`: `persist_connection_config` writes any config, up to
about 288 bytes with the 251 bytes that a command may hold, but `get_connection_config` reads
256, and what is cut off does not decode (`config.rs` 17-18). The identity has 32 bytes, so the
network decides whether a config `Fits`. What was promised is lost with a config that
does not: `Reset` says so, and `CommandsSurvive` is about the others.

### Discovery (`net/mdns.rs`)

| Code | Model |
|---|---|
| `mdns_targets`, `mdns_srv`, `mdns_aaaa` | `targets`, `srv`, `aaaa` |
| `mdns_msg`: its queries and its answers | `queries`, `known` |
| `mdns_ticker`, `mdns_done` | `ticks` |
| one round of the inner loop | `Query`, `Receive`, `ReceiveError` |
| the end of the window | `NothingViable`, `Choose` (with `Preferred` and `addresses`) |
| `continue 'outer` | `restart` |
| `get_server` called again | `SearchAgain` |
| servers and network (external) | `Answers`, `Leave`, `Join`, `Lose` |

Servers answer as mDNS has it: they leave out what the query lists as known. A
record is heard alone. `chosen` and `heard` are history. The bitmap of an NSEC
record is the flag `asks` of the service record it comes with.

### VasTask (`main.rs` 230-384, 386-617, `vas/`)

| Code | Model |
|---|---|
| `reader_config`, `config_observe` | the wallets in it; `observing` |
| `'outer`, `'main` | `Fetch`, `FetchFailed`, `NewConfig`, `ObservationEnded`, `ObservationFailed`, `NextTap` |
| `poll_target`, `new_type_a` | `Target`, `PollFailed`, `Activate` |
| `get_client` | `Select` |
| `apple::Client::do_exchange` | `GetData` |
| `google::Client::do_exchange`, `Session` | `Negotiate`, `NegotiateAgain`, `MoreData`, `LastData`, `ServiceAgain`, `NoPass`, `validate_response`; `sequence` |
| `?` on any step, a refusal, a message that does not parse | `ExchangeFails` |
| an index or an `unwrap` that fails, from activation to submission | `Panics` |
| `deselect`, `handle_response` | `Deselect`, `handle_response`, `Submit` |

`transmit` is one step: what it promises is ApduExchange. Parts of an answer are numbered
by the attempt they belong to. `given`, `delivered` and `wronged` are history. The
waits for the CoAP client are CoapClient's.

## 3. Runs

| Run | Question | Bounds |
|---|---|---|
| `CoapConnection.cfg` | Are flag, window and queue consistent, is a silent peer noticed in time, does the layer implement `SendWindow`? | 3 packets, NSTART 1 as in the code, 4 ids so that they wrap, timeouts of 1 or 2 ticks so that deadlines cross, one retransmission, a ping every 3 ticks, channels of 2 and 1 |
| `CoapConnectionLive.cfg` | Is every packet and ping settled, unless `run` is held up for good; with one packet that cannot be serialised? | 3 packets, one timeout, a ping every 2 ticks |
| `CoapClient.cfg` | Does the config never go back and is the registry exact, with duplicates, errors, configs that do not parse and a reconnection? | 2 tokens, two connections, notifications 1 and 2, channels of 1 so that every wait for room happens |
| `CoapClientLive.cfg` | Do requests return, are connections replaced, stale observations dropped? | at most one unread notification, channels of 5 as in the code |
| `CoapClientSpawn.cfg` | (violation) Can the next client task always be spawned? | two unread notifications |
| `DtlsSession.cfg` | Is the window exact, is nothing that was acknowledged lost, can both sides wait, are the flights in order, does the server have Finished when connect succeeds; does connect return? | with and without a second ClientHello; a window of 2 words of 2 bits, numbers modulo 4, 2 numbers remembered for a message, 1 doubling of the timeout, 1 refused poll, repeated datagram or repeated message of the server, 1 acknowledgement |
| `Pn532Io.cfg` | Is every answer the answer to its own command, does every command return, do the LEDs get the lock, unless the search for a frame panics? | 2 codes, 3 serial numbers |
| `IsoDep.cfg` | Do the numbers agree, is no block missing, does the block protocol implement `ApduExchange`, with cards that ask for more time and for blocks again? | blocks of 2 bytes, commands of 1 to 5: one block to three, with multiples of the block; 2 extensions, 2 repeats in an exchange |
| `Ws2812.cfg` | Is every frame whose refills are in time shown as it is; does every other end, and leave no signal behind? | halves of 3, all lengths up to twice the memory and two more |
| `Provisioning.cfg` | Does an answered command survive, does the identity stay, is no change forgotten; is a config that stays used, a lost link shown? | 5 networks (one; one with an empty SSID; one that is refused; two that do not fit, one of them refused), 2 identities, 2 power failures |
| `Discovery.cfg` | Does a result belong together, does a search end? | a server with 2 hosts, one with a host that is not link-local; 2 queries in a window |
| `VasTask.cfg` | Do the LEDs say what became of the passes, is a correct phone accepted? | 2 passes, answers of 1 or 2 parts, 2 transient failures |

`SilenceBounded` is the bound 10 s + 2 * 93 s = 196 s of the code in the model's
ticks: the ping is armed last, behind a request with a lower id.

Bounds. Three packets are one in flight, one queued and one in the channel: a
fourth finds nothing new. NSTART is a parameter and the proofs hold for all of it, but for the bound on the
silence, which is about the code's value of 1.
Two connections are an old and a new one; more repeat the step between them.
`NotifyWindow` is the boundary of the liveness results: with one unread
notification the channel of the observation has room for it; with two,
`run_coap_client` waits for room with the registry locked.

In `DtlsSession` a client with two timeouts sends everything twice, which fills the two
numbers that a message remembers; a third makes the list start over. Loss is not
bounded. `MaxTrouble` is one budget for what is refused, repeated by the network and
repeated by the server: each of these happens, two of them do not meet. Two
doublings with the timer's retransmissions (985 thousand states) and two
acknowledgements (1.6 million) have been explored with the same result; they only
make the run longer. The run does not receive enough for a window of four to move
out of what it remembers, so `WindowExact` there tells of reordering and repetition
only; for every size and history it is proved (section 4).

A command of the PN532 needs a serial number that differs from the one before and
the one after: three are enough. A frame that fits the memory, one that ends
with it, one that ends with a refilled half and one that goes round are all the
cases of `copy`; the width of a half does not matter further.

Two networks that work let a config change twice before it is used, which is all
that `unseen` can tell apart. The first power failure may meet a file that is not
there, the second one that is. The smallest window in which an address can be asked
for and answered has two queries; the code has five, and a sixth that comes too late
to be answered. Two attempts at an answer of two parts leave a part of the first
attempt in front of a later one if they can.

Deadlock is checked except where the system really may stop: in the CoapClient runs
without fairness the bounds on connections and notifications (and, in
`CoapClientSpawn`, the panic) end a behaviour; in IsoDep, Pn532Io, Ws2812,
Provisioning and VasTask a panic does; in DtlsSession the future returns.

Each module states its types as `TypeOK`. The runs of CoapConnection, CoapClient and
Provisioning check it, where it bounds a table, a channel or an option that the code
unwraps.

### Fairness

The executor polls every ready task again: weak fairness for tasks. The arms of
a `select` are polled in order, the datagram first; that a due timer or a waiting
packet is served in the end is strong fairness, which holds because the peer
sends at a finite rate and one handler is far shorter than a timeout. In `Pn532Io` the chip is not fair: a timeout ends each wait for its line
(`Ready \/ NotReady`), the timeout of the bus a read that hangs, and the end of the heap the
search for a start code, so that one of the ways to go on from a read is taken
(`ReadAck \/ Read \/ ReadError \/ NoStartCode \/ ReadPanics`); which one is open.
`EveryCommandReturns` and `LightsGetTheLock` therefore name the panic, after which nothing
runs. The LED task ends its frames, which is `Ws2812!FrameEnds`. In `Ws2812` the transmitter goes on (`Send \/ Stop`) and its
interrupt is served. Nothing is assumed of the peer, the server, cards or the link: `EveryPacketSettled` and
`EveryRequestReturns` hold without any answer.

In `CoapConnection` nothing is assumed of the client tasks either. `run_coap_client` may stop
receiving for good: it may wait for a reader of a response with the registry locked
(`net/coap.rs` 569-570), or for room in `packets_send` (576), which only `run` empties.
`packets_recv` then fills up and `run` waits at 254, without a timer or a ping: `HeldUp`.
`EveryPacketSettled` and `EveryPingSettled` say that this is the one exception: either
`run` is held up from some time on (`<>[]HeldUp`), or each packet and ping is settled.

In `DtlsSession` a new future is polled, and polled again when its timer has expired: the
executor and the timer of `net/tls.rs` 253-269, as weak fairness of the two
actions. It is stated with the states in which they are enabled written out (`Unpolled`,
`TimerRuns`), because computing ENABLED would run the whole handshake again in every state.
Nothing is assumed of the server, the network or the socket: `ConnectReturns` ends in an
error then, by the bound on the doublings.

In `Provisioning` start-up, commands and the radio's operations complete. The WiFi
task and its `changed()` are strongly fair: a command is a stretch in which the
task is not polled, and a link may be lost again and again, but after each
connection the `select` polls a change that is already there before the next
loss can be reported. In `Discovery` the draw among servers is strongly fair, being
random: `Choose` is so for each server.

Two assumptions are about time. `ShowsFrame` is for a frame none of whose refills is
late: sending a half takes 240 microseconds (192 pulses), and on the second core
nothing runs but this task and that of the PN532. `SearchEnds` assumes that from some
time on a usable server stays, nothing is lost, no receive fails and servers answer
within the second to the next query (`Calm`, `Timely`, `Usable`); before that
anything may have happened.

### Disagreement found

`CoapClientSpawn.cfg`: `CoAPClient::new` unwraps the result of `spawn`
(`net/coap.rs` 403-405). A card is presented, two notifications arrive during the
exchange; the first fills the observation's channel, the second suspends
`run_coap_client` in `chan.send` with the registry locked; the connection fails
and another is made before the exchange ends; the pool of one is in use, the
unwrap panics and the device stops.

More weaknesses met while modelling are listed under "hazards" and contradict
no line of the repository:

* an observation dropped because its config does not parse leaves its token behind
  (`main.rs` 268, 289);
* the same locked wait makes the submission of a tap wait for itself;
* while `run_coap_client` waits, `packets_recv` fills and `run` is held up with it: a dead peer
  is not noticed (`net/coap.rs` 254). The two wait for each other when `run` is at 254 and
  `run_coap_client` at 576 with `packets_send` full;
* a config that takes more than 256 bytes is accepted, answered and written, and cannot
  be read after a reset: it is lost, and with it a server identity that was answered
  before (`improv.rs` 242-285, `config.rs` 6, 17);
* a frame of the PN532 without a start code is searched for without bound under the IO
  lock, up to a panic; so does an acknowledgement at an odd place end (`io.rs` 171-173, 53);
* a config that does not parse leaves a token whose channel has no reader: another
  notification for it may hold `run_coap_client`, and the registry with it, for the
  rest of the connection (`net/coap.rs` 570); `CoapClientLive.cfg` is for configs that parse;
* in wolfSSL, `got_timeout` flushes what is left in the output buffer and sends it
  again as a retransmission, without completing the stage it belongs to; `connect` then
  sends that message a second time under a new number and the server gives the
  handshake up (`tls13.c` 13164). The future fails and another is made;
* a socket that is full during a retransmission ends the handshake (`ssl.c` 9955-9967),
  one that is full during a first transmission does not;
* an error of the socket while Finished is sent is not returned (`tls13.c` 11133-11274), so
  that connect may succeed without it. `FinishedDelivered` is for the others;
* the fast timer also retransmits when there is something to acknowledge, because
  its flag is cleared first (`dtls13.c` 2734), although the comment at 2741-2745 speaks
  of acknowledging only. It costs a retransmission and a doubling of the timer;
* a block that a card asks for again is appended to the bytes of the first attempt
  (`iso_dep.rs` 60): the card gets it twice. `NoBlockMissing` says what is left;
* a card can ask for more time, or for a block again, without end (`iso_dep.rs` 56,
  71);
* an empty answer to an extension, or a short answer to select, is indexed
  (`iso_dep.rs` 71, 128), and so is an answer of less than two bytes
  (`vas/apdu.rs` 90), and so is data of Google's that is shorter than its IV and HMAC
  (`vas/google/mod.rs` 239-241): a panic;
* a phone that reports a transient failure every time is asked without end
  (`vas/google/mod.rs` 194);
* a network that the driver refuses panics after it was persisted, so every
  start-up panics again (`net/mod.rs` 16, 67);
* a config without a network leaves `WIFI_STATUS` at connected (`net/mod.rs` 77);
* a server without a link-local address panics the search (`net/mdns.rs` 252), and
  known answers are added without looking for duplicates, so that a query may
  outgrow its socket, which panics (`net/mdns.rs` 93, 76);
* an error of `deselect` drops passes that were read (`main.rs` 360); an error is
  shown, which is `LossIsShown`.

## 4. Proofs

`CoapConnectionProofs` proves, for every set of packets, NSTART, id space larger
than one, capacity and choice of timeouts, from `ConnectionAssumption` alone:

* `TypeCorrect`: `Spec => []TypeOK`. The table is handled by lemmas on `Insert` and
  `Remove`, each helper of the code has a lemma (`TransmitType`, `DrainType`), and
  the step has one case per action.
* `PingFlagIsExact` and `WindowHolds`: `Spec => []PingFlagExact` and
  `Spec => []Window`, from the invariant `WindowInvariant`: types, "the flag says
  whether there is a ping and no two pings differ", and "the requests fit the
  window". `Window`'s bound of NSTART + 1 is not inductive without the other two,
  and neither is the flag without `IdIsFree`: a reused id would overwrite the ping.

Under the further assumption that every packet can be serialised (`Unserialisable = {}`,
without which both are false):

* `QueueIsOpened`: `Spec => []QueueHasOpener`;
* `Refinement`: `Spec => ImplementsSendWindow`.

The invariant is `SendInvariant`: `WindowInvariant`, `QueueHasOpener`, and
`OnePlaceEach` (a packet waits once or is in flight once). The refinement needs all
three: a packet may go round the queue only because the queue is then empty, which
is `QueueHasOpener`, and settling an entry finishes with one packet only because
no packet is in flight twice. `Advance` says what the clients see of a drain, and
`Keeps` what each handler establishes. The lemmas on sequences say that the queue
and the channel behave like one sequence.

With the code's NSTART of 1 and four retransmissions (`CodeValues`), and timeouts among which
one is the largest:

* `SilenceIsBounded`: `Spec => []SilenceBounded`. `Rest` is the number of ticks until a packet
  is given up, and `Within` says that the silence so far, the rest of the ping and the
  rest of the request it stands behind stay below the bound. The timer serves the
  lowest id only, so a tick shortens one of the two rests; which one depends on where
  the ids wrap. With a larger NSTART the bound is not claimed: after the ids wrap,
  new requests may keep getting ids below the ping's.

`Ws2812Proofs` proves `SignalsAreFresh`: `Spec => []NoStaleSignal`, for every memory
size and length and however late the refills are. The invariant adds that the interrupt is
disabled once `DONE` has been raised, without which `COPY` could follow it.
`FrameIsShown` proves `Spec => []ShowsFrame`, likewise for every memory and length: the memory
holds `2 * Half` places of the frame from some `base` on, and a refill is due from the
moment the transmitter has left the older half (`Holds`); a refill that is in time moves
`base` by one half; the end is reported only after the last place was sent.

`ProvisioningProofs` proves, for all networks and identities, any sets of networks the
driver refuses and of those that do not fit, and any number of power failures, from `ProvisioningAssumption`:

* `CommandsAlwaysSurvive`: `Spec => []CommandsSurvive`. `CommandInvariant` says how the
  watch, the file and what was promised follow each other through the three steps of
  a command: the watch is one field ahead of the promise (`OneFieldAhead`) and the
  file is one of the two. The next command starts from the watch, so that the
  promise is kept only because the watch agrees with it between commands. A config that
  does not fit leaves a file that nobody can read: the file is then neither of the two, and
  until a task runs again the promise is the default config (`LoadedConfig`).
* `IdentityIsKept`: `Spec => []IdentityKept`; the key that was used is in the file, and a
  new one is only made while there is none.
* `NoChangeIsForgotten`: `Spec => []NoChangeForgotten`; the task has not started before
  the config is loaded, which marks it as unseen.
* `TypeCorrect`: `Spec => []TypeOK`, in three parts (`KeysOK`, `SerialOK`, `RadioOK`) next to
  `CommandInvariant`: the radio has its networks from configs, and a boot makes one key at
  most.

`DtlsSessionProofs` proves for every size of window, modulus and bound, from
`RecordAssumption` and `SessionAssumption`:

* of the records alone: `ReceivedIsRefused`, `NewIsAccepted` and `NumberIsReconstructed`,
  by way of `UpdateWindowIsExact`: a window that is exact stays so when a record is
  added, for the case that sets a bit (`OldRecordIsExact`) and the one that shifts
  (`NewRecordIsExact`, over `ShiftedMoves`, which says where each bit goes). `Division`
  and the lemmas on positions carry the arithmetic of words and bits;
* of the session: `WindowIsExact`, `Spec => []WindowExact`, with the types of the windows,
  the numbers under way and the history as `WindowInvariant`. Only `Receive` touches
  them, which `ReceiveTakes` isolates from the rest of the handshake;
* of the handshake: `HandshakeAlways`, `Spec => []HandshakeInv`, and from it
  `FlightsAlwaysInOrder`, `AckedIsNeverLost`, `FinishedIsDelivered` and
  `SomebodyAlwaysRetransmits`: what the session's other four invariants say.

`DtlsHandshake` defines `HandshakeInv`. None of the four properties is inductive, and none
can be strengthened without the others:

* `Progressed`: a stage is entered when what it waits for has been processed. That Finished
  is last in the server's flight carries `FlightsInOrder`;
* `Claim` and `Carried`: the numbers that the client has acknowledged or will, in whatever
  buffer or datagram they are, name records whose message it keeps. They give
  `NothingAckedIsLost`;
* `Numbered`: no record number is used twice, and a number that the client still tracks
  names one message. Without it an acknowledgement could remove a message that the
  server does not have. The client sends a message again under a new number and the
  list of its numbers starts over when it is full: the lemmas on `Resent` say that a
  number may be forgotten and never moves to another message;
* `Honest`: a message number stands for one message, the one that the server takes it for, and
  Finished, once sent, is kept until the server has it: `FinishedDelivered`. It does not
  hold after an error other than a full socket, when the future ends;
* `Covered`: a client that keeps nothing to send again waits only when the server has what
  it needs to answer, and `Resting`: a poll ends where only an arrival helps. The two and
  `Claim` give `SomebodyRetransmits`.

A poll is one step of the model and a long one: it may finish a write, retransmit, take
datagrams and pass through several stages. The proof follows it part by part. `Again(s, t)`
says of what is sent or sent again that nothing but record numbers changes, `NewMessage`
and `Moved` what a stage that sends and a change of stage do, `Ran` what any part of
connect establishes, and `Ended` how a poll leaves the session. In the middle of a poll
`connectState` may be behind what has been sent: the parts of the invariant have the stage
as a parameter (`ProgressedAt`, `HonestAt`, `CoveredAt`) for that. The retransmission of the
whole list is a recursive function over its length; `Induction` is what says anything about
its last value. The lemma is about a set of numbers, not a predicate, and follows from
the well-foundedness of the natural numbers.

`INVARIANT HandshakeInv` on `DtlsHandshake` with the constants of `DtlsSession.cfg` is confirmed by
TLC in all 243072 states.

`VasTaskProofs` proves, for any number of passes, parts and failures, `DoneMeansDelivered`,
`NoLossIsHidden` and `RightOrderIsAccepted`. `TapInvariant` says what each step of the
task knows: `Held` that it has everything the phone has given, `PartsOfAttempt`
that the parts it keeps are those of the attempt in progress, and `NumbersFollow` that the
session waits for the number after its own request.

`IsoDepProofs` proves, for every length of command and block and any number of
extensions and repeats, from `BlockAssumption`:

* `NumbersAgree`: `Spec => []BlockNumbersAgree`. `InTheAir` says where the one frame of an
  exchange is, from which the numbers of both sides follow;
* `NoBlockIsMissing`: `Spec => []NoBlockMissing`. `CommandInvariant` says what the card has
  gathered when the reader is at part `i`: every block before it, in order, and each
  exactly once unless a block was asked for again (`Gathers`, `Prefix`). `BlockCount` and
  `PartsEnough` are the arithmetic of the division into parts;
* `ApduRefinement`: `Spec => ImplementsApduExchange`, from the same invariant.

`Pn532IoProofs` proves `AnswerIsItsOwn`: `Spec => []AnswersItsCommand`, for any codes and any
number of serials. `OnePlace` says that a command is in one place at a time,
`ChipFollows` that once it is written the chip has nothing of another one.

`ServerConnectionProofs` proves, of the client, for all tokens, capacities and bounds, from
`ClientAssumption`:

* `ClientTypeCorrect`: `Spec => []TypeOK`;
* `RegistryAlwaysExact`: `Spec => []RegistryExact`;
* `ConfigNeverGoesBack`: `Spec => ConfigMonotone`, an action property, for connections of up
  to 2^23 notifications, beyond which the numbers can no longer be told apart.

They follow from `ClientAlways`, `Spec => []ClientInv`. `ClientRequests` defines `ClientInv`:

* `Entered` is `RegistryExact` and says of which connection each entry is. It needs that
  no registry comes back to life (`AliveBefore`) and that a new connection drops all but the
  registry of a request under way (`EnteredConnect`);
* `OneConfig`: the config is not asked for while it is observed, so that the response to
  such a request cannot replace an observation;
* `OneRequest`: a request is with the vas task, in the channel to `run()` or with the server,
  and until the server answers it no message has its token (`Open`). A request is therefore
  answered once, and the answer is the first word on its token. A new token is one that
  nobody has (`FreshToken`);
* `LastWord`: a message without the Observe option is the last one of its token. `next()` takes
  the config of such a message without comparing its number (`net/coap.rs` 530-538), so
  the config would go back if a later notification could overtake it. The server stops when
  it sends such a message and what is in flight is older; the network may still deliver
  notifications after it, but the observation has ended then.

`Flow` says of every step but the server's that messages only move on, from the network to
`run()`, to the dispatcher, to a channel; each part of the invariant then has one lemma for
what such a step keeps (`EnteredKept`, `RequestsKept`, `LastWordKept`) and one for each step
that does more. `INVARIANT ClientInv` on `ClientRequests` with the constants of `CoapClient.cfg`
is confirmed by TLC: 12 million states, 6 million with its symmetry.

It also proves `ResultBelongsTogether`, `SearchSpec => []ResultConsistent`, of `Discovery`, for
all servers and records. `Remembered` says that whatever is kept was heard in this window.

Only model-checked: liveness, that is `EveryPacketSettled`, `EveryPingSettled`,
`EveryRequestReturns`, `EveryConnectionReplaced`, `StaleObservationDropped`, `ConnectReturns`,
`EveryCommandReturns`, `LightsGetTheLock`, `FrameEnds`, `ConfigApplied`, `StatusCorrected` and
`SearchEnds`. Fairness and ENABLED are out of the prover's reach. That TLC evaluates the
assumptions on constants is part of each run.

## 5. Plan

Done: `CoapConnection` and `SendWindow`; `CoapClient` with the tasks that share it; `IsoDep`,
`ApduExchange` and `Pn532Io`; `Ws2812`; `Provisioning`; `Discovery` and `VasTask`;
`Dtls13Record` and `DtlsSession`; the proofs of section 4.

Left, in this order:

1. `CoapTimers`: durations in place of ticks, for `max_transmit_wait` (`net/coap.rs` 41).
2. `Pn532Frame`: the frame format, its checksums and the buffered reads (`I2CRead`),
   against a reference definition; the framing of Improv packets.
3. The session after its handshake: reading and writing, key updates, alerts.
4. Proofs: what liveness rests on, as invariants: that the dispatcher waits only for a
   channel that is registered, that a lock is always released by a step of somebody else.

### Not modelled

* In the DTLS session: fragments of a message, alerts, reading and writing after the
  handshake, key updates, the choice of a slot for a new epoch, the cryptography. While
  connect waits for the acknowledgement of Finished it takes application data for an
  error (`tls13.c` 13459-13473); the server of the model sends none. An identity that
  is changed is looked at in the next handshake only (`main.rs` 700).
* TLV, NDEF and ASN.1 encodings, cryptography, animations, adapters to flash and to the
  logger: pure computation or output, with no state that outlives a call.
* Start-up of the hardware, and the reset and polling sequence of the PN532.
* The rest of `wolfssl-5.8.2/` (other protocols, servers, ciphers and their
  assembly) and the patched crates are third-party code. wolfSSL is nearly all of the C in the
  repository, so that a share of the C that is modelled says little: the firmware's own
  code is the Rust below `src/src/`. What is modelled of wolfSSL is the path that the
  firmware's connect takes through it.
