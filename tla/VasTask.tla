------------------------------ MODULE VasTask -------------------------------
(***************************************************************************)
(* The task that reads passes (src/src/main.rs, src/src/vas): it polls for *)
(* a phone with the config it has, runs the Apple or the Google exchange,  *)
(* lets the phone go, submits what it got and shows what came of it on the *)
(* LEDs (VAS_STATUS).                                                      *)
(*                                                                         *)
(* `Target::transmit` is an action, the phone's answer to its own command  *)
(* (ApduExchange) or an error.  What is in the messages is left out, but   *)
(* for the passes, the sequence numbers of Google's session, and the parts *)
(* of its answer.                                                          *)
(***************************************************************************)
EXTENDS Naturals, Sequences

CONSTANTS
  Passes,      \* passes in Apple's config
  MaxParts,    \* bound: parts of a phone's answer
  MaxRetries   \* bound: transient failures a phone reports in a tap

ASSUME TapAssumption == Passes \in Nat /\ MaxParts \in Nat \ {0} /\ MaxRetries \in Nat

VARIABLES
  step,                      \* where the task is, see TypeOK
  reader_config, observing,  \* the wallets there is a config for; config_observe
  VAS_STATUS,
  results,                   \* Apple: passes read so far; Google: parts of the answer
  sequence, request,         \* Session.sequence; the number in the latest message
  res,                       \* what the exchange came to
  attempt, parts, retries,   \* the phone: its answer to a service request, the
                             \* parts given of it (Apple: passes asked for)
  given, delivered, wronged  \* history: what the phone has given, what the server
                             \* has taken, whether the phone sent a wrong number

exchange == <<results, sequence, request>>
phone == <<attempt, parts, retries>>
history == <<given, delivered, wronged>>
vars == <<step, reader_config, observing, VAS_STATUS, exchange, res, phone, history>>

Wallets == {"apple", "google"}
Exchanging == {"select", "apple", "negotiate", "service", "more"}

TypeOK ==
  /\ step \in Exchanging \cup {"startup", "fetch", "polling", "activate", "deselect",
                               "handle", "submit", "pause", "panicked"}
  /\ reader_config \subseteq Wallets /\ observing \in BOOLEAN
  /\ VAS_STATUS \in {"Startup", "Polling", "Communicating", "Done", "Error"}
  /\ results \in Seq((0 .. MaxRetries + 1) \X (1 .. Passes + MaxParts))
  /\ sequence \in 0 .. 4 /\ request \in {0, 1, 3}
  /\ res \in {"none", "apple", "google", "nothing", "error", "out_of_order"}
  /\ attempt \in 0 .. MaxRetries + 1 /\ parts \in 0 .. MaxParts /\ retries \in 0 .. MaxRetries
  /\ given \in Seq((0 .. MaxRetries + 1) \X (1 .. Passes + MaxParts))
  /\ delivered \in Seq((0 .. MaxRetries + 1) \X (1 .. Passes + MaxParts))
  /\ wronged \in BOOLEAN

Init ==
  /\ step = "startup"
  /\ reader_config = {} /\ observing = FALSE
  /\ VAS_STATUS = "Startup"
  /\ results = <<>> /\ sequence = 0 /\ request = 0
  /\ res = "none"
  /\ attempt = 0 /\ parts = 0 /\ retries = 0
  /\ given = <<>> /\ delivered = <<>> /\ wronged = FALSE

-----------------------------------------------------------------------------
(* Around the taps                                                          *)

\* The PN532 is set up; the results are unwrapped.
Startup ==
  /\ step = "startup"
  /\ step' \in {"fetch", "panicked"}
  /\ UNCHANGED <<reader_config, observing, VAS_STATUS, exchange, res, phone, history>>

Poll ==
  /\ step' = "polling" /\ VAS_STATUS' = "Polling"
  /\ UNCHANGED <<exchange, res, phone, history>>

\* A config from the server, observed or not,
Fetch ==
  /\ step = "fetch"
  /\ reader_config' \in SUBSET Wallets /\ observing' \in BOOLEAN
  /\ Poll

\* or none.
FetchFailed ==
  /\ step = "fetch"
  /\ VAS_STATUS' = "Error"
  /\ UNCHANGED <<step, reader_config, observing, exchange, res, phone, history>>

NewConfig ==
  /\ step = "polling" /\ observing
  /\ reader_config' \in SUBSET Wallets
  /\ Poll
  /\ UNCHANGED observing

ObservationEnded ==
  /\ step = "polling" /\ observing
  /\ observing' = FALSE
  /\ Poll
  /\ UNCHANGED reader_config

ObservationFailed ==
  /\ step = "polling" /\ observing
  /\ step' = "fetch" /\ VAS_STATUS' = "Error"
  /\ UNCHANGED <<reader_config, observing, exchange, res, phone, history>>

\* The end of a tap, three seconds before the next one.
EndTap(status) ==
  /\ step' = "pause" /\ VAS_STATUS' = status
  /\ UNCHANGED <<reader_config, observing, exchange, phone>>

\* Polling came to nothing: a protocol error is passed over, any other shown.
PollFailed ==
  /\ step = "polling"
  /\ \E status \in {VAS_STATUS, "Error"} : EndTap(status)
  /\ UNCHANGED <<res, history>>

Target ==
  /\ step = "polling"
  /\ step' = "activate" /\ VAS_STATUS' = "Communicating"
  /\ UNCHANGED <<reader_config, observing, exchange, res, phone, history>>

\* IsoDep::new_type_a; the phone is not deselected when it fails.
Activate ==
  /\ step = "activate"
  /\ \/ step' = "select" /\ UNCHANGED <<reader_config, observing, VAS_STATUS, exchange, phone>>
     \/ EndTap("Error")
  /\ UNCHANGED <<res, history>>

-----------------------------------------------------------------------------
(* The exchange                                                             *)

Keep == UNCHANGED <<reader_config, observing, VAS_STATUS>>

\* The exchange ends with `r`, well or not, and the phone is deselected.
End(r) == step' = "deselect" /\ res' = r /\ UNCHANGED sequence

\* transmit() fails, or the answer is a refusal or no valid message.
ExchangeFails ==
  /\ step \in Exchanging
  /\ End("error")
  /\ Keep /\ UNCHANGED <<results, request, phone, history>>

\* An answer of less than two bytes (IsoDep: one that is too short), or an
\* application that has to be selected, which is not implemented; then Google's data
\* being shorter than its IV and HMAC, and a pass that cannot be encoded.
Panics ==
  /\ step \in Exchanging \cup {"activate", "handle", "submit"}
  /\ step' = "panicked"
  /\ Keep /\ UNCHANGED <<exchange, res, phone, history>>

\* Session::new and its first next_request.
new_session == sequence' = 1 /\ request' = 1

\* VasClient::get_client, and the start of the exchange with the wallet that
\* answers.
Select(wallet) ==
  /\ step = "select"
  /\ results' = <<>>
  /\ retries' = 0 /\ attempt' = 0 /\ parts' = 0
  /\ CASE wallet \notin reader_config -> End("error") /\ UNCHANGED request
       [] wallet = "apple" /\ wallet \in reader_config ->
            IF Passes = 0 THEN End("apple") /\ UNCHANGED request
            ELSE step' = "apple" /\ UNCHANGED <<res, sequence, request>>
       [] OTHER -> step' = "negotiate" /\ new_session /\ UNCHANGED res
  /\ Keep /\ UNCHANGED history

\* Apple: GetData for the next pass.  `parts` counts the passes asked for.
GetData(success) ==
  LET pass == parts + 1
      read == IF success THEN << <<0, pass>> >> ELSE <<>>
  IN  /\ step = "apple"
      /\ results' = results \o read
      /\ given' = given \o read
      /\ parts' = pass
      /\ IF pass = Passes THEN End("apple") ELSE UNCHANGED <<step, res, sequence>>
      /\ Keep /\ UNCHANGED <<request, attempt, retries, delivered, wronged>>

\* Mutant: the number of a response is not counted.
validate_response_uncounted(number, accepted) ==
  IF number = sequence THEN sequence' = sequence /\ accepted
  ELSE step' = "deselect" /\ res' = "out_of_order" /\ UNCHANGED <<sequence, request>>

\* The response has to carry the next number, and has one however it ends.
validate_response(number, accepted) ==
  IF number = sequence + 1 THEN accepted
  ELSE /\ step' = "deselect" /\ res' = "out_of_order"
       /\ sequence' = sequence + 1 /\ UNCHANGED request

\* The phone numbers a response one higher than its request, or wrongly.
Numbered(number) ==
  /\ number \in {request + 1, request}
  /\ wronged' = (wronged \/ number # request + 1)

\* Google: the secure channel, and next_request() for what follows.
Negotiate(number) ==
  /\ step = "negotiate"
  /\ Numbered(number)
  /\ validate_response(number,
       /\ step' = "service" /\ UNCHANGED res
       /\ sequence' = number + 1 /\ request' = number + 1)
  /\ Keep /\ UNCHANGED <<results, phone, given, delivered>>

Transient == retries < MaxRetries /\ retries' = retries + 1

\* A transient failure: the same message again.
NegotiateAgain ==
  /\ step = "negotiate" /\ Transient
  /\ Keep /\ UNCHANGED <<step, exchange, res, attempt, parts, history>>

\* Mutant: `data` is not emptied for another attempt.
extend_data_kept(k) == results' = Append(results, <<attempt', k>>)

\* data.extend(res.data), `data` being empty at the top of the loop.
extend_data(k) == results' = Append(IF k = 1 THEN <<>> ELSE results, <<attempt', k>>)

\* The next part of the answer to the service request.
Part(k) ==
  /\ k = IF step = "service" THEN 1 ELSE parts + 1
  /\ k <= MaxParts
  /\ attempt' = IF step = "service" THEN attempt + 1 ELSE attempt
  /\ parts' = k
  /\ extend_data(k)
  /\ Keep /\ UNCHANGED <<retries, delivered>>

MoreData(k) ==
  /\ step \in {"service", "more"}
  /\ Part(k)
  /\ step' = "more"
  /\ UNCHANGED <<sequence, request, res, given, wronged>>

\* The last part: the phone has given all of them.
LastData(k, number) ==
  /\ step \in {"service", "more"}
  /\ Part(k)
  /\ Numbered(number)
  /\ given' = [j \in 1 .. k |-> <<attempt', j>>]
  /\ validate_response(number,
       step' = "deselect" /\ res' = "google" /\ sequence' = number /\ UNCHANGED request)

\* A transient failure: the service request again, from the start.
ServiceAgain ==
  /\ step \in {"service", "more"} /\ Transient
  /\ step' = "service"
  /\ Keep /\ UNCHANGED <<exchange, res, attempt, parts, history>>

\* The phone wants its user to do something, or knows no pass: no result.
NoPass ==
  /\ step \in {"negotiate", "service", "more"}
  /\ End("nothing")
  /\ Keep /\ UNCHANGED <<results, request, phone, history>>

-----------------------------------------------------------------------------
(* After the exchange                                                       *)

Failed == res \in {"error", "out_of_order"}

\* Mutant: an error of deselect() is passed over, and with it the result.
Deselect_or_nothing ==
  /\ step = "deselect"
  /\ \/ EndTap(VAS_STATUS)
     \/ res \in Wallets /\ step' = "handle"
          /\ UNCHANGED <<reader_config, observing, VAS_STATUS, exchange, phone>>
     \/ res = "nothing" /\ EndTap(VAS_STATUS)
     \/ Failed /\ EndTap("Error")
  /\ UNCHANGED <<res, history>>

\* deselect(); its error goes before the result of the exchange.
Deselect ==
  /\ step = "deselect"
  /\ \/ EndTap("Error")
     \/ res \in Wallets /\ step' = "handle"
          /\ UNCHANGED <<reader_config, observing, VAS_STATUS, exchange, phone>>
     \/ res = "nothing" /\ EndTap(VAS_STATUS)
     \/ Failed /\ EndTap("Error")
  /\ UNCHANGED <<res, history>>

\* handle_response: Apple's passes that were read, if any; Google's answer, if it
\* can be decrypted, inflated and decoded.
handle_response ==
  /\ step = "handle"
  /\ \/ res = "apple" /\ results = <<>> /\ EndTap("Done")
     \/ res = "google" /\ EndTap("Error")
     \/ /\ res = "google" \/ results # <<>>
        /\ step' = "submit"
        /\ UNCHANGED <<reader_config, observing, VAS_STATUS, exchange, phone>>
  /\ UNCHANGED <<res, history>>

Taken == delivered' = results

\* The POST of the tap: the server takes it and says so; it refuses, or there is no
\* client; or nothing is heard of it.
Submit ==
  /\ step = "submit"
  /\ \/ Taken /\ EndTap("Done")
     \/ (Taken \/ UNCHANGED delivered) /\ EndTap("Error")
  /\ UNCHANGED <<res, given, wronged>>

\* The top of 'main.
NextTap ==
  /\ step = "pause"
  /\ step' = "polling" /\ VAS_STATUS' = "Polling"
  /\ res' = "none" /\ results' = <<>>
  /\ attempt' = 0 /\ parts' = 0 /\ retries' = 0
  /\ given' = <<>> /\ delivered' = <<>> /\ wronged' = FALSE
  /\ UNCHANGED <<reader_config, observing, sequence, request>>

Next ==
  \/ Startup \/ Fetch \/ FetchFailed
  \/ NewConfig \/ ObservationEnded \/ ObservationFailed
  \/ PollFailed \/ Target \/ Activate
  \/ ExchangeFails \/ Panics
  \/ \E wallet \in Wallets : Select(wallet)
  \/ \E success \in BOOLEAN : GetData(success)
  \/ \E number \in 1 .. 4 : Negotiate(number)
  \/ NegotiateAgain
  \/ \E k \in 1 .. MaxParts : MoreData(k)
  \/ \E k \in 1 .. MaxParts, number \in 1 .. 4 : LastData(k, number)
  \/ ServiceAgain \/ NoPass
  \/ Deselect \/ handle_response \/ Submit \/ NextTap

Spec == Init /\ [][Next]_vars

-----------------------------------------------------------------------------
\* "Done" is shown only when the server has taken everything the phone has given in
\* this tap, and nothing else: every part of the last answer, once and in order,
\* whatever failed and was asked for again (main.rs 363-381, google/mod.rs 161-216).
DoneIsDelivered ==
  step = "pause" /\ VAS_STATUS = "Done" => delivered = given

\* When the server has not taken what the phone has given, an error is shown: no
\* pass is lost silently, at whichever step it is lost (main.rs 355-381).
LossIsShown ==
  step = "pause" /\ given # <<>> /\ delivered # given => VAS_STATUS = "Error"

\* A phone that numbers its responses rightly is not refused for their order,
\* however often it has asked for a message again (google/session.rs 18-37).
RightOrderAccepted == res = "out_of_order" => wronged
=============================================================================
