---------------------------- MODULE VasTaskProofs ----------------------------
(***************************************************************************)
(* What the LEDs show of a tap is what became of its passes, and a phone   *)
(* that numbers its responses rightly is not refused, for every number of  *)
(* passes, parts of an answer and transient failures.                      *)
(***************************************************************************)
EXTENDS VasTask, TLAPS

\* Google's session has used the number it sent, and waits for the next one.
NumbersFollow ==
  step \in {"negotiate", "service", "more"} => sequence = request

\* The parts that are kept are those of the attempt in progress, from the first.
PartsOfAttempt ==
  /\ parts \in Nat
  /\ step = "more" => results = [j \in 1 .. parts |-> <<attempt, j>>]

\* Nothing is taken before it is submitted.
Untaken == step # "pause" => delivered = <<>>

\* What the phone has given is what the task holds of it, unless the exchange
\* came to an error; `given` is not looked at in a panic.
Held ==
  /\ step \in {"startup", "fetch", "polling", "activate", "select",
               "negotiate", "service", "more"} => given = <<>>
  /\ step \in {"apple", "handle", "submit"} => given = results
  /\ step = "deselect" =>
       /\ res = "nothing" => given = <<>>
       /\ res \in Wallets => given = results

\* The task does not handle what it did not get.
HasResult ==
  step \in {"deselect", "handle", "submit"} =>
    res \in Wallets \cup {"nothing", "error", "out_of_order"}

TapInvariant ==
  /\ NumbersFollow /\ PartsOfAttempt /\ Untaken /\ Held /\ HasResult
  /\ DoneIsDelivered /\ LossIsShown /\ RightOrderAccepted

LEMMA TapInit == Init => TapInvariant
  BY DEF Init, TapInvariant, NumbersFollow, PartsOfAttempt, Untaken, Held, HasResult,
         DoneIsDelivered, LossIsShown, RightOrderAccepted

\* The parts of an answer, with the one that continues them.
LEMMA PartsAppend ==
  ASSUME NEW k \in Nat, NEW a
  PROVE  Append([j \in 1 .. k |-> <<a, j>>], <<a, k + 1>>) = [j \in 1 .. k + 1 |-> <<a, j>>]
<1> DEFINE s == [j \in 1 .. k |-> <<a, j>>]
<1>1. s \in Seq({a} \X (1 .. k)) /\ Len(s) = k
  OBVIOUS
<1> QED
  BY <1>1

\* A part of an answer that follows those before it leaves the answer so far.
LEMMA PartKept ==
  ASSUME TapInvariant, NEW k \in 1 .. MaxParts, step \in {"service", "more"}, Part(k)
  PROVE  results' = [j \in 1 .. parts' |-> <<attempt', j>>]
<1>1. parts' = k /\ k \in Nat \ {0} /\ MaxParts \in Nat \ {0}
  BY TapAssumption DEF Part
<1>2. CASE k = 1
  <2>1. results' = Append(<<>>, <<attempt', 1>>)
    BY <1>2 DEF Part, extend_data
  <2>2. Append(<<>>, <<attempt', 1>>) = [j \in 1 .. 1 |-> <<attempt', j>>]
    OBVIOUS
  <2> QED
    BY <2>1, <2>2, <1>1, <1>2
<1>3. CASE k # 1
  <2>1. step = "more" /\ k = parts + 1 /\ attempt' = attempt
    BY <1>3 DEF Part
  <2>2. parts \in Nat
    BY DEF TapInvariant, PartsOfAttempt
  <2>3. results = [j \in 1 .. parts |-> <<attempt, j>>]
    BY <2>1 DEF TapInvariant, PartsOfAttempt
  <2>4. results' = Append(results, <<attempt, k>>)
    BY <2>1, <1>3 DEF Part, extend_data
  <2> QED
    BY <1>1, <2>1, <2>2, <2>3, <2>4, PartsAppend
<1> QED
  BY <1>2, <1>3

LEMMA TapStep == TapInvariant /\ [Next]_vars => TapInvariant'
<1> SUFFICES ASSUME TapInvariant, [Next]_vars PROVE TapInvariant'
  OBVIOUS
<1> USE DEF TapInvariant, NumbersFollow, PartsOfAttempt, Untaken, Held, HasResult,
            DoneIsDelivered, LossIsShown, RightOrderAccepted, Keep, End, EndTap,
            Wallets, Exchanging, exchange, phone, history
<1>1. CASE Startup \/ Fetch \/ FetchFailed \/ NewConfig \/ ObservationEnded \/ ObservationFailed
  BY <1>1 DEF Startup, Fetch, FetchFailed, NewConfig, ObservationEnded, ObservationFailed, Poll
<1>2. CASE PollFailed \/ Target \/ Activate
  BY <1>2 DEF PollFailed, Target, Activate
<1>3. CASE ExchangeFails \/ Panics \/ NoPass
  BY <1>3 DEF ExchangeFails, Panics, NoPass
<1>4. ASSUME NEW wallet \in Wallets, Select(wallet) PROVE TapInvariant'
  <2>1. CASE wallet \notin reader_config
    BY <1>4, <2>1 DEF Select
  <2>2. CASE wallet = "apple" /\ wallet \in reader_config
    BY <1>4, <2>2 DEF Select
  <2>3. CASE wallet # "apple" /\ wallet \in reader_config
    BY <1>4, <2>3 DEF Select, new_session
  <2> QED
    BY <2>1, <2>2, <2>3
<1>5. ASSUME NEW success \in BOOLEAN, GetData(success) PROVE TapInvariant'
  BY <1>5 DEF GetData
<1>6. ASSUME NEW number \in 1 .. 4, Negotiate(number) PROVE TapInvariant'
  BY <1>6 DEF Negotiate, Numbered, validate_response
<1>7. CASE NegotiateAgain \/ ServiceAgain
  BY <1>7 DEF NegotiateAgain, ServiceAgain, Transient
<1>8. ASSUME NEW k \in 1 .. MaxParts, MoreData(k) PROVE TapInvariant'
  <2>1. results' = [j \in 1 .. parts' |-> <<attempt', j>>] /\ parts' \in Nat
    BY <1>8, PartKept, TapAssumption DEF MoreData, Part
  <2> QED
    BY <1>8, <2>1 DEF MoreData, Part
<1>9. ASSUME NEW k \in 1 .. MaxParts, NEW number \in 1 .. 4, LastData(k, number)
      PROVE  TapInvariant'
  <2>1. results' = given' /\ parts' \in Nat
    BY <1>9, PartKept, TapAssumption DEF LastData, Part
  <2> QED
    BY <1>9, <2>1 DEF LastData, Part, Numbered, validate_response
<1>10. CASE Deselect
  BY <1>10 DEF Deselect, Failed
<1>11. CASE handle_response
  BY <1>11 DEF handle_response
<1>12. CASE Submit
  BY <1>12 DEF Submit, Taken
<1>13. CASE NextTap
  BY <1>13 DEF NextTap
<1>14. CASE UNCHANGED vars
  BY <1>14 DEF vars
<1> QED
  BY <1>1, <1>2, <1>3, <1>4, <1>5, <1>6, <1>7, <1>8, <1>9, <1>10, <1>11, <1>12, <1>13, <1>14
  DEF Next

\* "Done" is shown only when the server has taken everything that the phone has
\* given in this tap, and nothing else (main.rs 363-381, google/mod.rs 161-216).
THEOREM DoneMeansDelivered == Spec => []DoneIsDelivered
<1>1. TapInvariant => DoneIsDelivered
  BY DEF TapInvariant
<1> QED
  BY <1>1, TapInit, TapStep, PTL DEF Spec

\* No pass is lost without an error being shown, at whichever step it is lost
\* (main.rs 355-381).
THEOREM NoLossIsHidden == Spec => []LossIsShown
<1>1. TapInvariant => LossIsShown
  BY DEF TapInvariant
<1> QED
  BY <1>1, TapInit, TapStep, PTL DEF Spec

\* A phone that numbers its responses rightly is not refused for their order
\* (google/session.rs 18-37).
THEOREM RightOrderIsAccepted == Spec => []RightOrderAccepted
<1>1. TapInvariant => RightOrderAccepted
  BY DEF TapInvariant
<1> QED
  BY <1>1, TapInit, TapStep, PTL DEF Spec
=============================================================================
