---------------------------- MODULE Pn532IoProofs ----------------------------
(***************************************************************************)
(* Whatever is late or lost, the answer that is returned for a command is  *)
(* the answer to that command, for every set of codes.                     *)
(***************************************************************************)
EXTENDS Pn532Io, TLAPS

Written == step \in {"await_ack", "read_ack", "await", "pause", "read", "search"}

\* A command is in one place at a time: in its channel, with the task, or in the
\* channel of the responses as its result.
OnePlace ==
  /\ COMMANDS = <<>> \/ (COMMANDS = <<caller>> /\ step = "idle" /\ RESPONSE = <<>>)
  /\ step # "idle" => command = caller /\ COMMANDS = <<>> /\ RESPONSE = <<>>
  /\ RESPONSE = <<>> \/ (\E r : RESPONSE = <<r>> /\ (r.ok => r.of = caller))
  /\ caller = NoCommand => COMMANDS = <<>> /\ RESPONSE = <<>> /\ step = "idle"

\* From the moment a command is written, the chip has nothing of another one.
ChipFollows ==
  Written => /\ working # NoCommand => working = command
             /\ frame.kind = "data" => frame.of = command

Numbered == serial \in 0 .. Serials - 1

AnswerInvariant == Numbered /\ OnePlace /\ ChipFollows /\ AnswersItsCommand

LEMMA AnswerInit == Init => AnswerInvariant
  BY SerialAssumption DEF Init, AnswerInvariant, Numbered, OnePlace, ChipFollows, Written, AnswersItsCommand, Error

LEMMA AnswerStep == AnswerInvariant /\ [Next]_vars => AnswerInvariant'
<1> SUFFICES ASSUME AnswerInvariant, [Next]_vars PROVE AnswerInvariant'
  OBVIOUS
<1> USE DEF AnswerInvariant, Numbered, OnePlace, ChipFollows, Written, AnswersItsCommand, task, chip,
            NoFrame
<1>1. ASSUME NEW code \in Codes, Call(code) PROVE AnswerInvariant'
  <2>1. caller'.serial \in 0 .. Serials - 1 /\ NoCommand.serial = Serials
    BY <1>1 DEF Call, NoCommand
  <2>2. caller' # NoCommand /\ serial' \in 0 .. Serials - 1
    BY <1>1, <2>1, SerialAssumption DEF Call
  <2>3. COMMANDS' = <<caller'>>
    BY <1>1 DEF Call
  <2> QED
    BY <1>1, <2>2, <2>3 DEF Call
<1>2. CASE Return
  <2>1. PICK r : RESPONSE = <<r>> /\ (r.ok => r.of = caller)
    BY <1>2 DEF Return
  <2>2. Head(RESPONSE) = r /\ Tail(RESPONSE) = <<>>
    BY <2>1
  <2>3. got'.result = r /\ got'.of = caller /\ RESPONSE' = <<>>
    BY <1>2, <2>2 DEF Return
  <2>4. COMMANDS = <<>> /\ step = "idle"
    BY <1>2 DEF Return
  <2> QED
    BY <1>2, <2>1, <2>3, <2>4 DEF Return
<1>3. CASE LightsAcquire \/ LightsRelease
  BY <1>3 DEF LightsAcquire, LightsRelease
<1>4. CASE Take
  <2>1. COMMANDS = <<caller>> /\ RESPONSE = <<>>
    BY <1>4 DEF Take
  <2>2. command' = caller /\ COMMANDS' = <<>>
    BY <1>4, <2>1 DEF Take
  <2> QED
    BY <1>4, <2>1, <2>2 DEF Take
<1>5. CASE Write \/ Ready \/ Pause
  BY <1>5 DEF Write, Ready, Pause, Then
<1>6. ASSUME NEW result, step # "idle", Finish(result), result.ok => result.of = command,
             UNCHANGED <<caller, serial, got, COMMANDS>>
      PROVE  AnswerInvariant'
  <2>1. RESPONSE' = <<result>> /\ step' = "idle" /\ caller # NoCommand
    BY <1>6 DEF Finish
  <2> QED
    BY <1>6, <2>1
<1>7. CASE NotReady \/ WriteError
  BY <1>6, <1>7 DEF NotReady, WriteError, Error
<1>8. CASE ReadAck
  BY <1>6, <1>8 DEF ReadAck, Then, Error
<1>9. CASE Read
  BY <1>6, <1>9 DEF Read, Error
<1>10. CASE ReadError
  BY <1>6, <1>10 DEF ReadError, Error
<1>13. CASE NoStartCode \/ ReadPanics
  BY <1>13 DEF NoStartCode, ReadPanics
<1>11. CASE ChipAck \/ ChipAnswer
  BY <1>11 DEF ChipAck, ChipAnswer
<1>12. CASE UNCHANGED vars
  BY <1>12 DEF vars
<1> QED
  BY <1>1, <1>2, <1>3, <1>4, <1>5, <1>7, <1>8, <1>9, <1>10, <1>11, <1>12, <1>13 DEF Next

\* An answer is the answer to the command it is returned for (mod.rs 41-47, io.rs
\* 258-283).
THEOREM AnswerIsItsOwn == Spec => []AnswersItsCommand
<1>1. AnswerInvariant => AnswersItsCommand
  BY DEF AnswerInvariant
<1> QED
  BY <1>1, AnswerInit, AnswerStep, PTL DEF Spec
=============================================================================
