------------------------------ MODULE Pn532Io ------------------------------
(***************************************************************************)
(* The host interface of the PN532 (src/src/pn532/io.rs): the task `io`    *)
(* takes one command at a time from a channel, writes it to the chip,      *)
(* waits for the interrupt line and reads the acknowledgement, then waits  *)
(* again and reads the response, and hands it back through another         *)
(* channel.  Each access to the chip and each wait for its line is made    *)
(* under IO_LOCK, which the LED task also takes.                           *)
(*                                                                         *)
(* The chip is not part of the repository.  It may be late or never        *)
(* answer; it raises the line (low) while it has a frame for the host; a   *)
(* command that is written ends the one it is working on, and discards the *)
(* frame that has not been read.  What is read of a frame may be damaged.  *)
(***************************************************************************)
EXTENDS Naturals, Sequences

CONSTANTS
  Codes,     \* command codes
  Serials    \* bound: commands are told apart modulo this number

ASSUME SerialAssumption == Serials \in Nat \ {0, 1} /\ Codes # {}

VARIABLES
  caller,       \* the command execute_command() waits for, or NoCommand
  serial,       \* of the next command
  got,          \* history: the latest result and the command it was taken for
  COMMANDS, RESPONSE,   \* the channels, of capacity 1
  step, command,        \* the task io
  IO_LOCK,              \* who has it, and who waits for it, in that order
  working, acked, frame \* the chip: its command, and its frame for the host

task == <<step, command>>
chip == <<working, acked, frame>>
vars == <<caller, serial, got, COMMANDS, RESPONSE, task, IO_LOCK, chip>>

NoCommand == [serial |-> Serials, code |-> "none"]
NoFrame == [kind |-> "none", of |-> NoCommand]

Commands == [serial : 0 .. Serials - 1, code : Codes]
Results == [ok : {TRUE}, of : Commands] \cup [ok : {FALSE}, of : {NoCommand}]
Error == [ok |-> FALSE, of |-> NoCommand]
Frames == {NoFrame} \cup [kind : {"ack", "data"}, of : Commands]

TypeOK ==
  /\ caller \in Commands \cup {NoCommand}
  /\ serial \in 0 .. Serials - 1
  /\ COMMANDS \in Seq(Commands) /\ Len(COMMANDS) <= 1
  /\ RESPONSE \in Seq(Results) /\ Len(RESPONSE) <= 1
  /\ step \in {"idle", "write", "await_ack", "read_ack", "await", "pause", "read",
              "search",      \* read_packet looks for a start code further on
              "panicked"}    \* the panic handler has stalled both cores
  /\ command \in Commands \cup {NoCommand}
  /\ IO_LOCK \in {<<>>, <<"io">>, <<"lights">>, <<"io", "lights">>, <<"lights", "io">>}
  /\ working \in Commands \cup {NoCommand} /\ acked \in BOOLEAN
  /\ frame \in Frames
  /\ got \in [result : Results, of : Commands \cup {NoCommand}]

Init ==
  /\ caller = NoCommand /\ serial = 0
  /\ got = [result |-> Error, of |-> NoCommand]
  /\ COMMANDS = <<>> /\ RESPONSE = <<>>
  /\ step = "idle" /\ command = NoCommand
  /\ IO_LOCK = <<>>
  /\ working = NoCommand /\ acked = FALSE /\ frame = NoFrame

-----------------------------------------------------------------------------
(* The caller: execute_command of mod.rs, used by one task                  *)

Call(code) ==
  LET c == [serial |-> serial, code |-> code]
  IN  /\ caller = NoCommand
      /\ Len(COMMANDS) < 1
      /\ COMMANDS' = Append(COMMANDS, c)
      /\ caller' = c
      /\ serial' = (serial + 1) % Serials
      /\ UNCHANGED <<got, RESPONSE, task, IO_LOCK, chip>>

\* Mutant: the caller stops waiting.
Return_or_give_up ==
  /\ caller # NoCommand
  /\ IF RESPONSE # <<>>
     THEN got' = [result |-> Head(RESPONSE), of |-> caller] /\ RESPONSE' = <<>>
     ELSE UNCHANGED <<got, RESPONSE>>
  /\ caller' = NoCommand
  /\ UNCHANGED <<serial, COMMANDS, task, IO_LOCK, chip>>

Return ==
  /\ caller # NoCommand /\ RESPONSE # <<>>
  /\ got' = [result |-> Head(RESPONSE), of |-> caller]
  /\ RESPONSE' = Tail(RESPONSE)
  /\ caller' = NoCommand
  /\ UNCHANGED <<serial, COMMANDS, task, IO_LOCK, chip>>

-----------------------------------------------------------------------------
(* The lock: a fair semaphore of one permit.                                *)

Holds(who) == IO_LOCK # <<>> /\ Head(IO_LOCK) = who

LightsAcquire ==
  /\ step # "panicked"
  /\ "lights" \notin {IO_LOCK[k] : k \in DOMAIN IO_LOCK}
  /\ IO_LOCK' = Append(IO_LOCK, "lights")
  /\ UNCHANGED <<caller, serial, got, COMMANDS, RESPONSE, task, chip>>

\* The end of a frame (Ws2812!FrameEnds).
LightsRelease ==
  /\ Holds("lights")
  /\ IO_LOCK' = Tail(IO_LOCK)
  /\ UNCHANGED <<caller, serial, got, COMMANDS, RESPONSE, task, chip>>

-----------------------------------------------------------------------------
(* The task io.  Its steps are the stretches between two waits; each ends   *)
(* with the release of the lock, and `Then` with the request for the next   *)
(* one.                                                                     *)

Then(next) ==
  /\ step' = next
  /\ IO_LOCK' = Append(Tail(IO_LOCK), "io")
  /\ UNCHANGED <<command, RESPONSE>>

\* execute_command returns, and the result is sent to a channel that has room:
\* its reader takes a result before it sends a command.
Finish(result) ==
  /\ step' = "idle" /\ command' = NoCommand
  /\ IO_LOCK' = Tail(IO_LOCK)
  /\ RESPONSE' = Append(RESPONSE, result)

Take ==
  /\ step = "idle" /\ COMMANDS # <<>>
  /\ command' = Head(COMMANDS)
  /\ COMMANDS' = Tail(COMMANDS)
  /\ step' = "write"
  /\ IO_LOCK' = Append(IO_LOCK, "io")
  /\ UNCHANGED <<caller, serial, got, RESPONSE, chip>>

\* write_command
Write ==
  /\ step = "write" /\ Holds("io")
  /\ working' = command /\ acked' = FALSE /\ frame' = NoFrame
  /\ Then("await_ack")
  /\ UNCHANGED <<caller, serial, got, COMMANDS>>

\* wait_for_ready: the line is low, or becomes low in time.
Ready ==
  /\ step \in {"await_ack", "await"} /\ Holds("io")
  /\ frame # NoFrame
  /\ IF step = "await_ack"
     THEN Then("read_ack")
     ELSE /\ step' = "pause"
          /\ IO_LOCK' = Tail(IO_LOCK)
          /\ UNCHANGED <<command, RESPONSE>>
  /\ UNCHANGED <<caller, serial, got, COMMANDS, chip>>

\* Mutant: only the wait for the acknowledgement has a timeout.
NotReady_ack_only ==
  /\ step = "await_ack" /\ Holds("io")
  /\ frame = NoFrame
  /\ Finish(Error)
  /\ UNCHANGED <<caller, serial, got, COMMANDS, chip>>

\* wait_for_ready times out, and with it the command.  The chip is not told.
NotReady ==
  /\ step \in {"await_ack", "await"} /\ Holds("io")
  /\ frame = NoFrame
  /\ Finish(Error)
  /\ UNCHANGED <<caller, serial, got, COMMANDS, chip>>

\* read_ack
ReadAck ==
  /\ step = "read_ack" /\ Holds("io")
  /\ frame' = NoFrame
  /\ IF frame.kind = "ack" THEN Then("await") ELSE Finish(Error)
  /\ UNCHANGED <<caller, serial, got, COMMANDS, working, acked>>

\* The 10 ms between the line and the response are spent without the lock.
Pause ==
  /\ step = "pause"
  /\ step' = "read"
  /\ IO_LOCK' = Append(IO_LOCK, "io")
  /\ UNCHANGED <<caller, serial, got, COMMANDS, RESPONSE, command, chip>>

\* read_packet for the response, whose code must be that of the command.
Read ==
  /\ step = "read" /\ Holds("io")
  /\ frame' = NoFrame
  /\ Finish(IF frame.kind = "data" /\ frame.of.code = command.code
            THEN [ok |-> TRUE, of |-> frame.of] ELSE Error)
  /\ UNCHANGED <<caller, serial, got, COMMANDS, working, acked>>

\* An error of the bus, or a frame that fails one of the checks.
ReadError ==
  /\ step \in {"read_ack", "read", "search"} /\ Holds("io")
  /\ frame' \in {frame, NoFrame}
  /\ Finish(Error)
  /\ UNCHANGED <<caller, serial, got, COMMANDS, working, acked>>

\* A frame without a start code: it is looked for in whatever the chip sends next,
\* under the lock, with neither a bound nor a timeout.
NoStartCode ==
  /\ step \in {"read_ack", "read"} /\ Holds("io")
  /\ step' = "search"
  /\ UNCHANGED <<caller, serial, got, COMMANDS, RESPONSE, command, IO_LOCK, chip>>

\* Each byte that is looked at is kept, and the heap is finite; or an
\* acknowledgement is found at an odd place, where val() computes a negative number
\* of bytes to read after end().
ReadPanics ==
  /\ step \in {"read_ack", "read", "search"} /\ Holds("io")
  /\ step' = "panicked"
  /\ UNCHANGED <<caller, serial, got, COMMANDS, RESPONSE, command, IO_LOCK, chip>>

\* The command did not get through, or not to the end.
WriteError ==
  /\ step = "write" /\ Holds("io")
  /\ Finish(Error)
  /\ UNCHANGED <<caller, serial, got, COMMANDS, chip>>

-----------------------------------------------------------------------------
(* The chip                                                                 *)

ChipAck ==
  /\ working # NoCommand /\ ~acked
  /\ frame' = [kind |-> "ack", of |-> working]
  /\ acked' = TRUE
  /\ UNCHANGED <<caller, serial, got, COMMANDS, RESPONSE, task, IO_LOCK, working>>

ChipAnswer ==
  /\ working # NoCommand /\ acked /\ frame = NoFrame
  /\ frame' = [kind |-> "data", of |-> working]
  /\ working' = NoCommand /\ acked' = FALSE
  /\ UNCHANGED <<caller, serial, got, COMMANDS, RESPONSE, task, IO_LOCK>>

-----------------------------------------------------------------------------
Next ==
  \/ \E code \in Codes : Call(code)
  \/ Return
  \/ LightsAcquire \/ LightsRelease
  \/ Take \/ Write \/ Ready \/ NotReady \/ ReadAck \/ Pause \/ Read
  \/ ReadError \/ NoStartCode \/ ReadPanics \/ WriteError
  \/ ChipAck \/ ChipAnswer

Spec == Init /\ [][Next]_vars

\* The executors poll both tasks, timers fire, and the LED task ends its frames.
\* Nothing is assumed of the chip: a read that ends in no other way is ended by the
\* timeout of the bus, and a search by the end of the heap.
FairSpec ==
  /\ Spec
  /\ WF_vars(Return) /\ WF_vars(LightsRelease)
  /\ WF_vars(Take) /\ WF_vars(Write) /\ WF_vars(Pause)
  /\ WF_vars(Ready \/ NotReady)
  /\ WF_vars(ReadAck \/ Read \/ ReadError \/ NoStartCode \/ ReadPanics)

-----------------------------------------------------------------------------
\* An answer is the answer to the command it is returned for, although the
\* responses carry only a code, late ones are read by nobody, and a command
\* that failed leaves the chip at work on it (mod.rs 41-47, io.rs 258-283).
AnswersItsCommand == got.result.ok => got.result.of = got.of

\* A command comes back, also when the chip is silent or what it sends is damaged;
\* if not, the search for a frame has taken the whole reader down with it (io.rs
\* 43-54, 163-218).
EveryCommandReturns ==
  caller # NoCommand ~> caller = NoCommand \/ step = "panicked"

\* The LEDs are not kept waiting for ever by a command the chip does not answer:
\* the lock is held while the line is awaited (io.rs 220-240).  The exception is the
\* same, for the search is made under the lock.
LightsGetTheLock ==
  "lights" \in {IO_LOCK[k] : k \in DOMAIN IO_LOCK} ~> Holds("lights") \/ step = "panicked"
=============================================================================
