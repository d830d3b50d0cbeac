------------------------------- MODULE Ws2812 -------------------------------
(***************************************************************************)
(* The LED driver (src/src/ui/ws2812.rs): a frame of pulses is longer than *)
(* the memory of the pulse transmitter, which is used as a ring of two     *)
(* halves.  Each time the transmitter has sent a half, its interrupt       *)
(* signals the task through the one-bit signal COPY and the task refills   *)
(* that half while the other one is on its way; DONE ends the frame.       *)
(* A pulse is its place in its frame; the frames are told apart by a bit.  *)
(***************************************************************************)
EXTENDS Naturals

CONSTANTS
  Half,      \* MAX_PULSES, entries in a half of the transmitter's memory
  Lengths    \* lengths of an encoded frame, its end marker included

ASSUME TransmitterAssumption ==
  /\ Half \in Nat \ {0}
  /\ Lengths \subseteq Nat \ {0}

VARIABLES
  phase,       \* the task: "idle", "writing", or "panicked"
  frame, length, offset, half,      \* State: the buffer and what is copied
  COPY, DONE,                       \* the signals
  ram, pos, running,                \* the transmitter
  threshold, tx_done, error,        \* its interrupt status
  listening,                        \* its interrupt is enabled
  shown, glitch, late               \* history, of this frame: pulses shown; a wrong
                                    \* one was; a refill was not in time

state == <<frame, length, offset, half>>
signals == <<COPY, DONE>>
interrupt == <<threshold, tx_done, error, listening>>
transmitter == <<ram, pos, running, shown, glitch, late>>
vars == <<phase, state, signals, interrupt, transmitter>>

Entries == 0 .. 2 * Half - 1
End == <<FALSE, 0>>
Pulses == {End} \cup (BOOLEAN \X (Nat \ {0}))

\* encode_iter: the pulses of the frame, and the end marker after them.
Encoded(f, n, i) == IF i < n THEN <<f, i>> ELSE End

AtMost(a, b) == IF a < b THEN a ELSE b

TypeOK ==
  /\ phase \in {"idle", "writing", "panicked"}
  /\ frame \in BOOLEAN /\ length \in Lengths \cup {0}
  /\ offset \in 0 .. length /\ half \in {0, 1}
  /\ COPY \in BOOLEAN /\ DONE \in BOOLEAN
  /\ ram \in [Entries -> Pulses] /\ pos \in Entries /\ running \in BOOLEAN
  /\ threshold \in BOOLEAN /\ tx_done \in BOOLEAN /\ error \in BOOLEAN
  /\ listening \in BOOLEAN
  /\ shown \in Nat /\ shown <= length /\ glitch \in BOOLEAN /\ late \in BOOLEAN

\* Ws2812Driver::new
Init ==
  /\ phase = "idle"
  /\ frame = FALSE /\ length = 0 /\ offset = 0 /\ half = 0
  /\ COPY = FALSE /\ DONE = FALSE
  /\ ram = [k \in Entries |-> End] /\ pos = 0 /\ running = FALSE
  /\ threshold = FALSE /\ tx_done = FALSE /\ error = FALSE
  /\ listening = FALSE
  /\ shown = 0 /\ glitch = FALSE /\ late = FALSE

-----------------------------------------------------------------------------
(* The task                                                                 *)

\* write() up to its loop.  start_send fills the memory as far as the frame
\* goes, says how far that is, and starts.
Write(n) ==
  /\ phase = "idle"
  /\ phase' = "writing"
  /\ frame' = ~frame /\ length' = n
  /\ half' = 0
  /\ offset' = AtMost(n, 2 * Half)
  /\ ram' = [k \in Entries |-> IF k < n THEN Encoded(~frame, n, k + 1) ELSE ram[k]]
  /\ pos' = 0 /\ running' = TRUE
  /\ threshold' = FALSE /\ tx_done' = FALSE /\ error' = FALSE
  /\ listening' = TRUE
  /\ shown' = 0 /\ glitch' = FALSE /\ late' = FALSE
  /\ UNCHANGED signals

\* Mutant: the other half is refilled, the one that is being sent.
copy_other_half ==
  LET len == AtMost(length - offset, Half)
  IN  /\ half' = 1 - half
      /\ offset' = offset + len
      /\ ram' = [k \in Entries |->
                  IF k \div Half = half THEN ram[k]
                  ELSE IF k % Half < len
                       THEN Encoded(frame, length, offset + (k % Half) + 1) ELSE End]

\* State::copy: the next pulses of the frame into the half, zeros (which the
\* transmitter takes for the end) in what they leave of it.
copy ==
  LET len == AtMost(length - offset, Half)
  IN  /\ half' = 1 - half
      /\ offset' = offset + len
      /\ ram' = [k \in Entries |->
                  IF k \div Half # half THEN ram[k]
                  ELSE IF k % Half < len
                       THEN Encoded(frame, length, offset + (k % Half) + 1) ELSE End]

\* The loop of write(): the select polls COPY first.
Copy ==
  /\ phase = "writing" /\ COPY
  /\ COPY' = FALSE
  /\ copy
  /\ UNCHANGED <<phase, frame, length, DONE, interrupt, pos, running, shown, glitch,
                 late>>

\* Mutant: DONE is polled first.
Finish_done_first ==
  /\ phase = "writing" /\ DONE
  /\ DONE' = FALSE
  /\ phase' = IF error THEN "panicked" ELSE "idle"
  /\ UNCHANGED <<state, COPY, interrupt, transmitter>>

\* A transmission error is unwrapped by the caller, lights().
Finish ==
  /\ phase = "writing" /\ ~COPY /\ DONE
  /\ DONE' = FALSE
  /\ phase' = IF error THEN "panicked" ELSE "idle"
  /\ UNCHANGED <<state, COPY, interrupt, transmitter>>

-----------------------------------------------------------------------------
(* The interrupt and the transmitter                                        *)

\* Mutant: the threshold status is not reset.
interrupt_handler_no_reset ==
  /\ listening /\ (threshold \/ tx_done \/ error)
  /\ IF threshold
     THEN COPY' = TRUE /\ UNCHANGED <<DONE, listening>>
     ELSE DONE' = TRUE /\ listening' = FALSE /\ UNCHANGED COPY
  /\ UNCHANGED <<phase, state, threshold, tx_done, error, transmitter>>

\* interrupt_handler: one cause at a time, the threshold first.
interrupt_handler ==
  /\ listening /\ (threshold \/ tx_done \/ error)
  /\ IF threshold
     THEN COPY' = TRUE /\ threshold' = FALSE /\ UNCHANGED <<DONE, listening>>
     ELSE DONE' = TRUE /\ listening' = FALSE /\ UNCHANGED <<COPY, threshold>>
  /\ UNCHANGED <<phase, state, tx_done, error, transmitter>>

\* The transmitter sends the next entry or stops at an end marker.  A refill is late
\* when the half before it has been sent and it is not over.
Send ==
  /\ running /\ ram[pos] # End
  /\ pos' = (pos + 1) % (2 * Half)
  /\ threshold' = (threshold \/ pos' % Half = 0)
  /\ late' = (late \/ (pos' % Half = 0 /\ (threshold \/ COPY)))
  /\ IF ram[pos] = <<frame, shown + 1>>
     THEN shown' = shown + 1 /\ UNCHANGED glitch
     ELSE glitch' = TRUE /\ UNCHANGED shown
  /\ UNCHANGED <<phase, state, signals, tx_done, error, listening, ram, running>>

Stop ==
  /\ running /\ ram[pos] = End
  /\ running' = FALSE
  /\ tx_done' = TRUE
  /\ UNCHANGED <<phase, state, signals, threshold, error, listening, ram, pos,
                 shown, glitch, late>>

TransmissionError ==
  /\ running
  /\ running' = FALSE
  /\ error' = TRUE
  /\ UNCHANGED <<phase, state, signals, threshold, tx_done, listening, ram, pos,
                 shown, glitch, late>>

Next ==
  \/ \E n \in Lengths : Write(n)
  \/ Copy
  \/ Finish
  \/ interrupt_handler
  \/ Send
  \/ Stop
  \/ TransmissionError

Spec == Init /\ [][Next]_vars

\* The executor polls a signalled task, the interrupt and the transmitter run.
FairSpec == Spec /\ WF_vars(Copy) /\ WF_vars(Finish) /\ WF_vars(interrupt_handler)
                 /\ WF_vars(Send \/ Stop)

-----------------------------------------------------------------------------
\* When the refills of a frame are in time, whatever became of those of older
\* frames, the LEDs get its pulses in order, all of them once write() has returned,
\* and nothing of an older frame or of an earlier part of this one, whatever the
\* length (ws2812.rs 106-133, 138-155).  They have 240 microseconds, and the second
\* core runs nothing but this task and that of the PN532 (init.rs 57-67).
ShowsFrame ==
  ~late =>
    /\ ~glitch
    /\ phase = "idle" => shown + 1 = length \/ length = 0

\* The signals are global and outlive a call: one left over from a frame would
\* end the next one at once, or refill a half that is being sent.  None is,
\* even when refills are late (ws2812.rs 60-61, 119-126, 158-169).
NoStaleSignal == phase # "writing" => ~COPY /\ ~DONE /\ ~listening

\* Every frame ends, even when signals of late refills are merged and the
\* transmitter goes round the ring again (ws2812.rs 119-126).
FrameEnds == phase = "writing" ~> phase # "writing"
=============================================================================
