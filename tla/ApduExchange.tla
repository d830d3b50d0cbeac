---------------------------- MODULE ApduExchange ----------------------------
(***************************************************************************)
(* What `Target::transmit` promises the VAS protocols: a command is        *)
(* executed by the card at most once, exactly as it was given, and an      *)
(* answer is that card's answer to that command.  After an error the       *)
(* command may or may not have been executed.                              *)
(***************************************************************************)
CONSTANTS Commands, NoCommand

VARIABLES asked, executed, outcome

exchange == <<asked, executed, outcome>>

Init == asked = NoCommand /\ executed = NoCommand /\ outcome = "none"

Ask(c) ==
  /\ outcome # "pending"
  /\ asked' = c
  /\ executed' = NoCommand
  /\ outcome' = "pending"

\* Also after an error: the card may be late.
Execute ==
  /\ asked # NoCommand /\ executed = NoCommand
  /\ executed' = asked
  /\ UNCHANGED <<asked, outcome>>

Answer ==
  /\ outcome = "pending" /\ executed = asked
  /\ outcome' = "answered"
  /\ UNCHANGED <<asked, executed>>

Fail ==
  /\ outcome = "pending"
  /\ outcome' = "failed"
  /\ UNCHANGED <<asked, executed>>

Next == (\E c \in Commands : Ask(c)) \/ Execute \/ Answer \/ Fail

Spec == Init /\ [][Next]_exchange
=============================================================================
