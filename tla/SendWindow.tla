----------------------------- MODULE SendWindow -----------------------------
(***************************************************************************)
(* What the CoAP message layer promises to the client tasks, without       *)
(* message ids, timers, pings or the network: packets are put on the wire  *)
(* in the order they were accepted, a bounded number of them are           *)
(* outstanding at a time, and each one is finished with (answered or given *)
(* up) after it was started.  A connection that fails loses everything.    *)
(***************************************************************************)
EXTENDS Sequences, FiniteSets, Naturals

CONSTANTS Packets, Limit

VARIABLES waiting, outstanding

window == <<waiting, outstanding>>

Init == waiting = <<>> /\ outstanding = {}

Range(s) == {s[i] : i \in DOMAIN s}

\* A client hands over a packet that is not in the system.
Accept(p) ==
  /\ p \notin Range(waiting) \cup outstanding
  /\ waiting' = Append(waiting, p)
  /\ UNCHANGED outstanding

\* The oldest waiting packet is transmitted, in the place of the packets of
\* `settled` (at most one) that have just been finished with.
Start(settled) ==
  /\ waiting # <<>>
  /\ Cardinality(outstanding \ settled) < Limit
  /\ outstanding' = (outstanding \ settled) \cup {Head(waiting)}
  /\ waiting' = Tail(waiting)

Settle(p) ==
  /\ outstanding' = outstanding \ {p}
  /\ UNCHANGED waiting

Lose == waiting' = <<>> /\ outstanding' = {}

Next ==
  \/ \E p \in Packets : Accept(p)
  \/ Start({})
  \/ \E p \in outstanding : Start({p}) \/ Settle(p)
  \/ Lose

Spec == Init /\ [][Next]_window
=============================================================================
