---------------------------- MODULE Ws2812Proofs ----------------------------
(***************************************************************************)
(* For every size of the transmitter's memory and every length of a frame: *)
(* no signal outlives the frame it was raised for, however late the        *)
(* refills are, and a frame whose refills are in time is shown in order    *)
(* and completely.                                                         *)
(***************************************************************************)
EXTENDS Ws2812, TLAPS

\* After DONE the interrupt is disabled, so that nothing follows it.
DoneIsLast == DONE => ~listening

SignalInvariant == NoStaleSignal /\ DoneIsLast

LEMMA SignalStep == SignalInvariant /\ [Next]_vars => SignalInvariant'
<1> SUFFICES ASSUME SignalInvariant, [Next]_vars PROVE SignalInvariant'
  OBVIOUS
<1> USE DEF SignalInvariant, NoStaleSignal, DoneIsLast
<1>1. ASSUME NEW n \in Lengths, Write(n) PROVE SignalInvariant'
  BY <1>1 DEF Write, signals
<1>2. CASE Copy
  BY <1>2 DEF Copy, interrupt
<1>3. CASE Finish
  <2>1. ~COPY' /\ ~DONE' /\ listening' = listening
    BY <1>3 DEF Finish, interrupt
  <2>2. ~listening
    BY <1>3 DEF Finish
  <2> QED
    BY <2>1, <2>2
<1>4. CASE interrupt_handler
  BY <1>4 DEF interrupt_handler
<1>5. CASE Send \/ Stop \/ TransmissionError
  BY <1>5 DEF Send, Stop, TransmissionError, signals
<1>6. CASE UNCHANGED vars
  BY <1>6 DEF vars, signals, interrupt
<1> QED
  BY <1>1, <1>2, <1>3, <1>4, <1>5, <1>6 DEF Next

\* No signal and no enabled interrupt is left over when write() returns
\* (ws2812.rs 60-61, 119-126, 158-169).
THEOREM SignalsAreFresh == Spec => []NoStaleSignal
<1>1. Init => SignalInvariant
  BY DEF Init, SignalInvariant, NoStaleSignal, DoneIsLast
<1>2. SignalInvariant => NoStaleSignal
  BY DEF SignalInvariant
<1> QED
  BY <1>1, <1>2, SignalStep, PTL DEF Spec
-----------------------------------------------------------------------------
(* What is shown                                                            *)

\* The memory holds the places base .. base + 2 * Half - 1 of the frame, those of
\* its older half first: where the i-th of them is.
At(older, i) ==
  IF older = 0 THEN i ELSE IF i < Half THEN i + Half ELSE i - Half

\* The transmitter is within what the memory holds, and a refill is due from the
\* moment it has left the older half.
Holds(base) ==
  /\ offset = AtMost(length, base + 2 * Half)
  /\ base <= shown /\ shown < base + 2 * Half
  /\ pos = At(half, shown - base)
  /\ \A i \in Entries :
       base + i < length => ram[At(half, i)] = Encoded(frame, length, base + i + 1)
  /\ threshold \/ COPY <=> shown >= base + Half

InOrder ==
  /\ ~glitch /\ shown < length
  /\ \E base \in Nat : Holds(base)
  /\ ~(threshold /\ COPY)
  /\ tx_done => shown + 1 = length

\* The transmitter has stopped before the end is reported.
EndReported ==
  /\ tx_done \/ error => ~running
  /\ DONE => tx_done \/ error
  /\ phase # "writing" => ~running
  /\ phase = "idle" => length = 0 \/ tx_done

FrameType ==
  /\ half \in {0, 1} /\ shown \in Nat /\ length \in Nat
  /\ length = 0 => phase = "idle" /\ ~glitch

FrameInvariant ==
  /\ FrameType /\ SignalInvariant /\ EndReported
  /\ length # 0 /\ ~late => InOrder

LEMMA Halves ==
  /\ Half \in Nat /\ Half > 0
  /\ \A k \in Entries : k \div Half = (IF k < Half THEN 0 ELSE 1)
                        /\ k % Half = (IF k < Half THEN k ELSE k - Half)
<1>1. Half \in Nat /\ Half > 0
  BY TransmitterAssumption
<1>2. ASSUME NEW k \in Entries
      PROVE  k \div Half = (IF k < Half THEN 0 ELSE 1)
             /\ k % Half = (IF k < Half THEN k ELSE k - Half)
  BY <1>1, <1>2, Z3T(30) DEF Entries
<1> QED
  BY <1>1, <1>2

\* One further, and round the ring.
LEMMA Further ==
  ASSUME NEW p \in Entries
  PROVE  /\ (p + 1) % (2 * Half) = IF p + 1 = 2 * Half THEN 0 ELSE p + 1
         /\ ((p + 1) % (2 * Half)) % Half = 0 <=> p + 1 \in {Half, 2 * Half}
<1>1. Half \in Nat /\ Half > 0 /\ p \in Nat /\ p + 1 <= 2 * Half
  BY Halves DEF Entries
<1>2. (p + 1) % (2 * Half) = IF p + 1 = 2 * Half THEN 0 ELSE p + 1
  BY <1>1, Z3T(30)
<1>3. (p + 1) % (2 * Half) \in Entries
  BY <1>1, <1>2 DEF Entries
<1> QED
  BY <1>1, <1>2, <1>3, Halves

LEMMA FrameInit == Init => FrameInvariant
  BY DEF Init, FrameInvariant, FrameType, SignalInvariant, NoStaleSignal, DoneIsLast, EndReported

LEMMA WriteFills ==
  ASSUME FrameInvariant, NEW n \in Lengths, Write(n)
  PROVE  FrameInvariant'
<1> USE DEF FrameInvariant
<1>1. n \in Nat /\ n > 0 /\ Half \in Nat /\ Half > 0
  BY TransmitterAssumption
<1>2. SignalInvariant'
  BY SignalStep DEF Next
<1>3. ~COPY' /\ ~threshold' /\ ~tx_done' /\ ~error' /\ ~DONE'
  BY DEF Write, signals, SignalInvariant, NoStaleSignal
<1>4. FrameType'
  BY <1>1, <1>3 DEF Write, FrameType
<1>5. EndReported'
  BY <1>3 DEF Write, EndReported
<1>6. Holds(0)'
  <2>1. ASSUME NEW i \in Entries, 0 + i < n
        PROVE  ram'[At(half', i)] = Encoded(frame', length', 0 + i + 1)
    BY <1>1, <2>1 DEF Write, At, Entries
  <2>2. offset' = AtMost(length', 0 + 2 * Half) /\ pos' = At(half', shown' - 0)
        /\ shown' = 0 /\ length' = n
    BY <1>1 DEF Write, At
  <2> QED
    BY <1>1, <1>3, <2>1, <2>2 DEF Holds
<1>7. InOrder'
  BY <1>1, <1>3, <1>6 DEF Write, InOrder
<1> QED
  BY <1>2, <1>4, <1>5, <1>7

\* The half that has been sent gets the places after those of the other one.
LEMMA CopyRefills ==
  ASSUME FrameType, Copy, NEW base \in Nat, Holds(base), shown < length, ~threshold
  PROVE  Holds(base + Half)'
<1>1. Half \in Nat /\ Half > 0 /\ length \in Nat /\ shown \in Nat /\ half \in {0, 1}
  BY Halves DEF FrameType
<1>2. shown >= base + Half /\ base <= shown /\ shown < base + 2 * Half
  BY DEF Copy, Holds
<1>3. UNCHANGED <<frame, length, shown, pos, threshold>> /\ half' = 1 - half /\ ~COPY'
  BY DEF Copy, copy, interrupt
<1>4. offset = AtMost(length, base + 2 * Half)
      /\ offset' = offset + AtMost(length - offset, Half)
  BY DEF Copy, copy, Holds
<1>5. offset' = AtMost(length, base + Half + 2 * Half)
  BY <1>1, <1>4 DEF AtMost
<1>6. pos' = At(half', shown' - (base + Half))
  <2>1. pos = At(half, shown - base)
    BY DEF Holds
  <2> QED
    BY <1>1, <1>2, <1>3, <2>1 DEF At
<1>7. ASSUME NEW i \in Entries, base + Half + i < length
      PROVE  ram'[At(half', i)] = Encoded(frame, length, base + Half + i + 1)
  <2> DEFINE k == At(half', i)
  <2>1. i \in Nat /\ i < 2 * Half
    BY <1>1 DEF Entries
  <2>2. k \in Entries
    BY <1>1, <1>3, <2>1 DEF At, Entries
  <2>3. k \div Half = (IF k < Half THEN 0 ELSE 1)
        /\ k % Half = (IF k < Half THEN k ELSE k - Half)
    BY <2>2, Halves
  <2>4. ram'[k] = IF k \div Half # half THEN ram[k]
                  ELSE IF k % Half < AtMost(length - offset, Half)
                       THEN Encoded(frame, length, offset + (k % Half) + 1) ELSE End
    BY <2>2 DEF Copy, copy
  <2>5. CASE i < Half
    <3>1. k = At(half, i + Half) /\ k \div Half # half /\ i + Half \in Entries
      BY <1>1, <1>3, <2>1, <2>3, <2>5 DEF At, Entries
    <3>2. base + (i + Half) < length
      BY <1>1, <1>7, <2>1
    <3>3. ram[At(half, i + Half)] = Encoded(frame, length, base + (i + Half) + 1)
      BY <3>1, <3>2 DEF Holds
    <3>4. base + (i + Half) + 1 = base + Half + i + 1
      BY <1>1, <2>1
    <3> QED
      BY <2>4, <3>1, <3>3, <3>4
  <2>6. CASE i >= Half
    <3>1. k \div Half = half /\ k % Half = i - Half
      BY <1>1, <1>3, <2>1, <2>3, <2>6 DEF At
    <3>2. offset = base + 2 * Half
      BY <1>1, <1>4, <1>7, <2>1, <2>6 DEF AtMost
    <3>3. i - Half < AtMost(length - offset, Half)
          /\ offset + (i - Half) + 1 = base + Half + i + 1
      BY <1>1, <1>7, <2>1, <2>6, <3>2 DEF AtMost
    <3> QED
      BY <2>4, <3>1, <3>3
  <2> QED
    BY <1>1, <2>1, <2>5, <2>6
<1>8. threshold' \/ COPY' <=> shown' >= base + Half + Half
  <2>1. ~(shown >= base + Half + Half)
    BY <1>1, <1>2
  <2> QED
    BY <1>3, <2>1
<1> QED
  BY <1>1, <1>2, <1>3, <1>5, <1>6, <1>7, <1>8 DEF Holds

\* What the transmitter is about to send is the next pulse, or the end after the last.
LEMMA NextPulse ==
  ASSUME FrameType, InOrder
  PROVE  ram[pos] = Encoded(frame, length, shown + 1) /\ shown + 1 <= length
<1>1. PICK base \in Nat : Holds(base)
  BY DEF InOrder
<1>2. Half \in Nat /\ Half > 0 /\ length \in Nat /\ shown \in Nat
  BY Halves DEF FrameType
<1>3. shown - base \in Entries /\ base + (shown - base) = shown /\ shown < length
      /\ pos = At(half, shown - base)
  BY <1>1, <1>2 DEF Holds, InOrder, Entries
<1> QED
  BY <1>1, <1>2, <1>3 DEF Holds

LEMMA EndIsLast ==
  ASSUME FrameType, InOrder, ram[pos] = End
  PROVE  shown + 1 = length
<1>1. Encoded(frame, length, shown + 1) = End /\ shown + 1 <= length
  BY NextPulse
<1>2. shown \in Nat /\ length \in Nat
  BY DEF FrameType
<1> QED
  BY <1>1, <1>2 DEF Encoded, End

LEMMA SendShows ==
  ASSUME FrameType, InOrder, EndReported, Send, ~late'
  PROVE  InOrder'
<1>1. PICK base \in Nat : Holds(base)
  BY DEF InOrder
<1>2. Half \in Nat /\ Half > 0 /\ length \in Nat /\ shown \in Nat /\ half \in {0, 1}
  BY Halves DEF FrameType
<1> DEFINE i == shown - base
<1>3. i \in Entries /\ pos = At(half, i) /\ pos \in Entries
      /\ base + i = shown /\ shown < length
  BY <1>1, <1>2 DEF Holds, InOrder, Entries, At
<1>4. ram[pos] = Encoded(frame, length, shown + 1) /\ shown + 1 <= length
  BY NextPulse
<1>5. shown + 1 < length /\ ram[pos] = <<frame, shown + 1>>
  BY <1>2, <1>4 DEF Send, Encoded
<1>6. /\ shown' = shown + 1 /\ glitch' = glitch
      /\ UNCHANGED <<state, signals, tx_done, ram>>
      /\ pos' = (pos + 1) % (2 * Half)
      /\ threshold' <=> threshold \/ pos' % Half = 0
      /\ ~(pos' % Half = 0 /\ (threshold \/ COPY)) /\ ~late
  BY <1>5 DEF Send
<1>7. /\ pos' = IF pos + 1 = 2 * Half THEN 0 ELSE pos + 1
      /\ pos' % Half = 0 <=> pos + 1 \in {Half, 2 * Half}
  BY <1>3, <1>6, Further
<1>8. threshold \/ COPY <=> i >= Half
  BY <1>1, <1>2 DEF Holds
<1>9. pos' % Half = 0 <=> i + 1 \in {Half, 2 * Half}
  BY <1>2, <1>3, <1>7 DEF At, Entries
<1>10. i + 1 < 2 * Half
  <2>1. i + 1 = 2 * Half => i >= Half
    BY <1>2
  <2>2. i + 1 # 2 * Half
    BY <1>6, <1>8, <1>9, <2>1
  <2> QED
    BY <1>2, <1>3, <2>2 DEF Entries
<1>11. pos' = At(half', shown' - base)
  <2>1. shown' - base = i + 1 /\ half' = half
    BY <1>2, <1>6 DEF state
  <2>2. pos' = At(half, i + 1)
    BY <1>2, <1>3, <1>7, <1>10 DEF At, Entries
  <2> QED
    BY <2>1, <2>2
<1>12. threshold' \/ COPY' <=> shown' >= base + Half
  <2>1. COPY' <=> COPY
    BY <1>6 DEF signals
  <2>2. shown' >= base + Half <=> i >= Half \/ i + 1 = Half
    BY <1>2, <1>3, <1>6 DEF Entries
  <2>3. pos' % Half = 0 <=> i + 1 = Half
    BY <1>2, <1>3, <1>9, <1>10 DEF Entries
  <2> QED
    BY <1>6, <1>8, <2>1, <2>2, <2>3
<1>13. ~(threshold' /\ COPY')
  <2>1. COPY' <=> COPY
    BY <1>6 DEF signals
  <2> QED
    BY <1>6, <2>1 DEF InOrder
<1>14. Holds(base)'
  <2>1. base <= shown' /\ shown' < base + 2 * Half
    BY <1>1, <1>2, <1>3, <1>6, <1>10 DEF Entries, Holds
  <2>2. UNCHANGED <<frame, length, offset, half, ram>>
    BY <1>6 DEF state
  <2> QED
    BY <1>1, <1>11, <1>12, <2>1, <2>2 DEF Holds
<1>15. ~tx_done /\ ~tx_done'
  BY <1>6 DEF Send, EndReported
<1> QED
  BY <1>1, <1>5, <1>6, <1>13, <1>14, <1>15 DEF InOrder, state

LEMMA FrameStep == FrameInvariant /\ [Next]_vars => FrameInvariant'
<1> SUFFICES ASSUME FrameInvariant, [Next]_vars PROVE FrameInvariant'
  OBVIOUS
<1> USE DEF FrameInvariant
<1>1. SignalInvariant'
  BY SignalStep
<1>2. ASSUME NEW n \in Lengths, Write(n) PROVE FrameInvariant'
  BY <1>2, WriteFills
<1>3. CASE Copy
  <2>1. FrameType' /\ EndReported'
    BY <1>3 DEF Copy, copy, interrupt, FrameType, EndReported
  <2>2. ASSUME length' # 0, ~late' PROVE InOrder'
    <3>1. InOrder /\ UNCHANGED <<length, shown, glitch, tx_done>> /\ ~COPY' /\ ~threshold
      BY <1>3, <2>2 DEF Copy, copy, interrupt, InOrder
    <3>2. PICK base \in Nat : Holds(base)
      BY <3>1 DEF InOrder
    <3>3. Holds(base + Half)'
      BY <1>3, <3>1, <3>2, CopyRefills DEF InOrder
    <3>4. base + Half \in Nat
      BY Halves
    <3> QED
      BY <3>1, <3>3, <3>4 DEF InOrder
  <2> QED
    BY <1>1, <2>1, <2>2
<1>4. CASE Finish
  <2>1. FrameType'
    BY <1>4 DEF Finish, state, transmitter, FrameType
  <2>2. EndReported'
    BY <1>4 DEF Finish, state, transmitter, interrupt, EndReported
  <2>3. InOrder => InOrder'
    BY <1>4 DEF Finish, state, transmitter, interrupt, InOrder, Holds
  <2> QED
    BY <1>1, <1>4, <2>1, <2>2, <2>3 DEF Finish, state, transmitter
<1>5. CASE interrupt_handler
  <2>1. FrameType' /\ EndReported'
    BY <1>5 DEF interrupt_handler, state, transmitter, FrameType, EndReported
  <2>2. threshold' \/ COPY' <=> threshold \/ COPY
    BY <1>5 DEF interrupt_handler
  <2>3. ~(threshold /\ COPY) => ~(threshold' /\ COPY')
    BY <1>5 DEF interrupt_handler
  <2>4. InOrder => InOrder'
    BY <1>5, <2>2, <2>3 DEF interrupt_handler, state, transmitter, InOrder, Holds
  <2> QED
    BY <1>1, <1>5, <2>1, <2>4 DEF interrupt_handler, state, transmitter
<1>6. CASE Send
  <2>1. length # 0
    BY <1>6 DEF Send, FrameType, EndReported
  <2>2. FrameType' /\ EndReported'
    BY <1>6, <2>1 DEF Send, state, signals, FrameType, EndReported
  <2>3. ~late' => InOrder
    BY <1>6, <2>1 DEF Send
  <2> QED
    BY <1>1, <1>6, <2>1, <2>2, <2>3, SendShows
<1>7. CASE Stop
  <2>1. FrameType' /\ EndReported'
    BY <1>7 DEF Stop, state, signals, FrameType, EndReported
  <2>2. ASSUME InOrder PROVE InOrder'
    <3>1. shown + 1 = length
      BY <1>7, <2>2, EndIsLast DEF Stop
    <3> QED
      BY <1>7, <2>2, <3>1 DEF Stop, state, signals, InOrder, Holds
  <2> QED
    BY <1>1, <1>7, <2>1, <2>2 DEF Stop, state
<1>8. CASE TransmissionError
  <2>1. FrameType' /\ EndReported'
    BY <1>8 DEF TransmissionError, state, signals, FrameType, EndReported
  <2>2. InOrder => InOrder'
    BY <1>8 DEF TransmissionError, state, signals, InOrder, Holds
  <2> QED
    BY <1>1, <1>8, <2>1, <2>2 DEF TransmissionError, state
<1>9. CASE UNCHANGED vars
  BY <1>9 DEF vars, state, signals, interrupt, transmitter, FrameType, EndReported, InOrder,
              Holds, SignalInvariant, NoStaleSignal, DoneIsLast
<1> QED
  BY <1>2, <1>3, <1>4, <1>5, <1>6, <1>7, <1>8, <1>9 DEF Next

\* A frame whose refills are in time is shown in order, and completely when write()
\* has returned, whatever its length and the size of the memory (ws2812.rs 106-133,
\* 138-155).
THEOREM FrameIsShown == Spec => []ShowsFrame
<1>1. FrameInvariant => ShowsFrame
  BY DEF FrameInvariant, FrameType, EndReported, InOrder, ShowsFrame
<1> QED
  BY <1>1, FrameInit, FrameStep, PTL DEF Spec
=============================================================================
