-------------------------- MODULE DtlsSessionProofs --------------------------
(***************************************************************************)
(* Three things about DtlsSession, for every size of a word, every number  *)
(* of words, every modulus and every bound on what goes wrong:             *)
(*   - the window of received records is exact and the numbers of records  *)
(*     are reconstructed;                                                  *)
(*   - the windows of the session are exact in every state it reaches;     *)
(*   - HandshakeInv holds in every state it reaches, and with it the four  *)
(*     properties of the handshake.                                        *)
(* The proof of the third follows a poll through the code: each part of it *)
(* takes a session s that SessionInv holds of to one it holds of again,    *)
(* and the poll as a whole ends in a state that the next one may begin in. *)
(***************************************************************************)
EXTENDS DtlsHandshake, WellFoundedInduction, SequenceTheorems, TLAPS

-----------------------------------------------------------------------------
(* The window of an epoch                                                   *)

-----------------------------------------------------------------------------
(* Arithmetic: the word and the bit of a position                           *)

LEMMA Division ==
  ASSUME NEW k \in Nat, NEW W \in Nat \ {0}
  PROVE  /\ k \div W \in Nat /\ k % W \in 0 .. W - 1
         /\ k = W * (k \div W) + (k % W)
  BY SMT

LEMMA WordOrder ==
  ASSUME NEW W \in Nat \ {0}, NEW i \in Int, NEW b \in 0 .. W - 1,
         NEW j \in Int, NEW c \in 0 .. W - 1, i < j
  PROVE  W * i + b < W * j + c
<1>1. PICK m \in Nat : j = i + 1 + m
  <2>1. j - i - 1 \in Nat
    OBVIOUS
  <2> QED
    BY <2>1
<1>2. W * j = W * i + W + W * m /\ W * m \in Nat
  BY <1>1
<1> QED
  BY <1>2

\* A position is in one word, at one bit.
LEMMA PositionIsUnique ==
  ASSUME NEW W \in Nat \ {0}, NEW i \in Int, NEW b \in 0 .. W - 1,
         NEW j \in Int, NEW c \in 0 .. W - 1, W * i + b = W * j + c
  PROVE  i = j /\ b = c
<1>1. ~(i < j) /\ ~(j < i)
  <2>1. W * i + b \in Int /\ W * j + c \in Int
    OBVIOUS
  <2>2. i < j => W * i + b < W * j + c
    BY WordOrder
  <2>3. j < i => W * j + c < W * i + b
    BY WordOrder
  <2> QED
    BY <2>1, <2>2, <2>3
<1> QED
  BY <1>1

\* Every position below the size of the window is one.
LEMMA PositionExists ==
  ASSUME NEW k \in 0 .. SeqBits - 1
  PROVE  /\ k \div WordBits \in 0 .. Words - 1 /\ k % WordBits \in 0 .. WordBits - 1
         /\ k = WordBits * (k \div WordBits) + (k % WordBits)
<1> DEFINE i == k \div WordBits
           b == k % WordBits
<1>1. WordBits \in Nat \ {0} /\ Words \in Nat \ {0}
  BY RecordAssumption
<1>2. i \in Nat /\ b \in 0 .. WordBits - 1 /\ k = WordBits * i + b
  <2>1. k \in Nat
    BY <1>1 DEF SeqBits
  <2> QED
    BY <1>1, <2>1, Division
<1>3. ~(i > Words - 1)
  <2>1. SUFFICES ASSUME i > Words - 1 PROVE FALSE
    OBVIOUS
  <2>2. WordBits * (Words - 1) + (WordBits - 1) < WordBits * i + b
    BY <1>1, <1>2, <2>1, WordOrder
  <2>3. WordBits * (Words - 1) + (WordBits - 1) = Words * WordBits - 1
    BY <1>1
  <2>4. k <= Words * WordBits - 1
    BY <1>1 DEF SeqBits
  <2> QED
    BY <1>1, <1>2, <2>2, <2>3, <2>4
<1> HIDE DEF i, b
<1>4. i \in 0 .. Words - 1
  BY <1>1, <1>2, <1>3
<1> QED
  BY <1>2, <1>4 DEF i, b

LEMMA PositionInRange ==
  ASSUME NEW i \in 0 .. Words - 1, NEW b \in 0 .. WordBits - 1
  PROVE  WordBits * i + b \in 0 .. SeqBits - 1
<1>1. WordBits \in Nat \ {0} /\ Words \in Nat \ {0}
  BY RecordAssumption
<1>2. WordBits * i \in Nat
  BY <1>1
<1>3. i = Words - 1 \/ WordBits * i + b < WordBits * (Words - 1) + (WordBits - 1)
  BY <1>1, WordOrder
<1>4. WordBits * (Words - 1) + (WordBits - 1) = Words * WordBits - 1
  BY <1>1
<1> QED
  BY <1>1, <1>2, <1>3, <1>4 DEF SeqBits

\* The word and the bit of a position, found again by division.
LEMMA PositionOf ==
  ASSUME NEW i \in 0 .. Words - 1, NEW b \in 0 .. WordBits - 1
  PROVE  (WordBits * i + b) \div WordBits = i /\ (WordBits * i + b) % WordBits = b
<1> DEFINE k == WordBits * i + b
<1>1. WordBits \in Nat \ {0} /\ Words \in Nat \ {0}
  BY RecordAssumption
<1>2. k \in 0 .. SeqBits - 1
  BY PositionInRange
<1>3. /\ k \div WordBits \in 0 .. Words - 1 /\ k % WordBits \in 0 .. WordBits - 1
      /\ k = WordBits * (k \div WordBits) + (k % WordBits)
  BY <1>2, PositionExists
<1> QED
  BY <1>1, <1>3, PositionIsUnique

-----------------------------------------------------------------------------
(* The window                                                               *)

EpochType ==
  [next : Nat, window : [0 .. Words - 1 -> SUBSET (0 .. WordBits - 1)]]

\* Position by position, a window moved up by diff is what it was diff below,
\* and empty at its lower end.
LEMMA ShiftedMoves ==
  ASSUME NEW window \in [0 .. Words - 1 -> SUBSET (0 .. WordBits - 1)],
         NEW diff \in 1 .. SeqBits - 1,
         NEW i \in 0 .. Words - 1, NEW b \in 0 .. WordBits - 1
  PROVE  b \in Shifted(window, diff)[i]
           <=> WordBits * i + b >= diff /\ IsSet(window, (WordBits * i + b) - diff)
<1> DEFINE idx == diff \div WordBits
           d == diff % WordBits
           k == WordBits * i + b
<1>1. WordBits \in Nat \ {0} /\ Words \in Nat \ {0}
  BY RecordAssumption
<1>2. /\ idx \in 0 .. Words - 1 /\ d \in 0 .. WordBits - 1
      /\ diff = WordBits * idx + d
  BY PositionExists
<1>3. Shifted(window, diff)[i] =
        IF i < idx THEN {}
        ELSE ShiftLeft(window[i - idx], d)
             \cup IF i > idx /\ d > 0
                  THEN ShiftRight(window[i - idx - 1], WordBits - d) ELSE {}
  BY DEF Shifted
<1> HIDE DEF idx, d
<1>4. k \in Int
  BY <1>1
<1>5. CASE i < idx
  <2>1. k < diff
    BY <1>1, <1>2, <1>5, WordOrder
  <2> QED
    BY <1>1, <1>2, <1>3, <1>4, <1>5, <2>1
<1>6. CASE i >= idx /\ b >= d
  <2>1. k - diff = WordBits * (i - idx) + (b - d)
    BY <1>1, <1>2
  <2>2. i - idx \in 0 .. Words - 1 /\ b - d \in 0 .. WordBits - 1
    BY <1>1, <1>2, <1>6
  <2>3. IsSet(window, k - diff) <=> b - d \in window[i - idx]
    BY <2>1, <2>2, PositionOf DEF IsSet
  <2>4. b \in ShiftLeft(window[i - idx], d) <=> b - d \in window[i - idx]
    <3>1. \A c \in window[i - idx] : c \in 0 .. WordBits - 1
      BY <2>2
    <3> QED
      BY <1>1, <1>2, <3>1 DEF ShiftLeft
  <2>5. ASSUME i > idx, d > 0 PROVE b \notin ShiftRight(window[i - idx - 1], WordBits - d)
    <3>1. \A c \in window[i - idx - 1] : c \in 0 .. WordBits - 1
      BY <1>1, <1>2, <2>5
    <3> QED
      BY <1>1, <1>2, <1>6, <3>1 DEF ShiftRight
  <2>6. k >= diff
    <3>1. WordBits * (i - idx) \in Nat
      BY <1>1, <2>2
    <3> QED
      BY <1>1, <1>2, <1>4, <1>6, <2>1, <3>1
  <2> QED
    BY <1>1, <1>2, <1>3, <1>6, <2>3, <2>4, <2>5, <2>6
<1>7. CASE i = idx /\ b < d
  <2>1. k < diff
    BY <1>1, <1>2, <1>7
  <2>2. b \notin ShiftLeft(window[i - idx], d)
    <3>1. \A c \in window[0] : c \in 0 .. WordBits - 1
      BY <1>1
    <3>2. i - idx = 0
      BY <1>1, <1>2, <1>7
    <3> QED
      BY <1>1, <1>2, <1>7, <3>1, <3>2 DEF ShiftLeft
  <2> QED
    BY <1>1, <1>2, <1>3, <1>4, <1>7, <2>1, <2>2
<1>8. CASE i > idx /\ b < d
  <2>1. k - diff = WordBits * (i - idx - 1) + (b + WordBits - d)
    BY <1>1, <1>2
  <2>2. i - idx - 1 \in 0 .. Words - 1 /\ b + WordBits - d \in 0 .. WordBits - 1
    BY <1>1, <1>2, <1>8
  <2>3. IsSet(window, k - diff) <=> b + WordBits - d \in window[i - idx - 1]
    BY <2>1, <2>2, PositionOf DEF IsSet
  <2>4. b \in ShiftRight(window[i - idx - 1], WordBits - d)
          <=> b + WordBits - d \in window[i - idx - 1]
    <3>1. \A c \in window[i - idx - 1] : c \in 0 .. WordBits - 1
      BY <2>2
    <3> QED
      BY <1>1, <1>2, <1>8, <2>2, <3>1 DEF ShiftRight
  <2>5. b \notin ShiftLeft(window[i - idx], d)
    <3>1. \A c \in window[i - idx] : c \in 0 .. WordBits - 1
      BY <1>1, <1>2, <1>8
    <3> QED
      BY <1>1, <1>2, <1>8, <3>1 DEF ShiftLeft
  <2>6. k >= diff
    <3>1. WordBits * (i - idx - 1) \in Nat
      BY <1>1, <2>2
    <3> QED
      BY <1>1, <1>2, <1>4, <1>8, <2>1, <2>2, <3>1
  <2> QED
    BY <1>1, <1>2, <1>3, <1>8, <2>3, <2>4, <2>5, <2>6
<1> QED
  BY <1>1, <1>2, <1>5, <1>6, <1>7, <1>8

LEMMA ShiftedType ==
  ASSUME NEW window \in [0 .. Words - 1 -> SUBSET (0 .. WordBits - 1)],
         NEW diff \in 1 .. SeqBits - 1
  PROVE  Shifted(window, diff) \in [0 .. Words - 1 -> SUBSET (0 .. WordBits - 1)]
<1> DEFINE idx == diff \div WordBits
           d == diff % WordBits
<1>1. WordBits \in Nat \ {0} /\ Words \in Nat \ {0}
  BY RecordAssumption
<1>2. idx \in 0 .. Words - 1 /\ d \in 0 .. WordBits - 1
  BY PositionExists
<1>3. ASSUME NEW i \in 0 .. Words - 1 PROVE Shifted(window, diff)[i] \subseteq 0 .. WordBits - 1
  <2> SUFFICES ASSUME NEW b \in Shifted(window, diff)[i] PROVE b \in 0 .. WordBits - 1
    OBVIOUS
  <2>1. /\ i >= idx
        /\ \/ b \in ShiftLeft(window[i - idx], d)
           \/ i > idx /\ d > 0 /\ b \in ShiftRight(window[i - idx - 1], WordBits - d)
    BY <1>2 DEF Shifted
  <2> HIDE DEF idx, d
  <2>2. CASE b \in ShiftLeft(window[i - idx], d)
    <3>1. window[i - idx] \subseteq 0 .. WordBits - 1
      BY <1>1, <1>2, <2>1
    <3> QED
      BY <1>1, <1>2, <2>2, <3>1 DEF ShiftLeft
  <2>3. CASE i > idx /\ d > 0 /\ b \in ShiftRight(window[i - idx - 1], WordBits - d)
    <3>1. window[i - idx - 1] \subseteq 0 .. WordBits - 1
      BY <1>1, <1>2, <2>3
    <3> QED
      BY <1>1, <1>2, <2>3, <3>1 DEF ShiftRight
  <2> QED
    BY <2>1, <2>2, <2>3
<1> QED
  BY <1>3 DEF Shifted

LEMMA FreshEpochIsExact == FreshEpoch \in EpochType /\ Exact(FreshEpoch, {})
BY RecordAssumption DEF FreshEpoch, EmptyWindow, EpochType, Exact

\* What Exact says of one number below the next.
LEMMA ExactAt ==
  ASSUME NEW e \in EpochType, NEW received, Exact(e, received), NEW k \in 0 .. SeqBits - 1
  PROVE  IsSet(e.window, k) <=> e.next - 1 - k \in received
<1>1. /\ k \div WordBits \in 0 .. Words - 1 /\ k % WordBits \in 0 .. WordBits - 1
      /\ k = WordBits * (k \div WordBits) + (k % WordBits)
  BY PositionExists
<1> QED
  BY <1>1 DEF Exact, IsSet

LEMMA UpdateWindowType ==
  ASSUME NEW e \in EpochType, NEW seq \in Nat, CheckWindow(e, seq)
  PROVE  UpdateWindow(e, seq) \in EpochType
<1>1. WordBits \in Nat \ {0} /\ Words \in Nat \ {0}
  BY RecordAssumption
<1>2. CASE seq < e.next
  <2>1. e.next - seq - 1 \in 0 .. SeqBits - 1
    BY <1>1, <1>2 DEF CheckWindow, EpochType, SeqBits
  <2>2. /\ (e.next - seq - 1) \div WordBits \in 0 .. Words - 1
        /\ (e.next - seq - 1) % WordBits \in 0 .. WordBits - 1
    BY <2>1, PositionExists
  <2> QED
    BY <1>1, <1>2, <2>2 DEF UpdateWindow, EpochType
<1>3. CASE seq >= e.next
  <2> DEFINE diff == seq - e.next + 1
  <2>1. diff \in Nat \ {0} /\ SeqBits \in Nat
    BY <1>1, <1>3 DEF EpochType, SeqBits
  <2>2. EmptyWindow \in [0 .. Words - 1 -> SUBSET (0 .. WordBits - 1)]
    BY DEF EmptyWindow
  <2>3. diff < SeqBits => Shifted(e.window, diff) \in [0 .. Words - 1 -> SUBSET (0 .. WordBits - 1)]
    BY <2>1, ShiftedType DEF EpochType
  <2>4. DtlsUpdateWindowGTSeq(e.window, diff) \in [0 .. Words - 1 -> SUBSET (0 .. WordBits - 1)]
    BY <1>1, <2>1, <2>2, <2>3 DEF DtlsUpdateWindowGTSeq
  <2> QED
    BY <1>3, <2>4 DEF UpdateWindow, EpochType
<1> QED
  BY <1>2, <1>3 DEF EpochType

\* A record within the window: one bit is set, the one of its number.
LEMMA OldRecordIsExact ==
  ASSUME NEW e \in EpochType, NEW received \in SUBSET Nat, Exact(e, received),
         NEW seq \in Nat, CheckWindow(e, seq), seq < e.next
  PROVE  Exact(UpdateWindow(e, seq), received \cup {seq})
<1> DEFINE k == e.next - seq - 1
           u == UpdateWindow(e, seq)
<1>1. WordBits \in Nat \ {0} /\ Words \in Nat \ {0} /\ e.next \in Nat
  BY RecordAssumption DEF EpochType
<1>2. k \in 0 .. SeqBits - 1
  BY <1>1 DEF CheckWindow, SeqBits
<1>3. /\ k \div WordBits \in 0 .. Words - 1 /\ k % WordBits \in 0 .. WordBits - 1
      /\ k = WordBits * (k \div WordBits) + (k % WordBits)
  BY <1>2, PositionExists
<1>4. u.next = e.next
  BY DEF UpdateWindow, EpochType
<1>5. ASSUME NEW i \in 0 .. Words - 1, NEW b \in 0 .. WordBits - 1
      PROVE  b \in u.window[i] <=> u.next - 1 - (WordBits * i + b) \in received \cup {seq}
  <2>1. b \in u.window[i] <=> b \in e.window[i] \/ (i = k \div WordBits /\ b = k % WordBits)
    <3>1. u = [e EXCEPT !.window[k \div WordBits] = @ \cup {k % WordBits}]
      BY DEF UpdateWindow
    <3>2. e.window \in [0 .. Words - 1 -> SUBSET (0 .. WordBits - 1)]
      BY DEF EpochType
    <3>3. u.window = [e.window EXCEPT ![k \div WordBits] = @ \cup {k % WordBits}]
      BY <3>1 DEF EpochType
    <3>4. u.window[i] = IF i = k \div WordBits THEN e.window[i] \cup {k % WordBits}
                        ELSE e.window[i]
      BY <1>3, <3>2, <3>3
    <3> QED
      BY <3>4
  <2>2. b \in e.window[i] <=> e.next - 1 - (WordBits * i + b) \in received
    BY DEF Exact
  <2>3. WordBits * i + b \in Int
    BY <1>1
  <2>4. (i = k \div WordBits /\ b = k % WordBits) <=> WordBits * i + b = k
    <3>1. WordBits * i + b = k => i = k \div WordBits /\ b = k % WordBits
      <4> DEFINE j == k \div WordBits
                 c == k % WordBits
      <4>1. j \in Int /\ c \in 0 .. WordBits - 1 /\ k = WordBits * j + c
        BY <1>3
      <4> HIDE DEF j, c, k
      <4>2. WordBits * i + b = k => i = j /\ b = c
        BY <1>1, <4>1, PositionIsUnique
      <4> QED
        BY <4>2 DEF j, c
    <3> QED
      BY <1>3, <3>1
  <2>5. WordBits * i + b = k <=> e.next - 1 - (WordBits * i + b) = seq
    BY <1>1, <2>3
  <2> QED
    BY <1>4, <2>1, <2>2, <2>4, <2>5
<1>6. \A n \in received \cup {seq} : n < u.next
  BY <1>4 DEF Exact
<1> QED
  BY <1>5, <1>6 DEF Exact

\* A record ahead of the window: the bits move with the end of the window.
LEMMA NewRecordIsExact ==
  ASSUME NEW e \in EpochType, NEW received \in SUBSET Nat, Exact(e, received),
         NEW seq \in Nat, seq >= e.next
  PROVE  Exact(UpdateWindow(e, seq), received \cup {seq})
<1> DEFINE diff == seq - e.next + 1
           u == UpdateWindow(e, seq)
<1>1. WordBits \in Nat \ {0} /\ Words \in Nat \ {0} /\ e.next \in Nat
  BY RecordAssumption DEF EpochType
<1>2. SeqBits \in Nat /\ diff \in Nat \ {0}
  BY <1>1 DEF SeqBits
<1>3. u = [next |-> seq + 1, window |-> DtlsUpdateWindowGTSeq(e.window, diff)]
  BY <1>1 DEF UpdateWindow
<1> HIDE DEF u
<1>4. \A n \in received : n \in Nat /\ n < e.next
  BY DEF Exact
<1>5. ASSUME NEW i \in 0 .. Words - 1, NEW b \in 0 .. WordBits - 1
      PROVE  b \in u.window[i] <=> u.next - 1 - (WordBits * i + b) \in received \cup {seq}
  <2> DEFINE k == WordBits * i + b
  <2>1. k \in 0 .. SeqBits - 1
    BY PositionInRange
  <2>2. k = 0 <=> i = 0 /\ b = 0
    <3>1. WordBits * 0 + 0 = 0 /\ 0 \in 0 .. WordBits - 1
      BY <1>1
    <3>2. ASSUME k = 0 PROVE i = 0 /\ b = 0
      <4>1. WordBits * i + b = WordBits * 0 + 0
        BY <3>1, <3>2
      <4> QED
        BY <1>1, <3>1, <4>1, PositionIsUnique
    <3> QED
      BY <3>1, <3>2
  <2>3. u.next - 1 - k = seq - k
    BY <1>1, <1>3, <2>1
  <2> HIDE DEF k
  <2>4. seq - k = seq <=> k = 0
    BY <2>1
  <2>5. k < diff => seq - k \notin received
    BY <1>1, <1>4, <2>1
  <2>6. CASE diff < SeqBits
    <3>1. b \in u.window[i] <=> b \in Shifted(e.window, diff)[i] \/ k = 0
      <4>1. Shifted(e.window, diff) \in [0 .. Words - 1 -> SUBSET (0 .. WordBits - 1)]
        BY <1>2, <2>6, ShiftedType DEF EpochType
      <4>2. u.window = [Shifted(e.window, diff) EXCEPT ![0] = @ \cup {0}]
        <5>1. ~(diff = 0 \/ diff >= SeqBits) /\ u.window = DtlsUpdateWindowGTSeq(e.window, diff)
          BY <1>2, <1>3, <2>6
        <5> HIDE DEF diff
        <5> QED
          BY <5>1 DEF DtlsUpdateWindowGTSeq
      <4>3. u.window[i] = IF i = 0 THEN Shifted(e.window, diff)[i] \cup {0}
                          ELSE Shifted(e.window, diff)[i]
        BY <1>1, <4>1, <4>2
      <4> QED
        BY <2>2, <4>3
    <3>2. b \in Shifted(e.window, diff)[i] <=> k >= diff /\ IsSet(e.window, k - diff)
      <4>1. diff \in 1 .. SeqBits - 1
        BY <1>2, <2>6
      <4>2. e.window \in [0 .. Words - 1 -> SUBSET (0 .. WordBits - 1)]
        BY DEF EpochType
      <4> DEFINE window == e.window
      <4> HIDE DEF diff, window
      <4>3. b \in Shifted(window, diff)[i]
              <=> WordBits * i + b >= diff /\ IsSet(window, (WordBits * i + b) - diff)
        BY <4>1, <4>2, ShiftedMoves DEF window
      <4> QED
        BY <4>3 DEF window, k
    <3>3. k >= diff => (IsSet(e.window, k - diff) <=> seq - k \in received)
      <4>1. SUFFICES ASSUME k >= diff PROVE IsSet(e.window, k - diff) <=> seq - k \in received
        OBVIOUS
      <4>2. k - diff \in 0 .. SeqBits - 1
        BY <1>2, <2>1, <4>1
      <4>3. e.next - 1 - (k - diff) = seq - k
        BY <1>1, <2>1
      <4> QED
        BY <4>2, <4>3, ExactAt
    <3> QED
      BY <1>2, <2>1, <2>3, <2>4, <2>5, <3>1, <3>2, <3>3 DEF k
  <2>7. CASE diff >= SeqBits
    <3>1. b \in u.window[i] <=> k = 0
      BY <1>1, <1>2, <1>3, <2>2, <2>7 DEF DtlsUpdateWindowGTSeq, EmptyWindow
    <3>2. k < diff
      BY <1>2, <2>1, <2>7
    <3> QED
      BY <2>3, <2>4, <2>5, <3>1, <3>2 DEF k
  <2> QED
    BY <1>2, <2>6, <2>7
<1>6. \A n \in received \cup {seq} : n < u.next
  BY <1>1, <1>3, <1>4
<1> QED
  BY <1>5, <1>6 DEF Exact, u

LEMMA UpdateWindowIsExact ==
  ASSUME NEW e \in EpochType, NEW received \in SUBSET Nat, Exact(e, received),
         NEW seq \in Nat, CheckWindow(e, seq)
  PROVE  Exact(UpdateWindow(e, seq), received \cup {seq})
BY OldRecordIsExact, NewRecordIsExact DEF EpochType

\* A record that was received is refused, however far back (internal.c
\* 18466-18505): nothing is processed twice.
THEOREM ReceivedIsRefused ==
  ASSUME NEW e \in EpochType, NEW received \in SUBSET Nat, Exact(e, received),
         NEW seq \in received
  PROVE  ~CheckWindow(e, seq)
<1>1. WordBits \in Nat \ {0} /\ Words \in Nat \ {0} /\ e.next \in Nat /\ seq \in Nat
  BY RecordAssumption DEF EpochType
<1>2. seq < e.next
  BY DEF Exact
<1>3. CASE e.next - seq <= SeqBits
  <2>1. e.next - seq - 1 \in 0 .. SeqBits - 1
    BY <1>1, <1>2, <1>3 DEF SeqBits
  <2>2. e.next - 1 - (e.next - seq - 1) = seq
    BY <1>1
  <2> QED
    BY <1>1, <1>2, <2>1, <2>2, ExactAt DEF CheckWindow
<1> QED
  BY <1>1, <1>2, <1>3 DEF CheckWindow

\* A record that was not received is not refused, as far back as the window
\* reaches.
THEOREM NewIsAccepted ==
  ASSUME NEW e \in EpochType, NEW received \in SUBSET Nat, Exact(e, received),
         NEW seq \in Nat \ received, e.next - seq <= SeqBits
  PROVE  CheckWindow(e, seq)
<1>1. WordBits \in Nat \ {0} /\ Words \in Nat \ {0} /\ e.next \in Nat
  BY RecordAssumption DEF EpochType
<1>2. CASE seq < e.next
  <2>1. e.next - seq - 1 \in 0 .. SeqBits - 1
    BY <1>1, <1>2 DEF SeqBits
  <2>2. e.next - 1 - (e.next - seq - 1) = seq
    BY <1>1
  <2> QED
    BY <1>2, <2>1, <2>2, ExactAt DEF CheckWindow
<1> QED
  BY <1>1, <1>2 DEF CheckWindow

-----------------------------------------------------------------------------
(* The number of a record                                                   *)

\* The number is found from its low bits when it is less than half of the
\* modulus away from the one expected (dtls13.c 1339-1386).
THEOREM NumberIsReconstructed ==
  ASSUME NEW next \in Nat, NEW seq \in Nat,
         2 * (seq - next) < SeqModulus, 2 * (next - seq) < SeqModulus
  PROVE  ReconstructSeqNumber(next, seq % SeqModulus) = seq
<1> DEFINE M == SeqModulus
           q == next \div M
           expected == next % M
           p == seq \div M
           low == seq % M
<1>1. M \in Nat \ {0} /\ M = 2 * (M \div 2) /\ M \div 2 \in Nat
  <2>1. SeqModulus \in Nat \ {0} /\ SeqModulus % 2 = 0
    BY RecordAssumption
  <2>2. /\ SeqModulus \div 2 \in Nat
        /\ SeqModulus = 2 * (SeqModulus \div 2) + (SeqModulus % 2)
    BY <2>1, Division
  <2> QED
    BY <2>1, <2>2
<1>2. q \in Nat /\ expected \in 0 .. M - 1 /\ next = M * q + expected
  BY <1>1, Division
<1>3. p \in Nat /\ low \in 0 .. M - 1 /\ seq = M * p + low
  BY <1>1, Division
<1>4. ReconstructSeqNumber(next, low) =
        LET out == (next - expected) + low
        IN IF low >= expected
           THEN IF low - expected > M \div 2 /\ out >= M THEN out - M ELSE out
           ELSE IF expected - low > M \div 2 THEN out + M ELSE out
  BY DEF ReconstructSeqNumber
<1> DEFINE half == M \div 2
<1>5. half \in Nat /\ M = 2 * half
  BY <1>1
<1> HIDE DEF M, q, expected, p, low, half
<1>6. M * q \in Nat /\ M * p \in Nat
  BY <1>1, <1>2, <1>3
<1>7. /\ M * p - M * q + (low - expected) < half
      /\ M * q - M * p + (expected - low) < half
  BY <1>1, <1>2, <1>3, <1>5, <1>6 DEF M
<1>8. p = q \/ p = q + 1 \/ p = q - 1
  <2>1. ~(p > q + 1)
    <3>1. SUFFICES ASSUME p > q + 1 PROVE FALSE
      OBVIOUS
    <3>2. PICK m \in Nat : p = q + 2 + m
      <4>1. p - q - 2 \in Nat
        BY <1>2, <1>3, <3>1
      <4> QED
        BY <1>2, <1>3, <4>1
    <3>3. M * p = M * q + 2 * M + M * m /\ M * m \in Nat
      BY <1>1, <1>2, <3>2
    <3> QED
      BY <1>1, <1>2, <1>3, <1>5, <1>6, <1>7, <3>3
  <2>2. ~(q > p + 1)
    <3>1. SUFFICES ASSUME q > p + 1 PROVE FALSE
      OBVIOUS
    <3>2. PICK m \in Nat : q = p + 2 + m
      <4>1. q - p - 2 \in Nat
        BY <1>2, <1>3, <3>1
      <4> QED
        BY <1>2, <1>3, <4>1
    <3>3. M * q = M * p + 2 * M + M * m /\ M * m \in Nat
      BY <1>1, <1>3, <3>2
    <3> QED
      BY <1>1, <1>2, <1>3, <1>5, <1>6, <1>7, <3>3
  <2> QED
    BY <1>2, <1>3, <2>1, <2>2
<1>9. ReconstructSeqNumber(next, low) = seq
  <2>1. CASE p = q
    BY <1>1, <1>2, <1>3, <1>4, <1>5, <1>6, <1>7, <2>1 DEF half
  <2>2. CASE p = q + 1
    <3>1. M * p = M * q + M
      BY <1>1, <1>2, <2>2
    <3> QED
      BY <1>1, <1>2, <1>3, <1>4, <1>5, <1>6, <1>7, <3>1 DEF half
  <2>3. CASE p = q - 1
    <3>1. M * q = M * p + M
      BY <1>1, <1>2, <1>3, <2>3
    <3> QED
      BY <1>1, <1>2, <1>3, <1>4, <1>5, <1>6, <1>7, <3>1 DEF half
  <2> QED
    BY <1>8, <2>1, <2>2, <2>3
<1> QED
  BY <1>9 DEF low, M

-----------------------------------------------------------------------------
(* The windows of the session                                               *)

\* What is needed besides WindowExact: numbers are natural numbers, those of the
\* datagrams under way too.
WindowInvariant ==
  /\ peer \in [Epochs -> EpochType]
  /\ accepted \in [Epochs -> SUBSET Nat]
  /\ WindowExact
  /\ "next" \in DOMAIN server /\ server.next \in [Epochs -> Nat]
  /\ \A r \in to_client : r.epoch \in Epochs /\ r.seq \in Nat

\* What a datagram does to the windows.
Takes(r) ==
  /\ CheckWindow(peer[r.epoch], r.seq)
  /\ peer' = [peer EXCEPT ![r.epoch] = UpdateWindow(@, r.seq)]
  /\ accepted' = [accepted EXCEPT ![r.epoch] = @ \cup {r.seq}]

LEMMA ReceiveTakes ==
  ASSUME Receive
  PROVE  /\ to_client' \subseteq to_client /\ UNCHANGED server
         /\ UNCHANGED <<peer, accepted>> \/ \E r \in to_client : Takes(r)
<1>1. PICK r \in to_client, io \in Outcomes :
        LET h == GetDtlsRecordHeader(Called(io), r)
            isNew == ~DropsHeader(h, r) /\ Decrypts(h, r)
                     /\ CheckWindow(peer[r.epoch], r.seq)
        IN
        /\ IF isNew
           THEN /\ peer' = [peer EXCEPT ![r.epoch] = UpdateWindow(@, r.seq)]
                /\ accepted' = [accepted EXCEPT ![r.epoch] = @ \cup {r.seq}]
           ELSE UNCHANGED <<peer, accepted>>
        /\ \/ to_client' = ForClient(ssl', peer', to_client \ {r})
           \/ to_client' = ForClient(ssl', peer', to_client)
  BY DEF Receive
<1>2. to_client' \subseteq to_client
  BY <1>1 DEF ForClient
<1>3. UNCHANGED server
  BY DEF Receive
<1> QED
  BY <1>1, <1>2, <1>3 DEF Takes

LEMMA TakesKeepsWindows ==
  ASSUME WindowInvariant, NEW r \in to_client, Takes(r)
  PROVE  /\ peer' \in [Epochs -> EpochType] /\ accepted' \in [Epochs -> SUBSET Nat]
         /\ WindowExact'
<1>1. r.epoch \in Epochs /\ r.seq \in Nat
  BY DEF WindowInvariant
<1> DEFINE e == peer[r.epoch]
<1>2. e \in EpochType /\ accepted[r.epoch] \in SUBSET Nat /\ Exact(e, accepted[r.epoch])
      /\ CheckWindow(e, r.seq)
  BY <1>1 DEF WindowInvariant, WindowExact, Takes
<1>3. UpdateWindow(e, r.seq) \in EpochType
  BY <1>1, <1>2, UpdateWindowType
<1>4. Exact(UpdateWindow(e, r.seq), accepted[r.epoch] \cup {r.seq})
  BY <1>1, <1>2, UpdateWindowIsExact
<1>5. peer' = [peer EXCEPT ![r.epoch] = UpdateWindow(e, r.seq)]
      /\ accepted' = [accepted EXCEPT ![r.epoch] = accepted[r.epoch] \cup {r.seq}]
  BY DEF Takes
<1>6. peer \in [Epochs -> EpochType] /\ accepted \in [Epochs -> SUBSET Nat]
  BY DEF WindowInvariant
<1> HIDE DEF e
<1>7. \A x \in Epochs : Exact(peer'[x], accepted'[x])
  <2> SUFFICES ASSUME NEW x \in Epochs PROVE Exact(peer'[x], accepted'[x])
    OBVIOUS
  <2>1. CASE x = r.epoch
    <3>1. peer'[x] = UpdateWindow(e, r.seq) /\ accepted'[x] = accepted[r.epoch] \cup {r.seq}
      BY <1>1, <1>5, <1>6, <2>1
    <3> QED
      BY <1>4, <3>1
  <2>2. CASE x # r.epoch
    <3>1. peer'[x] = peer[x] /\ accepted'[x] = accepted[x]
      BY <1>5, <1>6, <2>2
    <3> QED
      BY <3>1 DEF WindowInvariant, WindowExact
  <2> QED
    BY <2>1, <2>2
<1>8. peer' \in [Epochs -> EpochType] /\ accepted' \in [Epochs -> SUBSET Nat]
  BY <1>1, <1>3, <1>5, <1>6
<1> QED
  BY <1>7, <1>8 DEF WindowExact

LEMMA WindowInit == Init => WindowInvariant
<1> SUFFICES ASSUME Init PROVE WindowInvariant
  OBVIOUS
<1>1. peer = [e \in Epochs |-> FreshEpoch] /\ accepted = [e \in Epochs |-> {}]
      /\ to_client = {} /\ "next" \in DOMAIN server
      /\ server.next = [e \in Epochs |-> 0]
  BY DEF Init
<1> QED
  BY <1>1, FreshEpochIsExact DEF WindowInvariant, WindowExact

LEMMA WindowStep == WindowInvariant /\ [Next]_vars => WindowInvariant'
<1> SUFFICES ASSUME WindowInvariant, [Next]_vars PROVE WindowInvariant'
  OBVIOUS
<1>1. CASE UNCHANGED <<peer, accepted, server, to_client>>
  BY <1>1 DEF WindowInvariant, WindowExact
<1>2. CASE Poll \/ Timeout
  BY <1>1, <1>2 DEF Poll, Timeout
<1>3. CASE Receive
  <2>1. CASE UNCHANGED <<peer, accepted>>
    BY <1>3, <2>1, ReceiveTakes DEF WindowInvariant, WindowExact
  <2>2. ASSUME NEW r \in to_client, Takes(r) PROVE WindowInvariant'
    <3>1. /\ peer' \in [Epochs -> EpochType] /\ accepted' \in [Epochs -> SUBSET Nat]
          /\ WindowExact'
      BY <2>2, TakesKeepsWindows
    <3>2. to_client' \subseteq to_client /\ UNCHANGED server
      BY <1>3, ReceiveTakes
    <3> QED
      BY <3>1, <3>2 DEF WindowInvariant
  <2> QED
    BY <1>3, <2>1, <2>2, ReceiveTakes
<1>4. CASE ServerReceive
  <2>1. UNCHANGED <<peer, accepted, to_client>>
    BY <1>4 DEF ServerReceive, history
  <2>2. "next" \in DOMAIN server' /\ server'.next = server.next
    BY <1>4 DEF ServerReceive, WindowInvariant
  <2> QED
    BY <2>1, <2>2 DEF WindowInvariant, WindowExact
<1>5. ASSUME NEW e \in Epochs, UNCHANGED <<peer, accepted>>,
             "next" \in DOMAIN server', server'.next = [server.next EXCEPT ![e] = @ + 1],
             \A r \in to_client' : r \in to_client \/ (r.epoch = e /\ r.seq = server.next[e])
      PROVE  WindowInvariant'
  <2>1. server.next[e] \in Nat /\ server'.next \in [Epochs -> Nat]
    BY <1>5 DEF WindowInvariant
  <2> QED
    BY <1>5, <2>1 DEF WindowInvariant, WindowExact
<1>6. CASE ServerSend
  <2>1. PICK no \in Outstanding :
          LET e == FlightEpoch(no)
              n == server.next[e]
              again == IF no \in server.sent THEN 1 ELSE 0 IN
          /\ server' = [server EXCEPT !.sent = @ \cup {no}, !.resends = @ + again,
                                      !.next[e] = @ + 1]
          /\ to_client' = ForClient(ssl, peer, to_client)
                          \cup {Handshake(e, n, Flights[no + 1], no)}
    BY <1>6 DEF ServerSend
  <2> DEFINE e == FlightEpoch(no)
  <2>2. e \in Epochs
    BY DEF FlightEpoch, Epochs
  <2> HIDE DEF e
  <2>3. "next" \in DOMAIN server' /\ server'.next = [server.next EXCEPT ![e] = @ + 1]
    BY <2>1 DEF WindowInvariant, e
  <2>4. \A r \in to_client' : r \in to_client \/ (r.epoch = e /\ r.seq = server.next[e])
    BY <2>1 DEF ForClient, Handshake, e
  <2>5. UNCHANGED <<peer, accepted>>
    BY <1>6 DEF ServerSend
  <2> QED
    BY <1>5, <2>2, <2>3, <2>4, <2>5
<1>7. CASE ServerAck
  <2> DEFINE e == IF Done THEN 3 ELSE 2
  <2>1. /\ server' = [server EXCEPT !.acks = @ + 1, !.next[e] = @ + 1, !.seen = {}]
        /\ to_client' = to_client \cup {Ack(e, server.next[e], server.seen)}
        /\ UNCHANGED <<peer, accepted>>
    BY <1>7 DEF ServerAck, history
  <2>2. e \in Epochs
    BY DEF Epochs
  <2> HIDE DEF e
  <2>3. "next" \in DOMAIN server' /\ server'.next = [server.next EXCEPT ![e] = @ + 1]
    BY <2>1 DEF WindowInvariant
  <2>4. \A r \in to_client' : r \in to_client \/ (r.epoch = e /\ r.seq = server.next[e])
    BY <2>1 DEF Ack
  <2> QED
    BY <1>5, <2>1, <2>2, <2>3, <2>4
<1>8. CASE UNCHANGED vars
  BY <1>1, <1>8 DEF vars, history
<1> QED
  BY <1>2, <1>3, <1>4, <1>6, <1>7, <1>8 DEF Next, Client, Server

\* In every state of the session the window of each epoch is exactly the set of
\* the records that have been processed, as far back as it reaches: with
\* ReceivedIsRefused none is processed twice, with NewIsAccepted none is refused
\* for another (internal.c 18466-18505, 18722-18776).
THEOREM WindowIsExact == Spec => []WindowExact
<1>1. WindowInvariant => WindowExact
  BY DEF WindowInvariant
<1> QED
  BY WindowInit, WindowStep, <1>1, PTL DEF Spec

-----------------------------------------------------------------------------
(* Recursive functions over a list                                          *)

\* What holds of 0 and of the successor of every number it holds of, holds up to n.
\* T is a set, not an operator: the least number outside it would have a
\* predecessor inside.  The recursive functions of the model run over a list, and
\* this is what is needed to say anything of their last value.
LEMMA Induction ==
  ASSUME NEW n \in Nat, NEW T, 0 \in T, \A k \in 0 .. n - 1 : k \in T => k + 1 \in T
  PROVE  \A k \in 0 .. n : k \in T
<1> DEFINE B == {k \in 0 .. n : k \notin T}
           R == {ss \in Nat \X Nat : ss[1] < ss[2]}
<1> SUFFICES ASSUME B # {} PROVE FALSE
  OBVIOUS
<1>1. B \subseteq Nat
  OBVIOUS
<1>2. IsWellFoundedOn(R, Nat)
  BY NatLessThanWellFounded DEF OpToRel
<1>3. \A y, x \in Nat : y < x => <<y, x>> \in R
  OBVIOUS
<1> HIDE DEF R
<1>4. PICK x \in B : \A y \in B : ~(<<y, x>> \in R)
  BY <1>1, <1>2, WFMin
<1>5. x # 0 /\ x \in 0 .. n
  OBVIOUS
<1>6. x - 1 \in 0 .. n - 1 /\ x - 1 \in Nat /\ x - 1 < x /\ x = (x - 1) + 1
  BY <1>5
<1>7. x - 1 \in T
  <2>1. x - 1 \notin B
    BY <1>1, <1>3, <1>4, <1>6
  <2> QED
    BY <2>1, <1>6
<1> QED
  BY <1>6, <1>7

\* The list is sent again one message after the other, by a function of its own.
LEMMA SendBufferedSteps ==
  ASSUME NEW s, Len(s.rtx) \in Nat
  PROVE  \E f : /\ f[0] = s
                /\ \A k \in 1 .. Len(s.rtx) : f[k] = ResendRecord(f[k - 1], k)
                /\ Dtls13RtxSendBuffered(s) = f[Len(s.rtx)]
<1> DEFINE n == Len(s.rtx)
           Is(f, m) == f = [k \in 0 .. m |-> IF k = 0 THEN s ELSE ResendRecord(f[k - 1], k)]
           Exists(m) == \E f : Is(f, m)
           T == {m \in 0 .. n : Exists(m)}
           after == CHOOSE f : Is(f, n)
<1>1. Dtls13RtxSendBuffered(s) = after[n]
  BY DEF Dtls13RtxSendBuffered
<1>2. Exists(0)
  <2> DEFINE f == [k \in 0 .. 0 |-> s]
  <2>1. Is(f, 0)
    OBVIOUS
  <2> QED
    BY <2>1
<1>3. ASSUME NEW m \in 0 .. n - 1, Exists(m) PROVE Exists(m + 1)
  <2>1. PICK f : Is(f, m)
    BY <1>3
  <2> DEFINE g == [k \in 0 .. m + 1 |-> IF k = m + 1 THEN ResendRecord(f[m], m + 1) ELSE f[k]]
  <2>2. Is(g, m + 1)
    <3>1. ASSUME NEW k \in 0 .. m + 1
          PROVE  g[k] = IF k = 0 THEN s ELSE ResendRecord(g[k - 1], k)
      <4>1. CASE k = m + 1
        <5>1. k # 0 /\ k - 1 = m /\ m \in 0 .. m + 1 /\ m # m + 1
          BY <4>1
        <5>2. g[k] = ResendRecord(f[m], k) /\ g[k - 1] = f[m]
          BY <4>1, <5>1
        <5> QED
          BY <5>1, <5>2, Zenon
      <4>2. CASE k # m + 1
        <5>1. k \in 0 .. m /\ (k # 0 => k - 1 \in 0 .. m /\ k - 1 \in 0 .. m + 1 /\ k - 1 # m + 1)
          BY <4>2
        <5>2. g[k] = f[k] /\ (k # 0 => g[k - 1] = f[k - 1])
          BY <4>2, <5>1
        <5>3. f[k] = IF k = 0 THEN s ELSE ResendRecord(f[k - 1], k)
          BY <2>1, <5>1
        <5> QED
          BY <5>2, <5>3, Zenon
      <4> QED
        BY <4>1, <4>2
    <3> QED
      BY <3>1, Zenon
  <2> QED
    BY <2>2, Zenon
<1> HIDE DEF Exists
<1>4. Exists(n)
  <2>1. 0 \in T /\ \A m \in 0 .. n - 1 : m \in T => m + 1 \in T
    BY <1>2, <1>3
  <2>2. n \in 0 .. n /\ n \in Nat
    OBVIOUS
  <2> HIDE DEF T, n
  <2>3. \A m \in 0 .. n : m \in T
    BY <2>1, <2>2, Induction
  <2> QED
    BY <2>2, <2>3 DEF T
<1>5. Is(after, n)
  BY <1>4, Zenon DEF Exists
<1> HIDE DEF after
<1>6. after[0] = s /\ \A k \in 1 .. n : after[k] = ResendRecord(after[k - 1], k)
  <2>1. \A k \in 0 .. n : after[k] = IF k = 0 THEN s ELSE ResendRecord(after[k - 1], k)
    BY <1>5
  <2>2. 0 \in 0 .. n /\ \A k \in 1 .. n : k \in 0 .. n /\ k # 0
    OBVIOUS
  <2> QED
    BY <2>1, <2>2, Zenon
<1> QED
  BY <1>1, <1>6, Zenon

-----------------------------------------------------------------------------
(* Records are written                                                      *)

\* The part of a session that is not about what it sends.
SameProgress(s, t) ==
  /\ t.connectState = s.connectState /\ t.serverState = s.serverState
  /\ t.expected = s.expected
  /\ t.rx_msgs = s.rx_msgs /\ t.hellos = s.hellos
  /\ t.handShakeDone = s.handShakeDone

\* A call that fails leaves output behind.
Stuck(s, t) == Fine(s) => Fine(t) \/ t.outputBuffer # <<>>

\* What could not be written stays in the buffer (internal.c, SendBuffered).
LEMMA SendBufferedFrame ==
  ASSUME NEW s, IsSession(s)
  PROVE  /\ IsSession(SendBuffered(s)) /\ SameProgress(s, SendBuffered(s))
         /\ SendBuffered(s).dtls_handshake_number = s.dtls_handshake_number
         /\ SendBuffered(s).rtx = s.rtx /\ SendBuffered(s).seenRecords = s.seenRecords
         /\ SendBuffered(s).nextSeq = s.nextSeq
         /\ Out(SendBuffered(s)) = Out(s) /\ Stuck(s, SendBuffered(s))
<1>1. CASE s.outputBuffer = <<>>
  <2>1. SendBuffered(s) = s
    BY <1>1 DEF SendBuffered
  <2> QED
    BY <2>1 DEF SameProgress, Stuck
<1>2. CASE s.outputBuffer # <<>> /\ s.room <= 0
  <2>1. SendBuffered(s) = [s EXCEPT !.error = s.fault, !.room = Refused]
    BY <1>2 DEF SendBuffered
  <2>2. DOMAIN s = SessionFields
    BY DEF IsSession
  <2>3. /\ DOMAIN SendBuffered(s) = SessionFields
        /\ \A f \in SessionFields \ {"error", "room"} : SendBuffered(s)[f] = s[f]
    BY <2>1, <2>2
  <2> QED
    BY <1>2, <2>3 DEF SameProgress, IsSession, Out, SessionFields, Stuck
<1>3. CASE s.outputBuffer # <<>> /\ ~(s.room <= 0)
  <2>1. SendBuffered(s) = [s EXCEPT !.room = @ - 1, !.sent = @ \cup ToSet(s.outputBuffer),
                 !.outputBuffer = <<>>]
    BY <1>3 DEF SendBuffered
  <2>2. DOMAIN s = SessionFields
    BY DEF IsSession
  <2>3. /\ DOMAIN SendBuffered(s) = SessionFields
        /\ \A f \in SessionFields \ {"room", "sent", "outputBuffer"} : SendBuffered(s)[f] = s[f]
    BY <2>1, <2>2
  <2>4. SendBuffered(s).sent = s.sent \cup ToSet(s.outputBuffer) /\ SendBuffered(s).outputBuffer = <<>>
    BY <2>1, <2>2 DEF SessionFields
  <2>5. ToSet(s.outputBuffer) \subseteq Datagrams /\ ToSet(<<>>) = {}
    BY DEF ToSet, IsSession
  <2> QED
    BY <2>3, <2>4, <2>5 DEF SameProgress, IsSession, Out, SessionFields, Stuck, Fine
<1> QED
  BY <1>1, <1>2, <1>3

\* A list with another element.
LEMMA AppendFacts ==
  ASSUME NEW S, NEW seq \in Seq(S), NEW e \in S
  PROVE  /\ Append(seq, e) \in Seq(S) /\ Len(Append(seq, e)) = Len(seq) + 1
         /\ ToSet(Append(seq, e)) = ToSet(seq) \cup {e}
<1>1. /\ Append(seq, e) \in Seq(S) /\ Len(Append(seq, e)) = Len(seq) + 1
      /\ \A i \in 1 .. Len(seq) : Append(seq, e)[i] = seq[i]
      /\ Append(seq, e)[Len(seq) + 1] = e
  BY AppendProperties
<1>2. DOMAIN seq = 1 .. Len(seq) /\ DOMAIN Append(seq, e) = 1 .. Len(seq) + 1 /\ Len(seq) \in Nat
  BY <1>1, LenProperties
<1> DEFINE a == Append(seq, e)
<1> HIDE DEF a
<1>3. ToSet(a) = ToSet(seq) \cup {e}
  BY <1>1, <1>2 DEF ToSet, a
<1> QED
  BY <1>1, <1>3 DEF a

\* A record is written or buffered, and takes its number in either case.
LEMMA SendRecordFrame ==
  ASSUME NEW s, IsSession(s), NEW r \in Datagrams
  PROVE  /\ IsSession(SendRecord(s, r)) /\ SameProgress(s, SendRecord(s, r))
         /\ SendRecord(s, r).dtls_handshake_number = s.dtls_handshake_number
         /\ SendRecord(s, r).rtx = s.rtx /\ SendRecord(s, r).seenRecords = s.seenRecords
         /\ SendRecord(s, r).nextSeq = [s.nextSeq EXCEPT ![r.epoch] = @ + 1]
         /\ Out(SendRecord(s, r)) = Out(s) \cup {r} /\ Stuck(s, SendRecord(s, r))
<1> DEFINE b == [s EXCEPT !.nextSeq[r.epoch] = @ + 1, !.outputBuffer = Append(@, r)]
<1>1. SendRecord(s, r) = SendBuffered(b)
  BY DEF SendRecord
<1>2. DOMAIN s = SessionFields
  BY DEF IsSession
<1>3. /\ DOMAIN b = SessionFields
      /\ \A f \in SessionFields \ {"nextSeq", "outputBuffer"} : b[f] = s[f]
      /\ b.nextSeq = [s.nextSeq EXCEPT ![r.epoch] = @ + 1]
      /\ b.outputBuffer = Append(s.outputBuffer, r)
  BY <1>2 DEF SessionFields
<1> HIDE DEF b
<1>4. r.epoch \in Epochs
  BY DEF Datagrams
<1>5. b.outputBuffer \in Seq(Datagrams) /\ ToSet(b.outputBuffer) = ToSet(s.outputBuffer) \cup {r}
  BY <1>3, AppendFacts DEF IsSession
<1>6. b.nextSeq \in [Epochs -> Nat]
  BY <1>3, <1>4 DEF IsSession
<1>7. IsSession(b) /\ SameProgress(s, b) /\ b.dtls_handshake_number = s.dtls_handshake_number
      /\ b.rtx = s.rtx /\ b.seenRecords = s.seenRecords /\ Out(b) = Out(s) \cup {r} /\ b.error = s.error
  BY <1>3, <1>5, <1>6 DEF SameProgress, IsSession, Out, SessionFields
<1> QED
  BY <1>1, <1>3, <1>7, SendBufferedFrame DEF SameProgress, Stuck, Fine

\* The epoch that is written in.
LEMMA SendingEpoch ==
  ASSUME NEW s
  PROVE  dtls13Epoch(s) \in Epochs
BY DEF dtls13Epoch, Epochs

\* An acknowledgement names the records seen so far, which are then forgotten.
LEMMA SendAckFrame ==
  ASSUME NEW s, IsSession(s)
  PROVE  \E r \in Datagrams :
         /\ r.type = "ack" /\ r.acks = s.seenRecords
         /\ r.seq = s.nextSeq[r.epoch]
         /\ IsSession(SendDtls13Ack(s)) /\ SameProgress(s, SendDtls13Ack(s))
         /\ SendDtls13Ack(s).dtls_handshake_number = s.dtls_handshake_number
         /\ SendDtls13Ack(s).rtx = s.rtx /\ SendDtls13Ack(s).seenRecords = {}
         /\ SendDtls13Ack(s).nextSeq = [s.nextSeq EXCEPT ![r.epoch] = @ + 1]
         /\ Out(SendDtls13Ack(s)) = Out(s) \cup {r} /\ Stuck(s, SendDtls13Ack(s))
<1> DEFINE e == dtls13Epoch(s)
           r == Ack(e, s.nextSeq[e], s.seenRecords)
           t == SendRecord(s, r)
           u == SendDtls13Ack(s)
<1>1. r \in Datagrams /\ r.type = "ack" /\ r.acks = s.seenRecords /\ r.seq = s.nextSeq[r.epoch]
  BY SendingEpoch DEF IsSession, Ack, Datagrams
<1>2. u = [t EXCEPT !.seenRecords = {}]
  BY DEF SendDtls13Ack
<1> HIDE DEF e, r, t, u
<1>3. /\ IsSession(t) /\ SameProgress(s, t)
      /\ t.dtls_handshake_number = s.dtls_handshake_number
      /\ t.rtx = s.rtx 
      /\ t.nextSeq = [s.nextSeq EXCEPT ![r.epoch] = @ + 1]
      /\ Out(t) = Out(s) \cup {r} /\ Stuck(s, t)
  BY <1>1, SendRecordFrame DEF t
<1>4. DOMAIN u = SessionFields /\ (\A f \in SessionFields \ {"seenRecords"} : u[f] = t[f])
      /\ u.seenRecords = {}
  BY <1>2, <1>3 DEF IsSession, SessionFields
<1>5. IsSession(u) /\ SameProgress(t, u) /\ u.dtls_handshake_number = t.dtls_handshake_number
      /\ u.rtx = t.rtx /\ u.nextSeq = t.nextSeq /\ Out(u) = Out(t)
      /\ u.error = t.error /\ u.outputBuffer = t.outputBuffer
  BY <1>3, <1>4 DEF SameProgress, IsSession, Out, SessionFields
<1> QED
  BY <1>1, <1>3, <1>4, <1>5 DEF SameProgress, u, Stuck, Fine

-----------------------------------------------------------------------------
(* A message is sent again                                                  *)

\* The same message, with one more transmission at most.
TrackAlso(m, r, n) ==
  /\ m \in Entries /\ m.epoch = r.epoch /\ m.kind = r.kind /\ m.no = r.no
  /\ ToSet(m.rns) \subseteq ToSet(r.rns) \cup {n}

\* When there is no room for another number, the earlier ones are forgotten.
LEMMA TrackFrame ==
  ASSUME NEW r \in Entries, NEW n \in Nat
  PROVE  TrackAlso(Track(r, n), r, n)
<1> DEFINE rns == IF Len(r.rns) >= RnSize THEN <<n>> ELSE Append(r.rns, n)
<1>1. Track(r, n) = [r EXCEPT !.rns = rns]
  BY DEF Track
<1>2. r.rns \in Seq(Nat)
  BY DEF Entries
<1>3. rns \in Seq(Nat) /\ ToSet(rns) \subseteq ToSet(r.rns) \cup {n}
  BY <1>2 DEF ToSet
<1> HIDE DEF rns
<1> QED
  BY <1>1, <1>3 DEF Entries, TrackAlso

\* The list with a message in another place, or changed.
Replaced(new, old, k, m) ==
  /\ new \in Seq(Entries) /\ Len(new) = Len(old)
  /\ ToSet(new) \subseteq ToSet(old) \cup {m}
  /\ m \in ToSet(new)
  /\ ToSet(old) \ {old[k]} \subseteq ToSet(new)

\* A message is changed where it is.
LEMMA ReplacedInPlace ==
  ASSUME NEW old \in Seq(Entries), NEW k \in 1 .. Len(old), NEW m \in Entries
  PROVE  Replaced([old EXCEPT ![k] = m], old, k, m)
BY DEF Replaced, ToSet

\* A message is changed and moved to the end of the list.
LEMMA ReplacedAtEnd ==
  ASSUME NEW old \in Seq(Entries), NEW k \in 1 .. Len(old), NEW m \in Entries
  PROVE  Replaced(Append(RemoveAt(old, k), m), old, k, m)
<1> DEFINE a == RemoveAt(old, k)
           b == SubSeq(old, 1, k - 1)
           c == SubSeq(old, k + 1, Len(old))
<1>0. Len(old) \in Nat /\ DOMAIN old = 1 .. Len(old) /\ \A i \in 1 .. Len(old) : old[i] \in Entries
  BY LenProperties, ElementOfSeq
<1>1. a = b \o c
  BY DEF RemoveAt
<1>b. b \in Seq(Entries) /\ Len(b) = k - 1 /\ \A i \in 1 .. k - 1 : b[i] = old[i]
  <2>1. \A i \in 1 .. k - 1 : old[i] \in Entries
    BY <1>0
  <2>2. 1 \in Int /\ k - 1 \in Int
    BY <1>0
  <2> HIDE DEF b
  <2>3. /\ b \in Seq(Entries) /\ Len(b) = IF 1 <= k - 1 THEN k - 1 - 1 + 1 ELSE 0
        /\ \A i \in 1 .. k - 1 - 1 + 1 : b[i] = old[1 + i - 1]
    BY <2>1, <2>2, SubSeqProperties DEF b
  <2>4. k - 1 - 1 + 1 = k - 1 /\ \A i \in 1 .. k - 1 : 1 + i - 1 = i
    BY <1>0
  <2>5. Len(b) = k - 1
    BY <1>0, <2>3
  <2> QED
    BY <2>3, <2>4, <2>5
<1>c. c \in Seq(Entries) /\ Len(c) = Len(old) - k /\ \A i \in 1 .. Len(old) - k : c[i] = old[k + i]
  <2>1. \A i \in k + 1 .. Len(old) : old[i] \in Entries
    BY <1>0
  <2>2. k + 1 \in Int /\ Len(old) \in Int
    BY <1>0
  <2> HIDE DEF c
  <2>3. /\ c \in Seq(Entries) /\ Len(c) = IF k + 1 <= Len(old) THEN Len(old) - (k + 1) + 1 ELSE 0
        /\ \A i \in 1 .. Len(old) - (k + 1) + 1 : c[i] = old[k + 1 + i - 1]
    BY <2>1, <2>2, SubSeqProperties DEF c
  <2>4. /\ Len(old) - (k + 1) + 1 = Len(old) - k
        /\ \A i \in 1 .. Len(old) - k : (k + 1) + i - 1 = k + i
    BY <1>0
  <2>5. Len(c) = Len(old) - k
    <3>1. k + 1 <= Len(old) \/ k = Len(old)
      <4> DEFINE n == Len(old)
      <4>1. n \in Nat /\ k \in 1 .. n
        BY <1>0
      <4> HIDE DEF n
      <4>2. k + 1 <= n \/ k = n
        BY <4>1
      <4> QED
        BY <4>2 DEF n
    <3>2. CASE k + 1 <= Len(old)
      BY <2>3, <2>4, <3>2
    <3>3. CASE k = Len(old)
      <4>1. ~(k + 1 <= Len(old)) /\ Len(old) - k = 0
        BY <1>0, <3>3
      <4> QED
        BY <2>3, <4>1
    <3> QED
      BY <3>1, <3>2, <3>3
  <2> QED
    BY <2>3, <2>4, <2>5
<1> HIDE DEF b, c
<1>2. a \in Seq(Entries) /\ Len(a) = Len(old) - 1
  <2>1. a \in Seq(Entries) /\ Len(a) = Len(b) + Len(c)
    BY <1>1, <1>b, <1>c, ConcatProperties
  <2>2. Len(b) + Len(c) = Len(old) - 1
    BY <1>0, <1>b, <1>c
  <2> QED
    BY <2>1, <2>2
<1>3. \A i \in 1 .. Len(old) - 1 : a[i] = IF i < k THEN old[i] ELSE old[i + 1]
  <2>1. \A i \in 1 .. Len(b) + Len(c) : (b \o c)[i] = IF i <= Len(b) THEN b[i] ELSE c[i - Len(b)]
    BY <1>b, <1>c, ConcatProperties
  <2> SUFFICES ASSUME NEW i \in 1 .. Len(old) - 1
               PROVE  a[i] = IF i < k THEN old[i] ELSE old[i + 1]
    OBVIOUS
  <2>2. a[i] = IF i <= k - 1 THEN b[i] ELSE c[i - (k - 1)]
    BY <1>0, <1>1, <1>b, <1>c, <2>1
  <2>3. i <= k - 1 => i < k /\ b[i] = old[i]
    BY <1>0, <1>b
  <2>4. ~(i <= k - 1) => ~(i < k) /\ c[i - (k - 1)] = old[i + 1]
    BY <1>0, <1>c
  <2> QED
    BY <2>2, <2>3, <2>4
<1>d. DOMAIN a = 1 .. Len(old) - 1
  BY <1>2, LenProperties
<1> HIDE DEF a
<1>4. ToSet(a) \subseteq ToSet(old)
  BY <1>0, <1>d, <1>3 DEF ToSet
<1>5. ToSet(old) \ {old[k]} \subseteq ToSet(a)
  <2> SUFFICES ASSUME NEW i \in 1 .. Len(old), i # k PROVE old[i] \in ToSet(a)
    BY <1>0 DEF ToSet
  <2>1. CASE i < k
    <3>1. i \in 1 .. Len(old) - 1
      BY <1>0, <2>1
    <3> QED
      BY <1>3, <1>d, <2>1, <3>1 DEF ToSet
  <2>2. CASE i > k
    <3>1. i - 1 \in 1 .. Len(old) - 1 /\ ~(i - 1 < k) /\ (i - 1) + 1 = i
      BY <2>2
    <3> QED
      BY <1>3, <1>d, <3>1 DEF ToSet
  <2> QED
    BY <2>1, <2>2
<1>6. Append(a, m) \in Seq(Entries) /\ Len(Append(a, m)) = Len(old)
      /\ ToSet(Append(a, m)) = ToSet(a) \cup {m}
  <2>1. /\ Append(a, m) \in Seq(Entries) /\ Len(Append(a, m)) = Len(a) + 1
        /\ ToSet(Append(a, m)) = ToSet(a) \cup {m}
    BY <1>2, AppendFacts
  <2>2. Len(a) + 1 = Len(old)
    BY <1>0, <1>2
  <2> QED
    BY <2>1, <2>2
<1> QED
  BY <1>4, <1>5, <1>6 DEF Replaced, a

\* One message again, in a record of a new number; it may have moved, and it keeps
\* the numbers it had or loses them.
Resent(s, t, k) ==
  LET r == s.rtx[k]
      n == s.nextSeq[r.epoch]
  IN /\ IsSession(t) /\ SameProgress(s, t)
     /\ t.dtls_handshake_number = s.dtls_handshake_number
     /\ t.seenRecords = s.seenRecords
     /\ t.nextSeq = [s.nextSeq EXCEPT ![r.epoch] = @ + 1]
     /\ Out(t) = Out(s) \cup {Handshake(r.epoch, n, r.kind, r.no)}
     /\ t.rtx = s.rtx \/ \E m \in Entries : TrackAlso(m, r, n) /\ Replaced(t.rtx, s.rtx, k, m)

\* That is what the code does for each message of the list.
LEMMA ResendRecordFrame ==
  ASSUME NEW s, IsSession(s), NEW k \in 1 .. Len(s.rtx)
  PROVE  /\ ResendRecord(s, k) = s \/ Resent(s, ResendRecord(s, k), k)
         /\ Stuck(s, ResendRecord(s, k))
         /\ ~Fine(s) => ResendRecord(s, k) = s
<1> DEFINE r == s.rtx[k]
           n == s.nextSeq[r.epoch]
           h == Handshake(r.epoch, n, r.kind, r.no)
           t == SendRecord(s, h)
           u == ResendRecord(s, k)
<1>1. r \in Entries /\ s.rtx \in Seq(Entries)
  BY ElementOfSeq DEF IsSession
<1>2. n \in Nat /\ r.epoch \in Epochs /\ h \in Datagrams
  BY <1>1 DEF IsSession, Entries, Handshake, Datagrams
<1>3. u = CASE ~Fine(s) -> s
       [] Fine(s) /\ Fine(t) -> [t EXCEPT !.rtx[k] = Track(r, n)]
       [] Fine(s) /\ t.error = "WANT_WRITE" ->
            [t EXCEPT !.rtx = Append(RemoveAt(s.rtx, k), Track(r, n))]
       [] OTHER -> t
  BY DEF ResendRecord
<1>4. h.epoch = r.epoch
  BY DEF Handshake
<1> HIDE DEF u, t, h, n, r
<1>5. /\ IsSession(t) /\ SameProgress(s, t)
      /\ t.dtls_handshake_number = s.dtls_handshake_number
      /\ t.rtx = s.rtx /\ t.seenRecords = s.seenRecords
      /\ t.nextSeq = [s.nextSeq EXCEPT ![r.epoch] = @ + 1]
      /\ Out(t) = Out(s) \cup {h} /\ Stuck(s, t)
  BY <1>2, <1>4, SendRecordFrame DEF t
<1> DEFINE m == Track(r, n)
<1>6. TrackAlso(m, r, n) /\ m \in Entries
  BY <1>1, <1>2, TrackFrame DEF TrackAlso
<1> HIDE DEF m
<1>7. CASE ~Fine(s)
  <2>1. u = s
    BY <1>3, <1>7
  <2> QED
    BY <1>7, <2>1 DEF Stuck, u
<1>8. ASSUME NEW rtx, Replaced(rtx, s.rtx, k, m), u = [t EXCEPT !.rtx = rtx]
      PROVE  Resent(s, u, k) /\ Stuck(s, u)
  <2>1. DOMAIN u = SessionFields /\ (\A f \in SessionFields \ {"rtx"} : u[f] = t[f]) /\ u.rtx = rtx
    BY <1>5, <1>8 DEF IsSession, SessionFields
  <2>2. rtx \in Seq(Entries)
    BY <1>8 DEF Replaced
  <2>3. /\ IsSession(u) /\ SameProgress(t, u) /\ Out(u) = Out(t) /\ Stuck(s, u)
        /\ u.dtls_handshake_number = t.dtls_handshake_number
        /\ u.seenRecords = t.seenRecords /\ u.nextSeq = t.nextSeq
    BY <1>5, <2>1, <2>2 DEF IsSession, SameProgress, Out, Stuck, Fine, SessionFields
  <2> QED
    BY <1>5, <1>6, <1>8, <2>1, <2>3 DEF Resent, SameProgress, r, n, h
<1>9. CASE Fine(s) /\ Fine(t)
  <2>1. u = [t EXCEPT !.rtx[k] = m]
    BY <1>3, <1>9 DEF m, Fine
  <2>2. u = [t EXCEPT !.rtx = [s.rtx EXCEPT ![k] = m]]
    BY <1>5, <2>1 DEF IsSession, SessionFields
  <2>3. Replaced([s.rtx EXCEPT ![k] = m], s.rtx, k, m)
    BY <1>1, <1>6, ReplacedInPlace
  <2> QED
    BY <1>8, <1>9, <2>2, <2>3 DEF u
<1>10. CASE Fine(s) /\ ~Fine(t) /\ t.error = "WANT_WRITE"
  <2>1. u = [t EXCEPT !.rtx = Append(RemoveAt(s.rtx, k), m)]
    BY <1>3, <1>10 DEF m, Fine
  <2>2. Replaced(Append(RemoveAt(s.rtx, k), m), s.rtx, k, m)
    BY <1>1, <1>6, ReplacedAtEnd
  <2> QED
    BY <1>8, <1>10, <2>1, <2>2 DEF u
<1>11. CASE Fine(s) /\ ~Fine(t) /\ t.error # "WANT_WRITE"
  <2>1. u = t
    BY <1>3, <1>11 DEF Fine
  <2>2. Resent(s, t, k)
    BY <1>5 DEF Resent, r, n, h
  <2> QED
    BY <1>5, <1>11, <2>1, <2>2 DEF u
<1> QED
  BY <1>7, <1>9, <1>10, <1>11

\* The elements of the lists of a session.
LEMMA SessionSets ==
  ASSUME NEW s, IsSession(s)
  PROVE  /\ ToSet(s.rtx) \subseteq Entries /\ ToSet(s.outputBuffer) \subseteq Datagrams
         /\ Out(s) \subseteq Datagrams
         /\ \A m \in ToSet(s.rtx) : m.epoch \in Epochs /\ ToSet(m.rns) \subseteq Nat
<1>1. ToSet(s.rtx) \subseteq Entries /\ ToSet(s.outputBuffer) \subseteq Datagrams
  BY DEF IsSession, ToSet
<1>2. \A m \in Entries : m.epoch \in Epochs /\ ToSet(m.rns) \subseteq Nat
  BY DEF Entries, ToSet
<1> QED
  BY <1>1, <1>2 DEF IsSession, Out

\* The new number is of no other record, so what confirms a message still confirms
\* that one only.
LEMMA ResentKeepsNumbers ==
  ASSUME NEW s, IsSession(s), NEW k \in 1 .. Len(s.rtx), NEW t, Resent(s, t, k),
         WireType, Numbered(s)
  PROVE  Numbered(t)
<1> DEFINE r == s.rtx[k]
           n == s.nextSeq[r.epoch]
           h == Handshake(r.epoch, n, r.kind, r.no)
<1>1. r \in ToSet(s.rtx) /\ r \in Entries
  <2>1. DOMAIN s.rtx = 1 .. Len(s.rtx)
    BY LenProperties DEF IsSession
  <2> QED
    BY <2>1, SessionSets DEF ToSet
<1>2. r.epoch \in Epochs /\ n \in Nat
  BY <1>1 DEF IsSession, Entries
<1>3. /\ t.nextSeq = [s.nextSeq EXCEPT ![r.epoch] = n + 1] /\ Out(t) = Out(s) \cup {h}
      /\ t.rtx = s.rtx \/ \E m \in Entries : TrackAlso(m, r, n) /\ Replaced(t.rtx, s.rtx, k, m)
  BY DEF Resent
<1>4. h.epoch = r.epoch /\ h.seq = n /\ h.no = r.no
  BY DEF Handshake
<1> HIDE DEF h, n, r
<1>5. s.nextSeq \in [Epochs -> Nat]
  BY DEF IsSession
<1>6. \A e \in Epochs : t.nextSeq[e] = IF e = r.epoch THEN n + 1 ELSE s.nextSeq[e]
  BY <1>2, <1>3, <1>5
<1>7. n = s.nextSeq[r.epoch] /\ \A e \in Epochs : s.nextSeq[e] \in Nat
  BY <1>5 DEF n
<1>8. \A e \in Epochs, x \in Nat : x < s.nextSeq[e] => x < t.nextSeq[e]
  BY <1>2, <1>6, <1>7
<1>9. n < t.nextSeq[r.epoch]
  BY <1>2, <1>6
<1>10. \A r1 \in Sent(t) : r1 \in Sent(s) \/ r1 = h
  BY <1>3 DEF Sent
<1>11. /\ \A r1 \in Sent(s) : r1.epoch \in Epochs /\ r1.seq \in Nat /\ r1 \in Sent(s)
       /\ \A m \in ToSet(s.rtx) : m.epoch \in Epochs /\ ToSet(m.rns) \subseteq Nat
       /\ \A x \in Confirmed : x[1] \in Epochs /\ x[2] \in Nat
  BY SessionSets DEF Sent, WireType, Datagrams, Numbers
\* Every entry was there, with the same numbers or the new one besides.
<1>12. \A m1 \in ToSet(t.rtx) : \E m \in ToSet(s.rtx) :
          /\ m1.epoch = m.epoch /\ m1.no = m.no
          /\ m1.rns = m.rns \/ (m = r /\ ToSet(m1.rns) \subseteq ToSet(m.rns) \cup {n})
  BY <1>1, <1>3 DEF TrackAlso, Replaced
<1>13. \A m1 \in ToSet(t.rtx) : \E m \in ToSet(s.rtx) :
          /\ m1.epoch = m.epoch /\ m1.no = m.no
          /\ \A x \in ToSet(m1.rns) : x \in ToSet(m.rns) \/ (m = r /\ x = n)
  BY <1>12
<1>14. \A m1 \in ToSet(t.rtx) : \A x \in ToSet(m1.rns) : x < t.nextSeq[m1.epoch]
  BY <1>8, <1>9, <1>11, <1>13 DEF Numbered
<1>15. \A r1 \in Sent(t) : r1.seq < t.nextSeq[r1.epoch]
  BY <1>4, <1>8, <1>9, <1>10, <1>11 DEF Numbered
<1>16. ASSUME NEW m1 \in ToSet(t.rtx), NEW r1 \in Sent(t), TracksOne(m1, Number(r1))
       PROVE  r1.no = m1.no
  <2>1. PICK m \in ToSet(s.rtx) : /\ m1.epoch = m.epoch /\ m1.no = m.no
                    /\ \A x \in ToSet(m1.rns) : x \in ToSet(m.rns) \/ (m = r /\ x = n)
    BY <1>13
  <2>2. r1.epoch = m.epoch /\ (r1.seq \in ToSet(m.rns) \/ (m = r /\ r1.seq = n))
    BY <1>16, <2>1 DEF TracksOne, Number
  <2>3. CASE r1 = h
    <3>1. r1.seq = n /\ r1.epoch = r.epoch /\ r1.no = r.no
      BY <1>4, <2>3
    <3>2. m.epoch = r.epoch /\ n \notin ToSet(m.rns)
      <4>1. m.epoch = r.epoch
        BY <2>2, <3>1
      <4>2. \A x \in ToSet(m.rns) : x < n
        BY <1>7, <4>1 DEF Numbered
      <4>3. ~(n < n)
        BY <1>2
      <4> QED
        BY <4>1, <4>2, <4>3
    <3>3. m = r
      BY <2>2, <3>1, <3>2
    <3> QED
      BY <2>1, <3>1, <3>3
  <2>4. CASE r1 \in Sent(s)
    <3>1. r1.seq < s.nextSeq[r1.epoch] /\ r1.seq \in Nat
      BY <1>11, <2>4 DEF Numbered
    <3>2. r1.seq \in ToSet(m.rns)
      BY <1>2, <1>7, <2>2, <3>1
    <3> QED
      BY <2>1, <2>2, <2>4, <3>2 DEF Numbered, TracksOne, Number
  <2> QED
    BY <1>10, <2>3, <2>4
<1>17. \A x \in Confirmed : x[2] < t.nextSeq[x[1]]
  BY <1>8, <1>11 DEF Numbered
<1>18. ASSUME NEW x \in Confirmed, NEW m1 \in ToSet(t.rtx), TracksOne(m1, x)
       PROVE  m1.no < server.got
  <2>1. PICK m \in ToSet(s.rtx) : /\ m1.epoch = m.epoch /\ m1.no = m.no
                    /\ \A y \in ToSet(m1.rns) : y \in ToSet(m.rns) \/ (m = r /\ y = n)
    BY <1>13
  <2>2. x[1] = m.epoch /\ (x[2] \in ToSet(m.rns) \/ (m = r /\ x[2] = n))
    BY <1>18, <2>1 DEF TracksOne
  <2>3. x[2] < s.nextSeq[x[1]] /\ x[2] \in Nat
    BY <1>11 DEF Numbered
  <2>4. x[2] \in ToSet(m.rns)
    BY <1>2, <1>7, <2>2, <2>3
  <2> QED
    BY <2>1, <2>2, <2>4 DEF Numbered, TracksOne
<1> QED
  BY <1>14, <1>15, <1>16, <1>17, <1>18 DEF Numbered

\* What is said again is what was said.
LEMMA ResentSays ==
  ASSUME NEW s, IsSession(s), NEW k \in 1 .. Len(s.rtx), NEW t, Resent(s, t, k)
  PROVE  /\ Said(t) \subseteq Said(s) /\ (HasFin(s) => HasFin(t))
         /\ \A m1 \in ToSet(t.rtx) : \E m \in ToSet(s.rtx) : m1.epoch = m.epoch
<1> DEFINE r == s.rtx[k]
           n == s.nextSeq[r.epoch]
           h == Handshake(r.epoch, n, r.kind, r.no)
<1>1. r \in ToSet(s.rtx)
  <2>1. DOMAIN s.rtx = 1 .. Len(s.rtx)
    BY LenProperties DEF IsSession
  <2> QED
    BY <2>1 DEF ToSet
<1>2. /\ Out(t) = Out(s) \cup {h}
      /\ t.rtx = s.rtx \/ \E m \in Entries : TrackAlso(m, r, n) /\ Replaced(t.rtx, s.rtx, k, m)
  BY DEF Resent
<1>3. h.no = r.no /\ h.type = r.kind
  BY DEF Handshake
<1> HIDE DEF h, n, r
<1>4. \A m1 \in ToSet(t.rtx) : \E m \in ToSet(s.rtx) : m1.no = m.no /\ m1.kind = m.kind
  BY <1>1, <1>2 DEF TrackAlso, Replaced
<1>5. \A m \in ToSet(s.rtx) : \E m1 \in ToSet(t.rtx) : m1.kind = m.kind
  <2>1. CASE t.rtx = s.rtx
    BY <2>1
  <2>2. ASSUME NEW m \in Entries, TrackAlso(m, r, n), Replaced(t.rtx, s.rtx, k, m)
        PROVE  \A m2 \in ToSet(s.rtx) : \E m1 \in ToSet(t.rtx) : m1.kind = m2.kind
    <3>1. m.kind = r.kind /\ m \in ToSet(t.rtx) /\ ToSet(s.rtx) \ {r} \subseteq ToSet(t.rtx)
      BY <2>2 DEF TrackAlso, Replaced, r
    <3> QED
      BY <3>1
  <2> QED
    BY <1>2, <2>1, <2>2
<1>6. \A r1 \in Sent(t) : r1 \in Sent(s) \/ r1 = h
  BY <1>2 DEF Sent
<1>7. Said(t) \subseteq Said(s)
  BY <1>1, <1>3, <1>4, <1>6 DEF Said
<1>8. \A m1 \in ToSet(t.rtx) : \E m \in ToSet(s.rtx) : m1.epoch = m.epoch
  BY <1>1, <1>2 DEF TrackAlso, Replaced
<1> QED
  BY <1>5, <1>7, <1>8 DEF HasFin

-----------------------------------------------------------------------------
(* Nothing but the numbers of records changes                               *)

\* What is sent, or sent again, changes nothing but the numbers of its records.
Again(s, t) ==
  /\ IsSession(t) /\ SameProgress(s, t)
  /\ t.dtls_handshake_number = s.dtls_handshake_number
  /\ Len(t.rtx) = Len(s.rtx)
  /\ AckNums(t) \subseteq AckNums(s)
  /\ WireType /\ Numbered(s) => Numbered(t)
  /\ Said(t) \subseteq Said(s)
  /\ HasFin(s) => HasFin(t)
  /\ \A m1 \in ToSet(t.rtx) : \E m \in ToSet(s.rtx) : m1.epoch = m.epoch

\* It is transitive.
LEMMA AgainTwice ==
  ASSUME NEW s, NEW t, NEW u, Again(s, t), Again(t, u)
  PROVE  Again(s, u)
BY DEF Again, SameProgress

\* It holds of a session that differs only in flags.
LEMMA AgainSame ==
  ASSUME NEW s, IsSession(s), NEW t, IsSession(t), SameProgress(s, t),
         t.dtls_handshake_number = s.dtls_handshake_number, t.rtx = s.rtx,
         t.seenRecords = s.seenRecords, t.nextSeq = s.nextSeq, Out(t) = Out(s)
  PROVE  Again(s, t)
<1>1. Sent(t) = Sent(s)
  BY DEF Sent
<1>2. Said(t) = Said(s) /\ AckNums(t) = AckNums(s) /\ (HasFin(s) => HasFin(t))
  BY <1>1 DEF Said, AckNums, HasFin
<1>3. Numbered(s) => Numbered(t)
  BY <1>1 DEF Numbered
<1> QED
  BY <1>2, <1>3 DEF Again

\* Writing what is buffered.
LEMMA SendBufferedAgain ==
  ASSUME NEW s, IsSession(s)
  PROVE  Again(s, SendBuffered(s)) /\ Stuck(s, SendBuffered(s))
BY SendBufferedFrame, AgainSame

\* The fields that no property of the session is about.
Flags == {"sendAcks", "retransmit", "FastTimeout", "SendingAckOrRtx", "level", "error", "room", "fault",
          "seenUnifiedHdr"}

\* It holds of a session that differs in these fields.
LEMMA FlagsAgain ==
  ASSUME NEW s, IsSession(s), NEW t, DOMAIN t = SessionFields,
         \A f \in SessionFields \ Flags : t[f] = s[f]
  PROVE  Again(s, t)
<1>1. /\ IsSession(t) /\ SameProgress(s, t)
      /\ t.dtls_handshake_number = s.dtls_handshake_number /\ t.rtx = s.rtx
      /\ t.seenRecords = s.seenRecords /\ t.nextSeq = s.nextSeq /\ Out(t) = Out(s)
  BY DEF IsSession, SameProgress, Out, SessionFields, Flags
<1> QED
  BY <1>1, AgainSame

\* Sending an acknowledgement.
LEMMA SendAckAgain ==
  ASSUME NEW s, IsSession(s)
  PROVE  Again(s, SendDtls13Ack(s)) /\ Stuck(s, SendDtls13Ack(s))
<1> DEFINE t == SendDtls13Ack(s)
<1>1. PICK r \in Datagrams :
         /\ r.type = "ack" /\ r.acks = s.seenRecords
         /\ r.seq = s.nextSeq[r.epoch]
         /\ IsSession(t) /\ SameProgress(s, t)
         /\ t.dtls_handshake_number = s.dtls_handshake_number
         /\ t.rtx = s.rtx /\ t.seenRecords = {}
         /\ t.nextSeq = [s.nextSeq EXCEPT ![r.epoch] = @ + 1]
         /\ Out(t) = Out(s) \cup {r} /\ Stuck(s, t)
  BY SendAckFrame
<1> HIDE DEF t
<1>2. Sent(t) = Sent(s)
  BY <1>1 DEF Sent
<1>3. Said(t) = Said(s) /\ AckNums(t) \subseteq AckNums(s) /\ (HasFin(s) => HasFin(t))
  BY <1>1, <1>2 DEF Said, AckNums, HasFin
<1>4. ASSUME WireType, Numbered(s) PROVE Numbered(t)
  <2>1. s.nextSeq \in [Epochs -> Nat] /\ r.epoch \in Epochs
    BY DEF IsSession, Datagrams
  <2>2. \A e \in Epochs, x \in Nat : x < s.nextSeq[e] => x < t.nextSeq[e]
    BY <1>1, <2>1
  <2>3. /\ \A r1 \in Sent(s) : r1.epoch \in Epochs /\ r1.seq \in Nat
        /\ \A m \in ToSet(s.rtx) : m.epoch \in Epochs /\ ToSet(m.rns) \subseteq Nat
        /\ \A x \in Confirmed : x[1] \in Epochs /\ x[2] \in Nat
    BY <1>4, SessionSets DEF Sent, WireType, Datagrams, Numbers
  <2>4. \A m \in ToSet(s.rtx) : \A n \in ToSet(m.rns) : n < t.nextSeq[m.epoch]
    BY <1>4, <2>2, <2>3 DEF Numbered
  <2>5. \A r1 \in Sent(s) : r1.seq < t.nextSeq[r1.epoch]
    BY <1>4, <2>2, <2>3 DEF Numbered
  <2>6. \A x \in Confirmed : x[2] < t.nextSeq[x[1]]
    BY <1>4, <2>2, <2>3 DEF Numbered
  <2> QED
    BY <1>1, <1>2, <1>4, <2>4, <2>5, <2>6 DEF Numbered
<1> QED
  BY <1>1, <1>3, <1>4 DEF Again, t

\* Sending one message again.
LEMMA ResendRecordAgain ==
  ASSUME NEW s, IsSession(s), NEW k \in 1 .. Len(s.rtx)
  PROVE  /\ Again(s, ResendRecord(s, k)) /\ Stuck(s, ResendRecord(s, k))
         /\ ~Fine(s) => ResendRecord(s, k) = s
<1> DEFINE t == ResendRecord(s, k)
<1>1. Stuck(s, t) /\ (t = s \/ Resent(s, t, k)) /\ (~Fine(s) => t = s)
  BY ResendRecordFrame
<1> HIDE DEF t
<1>2. CASE t = s
  BY <1>1, <1>2, AgainSame DEF SameProgress, t
<1>3. CASE Resent(s, t, k)
  <2>1. AckNums(t) \subseteq AckNums(s)
    BY <1>3 DEF Resent, AckNums, Handshake
  <2>2. Len(t.rtx) = Len(s.rtx)
    BY <1>3 DEF Resent, Replaced
  <2>3. WireType /\ Numbered(s) => Numbered(t)
    BY <1>3, ResentKeepsNumbers
  <2>4. /\ Said(t) \subseteq Said(s) /\ (HasFin(s) => HasFin(t))
        /\ \A m1 \in ToSet(t.rtx) : \E m \in ToSet(s.rtx) : m1.epoch = m.epoch
    BY <1>3, ResentSays
  <2>5. /\ IsSession(t) /\ SameProgress(s, t)
        /\ t.dtls_handshake_number = s.dtls_handshake_number
    BY <1>3 DEF Resent
  <2> QED
    BY <1>1, <2>1, <2>2, <2>3, <2>4, <2>5 DEF Again, t
<1> QED
  BY <1>1, <1>2, <1>3 DEF t

\* Sending all of them again.
LEMMA RtxSendBufferedAgain ==
  ASSUME NEW s, IsSession(s)
  PROVE  Again(s, Dtls13RtxSendBuffered(s)) /\ Stuck(s, Dtls13RtxSendBuffered(s))
<1> DEFINE n == Len(s.rtx)
<1>1. n \in Nat /\ n \in 0 .. n
  BY LenProperties DEF IsSession
<1>2. PICK f : /\ f[0] = s
               /\ \A k \in 1 .. n : f[k] = ResendRecord(f[k - 1], k)
               /\ Dtls13RtxSendBuffered(s) = f[n]
  BY <1>1, SendBufferedSteps
<1> DEFINE T == {k \in 0 .. n : Again(s, f[k]) /\ Stuck(s, f[k])}
<1>3. 0 \in T
  <2>1. Again(s, s) /\ Stuck(s, s)
    BY AgainSame DEF SameProgress, Stuck
  <2> QED
    BY <1>1, <1>2, <2>1
<1>4. ASSUME NEW k \in 0 .. n - 1, k \in T PROVE k + 1 \in T
  <2>1. k + 1 \in 1 .. n /\ (k + 1) - 1 = k /\ k + 1 \in 0 .. n
    BY <1>1
  <2>2. f[k + 1] = ResendRecord(f[k], k + 1)
    BY <1>2, <2>1
  <2>3. Again(s, f[k]) /\ Stuck(s, f[k])
    BY <1>4
  <2>4. IsSession(f[k]) /\ Len(f[k].rtx) = n
    BY <2>3 DEF Again
  <2>5. /\ Again(f[k], f[k + 1]) /\ Stuck(f[k], f[k + 1]) /\ (~Fine(f[k]) => f[k + 1] = f[k])
    BY <2>1, <2>2, <2>4, ResendRecordAgain
  <2>6. Again(s, f[k + 1])
    BY <2>3, <2>5, AgainTwice
  <2>7. Stuck(s, f[k + 1])
    BY <2>3, <2>5 DEF Stuck
  <2> QED
    BY <2>1, <2>6, <2>7
<1> HIDE DEF T, n
<1>5. \A k \in 0 .. n : k \in T
  BY <1>1, <1>3, <1>4, Induction
<1>6. Again(s, f[n]) /\ Stuck(s, f[n])
  BY <1>1, <1>5 DEF T
<1> QED
  BY <1>2, <1>6

-----------------------------------------------------------------------------
(* What keeps the invariant of a session                                    *)

\* Nothing of the invariant depends on more than the numbers of records, which are
\* handled above.
LEMMA AgainKeeps ==
  ASSUME NEW s, SessionInv(s), Alright(s), WireType, NEW t, Again(s, t)
  PROVE  SessionInv(t) /\ Honest(t) /\ Covered(t)
<1>1. /\ IsSession(t) /\ SameProgress(s, t)
      /\ t.dtls_handshake_number = s.dtls_handshake_number
      /\ AckNums(t) \subseteq AckNums(s) /\ Said(t) \subseteq Said(s)
  BY DEF Again
<1>2. Progressed(t)
  BY <1>1 DEF Progressed, ProgressedAt, SessionInv, SameProgress, Kept
<1>3. Claim(t)
  BY <1>1 DEF Claim, SessionInv, SameProgress, Kept
<1>4. Numbered(t)
  BY DEF Again, SessionInv
<1>5. Honest(t)
  BY <1>1 DEF Honest, HonestAt, SessionInv, SameProgress, Again
<1>6. Covered(t)
  <2>1. t.rtx = <<>> <=> s.rtx = <<>>
    <3>1. Len(t.rtx) = Len(s.rtx) /\ t.rtx \in Seq(Entries) /\ s.rtx \in Seq(Entries)
      BY <1>1 DEF Again, IsSession, SessionInv
    <3> QED
      BY <3>1, EmptySeq
  <2> QED
    BY <1>1, <2>1 DEF Covered, CoveredAt, SessionInv, SameProgress
<1> QED
  BY <1>1, <1>2, <1>3, <1>4, <1>5, <1>6 DEF SessionInv

\* The timer has expired: an acknowledgement, and the whole list again.
LEMMA RtxTimeoutAgain ==
  ASSUME NEW s, IsSession(s)
  PROVE  Again(s, Dtls13RtxTimeout(s))
<1> DEFINE mayAck == s.seenRecords # {}
                /\ (s.serverState >= SERVER_HELLO_COMPLETE \/ s.seenUnifiedHdr)
           b == [s EXCEPT !.sendAcks = FALSE, !.FastTimeout = FALSE]
           a == IF mayAck THEN SendDtls13Ack(b) ELSE s
           t == Dtls13RtxTimeout(s)
<1>1. t = IF ~Fine(a) THEN a
     ELSE IF a.FastTimeout THEN [a EXCEPT !.FastTimeout = FALSE]
     ELSE IF a.level = MaxLevel THEN [a EXCEPT !.error = "FATAL"]
     ELSE Dtls13RtxSendBuffered([a EXCEPT !.level = @ + 1])
  BY DEF Dtls13RtxTimeout
<1> HIDE DEF t
<1>2. Again(s, b)
  <2>1. DOMAIN b = SessionFields /\ \A f \in SessionFields \ Flags : b[f] = s[f]
    BY DEF IsSession, Flags
  <2> QED
    BY <2>1, FlagsAgain
<1> HIDE DEF b, mayAck
<1>3. Again(s, a)
  <2>1. Again(s, s)
    BY AgainSame DEF SameProgress
  <2>2. Again(s, SendDtls13Ack(b))
    BY <1>2, SendAckAgain, AgainTwice DEF Again
  <2> QED
    BY <2>1, <2>2
<1> HIDE DEF a
<1>4. IsSession(a) /\ DOMAIN a = SessionFields
  BY <1>3 DEF Again, IsSession
<1>5. CASE t = a
  BY <1>3, <1>5 DEF t
<1>6. CASE t = [a EXCEPT !.FastTimeout = FALSE]
  <2>1. DOMAIN t = SessionFields /\ \A f \in SessionFields \ Flags : t[f] = a[f]
    BY <1>4, <1>6 DEF Flags
  <2> QED
    BY <1>3, <1>4, <2>1, FlagsAgain, AgainTwice DEF t
<1>7. CASE t = [a EXCEPT !.error = "FATAL"]
  <2>1. DOMAIN t = SessionFields /\ \A f \in SessionFields \ Flags : t[f] = a[f]
    BY <1>4, <1>7 DEF Flags
  <2> QED
    BY <1>3, <1>4, <2>1, FlagsAgain, AgainTwice DEF t
<1>8. CASE t = Dtls13RtxSendBuffered([a EXCEPT !.level = @ + 1])
  <2> DEFINE c == [a EXCEPT !.level = @ + 1]
  <2>1. DOMAIN c = SessionFields /\ \A f \in SessionFields \ Flags : c[f] = a[f]
    BY <1>4 DEF Flags
  <2>2. t = Dtls13RtxSendBuffered(c)
    BY <1>8
  <2> HIDE DEF c
  <2>3. Again(a, c)
    BY <1>4, <2>1, FlagsAgain
  <2>4. Again(c, t)
    BY <2>2, <2>3, RtxSendBufferedAgain DEF Again
  <2> QED
    BY <1>3, <2>3, <2>4, AgainTwice DEF t
<1> QED
  BY <1>1, <1>5, <1>6, <1>7, <1>8

\* Whatever has been scheduled, an acknowledgement, the list or both, is sent.
LEMMA ScheduledWorkAgain ==
  ASSUME NEW s, IsSession(s)
  PROVE  Again(s, Dtls13DoScheduledWork(s)) /\ Stuck(s, Dtls13DoScheduledWork(s))
<1> DEFINE begun == [s EXCEPT !.SendingAckOrRtx = TRUE, !.sendAcks = FALSE]
           a == IF s.sendAcks THEN SendDtls13Ack(begun) ELSE begun
           c == [a EXCEPT !.retransmit = FALSE]
           b == IF Fine(a) /\ a.retransmit THEN Dtls13RtxSendBuffered(c) ELSE a
           t == Dtls13DoScheduledWork(s)
<1>1. t = [b EXCEPT !.SendingAckOrRtx = ~Fine(b)]
  BY DEF Dtls13DoScheduledWork
<1> HIDE DEF t
<1>2. Again(s, begun) /\ begun.error = s.error
  <2>1. DOMAIN begun = SessionFields /\ \A f \in SessionFields \ Flags : begun[f] = s[f]
    BY DEF IsSession, Flags
  <2>2. begun.error = s.error
    BY DEF IsSession, SessionFields
  <2> QED
    BY <2>1, <2>2, FlagsAgain
<1> HIDE DEF begun
<1>3. Again(s, a) /\ Stuck(s, a)
  <2>1. Again(s, SendDtls13Ack(begun)) /\ Stuck(begun, SendDtls13Ack(begun))
    BY <1>2, SendAckAgain, AgainTwice DEF Again
  <2>2. Again(s, a) /\ Stuck(begun, a)
    BY <1>2, <2>1 DEF Stuck
  <2> QED
    BY <1>2, <2>2 DEF Stuck, Fine
<1> HIDE DEF a
<1>4. IsSession(a) /\ DOMAIN a = SessionFields
  BY <1>3 DEF Again, IsSession
<1>5. Again(a, c) /\ c.error = a.error
  <2>1. DOMAIN c = SessionFields /\ \A f \in SessionFields \ Flags : c[f] = a[f]
    BY <1>4 DEF Flags
  <2>2. c.error = a.error
    BY <1>4 DEF SessionFields
  <2> QED
    BY <1>4, <2>1, <2>2, FlagsAgain
<1> HIDE DEF c
<1>6. Again(a, Dtls13RtxSendBuffered(c)) /\ Stuck(c, Dtls13RtxSendBuffered(c))
  BY <1>5, RtxSendBufferedAgain, AgainTwice DEF Again
<1>7. Again(s, b) /\ Stuck(s, b)
  <2>1. CASE Fine(a) /\ a.retransmit
    <3>1. b = Dtls13RtxSendBuffered(c)
      BY <2>1
    <3> QED
      BY <1>3, <1>5, <1>6, <2>1, <3>1, AgainTwice DEF Stuck, Fine
  <2>2. CASE ~(Fine(a) /\ a.retransmit)
    BY <1>3, <2>2
  <2> QED
    BY <2>1, <2>2
<1> HIDE DEF b
<1>8. Again(b, t) /\ t.error = b.error /\ t.outputBuffer = b.outputBuffer
  <2>1. IsSession(b) /\ DOMAIN b = SessionFields
    BY <1>7 DEF Again, IsSession
  <2>2. DOMAIN t = SessionFields /\ \A f \in SessionFields \ Flags : t[f] = b[f]
    BY <1>1, <2>1 DEF Flags
  <2>3. t.error = b.error /\ t.outputBuffer = b.outputBuffer
    BY <1>1, <2>1 DEF SessionFields
  <2> QED
    BY <2>1, <2>2, <2>3, FlagsAgain
<1> QED
  BY <1>7, <1>8, AgainTwice DEF Stuck, Fine, t

-----------------------------------------------------------------------------
(* A new message                                                            *)

\* Messages are numbered.
LEMMA SaidType ==
  ASSUME NEW s, IsSession(s), WireType
  PROVE  \A a \in Said(s) : a[1] \in Nat
BY SessionSets DEF Said, Sent, WireType, Entries, Datagrams

\* A message is sent and kept, unless it could not be sent for good.
LEMMA HandshakeSendFrame ==
  ASSUME NEW s, IsSession(s), NEW kind \in Kinds
  PROVE  \E e \in Epochs, n \in Nat, m \in Entries, h \in Datagrams :
         LET t == Dtls13HandshakeSend(s, kind) IN
         /\ e = dtls13Epoch(s) /\ n = s.nextSeq[e]
         /\ h = Handshake(e, n, kind, s.dtls_handshake_number)
         /\ m = [epoch |-> e, kind |-> kind, no |-> s.dtls_handshake_number, rns |-> <<n>>]
         /\ IsSession(t) /\ SameProgress(s, t) /\ Stuck(s, t)
         /\ t.seenRecords = {} /\ Out(t) = Out(s) \cup {h}
         /\ t.nextSeq = [s.nextSeq EXCEPT ![e] = n + 1]
         /\ Alright(t) => /\ t.dtls_handshake_number = s.dtls_handshake_number + 1
                          /\ t.rtx = Append(s.rtx, m)
         /\ ~Alright(t) => /\ t.dtls_handshake_number = s.dtls_handshake_number
                           /\ t.rtx = s.rtx
<1> DEFINE e == dtls13Epoch(s)
           n == s.nextSeq[e]
           no == s.dtls_handshake_number
           h == Handshake(e, n, kind, no)
           m == [epoch |-> e, kind |-> kind, no |-> no, rns |-> <<n>>]
           b == [s EXCEPT !.seenRecords = {}]
           t == SendRecord(b, h)
           u == Dtls13HandshakeSend(s, kind)
<1>1. u = IF t.error \in {"none", "WANT_WRITE"}
          THEN [t EXCEPT !.rtx = Append(@, m), !.dtls_handshake_number = @ + 1]
          ELSE t
  BY DEF Dtls13HandshakeSend
<1>2. e \in Epochs /\ n \in Nat /\ no \in Nat
  BY SendingEpoch DEF IsSession
<1>3. h \in Datagrams /\ h.epoch = e /\ m \in Entries
  BY <1>2 DEF Handshake, Datagrams, Entries
<1>4. /\ IsSession(b) /\ SameProgress(s, b) /\ b.dtls_handshake_number = no /\ b.rtx = s.rtx
      /\ b.seenRecords = {} /\ b.nextSeq = s.nextSeq /\ Out(b) = Out(s)
      /\ b.error = s.error
  <2>1. DOMAIN b = SessionFields /\ (\A f \in SessionFields \ {"seenRecords"} : b[f] = s[f])
        /\ b.seenRecords = {}
    BY DEF IsSession, SessionFields
  <2> HIDE DEF b
  <2> QED
    BY <2>1 DEF IsSession, SameProgress, Out, SessionFields
<1>d. /\ e = dtls13Epoch(s) /\ n = s.nextSeq[e]
      /\ h = Handshake(e, n, kind, no)
      /\ m = [epoch |-> e, kind |-> kind, no |-> no, rns |-> <<n>>]
  OBVIOUS
<1> HIDE DEF b, u, h, m, n, e, no, t
<1>5. /\ IsSession(t) /\ SameProgress(s, t) /\ t.dtls_handshake_number = no
      /\ t.rtx = s.rtx /\ t.seenRecords = {}
      /\ t.nextSeq = [s.nextSeq EXCEPT ![e] = n + 1]
      /\ Out(t) = Out(s) \cup {h} /\ Stuck(s, t)
  <2>1. /\ IsSession(t) /\ SameProgress(b, t) /\ t.dtls_handshake_number = b.dtls_handshake_number
        /\ t.rtx = b.rtx /\ t.seenRecords = b.seenRecords
        /\ t.nextSeq = [b.nextSeq EXCEPT ![h.epoch] = @ + 1]
        /\ Out(t) = Out(b) \cup {h} /\ Stuck(b, t)
    BY <1>3, <1>4, SendRecordFrame DEF t
  <2> QED
    BY <1>3, <1>4, <2>1 DEF SameProgress, Stuck, Fine, n
<1>6. CASE Alright(t)
  <2>1. u = [t EXCEPT !.rtx = Append(@, m), !.dtls_handshake_number = @ + 1]
    BY <1>1, <1>6 DEF Alright
  <2>2. /\ DOMAIN u = SessionFields
        /\ \A f \in SessionFields \ {"rtx", "dtls_handshake_number"} : u[f] = t[f]
        /\ u.rtx = Append(s.rtx, m) /\ u.dtls_handshake_number = no + 1
    BY <1>5, <2>1 DEF IsSession, SessionFields
  <2>3. Append(s.rtx, m) \in Seq(Entries) /\ no + 1 \in Nat
    BY <1>2, <1>3, AppendFacts DEF IsSession
  <2>4. /\ IsSession(u) /\ SameProgress(t, u) /\ Out(u) = Out(t) /\ u.seenRecords = t.seenRecords
        /\ u.nextSeq = t.nextSeq /\ u.error = t.error /\ u.outputBuffer = t.outputBuffer
    BY <1>5, <2>2, <2>3 DEF IsSession, SameProgress, Out, SessionFields
  <2>5. /\ IsSession(u) /\ SameProgress(s, u) /\ Stuck(s, u) /\ Alright(u)
        /\ u.seenRecords = {} /\ Out(u) = Out(s) \cup {h}
        /\ u.nextSeq = [s.nextSeq EXCEPT ![e] = n + 1]
    BY <1>5, <1>6, <2>4 DEF SameProgress, Stuck, Fine, Alright
  <2>6. /\ Alright(u) => u.dtls_handshake_number = s.dtls_handshake_number + 1
                         /\ u.rtx = Append(s.rtx, m)
        /\ ~Alright(u) => u.dtls_handshake_number = s.dtls_handshake_number
                          /\ u.rtx = s.rtx
    BY <2>2, <2>5 DEF no
  <2>7. h = Handshake(e, n, kind, s.dtls_handshake_number)
        /\ m = [epoch |-> e, kind |-> kind, no |-> s.dtls_handshake_number, rns |-> <<n>>]
    BY <1>d DEF no
  <2>8. /\ e = dtls13Epoch(s) /\ n = s.nextSeq[e]
    BY <1>d
  <2> QED
    BY <1>2, <1>3, <2>5, <2>6, <2>7, <2>8, SMTT(30) DEF u
<1>7. CASE ~Alright(t)
  <2>1. u = t
    BY <1>1, <1>7 DEF Alright
  <2> QED
    BY <1>2, <1>3, <1>5, <1>7, <2>1 DEF e, n, h, m, u, no
<1> QED
  BY <1>6, <1>7

\* The numbers stay apart, and there is one message more, of the next number.
LEMMA HandshakeSendFacts ==
  ASSUME NEW s, IsSession(s), NEW kind \in Kinds, NEW t, t = Dtls13HandshakeSend(s, kind),
         WireType, Numbered(s)
  PROVE  /\ IsSession(t) /\ SameProgress(s, t) /\ Stuck(s, t)
         /\ AckNums(t) \subseteq AckNums(s) /\ Numbered(t)
         /\ Said(t) \subseteq Said(s) \cup {<<s.dtls_handshake_number, kind>>}
         /\ Alright(t) => /\ t.dtls_handshake_number = s.dtls_handshake_number + 1
                          /\ t.rtx # <<>>
                          /\ HasFin(s) \/ kind = "FIN" => HasFin(t)
                          /\ \A m \in ToSet(t.rtx) : m \in ToSet(s.rtx) \/ m.epoch = dtls13Epoch(s)
         /\ ~Alright(t) => /\ t.dtls_handshake_number = s.dtls_handshake_number
                           /\ t.rtx = s.rtx
<1> DEFINE no == s.dtls_handshake_number
<1>1. PICK e \in Epochs, n \in Nat, m \in Entries, h \in Datagrams :
         /\ e = dtls13Epoch(s) /\ n = s.nextSeq[e]
         /\ h = Handshake(e, n, kind, no)
         /\ m = [epoch |-> e, kind |-> kind, no |-> no, rns |-> <<n>>]
         /\ IsSession(t) /\ SameProgress(s, t) /\ Stuck(s, t)
         /\ t.seenRecords = {} /\ Out(t) = Out(s) \cup {h}
         /\ t.nextSeq = [s.nextSeq EXCEPT ![e] = n + 1]
         /\ Alright(t) => /\ t.dtls_handshake_number = no + 1
                          /\ t.rtx = Append(s.rtx, m)
         /\ ~Alright(t) => /\ t.dtls_handshake_number = no
                           /\ t.rtx = s.rtx
  BY HandshakeSendFrame
<1> HIDE DEF no
<1>2. /\ h.epoch = e /\ h.seq = n /\ h.no = no /\ h.type = kind /\ h.acks = {}
      /\ m.epoch = e /\ m.kind = kind /\ m.no = no /\ ToSet(m.rns) = {n}
  BY <1>1 DEF Handshake, ToSet
<1>3. s.rtx \in Seq(Entries) /\ s.nextSeq \in [Epochs -> Nat]
  BY DEF IsSession
<1>4. Alright(t) => ToSet(t.rtx) = ToSet(s.rtx) \cup {m} /\ t.rtx # <<>>
  <2>1. ToSet(Append(s.rtx, m)) = ToSet(s.rtx) \cup {m} /\ Append(s.rtx, m) # <<>>
    BY <1>3, AppendFacts, AppendProperties
  <2> QED
    BY <1>1, <2>1
<1>5. ~Alright(t) => ToSet(t.rtx) = ToSet(s.rtx)
  BY <1>1
<1>6. \A m1 \in ToSet(t.rtx) : m1 \in ToSet(s.rtx) \/ m1 = m
  BY <1>4, <1>5
<1>7. \A r1 \in Sent(t) : r1 \in Sent(s) \/ r1 = h
  BY <1>1 DEF Sent
<1>8. Said(t) \subseteq Said(s) \cup {<<no, kind>>}
  BY <1>2, <1>6, <1>7 DEF Said
<1>9. AckNums(t) \subseteq AckNums(s)
  BY <1>1, <1>2 DEF AckNums
<1>10. Numbered(t)
  <2>1. \A x \in Epochs : t.nextSeq[x] = IF x = e THEN n + 1 ELSE s.nextSeq[x]
    BY <1>1, <1>3
  <2>2. \A x \in Epochs, y \in Nat : y < s.nextSeq[x] => y < t.nextSeq[x]
    BY <1>1, <1>3, <2>1
  <2>3. n < t.nextSeq[e]
    BY <2>1
  <2>4. /\ \A r1 \in Sent(s) : r1.epoch \in Epochs /\ r1.seq \in Nat
        /\ \A m1 \in ToSet(s.rtx) : m1.epoch \in Epochs /\ ToSet(m1.rns) \subseteq Nat
        /\ \A x \in Confirmed : x[1] \in Epochs /\ x[2] \in Nat
    BY SessionSets DEF Sent, WireType, Datagrams, Numbers
  <2>5. \A m1 \in ToSet(t.rtx) : \A x \in ToSet(m1.rns) : x < t.nextSeq[m1.epoch]
    BY <1>2, <1>6, <2>2, <2>3, <2>4 DEF Numbered
  <2>6. \A r1 \in Sent(t) : r1.seq < t.nextSeq[r1.epoch]
    BY <1>2, <1>7, <2>2, <2>3, <2>4 DEF Numbered
  <2>7. ~(n < n)
    OBVIOUS
  <2>8. ASSUME NEW m1 \in ToSet(t.rtx), NEW r1 \in Sent(t), TracksOne(m1, Number(r1))
        PROVE  r1.no = m1.no
    <3>1. r1.epoch = m1.epoch /\ r1.seq \in ToSet(m1.rns)
      BY <2>8 DEF TracksOne, Number
    <3>2. CASE m1 = m /\ r1 = h
      BY <1>2, <3>2
    <3>3. CASE m1 = m /\ r1 \in Sent(s)
      <4>1. r1.epoch = e /\ r1.seq = n
        BY <1>2, <3>1, <3>3
      <4>2. n < n
        BY <1>1, <3>3, <4>1 DEF Numbered
      <4> QED
        BY <2>7, <4>2
    <3>4. CASE m1 \in ToSet(s.rtx) /\ r1 = h
      <4>1. m1.epoch = e /\ n \in ToSet(m1.rns)
        BY <1>2, <3>1, <3>4
      <4>2. n < n
        BY <1>1, <3>4, <4>1 DEF Numbered
      <4> QED
        BY <2>7, <4>2
    <3>5. CASE m1 \in ToSet(s.rtx) /\ r1 \in Sent(s)
      BY <2>8, <3>5 DEF Numbered
    <3> QED
      BY <1>6, <1>7, <3>2, <3>3, <3>4, <3>5
  <2>9. \A x \in Confirmed : x[2] < t.nextSeq[x[1]]
    BY <2>2, <2>4 DEF Numbered
  <2>10. ASSUME NEW x \in Confirmed, NEW m1 \in ToSet(t.rtx), TracksOne(m1, x)
         PROVE  m1.no < server.got
    <3>1. CASE m1 = m
      <4>1. x[1] = e /\ x[2] = n
        BY <1>2, <2>10, <3>1 DEF TracksOne
      <4>2. n < n
        BY <1>1, <4>1 DEF Numbered
      <4> QED
        BY <2>7, <4>2
    <3>2. CASE m1 \in ToSet(s.rtx)
      BY <2>10, <3>2 DEF Numbered
    <3> QED
      BY <1>6, <3>1, <3>2
  <2> QED
    BY <2>5, <2>6, <2>8, <2>9, <2>10 DEF Numbered
<1>11. Alright(t) => (HasFin(s) \/ kind = "FIN" => HasFin(t))
  BY <1>2, <1>4 DEF HasFin
<1>12. Alright(t) => \A m1 \in ToSet(t.rtx) : m1 \in ToSet(s.rtx) \/ m1.epoch = dtls13Epoch(s)
  BY <1>1, <1>2, <1>6
<1> QED
  BY <1>1, <1>4, <1>8, <1>9, <1>10, <1>11, <1>12 DEF no

\* The messages are still told apart by their numbers after a new one.
NewMessage(s, t, kind) ==
  /\ \A a, b \in Said(t) : a[1] = b[1] => a[2] = b[2]
  /\ \A a \in Said(t) : a[1] < server.got => a[2] = Answers[a[1] + 1]
  /\ \A a \in Said(t) : a[1] <= s.dtls_handshake_number
  /\ \A a \in Said(t) : a \in Said(s) \/ a[2] = kind

\* The next number is of none of the messages sent, and the server does not have it.
LEMMA NewMessageIsNew ==
  ASSUME NEW s, IsSession(s), Honest(s), WireType, s.connectState \notin Late, NEW t, NEW kind,
         Said(t) \subseteq Said(s) \cup {<<s.dtls_handshake_number, kind>>}
  PROVE  NewMessage(s, t, kind)
<1> DEFINE no == s.dtls_handshake_number
           new == <<no, kind>>
<1>1. no \in Nat /\ server.got \in Nat /\ server.got <= no
  BY DEF Honest, HonestAt, IsSession, WireType
<1>2. \A a \in Said(s) : a[1] \in Nat /\ a[1] < no
  BY SaidType DEF Honest, HonestAt
<1>3. new[1] = no /\ new[2] = kind /\ \A a \in Said(t) : a \in Said(s) \/ a = new
  OBVIOUS
<1> HIDE DEF new, no
<1>4. \A a \in Said(s) : a[1] # no
  BY <1>1, <1>2
<1>5. ~(no < server.got)
  BY <1>1
<1>6. \A a, b \in Said(t) : a[1] = b[1] => a[2] = b[2]
  BY <1>3, <1>4 DEF Honest, HonestAt
<1>7. \A a \in Said(t) : a[1] < server.got => a[2] = Answers[a[1] + 1]
  BY <1>3, <1>5 DEF Honest, HonestAt
<1>8. \A a \in Said(t) : a[1] <= no
  BY <1>1, <1>2, <1>3
<1> QED
  BY <1>3, <1>6, <1>7, <1>8 DEF NewMessage, no

-----------------------------------------------------------------------------
(* Another stage                                                            *)

\* The session in another stage.
Moved(s, t, stage) ==
  /\ DOMAIN t = SessionFields
  /\ \A f \in SessionFields \ {"connectState", "SendingAckOrRtx"} : t[f] = s[f]
  /\ t.connectState = stage

\* The parts of the invariant, in the session and in the stage it moves to.
LEMMA MovedFrame ==
  ASSUME NEW s, IsSession(s), NEW stage \in Stage, NEW t, Moved(s, t, stage)
  PROVE  /\ IsSession(t) /\ t.connectState = stage /\ t.rtx = s.rtx
         /\ t.serverState = s.serverState /\ t.error = s.error
         /\ t.outputBuffer = s.outputBuffer /\ Out(t) = Out(s)
         /\ Progressed(t) <=> ProgressedAt(s, stage)
         /\ Claim(t) <=> Claim(s)
         /\ Numbered(t) <=> Numbered(s)
         /\ Honest(t) <=> HonestAt(s, stage)
         /\ Covered(t) <=> CoveredAt(s, stage)
<1>1. /\ t.serverState = s.serverState /\ t.dtls_handshake_number = s.dtls_handshake_number
      /\ t.expected = s.expected /\ t.rx_msgs = s.rx_msgs /\ t.hellos = s.hellos
      /\ t.handShakeDone = s.handShakeDone /\ t.rtx = s.rtx /\ t.seenRecords = s.seenRecords
      /\ t.nextSeq = s.nextSeq /\ t.outputBuffer = s.outputBuffer /\ t.sent = s.sent
      /\ t.error = s.error /\ t.connectState = stage
  BY DEF Moved, SessionFields
<1>2. IsSession(t)
  BY <1>1 DEF IsSession, Moved
<1>3. Out(t) = Out(s)
  BY <1>1 DEF Out
<1>4. Sent(t) = Sent(s) /\ AckNums(t) = AckNums(s)
  BY <1>1, <1>3 DEF Sent, AckNums
<1>5. Said(t) = Said(s) /\ (HasFin(t) <=> HasFin(s))
  BY <1>1, <1>4 DEF Said, HasFin
<1>6. Progressed(t) <=> ProgressedAt(s, stage)
  BY <1>1 DEF Progressed, ProgressedAt, Kept
<1>7. Claim(t) <=> Claim(s)
  BY <1>1, <1>4 DEF Claim, Kept
<1>8. Numbered(t) <=> Numbered(s)
  BY <1>1, <1>4 DEF Numbered
<1>9. Honest(t) <=> HonestAt(s, stage)
  BY <1>1, <1>5 DEF Honest, HonestAt
<1>10. Covered(t) <=> CoveredAt(s, stage)
  BY <1>1 DEF Covered, CoveredAt
<1> QED
  BY <1>1, <1>2, <1>3, <1>6, <1>7, <1>8, <1>9, <1>10

\* The invariant holds after a move if it holds in the stage moved to.
LEMMA MoveKeeps ==
  ASSUME NEW s, IsSession(s), NEW stage \in Stage, NEW t, Moved(s, t, stage),
         ProgressedAt(s, stage), Claim(s), Numbered(s),
         Alright(s) => HonestAt(s, stage) /\ CoveredAt(s, stage)
  PROVE  SessionInv(t)
BY MovedFrame DEF SessionInv, Alright

\* The order of the stages.
LEMMA FollowingStage ==
  /\ Following("CONNECT_BEGIN") = "CLIENT_HELLO_SENT"
  /\ Following("HELLO_AGAIN") = "HELLO_AGAIN_REPLY"
  /\ Following("FIRST_REPLY_SECOND") = "FIRST_REPLY_FOURTH"
  /\ Following("FIRST_REPLY_FOURTH") = "WAIT_FINISHED_ACK"
BY DEF Following

\* A stage that sends ends when its message is kept, or when there is none to send:
\* without a retry, HELLO_AGAIN sends nothing.
LEMMA AdvanceKeeps ==
  ASSUME NEW s, SessionInv(s), Alright(s), s.connectState \in Sending,
         s.rtx # <<>> \/ (s.connectState = "HELLO_AGAIN" /\ server.got >= Hellos),
         NEW t, Moved(s, t, Following(s.connectState))
  PROVE  SessionInv(t) /\ t.connectState \in Stage
<1> DEFINE stage == Following(s.connectState)
<1>1. s.connectState \in {"CONNECT_BEGIN", "HELLO_AGAIN", "FIRST_REPLY_SECOND", "FIRST_REPLY_FOURTH"}
  BY DEF Sending
<1>2. /\ s.connectState = "CONNECT_BEGIN" => stage = "CLIENT_HELLO_SENT"
      /\ s.connectState = "HELLO_AGAIN" => stage = "HELLO_AGAIN_REPLY"
      /\ s.connectState = "FIRST_REPLY_SECOND" => stage = "FIRST_REPLY_FOURTH"
      /\ s.connectState = "FIRST_REPLY_FOURTH" => stage = "WAIT_FINISHED_ACK"
  BY FollowingStage
<1> HIDE DEF stage
<1>3. stage \in Stage
  BY <1>1, <1>2 DEF Stage, Sending, Waiting
<1>4. IsSession(s) /\ Progressed(s) /\ Claim(s) /\ Numbered(s) /\ Honest(s)
  BY DEF SessionInv
<1>5. ProgressedAt(s, stage)
  BY <1>1, <1>2, <1>4 DEF Progressed, ProgressedAt, Early, Late
<1>6. HonestAt(s, stage)
  BY <1>1, <1>2, <1>4 DEF Honest, HonestAt, Early, Late
<1>7. CoveredAt(s, stage)
  BY <1>1, <1>2 DEF CoveredAt
<1>8. Moved(s, t, stage)
  BY DEF stage
<1> QED
  BY <1>3, <1>4, <1>5, <1>6, <1>7, <1>8, MoveKeeps DEF Moved

\* What a part of connect does: s is what it finds, and there is no error yet.
Ran(s, t) ==
  /\ SessionInv(t) /\ Stuck(s, t)
  /\ t.serverState = s.serverState
  /\ Alright(t) /\ ~Fine(t) /\ t.connectState \in Sending => t.rtx # <<>>

\* Nothing at all is one such part.
LEMMA RanSame == ASSUME NEW s, SessionInv(s), Fine(s) PROVE Ran(s, s)
BY DEF Ran, Stuck

\* Two parts, one after the other, and the second only if the first has not failed.
LEMMA RanTwice ==
  ASSUME NEW s, Fine(s), NEW t, NEW u, Ran(s, t), Fine(t) => Ran(t, u), ~Fine(t) => u = t
  PROVE  Ran(s, u)
BY DEF Ran, Stuck

\* A stage that waits ends when the state it waits for is reached.
LEMMA AwaitRan ==
  ASSUME NEW s, SessionInv(s), Fine(s), NEW stage, NEW state, NEW next,
         \/ stage = "CLIENT_HELLO_SENT" /\ state = 1 /\ next = "HELLO_AGAIN"
         \/ stage = "HELLO_AGAIN_REPLY" /\ state = 3 /\ next = "FIRST_REPLY_SECOND"
         \/ stage = "WAIT_FINISHED_ACK" /\ state = 4 /\ next = "FINISHED_DONE",
         NEW t, t = Await(s, stage, state, next)
  PROVE  /\ Ran(s, t) /\ Fine(t)
         /\ IF s.connectState = stage /\ s.serverState >= state
            THEN t.connectState = next ELSE t.connectState = s.connectState
<1>1. CASE ~(s.connectState = stage /\ s.serverState >= state)
  <2>1. t = s
    BY <1>1 DEF Await
  <2> QED
    BY <1>1, <2>1, RanSame
<1>2. CASE s.connectState = stage /\ s.serverState >= state
  <2>1. t = [s EXCEPT !.connectState = next]
    BY <1>2 DEF Await
  <2>2. IsSession(s) /\ Progressed(s) /\ Claim(s) /\ Numbered(s) /\ Honest(s) /\ Covered(s)
    BY DEF SessionInv, Alright, Fine
  <2>3. Moved(s, t, next)
    BY <2>1, <2>2 DEF Moved, IsSession, SessionFields
  <2>4. next \in Stage /\ s.serverState \in 0 .. 4
    BY <2>2 DEF Stage, Sending, IsSession
  <2>5. ProgressedAt(s, next)
    BY <1>2, <2>2, <2>4 DEF Progressed, ProgressedAt, Early, Late
  <2>6. HonestAt(s, next)
    BY <1>2, <2>2 DEF Honest, HonestAt, Early, Late
  <2>7. CoveredAt(s, next)
    BY <1>2, <2>2 DEF CoveredAt
  <2>8. SessionInv(t)
    BY <2>2, <2>3, <2>4, <2>5, <2>6, <2>7, MoveKeeps
  <2>9. t.error = s.error /\ t.serverState = s.serverState /\ t.connectState = next
    BY <2>2, <2>3, <2>4, MovedFrame
  <2> QED
    BY <1>2, <2>8, <2>9 DEF Ran, Stuck, Fine
<1> QED
  BY <1>1, <1>2

-----------------------------------------------------------------------------
(* The stages that send                                                     *)

\* The states that a message is sent from, in the stages that send one.
CanSend(s) == SessionInv(s) /\ Fine(s) /\ WireType /\ s.connectState \in Sending

\* Sending acknowledges nothing new.
LEMMA SendClaim ==
  ASSUME NEW s, SessionInv(s), NEW t, IsSession(t), t.expected = s.expected,
         t.rx_msgs = s.rx_msgs, AckNums(t) \subseteq AckNums(s)
  PROVE  Claim(t)
BY DEF SessionInv, Claim, Kept

\* A ClientHello, the first or the second.
LEMMA HelloKeeps ==
  ASSUME NEW s, CanSend(s), s.connectState \in {"CONNECT_BEGIN", "HELLO_AGAIN"},
         s.serverState < SERVER_HELLO_COMPLETE,
         NEW t, t = SendTls13ClientHello(s)
  PROVE  /\ Ran(s, t) /\ t.connectState = s.connectState
         /\ Alright(t) => t.rtx # <<>>
<1> DEFINE u == Dtls13HandshakeSend(s, "CH")
           no == s.dtls_handshake_number
<1>1. IsSession(s) /\ Progressed(s) /\ Numbered(s) /\ Honest(s) /\ Covered(s)
  BY DEF CanSend, SessionInv, Alright, Fine
<1>2. "CH" \in Kinds
  BY DEF Kinds
<1>3. /\ IsSession(u) /\ SameProgress(s, u) /\ Stuck(s, u)
      /\ AckNums(u) \subseteq AckNums(s) /\ Numbered(u)
      /\ Said(u) \subseteq Said(s) \cup {<<no, "CH">>}
      /\ Alright(u) => /\ u.dtls_handshake_number = no + 1 /\ u.rtx # <<>>
                       /\ \A m \in ToSet(u.rtx) : m \in ToSet(s.rtx) \/ m.epoch = dtls13Epoch(s)
      /\ ~Alright(u) => u.dtls_handshake_number = no
  BY <1>1, <1>2, HandshakeSendFacts DEF CanSend
<1>4. t = [u EXCEPT !.hellos = @ + 1]
  BY DEF SendTls13ClientHello
<1> HIDE DEF u, no
<1>5. DOMAIN t = SessionFields /\ (\A f \in SessionFields \ {"hellos"} : t[f] = u[f])
      /\ t.hellos = u.hellos + 1
  BY <1>3, <1>4 DEF IsSession, SessionFields
<1>6. /\ IsSession(t) /\ Out(t) = Out(u) /\ t.seenRecords = u.seenRecords
      /\ t.rtx = u.rtx /\ t.nextSeq = u.nextSeq
      /\ t.connectState = u.connectState /\ t.serverState = u.serverState
      /\ t.dtls_handshake_number = u.dtls_handshake_number
      /\ t.expected = u.expected /\ t.rx_msgs = u.rx_msgs /\ t.handShakeDone = u.handShakeDone
      /\ t.error = u.error /\ t.outputBuffer = u.outputBuffer
  BY <1>3, <1>5 DEF IsSession, Out, SessionFields
<1>7. /\ t.connectState = s.connectState /\ t.serverState = s.serverState
      /\ t.expected = s.expected /\ t.rx_msgs = s.rx_msgs /\ t.handShakeDone = s.handShakeDone
      /\ t.hellos = s.hellos + 1 /\ s.hellos \in Nat /\ no \in Nat /\ s.serverState \in 0 .. 4
  BY <1>1, <1>3, <1>5, <1>6 DEF SameProgress, IsSession, no
<1>8. AckNums(t) = AckNums(u) /\ Sent(t) = Sent(u)
  BY <1>6 DEF AckNums, Sent
<1>9. Said(t) = Said(u) /\ (HasFin(t) <=> HasFin(u)) /\ (Numbered(t) <=> Numbered(u))
  BY <1>6, <1>8 DEF Said, HasFin, Numbered
<1>10. Claim(t)
  BY <1>3, <1>6, <1>7, <1>8, SendClaim DEF CanSend
<1>11. t.dtls_handshake_number <= t.hellos
  <2>1. s.connectState \in Early
    BY DEF Early
  <2>2. no <= s.hellos
    BY <1>1, <2>1 DEF Progressed, ProgressedAt, no
  <2>3. u.dtls_handshake_number = no + 1 \/ u.dtls_handshake_number = no
    BY <1>3
  <2> QED
    BY <1>6, <1>7, <2>2, <2>3
<1>12. Progressed(t)
  BY <1>1, <1>7, <1>11 DEF Progressed, ProgressedAt, Kept
<1>13. ASSUME Alright(t) PROVE Honest(t) /\ Covered(t) /\ t.rtx # <<>>
  <2>1. Alright(u)
    BY <1>6, <1>13 DEF Alright
  <2>2. s.connectState \in Early /\ s.connectState \notin Late
    BY DEF Early, Late
  <2>3. NewMessage(s, t, "CH")
    BY <1>1, <1>3, <1>9, <2>2, NewMessageIsNew DEF CanSend, no
  <2>4. t.dtls_handshake_number = no + 1
    BY <1>3, <1>6, <2>1
  <2>5. dtls13Epoch(s) = 0 /\ ~s.handShakeDone /\ server.got <= Hellos /\ server.got <= no
    BY <1>1, <1>7, <2>2 DEF dtls13Epoch, Honest, HonestAt, SERVER_HELLO_COMPLETE, no
  <2>6. \A m \in ToSet(t.rtx) : m.epoch = 0
    BY <1>1, <1>3, <1>6, <2>1, <2>2, <2>5 DEF Honest, HonestAt
  <2>7. \A a \in Said(t) : a[2] = "CH"
    BY <1>1, <2>2, <2>3 DEF NewMessage, Honest, HonestAt
  <2>8. \A a \in Said(t) : a[1] < no + 1
    <3>1. \A a \in Said(t) : a[1] \in Nat
      BY <1>6, SaidType DEF CanSend
    <3>2. \A a \in Said(t) : a[1] <= no
      BY <2>3 DEF NewMessage, no
    <3> QED
      BY <1>7, <3>1, <3>2
  <2>9. server.got <= no + 1
    BY <1>7, <2>5 DEF CanSend, WireType
  <2>10. Honest(t)
    BY <1>7, <2>2, <2>3, <2>4, <2>5, <2>6, <2>7, <2>8, <2>9 DEF Honest, HonestAt, NewMessage
  <2>11. Covered(t)
    BY <1>7 DEF Covered, CoveredAt
  <2> QED
    BY <1>3, <1>6, <2>1, <2>10, <2>11
<1>14. Stuck(s, t)
  BY <1>3, <1>6 DEF Stuck, Fine
<1>15. SessionInv(t)
  BY <1>3, <1>6, <1>9, <1>10, <1>12, <1>13 DEF SessionInv
<1> QED
  BY <1>7, <1>13, <1>14, <1>15 DEF Ran

\* The certificate.
LEMMA CertKeeps ==
  ASSUME NEW s, CanSend(s), s.connectState = "FIRST_REPLY_SECOND",
         NEW t, t = Dtls13HandshakeSend(s, "CERT")
  PROVE  /\ Ran(s, t) /\ t.connectState = s.connectState
         /\ Alright(t) => t.rtx # <<>>
<1> DEFINE no == s.dtls_handshake_number
<1>1. IsSession(s) /\ Progressed(s) /\ Numbered(s) /\ Honest(s) /\ Covered(s)
  BY DEF CanSend, SessionInv, Alright, Fine
<1>2. "CERT" \in Kinds
  BY DEF Kinds
<1>3. /\ IsSession(t) /\ SameProgress(s, t) /\ Stuck(s, t)
      /\ AckNums(t) \subseteq AckNums(s) /\ Numbered(t)
      /\ Said(t) \subseteq Said(s) \cup {<<no, "CERT">>}
      /\ Alright(t) => /\ t.dtls_handshake_number = no + 1 /\ t.rtx # <<>>
                       /\ HasFin(s) => HasFin(t)
      /\ ~Alright(t) => t.dtls_handshake_number = no
  BY <1>1, <1>2, HandshakeSendFacts DEF CanSend
<1> HIDE DEF no
<1>4. s.connectState \notin Early /\ s.connectState \notin Late /\ no \in Nat
  BY <1>1 DEF Early, Late, IsSession, no
<1>5. Claim(t)
  BY <1>3, SendClaim DEF CanSend, SameProgress
<1>6. Progressed(t)
  BY <1>1, <1>3, <1>4 DEF Progressed, ProgressedAt, Kept, SameProgress
<1>7. ASSUME Alright(t) PROVE Honest(t) /\ Covered(t)
  <2>1. NewMessage(s, t, "CERT")
    BY <1>1, <1>3, <1>4, NewMessageIsNew DEF CanSend, no
  <2>2. \A a \in Said(t) : a[1] < no + 1
    <3>1. \A a \in Said(t) : a[1] \in Nat
      BY <1>3, SaidType DEF CanSend
    <3>2. \A a \in Said(t) : a[1] <= no
      BY <2>1 DEF NewMessage, no
    <3> QED
      BY <1>4, <3>1, <3>2
  <2>3. server.got <= no + 1
    BY <1>1, <1>4 DEF CanSend, WireType, Honest, HonestAt, no
  <2>4. Honest(t)
    BY <1>1, <1>3, <1>4, <1>7, <2>1, <2>2, <2>3 DEF Honest, HonestAt, NewMessage, SameProgress
  <2>5. Covered(t)
    BY <1>3 DEF Covered, CoveredAt, SameProgress
  <2> QED
    BY <2>4, <2>5
<1>8. SessionInv(t)
  BY <1>3, <1>5, <1>6, <1>7 DEF SessionInv
<1> QED
  BY <1>3, <1>8 DEF Ran, SameProgress

\* The stage of the Finished as a whole: a failure of the socket ends it too.
LEMMA FinishedRan ==
  ASSUME NEW s, CanSend(s), s.connectState = "FIRST_REPLY_FOURTH",
         NEW t, t = Send(s, "FIRST_REPLY_FOURTH", SendTls13Finished(s))
  PROVE  /\ Ran(s, t)
         /\ Fine(t) => t.connectState = "WAIT_FINISHED_ACK"
<1> DEFINE u == Dtls13HandshakeSend(s, "FIN")
           v == SendTls13Finished(s)
           no == s.dtls_handshake_number
<1>1. IsSession(s) /\ Progressed(s) /\ Numbered(s) /\ Honest(s) /\ Covered(s)
  BY DEF CanSend, SessionInv, Alright, Fine
<1>2. "FIN" \in Kinds
  BY DEF Kinds
<1>3. /\ IsSession(u) /\ SameProgress(s, u) /\ Stuck(s, u)
      /\ AckNums(u) \subseteq AckNums(s) /\ Numbered(u)
      /\ Said(u) \subseteq Said(s) \cup {<<no, "FIN">>}
      /\ Alright(u) => /\ u.dtls_handshake_number = no + 1 /\ u.rtx # <<>>
                       /\ HasFin(u)
      /\ ~Alright(u) => u.dtls_handshake_number = no /\ u.rtx = s.rtx
  BY <1>1, <1>2, HandshakeSendFacts DEF CanSend
<1>4. v = IF u.error \in {"none", "WANT_WRITE"} THEN [u EXCEPT !.handShakeDone = TRUE]
          ELSE [u EXCEPT !.error = "none"]
  BY DEF SendTls13Finished
<1>5. t = IF Fine(v) THEN Advance(v) ELSE v
  BY DEF Send, CanSend
<1> HIDE DEF u, v, no
<1>6. s.connectState \notin Early /\ s.connectState \notin Late /\ no \in Nat
  BY <1>1 DEF Early, Late, IsSession, no
<1>7. s.rtx # <<>>
  BY <1>1 DEF Covered, CoveredAt
<1>8. /\ DOMAIN v = SessionFields
      /\ \A f \in SessionFields \ {"handShakeDone", "error"} : v[f] = u[f]
      /\ Alright(u) => v.handShakeDone = TRUE /\ v.error = u.error
      /\ ~Alright(u) => v.handShakeDone = u.handShakeDone /\ v.error = "none"
  BY <1>3, <1>4 DEF IsSession, SessionFields, Alright
<1>9. /\ IsSession(v) /\ Out(v) = Out(u) /\ v.seenRecords = u.seenRecords
      /\ v.rtx = u.rtx /\ v.nextSeq = u.nextSeq
      /\ v.connectState = u.connectState /\ v.serverState = u.serverState
      /\ v.dtls_handshake_number = u.dtls_handshake_number
      /\ v.expected = u.expected /\ v.rx_msgs = u.rx_msgs /\ v.hellos = u.hellos
      /\ v.outputBuffer = u.outputBuffer
  BY <1>3, <1>8 DEF IsSession, Out, SessionFields
<1>10. AckNums(v) = AckNums(u) /\ Sent(v) = Sent(u)
  BY <1>9 DEF AckNums, Sent
<1>11. Said(v) = Said(u) /\ (HasFin(v) <=> HasFin(u)) /\ (Numbered(v) <=> Numbered(u))
  BY <1>9, <1>10 DEF Said, HasFin, Numbered
<1>12. /\ v.connectState = "FIRST_REPLY_FOURTH" /\ v.serverState = s.serverState
       /\ v.expected = s.expected /\ v.rx_msgs = s.rx_msgs /\ v.hellos = s.hellos
  BY <1>3, <1>9 DEF SameProgress
<1>13. Claim(v) /\ Numbered(v)
  BY <1>3, <1>9, <1>10, <1>11, <1>12, SendClaim DEF CanSend
<1>14. Progressed(v)
  BY <1>1, <1>6, <1>12 DEF Progressed, ProgressedAt, Kept
<1>15. v.rtx # <<>>
  BY <1>3, <1>7, <1>9
<1>16. NewMessage(s, v, "FIN")
  BY <1>1, <1>3, <1>6, <1>11, NewMessageIsNew DEF CanSend, no
<1>17. s.serverState # 4
  BY <1>1, <1>6 DEF Progressed, ProgressedAt
<1>18. \A a \in Said(v) : a[1] \in Nat /\ a[1] <= no
  BY <1>9, <1>16, SaidType DEF CanSend, NewMessage, no
<1>19. server.got \in Nat /\ server.got <= no
  BY <1>1, <1>6 DEF CanSend, WireType, Honest, HonestAt, no
<1>20. v.handShakeDone => Done \/ HasFin(v)
  <2>1. CASE Alright(u)
    BY <1>3, <1>11, <2>1
  <2>2. CASE ~Alright(u)
    <3>1. v.handShakeDone = s.handShakeDone /\ v.rtx = s.rtx
      BY <1>3, <1>8, <1>9, <2>2 DEF SameProgress
    <3> QED
      BY <1>1, <3>1 DEF Honest, HonestAt, HasFin
  <2> QED
    BY <2>1, <2>2
\* The Finished has been sent, or waits to be.
<1>21. ASSUME Alright(u) PROVE SessionInv(v) /\ Honest(v)
  <2>1. \A a \in Said(v) : a[1] < no + 1
    BY <1>6, <1>18
  <2>2. v.dtls_handshake_number = no + 1 /\ server.got <= no + 1
    BY <1>3, <1>6, <1>9, <1>19, <1>21
  <2>3. Honest(v)
    BY <1>6, <1>12, <1>16, <1>17, <1>20, <2>1, <2>2 DEF Honest, HonestAt, NewMessage
  <2>4. Covered(v)
    BY <1>12, <1>15 DEF Covered, CoveredAt
  <2> QED
    BY <1>9, <1>13, <1>14, <2>3, <2>4 DEF SessionInv
<1>22. CASE ~Fine(v)
  <2>1. t = v /\ Alright(u) /\ v.error = u.error
    BY <1>5, <1>8, <1>22 DEF Fine
  <2>2. Stuck(s, v)
    BY <1>3, <1>9, <2>1 DEF Stuck, Fine
  <2> QED
    BY <1>12, <1>15, <1>21, <1>22, <2>1, <2>2 DEF Ran
<1>23. CASE Fine(v)
  <2>1. t = [v EXCEPT !.connectState = Following(@)]
    BY <1>5, <1>23 DEF Advance
  <2>2. Moved(v, t, "WAIT_FINISHED_ACK")
    BY <1>9, <1>12, <2>1, FollowingStage DEF Moved, IsSession, SessionFields
  <2>3. "WAIT_FINISHED_ACK" \in Stage /\ "WAIT_FINISHED_ACK" \in Late /\ "WAIT_FINISHED_ACK" \notin Early
    BY DEF Stage, Waiting, Late, Early
  <2>4. ProgressedAt(v, "WAIT_FINISHED_ACK")
    BY <1>6, <1>12, <1>14, <1>17, <2>3 DEF Progressed, ProgressedAt
  <2>5. \A a \in Said(v) : a[1] < v.dtls_handshake_number \/ a[1] = v.dtls_handshake_number
    <3>1. v.dtls_handshake_number = no + 1 \/ v.dtls_handshake_number = no
      BY <1>3, <1>9
    <3> QED
      BY <1>6, <1>18, <3>1
  <2>6. HonestAt(v, "WAIT_FINISHED_ACK")
    BY <1>12, <1>16, <1>17, <1>20, <2>3, <2>5 DEF HonestAt, NewMessage
  <2>7. CoveredAt(v, "WAIT_FINISHED_ACK")
    BY <1>15 DEF CoveredAt
  <2>8. SessionInv(t)
    BY <1>9, <1>13, <2>2, <2>3, <2>4, <2>6, <2>7, MoveKeeps
  <2>9. t.error = v.error /\ t.serverState = v.serverState /\ t.connectState = "WAIT_FINISHED_ACK"
    BY <1>9, <2>2, <2>3, MovedFrame
  <2> QED
    BY <1>12, <1>23, <2>8, <2>9 DEF Ran, Stuck, Fine
<1> QED
  BY <1>22, <1>23

\* A stage: the message is sent, and the next stage begins.
LEMMA SendRan ==
  ASSUME NEW s, CanSend(s), NEW u, Ran(s, u), u.connectState = s.connectState,
         Alright(u) => u.rtx # <<>>,
         NEW t, t = Send(s, s.connectState, u)
  PROVE  Ran(s, t) /\ (Fine(t) => t.connectState = Following(s.connectState))
<1>1. t = IF Fine(u) THEN Advance(u) ELSE u
  BY DEF Send, CanSend
<1>2. CASE ~Fine(u)
  BY <1>1, <1>2
<1>3. CASE Fine(u)
  <2>1. t = [u EXCEPT !.connectState = Following(@)]
    BY <1>1, <1>3 DEF Advance
  <2>2. SessionInv(u) /\ IsSession(u) /\ Alright(u) /\ u.connectState \in Sending
    BY <1>3 DEF Ran, SessionInv, Alright, Fine, CanSend
  <2>3. Moved(u, t, Following(u.connectState))
    BY <2>1, <2>2 DEF Moved, IsSession, SessionFields
  <2>4. SessionInv(t) /\ t.connectState \in Stage
    BY <2>2, <2>3, AdvanceKeeps
  <2>5. t.connectState = Following(u.connectState) /\ t.error = u.error /\ t.serverState = u.serverState
    BY <2>3 DEF Moved, SessionFields
  <2> QED
    BY <1>3, <2>4, <2>5 DEF Ran, Stuck, Fine
<1> QED
  BY <1>2, <1>3

\* The second ClientHello, or none if there was no retry.
LEMMA HelloAgainRan ==
  ASSUME NEW s, CanSend(s), s.connectState = "HELLO_AGAIN", NEW t, t = HelloAgain(s)
  PROVE  Ran(s, t) /\ (Fine(t) => t.connectState = "HELLO_AGAIN_REPLY")
<1>1. IsSession(s) /\ Progressed(s) /\ SessionInv(s) /\ Fine(s)
  BY DEF CanSend, SessionInv
<1>2. s.serverState >= 1 /\ s.serverState # 4 /\ s.serverState \in 0 .. 4
  BY <1>1 DEF Progressed, ProgressedAt, Late, IsSession
<1>3. CASE s.serverState = SERVER_HELLO_RETRY_REQUEST_COMPLETE
  <2>1. t = Send(s, "HELLO_AGAIN", SendTls13ClientHello(s))
    BY <1>3 DEF HelloAgain
  <2>2. s.serverState < SERVER_HELLO_COMPLETE
    BY <1>3 DEF SERVER_HELLO_RETRY_REQUEST_COMPLETE, SERVER_HELLO_COMPLETE
  <2> DEFINE u == SendTls13ClientHello(s)
  <2>3. Ran(s, u) /\ u.connectState = s.connectState /\ (Alright(u) => u.rtx # <<>>)
    BY <2>2, HelloKeeps
  <2> HIDE DEF u
  <2> QED
    BY <2>1, <2>3, SendRan, FollowingStage DEF u
<1>4. CASE s.serverState # SERVER_HELLO_RETRY_REQUEST_COMPLETE
  <2>1. t = [s EXCEPT !.connectState = Following(@)]
    BY <1>1, <1>4 DEF HelloAgain, Advance
  <2>2. Moved(s, t, Following(s.connectState))
    BY <1>1, <2>1 DEF Moved, IsSession, SessionFields
  <2>3. server.got >= Hellos
    <3>1. s.serverState >= 2
      BY <1>2, <1>4 DEF SERVER_HELLO_RETRY_REQUEST_COMPLETE
    <3>2. s.expected \in 0 .. Len(Flights) /\ s.expected # 0 /\ s.serverState = StateAfter(s.expected - 1)
      BY <1>1, <1>2, <3>1 DEF Progressed, ProgressedAt
    <3>3. s.expected - 1 \in 0 .. Len(Flights) - 1 /\ Kept(s, s.expected - 1) /\ (s.expected - 1) + 1 = s.expected
      <4>1. Len(Flights) \in Nat
        BY DEF Flights
      <4> QED
        BY <3>2, <4>1 DEF Kept
    <3>4. Flights[(s.expected - 1) + 1] # "HRR"
      BY <3>1, <3>2, <3>3 DEF StateAfter, SERVER_HELLO_RETRY_REQUEST_COMPLETE
    <3>5. ReleasedOnce(s.expected - 1)
      BY <1>1, <3>3 DEF Progressed, ProgressedAt
    <3> QED
      BY <3>4, <3>5 DEF ReleasedOnce
  <2>4. SessionInv(t)
    BY <1>1, <2>2, <2>3, AdvanceKeeps DEF CanSend, Alright, Fine
  <2>5. t.connectState = "HELLO_AGAIN_REPLY" /\ t.error = s.error /\ t.serverState = s.serverState
    BY <2>2, FollowingStage DEF Moved, SessionFields
  <2> QED
    BY <1>1, <2>4, <2>5 DEF Ran, Stuck, Fine
<1> QED
  BY <1>3, <1>4

\* All the stages, each beginning where the one before it has ended.
LEMMA StagesRan ==
  ASSUME NEW s, SessionInv(s), Fine(s), WireType
  PROVE  Ran(s, Stages(s)) /\ (Fine(Stages(s)) => Settled(Stages(s)))
<1> DEFINE a == Send(s, "CONNECT_BEGIN", SendTls13ClientHello(s))
           b == Await(a, "CLIENT_HELLO_SENT", SERVER_HELLO_RETRY_REQUEST_COMPLETE, "HELLO_AGAIN")
           c == HelloAgain(b)
           d == Await(c, "HELLO_AGAIN_REPLY", SERVER_FINISHED_COMPLETE, "FIRST_REPLY_SECOND")
           e == Send(d, "FIRST_REPLY_SECOND", Dtls13HandshakeSend(d, "CERT"))
           f == Send(e, "FIRST_REPLY_FOURTH", SendTls13Finished(e))
           g == Await(f, "WAIT_FINISHED_ACK", SERVER_FINISHED_ACKED, "FINISHED_DONE")
           q == s.serverState
\* Where the session is after each of them, if it has not failed.
           Same(t, u, stages) == u.connectState = t.connectState /\ t.connectState \notin stages
<1>0. Stages(s) = g
  BY DEF Stages
<1> HIDE DEF g
<1>1. q \in 0 .. 4 /\ s.connectState \in Stage
  BY DEF SessionInv, IsSession
<1>2. /\ Ran(s, a)
      /\ Fine(a) => \/ Same(s, a, {"CONNECT_BEGIN"})
                    \/ a.connectState = "CLIENT_HELLO_SENT"
  <2>1. CASE s.connectState = "CONNECT_BEGIN"
    <3>1. CanSend(s)
      BY <2>1 DEF CanSend, Sending
    <3>2. s.serverState < SERVER_HELLO_COMPLETE
      BY <2>1 DEF SessionInv, Progressed, ProgressedAt, SERVER_HELLO_COMPLETE
    <3> DEFINE u == SendTls13ClientHello(s)
    <3>3. Ran(s, u) /\ u.connectState = s.connectState /\ (Alright(u) => u.rtx # <<>>)
      BY <2>1, <3>1, <3>2, HelloKeeps
    <3>4. a = Send(s, s.connectState, u)
      BY <2>1
    <3> HIDE DEF u, a
    <3> QED
      BY <2>1, <3>1, <3>3, <3>4, SendRan, FollowingStage
  <2>2. CASE s.connectState # "CONNECT_BEGIN"
    <3>1. a = s
      BY <2>2 DEF Send
    <3> QED
      BY <2>2, <3>1, RanSame
  <2> QED
    BY <2>1, <2>2
<1> HIDE DEF a
<1>3. ASSUME Fine(a)
      PROVE  /\ Ran(a, b) /\ Fine(b)
             /\ IF a.connectState = "CLIENT_HELLO_SENT" /\ a.serverState >= 1
                THEN b.connectState = "HELLO_AGAIN" ELSE b.connectState = a.connectState
  <2>1. SessionInv(a)
    BY <1>2 DEF Ran
  <2> QED
    BY <1>3, <2>1, AwaitRan DEF SERVER_HELLO_RETRY_REQUEST_COMPLETE
<1>4. ~Fine(a) => b = a
  BY DEF Await
<1> HIDE DEF b
<1>5. Ran(s, b)
  BY <1>2, <1>3, <1>4, RanTwice
<1>6. ASSUME Fine(b)
      PROVE  /\ Ran(b, c)
             /\ Fine(c) => IF b.connectState = "HELLO_AGAIN" THEN c.connectState = "HELLO_AGAIN_REPLY"
                           ELSE c.connectState = b.connectState
  <2>1. CASE b.connectState = "HELLO_AGAIN"
    <3>1. CanSend(b)
      BY <1>5, <1>6, <2>1 DEF CanSend, Sending, Ran
    <3> QED
      BY <2>1, <3>1, HelloAgainRan
  <2>2. CASE b.connectState # "HELLO_AGAIN"
    <3>1. c = b
      BY <2>2 DEF HelloAgain, Send
    <3>2. SessionInv(b)
      BY <1>5 DEF Ran
    <3> QED
      BY <1>6, <2>2, <3>1, <3>2, RanSame
  <2> QED
    BY <2>1, <2>2
<1>7. ~Fine(b) => c = b
  BY DEF HelloAgain, Send
<1> HIDE DEF c
<1>8. Ran(s, c)
  BY <1>5, <1>6, <1>7, RanTwice
<1>9. ASSUME Fine(c)
      PROVE  /\ Ran(c, d) /\ Fine(d)
             /\ IF c.connectState = "HELLO_AGAIN_REPLY" /\ c.serverState >= 3
                THEN d.connectState = "FIRST_REPLY_SECOND" ELSE d.connectState = c.connectState
  <2>1. SessionInv(c)
    BY <1>8 DEF Ran
  <2> QED
    BY <1>9, <2>1, AwaitRan DEF SERVER_FINISHED_COMPLETE
<1>10. ~Fine(c) => d = c
  BY DEF Await
<1> HIDE DEF d
<1>11. Ran(s, d)
  BY <1>8, <1>9, <1>10, RanTwice
<1>12. ASSUME Fine(d)
       PROVE  /\ Ran(d, e)
              /\ Fine(e) => IF d.connectState = "FIRST_REPLY_SECOND" THEN e.connectState = "FIRST_REPLY_FOURTH"
                            ELSE e.connectState = d.connectState
  <2>1. CASE d.connectState = "FIRST_REPLY_SECOND"
    <3>1. CanSend(d)
      BY <1>11, <1>12, <2>1 DEF CanSend, Sending, Ran
    <3> DEFINE u == Dtls13HandshakeSend(d, "CERT")
    <3>2. Ran(d, u) /\ u.connectState = d.connectState /\ (Alright(u) => u.rtx # <<>>)
      BY <2>1, <3>1, CertKeeps
    <3>3. e = Send(d, d.connectState, u)
      BY <2>1
    <3> HIDE DEF u, e
    <3> QED
      BY <2>1, <3>1, <3>2, <3>3, SendRan, FollowingStage
  <2>2. CASE d.connectState # "FIRST_REPLY_SECOND"
    <3>1. e = d
      BY <2>2 DEF Send
    <3>2. SessionInv(d)
      BY <1>11 DEF Ran
    <3> QED
      BY <1>12, <2>2, <3>1, <3>2, RanSame
  <2> QED
    BY <2>1, <2>2
<1>13. ~Fine(d) => e = d
  BY DEF Send
<1> HIDE DEF e
<1>14. Ran(s, e)
  BY <1>11, <1>12, <1>13, RanTwice
<1>15. ASSUME Fine(e)
       PROVE  /\ Ran(e, f)
              /\ Fine(f) => IF e.connectState = "FIRST_REPLY_FOURTH" THEN f.connectState = "WAIT_FINISHED_ACK"
                            ELSE f.connectState = e.connectState
  <2>1. CASE e.connectState = "FIRST_REPLY_FOURTH"
    <3>1. CanSend(e)
      BY <1>14, <1>15, <2>1 DEF CanSend, Sending, Ran
    <3> QED
      BY <2>1, <3>1, FinishedRan
  <2>2. CASE e.connectState # "FIRST_REPLY_FOURTH"
    <3>1. f = e
      BY <2>2 DEF Send
    <3>2. SessionInv(e)
      BY <1>14 DEF Ran
    <3> QED
      BY <1>15, <2>2, <3>1, <3>2, RanSame
  <2> QED
    BY <2>1, <2>2
<1>16. ~Fine(e) => f = e
  BY DEF Send
<1> HIDE DEF f
<1>17. Ran(s, f)
  BY <1>14, <1>15, <1>16, RanTwice
<1>18. ASSUME Fine(f)
       PROVE  /\ Ran(f, g) /\ Fine(g)
              /\ IF f.connectState = "WAIT_FINISHED_ACK" /\ f.serverState >= 4
                 THEN g.connectState = "FINISHED_DONE" ELSE g.connectState = f.connectState
  <2>1. SessionInv(f)
    BY <1>17 DEF Ran
  <2> QED
    BY <1>18, <2>1, AwaitRan DEF SERVER_FINISHED_ACKED, g
<1>19. ~Fine(f) => g = f
  BY DEF Await, g
<1>20. Ran(s, g)
  BY <1>17, <1>18, <1>19, RanTwice
<1>21. /\ Fine(g) => Fine(f)
       /\ ~Fine(a) => ~Fine(b)
       /\ ~Fine(b) => ~Fine(c)
       /\ ~Fine(c) => ~Fine(d)
       /\ ~Fine(d) => ~Fine(e)
       /\ ~Fine(e) => ~Fine(f)
  BY <1>4, <1>7, <1>10, <1>13, <1>16, <1>19
<1>22. a.serverState = q /\ c.serverState = q /\ f.serverState = q /\ g.serverState = q
  BY <1>2, <1>8, <1>17, <1>20 DEF Ran
<1>23. ASSUME Fine(g) PROVE Settled(g)
  <2>1. Fine(a) /\ Fine(b) /\ Fine(c) /\ Fine(d) /\ Fine(e) /\ Fine(f)
    BY <1>21, <1>23
  <2>2. a.connectState # "CONNECT_BEGIN"
    BY <1>2, <2>1
  <2>3. b.connectState # "CONNECT_BEGIN" /\ (b.connectState = "CLIENT_HELLO_SENT" => q = 0)
    BY <1>1, <1>3, <1>22, <2>1, <2>2
  <2>4. /\ c.connectState \notin {"CONNECT_BEGIN", "HELLO_AGAIN"}
        /\ c.connectState = "CLIENT_HELLO_SENT" => q = 0
    BY <1>6, <2>1, <2>3
  <2>5. /\ d.connectState \notin {"CONNECT_BEGIN", "HELLO_AGAIN"}
        /\ d.connectState = "CLIENT_HELLO_SENT" => q = 0
        /\ d.connectState = "HELLO_AGAIN_REPLY" => q < 3
    BY <1>1, <1>9, <1>22, <2>1, <2>4
  <2>6. /\ e.connectState \notin {"CONNECT_BEGIN", "HELLO_AGAIN", "FIRST_REPLY_SECOND"}
        /\ e.connectState = "CLIENT_HELLO_SENT" => q = 0
        /\ e.connectState = "HELLO_AGAIN_REPLY" => q < 3
    BY <1>12, <2>1, <2>5
  <2>7. /\ f.connectState \notin {"CONNECT_BEGIN", "HELLO_AGAIN", "FIRST_REPLY_SECOND", "FIRST_REPLY_FOURTH"}
        /\ f.connectState = "CLIENT_HELLO_SENT" => q = 0
        /\ f.connectState = "HELLO_AGAIN_REPLY" => q < 3
    BY <1>15, <2>1, <2>6
  <2>8. /\ g.connectState \notin {"CONNECT_BEGIN", "HELLO_AGAIN", "FIRST_REPLY_SECOND", "FIRST_REPLY_FOURTH"}
        /\ g.connectState = "CLIENT_HELLO_SENT" => q = 0
        /\ g.connectState = "HELLO_AGAIN_REPLY" => q < 3
        /\ g.connectState = "WAIT_FINISHED_ACK" => q < 4
    BY <1>1, <1>18, <1>22, <2>1, <2>7
  <2> QED
    BY <1>22, <2>8 DEF Settled, Sending
<1> QED
  BY <1>0, <1>20, <1>23

\* Output is left over in a stage that sends only if a message is kept.
LEMMA FlushOutputRan ==
  ASSUME NEW s, SessionInv(s), Fine(s), WireType,
         s.connectState \in Sending /\ s.outputBuffer # <<>> => s.rtx # <<>>,
         NEW t, t = FlushOutput(s)
  PROVE  Ran(s, t)
<1> DEFINE b == SendBuffered(s)
           u == [b EXCEPT !.SendingAckOrRtx = FALSE]
<1>1. IsSession(s) /\ Alright(s)
  BY DEF SessionInv, Alright, Fine
<1>2. Again(s, b) /\ Stuck(s, b) /\ b.rtx = s.rtx
  BY <1>1, SendBufferedAgain, SendBufferedFrame
<1>3. s.outputBuffer = <<>> => b = s
  BY DEF SendBuffered
<1>4. t = IF s.outputBuffer = <<>> \/ ~Fine(b) THEN b
          ELSE IF s.connectState \in Sending /\ ~s.SendingAckOrRtx THEN Advance(u) ELSE u
  BY DEF FlushOutput
<1> HIDE DEF b
<1>5. SessionInv(b) /\ IsSession(b) /\ b.connectState = s.connectState /\ b.serverState = s.serverState
  BY <1>1, <1>2, AgainKeeps DEF Again, SameProgress
<1>6. CASE s.outputBuffer = <<>>
  BY <1>3, <1>4, <1>6, RanSame
<1>7. CASE s.outputBuffer # <<>> /\ ~Fine(b)
  BY <1>2, <1>4, <1>5, <1>7 DEF Ran
<1>8. CASE s.outputBuffer # <<>> /\ Fine(b) /\ s.connectState \in Sending /\ ~s.SendingAckOrRtx
  <2>1. t = [u EXCEPT !.connectState = Following(@)]
    BY <1>4, <1>8 DEF Advance
  <2>2. Moved(b, t, Following(b.connectState))
    BY <1>5, <2>1 DEF Moved, IsSession, SessionFields
  <2>3. SessionInv(t)
    BY <1>2, <1>5, <1>8, <2>2, AdvanceKeeps DEF Alright, Fine
  <2>4. t.error = b.error /\ t.serverState = b.serverState
    BY <2>2 DEF Moved, SessionFields
  <2> QED
    BY <1>5, <1>8, <2>3, <2>4 DEF Ran, Stuck, Fine
<1>9. CASE s.outputBuffer # <<>> /\ Fine(b) /\ ~(s.connectState \in Sending /\ ~s.SendingAckOrRtx)
  <2>1. t = u
    BY <1>4, <1>9
  <2>2. Moved(b, t, b.connectState)
    BY <1>5, <2>1 DEF Moved, IsSession, SessionFields
  <2>3. b.connectState \in Stage
    BY <1>5 DEF IsSession
  <2>4. Progressed(b) /\ Claim(b) /\ Numbered(b) /\ Honest(b) /\ Covered(b)
    BY <1>5, <1>9 DEF SessionInv, Alright, Fine
  <2>5. SessionInv(t)
    BY <1>5, <2>2, <2>3, <2>4, MoveKeeps DEF Progressed, Honest, Covered
  <2>6. t.error = b.error /\ t.serverState = b.serverState
    BY <2>2 DEF Moved, SessionFields
  <2> QED
    BY <1>5, <1>9, <2>5, <2>6 DEF Ran, Stuck, Fine
<1> QED
  BY <1>6, <1>7, <1>8, <1>9

\* The whole of wolfSSL_connect.
LEMMA ConnectRan ==
  ASSUME NEW s, SessionInv(s), Fine(s), WireType,
         s.connectState \in Sending /\ s.outputBuffer # <<>> => s.rtx # <<>>,
         NEW t, t = wolfSSL_connect(s)
  PROVE  Ran(s, t) /\ (Fine(t) => Settled(t))
<1> DEFINE u == FlushOutput(s)
<1>1. Ran(s, u)
  BY FlushOutputRan
<1>2. t = IF Fine(u) THEN Stages(u) ELSE u
  BY DEF wolfSSL_connect
<1> HIDE DEF u
<1>3. CASE Fine(u)
  <2>1. Ran(u, t) /\ (Fine(t) => Settled(t))
    BY <1>1, <1>2, <1>3, StagesRan DEF Ran
  <2> QED
    BY <1>1, <1>3, <2>1, RanTwice
<1>4. CASE ~Fine(u)
  BY <1>1, <1>2, <1>4
<1> QED
  BY <1>3, <1>4

-----------------------------------------------------------------------------
(* The messages of the handshake                                            *)

\* What each side sends, in its order, with a retry and without one.
LEMMA FlightFacts ==
  /\ Len(Flights) \in {3, 4} /\ Hellos \in {1, 2} /\ Len(Answers) = Hellos + 2
  /\ \A i \in 1 .. Len(Flights) :
       /\ Flights[i] \in {"HRR", "SH", "CERT", "FIN"}
       /\ Flights[i] = "HRR" => i = 1
       /\ Flights[i] = "FIN" <=> i = Len(Flights)
  /\ \A i \in 1 .. Len(Answers) :
       /\ Answers[i] = "FIN" => i = Len(Answers)
       /\ Answers[i] = "CH" => i <= Hellos
<1> DEFINE f == Flights
           a == IF server.retry THEN <<"CH", "CH">> ELSE <<"CH">>
           b == <<"CERT", "FIN">>
           c == a \o b
<1>1. Answers = c
  BY DEF Answers
<1>2. f = (IF server.retry THEN <<"HRR", "SH", "CERT", "FIN">> ELSE <<"SH", "CERT", "FIN">>)
  BY DEF Flights
<1>a. a = (IF server.retry THEN <<"CH", "CH">> ELSE <<"CH">>)
  OBVIOUS
<1>b. b = <<"CERT", "FIN">>
  OBVIOUS
<1>c. Flights = f
  OBVIOUS
<1> HIDE DEF f, a, b
<1>3. /\ Len(f) \in {3, 4}
      /\ \A i \in 1 .. Len(f) :
           /\ f[i] \in {"HRR", "SH", "CERT", "FIN"}
           /\ f[i] = "HRR" => i = 1
           /\ f[i] = "FIN" <=> i = Len(f)
  <2>1. CASE server.retry
    <3>1. f = <<"HRR", "SH", "CERT", "FIN">> /\ Len(f) = 4
      BY <1>2, <2>1
    <3> QED
      BY <3>1
  <2>2. CASE ~server.retry
    <3>1. f = <<"SH", "CERT", "FIN">> /\ Len(f) = 3
      BY <1>2, <2>2
    <3> QED
      BY <3>1
  <2> QED
    BY <2>1, <2>2
<1>4. /\ a \in Seq(Kinds) /\ Len(a) = Hellos /\ Hellos \in {1, 2}
      /\ \A i \in 1 .. Len(a) : a[i] = "CH"
  <2>1. CASE server.retry
    <3>1. a = <<"CH", "CH">> /\ Hellos = 2
      BY <1>a, <2>1 DEF Hellos
    <3>2. Len(a) = 2 /\ a[1] = "CH" /\ a[2] = "CH" /\ a \in Seq(Kinds)
      BY <3>1 DEF Kinds
    <3> QED
      BY <3>1, <3>2
  <2>2. CASE ~server.retry
    <3>1. a = <<"CH">> /\ Hellos = 1
      BY <1>a, <2>2 DEF Hellos
    <3>2. Len(a) = 1 /\ a[1] = "CH" /\ a \in Seq(Kinds)
      BY <3>1 DEF Kinds
    <3> QED
      BY <3>1, <3>2
  <2> QED
    BY <2>1, <2>2
<1>5. b \in Seq(Kinds) /\ Len(b) = 2 /\ b[1] = "CERT" /\ b[2] = "FIN"
  BY <1>b DEF Kinds
<1>6. /\ Len(c) = Len(a) + Len(b)
      /\ \A i \in 1 .. Len(a) + Len(b) : c[i] = IF i <= Len(a) THEN a[i] ELSE b[i - Len(a)]
  BY <1>4, <1>5, ConcatProperties
<1> HIDE DEF c
<1>7. Len(c) = Hellos + 2
  BY <1>4, <1>5, <1>6
<1>8. ASSUME NEW i \in 1 .. Hellos + 2
      PROVE  (c[i] = "FIN" => i = Hellos + 2) /\ (c[i] = "CH" => i <= Hellos)
  <2>1. CASE i <= Hellos
    <3>1. i \in 1 .. Hellos /\ i \in 1 .. Len(a) + Len(b) /\ i <= Len(a)
      BY <1>4, <1>5, <2>1
    <3>2. c[i] = "CH"
      BY <1>4, <1>6, <3>1
    <3> QED
      BY <2>1, <3>2
  <2>2. CASE i = Hellos + 1
    <3>1. i \in 1 .. Len(a) + Len(b) /\ ~(i <= Len(a)) /\ i - Len(a) = 1
      BY <1>4, <1>5, <2>2
    <3>2. c[i] = "CERT"
      BY <1>5, <1>6, <3>1
    <3> QED
      BY <3>2
  <2>3. CASE i = Hellos + 2
    <3>1. i \in 1 .. Len(a) + Len(b) /\ ~(i <= Len(a)) /\ i - Len(a) = 2
      BY <1>4, <1>5, <2>3
    <3>2. c[i] = "FIN"
      BY <1>5, <1>6, <3>1
    <3> QED
      BY <2>3, <3>2
  <2>4. i <= Hellos \/ i = Hellos + 1 \/ i = Hellos + 2
    BY <1>4, <1>8
  <2> QED
    BY <2>1, <2>2, <2>3, <2>4
<1>9. \A i \in 1 .. Len(c) : (c[i] = "FIN" => i = Len(c)) /\ (c[i] = "CH" => i <= Hellos)
  BY <1>7, <1>8
<1>10. /\ Len(Answers) = Hellos + 2
       /\ \A i \in 1 .. Len(Answers) :
            /\ Answers[i] = "FIN" => i = Len(Answers)
            /\ Answers[i] = "CH" => i <= Hellos
  BY <1>1, <1>7, <1>9
<1> QED
  BY <1>3, <1>4, <1>10, <1>c

\* What serverState is after each message of the server.
LEMMA StateAfterFacts ==
  ASSUME NEW no \in 0 .. Len(Flights) - 1
  PROVE  /\ StateAfter(no) \in 1 .. 3
         /\ StateAfter(no) = 3 <=> no = Len(Flights) - 1
         /\ StateAfter(no) < 2 => no = 0
<1>1. no + 1 \in 1 .. Len(Flights) /\ (no + 1 = Len(Flights) <=> no = Len(Flights) - 1)
      /\ (no + 1 = 1 => no = 0)
  BY FlightFacts
<1>2. /\ Flights[no + 1] \in {"HRR", "SH", "CERT", "FIN"}
      /\ Flights[no + 1] = "HRR" => no + 1 = 1
      /\ Flights[no + 1] = "FIN" <=> no + 1 = Len(Flights)
  BY <1>1, FlightFacts
<1> DEFINE f == Flights[no + 1]
<1>3. /\ f = "HRR" => StateAfter(no) = 1
      /\ f \in {"SH", "CERT"} => StateAfter(no) = 2
      /\ f = "FIN" => StateAfter(no) = 3
  BY DEF StateAfter, SERVER_HELLO_RETRY_REQUEST_COMPLETE, SERVER_HELLO_COMPLETE, SERVER_FINISHED_COMPLETE
<1> HIDE DEF f
<1>4. f \in {"HRR", "SH", "CERT", "FIN"} /\ (f = "HRR" => no = 0) /\ (f = "FIN" <=> no = Len(Flights) - 1)
  BY <1>1, <1>2 DEF f
<1> QED
  BY <1>3, <1>4

-----------------------------------------------------------------------------
(* An acknowledgement                                                       *)

\* The acknowledged messages are removed one after the other, by a function of its own.
LEMMA RemoveRecordsSteps ==
  ASSUME NEW list, Len(list) \in Nat, NEW rns
  PROVE  \E f : /\ f[0] = <<>>
                /\ \A k \in 1 .. Len(list) :
                     f[k] = IF Dtls13RtxIsTrackedByRn(list[k], rns) THEN f[k - 1]
                            ELSE Append(f[k - 1], list[k])
                /\ Dtls13RtxRemoveRecords(list, rns) = f[Len(list)]
<1> DEFINE n == Len(list)
           Step(before, k) == IF Dtls13RtxIsTrackedByRn(list[k], rns) THEN before
                              ELSE Append(before, list[k])
           Is(f, m) == f = [k \in 0 .. m |-> IF k = 0 THEN <<>> ELSE Step(f[k - 1], k)]
           Exists(m) == \E f : Is(f, m)
           T == {m \in 0 .. n : Exists(m)}
           kept == CHOOSE f : Is(f, n)
<1>1. Dtls13RtxRemoveRecords(list, rns) = kept[n]
  BY DEF Dtls13RtxRemoveRecords
<1> HIDE DEF Step
<1>2. Exists(0)
  <2> DEFINE f == [k \in 0 .. 0 |-> <<>>]
  <2>1. Is(f, 0)
    OBVIOUS
  <2> QED
    BY <2>1
<1>3. ASSUME NEW m \in 0 .. n - 1, Exists(m) PROVE Exists(m + 1)
  <2>1. PICK f : Is(f, m)
    BY <1>3
  <2> DEFINE g == [k \in 0 .. m + 1 |-> IF k = m + 1 THEN Step(f[m], m + 1) ELSE f[k]]
  <2>2. Is(g, m + 1)
    <3>1. ASSUME NEW k \in 0 .. m + 1
          PROVE  g[k] = IF k = 0 THEN <<>> ELSE Step(g[k - 1], k)
      <4>1. CASE k = m + 1
        <5>1. k # 0 /\ k - 1 = m /\ m \in 0 .. m + 1 /\ m # m + 1
          BY <4>1
        <5>2. g[k] = Step(f[m], k) /\ g[k - 1] = f[m]
          BY <4>1, <5>1
        <5> QED
          BY <5>1, <5>2, Zenon
      <4>2. CASE k # m + 1
        <5>1. k \in 0 .. m /\ (k # 0 => k - 1 \in 0 .. m /\ k - 1 \in 0 .. m + 1 /\ k - 1 # m + 1)
          BY <4>2
        <5>2. g[k] = f[k] /\ (k # 0 => g[k - 1] = f[k - 1])
          BY <4>2, <5>1
        <5>3. f[k] = IF k = 0 THEN <<>> ELSE Step(f[k - 1], k)
          BY <2>1, <5>1
        <5> QED
          BY <5>2, <5>3, Zenon
      <4> QED
        BY <4>1, <4>2
    <3> QED
      BY <3>1, Zenon
  <2> QED
    BY <2>2, Zenon
<1> HIDE DEF Exists
<1>4. Exists(n)
  <2>1. 0 \in T /\ \A m \in 0 .. n - 1 : m \in T => m + 1 \in T
    BY <1>2, <1>3
  <2>2. n \in 0 .. n /\ n \in Nat
    OBVIOUS
  <2> HIDE DEF T, n
  <2>3. \A m \in 0 .. n : m \in T
    BY <2>1, <2>2, Induction
  <2> QED
    BY <2>2, <2>3 DEF T
<1>5. Is(kept, n)
  BY <1>4, Zenon DEF Exists
<1> HIDE DEF kept
<1>6. kept[0] = <<>> /\ \A k \in 1 .. n : kept[k] = Step(kept[k - 1], k)
  <2>1. \A k \in 0 .. n : kept[k] = IF k = 0 THEN <<>> ELSE Step(kept[k - 1], k)
    BY <1>5
  <2>2. 0 \in 0 .. n /\ \A k \in 1 .. n : k \in 0 .. n /\ k # 0
    OBVIOUS
  <2> QED
    BY <2>1, <2>2, Zenon
<1> QED
  BY <1>1, <1>6, Zenon DEF Step

\* The others stay, and nothing else is in the list.
LEMMA RemoveRecordsFrame ==
  ASSUME NEW list \in Seq(Entries), NEW rns,
         NEW t, t = Dtls13RtxRemoveRecords(list, rns)
  PROVE  /\ t \in Seq(Entries) /\ ToSet(t) \subseteq ToSet(list)
         /\ \A m \in ToSet(list) : Dtls13RtxIsTrackedByRn(m, rns) \/ m \in ToSet(t)
<1> DEFINE n == Len(list)
<1>1. n \in Nat /\ n \in 0 .. n /\ DOMAIN list = 1 .. n /\ \A i \in 1 .. n : list[i] \in Entries
  BY LenProperties, ElementOfSeq
<1>2. PICK f : /\ f[0] = <<>>
               /\ \A k \in 1 .. n : f[k] = IF Dtls13RtxIsTrackedByRn(list[k], rns) THEN f[k - 1]
                                           ELSE Append(f[k - 1], list[k])
               /\ t = f[n]
  BY <1>1, RemoveRecordsSteps
<1> HIDE DEF n
<1> DEFINE Good(k) == /\ f[k] \in Seq(Entries)
                      /\ ToSet(f[k]) \subseteq ToSet(list)
                      /\ \A i \in 1 .. k : Dtls13RtxIsTrackedByRn(list[i], rns) \/ list[i] \in ToSet(f[k])
           T == {k \in 0 .. n : Good(k)}
<1>3. 0 \in T
  <2>1. f[0] \in Seq(Entries) /\ ToSet(f[0]) = {} /\ 1 .. 0 = {} /\ 0 \in 0 .. n
    BY <1>1, <1>2 DEF ToSet
  <2> QED
    BY <2>1
<1>4. ASSUME NEW k \in 0 .. n - 1, k \in T PROVE k + 1 \in T
  <2>1. k + 1 \in 1 .. n /\ (k + 1) - 1 = k /\ k + 1 \in 0 .. n /\ 1 .. k + 1 = 1 .. k \cup {k + 1}
    BY <1>1
  <2>2. Good(k)
    BY <1>4
  <2> DEFINE m == list[k + 1]
  <2>3. m \in Entries /\ m \in ToSet(list)
    BY <1>1, <2>1 DEF ToSet
  <2>4. f[k + 1] = IF Dtls13RtxIsTrackedByRn(m, rns) THEN f[k] ELSE Append(f[k], m)
    BY <1>2, <2>1
  <2>5. CASE Dtls13RtxIsTrackedByRn(m, rns)
    <3>1. f[k + 1] = f[k]
      BY <2>4, <2>5
    <3>2. Good(k + 1)
      BY <2>1, <2>2, <2>5, <3>1
    <3> QED
      BY <2>1, <3>2
  <2>6. CASE ~Dtls13RtxIsTrackedByRn(m, rns)
    <3>1. f[k + 1] = Append(f[k], m)
      BY <2>4, <2>6
    <3>2. f[k + 1] \in Seq(Entries) /\ ToSet(f[k + 1]) = ToSet(f[k]) \cup {m}
      BY <2>2, <2>3, <3>1, AppendFacts
    <3>3. Good(k + 1)
      BY <2>1, <2>2, <2>3, <3>2
    <3> QED
      BY <2>1, <3>3
  <2> QED
    BY <2>5, <2>6
<1> HIDE DEF T, Good
<1>5. \A k \in 0 .. n : k \in T
  BY <1>1, <1>3, <1>4, Induction
<1>6. Good(n)
  BY <1>1, <1>5 DEF T
<1> QED
  BY <1>1, <1>2, <1>6 DEF Good, ToSet

\* An acknowledgement removes only what the server has, so whatever the server
\* still has to get is kept.
LEMMA AckKeeps ==
  ASSUME NEW s, SessionInv(s), Alright(s), s.connectState \in Waiting, WireType,
         NEW r, r.acks \subseteq Confirmed, \A x \in Confirmed : x[1] = 2,
         NEW t, t = DoDtls13Ack(s, r)
  PROVE  SessionInv(t) /\ t.error = s.error
<1> DEFINE rtx == Dtls13RtxRemoveRecords(s.rtx, r.acks)
<1>1. IsSession(s) /\ Progressed(s) /\ Claim(s) /\ Numbered(s) /\ Honest(s) /\ Covered(s)
  BY DEF SessionInv
<1>2. t = [s EXCEPT !.rtx = rtx,
               !.retransmit = @ \/ rtx # <<>>,
               !.serverState = IF s.connectState = "WAIT_FINISHED_ACK" /\ rtx = <<>>
                               THEN SERVER_FINISHED_ACKED ELSE @]
  BY DEF DoDtls13Ack
<1>3. /\ rtx \in Seq(Entries) /\ ToSet(rtx) \subseteq ToSet(s.rtx)
      /\ \A m \in ToSet(s.rtx) : Dtls13RtxIsTrackedByRn(m, r.acks) \/ m \in ToSet(rtx)
  BY <1>1, RemoveRecordsFrame DEF IsSession
<1> HIDE DEF rtx
<1>4. /\ DOMAIN t = SessionFields
      /\ \A f \in SessionFields \ {"rtx", "retransmit", "serverState"} : t[f] = s[f]
      /\ t.rtx = rtx
      /\ t.serverState = IF s.connectState = "WAIT_FINISHED_ACK" /\ rtx = <<>> THEN 4 ELSE s.serverState
  BY <1>1, <1>2 DEF IsSession, SessionFields, SERVER_FINISHED_ACKED
<1>5. /\ t.connectState = s.connectState /\ t.dtls_handshake_number = s.dtls_handshake_number
      /\ t.expected = s.expected /\ t.rx_msgs = s.rx_msgs /\ t.hellos = s.hellos
      /\ t.handShakeDone = s.handShakeDone /\ t.seenRecords = s.seenRecords
      /\ t.nextSeq = s.nextSeq /\ t.outputBuffer = s.outputBuffer /\ t.sent = s.sent
      /\ t.error = s.error /\ Out(t) = Out(s)
  BY <1>4 DEF SessionFields, Out
<1>6. s.connectState # "WAIT_FINISHED_ACK" => t.serverState = s.serverState
  BY <1>4
<1>7. t.serverState = s.serverState \/ (t.serverState = 4 /\ s.connectState = "WAIT_FINISHED_ACK" /\ t.rtx = <<>>)
  BY <1>4
<1>8. IsSession(t)
  BY <1>1, <1>3, <1>4, <1>5, <1>7 DEF IsSession
<1>9. Sent(t) = Sent(s) /\ AckNums(t) = AckNums(s)
  BY <1>5 DEF Sent, AckNums
<1>10. Said(t) \subseteq Said(s)
  BY <1>3, <1>4, <1>9 DEF Said
<1>11. Progressed(t)
  <2>1. "WAIT_FINISHED_ACK" \in Late /\ "WAIT_FINISHED_ACK" \notin Early
    BY DEF Late, Early
  <2>2. s.connectState \notin Early => s.expected = Len(Flights)
    BY <1>1 DEF Progressed, ProgressedAt
  <2>3. CASE t.serverState = s.serverState
    BY <1>1, <1>5, <2>3 DEF Progressed, ProgressedAt, Kept
  <2>4. CASE t.serverState = 4 /\ s.connectState = "WAIT_FINISHED_ACK"
    BY <1>1, <1>5, <2>1, <2>2, <2>4 DEF Progressed, ProgressedAt, Kept
  <2> QED
    BY <1>7, <2>3, <2>4
<1>12. Claim(t)
  BY <1>1, <1>5, <1>9 DEF Claim, Kept
<1>13. Numbered(t)
  BY <1>1, <1>3, <1>4, <1>5, <1>9 DEF Numbered
\* A message that is acknowledged is one that the server has.
<1>14. ASSUME NEW m \in ToSet(s.rtx), Dtls13RtxIsTrackedByRn(m, r.acks)
       PROVE  m.no \in Nat /\ m.no < server.got /\ m.epoch = 2
  <2>1. PICK i \in DOMAIN m.rns : <<m.epoch, m.rns[i]>> \in r.acks
    BY <1>14 DEF Dtls13RtxIsTrackedByRn
  <2>2. <<m.epoch, m.rns[i]>> \in Confirmed /\ TracksOne(m, <<m.epoch, m.rns[i]>>)
    BY <2>1 DEF TracksOne, ToSet
  <2>3. m.no \in Nat
    BY <1>1, SessionSets DEF Entries
  <2>4. <<m.epoch, m.rns[i]>>[1] = m.epoch
    OBVIOUS
  <2> QED
    BY <1>1, <2>2, <2>3, <2>4 DEF Numbered
<1>15. ASSUME s.handShakeDone PROVE Done \/ HasFin(t)
  <2>1. Done \/ HasFin(s)
    BY <1>1, <1>15 DEF Honest, HonestAt
  <2>2. ASSUME NEW m \in ToSet(s.rtx), m.kind = "FIN", m \notin ToSet(t.rtx) PROVE Done
    <3>1. m.no \in Nat /\ m.no < server.got
      BY <1>3, <1>4, <1>14, <2>2
    <3>2. <<m.no, "FIN">> \in Said(s)
      BY <2>2 DEF Said
    <3>3. Answers[m.no + 1] = "FIN"
      BY <1>1, <3>1, <3>2 DEF Honest, HonestAt
    <3>4. m.no + 1 \in 1 .. Len(Answers)
      BY <3>1, FlightFacts DEF WireType
    <3>5. m.no + 1 = Len(Answers)
      BY <3>3, <3>4, FlightFacts
    <3> QED
      BY <3>1, <3>5, FlightFacts DEF WireType, Done
  <2> QED
    BY <2>1, <2>2 DEF HasFin
<1>16. ASSUME s.handShakeDone, t.serverState = 4 PROVE Done
  <2>1. CASE t.serverState = s.serverState
    BY <1>1, <1>16, <2>1 DEF Honest, HonestAt
  <2>2. CASE t.rtx = <<>>
    <3>1. ~HasFin(t)
      BY <2>2 DEF HasFin, ToSet
    <3> QED
      BY <1>15, <1>16, <3>1
  <2> QED
    BY <1>7, <2>1, <2>2
<1>17. Honest(t)
  <2>1. ToSet(t.rtx) \subseteq ToSet(s.rtx)
    BY <1>3, <1>4
  <2>2. /\ \A a, b \in Said(t) : a[1] = b[1] => a[2] = b[2]
        /\ \A a \in Said(t) : a[1] < server.got => a[2] = Answers[a[1] + 1]
        /\ \A a \in Said(t) : a[1] < t.dtls_handshake_number
                        \/ (a[1] = t.dtls_handshake_number /\ t.connectState \in Late)
        /\ t.connectState \notin Late => server.got <= t.dtls_handshake_number
    BY <1>1, <1>5, <1>10 DEF Honest, HonestAt
  <2>3. t.connectState \in Early =>
       /\ \A a \in Said(t) : a[2] = "CH"
       /\ \A m \in ToSet(t.rtx) : m.epoch = 0
       /\ ~t.handShakeDone /\ server.got <= Hellos
    BY <1>1, <1>5, <1>10, <2>1 DEF Honest, HonestAt
  <2>4. /\ t.handShakeDone => Done \/ HasFin(t)
        /\ t.handShakeDone /\ t.serverState = 4 => Done
    BY <1>5, <1>15, <1>16
  <2> QED
    BY <2>2, <2>3, <2>4 DEF Honest, HonestAt
<1>18. Covered(t)
  <2>1. t.connectState # "FIRST_REPLY_FOURTH"
    BY <1>5 DEF Waiting
  <2>2. t.connectState = "WAIT_FINISHED_ACK" /\ t.rtx = <<>> => t.serverState = 4
    BY <1>4, <1>5
  <2>3. ASSUME t.connectState \in {"CLIENT_HELLO_SENT", "HELLO_AGAIN_REPLY"}, t.rtx = <<>>
        PROVE  s.rtx = <<>>
    <3>1. \A m \in ToSet(s.rtx) : m.epoch = 0
      BY <1>1, <1>5, <2>3 DEF Honest, HonestAt, Early
    <3>2. ToSet(t.rtx) = {}
      BY <2>3 DEF ToSet
    <3>3. ToSet(s.rtx) = {}
      <4>1. \A m \in ToSet(s.rtx) : m.epoch = 2 /\ m.epoch = 0
        BY <1>3, <1>4, <1>14, <3>1, <3>2
      <4> QED
        BY <4>1
    <3>4. s.rtx \in Seq(Entries)
      BY <1>1 DEF IsSession
    <3>5. Len(s.rtx) = 0
      <4> DEFINE n == Len(s.rtx)
      <4>1. n \in Nat /\ DOMAIN s.rtx = 1 .. n
        BY <3>4, LenProperties
      <4> HIDE DEF n
      <4>2. n # 0 => 1 \in 1 .. n
        BY <4>1
      <4>3. 1 \notin DOMAIN s.rtx
        BY <3>3 DEF ToSet
      <4> QED
        BY <4>1, <4>2, <4>3 DEF n
    <3> QED
      BY <3>4, <3>5, EmptySeq
  <2> QED
    BY <1>1, <1>5, <2>1, <2>2, <2>3 DEF Covered, CoveredAt
<1> QED
  BY <1>5, <1>8, <1>11, <1>12, <1>13, <1>17, <1>18 DEF SessionInv

-----------------------------------------------------------------------------
(* A message of the server                                                  *)

\* A record of the server as the network may deliver it.
Genuine(r) ==
  /\ r.epoch \in Epochs /\ r.seq \in Nat /\ r.seq < server.next[r.epoch]
  /\ r.type = "ack" => r.acks \subseteq Confirmed
  /\ r.type # "ack" => /\ r.no \in 0 .. Len(Flights) - 1 /\ r.epoch = FlightEpoch(r.no)
                       /\ ReleasedOnce(r.no)
                       /\ \A c \in carries : c[1] = r.epoch /\ c[2] = r.seq => c[3] = r.no

\* The first message that is missing.
FirstMissing(s, no) ==
  CHOOSE n \in s.expected .. Len(Flights) :
     n \notin s.rx_msgs \cup {no} /\ s.expected .. n - 1 \subseteq s.rx_msgs \cup {no}

\* There is one, and the messages before it are stored.
LEMMA FirstMissingFacts ==
  ASSUME NEW s, s.expected \in 0 .. Len(Flights), s.expected \notin s.rx_msgs,
         s.rx_msgs \subseteq 0 .. Len(Flights) - 1,
         NEW no \in 0 .. Len(Flights) - 1, NEW n, n = FirstMissing(s, no)
  PROVE  /\ n \in s.expected .. Len(Flights) /\ n \notin s.rx_msgs \cup {no}
         /\ s.expected .. n - 1 \subseteq s.rx_msgs \cup {no}
         /\ n > s.expected => no = s.expected
<1> DEFINE e == s.expected
           L == Len(Flights)
           stored == s.rx_msgs \cup {no}
           Is(k) == k \notin stored /\ e .. k - 1 \subseteq stored
<1>0. L \in Nat /\ e \in 0 .. L /\ e \notin s.rx_msgs /\ stored \subseteq 0 .. L - 1 /\ no \in stored
  BY FlightFacts
<1>1. n = CHOOSE k \in e .. L : Is(k)
  BY DEF FirstMissing
<1> HIDE DEF e, L, stored
<1>2. \E k \in e .. L : Is(k)
  <2> SUFFICES ASSUME \A k \in e .. L : ~Is(k) PROVE FALSE
    OBVIOUS
  <2> DEFINE T == {k \in 0 .. L - e : e .. (e + k) - 1 \subseteq stored}
             m == L - e
  <2>1. m \in Nat /\ m \in 0 .. m
    BY <1>0
  <2>2. 0 \in T
    BY <1>0
  <2>3. ASSUME NEW k \in 0 .. m - 1, k \in T PROVE k + 1 \in T
    <3>1. e + k \in e .. L /\ k + 1 \in 0 .. m /\ e .. (e + k) - 1 \subseteq stored
      BY <1>0, <2>3
    <3>2. e + k \in stored
      BY <3>1
    <3>3. \A x \in e .. (e + (k + 1)) - 1 : x \in e .. (e + k) - 1 \/ x = e + k
      BY <1>0, <3>1
    <3>4. e .. (e + (k + 1)) - 1 \subseteq stored
      BY <3>1, <3>2, <3>3
    <3> QED
      BY <3>1, <3>4
  <2> HIDE DEF T, m
  <2>4. m \in T
    BY <2>1, <2>2, <2>3, Induction
  <2>5. e .. L - 1 \subseteq stored /\ L \in e .. L /\ L \notin stored
    <3>1. (e + m) - 1 = L - 1
      BY <1>0 DEF m
    <3> QED
      BY <1>0, <2>4, <3>1 DEF T
  <2> QED
    BY <2>5
<1>3. n \in e .. L /\ Is(n)
  BY <1>1, <1>2
<1>4. n > e => no = e
  <2>1. n > e => e \in e .. n - 1
    BY <1>0, <1>3
  <2>2. n > e => e \in stored
    BY <1>3, <2>1
  <2> QED
    BY <1>0, <2>2 DEF stored
<1> QED
  BY <1>3, <1>4 DEF e, L, stored

\* What processing a handshake message changes.
LEMMA RecvFrame ==
  ASSUME NEW s, SessionInv(s), NEW r, Genuine(r), r.type # "ack",
         NEW t, t = ProcessRecord(s, r)
  PROVE  /\ DOMAIN t = SessionFields
         /\ \A f \in SessionFields \ {"FastTimeout", "seenRecords", "rtx", "retransmit", "sendAcks",
                                      "rx_msgs", "expected", "serverState"} : t[f] = s[f]
         /\ t.seenRecords = s.seenRecords \cup {Number(r)}
         /\ IF r.no < s.expected
            THEN /\ t.rtx = s.rtx /\ t.rx_msgs = s.rx_msgs /\ t.expected = s.expected
                 /\ t.serverState = s.serverState
            ELSE /\ t.rtx = s.rtx \/ (t.rtx = <<>> /\ ~s.handShakeDone)
                 /\ t.expected = FirstMissing(s, r.no)
                 /\ t.rx_msgs = (s.rx_msgs \cup {r.no}) \ (0 .. FirstMissing(s, r.no) - 1)
                 /\ t.serverState = IF FirstMissing(s, r.no) > s.expected
                                    THEN StateAfter(FirstMissing(s, r.no) - 1) ELSE s.serverState
<1> DEFINE b == [s EXCEPT !.FastTimeout = TRUE, !.seenRecords = @ \cup {Number(r)}]
           m == RtxMsgRecvd(b, r)
           next == FirstMissing(s, r.no)
<1>1. DOMAIN s = SessionFields /\ s.expected \in Nat /\ r.no \in Nat
  BY DEF SessionInv, IsSession, Genuine
<1>2. /\ DOMAIN b = SessionFields /\ (\A f \in SessionFields \ {"FastTimeout", "seenRecords"} : b[f] = s[f])
      /\ b.seenRecords = s.seenRecords \cup {Number(r)}
  BY <1>1 DEF SessionFields
<1>3. t = Dtls13HandshakeRecv(b, r)
  BY DEF ProcessRecord
<1> HIDE DEF b
<1>4. b.expected = s.expected /\ b.rx_msgs = s.rx_msgs /\ b.rtx = s.rtx /\ b.serverState = s.serverState
      /\ b.handShakeDone = s.handShakeDone
  BY <1>2 DEF SessionFields
<1>5. next = CHOOSE n \in b.expected .. Len(Flights) :
                n \notin b.rx_msgs \cup {r.no} /\ b.expected .. n - 1 \subseteq b.rx_msgs \cup {r.no}
  BY <1>4 DEF FirstMissing
<1> HIDE DEF next
<1>6. t = IF r.no < b.expected THEN m
          ELSE [m EXCEPT !.rx_msgs = (b.rx_msgs \cup {r.no}) \ (0 .. next - 1),
                         !.expected = next,
                         !.serverState = IF next > b.expected THEN StateAfter(next - 1) ELSE @,
                         !.sendAcks = @ /\ next = b.expected]
  BY <1>3, <1>5 DEF Dtls13HandshakeRecv
<1>7. /\ DOMAIN m = SessionFields /\ (\A f \in SessionFields \ {"rtx", "retransmit", "sendAcks"} : m[f] = b[f])
      /\ r.no < b.expected => m.rtx = b.rtx
      /\ m.rtx = b.rtx \/ (m.rtx = <<>> /\ ~b.handShakeDone)
  <2>1. CASE r.no >= b.expected /\ ~b.handShakeDone /\ (b.serverState >= SERVER_HELLO_COMPLETE \/ b.seenUnifiedHdr)
    <3>1. m = [b EXCEPT !.rtx = <<>>]
      BY <2>1 DEF RtxMsgRecvd
    <3> HIDE DEF m
    <3>2. ~(r.no < b.expected)
      BY <1>1, <1>4, <2>1
    <3> QED
      BY <1>2, <2>1, <3>1, <3>2 DEF SessionFields, m
  <2>2. CASE r.no >= b.expected /\ ~(~b.handShakeDone /\ (b.serverState >= SERVER_HELLO_COMPLETE \/ b.seenUnifiedHdr))
    <3>1. m = b
      BY <2>2 DEF RtxMsgRecvd
    <3> HIDE DEF m
    <3> QED
      BY <1>2, <3>1 DEF m
  <2>3. CASE ~(r.no >= b.expected)
    <3>1. m = [b EXCEPT !.retransmit = TRUE, !.sendAcks = @ \/ b.seenRecords # {}]
      BY <2>3 DEF RtxMsgRecvd
    <3> HIDE DEF m
    <3> QED
      BY <1>2, <3>1 DEF SessionFields, m
  <2> QED
    BY <2>1, <2>2, <2>3
<1> HIDE DEF m
<1>8. CASE r.no < b.expected
  <2>1. t = m
    BY <1>6, <1>8
  <2> QED
    BY <1>2, <1>4, <1>7, <1>8, <2>1 DEF SessionFields
<1>9. CASE ~(r.no < b.expected)
  <2>1. t = [m EXCEPT !.rx_msgs = (b.rx_msgs \cup {r.no}) \ (0 .. next - 1),
                         !.expected = next,
                         !.serverState = IF next > b.expected THEN StateAfter(next - 1) ELSE @,
                         !.sendAcks = @ /\ next = b.expected]
    BY <1>6, <1>9
  <2>2. /\ DOMAIN t = SessionFields
        /\ \A f \in SessionFields \ {"rx_msgs", "expected", "serverState", "sendAcks"} : t[f] = m[f]
        /\ t.rx_msgs = (b.rx_msgs \cup {r.no}) \ (0 .. next - 1)
        /\ t.expected = next
        /\ t.serverState = IF next > b.expected THEN StateAfter(next - 1) ELSE m.serverState
    BY <1>7, <2>1 DEF SessionFields
  <2>3. m.serverState = s.serverState /\ t.rtx = m.rtx /\ t.seenRecords = b.seenRecords
    BY <1>2, <1>7, <2>2 DEF SessionFields
  <2>4. \A f \in SessionFields \ {"FastTimeout", "seenRecords", "rtx", "retransmit", "sendAcks",
                                      "rx_msgs", "expected", "serverState"} : t[f] = s[f]
    BY <1>2, <1>7, <2>2
  <2> QED
    BY <1>2, <1>4, <1>7, <1>9, <2>2, <2>3, <2>4 DEF next
<1> QED
  BY <1>8, <1>9

\* A message is stored, and those that are complete are processed: what its record
\* is acknowledged for is kept.
LEMMA RecvKeeps ==
  ASSUME NEW s, SessionInv(s), Fine(s), s.connectState \in Waiting, WireType,
         \A c \in carries : c[3] \in 0 .. Len(Flights) - 1,
         NEW r, Genuine(r), r.type # "ack", ~DropsHeader(s, r),
         NEW t, t = ProcessRecord(s, r)
  PROVE  SessionInv(t) /\ Fine(t)
<1> DEFINE L == Len(Flights)
           e == s.expected
           next == FirstMissing(s, r.no)
<1>1. IsSession(s) /\ Progressed(s) /\ Claim(s) /\ Numbered(s) /\ Honest(s) /\ Covered(s)
  BY DEF SessionInv, Alright, Fine
<1>2. /\ DOMAIN t = SessionFields
      /\ \A f \in SessionFields \ {"FastTimeout", "seenRecords", "rtx", "retransmit", "sendAcks",
                                      "rx_msgs", "expected", "serverState"} : t[f] = s[f]
      /\ t.seenRecords = s.seenRecords \cup {Number(r)}
      /\ IF r.no < e
         THEN /\ t.rtx = s.rtx /\ t.rx_msgs = s.rx_msgs /\ t.expected = e
              /\ t.serverState = s.serverState
         ELSE /\ t.rtx = s.rtx \/ (t.rtx = <<>> /\ ~s.handShakeDone)
              /\ t.expected = next
              /\ t.rx_msgs = (s.rx_msgs \cup {r.no}) \ (0 .. next - 1)
              /\ t.serverState = IF next > e THEN StateAfter(next - 1) ELSE s.serverState
  BY RecvFrame
<1>3. /\ t.connectState = s.connectState /\ t.dtls_handshake_number = s.dtls_handshake_number
      /\ t.hellos = s.hellos /\ t.handShakeDone = s.handShakeDone
      /\ t.nextSeq = s.nextSeq /\ t.outputBuffer = s.outputBuffer /\ t.sent = s.sent
      /\ t.error = s.error /\ Out(t) = Out(s)
  BY <1>2 DEF SessionFields, Out
<1>4. /\ e \in 0 .. L /\ e \notin s.rx_msgs /\ s.rx_msgs \subseteq 0 .. L - 1 /\ r.no \in 0 .. L - 1
      /\ L \in {3, 4}
  BY <1>1, FlightFacts DEF Progressed, ProgressedAt, Genuine
<1>5. ~(r.no < e) =>
        /\ next \in e .. L /\ next \notin s.rx_msgs \cup {r.no}
        /\ e .. next - 1 \subseteq s.rx_msgs \cup {r.no}
        /\ next > e => r.no = e
  BY <1>4, FirstMissingFacts
<1> HIDE DEF L, e, next
\* What is kept is what was, and this message.
<1>6. \A no \in 0 .. L - 1 : Kept(t, no) <=> Kept(s, no) \/ no = r.no
  <2>1. CASE r.no < e
    BY <1>2, <1>4, <2>1 DEF Kept, e
  <2>2. CASE ~(r.no < e)
    <3>1. t.expected = next /\ t.rx_msgs = (s.rx_msgs \cup {r.no}) \ (0 .. next - 1)
      BY <1>2, <2>2
    <3> SUFFICES ASSUME NEW no \in 0 .. L - 1
                 PROVE  (no < next \/ no \in (s.rx_msgs \cup {r.no}) \ (0 .. next - 1))
                        <=> (no < e \/ no \in s.rx_msgs \/ no = r.no)
      BY <3>1 DEF Kept, e
    <3>2. no < next => no < e \/ no \in e .. next - 1
      BY <1>4, <1>5, <2>2
    <3>3. no < e => no < next
      BY <1>4, <1>5, <2>2
    <3>4. ~(no < next) => no \notin 0 .. next - 1
      BY <1>4, <1>5, <2>2
    <3> QED
      BY <1>5, <2>2, <3>2, <3>3, <3>4
  <2> QED
    BY <2>1, <2>2
<1>7. IsSession(t)
  <2>1. Number(r) \in Numbers
    BY DEF Number, Numbers, Genuine
  <2>2. t.seenRecords \in SUBSET Numbers
    BY <1>1, <1>2, <2>1 DEF IsSession
  <2>3. t.rtx \in Seq(Entries)
    <3>1. s.rtx \in Seq(Entries) /\ <<>> \in Seq(Entries)
      BY <1>1 DEF IsSession
    <3>2. t.rtx = s.rtx \/ t.rtx = <<>>
      BY <1>2
    <3> QED
      BY <3>1, <3>2
  <2>4. t.expected \in Nat /\ t.rx_msgs \in SUBSET Nat /\ t.serverState \in 0 .. 4
    <3>1. CASE r.no < e
      BY <1>1, <1>2, <3>1 DEF IsSession, e
    <3>2. CASE ~(r.no < e)
      <4>1. next \in Nat /\ (next > e => next - 1 \in 0 .. L - 1)
        BY <1>4, <1>5, <3>2
      <4>2. next > e => StateAfter(next - 1) \in 1 .. 3
        BY <4>1, StateAfterFacts DEF L
      <4>3. s.serverState \in 0 .. 4
        BY <1>1 DEF IsSession
      <4>4. t.serverState \in 0 .. 4
        BY <1>2, <3>2, <4>2, <4>3
      <4> QED
        BY <1>2, <1>4, <3>2, <4>1, <4>4
    <3> QED
      BY <3>1, <3>2
  <2> QED
    BY <1>1, <1>2, <1>3, <2>2, <2>3, <2>4 DEF IsSession
<1>8. Sent(t) = Sent(s) /\ AckNums(t) = AckNums(s) \cup {Number(r)}
  BY <1>2, <1>3 DEF Sent, AckNums
<1>9. ToSet(t.rtx) \subseteq ToSet(s.rtx)
  BY <1>2 DEF ToSet
<1>10. Said(t) \subseteq Said(s)
  BY <1>8, <1>9 DEF Said
<1>11. Claim(t)
  <2>1. ASSUME NEW c \in carries, <<c[1], c[2]>> \in AckNums(t) \cup acknowledged
        PROVE  Kept(t, c[3])
    <3>1. c[3] \in 0 .. L - 1
      BY DEF L
    <3>2. CASE <<c[1], c[2]>> = Number(r)
      <4>1. c[1] = r.epoch /\ c[2] = r.seq
        BY <3>2 DEF Number
      <4>2. c[3] = r.no
        BY <4>1 DEF Genuine
      <4> QED
        BY <1>4, <1>6, <4>2
    <3>3. CASE <<c[1], c[2]>> \in AckNums(s) \cup acknowledged
      <4>1. Kept(s, c[3])
        BY <1>1, <3>3 DEF Claim
      <4> QED
        BY <1>6, <3>1, <4>1
    <3> QED
      BY <1>8, <2>1, <3>2, <3>3
  <2>2. ASSUME NEW x \in AckNums(t) \cup acknowledged
        PROVE  x[1] \in Epochs /\ x[2] \in Nat /\ x[2] < server.next[x[1]]
    <3>1. CASE x = Number(r)
      <4>1. x[1] = r.epoch /\ x[2] = r.seq
        BY <3>1 DEF Number
      <4> QED
        BY <4>1 DEF Genuine
    <3>2. CASE x \in AckNums(s) \cup acknowledged
      BY <1>1, <3>2 DEF Claim
    <3> QED
      BY <1>8, <3>1, <3>2
  <2> QED
    BY <2>1, <2>2 DEF Claim
<1>12. Numbered(t)
  BY <1>1, <1>3, <1>8, <1>9 DEF Numbered
\* A message that is new comes before the client's own next flight.
<1>13. ~(r.no < e) => s.connectState \in {"CLIENT_HELLO_SENT", "HELLO_AGAIN_REPLY"} /\ s.serverState < 3
  <2>1. s.connectState \notin Early => e = L
    BY <1>1 DEF Progressed, ProgressedAt, e, L
  <2>2. s.serverState >= 3 => e = L
    BY <1>1 DEF Progressed, ProgressedAt, e, L
  <2>3. s.serverState \in 0 .. 4
    BY <1>1 DEF IsSession
  <2>4. ~(r.no < e) => e # L
    BY <1>4
  <2> QED
    BY <2>1, <2>2, <2>3, <2>4 DEF Early, Waiting
<1>14. ~(r.no < e) => s.serverState = IF e = 0 THEN 0 ELSE StateAfter(e - 1)
  BY <1>1, <1>13 DEF Progressed, ProgressedAt, e
<1>15. ~(r.no < e) /\ next > e =>
         /\ t.serverState = StateAfter(next - 1) /\ next - 1 \in 0 .. L - 1 /\ t.serverState \in 1 .. 3
         /\ t.serverState = 3 <=> next = L
         /\ t.serverState < 2 => next = 1
  <2> SUFFICES ASSUME ~(r.no < e), next > e
               PROVE  /\ t.serverState = StateAfter(next - 1) /\ next - 1 \in 0 .. L - 1
                      /\ t.serverState \in 1 .. 3
                      /\ t.serverState = 3 <=> next = L
                      /\ t.serverState < 2 => next = 1
    OBVIOUS
  <2>1. next - 1 \in 0 .. L - 1 /\ next \in Int /\ L \in Int
    BY <1>4, <1>5
  <2>2. /\ StateAfter(next - 1) \in 1 .. 3
        /\ StateAfter(next - 1) = 3 <=> next - 1 = L - 1
        /\ StateAfter(next - 1) < 2 => next - 1 = 0
    BY <2>1, StateAfterFacts DEF L
  <2>3. t.serverState = StateAfter(next - 1)
    BY <1>2
  <2> QED
    BY <2>1, <2>2, <2>3
<1>16. Progressed(t)
  <2>1. CASE r.no < e
    <3>1. t.rx_msgs = s.rx_msgs /\ t.expected = s.expected /\ t.serverState = s.serverState
      BY <1>2, <2>1 DEF e
    <3> QED
      BY <1>1, <1>3, <3>1 DEF Progressed, ProgressedAt, Kept
  <2>2. CASE ~(r.no < e)
    <3>1. /\ t.expected = next /\ t.rx_msgs = (s.rx_msgs \cup {r.no}) \ (0 .. next - 1)
          /\ t.serverState = IF next > e THEN StateAfter(next - 1) ELSE s.serverState
          /\ t.connectState \in {"CLIENT_HELLO_SENT", "HELLO_AGAIN_REPLY"}
          /\ s.serverState \in 0 .. 2
      BY <1>1, <1>2, <1>3, <1>13, <2>2 DEF IsSession
    <3>2. next \in 0 .. L /\ next \notin t.rx_msgs /\ t.rx_msgs \subseteq 0 .. L - 1 /\ e \in Nat
          /\ (next > e \/ next = e)
      BY <1>4, <1>5, <2>2, <3>1
    <3>3. t.dtls_handshake_number <= t.hellos
      BY <1>1, <1>3, <1>13, <2>2 DEF Progressed, ProgressedAt, Early
    <3>4. t.serverState >= 3 => next = L
      BY <1>15, <2>2, <3>1, <3>2
    <3>5. t.serverState # 4
      BY <1>15, <2>2, <3>1, <3>2
    <3>6. t.serverState = IF next = 0 THEN 0 ELSE StateAfter(next - 1)
      <4>1. CASE next > e
        BY <1>15, <2>2, <3>1, <3>2, <4>1
      <4>2. CASE next = e
        BY <1>14, <2>2, <3>1, <3>2, <4>2
      <4> QED
        BY <3>2, <4>1, <4>2
    <3>7. t.connectState = "HELLO_AGAIN_REPLY" => t.serverState >= 1
      <4>1. s.connectState = "HELLO_AGAIN_REPLY" => s.serverState >= 1
        BY <1>1 DEF Progressed, ProgressedAt
      <4> QED
        BY <1>3, <1>15, <2>2, <3>1, <3>2, <4>1
    <3>8. ASSUME t.serverState < 2, NEW no \in t.rx_msgs PROVE FlightEpoch(no) = 0
      <4>1. s.serverState < 2
        <5>1. CASE next > e
          <6>1. e = 0
            BY <1>15, <2>2, <3>2, <3>8, <5>1
          <6> QED
            BY <1>14, <2>2, <6>1
        <5>2. CASE next = e
          BY <3>1, <3>2, <3>8, <5>2
        <5> QED
          BY <3>2, <5>1, <5>2
      <4>2. no \in s.rx_msgs \/ no = r.no
        BY <3>1
      <4>3. CASE no \in s.rx_msgs
        BY <1>1, <4>1, <4>3 DEF Progressed, ProgressedAt
      <4>4. CASE no = r.no
        <5>1. ~HasKeys(s, r.epoch)
          BY <3>1, <4>1 DEF HasKeys, SERVER_HELLO_COMPLETE, SERVER_FINISHED_COMPLETE
        <5>2. r.epoch = 0
          BY <5>1 DEF DropsHeader
        <5> QED
          BY <4>4, <5>2 DEF Genuine
      <4> QED
        BY <4>2, <4>3, <4>4
    <3>9. ASSUME NEW no \in 0 .. L - 1, Kept(t, no) PROVE ReleasedOnce(no)
      <4>1. CASE no = r.no
        BY <4>1 DEF Genuine
      <4>2. CASE Kept(s, no)
        BY <1>1, <4>2 DEF Progressed, ProgressedAt, L
      <4> QED
        BY <1>6, <3>9, <4>1, <4>2
    <3>10. t.connectState \in Early /\ t.connectState \notin {"FINISHED_DONE", "CONNECT_BEGIN", "HELLO_AGAIN"}
      BY <3>1 DEF Early
    <3> QED
      BY <3>1, <3>2, <3>3, <3>4, <3>5, <3>6, <3>7, <3>8, <3>9, <3>10 DEF Progressed, ProgressedAt, L
  <2> QED
    BY <2>1, <2>2
<1>17. Honest(t)
  <2>1. /\ \A a, b \in Said(t) : a[1] = b[1] => a[2] = b[2]
        /\ \A a \in Said(t) : a[1] < server.got => a[2] = Answers[a[1] + 1]
        /\ \A a \in Said(t) : a[1] < t.dtls_handshake_number
                        \/ (a[1] = t.dtls_handshake_number /\ t.connectState \in Late)
        /\ t.connectState \notin Late => server.got <= t.dtls_handshake_number
    BY <1>1, <1>3, <1>10 DEF Honest, HonestAt
  <2>2. t.connectState \in Early =>
       /\ \A a \in Said(t) : a[2] = "CH"
       /\ \A m \in ToSet(t.rtx) : m.epoch = 0
       /\ ~t.handShakeDone /\ server.got <= Hellos
    BY <1>1, <1>3, <1>9, <1>10 DEF Honest, HonestAt
  <2>3. t.handShakeDone => Done \/ HasFin(t)
    <3>1. t.handShakeDone => t.rtx = s.rtx
      BY <1>2, <1>3
    <3> QED
      BY <1>1, <1>3, <3>1 DEF Honest, HonestAt, HasFin
  <2>4. t.handShakeDone /\ t.serverState = 4 => Done
    <3>1. t.serverState = 4 => s.serverState = 4
      <4>1. CASE r.no < e
        BY <1>2, <4>1
      <4>2. CASE ~(r.no < e)
        BY <1>2, <1>15, <4>2
      <4> QED
        BY <4>1, <4>2
    <3> QED
      BY <1>1, <1>3, <3>1 DEF Honest, HonestAt
  <2> QED
    BY <2>1, <2>2, <2>3, <2>4 DEF Honest, HonestAt
<1>18. Covered(t)
  <2>1. CASE r.no < e
    <3>1. t.rtx = s.rtx /\ t.serverState = s.serverState
      BY <1>2, <2>1
    <3> QED
      BY <1>1, <1>3, <3>1 DEF Covered, CoveredAt
  <2>2. CASE ~(r.no < e)
    <3>1. ReleasedOnce(r.no) /\ server.got \in Nat /\ Hellos \in {1, 2} /\ Len(Answers) \in Nat
      BY FlightFacts DEF Genuine, WireType
    <3>2. server.got >= 1
      BY <3>1 DEF ReleasedOnce
    <3>3. s.connectState = "HELLO_AGAIN_REPLY" => server.got >= Hellos
      <4>1. s.connectState = "HELLO_AGAIN_REPLY" => e # 0
        BY <1>1, <1>14, <2>2 DEF Progressed, ProgressedAt
      <4>2. s.connectState = "HELLO_AGAIN_REPLY" => r.no + 1 # 1 /\ r.no + 1 \in 1 .. L
        BY <1>4, <2>2, <4>1
      <4>3. s.connectState = "HELLO_AGAIN_REPLY" => Flights[r.no + 1] # "HRR"
        BY <4>2, FlightFacts DEF L
      <4> QED
        BY <3>1, <4>3 DEF ReleasedOnce
    <3> QED
      BY <1>3, <1>13, <2>2, <3>2, <3>3 DEF Covered, CoveredAt
  <2> QED
    BY <2>1, <2>2
<1> QED
  BY <1>3, <1>7, <1>11, <1>12, <1>16, <1>17, <1>18 DEF SessionInv, Fine

-----------------------------------------------------------------------------
(* A poll as a whole                                                        *)

\* The header of a record sets flags only.
LEMMA HeaderAgain ==
  ASSUME NEW s, IsSession(s), NEW r, NEW h, h = GetDtlsRecordHeader(s, r)
  PROVE  Again(s, h) /\ h.error = s.error /\ h.connectState = s.connectState
<1>1. CASE r.epoch = 0
  <2>1. h = s
    BY <1>1 DEF GetDtlsRecordHeader
  <2> QED
    BY <2>1, AgainSame DEF SameProgress
<1>2. CASE r.epoch # 0
  <2>1. h = [s EXCEPT !.seenUnifiedHdr = TRUE,
                 !.sendAcks = @ \/ (~HasKeys(s, r.epoch)
                                    /\ s.serverState < SERVER_HELLO_COMPLETE)]
    BY <1>2 DEF GetDtlsRecordHeader
  <2>2. DOMAIN h = SessionFields /\ \A f \in SessionFields \ {"seenUnifiedHdr", "sendAcks"} : h[f] = s[f]
    BY <2>1 DEF IsSession
  <2>3. \A f \in SessionFields \ Flags : h[f] = s[f]
    BY <2>2 DEF Flags
  <2>4. h.error = s.error /\ h.connectState = s.connectState
    BY <2>2 DEF SessionFields
  <2> QED
    BY <2>2, <2>3, <2>4, FlagsAgain
<1> QED
  BY <1>1, <1>2

\* What a poll may leave the session in.
Ended(s) ==
  /\ SessionInv(s)
  /\ Fine(s) => Settled(s)
  /\ Alright(s) /\ ~Fine(s) =>
       s.outputBuffer # <<>> /\ (s.connectState \in Sending => s.rtx # <<>>)

\* A poll ends where connect has.
LEMMA RanEnds ==
  ASSUME NEW s, Fine(s), NEW t, Ran(s, t), Fine(t) => Settled(t)
  PROVE  Ended(t)
BY DEF Ran, Ended, Stuck

\* A record that is dropped, an acknowledgement, or a message.
LEMMA ProcessedKeeps ==
  ASSUME NEW s, SessionInv(s), Fine(s), s.connectState \in Waiting, WireType,
         \A c \in carries : c[3] \in 0 .. Len(Flights) - 1,
         \A x \in Confirmed : x[1] = 2,
         NEW r, Genuine(r), NEW isNew \in BOOLEAN, NEW t, t = Processed(s, r, isNew)
  PROVE  SessionInv(t) /\ Stuck(s, t) /\ t.connectState \in Waiting
<1>1. IsSession(s) /\ Alright(s)
  BY DEF SessionInv, Alright, Fine
<1>2. CASE t = s
  BY <1>2 DEF Stuck
<1>3. CASE t = Dtls13DoScheduledWork(s)
  <2>1. Again(s, t) /\ Stuck(s, t)
    BY <1>1, <1>3, ScheduledWorkAgain
  <2> QED
    BY <1>1, <2>1, AgainKeeps DEF Again, SameProgress
<1>4. CASE ~DropsHeader(s, r) /\ t = Dtls13DoScheduledWork(ProcessRecord(s, r))
  <2> DEFINE u == ProcessRecord(s, r)
  <2>1. SessionInv(u) /\ Fine(u) /\ u.connectState = s.connectState
    <3>1. CASE r.type = "ack"
      <4>1. u = DoDtls13Ack(s, r)
        BY <3>1 DEF ProcessRecord
      <4> HIDE DEF u
      <4>2. SessionInv(u) /\ u.error = s.error
        BY <1>1, <3>1, <4>1, AckKeeps DEF Genuine
      <4>3. u.connectState = s.connectState
        BY <1>1, <4>1 DEF DoDtls13Ack, IsSession, SessionFields
      <4> QED
        BY <4>2, <4>3 DEF Fine, u
    <3>2. CASE r.type # "ack"
      <4> HIDE DEF u
      <4>1. SessionInv(u) /\ Fine(u)
        BY <1>4, <3>2, RecvKeeps DEF u
      <4>2. u.connectState = s.connectState
        <5>1. \A f \in SessionFields \ {"FastTimeout", "seenRecords", "rtx", "retransmit", "sendAcks",
                                      "rx_msgs", "expected", "serverState"} : u[f] = s[f]
          BY <3>2, RecvFrame DEF u
        <5> QED
          BY <5>1 DEF SessionFields
      <4> QED
        BY <4>1, <4>2 DEF u
    <3> QED
      BY <3>1, <3>2
  <2>2. t = Dtls13DoScheduledWork(u)
    BY <1>4
  <2> HIDE DEF u
  <2>3. IsSession(u) /\ Alright(u)
    BY <2>1 DEF SessionInv, Alright, Fine
  <2>4. Again(u, t) /\ Stuck(u, t)
    BY <2>2, <2>3, ScheduledWorkAgain
  <2>5. SessionInv(t) /\ t.connectState = u.connectState
    BY <2>1, <2>3, <2>4, AgainKeeps DEF Again, SameProgress
  <2> QED
    BY <2>1, <2>4, <2>5 DEF Stuck
<1> QED
  BY <1>2, <1>3, <1>4 DEF Processed

\* What a poll begins with.
LEMMA CalledFacts ==
  ASSUME NEW io, IsSession(ssl), ssl.error = "none", NEW c, c = Called(io)
  PROVE  /\ Again(ssl, c) /\ Fine(c) /\ c.connectState = ssl.connectState
         /\ c.rtx = ssl.rtx /\ c.outputBuffer = ssl.outputBuffer
<1>1. c = [ssl EXCEPT !.room = io.room, !.fault = io.fault]
  BY DEF Called
<1>2. DOMAIN c = SessionFields /\ \A f \in SessionFields \ {"room", "fault"} : c[f] = ssl[f]
  BY <1>1 DEF IsSession
<1>3. \A f \in SessionFields \ Flags : c[f] = ssl[f]
  BY <1>2 DEF Flags
<1>4. c.error = "none" /\ c.connectState = ssl.connectState /\ c.rtx = ssl.rtx
      /\ c.outputBuffer = ssl.outputBuffer
  BY <1>2 DEF SessionFields
<1> QED
  BY <1>2, <1>3, <1>4, FlagsAgain DEF Fine

\* A poll.
LEMMA PollEnds ==
  ASSUME SessionInv(ssl), ssl.error = "none", Resting(ssl), WireType, NEW io
  PROVE  Ended(wolfSSL_connect(Called(io)))
<1> DEFINE c == Called(io)
           t == wolfSSL_connect(c)
<1>1. IsSession(ssl) /\ Alright(ssl)
  BY DEF SessionInv, Alright
<1>2. /\ Again(ssl, c) /\ Fine(c) /\ c.connectState = ssl.connectState
      /\ c.rtx = ssl.rtx /\ c.outputBuffer = ssl.outputBuffer
  BY <1>1, CalledFacts
<1> HIDE DEF c, t
<1>3. SessionInv(c)
  BY <1>1, <1>2, AgainKeeps
<1>4. c.connectState \in Sending /\ c.outputBuffer # <<>> => c.rtx # <<>>
  BY <1>2 DEF Resting
<1>5. Ran(c, t) /\ (Fine(t) => Settled(t))
  BY <1>2, <1>3, <1>4, ConnectRan DEF t
<1> QED
  BY <1>2, <1>5, RanEnds DEF t, c

\* A poll after the timer has expired.
LEMMA TimeoutEnds ==
  ASSUME SessionInv(ssl), ssl.error = "none", Resting(ssl), WireType, TimerRuns, NEW io,
         NEW t, t = Dtls13RtxTimeout(Called(io))
  PROVE  Ended(IF Fine(t) THEN wolfSSL_connect(t) ELSE [t EXCEPT !.error = "FATAL"])
<1> DEFINE c == Called(io)
<1>1. IsSession(ssl) /\ Alright(ssl)
  BY DEF SessionInv, Alright
<1>2. /\ Again(ssl, c) /\ Fine(c) /\ c.connectState = ssl.connectState
      /\ c.rtx = ssl.rtx /\ c.outputBuffer = ssl.outputBuffer
  BY <1>1, CalledFacts
<1>3. t = Dtls13RtxTimeout(c)
  OBVIOUS
<1> HIDE DEF c
<1>4. SessionInv(c) /\ IsSession(c) /\ Alright(c)
  BY <1>1, <1>2, AgainKeeps DEF SessionInv, Alright, Fine
<1>5. Again(c, t)
  BY <1>3, <1>4, RtxTimeoutAgain
<1>6. SessionInv(t) /\ IsSession(t)
  BY <1>4, <1>5, AgainKeeps DEF SessionInv
<1>7. CASE Fine(t)
  <2> DEFINE u == wolfSSL_connect(t)
  <2>1. t.connectState = ssl.connectState /\ Len(t.rtx) = Len(ssl.rtx)
    BY <1>2, <1>5 DEF Again, SameProgress
  <2>2. ssl.connectState \in Sending => ssl.rtx # <<>>
    BY DEF Resting, TimerRuns, Settled
  <2>3. ssl.rtx # <<>> => t.rtx # <<>>
    <3>1. ssl.rtx \in Seq(Entries) /\ t.rtx \in Seq(Entries)
      BY <1>1, <1>6 DEF IsSession
    <3> QED
      BY <2>1, <3>1, EmptySeq
  <2> HIDE DEF u
  <2>4. Ran(t, u) /\ (Fine(u) => Settled(u))
    BY <1>6, <1>7, <2>1, <2>2, <2>3, ConnectRan DEF u
  <2> QED
    BY <1>7, <2>4, RanEnds DEF u
<1>8. CASE ~Fine(t)
  <2> DEFINE u == [t EXCEPT !.error = "FATAL"]
  <2>1. DOMAIN t = SessionFields
    BY <1>6 DEF IsSession
  <2>2. DOMAIN u = SessionFields /\ (\A f \in SessionFields \ Flags : u[f] = t[f]) /\ u.error = "FATAL"
    BY <2>1 DEF Flags, SessionFields
  <2> HIDE DEF u
  <2>3. Again(c, u)
    BY <1>5, <1>6, <2>2, FlagsAgain, AgainTwice
  <2>4. SessionInv(u)
    BY <1>4, <2>3, AgainKeeps
  <2>5. ~Fine(u) /\ ~Alright(u)
    BY <2>2 DEF Fine, Alright
  <2> QED
    BY <1>8, <2>4, <2>5 DEF Ended, u
<1> QED
  BY <1>7, <1>8

\* A poll that a datagram has arrived for.
LEMMA ReceiveEnds ==
  ASSUME SessionInv(ssl), ssl.error = "none", ssl.connectState \in Waiting, WireType,
         \A c \in carries : c[3] \in 0 .. Len(Flights) - 1,
         \A x \in Confirmed : x[1] = 2,
         NEW io, NEW r, Genuine(r), NEW isNew \in BOOLEAN,
         NEW t, t = Processed(GetDtlsRecordHeader(Called(io), r), r, isNew)
  PROVE  Ended(IF Fine(t) THEN Stages(t) ELSE t)
<1> DEFINE c == Called(io)
           h == GetDtlsRecordHeader(c, r)
<1>1. IsSession(ssl) /\ Alright(ssl)
  BY DEF SessionInv, Alright
<1>2. Again(ssl, c) /\ Fine(c) /\ c.connectState = ssl.connectState
  BY <1>1, CalledFacts
<1>3. t = Processed(h, r, isNew)
  OBVIOUS
<1> HIDE DEF c
<1>4. IsSession(c)
  BY <1>2 DEF Again
<1>5. Again(c, h) /\ h.error = c.error /\ h.connectState = c.connectState
  BY <1>4, HeaderAgain
<1> HIDE DEF h
<1>6. SessionInv(h) /\ Fine(h)
  BY <1>1, <1>2, <1>5, AgainTwice, AgainKeeps DEF Fine
<1>7. SessionInv(t) /\ Stuck(h, t) /\ t.connectState \in Waiting
  BY <1>2, <1>3, <1>5, <1>6, ProcessedKeeps
<1>8. CASE Fine(t)
  BY <1>7, <1>8, StagesRan, RanEnds
<1>9. CASE ~Fine(t)
  <2>1. t.outputBuffer # <<>>
    BY <1>6, <1>7, <1>9 DEF Stuck
  <2>2. t.connectState \notin Sending
    BY <1>7 DEF Waiting, Sending
  <2> QED
    BY <1>7, <1>9, <2>1, <2>2 DEF Ended
<1> QED
  BY <1>8, <1>9

-----------------------------------------------------------------------------
(* The invariant of the handshake                                           *)

\* What the network delivers was sent by the server.
LEMMA GenuineRecords ==
  ASSUME Carried, NEW r \in to_client
  PROVE  Genuine(r)
<1>1. r.type = "ack" => r.acks \subseteq Confirmed
  BY DEF Confirmed
<1>2. ASSUME r.type # "ack"
      PROVE  /\ r.no \in 0 .. Len(Flights) - 1 /\ r.epoch = FlightEpoch(r.no) /\ ReleasedOnce(r.no)
             /\ \A c \in carries : c[1] = r.epoch /\ c[2] = r.seq => c[3] = r.no
  <2> DEFINE d == <<r.epoch, r.seq, r.no>>
  <2>1. d \in carries /\ d[1] = r.epoch /\ d[2] = r.seq /\ d[3] = r.no
    BY <1>2 DEF Carried
  <2> HIDE DEF d
  <2> QED
    BY <1>2, <2>1 DEF Carried
<1> QED
  BY <1>1, <1>2 DEF Carried, Genuine

\* A poll keeps the invariant, whatever it leaves the session in.
LEMMA ReturnKeeps ==
  ASSUME HandshakeInv, NEW s, Ended(s), Return(s), UNCHANGED <<server, carries>>,
         to_client' \subseteq to_client
  PROVE  HandshakeInv'
<1> DEFINE t == [s EXCEPT !.error = "none", !.room = 0, !.fault = "none", !.sent = {}]
<1>1. IsSession(s) /\ Progressed(s) /\ Claim(s) /\ Numbered(s) /\ (Alright(s) => Honest(s) /\ Covered(s))
  BY DEF Ended, SessionInv
<1>2. /\ ssl' = t /\ to_server' \subseteq to_server \cup s.sent
      /\ acknowledged' = acknowledged \cup Acks(s.sent)
  BY DEF Return, ForServer
<1>3. future' = IF s.error \notin {"none", "WANT_WRITE"} THEN "error"
               ELSE IF s.connectState = "FINISHED_DONE" THEN "ok" ELSE "connecting"
  BY DEF Return
<1>4. /\ DOMAIN t = SessionFields
      /\ \A f \in SessionFields \ {"error", "room", "fault", "sent"} : t[f] = s[f]
      /\ t.error = "none" /\ t.sent = {}
  BY <1>1 DEF IsSession, SessionFields
<1> HIDE DEF t
<1>5. /\ t.connectState = s.connectState /\ t.serverState = s.serverState
      /\ t.dtls_handshake_number = s.dtls_handshake_number
      /\ t.expected = s.expected /\ t.rx_msgs = s.rx_msgs /\ t.hellos = s.hellos
      /\ t.handShakeDone = s.handShakeDone /\ t.rtx = s.rtx /\ t.seenRecords = s.seenRecords
      /\ t.nextSeq = s.nextSeq /\ t.outputBuffer = s.outputBuffer
  BY <1>4 DEF SessionFields
<1>6. Out(t) \cup s.sent = Out(s)
  BY <1>4, <1>5 DEF Out
<1>7. server' = server /\ carries' = carries
  OBVIOUS
<1>8. /\ Flights' = Flights /\ Hellos' = Hellos /\ Answers' = Answers
  BY <1>7 DEF Flights, Hellos, Answers
<1>9. Confirmed' \subseteq Confirmed
  BY <1>7 DEF Confirmed
<1>10. WireType'
  <2>1. s.sent \subseteq Datagrams
    BY <1>1 DEF IsSession
  <2> QED
    BY <1>2, <1>7, <1>8, <1>9, <2>1 DEF WireType, HandshakeInv
<1>11. ServerType'
  BY <1>7 DEF ServerType, HandshakeInv
<1>12. Carried'
  <2>1. \A r \in to_server' : r.acks \subseteq acknowledged'
    BY <1>2 DEF Acks, HandshakeInv, Carried
  <2>2. /\ \A c \in carries' : /\ c[1] \in Epochs /\ c[2] \in Nat /\ c[2] < server'.next[c[1]]
                        /\ c[3] \in 0 .. Len(Flights') - 1
        /\ \A c, d \in carries' : c[1] = d[1] /\ c[2] = d[2] => c[3] = d[3]
    BY <1>7, <1>8 DEF HandshakeInv, Carried
  <2>3. \A r \in to_client' :
       /\ r.epoch \in Epochs /\ r.seq \in Nat /\ r.seq < server'.next[r.epoch]
       /\ r.type # "ack" => /\ <<r.epoch, r.seq, r.no>> \in carries'
                            /\ r.epoch = FlightEpoch(r.no)' /\ ReleasedOnce(r.no)'
    BY <1>7, <1>8 DEF HandshakeInv, Carried, FlightEpoch, ReleasedOnce
  <2>4. \A no \in server'.acked : \E c \in carries' : c[3] = no /\ <<c[1], c[2]>> \in acknowledged'
    BY <1>2, <1>7 DEF HandshakeInv, Carried
  <2>5. \A x \in Confirmed' : x[1] = 2
    BY <1>9 DEF HandshakeInv, Carried
  <2> QED
    BY <2>1, <2>2, <2>3, <2>4, <2>5 DEF Carried
<1>13. IsSession(t)
  BY <1>1, <1>4, <1>5 DEF IsSession
<1>14. Sent(ssl)' \subseteq Sent(s)
  BY <1>2, <1>4, <1>6 DEF Sent, Out
<1>15. Said(ssl)' \subseteq Said(s)
  BY <1>2, <1>5, <1>14 DEF Said
<1>16. AckNums(ssl)' \cup acknowledged' \subseteq AckNums(s) \cup acknowledged
  BY <1>2, <1>4, <1>5, <1>6 DEF AckNums, Acks, Out
<1>17. Progressed(ssl)'
  <2>1. ProgressedAt(s, s.connectState)
    BY <1>1 DEF Progressed
  <2> QED
    BY <1>2, <1>5, <1>7, <1>8, <2>1 DEF Progressed, ProgressedAt, Kept, ReleasedOnce, FlightEpoch, StateAfter
<1>18. Claim(ssl)'
  <2>1. ASSUME NEW c \in carries, <<c[1], c[2]>> \in AckNums(ssl)' \cup acknowledged'
        PROVE  Kept(ssl, c[3])'
    <3>1. Kept(s, c[3])
      BY <1>1, <1>16, <2>1 DEF Claim
    <3> QED
      BY <1>2, <1>5, <3>1 DEF Kept
  <2>2. \A x \in AckNums(ssl)' \cup acknowledged' : x[1] \in Epochs /\ x[2] \in Nat /\ x[2] < server.next[x[1]]
    BY <1>1, <1>16 DEF Claim
  <2> QED
    BY <1>7, <2>1, <2>2 DEF Claim
<1>19. Numbered(ssl)'
  <2>1. /\ \A m \in ToSet(t.rtx) : \A n \in ToSet(m.rns) : n < t.nextSeq[m.epoch]
        /\ \A r \in Sent(ssl)' : r.seq < t.nextSeq[r.epoch]
        /\ \A m \in ToSet(t.rtx), r \in Sent(ssl)' : TracksOne(m, Number(r)) => r.no = m.no
        /\ \A x \in Confirmed' : x[2] < t.nextSeq[x[1]]
        /\ \A x \in Confirmed', m \in ToSet(t.rtx) : TracksOne(m, x) => m.no < server.got
    BY <1>1, <1>5, <1>9, <1>14 DEF Numbered
  <2> QED
    BY <1>2, <1>7, <2>1 DEF Numbered, TracksOne, Number
<1>20. ASSUME Alright(s) PROVE Honest(ssl)' /\ Covered(ssl)'
  <2>1. HonestAt(s, s.connectState) /\ CoveredAt(s, s.connectState)
    BY <1>1, <1>20 DEF Honest, Covered
  <2>2. CoveredAt(ssl, ssl.connectState)'
    BY <1>2, <1>5, <1>7, <1>8, <2>1 DEF CoveredAt
  <2>3. HonestAt(ssl, ssl.connectState)'
    <3>1. /\ \A a, b \in Said(ssl)' : a[1] = b[1] => a[2] = b[2]
          /\ \A a \in Said(ssl)' : a[1] < server'.got => a[2] = Answers'[a[1] + 1]
          /\ \A a \in Said(ssl)' : a[1] < t.dtls_handshake_number
                        \/ (a[1] = t.dtls_handshake_number /\ t.connectState \in Late)
          /\ t.connectState \notin Late => server'.got <= t.dtls_handshake_number
      BY <1>5, <1>7, <1>8, <1>15, <2>1 DEF HonestAt
    <3>2. t.connectState \in Early =>
            /\ \A a \in Said(ssl)' : a[2] = "CH"
            /\ \A m \in ToSet(t.rtx) : m.epoch = 0
            /\ ~t.handShakeDone /\ server'.got <= Hellos'
      BY <1>5, <1>7, <1>8, <1>15, <2>1 DEF HonestAt
    <3>3. /\ t.handShakeDone => Done' \/ HasFin(t)
          /\ t.handShakeDone /\ t.serverState = 4 => Done'
      BY <1>5, <1>7, <1>8, <2>1 DEF HonestAt, HasFin, Done
    <3> QED
      BY <1>2, <3>1, <3>2, <3>3 DEF HonestAt, HasFin
  <2> QED
    BY <2>2, <2>3 DEF Honest, Covered
<1>21. future' # "error" => Honest(ssl)' /\ Covered(ssl)'
  BY <1>3, <1>20 DEF Alright
<1>22. future' = "connecting" => Resting(ssl)' /\ ssl'.connectState # "FINISHED_DONE"
  <2>1. future' = "connecting" => Alright(s) /\ s.connectState # "FINISHED_DONE"
    BY <1>3 DEF Alright
  <2>2. Alright(s) => Resting(s)
    <3>1. CASE Fine(s)
      BY <3>1 DEF Ended, Resting, Settled
    <3>2. CASE ~Fine(s)
      BY <3>2 DEF Ended, Resting
    <3> QED
      BY <3>1, <3>2
  <2>3. Resting(s) => Resting(t)
    BY <1>5 DEF Resting, Settled
  <2>4. Resting(t) => Resting(ssl)'
    BY <1>2 DEF Resting, Settled
  <2> QED
    BY <1>2, <1>5, <2>1, <2>2, <2>3, <2>4
<1>23. future' = "ok" => ssl'.connectState = "FINISHED_DONE"
  BY <1>2, <1>3, <1>5
<1>24. IsSession(ssl)' /\ ssl'.error = "none" /\ ssl'.sent = {}
  BY <1>2, <1>4, <1>13 DEF IsSession
<1> QED
  BY <1>10, <1>11, <1>12, <1>17, <1>18, <1>19, <1>21, <1>22, <1>23, <1>24 DEF HandshakeInv

\* The client polls, receives or times out.
LEMMA ClientKeeps ==
  ASSUME HandshakeInv, future = "connecting", Client
  PROVE  HandshakeInv'
<1>1. SessionInv(ssl) /\ ssl.error = "none" /\ Resting(ssl) /\ WireType
  BY DEF HandshakeInv, SessionInv
<1>2. CASE Poll
  <2>1. PICK io \in Outcomes : Polled(io, wolfSSL_connect(Called(io)))
    BY <1>2 DEF Poll
  <2>2. Return(wolfSSL_connect(Called(io)))
    BY <2>1 DEF Polled
  <2>3. server' = server /\ carries' = carries /\ to_client' = to_client
    BY <1>2 DEF Poll
  <2>4. Ended(wolfSSL_connect(Called(io)))
    BY <1>1, PollEnds
  <2> QED
    BY <2>2, <2>3, <2>4, ReturnKeeps
<1>3. CASE Timeout
  <2>1. PICK io \in Outcomes :
          LET t == Dtls13RtxTimeout(Called(io))
          IN Polled(io, IF Fine(t) THEN wolfSSL_connect(t) ELSE [t EXCEPT !.error = "FATAL"])
    BY <1>3 DEF Timeout
  <2> DEFINE t == Dtls13RtxTimeout(Called(io))
             u == IF Fine(t) THEN wolfSSL_connect(t) ELSE [t EXCEPT !.error = "FATAL"]
  <2>2. Return(u)
    BY <2>1 DEF Polled
  <2>3. server' = server /\ carries' = carries /\ to_client' = to_client /\ TimerRuns
    BY <1>3 DEF Timeout
  <2>4. Ended(u)
    BY <1>1, <2>3, TimeoutEnds
  <2> HIDE DEF u
  <2> QED
    BY <2>2, <2>3, <2>4, ReturnKeeps
<1>4. CASE Receive
  <2>1. PICK r \in to_client, io \in Outcomes :
       LET h == GetDtlsRecordHeader(Called(io), r)
           isNew == ~DropsHeader(h, r) /\ Decrypts(h, r)
                    /\ CheckWindow(peer[r.epoch], r.seq)
           t == Processed(h, r, isNew)
       IN
       /\ Polled(io, IF Fine(t) THEN Stages(t) ELSE t)
       /\ \/ to_client' = ForClient(ssl', peer', to_client \ {r})
          \/ to_client' = ForClient(ssl', peer', to_client)
    BY <1>4 DEF Receive
  <2> DEFINE h == GetDtlsRecordHeader(Called(io), r)
             isNew == ~DropsHeader(h, r) /\ Decrypts(h, r)
                    /\ CheckWindow(peer[r.epoch], r.seq)
             t == Processed(h, r, isNew)
             u == IF Fine(t) THEN Stages(t) ELSE t
  <2>2. Return(u)
    BY <2>1 DEF Polled
  <2>3. to_client' \subseteq to_client
    BY <2>1 DEF ForClient
  <2>4. server' = server /\ carries' = carries /\ ssl.connectState \in Waiting
    BY <1>4 DEF Receive
  <2>5. /\ \A c \in carries : c[3] \in 0 .. Len(Flights) - 1
        /\ \A x \in Confirmed : x[1] = 2
        /\ Genuine(r)
    BY GenuineRecords DEF HandshakeInv, Carried
  <2>6. isNew \in BOOLEAN
    OBVIOUS
  <2>7. t = Processed(GetDtlsRecordHeader(Called(io), r), r, isNew)
    OBVIOUS
  <2> HIDE DEF isNew, t
  <2>8. Ended(u)
    BY <1>1, <2>4, <2>5, <2>6, <2>7, ReceiveEnds
  <2> HIDE DEF u
  <2> QED
    BY <2>2, <2>3, <2>4, <2>8, ReturnKeeps
<1> QED
  BY <1>2, <1>3, <1>4 DEF Client

\* A step of the server: it confirms only what the client has sent, takes at most
\* the message it expects, and its own records have new numbers.
LEMMA ServerKeeps ==
  ASSUME HandshakeInv, future = "connecting", UNCHANGED <<future, ssl, acknowledged>>,
         WireType', ServerType', Carried', server'.retry = server.retry,
         to_server' \subseteq to_server, carries \subseteq carries',
         \A e \in Epochs : server.next[e] <= server'.next[e],
         \A c \in carries' : c \in carries \/ c[2] >= server.next[c[1]],
         \A x \in Confirmed' :
           x \in Confirmed \/ \E r \in Sent(ssl) : x = Number(r) /\ r.no < server'.got,
         \/ server'.got = server.got
         \/ /\ server'.got = server.got + 1 /\ ~Done
            /\ \E r \in Sent(ssl) : r.no = server.got /\ r.type = Answers[r.no + 1]
  PROVE  HandshakeInv'
<1>1. IsSession(ssl) /\ Progressed(ssl) /\ Claim(ssl) /\ Numbered(ssl) /\ Honest(ssl) /\ Covered(ssl)
  BY DEF HandshakeInv
<1>2. ssl' = ssl /\ future' = future /\ acknowledged' = acknowledged
  OBVIOUS
<1>3. Flights' = Flights /\ Hellos' = Hellos /\ Answers' = Answers
  BY DEF Flights, Hellos, Answers
<1>4. server.got \in Nat /\ server'.got \in Nat /\ server.got <= server'.got /\ Hellos \in {1, 2}
      /\ Len(Answers) = Hellos + 2 /\ server.got <= Len(Answers)
  BY FlightFacts DEF HandshakeInv, WireType
<1>5. Sent(ssl)' \subseteq Sent(ssl)
  BY <1>2 DEF Sent, Out
<1>6. Said(ssl)' \subseteq Said(ssl) /\ AckNums(ssl)' = AckNums(ssl) /\ (HasFin(ssl)' <=> HasFin(ssl))
  BY <1>2, <1>5 DEF Said, AckNums, HasFin, Out
<1>7. Progressed(ssl)'
  <2>1. ProgressedAt(ssl, ssl.connectState)
    BY <1>1 DEF Progressed
  <2>2. \A no \in 0 .. Len(Flights) - 1 : ReleasedOnce(no) => ReleasedOnce(no)'
    BY <1>3, <1>4 DEF ReleasedOnce
  <2>3. \A no \in 0 .. Len(Flights) - 1 : Kept(ssl, no)' => ReleasedOnce(no)'
    BY <1>2, <2>1, <2>2 DEF ProgressedAt, Kept
  <2> QED
    BY <1>2, <1>3, <2>1, <2>3 DEF Progressed, ProgressedAt, FlightEpoch, StateAfter
<1>8. Claim(ssl)'
  <2>1. ASSUME NEW x \in AckNums(ssl) \cup acknowledged
        PROVE  x[1] \in Epochs /\ x[2] \in Nat /\ x[2] < server.next[x[1]] /\ x[2] < server'.next[x[1]]
    <3>1. x[1] \in Epochs /\ x[2] \in Nat /\ x[2] < server.next[x[1]]
      BY <1>1 DEF Claim
    <3>2. server.next[x[1]] \in Nat /\ server'.next[x[1]] \in Nat
      BY <3>1 DEF ServerType, HandshakeInv
    <3> QED
      BY <3>1, <3>2
  <2>2. ASSUME NEW c \in carries', <<c[1], c[2]>> \in AckNums(ssl) \cup acknowledged
        PROVE  Kept(ssl, c[3])
    <3> DEFINE x == <<c[1], c[2]>>
    <3>1. x \in AckNums(ssl) \cup acknowledged /\ x[1] = c[1] /\ x[2] = c[2]
      BY <2>2
    <3> HIDE DEF x
    <3>2. c[1] \in Epochs /\ c[2] \in Nat /\ c[2] < server.next[c[1]]
      BY <2>1, <3>1
    <3>3. server.next[c[1]] \in Nat
      BY <3>2 DEF ServerType, HandshakeInv
    <3>4. c \in carries
      BY <3>2, <3>3
    <3> QED
      BY <1>1, <2>2, <3>4 DEF Claim
  <2>3. \A no : Kept(ssl, no)' <=> Kept(ssl, no)
    BY <1>2 DEF Kept
  <2> QED
    BY <1>2, <1>6, <2>1, <2>2, <2>3 DEF Claim
<1>9. Numbered(ssl)'
  <2>1. /\ \A r \in Sent(ssl) : r.epoch \in Epochs /\ r.seq \in Nat /\ r.no \in Nat
        /\ \A m \in ToSet(ssl.rtx) : m.no \in Nat
    BY <1>1, SessionSets DEF Sent, WireType, Datagrams, HandshakeInv, Entries
  <2>2. ASSUME NEW x \in Confirmed' PROVE x[2] < ssl.nextSeq[x[1]]
    <3>1. CASE x \in Confirmed
      BY <1>1, <3>1 DEF Numbered
    <3>2. ASSUME NEW r \in Sent(ssl), x = Number(r) PROVE x[2] < ssl.nextSeq[x[1]]
      <4>1. x[1] = r.epoch /\ x[2] = r.seq
        BY <3>2 DEF Number
      <4> QED
        BY <1>1, <4>1 DEF Numbered
    <3> QED
      BY <3>1, <3>2
  <2>3. ASSUME NEW x \in Confirmed', NEW m \in ToSet(ssl.rtx), TracksOne(m, x)
        PROVE  m.no < server'.got
    <3>1. CASE x \in Confirmed
      <4>1. m.no < server.got
        BY <1>1, <2>3, <3>1 DEF Numbered
      <4> QED
        BY <1>4, <2>1, <4>1
    <3>2. ASSUME NEW r \in Sent(ssl), x = Number(r), r.no < server'.got PROVE m.no < server'.got
      <4>1. r.no = m.no
        BY <1>1, <2>3, <3>2 DEF Numbered
      <4> QED
        BY <3>2, <4>1
    <3> QED
      BY <3>1, <3>2
  <2>4. /\ \A m \in ToSet(ssl.rtx) : \A n \in ToSet(m.rns) : n < ssl.nextSeq[m.epoch]
        /\ \A r \in Sent(ssl)' : r.seq < ssl.nextSeq[r.epoch]
        /\ \A m \in ToSet(ssl.rtx), r \in Sent(ssl)' : TracksOne(m, Number(r)) => r.no = m.no
    BY <1>1, <1>5 DEF Numbered
  <2> QED
    BY <1>2, <2>2, <2>3, <2>4 DEF Numbered, TracksOne, Number
\* The message that the server takes is one that the client said.
<1>10. ASSUME server'.got # server.got
       PROVE  /\ server'.got = server.got + 1 /\ ~Done
              /\ \E a \in Said(ssl) : a[1] = server.got /\ a[2] = Answers[a[1] + 1]
  <2>1. PICK r \in Sent(ssl) : r.no = server.got /\ r.type = Answers[r.no + 1]
    BY <1>10
  <2> DEFINE a == <<r.no, r.type>>
  <2>2. a \in Said(ssl) /\ a[1] = server.got /\ a[2] = Answers[a[1] + 1]
    BY <2>1 DEF Said
  <2> HIDE DEF a
  <2> QED
    BY <1>10, <2>2
<1>11. Honest(ssl)'
  <2>0. HonestAt(ssl, ssl.connectState)
    BY <1>1 DEF Honest
  <2>1. ASSUME NEW b \in Said(ssl), b[1] < server'.got PROVE b[2] = Answers[b[1] + 1]
    <3>1. CASE b[1] < server.got
      BY <2>0, <3>1 DEF HonestAt
    <3>2. CASE ~(b[1] < server.got)
      <4>1. b[1] \in Nat
        BY <1>1, SaidType DEF HandshakeInv
      <4>2. server'.got # server.got /\ (server'.got = server.got + 1 => b[1] = server.got)
        BY <1>4, <2>1, <3>2, <4>1
      <4>3. b[1] = server.got
        BY <1>10, <4>2
      <4>4. PICK a \in Said(ssl) : a[1] = server.got /\ a[2] = Answers[a[1] + 1]
        BY <1>10, <4>2
      <4>5. a[2] = b[2]
        BY <2>0, <4>3, <4>4 DEF HonestAt
      <4> QED
        BY <4>3, <4>4, <4>5
    <3> QED
      BY <3>1, <3>2
  <2>2. ssl.connectState \notin Late => server'.got <= ssl.dtls_handshake_number
    <3>1. CASE server'.got = server.got
      BY <2>0, <3>1 DEF HonestAt
    <3>2. CASE server'.got # server.got
      <4>1. PICK a \in Said(ssl) : a[1] = server.got /\ a[2] = Answers[a[1] + 1]
        BY <1>10, <3>2
      <4>2. ssl.connectState \notin Late => server.got < ssl.dtls_handshake_number
        BY <2>0, <4>1 DEF HonestAt
      <4>3. ssl.dtls_handshake_number \in Nat
        BY <1>1 DEF IsSession
      <4> QED
        BY <1>4, <1>10, <3>2, <4>2, <4>3
    <3> QED
      BY <3>1, <3>2
  <2>3. ssl.connectState \in Early => server'.got <= Hellos
    <3>1. CASE server'.got = server.got
      BY <2>0, <3>1 DEF HonestAt
    <3>2. CASE server'.got # server.got
      <4>1. PICK a \in Said(ssl) : a[1] = server.got /\ a[2] = Answers[a[1] + 1]
        BY <1>10, <3>2
      <4>2. server.got + 1 \in 1 .. Len(Answers)
        BY <1>4, <1>10, <3>2 DEF Done
      <4>3. ssl.connectState \in Early => Answers[server.got + 1] = "CH"
        BY <2>0, <4>1 DEF HonestAt
      <4> QED
        BY <1>10, <3>2, <4>2, <4>3, FlightFacts
    <3> QED
      BY <3>1, <3>2
  <2>4. (ssl.handShakeDone => Done' \/ HasFin(ssl)) /\ (ssl.handShakeDone /\ ssl.serverState = 4 => Done')
    <3>1. CASE server'.got = server.got
      BY <1>3, <2>0, <3>1 DEF HonestAt, Done
    <3>2. CASE server'.got # server.got
      BY <1>10, <2>0, <3>2 DEF HonestAt
    <3> QED
      BY <3>1, <3>2
  <2>5. ssl.connectState \in Early =>
          /\ \A a \in Said(ssl) : a[2] = "CH"
          /\ \A m \in ToSet(ssl.rtx) : m.epoch = 0
          /\ ~ssl.handShakeDone
    BY <2>0 DEF HonestAt
  <2>6. /\ \A a, b \in Said(ssl) : a[1] = b[1] => a[2] = b[2]
        /\ \A a \in Said(ssl) : a[1] < ssl.dtls_handshake_number
                        \/ (a[1] = ssl.dtls_handshake_number /\ ssl.connectState \in Late)
    BY <2>0 DEF HonestAt
  <2> QED
    BY <1>2, <1>3, <1>6, <2>1, <2>2, <2>3, <2>4, <2>5, <2>6 DEF Honest, HonestAt
<1>12. Covered(ssl)'
  <2>1. CoveredAt(ssl, ssl.connectState)
    BY <1>1 DEF Covered
  <2> QED
    BY <1>2, <1>3, <1>4, <2>1 DEF Covered, CoveredAt
<1>13. Resting(ssl)' /\ ssl'.connectState # "FINISHED_DONE"
  BY <1>2 DEF HandshakeInv, Resting, Settled
<1>14. IsSession(ssl)' /\ ssl'.error = "none" /\ ssl'.sent = {}
  BY <1>2 DEF IsSession, HandshakeInv
<1> QED
  BY <1>2, <1>7, <1>8, <1>9, <1>11, <1>12, <1>13, <1>14 DEF HandshakeInv

\* Before the first poll.
LEMMA InitHandshake ==
  ASSUME Init
  PROVE  HandshakeInv
<1> DEFINE s == ssl
<1>1. /\ DOMAIN s = SessionFields
      /\ s.connectState = "CONNECT_BEGIN" /\ s.serverState = 0 /\ s.dtls_handshake_number = 0
      /\ s.expected = 0 /\ s.rx_msgs = {} /\ s.rtx = <<>> /\ s.seenRecords = {}
      /\ s.handShakeDone = FALSE /\ s.hellos = 0 /\ s.nextSeq = [e \in Epochs |-> 0]
      /\ s.outputBuffer = <<>> /\ s.error = "none" /\ s.sent = {}
  BY DEF Init, SessionFields, NULL_STATE
<1> HIDE DEF s
<1>2. /\ server.got = 0 /\ server.seen = {} /\ server.acked = {} /\ ServerType
      /\ to_server = {} /\ to_client = {} /\ carries = {} /\ acknowledged = {}
      /\ future = "connecting"
  BY DEF Init, ServerType
<1>3. ToSet(s.rtx) = {} /\ Out(s) = {}
  BY <1>1 DEF ToSet, Out
<1>4. Sent(s) = {} /\ AckNums(s) = {} /\ Confirmed = {}
  BY <1>1, <1>2, <1>3 DEF Sent, AckNums, Confirmed
<1>5. Said(s) = {}
  BY <1>3, <1>4 DEF Said
<1>6. Len(Flights) \in {3, 4} /\ Hellos \in {1, 2} /\ Len(Answers) = Hellos + 2
  BY FlightFacts
<1>7. IsSession(s)
  BY <1>1 DEF IsSession, Stage, Sending, Epochs
<1>8. Progressed(s)
  <2>1. \A no \in 0 .. Len(Flights) - 1 : ~Kept(s, no)
    BY <1>1 DEF Kept
  <2> QED
    BY <1>1, <1>6, <2>1 DEF Progressed, ProgressedAt, Early, Late
<1>9. Claim(s) /\ Numbered(s)
  BY <1>2, <1>3, <1>4 DEF Claim, Numbered
<1>10. Honest(s)
  BY <1>1, <1>2, <1>3, <1>5, <1>6 DEF Honest, HonestAt, Early, Late
<1>11. Covered(s)
  BY <1>1 DEF Covered, CoveredAt
<1>12. WireType
  BY <1>2, <1>4, <1>6 DEF WireType
<1>13. Carried
  BY <1>2, <1>4 DEF Carried
<1>14. Resting(s)
  BY <1>1 DEF Resting
<1> QED
  BY <1>1, <1>2, <1>7, <1>8, <1>9, <1>10, <1>11, <1>12, <1>13, <1>14 DEF HandshakeInv, s

\* The server takes the message it expects, and notes what is acknowledged.
LEMMA ServerReceiveKeeps ==
  ASSUME HandshakeInv, future = "connecting", ServerReceive
  PROVE  HandshakeInv'
<1>1. PICK r \in to_server :
       /\ LET seen == IF r.epoch = 2 THEN server.seen \cup {Number(r)} ELSE server.seen
          IN server' =
             IF r.type = "ack"
             THEN [server EXCEPT !.acked = @ \cup AckedMessages(r)]
             ELSE IF r.no < server.got THEN [server EXCEPT !.seen = seen]
             ELSE IF r.no > server.got \/ Done THEN server
             ELSE IF r.type = Answers[r.no + 1]
             THEN [server EXCEPT !.got = @ + 1, !.seen = seen]
             ELSE [server EXCEPT !.silent = TRUE]
       /\ to_server' = ForServer(server', to_server \ {r})
  BY DEF ServerReceive
<1> DEFINE seen == IF r.epoch = 2 THEN server.seen \cup {Number(r)} ELSE server.seen
<1>2. /\ future' = future /\ ssl' = ssl /\ to_client' = to_client /\ carries' = carries
      /\ acknowledged' = acknowledged
  BY DEF ServerReceive, history
<1>3. WireType /\ ServerType /\ Carried /\ IsSession(ssl) /\ Claim(ssl) /\ Numbered(ssl)
  BY DEF HandshakeInv
<1>4. to_server' \subseteq to_server
  BY <1>1 DEF ForServer
<1>5. /\ r \in Datagrams /\ r.epoch \in Epochs /\ r.seq \in Nat /\ r.no \in Nat
      /\ Number(r) \in Numbers /\ (r.epoch = 2 => Number(r)[1] = 2)
  BY <1>3 DEF WireType, Datagrams, Number, Numbers
<1>6. /\ server.got \in Nat /\ server.got <= Len(Answers) /\ Len(Answers) \in Nat
      /\ server.retry \in BOOLEAN /\ server.acked \in SUBSET Nat /\ server.seen \in SUBSET Numbers
      /\ server.next \in [Epochs -> Nat]
  BY <1>3, FlightFacts DEF WireType, ServerType
<1>7. AckedMessages(r) \in SUBSET Nat
      /\ \A no \in AckedMessages(r) : \E c \in carries : c[3] = no /\ <<c[1], c[2]>> \in acknowledged
  <2>1. Len(Flights) \in Nat
    BY FlightFacts
  <2>2. r.acks \subseteq acknowledged
    BY <1>3 DEF Carried
  <2>3. \A c \in carries : c[3] \in Nat
    BY <1>3, <2>1 DEF Carried
  <2> QED
    BY <2>2, <2>3 DEF AckedMessages
<1>8. seen \in SUBSET Numbers /\ (\A x \in seen : x \in server.seen \/ (x = Number(r) /\ r.epoch = 2))
  BY <1>5, <1>6
<1>9. \/ /\ r.type = "ack" /\ server' = [server EXCEPT !.acked = @ \cup AckedMessages(r)]
      \/ /\ r.type # "ack" /\ r.no < server.got /\ server' = [server EXCEPT !.seen = seen]
      \/ server' = server
      \/ /\ r.type # "ack" /\ r.no = server.got /\ ~Done /\ r.type = Answers[r.no + 1]
         /\ server' = [server EXCEPT !.got = @ + 1, !.seen = seen]
      \/ server' = [server EXCEPT !.silent = TRUE]
  <2>1. ~(r.no < server.got) /\ ~(r.no > server.got) => r.no = server.got
    BY <1>5, <1>6
  <2> HIDE DEF seen
  <2>2. server' =
             IF r.type = "ack"
             THEN [server EXCEPT !.acked = @ \cup AckedMessages(r)]
             ELSE IF r.no < server.got THEN [server EXCEPT !.seen = seen]
             ELSE IF r.no > server.got \/ Done THEN server
             ELSE IF r.type = Answers[r.no + 1]
             THEN [server EXCEPT !.got = @ + 1, !.seen = seen]
             ELSE [server EXCEPT !.silent = TRUE]
    BY <1>1 DEF seen
  <2> QED
    BY <2>1, <2>2, Zenon
<1> HIDE DEF seen
<1>10. /\ ServerType' /\ server'.retry = server.retry /\ server'.next = server.next
       /\ \A no \in server'.acked : no \in server.acked \/ no \in AckedMessages(r)
       /\ \A x \in server'.seen : x \in server.seen
            \/ (x = Number(r) /\ r.epoch = 2 /\ r.type # "ack" /\ r.no < server'.got)
       /\ \/ server'.got = server.got
          \/ /\ server'.got = server.got + 1 /\ ~Done /\ r.no = server.got
             /\ r.type = Answers[r.no + 1] /\ r.type # "ack"
  <2>1. CASE r.type = "ack" /\ server' = [server EXCEPT !.acked = @ \cup AckedMessages(r)]
    BY <1>3, <1>6, <1>7, <2>1 DEF ServerType
  <2>2. CASE r.type # "ack" /\ r.no < server.got /\ server' = [server EXCEPT !.seen = seen]
    BY <1>3, <1>6, <1>8, <2>2 DEF ServerType
  <2>3. CASE server' = server
    BY <1>3, <2>3 DEF ServerType
  <2>4. CASE /\ r.type # "ack" /\ r.no = server.got /\ ~Done /\ r.type = Answers[r.no + 1]
             /\ server' = [server EXCEPT !.got = @ + 1, !.seen = seen]
    <3>1. /\ server'.got = server.got + 1 /\ server'.seen = seen /\ server'.retry = server.retry
          /\ server'.next = server.next /\ server'.acked = server.acked /\ ServerType'
      <4> DEFINE n == server.got + 1
      <4>1. server' = [server EXCEPT !.got = n, !.seen = seen] /\ n \in Nat
        BY <1>6, <2>4
      <4> HIDE DEF n
      <4>2. /\ server'.got = n /\ server'.seen = seen /\ server'.retry = server.retry
            /\ server'.next = server.next /\ server'.acked = server.acked
        BY <1>3, <4>1 DEF ServerType
      <4>3. ServerType'
        BY <1>3, <1>8, <4>1 DEF ServerType
      <4> QED
        BY <4>2, <4>3 DEF n
    <3>2. r.no < server'.got
      BY <1>6, <2>4, <3>1
    <3> QED
      BY <1>8, <2>4, <3>1, <3>2
  <2>5. CASE server' = [server EXCEPT !.silent = TRUE]
    BY <1>3, <2>5 DEF ServerType
  <2> QED
    BY <1>9, <2>1, <2>2, <2>3, <2>4, <2>5
<1>11. Flights' = Flights /\ Hellos' = Hellos /\ Answers' = Answers
  BY <1>10 DEF Flights, Hellos, Answers
<1>12. server.got <= server'.got /\ server'.got \in 0 .. Len(Answers)'
  BY <1>6, <1>10, <1>11 DEF Done
<1>13. r.type # "ack" => r \in Sent(ssl)
  BY DEF Sent
<1>14. \A x \in Confirmed' : x \in Confirmed
            \/ (x = Number(r) /\ r.epoch = 2 /\ r.type # "ack" /\ r.no < server'.got)
  BY <1>2, <1>10 DEF Confirmed
<1>15. WireType'
  BY <1>3, <1>4, <1>5, <1>12, <1>14 DEF WireType
<1>16. Carried'
  <2>1. \A no \in 0 .. Len(Flights) - 1 : ReleasedOnce(no) => ReleasedOnce(no)'
    BY <1>6, <1>11, <1>12, FlightFacts DEF ReleasedOnce
  <2>2. /\ \A c \in carries' : /\ c[1] \in Epochs /\ c[2] \in Nat /\ c[2] < server'.next[c[1]]
                               /\ c[3] \in 0 .. Len(Flights') - 1
        /\ \A c, d \in carries' : c[1] = d[1] /\ c[2] = d[2] => c[3] = d[3]
    BY <1>2, <1>3, <1>10, <1>11 DEF Carried
  <2>3. ASSUME NEW q \in to_client', q.type # "ack"
        PROVE  <<q.epoch, q.seq, q.no>> \in carries' /\ q.epoch = FlightEpoch(q.no)' /\ ReleasedOnce(q.no)'
    <3>1. <<q.epoch, q.seq, q.no>> \in carries /\ q.epoch = FlightEpoch(q.no) /\ ReleasedOnce(q.no)
      BY <1>2, <1>3, <2>3 DEF Carried
    <3>2. q.no \in 0 .. Len(Flights) - 1
      <4> DEFINE d == <<q.epoch, q.seq, q.no>>
      <4>1. d \in carries /\ d[3] = q.no
        BY <3>1
      <4> HIDE DEF d
      <4> QED
        BY <1>3, <4>1 DEF Carried
    <3> QED
      BY <1>2, <1>11, <2>1, <3>1, <3>2 DEF FlightEpoch
  <2>4. \A q \in to_client' : q.epoch \in Epochs /\ q.seq \in Nat /\ q.seq < server'.next[q.epoch]
    BY <1>2, <1>3, <1>10 DEF Carried
  <2>5. \A x \in Confirmed' : x[1] = 2
    BY <1>3, <1>5, <1>14 DEF Carried
  <2>6. \A q \in to_server' : q.acks \subseteq acknowledged'
    BY <1>2, <1>3, <1>4 DEF Carried
  <2>7. \A no \in server'.acked : \E c \in carries' : c[3] = no /\ <<c[1], c[2]>> \in acknowledged'
    BY <1>2, <1>3, <1>7, <1>10 DEF Carried
  <2> QED
    BY <2>2, <2>3, <2>4, <2>5, <2>6, <2>7 DEF Carried
<1>17. \A x \in Confirmed' :
         x \in Confirmed \/ \E q \in Sent(ssl) : x = Number(q) /\ q.no < server'.got
  BY <1>13, <1>14
<1>18. \/ server'.got = server.got
       \/ /\ server'.got = server.got + 1 /\ ~Done
          /\ \E q \in Sent(ssl) : q.no = server.got /\ q.type = Answers[q.no + 1]
  BY <1>10, <1>13
<1>19. \A e \in Epochs : server.next[e] <= server'.next[e]
  BY <1>6, <1>10
<1> QED
  BY <1>2, <1>4, <1>10, <1>12, <1>15, <1>16, <1>17, <1>18, <1>19, ServerKeeps

\* The server sends a message, the first time or again.
LEMMA ServerSendKeeps ==
  ASSUME HandshakeInv, future = "connecting", ServerSend
  PROVE  HandshakeInv'
<1>1. PICK no \in Outstanding :
       LET e == FlightEpoch(no)
           n == server.next[e]
           again == IF no \in server.sent THEN 1 ELSE 0 IN
       /\ server' = [server EXCEPT !.sent = @ \cup {no}, !.resends = @ + again,
                                   !.next[e] = @ + 1]
       /\ to_client' = ForClient(ssl, peer, to_client) \cup {Handshake(e, n, Flights[no + 1], no)}
       /\ carries' = carries \cup {<<e, n, no>>}
  BY DEF ServerSend
<1> DEFINE e == FlightEpoch(no)
           n == server.next[e]
           again == IF no \in server.sent THEN 1 ELSE 0
           h == Handshake(e, n, Flights[no + 1], no)
           d == <<e, n, no>>
<1>2. /\ future' = future /\ ssl' = ssl /\ to_server' = to_server
      /\ acknowledged' = acknowledged
  BY DEF ServerSend
<1>3. WireType /\ ServerType /\ Carried
  BY DEF HandshakeInv
<1>4. /\ server' = [server EXCEPT !.sent = @ \cup {no}, !.resends = @ + again, !.next[e] = @ + 1]
      /\ to_client' \subseteq to_client \cup {h} /\ carries' = carries \cup {d}
  BY <1>1 DEF ForClient
<1>5. no \in 0 .. Len(Flights) - 1 /\ no \in Nat /\ Released(no)
  BY DEF Outstanding
<1>6. e \in Epochs /\ again \in Nat
  BY DEF FlightEpoch, Epochs
<1>7. /\ server.got \in Nat /\ server.next \in [Epochs -> Nat] /\ server.sent \in SUBSET Nat
      /\ server.resends \in Nat /\ n \in Nat
  BY <1>3, <1>6 DEF ServerType
<1>8. h.epoch = e /\ h.seq = n /\ h.no = no /\ h.acks = {}
  BY DEF Handshake
<1>9. d[1] = e /\ d[2] = n /\ d[3] = no
  OBVIOUS
<1>10. d = <<h.epoch, h.seq, h.no>> /\ h.epoch = FlightEpoch(h.no)
  BY <1>8
<1>11. n = server.next[e]
  OBVIOUS
<1> HIDE DEF e, again, h, d, n
<1>12. /\ server'.next = [server.next EXCEPT ![e] = n + 1] /\ server'.got = server.got
       /\ server'.retry = server.retry /\ server'.seen = server.seen /\ server'.acked = server.acked
  BY <1>3, <1>4, <1>11 DEF ServerType
<1>13. ServerType'
  <2>1. [server.next EXCEPT ![e] = @ + 1] \in [Epochs -> Nat] /\ server.resends + again \in Nat
        /\ server.sent \cup {no} \in SUBSET Nat
    BY <1>5, <1>6, <1>7
  <2> DEFINE next == [server.next EXCEPT ![e] = @ + 1]
             resends == server.resends + again
             sent == server.sent \cup {no}
  <2>2. server' = [server EXCEPT !.sent = sent, !.resends = resends, !.next = next]
    BY <1>3, <1>4 DEF ServerType
  <2>3. next \in [Epochs -> Nat] /\ resends \in Nat /\ sent \in SUBSET Nat
    BY <2>1
  <2> HIDE DEF next, resends, sent
  <2> QED
    BY <1>3, <2>2, <2>3 DEF ServerType
<1>14. Flights' = Flights /\ Hellos' = Hellos /\ Answers' = Answers
  BY <1>12 DEF Flights, Hellos, Answers
<1>15. /\ \A f \in Epochs : /\ server.next[f] <= server'.next[f]
                           /\ \A x \in Nat : x < server.next[f] => x < server'.next[f]
       /\ n < server'.next[e]
  BY <1>6, <1>7, <1>11, <1>12
<1>16. Confirmed' \subseteq Confirmed
  BY <1>4, <1>8, <1>12 DEF Confirmed
<1>17. WireType'
  BY <1>2, <1>3, <1>12, <1>14, <1>16 DEF WireType
<1>18. ReleasedOnce(no)
  BY <1>5 DEF Released, ReleasedOnce
<1>19. Carried'
  <2>1. ASSUME NEW c \in carries'
        PROVE  /\ c[1] \in Epochs /\ c[2] \in Nat /\ c[2] < server'.next[c[1]]
               /\ c[3] \in 0 .. Len(Flights') - 1
    <3>1. CASE c \in carries
      BY <1>3, <1>14, <1>15, <3>1 DEF Carried
    <3>2. CASE c = d
      BY <1>5, <1>6, <1>7, <1>9, <1>14, <1>15, <3>2
    <3> QED
      BY <1>4, <3>1, <3>2
  <2>2. ASSUME NEW c \in carries', NEW b \in carries', c[1] = b[1], c[2] = b[2] PROVE c[3] = b[3]
    <3>1. \A f \in carries : ~(f[1] = e /\ f[2] = n)
      <4> SUFFICES ASSUME NEW f \in carries, f[1] = e, f[2] = n PROVE FALSE
        OBVIOUS
      <4>1. n < server.next[e]
        BY <1>3 DEF Carried
      <4> QED
        BY <1>7, <1>11, <4>1
    <3> QED
      BY <1>3, <1>4, <1>9, <2>2, <3>1 DEF Carried
  <2>3. ASSUME NEW q \in to_client'
        PROVE  /\ q.epoch \in Epochs /\ q.seq \in Nat /\ q.seq < server'.next[q.epoch]
               /\ q.type # "ack" => /\ <<q.epoch, q.seq, q.no>> \in carries'
                                    /\ q.epoch = FlightEpoch(q.no) /\ ReleasedOnce(q.no)
    <3>1. CASE q \in to_client
      BY <1>3, <1>4, <1>15, <3>1 DEF Carried
    <3>2. CASE q = h
      BY <1>4, <1>6, <1>7, <1>8, <1>10, <1>15, <1>18, <3>2
    <3> QED
      BY <1>4, <3>1, <3>2
  <2>4. ASSUME NEW q \in to_client', q.type # "ack"
        PROVE  q.epoch = FlightEpoch(q.no)' /\ ReleasedOnce(q.no)'
    BY <1>12, <1>14, <2>3, <2>4 DEF FlightEpoch, ReleasedOnce
  <2>5. \A x \in Confirmed' : x[1] = 2
    BY <1>3, <1>16 DEF Carried
  <2>6. \A q \in to_server' : q.acks \subseteq acknowledged'
    BY <1>2, <1>3 DEF Carried
  <2>7. \A m \in server'.acked : \E c \in carries' : c[3] = m /\ <<c[1], c[2]>> \in acknowledged'
    BY <1>2, <1>3, <1>4, <1>12 DEF Carried
  <2> QED
    BY <2>1, <2>2, <2>3, <2>4, <2>5, <2>6, <2>7 DEF Carried
<1>20. \A c \in carries' : c \in carries \/ c[2] >= server.next[c[1]]
  BY <1>4, <1>7, <1>9, <1>11
<1> QED
  BY <1>2, <1>4, <1>7, <1>12, <1>13, <1>15, <1>16, <1>17, <1>19, <1>20, ServerKeeps

\* The server confirms what it has seen.
LEMMA ServerAckKeeps ==
  ASSUME HandshakeInv, future = "connecting", ServerAck
  PROVE  HandshakeInv'
<1> DEFINE e == IF Done THEN 3 ELSE 2
           n == server.next[e]
           h == Ack(e, n, server.seen)
<1>1. /\ server' = [server EXCEPT !.acks = @ + 1, !.next[e] = @ + 1, !.seen = {}]
      /\ to_client' = to_client \cup {h}
  BY DEF ServerAck
<1>2. /\ future' = future /\ ssl' = ssl /\ to_server' = to_server
      /\ acknowledged' = acknowledged /\ carries' = carries
  BY DEF ServerAck, history
<1>3. WireType /\ ServerType /\ Carried
  BY DEF HandshakeInv
<1>4. e \in Epochs
  BY DEF Epochs
<1>5. /\ server.got \in Nat /\ server.next \in [Epochs -> Nat] /\ server.acks \in Nat /\ n \in Nat
      /\ server.seen \in SUBSET Numbers
  BY <1>3, <1>4 DEF ServerType
<1>6. h.epoch = e /\ h.seq = n /\ h.type = "ack" /\ h.acks = server.seen
  BY DEF Ack
<1>7. n = server.next[e]
  OBVIOUS
<1> HIDE DEF e, h, n
<1>8. /\ server'.next = [server.next EXCEPT ![e] = n + 1] /\ server'.got = server.got
      /\ server'.retry = server.retry /\ server'.seen = {} /\ server'.acked = server.acked
  BY <1>1, <1>3, <1>7 DEF ServerType
<1>9. ServerType'
  <2> DEFINE next == [server.next EXCEPT ![e] = @ + 1]
             acks == server.acks + 1
  <2>1. server' = [server EXCEPT !.acks = acks, !.next = next, !.seen = {}]
    BY <1>1, <1>3 DEF ServerType
  <2>2. next \in [Epochs -> Nat] /\ acks \in Nat
    BY <1>4, <1>5
  <2> HIDE DEF next, acks
  <2> QED
    BY <1>3, <2>1, <2>2 DEF ServerType
<1>10. Flights' = Flights /\ Hellos' = Hellos /\ Answers' = Answers
  BY <1>8 DEF Flights, Hellos, Answers
<1>11. /\ \A f \in Epochs : server.next[f] <= server'.next[f]
       /\ \A f \in Epochs, x \in Nat : x < server.next[f] => x < server'.next[f]
       /\ n < server'.next[e]
  BY <1>4, <1>5, <1>7, <1>8
<1>12. Confirmed' \subseteq Confirmed
  BY <1>1, <1>6, <1>8 DEF Confirmed
<1>13. WireType'
  BY <1>2, <1>3, <1>8, <1>10, <1>12 DEF WireType
<1>14. Carried'
  <2>1. \A c \in carries' : /\ c[1] \in Epochs /\ c[2] \in Nat /\ c[2] < server'.next[c[1]]
                            /\ c[3] \in 0 .. Len(Flights') - 1
    BY <1>2, <1>3, <1>10, <1>11 DEF Carried
  <2>2. ASSUME NEW q \in to_client'
        PROVE  /\ q.epoch \in Epochs /\ q.seq \in Nat /\ q.seq < server'.next[q.epoch]
               /\ q.type # "ack" => /\ <<q.epoch, q.seq, q.no>> \in carries'
                                    /\ q.epoch = FlightEpoch(q.no) /\ ReleasedOnce(q.no)
    <3>1. CASE q \in to_client
      BY <1>2, <1>3, <1>11, <3>1 DEF Carried
    <3>2. CASE q = h
      BY <1>4, <1>5, <1>6, <1>11, <3>2
    <3> QED
      BY <1>1, <3>1, <3>2
  <2>3. ASSUME NEW q \in to_client', q.type # "ack"
        PROVE  q.epoch = FlightEpoch(q.no)' /\ ReleasedOnce(q.no)'
    BY <1>8, <1>10, <2>2, <2>3 DEF FlightEpoch, ReleasedOnce
  <2>4. \A x \in Confirmed' : x[1] = 2
    BY <1>3, <1>12 DEF Carried
  <2>5. \A c, d \in carries' : c[1] = d[1] /\ c[2] = d[2] => c[3] = d[3]
    BY <1>2, <1>3 DEF Carried
  <2>6. \A q \in to_server' : q.acks \subseteq acknowledged'
    BY <1>2, <1>3 DEF Carried
  <2>7. \A m \in server'.acked : \E c \in carries' : c[3] = m /\ <<c[1], c[2]>> \in acknowledged'
    BY <1>2, <1>3, <1>8 DEF Carried
  <2> QED
    BY <2>1, <2>2, <2>3, <2>4, <2>5, <2>6, <2>7 DEF Carried
<1> QED
  BY <1>2, <1>5, <1>8, <1>9, <1>11, <1>12, <1>13, <1>14, ServerKeeps

\* Every step keeps the invariant.
LEMMA HandshakeStep ==
  ASSUME HandshakeInv, [Next]_vars
  PROVE  HandshakeInv'
<1>1. CASE future = "connecting" /\ Client
  BY <1>1, ClientKeeps
<1>2. CASE future = "connecting" /\ ServerReceive
  BY <1>2, ServerReceiveKeeps
<1>3. CASE future = "connecting" /\ ServerSend
  BY <1>3, ServerSendKeeps
<1>4. CASE future = "connecting" /\ ServerAck
  BY <1>4, ServerAckKeeps
<1>5. CASE vars' = vars
  <2>1. /\ future' = future /\ ssl' = ssl /\ server' = server /\ to_server' = to_server
        /\ to_client' = to_client /\ carries' = carries /\ acknowledged' = acknowledged
    BY <1>5 DEF vars, history
  <2>2. /\ Flights' = Flights /\ Hellos' = Hellos /\ Answers' = Answers /\ Confirmed' = Confirmed
    BY <2>1 DEF Flights, Hellos, Answers, Confirmed
  <2>3. /\ Sent(ssl)' = Sent(ssl) /\ AckNums(ssl)' = AckNums(ssl) /\ (HasFin(ssl)' <=> HasFin(ssl))
    BY <2>1 DEF Sent, AckNums, HasFin, Out
  <2>4. Said(ssl)' = Said(ssl) /\ (Done' <=> Done)
    BY <2>1, <2>2, <2>3 DEF Said, Done
  <2>5. WireType' /\ ServerType'
    BY <2>1, <2>2 DEF HandshakeInv, WireType, ServerType
  <2>6. Carried'
    BY <2>1, <2>2 DEF HandshakeInv, Carried, FlightEpoch, ReleasedOnce
  <2>7. IsSession(ssl)' /\ ssl'.error = "none" /\ ssl'.sent = {}
    BY <2>1 DEF HandshakeInv, IsSession
  <2>8. Progressed(ssl)'
    BY <2>1, <2>2 DEF HandshakeInv, Progressed, ProgressedAt, Kept, FlightEpoch, ReleasedOnce, StateAfter
  <2>9. Claim(ssl)' /\ Numbered(ssl)'
    BY <2>1, <2>2, <2>3 DEF HandshakeInv, Claim, Numbered, Kept, TracksOne, Number
  <2>10. future' # "error" => Honest(ssl)' /\ Covered(ssl)'
    BY <2>1, <2>2, <2>3, <2>4 DEF HandshakeInv, Honest, HonestAt, Covered, CoveredAt
  <2>11. future' = "connecting" => Resting(ssl)' /\ ssl'.connectState # "FINISHED_DONE"
    BY <2>1 DEF HandshakeInv, Resting, Settled
  <2>12. future' = "ok" => ssl'.connectState = "FINISHED_DONE"
    BY <2>1 DEF HandshakeInv
  <2> QED
    BY <2>5, <2>6, <2>7, <2>8, <2>9, <2>10, <2>11, <2>12 DEF HandshakeInv
<1> QED
  BY <1>1, <1>2, <1>3, <1>4, <1>5 DEF Next, Server

-----------------------------------------------------------------------------
(* What follows from it                                                     *)

\* The invariant of the handshake holds of every state the session reaches, with a
\* retry and without one, for any loss, reordering and duplication of datagrams,
\* any failure of the socket, and any number of retransmissions.
THEOREM HandshakeAlways == Spec => []HandshakeInv
BY InitHandshake, HandshakeStep, PTL DEF Spec

\* Nothing of the client's last flight is sent before the whole flight of the
\* server has been processed (tls13.c 13166-13203, 13318-13341).
THEOREM FlightsAlwaysInOrder == Spec => []FlightsInOrder
<1>1. HandshakeInv => FlightsInOrder
  <2> SUFFICES ASSUME HandshakeInv, ssl.dtls_handshake_number > ssl.hellos
               PROVE  ssl.expected = Len(Flights)
    BY DEF FlightsInOrder
  <2>1. Progressed(ssl) /\ ssl.dtls_handshake_number \in Nat /\ ssl.hellos \in Nat
    BY DEF HandshakeInv, IsSession
  <2> QED
    BY <2>1 DEF Progressed, ProgressedAt
<1> QED
  BY <1>1, HandshakeAlways, PTL

\* A record of the server that the client has acknowledged carries a message that
\* is processed or stored: the server need not send it again (dtls13.c 1527-1542,
\* 1848-1884, 2850-2920).
THEOREM AckedIsNeverLost == Spec => []NothingAckedIsLost
<1>1. HandshakeInv => NothingAckedIsLost
  BY DEF HandshakeInv, Claim, Kept, NothingAckedIsLost
<1> QED
  BY <1>1, HandshakeAlways, PTL

\* When the future returns success the server has the client's last flight
\* (dtls13.c 2809-2816, tls13.c 13459-13473).
THEOREM FinishedIsDelivered == Spec => []FinishedDelivered
<1>1. HandshakeInv => FinishedDelivered
  <2> SUFFICES ASSUME HandshakeInv, future = "ok", ssl.handShakeDone PROVE Done
    BY DEF FinishedDelivered
  <2>1. Progressed(ssl) /\ Honest(ssl) /\ ssl.connectState = "FINISHED_DONE"
    BY DEF HandshakeInv
  <2> QED
    BY <2>1 DEF Progressed, ProgressedAt, Honest, HonestAt
<1> QED
  BY <1>1, HandshakeAlways, PTL

\* A client that waits with nothing to send again and nothing left to write waits
\* for a message that the server has not been told it has: the handshake cannot
\* stand still with both sides waiting (dtls13.c 874-935, 2784-2848).
THEOREM SomebodyAlwaysRetransmits == Spec => []SomebodyRetransmits
<1>1. HandshakeInv => SomebodyRetransmits
  <2> SUFFICES ASSUME HandshakeInv, future = "connecting", ssl.connectState \in Waiting,
                      ssl.rtx = <<>>, ssl.outputBuffer = <<>>
               PROVE  \E no \in Outstanding : no >= ssl.expected
    BY DEF SomebodyRetransmits
  <2>1. /\ IsSession(ssl) /\ Progressed(ssl) /\ Claim(ssl) /\ Honest(ssl) /\ Covered(ssl)
        /\ Resting(ssl) /\ Carried /\ ServerType /\ WireType
    BY DEF HandshakeInv
  <2>2. Settled(ssl)
    BY <2>1 DEF Resting, Waiting
  <2>3. /\ Len(Flights) \in {3, 4} /\ Hellos \in {1, 2} /\ server.got \in Nat
        /\ ssl.expected \in 0 .. Len(Flights) /\ ssl.expected \notin ssl.rx_msgs
        /\ (server.retry => Hellos = 2 /\ Flights[1] = "HRR")
        /\ (~server.retry => Hellos = 1 /\ Flights[1] # "HRR")
    <3>1. (server.retry => Hellos = 2 /\ Flights[1] = "HRR") /\ (~server.retry => Hellos = 1 /\ Flights[1] # "HRR")
      BY DEF Hellos, Flights
    <3> QED
      BY <2>1, <3>1, FlightFacts DEF ServerType, Progressed, ProgressedAt
  <2>4. \A no \in server.acked : Kept(ssl, no)
    BY <2>1 DEF Carried, Claim
  <2>5. ssl.connectState \in {"CLIENT_HELLO_SENT", "HELLO_AGAIN_REPLY"}
    BY <2>1, <2>2 DEF Covered, CoveredAt, Settled, Waiting
  <2>6. server.got <= Hellos
    BY <2>1, <2>5 DEF Honest, HonestAt, Early
  <2>7. CASE ssl.connectState = "CLIENT_HELLO_SENT"
    <3>1. ssl.serverState = 0 /\ server.got >= 1
      BY <2>1, <2>2, <2>7 DEF Settled, Covered, CoveredAt
    <3>2. ssl.expected = 0
      <4>1. ssl.serverState = IF ssl.expected = 0 THEN 0 ELSE StateAfter(ssl.expected - 1)
        BY <2>1, <3>1 DEF Progressed, ProgressedAt
      <4>2. ssl.expected # 0 => ssl.expected - 1 \in 0 .. Len(Flights) - 1
        BY <2>3
      <4> QED
        BY <3>1, <4>1, <4>2, StateAfterFacts
\* With a retry the server has one ClientHello or two; it sends what that asks for.
    <3>3. CASE server.retry /\ server.got = 2
      <4> DEFINE no == 2
      <4>1. no \in 0 .. Len(Flights) - 1 /\ no + 1 \in 1 .. Len(Flights) /\ no + 1 # 1
        BY <2>3
      <4>2. Flights[no + 1] # "HRR"
        BY <4>1, FlightFacts
      <4>3. FlightEpoch(no) = 2
        <5>1. Flights = <<"HRR", "SH", "CERT", "FIN">>
          BY <3>3 DEF Flights
        <5>2. Flights[3] = "CERT"
          BY <5>1
        <5> QED
          BY <5>2 DEF FlightEpoch
      <4>4. ~Kept(ssl, no)
        BY <2>1, <3>1, <3>2, <4>3 DEF Kept, Progressed, ProgressedAt
      <4> QED
        BY <2>3, <2>4, <2>6, <3>2, <3>3, <4>1, <4>2, <4>4 DEF Outstanding, Released
    <3>4. CASE ~(server.retry /\ server.got = 2)
      <4>1. 0 \in 0 .. Len(Flights) - 1 /\ ~Kept(ssl, 0)
        BY <2>3, <3>2 DEF Kept
      <4>2. Released(0)
        BY <2>3, <2>6, <3>1, <3>4 DEF Released
      <4> QED
        BY <2>3, <2>4, <2>6, <3>2, <4>1, <4>2 DEF Outstanding
    <3> QED
      BY <3>3, <3>4
  <2>8. CASE ssl.connectState = "HELLO_AGAIN_REPLY"
    <3> DEFINE no == ssl.expected
    <3>1. server.got >= Hellos /\ ssl.serverState < 3 /\ ssl.serverState >= 1
      BY <2>1, <2>2, <2>8 DEF Settled, Covered, CoveredAt, Progressed, ProgressedAt
    <3>2. /\ ssl.serverState \in 0 .. 4
          /\ ssl.serverState = IF no = 0 THEN 0 ELSE StateAfter(no - 1)
      BY <2>1, <3>1 DEF Progressed, ProgressedAt, IsSession
    <3>3. no # 0 /\ no # Len(Flights)
      <4>1. no = Len(Flights) => no - 1 \in 0 .. Len(Flights) - 1 /\ no # 0
        BY <2>3
      <4>2. no = Len(Flights) => StateAfter(no - 1) = 3
        BY <4>1, StateAfterFacts
      <4> QED
        BY <3>1, <3>2, <4>1, <4>2
    <3>4. no \in 0 .. Len(Flights) - 1 /\ no + 1 \in 1 .. Len(Flights) /\ no + 1 # 1
      BY <2>3, <3>3
    <3>5. Flights[no + 1] # "HRR"
      BY <3>4, FlightFacts
    <3>6. ~Kept(ssl, no)
      BY <2>3 DEF Kept
    <3> QED
      BY <2>3, <2>4, <2>6, <3>1, <3>4, <3>5, <3>6 DEF Outstanding, Released
  <2> QED
    BY <2>5, <2>7, <2>8
<1> QED
  BY <1>1, HandshakeAlways, PTL
=============================================================================
