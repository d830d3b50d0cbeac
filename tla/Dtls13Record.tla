---------------------------- MODULE Dtls13Record ----------------------------
(***************************************************************************)
(* What a DTLS 1.3 endpoint remembers of the numbers of the records it has *)
(* received in an epoch (wolfSSL, dtls13.c and internal.c): the number it  *)
(* expects next, and a window of Words * WordBits bits for those below it, *)
(* by which replayed records are told apart.  Only the low bits of a       *)
(* number travel in a protected record.                                    *)
(*                                                                         *)
(* A word is the set of the positions of its bits that are set.            *)
(***************************************************************************)
EXTENDS Integers

CONSTANTS
  Words,        \* WOLFSSL_DTLS_WINDOW_WORDS (2)
  WordBits,     \* DTLS_WORD_BITS (32)
  SeqModulus    \* a protected record carries its number modulo this (2^16)

ASSUME RecordAssumption ==
  /\ Words \in Nat \ {0} /\ WordBits \in Nat \ {0}
  /\ SeqModulus \in Nat \ {0} /\ SeqModulus % 2 = 0

SeqBits == Words * WordBits    \* DTLS_SEQ_BITS

EmptyWindow == [i \in 0 .. Words - 1 |-> {}]

\* An epoch of which nothing has been received.
FreshEpoch == [next |-> 0, window |-> EmptyWindow]

-----------------------------------------------------------------------------
\* The number closest to the expected one that ends in the bits received.
ReconstructSeqNumber(next, low) ==
  LET expected == next % SeqModulus
      out == (next - expected) + low
  IN IF low >= expected
     THEN IF low - expected > SeqModulus \div 2 /\ out >= SeqModulus
          THEN out - SeqModulus ELSE out
     ELSE IF expected - low > SeqModulus \div 2
          THEN out + SeqModulus ELSE out

-----------------------------------------------------------------------------
IsSet(window, k) == k % WordBits \in window[k \div WordBits]

\* Not seen: ahead of everything received, or within the window with its bit
\* clear.
CheckWindow(e, seq) ==
  \/ seq >= e.next
  \/ /\ e.next - seq <= SeqBits
     /\ ~IsSet(e.window, e.next - seq - 1)

ShiftLeft(word, d) == {b + d : b \in {c \in word : c + d < WordBits}}
ShiftRight(word, d) == {b - d : b \in {c \in word : c >= d}}

\* Mutant: the bits that leave a word are not carried into the next one.
Shifted_without_carry(window, diff) ==
  LET idx == diff \div WordBits
      d == diff % WordBits
  IN [i \in 0 .. Words - 1 |-> IF i < idx THEN {} ELSE ShiftLeft(window[i - idx], d)]

\* The window moved up by diff bits: whole words first, then bit by bit, with
\* what leaves a word carried into the next one.
Shifted(window, diff) ==
  LET idx == diff \div WordBits
      d == diff % WordBits
  IN [i \in 0 .. Words - 1 |->
        IF i < idx THEN {}
        ELSE ShiftLeft(window[i - idx], d)
             \cup IF i > idx /\ d > 0
                  THEN ShiftRight(window[i - idx - 1], WordBits - d) ELSE {}]

DtlsUpdateWindowGTSeq(window, diff) ==
  LET moved == IF diff = 0 \/ diff >= SeqBits THEN EmptyWindow
               ELSE Shifted(window, diff)
  IN [moved EXCEPT ![0] = @ \cup {0}]

\* The record seq has been received.  A number below the window is refused by
\* CheckWindow before this.
UpdateWindow(e, seq) ==
  IF seq < e.next
  THEN LET k == e.next - seq - 1
       IN [e EXCEPT !.window[k \div WordBits] = @ \cup {k % WordBits}]
  ELSE [next |-> seq + 1,
        window |-> DtlsUpdateWindowGTSeq(e.window, seq - e.next + 1)]

-----------------------------------------------------------------------------
\* What the window is for: its bits are the numbers received, no more and no
\* less, as far back as it reaches.
Exact(e, received) ==
  /\ \A n \in received : n < e.next
  /\ \A i \in 0 .. Words - 1, b \in 0 .. WordBits - 1 :
       b \in e.window[i] <=> (e.next - 1 - (WordBits * i + b)) \in received
=============================================================================
