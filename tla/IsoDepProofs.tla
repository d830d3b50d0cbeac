---------------------------- MODULE IsoDepProofs ----------------------------
(***************************************************************************)
(* For every length of a command and of a block, however often the card    *)
(* asks for more time or for a block again: reader and card agree on the   *)
(* number of the next block, what the card executes has every block of the *)
(* command in order, and the protocol implements ApduExchange.             *)
(***************************************************************************)
EXTENDS IsoDep, SequenceTheorems, TLAPS

-----------------------------------------------------------------------------
(* Block numbers                                                            *)

\* The card has not taken the reader's block, or it has.
Behind == card_bn = 1 - pni
Level == card_bn = pni

\* Where the frame of an exchange is: there is exactly one, and the numbers
\* are known from it.
InTheAir ==
  \/ pc = "waiting" /\ to_card.kind = "I" /\ to_reader.kind = "none" /\ Behind
  \/ to_card.kind = "S" /\ to_reader.kind = "none" /\ Level
  \/ to_card.kind = "none" /\ to_reader.kind = "S" /\ Level
  \/ to_card.kind = "none" /\ to_reader.kind \in {"R", "I"} /\ to_reader.bn = card_bn
       /\ (Level \/ (to_reader.kind = "R" /\ Behind /\ pc = "waiting" /\ repeats > 0))
  \/ to_card.kind = "none" /\ to_reader.kind = "empty"

NumbersInvariant ==
  /\ pni \in {0, 1} /\ card_bn \in {0, 1} /\ repeats \in Nat
  /\ pc \in {"idle", "block"} => /\ Behind
                                 /\ to_card.kind = "none" /\ to_reader.kind = "none"
  /\ pc \in {"waiting", "extending"} => InTheAir

LEMMA NumbersInit == Init => NumbersInvariant
  BY DEF Init, NumbersInvariant

\* What the card answers carries its number, or is a wish for more time.
LEMMA ReplyFrame ==
  ASSUME NEW owing, NEW bn, Reply(owing, bn)
  PROVE  \/ to_reader'.kind \in {"R", "I"} /\ to_reader'.bn = bn
         \/ to_reader'.kind = "S"
<1>1. CASE owing = "R" /\ to_reader' = [kind |-> "R", bn |-> bn]
  BY <1>1
<1>2. CASE \E c \in BOOLEAN : to_reader' = [kind |-> "I", bn |-> bn, chain |-> c]
  BY <1>2
<1>3. CASE to_reader' = [kind |-> "S"]
  BY <1>3
<1> QED
  BY <1>1, <1>2, <1>3 DEF Reply

LEMMA NumbersStep == NumbersInvariant /\ [Next]_vars => NumbersInvariant'
<1> SUFFICES ASSUME NumbersInvariant, [Next]_vars PROVE NumbersInvariant'
  OBVIOUS
<1> USE DEF NumbersInvariant, InTheAir, Behind, Level, NoFrame, reader, air, card
<1>1. CASE Activate \/ ActivateShort \/ CommunicationError \/ Deselect
  BY <1>1 DEF Activate, ActivateShort, CommunicationError, Failed, Deselect
<1>2. ASSUME NEW n \in Lengths, Exchange(n) PROVE NumbersInvariant'
  BY <1>2 DEF Exchange
<1>3. CASE SendBlock
  BY <1>3 DEF SendBlock, Transmit
<1>4. CASE Receive
  BY <1>4 DEF Receive, empty_answer, send_again, extended, acknowledged, answered, Failed
<1>5. CASE CardBlock
  <2>1. card_bn' = 1 - card_bn /\ to_card'.kind = "none" /\ UNCHANGED <<pc, pni, repeats>>
    BY <1>5 DEF CardBlock
  <2>2. \/ to_reader'.kind \in {"R", "I"} /\ to_reader'.bn = card_bn'
        \/ to_reader'.kind = "S"
    BY <1>5, ReplyFrame DEF CardBlock
  <2>3. pc \in {"waiting", "extending"} => Level'
    BY <1>5, <2>1 DEF CardBlock
  <2>4. pc \notin {"idle", "block"}
    BY <1>5 DEF CardBlock
  <2>5. pc' \in {"waiting", "extending"} => InTheAir'
    BY <2>1, <2>2, <2>3
  <2> QED
    BY <2>1, <2>4, <2>5
<1>6. CASE CardExtended
  <2>1. to_card'.kind = "none" /\ UNCHANGED <<pc, pni, card_bn, repeats>>
    BY <1>6 DEF CardExtended
  <2>2. \/ to_reader'.kind \in {"R", "I"} /\ to_reader'.bn = card_bn'
        \/ to_reader'.kind = "S"
    BY <1>6, <2>1, ReplyFrame DEF CardExtended
  <2>3. pc \in {"waiting", "extending"} => Level'
    BY <1>6, <2>1 DEF CardExtended
  <2>4. pc \notin {"idle", "block"}
    BY <1>6 DEF CardExtended
  <2>5. pc' \in {"waiting", "extending"} => InTheAir'
    BY <2>1, <2>2, <2>3
  <2> QED
    BY <2>1, <2>4, <2>5
<1>7. CASE CardAsksAgain \/ CardEmpty
  BY <1>7 DEF CardAsksAgain, CardEmpty
<1>8. CASE UNCHANGED vars
  BY <1>8 DEF vars
<1> QED
  BY <1>1, <1>2, <1>3, <1>4, <1>5, <1>6, <1>7, <1>8 DEF Next

\* Between exchanges reader and card agree on the number of the next block
\* (iso_dep.rs 77-97).
THEOREM NumbersAgree == Spec => []BlockNumbersAgree
<1>1. NumbersInvariant => BlockNumbersAgree
  BY DEF NumbersInvariant, Behind, BlockNumbersAgree
<1> QED
  BY <1>1, NumbersInit, NumbersStep, PTL DEF Spec

-----------------------------------------------------------------------------
(* The blocks of a command                                                  *)

\* The blocks of a command of n bytes, without the empty one that may end it.
Total(n) == (n + SendMax - 1) \div SendMax

\* s has every block of command c before block m, in order and maybe more than
\* once, and none after them.
Gathers(s, m, c, n) ==
  /\ s \in Seq({c} \X Nat)
  /\ \A k \in 1 .. Len(s) : s[k][2] < m /\ s[k][2] < Total(n)
  /\ \A j \in Nat : j < m /\ j < Total(n) => \E k \in 1 .. Len(s) : s[k] = <<c, j>>
  /\ \A k \in 1 .. Len(s) - 1 : s[k][2] <= s[k + 1][2]

\* Each of them once.
Prefix(m, c, n) == [k \in 1 .. (IF m < Total(n) THEN m ELSE Total(n)) |-> <<c, k - 1>>]

\* Block m, and s is block m some number of times.
Bytes(m, c, n) == IF m < Total(n) THEN << <<c, m>> >> ELSE <<>>
Copies(s, m, c, n) == s \in Seq({<<c, m>>}) /\ (m >= Total(n) => s = <<>>)

LEMMA Positive == SendMax \in Nat /\ SendMax > 0
  BY BlockAssumption

\* A block has bytes when it is one of those that a command of n bytes fills.
LEMMA BlockCount ==
  ASSUME NEW n \in Nat, NEW k \in Nat
  PROVE  /\ (n + SendMax - 1) \div SendMax \in Nat
         /\ k * SendMax < n <=> k < (n + SendMax - 1) \div SendMax
<1> DEFINE total == (n + SendMax - 1) \div SendMax
<1>1. SendMax \in Nat /\ SendMax > 0 /\ n + SendMax - 1 \in Nat
  BY Positive
<1>2. total \in Nat /\ total * SendMax <= n + SendMax - 1
      /\ n + SendMax - 1 < total * SendMax + SendMax
  BY <1>1, Z3T(30)
<1> HIDE DEF total
<1>3. ASSUME k < total PROVE k * SendMax < n
  <2>1. k + 1 <= total
    BY <1>3, <1>2
  <2>2. (k + 1) * SendMax <= total * SendMax
    BY <2>1, <1>1, <1>2, Z3T(30)
  <2>3. (k + 1) * SendMax = k * SendMax + SendMax
    BY <1>1, Z3T(30)
  <2> QED
    BY <2>2, <2>3, <1>1, <1>2, Z3T(30)
<1>4. ASSUME k >= total PROVE ~(k * SendMax < n)
  <2>1. k * SendMax >= total * SendMax
    BY <1>4, <1>1, <1>2, Z3T(30)
  <2> QED
    BY <2>1, <1>1, <1>2, Z3T(30)
<1> QED
  BY <1>2, <1>3, <1>4 DEF total

\* The parts that are sent are enough for the blocks.
LEMMA PartsEnough ==
  ASSUME NEW n \in Nat
  PROVE  (n + SendMax - 1) \div SendMax <= n \div SendMax + 1 /\ n \div SendMax \in Nat
<1> DEFINE q == n \div SendMax
<1>1. SendMax \in Nat /\ SendMax > 0
  BY Positive
<1>2. q \in Nat /\ n < q * SendMax + SendMax
  BY <1>1, Z3T(30)
<1> HIDE DEF q
<1>3. (q + 1) * SendMax = q * SendMax + SendMax /\ (q + 1) * SendMax \in Nat
  BY <1>1, <1>2, Z3T(30)
<1>4. ~((q + 1) * SendMax < n)
  BY <1>2, <1>3, <1>1
<1>5. ~(q + 1 < (n + SendMax - 1) \div SendMax) /\ (n + SendMax - 1) \div SendMax \in Nat
  BY <1>4, <1>2, BlockCount
<1> QED
  BY <1>5, <1>2 DEF q

LEMMA TotalIsNat == \A n \in Nat : Total(n) \in Nat
  BY BlockCount DEF Total

LEMMA BlockBytes == len \in Nat => \A m \in Nat : Block(m) = Bytes(m, id, len)
  BY BlockCount DEF Block, Bytes, Total

LEMMA PrefixMore ==
  ASSUME NEW n \in Nat, NEW m \in Nat, NEW c
  PROVE  Prefix(m, c, n) \o Bytes(m, c, n) = Prefix(m + 1, c, n)
<1> DEFINE z == IF m < Total(n) THEN m ELSE Total(n)
<1>1. Total(n) \in Nat /\ z \in Nat
  BY TotalIsNat
<1>2. Prefix(m, c, n) \in Seq({c} \X Int) /\ Len(Prefix(m, c, n)) = z
  BY <1>1 DEF Prefix
<1>3. \A k \in 1 .. z : Prefix(m, c, n)[k] = <<c, k - 1>>
  BY <1>1 DEF Prefix
<1>4. CASE m < Total(n)
  <2>1. Bytes(m, c, n) = << <<c, m>> >> /\ z = m
    BY <1>4 DEF Bytes
  <2>2. Prefix(m + 1, c, n) = [k \in 1 .. m + 1 |-> <<c, k - 1>>]
    BY <1>1, <1>4 DEF Prefix
  <2>3. Prefix(m, c, n) \o << <<c, m>> >> = [k \in 1 .. m + 1 |-> <<c, k - 1>>]
    <3> DEFINE u == Prefix(m, c, n) \o << <<c, m>> >>
               w == [k \in 1 .. m + 1 |-> <<c, k - 1>>]
    <3>1. << <<c, m>> >> \in Seq({c} \X Int) /\ Len(<< <<c, m>> >>) = 1
      OBVIOUS
    <3>2. u \in Seq({c} \X Int) /\ Len(u) = m + 1
      BY <3>1, <1>2, <2>1, ConcatProperties
    <3>3. ASSUME NEW k \in 1 .. m + 1
          PROVE  u[k] = IF k <= m THEN Prefix(m, c, n)[k] ELSE <<c, m>>
      <4>1. u[k] = IF k <= m THEN Prefix(m, c, n)[k] ELSE << <<c, m>> >>[k - m]
        BY <3>1, <1>2, <2>1, ConcatProperties
      <4>2. CASE k <= m
        BY <4>1, <4>2
      <4>3. CASE ~(k <= m)
        <5>1. k - m = 1
          BY <4>3
        <5>2. << <<c, m>> >>[k - m] = <<c, m>>
          BY <5>1
        <5> QED
          BY <4>1, <4>3, <5>2, Zenon
      <4> QED
        BY <4>2, <4>3
    <3>4. \A k \in 1 .. m + 1 : u[k] = <<c, k - 1>>
      BY <3>3, <1>3, <2>1
    <3>5. w \in Seq({c} \X Int) /\ Len(w) = m + 1 /\ \A k \in 1 .. m + 1 : w[k] = <<c, k - 1>>
      OBVIOUS
    <3> HIDE DEF u, w
    <3>6. u = w
      BY <3>2, <3>4, <3>5, SeqEqual
    <3> QED
      BY <3>6 DEF u, w
  <2> QED
    BY <2>1, <2>2, <2>3
<1>5. CASE ~(m < Total(n))
  <2>1. Bytes(m, c, n) = <<>> /\ Prefix(m + 1, c, n) = Prefix(m, c, n)
    BY <1>5, <1>1 DEF Prefix, Bytes
  <2> QED
    BY <2>1, <1>2
<1> QED
  BY <1>4, <1>5

LEMMA GathersMore ==
  ASSUME NEW n \in Nat, NEW m \in Nat, NEW c, NEW s, NEW t,
         Gathers(s, m, c, n), Copies(t, m, c, n), m < Total(n) => t # <<>>
  PROVE  Gathers(s \o t, m + 1, c, n)
<1> DEFINE u == s \o t
<1>1. Total(n) \in Nat
  BY TotalIsNat
<1>2. s \in Seq({c} \X Nat) /\ t \in Seq({<<c, m>>})
  BY DEF Gathers, Copies
<1>3. t \in Seq({c} \X Nat)
  BY <1>2
<1>4. u \in Seq({c} \X Nat) /\ Len(u) = Len(s) + Len(t)
  BY <1>2, <1>3
<1>5. \A k \in 1 .. Len(s) : u[k] = s[k] /\ s[k][2] < m /\ s[k][2] < Total(n) /\ s[k][2] \in Nat
  BY <1>2, <1>3 DEF Gathers
<1>6. \A k \in Len(s) + 1 .. Len(u) : u[k] = <<c, m>>
  BY <1>2, <1>3, <1>4
<1>7. Len(t) > 0 => m < Total(n)
  BY <1>1, <1>2 DEF Copies
<1>8. \A k \in 1 .. Len(u) : u[k][2] < m + 1 /\ u[k][2] < Total(n)
  <2> TAKE k \in 1 .. Len(u)
  <2>1. CASE k <= Len(s)
    BY <2>1, <1>1, <1>2, <1>5
  <2>2. CASE ~(k <= Len(s))
    BY <2>2, <1>2, <1>4, <1>6, <1>7
  <2> QED
    BY <2>1, <2>2
<1>9. \A j \in Nat : j < m + 1 /\ j < Total(n) => \E k \in 1 .. Len(u) : u[k] = <<c, j>>
  <2> TAKE j \in Nat
  <2> HAVE j < m + 1 /\ j < Total(n)
  <2>1. CASE j < m
    <3>1. PICK k \in 1 .. Len(s) : s[k] = <<c, j>>
      BY <2>1 DEF Gathers
    <3>2. k \in 1 .. Len(u)
      BY <1>2, <1>4
    <3>3. u[k] = <<c, j>>
      BY <3>1, <1>5
    <3> QED
      BY <3>2, <3>3
  <2>2. CASE j = m
    <3>1. Len(t) > 0
      BY <2>2, <1>2
    <3>2. Len(u) \in Len(s) + 1 .. Len(u) /\ Len(u) \in 1 .. Len(u)
      BY <3>1, <1>2, <1>4
    <3>3. u[Len(u)] = <<c, j>>
      BY <3>2, <1>6, <2>2
    <3> HIDE DEF u
    <3> QED
      BY <3>2, <3>3, Zenon
  <2>3. j < m \/ j = m
    OBVIOUS
  <2> QED
    BY <2>1, <2>2, <2>3, Zenon
<1>10. \A k \in 1 .. Len(u) - 1 : u[k][2] <= u[k + 1][2]
  <2> TAKE k \in 1 .. Len(u) - 1
  <2>1. CASE k + 1 <= Len(s)
    BY <2>1, <1>2, <1>4, <1>5 DEF Gathers
  <2>2. CASE k = Len(s)
    BY <2>2, <1>2, <1>4, <1>5, <1>6
  <2>3. CASE k > Len(s)
    BY <2>3, <1>2, <1>4, <1>6
  <2> QED
    BY <2>1, <2>2, <2>3, <1>2, <1>4
<1> HIDE DEF u
<1>11. Gathers(u, m + 1, c, n)
  BY <1>4, <1>8, <1>9, <1>10 DEF Gathers
<1> QED
  BY <1>11 DEF u

LEMMA NoBlocks ==
  ASSUME NEW n \in Nat, NEW c
  PROVE  Gathers(<<>>, 0, c, n) /\ <<>> = Prefix(0, c, n) /\ (\A m \in Nat : Copies(<<>>, m, c, n))
<1>1. Total(n) \in Nat
  BY TotalIsNat
<1> QED
  BY <1>1 DEF Gathers, Prefix, Copies

LEMMA IsCommand ==
  ASSUME NEW c, NEW s \in Seq({c} \X Nat)
  PROVE  s # NoCommand
<1> SUFFICES ASSUME s = << <<-1, -1>> >> PROVE FALSE
  BY DEF NoCommand
<1>1. Len(s) = 1 /\ s[1] = <<-1, -1>>
  OBVIOUS
<1>2. s[1] \in {c} \X Nat
  BY <1>1, ElementOfSeq
<1>3. <<-1, -1>> \notin {c} \X Nat
  OBVIOUS
<1> QED
  BY <1>1, <1>2, <1>3

LEMMA CopiesMore ==
  ASSUME NEW n \in Nat, NEW m \in Nat, NEW c, NEW s, Copies(s, m, c, n)
  PROVE  /\ Copies(s \o Bytes(m, c, n), m, c, n)
         /\ m < Total(n) => s \o Bytes(m, c, n) # <<>>
         /\ s = <<>> => s \o Bytes(m, c, n) = Bytes(m, c, n)
<1>1. Total(n) \in Nat
  BY TotalIsNat
<1>2. s \in Seq({<<c, m>>}) /\ (m >= Total(n) => s = <<>>)
  BY DEF Copies
<1>3. CASE m < Total(n)
  <2> DEFINE b == << <<c, m>> >>
  <2>1. Bytes(m, c, n) = b
    BY <1>3 DEF Bytes
  <2>2. b \in Seq({<<c, m>>}) /\ Len(b) = 1
    OBVIOUS
  <2>3. s \o b \in Seq({<<c, m>>}) /\ Len(s \o b) = Len(s) + 1
    BY <1>2, <2>2, ConcatProperties
  <2>4. s \o b # <<>>
    BY <1>2, <2>3
  <2>5. s = <<>> => s \o b = b
    BY <2>2
  <2>6. Copies(s \o b, m, c, n)
    BY <1>1, <1>3, <2>3 DEF Copies
  <2> QED
    BY <2>1, <2>4, <2>5, <2>6
<1>4. CASE ~(m < Total(n))
  BY <1>1, <1>2, <1>4 DEF Copies, Bytes
<1> QED
  BY <1>3, <1>4

\* When the last part has been sent, every block has.
LEMMA AllBlocks ==
  ASSUME NEW n \in Nat, NEW m \in Nat, NEW c, NEW s,
         Gathers(s, m, c, n), ~(m < n \div SendMax + 1)
  PROVE  /\ Gathers(s, Total(n), c, n)
         /\ Prefix(m, c, n) = Command(c, n)
<1>1. Total(n) \in Nat /\ Total(n) <= m
  BY TotalIsNat, PartsEnough DEF Total
<1>2. Gathers(s, Total(n), c, n)
  <2>1. \A k \in 1 .. Len(s) : s[k][2] < Total(n)
    BY DEF Gathers
  <2>2. ASSUME NEW j \in Nat, j < Total(n)
        PROVE  \E k \in 1 .. Len(s) : s[k] = <<c, j>>
    <3>1. j < m
      BY <1>1, <2>2
    <3> QED
      BY <2>2, <3>1, Zenon DEF Gathers
  <2> QED
    BY <2>1, <2>2, Zenon DEF Gathers
<1>3. Prefix(m, c, n) = Command(c, n)
  BY <1>1 DEF Prefix, Command, Total
<1> QED
  BY <1>2, <1>3

-----------------------------------------------------------------------------
(* What the card has and executes                                           *)

\* The blocks that are sent of a command of n bytes, and whether one follows.
PartsOf(n) == n \div SendMax + 1
MoreParts == i + 1 < PartsOf(len)

\* What the card has of the command before it takes block i, and after.
HasBefore == Gathers(got, i, id, len) /\ (repeats = 0 => got = Prefix(i, id, len))
HasTaken == Gathers(got, i + 1, id, len) /\ (repeats = 0 => got = Prefix(i + 1, id, len))

\* What the reader sends of it.
Sent ==
  /\ Copies(data, i, id, len)
  /\ i < Total(len) => data # <<>>
  /\ repeats = 0 => data = Bytes(i, id, len)

\* The card executes nothing but a whole command.
Whole ==
  executed # NoCommand =>
    /\ Gathers(executed, Total(len), id, len)
    /\ repeats = 0 => executed = Command(id, len)
    /\ outcome # "none"

ReaderInvariant ==
  /\ i \in Nat /\ len \in Nat /\ id \in {0, 1} /\ i < PartsOf(len)
  /\ outcome # "none" => len \in Lengths
  /\ pc = "idle" => got = <<>>
  /\ pc \in {"block", "waiting", "extending"} <=> outcome = "pending"
  /\ pc = "block" => /\ HasBefore /\ executed = NoCommand
                     /\ Copies(data, i, id, len) /\ (repeats = 0 => data = <<>>)

\* A block on its way, whatever the reader does meanwhile.
BlockInvariant ==
  to_card.kind = "I" =>
    /\ HasBefore /\ Sent /\ executed = NoCommand /\ outcome # "none"
    /\ to_card.inf = data /\ to_card.chain = MoreParts

\* What the reader waits for: a block was refused, was taken, or was the last.
AnswerInvariant ==
  pc \in {"waiting", "extending"} /\ to_card.kind # "I" /\ to_reader.kind # "empty" =>
    \/ /\ Behind /\ HasBefore /\ executed = NoCommand
       /\ Copies(data, i, id, len) /\ repeats > 0
    \/ Level /\ MoreParts /\ HasTaken /\ executed = NoCommand
    \/ Level /\ ~MoreParts /\ got = <<>> /\ executed # NoCommand

CommandInvariant ==
  NumbersInvariant /\ ReaderInvariant /\ BlockInvariant /\ AnswerInvariant /\ Whole

LEMMA CommandInit == Init => CommandInvariant
<1> SUFFICES ASSUME Init PROVE CommandInvariant
  OBVIOUS
<1>1. NumbersInvariant
  BY NumbersInit
<1>2. 0 \div SendMax \in Nat
  BY PartsEnough
<1> QED
  BY <1>1, <1>2
  DEF Init, CommandInvariant, ReaderInvariant, BlockInvariant, AnswerInvariant, Whole, NoFrame,
      PartsOf

LEMMA CommandStep == CommandInvariant /\ [Next]_vars => CommandInvariant'
<1> SUFFICES ASSUME CommandInvariant, [Next]_vars PROVE CommandInvariant'
  OBVIOUS
<1>0. /\ NumbersInvariant' /\ len \in Nat /\ i \in Nat
      /\ PartsOf(len) \in Nat /\ More = MoreParts
  <2>1. NumbersInvariant' /\ len \in Nat /\ i \in Nat
    BY NumbersStep DEF CommandInvariant, ReaderInvariant
  <2>2. PartsOf(len) \in Nat
    BY <2>1, PartsEnough DEF PartsOf
  <2>3. More = MoreParts
    BY Zenon DEF More, Parts, MoreParts, PartsOf
  <2> QED
    BY <2>1, <2>2, <2>3
<1> USE DEF CommandInvariant, ReaderInvariant, BlockInvariant, AnswerInvariant, Whole,
            NumbersInvariant, InTheAir, Behind, Level, HasBefore, HasTaken, Sent, MoreParts,
            NoFrame, reader, air, card
<1>1. CASE Activate \/ ActivateShort \/ Deselect
  <2>1. ReaderInvariant'
    BY <1>0, <1>1 DEF Activate, ActivateShort, Deselect
  <2>2. BlockInvariant'
    BY <1>0, <1>1 DEF Activate, ActivateShort, Deselect
  <2>3. AnswerInvariant'
    BY <1>0, <1>1 DEF Activate, ActivateShort, Deselect
  <2>4. Whole'
    BY <1>0, <1>1 DEF Activate, ActivateShort, Deselect
  <2> QED
    BY <1>0, <2>1, <2>2, <2>3, <2>4
<1>2. ASSUME NEW n \in Lengths, Exchange(n) PROVE CommandInvariant'
  <2>0. n \in Nat
    BY BlockAssumption
  <2>1. n \in Nat /\ 0 < PartsOf(n)
    BY <2>0, PartsEnough DEF PartsOf
  <2>2. Gathers(<<>>, 0, id', n) /\ <<>> = Prefix(0, id', n) /\ Copies(<<>>, 0, id', n)
    BY <2>1, NoBlocks
  <2>3. ReaderInvariant'
    BY <1>0, <1>2, <2>1, <2>2 DEF Exchange
  <2>4. BlockInvariant'
    BY <1>0, <1>2, <2>1, <2>2 DEF Exchange
  <2>5. AnswerInvariant'
    BY <1>0, <1>2, <2>1, <2>2 DEF Exchange
  <2>6. Whole'
    BY <1>0, <1>2, <2>1, <2>2 DEF Exchange
  <2> QED
    BY <1>0, <2>3, <2>4, <2>5, <2>6
<1>3. CASE SendBlock
  <2>1. Block(i) = Bytes(i, id, len)
    BY <1>0, BlockBytes
  <2>2. /\ Copies(data', i, id, len)
        /\ i < Total(len) => data' # <<>>
        /\ data = <<>> => data' = Bytes(i, id, len)
    <3>1. data' = data \o Bytes(i, id, len) /\ Copies(data, i, id, len)
      BY <1>3, <2>1 DEF SendBlock
    <3> QED
      BY <1>0, <3>1, CopiesMore
  <2>3. ReaderInvariant'
    BY <1>0, <1>3, <2>2 DEF SendBlock, Transmit
  <2>4. BlockInvariant'
    BY <1>0, <1>3, <2>2 DEF SendBlock, Transmit
  <2>5. AnswerInvariant'
    BY <1>0, <1>3, <2>2 DEF SendBlock, Transmit
  <2>6. Whole'
    BY <1>0, <1>3, <2>2 DEF SendBlock, Transmit
  <2> QED
    BY <1>0, <2>3, <2>4, <2>5, <2>6
<1>4. CASE Receive
  <2> DEFINE resp == to_reader
  <2>1. /\ pc \in {"waiting", "extending"} /\ resp.kind # "none" /\ to_card.kind # "I"
        /\ to_reader'.kind = "none" /\ UNCHANGED <<card, executed>>
        /\ to_card' = IF resp.kind = "S" THEN resp ELSE to_card
    BY <1>4 DEF Receive
  <2>2. CASE send_again /\ resp.kind = "R" /\ resp.bn = 1 - pni /\ pc = "waiting"
    BY <1>0, <2>1, <2>2 DEF send_again
  <2>3. CASE extended /\ resp.kind = "S"
    BY <1>0, <2>1, <2>3 DEF extended
  <2>4. CASE acknowledged /\ resp.kind = "R" /\ resp.bn = pni /\ More
    <3>1. Copies(<<>>, i + 1, id, len)
      <4>1. i + 1 \in Nat
        BY <1>0
      <4>2. \A m \in Nat : Copies(<<>>, m, id, len)
        BY <1>0, NoBlocks
      <4> QED
        BY <4>1, <4>2
    <3>2. Level /\ ~Behind
      BY <2>1, <2>4
    <3>3. MoreParts /\ HasTaken /\ executed = NoCommand
      BY <1>0, <2>1, <2>4, <3>2
    <3> QED
      BY <1>0, <2>1, <2>4, <3>1, <3>2, <3>3 DEF acknowledged
  <2>5. ASSUME NEW chain, answered(chain), resp.kind = "I", resp.bn = pni, ~More
        PROVE  CommandInvariant'
    <3>1. Level /\ ~Behind
      BY <2>1, <2>5
    <3>2. got = <<>> /\ executed # NoCommand
      BY <1>0, <2>1, <2>5, <3>1
    <3> QED
      BY <1>0, <2>1, <2>5, <3>2 DEF answered
  <2>6. CASE empty_answer \/ Failed
    BY <1>0, <2>1, <2>6 DEF empty_answer, Failed
  <2> QED
    BY <1>4, <2>2, <2>3, <2>4, <2>5, <2>6 DEF Receive
<1>5. CASE CommunicationError
  BY <1>0, <1>5 DEF CommunicationError, Failed
<1>6. CASE CardBlock
  <2>1. /\ to_card'.kind = "none" /\ UNCHANGED <<pc, reader, repeats, outcome>>
        /\ card_bn' = 1 - card_bn
    BY <1>6 DEF CardBlock
  <2>2. Gathers(got \o data, i + 1, id, len)
    BY <1>0, <1>6, GathersMore DEF CardBlock
  <2>3. repeats = 0 => got \o data = Prefix(i + 1, id, len)
    BY <1>0, <1>6, PrefixMore DEF CardBlock
  <2>4. CASE MoreParts
    <3>1. got' = got \o data /\ UNCHANGED executed
      BY <1>6, <2>4 DEF CardBlock
    <3> QED
      BY <1>0, <1>6, <2>1, <2>2, <2>3, <2>4, <3>1 DEF CardBlock
  <2>5. CASE ~MoreParts
    <3>1. got' = <<>> /\ executed' = got \o data
      BY <1>6, <2>5 DEF CardBlock
    <3>2. /\ Gathers(executed', Total(len), id, len)
          /\ Prefix(i + 1, id, len) = Command(id, len)
      BY <1>0, <2>2, <2>5, <3>1, AllBlocks DEF PartsOf
    <3>3. executed' # NoCommand
      BY <3>2, IsCommand DEF Gathers
    <3>4. ReaderInvariant'
      BY <1>0, <1>6, <2>1, <2>3, <2>5, <3>1, <3>2, <3>3 DEF CardBlock
    <3>5. BlockInvariant'
      BY <1>0, <1>6, <2>1, <2>3, <2>5, <3>1, <3>2, <3>3 DEF CardBlock
    <3>6. AnswerInvariant'
      BY <1>0, <1>6, <2>1, <2>3, <2>5, <3>1, <3>2, <3>3 DEF CardBlock
    <3>7. Whole'
      BY <1>0, <1>6, <2>1, <2>3, <2>5, <3>1, <3>2, <3>3 DEF CardBlock
    <3> QED
      BY <1>0, <3>4, <3>5, <3>6, <3>7
  <2> QED
    BY <2>4, <2>5
<1>7. CASE CardExtended
  BY <1>0, <1>7 DEF CardExtended
<1>8. CASE CardAsksAgain
  BY <1>0, <1>8 DEF CardAsksAgain
<1>9. CASE CardEmpty
  BY <1>0, <1>9 DEF CardEmpty
<1>10. CASE UNCHANGED vars
  BY <1>0, <1>10 DEF vars
<1> QED
  BY <1>1, <1>2, <1>3, <1>4, <1>5, <1>6, <1>7, <1>8, <1>9, <1>10 DEF Next

LEMMA CommandAlways == Spec => []CommandInvariant
  BY CommandInit, CommandStep, PTL DEF Spec

LEMMA WholeCommand ==
  ASSUME CommandInvariant, executed # NoCommand
  PROVE  /\ {executed[k] : k \in DOMAIN executed}
              = {Command(id, len)[k] : k \in DOMAIN Command(id, len)}
         /\ \A k \in 1 .. Len(executed) - 1 : executed[k][2] <= executed[k + 1][2]
<1> DEFINE s == executed
           t == Command(id, len)
<1>1. len \in Nat /\ Total(len) \in Nat
  BY TotalIsNat DEF CommandInvariant, ReaderInvariant
<1>2. Gathers(s, Total(len), id, len)
  BY DEF CommandInvariant, Whole
<1>3. t = [k \in 1 .. Total(len) |-> <<id, k - 1>>]
  BY DEF Command, Total
<1>4. s \in Seq({id} \X Nat) /\ DOMAIN s = 1 .. Len(s)
  BY <1>2 DEF Gathers
<1>5. ASSUME NEW k \in DOMAIN s PROVE \E j \in DOMAIN t : s[k] = t[j]
  <2>1. s[k] \in {id} \X Nat /\ s[k][2] < Total(len)
    BY <1>2, <1>4, ElementOfSeq DEF Gathers
  <2>2. s[k][2] + 1 \in DOMAIN t /\ t[s[k][2] + 1] = <<id, s[k][2]>>
    BY <1>1, <1>3, <2>1
  <2>3. s[k] = <<id, s[k][2]>>
    BY <2>1
  <2> QED
    BY <2>2, <2>3, Zenon
<1>6. ASSUME NEW j \in DOMAIN t PROVE \E k \in DOMAIN s : s[k] = t[j]
  <2>1. j - 1 \in Nat /\ j - 1 < Total(len) /\ t[j] = <<id, j - 1>>
    BY <1>1, <1>3
  <2>2. PICK k \in 1 .. Len(s) : s[k] = <<id, j - 1>>
    BY <1>2, <2>1 DEF Gathers
  <2> QED
    BY <1>4, <2>1, <2>2
<1> HIDE DEF s, t
<1>7. {s[k] : k \in DOMAIN s} = {t[k] : k \in DOMAIN t}
  BY <1>5, <1>6
<1> QED
  BY <1>2, <1>7 DEF Gathers, s, t

\* What a card executes has every block of the command in order, also when it has
\* asked for a block again (iso_dep.rs 57-69).
THEOREM NoBlockIsMissing == Spec => []NoBlockMissing
<1>1. CommandInvariant => NoBlockMissing
  BY WholeCommand DEF NoBlockMissing
<1> QED
  BY <1>1, CommandAlways, PTL

-----------------------------------------------------------------------------
(* Refinement                                                               *)

LEMMA ApduInit == Init => Apdu!Init
  BY DEF Init, Apdu!Init, NoCommand

LEMMA CommandIsNot == CommandInvariant => Command(id, len) # NoCommand
<1> SUFFICES ASSUME CommandInvariant PROVE Command(id, len) # NoCommand
  OBVIOUS
<1>1. Total(len) \in Nat
  BY TotalIsNat DEF CommandInvariant, ReaderInvariant
<1>2. [k \in 1 .. Total(len) |-> <<id, k - 1>>] \in Seq({id} \X Nat)
  BY <1>1
<1> QED
  BY <1>2, IsCommand DEF Command, Total

\* What the abstract specification sees of the exchange.
asked == IF outcome = "none" THEN NoCommand ELSE Command(id, len)
done == IF executed = NoCommand THEN NoCommand ELSE Command(id, len)

LEMMA Seen ==
  CommandInvariant =>
    done = IF executed # NoCommand /\ repeats > 0 THEN Command(id, len) ELSE executed
  BY DEF CommandInvariant, NumbersInvariant, Whole, done

LEMMA ApduStep ==
  CommandInvariant /\ CommandInvariant' /\ [Next]_vars => [Apdu!Next]_(Apdu!exchange)
<1> SUFFICES ASSUME CommandInvariant, CommandInvariant', [Next]_vars
             PROVE  [Apdu!Next]_(Apdu!exchange)
  OBVIOUS
<1> DEFINE next == \/ \E c \in {0, 1}, n \in Lengths :
                        /\ outcome # "pending" /\ asked' = Command(c, n)
                        /\ done' = NoCommand /\ outcome' = "pending"
                   \/ /\ asked # NoCommand /\ done = NoCommand
                      /\ done' = asked /\ asked' = asked /\ outcome' = outcome
                   \/ /\ outcome = "pending" /\ done = asked /\ outcome' = "answered"
                      /\ asked' = asked /\ done' = done
                   \/ /\ outcome = "pending" /\ outcome' = "failed"
                      /\ asked' = asked /\ done' = done
                   \/ asked' = asked /\ done' = done /\ outcome' = outcome
<1>1. next => [Apdu!Next]_(Apdu!exchange)
  <2>1. done = IF executed # NoCommand /\ repeats > 0 THEN Command(id, len) ELSE executed
    BY Seen
  <2>2. done' = (IF executed # NoCommand /\ repeats > 0 THEN Command(id, len) ELSE executed)'
    <3>1. repeats' \in Nat
      BY DEF CommandInvariant, NumbersInvariant
    <3>2. executed' # NoCommand /\ ~(repeats' > 0) => executed' = Command(id', len')
      BY <3>1 DEF CommandInvariant, Whole, NoCommand, Command
    <3> QED
      BY <3>2 DEF done, NoCommand, Command
  <2> QED
    BY <2>1, <2>2 DEF asked, Apdu!Next, Apdu!exchange, Apdu!Ask, Apdu!Execute, Apdu!Answer, Apdu!Fail
<1>2. ASSUME UNCHANGED <<id, len, outcome, executed>> PROVE next
  <2>1. asked' = asked /\ done' = done /\ outcome' = outcome
    BY <1>2 DEF asked, done, NoCommand, Command
  <2> QED
    BY <2>1
<1>3. ASSUME NEW n \in Lengths, Exchange(n) PROVE next
  <2>1. outcome # "pending" /\ 1 - id \in {0, 1}
    BY <1>3 DEF Exchange, CommandInvariant, ReaderInvariant
  <2>2. asked' = Command(1 - id, n) /\ done' = NoCommand /\ outcome' = "pending"
    BY <1>3 DEF Exchange, asked, done
  <2> QED
    BY <2>1, <2>2
<1>4. ASSUME Receive PROVE next
  <2>1. /\ pc \in {"waiting", "extending"} /\ UNCHANGED <<id, len, executed>>
        /\ UNCHANGED outcome \/ outcome' \in {"answered", "failed"}
    BY <1>4 DEF Receive, empty_answer, send_again, extended, acknowledged, answered, Failed,
                card, reader
  <2>2. outcome = "pending"
    BY <2>1 DEF CommandInvariant, ReaderInvariant
  <2>3. asked = Command(id, len) /\ (outcome' # outcome => asked' = asked) /\ done' = done
    BY <2>1, <2>2 DEF asked, done, NoCommand, Command
  <2>4. CASE outcome' = "answered"
    <3>1. to_reader.kind = "I" /\ to_reader.bn = pni /\ ~More
      BY <1>4, <2>2, <2>4
      DEF Receive, empty_answer, send_again, extended, acknowledged, answered, Failed
    <3>2. to_card.kind # "I" /\ Level /\ ~Behind
      BY <2>1, <3>1
      DEF CommandInvariant, NumbersInvariant, InTheAir, Level, Behind
    <3>3. More = MoreParts
      BY Zenon DEF More, Parts, MoreParts, PartsOf
    <3>4. executed # NoCommand
      BY <2>1, <3>1, <3>2, <3>3 DEF CommandInvariant, AnswerInvariant
    <3>5. done = asked
      BY <2>3, <3>4 DEF done
    <3> QED
      BY <2>2, <2>3, <2>4, <3>5
  <2>5. CASE outcome' = "failed"
    BY <2>2, <2>3, <2>5
  <2>6. CASE UNCHANGED outcome
    BY <1>2, <2>1, <2>6
  <2> QED
    BY <2>1, <2>4, <2>5, <2>6
<1>5. ASSUME CommunicationError PROVE next
  <2>1. /\ UNCHANGED <<id, len, executed>> /\ pc \in {"waiting", "extending"}
        /\ outcome' = "failed"
    BY <1>5 DEF CommunicationError, Failed, card, reader
  <2>2. outcome = "pending"
    BY <2>1 DEF CommandInvariant, ReaderInvariant
  <2>3. asked' = asked /\ done' = done
    BY <2>1, <2>2 DEF asked, done, NoCommand, Command
  <2> QED
    BY <2>1, <2>2, <2>3
<1>6. ASSUME CardBlock PROVE next
  <2>1. executed = NoCommand /\ outcome # "none" /\ UNCHANGED <<id, len, outcome>>
    BY <1>6 DEF CardBlock, CommandInvariant, BlockInvariant, reader
  <2>2. asked = Command(id, len) /\ asked' = asked /\ asked # NoCommand /\ done = NoCommand
    BY <2>1, CommandIsNot DEF asked, done, Command, NoCommand
  <2>3. CASE executed' = NoCommand
    BY <1>2, <2>1, <2>3
  <2>4. CASE executed' # NoCommand
    <3>1. done' = asked
      BY <2>1, <2>2, <2>4 DEF done, Command, NoCommand
    <3> QED
      BY <2>1, <2>2, <3>1
  <2> QED
    BY <2>3, <2>4
<1>7. ASSUME \/ Activate \/ ActivateShort \/ SendBlock \/ Deselect
             \/ CardExtended \/ CardAsksAgain \/ CardEmpty \/ UNCHANGED vars
      PROVE  next
  <2>1. UNCHANGED <<id, len, outcome, executed>>
    BY <1>7 DEF Activate, ActivateShort, SendBlock, Deselect, CardExtended, CardAsksAgain,
                CardEmpty, vars, reader, card
  <2> QED
    BY <1>2, <2>1
<1> HIDE DEF next
<1> QED
  BY <1>1, <1>3, <1>4, <1>5, <1>6, <1>7 DEF Next

\* The block protocol does what Target::transmit promises: a command is executed
\* at most once, and as given unless the card asked for a block again, and an answer
\* is its own (iso_dep.rs 37-106).
THEOREM ApduRefinement == Spec => ImplementsApduExchange
  BY ApduInit, ApduStep, CommandAlways, PTL DEF Spec, ImplementsApduExchange, Apdu!Spec
=============================================================================
