------------------------------- MODULE IsoDep -------------------------------
(***************************************************************************)
(* The block protocol between the reader and a card (src/src/pn532/        *)
(* iso_dep.rs): a command is cut into blocks of at most SendMax bytes,     *)
(* each one numbered with one bit and acknowledged, and the answer to the  *)
(* last one is the card's.  The card may ask for more time and, if         *)
(* RepeatRequests allows it, for a block again.                            *)
(*                                                                         *)
(* A block is its place in its command, and commands are told apart by a   *)
(* bit.  The PN532 carries one frame each way; anything that can go wrong  *)
(* with either is an error at the reader, with the card possibly late.     *)
(***************************************************************************)
EXTENDS Integers, Sequences

CONSTANTS
  Lengths,         \* lengths of a command in bytes
  SendMax,         \* bytes of a command in a block
  MaxExtensions,   \* bound: times a card asks for more time, for one block
  RepeatRequests   \* times a card asks for a block again, in one exchange

ASSUME BlockAssumption ==
  /\ Lengths \subseteq Nat \ {0}
  /\ SendMax \in Nat \ {0}
  /\ MaxExtensions \in Nat
  /\ RepeatRequests \in Nat

VARIABLES
  pc,                        \* where exchange() is; see TypeOK
  id, len, i, data, pni,     \* the reader
  to_card, to_reader,        \* the frame on the air each way
  card_bn, got, owed,        \* the card: number, blocks chained, answer owed
  extensions, repeats,
  executed, outcome          \* history: what the card executed, what it came to

reader == <<id, len, i, data, pni>>
air == <<to_card, to_reader>>
card == <<card_bn, got, owed, extensions, repeats>>
vars == <<pc, reader, air, card, executed, outcome>>

-----------------------------------------------------------------------------
NoFrame == [kind |-> "none"]
NoCommand == << <<-1, -1>> >>

\* Mutant: the bytes after the last full block are forgotten.
Parts_full_blocks == len \div SendMax

\* let parts = (command.len() / send_max) + 1
Parts == len \div SendMax + 1

More == i + 1 < Parts

\* The bytes command[offset .. min(offset + send_max, len)], maybe none.
Block(k) == IF k * SendMax < len THEN << <<id, k>> >> ELSE <<>>

\* The whole command.
Command(c, n) == [k \in 1 .. (n + SendMax - 1) \div SendMax |-> <<c, k - 1>>]

Exchanging == pc \in {"block", "waiting", "extending"}

TypeOK ==
  \* no card; between exchanges; about to send a block; waiting for the answer
  \* to one; in the loop of waiting time extensions; an error; a panic
  /\ pc \in {"inactive", "idle", "block", "waiting", "extending", "failed", "panicked"}
  /\ id \in {0, 1} /\ len \in Lengths \cup {0} /\ i \in 0 .. len
  /\ data \in Seq({0, 1} \X (0 .. len))
  /\ pni \in {0, 1} /\ card_bn \in {0, 1}
  /\ to_card.kind \in {"none", "I", "S"}
  /\ to_reader.kind \in {"none", "I", "R", "S", "empty"}
  /\ got \in Seq({0, 1} \X (0 .. len)) /\ owed \in {"nothing", "R", "I"}
  /\ extensions \in 0 .. MaxExtensions /\ repeats \in 0 .. RepeatRequests
  /\ executed \in {NoCommand} \cup Seq({0, 1} \X (0 .. len))
  /\ outcome \in {"none", "pending", "answered", "failed"}

Init ==
  /\ pc = "inactive"
  /\ id = 0 /\ len = 0 /\ i = 0 /\ data = <<>> /\ pni = 0
  /\ to_card = NoFrame /\ to_reader = NoFrame
  /\ card_bn = 1 /\ got = <<>> /\ owed = "nothing"
  /\ extensions = 0 /\ repeats = 0
  /\ executed = NoCommand /\ outcome = "none"

-----------------------------------------------------------------------------
(* The reader                                                               *)

\* new_type_a, for a card it has not talked to: both numbers start afresh.
Activate ==
  /\ pc = "inactive"
  /\ pc' = "idle"
  /\ pni' = 0
  /\ card_bn' = 1 /\ got' = <<>> /\ owed' = "nothing"
  /\ to_card' = NoFrame /\ to_reader' = NoFrame
  /\ UNCHANGED <<id, len, i, data, extensions, repeats, executed, outcome>>

\* An answer to select that is too short to be indexed.
ActivateShort ==
  /\ pc = "inactive"
  /\ pc' = "panicked"
  /\ UNCHANGED <<reader, air, card, executed, outcome>>

\* exchange() up to its loop.
Exchange(n) ==
  /\ pc = "idle"
  /\ pc' = "block"
  /\ id' = 1 - id /\ len' = n
  /\ i' = 0 /\ data' = <<>>
  /\ repeats' = 0
  /\ executed' = NoCommand /\ outcome' = "pending"
  /\ UNCHANGED <<pni, air, card_bn, got, owed, extensions>>

Transmit(frame) == to_card' = frame /\ to_reader' = NoFrame

\* The top of the inner loop: the block is appended to `data`, which still holds
\* it when it is sent again.
SendBlock ==
  /\ pc = "block"
  /\ data' = data \o Block(i)
  /\ Transmit([kind |-> "I", bn |-> pni, chain |-> More, inf |-> data'])
  /\ pc' = "waiting"
  /\ extensions' = 0
  /\ UNCHANGED <<id, len, i, pni, card_bn, got, owed, repeats, executed, outcome>>

Failed == pc' = "failed" /\ outcome' = "failed" /\ UNCHANGED reader

\* Mutant: an acknowledgement of the previous block moves on to the next.
send_again_skips ==
  /\ pc' = "block"
  /\ i' = i + 1 /\ data' = <<>>
  /\ UNCHANGED <<id, len, pni, outcome>>

\* An acknowledgement of the previous block: this one was not received.
send_again == pc' = "block" /\ UNCHANGED <<reader, outcome>>

acknowledged ==
  /\ pni' = (pni + 1) % 2
  /\ i' = i + 1 /\ data' = <<>>
  /\ pc' = "block"
  /\ UNCHANGED <<id, len, outcome>>

\* Mutant: the block number is not advanced with the last block.
answered_same_number(chain) ==
  /\ pc' = IF chain THEN "panicked" ELSE "idle"
  /\ outcome' = IF chain THEN "failed" ELSE "answered"
  /\ UNCHANGED reader

\* An answer in more than one block is not implemented.
answered(chain) ==
  /\ pni' = (pni + 1) % 2
  /\ pc' = IF chain THEN "panicked" ELSE "idle"
  /\ outcome' = IF chain THEN "failed" ELSE "answered"
  /\ UNCHANGED <<id, len, i, data>>

\* An empty answer: checked for a block, indexed in the loop of extensions.
empty_answer == IF pc = "waiting" THEN Failed
                ELSE pc' = "panicked" /\ outcome' = "failed" /\ UNCHANGED reader

\* A waiting time extension, sent back after a pause.
extended == pc' = "extending" /\ UNCHANGED <<reader, outcome>>

Receive ==
  LET resp == to_reader
      Numbered(n) == resp.kind \in {"R", "I"} /\ resp.bn = n
  IN
  /\ pc \in {"waiting", "extending"}
  /\ resp.kind # "none"
  /\ to_reader' = NoFrame
  /\ to_card' = IF resp.kind = "S" THEN resp ELSE to_card
  /\ CASE resp.kind = "empty" -> empty_answer
       [] resp.kind = "R" /\ Numbered(1 - pni) /\ pc = "waiting" -> send_again
       [] resp.kind = "S" -> extended
       [] resp.kind = "R" /\ Numbered(pni) /\ More -> acknowledged
       [] resp.kind = "I" /\ Numbered(pni) /\ ~More -> answered(resp.chain)
       [] OTHER -> Failed
  /\ UNCHANGED <<card, executed>>

\* in_communicate_through returns an error: a timeout, or a frame that came
\* damaged.  Nothing is sent again.
CommunicationError ==
  /\ pc \in {"waiting", "extending"}
  /\ to_reader' = NoFrame
  /\ Failed
  /\ UNCHANGED <<to_card, card, executed>>

\* deselect(), whatever became of the exchanges; the IsoDep is dropped.
Deselect ==
  /\ pc \in {"idle", "failed"}
  /\ pc' = "inactive"
  /\ to_card' = NoFrame /\ to_reader' = NoFrame
  /\ UNCHANGED <<reader, card, executed, outcome>>

-----------------------------------------------------------------------------
(* The card                                                                 *)

\* What it answers a block with: what it owes, or a wish for more time.
Reply(owing, bn) ==
  \/ /\ to_reader' \in IF owing = "R" THEN {[kind |-> "R", bn |-> bn]}
                       ELSE {[kind |-> "I", bn |-> bn, chain |-> c] : c \in BOOLEAN}
     /\ owed' = "nothing"
     /\ UNCHANGED extensions
  \/ /\ extensions < MaxExtensions
     /\ to_reader' = [kind |-> "S"]
     /\ owed' = owing
     /\ extensions' = extensions + 1

\* It takes every block for a new one.
CardBlock ==
  /\ to_card.kind = "I"
  /\ to_card' = NoFrame
  /\ card_bn' = 1 - card_bn
  /\ IF to_card.chain
     THEN got' = got \o to_card.inf /\ UNCHANGED executed
     ELSE got' = <<>> /\ executed' = got \o to_card.inf
  /\ Reply(IF to_card.chain THEN "R" ELSE "I", card_bn')
  /\ UNCHANGED <<pc, reader, repeats, outcome>>

CardExtended ==
  /\ to_card.kind = "S" /\ owed # "nothing"
  /\ to_card' = NoFrame
  /\ Reply(owed, card_bn)
  /\ UNCHANGED <<pc, reader, card_bn, got, repeats, executed, outcome>>

CardAsksAgain ==
  /\ to_card.kind = "I"
  /\ repeats < RepeatRequests
  /\ repeats' = repeats + 1
  /\ to_card' = NoFrame
  /\ to_reader' = [kind |-> "R", bn |-> card_bn]
  /\ UNCHANGED <<pc, reader, card_bn, got, owed, extensions, executed, outcome>>

CardEmpty ==
  /\ to_card.kind # "none"
  /\ to_card' = NoFrame
  /\ to_reader' = [kind |-> "empty"]
  /\ UNCHANGED <<pc, reader, card, executed, outcome>>

-----------------------------------------------------------------------------
Next ==
  \/ Activate \/ ActivateShort
  \/ \E n \in Lengths : Exchange(n)
  \/ SendBlock
  \/ Receive
  \/ CommunicationError
  \/ Deselect
  \/ CardBlock \/ CardExtended \/ CardAsksAgain \/ CardEmpty

Spec == Init /\ [][Next]_vars

-----------------------------------------------------------------------------
\* Between exchanges reader and card agree on the number of the next block,
\* whatever was extended or sent again before: nothing but a new activation
\* would put them right (iso_dep.rs 77-97).
BlockNumbersAgree == pc = "idle" => card_bn = 1 - pni

\* A card that asks for a block again never misses one: what it executes has
\* every block of the command in order.  It may have one twice, the bytes of the
\* first attempt being sent with the second (iso_dep.rs 57-69).
NoBlockMissing ==
  executed # NoCommand =>
    /\ {executed[k] : k \in DOMAIN executed}
         = {Command(id, len)[k] : k \in DOMAIN Command(id, len)}
    /\ \A k \in 1 .. Len(executed) - 1 : executed[k][2] <= executed[k + 1][2]

Apdu == INSTANCE ApduExchange WITH
  Commands <- {Command(c, n) : c \in {0, 1}, n \in Lengths},
  asked <- IF outcome = "none" THEN NoCommand ELSE Command(id, len),
  executed <- IF executed # NoCommand /\ repeats > 0 THEN Command(id, len)
              ELSE executed

\* A command is executed at most once, and unaltered unless the card asked for a
\* block again (NoBlockMissing says what is left then), and an answer is its own
\* (iso_dep.rs 37-106).
ImplementsApduExchange == Apdu!Spec
=============================================================================
