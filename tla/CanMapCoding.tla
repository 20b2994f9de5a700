----------------------------- MODULE CanMapCoding -----------------------------
(***************************************************************************)
(* What becomes of the values of a mapped message: SendAll puts each into  *)
(* its bits of the two data words, HandleRx of another node with the same  *)
(* map takes them out again (canmap.cpp).  Gain and offset are one and     *)
(* none; any item that Add accepts may be mapped.                          *)
(*                                                                         *)
(* A word is the set of its bits that are one: the shifts of C move the    *)
(* bits, and its "or" is the union.                                        *)
(***************************************************************************)
EXTENDS Integers, Sequences

CONSTANTS
    ByteBits,       \* bits of a byte of a message: 8
    CharBits,       \* bits of what uint8_t* points to: 8, on C28x 16
    Lengths,        \* lengths mapped: at most a word
    OtherLengths,   \* lengths of the other item of the message
    Values(_),      \* words an item so many bits long may be sent with
    OtherValues(_)  \* the same for the other item

Width == 4 * ByteBits
Bits == 0..(Width - 1)
Word == SUBSET Bits
NoBits == {}

ASSUME CodingAssumption ==
    /\ ByteBits \in Nat \ {0} /\ CharBits \in {ByteBits, 2 * ByteBits}
    /\ Lengths \subseteq 1..Width /\ OtherLengths \subseteq 1..Width
    /\ \A bits \in 1..Width: Values(bits) \subseteq Word /\ OtherValues(bits) \subseteq Word

VARIABLES
    message,    \* the items, in the order of the list: offset, bits, big, value
    words,      \* the data words
    packed,     \* items SendAll has put into them
    received    \* values HandleRx has taken out of them

codingVars == <<message, words, packed, received>>

Left(w, n) == {b \in Bits: b - n \in w}
Right(w, n) == {b \in Bits: b + n \in w}
Low(n) == 0..(n - 1)

(* Shifts by the width of the operand and more are undefined: nothing is   *)
(* shifted, or everything out.                                             *)
Rights(w, n) == IF n < Width THEN {Right(w, n)} ELSE {w, NoBits}
Masks(n) == IF n < Width THEN {Low(n)} ELSE {NoBits, Bits}

(* The bytes of a word through a pointer to uint8_t.  Where that has 16    *)
(* bits only two are of the word, and what lies behind it is not known.    *)
Char(w, i) == {b \in Low(CharBits): b + i * CharBits \in w}
Behind == {NoBits, Low(CharBits)}
Swapped(w, third, fourth) ==
    Left(Char(w, 0), 3 * ByteBits) \cup Left(Char(w, 1), 2 * ByteBits)
        \cup Left(third, ByteBits) \cup fourth
Swaps(w) ==
    IF CharBits = ByteBits THEN {Swapped(w, Char(w, 2), Char(w, 3))}
    ELSE {Swapped(w, third, fourth): third \in Behind, fourth \in Behind}
-----------------------------------------------------------------------------
(* What Add accepts. *)
Accepted(item) ==
    IF item.big THEN item.offset < 2 * Width /\ item.offset - item.bits + 1 >= 0
                ELSE item.offset + item.bits - 1 < 2 * Width

(* Words an item adds to the message, given its value masked. *)
Little(item, value) ==
    IF item.offset >= Width THEN <<NoBits, Left(value, item.offset - Width)>>
    ELSE IF item.offset + item.bits <= Width THEN <<Left(value, item.offset), NoBits>>
    ELSE <<Left(value, item.offset), Right(value, Width - item.offset)>>

Big(item, swapped) ==
    IF item.offset < Width THEN <<Right(swapped, Width - 1 - item.offset), NoBits>>
    ELSE IF item.offset - item.bits >= Width - 1
    THEN <<NoBits, Right(swapped, 2 * Width - 1 - item.offset)>>
    ELSE <<Left(swapped, item.offset - (Width - 1)), Right(swapped, 2 * Width - 1 - item.offset)>>

Packed(item) ==
    UNION {LET value == item.value \cap mask
           IN  IF item.big THEN {Big(item, s): s \in Swaps(value)} ELSE {Little(item, value)}
          : mask \in Masks(item.bits)}

(* The word an item of a received message is taken from, and the place of  *)
(* its lowest bit there.                                                   *)
LittleFrom(item) ==
    IF item.offset >= Width THEN [word |-> words[2], pos |-> item.offset - Width]
    ELSE IF item.offset + item.bits <= Width THEN [word |-> words[1], pos |-> item.offset]
    ELSE [word |-> Right(words[1], item.offset) \cup Left(words[2], Width - item.offset), pos |-> 0]

SpanningUnshifted(item) ==                                          \* mutant
    LET first == item.offset - item.bits + 1
    IN  {[word |-> w \cup Left(words[2], Width - first), pos |-> item.offset - Width]
        : w \in Rights(words[1], first)}
Spanning(item) ==
    LET first == item.offset - item.bits + 1
    IN  {[word |-> w \cup Left(words[2], Width - first), pos |-> item.bits - 1]
        : w \in Rights(words[1], first)}
BigFrom(item) ==
    UNION {{[word |-> s, pos |-> Width - 1 - from.pos]: s \in Swaps(from.word)}
          : from \in IF item.offset < Width THEN {[word |-> words[1], pos |-> item.offset]}
                     ELSE IF item.offset - item.bits > Width - 1
                     THEN {[word |-> words[2], pos |-> item.offset - Width]}
                     ELSE Spanning(item)}

Unpacked(item) ==
    {Right(from.word, from.pos) \cap mask
    : from \in IF item.big THEN BigFrom(item) ELSE {LittleFrom(item)}, mask \in Masks(item.bits)}
-----------------------------------------------------------------------------
(* Bits of the message an item stands for: little endian from its offset   *)
(* up; big endian its offset counts from the first byte's highest bit.     *)
Place(i) == ByteBits * (i \div ByteBits) + (ByteBits - 1) - (i % ByteBits)
Cells(item) ==
    IF item.big THEN {Place(i): i \in (item.offset - item.bits + 1)..item.offset}
                ELSE item.offset..(item.offset + item.bits - 1)

Mappable(lengths) ==
    {item \in [offset: 0..(2 * Width - 1), bits: lengths, big: BOOLEAN]: Accepted(item)}
Valued(item, value) ==
    [offset |-> item.offset, bits |-> item.bits, big |-> item.big, value |-> value]

CodingInit ==
    /\ \E one \in Mappable(Lengths), two \in Mappable(OtherLengths):
          /\ Cells(one) \cap Cells(two) = {}
          /\ \E value \in Values(one.bits), other \in OtherValues(two.bits):
                message \in {<<Valued(one, value), Valued(two, other)>>,
                            <<Valued(two, other), Valued(one, value)>>}
    /\ words = <<NoBits, NoBits>> /\ packed = 0 /\ received = <<>>

(* SendAll, one item. *)
Pack ==
    /\ packed < Len(message)
    /\ packed' = packed + 1
    /\ \E added \in Packed(message[packed + 1]):
          words' = <<words[1] \cup added[1], words[2] \cup added[2]>>
    /\ UNCHANGED <<message, received>>

(* HandleRx at the other node, one item. *)
Unpack ==
    /\ packed = Len(message) /\ Len(received) < Len(message)
    /\ \E value \in Unpacked(message[Len(received) + 1]): received' = Append(received, value)
    /\ UNCHANGED <<message, words, packed>>

CodingNext == Pack \/ Unpack

CodingSpec == CodingInit /\ [][CodingNext]_codingVars
-----------------------------------------------------------------------------
(* The type invariant. *)
CodingTypeOK ==
    /\ Len(message) <= 2 /\ words[1] \in Word /\ words[2] \in Word
    /\ packed \in 0..2 /\ received \in Seq(Word) /\ Len(received) <= packed

Carried(i) == received[i] = message[i].value \cap Low(message[i].bits)

(* SendAll swaps the bytes before it shifts a big endian value, which puts *)
(* it into its bits only when it ends with a byte.                         *)
EndsByte(item) == (item.offset + 1) % ByteBits = 0
Placed == \A i \in DOMAIN message: message[i].big => EndsByte(message[i])

(* Every little endian value shorter than a word arrives as it was sent,   *)
(* wherever it lies, across the boundary of the words too, and whatever    *)
(* item is beside it, big endian ones that end with a byte included.       *)
LittleCarried ==
    Placed => \A i \in DOMAIN received:
                ~message[i].big /\ message[i].bits < Width => Carried(i)

(* So does every big endian value that ends with a byte and lies in one    *)
(* word, or in both and has whole bytes, where uint8_t has a byte's bits.  *)
(* Not one that begins the second word: HandleRx takes it for one in both  *)
(* and shifts the first word by 32.                                        *)
InOneWord(item) == item.offset < Width \/ item.offset - item.bits >= Width
Spans(item) == item.offset - item.bits + 1 < Width /\ item.offset >= Width
BigCarried ==
    Placed => \A i \in DOMAIN received:
        /\ message[i].big /\ message[i].bits < Width
        /\ InOneWord(message[i]) \/ (Spans(message[i]) /\ message[i].bits % ByteBits = 0)
        => Carried(i)

(* What SendAll packs HandleRx unpacks, for items of both byte orders side *)
(* by side in one frame.                                                   *)
ValuesCarried == LittleCarried /\ BigCarried
=============================================================================
