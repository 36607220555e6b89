------------------------------- MODULE Codec -------------------------------
(***************************************************************************)
(* What a recognised message says (src/PROC_VOICE/src/voiceRecog.c): the   *)
(* decoders of its hexadecimal digits.  A message is a sequence of nibbles *)
(* (0 .. 15); a decoded character is <<alphabet, code>>, where "digit" is  *)
(* a hexadecimal digit itself, "lower" and "upper" are letters counted     *)
(* from a and A, "char64" is an entry of the library's table and "char256" *)
(* a byte.  A decoder takes the nibbles it has and how many characters it  *)
(* is asked for (negative: all there are), and returns the characters and  *)
(* how many nibbles they cost; the decoder of a whole message returns its  *)
(* fields and whether the assertions it makes hold.                        *)
(*                                                                         *)
(* The application calls String, WiFi, SSIDWiFi and Phone (Decode).  The   *)
(* rest of the library - the three other decoders and the composer of long *)
(* messages - has no caller in this repository, and is stated here as the  *)
(* code has it.                                                            *)
(***************************************************************************)
EXTENDS Integers, Sequences, SequencesExt, FiniteSetsExt

CONSTANTS MaxTransBlock,   \* MAX_TRANS_BLOCK_SIZE
          \* enum InfoType, from the library's header, which is external
          IT_WIFI, IT_SSID_WIFI, IT_PHONE, IT_STRING

Drop(hexs, n) == SubSeq(hexs, n + 1, Len(hexs))

Least(a, b) == IF a < b THEN a ELSE b

CeilDiv(a, b) == (a + b - 1) \div b

\* Bit i of the nibbles, the first one's highest bit being bit 0, and the
\* number that the bits from .. to - 1 make.
Bit(hexs, i) == (hexs[i \div 4 + 1] \div 2 ^ (3 - (i % 4))) % 2

BitsGet(hexs, from, to) ==
    MapThenSumSet(LAMBDA i : Bit(hexs, i) * 2 ^ (to - 1 - i), from .. to - 1)

Decoded(alphabet, codes, cost) ==
    [chars |-> [i \in DOMAIN codes |-> <<alphabet, codes[i]>>], cost |-> cost]

\* hex2Digit copies nibbles.
Digit(hexs, n) ==
    LET k == IF n < 0 THEN Len(hexs) ELSE Least(n, Len(hexs))
    IN  Decoded("digit", SubSeq(hexs, 1, k), k)

\* hex2Chars: bytes of two nibbles, a last odd one being the high half.
CharsCost(hexs, bits) ==
    IF bits < 0 THEN Len(hexs) ELSE Least(CeilDiv(bits, 4), Len(hexs))

Chars(hexs, bits) ==
    LET cost == CharsCost(hexs, bits)
        Nibble(i) == IF i <= cost THEN hexs[i] ELSE 0
    IN  Decoded("char256",
                [i \in 1 .. CeilDiv(cost, 2) |-> 16 * Nibble(2 * i - 1) + Nibble(2 * i)],
                cost)

Char256(hexs, n) == Chars(hexs, IF n > 0 THEN 8 * n ELSE n)

\* hex2Lower, hex2Upper and hex2Char64 cut the bits into codes of one width,
\* while there are bits for a whole code; when there is none the nibbles
\* hex2Chars consumed are spent all the same.
Packed(alphabet, width, hexs, n) ==
    LET whole == (4 * Len(hexs)) \div width
        k == IF n < 0 THEN whole ELSE Least(n, whole)
    IN  Decoded(alphabet,
                [i \in 1 .. k |-> BitsGet(hexs, (i - 1) * width, i * width)],
                IF k > 0 THEN CeilDiv(k * width, 4)
                ELSE CharsCost(hexs, IF n > 0 THEN n * width ELSE n))

Width == [lower |-> 5, upper |-> 5, char64 |-> 6]

\* The head of a text: its type, for a text of two alphabets the length of
\* the first part, and what the head costs.
LengthOf(hexs) == 16 * (hexs[1] % 2) + hexs[2] + 1

TypeOf(hexs) == hexs[1] \div 2

\* vr_decodeData: a text of one alphabet, or a part of one and the rest of
\* another.  The head says how long the first part of two is; the last gets
\* what is left of the length asked for.
Alphabets ==
    [type \in 0 .. 7 |->
        CASE type = 0 -> <<"digit">>           [] type = 1 -> <<"lower", "digit">>
          [] type = 2 -> <<"char64", "digit">> [] type = 3 -> <<"char256">>
          [] type = 4 -> <<"digit", "char64">> [] type = 5 -> <<"lower">>
          [] type = 6 -> <<"char64">>          [] type = 7 -> <<"upper">>]

Characters(alphabet, hexs, n) ==
    CASE alphabet = "digit"   -> Digit(hexs, n)
      [] alphabet = "char256" -> Char256(hexs, n)
      [] OTHER                -> Packed(alphabet, Width[alphabet], hexs, n)

Data(hexs, n) ==
    LET alphabets == Alphabets[TypeOf(hexs)]
        Asked(text, i) == IF i < Len(alphabets) THEN LengthOf(hexs)
                          ELSE IF n < 0 THEN n ELSE n - Len(text.chars)
        Read(text, i) ==
            LET more == Characters(alphabets[i], Drop(hexs, text.cost), Asked(text, i))
            IN  [chars |-> text.chars \o more.chars, cost |-> text.cost + more.cost]
    IN  FoldLeftDomain(Read, [chars |-> <<>>, cost |-> Len(alphabets)], alphabets)

\* vr_decodeInfoType.
InfoType(hexs) == hexs[1] \div 2

\* The assertion that a message is of the type its decoder is for.
Typed(type, hexs, message) == [message EXCEPT !.ok = @ /\ InfoType(hexs) = type]

\* vr_decodeString: one nibble of information type, then a text no longer
\* than the caller's buffer; it must leave room for the terminator.
String(hexs, size) ==
    LET text == Data(Drop(hexs, 1), size).chars
    IN  Typed(IT_STRING, hexs, [ok |-> Len(text) < size, fields |-> <<text>>])

\* Texts after one another, each of the length asked for.
InTurn(hexs, from, lengths) ==
    FoldLeft(LAMBDA s, n : LET text == Data(Drop(hexs, s.cost), n)
                           IN  [fields |-> Append(s.fields, text.chars),
                                cost   |-> s.cost + text.cost],
             [fields |-> <<>>, cost |-> from], lengths).fields

\* A message whose last two texts are a name and a password: the name's length
\* is in the message's head and must come out, the password takes the rest.
TwoTexts(hexs, from, before) ==
    LET fields == InTurn(hexs, from, before \o <<LengthOf(hexs), -1>>)
    IN  [ok |-> Len(fields[Len(before) + 1]) = LengthOf(hexs), fields |-> fields]

\* vr_decodeWiFi (an address and a password) is the one that takes any type.
WiFi(hexs) == TwoTexts(hexs, 2, <<>>)

SSIDWiFi(hexs) == Typed(IT_SSID_WIFI, hexs, TwoTexts(hexs, 2, <<>>))

Phone(hexs) == Typed(IT_PHONE, hexs, TwoTexts(hexs, 2, <<>>))

-----------------------------------------------------------------------------
(* What nobody calls.                                                      *)

PhoneLen == 11

\* vr_decodeZSSSIDWiFi: a phone number comes first.
ZSSSIDWiFi(hexs) == Typed(IT_SSID_WIFI, hexs, TwoTexts(hexs, 2, <<PhoneLen>>))

\* vr_decodeFSSSIDWiFi: five raw nibbles come first.
FSSSIDWiFi(hexs) ==
    LET wifi == TwoTexts(hexs, 2 + 5, <<>>)
    IN  Typed(IT_SSID_WIFI, hexs,
              [wifi EXCEPT !.fields = <<Digit(Drop(hexs, 2), 5).chars>> \o @])

\* vr_decodeXZXXX: a serial number of six raw nibbles, an address of four
\* bytes with their low halves first, and a port.
XZXXX(hexs) ==
    LET Low(i) == hexs[2 + 6 + 2 * i - 1]
        High(i) == hexs[2 + 6 + 2 * i]
    IN  Typed(2, hexs,
              [ok |-> TRUE,
               fields |-> <<Digit(Drop(hexs, 2), 6).chars,
                            [i \in 1 .. 4 |-> <<"char256", Low(i) + 16 * High(i)>>],
                            Data(Drop(hexs, 2 + 6 + 8), -1).chars>>])

\* struct BlocksComposer puts a long message together from blocks that come in
\* any order: a block's first nibble says how many there are and which it is.
\* The first block to come decides how many are waited for, the last of them
\* how long the message is; ok: the assertions on blocks have held.
NoBlocks == [count |-> 0, len |-> 0, flags |-> {}, data |-> [i \in {} |-> 0], ok |-> TRUE]

BlockCount(block) == block[1] \div 4 + 1

BlockIdx(block) == block[1] % 4

\* vr_bs_reset leaves the data where they are.
Reset(composer) == [composer EXCEPT !.count = 0, !.len = 0, !.flags = {}]

\* Every block has its place, which is as long as a block but the last must be.
ComposeBlock(composer, block) ==
    LET count == IF composer.count = 0 THEN BlockCount(block) ELSE composer.count
        idx   == BlockIdx(block)
        size  == Len(block) - 1
        from  == idx * MaxTransBlock
        place == from .. from + size - 1
    IN  [count |-> count,
         len   |-> IF idx = count - 1 THEN from + size ELSE composer.len,
         flags |-> composer.flags \cup {idx},
         data  |-> [i \in DOMAIN composer.data \cup place |->
                      IF i \in place THEN block[i - from + 2] ELSE composer.data[i]],
         ok    |-> composer.ok /\ (idx < count - 1 => size = MaxTransBlock)]

IsAllBlockComposed(composer) ==
    composer.count > 0 /\ 0 .. composer.count - 1 \subseteq composer.flags

\* What is read from the composer when all is there: data, up to dataLen.
Composed(composer) == [i \in 1 .. composer.len |-> composer.data[i - 1]]
=============================================================================
