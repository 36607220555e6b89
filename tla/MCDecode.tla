------------------------------ MODULE MCDecode ------------------------------
(***************************************************************************)
(* What a phone may tell, and how it writes it down: the inverse of each   *)
(* decoder, stated from the format the decoders accept.  One short message *)
(* meets noise twice, at any tones, those of two texts once, and the       *)
(* others show each format of a text.                                      *)
(***************************************************************************)
EXTENDS Decode

\* Codes of the given width as nibbles, the last one filled with zeros.
CodeBit(codes, width, i) ==
    IF i < width * Len(codes)
    THEN (codes[i \div width + 1] \div 2 ^ (width - 1 - (i % width))) % 2
    ELSE 0

Pack(codes, width) ==
    [j \in 1 .. CeilDiv(width * Len(codes), 4) |->
        MapThenSumSet(LAMBDA b : CodeBit(codes, width, 4 * (j - 1) + b) * 2 ^ (3 - b), 0 .. 3)]

Text(alphabet, codes) == [i \in DOMAIN codes |-> <<alphabet, codes[i]>>]

LenHead(high, n) == << 2 * high + (n - 1) \div 16, (n - 1) % 16 >>

Tells(kind, noisy, message, fields) ==
    [kind |-> kind, noise |-> noisy, message |-> message, fields |-> fields]

\* Texts: the nibbles and the characters, for each type.
Digits == [data |-> <<0, 4, 4, 4, 11>>, chars |-> Text("digit", <<4, 4, 4, 11>>)]
Lowers == [data |-> <<10>> \o Pack(<<0, 25, 3>>, 5), chars |-> Text("lower", <<0, 25, 3>>)]
Uppers == [data |-> <<14>> \o Pack(<<7, 19>>, 5), chars |-> Text("upper", <<7, 19>>)]
Codes  == [data |-> <<12>> \o Pack(<<63, 1, 32>>, 6), chars |-> Text("char64", <<63, 1, 32>>)]
Bytes  == [data |-> <<6>> \o Pack(<<200, 15>>, 8), chars |-> Text("char256", <<200, 15>>)]
LowerDigits == [data |-> LenHead(1, 2) \o Pack(<<6, 17>>, 5) \o <<9, 9>>,
                chars |-> Text("lower", <<6, 17>>) \o Text("digit", <<9, 9>>)]
CodeDigits  == [data |-> LenHead(2, 1) \o Pack(<<33>>, 6) \o <<5>>,
                chars |-> Text("char64", <<33>>) \o Text("digit", <<5>>)]
DigitCodes  == [data |-> LenHead(4, 3) \o <<1, 2, 3>> \o Pack(<<44, 55>>, 6),
                chars |-> Text("digit", <<1, 2, 3>>) \o Text("char64", <<44, 55>>)]
Texts == {Digits, Lowers, Uppers, Codes, Bytes, LowerDigits, CodeDigits, DigitCodes}

Eleven == [data |-> <<0, 1, 3, 8, 0, 0, 1, 3, 8, 0, 0, 0>>,
           chars |-> Text("digit", <<1, 3, 8, 0, 0, 1, 3, 8, 0, 0, 0>>)]

\* A message that ends with two texts, and what it says.
Two(type, between, before, a, b) ==
    [data   |-> LenHead(type, Len(a.chars)) \o between \o a.data \o b.data,
     fields |-> before \o <<a.chars, b.chars>>]

TypeNamed == [wifi |-> IT_WIFI, ssid_wifi |-> IT_SSID_WIFI, phone |-> IT_PHONE]

Strings ==
    {Tells("string", IF t = Digits THEN 2 ELSE 0, <<2 * IT_STRING>> \o t.data, <<t.chars>>) :
        t \in Texts}

Pairs ==
    {LET two == Two(TypeNamed[kind], <<>>, <<>>, a, b) IN Tells(kind, 1, two.data, two.fields) :
        kind \in DOMAIN TypeNamed, a \in {Lowers, DigitCodes, Bytes}, b \in {Uppers, CodeDigits}}

UnknownType == CHOOSE t \in 0 .. 7 : t \notin {IT_WIFI, IT_SSID_WIFI, IT_PHONE, IT_STRING}

Unknown == LET message == <<2 * UnknownType, 1, 2, 3>>
           IN  Tells("data", 0, message, <<message>>)

MCInfos == Strings \cup Pairs \cup {Unknown}

-----------------------------------------------------------------------------
(* The library's functions without a caller, against what was written for  *)
(* them.                                                                   *)

ASSUME OthersReadBack ==
    LET fs == Two(IT_SSID_WIFI, <<1, 2, 3, 4, 5>>, <<Text("digit", <<1, 2, 3, 4, 5>>)>>,
                  Codes, Digits)
        zs == Two(IT_SSID_WIFI, Eleven.data, <<Eleven.chars>>, LowerDigits, Bytes)
        xz == <<4, 0, 1, 2, 3, 4, 5, 6, 8, 12, 8, 10, 1, 0, 15, 15>> \o Digits.data
    IN  /\ FSSSIDWiFi(fs.data) = [ok |-> TRUE, fields |-> fs.fields]
        /\ ZSSSIDWiFi(zs.data) = [ok |-> TRUE, fields |-> zs.fields]
        /\ XZXXX(xz) = [ok |-> TRUE,
                        fields |-> <<Text("digit", <<1, 2, 3, 4, 5, 6>>),
                                     Text("char256", <<200, 168, 1, 255>>), Digits.chars>>]

\* A long message in blocks: each says how many there are, which it is and, but
\* for the last, is full.
InBlocks(data) ==
    LET count == CeilDiv(Len(data), MaxTransBlock)
    IN  [i \in 1 .. count |->
           <<4 * (count - 1) + i - 1>> \o
           SubSeq(data, (i - 1) * MaxTransBlock + 1, Least(i * MaxTransBlock, Len(data)))]

\* The blocks of one message after another's, in any order and some twice, give
\* the message, and they are complete when each has come and not before.
ASSUME BlocksCompose ==
    LET Long(n) == [i \in 1 .. n |-> (3 * i + n) % 16]
        Before == Reset(FoldLeft(ComposeBlock, NoBlocks, InBlocks(Long(10))))
    IN  \A n \in 1 .. 4 * MaxTransBlock :
            LET blocks == InBlocks(Long(n))
            IN  \A order \in [1 .. Len(blocks) + 1 -> DOMAIN blocks] :
                    LET end == FoldLeft(LAMBDA c, i : ComposeBlock(c, blocks[i]), Before, order)
                    IN  /\ end.ok
                        /\ IsAllBlockComposed(end) <=> ToSet(order) = DOMAIN blocks
                        /\ IsAllBlockComposed(end) => Composed(end) = Long(n)

-----------------------------------------------------------------------------
\* Any check sum and correction symbols will do: the decoder's answer is the
\* ideal code's (Tones).
MCCheckSum(message) ==
    [i \in 1 .. 4 |-> (MapThenSumSet(LAMBDA k : message[k] * k, DOMAIN message) + 3 * i * i) % 16]

MCParity(chunk) ==
    << MapThenSumSet(LAMBDA k : chunk[k], DOMAIN chunk) % 16,
       MapThenSumSet(LAMBDA k : k * chunk[k], DOMAIN chunk) % 16 >>
=============================================================================
