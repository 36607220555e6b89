------------------------------- MODULE Decode -------------------------------
(***************************************************************************)
(* A phone sings a piece of information and the speaker understands it:    *)
(* the tones of each message come one after the other, some of them heard  *)
(* wrong, as one of two, as suspect, or not at all; then the recogniser's  *)
(* listener searches for the message (Tones) and the application takes it  *)
(* to the decoder of the type the message itself says it has (Codec).      *)
(*                                                                         *)
(* The phone and the air between are external.                             *)
(***************************************************************************)
EXTENDS Codec, Tones

CONSTANTS Infos,          \* what a phone may tell: [kind, message, fields, noise]
          CheckSum(_),    \* the four nibbles of check sum of a message
          Parity(_),      \* the correction symbols of a block's nibbles
          StringSize,     \* sizeof(s) of recorderRecognizerEnd
          MaxPlays        \* bounds the messages played in a behaviour

ASSUME TonesAssumption ==
    /\ RsSize = 2 /\ BlockSize \in Nat /\ BlockSize > RsSize
    /\ StartMiss \in Nat /\ MaxSignals \in Nat /\ MaxChars \in Nat

ASSUME TypesAssumption == Cardinality({IT_WIFI, IT_SSID_WIFI, IT_PHONE, IT_STRING}) = 4

VARIABLES info,      \* what is being told, or was told last
          plays,     \* how many messages were played
          tones,     \* its tokens, block by block; <<>>: silence
          heard,     \* the signals of the blocks up to now
          at,        \* how many of the current block's tokens have passed
          noise,     \* how many times noise interfered
          damage,    \* {[block, pos, token, marked]}: symbols heard wrong
          through,   \* it came through with bearable damage
          decoded    \* what the application made of it

vars == <<info, plays, tones, heard, at, noise, damage, through, decoded>>

NoInfo == [kind |-> "none", ok |-> TRUE, fields |-> <<>>]
Lost   == -1

-----------------------------------------------------------------------------
(* The phone: check sum, correction blocks and tokens.                     *)

Chunks(symbols) ==
    [b \in 1 .. CeilDiv(Len(symbols), BlockSize) |->
        SubSeq(symbols, (b - 1) * BlockSize + 1, Least(b * BlockSize, Len(symbols)))]

SentBlocks(message) ==
    LET chunks == Chunks(message \o CheckSum(message))
    IN  [b \in DOMAIN chunks |-> chunks[b] \o Parity(chunks[b])]

\* A nibble like the one before is sung as Overlap, and in a longer run as
\* Overlap and Overlap2 in turn: no tone follows itself.
Tokens(block, pre) ==
    LET token[i \in 1 .. Len(block)] ==
            IF block[i] # (IF i = 1 THEN pre ELSE block[i - 1]) THEN block[i] + 1
            ELSE IF i > 1 /\ token[i - 1] = Overlap THEN Overlap2
            ELSE Overlap
    IN  <<Start>> \o token

Song(message) ==
    LET blocks == SentBlocks(message)
    IN  [b \in DOMAIN blocks |->
            Tokens(blocks[b], IF b = 1 THEN -1 ELSE blocks[b - 1][Len(blocks[b - 1])])]

-----------------------------------------------------------------------------
(* recorderRecognizerEnd: the message's own type chooses its decoder; what *)
(* is of no known type is shown as it is.                                  *)

As(kind, message) == [kind |-> kind, ok |-> message.ok, fields |-> message.fields]

Understood(data) ==
    LET type == InfoType(data)
    IN  CASE type = IT_PHONE     -> As("phone", Phone(data))
          [] type = IT_SSID_WIFI -> As("ssid_wifi", SSIDWiFi(data))
          [] type = IT_STRING    -> As("string", String(data, StringSize))
          [] type = IT_WIFI      -> As("wifi", WiFi(data))
          [] OTHER               -> As("data", [ok |-> TRUE, fields |-> <<data>>])

Nibble == 0 .. 15

\* A message the recogniser has room for.
Fits(message, noisy) ==
    /\ message \in Seq(Nibble) /\ Len(message) \in 1 .. MaxChars
    /\ CheckSum(message) \in [1 .. CheckLen -> Nibble]
    /\ LET chunks == Chunks(message \o CheckSum(message))
       IN  \A b \in DOMAIN chunks : Parity(chunks[b]) \in [1 .. RsSize -> Nibble]
    /\ SignalCount(Song(message)) + noisy < MaxSignals

Answer(i) == [kind |-> i.kind, ok |-> TRUE, fields |-> i.fields]

\* The phone writes what it tells the way the decoders read it, in a message the
\* recogniser has room for.
ASSUME InfosAssumption ==
    \A i \in Infos :
        /\ i.noise \in Nat /\ Fits(i.message, i.noise)
        /\ i.fields # <<>> /\ Understood(i.message) = Answer(i)

-----------------------------------------------------------------------------
Message == info.message

Init ==
    /\ info \in Infos
    /\ plays = 0 /\ tones = <<>> /\ heard = <<>> /\ at = 0
    /\ noise = 0 /\ damage = {} /\ through = FALSE /\ decoded = NoInfo

\* The phone plays something, what it has played before perhaps.
Play(i) ==
    /\ tones = <<>> /\ plays < MaxPlays
    /\ info' = i /\ plays' = plays + 1
    /\ tones' = Song(i.message)
    /\ heard' = << <<>> >> /\ at' = 0 /\ noise' = 0 /\ damage' = {}
    /\ through' = FALSE /\ decoded' = NoInfo

Current == tones[Len(heard)]

Token == Current[at + 1]

\* The tone passes and the recogniser has these tokens for it.
Hear(alternatives, suspect) ==
    /\ heard' = [heard EXCEPT ![Len(heard)] =
                    Append(@, [alternatives |-> alternatives, suspect |-> suspect])]
    /\ at' = at + 1
    /\ UNCHANGED <<info, plays, tones, through, decoded>>

Coming == tones # <<>> /\ at < Len(Current)

Interfere == noise < info.noise /\ noise' = noise + 1

HearWell == Coming /\ Hear(<<Token>>, FALSE) /\ UNCHANGED <<noise, damage>>

HearSuspect == Interfere /\ Coming /\ at > 0 /\ Hear(<<Token>>, TRUE) /\ UNCHANGED damage

Wrong == {Start, Overlap, (Token % 16) + 1} \ {Token}

HearOneOfTwo ==
    /\ Interfere /\ Coming /\ at > 0
    /\ \E w \in Wrong \ {Start} : Hear(<<Token, w>>, FALSE) \/ Hear(<<w, Token>>, FALSE)
    /\ UNCHANGED damage

HearWrong ==
    /\ Interfere /\ Coming /\ at > 0
    /\ \E w \in Wrong, suspect \in BOOLEAN :
         /\ Hear(<<w>>, suspect)
         /\ damage' = damage \cup {[block |-> Len(heard), pos |-> at, token |-> w,
                                    marked |-> suspect \/ w = Start]}

\* A start tone is heard twice before the symbols, or once more after them.
HearStartTwice ==
    /\ Interfere /\ tones # <<>>
    /\ heard[Len(heard)] # <<>> /\ at \in {1, Len(Current)}
    /\ heard' = [heard EXCEPT ![Len(heard)] =
                    Append(@, [alternatives |-> <<Start>>, suspect |-> FALSE])]
    /\ UNCHANGED <<info, plays, tones, at, damage, through, decoded>>

\* The end of a block that is not the last is not heard.
LoseEnd ==
    /\ Interfere /\ Coming /\ Len(heard) < Len(tones)
    /\ at >= Len(Current) - RsSize
    /\ at' = Len(Current)
    /\ damage' = damage \cup {[block |-> Len(heard), pos |-> p, token |-> Lost, marked |-> TRUE] :
                                p \in at .. Len(Current) - 1}
    /\ UNCHANGED <<info, plays, tones, heard, through, decoded>>

NextBlock ==
    /\ tones # <<>> /\ at = Len(Current) /\ Len(heard) < Len(tones)
    /\ heard' = Append(heard, <<>>) /\ at' = 0
    /\ UNCHANGED <<info, plays, tones, noise, damage, through, decoded>>

-----------------------------------------------------------------------------
(* Which damage is bearable: in a block, one symbol wrong, or two that were *)
(* marked; where no tone after them leans on theirs, where no start tone is *)
(* heard for the first symbol or for the message's last, and where, in a    *)
(* short last block, they are not of the correction symbols.                *)

After(b, pos) ==
    IF pos + 1 < Len(tones[b]) THEN tones[b][pos + 2]
    ELSE IF b < Len(tones) THEN tones[b + 1][2] ELSE Start

Edge(d) ==
    d.token = Start /\ (d.pos = 1 \/ (d.block = Len(tones) /\ d.pos = Len(tones[d.block]) - 1))

Short(b) == b = Len(tones) /\ Len(tones[b]) - 1 < Full

Bearable ==
    \A b \in DOMAIN tones :
        LET here == {d \in damage : d.block = b}
        IN  /\ Len(heard[b]) <= MaxBlockSignals
            /\ \A d \in here : ~Edge(d) /\ After(b, d.pos) \notin {Overlap, Overlap2}
            /\ \/ Cardinality(here) <= 1
               \/ /\ Cardinality(here) = 2
                  /\ \A d \in here : d.marked /\ (Short(b) => d.pos < Len(tones[b]) - RsSize)

-----------------------------------------------------------------------------
\* The sound is over: the listener searches, and the application takes the
\* message it is told of.
Stop ==
    LET end == StopRecognition(heard, SentBlocks(Message), Message)
    IN  /\ tones # <<>> /\ Len(heard) = Len(tones) /\ at = Len(Current)
        /\ through' = Bearable
        /\ decoded' = IF end.status = "success" THEN Understood(end.data) ELSE NoInfo
        /\ tones' = <<>> /\ heard' = <<>> /\ at' = 0 /\ noise' = 0 /\ damage' = {}
        /\ UNCHANGED <<info, plays>>

Next ==
    \/ \E i \in Infos : Play(i)
    \/ HearWell \/ HearSuspect \/ HearOneOfTwo \/ HearWrong \/ HearStartTwice
    \/ LoseEnd \/ NextBlock
    \/ Stop

Spec == Init /\ [][Next]_vars

-----------------------------------------------------------------------------
\* Everything that was told is understood, and nothing else is: a message that
\* came through with damage within reach of the correction reaches the decoder of
\* its kind, and what is decoded, with whatever damage, is what was told, to the
\* character; the decoders' assertions on types and lengths hold.
InfoArrives ==
    /\ decoded # NoInfo => decoded = Answer(info)
    /\ through => decoded # NoInfo
=============================================================================
