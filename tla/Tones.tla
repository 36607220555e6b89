------------------------------- MODULE Tones -------------------------------
(***************************************************************************)
(* From the tones that were heard to a message                             *)
(* (src/PROC_VOICE/src/voiceRecognizer.c: mrl_onStopRecognition2 and the   *)
(* search it runs, loopBlock and loopSignalInBlock).                       *)
(*                                                                         *)
(* A tone is a token: 0 starts a block, 1 .. 16 are the nibbles 0 .. 15,   *)
(* Overlap repeats the nibble before and Overlap2 the one before that.     *)
(* A signal is the tokens it may be and whether it is suspect.  Each block *)
(* carries BlockSize nibbles and RsSize of error correction; the last may  *)
(* be shorter, its correction then following its data.                     *)
(*                                                                         *)
(* The correction (rsDecode, an external library) recovers what was sent   *)
(* when twice the wrong symbols and the erased ones are within RsSize, and *)
(* the check sum admits nothing but what was sent: so the search over      *)
(* alternatives and erasures is a question of there being a branch that    *)
(* arrives, and the limit of 100 failed check sums is left out.            *)
(***************************************************************************)
EXTENDS Integers, Sequences, FiniteSets, SequencesExt

CONSTANTS BlockSize, RsSize,
          StartMiss,      \* MAX_BLOCK_START_SIGNAL_MISS
          MaxSignals,     \* MAX_SIGNAL_SIZE
          MaxChars        \* MAX_CHARS of grl_onAfterECC

Start    == 0
Overlap  == 17
Overlap2 == 18
CodeMin      == 0
CheckLen == 4
Full     == BlockSize + RsSize
MaxBlockSignals == Full + StartMiss

\* What a token stands for after the nibbles pre and prepre.
Symbol(s, token) ==
    CASE token = Overlap /\ s.realPre = Overlap2 -> s.prepre
      [] token = Overlap /\ s.realPre # Overlap2 -> s.pre
      [] token = Overlap2 -> s.prepre
      [] OTHER -> token - 1

\* The loop over a block's signals: start tokens before the first symbol are
\* skipped, one among the symbols counts as a lost symbol and is marked, as
\* every suspect signal is, and a full block takes no more.
Take(s, token, suspect) ==
    LET symbol == Symbol(s, token)
        clean  == IF symbol < CodeMin THEN CodeMin ELSE symbol
    IN  IF Len(s.buf) = Full \/ (token = Start /\ s.buf = <<>>) THEN s
        ELSE [buf     |-> Append(s.buf, clean),
              marks   |-> IF symbol < CodeMin \/ suspect THEN Append(s.marks, Len(s.buf) + 1)
                          ELSE s.marks,
              pre     |-> clean,
              prepre  |-> s.pre,
              realPre |-> token,
              starts  |-> IF token = Start THEN s.starts + 1 ELSE 0]

\* What a block can have come to after each of its signals: one outcome for each
\* way of taking every signal for one of the tokens it may be.
Outcomes(block, before) ==
    LET s[k \in 0 .. Len(block)] ==
            IF k = 0
            THEN {[buf |-> <<>>, marks |-> <<>>, pre |-> before[2], prepre |-> before[1],
                   realPre |-> 0, starts |-> 0]}
            ELSE {Take(o, token, block[k].suspect) :
                    o \in s[k - 1], token \in ToSet(block[k].alternatives)}
    IN  s

\* Signals beyond a full block and the starts that may precede it are not
\* looked at.
Looked(block) == IF Len(block) < MaxBlockSignals THEN Len(block) ELSE MaxBlockSignals

\* The last block's end may have been taken for starts: they go, with their
\* marks.
Trim(s) ==
    [s EXCEPT !.buf = SubSeq(@, 1, Len(@) - s.starts),
              !.marks = SubSeq(@, 1, Len(@) - s.starts)]

Zeros(n) == [i \in 1 .. n |-> CodeMin]

\* A short last block is padded between its data and its correction symbols;
\* a middle block that lost correction symbols at its end is filled up with
\* marked ones, and one that lost more is given up.
Padded(buf) ==
    SubSeq(buf, 1, Len(buf) - RsSize) \o Zeros(Full - Len(buf))
        \o SubSeq(buf, Len(buf) - RsSize + 1, Len(buf))

\* Faulty variant of Fill: the filling is taken for symbols that were heard.
FillUnmarked(s) == [s EXCEPT !.buf = @ \o Zeros(Full - Len(@))]

Fill(s) ==
    [s EXCEPT !.buf = @ \o Zeros(Full - Len(@)),
              !.marks = @ \o [x \in 1 .. Full - Len(s.buf) |-> Len(s.buf) + x]]

Refused(s, last) ==
    IF last THEN Len(Trim(s).buf) <= RsSize ELSE Len(s.buf) <= BlockSize - 1

Word(s, last) ==
    IF last THEN [buf |-> Padded(Trim(s).buf), marks |-> Trim(s).marks, valid |-> Len(Trim(s).buf)]
    ELSE [buf |-> Fill(s).buf, marks |-> Fill(s).marks, valid |-> Full]

\* No erasure is tried first, then every two marked symbols (RsSize is 2).
Erasures(marks) ==
    {{}} \cup {{marks[p[1]], marks[p[2]]} :
                  p \in {p \in (DOMAIN marks) \X (DOMAIN marks) : p[1] < p[2]}}

\* rsDecode, and the check sum over the whole message when the last block is
\* in place: sent is what the sender made of the message, block by block.
Recovers(r, erased, sent, b) ==
    /\ b \in DOMAIN sent
    /\ LET wrong == {i \in 1 .. Full : r.buf[i] # Padded(sent[b])[i]}
       IN  2 * Cardinality(wrong \ erased) + Cardinality(erased) <= RsSize
    /\ r.valid = Len(sent[b])

\* A block's words that the correction brings to what was sent.
Words(block, before, sent, b, last) ==
    {w \in {Word(s, last) : s \in {o \in Outcomes(block, before)[Looked(block)] :
                                      ~Refused(o, last)}} :
        \E erased \in Erasures(w.marks) : Recovers(w, erased, sent, b)}

\* loopBlock goes on to the next block with the last two symbols it read, not
\* with the ones the correction made of them: what the branches that got
\* through each block go on with.
Through(blocks, sent) ==
    LET left[b \in 0 .. Len(blocks)] ==
            IF b = 0 THEN {<<0, 0>>}
            ELSE {<<w.buf[Full - 1], w.buf[Full]>> :
                    w \in UNION {Words(blocks[b], before, sent, b, b = Len(blocks)) :
                                    before \in left[b - 1]}}
    IN  left

LoopBlock(blocks, sent) ==
    Through(blocks, sent)[Len(blocks)] # {} /\ Len(blocks) = Len(sent)

\* The signals up to each block.
Signals(blocks) ==
    LET count[b \in 0 .. Len(blocks)] ==
            IF b = 0 THEN 0 ELSE count[b - 1] + Len(blocks[b])
    IN  count

SignalCount(blocks) == Signals(blocks)[Len(blocks)]

\* grl_onAfterECC hands on how the recognition ended and, when it succeeded,
\* no more than MaxChars nibbles.
OnAfterECC(status, message) ==
    [status |-> status,
     data |-> IF status # "success" THEN <<>>
              ELSE SubSeq(message, 1, IF Len(message) < MaxChars THEN Len(message)
                                      ELSE MaxChars)]

\* mrl_onStopRecognition2.
StopRecognition(blocks, sent, message) ==
    OnAfterECC(CASE SignalCount(blocks) <= CheckLen + RsSize -> "not_enough"
                 [] SignalCount(blocks) >= MaxSignals -> "too_much"
                 [] OTHER -> IF LoopBlock(blocks, sent)
                             THEN "success" ELSE "ecc_error",
               message)
=============================================================================
