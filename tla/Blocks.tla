------------------------------- MODULE Blocks -------------------------------
(***************************************************************************)
(* Where the blocks of a message are                                       *)
(* (src/PROC_VOICE/src/signalAnalyserTimeMatch2.c: struct BlockSearcher,   *)
(* the struct FrequencyInfo it collects a header tone in, and the loop of  *)
(* sa_analyFFT that takes the blocks and opens and ends the recognition).  *)
(* Once per time step the searcher is told what the spectrum holds at the  *)
(* header's frequency; a tone that                                         *)
(* lasts is a header, the sound between two headers a block.  The headers  *)
(* found are kept newest first in blockFIs; a block is handed on when the  *)
(* header after it has proved right, the last one when the signal ends.    *)
(*                                                                         *)
(* Amplitudes are left out: which of several headers is the weakest, which *)
(* part of a long tone is its core, whether the last header is believed    *)
(* and whether a tone that grows again is a new one are free choices.  The *)
(* peak detector only serves those choices.                                *)
(***************************************************************************)
EXTENDS Integers, Sequences

CONSTANTS CacheCount,   \* BLOCKSEARCH_BLOCK_CACHE_COUNT
          LongCount,    \* freqCountLong: hits that make a header
          MatchCount,   \* maxBlockMatchCount: the length a header is cut to
          ShortCount,   \* maxShortFreqCount: misses that end a tone
          RiseCount,    \* 2 * maxMainMatchCount: a longer tone may be split
          EventCount,   \* maxFIEventCount: a tone holds no more hits
          MinGap,       \* the time of a symbol and the correction symbols
          BlockTime,    \* the time of a full block
          LastTime,     \* the time of a full block less one symbol
          ShortValid,   \* MAX_SIGNAL_SHORT_VALID_SIZE: a longer silence ends it
          ShortSignal,  \* MAX_SHORT_SIGNAL_SIZE: a shorter signal is not ended
          StartSize,    \* MIN_START_SIGNAL_SIZE: a longer one is recognised
          MaxTime       \* MAX_EVENT_COUNT - 10: bounds the steps of a signal

ASSUME BlocksAssumption ==
    /\ CacheCount \in Nat /\ CacheCount >= 3
    /\ LongCount \in Nat \ {0, 1} /\ ShortCount \in Nat \ {0}
    /\ MatchCount \in Nat \ {0} /\ MinGap \in Nat \ {0}
    /\ ShortSignal \in Nat /\ StartSize \in Nat /\ ShortSignal < StartSize
    /\ ShortValid \in Nat
    /\ LastTime \in Nat /\ BlockTime \in Nat /\ LastTime < BlockTime
    /\ StartSize < BlockTime + MinGap  \* 18 steps, and 5.6 for each symbol

VARIABLES bs,      \* struct BlockSearcher
          time,    \* timeIdx within the signal
          handed,  \* the blocks the signal's searcher has handed on
          sinceFirst,  \* how long ago the signal became valid; -1 if it is not
          sinceValid,  \* how long ago a valid amplitude was last met
          moved,       \* whether a silence within the signal made it start anew
          recoging,
          unheard   \* blocks of the signal handed on while nothing is recognised

searchVars == <<bs, time, handed, sinceFirst, sinceValid, moved,
          recoging, unheard>>

\* struct FrequencyInfo: its hits, when the first and last were, and the
\* misses in a row.
NoFI == [hits |-> 0, first |-> 0, last |-> 0, short |-> 0]

Reset(finished) ==
    [blockFIs |-> [i \in 0 .. CacheCount - 1 |-> NoFI], unsed |-> -1, ok |-> 1,
     count |-> 0, finished |-> finished, failed |-> FALSE]

SearchInit ==
    /\ bs = Reset(TRUE) /\ time = 0 /\ handed = <<>>
    /\ sinceFirst = -1 /\ sinceValid = ShortValid /\ moved = FALSE
    /\ recoging = FALSE /\ unheard = 0

\* fi_timesFirst asserts that there is a hit; Gap is the time between two
\* headers.
Known(b, i) == i \in 0 .. CacheCount - 1 /\ b.blockFIs[i].hits > 0

Gap(b, i, j) == b.blockFIs[i].first - b.blockFIs[j].first

Failed(b, condition) == [b EXCEPT !.failed = @ \/ ~condition]

-----------------------------------------------------------------------------
\* fi_addTime, and fi_checkFreq2: the tone with this step in it, or its end
\* (more is FALSE) by fullness, by a rise, or by the last of several misses.
AddTime(fi) ==
    [hits |-> fi.hits + 1, first |-> IF fi.hits = 0 THEN time' ELSE fi.first,
     last |-> time', short |-> 0]

CheckFreq2(fi, event) ==
    IF event \in {"strong", "weak"}
    THEN {[fi |-> AddTime(fi), more |-> TRUE] : x \in {y \in {1} : fi.hits < EventCount}}
         \cup {[fi |-> fi, more |-> FALSE] :
                 x \in {y \in {1} : fi.hits >= EventCount \/ fi.hits >= RiseCount}}
    ELSE {[fi |-> [fi EXCEPT !.short = @ + 1], more |-> fi.short + 1 < ShortCount]}

\* fi_removeSmallMatch: a long tone starts where its core does.  Of a header
\* only its start is read again.
Core(fi) ==
    IF fi.last - fi.first + 1 > MatchCount THEN fi.first .. fi.last - MatchCount + 1
    ELSE {fi.first}

Header(start) == [hits |-> LongCount, first |-> start, last |-> start, short |-> 0]

-----------------------------------------------------------------------------
\* Faulty variant of ShiftBlocks: every header moves the block to hand on.
ShiftBlocksAlways(b) ==
    [b EXCEPT !.blockFIs = [i \in DOMAIN @ |-> IF i = 0 THEN NoFI ELSE @[i - 1]],
              !.ok = 1,
              !.unsed = IF b.count >= 2 THEN @ + 1 ELSE @]

\* The head of bs_onFFTEvent: a signal that ended is forgotten; a header that
\* was found moves the others up and leaves a place for the next.
ShiftBlocks(b) ==
    [b EXCEPT !.blockFIs = [i \in DOMAIN @ |-> IF i = 0 THEN NoFI ELSE @[i - 1]],
              !.ok = 1,
              !.unsed = IF b.count = 2 THEN 1 ELSE IF b.count > 2 THEN @ + 1 ELSE @]

Prepared(b) ==
    IF b.finished
    THEN IF b.count > 0 \/ b.blockFIs[0].hits > 0 THEN Reset(TRUE) ELSE b
    ELSE LET c == IF b.ok = 0 THEN ShiftBlocks(b) ELSE b
         IN  Failed(c, c.unsed < CacheCount /\ (c.unsed < 0 \/ c.unsed = c.ok))

DropFirst(b) == [b EXCEPT !.blockFIs[0] = NoFI]

\* bs_removeWeakestBlock among the newest n, and the new header's place made
\* free again.
RemoveBlock(b, m) ==
    [b EXCEPT !.blockFIs = [i \in DOMAIN @ |-> IF i \in 1 .. m THEN @[i - 1] ELSE @[i]]]

RemoveWeakest(b, n) == {DropFirst(RemoveBlock(b, m)) : m \in 0 .. n - 1}

\* A header is right when it is not too close to the one before and that one
\* left a full block behind.
TooClose(b) == b.count > 0 /\ Gap(b, 0, 1) < MinGap

\* Faulty variant of NotFull: only the first block is measured.
NotFullFirst(b) == b.count = 2 /\ Gap(b, 1, 2) < BlockTime

NotFull(b) ==
    \/ b.count = 2 /\ Gap(b, 1, 2) < BlockTime
    \/ b.count > 2 /\ Gap(b, 1, 2) <= BlockTime

PlaceHeader(b) ==
    LET c == Failed(b, /\ b.ok = 1
                       /\ b.count > 0 => Known(b, 1)
                       /\ b.count >= 2 /\ ~TooClose(b) => Known(b, 2) /\ b.unsed >= 1)
    IN  CASE TooClose(c) -> RemoveWeakest(c, 2)
          [] ~TooClose(c) /\ NotFull(c) -> RemoveWeakest(c, IF c.count = 2 THEN 3 ELSE 2)
          [] OTHER -> {[c EXCEPT !.ok = 0, !.count = @ + 1]}

EndTone(b) ==
    IF b.blockFIs[0].hits < LongCount THEN {DropFirst(b)}
    ELSE UNION {PlaceHeader([b EXCEPT !.blockFIs[0] = Header(x)]) : x \in Core(b.blockFIs[0])}

\* The body of bs_onFFTEvent: a hit of the header's own frequency starts a
\* tone, then every step goes to the tone, and the end of the signal ends it.
Listen(b, event) ==
    IF event = "null"
    THEN IF b.blockFIs[0].hits > 0 THEN EndTone(b) ELSE {b}
    ELSE IF event = "strong" \/ b.blockFIs[0].hits > 0
    THEN UNION {LET c == [b EXCEPT !.blockFIs[0] = r.fi]
                IN  IF r.more THEN {c} ELSE EndTone(c) : r \in CheckFreq2(b.blockFIs[0], event)}
    ELSE {b}

\* At the signal's end the last header, when it left less than a full block,
\* may turn out not to be one.
DropLast(b) ==
    [b EXCEPT !.blockFIs[b.ok] = NoFI, !.ok = @ + 1, !.count = @ - 1]

Believed(b, event) ==
    IF event = "null" /\ b.count >= 2
    THEN LET c == Failed(b, Known(b, b.ok) /\ Known(b, b.ok + 1))
         IN  {c} \cup {DropLast(d) : d \in {d \in {c} : Gap(d, d.ok, d.ok + 1) < LastTime}}
    ELSE {b}

OnFFTEvent(event) ==
    LET b == [Prepared(bs) EXCEPT !.finished = (event = "null")]
    IN  UNION {Believed(c, event) : c \in Listen(b, event)}

-----------------------------------------------------------------------------
\* bs_hasBlock until it has none: from the oldest block not handed on to the
\* newest whose end is certain.
MinUnsed(b) == IF b.finished THEN b.ok ELSE b.ok + 1

Block(b, u) ==
    [head |-> b.blockFIs[u + 1].first, tail |-> b.blockFIs[u].first, isEnd |-> u - 1 < b.ok]

Ready(b) == [k \in 1 .. b.unsed - MinUnsed(b) + 1 |-> Block(b, b.unsed - k + 1)]

Drain(b) ==
    IF Ready(b) = <<>> THEN b
    ELSE [Failed(b, \A u \in MinUnsed(b) .. b.unsed :
                        /\ u \in 0 .. CacheCount - 2
                        /\ Known(b, u) /\ Known(b, u + 1)
                        /\ Block(b, u).isEnd => b.finished)
          EXCEPT !.unsed = MinUnsed(b) - 1]

\* sa_analyFFT first keeps the time at which the signal became valid.  Ages
\* stop where they say no more.
Least(a, b) == IF a < b THEN a ELSE b

FirstValid(loud) ==
    CASE loud /\ (sinceFirst < 0 \/ sinceValid + 1 >= ShortValid) -> 0
      [] sinceFirst >= 0 /\ ~(loud /\ sinceValid + 1 >= ShortValid) -> Least(sinceFirst + 1, StartSize + 1)
      [] OTHER -> -1

\* A signal is cut off when it has been quiet or lasts too long (a weak one may
\* be at any time, as the end of the sound may come at any time).
Quiet(loud) == FirstValid(loud) > ShortSignal /\ sinceValid + 1 >= ShortValid

\* The searcher hears a step or the signal's end, and its blocks are taken.
Search(event) ==
    \E b \in OnFFTEvent(event) :
        /\ bs' = Drain(b)
        /\ handed' = (IF bs.finished THEN <<>> ELSE handed) \o Ready(b)
        /\ unheard' = (IF bs.finished THEN 0 ELSE unheard) + (IF recoging THEN 0 ELSE Len(Ready(b)))

Tick == time' = IF bs.finished THEN 1 ELSE time + 1

Hear(loud) == sinceValid' = IF loud THEN 0 ELSE Least(sinceValid + 1, ShortValid)

\* A step of the spectrum; the recognition starts when the signal is long
\* enough.
AnalyFFT(event, loud) ==
    /\ event = "strong" => loud
    /\ ~Quiet(loud) /\ (bs.finished \/ time < MaxTime)
    /\ Tick /\ Hear(loud) /\ Search(event)
    /\ sinceFirst' = FirstValid(loud)
    /\ moved' = (moved \/ (sinceFirst >= 0 /\ FirstValid(loud) = 0))
    /\ recoging' = (recoging \/ FirstValid(loud) > StartSize)

\* A step that is found to be past the signal's end, or the end of the sound:
\* the recognition ends (sa_analyFFTSignal).
Truncate(loud) ==
    /\ FirstValid(loud) >= 0
    /\ Tick /\ Hear(loud) /\ Search("null")
    /\ sinceFirst' = -1 /\ moved' = FALSE /\ recoging' = FALSE

EndOfSound ==
    /\ Tick /\ Search("null")
    /\ sinceFirst' = -1 /\ moved' = FALSE /\ recoging' = FALSE
    /\ UNCHANGED sinceValid

SearchNext ==
    \/ \E event \in {"strong", "weak", "none"}, loud \in BOOLEAN : AnalyFFT(event, loud)
    \/ \E loud \in BOOLEAN : Truncate(loud)
    \/ EndOfSound

SearchSpec == SearchInit /\ [][SearchNext]_searchVars

-----------------------------------------------------------------------------
\* The assertions of the searcher, of fi_timesFirst where it is called and of
\* bs_hasBlock hold whatever is heard, in one signal after another.
SearcherAsserts == ~bs.failed

\* The blocks handed on are the signal, in order: each starts with the header
\* the one before ended with, only the last is called the last, one that is
\* not is as long as a full block (2144 asserts that it holds all symbols);
\* and at the signal's end every two headers in a row have been handed on,
\* but for the one block whose second header ended with the signal: its
\* unsedBlockIdx is set by the step that would have come next.  No block of a
\* signal has gone by when its recognition starts, unless a silence made the
\* signal start anew.
BlocksChain ==
    /\ \A k \in 1 .. Len(handed) - 1 : handed[k].tail = handed[k + 1].head /\ ~handed[k].isEnd
    /\ \A k \in DOMAIN handed :
         /\ handed[k].tail - handed[k].head >= MinGap
         /\ ~handed[k].isEnd => handed[k].tail - handed[k].head >= BlockTime
    /\ bs.finished /\ bs.count >= 2 =>
         \/ Len(handed) = bs.count - 1
         \/ bs.count = 2 /\ bs.ok = 0 /\ handed = <<>>
    /\ recoging /\ ~moved => unheard = 0
=============================================================================
