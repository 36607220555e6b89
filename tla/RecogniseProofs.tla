--------------------------- MODULE RecogniseProofs ---------------------------
(***************************************************************************)
(* For a history, a queue and buffers of any size and any number of sounds *)
(* and ranges, with the two threads of the recogniser in any order: its    *)
(* assertions hold, what the worker makes of a range is right, and it      *)
(* leaves behind only a range whose broadcast it missed.                   *)
(*                                                                         *)
(* For any sizes of headers and blocks, and any pattern of header tones:   *)
(* the assertions of the block searcher hold, and the blocks it hands on   *)
(* are the signal.  The invariant SearchInv relates the headers it still   *)
(* holds to the blocks it has handed on and to the age of the signal.      *)
(***************************************************************************)
EXTENDS Recognise, Blocks, SequenceTheorems, TLAPS

Sound == [start : Int, end : Int, finished : BOOLEAN, idx : Int, total : Int, valid : Int]

\* The worker has a range in hand, and is reading it.
HasRange == {"assess", "decide", "begin", "read", "take", "atEnd", "outOfDate",
             "recognised", "outdated", "skipped"}
Reading  == {"read", "take", "atEnd"}

\* vrr_run between pushing a range and telling the worker.
Pushing == {"fillStart", "fillEnd", "broadcast"}

TypeOK ==
    /\ runPc \in {"get", "detect", "finish", "endAll", "setStopped", "broadcastStop",
                  "spin", "done", "crashed"} \cup Pushing
    /\ workPc \in {"start", "test", "lock", "wait", "look", "done", "crashed"} \cup HasRange
    /\ pos \in Nat /\ eventIdx \in Nat /\ event \in Nat
    /\ inited \in BOOLEAN /\ quiet \in 0 .. Hangover /\ discovered \in Nat
    /\ queue \in Seq(Sound) /\ discarding \in BOOLEAN /\ stopped \in BOOLEAN
    /\ from \in Int /\ wanted \in Int /\ processPos \in Int /\ recognizePos \in Int
    /\ dataPos \in Int /\ firstBuffer \in BOOLEAN /\ torn \in BOOLEAN
    /\ analyserFirst \in BOOLEAN /\ leftOver \in BOOLEAN /\ missed \in BOOLEAN

\* The detector's view of the queue: a range is in progress while there was a
\* signal less than Hangover detections ago.
DetectInv ==
    /\ runPc \in {"get", "detect", "endAll"} \cup Pushing => (Discovering <=> quiet < Hangover)
    /\ runPc = "finish" => Discovering /\ quiet = Hangover
    /\ runPc \in {"fillStart", "fillEnd"} =>
          discarding = FALSE /\ queue # <<>> /\ ~Finished(Last)
    /\ discarding = TRUE => queue = <<>> \/ Finished(Last)
    /\ event <= pos

\* Where ranges begin and end, and what is stored of the one being pushed.
RangeInv ==
    /\ \A i \in 1 .. Len(queue) :
          queue[i].start <= queue[i].end
             \/ (i = Len(queue) /\ runPc \in {"fillEnd", "crashed"})
    /\ queue # <<>> /\ ~Finished(Last) => Last.end <= event + Step \/ runPc = "fillStart"
    /\ runPc = "fillStart" => Last.start = 0 /\ Last.end = 0
    /\ runPc = "fillEnd" => Last.start <= event /\ Last.end = 0

\* The first range of the queue is being pushed.
Fresh == runPc = "fillEnd" /\ Len(queue) = 1

\* The worker and the range it has in hand.
WorkInv ==
    /\ runPc = "crashed" => workPc = "crashed"
    /\ workPc \in HasRange => queue # <<>>
    /\ workPc \in {"recognised", "outdated", "skipped"} => Finished(Oldest)
    /\ workPc \in Reading =>
          /\ recognizePos <= Oldest.end \/ (Fresh /\ recognizePos <= event)
          /\ workPc = "take" => wanted <= 0 \/ recognizePos + wanted <= Oldest.end
    /\ workPc \in Reading \cup {"recognised"} => from \in {0, Oldest.start}
    /\ workPc = "take" => wanted + dataPos <= BufferSize
    /\ workPc = "recognised" => recognizePos = Oldest.end
    /\ workPc = "skipped" => Small(Oldest)
    /\ workPc \in {"outOfDate", "outdated"} => recognizePos < pos - History

\* How the positions and the buffer of the worker belong together, once both
\* positions are read and unless they were read apart, and what the analyser
\* knows of the range.
BufferInv ==
    /\ 0 <= dataPos
    /\ firstBuffer = FALSE => Overlap <= dataPos
    /\ workPc # "begin" /\ torn = FALSE =>
          /\ firstBuffer = TRUE => recognizePos = processPos + dataPos
          /\ firstBuffer = FALSE => recognizePos = processPos + dataPos - Overlap
    /\ workPc \in Reading =>
          (firstBuffer = FALSE => analyserFirst = FALSE)
          /\ (firstBuffer = TRUE => analyserFirst = TRUE \/ leftOver = TRUE)
    /\ workPc \notin Reading \cup {"outOfDate", "crashed"} =>
          analyserFirst = TRUE \/ leftOver = TRUE

\* Who will tell the worker of a range, and that nobody does after the stop.
StopInv ==
    /\ stopped = TRUE => runPc \in {"broadcastStop", "spin", "done", "crashed"}
    /\ queue # <<>> /\ workPc \in {"start", "test", "lock", "wait"} =>
          missed = TRUE \/ runPc \in Pushing
    /\ workPc = "done" => stopped = TRUE
    /\ workPc = "done" /\ queue # <<>> => missed = TRUE

Inv == TypeOK /\ DetectInv /\ RangeInv /\ WorkInv /\ BufferInv /\ StopInv

-----------------------------------------------------------------------------
(* The two ends of the queue.                                              *)

LEMMA EndsAre ==
    ASSUME queue \in Seq(Sound), queue # <<>>
    PROVE  /\ Len(queue) \in Nat \ {0}
           /\ Oldest \in Sound /\ Oldest = queue[1]
           /\ Last \in Sound /\ Last = queue[Len(queue)]
           /\ {Oldest.start, Oldest.end, Last.start, Last.end} \subseteq Int
<1>1. Len(queue) \in Nat \ {0}
  BY EmptySeq
<1>2. Oldest \in Sound /\ Last \in Sound
  BY <1>1, ElementOfSeq DEF Oldest, Last
<1>3. ASSUME NEW s \in Sound PROVE s.start \in Int /\ s.end \in Int
  BY DEF Sound
<1> QED BY <1>1, <1>2, <1>3 DEF Oldest, Last

\* The last range becomes r.
LEMMA LastSet ==
    ASSUME queue \in Seq(Sound), queue # <<>>, NEW r \in Sound,
           queue' = [queue EXCEPT ![Len(queue)] = r]
    PROVE  /\ queue' \in Seq(Sound) /\ queue' # <<>> /\ Len(queue') = Len(queue)
           /\ Last' = r /\ Oldest' = IF Len(queue) = 1 THEN r ELSE Oldest
           /\ \A i \in 1 .. Len(queue) : i # Len(queue) => queue'[i] = queue[i]
           /\ queue'[Len(queue)] = r
<1>1. Len(queue) \in Nat \ {0} /\ Oldest = queue[1]
  BY EndsAre
<1>2. queue' \in Seq(Sound) /\ Len(queue') = Len(queue)
      /\ \A i \in 1 .. Len(queue) : queue'[i] = IF i = Len(queue) THEN r ELSE queue[i]
  BY <1>1, ExceptSeq
<1>3. queue' # <<>>
  BY <1>1, <1>2, EmptySeq
<1>4. Oldest' = queue'[1] /\ Last' = queue'[Len(queue')]
  BY <1>2, <1>3 DEF Oldest, Last
<1>5. queue'[Len(queue)] = r /\ \A i \in 1 .. Len(queue) : i # Len(queue) => queue'[i] = queue[i]
  <2>1. Len(queue) \in 1 .. Len(queue)
    BY <1>1
  <2> QED BY <1>2, <2>1
<1>6. Oldest' = IF Len(queue) = 1 THEN r ELSE Oldest
  BY <1>1, <1>4, <1>5
<1> QED BY <1>2, <1>3, <1>4, <1>5, <1>6

LEMMA Appended ==
    ASSUME queue \in Seq(Sound), NEW r \in Sound, queue' = Append(queue, r)
    PROVE  /\ queue' \in Seq(Sound) /\ queue' # <<>> /\ Len(queue') = Len(queue) + 1
           /\ Last' = r /\ Oldest' = IF queue = <<>> THEN r ELSE Oldest
           /\ \A i \in 1 .. Len(queue) : queue'[i] = queue[i]
           /\ queue'[Len(queue) + 1] = r
<1>1. queue' \in Seq(Sound) /\ Len(queue') = Len(queue) + 1 /\ Len(queue) \in Nat
      /\ (\A i \in 1 .. Len(queue) : queue'[i] = queue[i]) /\ queue'[Len(queue) + 1] = r
  BY AppendProperties
<1>2. queue' # <<>>
  BY <1>1, EmptySeq
<1>3. Oldest' = queue'[1] /\ Last' = queue'[Len(queue')]
  BY <1>1, <1>2 DEF Oldest, Last
<1>4. CASE queue = <<>>
  BY <1>1, <1>2, <1>3, <1>4
<1>5. CASE queue # <<>>
  BY <1>1, <1>2, <1>3, <1>5, EndsAre
<1> QED BY <1>4, <1>5

LEMMA Dropped ==
    ASSUME queue \in Seq(Sound), queue # <<>>, queue' = Tail(queue)
    PROVE  /\ queue' \in Seq(Sound) /\ Len(queue') = Len(queue) - 1
           /\ \A i \in 1 .. Len(queue') :
                 /\ i + 1 \in 1 .. Len(queue) /\ queue'[i] = queue[i + 1]
                 /\ (i + 1 = Len(queue) => i = Len(queue'))
           /\ (queue' # <<>> => Last' = Last) /\ (queue' = <<>> => Len(queue) = 1)
<1>1. queue' \in Seq(Sound) /\ Len(queue') = Len(queue) - 1
      /\ \A i \in 1 .. Len(queue) - 1 : queue'[i] = queue[i + 1]
  BY HeadTailProperties
<1>2. Len(queue) \in Nat \ {0}
  BY EndsAre
<1>3. ASSUME queue' # <<>> PROVE Last' = Last
  <2>1. Len(queue') \in Nat \ {0}
    BY <1>1, <1>3, EmptySeq
  <2>2. Len(queue') \in 1 .. Len(queue) - 1 /\ Len(queue') + 1 = Len(queue)
    BY <1>1, <1>2, <2>1
  <2> QED BY <1>1, <2>2 DEF Last
<1>4. queue' = <<>> => Len(queue) = 1
  <2>1. queue' = <<>> => Len(queue') = 0
    OBVIOUS
  <2> QED BY <1>1, <1>2, <2>1
<1>5. \A i \in 1 .. Len(queue') :
         /\ i + 1 \in 1 .. Len(queue) /\ queue'[i] = queue[i + 1]
         /\ (i + 1 = Len(queue) => i = Len(queue'))
  <2> DEFINE n == Len(queue)
  <2>1. n \in Nat \ {0} /\ Len(queue') = n - 1 /\ \A i \in 1 .. n - 1 : queue'[i] = queue[i + 1]
    BY <1>1, <1>2
  <2> HIDE DEF n
  <2>2. \A i \in 1 .. n - 1 : i + 1 \in 1 .. n /\ (i + 1 = n => i = n - 1)
    BY <2>1
  <2> QED BY <2>1, <2>2 DEF n
<1> QED BY <1>1, <1>3, <1>4, <1>5

-----------------------------------------------------------------------------
(* What the detector does to the queue.                                    *)

\* fsd_detect.
LEMMA DetectIs ==
    ASSUME TypeOK, NEW h \in BOOLEAN, Detect(h)
    PROVE  /\ runPc = "detect" /\ eventIdx' \in Nat /\ inited' \in BOOLEAN
           /\ quiet' \in 0 .. Hangover
           /\ quiet' = IF h THEN 0 ELSE Smaller(quiet + 1, Hangover)
           /\ UNCHANGED <<workPc, pos, event, stopped, readVars, analyserVars, missed>>
<1>1. eventIdx' \in Nat
  BY DEF Detect, TypeOK
<1>2. inited' \in BOOLEAN
  <2>1. inited' = inited \/ inited' = TRUE
    BY Zenon DEF Detect
  <2> QED BY <2>1, Zenon DEF TypeOK
<1>3. quiet' \in 0 .. Hangover
  <2>1. CASE h
    BY <2>1, SizesAssumption DEF Detect
  <2>2. CASE ~h
    BY <2>2, SizesAssumption DEF Detect, TypeOK, Smaller
  <2> QED BY <2>1, <2>2
<1> QED BY <1>1, <1>2, <1>3 DEF Detect

\* ms_onDetect and the new end, of a range in progress.
LEMMA ExtendedIs ==
    ASSUME TypeOK, DetectInv, RangeInv, runPc = "detect", Discovering,
           NEW h \in BOOLEAN, queue' = Extended(h)
    PROVE  \/ queue' = queue /\ discarding = TRUE
           \/ /\ discarding = FALSE /\ queue # <<>> /\ ~Finished(Last)
              /\ \E r \in Sound :
                    /\ queue' = [queue EXCEPT ![Len(queue)] = r]
                    /\ r.start = Last.start /\ r.end = event + Step /\ ~Finished(r)
<1>1. CASE discarding = TRUE
  BY <1>1 DEF Extended
<1>2. CASE discarding = FALSE
  <2>1. queue # <<>> /\ ~Finished(Last) /\ Last \in Sound
    BY <1>2, EndsAre DEF Discovering, TypeOK
  <2> DEFINE l == Last
             r == [l EXCEPT !.total = @ + 1, !.end = event + Step,
                            !.valid = @ + (IF h THEN 1 ELSE 0)]
  <2>2. queue' = [queue EXCEPT ![Len(queue)] = r]
    <3>1. ~(discarding \/ queue = <<>>)
      BY <1>2, <2>1
    <3> QED BY <3>1, Zenon DEF Extended
  <2> HIDE DEF l
  <2>3. l \in Sound /\ l = Last
    BY <2>1 DEF l
  <2>4. r \in Sound /\ r.start = Last.start /\ r.end = event + Step /\ ~Finished(r)
    <3> DEFINE t == l.total + 1
               e == event + Step
               v == l.valid + (IF h THEN 1 ELSE 0)
    <3>1. t \in Int /\ e \in Int /\ v \in Int
      BY <2>3, SizesAssumption DEF TypeOK, Sound
    <3>2. r = [l EXCEPT !.total = t, !.end = e, !.valid = v]
      OBVIOUS
    <3> HIDE DEF t, e, v
    <3>3. r \in Sound /\ r.start = l.start /\ r.end = e /\ r.finished = l.finished
      BY <2>3, <3>1, <3>2 DEF Sound
    <3> QED BY <2>1, <2>3, <3>3 DEF Finished, e
  <2> QED BY <1>2, <2>1, <2>2, <2>4
<1> QED BY <1>1, <1>2 DEF TypeOK

\* msq_endDiscoverySignal.
LEMMA EndDiscoveryIs ==
    ASSUME TypeOK, DetectInv, RangeInv, Discovering, EndDiscovery
    PROVE  \/ queue' = queue /\ discarding = TRUE /\ discarding' = FALSE
           \/ /\ discarding' = FALSE /\ queue # <<>> /\ ~Finished(Last)
              /\ \E r \in Sound :
                    /\ queue' = [queue EXCEPT ![Len(queue)] = r]
                    /\ r.start = Last.start /\ r.end = Last.end /\ Finished(r)
<1>1. CASE discarding = TRUE
  BY <1>1 DEF EndDiscovery
<1>2. CASE discarding = FALSE
  <2>1. queue # <<>> /\ ~Finished(Last) /\ queue' = SetLast("finished", TRUE) /\ discarding' = FALSE
    BY <1>2 DEF EndDiscovery, Discovering
  <2> DEFINE r == [Last EXCEPT !.finished = TRUE]
  <2>2. r \in Sound /\ r.start = Last.start /\ r.end = Last.end /\ r.finished = TRUE
    BY <2>1, EndsAre DEF TypeOK, Sound
  <2>3. queue' = [queue EXCEPT ![Len(queue)] = r]
    BY <2>1 DEF SetLast, Last
  <2> QED BY <1>2, <2>1, <2>2, <2>3 DEF Finished
<1> QED BY <1>1, <1>2 DEF TypeOK

\* A range in progress that is not being pushed changes, and begins where it
\* began.
LEMMA LastGrows ==
    ASSUME Inv, queue # <<>>, ~Finished(Last),
           NEW r \in Sound, queue' = [queue EXCEPT ![Len(queue)] = r],
           r.start = Last.start, Last.end <= r.end, r.end <= event + Step,
           runPc \notin {"fillStart", "fillEnd", "crashed"},
           runPc' \notin {"fillStart", "fillEnd", "crashed"},
           UNCHANGED <<workPc, pos, event, readVars>>
    PROVE  RangeInv' /\ WorkInv' /\ queue' \in Seq(Sound) /\ queue' # <<>> /\ Last' = r
<1>1. /\ queue' \in Seq(Sound) /\ queue' # <<>> /\ Len(queue') = Len(queue)
      /\ Last' = r /\ Oldest' = IF Len(queue) = 1 THEN r ELSE Oldest
      /\ \A i \in 1 .. Len(queue) : i # Len(queue) => queue'[i] = queue[i]
      /\ queue'[Len(queue)] = r
  BY LastSet DEF Inv, TypeOK
<1>2. /\ Len(queue) \in Nat \ {0} /\ Oldest \in Sound /\ Last \in Sound
      /\ Last = queue[Len(queue)] /\ (Len(queue) = 1 => Oldest = Last)
      /\ {Oldest.start, Oldest.end} \subseteq Int
  BY EndsAre DEF Inv, TypeOK
<1>3. RangeInv'
  <2>1. ASSUME NEW i \in 1 .. Len(queue') PROVE queue'[i].start <= queue'[i].end
    <3>1. queue[i].start <= queue[i].end
      BY <1>1 DEF Inv, RangeInv
    <3>2. CASE i = Len(queue)
      BY <3>1, <3>2, <1>1, <1>2 DEF Sound
    <3>3. CASE i # Len(queue)
      BY <3>1, <3>3, <1>1
    <3> QED BY <3>2, <3>3
  <2> QED BY <2>1, <1>1 DEF RangeInv
<1>4. WorkInv'
  <2>1. Finished(Oldest) => Oldest' = Oldest
    BY <1>1, <1>2
  <2>2. Oldest'.start = Oldest.start /\ Oldest.end <= Oldest'.end
        /\ Oldest.end \in Int /\ Oldest'.end \in Int
    <3>1. CASE Len(queue) = 1
      BY <1>1, <1>2, <3>1 DEF Sound
    <3>2. CASE Len(queue) # 1
      BY <1>1, <1>2, <3>2
    <3> QED BY <3>1, <3>2
  <2>3. ~Fresh /\ ~Fresh'
    BY DEF Fresh
  <2>4. workPc' \in {"recognised", "outdated", "skipped"} =>
            Oldest' = Oldest /\ Finished(Oldest')
    BY <2>1 DEF Inv, WorkInv
  <2>5. workPc' \in Reading =>
            /\ recognizePos' <= Oldest'.end
            /\ workPc' = "take" => wanted' <= 0 \/ recognizePos' + wanted' <= Oldest'.end
    BY <2>2, <2>3 DEF Inv, TypeOK, WorkInv, readVars
  <2>6. workPc' = "skipped" => Small(Oldest)'
    BY <2>4 DEF Inv, WorkInv, Small
  <2> QED
    BY <1>1, <2>2, <2>4, <2>5, <2>6 DEF Inv, WorkInv, readVars, Finished
<1> QED BY <1>1, <1>3, <1>4

-----------------------------------------------------------------------------
LEMMA InitInv == Init => Inv
<1> SUFFICES ASSUME Init PROVE Inv
  OBVIOUS
<1> USE SizesAssumption DEF Init, FreqDetectorInit, DetectorInit, QueueInit, AnalyserInit
<1>1. TypeOK
  <2>1. <<>> \in Seq(Sound)
    BY EmptySeq
  <2>2. quiet \in 0 .. Hangover
    OBVIOUS
  <2>3. queue \in Seq(Sound)
    BY <2>1
  <2>4. /\ inited \in BOOLEAN /\ discarding \in BOOLEAN /\ stopped \in BOOLEAN
        /\ firstBuffer \in BOOLEAN /\ analyserFirst \in BOOLEAN
        /\ leftOver \in BOOLEAN /\ missed \in BOOLEAN /\ torn \in BOOLEAN
    OBVIOUS
  <2>5. /\ pos \in Nat /\ eventIdx \in Nat /\ event \in Nat /\ discovered \in Nat
        /\ from \in Int /\ wanted \in Int /\ processPos \in Int
        /\ recognizePos \in Int /\ dataPos \in Int
    OBVIOUS
  <2>6. runPc = "get" /\ workPc = "start"
    OBVIOUS
  <2> QED BY <2>2, <2>3, <2>4, <2>5, <2>6 DEF TypeOK
<1>2. DetectInv
  BY DEF TypeOK, DetectInv, WorkInv, HasRange, Pushing, Discovering, Finished, Last
<1>3. RangeInv
  BY DEF TypeOK, DetectInv, RangeInv, WorkInv, HasRange, Pushing, Finished, Last
<1>4. WorkInv
  BY DEF TypeOK, DetectInv, RangeInv, WorkInv, HasRange, Reading, Pushing, Fresh,
     Finished, Last, Oldest, Small, BufferSize, Sound
<1>5. BufferInv
  BY DEF TypeOK, WorkInv, BufferInv, HasRange, Reading, BufferSize
<1>6. StopInv
  BY DEF TypeOK, StopInv, HasRange, Pushing, WorkInv
<1> QED BY <1>1, <1>2, <1>3, <1>4, <1>5, <1>6 DEF Inv

LEMMA StepInv == Inv /\ [Next]_vars => Inv'
<1> SUFFICES ASSUME Inv, [Next]_vars PROVE Inv'
  OBVIOUS
<1> USE SizesAssumption DEF Inv, runnerVars, readVars, analyserVars
<1>1. CASE Write
  <2>7. pos' \in Nat /\ pos <= pos' /\ event' = pos /\ event <= event'
    BY <1>1 DEF Write, TypeOK, DetectInv, BufferSize
  <2>8. queue # <<>> => {Last.start, Last.end} \subseteq Int
    BY EndsAre DEF TypeOK
  <2>1. TypeOK'
    BY <1>1, <2>7 DEF Write, TypeOK, Pushing
  <2>2. DetectInv'
    BY <1>1, <2>7 DEF Write, TypeOK, DetectInv, Pushing, Discovering, Last
  <2>3. RangeInv'
    BY <1>1, <2>7, <2>8 DEF Write, TypeOK, RangeInv, Last
  <2>4. WorkInv'
    BY <1>1 DEF Write, TypeOK, DetectInv, RangeInv, WorkInv, HasRange, Reading,
         Pushing, Fresh, Finished, Last, Oldest, Small, BufferSize, Sound
  <2>5. BufferInv'
    BY <1>1 DEF Write, TypeOK, WorkInv, BufferInv, HasRange, Reading, BufferSize
  <2>6. StopInv'
    BY <1>1 DEF Write, TypeOK, StopInv, HasRange, Pushing, WorkInv
  <2> QED BY <2>1, <2>2, <2>3, <2>4, <2>5, <2>6
<1>2. CASE Ignore
  BY <1>2 DEF Ignore, TypeOK, DetectInv, RangeInv, WorkInv, BufferInv, StopInv,
       HasRange, Reading, Pushing, Fresh, Discovering, Finished, Last, Oldest,
       Small
<1>3. CASE GoOn
  <2> PICK h \in BOOLEAN :
        /\ Detect(h) /\ quiet < (IF h THEN Hangover ELSE Hangover - 1)
        /\ queue' = Extended(h) /\ runPc' = "get" /\ UNCHANGED <<discovered, discarding>>
    BY <1>3 DEF GoOn
  <2> DEFINE Same == runPc = "detect" /\ UNCHANGED <<workPc, pos, event, stopped, readVars, analyserVars, missed>>
  <2>9. Same /\ eventIdx' \in Nat /\ inited' \in BOOLEAN /\ quiet' \in 0 .. Hangover
        /\ quiet' = IF h THEN 0 ELSE Smaller(quiet + 1, Hangover)
    BY DetectIs
  <2>7. Same /\ Discovering
    BY <2>9 DEF DetectInv, TypeOK
  <2>10. quiet' < Hangover
    BY <2>9 DEF TypeOK, Smaller
  <2>8. /\ RangeInv' /\ WorkInv' /\ queue' \in Seq(Sound)
        /\ (queue' # <<>> <=> queue # <<>>)
        /\ IF discarding = TRUE THEN queue' = queue ELSE queue' # <<>> /\ ~Finished(Last)'
    <3>1. CASE queue' = queue /\ discarding = TRUE
      BY <2>7, <3>1 DEF TypeOK, RangeInv, WorkInv, Fresh, Finished, Last, Oldest, Small
    <3>2. ASSUME discarding = FALSE, queue # <<>>, ~Finished(Last), NEW r \in Sound,
                 queue' = [queue EXCEPT ![Len(queue)] = r],
                 r.start = Last.start, r.end = event + Step, ~Finished(r)
          PROVE  RangeInv' /\ WorkInv' /\ queue' \in Seq(Sound) /\ queue' # <<>> /\ Last' = r
      <4>1. Last.end <= r.end /\ r.end <= event + Step
        BY <2>7, <3>2 DEF TypeOK, RangeInv
      <4> QED BY <2>7, <3>2, <4>1, LastGrows
    <3> QED BY <2>7, <3>1, <3>2, ExtendedIs DEF Finished
  <2> HIDE DEF Same
  <2>1. TypeOK'
    BY <2>7, <2>8, <2>9, <2>10 DEF Same, TypeOK
  <2>2. DetectInv'
    BY <2>7, <2>8, <2>10 DEF Same, TypeOK, DetectInv, Discovering, Pushing, Finished, Last
  <2>3. RangeInv'
    BY <2>8
  <2>4. WorkInv'
    BY <2>8
  <2>5. BufferInv'
    BY <2>7, <2>8 DEF Same, TypeOK, BufferInv
  <2>6. StopInv'
    BY <2>7, <2>8 DEF Same, TypeOK, StopInv, Pushing
  <2> QED BY <2>1, <2>2, <2>3, <2>4, <2>5, <2>6
<1>4. CASE Silence
  <2> /\ Detect(FALSE) /\ quiet >= Hangover - 1 /\ ~Discovering /\ runPc' = "get"
      /\ UNCHANGED <<discovered, queue, discarding>>
    BY <1>4 DEF Silence
  <2>8. /\ runPc = "detect" /\ eventIdx' \in Nat /\ inited' \in BOOLEAN /\ quiet' \in 0 .. Hangover
        /\ quiet' = Smaller(quiet + 1, Hangover)
        /\ UNCHANGED <<workPc, pos, event, stopped, readVars, analyserVars, missed>>
    BY DetectIs
  <2>7. runPc = "detect" /\ UNCHANGED <<workPc, pos, event, stopped, readVars, analyserVars, missed>>
    BY <2>8
  <2>9. quiet' = Hangover
    BY <2>8 DEF TypeOK, Smaller
  <2>1. TypeOK'
    BY <2>7, <2>8, <2>9 DEF TypeOK
  <2>2. DetectInv'
    BY <2>7, <2>9 DEF TypeOK, DetectInv, Discovering, Pushing, Finished, Last
  <2>3. RangeInv'
    BY <2>7 DEF TypeOK, RangeInv, Finished, Last
  <2>4. WorkInv'
    BY <2>7 DEF TypeOK, WorkInv, Fresh, Finished, Oldest, Small
  <2>5. BufferInv'
    BY <2>7 DEF TypeOK, BufferInv
  <2>6. StopInv'
    BY <2>7 DEF TypeOK, StopInv, Pushing
  <2> QED BY <2>1, <2>2, <2>3, <2>4, <2>5, <2>6
<1>5. CASE EndFound
  <2> DEFINE Same == runPc = "detect" /\ UNCHANGED <<workPc, pos, event, stopped, readVars, analyserVars, missed>>
  <2> /\ Detect(FALSE) /\ quiet >= Hangover - 1 /\ Discovering
      /\ queue' = Extended(FALSE) /\ runPc' = "finish" /\ UNCHANGED <<discovered, discarding>>
    BY <1>5 DEF EndFound
  <2>9. Same /\ eventIdx' \in Nat /\ inited' \in BOOLEAN /\ quiet' \in 0 .. Hangover
        /\ quiet' = Smaller(quiet + 1, Hangover)
    BY DetectIs
  <2>7. Same /\ Discovering
    BY <2>9
  <2>10. quiet' = Hangover
    BY <2>9 DEF TypeOK, Smaller
  <2>8. /\ RangeInv' /\ WorkInv' /\ queue' \in Seq(Sound)
        /\ (queue' # <<>> <=> queue # <<>>)
        /\ IF discarding = TRUE THEN queue' = queue ELSE queue' # <<>> /\ ~Finished(Last)'
    <3>1. CASE queue' = queue /\ discarding = TRUE
      BY <2>7, <3>1 DEF TypeOK, RangeInv, WorkInv, Fresh, Finished, Last, Oldest, Small
    <3>2. ASSUME discarding = FALSE, queue # <<>>, ~Finished(Last), NEW r \in Sound,
                 queue' = [queue EXCEPT ![Len(queue)] = r],
                 r.start = Last.start, r.end = event + Step, ~Finished(r)
          PROVE  RangeInv' /\ WorkInv' /\ queue' \in Seq(Sound) /\ queue' # <<>> /\ Last' = r
      <4>1. Last.end <= r.end /\ r.end <= event + Step
        BY <2>7, <3>2 DEF TypeOK, RangeInv
      <4> QED BY <2>7, <3>2, <4>1, LastGrows
    <3> QED BY <2>7, <3>1, <3>2, ExtendedIs DEF Finished
  <2> HIDE DEF Same
  <2>1. TypeOK'
    BY <2>7, <2>8, <2>9, <2>10 DEF Same, TypeOK
  <2>2. DetectInv'
    BY <2>7, <2>8, <2>10 DEF Same, TypeOK, DetectInv, Discovering, Pushing, Finished, Last
  <2>3. RangeInv'
    BY <2>8
  <2>4. WorkInv'
    BY <2>8
  <2>5. BufferInv'
    BY <2>7, <2>8 DEF Same, TypeOK, BufferInv
  <2>6. StopInv'
    BY <2>7, <2>8 DEF Same, TypeOK, StopInv, Pushing
  <2> QED BY <2>1, <2>2, <2>3, <2>4, <2>5, <2>6
<1>6. CASE Finish
  <2> DEFINE Same == UNCHANGED <<workPc, pos, eventIdx, event, inited, quiet, discovered, stopped, readVars, analyserVars, missed>>
  <2>7. Same /\ runPc = "finish" /\ runPc' = "get" /\ Discovering /\ EndDiscovery
    BY <1>6 DEF Finish, DetectInv
  <2>8. /\ RangeInv' /\ WorkInv' /\ queue' \in Seq(Sound) /\ discarding' = FALSE
        /\ (queue' # <<>> <=> queue # <<>>) /\ (queue' # <<>> => Finished(Last)')
    <3>1. CASE queue' = queue /\ discarding = TRUE /\ discarding' = FALSE
      BY <2>7, <3>1 DEF TypeOK, DetectInv, RangeInv, WorkInv, Fresh, Finished, Last,
         Oldest, Small
    <3>2. ASSUME queue # <<>>, ~Finished(Last), NEW r \in Sound,
                 queue' = [queue EXCEPT ![Len(queue)] = r],
                 r.start = Last.start, r.end = Last.end, Finished(r)
          PROVE  RangeInv' /\ WorkInv' /\ queue' \in Seq(Sound) /\ queue' # <<>> /\ Last' = r
      <4>1. Last.end <= r.end /\ r.end <= event + Step
        <5>1. Last.end \in Int
          BY <3>2, EndsAre DEF TypeOK
        <5> QED BY <2>7, <3>2, <5>1 DEF RangeInv
      <4> QED BY <2>7, <3>2, <4>1, LastGrows
    <3> QED BY <2>7, <3>1, <3>2, EndDiscoveryIs DEF Finished
  <2> HIDE DEF Same
  <2>1. TypeOK'
    BY <2>7, <2>8 DEF Same, TypeOK
  <2>2. DetectInv'
    BY <2>7, <2>8 DEF Same, TypeOK, DetectInv, Discovering, Pushing, Finished, Last
  <2>3. RangeInv'
    BY <2>8
  <2>4. WorkInv'
    BY <2>8
  <2>5. BufferInv'
    BY <2>7, <2>8 DEF Same, TypeOK, BufferInv
  <2>6. StopInv'
    BY <2>7, <2>8 DEF Same, TypeOK, StopInv, Pushing
  <2> QED BY <2>1, <2>2, <2>3, <2>4, <2>5, <2>6
<1>7. CASE StartFound
  <2> DEFINE Same == runPc = "detect" /\ UNCHANGED <<workPc, pos, event, stopped, readVars, analyserVars, missed>>
  <2>7. Same /\ ~Discovering /\ discarding = FALSE
    BY <1>7 DEF StartFound, Detect, TypeOK, DetectInv, Discovering
  <2>11. eventIdx' \in Nat /\ inited' \in BOOLEAN /\ quiet' \in 0 .. Hangover /\ quiet' = 0
    BY <1>7, DetectIs DEF StartFound
  <2>12. quiet' = 0 /\ discovered' \in Nat
    BY <1>7, <2>11 DEF StartFound, TypeOK
  <2> HIDE DEF Same
  <2>8. \/ queue' = queue /\ queue # <<>> /\ Finished(Last) /\ discarding' = TRUE /\ runPc' = "broadcast"
        \/ queue' = Append(queue, Blank) /\ discarding' = FALSE /\ runPc' = "fillStart"
    <3>1. Len(queue) >= Capacity => queue # <<>>
      BY EmptySeq DEF TypeOK
    <3> QED BY <1>7, <2>7, <3>1 DEF StartFound, Discovering
  <2>9. CASE queue' = queue /\ queue # <<>> /\ Finished(Last) /\ discarding' = TRUE /\ runPc' = "broadcast"
    <3>1. TypeOK'
      BY <2>7, <2>9, <2>11, <2>12 DEF Same, TypeOK, Pushing
    <3>2. DetectInv'
      BY <2>7, <2>9, <2>12 DEF Same, TypeOK, DetectInv, Discovering, Pushing, Finished,
         Last
    <3>3. RangeInv'
      BY <2>7, <2>9 DEF Same, RangeInv, Finished, Last
    <3>4. WorkInv'
      BY <2>7, <2>9 DEF Same, WorkInv, Fresh, Finished, Oldest, Small
    <3>5. BufferInv' /\ StopInv'
      BY <2>7, <2>9 DEF Same, BufferInv, StopInv, Pushing
    <3> QED BY <3>1, <3>2, <3>3, <3>4, <3>5
  <2>10. CASE queue' = Append(queue, Blank) /\ discarding' = FALSE /\ runPc' = "fillStart"
    <3>1. /\ queue' \in Seq(Sound) /\ queue' # <<>> /\ Len(queue') = Len(queue) + 1
          /\ Last' = Blank /\ Oldest' = IF queue = <<>> THEN Blank ELSE Oldest
          /\ \A i \in 1 .. Len(queue) : queue'[i] = queue[i]
          /\ queue'[Len(queue) + 1] = Blank
      <4>1. Blank \in Sound
        BY DEF Blank, Sound
      <4> QED BY <2>10, <4>1, Appended DEF TypeOK
    <3>2. Blank.start = 0 /\ Blank.end = 0 /\ ~Finished(Blank)
      BY DEF Blank, Finished
    <3>3. TypeOK'
      BY <2>7, <2>10, <2>11, <2>12, <3>1 DEF Same, TypeOK, Pushing
    <3>4. DetectInv'
      BY <2>7, <2>10, <2>12, <3>1, <3>2 DEF Same, TypeOK, DetectInv, Discovering,
         Pushing, Finished
    <3>5. RangeInv'
      <4>1. ASSUME NEW i \in 1 .. Len(queue') PROVE queue'[i].start <= queue'[i].end
        <5>1. CASE i = Len(queue) + 1
          BY <3>1, <3>2, <5>1
        <5>2. CASE i # Len(queue) + 1
          <6>1. i \in 1 .. Len(queue)
            BY <3>1, <5>2 DEF TypeOK
          <6> QED BY <2>7, <3>1, <6>1 DEF Same, RangeInv
        <5> QED BY <5>1, <5>2
      <4> QED BY <2>10, <3>1, <3>2, <4>1 DEF RangeInv
    <3>6. WorkInv'
      BY <2>7, <2>10, <3>1 DEF Same, WorkInv, Fresh, Finished, Small, HasRange, Reading
    <3>7. BufferInv' /\ StopInv'
      BY <2>7, <2>10 DEF Same, BufferInv, StopInv, Pushing
    <3> QED BY <3>3, <3>4, <3>5, <3>6, <3>7
  <2> QED BY <2>8, <2>9, <2>10
<1>8. CASE FillStart
  <2> DEFINE Same == UNCHANGED <<workPc, runnerVars, stopped, readVars, analyserVars, missed>>
             r == [Last EXCEPT !.idx = FirstIdx + discovered - 1, !.start = StartPos]
  <2>7. /\ Same /\ runPc = "fillStart" /\ runPc' = "fillEnd"
        /\ queue # <<>> /\ ~Finished(Last)
    BY <1>8 DEF FillStart, DetectInv
  <2>8. queue' = [queue EXCEPT ![Len(queue)] = r]
    BY <1>8 DEF FillStart, SetLast, Last
  <2>9. /\ Len(queue) \in Nat \ {0} /\ Oldest \in Sound /\ Last \in Sound
        /\ Last = queue[Len(queue)] /\ (Len(queue) = 1 => Oldest = Last)
        /\ {Oldest.start, Oldest.end, Last.start, Last.end} \subseteq Int
    BY <2>7, EndsAre DEF TypeOK

  <2>12. StartPos \in Int /\ StartPos <= event
    <3>1. Distance * Step \in Nat
      OBVIOUS
    <3> QED BY <3>1 DEF StartPos, TypeOK
  <2>10. r \in Sound /\ r.start <= event /\ r.end = 0 /\ ~Finished(r)
    <3>1. FirstIdx + discovered - 1 \in Int
      BY DEF TypeOK
    <3>2. r \in Sound
      BY <2>9, <2>12, <3>1 DEF Sound
    <3>3. r.start = StartPos /\ r.end = Last.end /\ r.finished = Last.finished
      BY <2>9 DEF Sound
    <3>4. Last.end = 0
      BY <2>7 DEF RangeInv
    <3> QED BY <2>7, <2>12, <3>2, <3>3, <3>4 DEF Finished

  <2> HIDE DEF Same, r
  <2>11. /\ queue' \in Seq(Sound) /\ queue' # <<>> /\ Len(queue') = Len(queue)
         /\ Last' = r /\ Oldest' = IF Len(queue) = 1 THEN r ELSE Oldest
         /\ \A i \in 1 .. Len(queue) : i # Len(queue) => queue'[i] = queue[i]
         /\ queue'[Len(queue)] = r
    BY <2>7, <2>8, <2>10, LastSet DEF TypeOK
  <2>1. TypeOK'
    BY <2>7, <2>11 DEF Same, TypeOK, Pushing
  <2>2. DetectInv'
    BY <2>7, <2>10, <2>11 DEF Same, TypeOK, DetectInv, Discovering, Pushing
  <2>3. RangeInv'
    <3>1. ASSUME NEW i \in 1 .. Len(queue'), i # Len(queue') PROVE queue'[i].start <= queue'[i].end
      BY <2>7, <2>9, <2>11, <3>1 DEF RangeInv
    <3>2. 0 <= event + Step
      BY DEF TypeOK
    <3> QED BY <2>7, <2>10, <2>11, <3>1, <3>2 DEF Same, RangeInv
  <2>4. WorkInv'
    <3>1. CASE Len(queue) = 1
      <4>1. Oldest.start = 0 /\ Oldest.end = 0 /\ ~Finished(Oldest) /\ 0 <= event /\ Oldest' = r
        BY <2>7, <2>9, <2>11, <3>1 DEF RangeInv, TypeOK
      <4>2. Fresh' /\ ~Fresh
        BY <2>7, <2>11, <3>1 DEF Fresh
      <4>3. workPc \in Reading => recognizePos <= 0 /\ from = 0
        BY <4>1, <4>2 DEF WorkInv
      <4> QED BY <2>7, <2>10, <2>11, <4>1, <4>2, <4>3 DEF Same, WorkInv, TypeOK, Reading
    <3>2. CASE Len(queue) # 1
      BY <2>7, <2>11, <3>2 DEF Same, WorkInv, Fresh, Finished, Small
    <3> QED BY <3>1, <3>2
  <2>5. BufferInv'
    BY <2>7 DEF Same, BufferInv
  <2>6. StopInv'
    BY <2>7, <2>11 DEF Same, StopInv, Pushing
  <2> QED BY <2>1, <2>2, <2>3, <2>4, <2>5, <2>6
<1>9. CASE FillEnd
  <2> DEFINE Same == UNCHANGED <<workPc, runnerVars, stopped, readVars, analyserVars, missed>>
             r == [Last EXCEPT !.end = event + Step]
  <2>7. /\ Same /\ runPc = "fillEnd" /\ runPc' = "broadcast"
        /\ queue # <<>> /\ ~Finished(Last)
    BY <1>9 DEF FillEnd, DetectInv
  <2>8. queue' = [queue EXCEPT ![Len(queue)] = r]
    BY <1>9 DEF FillEnd, SetLast, Last
  <2>9. /\ Len(queue) \in Nat \ {0} /\ Oldest \in Sound /\ Last \in Sound
        /\ Last = queue[Len(queue)] /\ (Len(queue) = 1 => Oldest = Last)
        /\ {Oldest.start, Oldest.end, Last.start, Last.end} \subseteq Int
    BY <2>7, EndsAre DEF TypeOK

  <2>10. /\ r \in Sound /\ r.start <= event /\ r.start = Last.start /\ ~Finished(r)
         /\ r.end = event + Step /\ event <= r.end /\ 0 <= r.end /\ r.start <= r.end
    <3>1. event + Step \in Int /\ event <= event + Step /\ 0 <= event + Step /\ event \in Int
      BY DEF TypeOK
    <3>2. r \in Sound
      BY <2>9, <3>1 DEF Sound
    <3>3. r.start = Last.start /\ r.end = event + Step /\ r.finished = Last.finished
      BY <2>9 DEF Sound
    <3>4. Last.start <= event
      BY <2>7 DEF RangeInv
    <3> HIDE DEF r
    <3>5. r.start <= event /\ r.start <= r.end
      BY <2>9, <3>1, <3>3, <3>4
    <3>6. ~Finished(r)
      BY <2>7, <3>3 DEF Finished
    <3> QED BY <3>1, <3>2, <3>3, <3>5, <3>6

  <2> HIDE DEF Same, r
  <2>11. /\ queue' \in Seq(Sound) /\ queue' # <<>> /\ Len(queue') = Len(queue)
         /\ Last' = r /\ Oldest' = IF Len(queue) = 1 THEN r ELSE Oldest
         /\ \A i \in 1 .. Len(queue) : i # Len(queue) => queue'[i] = queue[i]
         /\ queue'[Len(queue)] = r
    BY <2>7, <2>8, <2>10, LastSet DEF TypeOK
  <2>1. TypeOK'
    BY <2>7, <2>11 DEF Same, TypeOK, Pushing
  <2>2. DetectInv'
    BY <2>7, <2>10, <2>11 DEF Same, TypeOK, DetectInv, Discovering, Pushing
  <2>3. RangeInv'
    <3>1. ASSUME NEW i \in 1 .. Len(queue'), i # Len(queue') PROVE queue'[i].start <= queue'[i].end
      BY <2>7, <2>9, <2>11, <3>1 DEF RangeInv
    <3> QED BY <2>7, <2>10, <2>11, <3>1 DEF Same, RangeInv, TypeOK
  <2>4. WorkInv'
    <3>1. CASE Len(queue) = 1
      <4>1. Oldest = Last /\ Oldest.end = 0 /\ ~Finished(Oldest) /\ Oldest' = r
        BY <2>7, <2>9, <2>11, <3>1 DEF RangeInv
      <4>2. workPc \in Reading => recognizePos <= 0 \/ recognizePos <= event
        BY <4>1 DEF WorkInv
      <4>3. workPc \in Reading => recognizePos <= r.end
        BY <2>10, <4>2 DEF TypeOK
      <4>4. workPc = "take" => wanted <= 0 \/ recognizePos + wanted <= r.end
        <5>1. workPc = "take" => wanted <= 0 \/ recognizePos + wanted <= 0
          BY <4>1 DEF WorkInv, Reading
        <5> QED BY <2>10, <5>1 DEF TypeOK
      <4>5. workPc \in Reading => from \in {0, r.start}
        BY <2>10, <4>1 DEF WorkInv
      <4>6. workPc \notin {"recognised", "outdated", "skipped"}
        BY <4>1 DEF WorkInv
      <4> QED BY <2>7, <2>11, <4>1, <4>3, <4>4, <4>5, <4>6 DEF Same, WorkInv
    <3>2. CASE Len(queue) # 1
      BY <2>7, <2>11, <3>2 DEF Same, WorkInv, Fresh, Finished, Small
    <3> QED BY <3>1, <3>2
  <2>5. BufferInv'
    BY <2>7 DEF Same, BufferInv
  <2>6. StopInv'
    BY <2>7, <2>11 DEF Same, StopInv, Pushing
  <2> QED BY <2>1, <2>2, <2>3, <2>4, <2>5, <2>6
<1>10. CASE Broadcast
  BY <1>10 DEF Broadcast, Wake, TypeOK, DetectInv, RangeInv, WorkInv, BufferInv,
       StopInv, HasRange, Reading, Pushing, Fresh, Discovering, Finished, Last,
       Oldest, Small
<1>11. CASE GetNull
  BY <1>11 DEF GetNull, TypeOK, DetectInv, RangeInv, WorkInv, BufferInv,
       StopInv, HasRange, Reading, Pushing, Fresh, Discovering, Finished, Last,
       Oldest, Small
<1>12. CASE EndAll
  <2> DEFINE Same == UNCHANGED <<workPc, pos, eventIdx, event, inited, quiet, discovered, stopped, readVars, analyserVars, missed>>
  <2>7. Same /\ runPc = "endAll" /\ runPc' = "setStopped"
        /\ IF Discovering THEN EndDiscovery ELSE UNCHANGED <<queue, discarding>>
    BY <1>12 DEF EndAll
  <2>8. /\ RangeInv' /\ WorkInv' /\ queue' \in Seq(Sound) /\ discarding' = FALSE
        /\ (queue' # <<>> <=> queue # <<>>) /\ (queue' # <<>> => Finished(Last)')
    <3>1. CASE queue' = queue /\ discarding = TRUE /\ discarding' = FALSE
      BY <2>7, <3>1 DEF TypeOK, DetectInv, RangeInv, WorkInv, Fresh, Finished, Last,
         Oldest, Small
    <3>2. ASSUME queue # <<>>, ~Finished(Last), NEW r \in Sound,
                 queue' = [queue EXCEPT ![Len(queue)] = r],
                 r.start = Last.start, r.end = Last.end, Finished(r)
          PROVE  RangeInv' /\ WorkInv' /\ queue' \in Seq(Sound) /\ queue' # <<>> /\ Last' = r
      <4>1. Last.end <= r.end /\ r.end <= event + Step
        <5>1. Last.end \in Int
          BY <3>2, EndsAre DEF TypeOK
        <5> QED BY <2>7, <3>2, <5>1 DEF RangeInv
      <4> QED BY <2>7, <3>2, <4>1, LastGrows
    <3>3. CASE Discovering
      BY <2>7, <3>1, <3>2, <3>3, EndDiscoveryIs DEF Finished
    <3>4. CASE ~Discovering
      BY <2>7, <3>4 DEF TypeOK, DetectInv, Discovering, RangeInv, WorkInv, Fresh,
         Finished, Last, Oldest, Small
    <3> QED BY <3>3, <3>4
  <2> HIDE DEF Same
  <2>1. TypeOK'
    BY <2>7, <2>8 DEF Same, TypeOK
  <2>2. DetectInv'
    BY <2>7, <2>8 DEF Same, TypeOK, DetectInv, Discovering, Pushing, Finished, Last
  <2>3. RangeInv'
    BY <2>8
  <2>4. WorkInv'
    BY <2>8
  <2>5. BufferInv'
    BY <2>7, <2>8 DEF Same, TypeOK, BufferInv
  <2>6. StopInv'
    BY <2>7, <2>8 DEF Same, TypeOK, StopInv, Pushing
  <2> QED BY <2>1, <2>2, <2>3, <2>4, <2>5, <2>6
<1>13. CASE SetStopped
  BY <1>13 DEF SetStopped, TypeOK, DetectInv, RangeInv, WorkInv, BufferInv,
       StopInv, HasRange, Reading, Pushing, Fresh, Discovering, Finished, Last,
       Oldest, Small
<1>14. CASE BroadcastStop
  BY <1>14 DEF BroadcastStop, Wake, TypeOK, DetectInv, RangeInv, WorkInv,
       BufferInv, StopInv, HasRange, Reading, Pushing, Fresh, Discovering,
       Finished, Last, Oldest, Small
<1>15. CASE Spin
  BY <1>15 DEF Spin, TypeOK, DetectInv, RangeInv, WorkInv, BufferInv, StopInv,
       HasRange, Reading, Pushing, Fresh, Discovering, Finished, Last, Oldest,
       Small
<1>16. CASE TestStopped
  BY <1>16 DEF TestStopped, TypeOK, DetectInv, RangeInv, WorkInv, BufferInv,
       StopInv, HasRange, Reading, Pushing, Fresh, Discovering, Finished, Last,
       Oldest, Small
<1>17. CASE CondWait
  BY <1>17 DEF CondWait, TypeOK, DetectInv, RangeInv, WorkInv, BufferInv,
       StopInv, HasRange, Reading, Pushing, Fresh, Discovering, Finished, Last,
       Oldest, Small
<1>18. CASE SpuriousWakeup
  BY <1>18 DEF SpuriousWakeup, TypeOK, DetectInv, RangeInv, WorkInv, BufferInv,
       StopInv, HasRange, Reading, Pushing, Fresh, Discovering, Finished, Last,
       Oldest, Small
<1>19. CASE StartRecognize
  <2>1. TypeOK'
    BY <1>19 DEF StartRecognize, TypeOK, HasRange
  <2>2. DetectInv'
    BY <1>19 DEF StartRecognize, DetectInv, Discovering, Finished, Pushing, Last
  <2>3. RangeInv'
    BY <1>19 DEF StartRecognize, RangeInv, Finished, Last
  <2>4. WorkInv'
    BY <1>19 DEF StartRecognize, TypeOK, WorkInv, HasRange, Reading, Fresh, Finished,
       Oldest, Small, Last
  <2>5. BufferInv'
    BY <1>19 DEF StartRecognize, TypeOK, BufferInv, HasRange, Reading
  <2>6. StopInv'
    BY <1>19 DEF StartRecognize, TypeOK, StopInv, HasRange, Pushing
  <2> QED BY <2>1, <2>2, <2>3, <2>4, <2>5, <2>6
<1>20. CASE Assess
  BY <1>20 DEF Assess, TypeOK, DetectInv, RangeInv, WorkInv, BufferInv, StopInv,
       HasRange, Reading, Pushing, Fresh, Discovering, Finished, Last, Oldest,
       Small
<1>21. CASE Skip
  BY <1>21 DEF Skip, Unworthy, TypeOK, DetectInv, RangeInv, WorkInv, BufferInv,
       StopInv, HasRange, Reading, Pushing, Fresh, Discovering, Finished, Last,
       Oldest, Small
<1>22. CASE BeginProcess
  <2>7. /\ workPc = "decide" /\ workPc' = "begin"
        /\ queue # <<>> /\ {Oldest.start, Oldest.end} \subseteq Int
    BY <1>22, EndsAre DEF BeginProcess, WorkInv, HasRange, TypeOK
  <2>1. TypeOK'
    BY <1>22, <2>7 DEF BeginProcess, TypeOK, HasRange
  <2>2. DetectInv'
    BY <1>22, <2>7 DEF BeginProcess, DetectInv, Pushing, Discovering, Finished, Last
  <2>3. RangeInv'
    BY <1>22, <2>7 DEF BeginProcess, RangeInv, Finished, Last
  <2>4. WorkInv'
    BY <1>22, <2>7 DEF BeginProcess, WorkInv, HasRange, Reading
  <2>5. BufferInv'
    BY <1>22, <2>7 DEF BeginProcess, BufferInv, Reading
  <2>6. StopInv'
    BY <1>22, <2>7 DEF BeginProcess, StopInv
  <2> QED BY <2>1, <2>2, <2>3, <2>4, <2>5, <2>6
<1>23. CASE BeginRecognize
  <2>7. /\ workPc = "begin" /\ workPc' = "read" /\ runPc # "crashed"
        /\ queue # <<>> /\ {Oldest.start, Oldest.end} \subseteq Int
    BY <1>23, EndsAre DEF BeginRecognize, WorkInv, HasRange, TypeOK
  <2>8. Oldest.start <= Oldest.end \/ (Fresh /\ Oldest.start <= event)
    <3>1. /\ Len(queue) \in Nat \ {0} /\ Oldest = queue[1] /\ (Len(queue) = 1 => Oldest = Last)
      BY <2>7, EndsAre DEF TypeOK
    <3>2. 1 \in 1 .. Len(queue)
      BY <3>1
    <3>3. queue[1].start <= queue[1].end \/ (1 = Len(queue) /\ runPc = "fillEnd")
      BY <2>7, <3>2 DEF RangeInv
    <3> QED BY <3>1, <3>3 DEF RangeInv, Fresh
  <2>1. TypeOK'
    <3>1. torn' \in BOOLEAN
      BY <1>23, Zenon DEF BeginRecognize
    <3> QED BY <1>23, <2>7, <3>1 DEF BeginRecognize, TypeOK, HasRange
  <2>2. DetectInv'
    BY <1>23, <2>7 DEF BeginRecognize, TypeOK, DetectInv, WorkInv, HasRange,
         Pushing, Discovering, Finished, Last
  <2>3. RangeInv'
    BY <1>23, <2>7 DEF BeginRecognize, TypeOK, DetectInv, RangeInv, WorkInv,
         HasRange, Pushing, Finished, Last
  <2>4. WorkInv'
    BY <1>23, <2>7, <2>8 DEF BeginRecognize, WorkInv, TypeOK, HasRange, Reading, Fresh, Oldest,
       Last
  <2>5. BufferInv'
    <3>1. torn' = FALSE => recognizePos' = processPos'
      BY <1>23 DEF BeginRecognize
    <3>2. dataPos' = 0 /\ firstBuffer' = TRUE /\ processPos' \in Int /\ analyserVars' = analyserVars
      BY <1>23, <2>1 DEF BeginRecognize, TypeOK
    <3> QED BY <2>7, <3>1, <3>2 DEF BufferInv, Reading, TypeOK
  <2>6. StopInv'
    BY <1>23, <2>7 DEF BeginRecognize, TypeOK, StopInv, HasRange, Pushing,
         WorkInv
  <2> QED BY <2>1, <2>2, <2>3, <2>4, <2>5, <2>6
<1>24. CASE Read
  <2>7. /\ queue # <<>> /\ {Oldest.start, Oldest.end} \subseteq Int /\ BufferSize \in Nat
    BY <1>24, EndsAre DEF Read, WorkInv, HasRange, TypeOK, BufferSize
  <2>8. wanted' \in Int /\ recognizePos + wanted' <= Oldest.end /\ wanted' + dataPos <= BufferSize
    BY <1>24, <2>7 DEF Read, Smaller, TypeOK
  <2>1. TypeOK'
    BY <1>24, <2>8 DEF Read, TypeOK, HasRange
  <2>2. DetectInv'
    BY <1>24 DEF Read, Smaller, TypeOK, DetectInv, WorkInv, HasRange, Pushing,
         Discovering, Finished, Last
  <2>3. RangeInv'
    BY <1>24 DEF Read, Smaller, TypeOK, DetectInv, RangeInv, WorkInv, HasRange,
         Pushing, Finished, Last
  <2>4. WorkInv'
    BY <1>24, <2>7, <2>8 DEF Read, WorkInv, TypeOK, HasRange, Reading, Fresh, Oldest, Last
  <2>5. BufferInv'
    BY <1>24 DEF Read, Smaller, TypeOK, WorkInv, BufferInv, HasRange, Reading,
         BufferSize
  <2>6. StopInv'
    BY <1>24 DEF Read, Smaller, TypeOK, StopInv, HasRange, Pushing, WorkInv
  <2> QED BY <2>1, <2>2, <2>3, <2>4, <2>5, <2>6
<1>25. CASE TakeNegative
  BY <1>25 DEF TakeNegative, TypeOK, DetectInv, RangeInv, WorkInv, BufferInv,
       StopInv, HasRange, Reading, Pushing, Fresh, Discovering, Finished, Last,
       Oldest, Small
<1>26. CASE TakeOverwritten
  BY <1>26 DEF TakeOverwritten, TypeOK, DetectInv, RangeInv, WorkInv, BufferInv,
       StopInv, HasRange, Reading, Pushing, Fresh, Discovering, Finished, Last,
       Oldest, Small
<1>27. CASE TakeNothing
  BY <1>27 DEF TakeNothing, TypeOK, DetectInv, RangeInv, WorkInv, BufferInv,
       StopInv, HasRange, Reading, Pushing, Fresh, Discovering, Finished, Last,
       Oldest, Small
<1>28. CASE Take
  <2> DEFINE got == Smaller(wanted, pos - recognizePos)
  <2>7. /\ queue # <<>> /\ {Oldest.start, Oldest.end} \subseteq Int /\ BufferSize \in Nat
        /\ BufferSize = Overlap + Step
    BY <1>28, EndsAre DEF Take, WorkInv, HasRange, TypeOK, BufferSize
  <2>8. got \in Nat /\ 0 < got /\ got <= wanted
    BY <1>28 DEF Take, Smaller, TypeOK
  <2> HIDE DEF got
  <2>9. /\ workPc = "take" /\ 0 < wanted /\ recognizePos' = recognizePos + got
        /\ UNCHANGED <<runnerVars, queue, stopped, from, wanted, torn, leftOver, missed>>
        /\ IF dataPos + got >= BufferSize
           THEN processPos' = processPos + Advance /\ dataPos' = Overlap
                  /\ firstBuffer' = FALSE /\ analyserFirst' = FALSE
           ELSE dataPos' = dataPos + got /\ UNCHANGED <<processPos, firstBuffer, analyserFirst>>
    BY <1>28 DEF Take, got, Analyse
  <2>12. \/ workPc' = "read" /\ runPc' = runPc
         \/ workPc' = "crashed" /\ runPc' = "crashed"
    BY <1>28 DEF Take, PositionsAgree
  <2>10. /\ dataPos + got <= BufferSize /\ recognizePos + got <= Oldest.end
    BY <2>7, <2>8, <2>9 DEF WorkInv, Reading, TypeOK
  <2>11. Advance = (IF firstBuffer = TRUE THEN BufferSize ELSE Step)
    BY DEF Advance, TypeOK
  <2>1. TypeOK'
    <3>1. CASE dataPos + got >= BufferSize
      <4>1. processPos' \in Int /\ recognizePos' \in Int /\ dataPos' \in Int
        BY <2>7, <2>8, <2>9, <2>11, <3>1 DEF TypeOK
      <4>2. firstBuffer' = FALSE /\ analyserFirst' = FALSE
        BY <2>9, <3>1
      <4> QED BY <2>9, <2>12, <4>1, <4>2 DEF TypeOK, HasRange
    <3>2. CASE ~(dataPos + got >= BufferSize)
      BY <2>7, <2>8, <2>9, <2>12, <3>2 DEF TypeOK, HasRange
    <3> QED BY <3>1, <3>2
  <2>2. DetectInv'
    BY <2>9, <2>12 DEF DetectInv, Discovering, Last, Pushing
  <2>3. RangeInv'
    BY <2>9, <2>12 DEF RangeInv, Last, TypeOK
  <2>4. WorkInv'
    BY <2>7, <2>8, <2>9, <2>10, <2>12 DEF WorkInv, TypeOK, HasRange, Reading, Fresh, Oldest, Last
  <2>5. BufferInv'
    <3>1. CASE dataPos + got >= BufferSize
      <4>1. dataPos + got = BufferSize
        BY <2>7, <2>8, <2>10, <3>1 DEF TypeOK
      <4>2. torn = FALSE => recognizePos + got = processPos + Advance
        BY <2>7, <2>8, <2>9, <2>11, <4>1 DEF TypeOK, BufferInv
      <4> QED BY <2>7, <2>9, <2>12, <3>1, <4>2 DEF BufferInv, TypeOK, Reading
    <3>2. CASE ~(dataPos + got >= BufferSize)
      <4>1. recognizePos' = recognizePos + got /\ dataPos' = dataPos + got
            /\ UNCHANGED <<processPos, firstBuffer, analyserFirst, leftOver>>
        BY <2>9, <3>2
      <4> QED BY <2>8, <2>9, <2>12, <4>1 DEF BufferInv, TypeOK, Reading
    <3> QED BY <3>1, <3>2
  <2>6. StopInv'
    BY <2>9, <2>12 DEF StopInv, Pushing
  <2> QED BY <2>1, <2>2, <2>3, <2>4, <2>5, <2>6
<1>29. CASE ReadOn
  BY <1>29 DEF ReadOn, TypeOK, DetectInv, RangeInv, WorkInv, BufferInv, StopInv,
       HasRange, Reading, Pushing, Fresh, Discovering, Finished, Last, Oldest,
       Small
<1>30. CASE AtEnd
  <2>7. queue # <<>> /\ recognizePos = Oldest.end
    <3>1. queue # <<>>
      BY <1>30 DEF AtEnd, WorkInv, HasRange
    <3>2. ~Fresh
      BY <1>30, <3>1, EndsAre DEF AtEnd, Fresh, DetectInv, TypeOK
    <3>3. recognizePos <= Oldest.end
      BY <1>30, <3>2 DEF AtEnd, WorkInv, Reading
    <3> QED BY <1>30, <3>1, <3>3, EndsAre DEF AtEnd, TypeOK
  <2>1. TypeOK'
    BY <1>30 DEF AtEnd, AnalyseEnd, TypeOK, HasRange, Pushing, Reading,
         BufferSize
  <2>2. DetectInv'
    BY <1>30 DEF AtEnd, AnalyseEnd, TypeOK, DetectInv, WorkInv, HasRange,
         Pushing, Discovering, Finished, Last
  <2>3. RangeInv'
    BY <1>30 DEF AtEnd, AnalyseEnd, TypeOK, DetectInv, RangeInv, WorkInv,
         HasRange, Pushing, Finished, Last
  <2>4. WorkInv'
    BY <1>30, <2>7 DEF AtEnd, WorkInv, TypeOK, HasRange, Reading, Fresh, Oldest, Last
  <2>5. BufferInv'
    BY <1>30 DEF AtEnd, AnalyseEnd, TypeOK, WorkInv, BufferInv, HasRange,
         Reading, BufferSize
  <2>6. StopInv'
    BY <1>30 DEF AtEnd, AnalyseEnd, TypeOK, StopInv, HasRange, Pushing, WorkInv
  <2> QED BY <2>1, <2>2, <2>3, <2>4, <2>5, <2>6
<1>31. CASE GiveUp
  <2>1. TypeOK'
    BY <1>31 DEF GiveUp, TypeOK, HasRange
  <2>2. DetectInv'
    BY <1>31 DEF GiveUp, DetectInv, Discovering, Finished, Pushing, Last
  <2>3. RangeInv'
    BY <1>31 DEF GiveUp, RangeInv, Finished, Last
  <2>4. WorkInv'
    BY <1>31 DEF GiveUp, TypeOK, WorkInv, HasRange, Reading, Fresh, Finished, Oldest,
       Small, Last
  <2>5. BufferInv'
    BY <1>31 DEF GiveUp, TypeOK, BufferInv, HasRange, Reading
  <2>6. StopInv'
    BY <1>31 DEF GiveUp, TypeOK, StopInv, HasRange, Pushing
  <2> QED BY <2>1, <2>2, <2>3, <2>4, <2>5, <2>6
<1>32. CASE EndRecognize
  <2>7. /\ queue # <<>> /\ Finished(Oldest) /\ Len(queue) \in Nat \ {0}
        /\ (Len(queue) = 1 => Oldest = Last) /\ queue' = Tail(queue)
    BY <1>32, EndsAre DEF EndRecognize, WorkInv, HasRange, TypeOK
  <2>8. /\ queue' \in Seq(Sound)
        /\ \A i \in 1 .. Len(queue') :
              /\ i + 1 \in 1 .. Len(queue) /\ queue'[i] = queue[i + 1]
              /\ (i + 1 = Len(queue) => i = Len(queue'))
        /\ (queue' # <<>> => Last' = Last) /\ (queue' = <<>> => Len(queue) = 1)
    BY <2>7, Dropped DEF TypeOK
  <2>9. queue' = <<>> => Finished(Last)
    BY <2>7, <2>8
  <2>10. /\ workPc \in {"recognised", "outdated", "skipped"} /\ workPc' = "look"
         /\ UNCHANGED <<runPc, runnerVars, stopped, readVars, analyserVars, missed>>
    BY <1>32 DEF EndRecognize
  <2>1. TypeOK'
    BY <2>8, <2>10 DEF TypeOK
  <2>2. DetectInv'
    BY <2>7, <2>8, <2>9, <2>10 DEF DetectInv, Discovering, Finished, Pushing
  <2>3. RangeInv'
    <3>1. ASSUME NEW i \in 1 .. Len(queue')
          PROVE  \/ queue'[i].start <= queue'[i].end
                 \/ (i = Len(queue') /\ runPc' \in {"fillEnd", "crashed"})
      BY <2>8, <2>10 DEF RangeInv
    <3>2. runPc \in {"fillStart", "fillEnd"} => queue' # <<>>
      BY <2>9 DEF DetectInv
    <3>3. queue' # <<>> => Last' = Last /\ queue # <<>>
      BY <2>7, <2>8
    <3>4. queue' # <<>> /\ ~Finished(Last') => Last'.end <= event' + Step \/ runPc' = "fillStart"
      BY <2>10, <3>3 DEF RangeInv
    <3>5. /\ (runPc' = "fillStart" => Last'.start = 0 /\ Last'.end = 0)
          /\ (runPc' = "fillEnd" => Last'.start <= event' /\ Last'.end = 0)
      BY <2>10, <3>2, <3>3 DEF RangeInv
    <3> QED BY <3>1, <3>4, <3>5 DEF RangeInv, Finished
  <2>4. WorkInv'
    BY <2>7, <2>10 DEF WorkInv, HasRange, Reading, TypeOK
  <2>5. BufferInv'
    BY <2>10 DEF BufferInv, HasRange, Reading
  <2>6. StopInv'
    BY <2>7, <2>10 DEF StopInv
  <2> QED BY <2>1, <2>2, <2>3, <2>4, <2>5, <2>6
<1>33. CASE UNCHANGED vars
  BY <1>33 DEF vars, TypeOK, DetectInv, RangeInv, WorkInv, BufferInv, StopInv,
       HasRange, Reading, Pushing, Fresh, Discovering, Finished, Last, Oldest,
       Small
<1> QED
  BY <1>1, <1>2, <1>3, <1>4, <1>5, <1>6, <1>7, <1>8, <1>9, <1>10, <1>11, <1>12,
       <1>13, <1>14, <1>15, <1>16, <1>17, <1>18, <1>19, <1>20, <1>21, <1>22,
       <1>23, <1>24, <1>25, <1>26, <1>27, <1>28, <1>29, <1>30, <1>31, <1>32, <1>33 DEF
       Next, Detection, Stopping, Worker

-----------------------------------------------------------------------------
\* Both threads stay in their control points and the sizes of the ranges, the
\* positions and the buffer fit together, for any sizes (vrr_run and
\* pvp_realProcess of voiceRecognizer.c).
THEOREM InvariantHolds == Spec => []Inv
BY InitInv, StepInv, PTL DEF Spec

\* The program's assertions (voiceRecognizer.c:926, 1004, 1192, 1219, 2076,
\* 2093, 2112, 2124) hold whatever the two threads do between them, for any
\* sizes of the buffer, the history and the queue, but for those on the positions
\* of a range whose start was filled between the worker's two reads of it.
THEOREM AssertsHoldHolds == Spec => []AssertsHold
<1>1. Inv => AssertsHold
  <2> SUFFICES ASSUME Inv PROVE AssertsHold
    OBVIOUS
  <2>1. runPc = "detect" => (Discovering <=> quiet < Hangover)
    BY DEF Inv, DetectInv
  <2>2. workPc = "take" => wanted + dataPos <= BufferSize
    BY DEF Inv, WorkInv
  <2>3. workPc # "begin" /\ ~torn =>
          /\ ~firstBuffer /\ dataPos = Overlap => processPos = recognizePos
          /\ processPos <= recognizePos
    <3> SUFFICES ASSUME workPc # "begin", torn = FALSE
                 PROVE  /\ ~firstBuffer /\ dataPos = Overlap => processPos = recognizePos
                        /\ processPos <= recognizePos
      BY DEF Inv, TypeOK
    <3> QED BY SizesAssumption DEF Inv, TypeOK, BufferInv
  <2>4. workPc \in {"recognised", "outdated", "skipped"} => queue # <<>> /\ Finished(Oldest)
    BY DEF Inv, WorkInv, HasRange
  <2> QED BY <2>1, <2>2, <2>3, <2>4 DEF AssertsHold
<1> QED BY <1>1, InvariantHolds, PTL

\* What the worker makes of a range (pvp_realProcess) is true of the range when
\* it leaves the queue, although vrr_run moves the range's end meanwhile.
THEOREM OutcomeIsTrueHolds == Spec => []OutcomeIsTrue
<1>1. Inv => OutcomeIsTrue
  <2> SUFFICES ASSUME Inv PROVE OutcomeIsTrue
    OBVIOUS
  <2>1. workPc = "recognised" =>
            Finished(Oldest) /\ recognizePos = Oldest.end /\ from \in {0, Oldest.start}
    BY DEF Inv, WorkInv
  <2>2. workPc = "outdated" => recognizePos < pos - History
    BY DEF Inv, WorkInv
  <2>3. workPc = "skipped" => Finished(Oldest) /\ Small(Oldest)
    BY DEF Inv, WorkInv
  <2>4. workPc \in Reading => IF firstBuffer THEN analyserFirst \/ leftOver ELSE ~analyserFirst
    BY DEF Inv, TypeOK, BufferInv
  <2> QED BY <2>1, <2>2, <2>3, <2>4 DEF OutcomeIsTrue, Reading
<1> QED BY <1>1, InvariantHolds, PTL

\* When the worker's thread ends (vr_stopRecognize) the ranges still queued were
\* analysed, unless their broadcast came between its look and its wait.
THEOREM QuitLeavesOnlyMissedHolds == Spec => []QuitLeavesOnlyMissed
<1>1. Inv => QuitLeavesOnlyMissed
  BY DEF Inv, StopInv, QuitLeavesOnlyMissed
<1> QED BY <1>1, InvariantHolds, PTL

-----------------------------------------------------------------------------
(* The searcher of blocks: its invariant.                                  *)

\* struct FrequencyInfo and struct BlockSearcher.
FIType == [hits : Nat, first : Nat, last : Nat, short : Nat]

BsType ==
    [blockFIs : [0 .. CacheCount - 1 -> FIType], unsed : Int, ok : Nat, count : Nat,
     finished : BOOLEAN, failed : BOOLEAN]

BlockType == [head : Nat, tail : Nat, isEnd : BOOLEAN]

Start(b, i) == b.blockFIs[i].first

\* The tone being heard came after the header h and is no longer than the time t.
ToneOf(b, t) ==
    b.blockFIs[0].hits > 0 =>
        /\ Start(b, 0) <= b.blockFIs[0].last /\ b.blockFIs[0].last <= t
        /\ b.count >= 1 => Start(b, 1) <= Start(b, 0)

\* The searcher between two headers: place 0 is free for the next tone.
Searching(b, t) ==
    /\ b.ok = 1 /\ ~b.failed
    /\ b.count <= 1 => b.unsed = -1
    /\ b.count >= 1 => Known(b, 1) /\ Start(b, 1) <= t
    /\ b.count >= 2 => Known(b, 2) /\ Gap(b, 1, 2) >= MinGap /\ b.unsed = 1
    /\ ToneOf(b, t)

\* It has just found a header; unsed is the oldest block not handed on.
Found(b, t, unsed) ==
    /\ b.ok = 0 /\ ~b.failed /\ b.count >= 1
    /\ Known(b, 0) /\ Start(b, 0) <= t
    /\ b.count >= 2 => Known(b, 1) /\ Gap(b, 0, 1) >= MinGap
    /\ b.count <= 2 => b.unsed = -1
    /\ b.count >= 3 => b.unsed = unsed

\* The blocks h follow each other, and only the last may be called the last.
Linked(h) ==
    /\ h \in Seq(BlockType)
    /\ \A k \in 1 .. Len(h) - 1 : h[k].tail = h[k + 1].head /\ ~h[k].isEnd
    /\ \A k \in 1 .. Len(h) :
         /\ h[k].tail - h[k].head >= MinGap
         /\ ~h[k].isEnd => h[k].tail - h[k].head >= BlockTime

\* So far none is.
Chain(h) == Linked(h) /\ (h # <<>> => ~h[Len(h)].isEnd)

\* They are those of the first n headers, the last of which is at place i.
HandedTo(b, h, n, i) ==
    /\ Len(h) = IF n >= 2 THEN n - 1 ELSE 0
    /\ h # <<>> => h[Len(h)].tail = Start(b, i)

\* Whatever the searcher remembers began at the time a or later.
Later(b, a) ==
    /\ b.blockFIs[0].hits > 0 => a <= Start(b, 0)
    /\ b.count >= (IF b.ok = 1 THEN 1 ELSE 2) => a <= Start(b, 1)
    /\ b.count >= 2 /\ b.ok = 1 => a <= Start(b, 2)

\* The headers of a signal that ended have all been handed on, as BlocksChain
\* has it.
Closed(b, h) ==
    b.count >= 2 =>
        \/ Len(h) = b.count - 1
        \/ b.count = 2 /\ b.ok = 0 /\ h = <<>>

SearchTypeOK ==
    /\ bs \in BsType /\ time \in Nat /\ unheard \in Nat
    /\ sinceFirst \in -1 .. StartSize + 1 /\ sinceValid \in Int
    /\ moved \in BOOLEAN /\ recoging \in BOOLEAN

GoingOn ==
    ~bs.finished =>
        /\ Chain(handed)
        /\ \/ Searching(bs, time) /\ HandedTo(bs, handed, bs.count - 1, 2)
           \/ Found(bs, time, 0) /\ HandedTo(bs, handed, bs.count - 1, 1)

LaterInv ==
    ~bs.finished =>
        /\ sinceFirst > StartSize => recoging
        /\ ~moved => unheard = 0 /\ (sinceFirst > StartSize \/ Later(bs, time - sinceFirst))

Ended ==
    bs.finished =>
        /\ Linked(handed) /\ Closed(bs, handed)
        /\ ~bs.failed /\ ~moved /\ ~recoging /\ sinceFirst = -1
        /\ bs.count = 0 => bs.ok = 1 /\ bs.unsed = -1

SearchInv == SearchTypeOK /\ GoingOn /\ LaterInv /\ Ended

-----------------------------------------------------------------------------
(* The operations of the searcher.                                         *)

LEMMA SlotIs ==
    ASSUME NEW b \in BsType
    PROVE  /\ 0 \in 0 .. CacheCount - 1 /\ 1 \in 0 .. CacheCount - 1 /\ 2 \in 0 .. CacheCount - 1
           /\ b.blockFIs \in [0 .. CacheCount - 1 -> FIType]
           /\ b.blockFIs[0] \in FIType /\ b.blockFIs[1] \in FIType /\ b.blockFIs[2] \in FIType
<1>1. 0 \in 0 .. CacheCount - 1 /\ 1 \in 0 .. CacheCount - 1 /\ 2 \in 0 .. CacheCount - 1
  BY BlocksAssumption
<1>2. b.blockFIs \in [0 .. CacheCount - 1 -> FIType]
  BY DEF BsType
<1> QED BY <1>1, <1>2

LEMMA FailedNot ==
    ASSUME NEW b \in BsType, ~b.failed, NEW condition \in BOOLEAN, condition
    PROVE  Failed(b, condition) = b
BY DEF Failed, BsType

\* c is b but for its places.
Same(c, b) ==
    /\ c \in BsType
    /\ c.unsed = b.unsed /\ c.ok = b.ok /\ c.count = b.count
    /\ c.finished = b.finished /\ c.failed = b.failed

LEMMA NoFIIs == NoFI \in FIType /\ NoFI.hits = 0
BY DEF NoFI, FIType

LEMMA PlaceIs ==
    ASSUME NEW b \in BsType, NEW i \in 0 .. CacheCount - 1, NEW fi \in FIType
    PROVE  LET c == [b EXCEPT !.blockFIs[i] = fi]
           IN  /\ Same(c, b) /\ c.blockFIs[i] = fi
               /\ \A j \in 0 .. CacheCount - 1 : j # i => c.blockFIs[j] = b.blockFIs[j]
<1> DEFINE fis == [b.blockFIs EXCEPT ![i] = fi]
           c   == [b EXCEPT !.blockFIs = fis]
<1>1. b.blockFIs \in [0 .. CacheCount - 1 -> FIType]
  BY SlotIs
<1>2. fis \in [0 .. CacheCount - 1 -> FIType]
  BY <1>1
<1>3. fis[i] = fi /\ \A j \in 0 .. CacheCount - 1 : j # i => fis[j] = b.blockFIs[j]
  BY <1>1
<1> HIDE DEF fis
<1>4. Same(c, b) /\ c.blockFIs = fis
  BY <1>2 DEF Same, BsType
<1>5. Same(c, b) /\ c.blockFIs[i] = fi
      /\ \A j \in 0 .. CacheCount - 1 : j # i => c.blockFIs[j] = b.blockFIs[j]
  BY <1>3, <1>4
<1> QED BY <1>5 DEF fis

LEMMA RemoveIs ==
    ASSUME NEW b \in BsType, NEW n \in 1 .. 3, NEW c \in RemoveWeakest(b, n)
    PROVE  /\ Same(c, b) /\ c.blockFIs[0] = NoFI
           /\ \E m \in 0 .. n - 1 : \A i \in 1 .. CacheCount - 1 :
                c.blockFIs[i] = b.blockFIs[IF i <= m THEN i - 1 ELSE i]
<1>1. PICK m \in 0 .. n - 1 : c = DropFirst(RemoveBlock(b, m))
  BY DEF RemoveWeakest
<1> DEFINE r == RemoveBlock(b, m)
<1>2. /\ Same(r, b)
      /\ \A i \in 1 .. CacheCount - 1 : r.blockFIs[i] = b.blockFIs[IF i <= m THEN i - 1 ELSE i]
  <2> DEFINE fis == [i \in DOMAIN b.blockFIs |->
                       IF i \in 1 .. m THEN b.blockFIs[i - 1] ELSE b.blockFIs[i]]
  <2>1. DOMAIN b.blockFIs = 0 .. CacheCount - 1
    BY DEF BsType
  <2>2. fis \in [0 .. CacheCount - 1 -> FIType]
    <3>1. ASSUME NEW i \in 0 .. CacheCount - 1 PROVE fis[i] \in FIType
      <4>1. CASE i \in 1 .. m
        <5>1. i - 1 \in 0 .. CacheCount - 1
          BY <4>1, BlocksAssumption
        <5> QED BY <2>1, <4>1, <5>1 DEF BsType
      <4>2. CASE i \notin 1 .. m
        BY <2>1, <4>2 DEF BsType
      <4> QED BY <4>1, <4>2
    <3> QED BY <2>1, <3>1
  <2>3. r = [b EXCEPT !.blockFIs = fis]
    BY DEF RemoveBlock
  <2>4. \A i \in 1 .. CacheCount - 1 : fis[i] = b.blockFIs[IF i <= m THEN i - 1 ELSE i]
    BY <2>1, BlocksAssumption
  <2> HIDE DEF fis, r
  <2>5. Same(r, b) /\ r.blockFIs = fis
    BY <2>2, <2>3 DEF Same, BsType
  <2> QED BY <2>4, <2>5
<1> HIDE DEF r
<1>3. c = [r EXCEPT !.blockFIs[0] = NoFI] /\ r \in BsType
  BY <1>1, <1>2 DEF DropFirst, r, Same
<1>4. 0 \in 0 .. CacheCount - 1 /\ \A i \in 1 .. CacheCount - 1 : i \in 0 .. CacheCount - 1 /\ i # 0
  BY BlocksAssumption
<1>5. /\ Same(c, r) /\ c.blockFIs[0] = NoFI
      /\ \A i \in 1 .. CacheCount - 1 : c.blockFIs[i] = r.blockFIs[i]
  BY <1>3, <1>4, PlaceIs, NoFIIs
<1>6. Same(c, b)
  BY <1>2, <1>5 DEF Same
<1> QED BY <1>2, <1>5, <1>6

LEMMA ShiftIs ==
    ASSUME NEW b \in BsType
    PROVE  LET c == ShiftBlocks(b)
           IN  /\ c \in BsType /\ c.blockFIs[0] = NoFI
               /\ \A i \in 1 .. CacheCount - 1 : c.blockFIs[i] = b.blockFIs[i - 1]
               /\ c.ok = 1 /\ c.count = b.count /\ c.finished = b.finished /\ c.failed = b.failed
               /\ c.unsed = IF b.count = 2 THEN 1 ELSE IF b.count > 2 THEN b.unsed + 1 ELSE b.unsed
<1> DEFINE fis == [i \in DOMAIN b.blockFIs |-> IF i = 0 THEN NoFI ELSE b.blockFIs[i - 1]]
           n   == IF b.count = 2 THEN 1 ELSE IF b.count > 2 THEN b.unsed + 1 ELSE b.unsed
<1>1. DOMAIN b.blockFIs = 0 .. CacheCount - 1
  BY DEF BsType
<1>2. fis \in [0 .. CacheCount - 1 -> FIType]
  <2>1. ASSUME NEW i \in 0 .. CacheCount - 1 PROVE fis[i] \in FIType
    <3>1. CASE i # 0
      <4>1. i - 1 \in 0 .. CacheCount - 1
        BY <3>1, BlocksAssumption
      <4> QED BY <1>1, <3>1, <4>1 DEF BsType
    <3>2. CASE i = 0
      BY <1>1, <3>2, NoFIIs
    <3> QED BY <3>1, <3>2
  <2> QED BY <1>1, <2>1
<1>3. n \in Int
  BY DEF BsType
<1>4. ShiftBlocks(b) = [b EXCEPT !.blockFIs = fis, !.ok = 1, !.unsed = n]
  BY DEF ShiftBlocks
<1>5. fis[0] = NoFI
  BY <1>1, SlotIs
<1>6. \A i \in 1 .. CacheCount - 1 : fis[i] = b.blockFIs[i - 1]
  <2>1. \A i \in 1 .. CacheCount - 1 : i \in 0 .. CacheCount - 1 /\ i # 0
    BY BlocksAssumption
  <2> QED BY <1>1, <2>1
<1> DEFINE c == [b EXCEPT !.blockFIs = fis, !.ok = 1, !.unsed = n]
<1> HIDE DEF fis, n
<1>7. c \in BsType
  BY <1>2, <1>3 DEF BsType
<1>8. c.blockFIs = fis /\ c.ok = 1 /\ c.unsed = n
      /\ c.count = b.count /\ c.finished = b.finished /\ c.failed = b.failed
  BY DEF BsType
<1> HIDE DEF c
<1>9. ShiftBlocks(b) = c
  BY <1>4 DEF c
<1> QED BY <1>5, <1>6, <1>7, <1>8, <1>9 DEF n

LEMMA ResetIs ==
    LET b == Reset(TRUE)
    IN  /\ b \in BsType /\ b.blockFIs[0].hits = 0
        /\ b.unsed = -1 /\ b.ok = 1 /\ b.count = 0 /\ b.finished /\ ~b.failed
<1> DEFINE fis == [i \in 0 .. CacheCount - 1 |-> NoFI]
<1>1. fis \in [0 .. CacheCount - 1 -> FIType] /\ fis[0] = NoFI
  BY NoFIIs, BlocksAssumption
<1> HIDE DEF fis
<1> DEFINE b == [blockFIs |-> fis, unsed |-> -1, ok |-> 1,
                 count |-> 0, finished |-> TRUE, failed |-> FALSE]
<1>2. Reset(TRUE) = b
  BY DEF Reset, fis
<1>3. b \in BsType
  BY <1>1 DEF BsType
<1>4. /\ b.blockFIs = fis /\ b.unsed = -1 /\ b.ok = 1
      /\ b.count = 0 /\ b.finished /\ ~b.failed
  OBVIOUS
<1> HIDE DEF b
<1> QED BY <1>1, <1>2, <1>3, <1>4, NoFIIs

LEMMA FinishIs ==
    ASSUME NEW b \in BsType, NEW end \in BOOLEAN
    PROVE  LET c == [b EXCEPT !.finished = end]
           IN  /\ c \in BsType /\ c.finished = end /\ c.blockFIs = b.blockFIs
               /\ c.unsed = b.unsed /\ c.ok = b.ok /\ c.count = b.count /\ c.failed = b.failed
BY DEF BsType

\* What the searcher is when it hears the next step of its signal, the first one
\* when it had ended: it waits for a tone, as long as before.
LEMMA PreparedIs ==
    ASSUME NEW b \in BsType, NEW h, NEW t \in Nat,
           b.finished => /\ ~b.failed /\ t = 0 /\ h = <<>>
                         /\ b.count = 0 => b.ok = 1 /\ b.unsed = -1,
           ~b.finished => \/ Searching(b, t) /\ HandedTo(b, h, b.count - 1, 2)
                          \/ Found(b, t, 0) /\ HandedTo(b, h, b.count - 1, 1)
    PROVE  LET c == Prepared(b)
           IN  /\ c \in BsType
               /\ Searching(c, t) /\ HandedTo(c, h, c.count - 1, 2)
               /\ \A a \in Int : b.finished \/ Later(b, a) => Later(c, a)
<1> DEFINE c == Prepared(b)
<1>1. CASE b.finished
  <2>1. c \in BsType /\ c.ok = 1 /\ ~c.failed /\ c.count = 0 /\ c.unsed = -1 /\ c.blockFIs[0].hits = 0
    <3>1. b.count \in Nat /\ b.blockFIs[0].hits \in Nat
      BY SlotIs DEF BsType, FIType
    <3>2. CASE b.count > 0 \/ b.blockFIs[0].hits > 0
      BY <1>1, <3>2, ResetIs DEF Prepared
    <3>3. CASE ~(b.count > 0 \/ b.blockFIs[0].hits > 0)
      <4>1. b.count = 0 /\ b.blockFIs[0].hits = 0
        BY <3>1, <3>3
      <4>2. c = b
        BY <1>1, <3>3 DEF Prepared
      <4> QED BY <1>1, <4>1, <4>2
    <3> QED BY <3>2, <3>3
  <2> HIDE DEF c
  <2>2. Searching(c, t) /\ HandedTo(c, h, c.count - 1, 2) /\ \A a \in Int : Later(c, a)
    BY <1>1, <2>1 DEF Searching, ToneOf, HandedTo, Later
  <2> QED BY <2>1, <2>2 DEF c
<1>2. CASE ~b.finished /\ Searching(b, t)
  <2>1. b.unsed < CacheCount /\ (b.unsed < 0 \/ b.unsed = b.ok)
    BY <1>2, BlocksAssumption DEF Searching, BsType
  <2>2. b.ok # 0 /\ ~b.failed /\ HandedTo(b, h, b.count - 1, 2)
    BY <1>2 DEF Searching, Found
  <2>3. c = b
    BY <1>2, <2>1, <2>2, FailedNot DEF Prepared
  <2> QED BY <1>2, <2>2, <2>3
<1>3. CASE ~b.finished /\ Found(b, t, 0)
  <2> DEFINE d == ShiftBlocks(b)
  <2>1. /\ d \in BsType /\ d.blockFIs[0] = NoFI
        /\ d.blockFIs[1] = b.blockFIs[0] /\ d.blockFIs[2] = b.blockFIs[1]
        /\ d.ok = 1 /\ d.count = b.count /\ d.finished = b.finished /\ d.failed = b.failed
        /\ d.unsed = IF b.count = 2 THEN 1 ELSE IF b.count > 2 THEN b.unsed + 1 ELSE b.unsed
    <3>1. 1 \in 1 .. CacheCount - 1 /\ 2 \in 1 .. CacheCount - 1
      BY BlocksAssumption
    <3>2. d.blockFIs[1] = b.blockFIs[1 - 1] /\ d.blockFIs[2] = b.blockFIs[2 - 1]
      BY <3>1, ShiftIs
    <3>3. d.blockFIs[1] = b.blockFIs[0] /\ d.blockFIs[2] = b.blockFIs[1]
      BY <3>2
    <3> QED BY <3>3, ShiftIs
  <2>2. b.ok = 0 /\ ~b.failed /\ b.count >= 1 /\ b.count \in Nat /\ HandedTo(b, h, b.count - 1, 1)
    BY <1>3 DEF Found, Searching, BsType
  <2>3. d.unsed < CacheCount /\ (d.unsed < 0 \/ d.unsed = d.ok) /\ ~d.failed
    BY <1>3, <2>1, <2>2, BlocksAssumption DEF Found
  <2> HIDE DEF d
  <2>4. c = d
    BY <1>3, <2>1, <2>2, <2>3, FailedNot DEF Prepared, d
  <2>5. NoFI.hits = 0 /\ b.blockFIs[0] \in FIType /\ b.blockFIs[1] \in FIType /\ NoFI \in FIType
    BY NoFIIs, SlotIs
  <2>6. Searching(d, t)
    <3>1. Known(b, 0) /\ Start(b, 0) <= t /\ Known(d, 1)
      BY <1>3, <2>1, SlotIs DEF Found, Known
    <3>2. b.count >= 2 => Known(d, 2) /\ Gap(d, 1, 2) >= MinGap
      BY <1>3, <2>1, SlotIs DEF Found, Known, Gap
    <3>3. b.count <= 1 => d.unsed = -1
      BY <1>3, <2>1, <2>2 DEF Found
    <3>4. b.count >= 2 => d.unsed = 1
      BY <1>3, <2>1, <2>2 DEF Found
    <3>5. ToneOf(d, t) /\ Start(d, 1) = Start(b, 0)
      BY <2>1, <2>5 DEF ToneOf, Start
    <3> QED BY <2>1, <2>3, <3>1, <3>2, <3>3, <3>4, <3>5 DEF Searching
  <2>7. HandedTo(d, h, d.count - 1, 2)
    BY <2>1, <2>2 DEF HandedTo, Start
  <2>8. ASSUME NEW a \in Int, Later(b, a) PROVE Later(d, a)
    <3>1. b.blockFIs[0].hits > 0
      BY <1>3 DEF Found, Known
    <3> QED BY <2>1, <2>2, <2>5, <2>8, <3>1 DEF Later, Start
  <2> QED BY <1>3, <2>1, <2>4, <2>6, <2>7, <2>8
<1> QED BY <1>1, <1>2, <1>3

-----------------------------------------------------------------------------
(* A tone that ends, and a step that is heard.                             *)

\* What hearing the step t + 1 can make of b: the same headers, or the weakest
\* of them gone, or one more; that one began before the step, and a block that
\* is no longer than a full one is not handed on for it.
Outcome(b, c, t) ==
    /\ c \in BsType /\ c.finished = b.finished
    /\ \/ /\ Searching(c, t + 1) /\ c.count = b.count
          /\ b.count >= 3 => Start(c, 2) = Start(b, 2)
       \/ /\ Found(c, t, 1) /\ c.count = b.count + 1
          /\ b.count >= 2 => /\ c.blockFIs[1] = b.blockFIs[1] /\ c.blockFIs[2] = b.blockFIs[2]
                             /\ Gap(b, 1, 2) >= BlockTime
    /\ \A a \in Int : a <= t + 1 /\ Later(b, a) => Later(c, a)

\* The numbers the predicates speak of.
LEMMA NumbersAre ==
    ASSUME NEW b \in BsType
    PROVE  /\ b.count \in Nat /\ b.unsed \in Int /\ b.ok \in Nat
           /\ b.failed \in BOOLEAN /\ b.finished \in BOOLEAN
           /\ b.blockFIs[0].hits \in Nat /\ b.blockFIs[1].hits \in Nat /\ b.blockFIs[2].hits \in Nat
           /\ b.blockFIs[0].last \in Nat
           /\ Start(b, 0) \in Nat /\ Start(b, 1) \in Nat /\ Start(b, 2) \in Nat
           /\ Known(b, 0) <=> b.blockFIs[0].hits > 0
           /\ Known(b, 1) <=> b.blockFIs[1].hits > 0
           /\ Known(b, 2) <=> b.blockFIs[2].hits > 0
           /\ Gap(b, 0, 1) = Start(b, 0) - Start(b, 1)
           /\ Gap(b, 1, 2) = Start(b, 1) - Start(b, 2)
           /\ Gap(b, 0, 2) = Start(b, 0) - Start(b, 2)
<1>1. b.count \in Nat /\ b.unsed \in Int /\ b.ok \in Nat /\ b.failed \in BOOLEAN /\ b.finished \in BOOLEAN
  BY DEF BsType
<1>2. \A i \in {0, 1, 2} : /\ b.blockFIs[i].hits \in Nat /\ b.blockFIs[i].first \in Nat
                           /\ b.blockFIs[i].last \in Nat
  BY SlotIs DEF FIType
<1>3. /\ Known(b, 0) <=> b.blockFIs[0].hits > 0
      /\ Known(b, 1) <=> b.blockFIs[1].hits > 0
      /\ Known(b, 2) <=> b.blockFIs[2].hits > 0
  BY SlotIs DEF Known
<1> QED BY <1>1, <1>2, <1>3 DEF Start, Gap

\* With the place of the tone free again, and the headers as they were.
LEMMA FreedIs ==
    ASSUME NEW b \in BsType, NEW c, NEW t \in Int, Searching(b, t),
           Same(c, b), c.blockFIs[0] = NoFI,
           c.blockFIs[1] = b.blockFIs[1], c.blockFIs[2] = b.blockFIs[2]
    PROVE  Outcome(b, c, t)
<1>1. c \in BsType /\ c.ok = 1 /\ ~c.failed /\ c.count = b.count /\ c.unsed = b.unsed
      /\ c.finished = b.finished /\ c.blockFIs[0].hits = 0
  BY NoFIIs DEF Same, Searching
<1>2. /\ c.blockFIs[1].hits = b.blockFIs[1].hits /\ c.blockFIs[2].hits = b.blockFIs[2].hits
      /\ Start(c, 1) = Start(b, 1) /\ Start(c, 2) = Start(b, 2)
  BY DEF Start
<1>3. Searching(c, t + 1)
  BY <1>1, <1>2, NumbersAre DEF Searching, ToneOf
<1>4. \A a \in Int : Later(b, a) => Later(c, a)
  BY <1>1, <1>2, NumbersAre DEF Searching, Later
<1> QED BY <1>1, <1>2, <1>3, <1>4 DEF Outcome

LEMMA PlaceHeaderIs ==
    ASSUME NEW b \in BsType, NEW c \in PlaceHeader(b), NEW t \in Int,
           Searching(b, t), b.blockFIs[0].hits > 0
    PROVE  Outcome(b, c, t)
<1> DEFINE cond == /\ b.ok = 1
                   /\ b.count > 0 => Known(b, 1)
                   /\ b.count >= 2 /\ ~TooClose(b) => Known(b, 2) /\ b.unsed >= 1
<1>1. cond
  BY NumbersAre DEF Searching
<1>2. ~b.failed /\ Failed(b, cond) = b
  BY <1>1, FailedNot DEF Searching
<1> HIDE DEF cond
<1>3. c \in CASE TooClose(b) -> RemoveWeakest(b, 2)
              [] ~TooClose(b) /\ NotFull(b) -> RemoveWeakest(b, IF b.count = 2 THEN 3 ELSE 2)
              [] OTHER -> {[b EXCEPT !.ok = 0, !.count = @ + 1]}
  BY <1>2 DEF PlaceHeader, cond
<1>4. ASSUME NEW n \in {2, 3}, c \in RemoveWeakest(b, n), b.count >= 1,
             n = 3 => b.count = 2 /\ Gap(b, 0, 1) >= MinGap
      PROVE  Outcome(b, c, t)
  <2>1. PICK m \in 0 .. n - 1 : \A i \in 1 .. CacheCount - 1 :
            c.blockFIs[i] = b.blockFIs[IF i <= m THEN i - 1 ELSE i]
    BY <1>4, RemoveIs
  <2>2. Same(c, b) /\ c.blockFIs[0] = NoFI
    BY <1>4, RemoveIs
  <2>3. /\ c.blockFIs[1] = b.blockFIs[IF 1 <= m THEN 0 ELSE 1]
        /\ c.blockFIs[2] = b.blockFIs[IF 2 <= m THEN 1 ELSE 2]
    <3>1. 1 \in 1 .. CacheCount - 1 /\ 2 \in 1 .. CacheCount - 1
      BY BlocksAssumption
    <3>2. /\ c.blockFIs[1] = b.blockFIs[IF 1 <= m THEN 1 - 1 ELSE 1]
          /\ c.blockFIs[2] = b.blockFIs[IF 2 <= m THEN 2 - 1 ELSE 2]
      BY <2>1, <3>1
    <3> QED BY <3>2
  <2>4. CASE m = 0
    BY <2>2, <2>3, <2>4, FreedIs
  <2>5. CASE m # 0
    <3>1. c.blockFIs[1] = b.blockFIs[0]
      BY <2>3, <2>5
    <3>2. \/ c.blockFIs[2] = b.blockFIs[2]
          \/ n = 3 /\ c.blockFIs[2] = b.blockFIs[1]
      BY <2>3, <2>5
    <3>3. c \in BsType /\ c.ok = 1 /\ ~c.failed /\ c.count = b.count /\ c.unsed = b.unsed
          /\ c.finished = b.finished /\ c.blockFIs[0].hits = 0
      BY <2>2, NoFIIs DEF Same, Searching
    <3>4. /\ c.blockFIs[1].hits = b.blockFIs[0].hits /\ Start(c, 1) = Start(b, 0)
          /\ \/ c.blockFIs[2].hits = b.blockFIs[2].hits /\ Start(c, 2) = Start(b, 2)
             \/ /\ n = 3 /\ c.blockFIs[2].hits = b.blockFIs[1].hits /\ Start(c, 2) = Start(b, 1)
      BY <3>1, <3>2 DEF Start
    <3>5. /\ Start(b, 0) <= t /\ Start(b, 1) <= Start(b, 0)
          /\ b.count >= 2 => Start(b, 1) - Start(b, 2) >= MinGap /\ Start(b, 2) <= Start(b, 1)
      BY <1>4, NumbersAre, BlocksAssumption DEF Searching, ToneOf
    <3>6. Searching(c, t + 1)
      <4>1. Known(c, 1) /\ Start(c, 1) <= t + 1
        <5>1. Known(c, 1)
          BY <3>3, <3>4, NumbersAre
        <5>2. Start(c, 1) \in Nat
          BY <3>3, NumbersAre
        <5> QED BY <3>4, <3>5, <5>1, <5>2
      <4>2. b.count >= 2 => Known(c, 2) /\ Gap(c, 1, 2) >= MinGap
        BY <1>4, <3>3, <3>4, <3>5, NumbersAre, BlocksAssumption DEF Searching
      <4> QED BY <3>3, <4>1, <4>2, NumbersAre DEF Searching, ToneOf
    <3>7. \A a \in Int : Later(b, a) => Later(c, a)
      BY <1>4, <3>3, <3>4, <3>5, NumbersAre DEF Searching, Later
    <3>8. b.count >= 3 => Start(c, 2) = Start(b, 2)
      BY <1>4, <3>4, NumbersAre
    <3> QED BY <3>3, <3>6, <3>7, <3>8 DEF Outcome
  <2> QED BY <2>4, <2>5
<1>5. CASE TooClose(b)
  BY <1>3, <1>4, <1>5, NumbersAre DEF TooClose
<1>6. CASE ~TooClose(b) /\ NotFull(b)
  <2>1. b.count >= 2 /\ Gap(b, 0, 1) >= MinGap
    BY <1>6, NumbersAre, BlocksAssumption DEF TooClose, NotFull
  <2>2. c \in RemoveWeakest(b, IF b.count = 2 THEN 3 ELSE 2)
    BY <1>3, <1>6
  <2>3. CASE b.count = 2
    BY <1>4, <2>1, <2>2, <2>3
  <2>4. CASE b.count # 2
    <3>1. c \in RemoveWeakest(b, 2)
      BY <2>2, <2>4
    <3>2. b.count >= 1
      BY <2>1, NumbersAre
    <3> QED BY <1>4, <3>1, <3>2
  <2> QED BY <2>3, <2>4
<1>7. CASE ~TooClose(b) /\ ~NotFull(b)
  <2>1. c = [b EXCEPT !.ok = 0, !.count = @ + 1]
    BY <1>3, <1>7
  <2>2. c \in BsType
    <3>1. b.count + 1 \in Nat /\ 0 \in Nat
      BY NumbersAre
    <3> DEFINE n == b.count + 1
    <3>2. c = [b EXCEPT !.ok = 0, !.count = n]
      BY <2>1
    <3> HIDE DEF n
    <3> QED BY <3>1, <3>2 DEF BsType, n
  <2>3. /\ c.ok = 0 /\ c.count = b.count + 1 /\ c.finished = b.finished
        /\ c.failed = b.failed /\ c.unsed = b.unsed /\ c.blockFIs = b.blockFIs
    BY <2>1 DEF BsType
  <2>4. \A i, j \in {0, 1, 2} : Start(c, i) = Start(b, i) /\ (Known(c, i) <=> Known(b, i))
                                /\ Gap(c, i, j) = Gap(b, i, j)
    BY <2>3 DEF Start, Known, Gap
  <2>5. b.count >= 1 => Gap(b, 0, 1) >= MinGap /\ Start(b, 0) >= Start(b, 1)
    BY <1>7, NumbersAre, BlocksAssumption DEF TooClose
  <2>6. b.count >= 2 => Gap(b, 1, 2) >= BlockTime
    BY <1>7, NumbersAre, BlocksAssumption DEF NotFull
  <2>7. Found(c, t, 1)
    <3>1. Known(c, 0) /\ Start(c, 0) <= t
      <4>1. Known(b, 0) /\ Start(b, 0) <= t
        BY NumbersAre DEF Searching, ToneOf
      <4> QED BY <2>4, <4>1
    <3>2. c.count >= 2 => Known(c, 1) /\ Gap(c, 0, 1) >= MinGap
      BY <2>3, <2>4, <2>5, NumbersAre DEF Searching
    <3>3. (c.count <= 2 => c.unsed = -1) /\ (c.count >= 3 => c.unsed = 1) /\ c.count >= 1 /\ ~c.failed
      BY <2>3, NumbersAre DEF Searching
    <3> QED BY <2>3, <3>1, <3>2, <3>3 DEF Found
  <2>8. \A a \in Int : Later(b, a) => Later(c, a)
    BY <2>3, <2>4, NumbersAre DEF Searching, Later
  <2> QED BY <2>2, <2>3, <2>6, <2>7, <2>8 DEF Outcome
<1> QED BY <1>5, <1>6, <1>7

LEMMA EndToneIs ==
    ASSUME NEW b \in BsType, NEW c \in EndTone(b), NEW t \in Int, Searching(b, t)
    PROVE  Outcome(b, c, t)
<1>1. CASE b.blockFIs[0].hits < LongCount
  <2>1. c = [b EXCEPT !.blockFIs[0] = NoFI]
    BY <1>1 DEF EndTone, DropFirst
  <2>2. 0 \in 0 .. CacheCount - 1 /\ 1 \in 0 .. CacheCount - 1 /\ 2 \in 0 .. CacheCount - 1
    BY SlotIs
  <2>3. Same(c, b) /\ c.blockFIs[0] = NoFI
        /\ c.blockFIs[1] = b.blockFIs[1] /\ c.blockFIs[2] = b.blockFIs[2]
    BY <2>1, <2>2, PlaceIs, NoFIIs
  <2> QED BY <2>3, FreedIs
<1>2. CASE ~(b.blockFIs[0].hits < LongCount)
  <2>1. PICK x \in Core(b.blockFIs[0]) : c \in PlaceHeader([b EXCEPT !.blockFIs[0] = Header(x)])
    BY <1>2 DEF EndTone
  <2>2. b.blockFIs[0].hits > 0
    BY <1>2, NumbersAre, BlocksAssumption
  <2>3. Start(b, 0) <= b.blockFIs[0].last /\ b.blockFIs[0].last <= t
        /\ (b.count >= 1 => Start(b, 1) <= Start(b, 0))
    BY <2>2 DEF Searching, ToneOf
  <2>4. x \in Nat /\ Start(b, 0) <= x /\ x <= t
    <3>1. Start(b, 0) = b.blockFIs[0].first /\ Start(b, 0) \in Nat /\ b.blockFIs[0].last \in Nat
      BY NumbersAre DEF Start
    <3> QED BY <2>1, <2>3, <3>1, BlocksAssumption DEF Core
  <2> DEFINE d == [b EXCEPT !.blockFIs[0] = Header(x)]
  <2>5. Header(x) \in FIType /\ Header(x).first = x /\ Header(x).last = x /\ Header(x).hits > 0
    BY <2>4, BlocksAssumption DEF Header, FIType
  <2>6. 0 \in 0 .. CacheCount - 1 /\ 1 \in 0 .. CacheCount - 1 /\ 2 \in 0 .. CacheCount - 1
    BY SlotIs
  <2>7. Same(d, b) /\ d.blockFIs[0] = Header(x)
        /\ d.blockFIs[1] = b.blockFIs[1] /\ d.blockFIs[2] = b.blockFIs[2]
    BY <2>5, <2>6, PlaceIs
  <2>8. c \in PlaceHeader(d)
    BY <2>1
  <2> HIDE DEF d
  <2>9. d \in BsType /\ d.unsed = b.unsed /\ d.ok = b.ok /\ d.count = b.count
        /\ d.finished = b.finished /\ d.failed = b.failed
    BY <2>7 DEF Same
  <2>10. /\ Start(d, 0) = x /\ d.blockFIs[0].last = x /\ d.blockFIs[0].hits > 0
         /\ Start(d, 1) = Start(b, 1) /\ Start(d, 2) = Start(b, 2) /\ Gap(d, 1, 2) = Gap(b, 1, 2)
         /\ (Known(d, 1) <=> Known(b, 1)) /\ (Known(d, 2) <=> Known(b, 2))
    BY <2>5, <2>7 DEF Start, Gap, Known
  <2>11. Searching(d, t)
    <3>1. ToneOf(d, t)
      BY <2>3, <2>4, <2>9, <2>10, NumbersAre DEF ToneOf
    <3> QED BY <2>9, <2>10, <3>1 DEF Searching
  <2>12. Outcome(d, c, t)
    BY <2>8, <2>9, <2>10, <2>11, PlaceHeaderIs
  <2>13. \A a \in Int : Later(b, a) => Later(d, a)
    BY <2>2, <2>4, <2>9, <2>10, NumbersAre DEF Later
  <2> QED BY <2>7, <2>9, <2>10, <2>12, <2>13 DEF Outcome
<1> QED BY <1>1, <1>2

\* The time a step adds to a tone is time'.
LEMMA CheckFreq2Is ==
    ASSUME NEW fi \in FIType, NEW evt, NEW r \in CheckFreq2(fi, evt), NEW t \in Nat, time' = t + 1
    PROVE  /\ r.fi \in FIType
           /\ ~r.more => r.fi.hits = fi.hits /\ r.fi.first = fi.first /\ r.fi.last = fi.last
           /\ r.more => \/ r.fi.hits = fi.hits /\ r.fi.first = fi.first /\ r.fi.last = fi.last
                        \/ /\ r.fi.last = t + 1
                           /\ r.fi.first = IF fi.hits = 0 THEN t + 1 ELSE fi.first
<1>1. /\ fi.hits \in Nat /\ fi.first \in Nat /\ fi.last \in Nat /\ fi.short \in Nat
  BY DEF FIType
<1>2. CASE evt \in {"strong", "weak"}
  <2>1. CASE r = [fi |-> AddTime(fi), more |-> TRUE]
    <3>1. AddTime(fi) \in FIType
      BY <1>1 DEF AddTime, FIType
    <3>2. AddTime(fi).last = t + 1 /\ AddTime(fi).first = IF fi.hits = 0 THEN t + 1 ELSE fi.first
      BY <1>1 DEF AddTime
    <3> QED BY <2>1, <3>1, <3>2
  <2>2. CASE r = [fi |-> fi, more |-> FALSE]
    BY <2>2
  <2> QED BY <1>2, <2>1, <2>2 DEF CheckFreq2
<1>3. CASE evt \notin {"strong", "weak"}
  <2>1. r = [fi |-> [fi EXCEPT !.short = @ + 1], more |-> fi.short + 1 < ShortCount]
    BY <1>3 DEF CheckFreq2
  <2>2. [fi EXCEPT !.short = @ + 1] \in FIType
    BY <1>1 DEF FIType
  <2>3. r.fi.hits = fi.hits /\ r.fi.first = fi.first /\ r.fi.last = fi.last
    BY <2>1 DEF FIType
  <2> QED BY <2>1, <2>2, <2>3
<1> QED BY <1>2, <1>3

LEMMA ListenIs ==
    ASSUME NEW b \in BsType, NEW evt, NEW c \in Listen(b, evt), NEW t \in Nat, time' = t + 1,
           Searching(b, t)
    PROVE  /\ Outcome(b, c, t)
           /\ evt # "strong" /\ b.blockFIs[0].hits = 0 => c = b
<1> DEFINE fi == b.blockFIs[0]
<1>1. fi \in FIType /\ fi.hits \in Nat /\ fi.first \in Nat /\ fi.last \in Nat
  BY SlotIs DEF FIType
<1>2. t \in Int /\ Outcome(b, b, t)
  <2>1. Searching(b, t + 1)
    BY NumbersAre DEF Searching, ToneOf
  <2> QED BY <2>1 DEF Outcome
<1>3. CASE evt = "null"
  <2>1. CASE fi.hits > 0
    BY <1>1, <1>2, <1>3, <2>1, EndToneIs DEF Listen
  <2>2. CASE ~(fi.hits > 0)
    BY <1>2, <1>3, <2>2 DEF Listen
  <2> QED BY <2>1, <2>2
<1>4. CASE evt # "null" /\ ~(evt = "strong" \/ fi.hits > 0)
  BY <1>2, <1>4 DEF Listen
<1>5. CASE evt # "null" /\ (evt = "strong" \/ fi.hits > 0)
  <2>1. PICK r \in CheckFreq2(fi, evt) :
          c \in LET d == [b EXCEPT !.blockFIs[0] = r.fi] IN IF r.more THEN {d} ELSE EndTone(d)
    BY <1>5 DEF Listen
  <2> DEFINE d == [b EXCEPT !.blockFIs[0] = r.fi]
  <2>2. IF r.more THEN c = d ELSE c \in EndTone(d)
    BY <2>1
  <2>3. /\ r.fi \in FIType
        /\ ~r.more => r.fi.hits = fi.hits /\ r.fi.first = fi.first /\ r.fi.last = fi.last
        /\ r.more => \/ r.fi.hits = fi.hits /\ r.fi.first = fi.first /\ r.fi.last = fi.last
                     \/ /\ r.fi.last = t + 1
                        /\ r.fi.first = IF fi.hits = 0 THEN t + 1 ELSE fi.first
    BY <1>1, <2>1, CheckFreq2Is
  <2>4. 0 \in 0 .. CacheCount - 1 /\ 1 \in 0 .. CacheCount - 1 /\ 2 \in 0 .. CacheCount - 1
    BY SlotIs
  <2>5. Same(d, b) /\ d.blockFIs[0] = r.fi
        /\ d.blockFIs[1] = b.blockFIs[1] /\ d.blockFIs[2] = b.blockFIs[2]
    BY <2>3, <2>4, PlaceIs
  <2> HIDE DEF d
  <2>6. d \in BsType /\ d.unsed = b.unsed /\ d.ok = b.ok /\ d.count = b.count
        /\ d.finished = b.finished /\ d.failed = b.failed
    BY <2>5 DEF Same
  <2>7. /\ Start(d, 1) = Start(b, 1) /\ Start(d, 2) = Start(b, 2) /\ Gap(d, 1, 2) = Gap(b, 1, 2)
        /\ (Known(d, 1) <=> Known(b, 1)) /\ (Known(d, 2) <=> Known(b, 2))
    BY <2>5 DEF Start, Gap, Known
  <2>8. /\ Start(b, 0) = fi.first /\ Start(d, 0) = r.fi.first
        /\ d.blockFIs[0].last = r.fi.last /\ d.blockFIs[0].hits = r.fi.hits
    BY <2>5 DEF Start
  <2>9. r.fi.hits \in Nat /\ r.fi.first \in Nat /\ r.fi.last \in Nat
    BY <2>3 DEF FIType
  <2>10. b.count >= 1 => Start(b, 1) <= t /\ Start(b, 1) \in Nat
    BY NumbersAre DEF Searching
  <2>11. fi.hits > 0 => fi.first <= fi.last /\ fi.last <= t /\ (b.count >= 1 => Start(b, 1) <= fi.first)
    BY <2>8 DEF Searching, ToneOf
  <2>12. CASE r.more
    <3>1. c = d
      BY <2>2, <2>12
    <3>2. r.fi.hits > 0 =>
            /\ r.fi.first <= r.fi.last /\ r.fi.last <= t + 1
            /\ b.count >= 1 => Start(b, 1) <= r.fi.first
      BY <1>1, <2>3, <2>9, <2>10, <2>11, <2>12, NumbersAre
    <3>3. ToneOf(d, t + 1)
      BY <2>6, <2>7, <2>8, <3>2 DEF ToneOf
    <3>4. Searching(d, t + 1)
      <4>1. b.count >= 1 => Start(d, 1) <= t + 1
        BY <2>7, <2>10
      <4> QED BY <2>6, <2>7, <3>3, <4>1 DEF Searching
    <3>5. ASSUME NEW a \in Int, a <= t + 1, Later(b, a) PROVE Later(d, a)
      <4>1. fi.hits > 0 => a <= fi.first
        BY <2>8, <3>5 DEF Later
      <4>2. r.fi.hits > 0 => a <= r.fi.first
        BY <1>1, <2>3, <2>9, <2>12, <3>5, <4>1
      <4> QED BY <2>6, <2>7, <2>8, <3>5, <4>2 DEF Later
    <3>6. Outcome(b, c, t)
      BY <2>6, <2>7, <3>1, <3>4, <3>5 DEF Outcome
    <3> QED BY <1>5, <3>6, <1>1
  <2>13. CASE ~r.more
    <3>1. c \in EndTone(d)
      BY <2>2, <2>13
    <3>2. d.blockFIs[0].hits = fi.hits /\ Start(d, 0) = Start(b, 0) /\ d.blockFIs[0].last = fi.last
      BY <2>3, <2>8, <2>13
    <3>3. Searching(d, t)
      BY <2>6, <2>7, <3>2 DEF Searching, ToneOf
    <3>4. Outcome(d, c, t)
      BY <1>2, <2>6, <3>1, <3>3, EndToneIs
    <3>5. \A a \in Int : Later(b, a) => Later(d, a)
      BY <2>6, <2>7, <3>2 DEF Later
    <3>6. Outcome(b, c, t)
      BY <2>5, <2>6, <2>7, <3>4, <3>5 DEF Outcome
    <3> QED BY <1>5, <3>6, <1>1
  <2> QED BY <2>12, <2>13
<1> QED BY <1>3, <1>4, <1>5

-----------------------------------------------------------------------------
(* The blocks taken after a step.                                          *)

\* What the signal's end makes of the headers: the last may go.
LEMMA BelievedIs ==
    ASSUME NEW b \in BsType, NEW t \in Int, NEW u, NEW c \in Believed(b, "null"),
           Searching(b, t) \/ Found(b, t, u)
    PROVE  \/ c = b
           \/ /\ b.count >= 2
              /\ c \in BsType /\ c.finished = b.finished /\ c.failed = b.failed /\ c.unsed = b.unsed
              /\ c.count = b.count - 1 /\ c.ok = b.ok + 1
              /\ b.ok = 0 => c.blockFIs[1] = b.blockFIs[1] /\ c.blockFIs[2] = b.blockFIs[2]
<1>1. CASE b.count < 2
  BY <1>1, NumbersAre DEF Believed
<1>2. CASE b.count >= 2
  <2> DEFINE cond == Known(b, b.ok) /\ Known(b, b.ok + 1)
  <2>1. cond /\ ~b.failed /\ b.ok \in {0, 1}
    <3>1. CASE Searching(b, t)
      BY <1>2, <3>1, NumbersAre DEF Searching
    <3>2. CASE Found(b, t, u)
      BY <1>2, <3>2, NumbersAre DEF Found
    <3> QED BY <3>1, <3>2
  <2>2. Failed(b, cond) = b
    BY <2>1, FailedNot
  <2> HIDE DEF cond
  <2>3. c = b \/ c = DropLast(b)
    BY <1>2, <2>2 DEF Believed, cond
  <2>4. ASSUME c = DropLast(b)
        PROVE  /\ c \in BsType /\ c.finished = b.finished /\ c.failed = b.failed /\ c.unsed = b.unsed
               /\ c.count = b.count - 1 /\ c.ok = b.ok + 1
               /\ b.ok = 0 => c.blockFIs[1] = b.blockFIs[1] /\ c.blockFIs[2] = b.blockFIs[2]
    <3> DEFINE fis == [b.blockFIs EXCEPT ![b.ok] = NoFI]
               n   == b.count - 1
               k   == b.ok + 1
    <3>1. c = [b EXCEPT !.blockFIs = fis, !.ok = k, !.count = n]
      BY <2>4 DEF DropLast
    <3>2. fis \in [0 .. CacheCount - 1 -> FIType] /\ n \in Nat /\ k \in Nat
      <4>1. n \in Nat /\ k \in Nat
        BY <1>2, NumbersAre
      <4>2. fis \in [0 .. CacheCount - 1 -> FIType]
        BY SlotIs, NoFIIs
      <4> QED BY <4>1, <4>2
    <3>3. b.ok = 0 => fis[1] = b.blockFIs[1] /\ fis[2] = b.blockFIs[2]
      BY SlotIs
    <3> HIDE DEF fis, n, k
    <3>4. c \in BsType
      BY <3>1, <3>2 DEF BsType
    <3>5. /\ c.blockFIs = fis /\ c.ok = k /\ c.count = n
          /\ c.finished = b.finished /\ c.failed = b.failed /\ c.unsed = b.unsed
      BY <3>1 DEF BsType
    <3> QED BY <3>3, <3>4, <3>5 DEF n, k
  <2> QED BY <1>2, <2>3, <2>4
<1> QED BY <1>1, <1>2, NumbersAre

LEMMA SeqOfBlocks ==
    ASSUME NEW n \in Nat, NEW f \in [1 .. n -> BlockType]
    PROVE  f \in Seq(BlockType) /\ Len(f) = n
<1>1. f \in Seq(BlockType)
  BY SeqDef
<1>2. DOMAIN f = 1 .. n /\ DOMAIN f = 1 .. Len(f) /\ Len(f) \in Nat
  BY <1>1, LenProperties
<1> QED BY <1>1, <1>2

LEMMA BlockIs ==
    ASSUME NEW b \in BsType, NEW u \in {0, 1}
    PROVE  /\ Block(b, u) \in BlockType
           /\ Block(b, u).head = Start(b, u + 1) /\ Block(b, u).tail = Start(b, u)
           /\ Block(b, u).isEnd <=> u - 1 < b.ok
<1>1. /\ Block(b, u).head = b.blockFIs[u + 1].first /\ Block(b, u).tail = b.blockFIs[u].first
      /\ Block(b, u).isEnd = (u - 1 < b.ok) /\ (u - 1 < b.ok) \in BOOLEAN
  BY DEF Block
<1>2. b.blockFIs[u + 1].first \in Nat /\ b.blockFIs[u].first \in Nat
  <2>1. CASE u = 0
    BY <2>1, NumbersAre DEF Start
  <2>2. CASE u = 1
    BY <2>2, NumbersAre DEF Start
  <2> QED BY <2>1, <2>2
<1>3. Block(b, u) \in BlockType
  BY <1>2 DEF Block, BlockType
<1> QED BY <1>1, <1>3 DEF Start

\* One more block after those handed on so far.
LEMMA LinkIs ==
    ASSUME NEW h, Chain(h), NEW block \in BlockType,
           h # <<>> => h[Len(h)].tail = block.head,
           block.tail - block.head >= MinGap,
           ~block.isEnd => block.tail - block.head >= BlockTime
    PROVE  LET g == h \o <<block>>
           IN  /\ Linked(g) /\ g \in Seq(BlockType) /\ Len(g) = Len(h) + 1 /\ g[Len(g)] = block
               /\ ~block.isEnd => Chain(g)
<1> DEFINE g == h \o <<block>>
           l == Len(h)
<1>1. h \in Seq(BlockType) /\ l \in Nat /\ <<block>> \in Seq(BlockType) /\ Len(<<block>>) = 1
  BY DEF Chain, Linked
<1>2. /\ g \in Seq(BlockType) /\ Len(g) = l + 1 /\ g[l + 1] = block
      /\ \A k \in 1 .. l : g[k] = h[k] /\ g[k] \in BlockType
  BY <1>1
<1>3. l > 0 => h # <<>>
  BY <1>1
<1> HIDE DEF g, l
<1>4. ASSUME NEW k \in 1 .. l PROVE g[k].tail = g[k + 1].head /\ ~g[k].isEnd
  <2>1. CASE k = l
    BY <1>1, <1>2, <1>3, <2>1 DEF Chain, l
  <2>2. CASE k # l
    <3>1. k \in 1 .. l - 1 /\ k \in 1 .. l /\ k + 1 \in 1 .. l
      BY <1>1, <2>2
    <3>2. h[k].tail = h[k + 1].head /\ ~h[k].isEnd
      BY <3>1 DEF Chain, Linked, l
    <3> QED BY <1>2, <3>1, <3>2
  <2> QED BY <2>1, <2>2
<1>5. ASSUME NEW k \in 1 .. l + 1
      PROVE  /\ g[k].tail - g[k].head >= MinGap
             /\ ~g[k].isEnd => g[k].tail - g[k].head >= BlockTime
  <2>1. CASE k = l + 1
    BY <1>2, <2>1
  <2>2. CASE k # l + 1
    <3>1. k \in 1 .. l
      BY <1>1, <2>2
    <3> QED BY <1>2, <3>1 DEF Chain, Linked, l
  <2> QED BY <2>1, <2>2
<1>6. Linked(g)
  <2>1. Len(g) - 1 = l
    BY <1>1, <1>2
  <2> QED BY <1>2, <1>4, <1>5, <2>1 DEF Linked
<1>7. ~block.isEnd => Chain(g)
  BY <1>2, <1>6 DEF Chain
<1> QED BY <1>2, <1>6, <1>7 DEF g, l

\* bs_hasBlock has nothing.
LEMMA DrainNone ==
    ASSUME NEW b \in BsType, b.unsed < MinUnsed(b)
    PROVE  Ready(b) = <<>> /\ Drain(b) = b
<1>1. b.unsed \in Int /\ MinUnsed(b) \in Int
  BY NumbersAre DEF MinUnsed
<1>2. 1 .. b.unsed - MinUnsed(b) + 1 = 1 .. 0
  BY <1>1
<1> DEFINE f == [k \in 1 .. 0 |-> Block(b, b.unsed - k + 1)]
<1>3. f \in [1 .. 0 -> BlockType]
  OBVIOUS
<1> HIDE DEF f
<1>4. f \in Seq(BlockType) /\ Len(f) = 0
  BY <1>3, SeqOfBlocks
<1>5. f = <<>>
  BY <1>4, EmptySeq
<1>6. Ready(b) = f
  BY <1>2 DEF Ready, f
<1> QED BY <1>5, <1>6 DEF Drain

\* It has one block, or two.
LEMMA DrainSome ==
    ASSUME NEW b \in BsType, ~b.failed, NEW m \in {0, 1}, m = MinUnsed(b), b.unsed = 1,
           \A i \in m .. 2 : Known(b, i)
    PROVE  /\ Drain(b) = [b EXCEPT !.unsed = m - 1] /\ Ready(b) # <<>>
           /\ m = 1 => Ready(b) = <<Block(b, 1)>>
           /\ m = 0 => Ready(b) = <<Block(b, 1)>> \o <<Block(b, 0)>>
<1> DEFINE n == 2 - m
           f == [k \in 1 .. n |-> Block(b, 1 - k + 1)]
<1>1. \A u \in {0, 1} : Block(b, u) \in BlockType
  BY BlockIs
<1>2. f \in [1 .. n -> BlockType]
  <2>1. \A k \in 1 .. n : 1 - k + 1 \in {0, 1}
    OBVIOUS
  <2> QED BY <1>1, <2>1
<1>3. f[1] = Block(b, 1) /\ (m = 0 => f[2] = Block(b, 0))
  <2>1. 1 \in 1 .. n /\ (m = 0 => 2 \in 1 .. n) /\ 1 - 1 + 1 = 1 /\ 1 - 2 + 1 = 0
    OBVIOUS
  <2> QED BY <2>1
<1>4. Ready(b) = f
  <2>1. b.unsed - MinUnsed(b) + 1 = n
    OBVIOUS
  <2> QED BY <2>1 DEF Ready
<1> HIDE DEF f
<1>5. f \in Seq(BlockType) /\ Len(f) = n
  BY <1>2, SeqOfBlocks
<1>6. f # <<>>
  BY <1>5, EmptySeq
<1>7. m = 1 => f = <<Block(b, 1)>>
  <2> SUFFICES ASSUME m = 1 PROVE f = <<Block(b, 1)>>
    OBVIOUS
  <2> DEFINE g == <<Block(b, 1)>>
  <2>1. g \in Seq(BlockType) /\ Len(g) = 1 /\ g[1] = Block(b, 1)
    BY <1>1
  <2> HIDE DEF g
  <2>2. \A i \in 1 .. Len(f) : f[i] = g[i]
    BY <1>3, <1>5, <2>1
  <2>3. f = g
    BY <1>5, <2>1, <2>2, SeqEqual
  <2> QED BY <2>3 DEF g
<1>8. m = 0 => f = <<Block(b, 1)>> \o <<Block(b, 0)>>
  <2> SUFFICES ASSUME m = 0 PROVE f = <<Block(b, 1)>> \o <<Block(b, 0)>>
    OBVIOUS
  <2> DEFINE g == <<Block(b, 1)>> \o <<Block(b, 0)>>
  <2>1. g \in Seq(BlockType) /\ Len(g) = 2 /\ g[1] = Block(b, 1) /\ g[2] = Block(b, 0)
    BY <1>1
  <2> HIDE DEF g
  <2>2. \A i \in 1 .. Len(f) : f[i] = g[i]
    BY <1>3, <1>5, <2>1
  <2>3. f = g
    BY <1>5, <2>1, <2>2, SeqEqual
  <2> QED BY <2>3 DEF g
<1>9. Drain(b) = [b EXCEPT !.unsed = m - 1]
  <2> DEFINE cond == \A u \in MinUnsed(b) .. b.unsed :
                        /\ u \in 0 .. CacheCount - 2
                        /\ Known(b, u) /\ Known(b, u + 1)
                        /\ Block(b, u).isEnd => b.finished
  <2>1. cond
    <3> SUFFICES ASSUME NEW u \in m .. 1
                 PROVE  /\ u \in 0 .. CacheCount - 2
                        /\ Known(b, u) /\ Known(b, u + 1)
                        /\ Block(b, u).isEnd => b.finished
      OBVIOUS
    <3>1. u \in 0 .. CacheCount - 2 /\ u \in m .. 2 /\ u + 1 \in m .. 2 /\ u \in {0, 1}
      BY BlocksAssumption
    <3>2. Block(b, u).isEnd => b.finished
      BY <3>1, BlockIs, NumbersAre DEF MinUnsed
    <3> QED BY <3>1, <3>2
  <2>2. Failed(b, cond) = b
    BY <2>1, FailedNot
  <2> HIDE DEF cond
  <2> QED BY <1>4, <1>6, <2>2 DEF Drain, cond
<1> QED BY <1>4, <1>6, <1>7, <1>8, <1>9

\* The blocks taken while the signal goes on.
LEMMA TakenIs ==
    ASSUME NEW b \in BsType, NEW c \in BsType, NEW t \in Nat, NEW h,
           Searching(b, t), Chain(h), HandedTo(b, h, b.count - 1, 2),
           Outcome(b, c, t), ~c.finished
    PROVE  LET d == Drain(c)
               g == h \o Ready(c)
           IN  /\ d \in BsType /\ ~d.finished /\ Chain(g) /\ Len(Ready(c)) \in Nat
               /\ \/ Searching(d, t + 1) /\ HandedTo(d, g, d.count - 1, 2)
                  \/ Found(d, t + 1, 0) /\ HandedTo(d, g, d.count - 1, 1)
               /\ \A a \in Int : Later(c, a) => Later(d, a)
               /\ Len(Ready(c)) # 0 => \A a \in Int : Later(b, a) => t - a >= BlockTime + MinGap
<1> DEFINE d == Drain(c)
           g == h \o Ready(c)
<1>1. MinUnsed(c) = c.ok + 1 /\ h \in Seq(BlockType) /\ Len(h) \in Nat /\ h \o <<>> = h /\ Len(<<>>) = 0
  BY ConcatEmptySeq DEF MinUnsed, Chain, Linked
<1>2. CASE Ready(c) = <<>> /\ Drain(c) = c /\ Searching(c, t + 1) /\ HandedTo(c, h, c.count - 1, 2)
  BY <1>1, <1>2
<1>3. CASE Ready(c) = <<>> /\ Drain(c) = c /\ Found(c, t + 1, 0) /\ HandedTo(c, h, c.count - 1, 1)
  BY <1>1, <1>3
<1>4. CASE Searching(c, t + 1) /\ c.count = b.count /\ (b.count >= 3 => Start(c, 2) = Start(b, 2))
  <2>1. c.unsed < MinUnsed(c)
    <3>1. c.ok = 1 /\ c.count \in Nat /\ c.unsed \in {-1, 1}
      BY <1>4, NumbersAre DEF Searching
    <3> QED BY <1>1, <3>1
  <2>2. HandedTo(c, h, c.count - 1, 2)
    <3>1. c.count \in Nat /\ b.count \in Nat
      BY NumbersAre
    <3>2. h # <<>> => b.count >= 3
      BY <1>1, <3>1, EmptySeq DEF HandedTo
    <3> QED BY <1>4, <3>1, <3>2 DEF HandedTo
  <2> QED BY <1>2, <1>4, <2>1, <2>2, DrainNone
<1>5. CASE /\ Found(c, t, 1) /\ c.count = b.count + 1
           /\ b.count >= 2 => /\ c.blockFIs[1] = b.blockFIs[1] /\ c.blockFIs[2] = b.blockFIs[2]
                              /\ Gap(b, 1, 2) >= BlockTime
  <2>1. MinUnsed(c) = 1 /\ ~c.failed /\ c.ok = 0 /\ c.count \in Nat /\ b.count \in Nat
    <3>1. ~c.failed /\ c.ok = 0
      BY <1>5 DEF Found
    <3> QED BY <1>1, <3>1, NumbersAre
  <2>2. CASE c.count <= 2
    <3>1. c.unsed < MinUnsed(c) /\ Found(c, t + 1, 0)
      BY <1>5, <2>1, <2>2, NumbersAre DEF Found
    <3>2. HandedTo(c, h, c.count - 1, 1)
      <4>1. Len(h) = 0
        BY <1>5, <2>1, <2>2 DEF HandedTo
      <4>2. h = <<>>
        BY <1>1, <4>1, EmptySeq
      <4> QED BY <2>1, <2>2, <4>1, <4>2 DEF HandedTo
    <3> QED BY <1>3, <3>1, <3>2, DrainNone
  <2>3. CASE c.count > 2
    <3>1. b.count >= 2 /\ c.unsed = 1
      BY <1>5, <2>1, <2>3 DEF Found
    <3>2. /\ Start(c, 1) = Start(b, 1) /\ Start(c, 2) = Start(b, 2)
          /\ Start(b, 1) - Start(b, 2) >= MinGap /\ Start(b, 1) - Start(b, 2) >= BlockTime
          /\ Start(c, 0) - Start(c, 1) >= MinGap /\ Start(c, 0) <= t
          /\ Known(c, 0) /\ Known(c, 1) /\ Known(c, 2)
      <4>1. c.blockFIs[1] = b.blockFIs[1] /\ c.blockFIs[2] = b.blockFIs[2] /\ Gap(b, 1, 2) >= BlockTime
        BY <1>5, <3>1
      <4>2. Known(b, 1) /\ Known(b, 2) /\ Gap(b, 1, 2) >= MinGap
        BY <2>1, <3>1 DEF Searching
      <4>3. Known(c, 0) /\ Known(c, 1) /\ Gap(c, 0, 1) >= MinGap /\ Start(c, 0) <= t
        BY <1>5, <2>3, <2>1 DEF Found
      <4> QED BY <4>1, <4>2, <4>3, NumbersAre DEF Start, Known
    <3>3. \A i \in 1 .. 2 : Known(c, i)
      BY <3>2
    <3>4. d = [c EXCEPT !.unsed = 0] /\ Ready(c) = <<Block(c, 1)>>
      <4>1. /\ Drain(c) = [c EXCEPT !.unsed = 1 - 1]
            /\ 1 = 1 => Ready(c) = <<Block(c, 1)>>
        BY <2>1, <3>1, <3>3, DrainSome
      <4> QED BY <4>1
    <3> DEFINE block == Block(c, 1)
    <3>5. block \in BlockType /\ block.head = Start(c, 2) /\ block.tail = Start(c, 1) /\ ~block.isEnd
      BY <2>1, BlockIs
    <3> HIDE DEF block
    <3>6. h # <<>> => h[Len(h)].tail = block.head
      BY <3>2, <3>5 DEF HandedTo
    <3>7. g = h \o <<block>>
      BY <3>4 DEF block
    <3> HIDE DEF g
    <3>8. Chain(g) /\ g \in Seq(BlockType) /\ Len(g) = Len(h) + 1 /\ g[Len(g)] = block
      BY <3>2, <3>5, <3>6, <3>7, LinkIs
    <3>9. d \in BsType
      BY <3>4 DEF BsType
    <3>10. /\ d.blockFIs = c.blockFIs /\ d.unsed = 0 /\ d.ok = c.ok /\ d.count = c.count
           /\ d.finished = c.finished /\ d.failed = c.failed
      BY <3>4 DEF BsType
    <3> HIDE DEF d
    <3>11. \A i, j \in {0, 1, 2} : Start(d, i) = Start(c, i) /\ (Known(d, i) <=> Known(c, i))
                                   /\ Gap(d, i, j) = Gap(c, i, j)
      BY <3>10 DEF Start, Known, Gap
    <3>12. Found(d, t + 1, 0)
      BY <1>5, <2>1, <2>3, <3>2, <3>10, <3>11, NumbersAre DEF Found
    <3>13. HandedTo(d, g, d.count - 1, 1)
      <4>1. Len(g) = d.count - 2
        BY <1>1, <1>5, <2>1, <3>1, <3>8, <3>10 DEF HandedTo
      <4>2. g[Len(g)].tail = Start(d, 1)
        BY <3>5, <3>8, <3>11
      <4> QED BY <2>1, <2>3, <3>10, <4>1, <4>2 DEF HandedTo
    <3>14. \A a \in Int : Later(c, a) => Later(d, a)
      BY <3>10, <3>11 DEF Later
    <3>15. ASSUME NEW a \in Int, Later(b, a) PROVE t - a >= BlockTime + MinGap
      <4>1. a <= Start(b, 2)
        BY <3>1, <3>15 DEF Later, Searching
      <4>2. Start(b, 1) \in Nat /\ Start(b, 2) \in Nat /\ Start(c, 0) \in Nat
        BY NumbersAre
      <4> QED BY <3>2, <4>1, <4>2, BlocksAssumption
    <3>16. Len(Ready(c)) = 1
      BY <3>4
    <3>17. ~d.finished
      BY <3>10
    <3> QED BY <3>8, <3>9, <3>12, <3>13, <3>14, <3>15, <3>16, <3>17 DEF d, g
  <2> QED BY <2>1, <2>2, <2>3
<1> QED BY <1>4, <1>5 DEF Outcome

\* The blocks taken at the signal's end.
LEMMA EndedIs ==
    ASSUME NEW b \in BsType, NEW c \in BsType, NEW e \in Believed(c, "null"), NEW t \in Nat, NEW h,
           Searching(b, t), Chain(h), HandedTo(b, h, b.count - 1, 2),
           Outcome(b, c, t), c.finished
    PROVE  LET d == Drain(e)
               g == h \o Ready(e)
           IN  /\ d \in BsType /\ d.finished /\ ~d.failed
               /\ d.count = 0 => d.ok = 1 /\ d.unsed = -1
               /\ Linked(g) /\ Closed(d, g) /\ Len(Ready(e)) \in Nat
<1> DEFINE d == Drain(e)
           g == h \o Ready(e)
<1>1. /\ h \in Seq(BlockType) /\ Len(h) \in Nat /\ h \o <<>> = h /\ Len(<<>>) = 0 /\ Linked(h)
      /\ b.count \in Nat /\ c.count \in Nat
  BY ConcatEmptySeq, NumbersAre DEF Chain, Linked
<1>2. Len(h) = IF b.count >= 3 THEN b.count - 2 ELSE 0
  BY <1>1 DEF HandedTo
<1>3. h # <<>> => b.count >= 3 /\ h[Len(h)].tail = Start(b, 2)
  BY <1>1, <1>2, EmptySeq DEF HandedTo
<1>4. \/ e = c
      \/ /\ c.count >= 2
         /\ e \in BsType /\ e.finished /\ ~e.failed /\ e.unsed = c.unsed
         /\ e.count = c.count - 1 /\ e.ok = c.ok + 1
         /\ c.ok = 0 => e.blockFIs[1] = c.blockFIs[1] /\ e.blockFIs[2] = c.blockFIs[2]
  <2>1. CASE Searching(c, t + 1)
    <3> DEFINE n == t + 1
    <3>1. n \in Int /\ ~c.failed /\ Searching(c, n)
      BY <2>1 DEF Searching
    <3> HIDE DEF n
    <3>2. \/ e = c
          \/ /\ c.count >= 2
             /\ e \in BsType /\ e.finished = c.finished /\ e.failed = c.failed /\ e.unsed = c.unsed
             /\ e.count = c.count - 1 /\ e.ok = c.ok + 1
             /\ c.ok = 0 => e.blockFIs[1] = c.blockFIs[1] /\ e.blockFIs[2] = c.blockFIs[2]
      BY <3>1, BelievedIs
    <3> QED BY <3>1, <3>2
  <2>2. CASE Found(c, t, 1)
    <3>1. t \in Int /\ ~c.failed
      BY <2>2 DEF Found
    <3> QED BY <2>2, <3>1, BelievedIs
  <2> QED BY <2>1, <2>2 DEF Outcome
<1>5. e \in BsType /\ e.finished /\ ~e.failed /\ MinUnsed(e) = e.ok
  BY <1>4 DEF MinUnsed, Outcome, Searching, Found
<1>6. ASSUME NEW m \in {-1, 0}
      PROVE  LET x == [e EXCEPT !.unsed = m]
             IN  /\ x \in BsType /\ x.finished = e.finished /\ x.failed = e.failed
                 /\ x.count = e.count /\ x.ok = e.ok
  <2> DEFINE x == [e EXCEPT !.unsed = m]
  <2>1. m \in Int
    OBVIOUS
  <2>2. x \in BsType
    BY <1>5, <2>1 DEF BsType
  <2>3. x.finished = e.finished /\ x.failed = e.failed /\ x.count = e.count /\ x.ok = e.ok
    BY <1>5 DEF BsType
  <2> QED BY <2>2, <2>3
<1>7. ASSUME e.unsed < e.ok, Closed(e, h), e.count = 0 => e.ok = 1 /\ e.unsed = -1
      PROVE  Linked(g) /\ Closed(d, g) /\ d = e /\ Ready(e) = <<>>
  BY <1>1, <1>5, <1>7, DrainNone
\* One block, the last.
<1>8. ASSUME e.ok = 1, e.unsed = 1, Known(e, 1), Known(e, 2), e.count >= 2,
             h # <<>> => h[Len(h)].tail = Start(e, 2),
             Start(e, 1) - Start(e, 2) >= MinGap, Len(h) = e.count - 2
      PROVE  /\ d \in BsType /\ d.finished /\ ~d.failed /\ d.count # 0
             /\ Linked(g) /\ Closed(d, g) /\ Len(Ready(e)) = 1
  <2> DEFINE block == Block(e, 1)
  <2>1. block \in BlockType /\ block.head = Start(e, 2) /\ block.tail = Start(e, 1) /\ block.isEnd
    BY <1>5, <1>8, BlockIs
  <2>2. \A i \in 1 .. 2 : Known(e, i)
    BY <1>8
  <2>3. d = [e EXCEPT !.unsed = 1 - 1] /\ Ready(e) = <<block>>
    <3>1. /\ Drain(e) = [e EXCEPT !.unsed = 1 - 1]
          /\ 1 = 1 => Ready(e) = <<Block(e, 1)>>
      BY <1>5, <1>8, <2>2, DrainSome
    <3> QED BY <3>1
  <2> HIDE DEF block
  <2>4. Linked(g) /\ Len(g) = Len(h) + 1
    BY <1>8, <2>1, <2>3, LinkIs
  <2>5. d \in BsType /\ d.finished /\ ~d.failed /\ d.count = e.count /\ d.ok = e.ok
    BY <1>5, <1>6, <2>3
  <2>6. Closed(d, g)
    <3>1. e.count \in Nat
      BY <1>5, NumbersAre
    <3>2. Len(g) = d.count - 1
      BY <1>8, <2>4, <2>5, <3>1
    <3> QED BY <3>2 DEF Closed
  <2> QED BY <1>8, <2>3, <2>4, <2>5, <2>6
<1>9. CASE Searching(c, t + 1) /\ c.count = b.count /\ (b.count >= 3 => Start(c, 2) = Start(b, 2))
  <2>1. c.ok = 1 /\ (c.count <= 1 => c.unsed = -1) /\ (c.count >= 2 => c.unsed = 1)
    BY <1>9 DEF Searching
  <2>2. CASE e = c /\ c.count >= 2
    <3>1. Known(c, 1) /\ Known(c, 2) /\ Start(c, 1) - Start(c, 2) >= MinGap
      BY <1>1, <1>9, <2>2, NumbersAre DEF Searching
    <3>2. Len(h) = c.count - 2
      BY <1>1, <1>2, <1>9, <2>2
    <3>3. h # <<>> => h[Len(h)].tail = Start(c, 2)
      BY <1>3, <1>9
    <3> QED BY <1>8, <2>1, <2>2, <3>1, <3>2, <3>3
  <2>3. CASE e = c /\ c.count < 2
    <3>1. Closed(e, h) /\ e.unsed < e.ok
      BY <1>1, <2>1, <2>3 DEF Closed
    <3>2. Linked(g) /\ Closed(d, g) /\ d = e /\ Ready(e) = <<>>
      BY <1>1, <1>7, <2>1, <2>3, <3>1
    <3> QED BY <1>1, <1>5, <2>1, <2>3, <3>2
  <2>4. CASE e # c
    <3>1. c.count >= 2 /\ e.unsed = 1 /\ e.count = c.count - 1 /\ e.ok = 2
      BY <1>4, <2>1, <2>4
    <3>2. Closed(e, h)
      BY <1>1, <1>2, <1>9, <3>1 DEF Closed
    <3>3. Linked(g) /\ Closed(d, g) /\ d = e /\ Ready(e) = <<>>
      BY <1>1, <1>7, <3>1, <3>2
    <3> QED BY <1>1, <1>5, <3>1, <3>3
  <2> QED BY <1>1, <2>2, <2>3, <2>4
<1>10. CASE /\ Found(c, t, 1) /\ c.count = b.count + 1
            /\ b.count >= 2 => /\ c.blockFIs[1] = b.blockFIs[1] /\ c.blockFIs[2] = b.blockFIs[2]
                               /\ Gap(b, 1, 2) >= BlockTime
  <2>1. c.ok = 0 /\ c.count >= 1 /\ (c.count <= 2 => c.unsed = -1) /\ (c.count >= 3 => c.unsed = 1)
    BY <1>10 DEF Found
  <2>2. c.count >= 3 =>
          /\ Start(c, 1) = Start(b, 1) /\ Start(c, 2) = Start(b, 2)
          /\ Start(b, 1) - Start(b, 2) >= MinGap /\ Start(b, 1) - Start(b, 2) >= BlockTime
          /\ Start(c, 0) - Start(c, 1) >= MinGap
          /\ Known(c, 0) /\ Known(c, 1) /\ Known(c, 2)
    <3> SUFFICES ASSUME c.count >= 3 PROVE
          /\ Start(c, 1) = Start(b, 1) /\ Start(c, 2) = Start(b, 2)
          /\ Start(b, 1) - Start(b, 2) >= MinGap /\ Start(b, 1) - Start(b, 2) >= BlockTime
          /\ Start(c, 0) - Start(c, 1) >= MinGap
          /\ Known(c, 0) /\ Known(c, 1) /\ Known(c, 2)
      OBVIOUS
    <3>1. c.blockFIs[1] = b.blockFIs[1] /\ c.blockFIs[2] = b.blockFIs[2] /\ Gap(b, 1, 2) >= BlockTime
      BY <1>1, <1>10
    <3>2. Known(b, 1) /\ Known(b, 2) /\ Gap(b, 1, 2) >= MinGap
      BY <1>1, <1>10 DEF Searching
    <3>3. Known(c, 0) /\ Known(c, 1) /\ Gap(c, 0, 1) >= MinGap
      BY <1>1, <1>10 DEF Found
    <3> QED BY <3>1, <3>2, <3>3, NumbersAre DEF Start, Known
  <2>3. CASE e = c /\ c.count <= 2
    <3>1. h = <<>> /\ Closed(e, h) /\ e.unsed < e.ok
      BY <1>1, <1>2, <1>3, <1>10, <2>1, <2>3 DEF Closed
    <3>2. Linked(g) /\ Closed(d, g) /\ d = e /\ Ready(e) = <<>>
      BY <1>1, <1>7, <2>1, <2>3, <3>1
    <3> QED BY <1>1, <1>5, <2>1, <2>3, <3>2
  \* Two blocks, the one before the last header and the last.
  <2>4. CASE e = c /\ c.count > 2
    <3> DEFINE one == Block(c, 1)
               two == Block(c, 0)
    <3>1. one \in BlockType /\ one.head = Start(c, 2) /\ one.tail = Start(c, 1) /\ ~one.isEnd
      BY <2>1, BlockIs
    <3>2. two \in BlockType /\ two.head = Start(c, 1) /\ two.tail = Start(c, 0) /\ two.isEnd
      BY <2>1, BlockIs
    <3>3. \A i \in 0 .. 2 : Known(c, i)
      BY <1>1, <2>2, <2>4
    <3>4. d = [e EXCEPT !.unsed = 0 - 1] /\ Ready(e) = <<one>> \o <<two>>
      <4>1. /\ Drain(c) = [c EXCEPT !.unsed = 0 - 1]
            /\ 0 = 0 => Ready(c) = <<Block(c, 1)>> \o <<Block(c, 0)>>
        BY <1>1, <1>5, <2>1, <2>4, <3>3, DrainSome
      <4> QED BY <2>4, <4>1
    <3> HIDE DEF one, two
    <3>5. h # <<>> => h[Len(h)].tail = one.head
      BY <1>1, <1>3, <1>10, <2>2, <2>4, <3>1
    <3> DEFINE f == h \o <<one>>
    <3>6. Chain(f) /\ f \in Seq(BlockType) /\ Len(f) = Len(h) + 1 /\ f[Len(f)] = one
      BY <1>1, <2>2, <2>4, <3>1, <3>5, LinkIs
    <3> HIDE DEF f
    <3>7. two.tail - two.head >= MinGap /\ f[Len(f)].tail = two.head
      BY <1>1, <2>2, <2>4, <3>1, <3>2, <3>6
    <3>8. Linked(f \o <<two>>) /\ Len(f \o <<two>>) = Len(f) + 1
      BY <3>2, <3>6, <3>7, LinkIs
    <3>9. g = f \o <<two>>
      BY <1>1, <3>1, <3>2, <3>4, ConcatAssociative DEF f
    <3>10. d \in BsType /\ d.finished /\ ~d.failed /\ d.count = e.count /\ d.ok = e.ok
      BY <1>5, <1>6, <3>4
    <3>11. Len(g) = c.count - 1
      <4>1. Len(h) = c.count - 3
        BY <1>1, <1>2, <1>10, <2>4
      <4>2. Len(g) = Len(h) + 1 + 1
        BY <3>6, <3>8, <3>9
      <4> QED BY <1>1, <4>1, <4>2
    <3>12. Closed(d, g)
      BY <2>4, <3>10, <3>11 DEF Closed
    <3>13. Len(Ready(e)) = 2
      BY <3>1, <3>2, <3>4
    <3> QED BY <1>1, <2>4, <3>8, <3>9, <3>10, <3>12, <3>13
  <2>5. CASE e # c
    <3>1. /\ c.count >= 2 /\ e.unsed = c.unsed /\ e.count = c.count - 1 /\ e.ok = 1
          /\ e.blockFIs[1] = c.blockFIs[1] /\ e.blockFIs[2] = c.blockFIs[2]
      BY <1>4, <2>1, <2>5
    <3>2. CASE c.count = 2
      <4>1. Closed(e, h) /\ e.unsed < e.ok
        BY <2>1, <3>1, <3>2 DEF Closed
      <4>2. Linked(g) /\ Closed(d, g) /\ d = e /\ Ready(e) = <<>>
        BY <1>1, <1>7, <3>1, <3>2, <4>1
      <4> QED BY <1>1, <1>5, <3>1, <3>2, <4>2
    <3>3. CASE c.count # 2
      <4>1. c.count >= 3
        BY <1>1, <3>1, <3>3
      <4>2. Start(e, 1) = Start(c, 1) /\ Start(e, 2) = Start(c, 2)
            /\ (Known(e, 1) <=> Known(c, 1)) /\ (Known(e, 2) <=> Known(c, 2))
        BY <3>1 DEF Start, Known
      <4>3. h # <<>> => h[Len(h)].tail = Start(e, 2)
        BY <1>3, <2>2, <4>1, <4>2
      <4>4. Len(h) = e.count - 2 /\ e.count >= 2
        BY <1>1, <1>2, <1>10, <3>1, <4>1
      <4> QED BY <1>8, <2>1, <2>2, <3>1, <4>1, <4>2, <4>3, <4>4
    <3> QED BY <3>2, <3>3
  <2> QED BY <1>1, <2>3, <2>4, <2>5
<1> QED BY <1>9, <1>10 DEF Outcome

-----------------------------------------------------------------------------
(* The invariant.                                                          *)

\* The time and the blocks before a step: nothing, when it is a signal's first.
Heard == IF bs.finished THEN 0 ELSE time
HandedOn == IF bs.finished THEN <<>> ELSE handed

\* What the searcher makes of a step, in the terms of the lemmas above.
LEMMA SearchIs ==
    ASSUME SearchInv, NEW evt, Tick, Search(evt)
    PROVE  \E b, c, e \in BsType :
             /\ Searching(b, Heard) /\ Chain(HandedOn) /\ HandedTo(b, HandedOn, b.count - 1, 2)
             /\ \A a \in Int : bs.finished \/ Later(bs, a) => Later(b, a)
             /\ Outcome(b, c, Heard) /\ c.finished = (evt = "null")
             /\ evt # "strong" /\ b.blockFIs[0].hits = 0 => c = b
             /\ e \in Believed(c, evt)
             /\ bs' = Drain(e) /\ handed' = HandedOn \o Ready(e)
             /\ unheard' = (IF bs.finished THEN 0 ELSE unheard)
                             + (IF recoging THEN 0 ELSE Len(Ready(e)))
<1> DEFINE p == Prepared(bs)
           b == [p EXCEPT !.finished = (evt = "null")]
<1>1. /\ bs \in BsType /\ bs.finished \in BOOLEAN /\ Heard \in Nat /\ time' = Heard + 1
      /\ (evt = "null") \in BOOLEAN
  BY NumbersAre DEF SearchInv, SearchTypeOK, Heard, Tick
<1>2. Chain(HandedOn)
  <2>1. CASE bs.finished
    BY <2>1, EmptySeq DEF HandedOn, Chain, Linked
  <2>2. CASE ~bs.finished
    BY <2>2 DEF HandedOn, SearchInv, GoingOn
  <2> QED BY <2>1, <2>2
<1>3. bs.finished => /\ ~bs.failed /\ Heard = 0 /\ HandedOn = <<>>
                     /\ bs.count = 0 => bs.ok = 1 /\ bs.unsed = -1
  BY DEF SearchInv, Ended, Heard, HandedOn
<1>4. ~bs.finished => \/ Searching(bs, Heard) /\ HandedTo(bs, HandedOn, bs.count - 1, 2)
                      \/ Found(bs, Heard, 0) /\ HandedTo(bs, HandedOn, bs.count - 1, 1)
  BY DEF SearchInv, GoingOn, Heard, HandedOn
<1>5. /\ p \in BsType /\ Searching(p, Heard) /\ HandedTo(p, HandedOn, p.count - 1, 2)
      /\ \A a \in Int : bs.finished \/ Later(bs, a) => Later(p, a)
  BY <1>1, <1>3, <1>4, PreparedIs
<1> HIDE DEF p
<1>6. /\ b \in BsType /\ b.finished = (evt = "null") /\ b.blockFIs = p.blockFIs
      /\ b.unsed = p.unsed /\ b.ok = p.ok /\ b.count = p.count /\ b.failed = p.failed
  BY <1>1, <1>5, FinishIs
<1>7. PICK e \in UNION {Believed(c, evt) : c \in Listen(b, evt)} :
        /\ bs' = Drain(e) /\ handed' = HandedOn \o Ready(e)
        /\ unheard' = (IF bs.finished THEN 0 ELSE unheard) + (IF recoging THEN 0 ELSE Len(Ready(e)))
  BY DEF Search, OnFFTEvent, HandedOn, p
<1>8. PICK c \in Listen(b, evt) : e \in Believed(c, evt)
  BY <1>7
<1> HIDE DEF b
<1>9. Searching(b, Heard) /\ HandedTo(b, HandedOn, b.count - 1, 2)
  BY <1>5, <1>6 DEF Searching, HandedTo, ToneOf, Start, Gap, Known
<1>10. \A a \in Int : bs.finished \/ Later(bs, a) => Later(b, a)
  BY <1>5, <1>6 DEF Later, Start
<1>11. Outcome(b, c, Heard) /\ (evt # "strong" /\ b.blockFIs[0].hits = 0 => c = b)
  BY <1>1, <1>6, <1>9, ListenIs
<1>12. c \in BsType /\ c.finished = (evt = "null")
  BY <1>6, <1>11 DEF Outcome
<1>13. e \in BsType
  <2>1. CASE evt # "null"
    BY <1>8, <1>12, <2>1 DEF Believed
  <2>2. CASE evt = "null"
    <3>1. CASE Searching(c, Heard + 1)
      BY <1>1, <1>8, <1>12, <2>2, <3>1, BelievedIs
    <3>2. CASE Found(c, Heard, 1)
      BY <1>1, <1>8, <1>12, <2>2, <3>2, BelievedIs
    <3> QED BY <1>11, <3>1, <3>2 DEF Outcome
  <2> QED BY <2>1, <2>2
<1> QED BY <1>2, <1>6, <1>7, <1>8, <1>9, <1>10, <1>11, <1>12, <1>13

LEMMA FirstValidIs ==
    ASSUME SearchTypeOK, NEW loud \in BOOLEAN
    PROVE  /\ FirstValid(loud) \in -1 .. StartSize + 1
           /\ sinceFirst = -1 => FirstValid(loud) = IF loud THEN 0 ELSE -1
           /\ sinceFirst >= 0 /\ FirstValid(loud) # 0 =>
                FirstValid(loud) = IF sinceFirst < StartSize THEN sinceFirst + 1 ELSE StartSize + 1
<1> DEFINE start == loud /\ (sinceFirst < 0 \/ sinceValid + 1 >= ShortValid)
<1>1. sinceFirst \in -1 .. StartSize + 1 /\ StartSize \in Nat /\ sinceFirst \in Int
  BY BlocksAssumption DEF SearchTypeOK
<1>2. CASE start
  BY <1>1, <1>2 DEF FirstValid
<1>3. CASE ~start /\ sinceFirst >= 0
  <2>1. FirstValid(loud) = Least(sinceFirst + 1, StartSize + 1)
    BY <1>1, <1>3 DEF FirstValid
  <2>2. Least(sinceFirst + 1, StartSize + 1) = IF sinceFirst < StartSize THEN sinceFirst + 1 ELSE StartSize + 1
    BY <1>1 DEF Least
  <2> QED BY <1>1, <1>3, <2>1, <2>2
<1>4. CASE ~start /\ ~(sinceFirst >= 0)
  <2>1. sinceFirst = -1 /\ ~loud
    BY <1>1, <1>4
  <2>2. FirstValid(loud) = -1
    BY <1>1, <2>1 DEF FirstValid
  <2> QED BY <1>1, <2>1, <2>2
<1> QED BY <1>2, <1>3, <1>4

LEMMA AnalyFFTKeeps ==
    ASSUME SearchInv, NEW evt \in {"strong", "weak", "none"}, NEW loud \in BOOLEAN, AnalyFFT(evt, loud)
    PROVE  SearchInv'
<1>1. PICK b, c, e \in BsType :
             /\ Searching(b, Heard) /\ Chain(HandedOn) /\ HandedTo(b, HandedOn, b.count - 1, 2)
             /\ \A a \in Int : bs.finished \/ Later(bs, a) => Later(b, a)
             /\ Outcome(b, c, Heard) /\ c.finished = (evt = "null")
             /\ evt # "strong" /\ b.blockFIs[0].hits = 0 => c = b
             /\ e \in Believed(c, evt)
             /\ bs' = Drain(e) /\ handed' = HandedOn \o Ready(e)
             /\ unheard' = (IF bs.finished THEN 0 ELSE unheard)
                             + (IF recoging THEN 0 ELSE Len(Ready(e)))
  BY SearchIs DEF AnalyFFT
<1>2. evt # "null" /\ ~c.finished /\ e = c
  BY <1>1 DEF Believed
<1>3. /\ bs \in BsType /\ Heard \in Nat /\ time' = Heard + 1 /\ StartSize \in Nat
      /\ sinceFirst \in -1 .. StartSize + 1 /\ unheard \in Nat
  BY BlocksAssumption, NumbersAre DEF AnalyFFT, SearchInv, SearchTypeOK, Heard, Tick
<1>4. /\ bs' \in BsType /\ ~bs'.finished /\ Chain(handed') /\ Len(Ready(c)) \in Nat
      /\ \/ Searching(bs', Heard + 1) /\ HandedTo(bs', handed', bs'.count - 1, 2)
         \/ Found(bs', Heard + 1, 0) /\ HandedTo(bs', handed', bs'.count - 1, 1)
      /\ \A a \in Int : Later(c, a) => Later(bs', a)
      /\ Len(Ready(c)) # 0 => \A a \in Int : Later(b, a) => Heard - a >= BlockTime + MinGap
  BY <1>1, <1>2, <1>3, TakenIs
<1>5. sinceFirst' = FirstValid(loud) /\ moved' = (moved \/ (sinceFirst >= 0 /\ FirstValid(loud) = 0))
      /\ recoging' = (recoging \/ FirstValid(loud) > StartSize) /\ (evt = "strong" => loud)
      /\ sinceValid' = IF loud THEN 0 ELSE Least(sinceValid + 1, ShortValid)
  BY DEF AnalyFFT, Hear
<1>6. SearchTypeOK'
  <2>1. unheard' \in Nat
    <3>1. (IF bs.finished THEN 0 ELSE unheard) \in Nat
      BY <1>3
    <3>2. (IF recoging THEN 0 ELSE Len(Ready(e))) \in Nat
      BY <1>2, <1>4
    <3> QED BY <1>1, <3>1, <3>2
  <2>2. sinceFirst' \in -1 .. StartSize + 1
    BY <1>5, FirstValidIs DEF SearchInv
  <2>3. moved' \in BOOLEAN /\ recoging' \in BOOLEAN
    BY <1>5 DEF SearchInv, SearchTypeOK
  <2>4. sinceValid' \in Int
    BY <1>5, BlocksAssumption DEF SearchInv, SearchTypeOK, Least
  <2> QED BY <1>3, <1>4, <2>1, <2>2, <2>3, <2>4 DEF SearchTypeOK
<1>7. GoingOn'
  BY <1>3, <1>4 DEF GoingOn
<1>8. Ended'
  BY <1>4 DEF Ended
<1>9. bs.finished => sinceFirst = -1 /\ ~moved /\ ~recoging
  BY DEF SearchInv, Ended
<1>10. /\ sinceFirst > StartSize => recoging
       /\ ~moved => /\ bs.finished \/ unheard = 0
                    /\ sinceFirst > StartSize \/ bs.finished \/ Later(bs, Heard - sinceFirst)
  BY <1>3, <1>9 DEF SearchInv, LaterInv, Heard
<1> DEFINE a == Heard - sinceFirst
<1>11. ASSUME ~moved, ~(sinceFirst > StartSize) PROVE Later(b, a) /\ a \in Int /\ a <= Heard + 1
  BY <1>1, <1>3, <1>10, <1>11
<1>12. ASSUME ~moved' PROVE unheard' = 0
  <2>1. ~moved
    BY <1>5, <1>12
  <2>2. CASE recoging \/ Len(Ready(c)) = 0
    BY <1>1, <1>2, <1>10, <2>1, <2>2
  <2>3. CASE ~recoging /\ Len(Ready(c)) # 0
    <3>1. Later(b, a) /\ a \in Int /\ ~(sinceFirst > StartSize)
      BY <1>10, <1>11, <2>1, <2>3
    <3>2. Heard - a >= BlockTime + MinGap
      BY <1>4, <2>3, <3>1
    <3> QED BY <1>3, <3>1, <3>2, BlocksAssumption
  <2> QED BY <2>2, <2>3
<1>13. ASSUME ~moved' PROVE sinceFirst' > StartSize \/ Later(bs', time' - sinceFirst')
  <2>1. ~moved /\ ~(sinceFirst >= 0 /\ FirstValid(loud) = 0)
    BY <1>5, <1>13
  <2>2. CASE sinceFirst = -1 /\ loud
    <3>1. Later(b, Heard + 1)
      BY <1>3, <1>11, <2>1, <2>2
    <3>2. Later(bs', Heard + 1)
      BY <1>1, <1>3, <1>4, <3>1 DEF Outcome
    <3>3. time' - sinceFirst' = Heard + 1
      <4>1. FirstValid(loud) = 0
        BY <2>2, FirstValidIs DEF SearchInv
      <4> QED BY <1>3, <1>5, <4>1
    <3> QED BY <3>2, <3>3
  <2>3. CASE sinceFirst = -1 /\ ~loud
    <3>1. Later(b, Heard + 1)
      BY <1>3, <1>11, <2>1, <2>3
    <3>2. b.blockFIs[0].hits = 0
      <4>1. b.blockFIs[0].hits > 0 => Heard + 1 <= Start(b, 0)
        BY <3>1 DEF Later
      <4>2. b.blockFIs[0].hits > 0 => Start(b, 0) <= Heard
        <5>1. b.blockFIs[0].hits > 0 =>
                Start(b, 0) <= b.blockFIs[0].last /\ b.blockFIs[0].last <= Heard
          BY <1>1 DEF Searching, ToneOf
        <5>2. Start(b, 0) \in Nat /\ b.blockFIs[0].last \in Nat
          BY NumbersAre
        <5> QED BY <1>3, <5>1, <5>2
      <4> QED BY <1>3, <4>1, <4>2, NumbersAre
    <3>3. b.count = 0
      <4>1. b.ok = 1 /\ (b.count >= 1 => Start(b, 1) <= Heard)
        BY <1>1 DEF Searching
      <4>2. b.count >= 1 => Heard + 1 <= Start(b, 1)
        BY <3>1, <4>1 DEF Later
      <4> QED BY <1>3, <4>1, <4>2, NumbersAre
    <3>4. c = b
      BY <1>1, <1>5, <2>3, <3>2
    <3>5. Later(c, Heard + 2)
      BY <1>1, <3>2, <3>3, <3>4 DEF Later, Searching
    <3>6. Later(bs', Heard + 2)
      BY <1>3, <1>4, <3>5
    <3>7. time' - sinceFirst' = Heard + 2
      BY <1>3, <1>5, <2>3, FirstValidIs DEF SearchInv
    <3> QED BY <3>6, <3>7
  <2>4. CASE sinceFirst # -1
    <3>1. sinceFirst >= 0 /\ FirstValid(loud) # 0
      BY <1>3, <2>1, <2>4
    <3>2. sinceFirst' = IF sinceFirst < StartSize THEN sinceFirst + 1 ELSE StartSize + 1
      BY <1>5, <3>1, FirstValidIs DEF SearchInv
    <3>3. CASE sinceFirst < StartSize
      <4>1. Later(b, a) /\ a \in Int /\ a <= Heard + 1
        BY <1>3, <1>11, <2>1, <3>3
      <4>2. Later(bs', a)
        BY <1>1, <1>4, <4>1 DEF Outcome
      <4>3. time' - sinceFirst' = a
        BY <1>3, <3>1, <3>2, <3>3
      <4> QED BY <4>2, <4>3
    <3>4. CASE ~(sinceFirst < StartSize)
      BY <1>3, <3>2, <3>4
    <3> QED BY <3>3, <3>4
  <2> QED BY <2>2, <2>3, <2>4
<1>14. LaterInv'
  BY <1>5, <1>12, <1>13 DEF LaterInv
<1> QED BY <1>6, <1>7, <1>8, <1>14 DEF SearchInv

\* The end of a signal, however it comes.
LEMMA SignalEnds ==
    ASSUME SearchInv, Tick, Search("null"), sinceValid' \in Int,
           sinceFirst' = -1, moved' = FALSE, recoging' = FALSE
    PROVE  SearchInv'
<1>1. PICK b, c, e \in BsType :
             /\ Searching(b, Heard) /\ Chain(HandedOn) /\ HandedTo(b, HandedOn, b.count - 1, 2)
             /\ Outcome(b, c, Heard) /\ c.finished
             /\ e \in Believed(c, "null")
             /\ bs' = Drain(e) /\ handed' = HandedOn \o Ready(e)
             /\ unheard' = (IF bs.finished THEN 0 ELSE unheard)
                             + (IF recoging THEN 0 ELSE Len(Ready(e)))
  BY SearchIs
<1>2. /\ bs \in BsType /\ Heard \in Nat /\ time' = Heard + 1 /\ StartSize \in Nat /\ unheard \in Nat
  BY BlocksAssumption, NumbersAre DEF SearchInv, SearchTypeOK, Heard, Tick
<1>3. /\ bs' \in BsType /\ bs'.finished /\ ~bs'.failed
      /\ bs'.count = 0 => bs'.ok = 1 /\ bs'.unsed = -1
      /\ Linked(handed') /\ Closed(bs', handed') /\ Len(Ready(e)) \in Nat
  BY <1>1, <1>2, EndedIs
<1>4. SearchTypeOK'
  <2>1. unheard' \in Nat
    <3>1. (IF bs.finished THEN 0 ELSE unheard) \in Nat
      BY <1>2
    <3>2. (IF recoging THEN 0 ELSE Len(Ready(e))) \in Nat
      BY <1>3
    <3> QED BY <1>1, <3>1, <3>2
  <2>2. sinceFirst' \in -1 .. StartSize + 1
    BY <1>2
  <2>3. time' \in Nat
    BY <1>2
  <2>4. moved' \in BOOLEAN /\ recoging' \in BOOLEAN
    BY Zenon
  <2> QED BY <1>3, <2>1, <2>2, <2>3, <2>4 DEF SearchTypeOK
<1> QED BY <1>3, <1>4 DEF SearchInv, GoingOn, LaterInv, Ended

LEMMA SearchStart == SearchInit => SearchInv
<1> SUFFICES ASSUME SearchInit PROVE SearchInv
  OBVIOUS
<1>1. /\ bs \in BsType /\ bs.count = 0 /\ bs.ok = 1 /\ bs.unsed = -1
      /\ bs.finished /\ ~bs.failed
  BY ResetIs DEF SearchInit
<1>2. SearchTypeOK
  <2>1. sinceFirst \in -1 .. StartSize + 1 /\ sinceValid \in Int
    BY BlocksAssumption DEF SearchInit
  <2> QED BY <1>1, <2>1 DEF SearchInit, SearchTypeOK
<1>3. Linked(handed)
  <2>1. handed \in Seq(BlockType) /\ Len(handed) = 0
    BY EmptySeq DEF SearchInit
  <2>2. ~(\E k \in 1 .. Len(handed) : TRUE) /\ ~(\E k \in 1 .. Len(handed) - 1 : TRUE)
    BY <2>1
  <2> QED BY <2>1, <2>2, Zenon DEF Linked
<1>4. Closed(bs, handed)
  BY <1>1 DEF Closed
<1>5. ~moved /\ ~recoging /\ sinceFirst = -1
  BY DEF SearchInit
<1>6. Ended
  BY <1>1, <1>3, <1>4, <1>5 DEF Ended
<1> QED BY <1>1, <1>2, <1>6 DEF SearchInv, GoingOn, LaterInv

LEMMA SearchStep == SearchInv /\ [SearchNext]_searchVars => SearchInv'
<1> SUFFICES ASSUME SearchInv, [SearchNext]_searchVars PROVE SearchInv'
  OBVIOUS
<1>1. ASSUME NEW evt \in {"strong", "weak", "none"}, NEW loud \in BOOLEAN, AnalyFFT(evt, loud)
      PROVE  SearchInv'
  BY <1>1, AnalyFFTKeeps
<1>2. ASSUME NEW loud \in BOOLEAN, Truncate(loud) PROVE SearchInv'
  <2>1. sinceValid' \in Int
    BY <1>2, BlocksAssumption DEF Truncate, Hear, Least, SearchInv, SearchTypeOK
  <2> QED BY <1>2, <2>1, SignalEnds DEF Truncate
<1>3. CASE EndOfSound
  <2>1. sinceValid' \in Int
    BY <1>3 DEF EndOfSound, SearchInv, SearchTypeOK
  <2> QED BY <1>3, <2>1, SignalEnds DEF EndOfSound
<1>4. CASE UNCHANGED searchVars
  BY <1>4 DEF searchVars, SearchInv, SearchTypeOK, GoingOn, LaterInv, Ended
<1> QED BY <1>1, <1>2, <1>3, <1>4 DEF SearchNext

\* After each step and each signal's end: where the searcher stands, and what its
\* headers have to do with the blocks handed on.
THEOREM SearchInvariantHolds == SearchSpec => []SearchInv
BY SearchStart, SearchStep, PTL DEF SearchSpec

\* Nothing that is heard makes an assertion of bs_onFFTEvent, fi_timesFirst or
\* bs_hasBlock fail.
THEOREM SearcherAssertsHolds == SearchSpec => []SearcherAsserts
<1>1. SearchInv => SearcherAsserts
  BY DEF SearchInv, GoingOn, Ended, Searching, Found, SearcherAsserts
<1> QED BY <1>1, SearchInvariantHolds, PTL

\* The blocks bs_hasBlock gives are the signal, in order and whole, and none has
\* gone by before sa_analyFFT starts the recognition.
THEOREM BlocksChainHolds == SearchSpec => []BlocksChain
<1>1. ASSUME SearchInv PROVE BlocksChain
  <2>1. Linked(handed)
    <3>1. CASE bs.finished
      BY <1>1, <3>1 DEF SearchInv, Ended
    <3>2. CASE ~bs.finished
      BY <1>1, <3>2 DEF SearchInv, GoingOn, Chain
    <3> QED BY <3>1, <3>2
  <2>2. DOMAIN handed = 1 .. Len(handed)
    BY <2>1 DEF Linked
  <2>3. bs.finished /\ bs.count >= 2 =>
         \/ Len(handed) = bs.count - 1
         \/ bs.count = 2 /\ bs.ok = 0 /\ handed = <<>>
    BY <1>1 DEF SearchInv, Ended, Closed
  <2>4. recoging /\ ~moved => unheard = 0
    BY <1>1 DEF SearchInv, Ended, LaterInv
  <2> QED BY <2>1, <2>2, <2>3, <2>4 DEF BlocksChain, Linked
<1> QED BY <1>1, SearchInvariantHolds, PTL

=============================================================================
