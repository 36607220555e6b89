------------------------------ MODULE Recognise ------------------------------
(***************************************************************************)
(* The voice recogniser (PROC_VOICE, voiceRecognizer.c): the thread in     *)
(* vrr_run that writes the sound to the history and finds the ranges of it *)
(* that may hold a signal, and the worker (pvp_realProcess) that reads     *)
(* those ranges back and analyses them.                                    *)
(*                                                                         *)
(* The queue of ranges, their fields, the history's position, stopped and  *)
(* realProcessThreadQuited are read and written by both threads without a  *)
(* lock: an action stands for one access another thread can tell apart.    *)
(* The condition variable has no predicate.  One set of frequencies, hence *)
(* one queue, as the service sets.  A position counts bytes of sound; what *)
(* the sound is, and what the analyser makes of it, is left out.           *)
(***************************************************************************)
EXTENDS Integers, Sequences

CONSTANTS
    Step,       \* byteStepSize
    Overlap,    \* byteOverlap
    History,    \* bytes voiceHistory holds
    Capacity,   \* ranges signalQueue holds
    Distance,   \* SignalDetector_DetectEventDistance
    Hangover,   \* detections without a signal that end a range (4)
    Extra,      \* SAVE_WAVE_EXTRA_LEN
    MinSize,    \* minProcessSignalSize
    MinValid,   \* MinValidDetect
    FirstIdx,   \* MaybeSignalQueue_globalSignalIdx at the start of the session
    MaxEvents   \* bound: buffers of sound in a session

BufferSize == Overlap + Step

ASSUME SizesAssumption ==
    /\ Step \in Nat \ {0} /\ Overlap \in Nat
    /\ History \in Nat /\ BufferSize <= History
    /\ Capacity \in Nat \ {0} /\ Distance \in Nat \ {0} /\ Hangover \in Nat \ {0}
    /\ Extra \in Nat /\ MinSize \in Nat /\ MinValid \in Nat
    /\ FirstIdx \in Nat /\ MaxEvents \in Nat

VARIABLES
    runPc,       \* vrr_run
    workPc,      \* realProcessThread
    pos,         \* voiceHistory.pos
    eventIdx,    \* events the detector was given
    event,       \* eventStartPos of the event in process
    inited,      \* normalAmplitudeInited
    quiet,       \* detections since the last with a signal: the four pre flags
    discovered,  \* signalIdx + 1 of the detector
    queue,       \* signalQueue: the ranges, oldest first
    discarding,  \* currDiscoveryDiscarded
    stopped,     \* _this->stopped
    \* Locals of the worker:
    from,        \* signal->startPos as it was read for recognizePos
    wanted,      \* readDataLen
    processPos,
    recognizePos,
    dataPos,     \* bufferDataPos
    firstBuffer,
    analyserFirst, \* firstBuffer of the analyser, fvp_process's own
    \* History, read by no action of the program:
    missed,      \* a broadcast found the worker between its look and its wait
    leftOver,    \* the analyser was left in the middle of a range given up
    torn         \* the range's two positions were not the same when it was begun

runnerVars == <<pos, eventIdx, event, inited, quiet, discovered, discarding>>
readVars == <<from, wanted, processPos, recognizePos, dataPos, firstBuffer, torn>>
analyserVars == <<analyserFirst, leftOver>>
vars == <<runPc, workPc, runnerVars, queue, stopped, readVars, analyserVars, missed>>

Smaller(a, b) == IF a <= b THEN a ELSE b

Last == queue[Len(queue)]

\* A worker that met a negative length, for which memcpy is given a huge one, or
\* an assertion that fails.
Crashed == workPc = "crashed"

-----------------------------------------------------------------------------
(* A range of sound that may hold a signal.                                *)

\* ms_init.
Blank == [start |-> 0, end |-> 0, finished |-> FALSE, idx |-> 0,
          total |-> 1, valid |-> 1]

\* ms_isDiscoveryFinished.
Finished(s) == s.finished

\* msq_startRecognizeSignal.
Oldest == Head(queue)

\* Too little to be worth analysing, so far.
Small(s) ==
    \/ s.end - s.start < MinSize
    \/ s.valid <= MinValid
    \/ 10 * s.valid <= 6 * s.total

\* The first ranges are analysed however small they are.
Optional(s) == s.idx > 2

\* There is a range whose end is not found yet: msq_currDiscoveryingSignal.
Discovering == discarding \/ (queue # <<>> /\ ~Finished(Last))

\* The last range of the queue, with its field f set to v.
SetLast(f, v) == [queue EXCEPT ![Len(queue)][f] = v]

\* signalStartRelative and the extra sound of the first two ranges.
StartPos ==
    IF discovered <= 2
    THEN (IF event < Extra THEN 0 ELSE event - Extra)
    ELSE IF eventIdx > 1 THEN event - Distance * Step ELSE event

-----------------------------------------------------------------------------
\* fsd_init, fsd_reset: no signal was there, and the usual noise is not known.
FreqDetectorInit == inited = FALSE /\ quiet = Hangover /\ discovered = 0

\* sd_init.
DetectorInit == eventIdx = 0 /\ FreqDetectorInit

\* msq_init, msq_clear.
QueueInit == queue = <<>> /\ discarding = FALSE

\* fvp_init.
AnalyserInit == analyserFirst = TRUE /\ leftOver = FALSE

\* pvp_init; the worker's thread is created and has not run.
Init ==
    /\ runPc = "get" /\ workPc = "start"
    /\ pos = 0 /\ event = 0 /\ stopped = FALSE
    /\ DetectorInit /\ QueueInit /\ AnalyserInit
    /\ from = 0 /\ wanted = 0 /\ processPos = 0 /\ recognizePos = 0
    /\ dataPos = 0 /\ firstBuffer = TRUE
    /\ missed = FALSE /\ torn = FALSE

-----------------------------------------------------------------------------
(* vrr_run, for each buffer of sound: pvp_process.                         *)

\* cb_write: the first buffer whole, of the others what is new.
Write ==
    /\ runPc = "get" /\ eventIdx < MaxEvents
    /\ event' = pos
    /\ pos' = pos + (IF eventIdx = 0 THEN BufferSize ELSE Step)
    /\ runPc' = "detect"
    /\ UNCHANGED <<workPc, eventIdx, inited, quiet, discovered, queue, discarding,
                   stopped, readVars, analyserVars, missed>>

\* Once the usual noise is known only each Distance-th event is looked at.
Ignore ==
    /\ runPc = "detect" /\ inited /\ eventIdx % Distance # 0
    /\ eventIdx' = eventIdx + 1
    /\ runPc' = "get"
    /\ UNCHANGED <<workPc, pos, event, inited, quiet, discovered, queue,
                   discarding, stopped, readVars, analyserVars, missed>>

\* fsd_detect of an event in which there is, or is not, a signal.
Detect(hasSignal) ==
    /\ runPc = "detect" /\ (~inited \/ eventIdx % Distance = 0)
    /\ eventIdx' = eventIdx + 1
    /\ inited' \in {inited, TRUE}
    /\ quiet' = IF hasSignal THEN 0 ELSE Smaller(quiet + 1, Hangover)
    /\ UNCHANGED <<workPc, pos, event, stopped, readVars, analyserVars, missed>>

\* ms_onDetect and the end of the range put after this event.
Extended(hasSignal) ==
    IF discarding \/ queue = <<>> THEN queue
    ELSE [queue EXCEPT ![Len(queue)] =
            [Last EXCEPT !.total = @ + 1, !.end = event + Step,
                         !.valid = @ + (IF hasSignal THEN 1 ELSE 0)]]

\* A signal less than Hangover detections ago: the range goes on.
GoOn ==
    \E hasSignal \in BOOLEAN :
        /\ Detect(hasSignal)
        /\ quiet < (IF hasSignal THEN Hangover ELSE Hangover - 1)
        /\ queue' = Extended(hasSignal)
        /\ runPc' = "get"
        /\ UNCHANGED <<discovered, discarding>>

\* No signal, and none in progress.
Silence ==
    /\ Detect(FALSE) /\ quiet >= Hangover - 1 /\ ~Discovering
    /\ runPc' = "get"
    /\ UNCHANGED <<discovered, queue, discarding>>

\* The range ends with this event, and is marked so in a step of its own.
EndFound ==
    /\ Detect(FALSE) /\ quiet >= Hangover - 1 /\ Discovering
    /\ queue' = Extended(FALSE)
    /\ runPc' = "finish"
    /\ UNCHANGED <<discovered, discarding>>

\* msq_endDiscoverySignal.
EndDiscovery ==
    IF discarding
    THEN discarding' = FALSE /\ UNCHANGED queue
    ELSE queue' = SetLast("finished", TRUE) /\ UNCHANGED discarding

Finish ==
    /\ runPc = "finish"
    /\ EndDiscovery
    /\ runPc' = "get"
    /\ UNCHANGED <<workPc, pos, eventIdx, event, inited, quiet, discovered,
                   stopped, readVars, analyserVars, missed>>

\* A new range: pushed blank, or thrown away when the queue is full.
StartFound ==
    /\ Detect(TRUE) /\ quiet >= Hangover
    /\ discovered' = discovered + 1
    /\ \/ /\ Len(queue) >= Capacity
          /\ discarding' = TRUE /\ runPc' = "broadcast"
          /\ UNCHANGED queue
       \/ /\ Len(queue) < Capacity
          /\ queue' = Append(queue, Blank) /\ runPc' = "fillStart"
          /\ UNCHANGED discarding

\* The fields of the range that is in the queue already.
FillStart ==
    /\ runPc = "fillStart"
    /\ queue' = [queue EXCEPT ![Len(queue)] =
                    [Last EXCEPT !.idx = FirstIdx + discovered - 1, !.start = StartPos]]
    /\ runPc' = "fillEnd"
    /\ UNCHANGED <<workPc, runnerVars, stopped, readVars, analyserVars, missed>>

FillEnd ==
    /\ runPc = "fillEnd"
    /\ queue' = SetLast("end", event + Step)
    /\ runPc' = "broadcast"
    /\ UNCHANGED <<workPc, runnerVars, stopped, readVars, analyserVars, missed>>

\* cnd_broadcast wakes who waits, and nobody else.
Wake == workPc' = IF workPc = "wait" THEN "look" ELSE workPc

Broadcast ==
    /\ runPc = "broadcast"
    /\ Wake
    /\ missed' = (missed \/ workPc \in {"start", "test", "lock"})
    /\ runPc' = "get"
    /\ UNCHANGED <<runnerVars, queue, stopped, readVars, analyserVars>>

-----------------------------------------------------------------------------
(* vrr_run, for the NULL buffer of vr_stopRecognize.                       *)

GetNull ==
    /\ runPc = "get"
    /\ runPc' = "endAll"
    /\ UNCHANGED <<workPc, runnerVars, queue, stopped, readVars, analyserVars, missed>>

\* Faulty variant of EndAll: the range in progress is left so.
EndNone ==
    /\ runPc = "endAll"
    /\ runPc' = "setStopped"
    /\ UNCHANGED <<workPc, runnerVars, queue, stopped, readVars, analyserVars, missed>>

\* mmsq_endAllDiscoveryingSignals.
EndAll ==
    /\ runPc = "endAll"
    /\ IF Discovering THEN EndDiscovery ELSE UNCHANGED <<queue, discarding>>
    /\ runPc' = "setStopped"
    /\ UNCHANGED <<workPc, pos, eventIdx, event, inited, quiet, discovered,
                   stopped, readVars, analyserVars, missed>>

SetStopped ==
    /\ runPc = "setStopped"
    /\ stopped' = TRUE
    /\ runPc' = "broadcastStop"
    /\ UNCHANGED <<workPc, runnerVars, queue, readVars, analyserVars, missed>>

BroadcastStop ==
    /\ runPc = "broadcastStop"
    /\ Wake
    /\ runPc' = "spin"
    /\ UNCHANGED <<runnerVars, queue, stopped, readVars, analyserVars, missed>>

\* while(!realProcessThreadQuited); then vrr_run is over.
Spin ==
    /\ runPc = "spin" /\ workPc = "done"
    /\ runPc' = "done"
    /\ UNCHANGED <<workPc, runnerVars, queue, stopped, readVars, analyserVars, missed>>

-----------------------------------------------------------------------------
(* pvp_realProcess.                                                        *)

TestStopped ==
    /\ workPc \in {"start", "test"}
    /\ workPc' = IF stopped THEN "done" ELSE "lock"
    /\ UNCHANGED <<runPc, runnerVars, queue, stopped, readVars, analyserVars, missed>>

\* Between the test of stopped and the wait nothing is checked again.
CondWait ==
    /\ workPc = "lock"
    /\ workPc' = "wait"
    /\ UNCHANGED <<runPc, runnerVars, queue, stopped, readVars, analyserVars, missed>>

SpuriousWakeup ==
    /\ workPc = "wait"
    /\ workPc' = "look"
    /\ UNCHANGED <<runPc, runnerVars, queue, stopped, readVars, analyserVars, missed>>

\* Faulty variant of StartRecognize: ranges still queued at the stop are left.
StartRecognizeUnstopped ==
    /\ workPc = "look"
    /\ workPc' = IF queue = <<>> \/ stopped THEN "test" ELSE "assess"
    /\ missed' = FALSE
    /\ UNCHANGED <<runPc, runnerVars, queue, stopped, readVars, analyserVars>>

\* mmsq_startRecognizeSignal: the oldest range, or NULL.
StartRecognize ==
    /\ workPc = "look"
    /\ workPc' = IF queue = <<>> THEN "test" ELSE "assess"
    /\ missed' = FALSE
    /\ UNCHANGED <<runPc, runnerVars, queue, stopped, readVars, analyserVars>>

\* While the range is optional, small and not finished the worker sleeps.
Assess ==
    /\ workPc = "assess"
    /\ ~(Optional(Oldest) /\ ~Finished(Oldest) /\ Small(Oldest))
    /\ workPc' = "decide"
    /\ UNCHANGED <<runPc, runnerVars, queue, stopped, readVars, analyserVars, missed>>

Unworthy(s) == Optional(s) /\ Finished(s) /\ Small(s)

Skip ==
    /\ workPc = "decide" /\ Unworthy(Oldest)
    /\ workPc' = "skipped"
    /\ UNCHANGED <<runPc, runnerVars, queue, stopped, readVars, analyserVars, missed>>

\* signal->startPos is read twice, and may be filled in between.
BeginProcess ==
    /\ workPc = "decide" /\ ~Unworthy(Oldest)
    /\ processPos' = Oldest.start
    /\ workPc' = "begin"
    /\ UNCHANGED <<runPc, runnerVars, queue, stopped, from, wanted, recognizePos, dataPos,
                   firstBuffer, torn, analyserVars, missed>>

BeginRecognize ==
    /\ workPc = "begin"
    /\ from' = Oldest.start /\ recognizePos' = Oldest.start
    /\ torn' = (Oldest.start # processPos)
    /\ dataPos' = 0 /\ firstBuffer' = TRUE
    /\ workPc' = "read"
    /\ UNCHANGED <<runPc, runnerVars, queue, stopped, wanted, processPos, analyserVars, missed>>

Read ==
    /\ workPc = "read"
    /\ wanted' = Smaller(Oldest.end - recognizePos, BufferSize - dataPos)
    /\ workPc' = "take"
    /\ UNCHANGED <<runPc, runnerVars, queue, stopped, from, processPos,
                   recognizePos, dataPos, firstBuffer, torn, analyserVars, missed>>

\* What cb_read's memcpy makes of a negative length.
TakeNegative ==
    /\ workPc = "take" /\ wanted < 0 /\ recognizePos < pos
    /\ pos - History <= recognizePos
    /\ workPc' = "crashed" /\ runPc' = "crashed"
    /\ UNCHANGED <<runnerVars, queue, stopped, readVars, analyserVars, missed>>

TakeOverwritten ==
    /\ workPc = "take" /\ recognizePos < pos - History
    /\ workPc' = "outOfDate"
    /\ UNCHANGED <<runPc, runnerVars, queue, stopped, readVars, analyserVars, missed>>

\* cb_read has nothing: the end so far was reached, or nothing is written.
TakeNothing ==
    /\ workPc = "take"
    /\ recognizePos = pos \/ (wanted = 0 /\ pos - History <= recognizePos)
    /\ workPc' = "atEnd"
    /\ UNCHANGED <<runPc, runnerVars, queue, stopped, readVars, analyserVars, missed>>

\* How far a processed buffer moves processPos.
Advance == IF firstBuffer THEN BufferSize ELSE Step

\* fvp_process: of a range's first buffer the analyser takes all, of the others
\* what is new.
Analyse == analyserFirst' = FALSE

\* fvp_process without a buffer: the analyser ends the range.
AnalyseEnd == analyserFirst' = TRUE /\ leftOver' = FALSE

\* The assertion that follows a full buffer, which ends the program if it fails.
PositionsAgree ==
    IF processPos' = recognizePos'
    THEN workPc' = "read" /\ UNCHANGED runPc
    ELSE workPc' = "crashed" /\ runPc' = "crashed"

\* cb_read has something; a full buffer is analysed and its overlap kept.
Take ==
    /\ workPc = "take" /\ wanted > 0
    /\ pos - History <= recognizePos /\ recognizePos < pos
    /\ LET got == Smaller(wanted, pos - recognizePos)
       IN  /\ recognizePos' = recognizePos + got
           /\ IF dataPos + got >= BufferSize
              THEN processPos' = processPos + Advance /\ dataPos' = Overlap
                     /\ firstBuffer' = FALSE /\ Analyse /\ PositionsAgree
              ELSE dataPos' = dataPos + got /\ workPc' = "read"
                     /\ UNCHANGED <<runPc, processPos, firstBuffer, analyserFirst>>
    /\ UNCHANGED <<runnerVars, queue, stopped, from, wanted, torn, leftOver, missed>>

\* The end so far of a range that may still grow: the worker sleeps.
ReadOn ==
    /\ workPc = "atEnd"
    /\ ~(Finished(Oldest) /\ Oldest.end <= recognizePos)
    /\ workPc' = "read"
    /\ UNCHANGED <<runPc, runnerVars, queue, stopped, readVars, analyserVars, missed>>

\* Faulty variant of AtEnd: a range that still grows is taken for read.
AtEndSoFar ==
    /\ workPc = "atEnd"
    /\ Oldest.end <= recognizePos
    /\ AnalyseEnd
    /\ workPc' = "recognised"
    /\ UNCHANGED <<runPc, runnerVars, queue, stopped, readVars, missed>>

\* The end of a finished range.
AtEnd ==
    /\ workPc = "atEnd"
    /\ Finished(Oldest) /\ Oldest.end <= recognizePos
    /\ AnalyseEnd
    /\ workPc' = "recognised"
    /\ UNCHANGED <<runPc, runnerVars, queue, stopped, readVars, missed>>

\* Faulty variant of GiveUp: its end is not waited for.
GiveUpAtOnce ==
    /\ workPc = "outOfDate"
    /\ leftOver' = ~analyserFirst
    /\ workPc' = "outdated"
    /\ UNCHANGED <<runPc, runnerVars, queue, stopped, readVars, analyserFirst, missed>>

\* A range out of date is given up, once its end is known; the analyser is
\* not told.
GiveUp ==
    /\ workPc = "outOfDate" /\ Finished(Oldest)
    /\ leftOver' = ~analyserFirst
    /\ workPc' = "outdated"
    /\ UNCHANGED <<runPc, runnerVars, queue, stopped, readVars, analyserFirst, missed>>

\* mmsq_endRecognizeSignal.
EndRecognize ==
    /\ workPc \in {"recognised", "outdated", "skipped"}
    /\ queue' = Tail(queue)
    /\ workPc' = "look"
    /\ UNCHANGED <<runPc, runnerVars, stopped, readVars, analyserVars, missed>>

-----------------------------------------------------------------------------
Detection == Write \/ Ignore \/ GoOn \/ Silence \/ EndFound \/ Finish
               \/ StartFound \/ FillStart \/ FillEnd \/ Broadcast

Stopping == GetNull \/ EndAll \/ SetStopped \/ BroadcastStop \/ Spin

Worker == TestStopped \/ CondWait \/ StartRecognize \/ Assess \/ Skip
            \/ BeginProcess \/ BeginRecognize \/ Read \/ TakeNegative \/ TakeOverwritten \/ TakeNothing \/ Take
            \/ ReadOn \/ AtEnd \/ GiveUp \/ EndRecognize

Next == Detection \/ Stopping \/ Worker \/ SpuriousWakeup

Spec == Init /\ [][Next]_vars

\* The worker is scheduled; the microphone and the service may stop anywhere.
FairSpec == Spec /\ WF_vars(Worker)

-----------------------------------------------------------------------------
(* Properties.                                                             *)

\* The program's own assertions, with the two threads in any order: the
\* detector extends a range it has and starts one only when it has none (926,
\* 1192, 1219), the buffer holds what is read (2076, 2112) and the positions
\* agree after each buffer (2093, 2124), and the range that is taken off the
\* queue is there and finished (1004).  The positions agree but in one case: the
\* range was pushed blank and its start was filled in between the worker's two
\* reads of it (2054, 2055 against 940).
AssertsHold ==
    /\ runPc = "detect" => (Discovering <=> quiet < Hangover)
    /\ workPc = "take" => wanted + dataPos <= BufferSize
    /\ workPc # "begin" /\ ~torn =>
         /\ ~firstBuffer /\ dataPos = Overlap => processPos = recognizePos
         /\ processPos <= recognizePos
    /\ workPc \in {"recognised", "outdated", "skipped"} =>
         queue # <<>> /\ Finished(Oldest)

\* What the worker makes of a range is right when the range leaves the queue,
\* although its end moves while the worker reads: it was read to its final
\* end, from its start or, when the worker saw it blank, from 0; or sound of
\* it was overwritten; or it is small and was never analysed.  The analyser
\* begins with the range, but for one that follows a range given up.
OutcomeIsTrue ==
    /\ workPc = "recognised" =>
         /\ Finished(Oldest) /\ recognizePos = Oldest.end
         /\ from \in {0, Oldest.start}
    /\ workPc = "outdated" => recognizePos < pos - History
    /\ workPc = "skipped" => Finished(Oldest) /\ Small(Oldest)
    /\ workPc \in {"read", "take", "atEnd"} =>
         IF firstBuffer THEN analyserFirst \/ leftOver ELSE ~analyserFirst

\* After a stop the worker leaves no range behind but one whose broadcast came
\* when the worker had looked and was not waiting yet.
QuitLeavesOnlyMissed ==
    workPc = "done" /\ queue # <<>> => missed

\* vr_stopRecognize ends the worker, on which vrr_run and then the service
\* wait, unless the one broadcast came between the worker's test of stopped
\* and its wait.
StopHeard ==
    runPc = "spin" /\ workPc \notin {"lock", "wait"} ~> workPc \in {"done", "crashed"}
=============================================================================
