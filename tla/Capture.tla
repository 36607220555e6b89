------------------------------- MODULE Capture -------------------------------
(***************************************************************************)
(* The way of the sound from the recorder's queue to the recogniser's      *)
(* history (PROC_VOICE): recorder.c hands what it read to bdw_write, which *)
(* cuts it into buffers that overlap and passes them on through a pool of  *)
(* buffers; the thread in vrr_run writes the new part of each to the       *)
(* circular history (cb_write), from which the worker reads (cb_read).     *)
(* Those two take no lock: cb_write copies and moves the position          *)
(* afterwards, so these are two steps, and what the worker would read      *)
(* between them is a question of its own (HistoryReads).                   *)
(*                                                                         *)
(* The reading thread runs bdw_write inside its callback, so these actions *)
(* take the place of a callback in one step.  The pool is a library:       *)
(* its calls are atomic, b_getEmpty and b_getFull wait, and b_reset makes  *)
(* every full buffer empty.  A byte is a number; the sound is not paused.  *)
(***************************************************************************)
EXTENDS Recorder

CONSTANTS
    Step,     \* byteStepSize
    Overlap,  \* byteOverlap
    Pool,     \* DEFAULT_BUFFER_COUNT
    History   \* bytes voiceHistory holds

\* bdw_init.
BufferSize == Overlap + Step

ASSUME BuffersAssumption ==
    /\ Step \in Nat \ {0} /\ Overlap \in 0 .. Step
    /\ Pool \in Nat \ {0} /\ History \in Nat /\ BufferSize <= History

VARIABLES
    buffer,       \* the writer's buffer
    filled,       \* currBufferFilled
    held,         \* currBuffer is not NULL
    firstBuffer,
    wrote,        \* dataWrote
    empty,        \* buffers of the pool that are empty
    full,         \* contents of those that are full, oldest first
    runPc,        \* vrr_run
    firstEvent,   \* firstBuffer of the processor
    history,      \* voiceHistory's data
    pos,          \* and its position
    writing,      \* bytes cb_write has copied and pos does not count yet
    \* History, read by no action of the program:
    dropped       \* buffers b_reset emptied

writerVars == <<buffer, filled, held, firstBuffer, wrote>>
poolVars == <<empty, full>>
historyVars == <<firstEvent, history, pos, writing>>
captureVars == <<writerVars, poolVars, runPc, historyVars, dropped>>
allVars == <<vars, captureVars>>

\* bd_getNullBuffer.
NullBuffer == <<>>

Smaller(a, b) == IF a <= b THEN a ELSE b

Silence(n) == [i \in 1 .. n |-> 0]

-----------------------------------------------------------------------------
(* The circular history, of which the worker reads.                        *)

\* Faulty variant of CbWrite: what passes the end is not put at the start.
CbWriteStraight(data) == Copy(data, pos % History, history)

CbWrite(data) ==
    LET at == pos % History
        firstPart == Smaller(History - at, Len(data))
    IN  Copy(SubSeq(data, firstPart + 1, Len(data)), 0,
             Copy(SubSeq(data, 1, firstPart), at, history))

\* The test of cb_read, for the position it read first.
InHistory(start, seen) == start >= seen - History /\ start <= seen

\* What its copy brings: at most n bytes from start on.
CbRead(start, n, seen) ==
    LET size == Smaller(n, seen - start)
    IN  [i \in 1 .. size |-> history[(start + i - 1) % History]]

-----------------------------------------------------------------------------
\* RecorderVoiceRecog: the recording runs before the recogniser's thread.
CaptureInit ==
    /\ Init
    /\ buffer = Silence(BufferSize) /\ filled = 0 /\ held = FALSE
    /\ firstBuffer = TRUE /\ wrote = 0
    /\ empty = Pool /\ full = <<>>
    /\ runPc = "start" /\ firstEvent = TRUE
    /\ history = [i \in 0 .. History - 1 |-> 0] /\ pos = 0 /\ writing = 0
    /\ dropped = 0

-----------------------------------------------------------------------------
(* bdw_write, in the callback of QueueReadThread.                          *)

\* The end of the buffer before, moved to the start.
Overlapped == Copy(SubSeq(buffer, Step + 1, BufferSize), 1, buffer)

GetBuffer ==
    /\ readPc = "callback" /\ ~held
    /\ empty > 0
    /\ empty' = empty - 1 /\ held' = TRUE
    /\ IF firstBuffer THEN UNCHANGED <<buffer, filled>>
       ELSE buffer' = Overlapped /\ filled' = Overlap
    /\ UNCHANGED <<vars, firstBuffer, wrote, full, runPc, historyVars, dropped>>

\* The bytes the callback has not cut yet, and how many the buffer takes.
Rest == SubSeq(taken, wrote + 1, Len(taken))
Portion == Smaller(Len(Rest), BufferSize - filled)

\* One turn of the loop: a full buffer is passed on; the last turn ends the
\* callback.
Fill ==
    /\ readPc = "callback" /\ held
    /\ buffer' = Copy(SubSeq(Rest, 1, Portion), filled + 1, buffer)
    /\ IF Len(Rest) >= BufferSize - filled
       THEN full' = Append(full, buffer') /\ held' = FALSE /\ filled' = 0
       ELSE filled' = filled + Portion /\ UNCHANGED <<full, held>>
    /\ firstBuffer' = FALSE
    /\ IF wrote + Portion = Len(taken)
       THEN wrote' = 0 /\ Callback
       ELSE wrote' = wrote + Portion /\ UNCHANGED vars
    /\ UNCHANGED <<empty, runPc, historyVars, dropped>>

-----------------------------------------------------------------------------
(* vr_stopRecognize, which the service calls once stopRecord has returned. *)

\* Faulty variant of Flushed: a buffer that is not full is not sent.
FlushedFull == <<>>

\* bdw_flush: what is filled of the current buffer, and silence.
Flushed ==
    IF held THEN <<SubSeq(buffer, 1, filled) \o Silence(BufferSize - filled)>>
    ELSE <<>>

\* By then the recogniser's thread has begun: a session lasts until a string
\* was recognised or the timer went off.
StopRecognize ==
    /\ stopPc = "stopped" /\ runPc # "start"
    /\ full' = full \o Flushed \o <<NullBuffer>>
    /\ held' = FALSE /\ filled' = 0
    /\ stopPc' = "flushed"
    /\ UNCHANGED <<recordPc, readPc, runing, queueVars, set, streamVars>>
    /\ UNCHANGED <<buffer, firstBuffer, wrote, empty, runPc, historyVars, dropped>>

-----------------------------------------------------------------------------
(* vrr_run.                                                                *)

BufferReset ==
    /\ runPc = "start"
    /\ full' = <<>> /\ empty' = empty + Len(full)
    /\ dropped' = Len(full)
    /\ runPc' = "get"
    /\ UNCHANGED <<vars, writerVars, historyVars>>

\* pvp_process of a buffer up to the copy of cb_write: the first event whole,
\* of the others what is new.
Process ==
    /\ runPc = "get" /\ full # <<>> /\ Head(full) # NullBuffer
    /\ LET data == IF firstEvent THEN Head(full)
                   ELSE SubSeq(Head(full), Overlap + 1, BufferSize)
       IN  history' = CbWrite(data) /\ writing' = Len(data)
    /\ full' = Tail(full) /\ firstEvent' = FALSE
    /\ runPc' = "written"
    /\ UNCHANGED <<vars, writerVars, empty, pos, dropped>>

\* The end of cb_write: the bytes that were copied count.
MovePos ==
    /\ runPc = "written"
    /\ pos' = pos + writing /\ writing' = 0
    /\ runPc' = "put"
    /\ UNCHANGED <<vars, writerVars, poolVars, firstEvent, history, dropped>>

\* Faulty variant of PutEmpty: the buffer is kept.
PutNothing ==
    /\ runPc = "put"
    /\ runPc' = "get"
    /\ UNCHANGED <<vars, writerVars, poolVars, historyVars, dropped>>

\* The detection of the range over (module Recognise), the buffer goes back.
PutEmpty ==
    /\ runPc = "put"
    /\ empty' = empty + 1
    /\ runPc' = "get"
    /\ UNCHANGED <<vars, writerVars, full, historyVars, dropped>>

ProcessNull ==
    /\ runPc = "get" /\ full # <<>> /\ Head(full) = NullBuffer
    /\ full' = Tail(full)
    /\ runPc' = "done"
    /\ UNCHANGED <<vars, writerVars, empty, historyVars, dropped>>

-----------------------------------------------------------------------------
\* A step of the recorder in which bdw_write has no part.
Alone(A) == A /\ UNCHANGED captureVars

Record  == Alone(RecordThread)
Reading == Alone(QueueReader) \/ GetBuffer \/ Fill
Joining == Alone(Join) \/ StopRecognize
Running == BufferReset \/ Process \/ MovePos \/ PutEmpty \/ ProcessNull

CaptureNext ==
    \/ Record \/ Reading \/ Joining \/ Running
    \/ Alone(ReadDeviceFails) \/ Alone(SpuriousWakeup) \/ Alone(StopRecord)

CaptureSpec == CaptureInit /\ [][CaptureNext]_allVars

\* The threads are scheduled and the device answers.  Nobody has to stop the
\* recording, and nobody can rely on a spurious wake-up.
CaptureFairSpec ==
    /\ CaptureSpec
    /\ WF_allVars(Record) /\ WF_allVars(Reading)
    /\ WF_allVars(Joining) /\ WF_allVars(Running)

-----------------------------------------------------------------------------
(* Properties.                                                             *)

\* What bdw_write was given, the bytes of the callback in progress included.
Given == heard \o SubSeq(taken, 1, wrote)

\* The sound from the history's first byte on, and silence after its end.
SoundAt(i) == LET at == dropped * Step + i
              IN  IF at <= Len(Given) THEN Given[at] ELSE 0

\* Wherever a period, a buffer and the history end, and whatever the pool makes
\* wait: what a read of the history (cb_read 2393) copies is the sound from its
\* first byte on, each byte once and in order, although every buffer repeats the
\* end of the one before and the history is a circle.  seen is the position the
\* read began with, which may be older than pos; a copy that lasts is one of
\* these reads for each of its bytes.  The test of cb_read is not enough for
\* that: between the copy and the move of cb_write, and after a move the read
\* did not see, it lets pass bytes that are written over already.  All others
\* are right, and these bytes are the only exception.
HistoryReads ==
    \A seen \in 0 .. pos, n \in 1 .. BufferSize : \A start \in 0 .. seen :
        InHistory(start, seen) /\ start >= pos + writing - History =>
            CbRead(start, n, seen) =
                [i \in 1 .. Smaller(n, seen - start) |-> SoundAt(start + i)]

\* The history has passed every byte the callbacks were given, the part of a
\* buffer included, when the recogniser ends after the recording was stopped
\* (vr_stopRecognize, voiceRecog.c 283): only what b_reset emptied is missing.
AllIsWritten ==
    runPc = "done" =>
        Len(heard) - dropped * Step
          <= IF dropped > 0 /\ pos = 0 THEN Overlap ELSE pos

\* No wake-up is lost and no buffer of the pool: what is in the queue is heard
\* while the recording goes on, even if the device never delivers another
\* period.
QueuedIsHeard ==
    \A p \in 0 .. MaxPeriods - 1 :
        (\E i \in DOMAIN Content : Content[i] = (p + 1) * Period)
          ~> (\E i \in DOMAIN heard : heard[i] = (p + 1) * Period)
               \/ ~runing \/ Crashed

\* stopRecord joins both threads (recorder.c 422-423): it returns, unless the
\* reading thread tested runing before it was cleared and has come to wait for
\* the event with nobody left to set it.
StopReturns ==
    stopPc = "joinRecord"
      ~> \/ stopPc \notin {"joinRecord", "joinRead"}
         \/ recordPc = "done" /\ readPc = "wait" /\ ~set
=============================================================================
