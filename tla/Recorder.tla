------------------------------ MODULE Recorder ------------------------------
(***************************************************************************)
(* The recorder of the network configuration process (PROC_VOICE): the     *)
(* thread that reads the sound device, the thread that feeds the           *)
(* recogniser, the byte queue and the event between them, and stopRecord.  *)
(*                                                                         *)
(* queue_write and queue_read hold the queue's mutex from the first access *)
(* to the last, so each is one action; the event is set after the mutex is *)
(* given back, and waited for before it is taken.  The module Capture adds *)
(* what the reading thread's callback does and the threads after it.       *)
(***************************************************************************)
EXTENDS Integers, Sequences

CONSTANTS
    Period,      \* bytes of one period that RecordThread queues
    Capacity,    \* queue->capacity; one byte of it stays free
    MaxPeriods   \* bound: periods the device delivers

ASSUME SizesAssumption ==
    /\ Period \in Nat \ {0} /\ Capacity \in Nat /\ Period < Capacity
    /\ MaxPeriods \in Nat

VARIABLES
    recordPc,  \* RecordThread
    readPc,    \* QueueReadThread
    stopPc,    \* the thread that calls stopRecord
    runing,    \* record->runing
    ring,      \* the queue's data, 0 is what malloc left there
    front,
    rear,
    set,       \* sync_event->set
    taken,     \* what queue_read returned and the callback has not had
    recorded,  \* periods read from the device and offered to the queue
    \* History, read by no action of the program:
    heard      \* bytes recorder->rPwrite was given

queueVars == <<ring, front, rear>>
streamVars == <<taken, recorded, heard>>
vars == <<recordPc, readPc, stopPc, runing, queueVars, set, streamVars>>

Crashed == recordPc = "crashed"

\* The bytes of a period, numbered from 1 over all periods.
Chunk(p) == [i \in 1 .. Period |-> p * Period + i]

-----------------------------------------------------------------------------
(* The byte queue.                                                         *)

Len_asyn == (rear - front + Capacity) % Capacity

Left_asyn == Capacity - 1 - Len_asyn

\* memcpy of data to position at.
Copy(data, at, to) ==
    [i \in DOMAIN to |-> IF i \in at .. at + Len(data) - 1
                         THEN data[i - at + 1] ELSE to[i]]

\* Faulty variant of Written: what passes the end is not put at the start.
WrittenStraight(data) == Copy(data, rear, ring)

\* The data area from rear on, in one piece or in two.
Written(data) ==
    IF rear + Len(data) <= Capacity - 1
    THEN Copy(data, rear, ring)
    ELSE LET len1 == Capacity - 1 - rear + 1
         IN  Copy(SubSeq(data, len1 + 1, Len(data)), 0,
                  Copy(SubSeq(data, 1, len1), rear, ring))

\* n bytes of the data area from position at.
Piece(at, n) == [i \in 1 .. n |-> ring[at + i - 1]]

\* The len bytes from front on, in one piece or in two.
Readout(len) ==
    IF front + len <= Capacity - 1
    THEN Piece(front, len)
    ELSE LET len1 == Capacity - 1 - front + 1
         IN  Piece(front, len1) \o Piece(0, len - len1)

Moved(position, len) == (position + len) % Capacity

-----------------------------------------------------------------------------
\* startRecord, when every step of it succeeds.
Init ==
    /\ recordPc = "test" /\ readPc = "test" /\ stopPc = "recording"
    /\ runing = TRUE
    /\ ring = [i \in 0 .. Capacity - 1 |-> 0] /\ front = 0 /\ rear = 0
    /\ set = FALSE
    /\ taken = <<>> /\ recorded = 0 /\ heard = <<>>

-----------------------------------------------------------------------------
(* RecordThread.                                                           *)

TestRecording ==
    /\ recordPc = "test"
    /\ recordPc' = IF runing THEN "readi" ELSE "done"
    /\ UNCHANGED <<readPc, stopPc, runing, queueVars, set, streamVars>>

\* A whole period; an overrun or a short read, after which the loop goes on.
ReadDevice ==
    /\ recordPc = "readi"
    /\ \/ recorded < MaxPeriods /\ recordPc' = "write"
       \/ recordPc' = "test"
    /\ UNCHANGED <<readPc, stopPc, runing, queueVars, set, streamVars>>

\* Any other error: the callback is given a NULL recorder and follows it.
ReadDeviceFails ==
    /\ recordPc = "readi"
    /\ recordPc' = "crashed" /\ readPc' = "crashed" /\ stopPc' = "crashed"
    /\ UNCHANGED <<runing, queueVars, set, streamVars>>

\* queue_write's false is not below 0: a period without room is not retried.
QueueWrite ==
    /\ recordPc = "write"
    /\ \/ /\ Left_asyn < Period
          /\ recordPc' = "test"
          /\ UNCHANGED queueVars
       \/ /\ Left_asyn >= Period
          /\ ring' = Written(Chunk(recorded))
          /\ rear' = Moved(rear, Period)
          /\ recordPc' = "signal"
          /\ UNCHANGED front
    /\ recorded' = recorded + 1
    /\ UNCHANGED <<readPc, stopPc, runing, set, taken, heard>>

\* Faulty variant of EventSet: a signal that is lost on a thread not waiting.
SignalOnly ==
    /\ recordPc = "signal"
    /\ set' = (readPc = "wait")
    /\ recordPc' = "test"
    /\ UNCHANGED <<readPc, stopPc, runing, queueVars, streamVars>>

\* native_event_set.
EventSet ==
    /\ recordPc = "signal"
    /\ set' = TRUE
    /\ recordPc' = "test"
    /\ UNCHANGED <<readPc, stopPc, runing, queueVars, streamVars>>

-----------------------------------------------------------------------------
(* QueueReadThread.                                                        *)

TestReading ==
    /\ readPc = "test"
    /\ readPc' = IF runing THEN "wait" ELSE "done"
    /\ UNCHANGED <<recordPc, stopPc, runing, queueVars, set, streamVars>>

\* The end of native_event_wait, which clears the event.
Awake ==
    /\ set' = FALSE /\ readPc' = "take"
    /\ UNCHANGED <<recordPc, stopPc, runing, queueVars, streamVars>>

EventWait == readPc = "wait" /\ set /\ Awake

\* pthread_cond_timedwait is not in a loop; its time-out is 24 days.
SpuriousWakeup == readPc = "wait" /\ ~set /\ Awake

\* With nothing in the queue the thread sleeps 16 ms and goes on.
QueueRead ==
    /\ readPc = "take"
    /\ taken' = Readout(Len_asyn)
    /\ front' = Moved(front, Len_asyn)
    /\ readPc' = IF Len_asyn <= 0 THEN "test" ELSE "callback"
    /\ UNCHANGED <<recordPc, stopPc, runing, ring, rear, set, recorded, heard>>

\* recorderCallback: rPwrite, then the buffer is freed.
Callback ==
    /\ readPc = "callback"
    /\ heard' = heard \o taken /\ taken' = <<>>
    /\ readPc' = "test"
    /\ UNCHANGED <<recordPc, stopPc, runing, queueVars, set, recorded>>

-----------------------------------------------------------------------------
(* stopRecord.                                                             *)

StopRecord ==
    /\ stopPc = "recording"
    /\ runing' = FALSE /\ stopPc' = "joinRecord"
    /\ UNCHANGED <<recordPc, readPc, queueVars, set, streamVars>>

JoinRecord ==
    /\ stopPc = "joinRecord" /\ recordPc = "done"
    /\ stopPc' = "joinRead"
    /\ UNCHANGED <<recordPc, readPc, runing, queueVars, set, streamVars>>

\* After it the queue, the buffers and the record itself are freed.
JoinRead ==
    /\ stopPc = "joinRead" /\ readPc = "done"
    /\ stopPc' = "stopped"
    /\ UNCHANGED <<recordPc, readPc, runing, queueVars, set, streamVars>>

-----------------------------------------------------------------------------
RecordThread == TestRecording \/ ReadDevice \/ QueueWrite \/ EventSet
QueueReader  == TestReading \/ EventWait \/ QueueRead
Join         == JoinRecord \/ JoinRead

-----------------------------------------------------------------------------
(* Properties.                                                             *)

\* The bytes between front and rear.
Content == [i \in 1 .. Len_asyn |-> ring[(front + i - 1) % Capacity]]

Stream == INSTANCE AudioStream WITH Room <- Capacity - 1, buffered <- Content

\* Whatever the positions of front and rear, and whichever thread is between
\* the mutex and the event: what the recogniser hears is the recorded periods
\* in order, each whole or left out for want of room.
ImplementsStream == Stream!Spec
=============================================================================
