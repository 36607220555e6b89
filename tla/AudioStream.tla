----------------------------- MODULE AudioStream -----------------------------
(***************************************************************************)
(* What the recorder (PROC_VOICE, recorder.c and AudioQueue.c) promises to *)
(* the recogniser: it hears the recorded periods in order, each of them    *)
(* whole or not at all, and one is left out only when there is no room.    *)
(***************************************************************************)
EXTENDS Integers, Sequences

CONSTANTS
    Period,  \* bytes in one period of sound
    Room     \* bytes that may wait to be heard

VARIABLES
    recorded,  \* periods offered so far
    buffered,  \* bytes accepted and not taken
    taken,     \* bytes on their way to the recogniser
    heard      \* bytes the recogniser was given

\* The bytes of period p, each with a number of its own.
Chunk(p) == [i \in 1 .. Period |-> p * Period + i]

Init == recorded = 0 /\ buffered = <<>> /\ taken = <<>> /\ heard = <<>>

Accept ==
    /\ Len(buffered) + Period <= Room
    /\ buffered' = buffered \o Chunk(recorded)
    /\ recorded' = recorded + 1
    /\ UNCHANGED <<taken, heard>>

Drop ==
    /\ Len(buffered) + Period > Room
    /\ recorded' = recorded + 1
    /\ UNCHANGED <<buffered, taken, heard>>

Take ==
    /\ taken = <<>> /\ buffered # <<>>
    /\ taken' = buffered /\ buffered' = <<>>
    /\ UNCHANGED <<recorded, heard>>

Hear ==
    /\ taken # <<>>
    /\ heard' = heard \o taken /\ taken' = <<>>
    /\ UNCHANGED <<recorded, buffered>>

Next == Accept \/ Drop \/ Take \/ Hear

Spec == Init /\ [][Next]_<<recorded, buffered, taken, heard>>
=============================================================================
