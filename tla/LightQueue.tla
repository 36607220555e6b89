----------------------------- MODULE LightQueue -----------------------------
(***************************************************************************)
(* What the light thread of the peripherals process (PROC_PERIPHERALS,     *)
(* perip.c and ringbuffer.c) promises: the lights show commands in the     *)
(* order they came, each at most once, and a command is left out only when *)
(* as many as there is room for are waiting.                               *)
(***************************************************************************)
EXTENDS Integers, Sequences

CONSTANT Room  \* commands that may wait

VARIABLES
    offered,  \* commands received so far; each is its number
    waiting,  \* commands queued and not taken
    hand,     \* the command taken and not shown, or none
    shown     \* commands the device was given

Init == offered = 0 /\ waiting = <<>> /\ hand = <<>> /\ shown = <<>>

Receive(next) ==
    /\ offered' = offered + 1
    /\ waiting' = next
    /\ UNCHANGED <<hand, shown>>

Accept == Len(waiting) < Room /\ Receive(Append(waiting, offered + 1))

Drop == Len(waiting) = Room /\ Receive(waiting)

Take ==
    /\ waiting # <<>> /\ hand = <<>>
    /\ hand' = <<Head(waiting)>> /\ waiting' = Tail(waiting)
    /\ UNCHANGED <<offered, shown>>

Show ==
    /\ hand # <<>>
    /\ shown' = shown \o hand /\ hand' = <<>>
    /\ UNCHANGED <<offered, waiting>>

Next == Accept \/ Drop \/ Take \/ Show
=============================================================================
