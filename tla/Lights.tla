------------------------------- MODULE Lights -------------------------------
(***************************************************************************)
(* The lights of the peripherals process (PROC_PERIPHERALS): main() puts   *)
(* each light command it receives into a ring buffer and signals a         *)
(* condition; the thread Customer waits for the condition, takes one       *)
(* record and gives it to the device.                                      *)
(*                                                                         *)
(* Neither side takes a mutex that the other holds, so one action below is *)
(* one access to a cursor the other side writes, in the order of the       *)
(* statements: the build asks for no optimisation.  The ring is as long as *)
(* six records and every transfer is one record, so a record is the unit:  *)
(* the byte rb_can_write keeps free costs one record of room.  Until the   *)
(* thread is woken without a signal main() never writes to the record that *)
(* rcursor is at, so a copy and the move of the cursor after it are one    *)
(* step; the record is in the buffer before wcursor passes it.             *)
(***************************************************************************)
EXTENDS Integers, Sequences

CONSTANTS
    Records,      \* records the ring is long: 6
    MaxCommands,  \* bound: light commands main() receives
    MaxSpurious   \* bound: spurious wake-ups

ASSUME SizesAssumption ==
    Records \in Nat \ 0 .. 2 /\ MaxCommands \in Nat /\ MaxSpurious \in Nat

VARIABLES
    mainPc,    \* main(), inside one light command
    wraps,     \* rb_write took the branch that resets wcursor at the end
    readPc,    \* Customer
    round,     \* which evaluation of rb_can_read inside min() this is
    need,      \* records this call of rb_read still has to bring
    buffer,    \* rb_buffer; 0 is what malloc left there
    rcursor,
    wcursor,
    ledData,   \* Customer's record
    offered,   \* commands received; a record is the number of its command
    \* History, read by no action of the program:
    shown,     \* records given to the device
    spurious   \* times the condition wait returned without a signal

ring == <<buffer, rcursor, wcursor>>
call == <<round, need>>
vars == <<mainPc, wraps, readPc, call, ring, ledData, offered, shown, spurious>>

Index == 0 .. Records - 1

-----------------------------------------------------------------------------
(* ringbuffer.c                                                            *)

\* What rb_can_read returns when nothing moves meanwhile.
CanRead ==
    IF rcursor <= wcursor THEN wcursor - rcursor
                          ELSE Records - (rcursor - wcursor)

\* Faulty variant of NoRoom: no room is kept to tell full from empty.
NoRoomAtAll(readable) == Records - readable = 0

\* count > rb_can_write, whose value is a size_t: one record and more, and what
\* would be less than nothing, are room.
NoRoom(readable) == Records - readable - 1 = 0

-----------------------------------------------------------------------------
\* LedInit: an empty ring; the thread has not reached its wait.
Init ==
    /\ mainPc = "loop" /\ wraps = FALSE /\ readPc = "start"
    /\ round = 1 /\ need = 1
    /\ buffer = [i \in Index |-> 0] /\ rcursor = 0 /\ wcursor = 0
    /\ ledData = 0 /\ offered = 0
    /\ shown = <<>> /\ spurious = 0

-----------------------------------------------------------------------------
(* main(): PKT_BLNS_SYSTEM_STATUS or PKT_BLNS_VALUE_STATUS.  rb_can_write   *)
(* reads rcursor up to three times, each time as it stands then; rb_write   *)
(* gives up when there is no room, and nobody looks at its result.          *)

IfRoom(readable) ==
    /\ mainPc' = IF NoRoom(readable) THEN "signal" ELSE "put"
    /\ offered' = IF NoRoom(readable) THEN offered + 1 ELSE offered

\* A command arrives; rcursor == wcursor?
TestEmpty ==
    /\ mainPc = "loop" /\ offered < MaxCommands
    /\ IF rcursor = wcursor THEN IfRoom(0)
                              ELSE mainPc' = "order" /\ UNCHANGED offered
    /\ UNCHANGED <<wraps, readPc, call, ring, ledData, shown, spurious>>

\* rcursor < wcursor?
TestOrder ==
    /\ mainPc = "order"
    /\ mainPc' = IF rcursor < wcursor THEN "above" ELSE "below"
    /\ UNCHANGED <<wraps, readPc, call, ring, ledData, offered, shown, spurious>>

TestRoom ==
    /\ \/ mainPc = "above" /\ IfRoom(wcursor - rcursor)
       \/ mainPc = "below" /\ IfRoom(Records - (rcursor - wcursor))
    /\ UNCHANGED <<wraps, readPc, call, ring, ledData, shown, spurious>>

\* memcpy to wcursor, in the branch that rcursor chooses when read again.
Put ==
    /\ mainPc = "put"
    /\ wraps' = (rcursor <= wcursor)
    /\ buffer' = [buffer EXCEPT ![wcursor] = offered + 1]
    /\ mainPc' = "advance"
    /\ UNCHANGED <<readPc, call, rcursor, wcursor, ledData, offered, shown,
                   spurious>>

\* Faulty variant of Advance: wcursor stays at the end of the ring.
AdvanceOn ==
    /\ mainPc = "advance"
    /\ wcursor' = wcursor + 1
    /\ mainPc' = "signal"
    /\ offered' = offered + 1
    /\ UNCHANGED <<wraps, readPc, call, buffer, rcursor, ledData, shown, spurious>>

\* wcursor passes the record and, at the end of the ring, goes back to its
\* start: in two stores, or in the one a compiler may make of them.
Advance ==
    /\ mainPc = "advance"
    /\ \/ /\ wcursor' = wcursor + 1
          /\ mainPc' = IF wraps /\ wcursor' = Records THEN "wrap" ELSE "signal"
       \/ /\ wraps /\ wcursor + 1 = Records
          /\ wcursor' = 0
          /\ mainPc' = "signal"
    /\ offered' = offered + 1
    /\ UNCHANGED <<wraps, readPc, call, buffer, rcursor, ledData, shown, spurious>>

Wrap ==
    /\ mainPc = "wrap"
    /\ wcursor' = 0
    /\ mainPc' = "signal"
    /\ UNCHANGED <<wraps, readPc, call, buffer, rcursor, ledData, offered, shown,
                   spurious>>

\* pthread_cond_signal: lost on a thread that is not waiting.
Signal ==
    /\ mainPc = "signal"
    /\ readPc' = IF readPc = "wait" THEN "awake" ELSE readPc
    /\ mainPc' = "loop"
    /\ UNCHANGED <<wraps, call, ring, ledData, offered, shown, spurious>>

-----------------------------------------------------------------------------
(* Customer.                                                               *)

mainSide == <<mainPc, wraps, buffer, wcursor, offered>>

\* pthread_cond_wait, which nothing precedes: no test, no mutex.
StartWait ==
    /\ readPc = "start"
    /\ readPc' = "wait"
    /\ UNCHANGED <<mainSide, call, rcursor, ledData, shown, spurious>>

SpuriousWakeup ==
    /\ readPc = "wait" /\ spurious < MaxSpurious
    /\ readPc' = "awake" /\ spurious' = spurious + 1
    /\ UNCHANGED <<mainSide, call, rcursor, ledData, shown>>

\* rb_read's first comparison.
CompareCursors ==
    /\ readPc = "awake"
    /\ readPc' = IF rcursor < wcursor THEN "equal" ELSE "behind"
    /\ round' = 1
    /\ UNCHANGED <<mainSide, need, rcursor, ledData, shown, spurious>>

\* min(count, rb_can_read(rb)) is a macro: (count)<(rb_can_read(rb))?(count):
\* (rb_can_read(rb)).  The first value is only compared, as a size_t; when it is
\* not greater, what is copied is a second one, whatever it has become.
\* More than ledData holds is copied over Customer's stack: what the thread does
\* then is not modelled.
Readable(value) ==
    IF round = 1 /\ value \in 0 .. need
    THEN readPc' = "equal" /\ round' = 2
    ELSE /\ readPc' = IF round = 1 \/ value = need THEN "take"
                      ELSE IF value = 0 THEN "show" ELSE "overrun"
         /\ UNCHANGED round

\* rb_can_read reads wcursor up to three times as well.
ReadEqual ==
    /\ readPc = "equal"
    /\ IF rcursor = wcursor THEN Readable(0)
                            ELSE readPc' = "order" /\ UNCHANGED round
    /\ UNCHANGED <<mainSide, need, rcursor, ledData, shown, spurious>>

ReadOrder ==
    /\ readPc = "order"
    /\ readPc' = IF rcursor < wcursor THEN "above" ELSE "below"
    /\ UNCHANGED <<mainSide, call, rcursor, ledData, shown, spurious>>

ReadCount ==
    /\ \/ readPc = "above" /\ Readable(wcursor - rcursor)
       \/ readPc = "below" /\ Readable(Records - (rcursor - wcursor))
    /\ UNCHANGED <<mainSide, need, rcursor, ledData, shown, spurious>>

\* memcpy of so many records, none or one, from rcursor.
Copy(count) ==
    /\ ledData' = IF count = 0 THEN ledData ELSE buffer[rcursor]
    /\ need' = need - count

\* wcursor was ahead.
ReadAhead ==
    /\ readPc = "take"
    /\ Copy(need) /\ rcursor' = rcursor + need
    /\ readPc' = "show"
    /\ UNCHANGED <<mainSide, round, shown, spurious>>

\* wcursor was not ahead: to the end of the ring, and the rest, which may be
\* nothing, from its start by another call.
ReadBehind ==
    /\ readPc = "behind"
    /\ IF rcursor + need < Records
       THEN Copy(need) /\ rcursor' = rcursor + need /\ readPc' = "show"
       ELSE Copy(Records - rcursor) /\ rcursor' = 0 /\ readPc' = "awake"
    /\ UNCHANGED <<mainSide, round, shown, spurious>>

\* Faulty variant of Show: the thread reads on without waiting.
ShowAndReadOn ==
    /\ readPc = "show"
    /\ shown' = Append(shown, ledData) /\ need' = 1
    /\ readPc' = "awake"
    /\ UNCHANGED <<mainSide, round, rcursor, ledData, spurious>>

\* ioctl or write, by the record's flags; a record that nothing was copied to is
\* shown once more.
Show ==
    /\ readPc = "show"
    /\ shown' = Append(shown, ledData) /\ need' = 1
    /\ readPc' = "start"
    /\ UNCHANGED <<mainSide, round, rcursor, ledData, spurious>>

-----------------------------------------------------------------------------
Main == TestEmpty \/ TestOrder \/ TestRoom \/ Put \/ Advance \/ Wrap \/ Signal

Customer ==
    \/ StartWait \/ CompareCursors \/ ReadEqual \/ ReadOrder \/ ReadCount
    \/ ReadAhead \/ ReadBehind \/ Show

Next == Main \/ Customer \/ SpuriousWakeup

Spec == Init /\ [][Next]_vars

-----------------------------------------------------------------------------
(* Properties.                                                             *)

\* Inside rb_read.
Reading == {"awake", "equal", "order", "above", "below", "take", "behind"}

TypeOK ==
    /\ mainPc \in {"loop", "order", "above", "below", "put", "advance", "wrap",
                   "signal"}
    /\ readPc \in {"start", "wait", "show", "overrun"} \cup Reading
    /\ round \in {1, 2} /\ need \in {0, 1}
    /\ wraps \in BOOLEAN /\ spurious \in Nat
    /\ buffer \in [Index -> Nat] /\ ledData \in Nat
    /\ rcursor \in 0 .. Records /\ wcursor \in 0 .. Records
    /\ offered \in Nat /\ shown \in Seq(Nat)

\* Whatever the other side does to the cursors between two reads of them, and
\* even when the ring is out of step after a spurious wake-up, no record is
\* written past the end of the buffer, and none is read there but by the copy
\* that overruns.
InsideBuffer ==
    /\ mainPc \in {"put", "advance"} => wcursor \in Index
    /\ readPc = "take" => rcursor + need <= Records

\* A signalled thread never reads an empty ring, although it does not test for
\* one: there is a record for it and for the signal main() is about to give.
\* And it reads too much in one way only: exactly one record was in the ring
\* at the first evaluation of rb_can_read and main() stored another before the
\* second.
SignalledHasRecord ==
    spurious = 0 =>
        /\ readPc \in Reading /\ need = 1 =>
               CanRead >= (IF mainPc = "signal" THEN 2 ELSE 1)
        /\ readPc = "overrun" => CanRead >= 2 /\ round = 2

\* The records between the cursors, and where the i-th of them is.
Place(i) == IF rcursor + i <= Records THEN rcursor + i - 1
                                      ELSE rcursor + i - 1 - Records

Content == [i \in 1 .. CanRead |-> buffer[Place(i)]]

\* The record taken and not shown.
Hand == IF need = 0 THEN <<ledData>> ELSE <<>>

Queue == INSTANCE LightQueue WITH Room <- Records - 1, waiting <- Content,
                                  hand <- Hand

\* Without a lock, and with cursors that pass through the end of the ring, the
\* lights show the commands that found room, in order and whole, up to the
\* first spurious wake-up or the first copy that overruns.
ImplementsQueue ==
    Queue!Init
    /\ [][Queue!Next \/ spurious' > 0 \/ readPc' = "overrun"]_<<offered, Content, Hand, shown>>
=============================================================================
