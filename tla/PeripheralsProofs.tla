-------------------------- MODULE PeripheralsProofs --------------------------
(***************************************************************************)
(* For a ring of any length above two records: the cursors stay inside the *)
(* buffer whatever wakes the light thread, and the thread finds a record   *)
(* after every signal.                                                     *)
(*                                                                         *)
(* For any keys and a long press of any duration: a press of KEY_MICMUTE   *)
(* is answered, and as a long one only when the key was held that long.    *)
(* Two arguments share the invariant KeysInv: which value the globals have *)
(* while only KEY_MICMUTE is used, whoever writes them, and how the time a *)
(* thread measures is bounded by the time the key is down.                 *)
(***************************************************************************)
EXTENDS Lights, Keys, SequenceTheorems, TLAPS

\* Inside rb_read's first branch.
Ahead == {"equal", "order", "above", "below", "take"}

\* wcursor stands at the end of the ring only inside rb_write, and rcursor gets
\* there only while wcursor is there or well before it.
EndInv ==
    /\ wcursor = Records <=> mainPc = "wrap"
    /\ mainPc \in {"above", "put"} /\ wcursor = Records - 1 => rcursor < Records
    /\ mainPc = "advance" /\ ~wraps => wcursor < Records - 1
    /\ readPc \in Ahead => rcursor < Records
    /\ readPc \in Ahead /\ rcursor = Records - 1 =>
         \/ mainPc = "wrap"
         \/ /\ wcursor <= Records - 2 /\ mainPc # "above"
            /\ mainPc \in {"put", "advance"} => wcursor < Records - 2

\* Signals that were given, or are about to be, and not yet answered by a read.
Owed == (IF readPc \in Reading /\ need = 1 THEN 1 ELSE 0)
        + (IF mainPc \in {"wrap", "signal"} THEN 1 ELSE 0)

\* While the thread wakes only by signals, the ring holds what is owed, and
\* main(), whatever rcursor was when it looked, writes only where there is room.
OwedInv ==
    spurious = 0 =>
        /\ CanRead >= Owed
        /\ CanRead <= Records - 1
        /\ rcursor < Records
        /\ mainPc = "above" => rcursor <= wcursor
        /\ mainPc = "below" => rcursor >= wcursor \/ wcursor <= Records - 2
        /\ mainPc \in {"put", "advance"} => CanRead <= Records - 2
        /\ mainPc = "wrap" => rcursor >= 1

\* What each place in rb_read, and in the call it makes for the rest, says of
\* the cursors.
CallInv ==
    spurious = 0 =>
        /\ need = 0 => readPc \in {"show"} \cup Reading
        /\ readPc = "show" => need = 0
        /\ need = 0 /\ readPc \in Reading => rcursor = 0
        /\ need = 0 /\ readPc \in Ahead => wcursor >= 1 /\ round = 1
        /\ need = 1 /\ readPc \in Ahead => rcursor <= Records - 2
        /\ need = 1 /\ readPc \in {"below", "behind"} => wcursor < rcursor
        /\ readPc = "below" => need = 1
        /\ readPc = "overrun" => CanRead >= 2 /\ round = 2 /\ need = 1

Inv == TypeOK /\ EndInv /\ OwedInv /\ CallInv

-----------------------------------------------------------------------------
LEMMA InitInv == Init => Inv
BY SizesAssumption
DEF Init, Inv, TypeOK, EndInv, OwedInv, Owed, CallInv, CanRead, Index, Ahead, Reading

\* The places a reading of rb_can_read's value leads to.
LEMMA ReadableGoes ==
  ASSUME NEW value \in Int, Readable(value), round \in {1, 2}, need \in {0, 1}
  PROVE  /\ round' \in {1, 2}
         /\ readPc' \in {"equal", "take", "show", "overrun"}
         /\ readPc' = "show" => value = 0 /\ need = 1
         /\ readPc' = "overrun" => round' = 2 /\ value # 0 /\ value # need
         /\ readPc' = "equal" => round' = 2 /\ value \in 0 .. need
         /\ round = 1 => readPc' \in {"equal", "take"}
         /\ readPc' # "equal" => round' = round
BY DEF Readable

\* One step, one part of the invariant at a time.
LEMMA StepInv == Inv /\ [Next]_vars => Inv'
<1> SUFFICES ASSUME Inv, [Next]_vars PROVE Inv'
  OBVIOUS
<1> USE SizesAssumption DEF Inv, ring, call, mainSide
<1>1. CASE TestEmpty
  <2>1. TypeOK'
    BY <1>1 DEF TestEmpty, IfRoom, NoRoom, TypeOK
  <2>2. EndInv' /\ OwedInv' /\ CallInv'
    BY <1>1 DEF TestEmpty, IfRoom, NoRoom, TypeOK, EndInv, OwedInv, Owed, CallInv,
       CanRead, Ahead, Reading
  <2> QED BY <2>1, <2>2
<1>2. CASE TestOrder
  <2>1. TypeOK'
    BY <1>2 DEF TestOrder, TypeOK
  <2>2. EndInv' /\ OwedInv' /\ CallInv'
    BY <1>2 DEF TestOrder, TypeOK, EndInv, OwedInv, Owed, CallInv,
       CanRead, Ahead, Reading
  <2> QED BY <2>1, <2>2
<1>3. CASE TestRoom
  <2>1. TypeOK'
    BY <1>3 DEF TestRoom, IfRoom, NoRoom, TypeOK
  <2>2. EndInv' /\ OwedInv' /\ CallInv'
    BY <1>3 DEF TestRoom, IfRoom, NoRoom, TypeOK, EndInv, OwedInv, Owed, CallInv,
       CanRead, Ahead, Reading
  <2> QED BY <2>1, <2>2
<1>4. CASE Put
  <2>1. TypeOK'
    BY <1>4 DEF Put, TypeOK, EndInv, Index
  <2>2. ~wraps' => ~(rcursor <= wcursor)
    BY <1>4, Zenon DEF Put
  <2>3. EndInv'
    BY <1>4, <2>2 DEF Put, TypeOK, EndInv, Ahead
  <2>4. OwedInv' /\ CallInv'
    BY <1>4 DEF Put, TypeOK, OwedInv, Owed, CallInv, CanRead, Ahead, Reading
  <2> QED BY <2>1, <2>3, <2>4
<1>5. CASE Advance
  <2>1. TypeOK'
    BY <1>5 DEF Advance, TypeOK, EndInv
  <2>2. EndInv'
    BY <1>5 DEF Advance, TypeOK, EndInv, Ahead
  <2>3. OwedInv' /\ CallInv'
    BY <1>5 DEF Advance, TypeOK, EndInv, OwedInv, Owed, CallInv, CanRead,
       Ahead, Reading
  <2> QED BY <2>1, <2>2, <2>3
<1>6. CASE Wrap
  <2>1. TypeOK'
    BY <1>6 DEF Wrap, TypeOK
  <2>2. EndInv' /\ OwedInv' /\ CallInv'
    BY <1>6 DEF Wrap, TypeOK, EndInv, OwedInv, Owed, CallInv, CanRead, Ahead, Reading
  <2> QED BY <2>1, <2>2
<1>7. CASE Signal
  <2>1. TypeOK'
    BY <1>7 DEF Signal, TypeOK, Reading
  <2>2. EndInv' /\ OwedInv' /\ CallInv'
    BY <1>7 DEF Signal, TypeOK, EndInv, OwedInv, Owed, CallInv, CanRead, Ahead, Reading
  <2> QED BY <2>1, <2>2
<1>8. CASE StartWait
  <2>1. TypeOK'
    BY <1>8 DEF StartWait, TypeOK
  <2>2. EndInv' /\ OwedInv' /\ CallInv'
    BY <1>8 DEF StartWait, TypeOK, EndInv, OwedInv, Owed, CallInv, CanRead,
       Ahead, Reading
  <2> QED BY <2>1, <2>2
<1>9. CASE SpuriousWakeup
  <2>1. TypeOK'
    BY <1>9 DEF SpuriousWakeup, TypeOK, Reading
  <2>2. EndInv' /\ OwedInv' /\ CallInv'
    BY <1>9 DEF SpuriousWakeup, TypeOK, EndInv, OwedInv, CallInv, Ahead
  <2> QED BY <2>1, <2>2
<1>10. CASE CompareCursors
  <2>1. TypeOK'
    BY <1>10 DEF CompareCursors, TypeOK, Reading
  <2>2. EndInv' /\ OwedInv' /\ CallInv'
    BY <1>10 DEF CompareCursors, TypeOK, EndInv, OwedInv, Owed, CallInv, CanRead,
       Ahead, Reading
  <2> QED BY <2>1, <2>2
<1>11. CASE ReadEqual
  <2>1. TypeOK' /\ EndInv'
    BY <1>11 DEF ReadEqual, Readable, TypeOK, EndInv, Ahead, Reading
  <2>2. OwedInv' /\ CallInv'
    BY <1>11 DEF ReadEqual, Readable, TypeOK, OwedInv, Owed, CallInv, CanRead,
       Ahead, Reading
  <2> QED BY <2>1, <2>2
<1>12. CASE ReadOrder
  <2>1. TypeOK' /\ EndInv'
    BY <1>12 DEF ReadOrder, TypeOK, EndInv, Ahead, Reading
  <2>2. OwedInv' /\ CallInv'
    BY <1>12 DEF ReadOrder, TypeOK, OwedInv, Owed, CallInv, CanRead, Ahead, Reading
  <2> QED BY <2>1, <2>2
<1>13. CASE ReadCount
  <2>1. PICK value \in Int :
          /\ Readable(value)
          /\ readPc = "above" => value = wcursor - rcursor
          /\ readPc = "below" => value = Records - (rcursor - wcursor)
    BY <1>13 DEF ReadCount, TypeOK
  <2>2. readPc \in {"above", "below"} /\ round \in {1, 2} /\ need \in {0, 1}
        /\ UNCHANGED <<mainPc, wraps, buffer, wcursor, offered, need, rcursor,
                       ledData, shown, spurious>>
    BY <1>13 DEF ReadCount, TypeOK
  <2>3. /\ round' \in {1, 2}
        /\ readPc' \in {"equal", "take", "show", "overrun"}
        /\ readPc' = "show" => value = 0 /\ need = 1
        /\ readPc' = "overrun" => round' = 2 /\ value # 0 /\ value # need
        /\ readPc' = "equal" => round' = 2 /\ value \in 0 .. need
        /\ round = 1 => readPc' \in {"equal", "take"}
        /\ readPc' # "equal" => round' = round
    BY <2>1, <2>2, ReadableGoes
  <2>4. TypeOK' /\ EndInv'
    BY <2>2, <2>3 DEF TypeOK, EndInv, Ahead, Reading
  <2>5. OwedInv'
    BY <2>1, <2>2, <2>3 DEF TypeOK, OwedInv, Owed, CallInv, CanRead, Ahead, Reading
  <2>6. ASSUME spurious' = 0
        PROVE  CanRead' = CanRead /\ CanRead \in Int /\ CanRead >= need
               /\ (value = CanRead \/ (value < 0 /\ CanRead >= 2))
               /\ (need = 0 => readPc = "above" /\ value >= 1)
    BY <2>1, <2>2, <2>6 DEF TypeOK, OwedInv, Owed, CallInv, CanRead, Ahead, Reading
  <2>7. ASSUME need = 0 PROVE CallInv'
    <3>1. spurious' = 0 => readPc' = "take"
      BY <2>2, <2>3, <2>6, <2>7 DEF CallInv, Ahead
    <3> QED BY <2>2, <2>3, <2>7, <3>1 DEF CallInv, Ahead, Reading
  <2>8. ASSUME need = 1 PROVE CallInv'
    <3>1. spurious' = 0 => readPc' # "show" /\ (readPc' = "overrun" => CanRead' >= 2)
      BY <2>3, <2>6, <2>8
    <3> QED BY <2>2, <2>3, <2>8, <3>1 DEF CallInv, Ahead, Reading
  <2> QED BY <2>2, <2>4, <2>5, <2>7, <2>8
<1>14. CASE ReadAhead
  <2>1. rcursor \in Index /\ buffer[rcursor] \in Nat
    BY <1>14 DEF ReadAhead, TypeOK, EndInv, Index, Ahead
  <2>2. ledData' \in Nat /\ need' = 0 /\ rcursor' = rcursor + need /\ readPc' = "show"
        /\ UNCHANGED <<mainPc, wraps, buffer, wcursor, offered, round, shown, spurious>>
    BY <1>14, <2>1 DEF ReadAhead, Copy, TypeOK
  <2>3. TypeOK'
    BY <2>1, <2>2 DEF TypeOK, Index
  <2>4. EndInv'
    BY <1>14, <2>2 DEF ReadAhead, TypeOK, EndInv, Ahead
  <2>5. OwedInv' /\ CallInv'
    BY <1>14, <2>2 DEF ReadAhead, TypeOK, EndInv, OwedInv, Owed, CallInv, CanRead,
       Ahead, Reading
  <2> QED BY <2>3, <2>4, <2>5
<1>15. CASE ReadBehind
  <2>1. rcursor # Records => rcursor \in Index /\ buffer[rcursor] \in Nat
    BY DEF TypeOK, Index
  <2>2. readPc = "behind"
        /\ UNCHANGED <<mainPc, wraps, buffer, wcursor, offered, round, shown, spurious>>
    BY <1>15 DEF ReadBehind
  <2>3. CASE rcursor + need < Records
    <3>1. ledData' \in Nat /\ need' = 0 /\ rcursor' = rcursor + need /\ readPc' = "show"
      BY <1>15, <2>1, <2>3 DEF ReadBehind, Copy, TypeOK
    <3>2. TypeOK'
      BY <2>2, <2>3, <3>1 DEF TypeOK
    <3>3. EndInv'
      BY <2>2, <2>3, <3>1 DEF TypeOK, EndInv, Ahead
    <3>4. OwedInv' /\ CallInv'
      BY <2>2, <2>3, <3>1 DEF TypeOK, EndInv, OwedInv, Owed, CallInv, CanRead,
         Ahead, Reading
    <3> QED BY <3>2, <3>3, <3>4
  <2>4. CASE ~(rcursor + need < Records)
    <3>1. ledData' \in Nat /\ rcursor' = 0 /\ readPc' = "awake"
          /\ need' = need - (Records - rcursor) /\ need' \in {0, 1}
      BY <1>15, <2>1, <2>4 DEF ReadBehind, Copy, TypeOK
    <3>2. TypeOK'
      BY <2>2, <3>1 DEF TypeOK, Reading
    <3>3. EndInv'
      BY <2>2, <3>1 DEF TypeOK, EndInv, Ahead
    <3>4. OwedInv' /\ CallInv'
      BY <2>2, <2>4, <3>1 DEF TypeOK, EndInv, OwedInv, Owed, CallInv, CanRead,
         Ahead, Reading
    <3> QED BY <3>2, <3>3, <3>4
  <2> QED BY <2>3, <2>4
<1>16. CASE Show
  <2>1. TypeOK'
    <3>1. Append(shown, ledData) \in Seq(Nat)
      BY DEF TypeOK
    <3> QED BY <1>16, <3>1 DEF Show, TypeOK
  <2>2. EndInv' /\ OwedInv' /\ CallInv'
    BY <1>16 DEF Show, TypeOK, EndInv, OwedInv, Owed, CallInv, CanRead, Ahead, Reading
  <2> QED BY <2>1, <2>2
<1>17. CASE UNCHANGED vars
  BY <1>17 DEF vars, TypeOK, EndInv, OwedInv, Owed, CallInv, CanRead
<1> QED
  BY <1>1, <1>2, <1>3, <1>4, <1>5, <1>6, <1>7, <1>8, <1>9, <1>10, <1>11, <1>12,
     <1>13, <1>14, <1>15, <1>16, <1>17
  DEF Next, Main, Customer

\* The invariant of the light ring.
THEOREM InvariantHolds == Spec => []Inv
BY InitInv, StepInv, PTL DEF Spec

-----------------------------------------------------------------------------
\* The cursors, and what is read and shown, keep their types for any number of
\* commands and spurious wake-ups, up to a copy that overruns.
THEOREM TypeCorrect == Spec => []TypeOK
BY InvariantHolds, PTL DEF Inv

\* No record is written past the end of the buffer, and none is read there but
\* by a copy that overruns, even when the thread wakes without a signal and
\* reads an empty ring.
THEOREM InsideBufferHolds == Spec => []InsideBuffer
<1>1. Inv => InsideBuffer
  BY SizesAssumption DEF Inv, TypeOK, EndInv, InsideBuffer, Index, Ahead
<1> QED BY <1>1, InvariantHolds, PTL

\* A thread woken by a signal finds a record, although it does not test for
\* one, in a ring with room for two records or more; and it copies too much only
\* when a second one came between the two evaluations of rb_can_read.
THEOREM SignalledHasRecordHolds == Spec => []SignalledHasRecord
<1>1. Inv => SignalledHasRecord
  BY SizesAssumption
  DEF Inv, TypeOK, OwedInv, Owed, CallInv, CanRead, SignalledHasRecord, Reading
<1> QED BY <1>1, InvariantHolds, PTL

-----------------------------------------------------------------------------
(* The refinement of LightQueue.                                           *)

\* What main() has put where wcursor will pass it.
PutInv == mainPc = "advance" => buffer[wcursor] = offered + 1

LEMMA InitPut == Init => PutInv
BY DEF Init, PutInv

LEMMA StepPut == Inv /\ PutInv /\ [Next]_vars => PutInv'
<1> SUFFICES ASSUME Inv, PutInv, [Next]_vars PROVE PutInv'
  OBVIOUS
<1>1. CASE Put
  <2>1. wcursor \in Index /\ buffer \in [Index -> Nat]
    BY <1>1, SizesAssumption DEF Put, Inv, TypeOK, EndInv, Index
  <2> QED BY <1>1, <2>1 DEF Put, PutInv
<1>2. CASE TestEmpty \/ TestOrder \/ TestRoom \/ Advance \/ Wrap \/ Signal
  BY <1>2 DEF TestEmpty, TestOrder, TestRoom, IfRoom, Advance, Wrap, Signal, PutInv, ring
<1>3. CASE Customer \/ SpuriousWakeup
  BY <1>3 DEF Customer, StartWait, CompareCursors, ReadEqual, ReadOrder, ReadCount,
     ReadAhead, ReadBehind, Show, SpuriousWakeup, PutInv, mainSide
<1>4. CASE UNCHANGED vars
  BY <1>4 DEF vars, ring, PutInv
<1> QED BY <1>1, <1>2, <1>3, <1>4 DEF Next, Main

-----------------------------------------------------------------------------
\* The content of a ring whose cursors are in order.
Sound == TypeOK /\ CanRead <= Records - 1

ContentIsSeq ==
    /\ CanRead \in Nat
    /\ Content \in Seq(Nat) /\ Len(Content) = CanRead
    /\ \A i \in 1 .. CanRead : Place(i) \in Index /\ Content[i] = buffer[Place(i)]

LEMMA SoundContent == Sound => ContentIsSeq
<1> SUFFICES ASSUME Sound PROVE ContentIsSeq
  OBVIOUS
<1>1. CanRead \in Nat
  BY SizesAssumption DEF Sound, TypeOK, CanRead
<1>2. \A i \in 1 .. CanRead : Place(i) \in Index
  BY <1>1, SizesAssumption DEF Sound, TypeOK, Index, Place, CanRead
<1>3. \A i \in 1 .. CanRead : buffer[Place(i)] \in Nat
  BY <1>2 DEF Sound, TypeOK
<1>4. Content \in [1 .. CanRead -> Nat]
  BY <1>3 DEF Content
<1>5. Content \in Seq(Nat) /\ Len(Content) = CanRead
  <2>1. Content \in Seq(Nat)
    BY <1>1, <1>4, SeqDef
  <2>2. DOMAIN Content = 1 .. CanRead /\ DOMAIN Content = 1 .. Len(Content)
    BY <1>4, <2>1, LenProperties
  <2> QED BY <1>1, <2>1, <2>2, LenProperties
<1> QED BY <1>1, <1>2, <1>5 DEF ContentIsSeq, Content

LEMMA SoundContentNext == Sound' => ContentIsSeq'
BY SoundContent, PTL

\* Sequences that differ by one element at an end.
LEMMA LongerByOne ==
  ASSUME NEW s \in Seq(Nat), NEW t \in Seq(Nat), NEW e \in Nat,
         Len(t) = Len(s) + 1, t[Len(t)] = e,
         \A i \in 1 .. Len(s) : t[i] = s[i]
  PROVE  t = Append(s, e)
<1>1. Append(s, e) \in Seq(Nat) /\ Len(Append(s, e)) = Len(t)
  BY AppendProperties
<1>2. \A i \in 1 .. Len(t) : t[i] = Append(s, e)[i]
  BY AppendProperties, LenProperties
<1> QED BY <1>1, <1>2, SeqEqual

LEMMA ShorterByOne ==
  ASSUME NEW s \in Seq(Nat), NEW t \in Seq(Nat),
         Len(s) = Len(t) + 1,
         \A i \in 1 .. Len(t) : t[i] = s[i + 1]
  PROVE  s # <<>> /\ Head(s) = s[1] /\ t = Tail(s)
<1>1. s # <<>>
  BY LenProperties, EmptySeq
<1>2. Tail(s) \in Seq(Nat) /\ Len(Tail(s)) = Len(t)
  BY <1>1, HeadTailProperties, LenProperties
<1>3. \A i \in 1 .. Len(t) : t[i] = Tail(s)[i]
  BY <1>1, <1>2, HeadTailProperties
<1>4. Head(s) = s[1]
  BY <1>1
<1> QED BY <1>1, <1>2, <1>3, <1>4, SeqEqual

-----------------------------------------------------------------------------
\* A step of the ring with no spurious wake-up so far, which is not the copy
\* that overruns, is one of the queue.
LEMMA StepQueue ==
  Inv /\ Inv' /\ PutInv /\ [Next]_vars =>
      [Queue!Next \/ spurious' > 0 \/ readPc' = "overrun"]_<<offered, Content, Hand, shown>>
<1> SUFFICES ASSUME Inv, Inv', PutInv, [Next]_vars, ~(spurious' > 0),
                    readPc' # "overrun"
             PROVE  Queue!Next \/ UNCHANGED <<offered, Content, Hand, shown>>
  OBVIOUS
<1> USE SizesAssumption
<1>a. spurious = 0 /\ spurious' = 0
  <2>1. spurious \in Nat /\ spurious' \in Nat
    BY DEF Inv, TypeOK
  <2>2. spurious' = spurious \/ spurious' = spurious + 1
    BY DEF Next, Main, Customer, TestEmpty, TestOrder, TestRoom, Put, Advance, Wrap,
           Signal, StartWait, SpuriousWakeup, CompareCursors, ReadEqual, ReadOrder,
           ReadCount, ReadAhead, ReadBehind, Show, vars
  <2> QED BY <2>1, <2>2
<1>b. Sound /\ Sound'
  BY <1>a DEF Inv, OwedInv, Sound
<1>c. ContentIsSeq /\ ContentIsSeq'
  BY <1>b, SoundContent, SoundContentNext
<1>d. ASSUME UNCHANGED ring PROVE UNCHANGED Content
  <2>1. CanRead' = CanRead /\ buffer' = buffer
    BY <1>d DEF ring, CanRead
  <2>2. \A i : Place(i)' = Place(i)
    BY <1>d DEF ring, Place
  <2> QED BY <2>1, <2>2 DEF Content
<1>e. ASSUME CanRead' = CanRead,
             \A i \in 1 .. CanRead : buffer'[Place(i)'] = buffer[Place(i)]
      PROVE  UNCHANGED Content
  <2>1. \A i \in 1 .. Len(Content) : Content'[i] = Content[i]
    BY <1>c, <1>e DEF ContentIsSeq
  <2> QED BY <1>c, <1>e, <2>1, SeqEqual DEF ContentIsSeq
<1>h. ASSUME UNCHANGED <<need, ledData>> PROVE UNCHANGED Hand
  BY <1>h DEF Hand
\* A test of main() that finds room changes nothing, one that does not drops.
<1>r. ASSUME NEW readable \in Int, IfRoom(readable),
             NoRoom(readable) => CanRead = Records - 1,
             UNCHANGED ring, UNCHANGED <<need, ledData>>, UNCHANGED shown
      PROVE  Queue!Next \/ UNCHANGED <<offered, Content, Hand, shown>>
  <2>1. UNCHANGED Content /\ UNCHANGED Hand
    BY <1>d, <1>h, <1>r
  <2>2. CASE NoRoom(readable)
    <3>1. Len(Content) = Records - 1
      BY <1>c, <1>r, <2>2 DEF ContentIsSeq
    <3> QED
      BY <1>r, <2>1, <2>2, <3>1 DEF IfRoom, Queue!Next, Queue!Drop, Queue!Receive
  <2>3. CASE ~NoRoom(readable)
    BY <1>r, <2>1, <2>3 DEF IfRoom
  <2> QED BY <2>2, <2>3
<1>0. CASE TestEmpty
  <2>1. UNCHANGED ring /\ UNCHANGED <<need, ledData>> /\ UNCHANGED shown
    BY <1>0 DEF TestEmpty, call
  <2>2. CASE rcursor = wcursor
    BY <1>0, <1>r, <2>1, <2>2 DEF TestEmpty, NoRoom
  <2>3. CASE rcursor # wcursor
    BY <1>0, <1>d, <1>h, <2>1, <2>3 DEF TestEmpty
  <2> QED BY <2>2, <2>3
<1>1. CASE TestRoom
  <2>1. UNCHANGED ring /\ UNCHANGED <<need, ledData>> /\ UNCHANGED shown
    BY <1>1 DEF TestRoom, call
  <2>2. rcursor \in Int /\ wcursor \in Int /\ Records \in Int
    BY DEF Inv, TypeOK
  <2>3. CASE mainPc = "above"
    <3>1. IfRoom(wcursor - rcursor)
      BY <1>1, <2>3 DEF TestRoom
    <3>2. NoRoom(wcursor - rcursor) => CanRead = Records - 1
      BY <1>a, <2>2, <2>3 DEF Inv, OwedInv, NoRoom, CanRead
    <3> QED BY <1>r, <2>1, <2>2, <3>1, <3>2
  <2>4. CASE mainPc = "below"
    <3>1. IfRoom(Records - (rcursor - wcursor))
      BY <1>1, <2>4 DEF TestRoom
    <3>2. NoRoom(Records - (rcursor - wcursor)) => CanRead = Records - 1
      BY <2>2 DEF NoRoom, CanRead
    <3> QED BY <1>r, <2>1, <2>2, <3>1, <3>2
  <2> QED BY <1>1, <2>3, <2>4 DEF TestRoom
<1>2. CASE Put
  <2>1. CanRead' = CanRead /\ \A i : Place(i)' = Place(i)
    BY <1>2 DEF Put, CanRead, Place
  <2>2. \A i \in 1 .. CanRead : Place(i) # wcursor
    BY <1>2, <1>c, <1>a DEF Put, Inv, TypeOK, EndInv, OwedInv, CanRead, Place,
       ContentIsSeq
  <2>3. \A i \in 1 .. CanRead : buffer'[Place(i)] = buffer[Place(i)]
    BY <1>2, <1>c, <2>2 DEF Put, Inv, TypeOK, ContentIsSeq
  <2>4. UNCHANGED Content
    BY <1>e, <2>1, <2>3
  <2> QED BY <1>2, <1>h, <2>4 DEF Put, call
<1>3. CASE Advance
  <2>1. /\ CanRead' = CanRead + 1 /\ Place(CanRead + 1) = wcursor
        /\ CanRead <= Records - 2
    <3> USE <1>3, <1>a DEF Inv, TypeOK, EndInv, OwedInv, CanRead, Place
    <3>1. CASE wcursor' = wcursor + 1
      BY <3>1 DEF Advance
    <3>2. CASE wcursor' = 0
      BY <3>2 DEF Advance
    <3> QED BY <3>1, <3>2 DEF Advance
  <2>2. \A i : Place(i)' = Place(i)
    BY <1>3 DEF Advance, Place
  <2>3. Content' = Append(Content, offered + 1)
    <3>1. buffer' = buffer /\ buffer[wcursor] = offered + 1 /\ offered + 1 \in Nat
      BY <1>3 DEF Advance, PutInv, Inv, TypeOK
    <3>2. Len(Content') = Len(Content) + 1 /\ Content'[Len(Content')] = offered + 1
      <4>1. Len(Content') = CanRead + 1 /\ Len(Content) = CanRead
        BY <1>c, <2>1 DEF ContentIsSeq
      <4>2. CanRead + 1 \in 1 .. CanRead'
        BY <1>c, <2>1 DEF ContentIsSeq
      <4>3. Content'[CanRead + 1] = buffer[wcursor]
        BY <1>c, <2>1, <2>2, <3>1, <4>2 DEF ContentIsSeq
      <4> QED BY <3>1, <4>1, <4>3
    <3>3. \A i \in 1 .. Len(Content) : Content'[i] = Content[i]
      BY <1>c, <2>1, <2>2, <3>1 DEF ContentIsSeq
    <3> QED BY <1>c, <3>1, <3>2, <3>3, LongerByOne DEF ContentIsSeq
  <2>4. UNCHANGED Hand
    BY <1>3, <1>h DEF Advance, call
  <2>5. Queue!Accept
    BY <1>3, <1>c, <2>1, <2>3, <2>4
    DEF Advance, ContentIsSeq, Queue!Accept, Queue!Receive
  <2> QED BY <2>5 DEF Queue!Next
<1>4. CASE Wrap
  <2>1. CanRead' = CanRead /\ \A i : Place(i)' = Place(i)
    BY <1>4, <1>a DEF Wrap, Inv, TypeOK, EndInv, OwedInv, CanRead, Place
  <2>2. UNCHANGED Content
    BY <1>4, <1>e, <2>1 DEF Wrap
  <2> QED BY <1>4, <1>h, <2>2 DEF Wrap, call
<1>5. CASE \/ TestOrder \/ Signal \/ StartWait \/ CompareCursors \/ ReadEqual
           \/ ReadOrder \/ ReadCount
  <2>1. UNCHANGED ring /\ UNCHANGED <<need, ledData>> /\ UNCHANGED <<offered, shown>>
    BY <1>5 DEF TestOrder, Signal, StartWait, CompareCursors, ReadEqual, ReadOrder,
       ReadCount, ring, call, mainSide
  <2> QED BY <1>d, <1>h, <2>1
<1>6. CASE SpuriousWakeup
  BY <1>6, <1>a DEF SpuriousWakeup
\* A branch that copies a record takes the first.
<1>f. ASSUME Copy(1), need = 1, rcursor < Records, CanRead' = CanRead - 1,
             buffer' = buffer,
             \A i \in 1 .. CanRead - 1 : Place(i)' = Place(i + 1),
             UNCHANGED <<offered, shown>>
      PROVE  Queue!Next
  <2>1. CanRead >= 1 /\ Place(1) = rcursor
    <3>1. CanRead \in Nat /\ CanRead' \in Nat
      BY <1>c DEF ContentIsSeq
    <3>2. Place(1) = rcursor
      BY <1>f DEF Place, Inv, TypeOK
    <3> QED BY <1>f, <3>1, <3>2
  <2>2. ASSUME NEW i \in 1 .. Len(Content') PROVE Content'[i] = Content[i + 1]
    <3>1. i \in 1 .. CanRead' /\ i \in 1 .. CanRead - 1 /\ i + 1 \in 1 .. CanRead
      BY <1>c, <1>f, <2>1 DEF ContentIsSeq
    <3>2. Content'[i] = buffer'[Place(i)'] /\ Content[i + 1] = buffer[Place(i + 1)]
      BY <1>c, <3>1 DEF ContentIsSeq
    <3> QED BY <1>f, <3>1, <3>2
  <2>3. Content # <<>> /\ Head(Content) = Content[1] /\ Content' = Tail(Content)
    <3>1. Content \in Seq(Nat) /\ Content' \in Seq(Nat)
      BY <1>c DEF ContentIsSeq
    <3>2. Len(Content) = Len(Content') + 1
      BY <1>c, <1>f DEF ContentIsSeq
    <3> QED BY <2>2, <3>1, <3>2, ShorterByOne
  <2>4. Content[1] = buffer[rcursor]
    BY <1>c, <2>1 DEF ContentIsSeq
  <2>5. Hand = <<>> /\ Hand' = <<Head(Content)>>
    BY <1>f, <2>3, <2>4 DEF Copy, Hand
  <2> QED BY <1>f, <2>3, <2>5 DEF Queue!Next, Queue!Take
\* A call that brings nothing leaves the queue as it is.
<1>g. ASSUME Copy(0), UNCHANGED ring, UNCHANGED <<offered, shown>>
      PROVE  UNCHANGED <<offered, Content, Hand, shown>>
  <2>1. UNCHANGED <<need, ledData>>
    BY <1>g DEF Copy, Inv, TypeOK
  <2> QED BY <1>d, <1>g, <1>h, <2>1
<1>7. CASE ReadAhead
  <2>1. Copy(need) /\ rcursor' = rcursor + need /\ UNCHANGED <<buffer, wcursor, offered, shown>>
    BY <1>7 DEF ReadAhead, mainSide
  <2>2. CASE need = 0
    BY <1>g, <2>1, <2>2 DEF Inv, TypeOK, ring
  <2>3. CASE need = 1
    <3>1. CanRead > 0 /\ rcursor < Records
      BY <1>7, <1>a, <2>3
      DEF ReadAhead, Inv, TypeOK, EndInv, OwedInv, Owed, CanRead, Reading
    <3>2. /\ CanRead' = CanRead - 1
          /\ \A i \in 1 .. CanRead - 1 : Place(i)' = Place(i + 1)
      BY <2>1, <2>3, <3>1 DEF Inv, TypeOK, CanRead, Place
    <3> QED BY <1>f, <2>1, <2>3, <3>1, <3>2
  <2> QED BY <2>2, <2>3 DEF Inv, TypeOK
<1>8. CASE ReadBehind
  <2>1. rcursor < Records /\ UNCHANGED <<buffer, wcursor, offered, shown>>
    BY <1>8, <1>a DEF ReadBehind, mainSide, Inv, OwedInv
  <2>2. CASE need = 0
    BY <1>8, <1>g, <2>1, <2>2 DEF ReadBehind, Inv, TypeOK, ring
  <2>3. CASE need = 1
    <3>1. wcursor < rcursor
      BY <1>8, <1>a, <2>3 DEF ReadBehind, Inv, CallInv
    <3>2. Copy(1) /\ rcursor' = (IF rcursor = Records - 1 THEN 0 ELSE rcursor + 1)
      <4>1. CASE rcursor = Records - 1
        <5>1. ~(rcursor + need < Records) /\ Records - rcursor = 1
          BY <2>3, <4>1
        <5> QED BY <1>8, <4>1, <5>1 DEF ReadBehind
      <4>2. CASE rcursor # Records - 1
        <5>1. rcursor + need < Records
          BY <2>1, <2>3, <4>2 DEF Inv, TypeOK
        <5> QED BY <1>8, <2>3, <4>2, <5>1 DEF ReadBehind
      <4> QED BY <4>1, <4>2
    <3>3. /\ CanRead' = CanRead - 1
          /\ \A i \in 1 .. CanRead - 1 : Place(i)' = Place(i + 1)
      BY <2>1, <3>1, <3>2 DEF Inv, TypeOK, CanRead, Place
    <3> QED BY <1>f, <2>1, <2>3, <3>2, <3>3
  <2> QED BY <2>2, <2>3 DEF Inv, TypeOK
<1>9. CASE Show
  <2>1. UNCHANGED Content /\ UNCHANGED offered
    BY <1>9, <1>d DEF Show, mainSide, ring
  <2>2. need = 0 /\ need' = 1 /\ shown' = Append(shown, ledData)
    BY <1>9, <1>a DEF Show, Inv, CallInv
  <2>3. Hand = <<ledData>> /\ Hand' = <<>>
    BY <2>2 DEF Hand
  <2>4. Append(shown, ledData) = shown \o <<ledData>>
    BY AppendIsConcat DEF Inv, TypeOK
  <2>5. Hand # <<>>
    BY <2>3
  <2> QED BY <2>1, <2>2, <2>3, <2>4, <2>5 DEF Queue!Next, Queue!Show
<1>10. CASE UNCHANGED vars
  BY <1>10, <1>d, <1>h DEF vars, call
<1> QED
  BY <1>0, <1>1, <1>2, <1>3, <1>4, <1>5, <1>6, <1>7, <1>8, <1>9, <1>10
  DEF Next, Main, Customer

\* The lights show the commands that found room, in order and whole, up to the
\* first spurious wake-up or the first copy that overruns, for a ring of any
\* length above two records.
THEOREM ImplementsQueueHolds == Spec => ImplementsQueue
<1>1. Init => Queue!Init
  <2>1. ASSUME Init PROVE Content = <<>> /\ Hand = <<>>
    BY <2>1 DEF Init, Content, CanRead, Hand
  <2> QED BY <2>1 DEF Init, Queue!Init
<1>2. Spec => []PutInv
  BY InvariantHolds, InitPut, StepPut, PTL DEF Spec
<1> QED BY <1>1, <1>2, InvariantHolds, StepQueue, PTL DEF Spec, ImplementsQueue

-----------------------------------------------------------------------------
(* The keys.                                                               *)

PressPc == {"none", "start", "waiting", "deaf", "woken", "look", "sleep", "due",
            "mark", "clear", "send", "leave"}

KeyPc == {"ctrl", "poll", "pressed", "touch", "short", "record", "recordAndSignal",
          "signal", "released", "forget", "answer"}

KeysTypeOK ==
    /\ gKeyPressed \in BOOLEAN /\ gKeyLongPressed \in BOOLEAN
    /\ gKeyValueRecord \in Key \cup {"none"}
    /\ gmutex \in Presser \cup {"free"}
    /\ keyPc \in KeyPc /\ event \in Key \cup {"none"}
    /\ pressPc \in [Presser -> PressPc] /\ age \in [Presser -> 0 .. LongTicks]
    /\ down \in SUBSET Key
    /\ said \in SUBSET {"WAKEUP", "READY_NETCONFIG"}
    /\ heldFor \in 0 .. LongTicks /\ upFor \in 0 .. 2
    /\ others \in {"no", "since", "before"}
    /\ missed \in BOOLEAN /\ torn \in BOOLEAN

\* KEY_MICMUTE is down, and its press has been stored.
Stored == keyPc = "signal" \/ (keyPc = "poll" /\ Mute \in down)

\* The release of KEY_MICMUTE, step by step; whatever was pressed before.
Releasing ==
    /\ keyPc \in {"released", "forget", "answer"} => Mute \notin down /\ upFor = 0
    /\ keyPc \in {"forget", "answer"} => ~gKeyPressed
    /\ keyPc = "answer" => gKeyValueRecord = "none"
    /\ keyPc = "ctrl" =>
         /\ others = "no" /\ down = {} /\ upFor = 2
         /\ ~gKeyPressed /\ gKeyValueRecord = "none"
    /\ Mute \in down => upFor = 0
    /\ keyPc \notin {"ctrl", "poll"} /\ others # "since" => upFor = 0
    /\ others = "before" => upFor < 2

\* Until another key is pressed the globals tell where in a press the key
\* thread is: which key is stored, and that a released key has been forgotten.
MuteOnly ==
    others # "since" =>
      /\ keyPc \notin {"touch", "record"}
      /\ keyPc \in {"pressed", "short", "recordAndSignal"} =>
            Mute \in down /\ event = Mute /\ gKeyValueRecord = "none"
      /\ Stored => Mute \in down /\ gKeyValueRecord = Mute
      /\ keyPc \in {"released", "forget"} => gKeyValueRecord = Mute
      /\ keyPc \in {"ctrl", "poll"} /\ Mute \notin down =>
            ~gKeyPressed /\ gKeyValueRecord = "none"

\* A press that has been stored and not been answered as a short one.
Owing == Stored \/ keyPc \in {"released", "forget"}

\* A press is marked long only by a thread that is still to report it, or has
\* done so; whoever marked the press before this one has it cleared (torn).
AnswerInv ==
    others = "no" /\ ~torn =>
      /\ keyPc = "recordAndSignal" /\ gKeyLongPressed =>
            \E t \in Presser : pressPc[t] = "clear"
      /\ Owing /\ gKeyLongPressed =>
            said # {} \/ \E t \in Presser : pressPc[t] \in {"clear", "send"}
      /\ keyPc = "answer" /\ gKeyLongPressed => said # {}
      /\ keyPc = "poll" /\ Mute \notin down /\ upFor < 2 => said # {}

\* The thread takes the key for one that is down.
Measuring(t) == pressPc[t] \in {"look", "sleep", "due", "mark", "clear", "send"}

\* What a thread has measured is at most the time the key is down: a thread
\* that slept looks at the key before time passes again, so none sleeps on
\* through a unit in which the key is up, and heldFor starts anew only when
\* no thread has measured anything.
HeldInv ==
    /\ \A t \in Presser : pressPc[t] \in {"mark", "clear", "send"} => age[t] = LongTicks
    /\ others # "since" /\ upFor >= 1 => \A t \in Presser : pressPc[t] # "sleep"
    /\ others # "since" /\ upFor = 2 =>
         \A t \in Presser : Measuring(t) => pressPc[t] = "look" /\ age[t] = 0
    /\ others = "no" => \A t \in Presser : Measuring(t) => age[t] <= heldFor

KeysInv == KeysTypeOK /\ Releasing /\ MuteOnly /\ AnswerInv /\ HeldInv

LEMMA KeysStart == KeysInit => KeysInv
<1> SUFFICES ASSUME KeysInit PROVE KeysInv
  OBVIOUS
<1> USE KeyAssumption, LongAssumption DEF KeysInit, Key, Mute, Presser
<1>1. KeysTypeOK
  <2>1. pressPc \in [Presser -> PressPc] /\ age \in [Presser -> 0 .. LongTicks]
    BY DEF PressPc
  <2>2. down \in SUBSET Key /\ said \in SUBSET {"WAKEUP", "READY_NETCONFIG"}
    OBVIOUS
  <2>3. /\ gmutex \in Presser \cup {"free"} /\ keyPc \in KeyPc
        /\ heldFor \in 0 .. LongTicks /\ upFor \in 0 .. 2
    BY DEF KeyPc
  <2> QED BY <2>1, <2>2, <2>3, Zenon DEF KeysTypeOK
<1>2. Releasing /\ MuteOnly /\ AnswerInv
  BY DEF Releasing, MuteOnly, AnswerInv, Stored, Owing
<1>3. HeldInv
  BY DEF HeldInv, Measuring
<1> QED BY <1>1, <1>2, <1>3 DEF KeysInv

LEMMA KeysStep == KeysInv /\ [KeysNext]_keyVars => KeysInv'
<1> SUFFICES ASSUME KeysInv, [KeysNext]_keyVars PROVE KeysInv'
  OBVIOUS
<1> USE KeyAssumption, LongAssumption
    DEF KeysInv, Key, Touch, Mute, Power, Presser, globals, threadVars, historyVars
<1>1. CASE StartKeyThread
  <2>1. KeysTypeOK'
    BY <1>1 DEF StartKeyThread, LongPressCtrl, KeysTypeOK, PressPc, KeyPc
  <2>2. Releasing'
    BY <1>1 DEF StartKeyThread, LongPressCtrl, KeysTypeOK, Releasing
  <2>3. MuteOnly'
    BY <1>1 DEF StartKeyThread, LongPressCtrl, KeysTypeOK, Releasing, MuteOnly, Stored
  <2>4. AnswerInv'
    BY <1>1 DEF StartKeyThread, LongPressCtrl, KeysTypeOK, Releasing, MuteOnly,
       Stored, Owing, AnswerInv
  <2>5. HeldInv'
    BY <1>1 DEF StartKeyThread, LongPressCtrl, KeysTypeOK, Releasing, MuteOnly,
       Stored, HeldInv, Measuring
  <2> QED BY <2>1, <2>2, <2>3, <2>4, <2>5
<1>2. CASE StartFromMain
  <2>1. KeysTypeOK'
    BY <1>2 DEF StartFromMain, LongPressCtrl, KeysTypeOK, PressPc, KeyPc
  <2>2. Releasing'
    BY <1>2 DEF StartFromMain, LongPressCtrl, KeysTypeOK, Releasing
  <2>3. MuteOnly'
    BY <1>2 DEF StartFromMain, LongPressCtrl, KeysTypeOK, Releasing, MuteOnly, Stored
  <2>4. AnswerInv'
    BY <1>2 DEF StartFromMain, LongPressCtrl, KeysTypeOK, Releasing, MuteOnly,
       Stored, Owing, AnswerInv
  <2>5. HeldInv'
    BY <1>2 DEF StartFromMain, LongPressCtrl, KeysTypeOK, Releasing, MuteOnly,
       Stored, HeldInv, Measuring
  <2> QED BY <2>1, <2>2, <2>3, <2>4, <2>5
<1>3. CASE SetPressed
  <2>1. KeysTypeOK'
    BY <1>3 DEF SetPressed, KeysTypeOK, PressPc, KeyPc
  <2>2. Releasing'
    BY <1>3 DEF SetPressed, KeysTypeOK, Releasing
  <2>3. MuteOnly'
    BY <1>3 DEF SetPressed, KeysTypeOK, Releasing, MuteOnly, Stored
  <2>4. AnswerInv'
    BY <1>3 DEF SetPressed, KeysTypeOK, Releasing, MuteOnly, Stored, Owing, AnswerInv
  <2>5. HeldInv'
    BY <1>3 DEF SetPressed, KeysTypeOK, Releasing, MuteOnly, Stored, HeldInv, Measuring
  <2> QED BY <2>1, <2>2, <2>3, <2>4, <2>5
<1>4. CASE SetShort
  <2>1. KeysTypeOK'
    BY <1>4 DEF SetShort, KeysTypeOK, PressPc, KeyPc
  <2>2. Releasing'
    BY <1>4 DEF SetShort, KeysTypeOK, Releasing
  <2>3. MuteOnly'
    BY <1>4 DEF SetShort, KeysTypeOK, Releasing, MuteOnly, Stored
  <2>4. AnswerInv'
    BY <1>4 DEF SetShort, KeysTypeOK, Releasing, MuteOnly, Stored, Owing, AnswerInv
  <2>5. HeldInv'
    BY <1>4 DEF SetShort, KeysTypeOK, Releasing, MuteOnly, Stored, HeldInv, Measuring
  <2> QED BY <2>1, <2>2, <2>3, <2>4, <2>5
<1>5. CASE SetRecord
  <2>1. KeysTypeOK'
    BY <1>5 DEF SetRecord, KeysTypeOK, PressPc, KeyPc
  <2>2. Releasing'
    BY <1>5 DEF SetRecord, KeysTypeOK, Releasing
  <2>3. MuteOnly'
    BY <1>5 DEF SetRecord, KeysTypeOK, Releasing, MuteOnly, Stored
  <2>4. AnswerInv'
    BY <1>5 DEF SetRecord, KeysTypeOK, Releasing, MuteOnly, Stored, Owing, AnswerInv
  <2>5. HeldInv'
    BY <1>5 DEF SetRecord, KeysTypeOK, Releasing, MuteOnly, Stored, HeldInv, Measuring
  <2> QED BY <2>1, <2>2, <2>3, <2>4, <2>5
<1>6. CASE SignalPress
  <2>1. KeysTypeOK'
    BY <1>6 DEF SignalPress, Noted, KeysTypeOK, PressPc, KeyPc
  <2>2. Releasing'
    BY <1>6 DEF SignalPress, Noted, KeysTypeOK, Releasing
  <2>3. MuteOnly'
    BY <1>6 DEF SignalPress, Noted, KeysTypeOK, Releasing, MuteOnly, Stored
  <2>4. AnswerInv'
    BY <1>6 DEF SignalPress, Noted, KeysTypeOK, Releasing, MuteOnly, Stored, Owing,
       AnswerInv
  <2>5. HeldInv'
    BY <1>6 DEF SignalPress, Noted, KeysTypeOK, Releasing, MuteOnly, Stored,
       HeldInv, Measuring
  <2> QED BY <2>1, <2>2, <2>3, <2>4, <2>5
<1>7. CASE ClearPressed
  <2>1. KeysTypeOK'
    BY <1>7 DEF ClearPressed, KeysTypeOK, PressPc, KeyPc
  <2>2. Releasing'
    BY <1>7 DEF ClearPressed, KeysTypeOK, Releasing
  <2>3. MuteOnly'
    BY <1>7 DEF ClearPressed, KeysTypeOK, Releasing, MuteOnly, Stored
  <2>4. AnswerInv'
    BY <1>7 DEF ClearPressed, KeysTypeOK, Releasing, MuteOnly, Stored, Owing, AnswerInv
  <2>5. HeldInv'
    BY <1>7 DEF ClearPressed, KeysTypeOK, Releasing, MuteOnly, Stored, HeldInv,
       Measuring
  <2> QED BY <2>1, <2>2, <2>3, <2>4, <2>5
<1>8. CASE ClearRecord
  <2>1. KeysTypeOK'
    BY <1>8 DEF ClearRecord, Noted, KeysTypeOK, PressPc, KeyPc
  <2>2. Releasing'
    BY <1>8 DEF ClearRecord, Noted, KeysTypeOK, Releasing
  <2>3. MuteOnly'
    BY <1>8 DEF ClearRecord, Noted, KeysTypeOK, Releasing, MuteOnly, Stored
  <2>4. AnswerInv'
    BY <1>8 DEF ClearRecord, Noted, KeysTypeOK, Releasing, MuteOnly, Stored, Owing,
       AnswerInv
  <2>5. HeldInv'
    BY <1>8 DEF ClearRecord, Noted, KeysTypeOK, Releasing, MuteOnly, Stored,
       HeldInv, Measuring
  <2> QED BY <2>1, <2>2, <2>3, <2>4, <2>5
<1>9. CASE Answer
  <2>1. KeysTypeOK'
    BY <1>9 DEF Answer, KeysTypeOK, PressPc, KeyPc
  <2>2. Releasing'
    BY <1>9 DEF Answer, KeysTypeOK, Releasing
  <2>3. MuteOnly'
    BY <1>9 DEF Answer, KeysTypeOK, Releasing, MuteOnly, Stored
  <2>4. AnswerInv'
    BY <1>9 DEF Answer, KeysTypeOK, Releasing, MuteOnly, Stored, Owing, AnswerInv
  <2>5. HeldInv'
    BY <1>9 DEF Answer, KeysTypeOK, Releasing, MuteOnly, Stored, HeldInv, Measuring
  <2> QED BY <2>1, <2>2, <2>3, <2>4, <2>5
<1>10. CASE Tick
  <2>1. KeysTypeOK'
    <3>1. pressPc' \in [Presser -> PressPc]
      BY <1>10 DEF Tick, KeysTypeOK, PressPc
    <3>2. age' \in [Presser -> 0 .. LongTicks]
      BY <1>10 DEF Tick, Capped, KeysTypeOK
    <3>3. upFor' \in 0 .. 2 /\ heldFor' \in 0 .. LongTicks
      BY <1>10 DEF Tick, Capped, KeysTypeOK
    <3>4. /\ said' \in SUBSET {"WAKEUP", "READY_NETCONFIG"}
          /\ missed' \in BOOLEAN /\ torn' \in BOOLEAN
      BY <1>10, Zenon DEF Tick, KeysTypeOK
    <3> QED BY <1>10, <3>1, <3>2, <3>3, <3>4 DEF Tick, KeysTypeOK
  <2>2. Releasing'
    BY <1>10 DEF Tick, Idle, Capped, KeysTypeOK, Releasing
  <2>3. MuteOnly'
    BY <1>10 DEF Tick, Idle, Capped, KeysTypeOK, Releasing, MuteOnly, Stored
  <2>4. AnswerInv'
    BY <1>10 DEF Tick, Idle, Capped, KeysTypeOK, Releasing, MuteOnly, Stored,
       Owing, AnswerInv
  <2>5. HeldInv'
    BY <1>10 DEF Tick, Idle, Capped, KeysTypeOK, Releasing, MuteOnly, Stored,
       HeldInv, Measuring
  <2> QED BY <2>1, <2>2, <2>3, <2>4, <2>5
<1>11. ASSUME NEW k \in Key, Press(k) PROVE KeysInv'
  <2>1. KeysTypeOK'
    <3>1. keyPc' \in KeyPc /\ event' \in Key \cup {"none"} /\ down' \in SUBSET Key
      BY <1>11 DEF Press, KeysTypeOK, KeyPc
    <3>2. /\ upFor' \in 0 .. 2 /\ heldFor' \in 0 .. LongTicks
          /\ others' \in {"no", "since", "before"}
      BY <1>11 DEF Press, KeysTypeOK
    <3> QED BY <1>11, <3>1, <3>2 DEF Press, KeysTypeOK
  <2>2. Releasing'
    BY <1>11 DEF Press, KeysTypeOK, Releasing
  <2>3. MuteOnly'
    BY <1>11 DEF Press, KeysTypeOK, Releasing, MuteOnly, Stored
  <2>4. AnswerInv'
    BY <1>11 DEF Press, KeysTypeOK, Releasing, MuteOnly, Stored, Owing, AnswerInv
  <2>5. HeldInv'
    BY <1>11 DEF Press, KeysTypeOK, Releasing, MuteOnly, Stored, HeldInv, Measuring
  <2> QED BY <2>1, <2>2, <2>3, <2>4, <2>5
<1>12. ASSUME NEW k \in Key, Release(k) PROVE KeysInv'
  <2>1. KeysTypeOK'
    BY <1>12 DEF Release, KeysTypeOK, PressPc, KeyPc
  <2>2. Releasing'
    BY <1>12 DEF Release, KeysTypeOK, Releasing
  <2>3. MuteOnly'
    BY <1>12 DEF Release, KeysTypeOK, Releasing, MuteOnly, Stored
  <2>4. AnswerInv'
    BY <1>12 DEF Release, KeysTypeOK, Releasing, MuteOnly, Stored, Owing, AnswerInv
  <2>5. HeldInv'
    BY <1>12 DEF Release, KeysTypeOK, Releasing, MuteOnly, Stored, HeldInv, Measuring
  <2> QED BY <2>1, <2>2, <2>3, <2>4, <2>5
<1>13. ASSUME NEW t \in Presser, Wait(t) PROVE KeysInv'
  <2>1. KeysTypeOK'
    BY <1>13 DEF Wait, Goto, KeysTypeOK, PressPc, KeyPc
  <2>2. Releasing'
    BY <1>13 DEF Wait, Goto, KeysTypeOK, Releasing
  <2>3. MuteOnly'
    BY <1>13 DEF Wait, Goto, KeysTypeOK, Releasing, MuteOnly, Stored
  <2>4. AnswerInv'
    BY <1>13 DEF Wait, Goto, KeysTypeOK, Releasing, MuteOnly, Stored, Owing, AnswerInv
  <2>5. HeldInv'
    BY <1>13 DEF Wait, Goto, KeysTypeOK, Releasing, MuteOnly, Stored, HeldInv, Measuring
  <2> QED BY <2>1, <2>2, <2>3, <2>4, <2>5
<1>14. ASSUME NEW t \in Presser, WakeUp(t) PROVE KeysInv'
  <2>1. KeysTypeOK'
    BY <1>14 DEF WakeUp, Goto, KeysTypeOK, PressPc, KeyPc
  <2>2. Releasing'
    BY <1>14 DEF WakeUp, Goto, KeysTypeOK, Releasing
  <2>3. MuteOnly'
    BY <1>14 DEF WakeUp, Goto, KeysTypeOK, Releasing, MuteOnly, Stored
  <2>4. AnswerInv'
    BY <1>14 DEF WakeUp, Goto, KeysTypeOK, Releasing, MuteOnly, Stored, Owing, AnswerInv
  <2>5. HeldInv'
    BY <1>14 DEF WakeUp, Goto, KeysTypeOK, Releasing, MuteOnly, Stored, HeldInv,
       Measuring
  <2> QED BY <2>1, <2>2, <2>3, <2>4, <2>5
<1>15. ASSUME NEW t \in Presser, Measure(t) PROVE KeysInv'
  <2>1. KeysTypeOK'
    BY <1>15 DEF Measure, Goto, KeysTypeOK, PressPc, KeyPc
  <2>2. Releasing'
    BY <1>15 DEF Measure, Goto, KeysTypeOK, Releasing
  <2>3. MuteOnly'
    BY <1>15 DEF Measure, Goto, KeysTypeOK, Releasing, MuteOnly, Stored
  <2>4. AnswerInv'
    BY <1>15 DEF Measure, Goto, KeysTypeOK, Releasing, MuteOnly, Stored, Owing,
       AnswerInv
  <2>5. HeldInv'
    BY <1>15 DEF Measure, Goto, KeysTypeOK, Releasing, MuteOnly, Stored, HeldInv,
       Measuring
  <2> QED BY <2>1, <2>2, <2>3, <2>4, <2>5
<1>16. ASSUME NEW t \in Presser, Look(t) PROVE KeysInv'
  <2>1. KeysTypeOK'
    BY <1>16 DEF Look, Goto, KeysTypeOK, PressPc, KeyPc
  <2>2. Releasing'
    BY <1>16 DEF Look, Goto, KeysTypeOK, Releasing
  <2>3. MuteOnly'
    BY <1>16 DEF Look, Goto, KeysTypeOK, Releasing, MuteOnly, Stored
  <2>4. AnswerInv'
    BY <1>16 DEF Look, Goto, KeysTypeOK, Releasing, MuteOnly, Stored, Owing, AnswerInv
  <2>5. HeldInv'
    BY <1>16 DEF Look, Goto, KeysTypeOK, Releasing, MuteOnly, Stored, HeldInv, Measuring
  <2> QED BY <2>1, <2>2, <2>3, <2>4, <2>5
<1>17. ASSUME NEW t \in Presser, TimeExceed(t) PROVE KeysInv'
  <2>1. KeysTypeOK'
    BY <1>17 DEF TimeExceed, Goto, KeysTypeOK, PressPc, KeyPc
  <2>2. Releasing'
    BY <1>17 DEF TimeExceed, Goto, KeysTypeOK, Releasing
  <2>3. MuteOnly'
    BY <1>17 DEF TimeExceed, Goto, KeysTypeOK, Releasing, MuteOnly, Stored
  <2>4. AnswerInv'
    BY <1>17 DEF TimeExceed, Goto, KeysTypeOK, Releasing, MuteOnly, Stored, Owing,
       AnswerInv
  <2>5. HeldInv'
    BY <1>17 DEF TimeExceed, Goto, KeysTypeOK, Releasing, MuteOnly, Stored,
       HeldInv, Measuring
  <2> QED BY <2>1, <2>2, <2>3, <2>4, <2>5
<1>18. ASSUME NEW t \in Presser, MarkLong(t) PROVE KeysInv'
  <2>1. KeysTypeOK'
    BY <1>18 DEF MarkLong, Goto, Noted, KeysTypeOK, PressPc, KeyPc
  <2>2. Releasing'
    BY <1>18 DEF MarkLong, Goto, Noted, KeysTypeOK, Releasing
  <2>3. MuteOnly'
    BY <1>18 DEF MarkLong, Goto, Noted, KeysTypeOK, Releasing, MuteOnly, Stored
  <2>4. AnswerInv'
    BY <1>18 DEF MarkLong, Goto, Noted, KeysTypeOK, Releasing, MuteOnly, Stored,
       Owing, AnswerInv
  <2>5. HeldInv'
    BY <1>18 DEF MarkLong, Goto, Noted, KeysTypeOK, Releasing, MuteOnly, Stored,
       HeldInv, Measuring
  <2> QED BY <2>1, <2>2, <2>3, <2>4, <2>5
<1>19. ASSUME NEW t \in Presser, ClearLong(t) PROVE KeysInv'
  <2>1. KeysTypeOK'
    BY <1>19 DEF ClearLong, Goto, Noted, KeysTypeOK, PressPc, KeyPc
  <2>2. Releasing'
    BY <1>19 DEF ClearLong, Goto, Noted, KeysTypeOK, Releasing
  <2>3. MuteOnly'
    BY <1>19 DEF ClearLong, Goto, Noted, KeysTypeOK, Releasing, MuteOnly, Stored
  <2>4. AnswerInv'
    BY <1>19 DEF ClearLong, Goto, Noted, KeysTypeOK, Releasing, MuteOnly, Stored,
       Owing, AnswerInv
  <2>5. HeldInv'
    BY <1>19 DEF ClearLong, Goto, Noted, KeysTypeOK, Releasing, MuteOnly, Stored,
       HeldInv, Measuring
  <2> QED BY <2>1, <2>2, <2>3, <2>4, <2>5
<1>20. ASSUME NEW t \in Presser, SendLong(t) PROVE KeysInv'
  <2>1. KeysTypeOK'
    BY <1>20 DEF SendLong, Goto, KeysTypeOK, PressPc, KeyPc
  <2>2. Releasing'
    BY <1>20 DEF SendLong, Goto, KeysTypeOK, Releasing
  <2>3. MuteOnly'
    BY <1>20 DEF SendLong, Goto, KeysTypeOK, Releasing, MuteOnly, Stored
  <2>4. AnswerInv'
    BY <1>20 DEF SendLong, Goto, KeysTypeOK, Releasing, MuteOnly, Stored, Owing,
       AnswerInv
  <2>5. HeldInv'
    BY <1>20 DEF SendLong, Goto, KeysTypeOK, Releasing, MuteOnly, Stored, HeldInv,
       Measuring
  <2> QED BY <2>1, <2>2, <2>3, <2>4, <2>5
<1>21. ASSUME NEW t \in Presser, Leave(t) PROVE KeysInv'
  <2>1. KeysTypeOK'
    BY <1>21 DEF Leave, Goto, KeysTypeOK, PressPc, KeyPc
  <2>2. Releasing'
    BY <1>21 DEF Leave, Goto, KeysTypeOK, Releasing
  <2>3. MuteOnly'
    BY <1>21 DEF Leave, Goto, KeysTypeOK, Releasing, MuteOnly, Stored
  <2>4. AnswerInv'
    BY <1>21 DEF Leave, Goto, KeysTypeOK, Releasing, MuteOnly, Stored, Owing, AnswerInv
  <2>5. HeldInv'
    BY <1>21 DEF Leave, Goto, KeysTypeOK, Releasing, MuteOnly, Stored, HeldInv,
       Measuring
  <2> QED BY <2>1, <2>2, <2>3, <2>4, <2>5
<1>22. CASE UNCHANGED keyVars
  BY <1>22 DEF keyVars, KeysTypeOK, Releasing, MuteOnly, AnswerInv, HeldInv,
     Stored, Owing, Measuring
<1> QED
  BY <1>1, <1>2, <1>3, <1>4, <1>5, <1>6, <1>7, <1>8, <1>9, <1>10, <1>11, <1>12, <1>13,
     <1>14, <1>15, <1>16, <1>17, <1>18, <1>19, <1>20, <1>21, <1>22
  DEF KeysNext, HandleEvent, LongPress

\* The invariant of the keys holds for any keys and any duration.
THEOREM KeysInvariantHolds == KeysSpec => []KeysInv
BY KeysStart, KeysStep, PTL DEF KeysSpec

\* Every press of KEY_MICMUTE is answered by the end of its release, unless
\* the stores of two threads that share no lock fall into each other.
THEOREM PressAnsweredHolds == KeysSpec => []PressAnswered
<1>1. KeysInv => PressAnswered
  BY DEF KeysInv, AnswerInv, PressAnswered
<1> QED BY <1>1, KeysInvariantHolds, PTL

\* READY_NETCONFIG is sent only for a key that was held for LongTicks units.
THEOREM LongWasHeldHolds == KeysSpec => LongWasHeld
<1>1. KeysInv /\ KeysInv' /\ [KeysNext]_keyVars =>
        [others = "no" /\ "READY_NETCONFIG" \in said' \ said
           => heldFor = LongTicks]_keyVars
  <2> SUFFICES ASSUME KeysInv, KeysNext, others = "no", "READY_NETCONFIG" \in said' \ said
               PROVE  heldFor = LongTicks
    BY DEF keyVars
  <2>1. PICK t \in Presser : SendLong(t)
    BY DEF KeysNext, HandleEvent, LongPress, StartKeyThread, StartFromMain, LongPressCtrl,
       SetPressed, SetShort, SetRecord, SignalPress, ClearPressed, ClearRecord, Answer,
       Tick, Press, Release, Wait, WakeUp, Measure, Look, TimeExceed, MarkLong,
       ClearLong, Leave, globals, threadVars, historyVars
  <2>2. Measuring(t) /\ age[t] = LongTicks /\ age[t] <= heldFor
    BY <2>1 DEF SendLong, KeysInv, HeldInv, Measuring
  <2> QED BY <2>2, LongAssumption DEF KeysInv, KeysTypeOK
<1> QED BY <1>1, KeysInvariantHolds, PTL DEF KeysSpec, LongWasHeld
=============================================================================
