---------------------------- MODULE RecorderProofs ----------------------------
(***************************************************************************)
(* For a queue of any capacity and periods of any length that fit in it:   *)
(* the byte queue with its two positions, whichever thread is between the  *)
(* mutex and the event, is the stream of whole periods of AudioStream.     *)
(*                                                                         *)
(* For buffers, an overlap and a history of any length: what the callbacks *)
(* were given is cut into buffers that repeat the end of the one before,   *)
(* waits in the pool and reaches the history, where it can be read.  The   *)
(* invariant CaptureInv says where in the sound each of these stands.      *)
(***************************************************************************)
EXTENDS Capture, SequenceTheorems, TLAPS

QueueType ==
    /\ ring \in [0 .. Capacity - 1 -> Int]
    /\ front \in 0 .. Capacity - 1 /\ rear \in 0 .. Capacity - 1

TypeOK ==
    /\ QueueType
    /\ taken \in Seq(Int) /\ heard \in Seq(Int)
    /\ recorded \in Nat

\* Only a thread in its callback, or one that crashed there, has bytes that
\* are neither in the queue nor heard.
TakenInv ==
    /\ readPc = "callback" => taken # <<>>
    /\ readPc \notin {"callback", "crashed"} => taken = <<>>

Inv == TypeOK /\ TakenInv

-----------------------------------------------------------------------------
(* Positions in the ring.                                                  *)

\* The position k bytes after p.
After(p, k) == IF p + k <= Capacity - 1 THEN p + k ELSE p + k - Capacity

LEMMA AfterAfter ==
    ASSUME NEW f \in 0 .. Capacity - 1, NEW l \in Nat, NEW m \in Nat, l + m <= Capacity - 1
    PROVE  After(After(f, l), m) = After(f, l + m)
<1>1. CASE f + l <= Capacity - 1
  BY <1>1, SizesAssumption DEF After
<1>2. CASE ~(f + l <= Capacity - 1)
  BY <1>2, SizesAssumption DEF After
<1> QED BY <1>1, <1>2

LEMMA ModOnce ==
    ASSUME NEW x \in Int, 0 <= x, x <= 2 * Capacity - 1
    PROVE  x % Capacity = IF x < Capacity THEN x ELSE x - Capacity
<1>1. CASE x < Capacity
  BY <1>1, SizesAssumption
<1>2. CASE x >= Capacity
  BY <1>2, SizesAssumption
<1> QED BY <1>1, <1>2, SizesAssumption

\* A sum that passes the end of the ring once.
LEMMA ModIsAfter ==
    ASSUME NEW p \in 0 .. Capacity - 1, NEW k \in 0 .. Capacity
    PROVE  (p + k) % Capacity = After(p, k)
BY ModOnce, SizesAssumption DEF After

\* How far rear is from front.
Distance == Len_asyn = IF front <= rear THEN rear - front ELSE rear - front + Capacity

LEMMA LenIs == QueueType => Distance
<1> SUFFICES ASSUME QueueType PROVE Distance
  OBVIOUS
<1> DEFINE x == rear - front + Capacity
<1>1. x \in Int /\ 0 <= x /\ x <= 2 * Capacity - 1
  BY SizesAssumption DEF QueueType
<1>2. x % Capacity = IF x < Capacity THEN x ELSE x - Capacity
  BY <1>1, ModOnce
<1> QED BY <1>2, SizesAssumption DEF QueueType, Len_asyn, Distance

\* The content, position by position.
ByPosition ==
    /\ Len_asyn \in 0 .. Capacity - 1
    /\ Content \in Seq(Int) /\ Len(Content) = Len_asyn
    /\ \A i \in 1 .. Len_asyn : Content[i] = ring[After(front, i - 1)]

LEMMA ContentIs == QueueType => ByPosition
<1> SUFFICES ASSUME QueueType PROVE ByPosition
  OBVIOUS
<1>1. Len_asyn \in 0 .. Capacity - 1
  BY LenIs, SizesAssumption DEF QueueType, Distance
<1>2. \A i \in 1 .. Len_asyn : (front + i - 1) % Capacity = After(front, i - 1)
  <2> TAKE i \in 1 .. Len_asyn
  <2>1. i - 1 \in 0 .. Capacity /\ front + i - 1 = front + (i - 1)
    BY <1>1, SizesAssumption DEF QueueType
  <2> QED BY <2>1, ModIsAfter DEF QueueType
<1>3. Content = [i \in 1 .. Len_asyn |-> ring[After(front, i - 1)]]
  BY <1>2 DEF Content
<1>4. \A i \in 1 .. Len_asyn : ring[After(front, i - 1)] \in Int
  BY <1>1, SizesAssumption DEF QueueType, After
<1> QED BY <1>1, <1>3, <1>4 DEF ByPosition

-----------------------------------------------------------------------------
(* What the two calls of the queue do to its content.                      *)

\* queue_write of a whole period, in one piece or in two.
LEMMA WrittenIs ==
    ASSUME QueueType, NEW data \in Seq(Int), Len(data) \in 1 .. Capacity - 1
    PROVE  /\ Written(data) \in [0 .. Capacity - 1 -> Int]
           /\ \A k \in 1 .. Len(data) : Written(data)[After(rear, k - 1)] = data[k]
           /\ \A j \in 0 .. Capacity - 1 :
                 (\A k \in 1 .. Len(data) : j # After(rear, k - 1)) => Written(data)[j] = ring[j]
<1> USE SizesAssumption DEF QueueType
<1>1. CASE rear + Len(data) <= Capacity - 1
  <2>1. Written(data) = [i \in 0 .. Capacity - 1 |->
            IF i \in rear .. rear + Len(data) - 1 THEN data[i - rear + 1] ELSE ring[i]]
    BY <1>1 DEF Written, Copy
  <2>2. \A k \in 1 .. Len(data) : After(rear, k - 1) = rear + k - 1
    BY <1>1 DEF After
  <2>3. Written(data) \in [0 .. Capacity - 1 -> Int]
    <3>1. \A i \in rear .. rear + Len(data) - 1 : data[i - rear + 1] \in Int
      OBVIOUS
    <3> QED BY <2>1, <3>1
  <2>4. ASSUME NEW k \in 1 .. Len(data) PROVE Written(data)[After(rear, k - 1)] = data[k]
    <3>1. rear + k - 1 \in 0 .. Capacity - 1 /\ rear + k - 1 \in rear .. rear + Len(data) - 1
      BY <1>1
    <3>2. (rear + k - 1) - rear + 1 = k
      OBVIOUS
    <3>3. Written(data)[rear + k - 1] = data[(rear + k - 1) - rear + 1]
      BY <2>1, <3>1
    <3> QED BY <2>2, <3>2, <3>3
  <2>5. ASSUME NEW j \in 0 .. Capacity - 1, \A k \in 1 .. Len(data) : j # After(rear, k - 1)
        PROVE  Written(data)[j] = ring[j]
    <3>1. j \notin rear .. rear + Len(data) - 1
      <4> SUFFICES ASSUME j \in rear .. rear + Len(data) - 1 PROVE FALSE
        OBVIOUS
      <4>1. j - rear + 1 \in 1 .. Len(data) /\ j = rear + (j - rear + 1) - 1
        OBVIOUS
      <4> QED BY <4>1, <2>2, <2>5
    <3> QED BY <2>1, <3>1
  <2> QED BY <2>3, <2>4, <2>5
<1>2. CASE rear + Len(data) > Capacity - 1
  <2> DEFINE len1   == Capacity - 1 - rear + 1
             first  == SubSeq(data, 1, len1)
             second == SubSeq(data, len1 + 1, Len(data))
  <2>1. len1 \in 1 .. Len(data)
    BY <1>2
  <2>2. Len(first) = len1 /\ \A i \in 1 .. len1 : first[i] = data[i]
    BY <2>1
  <2>3. Len(second) = Len(data) - len1
        /\ \A i \in 1 .. Len(data) - len1 : second[i] = data[i + len1]
    <3> HIDE DEF len1
    <3>1. second = [i \in 1 .. (1 + Len(data) - (len1 + 1)) |-> data[i + (len1 + 1) - 1]]
      BY <2>1
    <3>2. 1 + Len(data) - (len1 + 1) = Len(data) - len1 /\ Len(data) - len1 \in Nat
      BY <2>1
    <3>3. \A i \in 1 .. Len(data) - len1 : i + (len1 + 1) - 1 = i + len1
      BY <2>1
    <3> HIDE DEF second
    <3> QED BY <3>1, <3>2, <3>3
  <2>4. Written(data) = Copy(second, 0, Copy(first, rear, ring))
    BY <1>2 DEF Written
  <2> HIDE DEF first, second
  <2>5. Copy(first, rear, ring) = [i \in 0 .. Capacity - 1 |->
            IF i >= rear THEN data[i - rear + 1] ELSE ring[i]]
    BY <2>1, <2>2 DEF Copy
  <2>6. Written(data) = [i \in 0 .. Capacity - 1 |->
            IF i < Len(data) - len1 THEN data[i + 1 + len1]
            ELSE IF i >= rear THEN data[i - rear + 1] ELSE ring[i]]
    <3>1. Copy(second, 0, Copy(first, rear, ring)) = [i \in 0 .. Capacity - 1 |->
              IF i \in 0 .. 0 + Len(second) - 1 THEN second[i - 0 + 1]
              ELSE Copy(first, rear, ring)[i]]
      BY <2>5 DEF Copy
    <3>2. \A i \in 0 .. Capacity - 1 : i \in 0 .. 0 + Len(second) - 1 <=> i < Len(data) - len1
      BY <2>1, <2>3
    <3>3. \A i \in 0 .. Capacity - 1 : i < Len(data) - len1 => second[i - 0 + 1] = data[i + 1 + len1]
      BY <2>1, <2>3
    <3> QED BY <2>4, <2>5, <3>1, <3>2, <3>3
  <2>7. \A k \in 1 .. Len(data) :
            After(rear, k - 1) = IF k <= len1 THEN rear + k - 1 ELSE k - 1 - len1
    BY <2>1 DEF After
  <2>8. Written(data) \in [0 .. Capacity - 1 -> Int]
    <3>1. \A i \in 0 .. Capacity - 1 : i < Len(data) - len1 => data[i + 1 + len1] \in Int
      BY <2>1
    <3>2. \A i \in 0 .. Capacity - 1 : i >= rear => data[i - rear + 1] \in Int
      BY <2>1
    <3> QED BY <2>6, <3>1, <3>2
  <2>9. ASSUME NEW k \in 1 .. Len(data) PROVE Written(data)[After(rear, k - 1)] = data[k]
    <3>1. CASE k <= len1
      <4>1. After(rear, k - 1) = rear + k - 1 /\ rear + k - 1 \in 0 .. Capacity - 1
        BY <2>1, <2>7, <3>1
      <4>2. (rear + k - 1) - rear + 1 = k /\ rear + k - 1 >= rear
            /\ ~(rear + k - 1 < Len(data) - len1)
        BY <2>1
      <4> QED BY <2>6, <4>1, <4>2
    <3>2. CASE k > len1
      <4>1. After(rear, k - 1) = k - 1 - len1 /\ k - 1 - len1 \in 0 .. Capacity - 1
        BY <2>1, <2>7, <3>2
      <4>2. (k - 1 - len1) + 1 + len1 = k /\ k - 1 - len1 < Len(data) - len1
        BY <2>1
      <4> QED BY <2>6, <4>1, <4>2
    <3> QED BY <2>1, <3>1, <3>2
  <2>10. ASSUME NEW j \in 0 .. Capacity - 1, \A k \in 1 .. Len(data) : j # After(rear, k - 1)
         PROVE  Written(data)[j] = ring[j]
    <3>1. ~(j < Len(data) - len1)
      <4> SUFFICES ASSUME j < Len(data) - len1 PROVE FALSE
        OBVIOUS
      <4>1. j + 1 + len1 \in 1 .. Len(data) /\ j + 1 + len1 > len1
        BY <2>1
      <4>2. After(rear, (j + 1 + len1) - 1) = (j + 1 + len1) - 1 - len1
        BY <4>1, <2>1 DEF After
      <4>3. (j + 1 + len1) - 1 - len1 = j
        BY <2>1
      <4> QED BY <4>1, <4>2, <4>3, <2>10
    <3>2. ~(j >= rear)
      <4> SUFFICES ASSUME j >= rear PROVE FALSE
        OBVIOUS
      <4>1. j - rear + 1 \in 1 .. len1
        BY <2>1
      <4>2. j - rear + 1 \in 1 .. Len(data)
        BY <4>1, <2>1
      <4>3. After(rear, (j - rear + 1) - 1) = rear + (j - rear + 1) - 1
        BY <4>1, <2>1 DEF After
      <4>4. rear + (j - rear + 1) - 1 = j
        OBVIOUS
      <4> QED BY <4>2, <4>3, <4>4, <2>10
    <3> QED BY <2>6, <3>1, <3>2
  <2> QED BY <2>8, <2>9, <2>10
<1>3. rear + Len(data) <= Capacity - 1 \/ rear + Len(data) > Capacity - 1
  OBVIOUS
<1> QED BY <1>1, <1>2, <1>3

\* Written data comes after what was there.
LEMMA WriteAppends ==
    ASSUME QueueType, NEW data \in Seq(Int), Len(data) \in 1 .. Capacity - 1,
           Left_asyn >= Len(data),
           ring' = Written(data), rear' = Moved(rear, Len(data)), front' = front
    PROVE  QueueType' /\ Content' = Content \o data
<1> USE SizesAssumption
<1>1. ByPosition
  BY ContentIs
<1>2. Len_asyn + Len(data) <= Capacity - 1 /\ Len_asyn \in Nat
  BY <1>1 DEF Left_asyn, ByPosition
<1>3. rear' = After(rear, Len(data))
  BY ModIsAfter DEF Moved, QueueType
<1>4. rear = After(front, Len_asyn)
  <2>1. Distance
    BY LenIs
  <2> QED BY <2>1 DEF After, QueueType, Distance
<1>5. QueueType'
  <2>1. After(rear, Len(data)) \in 0 .. Capacity - 1
    BY DEF After, QueueType
  <2> QED BY <1>3, <2>1, WrittenIs DEF QueueType
<1>6. ByPosition'
  BY <1>5, ContentIs, PTL
<1>7. Len_asyn' = Len_asyn + Len(data)
  <2>1. Distance'
    BY <1>5, LenIs, PTL
  <2>2. Distance
    BY LenIs
  <2> DEFINE n == Len(data)
             a == After(rear, n)
  <2>3. front' = front /\ rear' = a /\ Len_asyn + n <= Capacity - 1 /\ n \in Nat
    BY <1>2, <1>3
  <2> SUFFICES Len_asyn' = Len_asyn + n
    OBVIOUS
  <2> HIDE DEF n
  <2>4. Len_asyn = IF front <= rear THEN rear - front ELSE rear - front + Capacity
    BY <2>2 DEF Distance
  <2>5. Len_asyn' = IF front <= a THEN a - front ELSE a - front + Capacity
    BY <2>1, <2>3 DEF Distance
  <2>6. CASE rear + n <= Capacity - 1
    <3>1. a = rear + n
      BY <2>6 DEF After
    <3> HIDE DEF a
    <3> QED BY <2>3, <2>4, <2>5, <2>6, <3>1 DEF QueueType
  <2>7. CASE ~(rear + n <= Capacity - 1)
    <3>1. a = rear + n - Capacity
      BY <2>7 DEF After
    <3> HIDE DEF a
    <3> QED BY <2>3, <2>4, <2>5, <2>7, <3>1 DEF QueueType
  <2> QED BY <2>6, <2>7
<1>8. \A k \in 1 .. Len(data) : After(rear, k - 1) = After(front, Len_asyn + k - 1)
  <2> TAKE k \in 1 .. Len(data)
  <2>1. k - 1 \in Nat /\ Len_asyn + (k - 1) <= Capacity - 1 /\ Len_asyn + k - 1 = Len_asyn + (k - 1)
    BY <1>2
  <2> QED BY <1>2, <1>4, <2>1, AfterAfter DEF QueueType
<1>9. ASSUME NEW i \in 1 .. Len_asyn PROVE ring'[After(front, i - 1)] = Content[i]
  <2>1. After(front, i - 1) \in 0 .. Capacity - 1
    BY <1>2 DEF After, QueueType
  <2>2. ASSUME NEW k \in 1 .. Len(data) PROVE After(front, i - 1) # After(rear, k - 1)
    <3>1. After(rear, k - 1) = After(front, Len_asyn + k - 1)
      BY <1>8
    <3> QED BY <3>1, <1>2 DEF After, QueueType
  <2>3. ring'[After(front, i - 1)] = ring[After(front, i - 1)]
    BY <2>1, <2>2, WrittenIs
  <2> QED BY <2>3, <1>1 DEF ByPosition
<1>10. ASSUME NEW k \in 1 .. Len(data)
       PROVE  ring'[After(front, Len_asyn + k - 1)] = data[k]
  <2>1. After(rear, k - 1) = After(front, Len_asyn + k - 1)
    BY <1>8
  <2>2. Written(data)[After(rear, k - 1)] = data[k]
    BY WrittenIs
  <2> QED BY <2>1, <2>2
<1>11. ASSUME NEW i \in 1 .. Len_asyn + Len(data) PROVE Content'[i] = (Content \o data)[i]
  <2>1. Content'[i] = ring'[After(front, i - 1)]
    BY <1>6, <1>7 DEF ByPosition
  <2>2. CASE i <= Len_asyn
    BY <2>1, <2>2, <1>1, <1>2, <1>9 DEF ByPosition
  <2>3. CASE i > Len_asyn
    <3>1. i - Len_asyn \in 1 .. Len(data) /\ Len_asyn + (i - Len_asyn) - 1 = i - 1
      BY <2>3, <1>2
    <3>2. ring'[After(front, Len_asyn + (i - Len_asyn) - 1)] = data[i - Len_asyn]
      BY <3>1, <1>10
    <3>3. (Content \o data)[i] = data[i - Len_asyn]
      <4>1. Content \in Seq(Int) /\ Len(Content) = Len_asyn
        BY <1>1 DEF ByPosition
      <4>2. (Content \o data)[i] = IF i <= Len(Content) THEN Content[i] ELSE data[i - Len(Content)]
        BY <4>1, ConcatProperties
      <4>3. ~(i <= Len_asyn)
        BY <2>3, <1>2
      <4> QED BY <4>1, <4>2, <4>3
    <3> QED BY <3>1, <3>2, <3>3, <2>1
  <2>4. i <= Len_asyn \/ i > Len_asyn
    BY <1>2
  <2> QED BY <2>2, <2>3, <2>4
<1>12. Content' = Content \o data
  <2>1. Content' \in Seq(Int) /\ Len(Content') = Len_asyn + Len(data)
    BY <1>6, <1>7 DEF ByPosition
  <2>2. Content \o data \in Seq(Int) /\ Len(Content \o data) = Len_asyn + Len(data)
    BY <1>1, ConcatProperties DEF ByPosition
  <2> QED BY <2>1, <2>2, <1>11, SeqEqual
<1> QED BY <1>5, <1>12

\* queue_read takes all there is.
LEMMA ReadTakesAll ==
    ASSUME QueueType
    PROVE  Readout(Len_asyn) = Content
<1> USE SizesAssumption
<1>1. ByPosition
  BY ContentIs
<1> DEFINE n == Len_asyn
<1>2. CASE front + n <= Capacity - 1
  <2>1. \A i \in 1 .. n : After(front, i - 1) = front + i - 1
    BY <1>1, <1>2 DEF After, QueueType, ByPosition
  <2>2. Readout(n) = [i \in 1 .. n |-> ring[front + i - 1]]
    BY <1>2 DEF Readout, Piece
  <2>3. Content = [i \in 1 .. n |-> Content[i]]
    BY <1>1, LenProperties DEF ByPosition
  <2> QED BY <2>1, <2>2, <2>3, <1>1 DEF ByPosition
<1>3. CASE front + n > Capacity - 1
  <2> DEFINE len1   == Capacity - 1 - front + 1
             first  == Piece(front, len1)
             second == Piece(0, n - len1)
  <2>1. len1 \in 1 .. n
    BY <1>1, <1>3 DEF QueueType, ByPosition
  <2>2. Readout(n) = first \o second
    <3>1. ~(front + n <= Capacity - 1)
      BY <1>1, <1>3 DEF QueueType, ByPosition
    <3> QED BY <3>1, Zenon DEF Readout
  <2>3. first \in Seq(Int) /\ Len(first) = len1 /\ \A i \in 1 .. len1 : first[i] = ring[front + i - 1]
    <3>1. \A i \in 1 .. len1 : ring[front + i - 1] \in Int
      BY DEF QueueType
    <3> QED BY <2>1, <3>1 DEF Piece
  <2>4. second \in Seq(Int) /\ Len(second) = n - len1 /\ \A i \in 1 .. n - len1 : second[i] = ring[i - 1]
    <3>1. \A i \in 1 .. n - len1 : ring[0 + i - 1] \in Int /\ 0 + i - 1 = i - 1
      BY <1>1, <2>1 DEF QueueType, ByPosition
    <3>2. n - len1 \in Nat
      BY <1>1, <2>1 DEF ByPosition
    <3> QED BY <3>1, <3>2 DEF Piece
  <2> HIDE DEF first, second
  <2>5. first \o second \in Seq(Int) /\ Len(first \o second) = n
    <3>1. first \o second \in Seq(Int) /\ Len(first \o second) = Len(first) + Len(second)
      BY <2>3, <2>4, ConcatProperties
    <3>2. len1 + (n - len1) = n
      BY <1>1, <2>1 DEF ByPosition
    <3> QED BY <3>1, <3>2, <2>3, <2>4
  <2>6. ASSUME NEW i \in 1 .. n PROVE (first \o second)[i] = Content[i]
    <3>1. CASE i <= len1
      <4>1. After(front, i - 1) = front + i - 1
        BY <3>1, <1>1 DEF After, QueueType, ByPosition
      <4>2. (first \o second)[i] = first[i] /\ i \in 1 .. len1
        BY <1>1, <2>1, <2>3, <2>4, <3>1, ConcatProperties DEF ByPosition
      <4> QED BY <4>1, <4>2, <2>3, <1>1 DEF ByPosition
    <3>2. CASE i > len1
      <4>1. After(front, i - 1) = i - len1 - 1
        BY <3>2, <1>1 DEF After, QueueType, ByPosition
      <4>2. (first \o second)[i] = second[i - len1] /\ i - len1 \in 1 .. n - len1
        <5>1. i - len1 \in 1 .. n - len1 /\ i \in 1 .. len1 + (n - len1)
          BY <1>1, <2>1, <3>2 DEF QueueType, ByPosition
        <5>2. (first \o second)[i] = IF i <= len1 THEN first[i] ELSE second[i - len1]
          BY <5>1, <2>3, <2>4, ConcatProperties
        <5> QED BY <5>1, <5>2, <3>2, <2>1
      <4>3. second[i - len1] = ring[i - len1 - 1]
        BY <4>2, <2>4
      <4>4. Content[i] = ring[After(front, i - 1)]
        BY <1>1 DEF ByPosition
      <4> HIDE DEF len1
      <4> QED BY <4>1, <4>2, <4>3, <4>4
    <3>3. i <= len1 \/ i > len1
      BY <1>1 DEF QueueType, ByPosition
    <3> QED BY <3>1, <3>2, <3>3
  <2> QED BY <2>2, <2>5, <2>6, <1>1, SeqEqual DEF ByPosition
<1>4. front + n <= Capacity - 1 \/ front + n > Capacity - 1
  BY <1>1 DEF QueueType, ByPosition
<1> QED BY <1>2, <1>3, <1>4

-----------------------------------------------------------------------------
(* The refinement.                                                         *)

\* A step that leaves the queue and the stream alone.
Quiet == UNCHANGED <<ring, front, rear, taken, heard, recorded>>

LEMMA QuietStep ==
    ASSUME Inv, Quiet, readPc' = "callback" => readPc = "callback",
           readPc' \notin {"callback", "crashed"} => readPc \notin {"callback", "crashed"}
    PROVE  Inv' /\ UNCHANGED <<recorded, Content, taken, heard>>
BY DEF Inv, TypeOK, QueueType, TakenInv, Quiet, Content, Len_asyn

\* A period is a period of the stream.
LEMMA ChunkIs ==
    ASSUME TypeOK
    PROVE  /\ Chunk(recorded) \in Seq(Int) /\ Len(Chunk(recorded)) = Period
           /\ Chunk(recorded) = Stream!Chunk(recorded)
BY SizesAssumption DEF TypeOK, Chunk, Stream!Chunk

LEMMA InitMaps == CaptureInit => Inv /\ Stream!Init
<1> SUFFICES ASSUME CaptureInit PROVE Inv /\ Stream!Init
  OBVIOUS
<1>1. Inv
  BY SizesAssumption DEF CaptureInit, Init, Inv, TypeOK, QueueType, TakenInv
<1>2. Len_asyn = 0 /\ Content = <<>>
  <2>1. Distance /\ ByPosition
    BY <1>1, LenIs, ContentIs DEF Inv, TypeOK
  <2>2. Len_asyn = 0
    BY <2>1 DEF Distance, CaptureInit, Init
  <2> QED BY <2>1, <2>2, EmptySeq DEF ByPosition
<1> QED BY <1>1, <1>2 DEF CaptureInit, Init, Stream!Init

LEMMA StepMaps ==
    Inv /\ [CaptureNext]_allVars =>
        Inv' /\ [Stream!Next]_<<recorded, Content, taken, heard>>
<1> SUFFICES ASSUME Inv, [CaptureNext]_allVars
             PROVE  Inv' /\ [Stream!Next]_<<recorded, Content, taken, heard>>
  OBVIOUS
<1>0. ByPosition
  BY ContentIs DEF Inv, TypeOK
<1>1. CASE Alone(QueueWrite)
  <2> USE <1>1 DEF Alone, QueueWrite
  <2>1. CASE Left_asyn < Period /\ UNCHANGED queueVars
    <3>1. UNCHANGED Content /\ QueueType'
      BY <2>1 DEF Content, Len_asyn, queueVars, QueueType, Inv, TypeOK
    <3>2. Inv'
      BY <3>1 DEF Inv, TypeOK, TakenInv
    <3>3. Stream!Drop
      BY <1>0, <2>1, <3>1, SizesAssumption DEF Stream!Drop, ByPosition, Left_asyn
    <3> QED BY <3>2, <3>3 DEF Stream!Next
  <2>2. CASE /\ Left_asyn >= Period
             /\ ring' = Written(Chunk(recorded)) /\ rear' = Moved(rear, Period) /\ front' = front
    <3>1. QueueType' /\ Content' = Content \o Chunk(recorded)
      <4> DEFINE data == Chunk(recorded)
      <4>1. data \in Seq(Int) /\ Len(data) = Period /\ Len(data) \in 1 .. Capacity - 1
        BY ChunkIs, SizesAssumption DEF Inv
      <4>2. Left_asyn >= Len(data) /\ ring' = Written(data) /\ rear' = Moved(rear, Len(data))
        BY <2>2, <4>1
      <4> HIDE DEF data
      <4>3. QueueType' /\ Content' = Content \o data
        BY <2>2, <4>1, <4>2, WriteAppends DEF Inv, TypeOK
      <4> QED BY <4>3 DEF data
    <3>2. Inv'
      BY <3>1 DEF Inv, TypeOK, TakenInv
    <3>3. Stream!Accept
      BY <1>0, <2>2, <3>1, ChunkIs, SizesAssumption
      DEF Stream!Accept, ByPosition, Left_asyn, Inv
    <3> QED BY <3>2, <3>3 DEF Stream!Next
  <2> QED BY <2>1, <2>2
<1>2. CASE Alone(QueueRead)
  <2> USE <1>2 DEF Alone, QueueRead
  <2>1. taken = <<>> /\ taken' = Content
    BY ReadTakesAll DEF Inv, TypeOK, TakenInv
  <2>2. front' = rear /\ rear' = rear
    <3>1. Distance
      BY LenIs DEF Inv, TypeOK
    <3>2. Moved(front, Len_asyn) = After(front, Len_asyn)
      BY <1>0, ModIsAfter, SizesAssumption DEF Moved, Inv, TypeOK, QueueType, ByPosition
    <3> QED BY <3>1, <3>2, SizesAssumption DEF Distance, After, Inv, TypeOK, QueueType
  <2>3. QueueType'
    BY <2>2 DEF Inv, TypeOK, QueueType
  <2>4. Content' = <<>>
    <3>1. Distance' /\ ByPosition'
      BY <2>3, LenIs, ContentIs, PTL
    <3>2. Len_asyn' = 0
      BY <2>2, <2>3, <3>1 DEF Distance, QueueType
    <3> QED BY <3>1, <3>2, EmptySeq DEF ByPosition
  <2>5. Len_asyn <= 0 <=> Content = <<>>
    BY <1>0, EmptySeq DEF ByPosition
  <2>6. Inv'
    BY <1>0, <2>1, <2>3, <2>5 DEF Inv, TypeOK, TakenInv, ByPosition
  <2>7. CASE Content = <<>>
    BY <2>1, <2>4, <2>6, <2>7
  <2>8. CASE Content # <<>>
    BY <2>1, <2>4, <2>6, <2>8 DEF Stream!Next, Stream!Take
  <2> QED BY <2>7, <2>8
<1>3. CASE Fill
  <2>1. CASE Callback
    <3>1. UNCHANGED Content /\ QueueType'
      BY <2>1 DEF Callback, Content, Len_asyn, queueVars, QueueType, Inv, TypeOK
    <3>2. heard' \in Seq(Int) /\ taken' = <<>>
      BY <2>1, ConcatProperties DEF Callback, Inv, TypeOK
    <3>3. Inv'
      BY <2>1, <3>1, <3>2, EmptySeq DEF Callback, Inv, TypeOK, TakenInv
    <3>4. Stream!Hear
      BY <2>1, <3>1 DEF Callback, Stream!Hear, Inv, TakenInv
    <3> QED BY <3>3, <3>4 DEF Stream!Next
  <2>2. CASE UNCHANGED vars
    BY <2>2, QuietStep DEF vars, Quiet, queueVars, streamVars
  <2> QED BY <1>3, <2>1, <2>2 DEF Fill
<1>4. CASE \/ Alone(TestRecording) \/ Alone(ReadDevice) \/ Alone(EventSet)
           \/ Alone(TestReading) \/ Alone(EventWait) \/ Alone(SpuriousWakeup)
           \/ Alone(ReadDeviceFails) \/ Alone(StopRecord) \/ Alone(JoinRecord) \/ Alone(JoinRead)
  BY <1>4, QuietStep
  DEF Alone, TestRecording, ReadDevice, EventSet, TestReading, EventWait, SpuriousWakeup, Awake,
      ReadDeviceFails, StopRecord, JoinRecord, JoinRead, Quiet, queueVars, streamVars
<1>5. CASE GetBuffer \/ StopRecognize \/ Running
  BY <1>5, QuietStep
  DEF GetBuffer, StopRecognize, Running, BufferReset, Process, MovePos, PutEmpty,
      ProcessNull, vars, Quiet, queueVars, streamVars
<1>6. CASE UNCHANGED allVars
  BY <1>6, QuietStep DEF allVars, vars, Quiet, queueVars, streamVars
<1> QED
  BY <1>1, <1>2, <1>3, <1>4, <1>5, <1>6
  DEF CaptureNext, Record, Reading, Joining, RecordThread, QueueReader, Join, Alone

\* The recorder, with what runs in its callback and after it, hears the
\* recorded periods in order, each whole or left out for want of room
\* (recorder.c 152-265, AudioQueue.c), for any Period below Capacity.
THEOREM ImplementsStreamHolds == CaptureSpec => ImplementsStream
<1>1. CaptureInit => Inv /\ Stream!Init
  BY InitMaps
<1>2. Inv /\ [CaptureNext]_allVars =>
          Inv' /\ [Stream!Next]_<<recorded, Content, taken, heard>>
  BY StepMaps
<1> QED BY <1>1, <1>2, PTL DEF CaptureSpec, ImplementsStream, Stream!Spec

-----------------------------------------------------------------------------
(* The buffers between the recorder and the history.                       *)

\* What the callbacks were given, byte by byte, and silence after it.
Sound(at) == IF at <= Len(Given) THEN Given[at] ELSE 0

\* From the beginning of a buffer to the beginning of the ith from it on.
Offset(i) == (i - 1) * Step

\* The full buffers that hold sound: all but the null buffer.
Buffers == IF stopPc = "flushed" /\ runPc # "done" THEN Len(full) - 1 ELSE Len(full)

\* Bytes of the sound that the history has, those cb_write does not count yet
\* included.
End == pos + writing

\* Bytes of the sound before the oldest full buffer, and before the buffer
\* the writer fills.
Behind == dropped * Step + (IF firstEvent THEN 0 ELSE End - Overlap)
Cut    == Behind + Offset(Buffers + 1)

CaptureType ==
    /\ buffer \in [1 .. BufferSize -> Int] /\ filled \in 0 .. BufferSize - 1
    /\ held \in BOOLEAN /\ firstBuffer \in BOOLEAN /\ wrote \in 0 .. Len(taken)
    /\ full \in Seq(Seq(Int))
    /\ firstEvent \in BOOLEAN
    /\ history \in [0 .. History - 1 -> Int] /\ pos \in Nat /\ writing \in Nat /\ dropped \in Nat

\* Nothing is cut after the flush, and the end of it ends the recogniser.
Stages ==
    /\ stopPc \in {"joinRead", "stopped", "flushed"} => recordPc = "done"
    /\ stopPc \in {"stopped", "flushed"} => readPc = "done"
    /\ readPc = "callback" => wrote < Len(taken)
    /\ stopPc = "flushed" => runPc # "start"
    /\ runPc = "done" => stopPc = "flushed"
    /\ runPc = "start" => firstEvent /\ dropped = 0
    /\ runPc # "written" => writing = 0

Ends ==
    /\ stopPc = "flushed" /\ runPc # "done" => full # <<>> /\ full[Len(full)] = NullBuffer
    /\ runPc = "done" => full = <<>>
    /\ firstEvent => End = 0
    /\ ~firstEvent => End >= BufferSize

\* Between two buffers the writer has the whole of the last one, whose end is
\* the start of the next.
Writer ==
    stopPc # "flushed" =>
        /\ firstBuffer => Cut = 0 /\ Len(Given) = 0 /\ filled = 0
        /\ held =>
              /\ Len(Given) = Cut + filled
              /\ Cut > 0 => filled >= Overlap
              /\ \A j \in 1 .. filled : buffer[j] = Given[Cut + j]
        /\ ~held /\ ~firstBuffer =>
              /\ Cut >= Step /\ Len(Given) = Cut + Overlap
              /\ \A j \in 1 .. BufferSize : buffer[j] = Given[Cut - Step + j]

\* What waits in the pool is the sound after the history, buffer by buffer.
Waiting ==
    \A i \in 1 .. Buffers :
        /\ Len(full[i]) = BufferSize
        /\ \A j \in 1 .. BufferSize : full[i][j] = Sound(Behind + Offset(i) + j)

\* The flush left nothing behind.
Sent ==
    stopPc = "flushed" =>
        /\ Len(Given) <= Cut + Overlap
        /\ firstEvent /\ dropped = 0 /\ Buffers = 0 => Len(Given) = 0

\* The history has the last of the sound it passed.
Passed ==
    \A j \in 0 .. End - 1 :
        j >= End - History => history[j % History] = Sound(dropped * Step + j + 1)

SoundInv == Ends /\ Writer /\ Waiting /\ Sent /\ Passed

CaptureInv == CaptureType /\ Stages /\ SoundInv

LEMMA OffsetStep ==
    ASSUME NEW i \in Int
    PROVE  Offset(i) \in Int /\ Offset(i + 1) = Offset(i) + Step /\ Offset(1) = 0
BY BuffersAssumption DEF Offset

LEMMA OffsetGrows ==
    ASSUME NEW i \in Nat \ {0}, NEW k \in Nat, i <= k
    PROVE  0 <= Offset(i) /\ Offset(i) <= Offset(k)
<1>1. (i - 1) * Step >= 0
  BY BuffersAssumption
<1>2. (k - i) * Step >= 0
  BY BuffersAssumption
<1>3. (k - 1) * Step = (i - 1) * Step + (k - i) * Step
  BY BuffersAssumption
<1> QED BY <1>1, <1>2, <1>3, BuffersAssumption DEF Offset

LEMMA HistoryIs == History \in Nat \ {0}
BY BuffersAssumption DEF BufferSize

LEMMA QuotientUnique ==
    ASSUME NEW q \in Int, NEW p \in Int, NEW r \in 0 .. History - 1, NEW t \in 0 .. History - 1,
           History * q + r = History * p + t
    PROVE  r = t
<1>1. CASE q >= p + 1
  <2>1. History * (q - p - 1) >= 0
    BY <1>1, HistoryIs
  <2>2. History * (q - p - 1) = History * q - History * p - History
    BY HistoryIs
  <2> DEFINE x == History * q
             y == History * p
  <2>3. x \in Int /\ y \in Int
    BY HistoryIs
  <2>4. x - y - History >= 0 /\ x + r = y + t
    BY <2>1, <2>2
  <2> HIDE DEF x, y
  <2> QED BY <2>3, <2>4, HistoryIs
<1>2. CASE p >= q + 1
  <2>1. History * (p - q - 1) >= 0
    BY <1>2, HistoryIs
  <2>2. History * (p - q - 1) = History * p - History * q - History
    BY HistoryIs
  <2> DEFINE x == History * q
             y == History * p
  <2>3. x \in Int /\ y \in Int
    BY HistoryIs
  <2>4. y - x - History >= 0 /\ x + r = y + t
    BY <2>1, <2>2
  <2> HIDE DEF x, y
  <2> QED BY <2>3, <2>4, HistoryIs
<1>3. CASE p = q
  BY <1>3, HistoryIs
<1> QED BY <1>1, <1>2, <1>3

LEMMA Division ==
    ASSUME NEW a \in Nat
    PROVE  a = History * (a \div History) + (a % History) /\ a \div History \in Int /\ a % History \in 0 .. History - 1
BY HistoryIs

LEMMA RemainderIs ==
    ASSUME NEW a \in Nat, NEW q \in Int, NEW r \in 0 .. History - 1, a = History * q + r
    PROVE  a % History = r
BY QuotientUnique, Division, HistoryIs

\* A position that passes the end of the history once.
LEMMA ModShift ==
    ASSUME NEW a \in Nat, NEW k \in 0 .. History
    PROVE  /\ a % History \in 0 .. History - 1
           /\ (a + k) % History = IF (a % History) + k < History THEN (a % History) + k
                                  ELSE (a % History) + k - History
<1> DEFINE q == a \div History
           r == a % History
<1>1. q \in Int /\ r \in 0 .. History - 1 /\ a = History * q + r
  BY Division
<1>2. History * (q + 1) = History * q + History
  BY HistoryIs, <1>1
<1> HIDE DEF q
<1>3. CASE r + k < History
  <2>1. a + k = History * q + (r + k) /\ r + k \in 0 .. History - 1 /\ a + k \in Nat
    BY <1>1, <1>3, HistoryIs
  <2>2. (a + k) % History = r + k
    BY <2>1, <1>1, RemainderIs
  <2> QED BY <2>2, <1>1, <1>3
<1>4. CASE ~(r + k < History)
  <2>1. a + k = History * (q + 1) + (r + k - History) /\ r + k - History \in 0 .. History - 1 /\ a + k \in Nat
    BY <1>1, <1>2, <1>4, HistoryIs
  <2>2. (a + k) % History = r + k - History
    BY <2>1, <1>1, RemainderIs
  <2> QED BY <2>2, <1>1, <1>4
<1> QED BY <1>3, <1>4

\* cb_write, in one piece or in two.
LEMMA CbWriteIs ==
    ASSUME history \in [0 .. History - 1 -> Int], pos \in Nat,
           NEW data \in Seq(Int), Len(data) \in 1 .. History
    PROVE  /\ CbWrite(data) \in [0 .. History - 1 -> Int]
           /\ \A k \in 1 .. Len(data) : CbWrite(data)[(pos + k - 1) % History] = data[k]
           /\ \A j \in 0 .. History - 1 :
                 (\A k \in 1 .. Len(data) : j # (pos + k - 1) % History)
                     => CbWrite(data)[j] = history[j]
<1> USE HistoryIs
<1> DEFINE at     == pos % History
           f      == Smaller(History - at, Len(data))
           first  == SubSeq(data, 1, f)
           second == SubSeq(data, f + 1, Len(data))
           p(k)   == IF at + (k - 1) < History THEN at + (k - 1) ELSE at + (k - 1) - History
<1>1. at \in 0 .. History - 1
  BY 0 \in 0 .. History, ModShift
<1>2. ASSUME NEW k \in 1 .. Len(data) PROVE (pos + k - 1) % History = p(k)
  <2>1. k - 1 \in 0 .. History /\ pos + k - 1 = pos + (k - 1)
    OBVIOUS
  <2> QED BY <2>1, ModShift
<1>3. CbWrite(data) = Copy(second, 0, Copy(first, at, history))
  BY DEF CbWrite
<1> HIDE DEF at
<1>4. /\ f \in 1 .. Len(data) /\ at + f <= History
      /\ f = Len(data) \/ at + f = History
  BY <1>1 DEF Smaller
<1> HIDE DEF f
<1>5. Len(first) = f /\ \A i \in 1 .. f : first[i] = data[i]
  BY <1>4
<1>6. Len(second) = Len(data) - f /\ \A i \in 1 .. Len(data) - f : second[i] = data[i + f]
  <2>1. Len(second) = Len(data) - f
    BY <1>4
  <2>2. ASSUME NEW i \in 1 .. Len(data) - f PROVE second[i] = data[i + f]
    <3>1. second[i] = data[(f + 1) + i - 1]
      BY <1>4, <2>1, SubSeqProperties
    <3> QED BY <3>1, <1>4
  <2> QED BY <2>1, <2>2
<1> HIDE DEF first, second
<1>7. Copy(first, at, history) = [i \in 0 .. History - 1 |->
          IF i >= at /\ i < at + f THEN data[i - at + 1] ELSE history[i]]
  BY <1>1, <1>4, <1>5 DEF Copy
<1>8. CbWrite(data) = [i \in 0 .. History - 1 |->
          IF i < Len(data) - f THEN data[i + 1 + f]
          ELSE IF i >= at /\ i < at + f THEN data[i - at + 1] ELSE history[i]]
  <2>1. Copy(second, 0, Copy(first, at, history)) = [i \in 0 .. History - 1 |->
            IF i \in 0 .. 0 + Len(second) - 1 THEN second[i - 0 + 1]
            ELSE Copy(first, at, history)[i]]
    BY <1>7 DEF Copy
  <2>2. \A i \in 0 .. History - 1 : i \in 0 .. 0 + Len(second) - 1 <=> i < Len(data) - f
    BY <1>4, <1>6
  <2>3. \A i \in 0 .. History - 1 : i < Len(data) - f => second[i - 0 + 1] = data[i + 1 + f]
    BY <1>4, <1>6
  <2> QED BY <1>3, <1>7, <2>1, <2>2, <2>3
<1>9. CbWrite(data) \in [0 .. History - 1 -> Int]
  <2>1. \A i \in 0 .. History - 1 : i < Len(data) - f => data[i + 1 + f] \in Int
    BY <1>4
  <2>2. \A i \in 0 .. History - 1 : i >= at /\ i < at + f => data[i - at + 1] \in Int
    BY <1>1, <1>4
  <2> QED BY <1>8, <2>1, <2>2
<1>10. ASSUME NEW k \in 1 .. Len(data) PROVE CbWrite(data)[(pos + k - 1) % History] = data[k]
  <2>1. CASE k <= f
    <3>1. p(k) = at + (k - 1) /\ p(k) \in 0 .. History - 1 /\ ~(p(k) < Len(data) - f)
          /\ p(k) >= at /\ p(k) < at + f /\ p(k) - at + 1 = k
      BY <1>1, <1>4, <2>1
    <3> HIDE DEF p
    <3> QED BY <1>2, <1>8, <3>1
  <2>2. CASE ~(k <= f)
    <3>1. at + f = History
      BY <1>4, <2>2
    <3>2. p(k) = k - 1 - f /\ p(k) \in 0 .. History - 1 /\ p(k) < Len(data) - f
          /\ p(k) + 1 + f = k
      BY <1>1, <1>4, <2>2, <3>1
    <3> HIDE DEF p
    <3> QED BY <1>2, <1>8, <3>2
  <2> QED BY <2>1, <2>2
<1>11. ASSUME NEW j \in 0 .. History - 1,
              \A k \in 1 .. Len(data) : j # (pos + k - 1) % History
       PROVE  CbWrite(data)[j] = history[j]
  <2>1. \A k \in 1 .. Len(data) : j # p(k)
    BY <1>2, <1>11
  <2>2. ~(j < Len(data) - f)
    <3> SUFFICES ASSUME j < Len(data) - f PROVE FALSE
      OBVIOUS
    <3>1. at + f = History
      BY <1>4
    <3>2. j + 1 + f \in 1 .. Len(data) /\ p(j + 1 + f) = j
      BY <1>1, <1>4, <3>1
    <3> HIDE DEF p
    <3> QED BY <2>1, <3>2
  <2>3. ~(j >= at /\ j < at + f)
    <3> SUFFICES ASSUME j >= at, j < at + f PROVE FALSE
      OBVIOUS
    <3>1. j - at + 1 \in 1 .. Len(data) /\ p(j - at + 1) = j
      BY <1>1, <1>4
    <3> HIDE DEF p
    <3> QED BY <2>1, <3>1
  <2> QED BY <1>8, <2>2, <2>3
<1> QED BY <1>9, <1>10, <1>11

-----------------------------------------------------------------------------
(* What the callbacks were given.                                          *)

GivenByPosition ==
    /\ Given \in Seq(Int) /\ Len(Given) = Len(heard) + wrote
    /\ \A i \in 1 .. Len(heard) : Given[i] = heard[i]
    /\ \A i \in 1 .. wrote : Given[Len(heard) + i] = taken[i]

GivenType == heard \in Seq(Int) /\ taken \in Seq(Int) /\ wrote \in 0 .. Len(taken)

LEMMA GivenIs == GivenType => GivenByPosition
<1> SUFFICES ASSUME GivenType PROVE GivenByPosition
  OBVIOUS
<1> USE DEF GivenType
<1> DEFINE part == SubSeq(taken, 1, wrote)
<1>1. part \in Seq(Int) /\ Len(part) = wrote /\ \A i \in 1 .. wrote : part[i] = taken[i]
  OBVIOUS
<1>2. Given = heard \o part
  BY DEF Given
<1> HIDE DEF part
<1>3. Given \in Seq(Int) /\ Len(Given) = Len(heard) + wrote
  BY <1>1, <1>2, ConcatProperties
<1>4. \A i \in 1 .. Len(heard) + wrote :
          Given[i] = IF i <= Len(heard) THEN heard[i] ELSE part[i - Len(heard)]
  BY <1>1, <1>2, ConcatProperties
<1>5. ASSUME NEW i \in 1 .. Len(heard) PROVE Given[i] = heard[i]
  <2>1. i \in 1 .. Len(heard) + wrote /\ i <= Len(heard)
    OBVIOUS
  <2> QED BY <2>1, <1>4
<1>6. ASSUME NEW i \in 1 .. wrote PROVE Given[Len(heard) + i] = taken[i]
  <2>1. Len(heard) + i \in 1 .. Len(heard) + wrote /\ ~(Len(heard) + i <= Len(heard))
        /\ (Len(heard) + i) - Len(heard) = i
    OBVIOUS
  <2> QED BY <2>1, <1>1, <1>4
<1> QED BY <1>3, <1>5, <1>6 DEF GivenByPosition

\* Where the buffers are in the sound.
Places ==
    /\ Behind \in Nat /\ Cut \in Nat /\ Behind <= Cut /\ Buffers \in Nat
    /\ ~firstEvent => Behind >= Step
    /\ \A i \in 1 .. Buffers : Offset(i) \in Nat /\ Behind + Offset(i) + Step <= Cut
    /\ stopPc # "flushed" /\ Cut > 0 => Cut + Overlap <= Len(Given)

LEMMA PlacesAre == CaptureType /\ SoundInv => Places
<1> SUFFICES ASSUME CaptureType, SoundInv PROVE Places
  OBVIOUS
<1> USE BuffersAssumption DEF CaptureType, SoundInv
<1>1. dropped * Step \in Nat
  OBVIOUS
<1>2. Behind \in Nat /\ (~firstEvent => Behind >= Step)
  <2> DEFINE d == dropped * Step
  <2>1. Behind = d + (IF firstEvent THEN 0 ELSE End - Overlap)
    BY DEF Behind
  <2> HIDE DEF d
  <2>2. d \in Nat
    BY <1>1 DEF d
  <2>3. End \in Nat
    BY DEF End
  <2> QED BY <2>1, <2>2, <2>3 DEF Ends, BufferSize
<1>3. Buffers \in Nat
  BY EmptySeq DEF Buffers, Ends
<1>4. Offset(Buffers + 1) \in Nat
  <2> DEFINE n == Buffers + 1
  <2>1. n \in Nat \ {0} /\ n \in Nat /\ n \in Int /\ n <= n
    BY <1>3
  <2> HIDE DEF n
  <2>2. 0 <= Offset(n) /\ Offset(n) \in Int
    BY <2>1, OffsetGrows, OffsetStep
  <2> QED BY <2>2 DEF n
<1>5. Cut \in Nat /\ Behind <= Cut
  BY <1>2, <1>4 DEF Cut
<1>6. ASSUME NEW i \in 1 .. Buffers
      PROVE  Offset(i) \in Nat /\ Behind + Offset(i) + Step <= Cut
  <2>1. /\ i \in Nat \ {0} /\ i \in Int /\ i + 1 \in Nat \ {0}
        /\ Buffers + 1 \in Nat /\ i <= Buffers + 1 /\ i + 1 <= Buffers + 1
    BY <1>3
  <2>2. Offset(i) \in Int /\ 0 <= Offset(i) /\ Offset(i + 1) = Offset(i) + Step
    BY <2>1, OffsetGrows, OffsetStep
  <2>3. Offset(i + 1) <= Offset(Buffers + 1)
    BY <2>1, OffsetGrows
  <2> QED BY <1>2, <1>4, <2>2, <2>3 DEF Cut
<1>7. stopPc # "flushed" /\ Cut > 0 => Cut + Overlap <= Len(Given)
  <2> SUFFICES ASSUME stopPc # "flushed", Cut > 0 PROVE Cut + Overlap <= Len(Given)
    OBVIOUS
  <2>1. ~firstBuffer
    BY DEF Writer
  <2>2. CASE held
    BY <1>5, <2>2 DEF Writer
  <2>3. CASE ~held
    BY <1>5, <2>1, <2>3 DEF Writer
  <2> QED BY <2>2, <2>3
<1> QED BY <1>2, <1>3, <1>5, <1>6, <1>7 DEF Places

-----------------------------------------------------------------------------
(* One lemma per step of the capture.                                      *)

LEMMA BufferIsSeq ==
    ASSUME NEW b \in [1 .. BufferSize -> Int]
    PROVE  b \in Seq(Int) /\ Len(b) = BufferSize
<1>1. BufferSize \in Nat
  BY BuffersAssumption DEF BufferSize
<1> QED BY <1>1

LEMMA GetBufferKeeps == CaptureInv /\ GetBuffer => SoundInv' /\ CaptureType'
<1> SUFFICES ASSUME CaptureInv, GetBuffer PROVE SoundInv' /\ CaptureType'
  OBVIOUS
<1> USE BuffersAssumption DEF CaptureInv, SoundInv, GetBuffer
<1>1. Places
  BY PlacesAre
<1>2. /\ UNCHANGED <<Given, Buffers, Behind, Cut>>
      /\ stopPc # "flushed" /\ stopPc' # "flushed"
  <2>1. stopPc # "flushed" /\ UNCHANGED <<stopPc, heard, taken>>
    BY DEF Stages, vars, streamVars
  <2> QED BY <2>1 DEF Given, Buffers, Behind, Cut, Offset, End, historyVars
<1>3. UNCHANGED <<full, firstEvent, pos, writing, End, history, dropped, runPc, firstBuffer,
                   wrote, taken>>
  BY DEF historyVars, vars, streamVars, End
<1>4. Ends' /\ Sent'
  BY <1>2, <1>3 DEF Ends, Sent
<1>5. Waiting' /\ Passed'
  <2>1. \A at : Sound(at)' = Sound(at)
    BY <1>2 DEF Sound
  <2> QED BY <1>2, <1>3, <2>1 DEF Waiting, Passed, Sound, Offset
<1>6. CASE firstBuffer
  <2>1. UNCHANGED <<buffer, filled>> /\ held'
    BY <1>6
  <2>2. Writer'
    BY <1>2, <1>3, <1>6, <2>1 DEF Writer, CaptureType
  <2> QED BY <1>3, <1>4, <1>5, <2>1, <2>2 DEF CaptureType
<1>7. CASE ~firstBuffer
  <2> DEFINE tail == SubSeq(buffer, Step + 1, BufferSize)
  <2>1. buffer' = Overlapped /\ filled' = Overlap /\ held'
    BY <1>7
  <2>2. Len(tail) = Overlap /\ \A j \in 1 .. Overlap : tail[j] = buffer[Step + j]
    <3>1. buffer \in Seq(Int) /\ Len(buffer) = BufferSize
      BY BufferIsSeq DEF CaptureType
    <3>2. Len(tail) = Overlap
      BY <3>1 DEF BufferSize
    <3>3. ASSUME NEW j \in 1 .. Overlap PROVE tail[j] = buffer[Step + j]
      <4>1. tail[j] = buffer[(Step + 1) + j - 1] /\ (Step + 1) + j - 1 = Step + j
        BY <3>1, <3>2, SubSeqProperties DEF BufferSize
      <4> QED BY <4>1
    <3> QED BY <3>2, <3>3
  <2> HIDE DEF tail
  <2>3. buffer' = [j \in 1 .. BufferSize |-> IF j <= Overlap THEN buffer[Step + j] ELSE buffer[j]]
    <3>1. buffer' = [i \in 1 .. BufferSize |->
                        IF i \in 1 .. 1 + Len(tail) - 1 THEN tail[i - 1 + 1] ELSE buffer[i]]
      BY <2>1 DEF Overlapped, Copy, CaptureType, tail
    <3>2. \A i \in 1 .. BufferSize : i \in 1 .. 1 + Len(tail) - 1 <=> i <= Overlap
      BY <2>2
    <3>3. \A i \in 1 .. BufferSize : i <= Overlap => tail[i - 1 + 1] = buffer[Step + i]
      BY <2>2
    <3> QED BY <3>1, <3>2, <3>3
  <2>4. buffer' \in [1 .. BufferSize -> Int] /\ filled' \in 0 .. BufferSize - 1
    BY <2>1, <2>3 DEF CaptureType, BufferSize
  <2>5. Writer'
    <3>1. Len(Given) = Cut + Overlap /\ \A j \in 1 .. BufferSize : buffer[j] = Given[Cut - Step + j]
      BY <1>2, <1>7 DEF Writer
    <3>2. ASSUME NEW j \in 1 .. Overlap PROVE buffer'[j] = Given[Cut + j]
      <4>1. Step + j \in 1 .. BufferSize /\ Cut - Step + (Step + j) = Cut + j
            /\ j \in 1 .. BufferSize
        BY <1>1 DEF BufferSize, Places
      <4> QED BY <2>3, <3>1, <4>1
    <3> QED BY <1>2, <1>3, <1>7, <2>1, <3>1, <3>2 DEF Writer
  <2> QED BY <1>3, <1>4, <1>5, <2>1, <2>4, <2>5 DEF CaptureType
<1> QED BY <1>6, <1>7

LEMMA ResetKeeps == CaptureInv /\ BufferReset => SoundInv' /\ CaptureType'
<1> SUFFICES ASSUME CaptureInv, BufferReset PROVE SoundInv' /\ CaptureType'
  OBVIOUS
<1> USE BuffersAssumption DEF CaptureInv, SoundInv, BufferReset
<1>1. firstEvent /\ dropped = 0 /\ End = 0 /\ stopPc # "flushed"
  BY DEF Stages, Ends
<1>2. /\ UNCHANGED <<buffer, filled, held, firstBuffer, wrote, taken, heard, stopPc>>
      /\ UNCHANGED <<firstEvent, history, pos, writing, End, Given>>
      /\ full' = <<>> /\ dropped' = Len(full) /\ Len(full) \in Nat
  BY DEF historyVars, writerVars, vars, streamVars, Given, CaptureType, End
<1>3. Buffers = Len(full) /\ Buffers' = 0
  BY <1>1, <1>2, EmptySeq DEF Buffers
<1>4. Cut' = Cut
  <2>1. Cut = 0 * Step + Offset(Len(full) + 1)
    BY <1>1, <1>3 DEF Cut, Behind, Offset
  <2>2. Cut' = Len(full) * Step + (0 + 1 - 1) * Step
    BY <1>1, <1>2, <1>3 DEF Cut, Behind, Offset
  <2> QED BY <1>2, <2>1, <2>2 DEF Offset
<1>5. Ends' /\ Sent' /\ Waiting' /\ Passed'
  BY <1>1, <1>2, <1>3 DEF Ends, Sent, Waiting, Passed
<1>6. Writer'
  <2>1. Cut \in Nat
    BY PlacesAre DEF Places
  <2> QED BY <1>1, <1>2, <1>4 DEF Writer
<1>7. CaptureType'
  BY <1>2, EmptySeq DEF CaptureType
<1> QED BY <1>5, <1>6, <1>7

LEMMA PutEmptyKeeps == CaptureInv /\ PutEmpty => SoundInv' /\ CaptureType'
<1> SUFFICES ASSUME CaptureInv, PutEmpty PROVE SoundInv' /\ CaptureType'
  OBVIOUS
<1>1. /\ UNCHANGED <<buffer, filled, held, firstBuffer, wrote, taken, heard, stopPc, full>>
      /\ UNCHANGED <<firstEvent, history, pos, writing, End, dropped>>
      /\ runPc = "put" /\ runPc' = "get"
  BY DEF PutEmpty, End, historyVars, writerVars, vars, streamVars
<1>2. UNCHANGED <<Given, Buffers>>
  BY <1>1 DEF Given, Buffers
<1>3. UNCHANGED <<Behind, Cut>>
  BY <1>1, <1>2 DEF Behind, Cut, Offset
<1> QED BY <1>1, <1>2, <1>3
        DEF CaptureInv, SoundInv, CaptureType, Ends, Writer, Waiting, Sent, Passed, Sound, Offset

LEMMA ProcessNullKeeps == CaptureInv /\ ProcessNull => SoundInv' /\ CaptureType' /\ stopPc = "flushed"
<1> SUFFICES ASSUME CaptureInv, ProcessNull PROVE SoundInv' /\ CaptureType' /\ stopPc = "flushed"
  OBVIOUS
<1> USE BuffersAssumption DEF CaptureInv, SoundInv, ProcessNull
<1>1. /\ UNCHANGED <<buffer, filled, held, firstBuffer, wrote, taken, heard, stopPc>>
      /\ UNCHANGED <<firstEvent, history, pos, writing, End, dropped, Given>>
      /\ full' = Tail(full) /\ runPc = "get" /\ runPc' = "done"
  BY DEF historyVars, writerVars, vars, streamVars, Given, End
<1>2. full \in Seq(Seq(Int)) /\ full # <<>> /\ full[1] = NullBuffer /\ Len(full) \in Nat \ {0}
  BY EmptySeq DEF CaptureType
<1>3. Buffers = 0
  <2>1. Places
    BY PlacesAre
  <2> SUFFICES ASSUME 1 \in 1 .. Buffers PROVE FALSE
    BY <2>1 DEF Places
  <2>2. Len(full[1]) = BufferSize
    BY DEF Waiting
  <2> QED BY <1>2, <2>2, EmptySeq DEF NullBuffer, BufferSize
<1>4. stopPc = "flushed" /\ Len(full) = 1
  BY <1>1, <1>2, <1>3 DEF Buffers
<1>5. full' = <<>> /\ full' \in Seq(Seq(Int))
  <2>1. full' \in Seq(Seq(Int)) /\ Len(full') = 0
    <3>1. Tail(full) \in Seq(Seq(Int)) /\ Len(Tail(full)) = Len(full) - 1
      BY <1>2, HeadTailProperties
    <3> QED BY <1>1, <1>4, <3>1
  <2> QED BY <2>1, EmptySeq
<1>6. Buffers' = 0
  BY <1>1, <1>5, EmptySeq DEF Buffers
<1>7. UNCHANGED <<Behind, Cut>>
  BY <1>1, <1>3, <1>6 DEF Behind, Cut, Offset
<1>8. CaptureType' /\ Ends' /\ Writer' /\ Waiting' /\ Sent'
  BY <1>1, <1>3, <1>4, <1>5, <1>6, <1>7 DEF CaptureType, Ends, Writer, Waiting, Sent
<1>9. Passed'
  BY <1>1 DEF Passed, Sound
<1> QED BY <1>4, <1>8, <1>9

\* More sound is given: what was cut stays what it was.
LEMMA FillKeeps ==
    Inv /\ CaptureInv /\ Fill =>
        SoundInv' /\ CaptureType' /\ (readPc' # "callback" \/ wrote' < Len(taken'))
<1> SUFFICES ASSUME Inv, CaptureInv, Fill
             PROVE  SoundInv' /\ CaptureType' /\ (readPc' # "callback" \/ wrote' < Len(taken'))
  OBVIOUS
<1> USE BuffersAssumption DEF CaptureInv, SoundInv
<1> DEFINE n == Portion
<1>0. /\ BufferSize \in Nat /\ filled \in Nat /\ filled < BufferSize
      /\ BufferSize = Overlap + Step /\ Cut \in Nat /\ Step \in Nat /\ Overlap \in Nat
  BY PlacesAre DEF Places, CaptureType, BufferSize
<1>1. Places
  BY PlacesAre
<1>2. /\ readPc = "callback" /\ held /\ stopPc # "flushed" /\ runPc # "done"
      /\ UNCHANGED <<stopPc, runPc, firstEvent, history, pos, writing, End, dropped>>
      /\ firstBuffer' = FALSE
  BY DEF Fill, Stages, Callback, vars, historyVars, End
<1>3. taken \in Seq(Int) /\ heard \in Seq(Int) /\ wrote \in Nat /\ wrote < Len(taken)
  BY <1>2 DEF Inv, TypeOK, Stages, CaptureType
<1>4. Len(Rest) = Len(taken) - wrote /\ Rest \in Seq(Int)
      /\ \A i \in 1 .. Len(taken) - wrote : Rest[i] = taken[wrote + i]
  <2>1. \A i \in wrote + 1 .. Len(taken) : taken[i] \in Int
    BY <1>3
  <2>2. Rest \in Seq(Int) /\ Len(Rest) = Len(taken) - (wrote + 1) + 1
        /\ \A i \in 1 .. Len(taken) - (wrote + 1) + 1 : Rest[i] = taken[(wrote + 1) + i - 1]
    BY <1>3, <2>1, SubSeqProperties DEF Rest
  <2>3. Len(taken) - (wrote + 1) + 1 = Len(taken) - wrote
        /\ \A i \in 1 .. Len(taken) - wrote : (wrote + 1) + i - 1 = wrote + i
    BY <1>3
  <2> QED BY <2>2, <2>3
<1>5. /\ n \in Nat \ {0} /\ n <= BufferSize - filled /\ wrote + n <= Len(taken)
      /\ n = BufferSize - filled \/ n = Len(taken) - wrote
      /\ Len(Rest) >= BufferSize - filled <=> n = BufferSize - filled
  <2> DEFINE r == Len(taken) - wrote
             b == BufferSize - filled
  <2>1. r \in Nat \ {0} /\ b \in Nat \ {0} /\ wrote + r = Len(taken) /\ Len(Rest) = r
    BY <1>0, <1>3, <1>4
  <2>2. n = IF r <= b THEN r ELSE b
    BY <2>1 DEF Portion, Smaller
  <2> HIDE DEF n, r, b
  <2>3. n \in Nat \ {0} /\ n <= b /\ n <= r /\ (n = b \/ n = r) /\ (r >= b <=> n = b)
    BY <2>1, <2>2
  <2>4. n <= BufferSize - filled /\ (n = BufferSize - filled \/ n = Len(taken) - wrote)
        /\ (Len(Rest) >= BufferSize - filled <=> n = BufferSize - filled)
    BY <2>1, <2>3 DEF r, b
  <2>5. wrote + n <= Len(taken)
    BY <1>3, <2>1, <2>3
  <2> QED BY <2>3, <2>4, <2>5
<1>6. /\ buffer' \in [1 .. BufferSize -> Int]
      /\ \A j \in 1 .. filled : buffer'[j] = buffer[j]
      /\ \A j \in 1 .. n : buffer'[filled + j] = taken[wrote + j]
  <2> DEFINE part == SubSeq(Rest, 1, Portion)
  <2>1. Len(part) = n /\ \A i \in 1 .. n : part[i] = taken[wrote + i]
    BY <1>3, <1>4, <1>5
  <2>2. buffer' = Copy(part, filled + 1, buffer)
    BY DEF Fill
  <2> HIDE DEF part, n
  <2>3. buffer' = [i \in 1 .. BufferSize |-> IF i \in filled + 1 .. filled + 1 + n - 1
                                             THEN part[i - (filled + 1) + 1] ELSE buffer[i]]
    BY <2>1, <2>2 DEF Copy, CaptureType
  <2>4. \A i \in 1 .. n : part[i] \in Int
    <3>1. \A i \in 1 .. n : wrote + i \in 1 .. Len(taken)
      BY <1>3, <1>5
    <3> QED BY <2>1, <3>1, <1>3
  <2>5. ASSUME NEW i \in filled + 1 .. filled + 1 + n - 1
        PROVE  part[i - (filled + 1) + 1] \in Int
    <3>1. i - (filled + 1) + 1 \in 1 .. n
      BY <1>5 DEF CaptureType
    <3> QED BY <2>4, <3>1
  <2>6. buffer' \in [1 .. BufferSize -> Int]
    BY <2>3, <2>5 DEF CaptureType
  <2>7. ASSUME NEW j \in 1 .. filled PROVE buffer'[j] = buffer[j]
    <3>1. j \in 1 .. BufferSize /\ j \notin filled + 1 .. filled + 1 + n - 1
      BY <1>0, <1>5
    <3> QED BY <2>3, <3>1
  <2>8. ASSUME NEW j \in 1 .. n PROVE buffer'[filled + j] = taken[wrote + j]
    <3>1. filled + j \in 1 .. BufferSize /\ filled + j \in filled + 1 .. filled + 1 + n - 1
          /\ (filled + j) - (filled + 1) + 1 = j
      BY <1>5 DEF CaptureType, BufferSize
    <3> QED BY <2>1, <2>3, <3>1
  <2> QED BY <2>6, <2>7, <2>8
<1> HIDE DEF n
<1>7. /\ Len(Given') = Len(Given) + n /\ Len(Given) \in Nat
      /\ \A i \in 1 .. Len(Given) : Given'[i] = Given[i]
      /\ \A i \in 1 .. n : Given'[Len(Given) + i] = taken[wrote + i]
      /\ wrote' \in 0 .. Len(taken')
      /\ readPc' # "callback" \/ wrote' < Len(taken')
  <2>1. GivenByPosition
    BY <1>3, GivenIs DEF GivenType, CaptureType
  <2>2. CASE wrote + n = Len(taken)
    <3>1. heard' = heard \o taken /\ taken' = <<>> /\ wrote' = 0 /\ readPc' = "test"
      BY <2>2 DEF Fill, Callback, n
    <3>2. heard' \in Seq(Int) /\ Len(heard') = Len(heard) + Len(taken)
          /\ \A i \in 1 .. Len(heard) + Len(taken) :
                heard'[i] = IF i <= Len(heard) THEN heard[i] ELSE taken[i - Len(heard)]
      BY <1>3, <3>1, ConcatProperties
    <3>3. taken' \in Seq(Int) /\ Len(taken') = 0 /\ wrote' \in 0 .. Len(taken')
      BY <3>1, EmptySeq
    <3>9. GivenType'
      BY <3>2, <3>3 DEF GivenType
    <3>4. GivenByPosition'
      BY <3>9, GivenIs, PTL
    <3>5. Len(Given) = Len(heard) + wrote /\ Len(Given') = Len(heard) + Len(taken)
      BY <2>1, <3>1, <3>2, <3>4 DEF GivenByPosition
    <3>6. ASSUME NEW i \in 1 .. Len(heard) + Len(taken)
          PROVE  Given'[i] = IF i <= Len(heard) THEN heard[i] ELSE taken[i - Len(heard)]
      BY <3>2, <3>4 DEF GivenByPosition
    <3>7. ASSUME NEW i \in 1 .. Len(Given) PROVE Given'[i] = Given[i]
      <4>1. CASE i <= Len(heard)
        <5>1. i \in 1 .. Len(heard) /\ i \in 1 .. Len(heard) + Len(taken)
          BY <1>3, <3>5, <4>1
        <5> QED BY <2>1, <3>6, <4>1, <5>1 DEF GivenByPosition
      <4>2. CASE ~(i <= Len(heard))
        <5>1. i - Len(heard) \in 1 .. wrote /\ Len(heard) + (i - Len(heard)) = i
              /\ i \in 1 .. Len(heard) + Len(taken)
          BY <1>3, <3>5, <4>2
        <5>2. Given[Len(heard) + (i - Len(heard))] = taken[i - Len(heard)]
          BY <2>1, <5>1 DEF GivenByPosition
        <5> QED BY <3>6, <4>2, <5>1, <5>2
      <4> QED BY <4>1, <4>2
    <3>8. ASSUME NEW i \in 1 .. n PROVE Given'[Len(Given) + i] = taken[wrote + i]
      <4>1. Len(Given) + i \in 1 .. Len(heard) + Len(taken) /\ ~(Len(Given) + i <= Len(heard))
            /\ (Len(Given) + i) - Len(heard) = wrote + i
        BY <1>3, <1>5, <3>5
      <4> QED BY <3>6, <4>1
    <3>10. Len(Given') = Len(Given) + n /\ Len(Given) \in Nat
      <4>1. Len(heard) \in Nat /\ wrote \in Nat /\ n \in Nat
        BY <1>3, <1>5
      <4> QED BY <2>2, <3>5, <4>1
    <3> QED BY <3>1, <3>3, <3>7, <3>8, <3>10
  <2>3. CASE ~(wrote + n = Len(taken))
    <3>1. UNCHANGED <<heard, taken, readPc>> /\ wrote' = wrote + n
      BY <2>3 DEF Fill, vars, streamVars, n
    <3>2. wrote' \in 0 .. Len(taken') /\ wrote' < Len(taken')
      BY <1>3, <1>5, <2>3, <3>1
    <3>8. GivenType'
      BY <1>3, <3>1, <3>2 DEF GivenType
    <3>3. GivenByPosition'
      BY <3>8, GivenIs, PTL
    <3>4. Len(Given) = Len(heard) + wrote /\ Len(Given') = Len(heard) + (wrote + n)
      BY <2>1, <3>1, <3>3 DEF GivenByPosition
    <3>5. ASSUME NEW i \in 1 .. wrote + n PROVE Given'[Len(heard) + i] = taken[i]
      BY <3>1, <3>3 DEF GivenByPosition
    <3>6. ASSUME NEW i \in 1 .. Len(Given) PROVE Given'[i] = Given[i]
      <4>1. CASE i <= Len(heard)
        <5>1. i \in 1 .. Len(heard)
          BY <1>3, <3>4, <4>1
        <5> QED BY <2>1, <3>1, <3>3, <5>1 DEF GivenByPosition
      <4>2. CASE ~(i <= Len(heard))
        <5>1. i - Len(heard) \in 1 .. wrote /\ Len(heard) + (i - Len(heard)) = i
              /\ i - Len(heard) \in 1 .. wrote + n
          BY <1>3, <1>5, <3>4, <4>2
        <5>2. Given[Len(heard) + (i - Len(heard))] = taken[i - Len(heard)]
          BY <2>1, <5>1 DEF GivenByPosition
        <5> QED BY <3>5, <5>1, <5>2
      <4> QED BY <4>1, <4>2
    <3>7. ASSUME NEW i \in 1 .. n PROVE Given'[Len(Given) + i] = taken[wrote + i]
      <4>1. wrote + i \in 1 .. wrote + n /\ Len(Given) + i = Len(heard) + (wrote + i)
        BY <1>3, <1>5, <3>4
      <4> QED BY <3>5, <4>1
    <3> QED BY <1>3, <1>5, <3>2, <3>4, <3>6, <3>7
  <2> QED BY <2>2, <2>3
<1>8. Len(Given) = Cut + filled /\ (Cut > 0 => filled >= Overlap)
      /\ \A j \in 1 .. filled : buffer[j] = Given[Cut + j]
  BY <1>2 DEF Writer
<1>9. ASSUME NEW j \in 1 .. filled + n PROVE buffer'[j] = Given'[Cut + j]
  <2>1. Cut \in Nat /\ filled \in Nat
    BY <1>1 DEF Places, CaptureType
  <2>2. CASE j <= filled
    <3>1. j \in 1 .. filled /\ Cut + j \in 1 .. Len(Given)
      BY <1>5, <1>8, <2>1, <2>2
    <3> QED BY <1>6, <1>7, <1>8, <3>1
  <2>3. CASE ~(j <= filled)
    <3>1. j - filled \in 1 .. n /\ filled + (j - filled) = j
          /\ Len(Given) + (j - filled) = Cut + j
      BY <1>5, <1>8, <2>1, <2>3
    <3>2. buffer'[filled + (j - filled)] = taken[wrote + (j - filled)]
      BY <1>6, <3>1
    <3>3. Given'[Len(Given) + (j - filled)] = taken[wrote + (j - filled)]
      BY <1>7, <3>1
    <3> QED BY <3>1, <3>2, <3>3
  <2> QED BY <2>2, <2>3
<1>10. ASSUME NEW at \in 1 .. Len(Given)
       PROVE  /\ Sound(at) = Given[at]
              /\ (IF at <= Len(Given') THEN Given'[at] ELSE 0) = Given[at]
  <2>1. at <= Len(Given) /\ at <= Len(Given')
    BY <1>5, <1>7
  <2> QED BY <1>7, <2>1 DEF Sound
<1>11. /\ Behind' = Behind
       /\ Buffers = Len(full) /\ Buffers' = Len(full')
  BY <1>2 DEF Behind, Buffers
<1>12. Passed'
  <2> SUFFICES ASSUME NEW j \in 0 .. End - 1, j >= End - History
               PROVE  history[j % History] = Sound(dropped * Step + j + 1)'
    BY <1>2 DEF Passed, Sound
  <2>1. End \in Nat /\ ~firstEvent
    BY DEF CaptureType, Ends, End
  <2> DEFINE d == dropped * Step
  <2>2. d \in Nat
    BY DEF CaptureType
  <2>3. Behind = d + (End - Overlap)
    BY <2>1 DEF Behind
  <2> HIDE DEF d
  <2>4. d + End <= Len(Given)
    BY <1>1, <1>2, <2>1, <2>2, <2>3 DEF Places
  <2> DEFINE at == dropped * Step + j + 1
  <2>5. at \in 1 .. Len(Given)
    BY <1>7, <2>1, <2>2, <2>4 DEF d
  <2>6. at' = at
    BY <1>2
  <2> HIDE DEF at
  <2>7. Sound(at)' = Sound(at)
    BY <1>10, <2>5, <2>6 DEF Sound
  <2> QED BY <2>7 DEF Passed, at
<1>13. ASSUME NEW i \in 1 .. Buffers, NEW j \in 1 .. BufferSize
       PROVE  Sound(Behind + Offset(i) + j)' = Sound(Behind + Offset(i) + j)
  <2>1. Behind \in Nat /\ Offset(i) \in Nat /\ Behind + Offset(i) + Step <= Cut /\ Cut \in Nat
    BY <1>1 DEF Places
  <2>2. Cut + Overlap <= Len(Given)
    BY <1>1, <1>2, <2>1 DEF Places
  <2> DEFINE at == Behind + Offset(i) + j
  <2>3. at \in 1 .. Len(Given)
    BY <1>0, <1>7, <2>1, <2>2
  <2>4. at' = at
    BY <1>11 DEF Offset
  <2> HIDE DEF at
  <2>5. Sound(at)' = Sound(at)
    BY <1>10, <2>3, <2>4 DEF Sound
  <2> QED BY <2>5 DEF at
<1>14. CASE n = BufferSize - filled
  <2>1. full' = Append(full, buffer') /\ held' = FALSE /\ filled' = 0
    BY <1>5, <1>14 DEF Fill
  <2>2. buffer' \in Seq(Int) /\ Len(buffer') = BufferSize
    BY <1>6, BufferIsSeq
  <2>3. full' \in Seq(Seq(Int)) /\ Len(full') = Len(full) + 1 /\ full' # <<>>
        /\ (\A i \in 1 .. Len(full) : full'[i] = full[i]) /\ full'[Len(full) + 1] = buffer'
    <3> DEFINE b == buffer'
    <3>1. full \in Seq(Seq(Int)) /\ b \in Seq(Int)
      BY <2>2 DEF CaptureType
    <3> HIDE DEF b
    <3>2. /\ Append(full, b) \in Seq(Seq(Int)) /\ Append(full, b) # <<>>
          /\ Len(Append(full, b)) = Len(full) + 1 /\ Append(full, b)[Len(full) + 1] = b
          /\ \A i \in 1 .. Len(full) : Append(full, b)[i] = full[i]
      BY <3>1, AppendProperties
    <3> QED BY <2>1, <3>2 DEF b
  <2>4. Cut' = Cut + Step
    <3>1. Offset(Buffers + 1 + 1) = Offset(Buffers + 1) + Step
      BY <1>1, OffsetStep DEF Places
    <3>2. Cut' = Behind + Offset(Buffers + 1 + 1)
      BY <1>11, <2>3 DEF Cut, Offset
    <3>3. Behind \in Int /\ Offset(Buffers + 1) \in Int
      BY <1>1, OffsetStep DEF Places
    <3> QED BY <3>1, <3>2, <3>3 DEF Cut
  <2>5. filled + n = BufferSize
    BY <1>14 DEF CaptureType, BufferSize
  <2>6. Writer'
    <3>1. Cut' >= Step /\ Len(Given') = Cut' + Overlap
      BY <1>0, <1>7, <1>8, <1>5, <2>4, <2>5
    <3>2. \A j \in 1 .. BufferSize : buffer'[j] = Given'[Cut' - Step + j]
      <4>1. Cut' - Step = Cut
        BY <1>1, <2>4 DEF Places
      <4> QED BY <1>9, <2>5, <4>1
    <3> QED BY <1>2, <2>1, <3>1, <3>2 DEF Writer
  <2>7. Waiting'
    <3> SUFFICES ASSUME NEW i \in 1 .. Buffers + 1
                 PROVE  /\ Len(full'[i]) = BufferSize
                        /\ \A j \in 1 .. BufferSize :
                              full'[i][j] = Sound(Behind + Offset(i) + j)'
      BY <1>11, <2>3 DEF Waiting, Sound, Offset
    <3>1. CASE i <= Buffers
      <4>1. i \in 1 .. Buffers /\ full'[i] = full[i]
        BY <1>1, <1>11, <2>3, <3>1 DEF Places
      <4> QED BY <1>13, <4>1 DEF Waiting
    <3>2. CASE ~(i <= Buffers)
      <4>1. i = Buffers + 1
        BY <1>1, <3>2 DEF Places
      <4>3. full'[i] = buffer'
        BY <1>11, <2>3, <4>1
      <4>2. ASSUME NEW j \in 1 .. BufferSize PROVE full'[i][j] = Sound(Behind + Offset(i) + j)'
        <5>1. (Behind + Offset(i) + j)' = Cut + j
          BY <1>11, <4>1 DEF Cut, Offset
        <5>2. Cut + j <= Len(Given')
          BY <1>0, <1>5, <1>7, <1>8, <2>5
        <5>3. Sound(Behind + Offset(i) + j)' = Given'[Cut + j]
          BY <5>1, <5>2 DEF Sound
        <5> QED BY <1>9, <2>5, <4>3, <5>3
      <4> QED BY <2>2, <4>3, <4>2
    <3> QED BY <3>1, <3>2
  <2>8. Ends' /\ Sent'
    BY <1>2 DEF Ends, Sent, Stages
  <2>9. CaptureType'
    <3>1. buffer' \in [1 .. BufferSize -> Int] /\ filled' \in 0 .. BufferSize - 1
      BY <1>0, <1>6, <2>1
    <3>2. held' \in BOOLEAN /\ firstBuffer' \in BOOLEAN /\ wrote' \in 0 .. Len(taken')
          /\ full' \in Seq(Seq(Int))
      BY <1>2, <1>7, <2>1, <2>3
    <3>3. firstEvent' \in BOOLEAN /\ history' \in [0 .. History - 1 -> Int]
          /\ pos' \in Nat /\ writing' \in Nat /\ dropped' \in Nat
      BY <1>2 DEF CaptureType
    <3> QED BY <3>1, <3>2, <3>3 DEF CaptureType, BufferSize
  <2> QED BY <1>7, <1>12, <2>6, <2>7, <2>8, <2>9
<1>15. CASE n # BufferSize - filled
  <2>1. filled' = filled + n /\ UNCHANGED <<full, held>>
    BY <1>5, <1>15 DEF Fill, n
  <2>2. filled' \in 0 .. BufferSize - 1
    BY <1>5, <1>15, <2>1 DEF CaptureType, BufferSize
  <2>3. UNCHANGED <<Buffers, Cut>>
    BY <1>11, <2>1 DEF Cut, Offset
  <2>4. Writer'
    <3>1. Len(Given') = Cut' + filled'
      BY <1>1, <1>7, <1>8, <1>5, <2>1, <2>3 DEF Places, CaptureType
    <3>2. Cut' > 0 => filled' >= Overlap
      BY <1>5, <1>8, <2>1, <2>3 DEF CaptureType
    <3>3. \A j \in 1 .. filled' : buffer'[j] = Given'[Cut' + j]
      BY <1>9, <2>1, <2>3
    <3> QED BY <1>2, <1>8, <2>1, <3>1, <3>2, <3>3 DEF Writer
  <2>5. Waiting'
    <3>1. ASSUME NEW i \in 1 .. Buffers
          PROVE  /\ Len(full'[i]) = BufferSize
                 /\ \A j \in 1 .. BufferSize : full'[i][j] = Sound(Behind + Offset(i) + j)'
      BY <1>13, <2>1 DEF Waiting
    <3> QED BY <2>3, <3>1 DEF Waiting, Sound, Offset
  <2>6. Ends' /\ Sent'
    BY <1>2, <2>1 DEF Ends, Sent, Stages
  <2>7. CaptureType'
    BY <1>2, <1>6, <1>7, <2>1, <2>2 DEF CaptureType, BufferSize
  <2> QED BY <1>7, <1>12, <2>4, <2>5, <2>6, <2>7
<1> QED BY <1>14, <1>15

LEMMA FlushKeeps == Inv /\ CaptureInv /\ StopRecognize => SoundInv' /\ CaptureType'
<1> SUFFICES ASSUME Inv, CaptureInv, StopRecognize PROVE SoundInv' /\ CaptureType'
  OBVIOUS
<1> USE BuffersAssumption DEF CaptureInv, SoundInv
<1>0. /\ BufferSize \in Nat /\ filled \in Nat /\ filled < BufferSize
      /\ BufferSize = Overlap + Step /\ Step \in Nat \ {0} /\ Overlap \in Nat
  BY DEF CaptureType, BufferSize
<1>1. Places
  BY PlacesAre
<1>2. /\ UNCHANGED <<buffer, firstBuffer, wrote, taken, heard, runPc, Given>>
      /\ UNCHANGED <<firstEvent, history, pos, writing, End, dropped, Behind>>
      /\ full' = full \o Flushed \o <<NullBuffer>> /\ held' = FALSE /\ filled' = 0
      /\ stopPc = "stopped" /\ stopPc' = "flushed" /\ runPc # "done"
  BY DEF StopRecognize, Stages, historyVars, streamVars, Given, Behind, End
<1>3. Buffers = Len(full) /\ Buffers' = Len(full') - 1 /\ Len(full) \in Nat
  BY <1>2 DEF Buffers, CaptureType
<1>4. full \in Seq(Seq(Int)) /\ <<NullBuffer>> \in Seq(Seq(Int)) /\ Len(<<NullBuffer>>) = 1
      /\ <<NullBuffer>>[1] = NullBuffer
  BY DEF CaptureType, NullBuffer
<1>5. /\ buffer' \in [1 .. BufferSize -> Int] /\ filled' \in 0 .. BufferSize - 1
      /\ wrote' \in 0 .. Len(taken') /\ firstBuffer' \in BOOLEAN /\ held' \in BOOLEAN
      /\ firstEvent' \in BOOLEAN /\ history' \in [0 .. History - 1 -> Int]
      /\ pos' \in Nat /\ writing' \in Nat /\ dropped' \in Nat
  <2>1. buffer' \in [1 .. BufferSize -> Int] /\ filled' \in 0 .. BufferSize - 1
    BY <1>0, <1>2 DEF CaptureType
  <2>2. wrote' \in 0 .. Len(taken') /\ firstBuffer' \in BOOLEAN /\ held' \in BOOLEAN
    BY <1>2 DEF CaptureType
  <2>3. firstEvent' \in BOOLEAN /\ history' \in [0 .. History - 1 -> Int]
        /\ pos' \in Nat /\ writing' \in Nat /\ dropped' \in Nat
    BY <1>2 DEF CaptureType
  <2> QED BY <2>1, <2>2, <2>3
<1>6. Passed' /\ Writer'
  BY <1>2 DEF Passed, Sound, Writer
<1>7. CASE held
  <2> DEFINE last == SubSeq(buffer, 1, filled) \o Silence(BufferSize - filled)
             f    == full \o <<last>>
  <2>1. /\ last \in Seq(Int) /\ Len(last) = BufferSize
        /\ \A j \in 1 .. BufferSize : last[j] = IF j <= filled THEN buffer[j] ELSE 0
    <3> DEFINE a == SubSeq(buffer, 1, filled)
               b == Silence(BufferSize - filled)
    <3>1. buffer \in Seq(Int) /\ Len(buffer) = BufferSize
      BY BufferIsSeq DEF CaptureType
    <3>2. a \in Seq(Int) /\ Len(a) = filled /\ \A j \in 1 .. filled : a[j] = buffer[j]
      BY <1>0, <3>1
    <3>3. b \in Seq(Int) /\ Len(b) = BufferSize - filled
          /\ \A j \in 1 .. BufferSize - filled : b[j] = 0
      <4>1. BufferSize - filled \in Nat
        BY <1>0
      <4> QED BY <4>1 DEF Silence
    <3> HIDE DEF a, b
    <3>4. last = a \o b
      BY DEF a, b
    <3> HIDE DEF last
    <3>5. a \o b \in Seq(Int) /\ Len(a \o b) = BufferSize
      <4>1. a \o b \in Seq(Int) /\ Len(a \o b) = Len(a) + Len(b)
        BY <3>2, <3>3, ConcatProperties
      <4>2. filled + (BufferSize - filled) = BufferSize
        BY <1>0
      <4> QED BY <3>2, <3>3, <4>1, <4>2
    <3>6. ASSUME NEW j \in 1 .. BufferSize
          PROVE  (a \o b)[j] = IF j <= filled THEN buffer[j] ELSE 0
      <4>1. (a \o b)[j] = IF j <= filled THEN a[j] ELSE b[j - filled]
        BY <1>0, <3>2, <3>3, ConcatProperties
      <4>2. CASE j <= filled
        BY <1>0, <3>2, <4>1, <4>2
      <4>3. CASE ~(j <= filled)
        <5>1. j - filled \in 1 .. BufferSize - filled
          BY <1>0, <4>3
        <5> QED BY <3>3, <4>1, <4>3, <5>1
      <4> QED BY <4>2, <4>3
    <3> QED BY <3>4, <3>5, <3>6
  <2>2. full' = f \o <<NullBuffer>>
    BY <1>2, <1>7 DEF Flushed
  <2> HIDE DEF last
  <2>3. f \in Seq(Seq(Int)) /\ Len(f) = Len(full) + 1
        /\ (\A i \in 1 .. Len(full) : f[i] = full[i]) /\ f[Len(full) + 1] = last
    <3>1. <<last>> \in Seq(Seq(Int)) /\ Len(<<last>>) = 1 /\ <<last>>[1] = last
      BY <2>1
    <3>2. /\ f \in Seq(Seq(Int)) /\ Len(f) = Len(full) + 1
          /\ \A i \in 1 .. Len(full) + 1 :
                f[i] = IF i <= Len(full) THEN full[i] ELSE <<last>>[i - Len(full)]
      BY <1>4, <3>1, ConcatProperties
    <3> HIDE DEF f
    <3>3. Len(full) + 1 \in 1 .. Len(full) + 1 /\ ~(Len(full) + 1 <= Len(full))
          /\ Len(full) + 1 - Len(full) = 1
      BY <1>3
    <3>4. \A i \in 1 .. Len(full) : i \in 1 .. Len(full) + 1 /\ i <= Len(full)
      BY <1>3
    <3> QED BY <3>1, <3>2, <3>3, <3>4
  <2> HIDE DEF f
  <2>4. full' \in Seq(Seq(Int)) /\ Len(full') = Len(f) + 1 /\ Len(f) \in Nat
        /\ (\A i \in 1 .. Len(f) : full'[i] = f[i]) /\ full'[Len(f) + 1] = NullBuffer
    <3>1. /\ full' \in Seq(Seq(Int)) /\ Len(full') = Len(f) + 1
          /\ \A i \in 1 .. Len(f) + 1 :
                full'[i] = IF i <= Len(f) THEN f[i] ELSE <<NullBuffer>>[i - Len(f)]
      BY <1>4, <2>2, <2>3, ConcatProperties
    <3>2. Len(f) \in Nat
      BY <2>3
    <3>3. Len(f) + 1 \in 1 .. Len(f) + 1 /\ ~(Len(f) + 1 <= Len(f)) /\ Len(f) + 1 - Len(f) = 1
      BY <3>2
    <3>4. \A i \in 1 .. Len(f) : i \in 1 .. Len(f) + 1 /\ i <= Len(f)
      BY <3>2
    <3>5. full'[Len(f) + 1] = <<NullBuffer>>[Len(f) + 1 - Len(f)]
      BY <3>1, <3>3
    <3>6. \A i \in 1 .. Len(f) : full'[i] = f[i]
      BY <3>1, <3>4
    <3> QED BY <1>4, <3>1, <3>2, <3>3, <3>5, <3>6
  <2>5. Buffers' = Buffers + 1
    BY <1>3, <2>3, <2>4
  <2>6. Cut' = Cut + Step
    <3>1. Offset(Buffers + 1 + 1) = Offset(Buffers + 1) + Step
      BY <1>1, OffsetStep DEF Places
    <3>2. Cut' = Behind + Offset(Buffers + 1 + 1)
      BY <1>2, <2>5 DEF Cut, Offset
    <3>3. Behind \in Int /\ Offset(Buffers + 1) \in Int
      BY <1>1, OffsetStep DEF Places
    <3> QED BY <1>0, <3>1, <3>2, <3>3 DEF Cut
  <2>7. Len(Given) = Cut + filled /\ \A j \in 1 .. filled : buffer[j] = Given[Cut + j]
    BY <1>2, <1>7 DEF Writer
  <2>8. Sent'
    <3>1. Len(Given') <= Cut' + Overlap
      BY <1>0, <1>1, <1>2, <2>6, <2>7 DEF Places
    <3>2. Buffers' # 0
      BY <1>1, <2>5 DEF Places
    <3> QED BY <3>1, <3>2 DEF Sent
  <2>9. Waiting'
    <3> SUFFICES ASSUME NEW i \in 1 .. Buffers + 1
                 PROVE  /\ Len(full'[i]) = BufferSize
                        /\ \A j \in 1 .. BufferSize :
                              full'[i][j] = Sound(Behind + Offset(i) + j)
      BY <1>2, <2>5 DEF Waiting, Sound, Offset
    <3>1. CASE i <= Buffers
      <4>1. i \in 1 .. Buffers /\ i \in 1 .. Len(full)
        BY <1>1, <1>3, <3>1 DEF Places
      <4>2. full'[i] = full[i]
        BY <2>3, <2>4, <4>1
      <4> QED BY <4>1, <4>2 DEF Waiting
    <3>2. CASE ~(i <= Buffers)
      <4>1. i = Buffers + 1
        BY <1>1, <3>2 DEF Places
      <4>2. full'[i] = last
        BY <1>3, <2>3, <2>4, <4>1
      <4>3. ASSUME NEW j \in 1 .. BufferSize PROVE last[j] = Sound(Behind + Offset(i) + j)
        <5>1. Behind + Offset(i) + j = Cut + j
          BY <4>1 DEF Cut
        <5>2. Sound(Cut + j) = IF j <= filled THEN Given[Cut + j] ELSE 0
          BY <1>0, <1>1, <2>7 DEF Sound, Places
        <5>3. CASE j <= filled
          <6>1. j \in 1 .. filled
            BY <1>0, <5>3
          <6> QED BY <2>1, <2>7, <5>1, <5>2, <5>3, <6>1
        <5>4. CASE ~(j <= filled)
          BY <2>1, <5>1, <5>2, <5>4
        <5> QED BY <5>3, <5>4
      <4> QED BY <2>1, <4>2, <4>3
    <3> QED BY <3>1, <3>2
  <2>10. Ends'
    <3>1. full' # <<>> /\ full'[Len(full')] = NullBuffer
      BY <2>4, EmptySeq
    <3> QED BY <1>2, <3>1 DEF Ends, NullBuffer, BufferSize
  <2> QED BY <1>5, <1>6, <2>4, <2>8, <2>9, <2>10 DEF CaptureType, BufferSize
<1>8. CASE ~held
  <2>1. full' = full \o <<NullBuffer>>
    BY <1>2, <1>4, <1>8, ConcatEmptySeq DEF Flushed
  <2>2. full' \in Seq(Seq(Int)) /\ Len(full') = Len(full) + 1
        /\ (\A i \in 1 .. Len(full) : full'[i] = full[i]) /\ full'[Len(full) + 1] = NullBuffer
    <3>1. /\ full' \in Seq(Seq(Int)) /\ Len(full') = Len(full) + 1
          /\ \A i \in 1 .. Len(full) + 1 :
                full'[i] = IF i <= Len(full) THEN full[i] ELSE <<NullBuffer>>[i - Len(full)]
      BY <1>4, <2>1, ConcatProperties
    <3>2. Len(full) + 1 \in 1 .. Len(full) + 1 /\ ~(Len(full) + 1 <= Len(full))
          /\ Len(full) + 1 - Len(full) = 1
      BY <1>3
    <3>3. \A i \in 1 .. Len(full) : i \in 1 .. Len(full) + 1 /\ i <= Len(full)
      BY <1>3
    <3>4. full'[Len(full) + 1] = <<NullBuffer>>[Len(full) + 1 - Len(full)]
      BY <3>1, <3>2
    <3>5. \A i \in 1 .. Len(full) : full'[i] = full[i]
      BY <3>1, <3>3
    <3> QED BY <1>4, <3>1, <3>2, <3>4, <3>5
  <2>3. Buffers' = Buffers /\ Cut' = Cut
    BY <1>2, <1>3, <2>2 DEF Cut, Offset
  <2>4. Sent'
    <3>1. CASE firstBuffer
      BY <1>0, <1>1, <1>2, <2>3, <3>1 DEF Sent, Writer, Places
    <3>2. CASE ~firstBuffer
      <4>1. Cut >= Step /\ Len(Given) = Cut + Overlap
        BY <1>2, <1>8, <3>2 DEF Writer
      <4>2. ~(firstEvent /\ dropped = 0 /\ Buffers = 0)
        <5> SUFFICES ASSUME firstEvent, dropped = 0, Buffers = 0 PROVE FALSE
          OBVIOUS
        <5>1. Cut = 0 * Step + 0 + Offset(0 + 1)
          BY DEF Cut, Behind
        <5>2. Offset(1) = 0 /\ 0 * Step = 0
          BY OffsetStep
        <5> QED BY <1>0, <4>1, <5>1, <5>2
      <4> QED BY <1>0, <1>1, <1>2, <2>3, <4>1, <4>2 DEF Sent, Places
    <3> QED BY <3>1, <3>2
  <2>5. Waiting'
    <3>1. \A i \in 1 .. Buffers : full'[i] = full[i]
      BY <1>3, <2>2
    <3>2. ASSUME NEW i \in 1 .. Buffers
          PROVE  /\ Len(full'[i]) = BufferSize
                 /\ \A j \in 1 .. BufferSize : full'[i][j] = Sound(Behind + Offset(i) + j)
      BY <3>1 DEF Waiting
    <3> QED BY <1>2, <2>3, <3>2 DEF Waiting, Sound, Offset
  <2>6. Ends'
    <3>1. full' # <<>> /\ full'[Len(full')] = NullBuffer
      BY <1>3, <2>2, EmptySeq
    <3> QED BY <1>2, <3>1 DEF Ends, NullBuffer, BufferSize
  <2> QED BY <1>5, <1>6, <2>2, <2>4, <2>5, <2>6 DEF CaptureType, BufferSize
<1> QED BY <1>7, <1>8

LEMMA ProcessKeeps == CaptureInv /\ Process => SoundInv' /\ CaptureType'
<1> SUFFICES ASSUME CaptureInv, Process PROVE SoundInv' /\ CaptureType'
  OBVIOUS
<1> USE BuffersAssumption DEF CaptureInv, SoundInv
<1> DEFINE data == IF firstEvent THEN Head(full) ELSE SubSeq(Head(full), Overlap + 1, BufferSize)
           from == IF firstEvent THEN 0 ELSE Overlap
<1>0. /\ BufferSize \in Nat /\ BufferSize = Overlap + Step /\ Step \in Nat \ {0}
      /\ Overlap \in Nat /\ BufferSize <= History /\ History \in Nat
  BY DEF BufferSize
<1>1. Places
  BY PlacesAre
<1>2. /\ UNCHANGED <<buffer, filled, held, firstBuffer, wrote, taken, heard, stopPc>>
      /\ UNCHANGED <<dropped, Given>>
      /\ runPc = "get" /\ runPc' = "written" /\ full # <<>> /\ full' = Tail(full)
      /\ firstEvent' = FALSE
  BY DEF Process, vars, streamVars, writerVars, Given
<1>3. /\ full \in Seq(Seq(Int)) /\ Len(full) \in Nat \ {0}
      /\ Head(full) = full[1] /\ full[1] # NullBuffer
      /\ full' \in Seq(Seq(Int)) /\ Len(full') = Len(full) - 1
      /\ \A i \in 1 .. Len(full) - 1 : full'[i] = full[i + 1]
  BY <1>2, EmptySeq, HeadTailProperties DEF Process, CaptureType
<1>4. 1 \in 1 .. Buffers /\ Buffers <= Len(full) /\ Buffers' = Buffers - 1
  <2>1. stopPc = "flushed" => Len(full) # 1
    BY <1>2, <1>3 DEF Ends
  <2> QED BY <1>2, <1>3, <2>1 DEF Buffers
<1>5. full[1] \in Seq(Int) /\ Len(full[1]) = BufferSize
      /\ \A j \in 1 .. BufferSize : full[1][j] = Sound(Behind + j)
  <2>1. Offset(1) = 0
    BY OffsetStep
  <2>2. \A j \in 1 .. BufferSize : Behind + Offset(1) + j = Behind + j
    BY <1>1, <2>1 DEF Places
  <2>3. full[1] \in Seq(Int)
    BY <1>3
  <2> QED BY <1>4, <2>2, <2>3 DEF Waiting
<1>6. from \in 0 .. Overlap
  BY <1>0
<1>7. /\ data \in Seq(Int) /\ Len(data) = BufferSize - from
      /\ \A j \in 1 .. BufferSize - from : data[j] = full[1][from + j]
  <2>1. CASE firstEvent
    <3>1. data = full[1] /\ from = 0
      BY <1>3, <2>1
    <3> HIDE DEF data, from
    <3>2. \A j \in 1 .. BufferSize - from : from + j = j
      BY <3>1
    <3> QED BY <1>0, <1>5, <3>1, <3>2
  <2>2. CASE ~firstEvent
    <3>1. data = SubSeq(full[1], Overlap + 1, BufferSize) /\ from = Overlap
      BY <1>3, <2>2
    <3> HIDE DEF data, from
    <3>2. \A i \in Overlap + 1 .. BufferSize : full[1][i] \in Int
      BY <1>0, <1>5
    <3>3. /\ data \in Seq(Int) /\ Len(data) = BufferSize - (Overlap + 1) + 1
          /\ \A j \in 1 .. BufferSize - (Overlap + 1) + 1 :
                data[j] = full[1][(Overlap + 1) + j - 1]
      BY <1>0, <3>1, <3>2, SubSeqProperties
    <3>4. BufferSize - (Overlap + 1) + 1 = BufferSize - Overlap
          /\ \A j \in 1 .. BufferSize - Overlap : (Overlap + 1) + j - 1 = Overlap + j
      BY <1>0
    <3> QED BY <3>1, <3>3, <3>4
  <2> QED BY <2>1, <2>2
<1>8. history' = CbWrite(data) /\ End = pos /\ End' = pos + (BufferSize - from)
      /\ pos' = pos /\ writing' = BufferSize - from
  <2>1. history' = CbWrite(data) /\ pos' = pos /\ writing' = Len(data)
    BY DEF Process
  <2>2. pos \in Nat /\ writing = 0
    BY <1>2 DEF Stages, CaptureType
  <2> HIDE DEF data, from
  <2> QED BY <1>0, <1>6, <1>7, <2>1, <2>2 DEF End
<1> HIDE DEF data
<1>9. /\ pos \in Nat /\ pos' \in Nat /\ writing' \in Nat /\ End' >= BufferSize
      /\ firstEvent => pos = 0
  BY <1>0, <1>6, <1>8 DEF CaptureType, Ends
<1>10. /\ history' \in [0 .. History - 1 -> Int]
       /\ \A k \in 1 .. BufferSize - from : history'[(pos + k - 1) % History] = data[k]
       /\ \A j \in 0 .. History - 1 :
             (\A k \in 1 .. BufferSize - from : j # (pos + k - 1) % History)
                 => history'[j] = history[j]
  <2>1. Len(data) \in 1 .. History /\ data \in Seq(Int)
    BY <1>0, <1>6, <1>7
  <2>2. history \in [0 .. History - 1 -> Int]
    BY DEF CaptureType
  <2> QED BY <1>7, <1>8, <1>9, <2>1, <2>2, CbWriteIs
<1>11. Behind + from = dropped * Step + pos /\ Behind' = Behind + Step
  <2> DEFINE d == dropped * Step
  <2>1. d \in Nat
    BY DEF CaptureType
  <2>2. Behind = d + (IF firstEvent THEN 0 ELSE pos - Overlap)
        /\ Behind' = d + (End' - Overlap)
    BY <1>2, <1>8 DEF Behind
  <2> HIDE DEF d
  <2>3. Behind + from = d + pos /\ Behind' = Behind + Step
    BY <1>0, <1>8, <1>9, <2>1, <2>2
  <2> QED BY <2>3 DEF d
<1>12. Cut' = Cut
  <2> DEFINE b == Buffers - 1
  <2>1. b \in Int /\ Buffers = b + 1
    BY <1>1 DEF Places
  <2>2. Offset(Buffers + 1) = Offset(b + 1) + Step /\ Offset(b + 1) \in Int
    <3> HIDE DEF b
    <3>1. b + 1 \in Int
      BY <2>1
    <3> QED BY <2>1, <3>1, OffsetStep
  <2>3. Cut' = Behind + Step + Offset(b + 1)
    BY <1>4, <1>11 DEF Cut, Offset
  <2> HIDE DEF b
  <2> QED BY <1>0, <1>1, <2>2, <2>3 DEF Cut, Places
<1>13. Waiting'
  <2> SUFFICES ASSUME NEW i \in 1 .. Buffers - 1
               PROVE  /\ Len(full'[i]) = BufferSize
                      /\ \A j \in 1 .. BufferSize :
                            full'[i][j] = Sound(Behind + Step + Offset(i) + j)
    BY <1>2, <1>4, <1>11 DEF Waiting, Sound, Offset
  <2>1. i + 1 \in 1 .. Buffers /\ i \in 1 .. Len(full) - 1 /\ i \in Int
    BY <1>1, <1>3, <1>4 DEF Places
  <2>2. full'[i] = full[i + 1]
    BY <1>3, <2>1
  <2>3. \A j \in 1 .. BufferSize : Behind + Offset(i + 1) + j = Behind + Step + Offset(i) + j
    <3>1. Behind \in Nat /\ Offset(i) \in Int /\ Offset(i + 1) = Offset(i) + Step
      BY <1>1, <2>1, OffsetStep DEF Places
    <3> QED BY <1>0, <3>1
  <2> QED BY <2>1, <2>2, <2>3 DEF Waiting
<1>14. Passed'
  <2> SUFFICES ASSUME NEW j \in 0 .. End' - 1, j >= End' - History
               PROVE  history'[j % History] = Sound(dropped * Step + j + 1)
    BY <1>2 DEF Passed, Sound
  <2>1. CASE j >= pos
    <3> DEFINE k == j - pos + 1
               d == dropped * Step
    <3>1. k \in 1 .. BufferSize - from /\ pos + k - 1 = j
      BY <1>0, <1>6, <1>8, <1>9, <2>1
    <3>2. d \in Nat
      BY DEF CaptureType
    <3>3. history'[j % History] = data[k]
      <4> HIDE DEF k
      <4> QED BY <1>10, <3>1
    <3>4. data[k] = Sound(Behind + (from + k))
      <4>1. from + k \in 1 .. BufferSize
        BY <1>0, <1>6, <3>1
      <4> HIDE DEF k
      <4> QED BY <1>5, <1>7, <3>1, <4>1
    <3>5. Behind + from = d + pos /\ Behind \in Nat /\ from \in Nat
      BY <1>1, <1>6, <1>11 DEF Places
    <3> HIDE DEF d, from
    <3>6. Behind + (from + k) = d + j + 1
      BY <1>9, <3>2, <3>5
    <3> QED BY <3>3, <3>4, <3>6 DEF d
  <2>2. CASE ~(j >= pos)
    <3>1. j \in 0 .. pos - 1 /\ j >= pos - History /\ j \in Nat
      BY <1>0, <1>6, <1>8, <1>9, <2>2
    <3>2. j % History \in 0 .. History - 1
      BY 0 \in 0 .. History, <1>0, <3>1, ModShift
    <3>3. ASSUME NEW k \in 1 .. BufferSize - from PROVE j % History # (pos + k - 1) % History
      <4> DEFINE e == pos + k - 1 - j
      <4>1. e \in 1 .. History - 1 /\ e \in 0 .. History /\ j + e = pos + k - 1
        BY <1>0, <1>6, <1>8, <1>9, <2>2
      <4> HIDE DEF e
      <4>2. (j + e) % History = IF (j % History) + e < History THEN (j % History) + e
                                ELSE (j % History) + e - History
        BY <3>1, <4>1, ModShift
      <4> DEFINE m == j % History
      <4>3. m \in 0 .. History - 1
        BY <3>2
      <4> HIDE DEF m
      <4>4. m # IF m + e < History THEN m + e ELSE m + e - History
        BY <1>0, <4>1, <4>3
      <4> QED BY <4>1, <4>2, <4>4 DEF m
    <3>4. history'[j % History] = history[j % History]
      BY <1>10, <3>2, <3>3
    <3> QED BY <1>8, <3>1, <3>4 DEF Passed
  <2> QED BY <2>1, <2>2
<1>15. Writer' /\ Sent'
  BY <1>2, <1>12 DEF Writer, Sent
<1>16. Ends'
  <2>1. stopPc = "flushed" => full' # <<>> /\ full'[Len(full')] = NullBuffer
    <3> SUFFICES ASSUME stopPc = "flushed" PROVE full' # <<>> /\ full'[Len(full')] = NullBuffer
      OBVIOUS
    <3>1. Len(full) - 1 \in Nat \ {0} /\ full[Len(full)] = NullBuffer
      <4>1. Buffers = Len(full) - 1
        BY <1>2 DEF Buffers
      <4>2. Len(full) - 1 \in Nat \ {0}
        <5>1. Len(full) \in Nat
          BY <1>3
        <5> QED BY <1>4, <4>1, <5>1
      <4>3. full[Len(full)] = NullBuffer
        BY <1>2 DEF Ends
      <4> QED BY <4>2, <4>3
    <3>2. Len(full) - 1 \in 1 .. Len(full) - 1 /\ Len(full) - 1 + 1 = Len(full)
      BY <1>3, <3>1
    <3> QED BY <1>3, <3>1, <3>2, EmptySeq
  <2> QED BY <1>2, <1>9, <2>1 DEF Ends, NullBuffer, BufferSize
<1>17. CaptureType'
  BY <1>2, <1>3, <1>9, <1>10 DEF CaptureType, BufferSize
<1> QED BY <1>12, <1>13, <1>14, <1>15, <1>16, <1>17

LEMMA MovePosKeeps == CaptureInv /\ MovePos => SoundInv' /\ CaptureType'
<1> SUFFICES ASSUME CaptureInv, MovePos PROVE SoundInv' /\ CaptureType'
  OBVIOUS
<1>1. /\ UNCHANGED <<buffer, filled, held, firstBuffer, wrote, taken, heard, stopPc, full>>
      /\ UNCHANGED <<firstEvent, history, dropped>>
      /\ runPc = "written" /\ runPc' = "put"
  BY DEF MovePos, writerVars, poolVars, vars, streamVars
<1>2. End' = End /\ pos' \in Nat /\ writing' \in Nat
  BY DEF MovePos, End, CaptureInv, CaptureType
<1>3. UNCHANGED <<Given, Buffers>>
  BY <1>1 DEF Given, Buffers
<1>4. UNCHANGED <<Behind, Cut>>
  BY <1>1, <1>2, <1>3 DEF Behind, Cut, Offset
<1> QED BY <1>1, <1>2, <1>3, <1>4
        DEF CaptureInv, SoundInv, CaptureType, Ends, Writer, Waiting, Sent, Passed, Sound, Offset

\* A step in which the capture has no part.
LEMMA AloneKeeps ==
    ASSUME Inv, Inv', CaptureInv, UNCHANGED captureVars,
           \/ UNCHANGED <<taken, heard>>
           \/ readPc = "take" /\ UNCHANGED heard,
           stopPc' = "flushed" <=> stopPc = "flushed"
    PROVE  SoundInv' /\ CaptureType'
<1>1. UNCHANGED <<buffer, filled, held, firstBuffer, wrote, full, runPc, firstEvent, history,
                  pos, writing, End, dropped>>
  BY DEF captureVars, writerVars, poolVars, historyVars, End
<1>2. UNCHANGED Given /\ wrote' \in 0 .. Len(taken')
  <2>1. CASE UNCHANGED <<taken, heard>>
    BY <1>1, <2>1 DEF Given, CaptureInv, CaptureType
  <2>2. CASE readPc = "take" /\ UNCHANGED heard
    <3>1. wrote = 0
      BY <2>2, EmptySeq DEF Inv, TakenInv, CaptureInv, CaptureType
    <3>2. SubSeq(taken, 1, 0) = <<>> /\ SubSeq(taken', 1, 0) = <<>>
      BY SubSeqEmpty
    <3>3. Len(taken') \in Nat
      BY DEF Inv, TypeOK
    <3> QED BY <1>1, <2>2, <3>1, <3>2, <3>3 DEF Given
  <2> QED BY <2>1, <2>2
<1>3. CaptureType'
  BY <1>1, <1>2 DEF CaptureInv, CaptureType
<1>4. UNCHANGED <<Buffers, Behind, Cut>>
  BY <1>1 DEF Buffers, Behind, Cut, Offset
<1>5. Ends' /\ Writer' /\ Sent'
  BY <1>1, <1>2, <1>4 DEF CaptureInv, SoundInv, Ends, Writer, Sent
<1>6. Waiting' /\ Passed'
  BY <1>1, <1>2, <1>4 DEF CaptureInv, SoundInv, Waiting, Passed, Sound, Offset
<1> QED BY <1>3, <1>5, <1>6 DEF SoundInv

LEMMA CaptureStep == Inv /\ CaptureInv /\ [CaptureNext]_allVars => Inv' /\ CaptureInv'
<1> SUFFICES ASSUME Inv, CaptureInv, [CaptureNext]_allVars PROVE Inv' /\ CaptureInv'
  OBVIOUS
<1>0. Inv'
  BY StepMaps
<1>1. CASE GetBuffer
  <2>1. Stages'
    BY <1>1 DEF GetBuffer, CaptureInv, Stages, vars, streamVars, historyVars
  <2> QED BY <1>0, <1>1, <2>1, GetBufferKeeps DEF CaptureInv
<1>2. CASE Fill
  <2>1. readPc' = "callback" => wrote' < Len(taken')
    BY <1>2, FillKeeps
  <2>2. /\ readPc = "callback"
        /\ UNCHANGED <<stopPc, recordPc, runPc, firstEvent, writing, dropped>>
    BY <1>2 DEF Fill, Callback, vars, historyVars
  <2>3. Stages'
    BY <2>1, <2>2 DEF CaptureInv, Stages
  <2> QED BY <1>0, <1>2, <2>3, FillKeeps DEF CaptureInv
<1>3. CASE StopRecognize
  <2>1. Stages'
    BY <1>3 DEF StopRecognize, CaptureInv, Stages, streamVars, historyVars
  <2> QED BY <1>0, <1>3, <2>1, FlushKeeps DEF CaptureInv
<1>4. CASE BufferReset
  <2>1. Stages'
    BY <1>4 DEF BufferReset, CaptureInv, Stages, vars, streamVars, writerVars, historyVars
  <2> QED BY <1>0, <1>4, <2>1, ResetKeeps DEF CaptureInv
<1>5. CASE Process
  <2>1. Stages'
    BY <1>5 DEF Process, CaptureInv, Stages, vars, streamVars, writerVars
  <2> QED BY <1>0, <1>5, <2>1, ProcessKeeps DEF CaptureInv
<1>6. CASE MovePos
  <2>1. Stages'
    BY <1>6 DEF MovePos, CaptureInv, Stages, vars, streamVars, writerVars
  <2> QED BY <1>0, <1>6, <2>1, MovePosKeeps DEF CaptureInv
<1>7. CASE PutEmpty
  <2>1. Stages'
    BY <1>7 DEF PutEmpty, CaptureInv, Stages, vars, streamVars, writerVars, historyVars
  <2> QED BY <1>0, <1>7, <2>1, PutEmptyKeeps DEF CaptureInv
<1>8. CASE ProcessNull
  <2>1. Stages'
    BY <1>8, ProcessNullKeeps
    DEF ProcessNull, CaptureInv, Stages, vars, streamVars, writerVars, historyVars
  <2> QED BY <1>0, <1>8, <2>1, ProcessNullKeeps DEF CaptureInv
<1>9. ASSUME UNCHANGED captureVars,
             \/ TestRecording \/ ReadDevice \/ QueueWrite \/ EventSet
             \/ TestReading \/ EventWait \/ QueueRead \/ SpuriousWakeup
             \/ ReadDeviceFails \/ StopRecord \/ JoinRecord \/ JoinRead \/ UNCHANGED vars
      PROVE  CaptureInv'
  <2> USE <1>9 DEF CaptureInv, Stages, captureVars, writerVars, historyVars
  <2>1. /\ UNCHANGED <<wrote, runPc, firstEvent, writing, dropped>>
        /\ UNCHANGED <<taken, heard>> \/ (readPc = "take" /\ UNCHANGED heard)
    BY DEF TestRecording, ReadDevice, QueueWrite, EventSet, TestReading, EventWait, Awake,
           QueueRead, SpuriousWakeup, ReadDeviceFails, StopRecord, JoinRecord, JoinRead, vars,
           streamVars
  <2>2. stopPc' = "flushed" <=> stopPc = "flushed"
    BY DEF TestRecording, ReadDevice, QueueWrite, EventSet, TestReading, EventWait, Awake,
           QueueRead, SpuriousWakeup, ReadDeviceFails, StopRecord, JoinRecord, JoinRead, vars,
           streamVars
  <2>3. /\ stopPc' \in {"joinRead", "stopped", "flushed"} => recordPc' = "done"
        /\ stopPc' \in {"stopped", "flushed"} => readPc' = "done"
    BY DEF TestRecording, ReadDevice, QueueWrite, EventSet, TestReading, EventWait, Awake,
           QueueRead, SpuriousWakeup, ReadDeviceFails, StopRecord, JoinRecord, JoinRead, vars,
           streamVars
  <2>4. readPc' = "callback" => wrote' < Len(taken')
    <3>1. CASE QueueRead
      <4>1. wrote = 0
        BY <3>1, EmptySeq DEF QueueRead, Inv, TakenInv, CaptureType
      <4>2. readPc' = "callback" => Len(taken') \in Nat \ {0}
        BY <1>0, EmptySeq DEF Inv, TypeOK, TakenInv
      <4> QED BY <2>1, <4>1, <4>2
    <3>2. CASE ~QueueRead
      BY <3>2 DEF TestRecording, ReadDevice, QueueWrite, EventSet, TestReading, EventWait, Awake,
           SpuriousWakeup, ReadDeviceFails, StopRecord, JoinRecord, JoinRead, vars, streamVars
    <3> QED BY <3>1, <3>2
  <2>5. Stages'
    BY <2>1, <2>2, <2>3, <2>4
  <2>6. SoundInv' /\ CaptureType'
    BY <1>0, <1>9, <2>1, <2>2, AloneKeeps
  <2> QED BY <2>5, <2>6
<1> QED
  BY <1>0, <1>1, <1>2, <1>3, <1>4, <1>5, <1>6, <1>7, <1>8, <1>9
  DEF CaptureNext, Record, Reading, Joining, Running, RecordThread, QueueReader, Join, Alone,
      allVars

LEMMA CaptureStarts == CaptureInit => CaptureInv
<1> SUFFICES ASSUME CaptureInit PROVE CaptureInv
  OBVIOUS
<1> USE BuffersAssumption DEF CaptureInit, Init, BufferSize, End
<1>1. Given = <<>> /\ Len(Given) = 0 /\ taken = <<>> /\ Len(taken) = 0
  BY SubSeqEmpty, EmptySeq, ConcatEmptySeq DEF Given
<1>2. Buffers = 0 /\ Behind = 0 * Step + 0 /\ 0 * Step = 0
  BY EmptySeq DEF Buffers, Behind
<1>3. Cut = 0
  BY <1>2, OffsetStep DEF Cut
<1>4. CaptureType
  <2>1. BufferSize \in Nat \ {0}
    OBVIOUS
  <2>2. buffer \in [1 .. BufferSize -> Int]
    BY DEF Silence
  <2>3. history \in [0 .. History - 1 -> Int]
    OBVIOUS
  <2>4. full \in Seq(Seq(Int)) /\ wrote \in 0 .. Len(taken)
    BY <1>1, EmptySeq
  <2> QED BY <2>1, <2>2, <2>3, <2>4 DEF CaptureType
<1>5. Stages /\ SoundInv
  BY <1>1, <1>2, <1>3 DEF Stages, SoundInv, Ends, Writer, Waiting, Sent, Passed
<1> QED BY <1>4, <1>5 DEF CaptureInv

LEMMA CaptureInvHolds == CaptureSpec => [](Inv /\ CaptureInv)
<1>1. CaptureInit => Inv /\ CaptureInv
  BY InitMaps, CaptureStarts
<1> QED BY <1>1, CaptureStep, PTL DEF CaptureSpec

-----------------------------------------------------------------------------
\* Whatever the lengths of a period, of a buffer and its overlap, of the pool,
\* of the queue and of the history, and however the threads are scheduled: a
\* read of the history (cb_read), with a position from whenever, gives the sound
\* the callbacks were given, each byte once and in order, unless it begins with
\* bytes that cb_write has written over, some of which its test lets pass.
THEOREM HistoryReadsHolds == CaptureSpec => []HistoryReads
<1>1. ASSUME Inv, CaptureInv PROVE HistoryReads
  <2> SUFFICES ASSUME NEW seen \in 0 .. pos, NEW start \in 0 .. seen,
                      NEW n \in 1 .. BufferSize, start >= pos + writing - History
               PROVE  CbRead(start, n, seen) =
                          [i \in 1 .. Smaller(n, seen - start) |-> SoundAt(start + i)]
    BY DEF HistoryReads
  <2>1. /\ pos \in Nat /\ writing \in Nat /\ BufferSize \in Nat /\ History \in Nat
        /\ start \in Nat /\ seen \in Nat /\ seen <= End /\ start >= End - History /\ End \in Nat
    BY <1>1, BuffersAssumption DEF CaptureInv, CaptureType, BufferSize, End
  <2>2. ASSUME NEW i \in 1 .. Smaller(n, seen - start)
        PROVE  history[(start + i - 1) % History] = SoundAt(start + i)
    <3> DEFINE j == start + i - 1
    <3>1. j \in 0 .. End - 1 /\ j >= End - History /\ j + 1 = start + i
      BY <2>1 DEF Smaller
    <3> HIDE DEF j
    <3>2. history[j % History] = Sound(dropped * Step + j + 1)
      BY <1>1, <3>1 DEF CaptureInv, SoundInv, Passed
    <3>3. dropped * Step + j + 1 = dropped * Step + (start + i)
      <4>1. dropped * Step \in Int
        BY <1>1, BuffersAssumption DEF CaptureInv, CaptureType
      <4> QED BY <2>1, <3>1, <4>1
    <3> QED BY <3>2, <3>3 DEF j, Sound, SoundAt
  <2> QED BY <2>2 DEF CbRead
<1> QED BY <1>1, CaptureInvHolds, PTL

\* When the recogniser ends, the history has passed every byte the callbacks
\* were given but those of the buffers b_reset emptied (vr_stopRecognize and
\* bdw_flush), for every length of a period, a buffer and the history.
THEOREM AllIsWrittenHolds == CaptureSpec => []AllIsWritten
<1>1. ASSUME Inv, CaptureInv PROVE AllIsWritten
  <2> SUFFICES ASSUME runPc = "done"
               PROVE  Len(heard) - dropped * Step
                        <= IF dropped > 0 /\ pos = 0 THEN Overlap ELSE pos
    BY DEF AllIsWritten
  <2> USE <1>1, BuffersAssumption DEF CaptureInv, SoundInv
  <2>1. stopPc = "flushed" /\ Buffers = 0 /\ End = pos
    BY EmptySeq DEF Stages, Ends, Buffers, End, CaptureType
  <2>2. Len(Given) = Len(heard) + wrote /\ wrote \in Nat /\ Len(heard) \in Nat
    BY GivenIs DEF GivenType, GivenByPosition, Inv, TypeOK, CaptureType
  <2> DEFINE d == dropped * Step
  <2>3. d \in Nat /\ (dropped = 0 => d = 0)
    BY DEF CaptureType
  <2>4. Cut = d + (IF firstEvent THEN 0 ELSE pos - Overlap) + Offset(0 + 1)
    BY <2>1 DEF Cut, Behind
  <2>5. Offset(0 + 1) = 0
    BY OffsetStep
  <2> HIDE DEF d
  <2>6. Len(heard) - d <= IF dropped > 0 /\ pos = 0 THEN Overlap ELSE pos
    <3>1. CASE firstEvent
      BY <2>1, <2>2, <2>3, <2>4, <2>5, <3>1 DEF Sent, Ends, CaptureType
    <3>2. CASE ~firstEvent
      BY <2>1, <2>2, <2>3, <2>4, <2>5, <3>2 DEF Sent, Ends, CaptureType, BufferSize
    <3> QED BY <3>1, <3>2
  <2> QED BY <2>6 DEF d
<1> QED BY <1>1, CaptureInvHolds, PTL
=============================================================================
