---------------------------- MODULE DecodeProofs ----------------------------
(***************************************************************************)
(* For any block size, messages, information and noise: what a phone tells *)
(* is understood when its damage was bearable, and nothing else is.        *)
(*                                                                         *)
(* The argument follows one branch of the search.  While a block is heard, *)
(* one outcome of its signals, whatever else they may be taken for, has    *)
(* the symbols that were sent where nothing hurt them, and marks at the    *)
(* damage that was marked (Tracks); each tone that passes keeps that true  *)
(* (StepSymbol, StepStart, StepSurplus, StepLose).  At the block's end its *)
(* word, cut, padded or filled, is within reach of the correction          *)
(* (MiddleWord, LastWord, InReach) and leaves the next block what it leans *)
(* on, so the search gets through (Arrives).                               *)
(*                                                                         *)
(* DecodeInv says so of every state: AirInv of the message in the air,     *)
(* KnownInv of what the application made of the last one.                  *)
(*                                                                         *)
(* What runs over the length of a sequence is a recursive function here;   *)
(* its equations (OutcomesDef, SignalsDef, TokensDef, ThroughDef) come     *)
(* from Recursion, and that from the smallest counterexample (SmallestOf). *)
(***************************************************************************)
EXTENDS Decode, SequenceTheorems, FiniteSetTheorems, WellFoundedInduction, TLAPS

-----------------------------------------------------------------------------
(* The text.                                                                *)

Alphabet == 0 .. 18

Signal == [alternatives : Seq(Alphabet), suspect : BOOLEAN]

Damage == [block : Nat, pos : Nat, token : Int, marked : BOOLEAN]

\* The symbols of block b that were damaged, and what follows a symbol.
Hurt(dam, b) == {d.pos : d \in {d \in dam : d.block = b}}

Following(song, b, pos) ==
    IF pos + 1 < Len(song[b]) THEN song[b][pos + 2]
    ELSE IF b < Len(song) THEN song[b + 1][2] ELSE Start

\* Nothing leans on what was damaged in block b, and no edge of it was.
Unleant(song, dam, b) ==
    \A d \in dam : d.block = b =>
        /\ ~(/\ d.token = Start
             /\ d.pos = 1 \/ (b = Len(song) /\ d.pos = Len(song[b]) - 1))
        /\ Following(song, b, d.pos) \notin {Overlap, Overlap2}

Fresh(before) ==
    [buf |-> <<>>, marks |-> <<>>, pre |-> before[2], prepre |-> before[1],
     realPre |-> 0, starts |-> 0]

\* Start tokens heard after the message's last symbol, when a tokens have passed.
Surplus(o, b, a, song) ==
    IF b = Len(song) /\ Len(o.buf) > a - 1 THEN Len(o.buf) - (a - 1) ELSE 0

\* The symbols of an outcome are those that were sent, where nothing hurt them.
Right(o, b, a, dam, sent) ==
    \A i \in 1 .. Len(o.buf) : i <= a - 1 /\ i \notin Hurt(dam, b) => o.buf[i] = sent[b][i]

Marked(o, b, a, song, dam) ==
    /\ Surplus(o, b, a, song) <= Len(o.marks)
    /\ \A d \in dam : d.block = b /\ d.marked /\ d.pos <= Len(o.buf) =>
          \E k \in 1 .. Len(o.marks) - Surplus(o, b, a, song) : o.marks[k] = d.pos

\* Where symbols are still to come, the last two and the last token are known.
Chained(o, b, song, dam, before) ==
    LET n == Len(o.buf)
    IN  /\ o.pre = o.buf[n]
        /\ o.prepre = IF n >= 2 THEN o.buf[n - 1] ELSE before[2]
        /\ n \notin Hurt(dam, b) => o.realPre = song[b][n + 1]

\* How many symbols an outcome has: in a block that is not the last some of the
\* end may be missing, in the last start tokens may have been taken for symbols.
Lengths(o, b, a, song, dam) ==
    LET n == Len(o.buf)
    IN  /\ a < Len(song[b]) => n = a - 1
        /\ a = Len(song[b]) =>
             IF b < Len(song)
             THEN /\ n \in a - 1 - RsSize .. a - 1
                  /\ \A i \in n + 1 .. a - 1 : i \in Hurt(dam, b)
             ELSE n >= a - 1 /\ o.starts = n - (a - 1)

Follows(o, b, a, song, dam, before, sent) ==
    IF a <= 1 THEN o = Fresh(before)
    ELSE /\ Lengths(o, b, a, song, dam) /\ Right(o, b, a, dam, sent) /\ Marked(o, b, a, song, dam)
         /\ a < Len(song[b]) => Chained(o, b, song, dam, before)

\* What a block that leans on the one before needs of it.
Carries(before, b, song, sent) ==
    b > 1 /\ song[b][2] = Overlap => before[2] = sent[b - 1][Len(sent[b - 1])]

\* When a tokens have passed, one outcome of the signals follows what was sent.
Tracks(signals, b, a, song, dam, sent) ==
    Unleant(song, dam, b) =>
        \A before \in Int \X Int : Carries(before, b, song, sent) =>
            \E o \in Outcomes(signals, before)[Len(signals)] :
                Follows(o, b, a, song, dam, before, sent)

-----------------------------------------------------------------------------
(* Induction and recursion, for sets and functions.                         *)

LEMMA SmallestOf ==
    ASSUME NEW T, T \subseteq Nat, T # {}
    PROVE  \E x \in T : \A y \in T : x <= y
<1>1. PICK x \in T : \A y \in T : <<y, x>> \notin OpToRel(<, Nat)
  BY NatLessThanWellFounded, WFMin
<1>2. \A y \in T : ~(y < x)
  BY <1>1 DEF OpToRel
<1> QED BY <1>2

\* What holds of 0 and from each number to the next holds up to any.
LEMMA Induction ==
    ASSUME NEW N \in Nat, NEW S, 0 \in S,
           \A n \in 0 .. N - 1 : n \in S => n + 1 \in S
    PROVE  0 .. N \subseteq S
<1> DEFINE T == (0 .. N) \ S
<1>1. ASSUME T # {} PROVE FALSE
  <2>0. T \subseteq Nat
    OBVIOUS
  <2> HIDE DEF T
  <2>1. PICK x \in T : \A y \in T : x <= y
    BY <1>1, <2>0, SmallestOf
  <2> USE DEF T
  <2>2. x # 0 /\ x \in 1 .. N
    BY <2>1
  <2>3. x - 1 \in 0 .. N - 1 /\ x - 1 \notin T
    BY <2>1, <2>2
  <2>4. x - 1 \in S
    BY <2>3, <2>2
  <2>5. (x - 1) + 1 \in S
    BY <2>3, <2>4
  <2>6. (x - 1) + 1 = x
    BY <2>2
  <2> QED BY <2>1, <2>5, <2>6
<1> QED BY <1>1

Recurs(f, N, base, step) ==
    f = [k \in 0 .. N |-> IF k = 0 THEN base ELSE step[<<k, f[k - 1]>>]]

\* A function is defined by its value at 0 and what each value makes of the one
\* before.
LEMMA Recursion ==
    ASSUME NEW N \in Nat, NEW X, NEW base \in X, NEW step \in [(1 .. N) \X X -> X]
    PROVE  \E f \in [0 .. N -> X] : Recurs(f, N, base, step)
<1> DEFINE Good(n, f) == f[0] = base /\ \A k \in 1 .. n : f[k] = step[<<k, f[k - 1]>>]
<1> DEFINE S == {n \in 0 .. N : \E f \in [0 .. n -> X] : Good(n, f)}
<1>1. 0 \in S
  <2> DEFINE f == [k \in 0 .. 0 |-> base]
  <2>1. f \in [0 .. 0 -> X] /\ f[0] = base
    OBVIOUS
  <2>2. Good(0, f)
    BY <2>1
  <2>3. \E h \in [0 .. 0 -> X] : Good(0, h)
    BY <2>1, <2>2
  <2> QED BY <2>3
<1>2. ASSUME NEW n \in 0 .. N - 1, n \in S PROVE n + 1 \in S
  <2>1. PICK f \in [0 .. n -> X] : Good(n, f)
    BY <1>2
  <2> DEFINE g == [k \in 0 .. n + 1 |-> IF k = n + 1 THEN step[<<n + 1, f[n]>>] ELSE f[k]]
  <2>2. <<n + 1, f[n]>> \in (1 .. N) \X X
    OBVIOUS
  <2>3. step[<<n + 1, f[n]>>] \in X
    BY <2>2
  <2>4. g \in [0 .. n + 1 -> X]
    BY <2>3
  <2>5. g[0] = base
    BY <2>1
  <2>6. ASSUME NEW k \in 1 .. n + 1 PROVE g[k] = step[<<k, g[k - 1]>>]
    <3>1. CASE k = n + 1
      <4>1. k - 1 = n /\ n # n + 1 /\ k - 1 \in 0 .. n + 1 /\ k \in 0 .. n + 1
        BY <3>1
      <4>2. g[k] = step[<<n + 1, f[n]>>] /\ g[k - 1] = f[n]
        BY <3>1, <4>1
      <4> QED BY <3>1, <4>1, <4>2
    <3>2. CASE k # n + 1
      <4>1. k \in 1 .. n /\ k - 1 \in 0 .. n /\ k - 1 # n + 1 /\ k \in 0 .. n + 1
        BY <3>2
      <4>2. f[k] = step[<<k, f[k - 1]>>]
        BY <4>1, <2>1
      <4>3. g[k] = f[k] /\ g[k - 1] = f[k - 1]
        BY <4>1
      <4> QED BY <4>2, <4>3
    <3> QED BY <3>1, <3>2
  <2> HIDE DEF g
  <2>7. Good(n + 1, g)
    BY <2>5, <2>6
  <2>8. \E h \in [0 .. n + 1 -> X] : Good(n + 1, h)
    BY <2>4, <2>7
  <2> QED BY <2>8
<1>3. N \in S
  <2>1. \A n \in 0 .. N - 1 : n \in S => n + 1 \in S
    BY <1>2
  <2> HIDE DEF S
  <2>2. 0 .. N \subseteq S
    BY <1>1, <2>1, Induction
  <2> QED BY <2>2
<1>4. PICK f \in [0 .. N -> X] : Good(N, f)
  BY <1>3
<1>5. \A k \in 0 .. N : k # 0 => k \in 1 .. N
  OBVIOUS
<1>6. f = [k \in 0 .. N |-> IF k = 0 THEN base ELSE step[<<k, f[k - 1]>>]]
  BY <1>4, <1>5
<1> QED BY <1>6 DEF Recurs

-----------------------------------------------------------------------------
(* The defining equations of the recursive functions.                       *)

Outcome ==
    {o \in [buf : Seq(Int), marks : Seq(Int), pre : Int, prepre : Int, realPre : Int,
            starts : Nat] :
        Len(o.buf) <= Full /\ o.starts <= Len(o.buf) /\ o.starts <= Len(o.marks)}

LEMMA SizesAre == RsSize = 2 /\ BlockSize \in Nat /\ BlockSize >= 3 /\ Full \in Nat
                  /\ Full = BlockSize + 2 /\ StartMiss \in Nat
BY TonesAssumption DEF Full

LEMMA FreshType ==
    ASSUME NEW before \in Int \X Int
    PROVE  Fresh(before) \in Outcome
BY SizesAre DEF Fresh, Outcome

LEMMA TakeSignalType ==
    ASSUME NEW o \in Outcome, NEW token \in Int, NEW suspect
    PROVE  Take(o, token, suspect) \in Outcome
<1> DEFINE symbol == Symbol(o, token)
<1> DEFINE clean == IF symbol < CodeMin THEN CodeMin ELSE symbol
<1> DEFINE marks == IF symbol < CodeMin \/ suspect THEN Append(o.marks, Len(o.buf) + 1) ELSE o.marks
<1> DEFINE starts == IF token = Start THEN o.starts + 1 ELSE 0
<1>1. /\ o.buf \in Seq(Int) /\ o.marks \in Seq(Int) /\ o.pre \in Int /\ o.prepre \in Int
      /\ o.realPre \in Int /\ o.starts \in Nat
      /\ Len(o.buf) <= Full /\ o.starts <= Len(o.buf) /\ o.starts <= Len(o.marks)
  BY DEF Outcome
<1>2. symbol \in Int /\ clean \in Int
  BY <1>1 DEF Symbol, CodeMin
<1>3. CASE Len(o.buf) = Full \/ (token = Start /\ o.buf = <<>>)
  BY <1>3 DEF Take
<1>4. CASE ~(Len(o.buf) = Full \/ (token = Start /\ o.buf = <<>>))
  <2>1. Take(o, token, suspect) =
            [buf |-> Append(o.buf, clean), marks |-> marks, pre |-> clean, prepre |-> o.pre,
             realPre |-> token, starts |-> starts]
    BY <1>4 DEF Take
  <2>2. Append(o.buf, clean) \in Seq(Int) /\ Len(Append(o.buf, clean)) = Len(o.buf) + 1
    BY <1>1, <1>2
  <2>3. marks \in Seq(Int) /\ Len(marks) \in {Len(o.marks), Len(o.marks) + 1}
    BY <1>1
  <2>4. Len(o.buf) + 1 <= Full
    BY <1>1, <1>4, SizesAre
  <2>5. token = Start => symbol < CodeMin
    BY DEF Symbol, CodeMin, Start, Overlap, Overlap2
  <2>6. token = Start => Len(marks) = Len(o.marks) + 1
    BY <2>5, <1>1
  <2>7. starts \in Nat /\ starts <= Len(o.buf) + 1 /\ starts <= Len(marks)
    BY <1>1, <2>3, <2>6
  <2> HIDE DEF symbol, clean, marks, starts
  <2> QED BY <1>1, <1>2, <2>1, <2>2, <2>3, <2>4, <2>7 DEF Outcome
<1> QED BY <1>3, <1>4

LEMMA ToSetIs == ASSUME NEW s PROVE ToSet(s) = {s[i] : i \in DOMAIN s}
BY DEF ToSet

LEMMA ElementType ==
    ASSUME NEW S, NEW s \in Seq(S), NEW i \in DOMAIN s
    PROVE  s[i] \in S
OBVIOUS

\* What the outcomes up to signal k become with it.
Taken(block, k, outs) ==
    {Take(o, token, block[k].suspect) : o \in outs, token \in ToSet(block[k].alternatives)}

LEMMA OutcomesDef ==
    ASSUME NEW block \in Seq(Signal), NEW before \in Int \X Int
    PROVE  /\ Outcomes(block, before) \in [0 .. Len(block) -> SUBSET Outcome]
           /\ Outcomes(block, before)[0] = {Fresh(before)}
           /\ \A k \in 1 .. Len(block) :
                Outcomes(block, before)[k] = Taken(block, k, Outcomes(block, before)[k - 1])
<1> DEFINE N == Len(block)
<1> DEFINE X == SUBSET Outcome
<1> DEFINE base == {Fresh(before)}
<1> DEFINE step == [p \in (1 .. N) \X X |-> Taken(block, p[1], p[2])]
<1>1. N \in Nat
  OBVIOUS
<1>2. base \in X
  BY FreshType
<1>3. ASSUME NEW k \in 1 .. N, NEW outs \in X PROVE Taken(block, k, outs) \in X
  <2>1. block[k] \in Signal
    OBVIOUS
  <2>2. block[k].alternatives \in Seq(Alphabet)
    BY <2>1 DEF Signal
  <2>a. Alphabet \subseteq Int
    BY DEF Alphabet
  <2>3. ASSUME NEW i \in DOMAIN block[k].alternatives
        PROVE  block[k].alternatives[i] \in Int
    <3>1. block[k].alternatives[i] \in Alphabet
      BY <2>2, ElementType
    <3> QED BY <3>1, <2>a
  <2>4. ToSet(block[k].alternatives) \subseteq Int
    BY <2>3, ToSetIs
  <2>5. ASSUME NEW o \in outs, NEW token \in ToSet(block[k].alternatives)
        PROVE  Take(o, token, block[k].suspect) \in Outcome
    BY <2>4, TakeSignalType
  <2> QED BY <2>5 DEF Taken
<1>4. step \in [(1 .. N) \X X -> X]
  <2> HIDE DEF X, N
  <2> QED BY <1>3
<1>5. \A k \in 1 .. N : \A outs \in X : step[<<k, outs>>] = Taken(block, k, outs)
  OBVIOUS
<1> DEFINE Does(f) == f = [k \in 0 .. N |-> IF k = 0 THEN base ELSE Taken(block, k, f[k - 1])]
<1>6. \E f \in [0 .. N -> X] : Recurs(f, N, base, step)
  <2> HIDE DEF N, X, base, step
  <2> QED BY <1>1, <1>2, <1>4, Recursion
<1>7. PICK f \in [0 .. N -> X] : Recurs(f, N, base, step)
  <2> HIDE DEF N, X, base, step
  <2> QED BY <1>6
<1>8. Does(f)
  <2> HIDE DEF base, step, X
  <2>1. \A k \in 0 .. N : k # 0 => k \in 1 .. N /\ k - 1 \in 0 .. N
    BY <1>1
  <2>2. \A k \in 0 .. N : k # 0 => step[<<k, f[k - 1]>>] = Taken(block, k, f[k - 1])
    BY <2>1, <1>5, <1>7
  <2>3. [k \in 0 .. N |-> IF k = 0 THEN base ELSE step[<<k, f[k - 1]>>]]
        = [k \in 0 .. N |-> IF k = 0 THEN base ELSE Taken(block, k, f[k - 1])]
    BY <2>2
  <2> QED BY <1>7, <2>3 DEF Recurs
<1> DEFINE R == Outcomes(block, before)
<1>9. R = CHOOSE g : Does(g)
  BY DEF Outcomes, Fresh, Taken
<1>10. Does(R)
  <2> HIDE DEF Does, R
  <2> QED BY <1>8, <1>9
<1>11. R[0] = base /\ \A k \in 1 .. N : R[k] = Taken(block, k, R[k - 1])
  <2> HIDE DEF R, base
  <2>1. \A k \in 1 .. N : k \in 0 .. N /\ k # 0
    BY <1>1
  <2>2. 0 \in 0 .. N
    BY <1>1
  <2> HIDE DEF N
  <2> QED BY <1>10, <2>1, <2>2
<1>12. R = [k \in 0 .. N |-> R[k]]
  <2> HIDE DEF R, base, N
  <2> QED BY <1>10
<1>13. \A k \in 0 .. N : R[k] \in X
  <2> DEFINE S == {k \in 0 .. N : R[k] \in X}
  <2> HIDE DEF R, base, N, X
  <2>1. 0 \in S
    BY <1>1, <1>2, <1>11
  <2>2. ASSUME NEW k \in 0 .. N - 1, k \in S PROVE k + 1 \in S
    <3>1. k + 1 \in 1 .. N /\ k + 1 \in 0 .. N /\ (k + 1) - 1 = k
      BY <1>1
    <3>2. R[k + 1] = Taken(block, k + 1, R[k])
      BY <1>11, <3>1
    <3> QED BY <2>2, <3>1, <3>2, <1>3
  <2>3. \A k \in 0 .. N - 1 : k \in S => k + 1 \in S
    BY <2>2
  <2> HIDE DEF S
  <2>4. 0 .. N \subseteq S
    BY <1>1, <2>1, <2>3, Induction
  <2> QED BY <2>4 DEF S
<1>14. R \in [0 .. N -> X]
  <2> HIDE DEF R, N, X
  <2>1. [k \in 0 .. N |-> R[k]] \in [0 .. N -> X]
    BY <1>13
  <2> QED BY <1>12, <2>1
<1>15. R[0] = {Fresh(before)} /\ \A k \in 1 .. Len(block) : R[k] = Taken(block, k, R[k - 1])
  <2> HIDE DEF R
  <2> QED BY <1>11
<1>16. R \in [0 .. Len(block) -> SUBSET Outcome]
  <2> HIDE DEF R
  <2> QED BY <1>14
<1> QED BY <1>15, <1>16

LEMMA SignalsDef ==
    ASSUME NEW T, NEW blocks \in Seq(Seq(T))
    PROVE  /\ Signals(blocks) \in [0 .. Len(blocks) -> Nat]
           /\ Signals(blocks)[0] = 0
           /\ \A b \in 1 .. Len(blocks) : Signals(blocks)[b] = Signals(blocks)[b - 1] + Len(blocks[b])
<1> DEFINE N == Len(blocks)
<1> DEFINE step == [p \in (1 .. N) \X Nat |-> p[2] + Len(blocks[p[1]])]
<1> DEFINE Does(f) == f = [b \in 0 .. N |-> IF b = 0 THEN 0 ELSE f[b - 1] + Len(blocks[b])]
<1>1. N \in Nat
  OBVIOUS
<1>2. ASSUME NEW b \in 1 .. N PROVE Len(blocks[b]) \in Nat
  <2>1. blocks[b] \in Seq(T)
    BY ElementType
  <2> QED BY <2>1
<1>3. step \in [(1 .. N) \X Nat -> Nat]
  BY <1>2
<1>4. \A b \in 1 .. N : \A c \in Nat : step[<<b, c>>] = c + Len(blocks[b])
  OBVIOUS
<1>5. PICK f \in [0 .. N -> Nat] : Recurs(f, N, 0, step)
  <2>1. \E f \in [0 .. N -> Nat] : Recurs(f, N, 0, step)
    <3> HIDE DEF N, step
    <3> QED BY <1>1, <1>3, Recursion
  <2> QED BY <2>1
<1>6. Does(f)
  <2> HIDE DEF step
  <2>1. \A b \in 0 .. N : b # 0 => b \in 1 .. N /\ b - 1 \in 0 .. N
    BY <1>1
  <2>2. \A b \in 0 .. N : b # 0 => step[<<b, f[b - 1]>>] = f[b - 1] + Len(blocks[b])
    BY <2>1, <1>4, <1>5
  <2>3. [b \in 0 .. N |-> IF b = 0 THEN 0 ELSE step[<<b, f[b - 1]>>]]
        = [b \in 0 .. N |-> IF b = 0 THEN 0 ELSE f[b - 1] + Len(blocks[b])]
    BY <2>2
  <2> QED BY <1>5, <2>3 DEF Recurs
<1> DEFINE R == Signals(blocks)
<1>7. Does(R)
  <2>1. R = CHOOSE g : Does(g)
    BY DEF Signals
  <2> HIDE DEF Does, R
  <2> QED BY <1>6, <2>1
<1>8. R[0] = 0 /\ R = [b \in 0 .. N |-> R[b]]
  <2> HIDE DEF R
  <2> QED BY <1>7, <1>1
<1>9. ASSUME NEW b \in 1 .. N PROVE R[b] = R[b - 1] + Len(blocks[b])
  <2> HIDE DEF R
  <2> QED BY <1>7, <1>1
<1>10. \A b \in 0 .. N : R[b] \in Nat
  <2> DEFINE S == {b \in 0 .. N : R[b] \in Nat}
  <2> HIDE DEF R, N
  <2>1. 0 \in S
    BY <1>1, <1>8
  <2>2. ASSUME NEW b \in 0 .. N - 1, b \in S PROVE b + 1 \in S
    <3>1. b + 1 \in 1 .. N /\ b + 1 \in 0 .. N /\ (b + 1) - 1 = b
      BY <1>1
    <3>2. R[b + 1] = R[(b + 1) - 1] + Len(blocks[b + 1])
      BY <1>9, <3>1
    <3> QED BY <2>2, <3>1, <3>2, <1>2
  <2>3. \A b \in 0 .. N - 1 : b \in S => b + 1 \in S
    BY <2>2
  <2> HIDE DEF S
  <2>4. 0 .. N \subseteq S
    BY <1>1, <2>1, <2>3, Induction
  <2> QED BY <2>4 DEF S
<1>11. R \in [0 .. N -> Nat]
  <2> HIDE DEF R, N
  <2>1. [b \in 0 .. N |-> R[b]] \in [0 .. N -> Nat]
    BY <1>10
  <2> QED BY <1>8, <2>1
<1> QED BY <1>8, <1>9, <1>11

\* Blocks as long as each other's have as many signals.
LEMMA SignalsAlike ==
    ASSUME NEW T, NEW blocks \in Seq(Seq(T)), NEW others \in Seq(Seq(T)), NEW n \in Nat,
           n <= Len(blocks), n <= Len(others),
           \A b \in 1 .. n : Len(blocks[b]) = Len(others[b])
    PROVE  Signals(blocks)[n] = Signals(others)[n]
<1> DEFINE S == {b \in 0 .. n : Signals(blocks)[b] = Signals(others)[b]}
<1>0. Len(blocks) \in Nat /\ Len(others) \in Nat
  OBVIOUS
<1>1. 0 \in S
  BY SignalsDef
<1>2. ASSUME NEW b \in 0 .. n - 1, b \in S PROVE b + 1 \in S
  <2>1. b + 1 \in 1 .. n /\ b + 1 \in 1 .. Len(blocks) /\ b + 1 \in 1 .. Len(others)
        /\ (b + 1) - 1 = b /\ b + 1 \in 0 .. n
    BY <1>0
  <2>2. Signals(blocks)[b + 1] = Signals(blocks)[(b + 1) - 1] + Len(blocks[b + 1])
    BY <2>1, SignalsDef
  <2>3. Signals(others)[b + 1] = Signals(others)[(b + 1) - 1] + Len(others[b + 1])
    BY <2>1, SignalsDef
  <2>4. Len(blocks[b + 1]) = Len(others[b + 1])
    BY <2>1
  <2> QED BY <1>2, <2>1, <2>2, <2>3, <2>4
<1>3. \A b \in 0 .. n - 1 : b \in S => b + 1 \in S
  BY <1>2
<1> HIDE DEF S
<1>4. 0 .. n \subseteq S
  BY <1>1, <1>3, Induction
<1> QED BY <1>4 DEF S

\* The token of symbol i, after the token last.
Sung(block, pre, i, last) ==
    IF block[i] # (IF i = 1 THEN pre ELSE block[i - 1]) THEN block[i] + 1
    ELSE IF i > 1 /\ last = Overlap THEN Overlap2 ELSE Overlap

LEMMA TokensDef ==
    ASSUME NEW block \in Seq(Nibble), NEW pre \in Int
    PROVE  /\ Tokens(block, pre) \in Seq(Alphabet)
           /\ Len(Tokens(block, pre)) = Len(block) + 1
           /\ Tokens(block, pre)[1] = Start
           /\ \A i \in 1 .. Len(block) :
                Tokens(block, pre)[i + 1] = Sung(block, pre, i, Tokens(block, pre)[i])
<1> DEFINE N == Len(block)
<1> DEFINE step == [p \in (1 .. N) \X Alphabet |-> Sung(block, pre, p[1], p[2])]
<1> DEFINE Does(f) ==
      f = [i \in 1 .. N |->
            IF block[i] # (IF i = 1 THEN pre ELSE block[i - 1]) THEN block[i] + 1
            ELSE IF i > 1 /\ f[i - 1] = Overlap THEN Overlap2
            ELSE Overlap]
<1>1. N \in Nat
  OBVIOUS
<1>2. ASSUME NEW i \in 1 .. N, NEW last PROVE Sung(block, pre, i, last) \in Alphabet
  <2>1. i \in DOMAIN block
    OBVIOUS
  <2>2. block[i] \in Nibble
    BY <2>1, ElementType
  <2>3. Sung(block, pre, i, last) \in {block[i] + 1, Overlap, Overlap2}
    BY DEF Sung
  <2>4. block[i] + 1 \in 0 .. 18
    BY <2>2 DEF Nibble
  <2>5. Overlap \in 0 .. 18 /\ Overlap2 \in 0 .. 18
    BY DEF Overlap, Overlap2
  <2> HIDE DEF N
  <2> QED BY ONLY <2>3, <2>4, <2>5 DEF Alphabet
<1>3. step \in [(1 .. N) \X Alphabet -> Alphabet]
  BY <1>2
<1>4. \A i \in 1 .. N : \A t \in Alphabet : step[<<i, t>>] = Sung(block, pre, i, t)
  OBVIOUS
<1>5. PICK f \in [0 .. N -> Alphabet] : Recurs(f, N, 0, step)
  <2>1. 0 \in Alphabet
    BY DEF Alphabet
  <2>2. \E f \in [0 .. N -> Alphabet] : Recurs(f, N, 0, step)
    <3> HIDE DEF N, step
    <3> QED BY <1>1, <1>3, <2>1, Recursion
  <2> QED BY <2>2
<1> DEFINE g == [i \in 1 .. N |-> f[i]]
<1>6. Does(g)
  <2>1. ASSUME NEW i \in 1 .. N PROVE f[i] = Sung(block, pre, i, f[i - 1])
    <3>1. i \in 0 .. N /\ i # 0 /\ i - 1 \in 0 .. N
      BY <1>1
    <3>2. f[i - 1] \in Alphabet
      BY <3>1
    <3>3. step[<<i, f[i - 1]>>] = Sung(block, pre, i, f[i - 1])
      BY <3>2, <1>4
    <3>4. f[i] = step[<<i, f[i - 1]>>]
      <4> HIDE DEF step
      <4>1. \A k \in 0 .. N : f[k] = IF k = 0 THEN 0 ELSE step[<<k, f[k - 1]>>]
        BY <1>5 DEF Recurs
      <4> QED BY <4>1, <3>1
    <3> QED BY <3>3, <3>4
  <2>2. ASSUME NEW i \in 1 .. N
        PROVE  g[i] = IF block[i] # (IF i = 1 THEN pre ELSE block[i - 1]) THEN block[i] + 1
                      ELSE IF i > 1 /\ g[i - 1] = Overlap THEN Overlap2
                      ELSE Overlap
    <3>1. g[i] = Sung(block, pre, i, f[i - 1])
      BY <2>1
    <3>2. i > 1 => i - 1 \in 1 .. N
      BY <1>1
    <3>3. i > 1 => g[i - 1] = f[i - 1]
      BY <3>2
    <3> HIDE DEF g
    <3> QED BY <3>1, <3>3 DEF Sung
  <2>3. g = [i \in 1 .. N |-> g[i]]
    OBVIOUS
  <2> HIDE DEF g
  <2> QED BY <2>2, <2>3
<1> DEFINE R == CHOOSE h : Does(h)
<1>7. Does(R)
  <2> HIDE DEF Does, g
  <2> QED BY <1>6
<1>8. Tokens(block, pre) = <<Start>> \o R
  BY DEF Tokens
<1>9. ASSUME NEW i \in 1 .. N PROVE R[i] = Sung(block, pre, i, R[i - 1])
  <2> HIDE DEF R
  <2> QED BY <1>7 DEF Sung
<1>10. R \in Seq(Alphabet) /\ Len(R) = N
  <2>1. R = [i \in 1 .. N |-> R[i]]
    <3> HIDE DEF R
    <3> QED BY <1>7
  <2>2. \A i \in 1 .. N : R[i] \in Alphabet
    <3> HIDE DEF R
    <3> QED BY <1>9, <1>2
  <2>3. R \in [1 .. N -> Alphabet]
    <3> HIDE DEF R, N
    <3> QED BY <2>1, <2>2
  <2> HIDE DEF R, N
  <2> QED BY <2>3, <1>1
<1>11. <<Start>> \in Seq(Alphabet)
  BY DEF Start, Alphabet
<1> DEFINE toks == <<Start>> \o R
<1>12. toks \in Seq(Alphabet) /\ Len(toks) = N + 1 /\ toks[1] = Start
       /\ \A i \in 1 .. N : toks[i + 1] = R[i]
  <2> HIDE DEF R, N
  <2> QED BY <1>10, <1>11, <1>1
<1>13. ASSUME NEW i \in 1 .. N PROVE toks[i + 1] = Sung(block, pre, i, toks[i])
  <2>1. toks[i + 1] = Sung(block, pre, i, R[i - 1])
    <3> HIDE DEF R
    <3> QED BY <1>12, <1>9
  <2>2. CASE i = 1
    <3>1. Sung(block, pre, 1, R[i - 1]) = Sung(block, pre, 1, toks[1])
      BY DEF Sung
    <3> HIDE DEF R, toks
    <3> QED BY <2>1, <2>2, <3>1
  <2>3. CASE i # 1
    <3>1. i - 1 \in 1 .. N /\ (i - 1) + 1 = i
      BY <2>3, <1>1
    <3>2. toks[(i - 1) + 1] = R[i - 1]
      <4> HIDE DEF R, toks
      <4> QED BY <1>12, <3>1
    <3> QED BY <2>1, <3>1, <3>2
  <2> QED BY <2>2, <2>3
<1> HIDE DEF R
<1> QED BY <1>8, <1>12, <1>13

\* One signal more.
LEMMA OutcomesAppend ==
    ASSUME NEW block \in Seq(Signal), NEW signal \in Signal, NEW before \in Int \X Int
    PROVE  /\ Append(block, signal) \in Seq(Signal)
           /\ Len(Append(block, signal)) = Len(block) + 1
           /\ \A o \in Outcomes(block, before)[Len(block)] :
              \A token \in ToSet(signal.alternatives) :
                Take(o, token, signal.suspect)
                  \in Outcomes(Append(block, signal), before)[Len(Append(block, signal))]
<1> DEFINE N == Len(block)
<1> DEFINE more == Append(block, signal)
<1> DEFINE A == Outcomes(block, before)
<1> DEFINE B == Outcomes(more, before)
<1>1. N \in Nat /\ more \in Seq(Signal) /\ Len(more) = N + 1 /\ more[N + 1] = signal
      /\ \A k \in 1 .. N : more[k] = block[k]
  OBVIOUS
<1>2. A[0] = {Fresh(before)} /\ \A k \in 1 .. N : A[k] = Taken(block, k, A[k - 1])
  BY OutcomesDef
<1>3. B[0] = {Fresh(before)} /\ \A k \in 1 .. N + 1 : B[k] = Taken(more, k, B[k - 1])
  <2> HIDE DEF more
  <2> QED BY <1>1, OutcomesDef
<1> DEFINE S == {k \in 0 .. N : A[k] = B[k]}
<1>4. 0 \in S
  <2>1. A[0] = B[0]
    <3> HIDE DEF A, B
    <3> QED BY <1>2, <1>3
  <2>2. 0 \in 0 .. N
    BY <1>1
  <2> HIDE DEF A, B, N
  <2> QED BY <2>1, <2>2
<1>5. ASSUME NEW k \in 0 .. N - 1, k \in S PROVE k + 1 \in S
  <2>1. k + 1 \in 1 .. N /\ k + 1 \in 1 .. N + 1 /\ (k + 1) - 1 = k /\ k + 1 \in 0 .. N
    BY <1>1
  <2>2. more[k + 1] = block[k + 1]
    BY <1>1, <2>1
  <2>3. ASSUME NEW outs PROVE Taken(block, k + 1, outs) = Taken(more, k + 1, outs)
    <3> HIDE DEF more
    <3> QED BY <2>2 DEF Taken
  <2>4. A[k + 1] = Taken(block, k + 1, A[k]) /\ B[k + 1] = Taken(more, k + 1, B[k])
    <3> HIDE DEF A, B, more, N
    <3> QED BY <1>2, <1>3, <2>1
  <2> HIDE DEF A, B, more, N
  <2> QED BY <2>1, <2>3, <2>4, <1>5
<1>6. A[N] = B[N]
  <2>1. \A k \in 0 .. N - 1 : k \in S => k + 1 \in S
    BY <1>5
  <2>2. 0 .. N \subseteq S
    <3> HIDE DEF S, N
    <3> QED BY <1>1, <1>4, <2>1, Induction
  <2> HIDE DEF A, B, N
  <2> QED BY <2>2, <1>1
<1>7. B[N + 1] = Taken(more, N + 1, A[N])
  <2>1. N + 1 \in 1 .. N + 1 /\ (N + 1) - 1 = N
    BY <1>1
  <2> HIDE DEF A, B, more, N
  <2> QED BY <1>3, <1>6, <2>1
<1>8. ASSUME NEW o \in A[N], NEW token \in ToSet(signal.alternatives)
      PROVE  Take(o, token, signal.suspect) \in B[N + 1]
  <2>1. more[N + 1] = signal
    BY <1>1
  <2> HIDE DEF A, B, more, N
  <2> QED BY <1>7, <2>1 DEF Taken
<1> HIDE DEF N
<1> QED BY <1>1, <1>8

-----------------------------------------------------------------------------
(* The words of a block.                                                    *)

LEMMA ZerosAre ==
    ASSUME NEW n \in Nat
    PROVE  Zeros(n) \in Seq(Int) /\ Len(Zeros(n)) = n /\ \A i \in 1 .. n : Zeros(n)[i] = CodeMin
BY DEF Zeros, CodeMin

LEMMA Joined ==
    ASSUME NEW T, NEW s \in Seq(T), NEW t \in Seq(T)
    PROVE  /\ s \o t \in Seq(T) /\ Len(s \o t) = Len(s) + Len(t)
           /\ \A i \in 1 .. Len(s) : (s \o t)[i] = s[i]
           /\ \A i \in 1 .. Len(t) : (s \o t)[Len(s) + i] = t[i]
<1>1. /\ s \o t \in Seq(T) /\ Len(s \o t) = Len(s) + Len(t)
      /\ \A i \in 1 .. Len(s) + Len(t) : (s \o t)[i] = IF i <= Len(s) THEN s[i] ELSE t[i - Len(s)]
  BY ConcatProperties
<1>2. Len(s) \in Nat /\ Len(t) \in Nat
  OBVIOUS
<1>3. ASSUME NEW i \in 1 .. Len(s) PROVE (s \o t)[i] = s[i]
  <2>1. i \in 1 .. Len(s) + Len(t) /\ i <= Len(s)
    BY <1>2
  <2> QED BY <1>1, <2>1
<1>4. ASSUME NEW i \in 1 .. Len(t) PROVE (s \o t)[Len(s) + i] = t[i]
  <2>1. Len(s) + i \in 1 .. Len(s) + Len(t) /\ ~(Len(s) + i <= Len(s)) /\ (Len(s) + i) - Len(s) = i
    BY <1>2
  <2>2. (s \o t)[Len(s) + i] = t[(Len(s) + i) - Len(s)]
    BY <1>1, <2>1
  <2> QED BY <2>1, <2>2
<1> QED BY <1>1, <1>3, <1>4

LEMMA Cut ==
    ASSUME NEW T, NEW s \in Seq(T), NEW m \in Nat, NEW n \in Nat, m + n <= Len(s)
    PROVE  /\ SubSeq(s, m + 1, m + n) \in Seq(T) /\ Len(SubSeq(s, m + 1, m + n)) = n
           /\ \A i \in 1 .. n : SubSeq(s, m + 1, m + n)[i] = s[m + i]
<1>1. \A i \in m + 1 .. m + n : s[i] \in T
  <2>1. ASSUME NEW i \in m + 1 .. m + n PROVE s[i] \in T
    <3>1. i \in 1 .. Len(s)
      OBVIOUS
    <3> QED BY <3>1, ElementOfSeq
  <2> QED BY <2>1
<1>2. m + 1 \in Int /\ m + n \in Int
  OBVIOUS
<1>3. /\ SubSeq(s, m + 1, m + n) \in Seq(T)
      /\ Len(SubSeq(s, m + 1, m + n)) = IF m + 1 <= m + n THEN (m + n) - (m + 1) + 1 ELSE 0
      /\ \A i \in 1 .. (m + n) - (m + 1) + 1 : SubSeq(s, m + 1, m + n)[i] = s[(m + 1) + i - 1]
  BY <1>1, <1>2, SubSeqProperties
<1>4. (m + n) - (m + 1) + 1 = n
  OBVIOUS
<1>5. \A i \in 1 .. n : (m + 1) + i - 1 = m + i
  OBVIOUS
<1>6. (IF m + 1 <= m + n THEN (m + n) - (m + 1) + 1 ELSE 0) = n
  OBVIOUS
<1> QED BY <1>3, <1>4, <1>5, <1>6

LEMMA FillIs ==
    ASSUME NEW o \in Outcome
    PROVE  /\ Fill(o).buf \in Seq(Int) /\ Len(Fill(o).buf) = Full
           /\ \A i \in 1 .. Len(o.buf) : Fill(o).buf[i] = o.buf[i]
           /\ Fill(o).marks \in Seq(Int)
           /\ Len(Fill(o).marks) = Len(o.marks) + (Full - Len(o.buf))
           /\ \A k \in 1 .. Len(o.marks) : Fill(o).marks[k] = o.marks[k]
           /\ \A x \in 1 .. Full - Len(o.buf) : Fill(o).marks[Len(o.marks) + x] = Len(o.buf) + x
<1> DEFINE n == Full - Len(o.buf)
<1> DEFINE more == [x \in 1 .. n |-> Len(o.buf) + x]
<1>1. /\ o \in [buf : Seq(Int), marks : Seq(Int), pre : Int, prepre : Int, realPre : Int, starts : Nat]
      /\ o.buf \in Seq(Int) /\ o.marks \in Seq(Int) /\ Len(o.buf) <= Full
  BY DEF Outcome
<1>2. n \in Nat /\ Len(o.buf) \in Nat /\ Len(o.marks) \in Nat /\ Len(o.buf) + n = Full
  BY <1>1, SizesAre
<1>3. Fill(o).buf = o.buf \o Zeros(n) /\ Fill(o).marks = o.marks \o more
  BY <1>1 DEF Fill
<1>4. more \in Seq(Int) /\ Len(more) = n /\ \A x \in 1 .. n : more[x] = Len(o.buf) + x
  <2> HIDE DEF n
  <2> QED BY <1>2
<1> HIDE DEF n, more
<1>5. /\ o.buf \o Zeros(n) \in Seq(Int) /\ Len(o.buf \o Zeros(n)) = Full
      /\ \A i \in 1 .. Len(o.buf) : (o.buf \o Zeros(n))[i] = o.buf[i]
  <2>1. Zeros(n) \in Seq(Int) /\ Len(Zeros(n)) = n
    BY <1>2, ZerosAre
  <2>2. /\ o.buf \o Zeros(n) \in Seq(Int) /\ Len(o.buf \o Zeros(n)) = Len(o.buf) + Len(Zeros(n))
        /\ \A i \in 1 .. Len(o.buf) : (o.buf \o Zeros(n))[i] = o.buf[i]
    <3>1. o.buf \in Seq(Int) /\ Zeros(n) \in Seq(Int)
      BY <1>1, <2>1
    <3> QED BY ONLY <3>1, Joined
  <2> QED BY <1>2, <2>1, <2>2
<1>6. /\ o.marks \o more \in Seq(Int) /\ Len(o.marks \o more) = Len(o.marks) + n
      /\ \A k \in 1 .. Len(o.marks) : (o.marks \o more)[k] = o.marks[k]
      /\ \A x \in 1 .. n : (o.marks \o more)[Len(o.marks) + x] = more[x]
  <2>1. /\ o.marks \o more \in Seq(Int) /\ Len(o.marks \o more) = Len(o.marks) + Len(more)
        /\ \A k \in 1 .. Len(o.marks) : (o.marks \o more)[k] = o.marks[k]
        /\ \A x \in 1 .. Len(more) : (o.marks \o more)[Len(o.marks) + x] = more[x]
    <3>1. o.marks \in Seq(Int) /\ more \in Seq(Int)
      BY <1>1, <1>4
    <3> QED BY ONLY <3>1, Joined
  <2> QED BY <1>4, <2>1
<1>7. \A x \in 1 .. n : Fill(o).marks[Len(o.marks) + x] = Len(o.buf) + x
  BY <1>3, <1>4, <1>6
<1> QED BY <1>3, <1>5, <1>6, <1>7 DEF n

LEMMA PaddedIs ==
    ASSUME NEW s \in Seq(Int), Len(s) \in RsSize + 1 .. Full
    PROVE  /\ Padded(s) \in Seq(Int) /\ Len(Padded(s)) = Full
           /\ \A i \in 1 .. Len(s) - RsSize : Padded(s)[i] = s[i]
           /\ \A i \in Len(s) - RsSize + 1 .. Full - RsSize : Padded(s)[i] = CodeMin
           /\ \A i \in Full - RsSize + 1 .. Full : Padded(s)[i] = s[i - (Full - Len(s))]
<1> DEFINE n == Len(s)
<1> DEFINE data == SubSeq(s, 1, n - 2)
<1> DEFINE z == Full - n
<1> DEFINE ecc == SubSeq(s, n - 2 + 1, n)
<1>0. RsSize = 2 /\ Full \in Nat /\ n \in 3 .. Full /\ z \in Nat
  BY SizesAre
<1>1. data \in Seq(Int) /\ Len(data) = n - 2 /\ \A i \in 1 .. n - 2 : data[i] = s[i]
  <2>1. 0 \in Nat /\ n - 2 \in Nat /\ 0 + (n - 2) = n - 2 /\ 0 + (n - 2) <= Len(s) /\ 0 + 1 = 1
    BY <1>0
  <2>2. /\ SubSeq(s, 0 + 1, 0 + (n - 2)) \in Seq(Int) /\ Len(SubSeq(s, 0 + 1, 0 + (n - 2))) = n - 2
        /\ \A i \in 1 .. n - 2 : SubSeq(s, 0 + 1, 0 + (n - 2))[i] = s[0 + i]
    <3> HIDE DEF n
    <3> QED BY <2>1, Cut
  <2>3. \A i \in 1 .. n - 2 : 0 + i = i
    OBVIOUS
  <2> QED BY <2>1, <2>2, <2>3
<1>2. ecc \in Seq(Int) /\ Len(ecc) = 2 /\ ecc[1] = s[n - 1] /\ ecc[2] = s[n]
  <2>1. n - 2 \in Nat /\ (n - 2) + 2 = n /\ (n - 2) + 2 <= Len(s) /\ (n - 2) + 1 = n - 1
    BY <1>0
  <2>2. /\ SubSeq(s, (n - 2) + 1, (n - 2) + 2) \in Seq(Int)
        /\ Len(SubSeq(s, (n - 2) + 1, (n - 2) + 2)) = 2
        /\ \A i \in 1 .. 2 : SubSeq(s, (n - 2) + 1, (n - 2) + 2)[i] = s[(n - 2) + i]
    <3> HIDE DEF n
    <3>1. 2 \in Nat
      OBVIOUS
    <3>2. s \in Seq(Int) /\ n - 2 \in Nat /\ (n - 2) + 2 <= Len(s)
      BY <2>1
    <3>3. ASSUME NEW m \in Nat, NEW k \in Nat, m + k <= Len(s)
          PROVE  /\ SubSeq(s, m + 1, m + k) \in Seq(Int) /\ Len(SubSeq(s, m + 1, m + k)) = k
                 /\ \A i \in 1 .. k : SubSeq(s, m + 1, m + k)[i] = s[m + i]
      BY <3>2, <3>3, Cut
    <3> QED BY <3>1, <3>2, <3>3
  <2> QED BY <2>1, <2>2
<1>3. Zeros(z) \in Seq(Int) /\ Len(Zeros(z)) = z /\ \A i \in 1 .. z : Zeros(z)[i] = CodeMin
  BY <1>0, ZerosAre
<1>4. Padded(s) = (data \o Zeros(z)) \o ecc
  BY <1>0 DEF Padded
<1> DEFINE front == data \o Zeros(z)
<1>5. /\ front \in Seq(Int) /\ Len(front) = Full - 2
      /\ \A i \in 1 .. n - 2 : front[i] = s[i]
      /\ \A i \in n - 1 .. Full - 2 : front[i] = CodeMin
  <2>0. n - 2 + z = Full - 2
    BY <1>0
  <2> HIDE DEF n, data, z
  <2>4. /\ front \in Seq(Int) /\ Len(front) = Len(data) + Len(Zeros(z))
        /\ \A i \in 1 .. Len(data) : front[i] = data[i]
        /\ \A i \in 1 .. Len(Zeros(z)) : front[Len(data) + i] = Zeros(z)[i]
    <3>1. data \in Seq(Int) /\ Zeros(z) \in Seq(Int)
      BY <1>1, <1>3
    <3> QED BY ONLY <3>1, Joined
  <2>1. front \in Seq(Int) /\ Len(front) = Full - 2
    BY <1>0, <1>1, <1>3, <2>0, <2>4
  <2>2. ASSUME NEW i \in 1 .. n - 2 PROVE front[i] = s[i]
    BY <1>1, <2>4
  <2>3. ASSUME NEW i \in n - 1 .. Full - 2 PROVE front[i] = CodeMin
    <3>1. i - (n - 2) \in 1 .. z /\ Len(data) + (i - (n - 2)) = i
      BY <1>0, <1>1, <2>0
    <3>2. front[i] = Zeros(z)[i - (n - 2)]
      BY <3>1, <1>3, <2>4
    <3> QED BY <3>1, <3>2, <1>3
  <2> QED BY <2>1, <2>2, <2>3
<1> HIDE DEF data, ecc, front
<1>6. /\ Padded(s) \in Seq(Int) /\ Len(Padded(s)) = Full
      /\ \A i \in 1 .. Full - 2 : Padded(s)[i] = front[i]
      /\ Padded(s)[Full - 1] = ecc[1] /\ Padded(s)[Full] = ecc[2]
  <2>0. Padded(s) = front \o ecc
    BY <1>4 DEF front
  <2>1. Full \in Nat /\ Full - 2 \in Nat /\ Full - 1 \in Nat /\ Full >= 3
    BY <1>0
  <2>2. /\ front \o ecc \in Seq(Int) /\ Len(front \o ecc) = Len(front) + Len(ecc)
        /\ \A i \in 1 .. Len(front) : (front \o ecc)[i] = front[i]
        /\ \A i \in 1 .. Len(ecc) : (front \o ecc)[Len(front) + i] = ecc[i]
    <3>1. front \in Seq(Int) /\ ecc \in Seq(Int)
      BY <1>2, <1>5
    <3> QED BY ONLY <3>1, Joined
  <2>3. (front \o ecc)[Len(front) + 1] = ecc[1] /\ (front \o ecc)[Len(front) + 2] = ecc[2]
    BY <1>2, <2>2
  <2>4. Len(front) + 1 = Full - 1 /\ Len(front) + 2 = Full
    BY <1>5, <2>1
  <2> HIDE DEF n, z
  <2> QED BY <2>0, <2>1, <2>2, <2>3, <2>4, <1>2, <1>5
<1>7. ASSUME NEW i \in Full - 1 .. Full PROVE Padded(s)[i] = s[i - z]
  <2>1. CASE i = Full - 1
    <3>1. i - z = n - 1
      BY <2>1, <1>0
    <3> QED BY <2>1, <3>1, <1>6, <1>2
  <2>2. CASE i = Full
    <3>1. i - z = n
      BY <2>2, <1>0
    <3> QED BY <2>2, <3>1, <1>6, <1>2
  <2>3. i = Full - 1 \/ i = Full
    BY <1>0
  <2> QED BY <2>1, <2>2, <2>3
<1>8. (\A i \in 1 .. n - 2 : i \in 1 .. Full - 2) /\ (\A i \in n - 1 .. Full - 2 : i \in 1 .. Full - 2)
  BY <1>0
<1>9. (\A i \in 1 .. n - 2 : Padded(s)[i] = s[i])
      /\ (\A i \in n - 1 .. Full - 2 : Padded(s)[i] = CodeMin)
  BY <1>5, <1>6, <1>8
<1>10. n - RsSize = n - 2 /\ n - RsSize + 1 = n - 1 /\ Full - RsSize = Full - 2
       /\ Full - RsSize + 1 = Full - 1
  BY <1>0
<1> QED BY <1>6, <1>7, <1>9, <1>10

LEMMA TrimIs ==
    ASSUME NEW o \in Outcome
    PROVE  /\ Trim(o).buf \in Seq(Int) /\ Len(Trim(o).buf) = Len(o.buf) - o.starts
           /\ \A i \in 1 .. Len(o.buf) - o.starts : Trim(o).buf[i] = o.buf[i]
           /\ Trim(o).marks \in Seq(Int) /\ Len(Trim(o).marks) = Len(o.marks) - o.starts
           /\ \A k \in 1 .. Len(o.marks) - o.starts : Trim(o).marks[k] = o.marks[k]
<1>1. /\ o \in [buf : Seq(Int), marks : Seq(Int), pre : Int, prepre : Int, realPre : Int, starts : Nat]
      /\ o.buf \in Seq(Int) /\ o.marks \in Seq(Int) /\ o.starts \in Nat
      /\ o.starts <= Len(o.buf) /\ o.starts <= Len(o.marks)
  BY DEF Outcome
<1>2. /\ Trim(o).buf = SubSeq(o.buf, 1, Len(o.buf) - o.starts)
      /\ Trim(o).marks = SubSeq(o.marks, 1, Len(o.marks) - o.starts)
  BY <1>1 DEF Trim
<1>3. Len(o.buf) - o.starts \in 0 .. Len(o.buf) /\ Len(o.marks) - o.starts \in 0 .. Len(o.marks)
  BY <1>1
<1>4. ASSUME NEW s \in Seq(Int), NEW n \in 0 .. Len(s)
      PROVE  SubSeq(s, 1, n) \in Seq(Int) /\ Len(SubSeq(s, 1, n)) = n
             /\ \A i \in 1 .. n : SubSeq(s, 1, n)[i] = s[i]
  <2>1. n \in Nat /\ 0 + n <= Len(s) /\ 0 + n = n /\ 0 + 1 = 1
    OBVIOUS
  <2>2. /\ SubSeq(s, 0 + 1, 0 + n) \in Seq(Int) /\ Len(SubSeq(s, 0 + 1, 0 + n)) = n
        /\ \A i \in 1 .. n : SubSeq(s, 0 + 1, 0 + n)[i] = s[0 + i]
    BY <2>1, Cut
  <2>3. \A i \in 1 .. n : 0 + i = i
    OBVIOUS
  <2> QED BY <2>1, <2>2, <2>3
<1>5. /\ Trim(o).buf \in Seq(Int) /\ Len(Trim(o).buf) = Len(o.buf) - o.starts
      /\ \A i \in 1 .. Len(o.buf) - o.starts : Trim(o).buf[i] = o.buf[i]
  BY <1>1, <1>2, <1>3, <1>4
<1>6. /\ Trim(o).marks \in Seq(Int) /\ Len(Trim(o).marks) = Len(o.marks) - o.starts
      /\ \A k \in 1 .. Len(o.marks) - o.starts : Trim(o).marks[k] = o.marks[k]
  BY <1>1, <1>2, <1>3, <1>4
<1> QED BY <1>5, <1>6

LEMMA WordType ==
    ASSUME NEW o \in Outcome, NEW last \in BOOLEAN, ~Refused(o, last)
    PROVE  Word(o, last).buf \in Seq(Int) /\ Len(Word(o, last).buf) = Full
<1>1. CASE last
  <2>1. Len(Trim(o).buf) > RsSize /\ Len(Trim(o).buf) <= Full /\ Len(Trim(o).buf) \in Nat
        /\ Trim(o).buf \in Seq(Int)
    <3>1. Len(o.buf) <= Full /\ o.starts \in Nat /\ o.buf \in Seq(Int)
      BY DEF Outcome
    <3>2. Len(Trim(o).buf) = Len(o.buf) - o.starts /\ Trim(o).buf \in Seq(Int)
      BY TrimIs
    <3>3. Len(Trim(o).buf) \in Nat
      BY <3>2
    <3>4. ~(Len(Trim(o).buf) <= RsSize)
      BY <1>1 DEF Refused
    <3> QED BY <3>1, <3>2, <3>3, <3>4, SizesAre
  <2>2. Len(Trim(o).buf) \in RsSize + 1 .. Full
    BY <2>1, SizesAre
  <2>3. Word(o, last).buf = Padded(Trim(o).buf)
    BY <1>1 DEF Word
  <2> QED BY <2>1, <2>2, <2>3, PaddedIs
<1>2. CASE ~last
  BY <1>2, FillIs DEF Word
<1> QED BY <1>1, <1>2

\* What the branches that got through block b go on with.
Left(blocks, sent, b, befores) ==
    {<<w.buf[Full - 1], w.buf[Full]>> :
        w \in UNION {Words(blocks[b], before, sent, b, b = Len(blocks)) : before \in befores}}

LEMMA WordsAre ==
    ASSUME NEW block \in Seq(Signal), NEW before \in Int \X Int, NEW sent, NEW b,
           NEW last \in BOOLEAN, Len(block) <= MaxBlockSignals
    PROVE  /\ \A w \in Words(block, before, sent, b, last) :
                w.buf[Full - 1] \in Int /\ w.buf[Full] \in Int
           /\ \A o \in Outcomes(block, before)[Len(block)] :
                (~Refused(o, last) /\ \E erased \in Erasures(Word(o, last).marks) :
                                          Recovers(Word(o, last), erased, sent, b))
                => Word(o, last) \in Words(block, before, sent, b, last)
<1>0. Len(block) \in Nat /\ MaxBlockSignals \in Nat
  BY SizesAre DEF MaxBlockSignals
<1>1. Looked(block) = Len(block)
  BY <1>0 DEF Looked
<1>2. Outcomes(block, before)[Len(block)] \subseteq Outcome
  <2>1. Len(block) \in 0 .. Len(block)
    BY <1>0
  <2> QED BY <2>1, OutcomesDef
<1>3. ASSUME NEW w \in Words(block, before, sent, b, last)
      PROVE  w.buf[Full - 1] \in Int /\ w.buf[Full] \in Int
  <2>1. PICK o \in Outcomes(block, before)[Looked(block)] : ~Refused(o, last) /\ w = Word(o, last)
    BY <1>3 DEF Words
  <2>2. w.buf \in Seq(Int) /\ Len(w.buf) = Full
    BY <2>1, <1>1, <1>2, WordType
  <2>3. Full - 1 \in 1 .. Full /\ Full \in 1 .. Full
    BY SizesAre
  <2> QED BY <2>2, <2>3, ElementOfSeq
<1>4. ASSUME NEW o \in Outcomes(block, before)[Len(block)], ~Refused(o, last),
             \E erased \in Erasures(Word(o, last).marks) : Recovers(Word(o, last), erased, sent, b)
      PROVE  Word(o, last) \in Words(block, before, sent, b, last)
  <2>1. o \in {p \in Outcomes(block, before)[Looked(block)] : ~Refused(p, last)}
    BY <1>1, <1>4
  <2>2. Word(o, last) \in {Word(s, last) : s \in {p \in Outcomes(block, before)[Looked(block)] :
                                                      ~Refused(p, last)}}
    BY <2>1
  <2> QED BY <1>4, <2>2 DEF Words
<1> QED BY <1>3, <1>4

LEMMA ThroughDef ==
    ASSUME NEW blocks \in Seq(Seq(Signal)), NEW sent,
           \A b \in 1 .. Len(blocks) : Len(blocks[b]) <= MaxBlockSignals
    PROVE  /\ Through(blocks, sent) \in [0 .. Len(blocks) -> SUBSET (Int \X Int)]
           /\ Through(blocks, sent)[0] = {<<0, 0>>}
           /\ \A b \in 1 .. Len(blocks) :
                Through(blocks, sent)[b] = Left(blocks, sent, b, Through(blocks, sent)[b - 1])
<1> DEFINE N == Len(blocks)
<1> DEFINE X == SUBSET (Int \X Int)
<1> DEFINE base == {<<0, 0>>}
<1> DEFINE step == [p \in (1 .. N) \X X |-> Left(blocks, sent, p[1], p[2])]
<1> DEFINE Does(f) == f = [b \in 0 .. N |-> IF b = 0 THEN base ELSE Left(blocks, sent, b, f[b - 1])]
<1>1. N \in Nat
  OBVIOUS
<1>2. base \in X
  OBVIOUS
<1>3. ASSUME NEW b \in 1 .. N, NEW befores \in X PROVE Left(blocks, sent, b, befores) \in X
  <2>1. blocks[b] \in Seq(Signal) /\ Len(blocks[b]) <= MaxBlockSignals
    BY ElementOfSeq
  <2>2. ASSUME NEW before \in befores,
               NEW w \in Words(blocks[b], before, sent, b, b = Len(blocks))
        PROVE  <<w.buf[Full - 1], w.buf[Full]>> \in Int \X Int
    <3>1. (b = Len(blocks)) \in BOOLEAN
      OBVIOUS
    <3>2. before \in Int \X Int
      OBVIOUS
    <3>3. w.buf[Full - 1] \in Int /\ w.buf[Full] \in Int
      <4> DEFINE last == b = Len(blocks)
      <4>1. last \in BOOLEAN
        OBVIOUS
      <4>2. w \in Words(blocks[b], before, sent, b, last)
        OBVIOUS
      <4> HIDE DEF last, N, X
      <4> QED BY <2>1, <3>2, <4>1, <4>2, WordsAre
    <3> QED BY <3>3
  <2> QED BY <2>2 DEF Left
<1>4. step \in [(1 .. N) \X X -> X]
  <2> HIDE DEF X, N
  <2> QED BY <1>3
<1>5. \A k \in 1 .. N : \A c \in X : step[<<k, c>>] = Left(blocks, sent, k, c)
  OBVIOUS
<1>6. PICK f \in [0 .. N -> X] : Recurs(f, N, base, step)
  <2>1. \E f \in [0 .. N -> X] : Recurs(f, N, base, step)
    <3> HIDE DEF N, X, base, step
    <3> QED BY <1>1, <1>2, <1>4, Recursion
  <2> HIDE DEF N, X, base, step
  <2> QED BY <2>1
<1>7. Does(f)
  <2> HIDE DEF base, step, X
  <2>1. \A b \in 0 .. N : b # 0 => b \in 1 .. N /\ b - 1 \in 0 .. N
    BY <1>1
  <2>2. \A b \in 0 .. N : b # 0 => step[<<b, f[b - 1]>>] = Left(blocks, sent, b, f[b - 1])
    BY <2>1, <1>5, <1>6
  <2>3. [b \in 0 .. N |-> IF b = 0 THEN base ELSE step[<<b, f[b - 1]>>]]
        = [b \in 0 .. N |-> IF b = 0 THEN base ELSE Left(blocks, sent, b, f[b - 1])]
    BY <2>2
  <2> QED BY <1>6, <2>3 DEF Recurs
<1> DEFINE R == Through(blocks, sent)
<1>8. Does(R)
  <2>1. R = CHOOSE g : Does(g)
    BY DEF Through, Left
  <2> HIDE DEF Does, R
  <2> QED BY <1>7, <2>1
<1>9. R[0] = base /\ R = [b \in 0 .. N |-> R[b]]
  <2> HIDE DEF R, base
  <2> QED BY <1>8, <1>1
<1>10. ASSUME NEW b \in 1 .. N PROVE R[b] = Left(blocks, sent, b, R[b - 1])
  <2> HIDE DEF R, base
  <2> QED BY <1>8, <1>1
<1>11. \A b \in 0 .. N : R[b] \in X
  <2> DEFINE S == {b \in 0 .. N : R[b] \in X}
  <2> HIDE DEF R, N, X, base
  <2>1. 0 \in S
    BY <1>1, <1>2, <1>9
  <2>2. ASSUME NEW b \in 0 .. N - 1, b \in S PROVE b + 1 \in S
    <3>1. b + 1 \in 1 .. N /\ b + 1 \in 0 .. N /\ (b + 1) - 1 = b
      BY <1>1
    <3>2. R[b + 1] = Left(blocks, sent, b + 1, R[b])
      BY <1>10, <3>1
    <3> QED BY <2>2, <3>1, <3>2, <1>3
  <2>3. \A b \in 0 .. N - 1 : b \in S => b + 1 \in S
    BY <2>2
  <2> HIDE DEF S
  <2>4. 0 .. N \subseteq S
    BY <1>1, <2>1, <2>3, Induction
  <2> QED BY <2>4 DEF S
<1>12. R \in [0 .. N -> X]
  <2> HIDE DEF R, N, X, base
  <2>1. [b \in 0 .. N |-> R[b]] \in [0 .. N -> X]
    BY <1>11
  <2> QED BY <1>9, <2>1
<1> HIDE DEF Does
<1> QED BY <1>9, <1>10, <1>12

-----------------------------------------------------------------------------
(* What the phone sends.                                                    *)

LEMMA CeilDivIs ==
    ASSUME NEW m \in Nat \ {0}, NEW s \in Nat \ {0}
    PROVE  /\ CeilDiv(m, s) \in Nat \ {0}
           /\ CeilDiv(m, s) * s - s < m /\ m <= CeilDiv(m, s) * s
           /\ \A b \in Nat : b < CeilDiv(m, s) => b * s < m
<1> DEFINE B == CeilDiv(m, s)
<1> DEFINE q == (m + s - 1) \div s
<1>1. q \in Nat /\ q * s <= m + s - 1 /\ m + s - 1 < q * s + s
  OBVIOUS
<1>2. B = q
  BY DEF CeilDiv
<1>3. q # 0
  <2>1. q = 0 => q * s = 0
    OBVIOUS
  <2> HIDE DEF q
  <2> QED BY <1>1, <2>1
<1>4. ASSUME NEW b \in Nat, b < q PROVE b * s <= q * s - s
  <2> HIDE DEF q
  <2>1. PICK c \in Nat : q = b + 1 + c
    <3>1. q - b - 1 \in Nat /\ q = b + 1 + (q - b - 1)
      BY <1>1, <1>4
    <3> QED BY <3>1
  <2>2. q * s = b * s + s + c * s
    BY <2>1
  <2>3. c * s >= 0
    OBVIOUS
  <2>4. b * s \in Int /\ q * s \in Int /\ c * s \in Int
    BY <1>1
  <2> QED BY <2>2, <2>3, <2>4
<1>5. \A b \in Nat : b * s \in Nat
  OBVIOUS
<1> HIDE DEF q
<1>6. q * s \in Nat
  BY <1>1
<1>7. ASSUME NEW b \in Nat, b < q PROVE b * s < m
  <2>1. b * s <= q * s - s /\ b * s \in Nat
    BY <1>4, <1>5, <1>7
  <2> QED BY <2>1, <1>1, <1>6
<1> QED BY <1>1, <1>2, <1>3, <1>6, <1>7

\* A message that fits, with its check sum, and its blocks.
Told(message) ==
    /\ message \in Seq(Nibble) /\ Len(message) \in 1 .. MaxChars
    /\ CheckSum(message) \in [1 .. CheckLen -> Nibble]
    /\ LET chunks == Chunks(message \o CheckSum(message))
       IN  \A b \in DOMAIN chunks : Parity(chunks[b]) \in [1 .. RsSize -> Nibble]

\* The blocks that are sent, all but the last of full length.
Sent(sent) ==
    /\ sent \in Seq(Seq(Nibble)) /\ Len(sent) \in Nat \ {0}
    /\ \A b \in 1 .. Len(sent) : /\ Len(sent[b]) \in RsSize + 1 .. Full
                                 /\ b < Len(sent) => Len(sent[b]) = Full
    /\ Len(sent) = 1 => Len(sent[1]) >= CheckLen + RsSize + 1

LEMMA FunctionIsSeq ==
    ASSUME NEW T, NEW n \in Nat, NEW f \in [1 .. n -> T]
    PROVE  f \in Seq(T) /\ Len(f) = n
OBVIOUS

LEMMA SentIs ==
    ASSUME NEW message, Told(message)
    PROVE  Sent(SentBlocks(message))
<1> DEFINE M == message \o CheckSum(message)
<1> DEFINE m == Len(M)
<1> DEFINE B == CeilDiv(m, BlockSize)
<1> DEFINE chunks == Chunks(M)
<1> DEFINE sent == SentBlocks(message)
<1>0. BlockSize \in Nat \ {0} /\ RsSize = 2 /\ CheckLen = 4 /\ Full = BlockSize + 2 /\ BlockSize >= 3
  BY SizesAre DEF CheckLen
<1>1. M \in Seq(Nibble) /\ m \in Nat \ {0} /\ m >= 5
  <2>1. message \in Seq(Nibble) /\ Len(message) \in Nat /\ Len(message) >= 1
    BY DEF Told
  <2>2. CheckSum(message) \in Seq(Nibble) /\ Len(CheckSum(message)) = 4
    <3>1. CheckSum(message) \in [1 .. 4 -> Nibble]
      BY <1>0 DEF Told
    <3> QED BY <3>1, FunctionIsSeq
  <2>3. M \in Seq(Nibble) /\ m = Len(message) + Len(CheckSum(message))
    BY <2>1, <2>2, Joined
  <2> QED BY <2>1, <2>2, <2>3
<1>2. /\ B \in Nat \ {0} /\ B * BlockSize - BlockSize < m /\ m <= B * BlockSize
      /\ \A b \in Nat : b < B => b * BlockSize < m
  <2> HIDE DEF M, m
  <2> QED BY <1>0, <1>1, CeilDivIs
<1>3. chunks = [b \in 1 .. B |-> SubSeq(M, (b - 1) * BlockSize + 1, Least(b * BlockSize, m))]
  BY DEF Chunks
<1>4. DOMAIN chunks = 1 .. B /\ sent = [b \in 1 .. B |-> chunks[b] \o Parity(chunks[b])]
  BY <1>3 DEF SentBlocks
<1>5. ASSUME NEW b \in 1 .. B
      PROVE  /\ chunks[b] \in Seq(Nibble)
             /\ Len(chunks[b]) \in 1 .. BlockSize
             /\ b < B => Len(chunks[b]) = BlockSize
             /\ B = 1 => Len(chunks[b]) = m
  <2> DEFINE from == (b - 1) * BlockSize
  <2> DEFINE to == Least(b * BlockSize, m)
  <2>1. chunks[b] = SubSeq(M, from + 1, to)
    BY <1>3
  <2>2. b - 1 \in Nat /\ b - 1 < B /\ b \in Nat
    BY <1>2
  <2>3. from \in Nat /\ b * BlockSize = from + BlockSize
    BY <2>2, <1>0
  <2>4. from < m /\ (b < B => b * BlockSize < m)
    BY <1>2, <2>2
  <2>5. B = 1 => from = 0
    BY <1>0
  <2> DEFINE k == to - from
  <2>6. k \in 1 .. BlockSize /\ (b < B => k = BlockSize) /\ (B = 1 => k = m) /\ to = from + k /\ to <= m
    <3>1. CASE b < B
      <4>1. to = from + BlockSize
        BY <3>1, <2>3, <2>4, <1>1 DEF Least
      <4> HIDE DEF from, M, m, B
      <4> QED BY <3>1, <4>1, <2>3, <2>4, <1>0, <1>1, <1>2
    <3>2. CASE b = B
      <4>1. to = IF b * BlockSize < m THEN b * BlockSize ELSE m
        BY DEF Least
      <4>2. m <= b * BlockSize
        BY <3>2, <1>2
      <4>3. to = m
        <5> HIDE DEF M, m, B
        <5> QED BY <4>1, <4>2, <2>3, <1>0, <1>1
      <4> HIDE DEF from, to, M, m, B
      <4> QED BY <3>2, <4>2, <4>3, <2>3, <2>4, <2>5, <1>0, <1>1, <1>2
    <3>3. b < B \/ b = B
      BY <1>2
    <3> QED BY <3>1, <3>2, <3>3
  <2>7. /\ SubSeq(M, from + 1, from + k) \in Seq(Nibble) /\ Len(SubSeq(M, from + 1, from + k)) = k
    <3> HIDE DEF from, to, k, M
    <3>1. k \in Nat /\ from \in Nat /\ from + k <= Len(M) /\ M \in Seq(Nibble)
      BY <2>3, <2>6, <1>0, <1>1
    <3> QED BY ONLY <3>1, Cut
  <2> HIDE DEF from, to, k, M, m, B, chunks
  <2> QED BY <2>1, <2>6, <2>7
<1>6. ASSUME NEW b \in 1 .. B
      PROVE  sent[b] \in Seq(Nibble) /\ Len(sent[b]) = Len(chunks[b]) + 2
  <2>1. Parity(chunks[b]) \in [1 .. 2 -> Nibble]
    BY <1>0, <1>4 DEF Told
  <2>2. Parity(chunks[b]) \in Seq(Nibble) /\ Len(Parity(chunks[b])) = 2
    <3> HIDE DEF chunks
    <3> QED BY <2>1, FunctionIsSeq
  <2>3. sent[b] = chunks[b] \o Parity(chunks[b])
    BY <1>4
  <2> HIDE DEF chunks, sent, B
  <2>4. chunks[b] \in Seq(Nibble)
    BY <1>5
  <2>5. /\ chunks[b] \o Parity(chunks[b]) \in Seq(Nibble)
        /\ Len(chunks[b] \o Parity(chunks[b])) = Len(chunks[b]) + Len(Parity(chunks[b]))
    <3>1. ASSUME NEW s \in Seq(Nibble), NEW t \in Seq(Nibble)
          PROVE  s \o t \in Seq(Nibble) /\ Len(s \o t) = Len(s) + Len(t)
      BY ONLY s \in Seq(Nibble), t \in Seq(Nibble), Joined
    <3> QED BY <2>2, <2>4, <3>1
  <2> QED BY <2>2, <2>3, <2>5
<1>7. sent \in Seq(Seq(Nibble)) /\ Len(sent) = B
  <2>1. sent = [b \in 1 .. B |-> sent[b]]
    BY <1>4
  <2> HIDE DEF sent, B
  <2>2. sent \in [1 .. B -> Seq(Nibble)]
    BY <2>1, <1>6
  <2> QED BY <2>2, <1>2
<1>8. ASSUME NEW b \in 1 .. B
      PROVE  /\ Len(sent[b]) \in RsSize + 1 .. Full
             /\ b < B => Len(sent[b]) = Full
             /\ B = 1 => Len(sent[b]) >= CheckLen + RsSize + 1
  <2> HIDE DEF sent, B, chunks, m, M
  <2> QED BY <1>0, <1>1, <1>5, <1>6
<1>9. B = 1 => 1 \in 1 .. B
  OBVIOUS
<1> HIDE DEF sent, B
<1>10. Sent(sent)
  BY <1>2, <1>7, <1>8, <1>9 DEF Sent
<1> QED BY <1>10 DEF sent

\* The symbol before a block.
LastOf(sent, b) == IF b = 1 THEN -1 ELSE sent[b - 1][Len(sent[b - 1])]

\* The tokens that tell the blocks.
Rendered(song, sent) ==
    /\ song \in Seq(Seq(Alphabet)) /\ Len(song) = Len(sent)
    /\ \A b \in 1 .. Len(sent) :
         /\ Len(song[b]) = Len(sent[b]) + 1 /\ song[b][1] = Start
         /\ \A i \in 1 .. Len(sent[b]) :
              song[b][i + 1] = Sung(sent[b], LastOf(sent, b), i, song[b][i])

LEMMA LastOfType ==
    ASSUME NEW sent, Sent(sent), NEW b \in 1 .. Len(sent)
    PROVE  LastOf(sent, b) \in Int /\ (b > 1 => LastOf(sent, b) \in Nibble)
<1>1. CASE b = 1
  BY <1>1 DEF LastOf
<1>2. CASE b # 1
  <2>1. b - 1 \in 1 .. Len(sent) /\ sent \in Seq(Seq(Nibble))
    BY <1>2 DEF Sent
  <2>2. sent[b - 1] \in Seq(Nibble) /\ Len(sent[b - 1]) \in RsSize + 1 .. Full
    BY <2>1 DEF Sent
  <2>3. Len(sent[b - 1]) \in 1 .. Len(sent[b - 1])
    BY <2>2, SizesAre
  <2>4. sent[b - 1][Len(sent[b - 1])] \in Nibble
    BY <2>2, <2>3, ElementOfSeq
  <2>5. LastOf(sent, b) \in Nibble
    BY <2>4, <1>2 DEF LastOf
  <2> QED BY <2>5 DEF Nibble
<1> QED BY <1>1, <1>2

LEMMA SongIs ==
    ASSUME NEW message, Sent(SentBlocks(message))
    PROVE  Rendered(Song(message), SentBlocks(message))
<1> DEFINE sent == SentBlocks(message)
<1> DEFINE song == Song(message)
<1>1. sent \in Seq(Seq(Nibble)) /\ Len(sent) \in Nat /\ DOMAIN sent = 1 .. Len(sent)
  BY DEF Sent
<1>2. song = [b \in DOMAIN sent |-> Tokens(sent[b], IF b = 1 THEN -1 ELSE sent[b - 1][Len(sent[b - 1])])]
  BY DEF Song
<1> HIDE DEF sent, song
<1>3. ASSUME NEW b \in 1 .. Len(sent)
      PROVE  song[b] = Tokens(sent[b], LastOf(sent, b))
  BY <1>1, <1>2 DEF LastOf
<1>4. ASSUME NEW b \in 1 .. Len(sent)
      PROVE  /\ song[b] \in Seq(Alphabet)
             /\ Len(song[b]) = Len(sent[b]) + 1 /\ song[b][1] = Start
             /\ \A i \in 1 .. Len(sent[b]) :
                  song[b][i + 1] = Sung(sent[b], LastOf(sent, b), i, song[b][i])
  <2>1. sent[b] \in Seq(Nibble)
    BY <1>1
  <2>2. LastOf(sent, b) \in Int
    BY LastOfType DEF sent
  <2> DEFINE pre == LastOf(sent, b)
  <2> DEFINE block == sent[b]
  <2>3. block \in Seq(Nibble) /\ pre \in Int /\ song[b] = Tokens(block, pre)
    BY <2>1, <2>2, <1>3
  <2> HIDE DEF pre, block
  <2>4. /\ Tokens(block, pre) \in Seq(Alphabet)
        /\ Len(Tokens(block, pre)) = Len(block) + 1
        /\ Tokens(block, pre)[1] = Start
        /\ \A i \in 1 .. Len(block) :
             Tokens(block, pre)[i + 1] = Sung(block, pre, i, Tokens(block, pre)[i])
    BY <2>3, TokensDef
  <2> QED BY <2>3, <2>4 DEF pre, block
<1>5. song \in Seq(Seq(Alphabet)) /\ Len(song) = Len(sent)
  <2>1. song = [b \in 1 .. Len(sent) |-> song[b]]
    BY <1>1, <1>2
  <2>2. song \in [1 .. Len(sent) -> Seq(Alphabet)]
    BY <2>1, <1>4
  <2> QED BY <2>2, <1>1, FunctionIsSeq
<1>6. Rendered(song, sent)
  BY <1>4, <1>5 DEF Rendered
<1> QED BY <1>6 DEF song, sent

\* What each token says of its symbol.
LEMMA TokenIs ==
    ASSUME NEW song, NEW sent, Sent(sent), Rendered(song, sent),
           NEW b \in 1 .. Len(sent), NEW i \in 1 .. Len(sent[b])
    PROVE  /\ sent[b][i] \in Nibble
           /\ song[b][i + 1] \in Alphabet \ {Start}
           /\ song[b][i + 1] \notin {Overlap, Overlap2} => song[b][i + 1] = sent[b][i] + 1
           /\ song[b][i + 1] = Overlap /\ i = 1 => b > 1 /\ sent[b][1] = LastOf(sent, b)
           /\ song[b][i + 1] = Overlap /\ i > 1 => sent[b][i] = sent[b][i - 1]
           /\ song[b][i + 1] = Overlap2 =>
                /\ i > 1 /\ sent[b][i] = sent[b][i - 1] /\ song[b][i] = Overlap
<1>1. sent[b] \in Seq(Nibble)
  BY DEF Sent
<1>2. sent[b][i] \in Nibble
  BY <1>1, ElementOfSeq
<1>3. song[b][i + 1] = Sung(sent[b], LastOf(sent, b), i, song[b][i])
  BY DEF Rendered
<1>4. b = 1 => LastOf(sent, b) = -1
  BY DEF LastOf
<1>5. b = 1 \/ b > 1
  BY DEF Sent
<1>6. i = 1 \/ i > 1
  BY <1>1
<1> DEFINE x == sent[b][i]
<1> DEFINE pre == LastOf(sent, b)
<1> DEFINE last == song[b][i]
<1> DEFINE y == sent[b][i - 1]
<1>7. Sung(sent[b], pre, i, last) =
        IF x # (IF i = 1 THEN pre ELSE y) THEN x + 1
        ELSE IF i > 1 /\ last = Overlap THEN Overlap2 ELSE Overlap
  BY DEF Sung
<1> DEFINE t == song[b][i + 1]
<1>8. /\ t \in Alphabet \ {Start}
      /\ t \notin {Overlap, Overlap2} => t = x + 1
      /\ t = Overlap /\ i = 1 => b > 1 /\ x = pre
      /\ t = Overlap /\ i > 1 => x = y
      /\ t = Overlap2 => i > 1 /\ x = y /\ last = Overlap
  <2>1. t = IF x # (IF i = 1 THEN pre ELSE y) THEN x + 1
            ELSE IF i > 1 /\ last = Overlap THEN Overlap2 ELSE Overlap
    BY <1>3, <1>7
  <2>2. x \in 0 .. 15
    BY <1>2 DEF Nibble
  <2>3. b = 1 => pre = -1
    BY <1>4
  <2>4. i \in Int /\ b \in Int
    BY <1>1 DEF Sent
  <2> HIDE DEF t, x, pre, last, y
  <2> QED BY <2>1, <2>2, <2>3, <2>4, <1>5, <1>6
          DEF Alphabet, Start, Overlap, Overlap2
<1> QED BY <1>2, <1>8

-----------------------------------------------------------------------------
(* One signal of a block.                                                   *)

\* A symbol is heard.
LEMMA TakesSymbol ==
    ASSUME NEW o \in Outcome, NEW token \in Alphabet, NEW suspect \in BOOLEAN,
           Len(o.buf) < Full, token = Start => o.buf # <<>>
    PROVE  LET p == Take(o, token, suspect)
               n == Len(o.buf)
           IN  /\ Len(p.buf) = n + 1
               /\ \A i \in 1 .. n : p.buf[i] = o.buf[i]
               /\ Symbol(o, token) >= 0 => p.buf[n + 1] = Symbol(o, token)
               /\ Len(p.marks) >= Len(o.marks)
               /\ \A k \in 1 .. Len(o.marks) : p.marks[k] = o.marks[k]
               /\ suspect \/ token = Start =>
                    Len(p.marks) = Len(o.marks) + 1 /\ p.marks[Len(o.marks) + 1] = n + 1
               /\ p.pre = p.buf[n + 1] /\ p.prepre = o.pre /\ p.realPre = token
               /\ p.starts = IF token = Start THEN o.starts + 1 ELSE 0
<1> DEFINE symbol == Symbol(o, token)
<1> DEFINE clean == IF symbol < CodeMin THEN CodeMin ELSE symbol
<1> DEFINE marks == IF symbol < CodeMin \/ suspect THEN Append(o.marks, Len(o.buf) + 1) ELSE o.marks
<1> DEFINE starts == IF token = Start THEN o.starts + 1 ELSE 0
<1>1. /\ o.buf \in Seq(Int) /\ o.marks \in Seq(Int) /\ o.pre \in Int /\ o.prepre \in Int
      /\ o.realPre \in Int /\ o.starts \in Nat
  BY DEF Outcome
<1>2. symbol \in Int /\ clean \in Int /\ (symbol >= 0 => clean = symbol)
  <2>1. token \in Int
    BY DEF Alphabet
  <2>2. symbol \in Int
    BY <1>1, <2>1 DEF Symbol
  <2> HIDE DEF symbol
  <2> QED BY <2>2 DEF CodeMin
<1>3. token = Start => symbol < CodeMin
  BY DEF Symbol, CodeMin, Start, Overlap, Overlap2
<1>4. Take(o, token, suspect) =
          [buf |-> Append(o.buf, clean), marks |-> marks, pre |-> clean, prepre |-> o.pre,
           realPre |-> token, starts |-> starts]
  BY <1>1, SizesAre DEF Take
<1>5. /\ Len(Append(o.buf, clean)) = Len(o.buf) + 1
      /\ Append(o.buf, clean)[Len(o.buf) + 1] = clean
      /\ \A i \in 1 .. Len(o.buf) : Append(o.buf, clean)[i] = o.buf[i]
  BY <1>1, <1>2, AppendProperties
<1>6. /\ Len(marks) >= Len(o.marks)
      /\ \A k \in 1 .. Len(o.marks) : marks[k] = o.marks[k]
      /\ suspect \/ token = Start =>
           Len(marks) = Len(o.marks) + 1 /\ marks[Len(o.marks) + 1] = Len(o.buf) + 1
  <2>1. Len(o.buf) + 1 \in Int /\ Len(o.marks) \in Nat
    BY <1>1
  <2>2. /\ Len(Append(o.marks, Len(o.buf) + 1)) = Len(o.marks) + 1
        /\ Append(o.marks, Len(o.buf) + 1)[Len(o.marks) + 1] = Len(o.buf) + 1
        /\ \A k \in 1 .. Len(o.marks) : Append(o.marks, Len(o.buf) + 1)[k] = o.marks[k]
    BY <1>1, <2>1, AppendProperties
  <2>3. CASE symbol < CodeMin \/ suspect
    <3>1. marks = Append(o.marks, Len(o.buf) + 1)
      BY <2>3
    <3> HIDE DEF marks, symbol
    <3> QED BY <2>1, <2>2, <3>1
  <2>4. CASE ~(symbol < CodeMin \/ suspect)
    <3>1. marks = o.marks /\ ~suspect /\ token # Start
      BY <2>4, <1>3
    <3> HIDE DEF marks, symbol
    <3> QED BY <2>1, <3>1
  <2> QED BY <2>3, <2>4
<1> DEFINE p == Take(o, token, suspect)
<1>7. /\ p.buf = Append(o.buf, clean) /\ p.marks = marks /\ p.pre = clean /\ p.prepre = o.pre
      /\ p.realPre = token /\ p.starts = starts
  <2> HIDE DEF clean, marks, starts
  <2> QED BY <1>4
<1> HIDE DEF p, clean, marks, symbol
<1>8. /\ Len(p.buf) = Len(o.buf) + 1
      /\ \A i \in 1 .. Len(o.buf) : p.buf[i] = o.buf[i]
      /\ symbol >= 0 => p.buf[Len(o.buf) + 1] = symbol
      /\ p.pre = p.buf[Len(o.buf) + 1]
  BY <1>2, <1>5, <1>7
<1>9. /\ Len(p.marks) >= Len(o.marks)
      /\ \A k \in 1 .. Len(o.marks) : p.marks[k] = o.marks[k]
      /\ suspect \/ token = Start =>
           Len(p.marks) = Len(o.marks) + 1 /\ p.marks[Len(o.marks) + 1] = Len(o.buf) + 1
  BY <1>6, <1>7
<1> QED BY <1>7, <1>8, <1>9 DEF p, symbol

\* The token that was sent stands for the symbol that was sent, where nothing
\* it leans on was hurt.
LEMMA SymbolIs ==
    ASSUME NEW song, NEW sent, Sent(sent), Rendered(song, sent),
           NEW b \in 1 .. Len(sent), NEW dam, Unleant(song, dam, b),
           NEW before \in Int \X Int, Carries(before, b, song, sent),
           NEW a \in 1 .. Len(sent[b]), NEW o \in Outcome,
           Follows(o, b, a, song, dam, before, sent)
    PROVE  Symbol(o, song[b][a + 1]) = sent[b][a]
<1> DEFINE t == song[b][a + 1]
<1> DEFINE x == sent[b][a]
<1>0. /\ Len(sent[b]) \in Nat /\ Len(song[b]) = Len(sent[b]) + 1 /\ a \in Nat
      /\ Len(sent[b]) \in RsSize + 1 .. Full
  <2>1. Len(sent[b]) \in RsSize + 1 .. Full
    BY DEF Sent
  <2>2. Len(song[b]) = Len(sent[b]) + 1
    BY DEF Rendered
  <2>3. Len(sent[b]) \in Nat
    BY <2>1, SizesAre
  <2> QED BY <2>1, <2>2, <2>3
<1>1. a < Len(song[b])
  BY <1>0
<1>2. /\ x \in Nibble
      /\ t \in Alphabet \ {Start}
      /\ t \notin {Overlap, Overlap2} => t = x + 1
      /\ t = Overlap /\ a = 1 => b > 1 /\ sent[b][1] = LastOf(sent, b)
      /\ t = Overlap /\ a > 1 => x = sent[b][a - 1]
      /\ t = Overlap2 => a > 1 /\ x = sent[b][a - 1] /\ song[b][a] = Overlap
  BY TokenIs
<1>3. ASSUME NEW i \in 1 .. Len(sent[b]) - 1, i \in Hurt(dam, b)
      PROVE  song[b][i + 2] \notin {Overlap, Overlap2}
  <2>1. PICK d \in dam : d.block = b /\ d.pos = i
    BY <1>3 DEF Hurt
  <2>2. Following(song, b, i) \notin {Overlap, Overlap2}
    BY <2>1 DEF Unleant
  <2>3. i + 1 < Len(song[b])
    BY <1>0
  <2> QED BY <2>2, <2>3 DEF Following
<1>4. CASE t \notin {Overlap, Overlap2}
  <2>1. Symbol(o, t) = t - 1
    BY <1>4 DEF Symbol
  <2>2. x \in Int
    BY <1>2 DEF Nibble
  <2> HIDE DEF t, x
  <2>3. Symbol(o, t) = x
    BY <2>1, <2>2, <1>2, <1>4
  <2> QED BY <2>3 DEF t, x
<1>5. CASE a = 1 /\ t = Overlap
  <2>1. o.pre = before[2] /\ o.realPre = 0
    BY <1>5 DEF Follows, Fresh
  <2>2. b > 1 /\ x = LastOf(sent, b)
    BY <1>2, <1>5
  <2>3. song[b][2] = Overlap
    BY <1>5
  <2>4. before[2] = sent[b - 1][Len(sent[b - 1])]
    BY <2>2, <2>3 DEF Carries
  <2>5. before[2] = x
    BY <2>2, <2>4 DEF LastOf
  <2>6. Symbol(o, t) = o.pre
    BY <2>1, <1>5 DEF Symbol, Overlap, Overlap2
  <2> QED BY <2>1, <2>5, <2>6
<1>6. CASE a > 1 /\ t \in {Overlap, Overlap2}
  <2>1. /\ Len(o.buf) = a - 1 /\ Right(o, b, a, dam, sent) /\ Chained(o, b, song, dam, before)
    BY <1>0, <1>1, <1>6 DEF Follows, Lengths
  <2>2. a - 1 \notin Hurt(dam, b)
    <3>1. a - 1 \in 1 .. Len(sent[b]) - 1 /\ (a - 1) + 2 = a + 1
      BY <1>0, <1>6
    <3>2. a - 1 \in Hurt(dam, b) => song[b][(a - 1) + 2] \notin {Overlap, Overlap2}
      BY <1>3, <3>1
    <3> QED BY <3>1, <3>2, <1>6
  <2>3. o.buf[a - 1] = sent[b][a - 1]
    BY <2>1, <2>2, <1>0, <1>6 DEF Right
  <2>4. /\ o.pre = o.buf[a - 1] /\ o.realPre = song[b][a]
        /\ o.prepre = IF a - 1 >= 2 THEN o.buf[a - 2] ELSE before[2]
    <3>1. (a - 1) + 1 = a /\ (a - 1) - 1 = a - 2
      BY <1>0
    <3> QED BY <2>1, <2>2, <3>1 DEF Chained
  <2>5. x = sent[b][a - 1]
    BY <1>2, <1>6
  \* When the token before leans itself, the symbol is that of the one before it.
  <2>6. ASSUME song[b][a] \in {Overlap, Overlap2}, t = Overlap => song[b][a] = Overlap2
        PROVE  o.prepre = x
    <3>1. a - 1 \in 1 .. Len(sent[b]) /\ (a - 1) + 1 = a /\ (a - 1) - 1 = a - 2
      BY <1>0, <1>6
    <3>2. /\ song[b][a] = Overlap /\ a - 1 = 1 => b > 1 /\ sent[b][1] = LastOf(sent, b)
          /\ song[b][a] = Overlap /\ a - 1 > 1 => sent[b][a - 1] = sent[b][a - 2]
          /\ song[b][a] = Overlap2 => a - 1 > 1 /\ sent[b][a - 1] = sent[b][a - 2]
      <4>1. ASSUME NEW i \in 1 .. Len(sent[b])
            PROVE  /\ song[b][i + 1] = Overlap /\ i = 1 => b > 1 /\ sent[b][1] = LastOf(sent, b)
                   /\ song[b][i + 1] = Overlap /\ i > 1 => sent[b][i] = sent[b][i - 1]
                   /\ song[b][i + 1] = Overlap2 => i > 1 /\ sent[b][i] = sent[b][i - 1]
        BY TokenIs
      <4>2. /\ song[b][(a - 1) + 1] = Overlap /\ a - 1 = 1 => b > 1 /\ sent[b][1] = LastOf(sent, b)
            /\ song[b][(a - 1) + 1] = Overlap /\ a - 1 > 1 => sent[b][a - 1] = sent[b][(a - 1) - 1]
            /\ song[b][(a - 1) + 1] = Overlap2 => a - 1 > 1 /\ sent[b][a - 1] = sent[b][(a - 1) - 1]
        BY <3>1, <4>1
      <4> QED BY <3>1, <4>2
    <3>3. CASE a = 2
      <4>1. song[b][2] = Overlap /\ b > 1 /\ sent[b][1] = LastOf(sent, b)
        BY <3>2, <3>3, <2>6
      <4>2. before[2] = LastOf(sent, b)
        BY <4>1 DEF Carries, LastOf
      <4>3. a - 1 = 1 /\ ~(a - 1 >= 2)
        BY <3>3
      <4> QED BY <2>4, <2>5, <4>1, <4>2, <4>3
    <3>4. CASE a > 2
      <4>1. sent[b][a - 1] = sent[b][a - 2]
        <5>1. a - 1 > 1
          BY <3>4, <1>0
        <5> QED BY <3>2, <5>1, <2>6
      <4>2. a - 2 \in 1 .. Len(sent[b]) - 1 /\ (a - 2) + 2 = a
        BY <3>4, <1>0
      <4>3. a - 2 \notin Hurt(dam, b)
        <5>1. a - 2 \in Hurt(dam, b) => song[b][(a - 2) + 2] \notin {Overlap, Overlap2}
          BY <1>3, <4>2
        <5> QED BY <5>1, <4>2, <2>6
      <4>4. o.buf[a - 2] = sent[b][a - 2]
        <5>1. a - 2 \in 1 .. Len(o.buf) /\ a - 2 <= a - 1
          BY <2>1, <4>2, <1>0
        <5> QED BY <2>1, <4>3, <5>1 DEF Right
      <4>5. o.prepre = o.buf[a - 2]
        BY <2>4, <3>4, <1>0
      <4> QED BY <4>1, <4>4, <4>5, <2>5
    <3> QED BY <3>3, <3>4, <1>6, <1>0
  <2>7. CASE t = Overlap /\ song[b][a] = Overlap2
    <3>1. o.prepre = x
      BY <2>6, <2>7
    <3>2. Symbol(o, t) = o.prepre
      BY <2>4, <2>7 DEF Symbol
    <3> QED BY <3>1, <3>2
  <2>8. CASE t = Overlap /\ song[b][a] # Overlap2
    <3>1. Symbol(o, t) = o.pre
      BY <2>4, <2>8 DEF Symbol, Overlap, Overlap2
    <3> QED BY <3>1, <2>3, <2>4, <2>5
  <2>9. CASE t = Overlap2
    <3>1. song[b][a] = Overlap
      BY <1>2, <2>9
    <3>2. o.prepre = x
      BY <2>6, <2>9, <3>1 DEF Overlap, Overlap2
    <3>3. Symbol(o, t) = o.prepre
      BY <2>9 DEF Symbol, Overlap, Overlap2
    <3> QED BY <3>2, <3>3
  <2> QED BY <1>6, <2>7, <2>8, <2>9
<1>7. t = Overlap2 => a > 1
  BY <1>2
<1>8. a = 1 \/ a > 1
  BY <1>0
<1> QED BY <1>4, <1>5, <1>6, <1>7, <1>8

\* The tone of a symbol passes.
LEMMA StepSymbol ==
    ASSUME NEW song, NEW sent, Sent(sent), Rendered(song, sent),
           NEW b \in 1 .. Len(sent), NEW dam, NEW dam2, Unleant(song, dam2, b),
           NEW before \in Int \X Int, Carries(before, b, song, sent),
           NEW a \in 1 .. Len(sent[b]), NEW o \in Outcome,
           Follows(o, b, a, song, dam, before, sent),
           NEW token \in Alphabet, NEW suspect \in BOOLEAN,
           dam \subseteq dam2,
           \A d \in dam : d.block = b => d.pos \in 1 .. a - 1,
           \A d \in dam2 \ dam : d.block = b =>
               d.pos = a /\ d.token = token /\ (d.marked => suspect \/ token = Start),
           a \in Hurt(dam2, b) \/ token = song[b][a + 1]
    PROVE  Follows(Take(o, token, suspect), b, a + 1, song, dam2, before, sent)
<1> DEFINE p == Take(o, token, suspect)
<1> DEFINE n == a - 1
<1>0. /\ Len(sent[b]) \in Nat /\ Len(song[b]) = Len(sent[b]) + 1 /\ a \in Nat
      /\ Len(sent[b]) \in RsSize + 1 .. Full /\ RsSize = 2 /\ Full \in Nat
      /\ n \in Nat /\ n + 1 = a
  <2>1. /\ Len(sent[b]) \in Nat /\ Len(song[b]) = Len(sent[b]) + 1
        /\ Len(sent[b]) \in RsSize + 1 .. Full /\ RsSize = 2 /\ Full \in Nat
    BY SizesAre DEF Sent, Rendered
  <2> QED BY <2>1
<1>a. Len(song) = Len(sent) /\ Len(sent) \in Nat
  BY DEF Sent, Rendered
<1>1. /\ o.buf \in Seq(Int) /\ o.marks \in Seq(Int) /\ Len(o.buf) = n
  <2>1. o.buf \in Seq(Int) /\ o.marks \in Seq(Int)
    BY DEF Outcome
  <2>2. CASE a = 1
    <3>1. o.buf = <<>>
      BY <2>2 DEF Follows, Fresh
    <3> QED BY <3>1, <2>1, <2>2
  <2>3. CASE a > 1
    BY <2>1, <2>3, <1>0 DEF Follows, Lengths
  <2> QED BY <2>2, <2>3, <1>0
<1>2. Hurt(dam, b) \subseteq Hurt(dam2, b) /\ Unleant(song, dam, b)
  BY DEF Hurt, Unleant
<1>3. ASSUME token = Start
      PROVE  n >= 1 /\ ~(b = Len(song) /\ a = Len(song[b]) - 1)
  <2>1. song[b][a + 1] # Start
    BY TokenIs
  <2>2. PICK d \in dam2 : d.block = b /\ d.pos = a
    BY <2>1, <1>3 DEF Hurt
  <2>3. d \in dam2 \ dam
    BY <2>2, <1>0
  <2>4. d.token = Start
    BY <2>2, <2>3, <1>3
  <2>5. ~(d.pos = 1 \/ (b = Len(song) /\ d.pos = Len(song[b]) - 1))
    BY <2>2, <2>4 DEF Unleant
  <2> QED BY <2>2, <2>5, <1>0
<1>4. Len(o.buf) < Full /\ (token = Start => o.buf # <<>>)
  <2>1. n < Full
    BY <1>0
  <2>2. o.buf = <<>> => Len(o.buf) = 0
    OBVIOUS
  <2> QED BY <2>1, <2>2, <1>1, <1>3
<1>5. /\ Len(p.buf) = n + 1
      /\ \A i \in 1 .. n : p.buf[i] = o.buf[i]
      /\ Symbol(o, token) >= 0 => p.buf[n + 1] = Symbol(o, token)
      /\ Len(p.marks) >= Len(o.marks)
      /\ \A k \in 1 .. Len(o.marks) : p.marks[k] = o.marks[k]
      /\ suspect \/ token = Start =>
           Len(p.marks) = Len(o.marks) + 1 /\ p.marks[Len(o.marks) + 1] = n + 1
      /\ p.pre = p.buf[n + 1] /\ p.prepre = o.pre /\ p.realPre = token
      /\ p.starts = IF token = Start THEN o.starts + 1 ELSE 0
  <2> DEFINE l == Len(o.buf)
  <2>1. /\ Len(p.buf) = l + 1
        /\ \A i \in 1 .. l : p.buf[i] = o.buf[i]
        /\ Symbol(o, token) >= 0 => p.buf[l + 1] = Symbol(o, token)
        /\ Len(p.marks) >= Len(o.marks)
        /\ \A k \in 1 .. Len(o.marks) : p.marks[k] = o.marks[k]
        /\ suspect \/ token = Start =>
             Len(p.marks) = Len(o.marks) + 1 /\ p.marks[Len(o.marks) + 1] = l + 1
        /\ p.pre = p.buf[l + 1] /\ p.prepre = o.pre /\ p.realPre = token
        /\ p.starts = IF token = Start THEN o.starts + 1 ELSE 0
    BY <1>4, TakesSymbol
  <2>2. l = n
    BY <1>1
  <2> HIDE DEF p, n, l
  <2> QED BY <2>1, <2>2
<1>b. p.marks \in Seq(Int) /\ Len(p.marks) \in Nat /\ Len(o.marks) \in Nat
  <2>1. token \in Int
    BY DEF Alphabet
  <2>2. p \in Outcome
    BY <2>1, TakeSignalType
  <2>3. p.marks \in Seq(Int)
    BY <2>2 DEF Outcome
  <2> HIDE DEF p
  <2> QED BY <2>3, <1>1
<1> HIDE DEF p
<1>6. a \notin Hurt(dam2, b) => p.buf[a] = sent[b][a] /\ token = song[b][a + 1]
  <2>1. ASSUME a \notin Hurt(dam2, b) PROVE p.buf[a] = sent[b][a] /\ token = song[b][a + 1]
    <3>1. token = song[b][a + 1]
      BY <2>1
    <3>2. Symbol(o, token) = sent[b][a]
      BY <3>1, <1>2, SymbolIs
    <3>3. sent[b][a] \in Nibble
      BY TokenIs
    <3>4. sent[b][a] >= 0
      BY <3>3 DEF Nibble
    <3>5. p.buf[n + 1] = sent[b][a]
      BY <1>5, <3>2, <3>4
    <3> QED BY <3>1, <3>5, <1>0
  <2> QED BY <2>1
<1>7. Right(p, b, a + 1, dam2, sent)
  <2>1. ASSUME NEW i \in 1 .. Len(p.buf), i <= (a + 1) - 1, i \notin Hurt(dam2, b)
        PROVE  p.buf[i] = sent[b][i]
    <3>1. CASE i = a
      BY <3>1, <2>1, <1>6
    <3>2. CASE i # a
      <4>1. i \in 1 .. n /\ i <= a - 1 /\ a > 1
        BY <2>1, <3>2, <1>0, <1>5
      <4>2. Right(o, b, a, dam, sent)
        BY <4>1 DEF Follows
      <4>3. i \notin Hurt(dam, b)
        BY <2>1, <1>2
      <4>4. o.buf[i] = sent[b][i]
        BY <4>1, <4>2, <4>3, <1>1 DEF Right
      <4> QED BY <4>1, <4>4, <1>5
    <3> QED BY <3>1, <3>2
  <2> QED BY <2>1 DEF Right
<1>8. Surplus(p, b, a + 1, song) = 0
  <2>1. ~(Len(p.buf) > (a + 1) - 1)
    BY <1>0, <1>5
  <2> QED BY <2>1 DEF Surplus
<1>9. Marked(p, b, a + 1, song, dam2)
  <2>1. ASSUME NEW d \in dam2, d.block = b, d.marked, d.pos <= Len(p.buf)
        PROVE  \E k \in 1 .. Len(p.marks) : p.marks[k] = d.pos
    <3>1. CASE d \in dam
      <4>0. d.pos \in 1 .. a - 1
        BY <3>1, <2>1
      <4>1. d.pos \in 1 .. a - 1 /\ a > 1 /\ d.pos <= Len(o.buf)
        BY <4>0, <1>0, <1>1
      <4>2. Marked(o, b, a, song, dam)
        BY <4>1 DEF Follows
      <4>3. PICK k \in 1 .. Len(o.marks) - Surplus(o, b, a, song) : o.marks[k] = d.pos
        BY <4>1, <4>2, <3>1, <2>1 DEF Marked
      <4>4. Surplus(o, b, a, song) = 0
        BY <1>0, <1>1 DEF Surplus
      <4>5. k \in 1 .. Len(o.marks) /\ k \in 1 .. Len(p.marks)
        BY <4>3, <4>4, <1>5, <1>b
      <4> QED BY <4>3, <4>5, <1>5
    <3>2. CASE d \notin dam
      <4>1. d.pos = a /\ (suspect \/ token = Start)
        BY <3>2, <2>1
      <4>2. Len(p.marks) = Len(o.marks) + 1 /\ p.marks[Len(o.marks) + 1] = a
        BY <4>1, <1>5, <1>0
      <4>3. Len(o.marks) + 1 \in 1 .. Len(p.marks)
        BY <4>2, <1>b
      <4> QED BY <4>1, <4>2, <4>3
    <3> QED BY <3>1, <3>2
  <2>2. Len(p.marks) - 0 = Len(p.marks) /\ 0 <= Len(p.marks)
    BY <1>b
  <2> QED BY <2>1, <2>2, <1>8 DEF Marked
<1>10. Lengths(p, b, a + 1, song, dam2)
  <2>1. Len(p.buf) = (a + 1) - 1
    BY <1>0, <1>5
  <2>2. (a + 1) - 1 \in (a + 1) - 1 - RsSize .. (a + 1) - 1
    BY <1>0
  <2>3. ASSUME NEW i \in Len(p.buf) + 1 .. (a + 1) - 1 PROVE i \in Hurt(dam2, b)
    BY <2>1, <1>0
  <2>4. b = Len(song) /\ a + 1 = Len(song[b]) => p.starts = 0
    <3>1. a + 1 = Len(song[b]) => a = Len(song[b]) - 1
      BY <1>0
    <3> QED BY <3>1, <1>3, <1>5
  <2>5. b < Len(song) \/ b = Len(song)
    BY <1>a
  <2>6. Len(p.buf) - ((a + 1) - 1) = 0 /\ Len(p.buf) >= (a + 1) - 1
    BY <2>1, <1>0
  <2>7. b < Len(song) => b # Len(song)
    BY <1>a
  <2> QED BY <2>1, <2>2, <2>3, <2>4, <2>5, <2>6 DEF Lengths
<1>11. Chained(p, b, song, dam2, before)
  <2>1. Len(p.buf) = a
    BY <1>0, <1>5
  <2>2. p.pre = p.buf[a] /\ p.prepre = o.pre /\ p.realPre = token
    BY <1>0, <1>5
  <2>3. o.pre = IF a >= 2 THEN p.buf[a - 1] ELSE before[2]
    <3>1. CASE a = 1
      BY <3>1 DEF Follows, Fresh
    <3>2. CASE a > 1
      <4>1. Chained(o, b, song, dam, before)
        BY <3>2, <1>0 DEF Follows
      <4>2. o.pre = o.buf[a - 1]
        BY <4>1, <1>1 DEF Chained
      <4>3. a - 1 \in 1 .. n /\ a >= 2
        BY <3>2, <1>0
      <4> QED BY <4>2, <4>3, <1>5
    <3> QED BY <3>1, <3>2, <1>0
  <2> QED BY <2>1, <2>2, <2>3, <1>6 DEF Chained
<1>12. ~(a + 1 <= 1)
  BY <1>0
<1> QED BY <1>7, <1>9, <1>10, <1>11, <1>12 DEF Follows, p

\* A start tone passes before the symbols.
LEMMA StepStart ==
    ASSUME NEW b, NEW a, NEW a2 \in {0, 1}, NEW song, NEW sent, NEW dam, NEW dam2, NEW o, NEW before,
           NEW suspect, a \in {0, 1},
           Follows(o, b, a, song, dam, before, sent)
    PROVE  Follows(Take(o, Start, suspect), b, a2, song, dam2, before, sent)
<1>1. o = Fresh(before)
  BY DEF Follows
<1>2. Take(o, Start, suspect) = o
  BY <1>1 DEF Take, Fresh
<1> QED BY <1>1, <1>2 DEF Follows

\* One passes after them.
LEMMA StepSurplus ==
    ASSUME NEW song, NEW sent, Sent(sent), Rendered(song, sent),
           NEW b \in 1 .. Len(sent), NEW dam, NEW before \in Int \X Int,
           NEW a \in Nat, a = Len(song[b]), NEW o \in Outcome,
           Follows(o, b, a, song, dam, before, sent),
           \A d \in dam : d.block = b => d.pos \in 1 .. a - 1
    PROVE  Follows(Take(o, Start, FALSE), b, a, song, dam, before, sent)
<1> DEFINE p == Take(o, Start, FALSE)
<1> DEFINE n == Len(o.buf)
<1>0. /\ Len(sent[b]) \in Nat /\ a = Len(sent[b]) + 1 /\ (b < Len(song) => a = Full + 1)
      /\ Len(sent[b]) \in RsSize + 1 .. Full /\ RsSize = 2 /\ Full \in Nat /\ Full >= 5
      /\ Len(song) \in Nat /\ b \in 1 .. Len(song) /\ (b < Len(song) \/ b = Len(song))
  <2>1. /\ Len(sent[b]) \in RsSize + 1 .. Full /\ Len(song[b]) = Len(sent[b]) + 1
        /\ Len(song) = Len(sent) /\ Len(sent) \in Nat /\ (b < Len(sent) => Len(sent[b]) = Full)
    BY DEF Sent, Rendered
  <2> QED BY <2>1, SizesAre
<1>1. a \in Nat /\ a >= 4 /\ ~(a <= 1) /\ ~(a < Len(song[b]))
  BY <1>0
<1>2. Lengths(o, b, a, song, dam) /\ Right(o, b, a, dam, sent) /\ Marked(o, b, a, song, dam)
  BY <1>1 DEF Follows
<1>3. o.buf \in Seq(Int) /\ n \in Nat /\ n <= Full /\ o.marks \in Seq(Int) /\ Len(o.marks) \in Nat
      /\ o.starts \in Nat
  BY DEF Outcome
<1>n. n \in Nat /\ n <= Full
  BY <1>3
<1>m. Len(o.marks) \in Nat /\ o.starts \in Nat
  BY <1>3
<1>4. CASE n = Full
  <2>1. p = o
    BY <1>4 DEF Take
  <2> QED BY <2>1
<1>5. CASE n # Full
  <2>0. Start \in Alphabet /\ FALSE \in BOOLEAN
    BY DEF Alphabet, Start
  <2>a. n >= 1
    <3>1. IF b < Len(song) THEN n \in a - 1 - RsSize .. a - 1 ELSE n >= a - 1
      BY <1>2 DEF Lengths
    <3>2. RsSize = 2
      BY <1>0
    <3> HIDE DEF n
    <3> QED BY <3>1, <3>2, <1>1, <1>n
  <2>1. n < Full /\ n >= 1
    <3> HIDE DEF n
    <3> QED BY <2>a, <1>n, <1>5, <1>0
  <2>2. Len(o.buf) < Full /\ (Start = Start => o.buf # <<>>)
    <3>1. o.buf = <<>> => Len(o.buf) = 0
      OBVIOUS
    <3> QED BY <2>1, <3>1
  <2>3. /\ Len(p.buf) = n + 1
        /\ \A i \in 1 .. n : p.buf[i] = o.buf[i]
        /\ \A k \in 1 .. Len(o.marks) : p.marks[k] = o.marks[k]
        /\ Len(p.marks) = Len(o.marks) + 1 /\ p.marks[Len(o.marks) + 1] = n + 1
        /\ p.starts = o.starts + 1
    BY <2>0, <2>2, TakesSymbol
  <2> HIDE DEF p, n
  <2>l. Len(p.buf) = n + 1
    BY <2>3
  <2>m. Len(p.marks) = Len(o.marks) + 1
    BY <2>3
  <2>s. p.starts = o.starts + 1
    BY <2>3
  <2>4. CASE b < Len(song)
    <3>0. a = Full + 1 /\ n + 1 \in 1 .. a - 1 /\ b # Len(song)
      BY <2>1, <2>4, <1>0, <1>3
    <3>1. /\ n \in a - 1 - RsSize .. a - 1
          /\ \A i \in n + 1 .. a - 1 : i \in Hurt(dam, b)
      BY <1>2, <2>4 DEF Lengths, n, Rendered
    <3>2. n + 1 \in Hurt(dam, b)
      <4>1. n + 1 \in n + 1 .. a - 1
        BY <3>0
      <4> QED BY <3>1, <4>1
    <3>3. Right(p, b, a, dam, sent)
      <4>1. ASSUME NEW i \in 1 .. Len(p.buf), i <= a - 1, i \notin Hurt(dam, b)
            PROVE  p.buf[i] = sent[b][i]
        <5>1. i \in 1 .. n
          BY <4>1, <3>2, <2>3, <1>3
        <5>2. o.buf[i] = sent[b][i]
          BY <4>1, <5>1, <1>2 DEF Right, n
        <5> QED BY <5>1, <5>2, <2>3
      <4> QED BY <4>1 DEF Right
    <3>4. Surplus(p, b, a, song) = 0 /\ Surplus(o, b, a, song) = 0
      BY <3>0 DEF Surplus
    <3>5. Marked(p, b, a, song, dam)
      <4>1. ASSUME NEW d \in dam, d.block = b, d.marked, d.pos <= Len(p.buf)
            PROVE  \E k \in 1 .. Len(p.marks) : p.marks[k] = d.pos
        <5>0. d.pos \in 1 .. a - 1
          BY <4>1
        <5>1. CASE d.pos = n + 1
          <6>1. Len(o.marks) + 1 \in 1 .. Len(p.marks)
            BY <2>3, <1>3
          <6> QED BY <6>1, <5>1, <2>3
        <5>2. CASE d.pos # n + 1
          <6>1. d.pos <= n
            <7>1. d.pos <= n + 1
              BY <4>1, <2>l
            <7> QED BY <5>0, <5>2, <7>1, <1>n
          <6>2. PICK k \in 1 .. Len(o.marks) - Surplus(o, b, a, song) : o.marks[k] = d.pos
            BY <6>1, <4>1, <1>2 DEF Marked, n
          <6>3. k \in 1 .. Len(o.marks) /\ k \in 1 .. Len(p.marks)
            BY <6>2, <3>4, <2>3, <1>3
          <6> QED BY <6>2, <6>3, <2>3
        <5> QED BY <5>1, <5>2
      <4>2. Len(p.marks) - 0 = Len(p.marks) /\ 0 <= Len(p.marks)
        BY <2>3, <1>3
      <4> QED BY <4>1, <4>2, <3>4 DEF Marked
    <3>6. Lengths(p, b, a, song, dam)
      <4>1. Len(p.buf) \in a - 1 - RsSize .. a - 1
        BY <3>0, <3>1, <2>3, <1>3, <1>0
      <4>2. ASSUME NEW i \in Len(p.buf) + 1 .. a - 1 PROVE i \in Hurt(dam, b)
        <5>1. i \in n + 1 .. a - 1
          BY <2>3, <1>3, <1>1
        <5> QED BY <5>1, <3>1
      <4> QED BY <4>1, <4>2, <2>4, <1>1 DEF Lengths
    <3> QED BY <3>3, <3>5, <3>6, <1>1 DEF Follows, p
  <2>5. CASE b = Len(song)
    <3>1. n >= a - 1 /\ o.starts = n - (a - 1)
      <4>1. ~(b < Len(song))
        BY <2>5, <1>0
      <4> QED BY <4>1, <1>2 DEF Lengths, n
    <3>2. Right(p, b, a, dam, sent)
      <4>1. ASSUME NEW i \in 1 .. Len(p.buf), i <= a - 1, i \notin Hurt(dam, b)
            PROVE  p.buf[i] = sent[b][i]
        <5>1. i \in 1 .. n
          BY <4>1, <3>1, <2>3, <1>1, <1>3
        <5>2. o.buf[i] = sent[b][i]
          BY <4>1, <5>1, <1>2 DEF Right, n
        <5> QED BY <5>1, <5>2, <2>3
      <4> QED BY <4>1 DEF Right
    <3>3. Surplus(p, b, a, song) = n + 1 - (a - 1) /\ Surplus(o, b, a, song) = n - (a - 1)
      <4>1. Surplus(p, b, a, song) = IF n + 1 > a - 1 THEN n + 1 - (a - 1) ELSE 0
        BY <2>l, <2>5, <1>n DEF Surplus
      <4>2. Surplus(o, b, a, song) = IF n > a - 1 THEN n - (a - 1) ELSE 0
        BY <2>5 DEF Surplus, n
      <4>3. n + 1 > a - 1 /\ n >= a - 1 /\ (~(n > a - 1) => n - (a - 1) = 0)
        BY <3>1, <1>n
      <4> QED BY <4>1, <4>2, <4>3
    <3>4. Marked(p, b, a, song, dam)
      <4>0. /\ Surplus(o, b, a, song) <= Len(o.marks)
            /\ Len(p.marks) - Surplus(p, b, a, song) = Len(o.marks) - Surplus(o, b, a, song)
            /\ Surplus(p, b, a, song) <= Len(p.marks)
        <5>1. Surplus(o, b, a, song) <= Len(o.marks)
          BY <1>2 DEF Marked
        <5>2. n + 1 - (a - 1) = (n - (a - 1)) + 1 /\ n - (a - 1) \in Int
          BY <1>n
        <5>3. Surplus(p, b, a, song) = Surplus(o, b, a, song) + 1 /\ Surplus(o, b, a, song) \in Int
          BY <5>2, <3>3
        <5>4. ASSUME NEW x \in Int, NEW y \in Nat, x <= y
              PROVE  (y + 1) - (x + 1) = y - x /\ x + 1 <= y + 1
          BY ONLY <5>4
        <5>5. Len(p.marks) - Surplus(p, b, a, song) = Len(o.marks) - Surplus(o, b, a, song)
          BY <5>1, <5>3, <5>4, <2>m, <1>m
        <5>6. Surplus(p, b, a, song) <= Len(p.marks)
          BY <5>1, <5>3, <5>4, <2>m, <1>m
        <5> QED BY <5>1, <5>5, <5>6
      <4>1. ASSUME NEW d \in dam, d.block = b, d.marked, d.pos <= Len(p.buf)
            PROVE  \E k \in 1 .. Len(p.marks) - Surplus(p, b, a, song) : p.marks[k] = d.pos
        <5>0. d.pos \in 1 .. a - 1
          BY <4>1
        <5>1. d.pos <= n
          BY <5>0, <3>1, <1>1, <1>3
        <5>2. PICK k \in 1 .. Len(o.marks) - Surplus(o, b, a, song) : o.marks[k] = d.pos
          BY <5>1, <4>1, <1>2 DEF Marked, n
        <5>3. k \in 1 .. Len(o.marks)
          <6>1. n - (a - 1) >= 0 /\ n - (a - 1) \in Int
            BY <3>1, <1>1, <1>n
          <6> QED BY <5>2, <6>1, <3>3, <1>m
        <5>4. p.marks[k] = d.pos
          BY <5>2, <5>3, <2>3
        <5>5. k \in 1 .. Len(p.marks) - Surplus(p, b, a, song)
          BY <5>2, <4>0
        <5> QED BY <5>4, <5>5
      <4> QED BY <4>0, <4>1 DEF Marked
    <3>5. Lengths(p, b, a, song, dam)
      <4>1. Len(p.buf) >= a - 1 /\ p.starts = Len(p.buf) - (a - 1)
        BY <3>1, <2>3, <1>1, <1>3
      <4>2. ~(b < Len(song))
        BY <2>5, <1>0
      <4> QED BY <4>1, <4>2, <1>1 DEF Lengths
    <3> QED BY <3>2, <3>4, <3>5, <1>1 DEF Follows, p
  <2> QED BY <2>4, <2>5, <1>0
<1> QED BY <1>4, <1>5

\* The end of a block is not heard.
LEMMA StepLose ==
    ASSUME NEW song, NEW sent, Sent(sent), Rendered(song, sent),
           NEW b \in 1 .. Len(sent), b < Len(song), NEW dam, NEW dam2, NEW before,
           NEW a \in Nat, a < Len(song[b]), a >= Len(song[b]) - RsSize, NEW o \in Outcome,
           Follows(o, b, a, song, dam, before, sent),
           dam \subseteq dam2,
           \A d \in dam2 \ dam : d.block = b => d.pos \in a .. Len(song[b]) - 1,
           a .. Len(song[b]) - 1 \subseteq Hurt(dam2, b)
    PROVE  Follows(o, b, Len(song[b]), song, dam2, before, sent)
<1> DEFINE n == Len(o.buf)
<1> DEFINE l == Len(song[b])
<1>0. /\ l = Full + 1 /\ RsSize = 2 /\ Full \in Nat /\ Full >= 5 /\ Len(song) \in Nat /\ b # Len(song)
  BY SizesAre DEF Sent, Rendered
<1>1. l \in Nat /\ a >= 4 /\ ~(a <= 1) /\ ~(l <= 1) /\ ~(l < l)
  BY <1>0
<1>2. Lengths(o, b, a, song, dam) /\ Right(o, b, a, dam, sent) /\ Marked(o, b, a, song, dam)
  BY <1>1 DEF Follows
<1>3. n = a - 1 /\ Hurt(dam, b) \subseteq Hurt(dam2, b)
  BY <1>2 DEF Lengths, Hurt
<1>4. Right(o, b, l, dam2, sent)
  <2>1. ASSUME NEW i \in 1 .. Len(o.buf), i \notin Hurt(dam2, b) PROVE o.buf[i] = sent[b][i]
    <3>1. i <= a - 1 /\ i \notin Hurt(dam, b)
      BY <2>1, <1>3
    <3> QED BY <3>1, <1>2 DEF Right
  <2> QED BY <2>1 DEF Right
<1>5. Marked(o, b, l, song, dam2)
  <2>1. Surplus(o, b, l, song) = 0 /\ Surplus(o, b, a, song) = 0
    BY <1>0 DEF Surplus
  <2>2. ASSUME NEW d \in dam2, d.block = b, d.marked, d.pos <= Len(o.buf)
        PROVE  \E k \in 1 .. Len(o.marks) - Surplus(o, b, l, song) : o.marks[k] = d.pos
    <3>1. d \in dam
      <4>1. d \notin dam => d.pos \in a .. l - 1
        BY <2>2
      <4> QED BY <4>1, <2>2, <1>3, <1>1
    <3>2. \E k \in 1 .. Len(o.marks) - Surplus(o, b, a, song) : o.marks[k] = d.pos
      BY <3>1, <2>2, <1>2 DEF Marked
    <3> QED BY <3>2, <2>1
  <2>3. Surplus(o, b, l, song) <= Len(o.marks)
    BY <2>1, <1>2 DEF Marked
  <2> QED BY <2>2, <2>3 DEF Marked
<1>6. Lengths(o, b, l, song, dam2)
  <2>1. n \in l - 1 - RsSize .. l - 1
    BY <1>0, <1>1, <1>3
  <2>2. ASSUME NEW i \in n + 1 .. l - 1 PROVE i \in Hurt(dam2, b)
    <3>1. i \in a .. l - 1
      BY <1>3, <1>1
    <3> QED BY <3>1
  <2>3. ~(Len(song[b]) < Len(song[b]))
    BY <1>1
  <2> QED BY <2>1, <2>2, <2>3 DEF Lengths
<1> QED BY <1>1, <1>4, <1>5, <1>6 DEF Follows

-----------------------------------------------------------------------------
(* A block under damage that is bearable is brought to what was sent.       *)

DamageIn(dam, b) == {d \in dam : d.block = b}

Tolerable(song, dam, b) ==
    \/ Cardinality(DamageIn(dam, b)) <= 1
    \/ /\ Cardinality(DamageIn(dam, b)) = 2
       /\ \A d \in DamageIn(dam, b) :
            /\ d.marked
            /\ (b = Len(song) /\ Len(song[b]) - 1 < Full => d.pos < Len(song[b]) - RsSize)

\* Where a symbol of a block of n symbols is in its word.
Place(n, i) == IF i > n - RsSize THEN i + (Full - n) ELSE i

Wrongs(w, symbols) == {i \in 1 .. Full : w.buf[i] # Padded(symbols)[i]}

LEMMA AtMostOne ==
    ASSUME NEW S, NEW x, S \subseteq {x}
    PROVE  IsFiniteSet(S) /\ Cardinality(S) \in 0 .. 1
<1>1. CASE S = {}
  BY <1>1, FS_EmptySet
<1>2. CASE S # {}
  <2>1. S = {x}
    BY <1>2
  <2> QED BY <2>1, FS_Singleton
<1> QED BY <1>1, <1>2

LEMMA OneOf ==
    ASSUME NEW S, IsFiniteSet(S), Cardinality(S) <= 1
    PROVE  S = {} \/ \E x \in S : S = {x}
<1>1. CASE S # {}
  <2>1. PICK x \in S : TRUE
    BY <1>1
  <2>2. Cardinality(S) \in Nat /\ Cardinality(S \ {x}) = Cardinality(S) - 1 /\ IsFiniteSet(S \ {x})
    BY FS_RemoveElement, FS_CardinalityType
  <2>3. Cardinality(S \ {x}) \in Nat
    BY <2>2, FS_CardinalityType
  <2>4. Cardinality(S \ {x}) = 0
    BY <2>2, <2>3
  <2>5. S \ {x} = {}
    BY <2>2, <2>4, FS_EmptySet
  <2>6. S = {x}
    BY <2>5
  <2> QED BY <2>6
<1> QED BY <1>1

LEMMA TwoOf ==
    ASSUME NEW S, IsFiniteSet(S), Cardinality(S) = 2
    PROVE  \E x \in S, y \in S : S = {x, y}
<1>1. S # {}
  BY FS_EmptySet
<1>2. PICK x \in S : TRUE
  BY <1>1
<1>3. Cardinality(S \ {x}) = Cardinality(S) - 1 /\ IsFiniteSet(S \ {x})
  BY FS_RemoveElement
<1>4. Cardinality(S \ {x}) <= 1 /\ Cardinality(S \ {x}) = 1
  BY <1>3
<1>5. S \ {x} # {}
  BY <1>4, FS_EmptySet
<1>6. PICK y \in S \ {x} : S \ {x} = {y}
  BY <1>3, <1>4, <1>5, OneOf
<1>7. S = {x, y}
  BY <1>6
<1> QED BY <1>7

\* One wrong symbol, or two that are marked, are within reach.
LEMMA InReach ==
    ASSUME NEW song, NEW dam, NEW b, NEW w, NEW symbols, NEW n \in RsSize + 1 .. Full,
           IsFiniteSet(dam), Tolerable(song, dam, b), w.marks \in Seq(Int),
           Len(song[b]) = n + 1, b # Len(song) => n = Full,
           \A d \in DamageIn(dam, b) : d.pos \in 1 .. n,
           Wrongs(w, symbols) \subseteq {Place(n, i) : i \in Hurt(dam, b)},
           \A d \in DamageIn(dam, b) : d.marked => \E k \in 1 .. Len(w.marks) : w.marks[k] = d.pos
    PROVE  \E erased \in Erasures(w.marks) :
             2 * Cardinality(Wrongs(w, symbols) \ erased) + Cardinality(erased) <= RsSize
<1> DEFINE here == DamageIn(dam, b)
<1> DEFINE wrong == Wrongs(w, symbols)
<1>0. RsSize = 2 /\ Full \in Nat /\ n \in 3 .. Full
  BY SizesAre
<1>1. IsFiniteSet(here)
  BY FS_Subset DEF DamageIn
<1>2. wrong \subseteq {Place(n, d.pos) : d \in here}
  <2>1. ASSUME NEW i \in Hurt(dam, b) PROVE \E d \in here : i = d.pos
    BY DEF Hurt, DamageIn
  <2> HIDE DEF wrong, here
  <2>2. wrong \subseteq {Place(n, i) : i \in Hurt(dam, b)}
    BY DEF wrong
  <2> QED BY <2>1, <2>2
<1>3. {} \in Erasures(w.marks)
  BY DEF Erasures
<1> DEFINE Reach(erased) == 2 * Cardinality(wrong \ erased) + Cardinality(erased) <= RsSize
<1> SUFFICES \E erased \in Erasures(w.marks) : Reach(erased)
  OBVIOUS
<1>4. ASSUME NEW x, wrong \subseteq {x} PROVE \E erased \in Erasures(w.marks) : Reach(erased)
  <2>1. wrong \ {} \subseteq {x}
    BY <1>4
  <2> HIDE DEF wrong
  <2>2. Cardinality(wrong \ {}) \in 0 .. 1
    BY <2>1, AtMostOne
  <2>3. Cardinality({}) = 0
    BY FS_EmptySet
  <2>4. Reach({})
    BY <2>2, <2>3, <1>0
  <2> HIDE DEF Reach
  <2> QED BY <2>4, <1>3
<1>5. CASE Cardinality(here) <= 1
  <2>1. here = {} \/ \E d \in here : here = {d}
    <3> HIDE DEF here
    <3> QED BY <1>1, <1>5, OneOf
  <2>2. \E x : wrong \subseteq {x}
    <3>1. CASE here = {}
      <4>1. wrong = {}
        <5> HIDE DEF wrong, here
        <5> QED BY <1>2, <3>1
      <4>2. wrong \subseteq {0}
        <5> HIDE DEF wrong
        <5> QED BY <4>1
      <4> QED BY <4>2
    <3>2. CASE \E d \in here : here = {d}
      <4> HIDE DEF wrong, here
      <4>1. PICK d \in here : here = {d}
        BY <3>2
      <4>2. wrong \subseteq {Place(n, d.pos)}
        BY <1>2, <4>1
      <4> QED BY <4>2
    <3> QED BY <2>1, <3>1, <3>2
  <2> QED BY <2>2, <1>4
<1>6. CASE /\ Cardinality(here) = 2
           /\ \A d \in here : /\ d.marked
                              /\ (b = Len(song) /\ Len(song[b]) - 1 < Full => d.pos < Len(song[b]) - RsSize)
  <2>1. PICK d \in here, e \in here : here = {d, e}
    <3> HIDE DEF here
    <3> QED BY <1>1, <1>6, TwoOf
  <2>2. ASSUME NEW f \in here PROVE Place(n, f.pos) = f.pos
    <3>1. f.pos \in 1 .. n
      OBVIOUS
    <3>2. CASE n = Full
      BY <3>1, <3>2, <1>0 DEF Place
    <3>3. CASE n # Full
      <4>1. b = Len(song) /\ Len(song[b]) - 1 < Full
        BY <3>3, <1>0
      <4>2. f.pos < Len(song[b]) - RsSize
        BY <4>1, <1>6
      <4>3. ~(f.pos > n - RsSize)
        BY <3>1, <4>2, <1>0
      <4> QED BY <4>3 DEF Place
    <3> QED BY <3>2, <3>3
  <2>3. wrong \subseteq {d.pos, e.pos}
    <3> HIDE DEF wrong, here
    <3> QED BY <1>2, <2>1, <2>2
  <2>4. CASE d.pos = e.pos
    <3> HIDE DEF wrong, here
    <3>1. wrong \subseteq {d.pos}
      BY <2>3, <2>4
    <3> QED BY <3>1, <1>4
  <2>5. CASE d.pos # e.pos
    <3>1. PICK k \in 1 .. Len(w.marks) : w.marks[k] = d.pos
      BY <1>6
    <3>2. PICK l \in 1 .. Len(w.marks) : w.marks[l] = e.pos
      BY <1>6
    <3>3. DOMAIN w.marks = 1 .. Len(w.marks)
      OBVIOUS
    <3>4. k # l /\ k \in Int /\ l \in Int
      BY <2>5, <3>1, <3>2
    <3> DEFINE erased == {d.pos, e.pos}
    <3>5. erased \in Erasures(w.marks)
      <4>0. ASSUME NEW i \in DOMAIN w.marks, NEW j \in DOMAIN w.marks, i < j
            PROVE  {w.marks[i], w.marks[j]} \in Erasures(w.marks)
        <5>1. <<i, j>> \in {p \in (DOMAIN w.marks) \X (DOMAIN w.marks) : p[1] < p[2]}
          BY <4>0
        <5> DEFINE T == {p \in (DOMAIN w.marks) \X (DOMAIN w.marks) : p[1] < p[2]}
        <5>2. \E p \in T : {w.marks[i], w.marks[j]} = {w.marks[p[1]], w.marks[p[2]]}
          BY <5>1
        <5>3. Erasures(w.marks) = {{}} \cup {{w.marks[p[1]], w.marks[p[2]]} : p \in T}
          BY DEF Erasures
        <5> HIDE DEF T
        <5> QED BY <5>2, <5>3
      <4>1. CASE k < l
        BY <4>0, <4>1, <3>1, <3>2, <3>3
      <4>2. CASE l < k
        <5>1. {w.marks[l], w.marks[k]} \in Erasures(w.marks)
          BY <4>0, <4>2, <3>3
        <5>2. {w.marks[l], w.marks[k]} = erased
          BY <3>1, <3>2
        <5> QED BY <5>1, <5>2
      <4>3. k < l \/ l < k
        BY <3>4
      <4> QED BY <4>1, <4>2, <4>3
    <3>6. Cardinality(erased) = 2
      <4>1. IsFiniteSet({e.pos}) /\ Cardinality({e.pos}) = 1
        BY FS_Singleton
      <4>a. d.pos \notin {e.pos}
        BY <2>5
      <4>2. Cardinality({e.pos} \cup {d.pos}) = 2
        <5> HIDE DEF here
        <5>1. ASSUME NEW S, IsFiniteSet(S), NEW x, x \notin S PROVE Cardinality(S \cup {x}) = Cardinality(S) + 1
          BY ONLY <5>1, FS_AddElement
        <5>2. Cardinality({e.pos} \cup {d.pos}) = Cardinality({e.pos}) + 1
          BY <5>1, <4>1, <4>a
        <5> QED BY <5>2, <4>1
      <4>3. {e.pos} \cup {d.pos} = erased
        OBVIOUS
      <4> QED BY <4>2, <4>3
    <3> HIDE DEF erased, wrong
    <3>7. wrong \ erased = {}
      BY <2>3 DEF erased
    <3>8. Cardinality(wrong \ erased) = 0
      BY <3>7, FS_EmptySet
    <3>9. Reach(erased)
      BY <3>6, <3>8, <1>0
    <3> HIDE DEF Reach
    <3> QED BY <3>5, <3>9
  <2> QED BY <2>4, <2>5
<1> HIDE DEF Reach
<1> QED BY <1>5, <1>6 DEF Tolerable

LEMMA SeqWider ==
    ASSUME NEW S, NEW T, S \subseteq T, NEW s \in Seq(S)
    PROVE  s \in Seq(T)
<1>1. Len(s) \in Nat /\ s \in [1 .. Len(s) -> S]
  BY LenProperties
<1>2. s \in [1 .. Len(s) -> T]
  BY <1>1
<1> QED BY <1>1, <1>2, FunctionIsSeq

\* A word of the right length whose wrong symbols were hurt, and whose marks
\* name the damage that was marked.
Sound(w, sent, b, dam) ==
    /\ w.valid = Len(sent[b]) /\ w.marks \in Seq(Int)
    /\ Wrongs(w, sent[b]) \subseteq {Place(Len(sent[b]), i) : i \in Hurt(dam, b)}
    /\ \A d \in DamageIn(dam, b) : d.marked => \E k \in 1 .. Len(w.marks) : w.marks[k] = d.pos

\* A block leaves what one that leans on it needs.
Leaves(w, song, sent, b) == song[b + 1][2] = Overlap => w.buf[Full] = sent[b][Len(sent[b])]

\* What a block that is not the last comes to.
LEMMA MiddleWord ==
    ASSUME NEW song, NEW sent, Sent(sent), Rendered(song, sent),
           NEW b \in 1 .. Len(sent), b # Len(song), NEW dam, NEW before, Unleant(song, dam, b),
           NEW o \in Outcome, Follows(o, b, Len(song[b]), song, dam, before, sent),
           \A d \in dam : d.block = b => d.pos \in 1 .. Len(song[b]) - 1
    PROVE  /\ ~Refused(o, FALSE) /\ Sound(Word(o, FALSE), sent, b, dam)
           /\ Leaves(Word(o, FALSE), song, sent, b)
<1> DEFINE w == Word(o, FALSE)
<1> DEFINE n == Len(o.buf)
<1> DEFINE m == Len(o.marks)
<1> DEFINE l == Len(song[b])
<1>0. /\ l = Full + 1 /\ Len(sent[b]) = Full /\ RsSize = 2 /\ Full \in Nat /\ Full >= 5
      /\ Full = BlockSize + 2 /\ b < Len(song) /\ l - 1 = Full
  <2>1. b < Len(sent) /\ Len(song) = Len(sent)
    BY DEF Sent, Rendered
  <2>2. l = Full + 1 /\ Len(sent[b]) = Full
    BY <2>1 DEF Sent, Rendered
  <2> HIDE DEF l
  <2> QED BY <2>1, <2>2, SizesAre
<1>1. n \in Nat /\ n <= Full /\ m \in Nat
  BY DEF Outcome
<1>2. Lengths(o, b, l, song, dam) /\ Right(o, b, l, dam, sent) /\ Marked(o, b, l, song, dam)
  <2>1. ~(l <= 1)
    BY <1>0
  <2> QED BY <2>1 DEF Follows
<1>3. n \in l - 1 - RsSize .. l - 1 /\ \A i \in n + 1 .. l - 1 : i \in Hurt(dam, b)
  BY <1>0, <1>2 DEF Lengths
<1>4. ~Refused(o, FALSE)
  <2>1. ~(n <= BlockSize - 1)
    <3>1. BlockSize \in Nat
      BY SizesAre
    <3> HIDE DEF n, l
    <3> QED BY <3>1, <1>0, <1>1, <1>3
  <2> QED BY <2>1 DEF Refused
<1>5. /\ w.buf = Fill(o).buf /\ w.marks = Fill(o).marks /\ w.valid = Full
  BY DEF Word
<1>6. /\ Fill(o).buf \in Seq(Int) /\ Len(Fill(o).buf) = Full
      /\ \A i \in 1 .. n : Fill(o).buf[i] = o.buf[i]
      /\ Fill(o).marks \in Seq(Int)
      /\ Len(Fill(o).marks) = m + (Full - n)
      /\ \A k \in 1 .. m : Fill(o).marks[k] = o.marks[k]
      /\ \A x \in 1 .. Full - n : Fill(o).marks[m + x] = n + x
  BY FillIs
<1> HIDE DEF w, n, m, l
<1>7. sent[b] \in Seq(Int) /\ Len(sent[b]) \in RsSize + 1 .. Full
  <2>1. sent[b] \in Seq(Nibble) /\ Nibble \subseteq Int
    BY DEF Sent, Nibble
  <2>2. Len(sent[b]) \in RsSize + 1 .. Full
    BY DEF Sent
  <2> QED BY <2>1, <2>2, SeqWider
<1>8. ASSUME NEW i \in 1 .. Full PROVE Padded(sent[b])[i] = sent[b][i]
  <2>0. /\ \A j \in 1 .. Len(sent[b]) - RsSize : Padded(sent[b])[j] = sent[b][j]
        /\ \A j \in Full - RsSize + 1 .. Full : Padded(sent[b])[j] = sent[b][j - (Full - Len(sent[b]))]
    BY <1>7, PaddedIs
  <2>1. CASE i <= Full - 2
    <3>1. i \in 1 .. Len(sent[b]) - RsSize
      BY <2>1, <1>0
    <3> QED BY <2>0, <3>1
  <2>2. CASE i > Full - 2
    <3>1. i \in Full - RsSize + 1 .. Full /\ i - (Full - Len(sent[b])) = i
      BY <2>2, <1>0
    <3> QED BY <2>0, <3>1
  <2> QED BY <2>1, <2>2, <1>0
<1>9. ASSUME NEW i \in 1 .. Full, i \notin Hurt(dam, b) PROVE w.buf[i] = sent[b][i]
  <2>1. i <= n
    <3>1. i > n => i \in n + 1 .. l - 1
      BY <1>0, <1>1
    <3> QED BY <3>1, <1>1, <1>3, <1>9
  <2>2. i \in 1 .. n /\ i <= l - 1
    BY <2>1, <1>0, <1>1
  <2>3. o.buf[i] = sent[b][i]
    BY <2>2, <1>2, <1>9 DEF Right, n
  <2> QED BY <2>2, <2>3, <1>5, <1>6
<1>10. Wrongs(w, sent[b]) \subseteq {Place(Len(sent[b]), i) : i \in Hurt(dam, b)}
  <2>1. ASSUME NEW i \in Wrongs(w, sent[b])
        PROVE  \E j \in Hurt(dam, b) : i = Place(Len(sent[b]), j)
    <3>1. i \in 1 .. Full /\ w.buf[i] # sent[b][i]
      BY <1>8 DEF Wrongs
    <3>2. i \in Hurt(dam, b)
      BY <3>1, <1>9
    <3>3. Place(Len(sent[b]), i) = i
      BY <3>1, <1>0 DEF Place
    <3> QED BY <3>2, <3>3
  <2> QED BY <2>1
<1>11. ASSUME NEW d \in DamageIn(dam, b), d.marked
       PROVE  \E k \in 1 .. Len(w.marks) : w.marks[k] = d.pos
  <2>0. d \in dam /\ d.block = b
    BY DEF DamageIn
  <2>1. d.pos \in 1 .. Full
    BY <2>0, <1>0 DEF l
  <2>2. Surplus(o, b, l, song) = 0
    BY <1>0 DEF Surplus
  <2>3. CASE d.pos <= n
    <3>1. \E k \in 1 .. m - 0 : o.marks[k] = d.pos
      BY <2>0, <2>2, <2>3, <1>2, <1>11 DEF Marked, n, m
    <3>2. PICK k \in 1 .. m : o.marks[k] = d.pos
      <4>1. m - 0 = m
        BY <1>1
      <4> QED BY <3>1, <4>1
    <3>3. k \in 1 .. m + (Full - n)
      <4>1. Full \in Nat /\ n \in Nat /\ n <= Full /\ m \in Nat
        BY <1>0, <1>1
      <4> QED BY ONLY <4>1, k \in 1 .. m
    <3> QED BY <3>2, <3>3, <1>5, <1>6
  <2>4. CASE d.pos > n
    <3>1. d.pos - n \in 1 .. Full - n /\ m + (d.pos - n) \in 1 .. m + (Full - n) /\ n + (d.pos - n) = d.pos
      <4>1. m \in Nat /\ n \in Nat /\ Full \in Nat
        BY <1>0, <1>1
      <4>2. ASSUME NEW x \in 1 .. Full, x > n
            PROVE  x - n \in 1 .. Full - n /\ m + (x - n) \in 1 .. m + (Full - n) /\ n + (x - n) = x
        BY <4>1, <4>2
      <4> QED BY <2>1, <2>4, <4>2
    <3>2. Fill(o).marks[m + (d.pos - n)] = n + (d.pos - n)
      BY <3>1, <1>6
    <3>3. w.marks[m + (d.pos - n)] = d.pos
      BY <3>1, <3>2, <1>5
    <3> QED BY <3>1, <3>3, <1>5, <1>6
  <2> QED BY <2>1, <2>3, <2>4, <1>1
<1>12. song[b + 1][2] = Overlap => w.buf[Full] = sent[b][Full]
  <2>1. ASSUME song[b + 1][2] = Overlap PROVE Full \notin Hurt(dam, b)
    <3>1. SUFFICES ASSUME Full \in Hurt(dam, b) PROVE FALSE
      OBVIOUS
    <3>2. PICK d \in dam : d.block = b /\ d.pos = Full
      BY <3>1 DEF Hurt
    <3>3. Following(song, b, Full) = song[b + 1][2]
      <4>1. ~(Full + 1 < Len(song[b]))
        BY <1>0 DEF l
      <4> QED BY <4>1, <1>0 DEF Following
    <3> QED BY <2>1, <3>2, <3>3 DEF Unleant
  <2>2. Full \in 1 .. Full
    BY <1>0
  <2> QED BY <2>1, <2>2, <1>9
<1>13. w.valid = Len(sent[b]) /\ w.marks \in Seq(Int)
  BY <1>0, <1>5, <1>6
<1>14. Sound(w, sent, b, dam)
  BY <1>10, <1>11, <1>13 DEF Sound
<1>15. Leaves(w, song, sent, b)
  BY <1>0, <1>12 DEF Leaves
<1> QED BY <1>4, <1>14, <1>15 DEF w

\* What the last block comes to.
LEMMA LastWord ==
    ASSUME NEW song, NEW sent, Sent(sent), Rendered(song, sent),
           NEW b \in 1 .. Len(sent), b = Len(song), NEW dam, NEW before,
           NEW o \in Outcome, Follows(o, b, Len(song[b]), song, dam, before, sent),
           \A d \in dam : d.block = b => d.pos \in 1 .. Len(song[b]) - 1
    PROVE  ~Refused(o, TRUE) /\ Sound(Word(o, TRUE), sent, b, dam)
<1> DEFINE w == Word(o, TRUE)
<1> DEFINE n == Len(o.buf)
<1> DEFINE m == Len(o.marks)
<1> DEFINE l == Len(song[b])
<1> DEFINE L == Len(sent[b])
<1> DEFINE cut == Trim(o).buf
<1>0. /\ l = L + 1 /\ RsSize = 2 /\ Full \in Nat /\ L \in RsSize + 1 .. Full /\ L \in Nat /\ L >= 3 /\ L <= Full
      /\ l - 1 = L /\ ~(b < Len(song))
  <2>1. /\ L \in RsSize + 1 .. Full /\ l = L + 1 /\ Len(song) \in Nat
    BY DEF Sent, Rendered
  <2> HIDE DEF l, L
  <2> QED BY <2>1, SizesAre
<1>1. n \in Nat /\ n <= Full /\ m \in Nat /\ o.starts \in Nat
  BY DEF Outcome
<1>2. Lengths(o, b, l, song, dam) /\ Right(o, b, l, dam, sent) /\ Marked(o, b, l, song, dam)
  <2>1. ~(l <= 1)
    BY <1>0
  <2> QED BY <2>1 DEF Follows
<1>3. n >= l - 1 /\ o.starts = n - (l - 1)
  BY <1>0, <1>2 DEF Lengths
<1>4. /\ cut \in Seq(Int) /\ Len(cut) = n - o.starts
      /\ \A i \in 1 .. n - o.starts : cut[i] = o.buf[i]
      /\ Trim(o).marks \in Seq(Int) /\ Len(Trim(o).marks) = m - o.starts
      /\ \A k \in 1 .. m - o.starts : Trim(o).marks[k] = o.marks[k]
  BY TrimIs
<1>5. n - o.starts = L
  <2> HIDE DEF n, l, L
  <2> QED BY <1>0, <1>1, <1>3
<1>6. ~Refused(o, TRUE)
  <2>1. ~(Len(cut) <= RsSize)
    <3> HIDE DEF cut, n, L
    <3> QED BY <1>4, <1>5, <1>0
  <2> QED BY <2>1 DEF Refused
<1>7. w.buf = Padded(cut) /\ w.marks = Trim(o).marks /\ w.valid = Len(cut)
  BY DEF Word
<1> HIDE DEF w, n, m, l, L, cut
<1>8. sent[b] \in Seq(Int) /\ Len(sent[b]) \in RsSize + 1 .. Full
  <2>1. sent[b] \in Seq(Nibble) /\ Nibble \subseteq Int
    BY DEF Sent, Nibble
  <2>2. Len(sent[b]) \in RsSize + 1 .. Full
    BY DEF Sent
  <2> QED BY <2>1, <2>2, SeqWider
<1>9. Len(cut) = L /\ Len(cut) \in RsSize + 1 .. Full
  BY <1>0, <1>4, <1>5
<1>10. /\ \A i \in 1 .. L - RsSize : Padded(cut)[i] = cut[i]
       /\ \A i \in L - RsSize + 1 .. Full - RsSize : Padded(cut)[i] = CodeMin
       /\ \A i \in Full - RsSize + 1 .. Full : Padded(cut)[i] = cut[i - (Full - L)]
  BY <1>4, <1>9, PaddedIs
<1>11. /\ \A i \in 1 .. L - RsSize : Padded(sent[b])[i] = sent[b][i]
       /\ \A i \in L - RsSize + 1 .. Full - RsSize : Padded(sent[b])[i] = CodeMin
       /\ \A i \in Full - RsSize + 1 .. Full : Padded(sent[b])[i] = sent[b][i - (Full - L)]
  BY <1>8, PaddedIs DEF L
<1>12. ASSUME NEW i \in 1 .. L, i \notin Hurt(dam, b) PROVE cut[i] = sent[b][i]
  <2>1. i \in 1 .. n /\ i <= l - 1 /\ i \in 1 .. n - o.starts
    BY <1>0, <1>1, <1>3, <1>5
  <2>2. o.buf[i] = sent[b][i]
    BY <2>1, <1>2, <1>12 DEF Right, n
  <2> QED BY <2>1, <2>2, <1>4
<1>13. Wrongs(w, sent[b]) \subseteq {Place(L, i) : i \in Hurt(dam, b)}
  <2>1. ASSUME NEW i \in Wrongs(w, sent[b])
        PROVE  \E j \in Hurt(dam, b) : i = Place(L, j)
    <3>1. i \in 1 .. Full /\ Padded(cut)[i] # Padded(sent[b])[i]
      BY <1>7 DEF Wrongs
    <3>2. CASE i <= L - RsSize
      <4>1. i \in 1 .. L - RsSize /\ i \in 1 .. L /\ ~(i > L - RsSize)
        BY <3>1, <3>2, <1>0
      <4>2. i \in Hurt(dam, b)
        BY <3>1, <4>1, <1>10, <1>11, <1>12
      <4>3. Place(L, i) = i
        BY <4>1 DEF Place
      <4> QED BY <4>2, <4>3
    <3>3. CASE i > L - RsSize /\ i <= Full - RsSize
      <4>1. i \in L - RsSize + 1 .. Full - RsSize
        BY <3>1, <3>3, <1>0
      <4> QED BY <3>1, <4>1, <1>10, <1>11
    <3>4. CASE i > Full - RsSize
      <4> DEFINE j == i - (Full - L)
      <4>1. i \in Full - RsSize + 1 .. Full /\ j \in 1 .. L /\ j > L - RsSize /\ j + (Full - L) = i
        BY <3>1, <3>4, <1>0
      <4> HIDE DEF j
      <4>2. Padded(cut)[i] = cut[j] /\ Padded(sent[b])[i] = sent[b][j]
        BY <4>1, <1>10, <1>11 DEF j
      <4>3. j \in Hurt(dam, b)
        BY <3>1, <4>1, <4>2, <1>12
      <4>4. Place(L, j) = i
        BY <4>1 DEF Place
      <4> QED BY <4>3, <4>4
    <3> QED BY <3>1, <3>2, <3>3, <3>4, <1>0
  <2> QED BY <2>1
<1>14. ASSUME NEW d \in DamageIn(dam, b), d.marked
       PROVE  \E k \in 1 .. Len(w.marks) : w.marks[k] = d.pos
  <2>0. d \in dam /\ d.block = b
    BY DEF DamageIn
  <2>1. d.pos \in 1 .. l - 1
    BY <2>0 DEF l
  <2>2. Surplus(o, b, l, song) = o.starts
    <3>1. Surplus(o, b, l, song) = IF n > l - 1 THEN n - (l - 1) ELSE 0
      BY DEF Surplus, n
    <3> QED BY <3>1, <1>0, <1>1, <1>3
  <2>3. d.pos <= n
    BY <2>1, <1>0, <1>1, <1>3
  <2>4. PICK k \in 1 .. m - o.starts : o.marks[k] = d.pos
    BY <2>0, <2>2, <2>3, <1>2, <1>14 DEF Marked, n, m
  <2> QED BY <2>4, <1>4, <1>7
<1>15. w.valid = L /\ w.marks \in Seq(Int)
  BY <1>4, <1>7, <1>9
<1>16. Sound(w, sent, b, dam)
  BY <1>13, <1>14, <1>15 DEF Sound, L
<1> QED BY <1>6, <1>16 DEF w

LEMMA BlockDecoded ==
    ASSUME NEW song, NEW sent, Sent(sent), Rendered(song, sent),
           NEW b \in 1 .. Len(sent), NEW dam, IsFiniteSet(dam), NEW before \in Int \X Int,
           Unleant(song, dam, b), Tolerable(song, dam, b),
           NEW signals \in Seq(Signal), Len(signals) <= MaxBlockSignals,
           NEW o \in Outcomes(signals, before)[Len(signals)],
           Follows(o, b, Len(song[b]), song, dam, before, sent),
           \A d \in dam : d.block = b => d.pos \in 1 .. Len(song[b]) - 1,
           NEW last \in BOOLEAN, last = (b = Len(song))
    PROVE  \E w \in Words(signals, before, sent, b, last) : ~last => Leaves(w, song, sent, b)
<1> DEFINE w == Word(o, last)
<1> DEFINE n == Len(sent[b])
<1>1. o \in Outcome
  <2>1. Len(signals) \in 0 .. Len(signals)
    OBVIOUS
  <2> QED BY <2>1, OutcomesDef
<1>2. Len(song) = Len(sent) /\ Len(sent) \in Nat /\ (b < Len(song) \/ b = Len(song))
  BY DEF Sent, Rendered
<1>3. n \in RsSize + 1 .. Full /\ Len(song[b]) = n + 1 /\ (b # Len(song) => n = Full)
  BY <1>2 DEF Sent, Rendered
<1>4. /\ ~Refused(o, last) /\ Sound(w, sent, b, dam)
      /\ ~last => Leaves(w, song, sent, b)
  <2>1. CASE b < Len(song)
    <3>1. b # Len(song)
      BY <2>1, <1>2
    <3>2. last = FALSE
      BY <3>1
    <3>3. /\ ~Refused(o, FALSE) /\ Sound(Word(o, FALSE), sent, b, dam)
          /\ Leaves(Word(o, FALSE), song, sent, b)
      BY <3>1, <1>1, MiddleWord
    <3> QED BY <3>2, <3>3
  <2>2. CASE b = Len(song)
    <3>2. last = TRUE
      BY <2>2
    <3>3. ~Refused(o, TRUE) /\ Sound(Word(o, TRUE), sent, b, dam)
      BY <2>2, <1>1, LastWord
    <3> QED BY <3>2, <3>3
  <2> QED BY <2>1, <2>2, <1>2
<1>5. \A d \in DamageIn(dam, b) : d.pos \in 1 .. n
  <2>1. Len(song[b]) - 1 = n
    BY <1>3
  <2> QED BY <2>1 DEF DamageIn
<1> HIDE DEF w, n
<1>6. PICK erased \in Erasures(w.marks) :
        2 * Cardinality(Wrongs(w, sent[b]) \ erased) + Cardinality(erased) <= RsSize
  <2> DEFINE symbols == sent[b]
  <2>1. n \in RsSize + 1 .. Full /\ Len(song[b]) = n + 1 /\ (b # Len(song) => n = Full)
    BY <1>3
  <2>2. w.marks \in Seq(Int) /\ Wrongs(w, symbols) \subseteq {Place(n, i) : i \in Hurt(dam, b)}
    BY <1>4 DEF Sound, n
  <2>3. \A d \in DamageIn(dam, b) : d.marked => \E k \in 1 .. Len(w.marks) : w.marks[k] = d.pos
    BY <1>4 DEF Sound
  <2> HIDE DEF symbols
  <2>4. \E erased \in Erasures(w.marks) :
          2 * Cardinality(Wrongs(w, symbols) \ erased) + Cardinality(erased) <= RsSize
    BY <2>1, <2>2, <2>3, <1>5, InReach
  <2> QED BY <2>4 DEF symbols
<1>7. Recovers(w, erased, sent, b)
  <2>1. b \in DOMAIN sent
    BY DEF Sent
  <2> QED BY <2>1, <1>4, <1>6 DEF Recovers, Wrongs, Sound
<1>8. w \in Words(signals, before, sent, b, last)
  BY <1>4, <1>6, <1>7, WordsAre DEF w
<1> QED BY <1>4, <1>8

\* When the signals of each block are some outcome of what was sent, in which no
\* more was hurt than its correction symbols can make good and nothing leans on
\* that, loopBlock gets through all blocks to the message that was sent.
THEOREM Arrives ==
    ASSUME NEW song, NEW sent, Sent(sent), Rendered(song, sent), NEW dam, IsFiniteSet(dam),
           NEW blocks \in Seq(Seq(Signal)), Len(blocks) = Len(sent),
           \A b \in 1 .. Len(sent) :
             /\ Len(blocks[b]) <= MaxBlockSignals
             /\ Unleant(song, dam, b) /\ Tolerable(song, dam, b)
             /\ Tracks(blocks[b], b, Len(song[b]), song, dam, sent)
             /\ \A d \in dam : d.block = b => d.pos \in 1 .. Len(song[b]) - 1
    PROVE  LoopBlock(blocks, sent)
<1> DEFINE N == Len(blocks)
<1> DEFINE T == Through(blocks, sent)
<1> DEFINE Goes(b, before) == b < N => Carries(before, b + 1, song, sent)
<1> DEFINE S == {b \in 0 .. N : \E before \in T[b] : Goes(b, before)}
<1>0. N \in Nat /\ N = Len(sent) /\ N = Len(song)
  BY DEF Sent, Rendered
<1>1. /\ T \in [0 .. N -> SUBSET (Int \X Int)] /\ T[0] = {<<0, 0>>}
      /\ \A b \in 1 .. N : T[b] = Left(blocks, sent, b, T[b - 1])
  <2>1. \A b \in 1 .. Len(blocks) : Len(blocks[b]) <= MaxBlockSignals
    BY <1>0
  <2> QED BY <2>1, ThroughDef
<1> HIDE DEF T, N
<1>2. 0 \in S
  <2>1. Goes(0, <<0, 0>>)
    BY DEF Carries
  <2>2. <<0, 0>> \in T[0] /\ 0 \in 0 .. N
    BY <1>0, <1>1
  <2> HIDE DEF Goes
  <2> QED BY <2>1, <2>2
<1>3. ASSUME NEW k \in 0 .. N - 1, k \in S PROVE k + 1 \in S
  <2> DEFINE b == k + 1
  <2>0. k < N /\ b \in 1 .. N /\ b \in 0 .. N /\ b - 1 = k /\ b \in 1 .. Len(sent) /\ k \in 0 .. N /\ b \in Nat
    BY <1>0
  <2>1. PICK before \in T[k] : Carries(before, b, song, sent)
    <3>1. \E before \in T[k] : Goes(k, before)
      <4> HIDE DEF Goes
      <4> QED BY <1>3
    <3> QED BY <3>1, <2>0
  <2> HIDE DEF b, Goes
  <2>2. before \in Int \X Int
    BY <1>1, <2>0
  <2>3. /\ Len(blocks[b]) <= MaxBlockSignals
        /\ Unleant(song, dam, b) /\ Tolerable(song, dam, b)
        /\ Tracks(blocks[b], b, Len(song[b]), song, dam, sent)
        /\ \A d \in dam : d.block = b => d.pos \in 1 .. Len(song[b]) - 1
    BY <2>0
  <2> DEFINE signals == blocks[b]
  <2>4. signals \in Seq(Signal)
    BY <2>0, ElementOfSeq DEF N
  <2> HIDE DEF signals
  <2>5. PICK o \in Outcomes(signals, before)[Len(signals)] :
          Follows(o, b, Len(song[b]), song, dam, before, sent)
    BY <2>1, <2>2, <2>3 DEF Tracks, signals
  <2> DEFINE last == b = Len(song)
  <2>6. last \in BOOLEAN /\ last = (b = Len(song))
    OBVIOUS
  <2> HIDE DEF last
  <2>7. PICK w \in Words(signals, before, sent, b, last) : ~last => Leaves(w, song, sent, b)
    <3>1. Len(signals) <= MaxBlockSignals
      BY <2>3 DEF signals
    <3> QED BY <2>0, <2>1, <2>2, <2>3, <2>4, <2>5, <2>6, <3>1, BlockDecoded
  <2> DEFINE pair == <<w.buf[Full - 1], w.buf[Full]>>
  <2>8. pair \in T[b]
    <3>1. T[b] = Left(blocks, sent, b, T[k])
      BY <1>1, <2>0
    <3>2. w \in Words(blocks[b], before, sent, b, b = Len(blocks))
      <4>1. last = (b = Len(blocks))
        BY <2>6, <1>0 DEF N
      <4> QED BY <4>1, <2>7 DEF signals
    <3>3. w \in UNION {Words(blocks[b], bef, sent, b, b = Len(blocks)) : bef \in T[k]}
      BY <3>2
    <3> QED BY <3>1, <3>3 DEF Left
  <2>9. Goes(b, pair)
    <3>1. ASSUME b < N PROVE Carries(pair, b + 1, song, sent)
      <4>1. ~last
        <5>1. b # Len(song)
          BY <3>1, <1>0, <2>0
        <5> QED BY <5>1, <2>6
      <4>2. Leaves(w, song, sent, b)
        BY <4>1, <2>7
      <4>3. (b + 1) - 1 = b /\ pair[2] = w.buf[Full]
        BY <2>0
      <4> HIDE DEF pair
      <4> QED BY <4>2, <4>3 DEF Carries, Leaves
    <3> QED BY <3>1 DEF Goes
  <2> HIDE DEF pair
  <2>10. b \in S
    BY <2>0, <2>8, <2>9
  <2> QED BY <2>10 DEF b
<1>4. N \in S
  <2>1. \A k \in 0 .. N - 1 : k \in S => k + 1 \in S
    BY <1>3
  <2> HIDE DEF S
  <2>2. 0 .. N \subseteq S
    BY <1>0, <1>2, <2>1, Induction
  <2> QED BY <2>2, <1>0
<1>5. T[N] # {}
  <2> HIDE DEF Goes
  <2> QED BY <1>4
<1> QED BY <1>0, <1>5 DEF LoopBlock, T, N

-----------------------------------------------------------------------------
(* What is in the air is what was sung; what passed of it is heard or       *)
(* damaged.                                                                 *)

Passed(b) == IF b < Len(heard) THEN Len(tones[b]) ELSE at

InAir ==
    /\ tones = Song(Message)
    /\ heard \in Seq(Seq(Signal)) /\ Len(heard) \in 1 .. Len(tones)
    /\ at \in 0 .. Len(Current)
    /\ noise <= info.noise
    /\ damage \subseteq Damage /\ IsFiniteSet(damage)
    /\ \A d \in damage : /\ d.block \in 1 .. Len(heard)
                         /\ d.pos \in 1 .. Passed(d.block) - 1

\* No more signals than tokens and noise, and as many as the search needs.
Counted ==
    /\ SignalCount(heard) <= Signals(tones)[Len(heard) - 1] + at + noise
    /\ Len(heard[Len(heard)]) >=
         IF Len(heard) < Len(tones) /\ at = Len(Current) THEN at - RsSize ELSE at
    /\ Len(heard) > 1 => Signals(heard)[Len(heard) - 1] >= BlockSize + 1

Followed ==
    \A b \in 1 .. Len(heard) :
        Tracks(heard[b], b, Passed(b), tones, damage, SentBlocks(Message))

AirInv ==
    /\ info \in Infos /\ noise \in Nat
    /\ tones # <<>> => InAir /\ Counted /\ Followed

-----------------------------------------------------------------------------
(* What the application knows.                                              *)

KnownInv ==
    /\ decoded # NoInfo => decoded = Answer(info)
    /\ through => decoded # NoInfo
    /\ tones # <<>> => decoded = NoInfo /\ ~through

-----------------------------------------------------------------------------
(* The steps.                                                               *)

LEMMA InfoIs ==
    ASSUME NEW i \in Infos
    PROVE  /\ i.noise \in Nat
           /\ Told(i.message) /\ i.message \in Seq(Nibble)
           /\ SignalCount(Song(i.message)) + i.noise < MaxSignals
           /\ i.fields # <<>> /\ Understood(i.message) = Answer(i)
<1>1. /\ i.noise \in Nat /\ Fits(i.message, i.noise)
      /\ i.fields # <<>> /\ Understood(i.message) = Answer(i)
  BY InfosAssumption
<1>2. Told(i.message) /\ SignalCount(Song(i.message)) + i.noise < MaxSignals
  BY <1>1 DEF Fits, Told
<1> QED BY <1>1, <1>2 DEF Told

LEMMA AirFacts ==
    ASSUME AirInv, tones # <<>>
    PROVE  /\ Sent(SentBlocks(Message)) /\ Rendered(tones, SentBlocks(Message))
           /\ Len(tones) = Len(SentBlocks(Message)) /\ Len(tones) \in Nat \ {0}
           /\ tones \in Seq(Seq(Alphabet))
           /\ Len(heard) \in 1 .. Len(tones) /\ Len(heard) \in Nat \ {0}
           /\ Len(Current) = Len(SentBlocks(Message)[Len(heard)]) + 1 /\ Len(Current) \in Nat
           /\ Len(Current) >= 4
           /\ Current[1] = Start
           /\ at \in Nat /\ at <= Len(Current)
           /\ info.noise \in Nat /\ noise \in Nat
           /\ SignalCount(tones) + info.noise < MaxSignals
<1> DEFINE sent == SentBlocks(Message)
<1>1. info \in Infos /\ tones = Song(Message)
      /\ Len(heard) \in 1 .. Len(tones) /\ at \in 0 .. Len(Current)
  BY DEF AirInv, InAir
<1>2. Told(Message) /\ SignalCount(Song(Message)) + info.noise < MaxSignals /\ info.noise \in Nat
  BY <1>1, InfoIs DEF Message
<1>3. Sent(sent) /\ Rendered(tones, sent)
  BY <1>1, <1>2, SentIs, SongIs
<1>4. Len(tones) = Len(sent) /\ Len(tones) \in Nat \ {0} /\ tones \in Seq(Seq(Alphabet))
  BY <1>3 DEF Rendered, Sent
<1>5. Len(Current) = Len(sent[Len(heard)]) + 1 /\ Current[1] = Start
      /\ Len(sent[Len(heard)]) \in RsSize + 1 .. Full
  BY <1>1, <1>3, <1>4 DEF Rendered, Sent, Current
<1> HIDE DEF sent
<1>6. Len(Current) \in Nat /\ Len(Current) >= 4
  BY <1>5, SizesAre
<1>7. at \in Nat /\ at <= Len(Current)
  BY <1>1, <1>6
<1>8. noise \in Nat
  BY DEF AirInv
<1> QED BY <1>1, <1>2, <1>3, <1>4, <1>5, <1>6, <1>7, <1>8 DEF sent

\* What happens to one block says nothing of another.
LEMMA TracksElsewhere ==
    ASSUME NEW signals, NEW b, NEW a, NEW song, NEW sent, NEW dam, NEW dam2,
           DamageIn(dam, b) = DamageIn(dam2, b),
           Tracks(signals, b, a, song, dam, sent)
    PROVE  Tracks(signals, b, a, song, dam2, sent)
<1>1. Hurt(dam, b) = Hurt(dam2, b)
  BY DEF Hurt, DamageIn
<1>2. \A d : (d \in dam /\ d.block = b) <=> (d \in dam2 /\ d.block = b)
  BY DEF DamageIn
<1>3. ASSUME Unleant(song, dam2, b) PROVE Unleant(song, dam, b)
  BY <1>2, <1>3 DEF Unleant
<1>4. ASSUME NEW o, Marked(o, b, a, song, dam) PROVE Marked(o, b, a, song, dam2)
  BY <1>2, <1>4 DEF Marked
<1>5. ASSUME NEW o, NEW before, Follows(o, b, a, song, dam, before, sent)
      PROVE  Follows(o, b, a, song, dam2, before, sent)
  <2>1. CASE a <= 1
    BY <2>1, <1>5 DEF Follows
  <2>2. CASE ~(a <= 1)
    <3>1. /\ Lengths(o, b, a, song, dam) /\ Right(o, b, a, dam, sent) /\ Marked(o, b, a, song, dam)
          /\ a < Len(song[b]) => Chained(o, b, song, dam, before)
      BY <2>2, <1>5 DEF Follows
    <3>2. Lengths(o, b, a, song, dam2)
      BY <3>1, <1>1 DEF Lengths
    <3>3. Right(o, b, a, dam2, sent)
      BY <3>1, <1>1 DEF Right
    <3>4. Marked(o, b, a, song, dam2)
      BY <3>1, <1>4
    <3>5. a < Len(song[b]) => Chained(o, b, song, dam2, before)
      BY <3>1, <1>1 DEF Chained
    <3> QED BY <2>2, <3>2, <3>3, <3>4, <3>5 DEF Follows
  <2> QED BY <2>1, <2>2
<1>6. ASSUME Unleant(song, dam2, b), NEW before \in Int \X Int, Carries(before, b, song, sent)
      PROVE  \E o \in Outcomes(signals, before)[Len(signals)] : Follows(o, b, a, song, dam2, before, sent)
  <2>1. PICK o \in Outcomes(signals, before)[Len(signals)] : Follows(o, b, a, song, dam, before, sent)
    BY <1>3, <1>6 DEF Tracks
  <2> QED BY <2>1, <1>5
<1> QED BY <1>6 DEF Tracks

\* One signal more in the block that is being heard.
LEMMA OneMore ==
    ASSUME AirInv, tones # <<>>, NEW signal \in Signal,
           heard' = [heard EXCEPT ![Len(heard)] = Append(@, signal)]
    PROVE  /\ heard' \in Seq(Seq(Signal)) /\ Len(heard') = Len(heard)
           /\ heard[Len(heard)] \in Seq(Signal)
           /\ heard'[Len(heard)] = Append(heard[Len(heard)], signal)
           /\ Len(heard'[Len(heard)]) = Len(heard[Len(heard)]) + 1
           /\ \A b \in 1 .. Len(heard) - 1 : heard'[b] = heard[b]
           /\ Signals(heard')[Len(heard) - 1] = Signals(heard)[Len(heard) - 1]
           /\ SignalCount(heard') = SignalCount(heard) + 1
<1>0. Len(heard) \in Nat \ {0} /\ heard \in Seq(Seq(Signal))
  BY AirFacts DEF AirInv, InAir
<1>n. PICK n \in Nat \ {0} : n = Len(heard)
  BY <1>0
<1>1. heard \in Seq(Seq(Signal)) /\ n \in 1 .. n /\ Len(heard) = n
  BY <1>0, <1>n
<1>2. heard[n] \in Seq(Signal)
  BY <1>1, ElementOfSeq
<1>3. Append(heard[n], signal) \in Seq(Signal) /\ Len(Append(heard[n], signal)) = Len(heard[n]) + 1
  BY <1>2, AppendProperties
<1>4. /\ heard' \in Seq(Seq(Signal)) /\ Len(heard') = n
      /\ heard'[n] = Append(heard[n], signal)
      /\ \A b \in 1 .. n - 1 : heard'[b] = heard[b]
  BY <1>1, <1>3
<1>5. \A b \in 1 .. n - 1 : Len(heard'[b]) = Len(heard[b])
  BY <1>4
<1>6. Signals(heard')[n - 1] = Signals(heard)[n - 1]
  <2>1. PICK m \in Nat : m = n - 1
    OBVIOUS
  <2>2. m <= n
    BY <2>1
  <2>3. \A b \in 1 .. m : Len(heard'[b]) = Len(heard[b])
    BY <1>5, <2>1
  <2>4. m <= Len(heard') /\ m <= Len(heard)
    BY <1>1, <1>4, <2>2
  <2>a. ASSUME NEW x \in Seq(Seq(Signal)), NEW y \in Seq(Seq(Signal)), m <= Len(x), m <= Len(y),
               \A b \in 1 .. m : Len(x[b]) = Len(y[b])
        PROVE  Signals(x)[m] = Signals(y)[m]
    BY ONLY m \in Nat, <2>a, SignalsAlike
  <2>5. Signals(heard')[m] = Signals(heard)[m]
    BY <1>1, <1>4, <2>3, <2>4, <2>a
  <2> QED BY <2>1, <2>5
<1>7. Signals(heard)[n] = Signals(heard)[n - 1] + Len(heard[n])
  BY <1>1, SignalsDef
<1>8. Signals(heard')[n] = Signals(heard')[n - 1] + Len(heard'[n])
  <2>1. n \in 1 .. Len(heard')
    BY <1>1, <1>4
  <2> QED BY <1>4, <2>1, SignalsDef
<1>9. Signals(heard)[n - 1] \in Nat /\ Len(heard[n]) \in Nat
  <2>1. n - 1 \in 0 .. n
    BY <1>1
  <2>2. Signals(heard) \in [0 .. n -> Nat]
    BY <1>1, SignalsDef
  <2> QED BY <1>2, <2>1, <2>2
<1>10. SignalCount(heard') = SignalCount(heard) + 1
  <2>1. SignalCount(heard) = Signals(heard)[n] /\ SignalCount(heard') = Signals(heard')[n]
    BY <1>1, <1>4 DEF SignalCount
  <2>2. Len(heard'[n]) = Len(heard[n]) + 1
    BY <1>3, <1>4
  <2> QED BY <2>1, <2>2, <1>6, <1>7, <1>8, <1>9
<1> QED BY <1>1, <1>2, <1>3, <1>4, <1>6, <1>10

LEMMA OutcomeOf ==
    ASSUME NEW block \in Seq(Signal), NEW before \in Int \X Int,
           NEW o \in Outcomes(block, before)[Len(block)]
    PROVE  o \in Outcome
<1>1. Outcomes(block, before) \in [0 .. Len(block) -> SUBSET Outcome]
  BY OutcomesDef
<1>2. Len(block) \in 0 .. Len(block)
  OBVIOUS
<1> QED BY <1>1, <1>2

LEMMA SignalsType ==
    ASSUME NEW T, NEW blocks \in Seq(Seq(T)), NEW b \in 0 .. Len(blocks)
    PROVE  Signals(blocks)[b] \in Nat
<1>1. Signals(blocks) \in [0 .. Len(blocks) -> Nat]
  BY SignalsDef
<1> QED BY <1>1

LEMMA HearInv ==
    ASSUME AirInv, tones # <<>>, at < Len(Current),
           NEW signal \in Signal, NEW token \in Alphabet, token \in ToSet(signal.alternatives),
           heard' = [heard EXCEPT ![Len(heard)] = Append(@, signal)], at' = at + 1,
           info' = info, tones' = tones,
           noise' \in Nat, noise' >= noise, noise' <= info.noise,
           damage \subseteq damage', damage' \subseteq Damage, IsFiniteSet(damage'),
           \A d \in damage' \ damage :
               /\ d.block = Len(heard) /\ d.pos = at /\ d.token = token
               /\ d.marked => signal.suspect \/ token = Start,
           at = 0 => damage' = damage /\ token = Start,
           at \in Hurt(damage', Len(heard)) \/ token = Token
    PROVE  AirInv'
<1> DEFINE sent == SentBlocks(Message)
<1>0. /\ Sent(sent) /\ Rendered(tones, sent) /\ Len(tones) = Len(sent)
      /\ Len(heard) \in 1 .. Len(tones) /\ Len(heard) \in Nat \ {0} /\ Len(tones) \in Nat \ {0}
      /\ Len(Current) = Len(sent[Len(heard)]) + 1 /\ Len(Current) \in Nat
      /\ at \in Nat /\ noise \in Nat
  BY AirFacts
<1>n. PICK n \in Nat \ {0} : n = Len(heard)
  BY <1>0
<1>1. InAir /\ Counted /\ Followed /\ info \in Infos
  BY DEF AirInv
<1>2. /\ heard' \in Seq(Seq(Signal)) /\ Len(heard') = n
      /\ heard[n] \in Seq(Signal)
      /\ heard'[n] = Append(heard[n], signal)
      /\ Len(heard'[n]) = Len(heard[n]) + 1
      /\ \A b \in 1 .. n - 1 : heard'[b] = heard[b]
      /\ Signals(heard')[n - 1] = Signals(heard)[n - 1]
      /\ SignalCount(heard') = SignalCount(heard) + 1
  BY <1>n, OneMore
<1>3. Message' = Message /\ SentBlocks(Message)' = sent /\ Current' = Current /\ Current = tones[n]
  <2>1. Message' = Message
    BY DEF Message
  <2> QED BY <2>1, <1>2, <1>n DEF Current
<1>4. /\ \A b : Passed(b) = IF b < n THEN Len(tones[b]) ELSE at
      /\ \A b : Passed(b)' = IF b < n THEN Len(tones[b]) ELSE at + 1
  BY <1>2, <1>n DEF Passed
<1>5. ASSUME NEW d \in damage
      PROVE  d.block \in 1 .. n /\ d.pos \in 1 .. Passed(d.block) - 1
  BY <1>1, <1>n DEF InAir
<1>6. InAir'
  <2>1. ASSUME NEW d \in damage' PROVE d.block \in 1 .. n /\ d.pos \in 1 .. Passed(d.block)' - 1
    <3>1. CASE d \in damage
      <4>1. d.block \in 1 .. n /\ d.pos \in 1 .. Passed(d.block) - 1
        BY <3>1, <1>5
      <4>2. CASE d.block < n
        BY <4>1, <4>2, <1>4
      <4>3. CASE ~(d.block < n)
        <5>1. d.pos \in 1 .. at - 1 /\ Passed(d.block)' = at + 1
          BY <4>1, <4>3, <1>4
        <5> QED BY <4>1, <5>1, <1>0
      <4> QED BY <4>2, <4>3
    <3>2. CASE d \notin damage
      <4>1. d.block = n /\ d.pos = at /\ at # 0
        BY <3>2, <1>n
      <4>2. Passed(d.block)' = at + 1
        BY <4>1, <1>4
      <4> QED BY <4>1, <4>2, <1>0
    <3> QED BY <3>1, <3>2
  <2>2. tones = Song(Message) /\ n \in 1 .. Len(tones)
    BY <1>1, <1>n DEF InAir
  <2>3. at + 1 \in 0 .. Len(Current)
    BY <1>0
  <2> QED BY <2>1, <2>2, <2>3, <1>2, <1>3 DEF InAir
<1>7. Counted'
  <2>1. /\ SignalCount(heard) <= Signals(tones)[n - 1] + at + noise
        /\ Len(heard[n]) >= IF n < Len(tones) /\ at = Len(Current) THEN at - RsSize ELSE at
        /\ n > 1 => Signals(heard)[n - 1] >= BlockSize + 1
    BY <1>1, <1>n DEF Counted
  <2>2. SignalCount(heard) \in Nat /\ Signals(tones)[n - 1] \in Nat /\ Len(heard[n]) \in Nat
    <3>1. heard \in Seq(Seq(Signal)) /\ tones \in Seq(Seq(Alphabet))
      BY <1>0, <1>1 DEF InAir, Rendered
    <3>2. n \in 0 .. Len(heard) /\ n - 1 \in 0 .. Len(tones)
      BY <1>0, <1>n
    <3>3. Signals(heard)[n] \in Nat /\ Signals(tones)[n - 1] \in Nat
      BY <3>1, <3>2, SignalsType
    <3>4. SignalCount(heard) = Signals(heard)[n]
      BY <1>n DEF SignalCount
    <3>5. Len(heard[n]) \in Nat
      BY <1>2
    <3> QED BY <3>3, <3>4, <3>5
  <2>3. SignalCount(heard') <= Signals(tones)[n - 1] + (at + 1) + noise'
    <3>1. SignalCount(heard') = SignalCount(heard) + 1
      BY <1>2
    <3>2. SignalCount(heard) <= Signals(tones)[n - 1] + at + noise
      BY <2>1
    <3>3. at \in Nat /\ noise \in Nat /\ noise' \in Nat /\ noise' >= noise
      BY <1>0
    <3> QED BY ONLY <3>1, <3>2, <3>3, <2>2
  <2>4. Len(heard[n]) + 1 >= at + 1
    <3>1. at # Len(Current)
      BY <1>0
    <3> QED BY <3>1, <2>1, <2>2, <1>0
  <2>5. Len(heard[n]) + 1 >= IF n < Len(tones) /\ at + 1 = Len(Current) THEN at + 1 - RsSize ELSE at + 1
    <3>1. RsSize = 2
      BY SizesAre
    <3>2. Len(heard[n]) + 1 >= at + 1 - 2
      BY <2>2, <2>4, <1>0
    <3> QED BY <2>4, <3>1, <3>2
  <2>6. /\ SignalCount(heard)' = SignalCount(heard') /\ Len(heard)' = n
        /\ Signals(tones)[n - 1]' = Signals(tones)[n - 1]
        /\ Signals(heard)[n - 1]' = Signals(heard)[n - 1]
        /\ Len(heard[n])' = Len(heard[n]) + 1
    BY <1>2
  <2>7. SignalCount(heard)' <= Signals(tones)[Len(heard) - 1]' + at' + noise'
    BY <2>3, <2>6
  <2>8. Len(heard[Len(heard)])' >=
           (IF Len(heard) < Len(tones) /\ at = Len(Current) THEN at - RsSize ELSE at)'
    <3>1. Len(heard[Len(heard)])' = Len(heard[n]) + 1
      BY <2>6
    <3>2. /\ (Len(heard) < Len(tones) /\ at = Len(Current))' <=> n < Len(tones) /\ at + 1 = Len(Current)
          /\ at' - RsSize = at + 1 - RsSize /\ at' = at + 1
      <4>1. Len(heard)' = n /\ Len(tones)' = Len(tones)
        BY <2>6
      <4>2. Len(Current)' = Len(Current)
        BY <1>3
      <4>3. (Len(heard) < Len(tones))' <=> n < Len(tones)
        BY <4>1
      <4>4. (at = Len(Current))' <=> at + 1 = Len(Current)
        BY <4>2
      <4>5. at' = at + 1
        OBVIOUS
      <4>6. at' - RsSize = at + 1 - RsSize
        BY <4>5, <1>0, SizesAre
      <4>7. (Len(heard) < Len(tones) /\ at = Len(Current))' <=> n < Len(tones) /\ at + 1 = Len(Current)
        BY ONLY <4>3, <4>4
      <4> QED BY <4>5, <4>6, <4>7
    <3>3. CASE n < Len(tones) /\ at + 1 = Len(Current)
      <4>1. Len(heard[n]) + 1 >= at' - RsSize
        BY <2>5, <3>2, <3>3
      <4> QED BY <4>1, <3>1, <3>2, <3>3
    <3>4. CASE ~(n < Len(tones) /\ at + 1 = Len(Current))
      <4>1. Len(heard[n]) + 1 >= at'
        BY <2>5, <3>2, <3>4
      <4> QED BY <4>1, <3>1, <3>2, <3>4
    <3> QED BY <3>3, <3>4
  <2>9. (Len(heard) > 1 => Signals(heard)[Len(heard) - 1] >= BlockSize + 1)'
    BY <2>1, <2>6
  <2> QED BY <2>7, <2>8, <2>9 DEF Counted
<1>8. ASSUME NEW b \in 1 .. n - 1
      PROVE  Tracks(heard'[b], b, Passed(b)', tones, damage', sent)
  <2>0. b \in 1 .. Len(heard) /\ b < n /\ b # n
    BY <1>n
  <2>1. Tracks(heard[b], b, Passed(b), tones, damage, sent)
    BY <2>0, <1>1 DEF Followed
  <2>2. Passed(b)' = Passed(b) /\ heard'[b] = heard[b]
    BY <2>0, <1>2, <1>4
  <2>3. DamageIn(damage, b) = DamageIn(damage', b)
    BY <2>0, <1>n DEF DamageIn
  <2>4. Tracks(heard[b], b, Passed(b), tones, damage', sent)
    BY <2>1, <2>3, TracksElsewhere
  <2> QED BY <2>2, <2>4
<1>9. Tracks(heard'[n], n, at + 1, tones, damage', sent)
  <2>1. SUFFICES ASSUME Unleant(tones, damage', n), NEW before \in Int \X Int,
                        Carries(before, n, tones, sent)
                 PROVE  \E p \in Outcomes(heard'[n], before)[Len(heard'[n])] :
                          Follows(p, n, at + 1, tones, damage', before, sent)
    BY DEF Tracks
  <2>2. Unleant(tones, damage, n)
    BY <2>1 DEF Unleant
  <2>3. Tracks(heard[n], n, at, tones, damage, sent)
    <3>1. n \in 1 .. Len(heard) /\ Passed(n) = at
      BY <1>n, <1>4
    <3> QED BY <3>1, <1>1 DEF Followed
  <2>4. PICK o \in Outcomes(heard[n], before)[Len(heard[n])] :
          Follows(o, n, at, tones, damage, before, sent)
    BY <2>1, <2>2, <2>3 DEF Tracks
  <2> DEFINE p == Take(o, token, signal.suspect)
  <2>5. p \in Outcomes(heard'[n], before)[Len(heard'[n])]
    BY <2>4, <1>2, OutcomesAppend
  <2>6. o \in Outcome
    BY <2>4, <1>2, OutcomeOf
  <2>7. CASE at = 0
    <3>1. token = Start /\ at + 1 = 1
      BY <2>7
    <3>2. Follows(p, n, 1, tones, damage', before, sent)
      <4>1. 1 \in {0, 1} /\ at \in {0, 1}
        BY <2>7
      <4>2. ASSUME NEW a \in {0, 1}, Follows(o, n, a, tones, damage, before, sent)
            PROVE  Follows(Take(o, Start, signal.suspect), n, 1, tones, damage', before, sent)
        BY ONLY <4>2, StepStart
      <4>3. Follows(Take(o, Start, signal.suspect), n, 1, tones, damage', before, sent)
        BY <2>4, <4>1, <4>2
      <4> QED BY <3>1, <4>3
    <3> QED BY <2>5, <3>1, <3>2
  <2>8. CASE at # 0
    <3>1. at \in 1 .. Len(sent[n]) /\ n \in 1 .. Len(sent)
      BY <2>8, <1>0, <1>n
    <3>2. \A d \in damage : d.block = n => d.pos \in 1 .. at - 1
      <4>1. Passed(n) = at
        BY <1>4
      <4> QED BY <4>1, <1>5
    <3>3. \A d \in damage' \ damage : d.block = n =>
            d.pos = at /\ d.token = token /\ (d.marked => signal.suspect \/ token = Start)
      OBVIOUS
    <3>4. at \in Hurt(damage', n) \/ token = tones[n][at + 1]
      BY <1>n, <1>3 DEF Token
    <3>5. signal.suspect \in BOOLEAN
      BY DEF Signal
    <3>6. Follows(p, n, at + 1, tones, damage', before, sent)
      BY <2>1, <2>4, <2>6, <3>1, <3>2, <3>3, <3>4, <3>5, <1>0, StepSymbol
    <3> QED BY <2>5, <3>6
  <2> QED BY <2>7, <2>8
<1>10. Followed'
  <2>1. ASSUME NEW b \in 1 .. n PROVE Tracks(heard'[b], b, Passed(b)', tones, damage', sent)
    <3>1. CASE b = n
      <4>1. Passed(b)' = at + 1
        BY <3>1, <1>4
      <4> QED BY <3>1, <4>1, <1>9
    <3>2. CASE b # n
      <4>1. b \in 1 .. n - 1
        BY <3>2
      <4> QED BY <4>1, <1>8
    <3> QED BY <3>1, <3>2
  <2> QED BY <2>1, <1>2, <1>3 DEF Followed
<1> QED BY <1>1, <1>6, <1>7, <1>10 DEF AirInv

LEMMA TokenType ==
    ASSUME AirInv, tones # <<>>, at < Len(Current)
    PROVE  Token \in Alphabet /\ (at = 0 => Token = Start)
<1>1. /\ tones \in Seq(Seq(Alphabet)) /\ Len(heard) \in 1 .. Len(tones) /\ at \in Nat
      /\ Current[1] = Start /\ Len(Current) \in Nat
  BY AirFacts
<1>2. Current \in Seq(Alphabet)
  BY <1>1, ElementOfSeq DEF Current
<1>3. at + 1 \in 1 .. Len(Current)
  BY <1>1
<1>4. Token \in Alphabet
  BY <1>2, <1>3, ElementOfSeq DEF Token
<1>5. at = 0 => Token = Start
  BY <1>1 DEF Token
<1> QED BY <1>4, <1>5

\* A tone that one of the alternatives tells, or that is wrong and in the damage.
LEMMA HearToneInv ==
    ASSUME AirInv, Coming, NEW alternatives \in Seq(Alphabet), NEW suspect \in BOOLEAN,
           Hear(alternatives, suspect),
           NEW token \in ToSet(alternatives),
           noise' \in Nat, noise' >= noise, noise' <= info.noise,
           damage \subseteq damage', damage' \subseteq Damage, IsFiniteSet(damage'),
           \A d \in damage' \ damage :
               /\ d.block = Len(heard) /\ d.pos = at /\ d.token = token
               /\ d.marked => suspect \/ token = Start,
           at = 0 => damage' = damage /\ token = Start,
           at \in Hurt(damage', Len(heard)) \/ token = Token
    PROVE  AirInv'
<1>1. PICK signal \in Signal : signal = [alternatives |-> alternatives, suspect |-> suspect]
  BY DEF Signal
<1>2. /\ heard' = [heard EXCEPT ![Len(heard)] = Append(@, signal)] /\ at' = at + 1
      /\ info' = info /\ tones' = tones
  BY <1>1 DEF Hear
<1>3. tones # <<>> /\ at < Len(Current)
  BY DEF Coming
<1>4. token \in Alphabet
  <2>1. PICK i \in DOMAIN alternatives : token = alternatives[i]
    BY ToSetIs
  <2> QED BY <2>1, ElementType
<1>5. token \in ToSet(signal.alternatives)
  BY <1>1
<1>6. \A d \in damage' \ damage :
        /\ d.block = Len(heard) /\ d.pos = at /\ d.token = token
        /\ d.marked => signal.suspect \/ token = Start
  BY <1>1
<1> QED BY <1>2, <1>3, <1>4, <1>5, <1>6, HearInv

LEMMA ToSetPair ==
    ASSUME NEW x \in Alphabet, NEW y \in Alphabet
    PROVE  /\ <<x>> \in Seq(Alphabet) /\ ToSet(<<x>>) = {x}
           /\ <<x, y>> \in Seq(Alphabet) /\ ToSet(<<x, y>>) = {x, y}
<1>1. ToSet(<<x>>) = {x}
  BY DEF ToSet
<1>2. ToSet(<<x, y>>) = {x, y}
  <2>1. DOMAIN <<x, y>> = {1, 2}
    OBVIOUS
  <2> QED BY <2>1 DEF ToSet
<1>3. <<x>> \in Seq(Alphabet) /\ <<x, y>> \in Seq(Alphabet)
  OBVIOUS
<1> QED BY <1>1, <1>2, <1>3

\* A tone that is heard, alone, suspect or with another, leaves no damage.
LEMMA HeardInv ==
    ASSUME AirInv, HearWell \/ HearSuspect \/ HearOneOfTwo
    PROVE  AirInv'
<1>1. Coming /\ tones # <<>> /\ at < Len(Current) /\ damage' = damage
  BY DEF HearWell, HearSuspect, HearOneOfTwo, Coming
<1>2. PICK token \in Alphabet : token = Token /\ (at = 0 => token = Start)
  BY <1>1, TokenType
<1>3. damage \subseteq Damage /\ IsFiniteSet(damage) /\ noise <= info.noise
  BY <1>1 DEF AirInv, InAir
<1>4. noise \in Nat /\ info.noise \in Nat
  BY <1>1, AirFacts
<1>5. noise' \in Nat /\ noise' >= noise /\ noise' <= info.noise
  <2>1. noise' = noise \/ (noise' = noise + 1 /\ noise < info.noise)
    BY DEF HearWell, HearSuspect, HearOneOfTwo, Interfere
  <2> QED BY <2>1, <1>3, <1>4
<1>6. ASSUME NEW alternatives \in Seq(Alphabet), NEW suspect \in BOOLEAN,
             Hear(alternatives, suspect), token \in ToSet(alternatives)
      PROVE  AirInv'
  <2>1. \A d \in damage' \ damage :
           /\ d.block = Len(heard) /\ d.pos = at /\ d.token = token
           /\ d.marked => suspect \/ token = Start
    BY <1>1
  <2> QED BY <1>1, <1>2, <1>3, <1>5, <1>6, <2>1, HearToneInv
<1>7. CASE HearWell \/ HearSuspect
  <2>1. Hear(<<token>>, FALSE) \/ Hear(<<token>>, TRUE)
    BY <1>2, <1>7 DEF HearWell, HearSuspect
  <2>2. <<token>> \in Seq(Alphabet) /\ token \in ToSet(<<token>>)
    BY ToSetPair
  <2> QED BY <2>1, <2>2, <1>6
<1>8. CASE HearOneOfTwo
  <2>1. PICK w \in Wrong \ {Start} : Hear(<<token, w>>, FALSE) \/ Hear(<<w, token>>, FALSE)
    BY <1>2, <1>8 DEF HearOneOfTwo
  <2>2. w \in Alphabet
    BY <1>2 DEF Wrong, Alphabet, Start, Overlap
  <2>3. /\ <<token, w>> \in Seq(Alphabet) /\ token \in ToSet(<<token, w>>)
        /\ <<w, token>> \in Seq(Alphabet) /\ token \in ToSet(<<w, token>>)
    BY <2>2, ToSetPair
  <2> QED BY <2>1, <2>3, <1>6
<1> QED BY <1>7, <1>8

LEMMA HearWrongInv ==
    ASSUME AirInv, HearWrong
    PROVE  AirInv'
<1>1. Coming /\ tones # <<>> /\ at < Len(Current) /\ at > 0
  BY DEF HearWrong, Coming
<1>2. /\ damage \subseteq Damage /\ IsFiniteSet(damage) /\ noise <= info.noise
      /\ noise \in Nat /\ info.noise \in Nat /\ at \in Nat /\ Len(heard) \in Nat
  BY <1>1, AirFacts DEF AirInv, InAir
<1>3. noise' \in Nat /\ noise' >= noise /\ noise' <= info.noise
  <2>1. noise' = noise + 1 /\ noise < info.noise
    BY DEF HearWrong, Interfere
  <2> QED BY <2>1, <1>2
<1>4. PICK w \in Wrong, suspect \in BOOLEAN :
        /\ Hear(<<w>>, suspect)
        /\ damage' = damage \cup {[block |-> Len(heard), pos |-> at, token |-> w,
                                   marked |-> suspect \/ w = Start]}
  BY DEF HearWrong
<1>5. w \in Alphabet
  <2>1. Token \in Alphabet
    BY <1>1, TokenType
  <2> QED BY <2>1 DEF Wrong, Alphabet, Start, Overlap
<1>6. <<w>> \in Seq(Alphabet) /\ w \in ToSet(<<w>>)
  BY <1>5, ToSetPair
<1>d. PICK d \in Damage : d = [block |-> Len(heard), pos |-> at, token |-> w,
                               marked |-> suspect \/ w = Start]
  <2>1. w \in Int
    BY <1>5 DEF Alphabet
  <2>2. PICK marked \in BOOLEAN : marked = (suspect \/ w = Start)
    OBVIOUS
  <2>3. [block |-> Len(heard), pos |-> at, token |-> w, marked |-> marked] \in Damage
    BY <1>2, <2>1 DEF Damage
  <2> QED BY <2>2, <2>3
<1>7. damage' = damage \cup {d}
  BY <1>4, <1>d
<1>8. damage \subseteq damage' /\ damage' \subseteq Damage /\ IsFiniteSet(damage')
  BY <1>7, <1>2, FS_AddElement
<1>9. d.block = Len(heard) /\ d.pos = at /\ d.token = w /\ (d.marked => suspect \/ w = Start)
  BY <1>d
<1>10. \A e \in damage' \ damage :
          /\ e.block = Len(heard) /\ e.pos = at /\ e.token = w
          /\ e.marked => suspect \/ w = Start
  BY <1>7, <1>9
<1>11. at \in Hurt(damage', Len(heard))
  BY <1>7, <1>9 DEF Hurt
<1>12. at = 0 => damage' = damage /\ w = Start
  BY <1>1
<1> QED BY <1>1, <1>3, <1>4, <1>6, <1>8, <1>10, <1>11, <1>12, HearToneInv

\* A start tone more, before the symbols or after the message's last one.
LEMMA HearStartTwiceInv ==
    ASSUME AirInv, HearStartTwice
    PROVE  AirInv'
<1> DEFINE sent == SentBlocks(Message)
<1>t. tones # <<>> /\ heard[Len(heard)] # <<>> /\ at \in {1, Len(Current)}
      /\ noise < info.noise /\ noise' = noise + 1
      /\ UNCHANGED <<info, plays, tones, at, damage, through, decoded>>
  BY DEF HearStartTwice, Interfere
<1>s. PICK signal \in Signal : signal = [alternatives |-> <<Start>>, suspect |-> FALSE]
  <2>1. <<Start>> \in Seq(Alphabet)
    BY DEF Start, Alphabet
  <2> QED BY <2>1 DEF Signal
<1>h. heard' = [heard EXCEPT ![Len(heard)] = Append(@, signal)]
  BY <1>s DEF HearStartTwice
<1>0. /\ Sent(sent) /\ Rendered(tones, sent) /\ Len(tones) = Len(sent)
      /\ Len(heard) \in 1 .. Len(tones) /\ Len(heard) \in Nat \ {0} /\ Len(tones) \in Nat \ {0}
      /\ Len(Current) = Len(sent[Len(heard)]) + 1 /\ Len(Current) \in Nat /\ Len(Current) >= 4
      /\ at \in Nat /\ noise \in Nat /\ info.noise \in Nat
  BY <1>t, AirFacts
<1>n. PICK n \in Nat \ {0} : n = Len(heard)
  BY <1>0
<1>1. InAir /\ Counted /\ Followed /\ info \in Infos
  BY <1>t DEF AirInv
<1>2. /\ heard' \in Seq(Seq(Signal)) /\ Len(heard') = n
      /\ heard[n] \in Seq(Signal)
      /\ heard'[n] = Append(heard[n], signal)
      /\ Len(heard'[n]) = Len(heard[n]) + 1
      /\ \A b \in 1 .. n - 1 : heard'[b] = heard[b]
      /\ Signals(heard')[n - 1] = Signals(heard)[n - 1]
      /\ SignalCount(heard') = SignalCount(heard) + 1
  BY <1>t, <1>h, <1>n, OneMore
<1>3. Message' = Message /\ SentBlocks(Message)' = sent /\ Current' = Current /\ Current = tones[n]
  <2>1. Message' = Message
    BY <1>t DEF Message
  <2> QED BY <2>1, <1>2, <1>n, <1>t DEF Current
<1>4. /\ \A b : Passed(b) = IF b < n THEN Len(tones[b]) ELSE at
      /\ \A b : Passed(b)' = Passed(b)
  BY <1>2, <1>n, <1>t DEF Passed
<1>5. ASSUME NEW d \in damage
      PROVE  d.block \in 1 .. n /\ d.pos \in 1 .. Passed(d.block) - 1
  BY <1>1, <1>n DEF InAir
<1>6. InAir'
  <2>1. tones = Song(Message) /\ n \in 1 .. Len(tones)
        /\ at \in 0 .. Len(Current) /\ damage \subseteq Damage /\ IsFiniteSet(damage)
    BY <1>1, <1>n DEF InAir
  <2>2. noise' <= info'.noise
    BY <1>t, <1>0
  <2>3. \A d \in damage' : d.block \in 1 .. Len(heard)' /\ d.pos \in 1 .. Passed(d.block)' - 1
    BY <1>t, <1>2, <1>4, <1>5
  <2> QED BY <2>1, <2>2, <2>3, <1>2, <1>3, <1>t DEF InAir
<1>7. Counted'
  <2>1. /\ SignalCount(heard) <= Signals(tones)[n - 1] + at + noise
        /\ Len(heard[n]) >= IF n < Len(tones) /\ at = Len(Current) THEN at - RsSize ELSE at
        /\ n > 1 => Signals(heard)[n - 1] >= BlockSize + 1
    BY <1>1, <1>n DEF Counted
  <2>2. SignalCount(heard) \in Nat /\ Signals(tones)[n - 1] \in Nat /\ Len(heard[n]) \in Nat
    <3>1. heard \in Seq(Seq(Signal)) /\ tones \in Seq(Seq(Alphabet))
      BY <1>0, <1>1 DEF InAir, Rendered
    <3>2. n \in 0 .. Len(heard) /\ n - 1 \in 0 .. Len(tones)
      BY <1>0, <1>n
    <3>3. Signals(heard)[n] \in Nat /\ Signals(tones)[n - 1] \in Nat
      BY <3>1, <3>2, SignalsType
    <3>4. SignalCount(heard) = Signals(heard)[n]
      BY <1>n DEF SignalCount
    <3>5. Len(heard[n]) \in Nat
      BY <1>2
    <3> QED BY <3>3, <3>4, <3>5
  <2>3. SignalCount(heard') <= Signals(tones)[n - 1] + at + noise'
    <3>1. noise' = noise + 1
      BY <1>t
    <3>2. SignalCount(heard') = SignalCount(heard) + 1
      BY <1>2
    <3>3. SignalCount(heard) <= Signals(tones)[n - 1] + at + noise
      BY <2>1
    <3>4. at \in Nat /\ noise \in Nat
      BY <1>0
    <3> QED BY ONLY <3>1, <3>2, <3>3, <3>4, <2>2
  <2>4. /\ SignalCount(heard)' = SignalCount(heard') /\ Len(heard)' = n
        /\ Signals(tones)[n - 1]' = Signals(tones)[n - 1]
        /\ Signals(heard)[n - 1]' = Signals(heard)[n - 1]
        /\ Len(heard[Len(heard)])' = Len(heard[n]) + 1
        /\ at' = at /\ Len(tones)' = Len(tones) /\ Len(Current)' = Len(Current)
    BY <1>2, <1>3, <1>t
  <2>5. SignalCount(heard)' <= Signals(tones)[Len(heard) - 1]' + at' + noise'
    BY <2>3, <2>4
  <2>6. CASE n < Len(tones) /\ at = Len(Current)
    <3>1. Len(heard[n]) + 1 >= at - RsSize
      <4>1. Len(heard[n]) >= at - RsSize
        BY <2>1, <2>6
      <4> QED BY <4>1, <2>2, <1>0, SizesAre
    <3>2. (Len(heard) < Len(tones) /\ at = Len(Current))'
      BY <2>4, <2>6
    <3> QED BY <3>1, <3>2, <2>1, <2>4, <2>5 DEF Counted
  <2>7. CASE ~(n < Len(tones) /\ at = Len(Current))
    <3>1. Len(heard[n]) + 1 >= at
      <4>1. Len(heard[n]) >= at
        BY <2>1, <2>7
      <4> QED BY <4>1, <2>2, <1>0
    <3>2. ~(Len(heard) < Len(tones) /\ at = Len(Current))'
      BY <2>4, <2>7
    <3> QED BY <3>1, <3>2, <2>1, <2>4, <2>5 DEF Counted
  <2> QED BY <2>6, <2>7
<1>8. ASSUME NEW b \in 1 .. n - 1
      PROVE  Tracks(heard'[b], b, Passed(b), tones, damage, sent)
  <2>1. b \in 1 .. Len(heard)
    BY <1>n
  <2>2. Tracks(heard[b], b, Passed(b), tones, damage, sent)
    BY <2>1, <1>1 DEF Followed
  <2> QED BY <2>2, <1>2
<1>9. Tracks(heard'[n], n, at, tones, damage, sent)
  <2>1. SUFFICES ASSUME Unleant(tones, damage, n), NEW before \in Int \X Int,
                        Carries(before, n, tones, sent)
                 PROVE  \E p \in Outcomes(heard'[n], before)[Len(heard'[n])] :
                          Follows(p, n, at, tones, damage, before, sent)
    BY DEF Tracks
  <2>2. Passed(n) = at /\ n \in 1 .. Len(heard)
    BY <1>4, <1>n
  <2>3. Tracks(heard[n], n, at, tones, damage, sent)
    BY <2>2, <1>1 DEF Followed
  <2>4. PICK o \in Outcomes(heard[n], before)[Len(heard[n])] :
          Follows(o, n, at, tones, damage, before, sent)
    BY <2>1, <2>3 DEF Tracks
  <2> DEFINE p == Take(o, Start, FALSE)
  <2>5. p \in Outcomes(heard'[n], before)[Len(heard'[n])]
    <3>1. Start \in ToSet(signal.alternatives) /\ signal.suspect = FALSE
      <4>1. Start \in Alphabet
        BY DEF Start, Alphabet
      <4>2. Start \in ToSet(<<Start>>)
        BY <4>1, ToSetPair
      <4> QED BY <4>2, <1>s
    <3> QED BY <3>1, <2>4, <1>2, OutcomesAppend
  <2>6. o \in Outcome
    BY <2>4, <1>2, OutcomeOf
  <2>7. CASE at = 1
    <3>0. ASSUME NEW a \in {0, 1}, NEW suspect \in BOOLEAN,
                 Follows(o, n, a, tones, damage, before, sent)
          PROVE  Follows(Take(o, Start, suspect), n, 1, tones, damage, before, sent)
      BY ONLY <3>0, StepStart
    <3>1. ASSUME Follows(o, n, 1, tones, damage, before, sent)
          PROVE  Follows(Take(o, Start, FALSE), n, 1, tones, damage, before, sent)
      BY ONLY <3>1, <3>0
    <3>2. Follows(p, n, at, tones, damage, before, sent)
      BY <2>4, <2>7, <3>1
    <3> QED BY <2>5, <3>2
  <2>8. CASE at # 1
    <3>1. at = Len(tones[n]) /\ n \in 1 .. Len(sent)
      BY <2>8, <1>t, <1>0, <1>n, <1>3
    <3>2. \A d \in damage : d.block = n => d.pos \in 1 .. at - 1
      BY <2>2, <1>5
    <3>3. Follows(p, n, at, tones, damage, before, sent)
      BY <2>4, <2>6, <3>1, <3>2, <1>0, StepSurplus
    <3> QED BY <2>5, <3>3
  <2> QED BY <2>7, <2>8
<1>10. Followed'
  <2>1. ASSUME NEW b \in 1 .. n PROVE Tracks(heard'[b], b, Passed(b), tones, damage, sent)
    <3>1. CASE b = n
      <4>1. Passed(b) = at
        BY <3>1, <1>4
      <4> QED BY <3>1, <4>1, <1>9
    <3>2. CASE b # n
      <4>1. b \in 1 .. n - 1
        BY <3>2
      <4> QED BY <4>1, <1>8
    <3> QED BY <3>1, <3>2
  <2> QED BY <2>1, <1>2, <1>3, <1>4, <1>t DEF Followed
<1>11. info' \in Infos /\ noise' \in Nat
  BY <1>t, <1>0, <1>1
<1> QED BY <1>6, <1>7, <1>10, <1>11 DEF AirInv

\* The end of a block is lost.
LEMMA LoseEndInv ==
    ASSUME AirInv, LoseEnd
    PROVE  AirInv'
<1> DEFINE sent == SentBlocks(Message)
           lost(p) == [block |-> Len(heard), pos |-> p, token |-> Lost, marked |-> TRUE]
           places == at .. Len(Current) - 1
           more == {lost(p) : p \in places}
<1>t. /\ tones # <<>> /\ at < Len(Current) /\ Len(heard) < Len(tones)
      /\ at >= Len(Current) - RsSize /\ at' = Len(Current)
      /\ noise < info.noise /\ noise' = noise + 1
      /\ damage' = damage \cup more
      /\ UNCHANGED <<info, plays, tones, heard, through, decoded>>
  BY DEF LoseEnd, Interfere, Coming
<1>0. /\ Sent(sent) /\ Rendered(tones, sent) /\ Len(tones) = Len(sent)
      /\ Len(heard) \in 1 .. Len(tones) /\ Len(heard) \in Nat \ {0} /\ Len(tones) \in Nat \ {0}
      /\ Len(Current) = Len(sent[Len(heard)]) + 1 /\ Len(Current) \in Nat /\ Len(Current) >= 4
      /\ at \in Nat /\ noise \in Nat /\ info.noise \in Nat
  BY <1>t, AirFacts
<1>n. PICK n \in Nat \ {0} : n = Len(heard)
  BY <1>0
<1>1. InAir /\ Counted /\ Followed /\ info \in Infos
  BY <1>t DEF AirInv
<1>2. /\ Message' = Message /\ SentBlocks(Message)' = sent /\ Current' = Current /\ Current = tones[n]
      /\ at \in 1 .. Len(Current)
  <2>1. Message' = Message
    BY <1>t DEF Message
  <2>2. Current' = Current /\ Current = tones[n]
    BY <1>n, <1>t DEF Current
  <2>3. at >= 1
    BY <1>t, <1>0, SizesAre
  <2> QED BY <2>1, <2>2, <2>3, <1>0, <1>t
<1>3. /\ \A b : Passed(b) = IF b < n THEN Len(tones[b]) ELSE at
      /\ \A b : Passed(b)' = IF b < n THEN Len(tones[b]) ELSE Len(Current)
  BY <1>n, <1>t DEF Passed
<1>4. ASSUME NEW d \in damage
      PROVE  d.block \in 1 .. n /\ d.pos \in 1 .. Passed(d.block) - 1
  BY <1>1, <1>n DEF InAir
<1>5. ASSUME NEW d \in more
      PROVE  d \in Damage /\ d.block = n /\ d.pos \in at .. Len(Current) - 1
  <2>1. PICK p \in places : d = lost(p)
    OBVIOUS
  <2>2. p \in Nat
    BY <1>0
  <2>3. lost(p) \in Damage
    BY <2>2, <1>0 DEF Damage, Lost
  <2> QED BY <2>1, <2>3, <1>n
<1>6. places \subseteq Hurt(damage', n)
  <2>1. ASSUME NEW p \in places PROVE p \in Hurt(damage', n)
    <3>1. lost(p) \in damage' /\ lost(p).block = n /\ lost(p).pos = p
      BY <1>t, <1>n
    <3> HIDE DEF lost
    <3> QED BY <3>1 DEF Hurt
  <2> QED BY <2>1
<1>7. IsFiniteSet(more)
  <2>1. IsFiniteSet(places)
    BY <1>0, FS_Interval
  <2> DEFINE f == [p \in places |-> lost(p)]
  <2>2. f \in Surjection(places, more)
    BY DEF Surjection
  <2> HIDE DEF f, places, more
  <2> QED BY <2>1, <2>2, FS_Surjection
<1> HIDE DEF more
<1>8. InAir'
  <2>1. ASSUME NEW d \in damage' PROVE d.block \in 1 .. n /\ d.pos \in 1 .. Passed(d.block)' - 1
    <3>1. CASE d \in damage
      <4>1. d.block \in 1 .. n /\ d.pos \in 1 .. Passed(d.block) - 1
        BY <3>1, <1>4
      <4>2. CASE d.block < n
        BY <4>1, <4>2, <1>3
      <4>3. CASE ~(d.block < n)
        <5>1. d.pos \in 1 .. at - 1 /\ Passed(d.block)' = Len(Current)
          BY <4>1, <4>3, <1>3
        <5> QED BY <4>1, <5>1, <1>0, <1>t
      <4> QED BY <4>2, <4>3
    <3>2. CASE d \notin damage
      <4>1. d.block = n /\ d.pos \in at .. Len(Current) - 1
        BY <3>2, <1>5, <1>t
      <4>2. Passed(d.block)' = Len(Current)
        BY <4>1, <1>3
      <4> QED BY <4>1, <4>2, <1>0, <1>2
    <3> QED BY <3>1, <3>2
  <2>2. tones = Song(Message) /\ n \in 1 .. Len(tones)
        /\ heard \in Seq(Seq(Signal)) /\ damage \subseteq Damage /\ IsFiniteSet(damage)
    BY <1>1, <1>n DEF InAir
  <2>3. Len(Current) \in 0 .. Len(Current)
    BY <1>0
  <2>4. noise' <= info'.noise
    BY <1>0, <1>t
  <2>5. damage' \subseteq Damage /\ IsFiniteSet(damage')
    BY <2>2, <1>5, <1>7, <1>t, FS_Union
  <2> QED BY <2>1, <2>2, <2>3, <2>4, <2>5, <1>2, <1>n, <1>t DEF InAir
<1>9. Counted'
  <2>1. /\ SignalCount(heard) <= Signals(tones)[n - 1] + at + noise
        /\ Len(heard[n]) >= IF n < Len(tones) /\ at = Len(Current) THEN at - RsSize ELSE at
        /\ n > 1 => Signals(heard)[n - 1] >= BlockSize + 1
    BY <1>1, <1>n DEF Counted
  <2>2. SignalCount(heard) \in Nat /\ Signals(tones)[n - 1] \in Nat /\ Len(heard[n]) \in Nat
    <3>1. heard \in Seq(Seq(Signal)) /\ tones \in Seq(Seq(Alphabet))
      BY <1>0, <1>1 DEF InAir, Rendered
    <3>2. n \in 0 .. Len(heard) /\ n - 1 \in 0 .. Len(tones) /\ n \in 1 .. Len(heard)
      BY <1>0, <1>n
    <3>3. Signals(heard)[n] \in Nat /\ Signals(tones)[n - 1] \in Nat
      BY <3>1, <3>2, SignalsType
    <3>4. SignalCount(heard) = Signals(heard)[n]
      BY <1>n DEF SignalCount
    <3>5. heard[n] \in Seq(Signal)
      BY <3>1, <3>2, ElementOfSeq
    <3> QED BY <3>3, <3>4, <3>5
  <2>3. SignalCount(heard) <= Signals(tones)[n - 1] + Len(Current) + noise'
    <3>1. noise' = noise + 1 /\ at < Len(Current)
      BY <1>t
    <3>2. SignalCount(heard) <= Signals(tones)[n - 1] + at + noise
      BY <2>1
    <3>3. at \in Nat /\ noise \in Nat /\ Len(Current) \in Nat
      BY <1>0
    <3> QED BY ONLY <3>1, <3>2, <3>3, <2>2
  <2>4. Len(heard[n]) >= Len(Current) - RsSize
    <3>1. Len(heard[n]) >= at
      <4>1. at # Len(Current)
        BY <1>t, <1>0
      <4> QED BY <2>1, <4>1
    <3>2. at >= Len(Current) - RsSize
      BY <1>t
    <3> QED BY <3>1, <3>2, <2>2, <1>0, SizesAre
  <2>5. /\ SignalCount(heard)' = SignalCount(heard) /\ Len(heard)' = n
        /\ Signals(tones)[n - 1]' = Signals(tones)[n - 1]
        /\ Signals(heard)[n - 1]' = Signals(heard)[n - 1]
        /\ Len(heard[Len(heard)])' = Len(heard[n])
        /\ at' = Len(Current) /\ Len(tones)' = Len(tones) /\ Len(Current)' = Len(Current)
    BY <1>2, <1>n, <1>t
  <2>6. SignalCount(heard)' <= Signals(tones)[Len(heard) - 1]' + at' + noise'
    BY <2>3, <2>5
  <2>7. n < Len(tones)
    BY <1>n, <1>t
  <2>8. (Len(heard) < Len(tones) /\ at = Len(Current))'
    BY <2>5, <2>7
  <2> QED BY <2>1, <2>4, <2>5, <2>6, <2>8 DEF Counted
<1>10. ASSUME NEW b \in 1 .. n - 1
       PROVE  Tracks(heard[b], b, Passed(b)', tones, damage', sent)
  <2>0. b \in 1 .. Len(heard) /\ b < n /\ b # n
    BY <1>n
  <2>1. Tracks(heard[b], b, Passed(b), tones, damage, sent)
    BY <2>0, <1>1 DEF Followed
  <2>2. Passed(b)' = Passed(b)
    BY <2>0, <1>3
  <2>3. DamageIn(damage, b) = DamageIn(damage', b)
    BY <2>0, <1>5, <1>t DEF DamageIn
  <2>4. Tracks(heard[b], b, Passed(b), tones, damage', sent)
    BY <2>1, <2>3, TracksElsewhere
  <2> QED BY <2>2, <2>4
<1>11. Tracks(heard[n], n, Len(Current), tones, damage', sent)
  <2>1. SUFFICES ASSUME Unleant(tones, damage', n), NEW before \in Int \X Int,
                        Carries(before, n, tones, sent)
                 PROVE  \E p \in Outcomes(heard[n], before)[Len(heard[n])] :
                          Follows(p, n, Len(Current), tones, damage', before, sent)
    BY DEF Tracks
  <2>2. Unleant(tones, damage, n)
    BY <2>1, <1>t DEF Unleant
  <2>3. Tracks(heard[n], n, at, tones, damage, sent)
    <3>1. n \in 1 .. Len(heard) /\ Passed(n) = at
      BY <1>n, <1>3
    <3> QED BY <3>1, <1>1 DEF Followed
  <2>4. PICK o \in Outcomes(heard[n], before)[Len(heard[n])] :
          Follows(o, n, at, tones, damage, before, sent)
    BY <2>1, <2>2, <2>3 DEF Tracks
  <2>5. o \in Outcome
    <3>1. heard[n] \in Seq(Signal)
      BY <1>1, <1>n, <1>0, ElementOfSeq DEF InAir
    <3> QED BY <3>1, <2>4, OutcomeOf
  <2>6. /\ n \in 1 .. Len(sent) /\ n < Len(tones) /\ at \in Nat /\ at < Len(tones[n])
        /\ at >= Len(tones[n]) - RsSize
    BY <1>0, <1>n, <1>t, <1>2
  <2>7. damage \subseteq damage' /\ \A d \in damage' \ damage : d.block = n => d.pos \in at .. Len(tones[n]) - 1
    BY <1>5, <1>t, <1>2
  <2>8. at .. Len(tones[n]) - 1 \subseteq Hurt(damage', n)
    BY <1>6, <1>2
  <2>9. Follows(o, n, Len(tones[n]), tones, damage', before, sent)
    BY <2>4, <2>5, <2>6, <2>7, <2>8, <1>0, StepLose
  <2> QED BY <2>4, <2>9, <1>2
<1>12. Followed'
  <2>1. ASSUME NEW b \in 1 .. n PROVE Tracks(heard[b], b, Passed(b)', tones, damage', sent)
    <3>1. CASE b = n
      <4>1. Passed(b)' = Len(Current)
        BY <3>1, <1>3
      <4> QED BY <3>1, <4>1, <1>11
    <3>2. CASE b # n
      <4>1. b \in 1 .. n - 1
        BY <3>2
      <4> QED BY <4>1, <1>10
    <3> QED BY <3>1, <3>2
  <2> QED BY <2>1, <1>2, <1>n, <1>t DEF Followed
<1>13. info' \in Infos /\ noise' \in Nat
  BY <1>t, <1>0, <1>1
<1> QED BY <1>8, <1>9, <1>12, <1>13 DEF AirInv

\* Nothing of a block has passed.
LEMMA EmptyTracks ==
    ASSUME NEW b, NEW song, NEW dam, NEW sent
    PROVE  Tracks(<<>>, b, 0, song, dam, sent)
<1>1. SUFFICES ASSUME NEW before \in Int \X Int
               PROVE  \E o \in Outcomes(<<>>, before)[Len(<<>>)] : Follows(o, b, 0, song, dam, before, sent)
  BY DEF Tracks
<1>2. <<>> \in Seq(Signal) /\ Len(<<>>) = 0
  OBVIOUS
<1>3. Outcomes(<<>>, before)[0] = {Fresh(before)}
  BY <1>2, OutcomesDef
<1>4. Follows(Fresh(before), b, 0, song, dam, before, sent)
  BY DEF Follows
<1> QED BY <1>2, <1>3, <1>4

\* The next block begins.
LEMMA NextBlockInv ==
    ASSUME AirInv, NextBlock
    PROVE  AirInv'
<1> DEFINE sent == SentBlocks(Message)
<1>t. /\ tones # <<>> /\ at = Len(Current) /\ Len(heard) < Len(tones)
      /\ heard' = Append(heard, <<>>) /\ at' = 0
      /\ UNCHANGED <<info, plays, tones, noise, damage, through, decoded>>
  BY DEF NextBlock
<1>0. /\ Sent(sent) /\ Rendered(tones, sent) /\ Len(tones) = Len(sent)
      /\ Len(heard) \in 1 .. Len(tones) /\ Len(heard) \in Nat \ {0} /\ Len(tones) \in Nat \ {0}
      /\ Len(Current) = Len(sent[Len(heard)]) + 1 /\ Len(Current) \in Nat
      /\ at \in Nat /\ noise \in Nat
  BY <1>t, AirFacts
<1>n. PICK n \in Nat \ {0} : n = Len(heard)
  BY <1>0
<1>1. InAir /\ Counted /\ Followed /\ info \in Infos
  BY <1>t DEF AirInv
<1>2. /\ heard' \in Seq(Seq(Signal)) /\ Len(heard') = n + 1 /\ heard'[n + 1] = <<>>
      /\ \A b \in 1 .. n : heard'[b] = heard[b]
      /\ heard \in Seq(Seq(Signal)) /\ heard[n] \in Seq(Signal)
  <2>1. heard \in Seq(Seq(Signal)) /\ <<>> \in Seq(Signal)
    BY <1>1 DEF InAir
  <2>2. heard[n] \in Seq(Signal)
    BY <2>1, <1>n, <1>0, ElementOfSeq
  <2> QED BY <2>1, <2>2, <1>n, <1>t, AppendProperties
<1>3. Message' = Message /\ SentBlocks(Message)' = sent /\ Current = tones[n] /\ Current' = tones[n + 1]
  <2>1. Message' = Message
    BY <1>t DEF Message
  <2> QED BY <2>1, <1>2, <1>n, <1>t DEF Current
<1>4. /\ \A b : Passed(b) = IF b < n THEN Len(tones[b]) ELSE at
      /\ \A b : Passed(b)' = IF b < n + 1 THEN Len(tones[b]) ELSE 0
  BY <1>2, <1>n, <1>t DEF Passed
<1>5. ASSUME NEW b \in 1 .. n PROVE Passed(b)' = Passed(b)
  <2>1. CASE b = n
    BY <2>1, <1>3, <1>4, <1>t
  <2>2. CASE b # n
    <3>1. b < n /\ b < n + 1
      BY <2>2
    <3> QED BY <3>1, <1>4
  <2> QED BY <2>1, <2>2
<1>6. InAir'
  <2>1. ASSUME NEW d \in damage PROVE d.block \in 1 .. n + 1 /\ d.pos \in 1 .. Passed(d.block)' - 1
    <3>1. d.block \in 1 .. n /\ d.pos \in 1 .. Passed(d.block) - 1
      BY <1>1, <1>n DEF InAir
    <3> QED BY <3>1, <1>5
  <2>2. /\ tones = Song(Message) /\ n + 1 \in 1 .. Len(tones)
        /\ damage \subseteq Damage /\ IsFiniteSet(damage) /\ noise <= info.noise
    BY <1>0, <1>1, <1>n, <1>t DEF InAir
  <2>3. 0 \in 0 .. Len(Current)'
    <3>1. n + 1 \in 1 .. Len(sent)
      BY <1>0, <2>2
    <3>2. Len(tones[n + 1]) = Len(sent[n + 1]) + 1 /\ Len(sent[n + 1]) \in RsSize + 1 .. Full
      BY <3>1, <1>0 DEF Rendered, Sent
    <3>3. Len(tones[n + 1]) \in Nat
      BY <3>2, SizesAre
    <3> QED BY <3>3, <1>3
  <2> QED BY <2>1, <2>2, <2>3, <1>2, <1>3, <1>t DEF InAir
<1>7. Counted'
  <2>1. /\ SignalCount(heard) <= Signals(tones)[n - 1] + at + noise
        /\ Len(heard[n]) >= IF n < Len(tones) /\ at = Len(Current) THEN at - RsSize ELSE at
    BY <1>1, <1>n DEF Counted
  <2>2. n < Len(tones) /\ n \in 1 .. Len(sent) /\ n < Len(sent)
    BY <1>0, <1>n, <1>t
  <2>3. at = BlockSize + 3
    <3>1. Len(sent[n]) = Full
      BY <2>2, <1>0 DEF Sent
    <3> QED BY <3>1, <1>0, <1>n, <1>t, SizesAre
  <2>4. Len(heard[n]) >= BlockSize + 1
    <3>1. Len(heard[n]) >= at - RsSize
      BY <2>1, <2>2, <1>t
    <3> QED BY <3>1, <2>3, SizesAre
  <2>5. Signals(heard)[n] = Signals(heard)[n - 1] + Len(heard[n]) /\ SignalCount(heard) = Signals(heard)[n]
        /\ Signals(heard)[n - 1] \in Nat /\ Len(heard[n]) \in Nat
    <3>1. n \in 1 .. Len(heard) /\ n - 1 \in 0 .. Len(heard)
      BY <1>n
    <3>2. Signals(heard)[n] = Signals(heard)[n - 1] + Len(heard[n])
      BY <3>1, <1>2, SignalsDef
    <3>3. Signals(heard)[n - 1] \in Nat
      BY <3>1, <1>2, SignalsType
    <3>4. SignalCount(heard) = Signals(heard)[n]
      BY <1>n DEF SignalCount
    <3>5. Len(heard[n]) \in Nat
      BY <1>2
    <3> QED BY <3>2, <3>3, <3>4, <3>5
  <2>6. Signals(tones)[n] = Signals(tones)[n - 1] + at /\ Signals(tones)[n - 1] \in Nat
    <3>1. tones \in Seq(Seq(Alphabet)) /\ n \in 1 .. Len(tones) /\ n - 1 \in 0 .. Len(tones)
      BY <1>0, <1>n, <2>2 DEF Rendered
    <3>2. Signals(tones)[n] = Signals(tones)[n - 1] + Len(tones[n])
      BY <3>1, SignalsDef
    <3>3. Signals(tones)[n - 1] \in Nat
      BY <3>1, SignalsType
    <3>4. Len(tones[n]) = at
      BY <1>3, <1>t
    <3> QED BY <3>2, <3>3, <3>4
  <2>7. Signals(heard')[n] = Signals(heard)[n]
    <3>a. ASSUME NEW x \in Seq(Seq(Signal)), NEW y \in Seq(Seq(Signal)), n <= Len(x), n <= Len(y),
                 \A b \in 1 .. n : Len(x[b]) = Len(y[b])
          PROVE  Signals(x)[n] = Signals(y)[n]
      BY ONLY n \in Nat \ {0}, <3>a, SignalsAlike
    <3>1. n <= Len(heard') /\ n <= Len(heard)
      BY <1>2, <1>n
    <3>2. \A b \in 1 .. n : Len(heard'[b]) = Len(heard[b])
      BY <1>2
    <3> QED BY <3>1, <3>2, <3>a, <1>2
  <2>8. SignalCount(heard') = Signals(heard)[n]
    <3>1. n + 1 \in 1 .. Len(heard')
      BY <1>2
    <3>2. Signals(heard')[n + 1] = Signals(heard')[(n + 1) - 1] + Len(heard'[n + 1])
      BY <3>1, <1>2, SignalsDef
    <3>3. Len(heard'[n + 1]) = 0 /\ (n + 1) - 1 = n
      BY <1>2
    <3>4. SignalCount(heard') = Signals(heard')[n + 1]
      BY <1>2 DEF SignalCount
    <3> QED BY <3>2, <3>3, <3>4, <2>5, <2>7
  <2>9. SignalCount(heard') <= Signals(tones)[n] + 0 + noise
    BY <2>1, <2>5, <2>6, <2>8, <1>0
  <2>10. Signals(heard')[n] >= BlockSize + 1
    BY <2>4, <2>5, <2>7, SizesAre
  <2>11. (Len(heard) < Len(tones) /\ at = Len(Current))' => FALSE
    <3>1. n + 1 < Len(tones) => Len(tones[n + 1]) # 0
      <4>1. n + 1 < Len(tones) => n + 1 \in 1 .. Len(sent)
        BY <1>0
      <4>2. n + 1 \in 1 .. Len(sent) =>
              Len(tones[n + 1]) = Len(sent[n + 1]) + 1 /\ Len(sent[n + 1]) \in RsSize + 1 .. Full
        BY <1>0 DEF Rendered, Sent
      <4> QED BY <4>1, <4>2, SizesAre
    <3> QED BY <3>1, <1>2, <1>3, <1>t
  <2>12. /\ SignalCount(heard)' = SignalCount(heard') /\ Len(heard)' = n + 1
         /\ (n + 1) - 1 = n
         /\ Signals(tones)[n]' = Signals(tones)[n]
         /\ Signals(heard)[n]' = Signals(heard')[n]
         /\ Len(heard[Len(heard)])' = 0 /\ at' = 0
    BY <1>2, <1>t
  <2>13. SignalCount(heard)' <= Signals(tones)[Len(heard) - 1]' + at' + noise'
    BY <2>9, <2>12, <1>t
  <2>14. Len(heard[Len(heard)])' >=
           (IF Len(heard) < Len(tones) /\ at = Len(Current) THEN at - RsSize ELSE at)'
    BY <2>11, <2>12
  <2>15. (Len(heard) > 1 => Signals(heard)[Len(heard) - 1] >= BlockSize + 1)'
    BY <2>10, <2>12
  <2> QED BY <2>13, <2>14, <2>15 DEF Counted
<1>8. Followed'
  <2>1. ASSUME NEW b \in 1 .. n + 1 PROVE Tracks(heard'[b], b, Passed(b)', tones, damage, sent)
    <3>1. CASE b = n + 1
      <4>1. Passed(b)' = 0 /\ heard'[b] = <<>>
        BY <3>1, <1>2, <1>4
      <4>2. Tracks(<<>>, b, 0, tones, damage, sent)
        BY EmptyTracks
      <4> QED BY <4>1, <4>2
    <3>2. CASE b # n + 1
      <4>1. b \in 1 .. n /\ b \in 1 .. Len(heard)
        BY <3>2, <1>n
      <4>2. Tracks(heard[b], b, Passed(b), tones, damage, sent)
        BY <4>1, <1>1 DEF Followed
      <4> QED BY <4>1, <4>2, <1>2, <1>5
    <3> QED BY <3>1, <3>2
  <2> QED BY <2>1, <1>2, <1>3, <1>t DEF Followed
<1>9. info' \in Infos /\ noise' \in Nat
  BY <1>t, <1>0, <1>1
<1> QED BY <1>6, <1>7, <1>8, <1>9 DEF AirInv

\* The phone plays something.
LEMMA PlayInv ==
    ASSUME AirInv, NEW i \in Infos, Play(i)
    PROVE  AirInv'
<1> DEFINE song == Song(i.message)
           sent == SentBlocks(i.message)
<1>t. /\ tones' = song /\ heard' = << <<>> >>
      /\ at' = 0 /\ noise' = 0 /\ damage' = {} /\ info' = i
  BY DEF Play
<1>1. Told(i.message) /\ i.noise \in Nat
  BY InfoIs
<1>2. Sent(sent) /\ Rendered(song, sent)
  BY <1>1, SentIs, SongIs
<1>3. Message' = i.message /\ SentBlocks(Message)' = sent
  BY <1>t DEF Message
<1> HIDE DEF song, sent
<1>4. /\ Len(song) \in Nat \ {0} /\ song \in Seq(Seq(Alphabet)) /\ Len(song[1]) \in Nat /\ Len(song[1]) # 0
  <2>1. Len(song) = Len(sent) /\ Len(sent) \in Nat \ {0} /\ song \in Seq(Seq(Alphabet))
    BY <1>2 DEF Sent, Rendered
  <2>2. 1 \in 1 .. Len(sent)
    BY <2>1
  <2>3. Len(song[1]) = Len(sent[1]) + 1 /\ Len(sent[1]) \in RsSize + 1 .. Full
    BY <2>2, <1>2 DEF Sent, Rendered
  <2> QED BY <2>1, <2>3, SizesAre
<1>5. heard' \in Seq(Seq(Signal)) /\ Len(heard') = 1 /\ heard'[1] = <<>> /\ Current' = song[1]
  <2>1. heard' \in Seq(Seq(Signal)) /\ Len(heard') = 1 /\ heard'[1] = <<>>
    BY <1>t
  <2> QED BY <2>1, <1>t DEF Current
<1>6. InAir'
  <2>1. (tones = Song(Message))'
    BY <1>1, <1>3, <1>t DEF song
  <2>2. (Len(heard) \in 1 .. Len(tones))' /\ (at \in 0 .. Len(Current))' /\ (noise <= info.noise)'
    BY <1>1, <1>4, <1>5, <1>t
  <2>3. (damage \subseteq Damage /\ IsFiniteSet(damage))'
    BY <1>t, FS_EmptySet
  <2>4. \A d \in damage' : d.block \in 1 .. Len(heard)' /\ d.pos \in 1 .. Passed(d.block)' - 1
    BY <1>t
  <2> QED BY <2>1, <2>2, <2>3, <2>4, <1>5 DEF InAir
<1>7. Counted'
  <2>1. Signals(song)[0] = 0
    BY <1>4, SignalsDef
  <2>2. SignalCount(heard') = 0
    <3>1. ASSUME NEW x \in Seq(Seq(Signal)), Len(x) = 1, Len(x[1]) = 0
          PROVE  SignalCount(x) = 0
      <4>1. Signals(x)[0] = 0
        BY <3>1, SignalsDef
      <4>2. 1 \in 1 .. Len(x) /\ 1 - 1 = 0
        BY <3>1
      <4>3. Signals(x)[1] = Signals(x)[1 - 1] + Len(x[1])
        BY <4>2, SignalsDef
      <4> QED BY <3>1, <4>1, <4>2, <4>3 DEF SignalCount
    <3>2. Len(heard'[1]) = 0
      BY <1>5
    <3> QED BY <3>1, <3>2, <1>5
  <2>3. /\ SignalCount(heard)' = 0 /\ Len(heard)' = 1 /\ 1 - 1 = 0
        /\ Signals(tones)[0]' = 0
        /\ Len(heard[Len(heard)])' = 0 /\ at' = 0 /\ noise' = 0
    BY <2>1, <2>2, <1>5, <1>t
  <2>4. SignalCount(heard)' <= Signals(tones)[Len(heard) - 1]' + at' + noise'
    BY <2>3
  <2>5. ~(at = Len(Current))'
    BY <1>4, <1>5, <1>t
  <2>6. Len(heard[Len(heard)])' >=
          (IF Len(heard) < Len(tones) /\ at = Len(Current) THEN at - RsSize ELSE at)'
    BY <2>3, <2>5
  <2> QED BY <2>3, <2>4, <2>6 DEF Counted
<1>8. Followed'
  <2>1. ASSUME NEW b \in 1 .. 1 PROVE Tracks(heard'[b], b, Passed(b)', song, {}, sent)
    <3>1. Passed(b)' = 0 /\ heard'[b] = <<>>
      BY <1>5, <1>t DEF Passed
    <3>2. Tracks(<<>>, b, 0, song, {}, sent)
      BY EmptyTracks
    <3> QED BY <3>1, <3>2
  <2> QED BY <2>1, <1>3, <1>5, <1>t DEF Followed
<1>9. info' \in Infos /\ noise' \in Nat
  BY <1>t
<1> QED BY <1>6, <1>7, <1>8, <1>9 DEF AirInv

\* When the sound is over and the damage is bearable, the search is given what
\* it needs.
LEMMA BearableIs ==
    ASSUME Bearable, NEW b \in DOMAIN tones
    PROVE  /\ Len(heard[b]) <= MaxBlockSignals
           /\ Unleant(tones, damage, b) /\ Tolerable(tones, damage, b)
<1> DEFINE here == DamageIn(damage, b)
<1>1. /\ Len(heard[b]) <= MaxBlockSignals
      /\ \A d \in here : ~Edge(d) /\ After(b, d.pos) \notin {Overlap, Overlap2}
      /\ \/ Cardinality(here) <= 1
         \/ /\ Cardinality(here) = 2
            /\ \A d \in here : d.marked /\ (Short(b) => d.pos < Len(tones[b]) - RsSize)
  BY DEF Bearable, DamageIn
<1>2. Unleant(tones, damage, b)
  <2>1. SUFFICES ASSUME NEW d \in damage, d.block = b
                 PROVE  /\ ~(/\ d.token = Start
                             /\ d.pos = 1 \/ (b = Len(tones) /\ d.pos = Len(tones[b]) - 1))
                        /\ Following(tones, b, d.pos) \notin {Overlap, Overlap2}
    BY DEF Unleant
  <2>2. ~Edge(d) /\ After(b, d.pos) \notin {Overlap, Overlap2}
    BY <2>1, <1>1 DEF DamageIn
  <2>3. After(b, d.pos) = Following(tones, b, d.pos)
    BY DEF After, Following
  <2>4. ~(/\ d.token = Start
          /\ d.pos = 1 \/ (b = Len(tones) /\ d.pos = Len(tones[b]) - 1))
    BY <2>1, <2>2 DEF Edge
  <2> QED BY <2>2, <2>3, <2>4
<1>3. Tolerable(tones, damage, b)
  BY <1>1 DEF Tolerable, Short
<1> QED BY <1>1, <1>2, <1>3

Over == tones # <<>> /\ Len(heard) = Len(tones) /\ at = Len(Current)

LEMMA Searched ==
    ASSUME AirInv, Over, Bearable
    PROVE  LoopBlock(heard, SentBlocks(Message))
<1> DEFINE sent == SentBlocks(Message)
<1>t. tones # <<>> /\ Len(heard) = Len(tones) /\ at = Len(Current)
  BY DEF Over
<1>0. /\ Sent(sent) /\ Rendered(tones, sent) /\ Len(tones) = Len(sent) /\ Len(sent) \in Nat \ {0}
  BY <1>t, AirFacts
<1>1. /\ heard \in Seq(Seq(Signal)) /\ IsFiniteSet(damage) /\ Followed
      /\ \A d \in damage : d.block \in 1 .. Len(heard) /\ d.pos \in 1 .. Passed(d.block) - 1
  BY <1>t DEF AirInv, InAir
<1>n. Len(heard) = Len(sent)
  BY <1>0, <1>t
<1> HIDE DEF sent
<1>2. ASSUME NEW b \in 1 .. Len(sent)
      PROVE  Passed(b) = Len(tones[b])
  <2>1. CASE b = Len(heard)
    BY <2>1, <1>t DEF Passed, Current
  <2>2. CASE b # Len(heard)
    <3>1. b < Len(heard)
      BY <2>2, <1>0, <1>n
    <3> QED BY <3>1 DEF Passed
  <2> QED BY <2>1, <2>2
<1>3. ASSUME NEW b \in 1 .. Len(sent)
      PROVE  /\ Len(heard[b]) <= MaxBlockSignals
             /\ Unleant(tones, damage, b) /\ Tolerable(tones, damage, b)
             /\ Tracks(heard[b], b, Len(tones[b]), tones, damage, sent)
             /\ \A d \in damage : d.block = b => d.pos \in 1 .. Len(tones[b]) - 1
  <2>1. b \in DOMAIN tones
    <3>1. tones \in Seq(Seq(Alphabet)) /\ b \in 1 .. Len(tones)
      BY <1>0 DEF Rendered
    <3> QED BY <3>1
  <2>2. Len(heard[b]) <= MaxBlockSignals /\ Unleant(tones, damage, b) /\ Tolerable(tones, damage, b)
    BY <2>1, BearableIs
  <2>3. Tracks(heard[b], b, Passed(b), tones, damage, sent)
    BY <1>1, <1>n DEF Followed, sent
  <2>4. Passed(b) = Len(tones[b])
    BY <1>2
  <2>5. \A d \in damage : d.block = b => d.pos \in 1 .. Len(tones[b]) - 1
    BY <1>1, <2>4
  <2> QED BY <2>2, <2>3, <2>4, <2>5
<1>4. LoopBlock(heard, sent)
  BY <1>0, <1>1, <1>n, <1>3, Arrives
<1> QED BY <1>4 DEF sent

\* The number of signals is not refused.
LEMMA NumberTaken ==
    ASSUME AirInv, Over
    PROVE  ~(SignalCount(heard) <= CheckLen + RsSize) /\ ~(SignalCount(heard) >= MaxSignals)
<1> DEFINE sent == SentBlocks(Message)
<1>t. tones # <<>> /\ Len(heard) = Len(tones) /\ at = Len(Current)
  BY DEF Over
<1>0. /\ Sent(sent) /\ Rendered(tones, sent) /\ Len(tones) = Len(sent)
      /\ Len(heard) \in 1 .. Len(tones) /\ Len(heard) \in Nat \ {0} /\ tones \in Seq(Seq(Alphabet))
      /\ Len(Current) = Len(sent[Len(heard)]) + 1 /\ Len(Current) \in Nat
      /\ at \in Nat /\ noise \in Nat /\ info.noise \in Nat
      /\ SignalCount(tones) + info.noise < MaxSignals
  BY <1>t, AirFacts
<1>n. PICK n \in Nat \ {0} : n = Len(heard)
  BY <1>0
<1>1. heard \in Seq(Seq(Signal)) /\ noise <= info.noise /\ Counted
  BY <1>t DEF AirInv, InAir
<1>2. /\ SignalCount(heard) <= Signals(tones)[n - 1] + at + noise
      /\ Len(heard[n]) >= at
      /\ n > 1 => Signals(heard)[n - 1] >= BlockSize + 1
  <2>1. ~(n < Len(tones))
    BY <1>n, <1>t, <1>0
  <2> QED BY <2>1, <1>1, <1>n DEF Counted
<1>3. /\ SignalCount(heard) = Signals(heard)[n - 1] + Len(heard[n])
      /\ Signals(heard)[n - 1] \in Nat /\ Len(heard[n]) \in Nat
  <2>1. n \in 1 .. Len(heard) /\ n - 1 \in 0 .. Len(heard)
    BY <1>n
  <2>2. Signals(heard)[n] = Signals(heard)[n - 1] + Len(heard[n])
    BY <2>1, <1>1, SignalsDef
  <2>3. Signals(heard)[n - 1] \in Nat
    BY <2>1, <1>1, SignalsType
  <2>4. SignalCount(heard) = Signals(heard)[n]
    BY <1>n DEF SignalCount
  <2>5. heard[n] \in Seq(Signal)
    BY <2>1, <1>1, ElementOfSeq
  <2> QED BY <2>2, <2>3, <2>4, <2>5
<1>4. SignalCount(tones) = Signals(tones)[n - 1] + at /\ Signals(tones)[n - 1] \in Nat
  <2>1. n \in 1 .. Len(tones) /\ n - 1 \in 0 .. Len(tones)
    BY <1>n, <1>0
  <2>2. Signals(tones)[n] = Signals(tones)[n - 1] + Len(tones[n])
    BY <2>1, <1>0, SignalsDef
  <2>3. Signals(tones)[n - 1] \in Nat
    BY <2>1, <1>0, SignalsType
  <2>4. SignalCount(tones) = Signals(tones)[n]
    BY <1>n, <1>t DEF SignalCount
  <2>5. Len(tones[n]) = at
    BY <1>n, <1>t DEF Current
  <2> QED BY <2>2, <2>3, <2>4, <2>5
<1>5. ~(SignalCount(heard) >= MaxSignals)
  <2>1. MaxSignals \in Nat
    BY TonesAssumption
  <2>2. SignalCount(heard) \in Nat /\ SignalCount(tones) \in Nat
    <3>1. SignalCount(heard) \in Nat
      BY <1>3
    <3>2. at \in Nat
      BY <1>0
    <3>3. SignalCount(tones) \in Nat
      BY <3>2, <1>4
    <3> QED BY <3>1, <3>3
  <2>3. SignalCount(heard) <= SignalCount(tones) + noise
    BY <1>0, <1>2, <1>4
  <2>4. noise \in Nat /\ info.noise \in Nat /\ noise <= info.noise
        /\ SignalCount(tones) + info.noise < MaxSignals
    BY <1>0, <1>1
  <2> QED BY ONLY <2>1, <2>2, <2>3, <2>4
<1>6. ~(SignalCount(heard) <= CheckLen + RsSize)
  <2>1. CheckLen + RsSize = 6
    BY SizesAre DEF CheckLen
  <2>2. CASE n = 1
    <3>1. Len(sent[n]) >= 7
      BY <2>2, <2>1, <1>0, <1>n, <1>t, SizesAre DEF Sent, CheckLen
    <3>2. Len(sent[n]) + 1 = at
      BY <1>0, <1>n, <1>t
    <3>3. Len(sent[n]) \in Nat
      <4>1. n \in 1 .. Len(sent)
        BY <1>0, <1>n
      <4>2. Len(sent[n]) \in RsSize + 1 .. Full
        BY <4>1, <1>0 DEF Sent
      <4> QED BY <4>2, SizesAre
    <3> QED BY <3>1, <3>2, <3>3, <2>1, <1>2, <1>3
  <2>3. CASE n # 1
    <3>1. Signals(heard)[n - 1] >= 4
      BY <2>3, <1>2, <1>3, SizesAre
    <3>2. at >= 4
      BY <1>t, AirFacts
    <3> QED BY <3>1, <3>2, <2>1, <1>0, <1>2, <1>3
  <2> QED BY <2>2, <2>3
<1> QED BY <1>5, <1>6

\* What the recogniser hands on is the message, and it does when the damage was
\* bearable.
LEMMA EndIs ==
    ASSUME AirInv, Over, NEW end, end = StopRecognition(heard, SentBlocks(Message), Message)
    PROVE  /\ end.status = "success" => end.data = Message
           /\ Bearable => end.status = "success"
<1>1. Message \in Seq(Nibble) /\ Len(Message) \in 1 .. MaxChars
  <2>1. info \in Infos
    BY DEF AirInv
  <2> QED BY <2>1, InfoIs DEF Told, Message
<1>2. PICK status : end = OnAfterECC(status, Message) /\ (Bearable => status = "success")
  <2>1. Bearable => LoopBlock(heard, SentBlocks(Message))
    BY Searched
  <2> QED BY <2>1, NumberTaken DEF StopRecognition
<1>3. end.status = status
  BY <1>2 DEF OnAfterECC
<1>4. end.status = "success" => end.data = Message
  <2>1. PICK m \in Seq(Nibble) : m = Message
    BY <1>1
  <2>2. (IF Len(m) < MaxChars THEN Len(m) ELSE MaxChars) = Len(m)
    BY <1>1, <2>1, TonesAssumption
  <2>3. SubSeq(m, 1, Len(m)) = m
    OBVIOUS
  <2>4. end.data = IF status # "success" THEN <<>> ELSE SubSeq(m, 1, Len(m))
    BY <1>2, <2>1, <2>2 DEF OnAfterECC
  <2> QED BY <1>3, <2>1, <2>3, <2>4
<1> QED BY <1>2, <1>3, <1>4

\* The application does not hear the tones.
LEMMA ApartInv ==
    ASSUME KnownInv, UNCHANGED <<info, tones, through, decoded>>
    PROVE  KnownInv'
BY DEF KnownInv

\* The sound is over.
LEMMA StopInv ==
    ASSUME AirInv, Stop
    PROVE  AirInv' /\ KnownInv'
<1>1. PICK end : end = StopRecognition(heard, SentBlocks(Message), Message)
  OBVIOUS
<1>2. /\ Over /\ through' = Bearable
      /\ decoded' = IF end.status = "success" THEN Understood(end.data) ELSE NoInfo
      /\ tones' = <<>> /\ noise' = 0 /\ info' = info
  BY <1>1 DEF Stop, Over
<1>3. (end.status = "success" => end.data = Message) /\ (Bearable => end.status = "success")
  BY <1>1, <1>2, EndIs
<1>4. info \in Infos
  BY DEF AirInv
<1>5. AirInv'
  BY <1>2, <1>4 DEF AirInv
<1>6. Answer(info) # NoInfo /\ Understood(Message) = Answer(info)
  <2>1. info.fields # <<>> /\ Understood(Message) = Answer(info)
    BY <1>4, InfoIs DEF Message
  <2>2. Answer(info).fields = info.fields /\ NoInfo.fields = <<>>
    BY DEF Answer, NoInfo
  <2> QED BY <2>1, <2>2
<1>7. decoded' # NoInfo => decoded' = Answer(info)
  BY <1>2, <1>3, <1>6
<1>8. through' => decoded' # NoInfo
  BY <1>2, <1>3, <1>6
<1>9. KnownInv'
  <2>1. Answer(info)' = Answer(info) /\ NoInfo' = NoInfo
    BY <1>2 DEF Answer, NoInfo
  <2> QED BY <2>1, <1>2, <1>7, <1>8 DEF KnownInv
<1> QED BY <1>5, <1>9

-----------------------------------------------------------------------------
(* What is told arrives.                                                    *)

DecodeInv == AirInv /\ KnownInv

LEMMA DecodeInitInv == Init => DecodeInv
BY DEF Init, DecodeInv, AirInv, KnownInv

LEMMA DecodeStepInv == DecodeInv /\ [Next]_vars => DecodeInv'
<1> SUFFICES ASSUME AirInv, KnownInv, [Next]_vars PROVE AirInv' /\ KnownInv'
  BY DEF DecodeInv
<1>1. ASSUME NEW i \in Infos, Play(i) PROVE AirInv' /\ KnownInv'
  <2>1. decoded' = NoInfo /\ ~through'
    BY <1>1 DEF Play
  <2>2. KnownInv'
    BY <2>1 DEF KnownInv, NoInfo
  <2> QED BY <1>1, <2>2, PlayInv
<1>2. CASE HearWell \/ HearSuspect \/ HearOneOfTwo
  <2>1. UNCHANGED <<info, tones, through, decoded>>
    BY <1>2 DEF HearWell, HearSuspect, HearOneOfTwo, Hear
  <2> QED BY <1>2, <2>1, ApartInv, HeardInv
<1>3. CASE HearWrong
  <2>1. UNCHANGED <<info, tones, through, decoded>>
    BY <1>3 DEF HearWrong, Hear
  <2> QED BY <1>3, <2>1, ApartInv, HearWrongInv
<1>4. CASE HearStartTwice
  <2>1. UNCHANGED <<info, tones, through, decoded>>
    BY <1>4 DEF HearStartTwice
  <2> QED BY <1>4, <2>1, ApartInv, HearStartTwiceInv
<1>5. CASE LoseEnd
  <2>1. UNCHANGED <<info, tones, through, decoded>>
    BY <1>5 DEF LoseEnd
  <2> QED BY <1>5, <2>1, ApartInv, LoseEndInv
<1>6. CASE NextBlock
  <2>1. UNCHANGED <<info, tones, through, decoded>>
    BY <1>6 DEF NextBlock
  <2> QED BY <1>6, <2>1, ApartInv, NextBlockInv
<1>7. CASE Stop
  BY <1>7, StopInv
<1>8. CASE UNCHANGED vars
  <2>1. UNCHANGED <<info, tones, heard, at, noise, damage, through, decoded>>
    BY <1>8 DEF vars
  <2>2. KnownInv'
    BY <2>1, ApartInv
  <2>3. AirInv'
    BY <2>1 DEF AirInv, InAir, Counted, Followed, Message, Current, Passed
  <2> QED BY <2>2, <2>3
<1> QED BY <1>1, <1>2, <1>3, <1>4, <1>5, <1>6, <1>7, <1>8 DEF Next

LEMMA DecodeInvArrives == DecodeInv => InfoArrives
BY DEF DecodeInv, KnownInv, InfoArrives

\* While a message is in the air, one way of taking the signals of each block that
\* was heard is what was sent but for the damage; and when it is over, what the
\* application knows is what was told.
THEOREM DecodeInvHolds == Spec => []DecodeInv
BY DecodeInitInv, DecodeStepInv, PTL DEF Spec

\* Whatever tones were heard wrong, twice, doubtfully or not at all: what the
\* decoder of the message's own type makes of it is what was told, with none of
\* its assertions failing, and it gets the message when the damage was bearable.
THEOREM InfoArrivesHolds == Spec => []InfoArrives
BY DecodeInvHolds, DecodeInvArrives, PTL
=============================================================================
