---------------------------- MODULE FramesProofs ----------------------------
(***************************************************************************)
(* For any number of connections and threads, heads and packets of any     *)
(* length and a kernel buffer of any size: what the master handles is one  *)
(* whole packet, and not one it has handled before, unless two threads of  *)
(* the client sent at the same time or a send gave up half way.            *)
(*                                                                         *)
(* The invariant is about the flow of a connection: what the master has    *)
(* read of the head or body it is in, and what the kernel still holds.     *)
(***************************************************************************)
EXTENDS Frames, SequenceTheorems, TLAPS

UnitSet == [by : Thread, nth : Nat, size : Nat, at : Nat]

TypeOK ==
    /\ sendPc \in [Thread -> {"idle", "head", "body", "ended"}]
    /\ size \in [Thread -> Nat] /\ put \in [Thread -> Nat] /\ sent \in [Thread -> Nat]
    /\ running \in [Conn -> BOOLEAN] /\ open \in [Conn -> BOOLEAN]
    /\ mixed \in [Conn -> BOOLEAN] /\ cut \in [Conn -> BOOLEAN]
    /\ stream \in [Conn -> Seq(UnitSet)]
    /\ pc \in {"select", "head", "body"} /\ cur \in Conn
    /\ need \in Nat /\ buf \in Seq(UnitSet)
    /\ handled \in [Thread -> Nat] /\ ready \subseteq Conn

\* A thread is in the part of its packet its call sends.
Positions ==
    \A t \in Thread :
        /\ sendPc[t] = "head" => put[t] < HeadLen
        /\ sendPc[t] = "body" => HeadLen <= put[t] /\ put[t] < HeadLen + size[t]
        /\ Sending(t) => size[t] \in Size
        /\ handled[t] <= sent[t]

Reading ==
    /\ pc = "select" => buf = <<>>
    /\ pc = "head" => Len(buf) <= HeadLen
    /\ pc = "body" => Len(buf) <= need
    /\ pc # "select" => open[cur]
    /\ \A c \in Conn : ~open[c] => stream[c] = <<>>

-----------------------------------------------------------------------------
(* Sequences of units.                                                     *)

\* The rest of a packet follows each unit of it.
Runs(f) ==
    \A i, j \in 1 .. Len(f) :
        i <= j /\ f[i].at + (j - i) <= HeadLen + f[i].size =>
            f[j] = Unit(f[i].by, f[i].nth, f[i].size, f[i].at + (j - i))

\* After the end of a packet comes a beginning.
Bounds(f) ==
    \A i \in 1 .. Len(f) :
        /\ f[i].size \in Size /\ 1 <= f[i].at /\ f[i].at <= HeadLen + f[i].size
        /\ f[i].at = HeadLen + f[i].size /\ i < Len(f) => f[i + 1].at = 1

\* Of one thread the packets and their units come in the order they were sent.
Ordered(f) ==
    \A i, j \in 1 .. Len(f) :
        i < j /\ f[i].by = f[j].by =>
            \/ f[i].nth < f[j].nth
            \/ f[i].nth = f[j].nth /\ f[i].size = f[j].size /\ f[i].at < f[j].at

Framed(f) == Runs(f) /\ Bounds(f) /\ Ordered(f)

\* What is read from the front leaves frames.
LEMMA SuffixFramed ==
    ASSUME NEW f \in Seq(UnitSet), NEW k \in 0 .. Len(f), Framed(f)
    PROVE  LET g == SubSeq(f, k + 1, Len(f))
           IN  /\ g \in Seq(UnitSet) /\ Len(g) = Len(f) - k
               /\ \A i \in 1 .. Len(f) - k : g[i] = f[i + k]
               /\ Framed(g)
<1> DEFINE g == SubSeq(f, k + 1, Len(f))
           l == Len(f) - k
<1>1. l \in Nat /\ Len(f) \in Nat /\ k \in Nat /\ l + k = Len(f)
  OBVIOUS
<1>2. g \in Seq(UnitSet) /\ Len(g) = l /\ \A i \in 1 .. l : g[i] = f[i + k]
  <2>1. \A i \in k + 1 .. Len(f) : f[i] \in UnitSet
    OBVIOUS
  <2>2. /\ g \in Seq(UnitSet)
        /\ Len(g) = IF k + 1 <= Len(f) THEN Len(f) - (k + 1) + 1 ELSE 0
        /\ \A i \in 1 .. Len(f) - (k + 1) + 1 : g[i] = f[(k + 1) + i - 1]
    BY <1>1, <2>1, SubSeqProperties
  <2>3. Len(f) - (k + 1) + 1 = l /\ \A i \in 1 .. l : (k + 1) + i - 1 = i + k
    BY <1>1
  <2> HIDE DEF g, l
  <2> QED BY <1>1, <2>2, <2>3
<1> HIDE DEF g, l
<1>3. ASSUME NEW i \in 1 .. l PROVE i + k \in 1 .. Len(f) /\ (i < l <=> i + k < Len(f))
  BY <1>1
<1>4. Runs(g)
  <2> SUFFICES ASSUME NEW i \in 1 .. l, NEW j \in 1 .. l,
                      i <= j, g[i].at + (j - i) <= HeadLen + g[i].size
               PROVE  g[j] = Unit(g[i].by, g[i].nth, g[i].size, g[i].at + (j - i))
    BY <1>2 DEF Runs
  <2>1. i + k <= j + k /\ (j + k) - (i + k) = j - i
    BY <1>1
  <2> QED BY <1>2, <1>3, <2>1 DEF Framed, Runs
<1>5. Bounds(g)
  <2> SUFFICES ASSUME NEW i \in 1 .. l
               PROVE  /\ g[i].size \in Size /\ 1 <= g[i].at /\ g[i].at <= HeadLen + g[i].size
                      /\ g[i].at = HeadLen + g[i].size /\ i < l => g[i + 1].at = 1
    BY <1>2 DEF Bounds
  <2>1. i < l => i + 1 \in 1 .. l /\ (i + 1) + k = (i + k) + 1
    BY <1>1
  <2> QED BY <1>2, <1>3, <2>1 DEF Framed, Bounds
<1>6. Ordered(g)
  <2> SUFFICES ASSUME NEW i \in 1 .. l, NEW j \in 1 .. l, i < j, g[i].by = g[j].by
               PROVE  \/ g[i].nth < g[j].nth
                      \/ g[i].nth = g[j].nth /\ g[i].size = g[j].size /\ g[i].at < g[j].at
    BY <1>2 DEF Ordered
  <2>1. i + k < j + k /\ g[i] = f[i + k] /\ g[j] = f[j + k]
    BY <1>1, <1>2
  <2> QED BY <1>3, <2>1 DEF Framed, Ordered
<1> QED BY <1>2, <1>4, <1>5, <1>6 DEF Framed, g, l

\* Units a to b of a packet continue it, or begin it after the end of another.
Joins(f, t, n, s, a) ==
    f # <<>> => IF a = 1 THEN f[Len(f)].at = HeadLen + f[Len(f)].size
                ELSE f[Len(f)] = Unit(t, n, s, a - 1)

Later(f, t, n, s, a) ==
    \A i \in 1 .. Len(f) :
        f[i].by = t => f[i].nth < n \/ (f[i].nth = n /\ f[i].size = s /\ f[i].at < a)

\* g is f and these units.
Appends(g, f, t, n, s, a, b) ==
    /\ g \in Seq(UnitSet) /\ Len(g) = Len(f) + (b - a + 1)
    /\ \A i \in 1 .. Len(f) : g[i] = f[i]
    /\ \A i \in 1 .. Len(g) : i > Len(f) => g[i] = Unit(t, n, s, a + (i - Len(f)) - 1)

LEMMA AppendIs ==
    ASSUME NEW f \in Seq(UnitSet), NEW t \in Thread, NEW n \in Nat, NEW s \in Nat,
           NEW a \in Nat \ {0}, NEW b \in Nat, a <= b
    PROVE  Appends(f \o Units(t, n, s, a, b), f, t, n, s, a, b)
<1> DEFINE m == Len(f)
           l == b - a + 1
           us == Units(t, n, s, a, b)
           g == f \o us
<1>0. m \in Nat /\ l \in Nat \ {0} /\ \A i \in 1 .. l : a + i - 1 \in Nat
  OBVIOUS
<1>1. \A i \in 1 .. l : Unit(t, n, s, a + i - 1) \in UnitSet
  BY <1>0 DEF Unit, UnitSet
<1>2. us = [i \in 1 .. l |-> Unit(t, n, s, a + i - 1)]
  BY DEF Units
<1> HIDE DEF l, us
<1>6. us \in Seq(UnitSet) /\ Len(us) = l /\ \A i \in 1 .. l : us[i] = Unit(t, n, s, a + i - 1)
  BY <1>0, <1>1, <1>2
<1>3. /\ g \in Seq(UnitSet) /\ Len(g) = m + l
      /\ \A i \in 1 .. m + l : g[i] = IF i <= m THEN f[i] ELSE us[i - m]
  <2>1. /\ g \in Seq(UnitSet) /\ Len(g) = Len(f) + Len(us)
        /\ \A i \in 1 .. Len(f) + Len(us) :
               g[i] = IF i <= Len(f) THEN f[i] ELSE us[i - Len(f)]
    BY <1>6, ConcatProperties, Zenon
  <2> QED BY <1>6, <2>1
<1> HIDE DEF m, g
<1>4. ASSUME NEW i \in 1 .. m PROVE g[i] = f[i]
  <2>1. i \in 1 .. m + l /\ i <= m
    BY <1>0
  <2> QED BY <1>3, <2>1
<1>5. ASSUME NEW i \in 1 .. m + l, i > m PROVE g[i] = Unit(t, n, s, a + (i - m) - 1)
  <2>1. i - m \in 1 .. l /\ ~(i <= m)
    BY <1>0, <1>5
  <2> QED BY <1>3, <1>6, <2>1
<1> QED BY <1>3, <1>4, <1>5 DEF Appends, m, l, g, us

LEMMA AppendFramed ==
    ASSUME NEW f \in Seq(UnitSet), Framed(f),
           NEW t \in Thread, NEW n \in Nat, NEW s \in Size,
           NEW a \in Nat \ {0}, NEW b \in Nat, a <= b, b <= HeadLen + s,
           NEW g, Appends(g, f, t, n, s, a, b),
           Joins(f, t, n, s, a), Later(f, t, n, s, a)
    PROVE  Framed(g)
<1> DEFINE m == Len(f)
           l == b - a + 1
<1>0. s \in Nat /\ m \in Nat /\ l \in Nat \ {0} /\ HeadLen \in Nat \ {0} /\ a \in Nat
  BY FramesAssumption
<1>2. /\ g \in Seq(UnitSet) /\ Len(g) = m + l
      /\ \A i \in 1 .. m : g[i] = f[i]
      /\ \A i \in 1 .. m + l : i > m => g[i] = Unit(t, n, s, a + (i - m) - 1)
  BY DEF Appends
<1>3. \A i \in 1 .. m : f[i] \in UnitSet
  OBVIOUS
<1> HIDE DEF m, l
<1>4. \A i \in 1 .. m : g[i] = f[i]
  BY <1>2
<1>5. ASSUME NEW i \in 1 .. m + l, i > m PROVE g[i] = Unit(t, n, s, a + (i - m) - 1)
  BY <1>2, <1>5
<1>7. ASSUME NEW i \in 1 .. m PROVE /\ f[i].at \in Nat /\ f[i].size \in Nat /\ f[i].nth \in Nat
  BY <1>3 DEF UnitSet
<1>8. ASSUME NEW i \in 1 .. m PROVE f[i].at >= 1 /\ f[i].at <= HeadLen + f[i].size
  BY DEF Framed, Bounds, m
<1>9. Runs(g)
  <2> SUFFICES ASSUME NEW i \in 1 .. m + l, NEW j \in 1 .. m + l,
                      i <= j, g[i].at + (j - i) <= HeadLen + g[i].size
               PROVE  g[j] = Unit(g[i].by, g[i].nth, g[i].size, g[i].at + (j - i))
    BY <1>2 DEF Runs
  <2>1. CASE j <= m
    <3>1. i \in 1 .. m /\ j \in 1 .. m
      BY <1>0, <2>1
    <3> QED BY <1>4, <3>1 DEF Framed, Runs, m
  <2>2. CASE i > m
    <3>0. j > m
      BY <1>0, <2>2
    <3>1. g[i] = Unit(t, n, s, a + (i - m) - 1) /\ g[j] = Unit(t, n, s, a + (j - m) - 1)
      BY <1>5, <2>2, <3>0
    <3>2. a + (i - m) - 1 + (j - i) = a + (j - m) - 1
      BY <1>0
    <3> QED BY <3>1, <3>2 DEF Unit
  <2>3. CASE i <= m /\ j > m
    <3>1. i \in 1 .. m /\ m \in 1 .. m /\ g[i] = f[i]
      BY <1>0, <1>4, <2>3
    <3>0. f[i].at \in Nat /\ f[i].size \in Nat /\ f[i].at + (j - i) <= HeadLen + f[i].size
      BY <1>7, <3>1
    <3>2. f[i].at + (m - i) <= HeadLen + f[i].size /\ f[i].at + (m - i) < HeadLen + f[i].size
      <4> DEFINE x == f[i].at
                 y == f[i].size
      <4>1. x \in Nat /\ y \in Nat /\ x + (j - i) <= HeadLen + y
        BY <3>0
      <4>2. i \in Int /\ j \in Int /\ m < j
        BY <1>0, <2>3
      <4> HIDE DEF x, y
      <4>3. x + (m - i) <= HeadLen + y /\ x + (m - i) < HeadLen + y
        BY <1>0, <4>1, <4>2
      <4> QED BY <4>3 DEF x, y
    <3>3. f[m] = Unit(f[i].by, f[i].nth, f[i].size, f[i].at + (m - i))
      BY <2>3, <3>1, <3>2 DEF Framed, Runs, m
    <3>4. f # <<>>
      BY <3>1 DEF m
    <3>9. f[m].at = f[i].at + (m - i) /\ f[m].size = f[i].size
      BY <3>3 DEF Unit
    <3>10. f[m].at # HeadLen + f[m].size
      <4> DEFINE x == f[i].at + (m - i)
                 y == HeadLen + f[i].size
      <4>1. x < y
        BY <3>2
      <4>4. x \in Int /\ y \in Int
        <5>1. m - i \in Int /\ HeadLen \in Int
          BY <1>0
        <5>2. f[i].at \in Int /\ f[i].size \in Int
          BY <3>0
        <5> QED BY <5>1, <5>2
      <4>2. f[m].at = x /\ HeadLen + f[m].size = y
        BY <3>9
      <4> HIDE DEF x, y
      <4>3. x # y
        BY <4>1, <4>4
      <4> QED BY <4>2, <4>3
    <3>5. a # 1 /\ f[m] = Unit(t, n, s, a - 1)
      BY <3>4, <3>10 DEF Joins, m
    <3>6. f[i].by = t /\ f[i].nth = n /\ f[i].size = s /\ f[i].at + (m - i) = a - 1
      BY <3>3, <3>5 DEF Unit
    <3>7. g[j] = Unit(t, n, s, a + (j - m) - 1)
      BY <1>5, <2>3
    <3>8. a + (j - m) - 1 = f[i].at + (j - i)
      <4> DEFINE x == f[i].at
      <4>1. x \in Nat /\ x + (m - i) = a - 1
        BY <3>0, <3>6
      <4> HIDE DEF x
      <4>3. i \in Int /\ j \in Int /\ m \in Int /\ a \in Int
        BY <1>0
      <4>2. a + (j - m) - 1 = x + (j - i)
        BY <4>1, <4>3
      <4> QED BY <4>2 DEF x
    <3> QED BY <3>1, <3>6, <3>7, <3>8
  <2> QED BY <1>0, <2>1, <2>2, <2>3
<1>10. Bounds(g)
  <2> SUFFICES ASSUME NEW i \in 1 .. m + l
               PROVE  /\ g[i].size \in Size /\ 1 <= g[i].at /\ g[i].at <= HeadLen + g[i].size
                      /\ g[i].at = HeadLen + g[i].size /\ i < m + l => g[i + 1].at = 1
    BY <1>2 DEF Bounds
  <2>1. CASE i < m
    <3>1. i \in 1 .. m /\ i + 1 \in 1 .. m /\ i < m
      BY <1>0, <2>1
    <3> QED BY <1>4, <3>1 DEF Framed, Bounds, m
  <2>2. CASE i = m
    <3>1. i \in 1 .. m /\ i + 1 \in 1 .. m + l /\ i + 1 > m /\ a + ((i + 1) - m) - 1 = a
      BY <1>0, <2>2
    <3>2. g[i] = f[i] /\ g[i + 1] = Unit(t, n, s, a)
      BY <1>4, <1>5, <3>1
    <3>3. f # <<>>
      BY <3>1 DEF m
    <3>4. f[i].at = HeadLen + f[i].size => a = 1
      <4> SUFFICES ASSUME f[i].at = HeadLen + f[i].size, a # 1 PROVE FALSE
        OBVIOUS
      <4>1. f[i] = Unit(t, n, s, a - 1)
        BY <2>2, <3>3 DEF Joins, m
      <4>2. f[i].at = a - 1 /\ f[i].size = s
        BY <4>1 DEF Unit
      <4> QED BY <1>0, <4>2
    <3>5. f[i].size \in Size /\ 1 <= f[i].at /\ f[i].at <= HeadLen + f[i].size
      BY <3>1 DEF Framed, Bounds, m
    <3>6. g[i + 1].at = a
      BY <3>2 DEF Unit
    <3> QED BY <3>2, <3>4, <3>5, <3>6
  <2>3. CASE i > m
    <3>1. g[i] = Unit(t, n, s, a + (i - m) - 1)
      BY <1>5, <2>3
    <3>2. 1 <= a + (i - m) - 1 /\ a + (i - m) - 1 <= b
          /\ (i < m + l => a + (i - m) - 1 < b)
      BY <1>0, <2>3 DEF l
    <3> QED BY <1>0, <3>1, <3>2 DEF Unit
  <2> QED BY <1>0, <2>1, <2>2, <2>3
<1>11. Ordered(g)
  <2> SUFFICES ASSUME NEW i \in 1 .. m + l, NEW j \in 1 .. m + l, i < j, g[i].by = g[j].by
               PROVE  \/ g[i].nth < g[j].nth
                      \/ g[i].nth = g[j].nth /\ g[i].size = g[j].size /\ g[i].at < g[j].at
    BY <1>2 DEF Ordered
  <2>1. CASE j <= m
    <3>1. i \in 1 .. m /\ j \in 1 .. m
      BY <1>0, <2>1
    <3>2. g[i] = f[i] /\ g[j] = f[j]
      BY <1>4, <3>1
    <3>3. f[i].by = f[j].by
      BY <3>2
    <3> QED BY <3>1, <3>2, <3>3 DEF Framed, Ordered, m
  <2>2. CASE i > m
    <3>0. j > m
      BY <1>0, <2>2
    <3>1. g[i] = Unit(t, n, s, a + (i - m) - 1) /\ g[j] = Unit(t, n, s, a + (j - m) - 1)
      BY <1>5, <2>2, <3>0
    <3>2. a + (i - m) - 1 < a + (j - m) - 1
      BY <1>0
    <3> QED BY <3>1, <3>2 DEF Unit
  <2>3. CASE i <= m /\ j > m
    <3>1. i \in 1 .. m /\ g[i] = f[i]
      BY <1>0, <1>4, <2>3
    <3>2. g[j] = Unit(t, n, s, a + (j - m) - 1) /\ a + (j - m) - 1 >= a
      BY <1>0, <1>5, <2>3
    <3>3. f[i].nth < n \/ (f[i].nth = n /\ f[i].size = s /\ f[i].at < a)
      BY <3>1, <3>2 DEF Later, Unit, m
    <3> QED BY <1>0, <1>7, <3>1, <3>2, <3>3 DEF Unit
  <2> QED BY <1>0, <2>1, <2>2, <2>3
<1> QED BY <1>9, <1>10, <1>11 DEF Framed

-----------------------------------------------------------------------------
(* The invariant.                                                          *)

\* What the master has read of its head or body, and what the kernel holds.
Flow(c) == (IF c = cur THEN buf ELSE <<>>) \o stream[c]

Mid(t) == Sending(t) /\ put[t] > 0

InBody(c) == c = cur /\ pc = "body"

\* Each unit is of a packet a thread of the connection began.
Origin(c) ==
    \A i \in 1 .. Len(Flow(c)) :
        Uses[Flow(c)[i].by] = c /\ Flow(c)[i].nth <= sent[Flow(c)[i].by]

Origins == \A c \in Conn : Origin(c)

\* The flow starts where the master is: at a head, or at the body of its length.
Starts(c) ==
    /\ InBody(c) => need \in Size
    /\ Flow(c) # <<>> /\ ~InBody(c) => Flow(c)[1].at = 1
    /\ Flow(c) # <<>> /\ InBody(c) => Flow(c)[1].at = HeadLen + 1 /\ Flow(c)[1].size = need

\* No unit is of a packet handled before, or beyond what its thread has put.
Known(c) ==
    \A i \in 1 .. Len(Flow(c)) :
        /\ handled[Flow(c)[i].by] < Flow(c)[i].nth
        /\ Flow(c)[i].nth = sent[Flow(c)[i].by] =>
              Flow(c)[i].size = size[Flow(c)[i].by] /\ Flow(c)[i].at <= put[Flow(c)[i].by]

\* It ends with the last unit of the thread inside a packet, or with a packet.
EndsInside(c) ==
    \A t \in Thread : Uses[t] = c /\ Mid(t) =>
        /\ Flow(c) # <<>> => Flow(c)[Len(Flow(c))] = Unit(t, sent[t], size[t], put[t])
        /\ Flow(c) = <<>> => InBody(c) /\ put[t] = HeadLen /\ size[t] = need

EndsBetween(c) ==
    running[c] /\ (\A t \in Thread : Uses[t] = c => ~Mid(t)) =>
        /\ Flow(c) # <<>> => Flow(c)[Len(Flow(c))].at = HeadLen + Flow(c)[Len(Flow(c))].size
        /\ Flow(c) = <<>> => ~InBody(c)

Single(c) ==
    /\ \A t, u \in Thread : Uses[t] = c /\ Uses[u] = c /\ Mid(t) /\ Mid(u) => t = u
    /\ \A t \in Thread : Uses[t] = c /\ Sending(t) => handled[t] < sent[t]

Whole(c) ==
    Starts(c) /\ Framed(Flow(c)) /\ Known(c) /\ EndsInside(c) /\ EndsBetween(c) /\ Single(c)

Clean(c) == open[c] /\ ~mixed[c] /\ ~cut[c]

Sound == \A c \in Conn : Clean(c) => Whole(c)

Inv == TypeOK /\ Positions /\ Reading /\ Origins /\ Sound

-----------------------------------------------------------------------------
(* The flow of a connection.                                               *)

LEMMA FlowIs ==
    ASSUME TypeOK, NEW c \in Conn
    PROVE  /\ Flow(c) \in Seq(UnitSet) /\ Len(Flow(c)) \in Nat
           /\ Flow(c) # <<>> <=> 1 \in 1 .. Len(Flow(c))
           /\ c # cur \/ buf = <<>> => Flow(c) = stream[c]
<1>1. buf \in Seq(UnitSet) /\ stream[c] \in Seq(UnitSet) /\ <<>> \in Seq(UnitSet)
  BY DEF TypeOK
<1>2. <<>> \o stream[c] = stream[c]
  BY <1>1, ConcatEmptySeq
<1>3. Flow(c) \in Seq(UnitSet)
  BY <1>1, <1>2, ConcatProperties DEF Flow
<1>4. Len(Flow(c)) \in Nat /\ (Flow(c) # <<>> <=> 1 \in 1 .. Len(Flow(c)))
  BY <1>3
<1> QED BY <1>2, <1>3, <1>4 DEF Flow

LEMMA FlowUnits ==
    ASSUME TypeOK, NEW c \in Conn, NEW i \in 1 .. Len(Flow(c))
    PROVE  /\ Flow(c)[i] \in UnitSet /\ Flow(c)[i].by \in Thread
           /\ Flow(c)[i].nth \in Nat /\ Flow(c)[i].size \in Nat /\ Flow(c)[i].at \in Nat
<1>1. Flow(c)[i] \in UnitSet
  BY FlowIs, ElementOfSeq
<1> QED BY <1>1 DEF UnitSet

LEMMA FlowFront ==
    ASSUME TypeOK
    PROVE  /\ Len(buf) \in Nat /\ Len(stream[cur]) \in Nat
           /\ Len(Flow(cur)) = Len(buf) + Len(stream[cur])
           /\ \A i \in 1 .. Len(buf) : i \in 1 .. Len(Flow(cur)) /\ Flow(cur)[i] = buf[i]
           /\ \A i \in 1 .. Len(stream[cur]) :
                 i + Len(buf) \in 1 .. Len(Flow(cur)) /\ stream[cur][i] = Flow(cur)[i + Len(buf)]
           /\ stream[cur] = SubSeq(Flow(cur), Len(buf) + 1, Len(Flow(cur)))
<1> DEFINE b == buf
           k == stream[cur]
           f == b \o k
<1>1. b \in Seq(UnitSet) /\ k \in Seq(UnitSet) /\ Flow(cur) = f
  BY DEF TypeOK, Flow
<1> HIDE DEF b, k
<1>2. /\ Len(f) = Len(b) + Len(k) /\ f \in Seq(UnitSet)
      /\ \A i \in 1 .. Len(b) + Len(k) : f[i] = IF i <= Len(b) THEN b[i] ELSE k[i - Len(b)]
  BY <1>1, ConcatProperties, Zenon
<1> HIDE DEF f
<1>3. Len(b) \in Nat /\ Len(k) \in Nat
  BY <1>1
<1>4. ASSUME NEW i \in 1 .. Len(b) PROVE i \in 1 .. Len(f) /\ f[i] = b[i]
  <2>1. i \in 1 .. Len(b) + Len(k) /\ i <= Len(b)
    BY <1>3
  <2> QED BY <1>2, <2>1
<1>5. k = SubSeq(f, Len(b) + 1, Len(f))
  <2> DEFINE g == SubSeq(f, Len(b) + 1, Len(f))
  <2>1. \A i \in Len(b) + 1 .. Len(f) : f[i] \in UnitSet
    BY <1>2, <1>3
  <2>2. /\ g \in Seq(UnitSet)
        /\ Len(g) = IF Len(b) + 1 <= Len(f) THEN Len(f) - (Len(b) + 1) + 1 ELSE 0
        /\ \A i \in 1 .. Len(f) - (Len(b) + 1) + 1 : g[i] = f[(Len(b) + 1) + i - 1]
    BY <1>2, <1>3, <2>1, SubSeqProperties
  <2> HIDE DEF g
  <2>3. Len(g) = Len(k) /\ Len(f) - (Len(b) + 1) + 1 = Len(k)
    BY <1>2, <1>3, <2>2
  <2>4. ASSUME NEW i \in 1 .. Len(k) PROVE g[i] = k[i]
    <3>1. /\ (Len(b) + 1) + i - 1 = Len(b) + i /\ Len(b) + i \in 1 .. Len(b) + Len(k)
          /\ ~(Len(b) + i <= Len(b)) /\ (Len(b) + i) - Len(b) = i
      BY <1>3
    <3>2. g[i] = f[Len(b) + i]
      BY <2>2, <2>3, <3>1
    <3>3. f[Len(b) + i] = k[i]
      BY <1>2, <3>1
    <3> QED BY <3>2, <3>3
  <2>5. g = k
    BY <1>1, <2>2, <2>3, <2>4, SeqEqual
  <2> QED BY <2>5 DEF g
<1>6. ASSUME NEW i \in 1 .. Len(k) PROVE i + Len(b) \in 1 .. Len(f) /\ k[i] = f[i + Len(b)]
  <2>1. /\ i + Len(b) \in 1 .. Len(b) + Len(k) /\ ~(i + Len(b) <= Len(b))
        /\ (i + Len(b)) - Len(b) = i
    BY <1>3
  <2> QED BY <1>2, <2>1
<1> QED BY <1>1, <1>2, <1>3, <1>4, <1>5, <1>6 DEF b, k

LEMMA Regroup ==
    ASSUME NEW f \in Seq(UnitSet), NEW g \in Seq(UnitSet), NEW h \in Seq(UnitSet)
    PROVE  (f \o g) \o h = f \o (g \o h)
BY ConcatAssociative

\* What the master has received it no longer asks for.
LEMMA RecvMoves ==
    ASSUME TypeOK, NEW w \in Nat, Recv(w)
    PROVE  /\ Flow(cur) = buf' \o stream'[cur]
           /\ buf' \in Seq(UnitSet) /\ stream' \in [Conn -> Seq(UnitSet)]
           /\ Len(buf') <= w /\ \A c \in Conn \ {cur} : stream'[c] = stream[c]
           /\ stream[cur] # <<>>
<1> DEFINE b == buf
           k == stream[cur]
           n == Smaller(w - Len(buf), Len(stream[cur]))
<1>1. b \in Seq(UnitSet) /\ k \in Seq(UnitSet) /\ Len(b) \in Nat /\ Len(k) \in Nat
  BY DEF TypeOK
<1>2. n \in 1 .. Len(k) /\ Len(b) + n <= w
  BY <1>1 DEF Recv, Smaller
<1>3. /\ buf' = b \o SubSeq(k, 1, n)
      /\ stream' = [stream EXCEPT ![cur] = SubSeq(k, n + 1, Len(k))]
  BY DEF Recv
<1>4. cur \in Conn /\ stream \in [Conn -> Seq(UnitSet)]
  BY DEF TypeOK
<1> HIDE DEF b, k, n
<1>5. /\ SubSeq(k, 1, n) \in Seq(UnitSet) /\ Len(SubSeq(k, 1, n)) = n
      /\ SubSeq(k, n + 1, Len(k)) \in Seq(UnitSet)
      /\ SubSeq(k, 1, n) \o SubSeq(k, n + 1, Len(k)) = k
  BY <1>1, <1>2
<1>6. /\ (b \o SubSeq(k, 1, n)) \o SubSeq(k, n + 1, Len(k)) = b \o k
      /\ b \o SubSeq(k, 1, n) \in Seq(UnitSet)
      /\ Len(b \o SubSeq(k, 1, n)) = Len(b) + n
  <2> DEFINE x == SubSeq(k, 1, n)
             y == SubSeq(k, n + 1, Len(k))
  <2>1. x \in Seq(UnitSet) /\ y \in Seq(UnitSet) /\ Len(x) = n /\ x \o y = k
    BY <1>5
  <2> HIDE DEF x, y
  <2>2. (b \o x) \o y = b \o (x \o y)
    BY <1>1, <2>1, Regroup, Zenon
  <2>3. b \o x \in Seq(UnitSet) /\ Len(b \o x) = Len(b) + Len(x)
    BY <1>1, <2>1, ConcatProperties
  <2> QED BY <2>1, <2>2, <2>3 DEF x, y
<1>7. k # <<>>
  BY <1>1, <1>2
<1>8. stream'[cur] = SubSeq(k, n + 1, Len(k)) /\ \A c \in Conn \ {cur} : stream'[c] = stream[c]
  BY <1>3, <1>4
<1>9. stream' \in [Conn -> Seq(UnitSet)]
  BY <1>3, <1>4, <1>5
<1>10. Flow(cur) = b \o k
  BY DEF Flow, b, k
<1> QED BY <1>2, <1>3, <1>6, <1>7, <1>8, <1>9, <1>10 DEF k

\* A connection whose units, if any, were there before.
LEMMA OriginKept ==
    ASSUME TypeOK, NEW c \in Conn, Origin(c),
           \A t \in Thread : sent'[t] \in Nat /\ sent[t] <= sent'[t],
           \A i \in 1 .. Len(Flow(c)') : \E j \in 1 .. Len(Flow(c)) : Flow(c)'[i] = Flow(c)[j]
    PROVE  Origin(c)'
<1> SUFFICES ASSUME NEW i \in 1 .. Len(Flow(c)')
             PROVE  Uses[Flow(c)'[i].by] = c /\ Flow(c)'[i].nth <= sent'[Flow(c)'[i].by]
  BY DEF Origin
<1>1. PICK j \in 1 .. Len(Flow(c)) : Flow(c)'[i] = Flow(c)[j]
  OBVIOUS
<1> DEFINE u == Flow(c)[j]
<1>2. Uses[u.by] = c /\ u.nth <= sent[u.by]
  BY DEF Origin
<1>3. u.by \in Thread /\ u.nth \in Nat
  BY FlowUnits
<1>4. Flow(c)'[i] = u
  BY <1>1
<1>5. sent[u.by] \in Nat /\ sent'[u.by] \in Nat /\ sent[u.by] <= sent'[u.by]
  BY <1>3 DEF TypeOK
<1> HIDE DEF u
<1> QED BY <1>2, <1>3, <1>4, <1>5

\* A connection none of whose threads sent, and of which the master took nothing.
Idle(c) ==
    \A t \in Thread : Uses[t] = c =>
        /\ handled'[t] = handled[t] /\ sent'[t] = sent[t]
        /\ size'[t] = size[t] /\ put'[t] = put[t]
        /\ Sending(t)' => Sending(t)
        /\ Mid(t)' <=> Mid(t)

LEMMA WholeKept ==
    ASSUME TypeOK, NEW c \in Conn, Origin(c), Whole(c), Flow(c)' = Flow(c),
           InBody(c)' <=> InBody(c), InBody(c) => need' = need,
           running'[c] = running[c], Idle(c)
    PROVE  Whole(c)'
<1>1. Starts(c)'
  BY DEF Whole, Starts
<1>2. Framed(Flow(c))'
  BY DEF Whole
<1>3. Known(c)'
  <2> SUFFICES ASSUME NEW i \in 1 .. Len(Flow(c))
               PROVE  LET u == Flow(c)[i]
                      IN  /\ handled'[u.by] < u.nth
                          /\ u.nth = sent'[u.by] => u.size = size'[u.by] /\ u.at <= put'[u.by]
    BY DEF Known
  <2> DEFINE u == Flow(c)[i]
  <2>1. u.by \in Thread /\ Uses[u.by] = c
    BY FlowUnits DEF Origin
  <2>2. /\ handled[u.by] < u.nth
        /\ u.nth = sent[u.by] => u.size = size[u.by] /\ u.at <= put[u.by]
    BY DEF Whole, Known
  <2> HIDE DEF u
  <2>3. /\ handled'[u.by] = handled[u.by] /\ sent'[u.by] = sent[u.by]
        /\ size'[u.by] = size[u.by] /\ put'[u.by] = put[u.by]
    BY <2>1 DEF Idle
  <2>4. /\ handled'[u.by] < u.nth
        /\ u.nth = sent'[u.by] => u.size = size'[u.by] /\ u.at <= put'[u.by]
    BY <2>2, <2>3
  <2> QED BY <2>4 DEF u
<1>4. EndsInside(c)'
  <2> SUFFICES ASSUME NEW t \in Thread, Uses[t] = c, Mid(t)'
               PROVE  /\ Flow(c)' # <<>> =>
                            Flow(c)'[Len(Flow(c)')] = Unit(t, sent'[t], size'[t], put'[t])
                      /\ Flow(c)' = <<>> => InBody(c)' /\ put'[t] = HeadLen /\ size'[t] = need'
    BY DEF EndsInside, Unit
  <2>1. /\ Mid(t) /\ sent'[t] = sent[t] /\ size'[t] = size[t] /\ put'[t] = put[t]
    BY DEF Idle
  <2>2. /\ Flow(c) # <<>> => Flow(c)[Len(Flow(c))] = Unit(t, sent[t], size[t], put[t])
        /\ Flow(c) = <<>> => InBody(c) /\ put[t] = HeadLen /\ size[t] = need
    BY <2>1 DEF Whole, EndsInside
  <2> QED BY <2>1, <2>2
<1>5. EndsBetween(c)'
  BY DEF Whole, EndsBetween, Idle
<1>6. Single(c)'
  BY DEF Whole, Single, Idle
<1> QED BY <1>1, <1>2, <1>3, <1>4, <1>5, <1>6 DEF Whole

-----------------------------------------------------------------------------
(* The threads of a client.                                                *)

\* The units of a flow that stays are those that were there.
LEMMA SameOrigin ==
    ASSUME TypeOK, Origins, \A c \in Conn : Flow(c)' = Flow(c),
           \A t \in Thread : sent'[t] \in Nat /\ sent[t] <= sent'[t]
    PROVE  Origins'
<1> SUFFICES ASSUME NEW c \in Conn PROVE Origin(c)'
  BY DEF Origins
<1>1. \A i \in 1 .. Len(Flow(c)') : \E j \in 1 .. Len(Flow(c)) : Flow(c)'[i] = Flow(c)[j]
  OBVIOUS
<1> QED BY <1>1, OriginKept DEF Origins

LEMMA BeginSendKeeps ==
    ASSUME Inv, NEW t \in Thread, BeginSend(t)
    PROVE  Inv'
<1> USE DEF Inv
<1>0. /\ sendPc[t] = "idle" /\ sendPc' = [sendPc EXCEPT ![t] = "head"]
      /\ put' = [put EXCEPT ![t] = 0] /\ sent' = [sent EXCEPT ![t] = @ + 1]
      /\ (\E s \in Size : size' = [size EXCEPT ![t] = s])
      /\ UNCHANGED <<running, mixed, cut, stream, open, pc, ready, cur, need, buf, handled>>
  BY DEF BeginSend, masterVars
<1>1. TypeOK'
  <2>1. size' \in [Thread -> Nat]
    BY <1>0, FramesAssumption DEF TypeOK
  <2> QED BY <1>0, <2>1 DEF TypeOK
<1>2. Positions'
  <2> SUFFICES ASSUME NEW u \in Thread
               PROVE  /\ sendPc'[u] = "head" => put'[u] < HeadLen
                      /\ sendPc'[u] = "body" => HeadLen <= put'[u] /\ put'[u] < HeadLen + size'[u]
                      /\ Sending(u)' => size'[u] \in Size
                      /\ handled'[u] <= sent'[u]
    BY DEF Positions
  <2>1. handled[u] <= sent[u] /\ handled[u] \in Nat /\ sent[u] \in Nat
    BY DEF Positions, TypeOK
  <2>2. handled'[u] <= sent'[u]
    BY <1>0, <2>1 DEF TypeOK
  <2>3. CASE u = t
    BY <1>0, <2>2, <2>3, FramesAssumption DEF TypeOK, Sending
  <2>4. CASE u # t
    BY <1>0, <2>2, <2>4 DEF TypeOK, Positions, Sending
  <2> QED BY <2>3, <2>4
<1>3. Reading'
  BY <1>0 DEF Reading
<1>4. \A c \in Conn : Flow(c)' = Flow(c) /\ (InBody(c)' <=> InBody(c))
  BY <1>0 DEF Flow, InBody
<1>5. \A u \in Thread : sent'[u] \in Nat /\ sent[u] <= sent'[u]
  BY <1>0 DEF TypeOK
<1>6. Origins'
  BY <1>4, <1>5, SameOrigin
<1>7. \A u \in Thread : Mid(u)' <=> Mid(u)
  BY <1>0 DEF Mid, Sending, TypeOK
<1>8. ASSUME NEW c \in Conn, Clean(c)' PROVE Whole(c)'
  <2>1. Whole(c) /\ Origin(c)
    BY <1>0, <1>8 DEF Clean, Sound, Origins
  <2>2. CASE Uses[t] # c
    <3>1. Idle(c)
      BY <1>0, <1>7, <2>2 DEF Idle, TypeOK, Sending
    <3> QED BY <1>0, <1>4, <2>1, <3>1, WholeKept
  <2>3. CASE Uses[t] = c
    <3>1. Starts(c)' /\ Framed(Flow(c))'
      BY <1>0, <1>4, <2>1 DEF Whole, Starts
    <3>2. Known(c)'
      <4> SUFFICES ASSUME NEW i \in 1 .. Len(Flow(c))
                   PROVE  LET u == Flow(c)[i]
                          IN  /\ handled'[u.by] < u.nth
                              /\ u.nth = sent'[u.by] => u.size = size'[u.by] /\ u.at <= put'[u.by]
        BY <1>4 DEF Known
      <4> DEFINE u == Flow(c)[i]
      <4>1. u.by \in Thread /\ u.nth \in Nat /\ u.nth <= sent[u.by]
        BY <2>1, FlowUnits DEF Origin
      <4>2. /\ handled[u.by] < u.nth
            /\ u.nth = sent[u.by] => u.size = size[u.by] /\ u.at <= put[u.by]
        BY <2>1 DEF Whole, Known
      <4> HIDE DEF u
      <4>3. u.by = t => u.nth # sent'[u.by]
        BY <1>0, <4>1 DEF TypeOK
      <4>4. u.by # t => /\ sent'[u.by] = sent[u.by]
                        /\ size'[u.by] = size[u.by] /\ put'[u.by] = put[u.by]
        BY <1>0, <4>1 DEF TypeOK
      <4>5. /\ handled'[u.by] < u.nth
            /\ u.nth = sent'[u.by] => u.size = size'[u.by] /\ u.at <= put'[u.by]
        BY <1>0, <4>2, <4>3, <4>4
      <4> QED BY <4>5 DEF u
    <3>3. \A u \in Thread : Mid(u) =>
              u # t /\ sent'[u] = sent[u] /\ size'[u] = size[u] /\ put'[u] = put[u]
      BY <1>0 DEF TypeOK, Mid, Sending
    <3>4. EndsInside(c)'
      <4> SUFFICES ASSUME NEW u \in Thread, Uses[u] = c, Mid(u)'
                   PROVE  /\ Flow(c)' # <<>> =>
                                Flow(c)'[Len(Flow(c)')] = Unit(u, sent'[u], size'[u], put'[u])
                          /\ Flow(c)' = <<>> =>
                                InBody(c)' /\ put'[u] = HeadLen /\ size'[u] = need'
        BY DEF EndsInside, Unit
      <4>1. /\ Mid(u) /\ sent'[u] = sent[u] /\ size'[u] = size[u] /\ put'[u] = put[u]
        BY <1>7, <3>3
      <4>2. /\ Flow(c) # <<>> => Flow(c)[Len(Flow(c))] = Unit(u, sent[u], size[u], put[u])
            /\ Flow(c) = <<>> => InBody(c) /\ put[u] = HeadLen /\ size[u] = need
        BY <2>1, <4>1 DEF Whole, EndsInside
      <4> QED BY <1>0, <1>4, <4>1, <4>2
    <3>5. EndsBetween(c)'
      BY <1>0, <1>4, <1>7, <2>1 DEF Whole, EndsBetween
    <3>6. Single(c)'
      <4>1. ASSUME NEW u \in Thread, Uses[u] = c, Sending(u)' PROVE handled'[u] < sent'[u]
        <5>1. CASE u = t
          BY <1>0, <5>1 DEF TypeOK, Positions
        <5>2. CASE u # t
          BY <1>0, <2>1, <4>1, <5>2 DEF TypeOK, Whole, Single, Sending
        <5> QED BY <5>1, <5>2
      <4> QED BY <1>7, <2>1, <4>1 DEF Whole, Single
    <3> QED BY <3>1, <3>2, <3>4, <3>5, <3>6 DEF Whole
  <2> QED BY <2>2, <2>3
<1> QED BY <1>1, <1>2, <1>3, <1>6, <1>8 DEF Sound

LEMMA SendTimesOutKeeps ==
    ASSUME Inv, NEW t \in Thread, SendTimesOut(t)
    PROVE  Inv'
<1> USE DEF Inv
<1>0. /\ sendPc' = [sendPc EXCEPT ![t] = "idle"] /\ Sending(t)
      /\ cut' = [cut EXCEPT ![Uses[t]] = cut[Uses[t]] \/ put[t] > 0]
      /\ UNCHANGED <<size, put, sent, running, mixed, stream>>
      /\ UNCHANGED <<open, pc, ready, cur, need, buf, handled>>
  BY DEF SendTimesOut, masterVars
<1>1. TypeOK'
  BY <1>0, FramesAssumption DEF TypeOK
<1>2. Positions'
  BY <1>0 DEF TypeOK, Positions, Sending
<1>3. Reading'
  BY <1>0 DEF Reading
<1>4. \A c \in Conn : Flow(c)' = Flow(c) /\ (InBody(c)' <=> InBody(c))
  BY <1>0 DEF Flow, InBody
<1>5. \A u \in Thread : sent'[u] \in Nat /\ sent[u] <= sent'[u]
  BY <1>0 DEF TypeOK
<1>6. Origins'
  BY <1>4, <1>5, SameOrigin
<1>7. ASSUME NEW c \in Conn, Clean(c)' PROVE Whole(c)'
  <2>1. ~cut[c] /\ (Uses[t] = c => ~(put[t] > 0))
    BY <1>0, <1>7 DEF Clean, TypeOK
  <2>2. Whole(c) /\ Origin(c)
    BY <1>0, <1>7, <2>1 DEF Clean, Sound, Origins
  <2>3. Idle(c)
    BY <1>0, <2>1 DEF Idle, TypeOK, Sending, Mid
  <2> QED BY <1>0, <1>4, <2>2, <2>3, WholeKept
<1> QED BY <1>1, <1>2, <1>3, <1>6, <1>7 DEF Sound

LEMMA ClientEndsKeeps ==
    ASSUME Inv, NEW d \in Conn, ClientEnds(d)
    PROVE  Inv'
<1> USE DEF Inv
<1>0. /\ running' = [running EXCEPT ![d] = FALSE]
      /\ sendPc' = [t \in Thread |-> IF Uses[t] = d THEN "ended" ELSE sendPc[t]]
      /\ UNCHANGED <<size, put, sent, mixed, cut, stream, open, pc, ready, cur, need, buf, handled>>
  BY DEF ClientEnds, masterVars
<1>1. TypeOK'
  BY <1>0 DEF TypeOK
<1>2. Positions'
  BY <1>0 DEF TypeOK, Positions, Sending
<1>3. Reading'
  BY <1>0 DEF Reading
<1>4. \A c \in Conn : Flow(c)' = Flow(c) /\ (InBody(c)' <=> InBody(c))
  BY <1>0 DEF Flow, InBody
<1>5. \A u \in Thread : sent'[u] \in Nat /\ sent[u] <= sent'[u]
  BY <1>0 DEF TypeOK
<1>6. Origins'
  BY <1>4, <1>5, SameOrigin
<1>7. ASSUME NEW c \in Conn, Clean(c)' PROVE Whole(c)'
  <2>1. Whole(c) /\ Origin(c)
    BY <1>0, <1>7 DEF Clean, Sound, Origins
  <2>2. CASE c # d
    <3>1. Idle(c) /\ running'[c] = running[c]
      BY <1>0, <2>2 DEF Idle, TypeOK, Sending, Mid
    <3> QED BY <1>0, <1>4, <2>1, <3>1, WholeKept
  <2>3. CASE c = d
    <3>1. \A t \in Thread : Uses[t] = c => ~Sending(t)' /\ ~Mid(t)'
      BY <1>0, <2>3 DEF Sending, Mid
    <3>2. Starts(c)' /\ Framed(Flow(c))'
      BY <1>0, <1>4, <2>1 DEF Whole, Starts
    <3>3. Known(c)'
      BY <1>0, <1>4, <2>1 DEF Whole, Known
    <3>4. EndsInside(c)' /\ Single(c)'
      BY <3>1 DEF EndsInside, Single
    <3>5. EndsBetween(c)'
      BY <1>0, <2>3 DEF EndsBetween, TypeOK
    <3> QED BY <3>2, <3>3, <3>4, <3>5 DEF Whole
  <2> QED BY <2>2, <2>3
<1> QED BY <1>1, <1>2, <1>3, <1>6, <1>7 DEF Sound

\* How far a call of send() gets: further, and not past the end of its part.
LEMMA PutUpto ==
    ASSUME Inv, NEW t \in Thread, PutUnits(t)
    PROVE  \E upto \in Nat :
              /\ put[t] < upto /\ upto <= CallEnd(t) /\ CallEnd(t) <= HeadLen + size[t]
              /\ put' = [put EXCEPT ![t] = upto]
              /\ stream' = [stream EXCEPT ![Uses[t]] =
                     stream[Uses[t]] \o Units(t, sent[t], size[t], put[t] + 1, upto)]
<1> USE DEF Inv
<1> DEFINE room == Capacity - Len(stream[Uses[t]])
           e == CallEnd(t)
           p == put[t]
           upto == Smaller(e, p + room)
<1>1. Uses[t] \in Conn /\ Capacity \in Nat /\ HeadLen \in Nat \ {0}
  BY FramesAssumption
<1>2. size[t] \in Nat /\ p \in Nat /\ Sending(t) /\ size[t] \in Size
  BY DEF TypeOK, PutUnits, Positions
<1>3. stream[Uses[t]] \in Seq(UnitSet)
  BY <1>1 DEF TypeOK
<1>4. room \in Int /\ room > 0
  BY <1>1, <1>3 DEF PutUnits
<1>5. e \in Nat /\ e <= HeadLen + size[t] /\ p < e
  BY <1>1, <1>2 DEF CallEnd, Sending, Positions
<1>6. /\ put' = [put EXCEPT ![t] = upto]
      /\ stream' = [stream EXCEPT ![Uses[t]] =
                         stream[Uses[t]] \o Units(t, sent[t], size[t], p + 1, upto)]
  BY DEF PutUnits
<1>7. upto \in Nat /\ p < upto /\ upto <= e
  <2> HIDE DEF room, e, p
  <2> QED BY <1>2, <1>4, <1>5 DEF Smaller
<1> HIDE DEF upto
<1> QED BY <1>5, <1>6, <1>7

LEMMA PutUnitsKeeps ==
    ASSUME Inv, NEW t \in Thread, PutUnits(t)
    PROVE  Inv'
<1> USE DEF Inv
<1> DEFINE d == Uses[t]
           a == put[t] + 1
           n == sent[t]
           s == size[t]
<1>0. PICK upto \in Nat :
          /\ put[t] < upto /\ upto <= CallEnd(t) /\ CallEnd(t) <= HeadLen + s
          /\ put' = [put EXCEPT ![t] = upto]
          /\ stream' = [stream EXCEPT ![d] = stream[d] \o Units(t, n, s, a, upto)]
  BY PutUpto
<1>1. /\ d \in Conn /\ a \in Nat \ {0} /\ n \in Nat /\ s \in Size /\ s \in Nat \ {0}
      /\ a <= upto /\ put[t] \in Nat /\ HeadLen \in Nat \ {0} /\ Sending(t)
      /\ upto <= HeadLen + s
  <2>1. Sending(t) /\ s \in Size
    BY DEF PutUnits, Positions
  <2>2. put[t] \in Nat /\ n \in Nat /\ d \in Conn /\ HeadLen \in Nat \ {0} /\ s \in Nat \ {0}
    BY <2>1, FramesAssumption DEF TypeOK
  <2>3. CallEnd(t) <= HeadLen + s /\ upto <= CallEnd(t) /\ CallEnd(t) \in Nat
    BY <1>0, <2>2 DEF CallEnd
  <2> QED BY <1>0, <2>1, <2>2, <2>3
<1>2. /\ running[d] /\ open[d]
      /\ sendPc' = [sendPc EXCEPT ![t] = IF put'[t] < CallEnd(t) THEN sendPc[t]
                                         ELSE IF sendPc[t] = "head" THEN "body" ELSE "idle"]
      /\ mixed' = [mixed EXCEPT ![d] = mixed[d] \/ \E u \in Thread \ {t} :
                        Uses[u] = d /\ Mid(u)]
      /\ UNCHANGED <<size, sent, running, cut, open, pc, ready, cur, need, buf, handled>>
  BY DEF PutUnits, Return, masterVars, Mid
<1>3. put'[t] = upto /\ \A u \in Thread \ {t} : put'[u] = put[u] /\ sendPc'[u] = sendPc[u]
  BY <1>0, <1>2 DEF TypeOK
<1>4. sendPc'[t] = IF upto < CallEnd(t) THEN sendPc[t]
                   ELSE IF sendPc[t] = "head" THEN "body" ELSE "idle"
  BY <1>2, <1>3 DEF TypeOK
<1> DEFINE us == Units(t, n, s, a, upto)
<1>5. /\ Flow(d) \in Seq(UnitSet) /\ Appends(Flow(d) \o us, Flow(d), t, n, s, a, upto)
  BY <1>1, FlowIs, AppendIs
<1> HIDE DEF us
<1>6. Flow(d)' = Flow(d) \o us /\ stream'[d] \in Seq(UnitSet)
  <2> DEFINE b == IF d = cur THEN buf ELSE <<>>
             k == stream[d]
  <2>1. b \in Seq(UnitSet) /\ k \in Seq(UnitSet) /\ us \in Seq(UnitSet)
    <3>1. <<>> \in Seq(UnitSet) /\ s \in Nat
      BY <1>1
    <3>2. Appends(<<>> \o us, <<>>, t, n, s, a, upto)
      BY <1>1, <3>1, AppendIs DEF us
    <3>3. us \in Seq(UnitSet)
      <4>1. us = <<>> \o us
        BY DEF us, Units
      <4> QED BY <3>2, <4>1 DEF Appends
    <3> QED BY <1>1, <3>3 DEF TypeOK
  <2>2. stream'[d] = k \o us /\ Flow(d) = b \o k /\ Flow(d)' = b \o stream'[d]
    BY <1>0, <1>1, <1>2 DEF TypeOK, Flow, us
  <2> HIDE DEF b, k
  <2>3. (b \o k) \o us = b \o (k \o us)
    BY <2>1, Regroup
  <2>4. k \o us \in Seq(UnitSet)
    BY <2>1, ConcatProperties
  <2> QED BY <2>2, <2>3, <2>4
<1>7. \A c \in Conn \ {d} : Flow(c)' = Flow(c) /\ stream'[c] = stream[c]
  BY <1>0, <1>1, <1>2 DEF TypeOK, Flow
<1>8. Appends(Flow(d)', Flow(d), t, n, s, a, upto)
  BY <1>5, <1>6
<1>9. \A c \in Conn : InBody(c)' <=> InBody(c)
  BY <1>2 DEF InBody
<1> HIDE DEF d, a, n, s
<1>10. TypeOK'
  <2>1. stream' \in [Conn -> Seq(UnitSet)]
    BY <1>0, <1>1, <1>6, <1>7 DEF TypeOK
  <2>2. put' \in [Thread -> Nat]
    BY <1>0 DEF TypeOK
  <2>3. sendPc' \in [Thread -> {"idle", "head", "body", "ended"}]
    BY <1>2 DEF TypeOK
  <2>4. mixed' \in [Conn -> BOOLEAN]
    BY <1>2 DEF TypeOK
  <2> QED BY <1>2, <2>1, <2>2, <2>3, <2>4 DEF TypeOK
<1>11. Positions'
  <2> SUFFICES ASSUME NEW u \in Thread
               PROVE  /\ sendPc'[u] = "head" => put'[u] < HeadLen
                      /\ sendPc'[u] = "body" => HeadLen <= put'[u] /\ put'[u] < HeadLen + size'[u]
                      /\ Sending(u)' => size'[u] \in Size
                      /\ handled'[u] <= sent'[u]
    BY DEF Positions
  <2>1. CASE u # t
    BY <1>2, <1>3, <2>1 DEF Positions, Sending
  <2>2. CASE u = t
    <3>1. CallEnd(t) = IF sendPc[t] = "head" THEN HeadLen ELSE HeadLen + s
      BY DEF CallEnd, s
    <3>2. sendPc[t] = "head" \/ (sendPc[t] = "body" /\ HeadLen <= put[t])
      BY <1>1 DEF Sending, Positions
    <3>3. sendPc'[t] = "head" => upto < HeadLen
      BY <1>4, <3>1, <3>2
    <3>4. sendPc'[t] = "body" => HeadLen <= upto /\ upto < HeadLen + s
      <4>1. CASE sendPc[t] = "head"
        BY <1>0, <1>1, <1>4, <3>1, <4>1
      <4>2. CASE sendPc[t] = "body"
        BY <1>0, <1>1, <1>4, <3>1, <3>2, <4>2
      <4> QED BY <3>2, <4>1, <4>2
    <3> QED BY <1>1, <1>2, <1>3, <2>2, <3>3, <3>4 DEF Positions, s
  <2> QED BY <2>1, <2>2
<1>12. Reading'
  BY <1>1, <1>2, <1>7 DEF Reading, TypeOK
\* The units of the connection are those it had and those the call put.
<1>13. ASSUME NEW i \in 1 .. Len(Flow(d)')
       PROVE  \/ i \in 1 .. Len(Flow(d)) /\ Flow(d)'[i] = Flow(d)[i]
              \/ \E k \in Nat : /\ Flow(d)'[i] = Unit(t, n, s, k)
                               /\ a <= k /\ k <= upto
                               /\ k = a + (i - Len(Flow(d))) - 1
  <2> DEFINE m == Len(Flow(d))
             k == a + (i - m) - 1
  <2>1. m \in Nat
    BY <1>5
  <2>2. /\ Len(Flow(d)') = m + (upto - a + 1)
        /\ \A j \in 1 .. m : Flow(d)'[j] = Flow(d)[j]
        /\ \A j \in 1 .. Len(Flow(d)') : j > m => Flow(d)'[j] = Unit(t, n, s, a + (j - m) - 1)
    BY <1>8 DEF Appends
  <2> HIDE DEF m
  <2>3. CASE i <= m
    <3>1. i \in 1 .. m
      BY <1>1, <2>1, <2>2, <2>3
    <3> QED BY <2>2, <3>1 DEF m
  <2>4. CASE i > m
    <3>1. k \in Nat /\ a <= k /\ k <= upto
      BY <1>1, <2>1, <2>2, <2>4
    <3>2. Flow(d)'[i] = Unit(t, n, s, k)
      BY <2>2, <2>4
    <3> QED BY <3>1, <3>2 DEF m
  <2>5. i \in Nat
    BY <1>1, <2>1, <2>2
  <2> QED BY <2>1, <2>3, <2>4, <2>5
<1>14. Origins'
  <2> SUFFICES ASSUME NEW c \in Conn PROVE Origin(c)'
    BY DEF Origins
  <2>1. \A u \in Thread : sent'[u] \in Nat /\ sent[u] <= sent'[u]
    BY <1>2 DEF TypeOK
  <2>2. CASE c # d
    <3>1. \A i \in 1 .. Len(Flow(c)') : \E j \in 1 .. Len(Flow(c)) : Flow(c)'[i] = Flow(c)[j]
      BY <1>7, <2>2
    <3> QED BY <2>1, <3>1, OriginKept DEF Origins
  <2>3. CASE c = d
    <3>1. Origin(d)
      BY <1>1 DEF Origins
    <3> SUFFICES ASSUME NEW i \in 1 .. Len(Flow(d)')
                 PROVE  Uses[Flow(d)'[i].by] = d /\ Flow(d)'[i].nth <= sent[Flow(d)'[i].by]
      BY <1>2, <2>3 DEF Origin
    <3>2. CASE i \in 1 .. Len(Flow(d)) /\ Flow(d)'[i] = Flow(d)[i]
      BY <3>1, <3>2 DEF Origin
    <3>3. ASSUME NEW k \in Nat, Flow(d)'[i] = Unit(t, n, s, k)
          PROVE  Uses[Flow(d)'[i].by] = d /\ Flow(d)'[i].nth <= sent[Flow(d)'[i].by]
      <4>1. Flow(d)'[i].by = t /\ Flow(d)'[i].nth = n
        BY <3>3 DEF Unit
      <4> QED BY <1>1, <4>1 DEF n, d
    <3> QED BY <1>13, <3>2, <3>3
  <2> QED BY <2>2, <2>3
<1>15. ASSUME NEW c \in Conn, c # d, Clean(c)' PROVE Whole(c)'
  <2>1. Whole(c) /\ Origin(c)
    BY <1>1, <1>2, <1>15 DEF Clean, Sound, Origins, TypeOK
  <2>2. Idle(c)
    BY <1>2, <1>3, <1>15 DEF Idle, Sending, Mid, d
  <2> QED BY <1>2, <1>7, <1>9, <1>15, <2>1, <2>2, WholeKept
<1>16. ASSUME Clean(d)' PROVE Whole(d)'
  <2> DEFINE f == Flow(d)
             m == Len(f)
  <2>1. mixed'[d] = (mixed[d] \/ \E u \in Thread \ {t} : Uses[u] = d /\ Mid(u))
    BY <1>1, <1>2 DEF TypeOK
  <2>2. Clean(d) /\ \A u \in Thread \ {t} : Uses[u] = d => ~Mid(u)
    BY <1>1, <1>2, <1>16, <2>1 DEF Clean
  <2>3. Whole(d) /\ Origin(d)
    BY <1>1, <2>2 DEF Sound, Origins
  <2>4. Uses[t] = d /\ a = put[t] + 1 /\ (Mid(t) <=> put[t] > 0)
    BY <1>1 DEF d, a, Mid
  <2>5. ~Mid(t) => \A u \in Thread : Uses[u] = d => ~Mid(u)
    BY <2>2
  <2>6. Mid(t) => /\ f # <<>> => f[m] = Unit(t, n, s, put[t])
                  /\ f = <<>> => InBody(d) /\ put[t] = HeadLen /\ s = need
    BY <2>3, <2>4 DEF Whole, EndsInside, n, s
  <2>7. ~Mid(t) => /\ f # <<>> => f[m].at = HeadLen + f[m].size
                   /\ f = <<>> => ~InBody(d)
    BY <1>2, <2>3, <2>5 DEF Whole, EndsBetween
  <2>8. Joins(f, t, n, s, a)
    <3>1. CASE Mid(t)
      <4>1. a # 1 /\ a - 1 = put[t]
        BY <1>1, <2>4, <3>1
      <4> QED BY <2>6, <3>1, <4>1 DEF Joins
    <3>2. CASE ~Mid(t)
      <4>1. a = 1
        BY <1>1, <2>4, <3>2
      <4> QED BY <2>7, <3>2, <4>1 DEF Joins
    <3> QED BY <3>1, <3>2
  <2>9. Later(f, t, n, s, a)
    <3> SUFFICES ASSUME NEW i \in 1 .. Len(f), f[i].by = t
                 PROVE  f[i].nth < n \/ (f[i].nth = n /\ f[i].size = s /\ f[i].at < a)
      BY DEF Later
    <3> DEFINE u == f[i]
    <3>1. u.by = t /\ u.nth \in Nat /\ u.at \in Nat /\ u.nth <= n
      BY <1>1, <2>3, FlowUnits DEF Origin, n
    <3>2. u.nth = n => u.size = s /\ u.at <= put[t]
      BY <2>3, <3>1 DEF Whole, Known, n, s
    <3> HIDE DEF u
    <3>3. u.nth < n \/ (u.nth = n /\ u.size = s /\ u.at < a)
      BY <1>1, <2>4, <3>1, <3>2
    <3> QED BY <3>3 DEF u
  <2>10. Framed(Flow(d)')
    BY <1>1, <1>5, <1>8, <2>3, <2>8, <2>9, AppendFramed DEF Whole
  <2> HIDE DEF f, m
  <2>11. /\ f \in Seq(UnitSet) /\ m \in Nat /\ m = Len(f) /\ f = Flow(d)
         /\ Len(Flow(d)') = m + (upto - a + 1) /\ upto - a + 1 \in Nat \ {0}
         /\ \A i \in 1 .. m : Flow(d)'[i] = f[i]
         /\ \A i \in 1 .. Len(Flow(d)') : i > m => Flow(d)'[i] = Unit(t, n, s, a + (i - m) - 1)
    BY <1>1, <1>5, <1>8 DEF Appends, f, m
  <2>12. Len(Flow(d)') \in Nat /\ Len(Flow(d)') > m /\ Len(Flow(d)') \in 1 .. Len(Flow(d)')
         /\ Flow(d)' # <<>> /\ Flow(d)'[Len(Flow(d)')] = Unit(t, n, s, upto)
    <3> DEFINE z == Len(Flow(d)')
    <3>1. z = m + (upto - a + 1)
      BY <2>11
    <3> HIDE DEF z
    <3>2. z \in Nat /\ z > m /\ z \in 1 .. z /\ a + (z - m) - 1 = upto
      BY <1>1, <2>11, <3>1
    <3>3. Flow(d)' # <<>>
      BY <2>11, <3>2 DEF z
    <3> QED BY <2>11, <3>2, <3>3 DEF z
  <2>13. Starts(d)'
    <3>1. CASE f # <<>>
      <4>1. Flow(d)'[1] = Flow(d)[1] /\ Flow(d) # <<>>
        BY <2>11, <3>1
      <4> QED BY <1>1, <1>2, <1>9, <2>3, <4>1 DEF Whole, Starts
    <3>2. CASE f = <<>>
      <4>1. m = 0 /\ Flow(d) = <<>>
        BY <2>11, <3>2
      <4>2. 1 \in 1 .. Len(Flow(d)') /\ 1 > m /\ a + (1 - m) - 1 = a
        BY <1>1, <2>12, <4>1
      <4>3. Flow(d)'[1].at = a /\ Flow(d)'[1].size = s
        BY <2>11, <4>2 DEF Unit
      <4>4. CASE Mid(t)
        BY <1>1, <1>2, <1>9, <2>3, <2>4, <2>6, <3>2, <4>3, <4>4 DEF Whole, Starts
      <4>5. CASE ~Mid(t)
        BY <1>1, <1>2, <1>9, <2>3, <2>4, <2>7, <3>2, <4>3, <4>5 DEF Whole, Starts
      <4> QED BY <4>4, <4>5
    <3> QED BY <3>1, <3>2
  <2>14. Known(d)'
    <3> SUFFICES ASSUME NEW i \in 1 .. Len(Flow(d)')
                 PROVE  LET u == Flow(d)'[i]
                        IN  /\ handled[u.by] < u.nth
                            /\ u.nth = sent[u.by] => u.size = size[u.by] /\ u.at <= put'[u.by]
      BY <1>2 DEF Known
    <3>1. CASE i \in 1 .. Len(Flow(d)) /\ Flow(d)'[i] = Flow(d)[i]
      <4> DEFINE u == Flow(d)[i]
      <4>1. u.by \in Thread /\ u.at \in Nat
        BY <1>1, <3>1, FlowUnits
      <4>2. /\ handled[u.by] < u.nth
            /\ u.nth = sent[u.by] => u.size = size[u.by] /\ u.at <= put[u.by]
        BY <2>3, <3>1 DEF Whole, Known
      <4> HIDE DEF u
      <4>3. put'[u.by] \in Nat /\ put[u.by] \in Nat /\ put[u.by] <= put'[u.by]
        <5>1. \A v \in Thread : put[v] \in Nat
          BY DEF TypeOK
        <5>2. put[t] < upto
          BY <1>0
        <5>3. CASE u.by = t
          BY <1>3, <5>1, <5>2, <5>3
        <5>4. CASE u.by # t
          BY <1>3, <4>1, <5>1, <5>4
        <5> QED BY <5>3, <5>4
      <4>4. /\ handled[u.by] < u.nth
            /\ u.nth = sent[u.by] => u.size = size[u.by] /\ u.at <= put'[u.by]
        BY <4>1, <4>2, <4>3
      <4> QED BY <3>1, <4>4 DEF u
    <3>2. ASSUME NEW k \in Nat, Flow(d)'[i] = Unit(t, n, s, k), k <= upto
          PROVE  LET u == Flow(d)'[i]
                 IN  /\ handled[u.by] < u.nth
                     /\ u.nth = sent[u.by] => u.size = size[u.by] /\ u.at <= put'[u.by]
      <4>1. /\ Flow(d)'[i].by = t /\ Flow(d)'[i].nth = n
            /\ Flow(d)'[i].size = s /\ Flow(d)'[i].at = k
        BY <3>2 DEF Unit
      <4>2. handled[t] < n
        BY <1>1, <2>3, <2>4 DEF Whole, Single, n
      <4> QED BY <1>3, <3>2, <4>1, <4>2 DEF n, s
    <3> QED BY <1>13, <3>1, <3>2
  <2>15. \A u \in Thread : Uses[u] = d /\ Mid(u)' => u = t
    BY <1>3, <2>2 DEF Mid, Sending
  <2>16. EndsInside(d)'
    <3> SUFFICES Mid(t)' => Flow(d)'[Len(Flow(d)')] = Unit(t, sent'[t], size'[t], put'[t])
      BY <2>12, <2>15 DEF EndsInside, Unit
    <3> QED BY <1>2, <1>3, <2>12 DEF n, s
  <2>17. EndsBetween(d)'
    <3> SUFFICES ASSUME ~Mid(t)'
                 PROVE  Flow(d)'[Len(Flow(d)')].at = HeadLen + Flow(d)'[Len(Flow(d)')].size
      BY <2>4, <2>12 DEF EndsBetween
    <3>1. put'[t] > 0 /\ upto > 0
      BY <1>1, <1>3
    <3>2. sendPc'[t] \notin {"head", "body"}
      BY <3>1 DEF Mid, Sending
    <3>3. sendPc[t] = "body" /\ ~(upto < CallEnd(t))
      BY <1>1, <1>4, <3>2 DEF Sending
    <3>4. upto = HeadLen + s
      BY <1>0, <1>1, <3>3 DEF CallEnd, s
    <3> QED BY <2>12, <3>4 DEF Unit
  <2>18. Single(d)'
    <3>1. ASSUME NEW u \in Thread, Uses[u] = d, Sending(u)' PROVE handled'[u] < sent'[u]
      <4>1. Sending(u)
        BY <1>1, <1>3, <3>1 DEF Sending
      <4> QED BY <1>2, <2>3, <3>1, <4>1 DEF Whole, Single
    <3> QED BY <2>15, <3>1 DEF Single
  <2>19. Framed(Flow(d))'
    BY <2>10
  <2> QED BY <2>13, <2>14, <2>16, <2>17, <2>18, <2>19 DEF Whole
<1>17. Sound'
  BY <1>15, <1>16 DEF Sound
<1> QED BY <1>10, <1>11, <1>12, <1>14, <1>17

-----------------------------------------------------------------------------
(* The master.                                                             *)

\* A step of the master that sends nothing leaves the threads as they were.
LEMMA MasterIdle ==
    ASSUME UNCHANGED <<sendPc, put, sent, size, handled>>, NEW c \in Conn
    PROVE  Idle(c)
BY DEF Idle, Sending, Mid

\* Steps that take no unit: of a connection that stays open all is as it was.
LEMMA QuietSound ==
    ASSUME Inv, UNCHANGED senderVars, UNCHANGED handled, NEW c \in Conn,
           Clean(c), Flow(c)' = Flow(c), InBody(c)' <=> InBody(c), InBody(c) => need' = need
    PROVE  Whole(c)'
<1>1. Whole(c) /\ Origin(c) /\ TypeOK
  BY DEF Inv, Sound, Origins
<1>2. Idle(c) /\ running'[c] = running[c]
  BY MasterIdle DEF senderVars
<1> QED BY <1>1, <1>2, WholeKept

LEMMA SelectKeeps ==
    ASSUME Inv, Select
    PROVE  Inv'
<1> USE DEF Inv
<1>0. /\ ready' = {c \in Conn : Readable(c)}
      /\ UNCHANGED <<senderVars, stream, open, pc, cur, need, buf, handled>>
  BY DEF Select
<1>1. TypeOK' /\ Positions' /\ Reading'
  BY <1>0 DEF TypeOK, Positions, Reading, Sending, senderVars
<1>2. \A c \in Conn : Flow(c)' = Flow(c) /\ (InBody(c)' <=> InBody(c))
  BY <1>0 DEF Flow, InBody
<1>3. Origins'
  BY <1>0, <1>2, SameOrigin DEF TypeOK, senderVars
<1>4. ASSUME NEW c \in Conn, Clean(c)' PROVE Whole(c)'
  <2>1. Clean(c)
    BY <1>0, <1>4 DEF Clean, senderVars
  <2> QED BY <1>0, <1>2, <2>1, QuietSound
<1> QED BY <1>1, <1>3, <1>4 DEF Sound

\* Between packets nothing is read: which connection is in service is no matter.
LEMMA TakeConnKeeps ==
    ASSUME Inv, TakeConn
    PROVE  Inv'
<1> USE DEF Inv
<1>0. /\ pc = "select" /\ pc' = "head" /\ cur' \in Conn /\ stream[cur'] # <<>>
      /\ ready' \subseteq Conn /\ UNCHANGED <<senderVars, stream, open, need, buf, handled>>
  <2>1. PICK c \in ready : ready' = ready \ {c} /\ cur' = c /\ stream[c] # <<>>
    BY DEF TakeConn, CheckRecvBuffer
  <2> QED BY <2>1 DEF TakeConn, TypeOK
<1>1. TypeOK' /\ Positions'
  BY <1>0 DEF TypeOK, Positions, Sending, senderVars
<1>2. buf = <<>> /\ buf' = <<>>
  BY <1>0 DEF Reading
<1>3. Reading'
  BY <1>0, <1>2, FramesAssumption DEF Reading
<1>4. \A c \in Conn : Flow(c)' = Flow(c) /\ ~InBody(c)' /\ ~InBody(c)
  BY <1>0, <1>2 DEF Flow, InBody
<1>5. Origins'
  BY <1>0, <1>4, SameOrigin DEF TypeOK, senderVars
<1>6. ASSUME NEW c \in Conn, Clean(c)' PROVE Whole(c)'
  <2>1. Clean(c)
    BY <1>0, <1>6 DEF Clean, senderVars
  <2> QED BY <1>0, <1>4, <2>1, QuietSound
<1> QED BY <1>1, <1>3, <1>5, <1>6 DEF Sound

\* A connection that is closed, the one in service if there is one, is left out
\* of account; the flow of any other stays.
LEMMA CloseKeeps ==
    ASSUME Inv, NEW d \in Conn, pc # "select" => d = cur,
           open' = [open EXCEPT ![d] = FALSE], stream' = [stream EXCEPT ![d] = <<>>],
           pc' = "select", need' \in Nat, buf' = <<>>, cur' \in Conn, ready' \subseteq Conn,
           UNCHANGED <<senderVars, handled>>
    PROVE  Inv'
<1> USE DEF Inv
<1>1. TypeOK' /\ Positions'
  BY DEF TypeOK, Positions, Sending, senderVars
<1>2. Reading'
  BY DEF Reading, TypeOK
<1>3. ASSUME NEW c \in Conn, c # d PROVE Flow(c)' = Flow(c) /\ ~InBody(c)' /\ ~InBody(c)
  <2>1. stream'[c] = stream[c] /\ (c # cur \/ buf = <<>>)
    BY <1>3 DEF TypeOK, Reading
  <2> QED BY <1>3, <2>1 DEF Flow, InBody
<1>4. Len(Flow(d)') = 0
  BY DEF Flow, TypeOK
<1>5. ASSUME NEW c \in Conn PROVE Origin(c)'
  <2>1. \A i \in 1 .. Len(Flow(c)') : \E j \in 1 .. Len(Flow(c)) : Flow(c)'[i] = Flow(c)[j]
    BY <1>3, <1>4
  <2>2. \A t \in Thread : sent'[t] \in Nat /\ sent[t] <= sent'[t]
    BY DEF TypeOK, senderVars
  <2> QED BY <2>1, <2>2, OriginKept DEF Origins
<1>6. ASSUME NEW c \in Conn, Clean(c)' PROVE Whole(c)'
  <2>1. c # d /\ Clean(c)
    BY <1>6 DEF Clean, senderVars, TypeOK
  <2> QED BY <1>3, <2>1, QuietSound
<1> QED BY <1>1, <1>2, <1>5, <1>6 DEF Sound, Origins

LEMMA TakeEndedKeeps ==
    ASSUME Inv, TakeEnded
    PROVE  Inv'
<1>1. PICK c \in ready :
          /\ ready' = ready \ {c} /\ cur' = c
          /\ open' = [open EXCEPT ![c] = FALSE] /\ stream' = [stream EXCEPT ![c] = <<>>]
  BY DEF TakeEnded
<1>2. ready \subseteq Conn /\ need \in Nat /\ (pc = "select" => buf = <<>>)
  BY DEF Inv, TypeOK, Reading
<1>3. pc = "select" /\ UNCHANGED <<senderVars, pc, need, buf, handled>>
  BY DEF TakeEnded
<1> QED BY <1>1, <1>2, <1>3, CloseKeeps

\* A length that is none, no answer within the time, the end of the process.
LEMMA CloseConnKeeps ==
    ASSUME Inv, pc # "select", CloseConn(cur)
    PROVE  Inv'
<1>1. cur \in Conn /\ ready \subseteq Conn
  BY DEF Inv, TypeOK
<1> QED BY <1>1, CloseKeeps DEF CloseConn

\* What is read of the connection in service moves from the kernel to the master.
LEMMA RecvKeeps ==
    ASSUME Inv, (pc = "head" /\ Recv(HeadLen)) \/ (pc = "body" /\ Recv(need)),
           UNCHANGED <<senderVars, open, pc, ready, cur, need, handled>>
    PROVE  Inv'
<1> USE DEF Inv
<1>0. /\ Flow(cur) = buf' \o stream'[cur]
      /\ buf' \in Seq(UnitSet) /\ stream' \in [Conn -> Seq(UnitSet)]
      /\ (\A c \in Conn \ {cur} : stream'[c] = stream[c]) /\ stream[cur] # <<>>
      /\ (pc = "head" => Len(buf') <= HeadLen) /\ (pc = "body" => Len(buf') <= need)
  <2>1. CASE pc = "head"
    <3>1. HeadLen \in Nat /\ Recv(HeadLen)
      BY <2>1, FramesAssumption
    <3> QED BY <2>1, <3>1, RecvMoves
  <2>2. CASE pc = "body"
    <3>1. need \in Nat /\ Recv(need)
      BY <2>2 DEF TypeOK
    <3> QED BY <2>2, <3>1, RecvMoves
  <2> QED BY <2>1, <2>2
<1>1. TypeOK' /\ Positions'
  BY <1>0 DEF TypeOK, Positions, Sending, senderVars
<1>2. Reading'
  BY <1>0 DEF Reading, TypeOK
<1>3. \A c \in Conn : Flow(c)' = Flow(c) /\ (InBody(c)' <=> InBody(c))
  BY <1>0 DEF Flow, InBody
<1>4. Origins'
  BY <1>3, SameOrigin DEF TypeOK, senderVars
<1>5. ASSUME NEW c \in Conn, Clean(c)' PROVE Whole(c)'
  <2>1. Clean(c)
    BY <1>5 DEF Clean, senderVars
  <2> QED BY <1>3, <2>1, QuietSound
<1> QED BY <1>1, <1>2, <1>4, <1>5 DEF Sound

\* The front of frames, as far as its packet goes.
LEMMA FrontIs ==
    ASSUME NEW f \in Seq(UnitSet), Framed(f), NEW l \in Nat \ {0}, l <= Len(f),
           NEW a \in Nat, f[1].at = a, a + l - 1 <= HeadLen + f[1].size
    PROVE  \A i \in 1 .. l : f[i] = Unit(f[1].by, f[1].nth, f[1].size, a + i - 1)
<1> SUFFICES ASSUME NEW i \in 1 .. l
             PROVE  f[i] = Unit(f[1].by, f[1].nth, f[1].size, a + i - 1)
  OBVIOUS
<1> DEFINE s == f[1].size
<1>1. Len(f) \in Nat /\ f[1] \in UnitSet
  OBVIOUS
<1>2. HeadLen \in Nat /\ s \in Nat
  BY <1>1, FramesAssumption DEF UnitSet
<1> HIDE DEF s
<1>3. 1 \in 1 .. Len(f) /\ i \in 1 .. Len(f) /\ 1 <= i /\ a + (i - 1) = a + i - 1
  BY <1>1
<1>4. a + (i - 1) <= HeadLen + s
  BY <1>2, <1>3 DEF s
<1> QED BY <1>3, <1>4 DEF Framed, Runs, s

\* What was read is as it was sent.
LEMMA BufIs ==
    ASSUME TypeOK, Framed(Flow(cur)), buf # <<>>, NEW a \in Nat, Flow(cur)[1].at = a,
           a + Len(buf) - 1 <= HeadLen + Flow(cur)[1].size
    PROVE  /\ buf = Units(buf[1].by, buf[1].nth, buf[1].size, a, a + Len(buf) - 1)
           /\ 1 \in 1 .. Len(Flow(cur)) /\ buf[1] = Flow(cur)[1]
           /\ Len(buf) \in 1 .. Len(Flow(cur))
           /\ Flow(cur)[Len(buf)] =
                  Unit(buf[1].by, buf[1].nth, buf[1].size, a + Len(buf) - 1)
<1> DEFINE b == buf
           f == Flow(cur)
           l == Len(b)
<1>1. b \in Seq(UnitSet) /\ f \in Seq(UnitSet) /\ b # <<>>
  BY FlowIs DEF TypeOK
<1>2. /\ l \in Nat \ {0} /\ Len(f) \in Nat /\ l <= Len(f)
      /\ \A i \in 1 .. l : i \in 1 .. Len(f) /\ f[i] = b[i]
  <2>1. l \in Nat \ {0} /\ Len(f) \in Nat
    BY <1>1
  <2>2. Len(f) = l + Len(stream[cur]) /\ Len(stream[cur]) \in Nat
        /\ \A i \in 1 .. l : i \in 1 .. Len(f) /\ f[i] = b[i]
    BY FlowFront
  <2> HIDE DEF b, f, l
  <2>3. l <= Len(f)
    BY <2>1, <2>2
  <2> QED BY <2>1, <2>2, <2>3
<1> HIDE DEF b, f
<1>3. \A i \in 1 .. l : f[i] = Unit(f[1].by, f[1].nth, f[1].size, a + i - 1)
  <2>1. f[1].at = a /\ a + l - 1 <= HeadLen + f[1].size /\ Framed(f)
    BY DEF f, b
  <2> HIDE DEF l
  <2> QED BY <1>1, <1>2, <2>1, FrontIs
<1>4. 1 \in 1 .. l /\ l \in 1 .. l /\ b[1] = f[1]
  BY <1>2
<1>5. \A i \in 1 .. l : b[i] = Unit(b[1].by, b[1].nth, b[1].size, a + i - 1)
  BY <1>2, <1>3, <1>4
<1>6. b = [i \in 1 .. l |-> b[i]]
  BY <1>1
<1>7. b = [i \in 1 .. l |-> Unit(b[1].by, b[1].nth, b[1].size, a + i - 1)]
  BY <1>5, <1>6
<1>8. (a + l - 1) - a + 1 = l
  BY <1>2
<1>9. b = Units(b[1].by, b[1].nth, b[1].size, a, a + l - 1)
  BY <1>7, <1>8 DEF Units
<1> QED BY <1>2, <1>4, <1>5, <1>9 DEF b, f

\* A head and a body that were read whole.
LEMMA HeadWhole ==
    ASSUME Inv, Whole(cur), pc = "head", Len(buf) = HeadLen
    PROVE  /\ IsHead(buf) /\ buf # <<>> /\ buf[1].size \in Size
           /\ HeadLen \in 1 .. Len(Flow(cur))
           /\ Flow(cur)[HeadLen] = Unit(buf[1].by, buf[1].nth, buf[1].size, HeadLen)
<1> USE DEF Inv
<1> DEFINE f == Flow(cur)
<1>1. HeadLen \in Nat \ {0} /\ cur \in Conn /\ buf \in Seq(UnitSet) /\ Size \subseteq Nat \ {0}
  BY FramesAssumption DEF TypeOK
<1>2. buf # <<>> /\ 1 \in 1 .. Len(buf)
  BY <1>1
<1>3. 1 \in 1 .. Len(f) /\ f # <<>> /\ f[1] = buf[1]
  <2>1. 1 \in 1 .. Len(f) /\ f[1] = buf[1]
    BY <1>2, FlowFront
  <2> QED BY <1>1, <2>1, FlowIs
<1>4. f[1].at = 1 /\ f[1].size \in Size /\ Framed(f)
  BY <1>3 DEF Whole, Starts, InBody, Framed, Bounds
<1> HIDE DEF f
<1>5. 1 + HeadLen - 1 = HeadLen /\ HeadLen <= HeadLen + f[1].size
  <2> DEFINE x == f[1].size
  <2>1. x \in Nat
    BY <1>1, <1>4
  <2> HIDE DEF x
  <2>2. 1 + HeadLen - 1 = HeadLen /\ HeadLen <= HeadLen + x
    BY <1>1, <2>1
  <2> QED BY <2>2 DEF x
<1>6. /\ buf = Units(buf[1].by, buf[1].nth, buf[1].size, 1, 1 + HeadLen - 1)
      /\ HeadLen \in 1 .. Len(f)
      /\ f[HeadLen] = Unit(buf[1].by, buf[1].nth, buf[1].size, 1 + HeadLen - 1)
  <2>1. 1 \in Nat /\ 1 + Len(buf) - 1 <= HeadLen + f[1].size
    BY <1>5
  <2> QED BY <1>2, <1>4, <2>1, BufIs DEF f
<1> QED BY <1>2, <1>3, <1>4, <1>5, <1>6 DEF IsHead, f

LEMMA BodyWhole ==
    ASSUME Inv, Whole(cur), pc = "body", Len(buf) = need
    PROVE  /\ IsPacket(buf) /\ buf # <<>> /\ buf[1].size = need /\ need \in Size
           /\ 1 \in 1 .. Len(Flow(cur)) /\ buf[1] = Flow(cur)[1]
           /\ need \in 1 .. Len(Flow(cur))
           /\ Flow(cur)[need] = Unit(buf[1].by, buf[1].nth, need, HeadLen + need)
<1> USE DEF Inv
<1> DEFINE f == Flow(cur)
<1>1. /\ HeadLen \in Nat \ {0} /\ cur \in Conn /\ buf \in Seq(UnitSet)
      /\ need \in Size /\ need \in Nat \ {0}
  BY FramesAssumption DEF TypeOK, Whole, Starts, InBody
<1>2. buf # <<>> /\ 1 \in 1 .. Len(buf)
  BY <1>1
<1>3. 1 \in 1 .. Len(f) /\ f # <<>> /\ f[1] = buf[1]
  <2>1. 1 \in 1 .. Len(f) /\ f[1] = buf[1]
    BY <1>2, FlowFront
  <2> QED BY <1>1, <2>1, FlowIs
<1>4. f[1].at = HeadLen + 1 /\ f[1].size = need /\ Framed(f)
  BY <1>1, <1>3 DEF Whole, Starts, InBody
<1> HIDE DEF f
<1>5. (HeadLen + 1) + need - 1 = HeadLen + need
  BY <1>1
<1>6. /\ buf = Units(buf[1].by, buf[1].nth, buf[1].size, HeadLen + 1, (HeadLen + 1) + need - 1)
      /\ need \in 1 .. Len(f)
      /\ f[need] = Unit(buf[1].by, buf[1].nth, buf[1].size, (HeadLen + 1) + need - 1)
  <2>1. HeadLen + 1 \in Nat /\ (HeadLen + 1) + Len(buf) - 1 <= HeadLen + f[1].size
    BY <1>1, <1>4, <1>5
  <2> QED BY <1>2, <1>4, <2>1, BufIs DEF f
<1> QED BY <1>1, <1>2, <1>3, <1>4, <1>5, <1>6 DEF IsPacket, f

\* The master is done with what it read.
LEMMA Dropped ==
    ASSUME TypeOK, NEW d \in Conn, cur = d, cur' = d, stream' = stream, buf' = <<>>,
           NEW l \in Nat, Len(buf) = l
    PROVE  /\ Flow(d)' \in Seq(UnitSet) /\ Len(Flow(d)') \in Nat
           /\ Len(Flow(d)) \in Nat /\ Len(Flow(d)) = Len(Flow(d)') + l
           /\ \A i \in 1 .. Len(Flow(d)') :
                 i + l \in 1 .. Len(Flow(d)) /\ Flow(d)'[i] = Flow(d)[i + l]
           /\ Framed(Flow(d)) => Framed(Flow(d)')
           /\ \A c \in Conn \ {d} : Flow(c)' = Flow(c)
<1> DEFINE f == Flow(d)
           g == stream[d]
<1>1. f \in Seq(UnitSet) /\ g \in Seq(UnitSet) /\ Len(g) \in Nat /\ Len(f) \in Nat
  BY FlowIs DEF TypeOK
<1>2. Flow(d)' = g
  BY <1>1, ConcatEmptySeq DEF Flow
<1>3. /\ g = SubSeq(f, l + 1, Len(f))
      /\ \A i \in 1 .. Len(g) : i + l \in 1 .. Len(f) /\ g[i] = f[i + l]
  BY FlowFront
<1>7. Len(f) = l + Len(g) /\ Len(f) \in Nat /\ Len(g) \in Nat
  BY <1>1, FlowFront
<1>4. \A c \in Conn \ {d} : Flow(c)' = Flow(c)
  BY DEF Flow
<1> HIDE DEF f, g
<1>5. l \in 0 .. Len(f) /\ Len(f) = Len(g) + l
  BY <1>7
<1>6. Framed(f) => Framed(g)
  BY <1>1, <1>3, <1>5, SuffixFramed
<1> QED BY <1>1, <1>2, <1>3, <1>4, <1>5, <1>6 DEF f

\* The units left over were there before.
LEMMA DroppedOrigin ==
    ASSUME TypeOK, Origins, NEW d \in Conn, cur = d, cur' = d, stream' = stream,
           buf' = <<>>, sent' = sent
    PROVE  Origins'
<1> SUFFICES ASSUME NEW c \in Conn PROVE Origin(c)'
  BY DEF Origins
<1>1. Len(buf) \in Nat
  BY DEF TypeOK
<1>2. \A i \in 1 .. Len(Flow(c)') : \E j \in 1 .. Len(Flow(c)) : Flow(c)'[i] = Flow(c)[j]
  <2>1. CASE c # d
    BY <1>1, <2>1, Dropped
  <2>2. CASE c = d
    <3> SUFFICES ASSUME NEW i \in 1 .. Len(Flow(d)')
                 PROVE  \E j \in 1 .. Len(Flow(d)) : Flow(d)'[i] = Flow(d)[j]
      BY <2>2
    <3>1. i + Len(buf) \in 1 .. Len(Flow(d)) /\ Flow(d)'[i] = Flow(d)[i + Len(buf)]
      BY <1>1, Dropped
    <3> QED BY <3>1
  <2> QED BY <2>1, <2>2
<1>3. \A t \in Thread : sent'[t] \in Nat /\ sent[t] <= sent'[t]
  BY DEF TypeOK
<1> QED BY <1>2, <1>3, OriginKept DEF Origins

LEMMA TakeLengthKeeps ==
    ASSUME Inv, TakeLength
    PROVE  Inv'
<1> USE DEF Inv
<1>0. /\ pc = "head" /\ Len(buf) = HeadLen /\ need' \in Lengths(buf)
      /\ pc' = "body" /\ buf' = <<>>
      /\ UNCHANGED <<senderVars, stream, open, ready, cur, handled>>
  BY DEF TakeLength
<1>1. HeadLen \in Nat \ {0} /\ buf \in Seq(UnitSet) /\ Size \subseteq Nat \ {0}
  BY FramesAssumption DEF TypeOK
<1>2. TypeOK'
  <2>1. buf[1].size \in Nat
    <3>1. buf[1] \in UnitSet
      BY <1>0, <1>1
    <3> QED BY <3>1 DEF UnitSet
  <2>2. need' \in Nat
    <3>1. CASE IsHead(buf)
      BY <1>0, <2>1, <3>1 DEF Lengths
    <3>2. CASE ~IsHead(buf)
      <4>1. need' \in {0} \cup Size \cup {Capacity + 1}
        BY <1>0, <3>2 DEF Lengths
      <4> QED BY <1>1, <4>1, FramesAssumption
    <3> QED BY <3>1, <3>2
  <2> QED BY <1>0, <2>2 DEF TypeOK, senderVars
<1>3. Positions'
  BY <1>0 DEF Positions, Sending, senderVars
<1>4. Reading'
  BY <1>0, <1>2 DEF Reading, TypeOK
<1>5. Origins'
  BY <1>0, DroppedOrigin DEF senderVars, TypeOK
<1>6. PICK d \in Conn : d = cur
  BY DEF TypeOK
<1>7. /\ Flow(d)' \in Seq(UnitSet) /\ Len(Flow(d)') \in Nat
      /\ Len(Flow(d)) \in Nat /\ Len(Flow(d)) = Len(Flow(d)') + HeadLen
      /\ \A i \in 1 .. Len(Flow(d)') :
            i + HeadLen \in 1 .. Len(Flow(d)) /\ Flow(d)'[i] = Flow(d)[i + HeadLen]
      /\ Framed(Flow(d)) => Framed(Flow(d)')
      /\ \A c \in Conn \ {d} : Flow(c)' = Flow(c)
  BY <1>0, <1>1, <1>6, Dropped
<1>8. ASSUME NEW c \in Conn, c # d, Clean(c)' PROVE Whole(c)'
  <2>1. Clean(c) /\ ~InBody(c)' /\ ~InBody(c)
    BY <1>0, <1>6, <1>8 DEF Clean, InBody, senderVars
  <2> QED BY <1>0, <1>7, <1>8, <2>1, QuietSound
<1>9. ASSUME Clean(d)' PROVE Whole(d)'
  <2> DEFINE f == Flow(d)
             g == Flow(d)'
             u == buf[1]
  <2>1. Whole(d) /\ Origin(d)
    BY <1>0, <1>9 DEF Clean, Sound, Origins, senderVars
  <2>2. /\ IsHead(buf) /\ buf # <<>> /\ u.size \in Size /\ HeadLen \in 1 .. Len(f)
        /\ f[HeadLen] = Unit(u.by, u.nth, u.size, HeadLen)
    BY <1>0, <1>6, <2>1, HeadWhole
  <2>3. need' = u.size /\ InBody(d)'
    BY <1>0, <1>6, <2>2 DEF Lengths, InBody
  <2> HIDE DEF f, g, u
  <2>4. f # <<>> /\ (g = <<>> <=> Len(g) = 0)
    BY <1>7, <2>2 DEF f, g
  <2>5. g # <<>> => /\ 1 \in 1 .. Len(g) /\ Len(g) \in 1 .. Len(g)
                    /\ g[1] = f[HeadLen + 1] /\ HeadLen + 1 \in 1 .. Len(f)
                    /\ g[Len(g)] = f[Len(f)]
    <3>1. ASSUME g # <<>> PROVE 1 \in 1 .. Len(g) /\ Len(g) \in 1 .. Len(g)
      BY <1>7, <2>4, <3>1 DEF g
    <3>2. 1 + HeadLen = HeadLen + 1 /\ Len(g) + HeadLen = Len(f)
      BY <1>1, <1>7 DEF f, g
    <3> QED BY <1>7, <3>1, <3>2 DEF f, g
  <2>6. g = <<>> => Len(f) = HeadLen
    BY <1>1, <1>7, <2>4 DEF f, g
  <2>7. Starts(d)'
    <3>1. ASSUME g # <<>> PROVE g[1].at = HeadLen + 1 /\ g[1].size = u.size
      <4>1. f[HeadLen].at = HeadLen /\ f[HeadLen].size = u.size
        BY <2>2 DEF Unit
      <4>2. u.size \in Nat \ {0}
        BY <1>1, <2>2
      <4> DEFINE p == HeadLen
                 q == HeadLen + 1
      <4>3. p \in 1 .. Len(f) /\ q \in 1 .. Len(f) /\ p <= q /\ p + (q - p) = HeadLen + 1
            /\ p + (q - p) <= HeadLen + u.size
        BY <1>1, <2>2, <2>5, <3>1, <4>2
      <4>4. f[p].at = p /\ f[p].size = u.size
        BY <4>1
      <4> HIDE DEF p, q
      <4>5. f[q] = Unit(f[p].by, f[p].nth, f[p].size, f[p].at + (q - p))
        BY <2>1, <4>3, <4>4 DEF Whole, Framed, Runs, f
      <4>6. f[q].at = HeadLen + 1 /\ f[q].size = u.size
        BY <4>3, <4>4, <4>5 DEF Unit
      <4> QED BY <2>5, <3>1, <4>6 DEF q
    <3> QED BY <2>2, <2>3, <3>1 DEF Starts, g
  <2>8. Known(d)'
    <3> SUFFICES ASSUME NEW i \in 1 .. Len(g)
                 PROVE  /\ handled[g[i].by] < g[i].nth
                        /\ g[i].nth = sent[g[i].by] =>
                              g[i].size = size[g[i].by] /\ g[i].at <= put[g[i].by]
      BY <1>0 DEF Known, g, senderVars
    <3>1. i + HeadLen \in 1 .. Len(f) /\ g[i] = f[i + HeadLen]
      BY <1>7 DEF f, g
    <3> QED BY <2>1, <3>1 DEF Whole, Known, f
  <2>9. \A t \in Thread : (Mid(t)' <=> Mid(t)) /\ (Sending(t)' <=> Sending(t))
    BY <1>0 DEF senderVars, Mid, Sending
  <2>10. EndsInside(d)'
    <3> SUFFICES ASSUME NEW t \in Thread, Uses[t] = d, Mid(t)
                 PROVE  /\ g # <<>> => g[Len(g)] = Unit(t, sent[t], size[t], put[t])
                        /\ g = <<>> => put[t] = HeadLen /\ size[t] = u.size
      BY <1>0, <2>3, <2>9 DEF EndsInside, senderVars, g, Unit
    <3>1. f[Len(f)] = Unit(t, sent[t], size[t], put[t])
      BY <2>1, <2>4 DEF Whole, EndsInside, f
    <3> QED BY <2>2, <2>5, <2>6, <3>1 DEF Unit
  <2>11. EndsBetween(d)'
    <3> SUFFICES ASSUME running[d], \A t \in Thread : Uses[t] = d => ~Mid(t)
                 PROVE  /\ g # <<>> => g[Len(g)].at = HeadLen + g[Len(g)].size
                        /\ g # <<>>
      BY <1>0, <2>9 DEF EndsBetween, senderVars, g
    <3>1. f[Len(f)].at = HeadLen + f[Len(f)].size
      BY <2>1, <2>4 DEF Whole, EndsBetween, f
    <3>2. ASSUME g = <<>> PROVE FALSE
      <4>1. HeadLen = HeadLen + u.size
        BY <2>2, <2>6, <3>1, <3>2 DEF Unit
      <4>2. u.size \in Nat \ {0}
        BY <1>1, <2>2
      <4> QED BY <1>1, <4>1, <4>2
    <3> QED BY <2>5, <3>1, <3>2
  <2>12. Single(d)'
    BY <1>0, <2>1, <2>9 DEF Whole, Single, senderVars
  <2>13. Framed(Flow(d))'
    BY <1>7, <2>1 DEF Whole
  <2> QED BY <2>7, <2>8, <2>10, <2>11, <2>12, <2>13 DEF Whole
<1> QED BY <1>2, <1>3, <1>4, <1>5, <1>8, <1>9 DEF Sound

LEMMA HandleKeeps ==
    ASSUME Inv, Handle
    PROVE  Inv'
<1> USE DEF Inv
<1>0. /\ pc = "body" /\ Len(buf) = need /\ pc' = "select" /\ need' = 0 /\ buf' = <<>>
      /\ handled' = IF IsPacket(buf)
                    THEN [handled EXCEPT ![buf[1].by] = buf[1].nth] ELSE handled
      /\ UNCHANGED <<senderVars, stream, open, ready, cur>>
  BY DEF Handle
<1>6. PICK d \in Conn : d = cur
  BY DEF TypeOK
<1> DEFINE f == Flow(d)
           g == Flow(d)'
           u == buf[1]
<1>1. IsPacket(buf) => /\ 1 \in 1 .. Len(f) /\ u = f[1] /\ u.by \in Thread /\ u.nth \in Nat
                       /\ Uses[u.by] = d /\ u.nth <= sent[u.by]
  <2> SUFFICES ASSUME buf # <<>>
               PROVE  /\ 1 \in 1 .. Len(f) /\ u = f[1] /\ u.by \in Thread /\ u.nth \in Nat
                      /\ Uses[u.by] = d /\ u.nth <= sent[u.by]
    BY DEF IsPacket
  <2>1. 1 \in 1 .. Len(buf)
    BY DEF TypeOK
  <2>2. 1 \in 1 .. Len(f) /\ u = f[1]
    BY <1>6, <2>1, FlowFront
  <2>3. Origin(d)
    BY DEF Origins
  <2> QED BY <2>2, <2>3, FlowUnits DEF Origin
<1>2. \A t \in Thread :
          handled'[t] = IF IsPacket(buf) /\ t = u.by THEN u.nth ELSE handled[t]
  BY <1>0, <1>1 DEF TypeOK
<1>3. TypeOK'
  <2>1. handled' \in [Thread -> Nat]
    BY <1>0, <1>1 DEF TypeOK
  <2> QED BY <1>0, <2>1 DEF TypeOK, senderVars
<1>4. Positions'
  BY <1>0, <1>1, <1>2 DEF Positions, Sending, senderVars
<1>5. Reading'
  BY <1>0 DEF Reading
<1>7. Origins'
  BY <1>0, <1>6, DroppedOrigin DEF senderVars
<1>8. /\ g \in Seq(UnitSet) /\ Len(g) \in Nat /\ need \in Nat
      /\ Len(f) \in Nat /\ Len(f) = Len(g) + need
      /\ \A i \in 1 .. Len(g) : i + need \in 1 .. Len(f) /\ g[i] = f[i + need]
      /\ Framed(f) => Framed(g)
      /\ \A c \in Conn \ {d} : Flow(c)' = Flow(c)
  <2>1. need \in Nat
    BY DEF TypeOK
  <2> QED BY <1>0, <1>6, <2>1, Dropped
<1>9. ASSUME NEW c \in Conn, c # d, Clean(c)' PROVE Whole(c)'
  <2>1. Clean(c) /\ ~InBody(c)' /\ ~InBody(c)
    BY <1>0, <1>6, <1>9 DEF Clean, InBody, senderVars
  <2>2. Whole(c) /\ Origin(c)
    BY <2>1 DEF Sound, Origins
  <2>3. Idle(c)
    BY <1>0, <1>1, <1>2, <1>9 DEF Idle, Sending, Mid, senderVars
  <2>4. running'[c] = running[c]
    BY <1>0 DEF senderVars
  <2> QED BY <1>8, <1>9, <2>1, <2>2, <2>3, <2>4, WholeKept
<1>10. ASSUME Clean(d)' PROVE Whole(d)'
  <2>1. Whole(d) /\ Origin(d)
    BY <1>0, <1>10 DEF Clean, Sound, Origins, senderVars
  <2>2. /\ IsPacket(buf) /\ buf # <<>> /\ u.size = need /\ need \in Size
        /\ 1 \in 1 .. Len(f) /\ u = f[1] /\ need \in 1 .. Len(f)
        /\ f[need] = Unit(u.by, u.nth, need, HeadLen + need)
    BY <1>0, <1>6, <2>1, BodyWhole
  <2>3. need \in Nat \ {0} /\ HeadLen \in Nat \ {0} /\ ~InBody(d)'
    BY <1>0, <2>2, FramesAssumption DEF InBody
  <2>4. \A t \in Thread : handled'[t] = IF t = u.by THEN u.nth ELSE handled[t]
    BY <1>2, <2>2
  <2>5. u.by \in Thread /\ u.nth \in Nat /\ u.nth <= sent[u.by] /\ Uses[u.by] = d
    BY <1>1, <2>2
  <2> HIDE DEF f, g, u
  <2>6. f # <<>> /\ (g = <<>> <=> Len(g) = 0)
    BY <1>8, <2>2
  <2>7. g # <<>> => /\ 1 \in 1 .. Len(g) /\ Len(g) \in 1 .. Len(g)
                    /\ g[1] = f[need + 1] /\ need < Len(f) /\ g[Len(g)] = f[Len(f)]
    <3>1. ASSUME g # <<>> PROVE 1 \in 1 .. Len(g) /\ Len(g) \in 1 .. Len(g) /\ need < Len(f)
      BY <1>8, <2>6, <3>1
    <3>2. 1 + need = need + 1 /\ Len(g) + need = Len(f)
      BY <1>8
    <3> QED BY <1>8, <3>1, <3>2
  <2>8. /\ f[need].by = u.by /\ f[need].nth = u.nth
        /\ f[need].size = need /\ f[need].at = HeadLen + need
    BY <2>2 DEF Unit
  <2>9. Starts(d)'
    <3>1. ASSUME g # <<>> PROVE g[1].at = 1
      BY <2>1, <2>2, <2>7, <2>8, <3>1 DEF Whole, Framed, Bounds, f
    <3> QED BY <2>3, <3>1 DEF Starts, g
  \* A unit left over is of a later packet than the one handled.
  <2>10. ASSUME NEW i \in 1 .. Len(g), g[i].by = u.by PROVE u.nth < g[i].nth
    <3> DEFINE j == i + need
               v == f[j]
    <3>1. j \in 1 .. Len(f) /\ g[i] = v /\ need < j
      BY <1>8, <2>3
    <3>2. v.nth \in Nat /\ v.at \in Nat /\ v.at <= HeadLen + v.size
      BY <2>1, <3>1, FlowUnits DEF Whole, Framed, Bounds, f
    <3> HIDE DEF j, v
    <3>3. \/ f[need].nth < f[j].nth
          \/ f[need].nth = f[j].nth /\ f[need].size = f[j].size /\ f[need].at < f[j].at
      BY <2>1, <2>2, <2>8, <2>10, <3>1 DEF Whole, Framed, Ordered, f, v
    <3>4. u.nth < v.nth \/ (need = v.size /\ HeadLen + need < v.at)
      BY <2>8, <3>3 DEF v
    <3>5. ~(need = v.size /\ HeadLen + need < v.at)
      BY <2>3, <3>2
    <3> QED BY <3>1, <3>4, <3>5
  <2>11. Known(d)'
    <3> SUFFICES ASSUME NEW i \in 1 .. Len(g)
                 PROVE  /\ handled'[g[i].by] < g[i].nth
                        /\ g[i].nth = sent[g[i].by] =>
                              g[i].size = size[g[i].by] /\ g[i].at <= put[g[i].by]
      BY <1>0 DEF Known, g, senderVars
    <3>1. i + need \in 1 .. Len(f) /\ g[i] = f[i + need]
      BY <1>8
    <3>2. /\ handled[g[i].by] < g[i].nth
          /\ g[i].nth = sent[g[i].by] =>
                g[i].size = size[g[i].by] /\ g[i].at <= put[g[i].by]
      BY <2>1, <3>1 DEF Whole, Known, f
    <3>3. g[i].by \in Thread
      BY <3>1, FlowUnits DEF f
    <3> QED BY <2>4, <2>10, <3>2, <3>3
  <2>12. \A t \in Thread : (Mid(t)' <=> Mid(t)) /\ (Sending(t)' <=> Sending(t))
    BY <1>0 DEF senderVars, Mid, Sending
  <2>13. \A t \in Thread : Sending(t) => ~(put[t] = HeadLen + size[t])
    <3> SUFFICES ASSUME NEW t \in Thread, Sending(t), put[t] = HeadLen + size[t] PROVE FALSE
      OBVIOUS
    <3>1. size[t] \in Nat /\ (sendPc[t] = "head" \/ sendPc[t] = "body")
      BY DEF TypeOK, Sending
    <3>2. put[t] < HeadLen \/ put[t] < HeadLen + size[t]
      BY <3>1 DEF Positions
    <3> QED BY <2>3, <3>1, <3>2
  <2>14. EndsInside(d)'
    <3> SUFFICES ASSUME NEW t \in Thread, Uses[t] = d, Mid(t)
                 PROVE  /\ g # <<>> => g[Len(g)] = Unit(t, sent[t], size[t], put[t])
                        /\ g # <<>>
      BY <1>0, <2>12 DEF EndsInside, senderVars, g, Unit
    <3>1. f[Len(f)] = Unit(t, sent[t], size[t], put[t])
      BY <2>1, <2>6 DEF Whole, EndsInside, f
    <3>2. ASSUME g = <<>> PROVE FALSE
      <4>1. Len(f) = need
        BY <1>8, <2>6, <3>2
      <4>2. put[t] = HeadLen + need /\ size[t] = need
        BY <2>8, <3>1, <4>1 DEF Unit
      <4> QED BY <2>13, <4>2 DEF Mid
    <3> QED BY <2>7, <3>1, <3>2
  <2>15. EndsBetween(d)'
    <3> SUFFICES ASSUME running[d], \A t \in Thread : Uses[t] = d => ~Mid(t), g # <<>>
                 PROVE  g[Len(g)].at = HeadLen + g[Len(g)].size
      BY <1>0, <2>3, <2>12 DEF EndsBetween, senderVars, g
    <3>1. f[Len(f)].at = HeadLen + f[Len(f)].size
      BY <2>1, <2>6 DEF Whole, EndsBetween, f
    <3> QED BY <2>7, <3>1
  <2>16. Single(d)'
    <3>1. ASSUME NEW t \in Thread, Uses[t] = d, Sending(t) PROVE handled'[t] < sent[t]
      <4>1. CASE t # u.by
        BY <2>1, <2>4, <3>1, <4>1 DEF Whole, Single
      <4>2. CASE t = u.by
        <5>1. u.nth # sent[t]
          <6> SUFFICES ASSUME u.nth = sent[t] PROVE FALSE
            OBVIOUS
          <6>1. size[t] = need /\ HeadLen + need <= put[t]
            BY <2>1, <2>2, <2>8, <4>2 DEF Whole, Known, f
          <6>2. put[t] \in Nat /\ size[t] \in Nat /\ (sendPc[t] = "head" \/ sendPc[t] = "body")
            BY <3>1 DEF TypeOK, Sending
          <6>3. put[t] < HeadLen \/ put[t] < HeadLen + size[t]
            BY <6>2 DEF Positions
          <6> QED BY <2>3, <6>1, <6>2, <6>3
        <5>2. u.nth <= sent[t] /\ sent[t] \in Nat
          BY <2>5, <4>2 DEF TypeOK
        <5> QED BY <2>4, <2>5, <4>2, <5>1, <5>2
      <4> QED BY <4>1, <4>2
    <3> QED BY <1>0, <2>1, <2>12, <3>1 DEF Whole, Single, senderVars
  <2>17. Framed(Flow(d))'
    BY <1>8, <2>1 DEF Whole, f, g
  <2> QED BY <2>9, <2>11, <2>14, <2>15, <2>16, <2>17 DEF Whole
<1> QED BY <1>3, <1>4, <1>5, <1>7, <1>9, <1>10 DEF Sound

-----------------------------------------------------------------------------
(* The theorems.                                                           *)

LEMMA Starting == Init => Inv
<1> SUFFICES ASSUME Init PROVE Inv
  OBVIOUS
<1>1. TypeOK
  BY DEF Init, TypeOK
<1>2. Positions /\ Reading
  BY DEF Init, Positions, Reading, Sending
<1>3. ASSUME NEW c \in Conn PROVE Flow(c) = <<>> /\ Len(Flow(c)) = 0
  BY <1>1, FlowIs DEF Init
<1>4. Origins
  BY <1>3 DEF Origins, Origin
<1>5. \A t \in Thread : ~Sending(t) /\ ~Mid(t)
  BY DEF Init, Sending, Mid
<1>6. ASSUME NEW c \in Conn PROVE Whole(c)
  <2>1. ~InBody(c)
    BY DEF Init, InBody
  <2>2. Framed(Flow(c))
    BY <1>3 DEF Framed, Runs, Bounds, Ordered
  <2> QED BY <1>3, <1>5, <2>1, <2>2 DEF Whole, Starts, Known, EndsInside, EndsBetween, Single
<1> QED BY <1>1, <1>2, <1>4, <1>6 DEF Inv, Sound

LEMMA Steps == Inv /\ [Next]_vars => Inv'
<1> SUFFICES ASSUME Inv, [Next]_vars PROVE Inv'
  OBVIOUS
<1>1. ASSUME NEW t \in Thread, Sender(t) PROVE Inv'
  BY <1>1, BeginSendKeeps, PutUnitsKeeps, SendTimesOutKeeps DEF Sender
<1>2. ASSUME NEW c \in Conn, ClientEnds(c) PROVE Inv'
  BY <1>2, ClientEndsKeeps
<1>3. CASE Select \/ TakeConn \/ TakeEnded \/ TakeLength \/ Handle
  BY <1>3, SelectKeeps, TakeConnKeeps, TakeEndedKeeps, TakeLengthKeeps, HandleKeeps
<1>4. CASE ReadHead
  BY <1>4, RecvKeeps DEF ReadHead
<1>5. CASE ReadBody
  BY <1>5, RecvKeeps DEF ReadBody
<1>6. CASE RefuseLength
  BY <1>6, CloseConnKeeps DEF RefuseLength
<1>7. CASE ReadTimesOut \/ ReadEnds
  BY <1>7, CloseConnKeeps DEF ReadTimesOut, ReadEnds, Wanting, GiveUp
<1>8. CASE UNCHANGED vars
  <2>1. UNCHANGED <<senderVars, stream, open, pc, ready, cur, need, buf, handled>>
    BY <1>8 DEF vars, masterVars
  <2>2. TypeOK' /\ Positions' /\ Reading'
    BY <2>1 DEF Inv, TypeOK, Positions, Reading, Sending, senderVars
  <2>3. \A c \in Conn : Flow(c)' = Flow(c) /\ (InBody(c)' <=> InBody(c))
    BY <2>1 DEF Flow, InBody
  <2>4. Origins'
    BY <2>1, <2>3, SameOrigin DEF Inv, TypeOK, senderVars
  <2>5. ASSUME NEW c \in Conn, Clean(c)' PROVE Whole(c)'
    <3>1. Clean(c)
      BY <2>1, <2>5 DEF Clean, senderVars
    <3> QED BY <2>1, <2>3, <3>1, QuietSound
  <2> QED BY <2>2, <2>4, <2>5 DEF Inv, Sound
<1> QED BY <1>1, <1>2, <1>3, <1>4, <1>5, <1>6, <1>7, <1>8 DEF Next, MasterStep

LEMMA InvHolds == Spec => []Inv
BY Starting, Steps, PTL DEF Spec

\* The types of the state.
THEOREM TypeCorrect == Spec => []TypeOK
<1>1. Inv => TypeOK
  BY DEF Inv
<1> QED BY <1>1, InvHolds, PTL

\* What the master handles (AIUComm.c 218-230) is one packet, whole, and later
\* than the last of its thread it handled.
THEOREM TakenWholeHolds == Spec => []TakenWhole
<1>1. Inv => TakenWhole
  <2> SUFFICES ASSUME Inv, pc = "body", Len(buf) = need, ~mixed[cur], ~cut[cur]
               PROVE  IsPacket(buf) /\ buf[1].nth > handled[buf[1].by]
    BY DEF TakenWhole
  <2>1. Whole(cur)
    BY DEF Inv, TypeOK, Reading, Sound, Clean
  <2>2. IsPacket(buf) /\ 1 \in 1 .. Len(Flow(cur)) /\ buf[1] = Flow(cur)[1]
    BY <2>1, BodyWhole
  <2>3. handled[buf[1].by] < buf[1].nth
    BY <2>1, <2>2 DEF Whole, Known
  <2>4. buf[1].nth \in Nat /\ handled[buf[1].by] \in Nat
    BY <2>2, FlowUnits DEF Inv, TypeOK
  <2> QED BY <2>2, <2>3, <2>4
<1> QED BY <1>1, InvHolds, PTL
=============================================================================
