------------------------- MODULE UpgradeFilesProofs -------------------------
(***************************************************************************)
(* Theorems of one download (module Download), for a package of any size   *)
(* and any number of retries, and of the report file (module ReportFile),  *)
(* for any texts of the packets and any number of starts.                  *)
(*                                                                         *)
(* InOrder is not inductive: that an append continues the package needs    *)
(* the transfer to stand where the file ends (Aligned), which holds after  *)
(* a resume only because without short replies the offset that is added    *)
(* to downloaded_size is still 0.                                          *)
(*                                                                         *)
(* Nor are SentIsWritten and SentUnlessLost: they need what every cut and  *)
(* every rewriting leaves in update.conf (Faithful), and when a whole      *)
(* report waits in it (DueInv).                                            *)
(***************************************************************************)
EXTENDS Download, ReportFile, SequenceTheorems, WellFoundedInduction, TLAPS

Clean == glitches \subseteq {"short reply"} \/ glitches \subseteq {"broken connection"}

Aligned ==
    Clean =>
        /\ file = Bytes(0, downloaded)
        /\ pc = "transfer" => pos = downloaded
        /\ pc = "resume" => glitches \subseteq {"broken connection"}
        /\ downloaded = 0 => from = 0
        /\ glitches \subseteq {"broken connection"} => offset = 0
        /\ glitches \subseteq {"broken connection"} /\ pc = "loop"
             => downloaded = 0 \/ downloaded >= PackageSize

\* Every byte that is counted is in the file.
Counted ==
    /\ Len(file) >= downloaded
    /\ pc = "success" => downloaded >= size

\* The size is the package's, and a file in order no longer than it.
Sized ==
    /\ "no length" \notin glitches /\ pc \notin {"head", "failure"} => size = PackageSize
    /\ Clean => downloaded <= PackageSize

Inv == TypeOK /\ Aligned /\ Counted /\ Sized

-----------------------------------------------------------------------------
\* A function on 1 .. n is a sequence of length n.
LEMMA SeqOfFunction ==
    ASSUME NEW S, NEW n \in Nat, NEW f \in [1 .. n -> S]
    PROVE  f \in Seq(S) /\ Len(f) = n
<1>1. f \in Seq(S)
  BY SeqDef
<1>2. DOMAIN f = 1 .. n /\ DOMAIN f = 1 .. Len(f) /\ Len(f) \in Nat
  BY <1>1, LenProperties
<1>3. QED
  BY <1>1, <1>2

\* A run of package bytes is a sequence of bytes of its length.
LEMMA BytesType ==
    ASSUME NEW p \in Nat, NEW n \in Nat, p + n <= PackageSize
    PROVE  Bytes(p, n) \in Seq(Byte) /\ Len(Bytes(p, n)) = n
<1>1. \A i \in 1 .. n : p + i - 1 \in 0 .. PackageSize - 1
  BY SizesAssumption
<1>2. Bytes(p, n) \in [1 .. n -> Byte]
  BY <1>1 DEF Bytes, Byte
<1>3. QED
  BY <1>2, SeqOfFunction

\* So is an error page.
LEMMA PageType ==
    ASSUME NEW n \in Nat
    PROVE  [i \in 1 .. n |-> Page] \in Seq(Byte) /\ Len([i \in 1 .. n |-> Page]) = n
<1>1. [i \in 1 .. n |-> Page] \in [1 .. n -> Byte]
  BY DEF Byte
<1>2. QED
  BY <1>1, SeqOfFunction

\* Two runs that meet make one.
LEMMA BytesJoin ==
    ASSUME NEW d \in Nat, NEW n \in Nat, d + n <= PackageSize
    PROVE  Bytes(0, d) \o Bytes(d, n) = Bytes(0, d + n)
<1> DEFINE a == Bytes(0, d)
           b == Bytes(d, n)
           c == Bytes(0, d + n)
<1>1. a \in Seq(Byte) /\ Len(a) = d /\ b \in Seq(Byte) /\ Len(b) = n
      /\ c \in Seq(Byte) /\ Len(c) = d + n
  BY BytesType, SizesAssumption
<1>2. /\ \A i \in 1 .. d : a[i] = i - 1
      /\ \A i \in 1 .. n : b[i] = d + i - 1
      /\ \A i \in 1 .. d + n : c[i] = i - 1
  BY DEF Bytes
<1> HIDE DEF a, b, c
<1>3. /\ a \o b \in Seq(Byte) /\ Len(a \o b) = d + n
      /\ \A i \in 1 .. d + n : (a \o b)[i] = IF i <= d THEN a[i] ELSE b[i - d]
  BY <1>1, ConcatProperties
<1>4. ASSUME NEW i \in 1 .. d + n PROVE (a \o b)[i] = c[i]
  <2>1. c[i] = i - 1
    BY <1>2
  <2>2. CASE i <= d
    <3>1. (a \o b)[i] = a[i] /\ a[i] = i - 1
      BY <1>2, <1>3, <2>2
    <3>2. QED
      BY <2>1, <3>1
  <2>3. CASE ~(i <= d)
    <3>1. i - d \in 1 .. n
      BY <2>3
    <3>2. (a \o b)[i] = b[i - d] /\ b[i - d] = d + (i - d) - 1
      BY <1>2, <1>3, <2>3, <3>1
    <3>3. QED
      BY <2>1, <3>2
  <2>4. QED
    BY <2>2, <2>3
<1>5. a \o b = c
  BY <1>1, <1>3, <1>4, SeqEqual
<1>6. QED
  BY <1>5 DEF a, b, c

\* An append adds the lengths.
LEMMA JoinGrows ==
    ASSUME NEW s \in Seq(Byte), NEW t \in Seq(Byte)
    PROVE  s \o t \in Seq(Byte) /\ Len(s \o t) = Len(s) + Len(t) /\ Len(s) \in Nat
  BY ConcatProperties, LenProperties

LEMMA NoBytes == Bytes(0, 0) = <<>> /\ <<>> \in Seq(Byte) /\ Len(<<>>) = 0
<1>1. Bytes(0, 0) \in Seq(Byte) /\ Len(Bytes(0, 0)) = 0
  BY BytesType, SizesAssumption
<1>2. QED
  BY <1>1, EmptySeq

\* What the three actions that write leave in the file and in the counters.
LEMMA ReceiveEffect ==
    ASSUME TypeOK, NEW n \in 1 .. PackageSize, Receive(n)
    PROVE  /\ downloaded' = downloaded + n /\ pos' = pos + n /\ pos + n <= PackageSize
           /\ n \in Nat /\ n > 0 /\ downloaded \in Nat /\ pos \in Nat
           /\ downloaded' \in Nat /\ pos' \in Nat
           /\ file' = file \o Bytes(pos, n) /\ file' \in Seq(Byte)
           /\ Len(file') = Len(file) + n /\ Len(file) \in Nat
<1>1. downloaded' = downloaded + n /\ pos' = pos + n /\ pos + n <= PackageSize
  BY DEF Receive
<1>2. downloaded \in Nat /\ pos \in Nat /\ n \in Nat /\ n > 0
  BY SizesAssumption DEF TypeOK
<1>3. downloaded' \in Nat /\ pos' \in Nat
  BY ONLY <1>1, <1>2
<1>4. file \in Seq(Byte) /\ file' = file \o Bytes(pos, n)
  BY DEF TypeOK, Receive
<1>5. Bytes(pos, n) \in Seq(Byte) /\ Len(Bytes(pos, n)) = n
  BY <1>1, <1>2, BytesType
<1>6. QED
  BY <1>1, <1>2, <1>3, <1>4, <1>5, JoinGrows

LEMMA PageEffect ==
    ASSUME TypeOK, NEW n \in 1 .. MaxPage, ReceivePage(n)
    PROVE  /\ downloaded' = downloaded + n /\ n \in Nat /\ downloaded \in Nat
           /\ downloaded' \in Nat /\ pos' \in Nat /\ file' \in Seq(Byte)
           /\ Len(file') = Len(file) + n /\ Len(file) \in Nat
<1> DEFINE p == [i \in 1 .. n |-> Page]
<1>1. downloaded' = downloaded + n /\ pos' = PackageSize
  BY DEF ReceivePage
<1>2. downloaded \in Nat /\ n \in Nat
  BY SizesAssumption DEF TypeOK
<1>3. downloaded' \in Nat /\ pos' \in Nat
  BY ONLY <1>1, <1>2, SizesAssumption
<1>4. file \in Seq(Byte) /\ file' = file \o p
  BY DEF TypeOK, ReceivePage
<1>5. p \in Seq(Byte) /\ Len(p) = n
  BY <1>2, PageType
<1> HIDE DEF p
<1>6. QED
  BY <1>1, <1>2, <1>3, <1>4, <1>5, JoinGrows

LEMMA ShortWriteEffect ==
    ASSUME TypeOK, NEW k \in 0 .. MaxSurplus, ShortWrite(k)
    PROVE  /\ downloaded' = downloaded /\ k \in Nat /\ downloaded \in Nat
           /\ surplus' \in Nat /\ tries' \in Nat /\ file' \in Seq(Byte)
           /\ Len(file') = Len(file) + k /\ Len(file) \in Nat
<1>1. pos + k < PackageSize /\ surplus' = surplus + k /\ downloaded' = downloaded
      /\ tries' \in {tries, ResumeTimes}
  BY DEF ShortWrite
<1>2. downloaded \in Nat /\ pos \in Nat /\ surplus \in Nat /\ k \in Nat
      /\ tries \in Nat /\ ResumeTimes \in Nat /\ PackageSize \in Nat
  BY SizesAssumption DEF TypeOK
<1>3. surplus' \in Nat /\ tries' \in Nat /\ pos + k <= PackageSize
  BY ONLY <1>1, <1>2
<1>4. file \in Seq(Byte) /\ file' = file \o Bytes(pos, k)
  BY DEF TypeOK, ShortWrite
<1>5. Bytes(pos, k) \in Seq(Byte) /\ Len(Bytes(pos, k)) = k
  BY <1>2, <1>3, BytesType
<1>6. QED
  BY <1>1, <1>2, <1>3, <1>4, <1>5, JoinGrows

\* A turn of the resume loop gives up, spends a try, or starts a transfer.
LEMMA ResumeEffect ==
    ASSUME TypeOK, ResumeDownload
    PROVE  /\ pc = "resume" /\ tries' \in Nat /\ from' \in Nat /\ pos' \in Nat
           /\ UNCHANGED <<size, file, downloaded, offset, historyVars>>
           /\ \/ pc' \in {"failure", "resume"} /\ UNCHANGED <<from, pos, caller>>
              \/ pc' = "transfer" /\ caller' = "Resume"
                 /\ pos' = downloaded + offset /\ from' = downloaded + offset
<1>1. tries \in Nat /\ from \in Nat /\ pos \in Nat /\ downloaded \in Nat /\ offset \in Nat
  BY DEF TypeOK
<1>2. CASE tries = 0
  BY <1>1, <1>2 DEF ResumeDownload, Fail, requestVars
<1>3. CASE tries # 0 /\ ~(downloaded < size)
  BY <1>1, <1>3 DEF ResumeDownload
<1>4. CASE tries # 0 /\ downloaded < size
  BY <1>1, <1>4 DEF ResumeDownload, Perform
<1>5. QED
  BY <1>2, <1>3, <1>4

\* So does a turn of the outer loop.
LEMMA RequestEffect ==
    ASSUME TypeOK, RequestRest
    PROVE  /\ pc = "loop" /\ from' \in Nat /\ pos' \in Nat /\ offset' \in Nat
           /\ UNCHANGED <<size, file, downloaded, tries, historyVars>>
           /\ \/ /\ pc' = "success" /\ downloaded >= size
                 /\ UNCHANGED <<offset, from, pos, caller>>
              \/ /\ pc' = "transfer" /\ caller' = "From_Offset"
                 /\ downloaded < PackageSize /\ offset' = downloaded
                 /\ from' = (IF downloaded # 0 THEN downloaded ELSE from)
                 /\ pos' = from'
<1>1. from \in Nat /\ pos \in Nat /\ downloaded \in Nat /\ offset \in Nat
      /\ size \in {0, PackageSize} /\ PackageSize \in Nat
  BY SizesAssumption DEF TypeOK
<1>2. CASE downloaded < size
  <2>1. downloaded < PackageSize
    BY ONLY <1>1, <1>2
  <2>2. QED
    BY <1>1, <1>2, <2>1 DEF RequestRest, Perform
<1>3. CASE ~(downloaded < size)
  <2>1. downloaded >= size
    BY ONLY <1>1, <1>3
  <2>2. QED
    BY <1>1, <1>3, <2>1 DEF RequestRest, requestVars
<1>4. QED
  BY <1>2, <1>3

LEMMA InitInv == Init => Inv
<1> SUFFICES ASSUME Init PROVE Inv
  OBVIOUS
<1> QED
  BY NoBytes, SizesAssumption
  DEF Init, Inv, TypeOK, Aligned, Counted, Sized, Clean, Pc, Caller, Glitch, Byte

\* Every step keeps the types.
LEMMA TypeStep == TypeOK /\ [Next]_vars => TypeOK'
<1> SUFFICES ASSUME TypeOK, [Next]_vars PROVE TypeOK'
  OBVIOUS
<1> USE DEF TypeOK
<1>1. CASE SizePackage
  BY <1>1 DEF Pc, Glitch, Caller, SizePackage, Fail, requestVars, historyVars
<1>2. CASE CheckStorage
  BY <1>2 DEF Pc, Glitch, Caller, CheckStorage, Fail, requestVars, historyVars
<1>3. CASE ReopenSaveFile
  <2>1. file' \in Seq(Byte) /\ downloaded' \in Nat /\ from' \in Nat
    <3>1. CASE Fail
      BY <3>1 DEF Fail, requestVars
    <3>2. CASE file' = <<>> /\ downloaded' = 0 /\ from' = 0
      BY <3>2, NoBytes
    <3>3. QED
      BY <1>3, <3>1, <3>2 DEF ReopenSaveFile
  <2>2. pc' \in Pc /\ UNCHANGED <<size, offset, pos, caller, tries, historyVars>>
    BY <1>3 DEF ReopenSaveFile, Fail, requestVars, historyVars, Pc
  <2>3. QED
    BY <2>1, <2>2 DEF historyVars
<1>4. CASE RequestRest
  BY <1>4, RequestEffect DEF Pc, Caller, historyVars
<1>5. ASSUME NEW n \in 1 .. PackageSize, Receive(n) PROVE TypeOK'
  BY <1>5, ReceiveEffect DEF Receive, historyVars
<1>6. ASSUME NEW n \in 1 .. MaxPage, ReceivePage(n) PROVE TypeOK'
  BY <1>6, PageEffect DEF ReceivePage, Glitch
<1>7. ASSUME NEW k \in 0 .. MaxSurplus, ShortWrite(k) PROVE TypeOK'
  BY <1>7, ShortWriteEffect DEF ShortWrite, Pc, Glitch
<1>8. CASE TransferOk
  BY <1>8 DEF Pc, Glitch, Caller, TransferOk, requestVars
<1>9. CASE TransferBroken
  <2>1. tries' \in Nat
    BY <1>9, SizesAssumption DEF TransferBroken
  <2>2. QED
    BY <1>9, <2>1 DEF TransferBroken, Pc, Glitch
<1>10. CASE ResumeDownload
  BY <1>10, ResumeEffect DEF Pc, Caller, historyVars
<1>11. CASE UNCHANGED vars
  BY <1>11 DEF vars, requestVars, historyVars
<1>12. QED
  BY <1>1, <1>2, <1>3, <1>4, <1>5, <1>6, <1>7, <1>8, <1>9, <1>10, <1>11 DEF Next

\* Every step keeps the transfer at the end of the file.
LEMMA AlignedStep == TypeOK /\ Aligned /\ [Next]_vars => Aligned'
<1> SUFFICES ASSUME TypeOK, Aligned, [Next]_vars PROVE Aligned'
  OBVIOUS
<1> USE DEF Aligned, Clean
<1>1. CASE SizePackage
  BY <1>1 DEF SizePackage, Fail, requestVars, historyVars
<1>2. CASE CheckStorage
  BY <1>2 DEF CheckStorage, Fail, requestVars, historyVars
<1>3. CASE ReopenSaveFile
  BY <1>3, NoBytes DEF ReopenSaveFile, Fail, requestVars, historyVars
<1>4. CASE RequestRest
  <2>1. downloaded \in Nat
    BY DEF TypeOK
  <2>2. QED
    <3>1. CASE pc' = "success"
      BY <1>4, <3>1, RequestEffect DEF historyVars
    <3>2. CASE pc' = "transfer"
      <4>1. /\ pc = "loop" /\ UNCHANGED <<file, downloaded, glitches>>
            /\ downloaded < PackageSize /\ offset' = downloaded
            /\ from' = (IF downloaded # 0 THEN downloaded ELSE from)
            /\ pos' = from'
        BY <1>4, <3>2, RequestEffect DEF historyVars
      <4>2. ~(downloaded >= PackageSize)
        BY ONLY <2>1, <4>1, SizesAssumption
      <4>3. QED
        BY <3>2, <4>1, <4>2
    <3>3. QED
      BY <1>4, <3>1, <3>2, RequestEffect
<1>5. ASSUME NEW n \in 1 .. PackageSize, Receive(n) PROVE Aligned'
  <2>1. pc = "transfer" /\ pc' = pc /\ UNCHANGED <<glitches, offset, from>>
    BY <1>5 DEF Receive, historyVars
  <2>2. Clean => file' = Bytes(0, downloaded')
    <3>1. CASE Clean
      <4>1. file = Bytes(0, downloaded) /\ pos = downloaded
        BY <2>1, <3>1
      <4>2. QED
        BY <1>5, <4>1, ReceiveEffect, BytesJoin
    <3>2. QED
      BY <3>1
  <2>3. /\ downloaded' = downloaded + n /\ pos' = pos + n
        /\ downloaded \in Nat /\ n \in Nat /\ n > 0
    BY <1>5, ReceiveEffect
  <2>4. downloaded' # 0
    BY ONLY <2>3
  <2>5. pos = downloaded => pos' = downloaded'
    BY ONLY <2>3
  <2>6. QED
    BY <2>1, <2>2, <2>4, <2>5
<1>6. ASSUME NEW n \in 1 .. MaxPage, ReceivePage(n) PROVE Aligned'
  BY <1>6 DEF ReceivePage
<1>7. ASSUME NEW k \in 0 .. MaxSurplus, ShortWrite(k) PROVE Aligned'
  BY <1>7 DEF ShortWrite
<1>8. CASE TransferOk
  <2>1. pc = "transfer" /\ pc' = "loop" /\ UNCHANGED <<file, downloaded, offset, from>>
    BY <1>8 DEF TransferOk, requestVars
  <2>2. glitches' = (IF pos < PackageSize THEN glitches \cup {"short reply"} ELSE glitches)
    BY <1>8 DEF TransferOk
  <2>3. glitches' \subseteq {"broken connection"} => pos >= PackageSize
    <3>1. pos \in Nat /\ PackageSize \in Nat
      BY SizesAssumption DEF TypeOK
    <3>2. CASE pos < PackageSize
      BY <2>2, <3>2
    <3>3. CASE pos >= PackageSize
      BY <3>3
    <3>4. pos < PackageSize \/ pos >= PackageSize
      BY ONLY <3>1
    <3>5. QED
      BY <3>2, <3>3, <3>4
  <2>4. glitches \subseteq glitches'
    BY <2>2
  <2>5. QED
    BY <2>1, <2>3, <2>4
<1>9. CASE TransferBroken
  BY <1>9 DEF TransferBroken
<1>10. CASE ResumeDownload
  <2>1. downloaded \in Nat
    BY DEF TypeOK
  <2>2. QED
    <3>1. CASE pc' \in {"failure", "resume"}
      BY <1>10, <3>1, ResumeEffect DEF historyVars
    <3>2. CASE pc' = "transfer"
      <4>1. /\ pc = "resume" /\ UNCHANGED <<file, downloaded, offset, glitches>>
            /\ pos' = downloaded + offset /\ from' = downloaded + offset
        BY <1>10, <3>2, ResumeEffect DEF historyVars
      <4>2. Clean => offset = 0
        BY <4>1
      <4>3. offset = 0 => pos' = downloaded /\ from' = downloaded
        BY ONLY <2>1, <4>1
      <4>4. QED
        BY <3>2, <4>1, <4>2, <4>3
    <3>3. QED
      BY <1>10, <3>1, <3>2, ResumeEffect
<1>11. CASE UNCHANGED vars
  BY <1>11 DEF vars, requestVars, historyVars
<1>12. QED
  BY <1>1, <1>2, <1>3, <1>4, <1>5, <1>6, <1>7, <1>8, <1>9, <1>10, <1>11 DEF Next

\* Every step keeps the file at least as long as the count.
LEMMA CountedStep == TypeOK /\ Counted /\ [Next]_vars => Counted'
<1> SUFFICES ASSUME TypeOK, Counted, [Next]_vars PROVE Counted'
  OBVIOUS
<1> USE DEF Counted
<1>1. CASE SizePackage
  BY <1>1 DEF SizePackage, Fail, requestVars, historyVars
<1>2. CASE CheckStorage
  BY <1>2 DEF CheckStorage, Fail, requestVars, historyVars
<1>3. CASE ReopenSaveFile
  BY <1>3, NoBytes DEF ReopenSaveFile, Fail
<1>4. CASE RequestRest
  BY <1>4, RequestEffect
<1>5. ASSUME NEW n \in 1 .. PackageSize, Receive(n) PROVE Counted'
  <2>1. pc' = "transfer"
    BY <1>5 DEF Receive
  <2>2. QED
    BY <1>5, <2>1, ReceiveEffect
<1>6. ASSUME NEW n \in 1 .. MaxPage, ReceivePage(n) PROVE Counted'
  <2>1. pc' = "transfer"
    BY <1>6 DEF ReceivePage
  <2>2. QED
    BY <1>6, <2>1, PageEffect
<1>7. ASSUME NEW k \in 0 .. MaxSurplus, ShortWrite(k) PROVE Counted'
  <2>1. pc' = "resume"
    BY <1>7 DEF ShortWrite
  <2>2. QED
    BY <1>7, <2>1, ShortWriteEffect
<1>8. CASE TransferOk
  BY <1>8 DEF TransferOk, requestVars
<1>9. CASE TransferBroken
  BY <1>9 DEF TransferBroken
<1>10. CASE ResumeDownload
  BY <1>10, ResumeEffect
<1>11. CASE UNCHANGED vars
  BY <1>11 DEF vars, requestVars, historyVars
<1>12. QED
  BY <1>1, <1>2, <1>3, <1>4, <1>5, <1>6, <1>7, <1>8, <1>9, <1>10, <1>11 DEF Next

\* Every step keeps a file in order within the package.
LEMMA SizedStep == TypeOK /\ Aligned /\ Sized /\ [Next]_vars => Sized'
<1> SUFFICES ASSUME TypeOK, Aligned, Sized, [Next]_vars PROVE Sized'
  OBVIOUS
<1> USE DEF Sized, Clean
<1>1. CASE SizePackage
  BY <1>1 DEF SizePackage, Fail, requestVars, historyVars
<1>2. CASE CheckStorage
  BY <1>2 DEF CheckStorage, Fail, requestVars, historyVars
<1>3. CASE ReopenSaveFile
  <2>1. UNCHANGED <<size, glitches>> /\ pc = "reopen" /\ pc' \in {"failure", "loop"}
    BY <1>3 DEF ReopenSaveFile, Fail, requestVars, historyVars
  <2>2. downloaded' \in {0, downloaded}
    BY <1>3 DEF ReopenSaveFile, Fail
  <2>3. 0 <= PackageSize
    BY ONLY SizesAssumption
  <2>4. Clean' => downloaded' <= PackageSize
    BY <2>1, <2>2, <2>3
  <2>5. QED
    BY <2>1, <2>4
<1>4. CASE RequestRest
  BY <1>4, RequestEffect DEF historyVars
<1>5. ASSUME NEW n \in 1 .. PackageSize, Receive(n) PROVE Sized'
  <2>1. pc = "transfer" /\ pc' = pc /\ UNCHANGED <<glitches, size>> /\ pos + n <= PackageSize
    BY <1>5 DEF Receive, historyVars
  <2>2. downloaded' = downloaded + n
    BY <1>5, ReceiveEffect
  <2>3. Clean => pos = downloaded
    BY <2>1 DEF Aligned
  <2>4. QED
    BY <2>1, <2>2, <2>3
<1>6. ASSUME NEW n \in 1 .. MaxPage, ReceivePage(n) PROVE Sized'
  BY <1>6 DEF ReceivePage
<1>7. ASSUME NEW k \in 0 .. MaxSurplus, ShortWrite(k) PROVE Sized'
  BY <1>7 DEF ShortWrite
<1>8. CASE TransferOk
  BY <1>8 DEF TransferOk, requestVars
<1>9. CASE TransferBroken
  BY <1>9 DEF TransferBroken
<1>10. CASE ResumeDownload
  BY <1>10, ResumeEffect DEF historyVars
<1>11. CASE UNCHANGED vars
  BY <1>11 DEF vars, requestVars, historyVars
<1>12. QED
  BY <1>1, <1>2, <1>3, <1>4, <1>5, <1>6, <1>7, <1>8, <1>9, <1>10, <1>11 DEF Next

\* Every behaviour satisfies the strengthening.
THEOREM InvariantHolds == Spec => []Inv
<1>1. Inv /\ [Next]_vars => Inv'
  BY TypeStep, AlignedStep, CountedStep, SizedStep DEF Inv
<1>2. QED
  BY <1>1, InitInv, PTL DEF Spec

\* The download keeps the types of its state.
THEOREM TypeCorrect == Spec => []TypeOK
<1>1. Inv => TypeOK
  BY DEF Inv
<1>2. QED
  BY <1>1, InvariantHolds, PTL

\* Any number of broken connections, or of short replies, leaves the file the
\* beginning of the package, and the package when StartDownLoad2 returns 0.
THEOREM InOrderHolds == Spec => []InOrder
<1>1. ASSUME Inv, Clean PROVE file = Bytes(0, downloaded) /\ (pc = "success" => downloaded = PackageSize)
  <2>1. file = Bytes(0, downloaded)
    BY <1>1 DEF Inv, Aligned
  <2>2. ASSUME pc = "success" PROVE downloaded = PackageSize
    <3>1. size = PackageSize
      BY <1>1, <2>2 DEF Inv, Sized, Clean
    <3>2. downloaded >= size /\ downloaded <= PackageSize /\ downloaded \in Nat
      BY <1>1, <2>2 DEF Inv, Sized, Counted, TypeOK
    <3>3. QED
      BY <3>1, <3>2, SizesAssumption
  <2>3. QED
    BY <2>1, <2>2
<1>2. Inv => InOrder
  BY <1>1 DEF Clean, InOrder
<1>3. QED
  BY <1>2, InvariantHolds, PTL

\* A successful download left at least as many bytes as the server announced.
THEOREM SuccessHasSizeHolds == Spec => []SuccessHasSize
<1>1. Inv => SuccessHasSize
  BY SizesAssumption DEF Inv, TypeOK, Counted, SuccessHasSize
<1>2. QED
  BY <1>1, InvariantHolds, PTL

-----------------------------------------------------------------------------
(* The report file.                                                         *)

\* What a text can be, as it was given, cut off or read.
TextType ==
    [write : Nat, of : Entry \cup {"", "stack", "0", "1"},
     kind : {"plain", "blank", "empty", "bracket", "NONE", "cut", "tail"} \cup Entry]

Line == [key : Entry, text : TextType]

FileTypeOK ==
    /\ phase \in {"down", "check", "clear", "put", "read", "post", "loop", "open",
                  "write"}
    /\ report \in [Entry -> TextType] /\ written \in [Entry -> TextType]
    /\ info \in [Entry -> TextType]
    /\ there \in BOOLEAN
    /\ lines \in Seq(Line) /\ buffer \in Seq(Line)
    /\ lives \in Nat /\ writes \in Nat
    /\ whole \in 0 .. Len(Order)
    /\ due \in {"no", "written", "due"}

\* The file f has the lines of the report r, the first n of them in full and
\* a part of the next at most, with FirstBoot cleared or not.
Faithful(f, n, r) ==
    /\ Len(f) <= Len(Order) /\ Len(f) \in {n, n + 1}
    /\ \A i \in 1 .. Len(f) :
         /\ f[i].key = Order[i]
         /\ i = 1          => f[i].text.kind \in {"plain", "cut", "empty"}
         /\ i \in 2 .. n    => f[i].text = r[Order[i]]
         /\ i > 1 /\ i > n => f[i].text.kind \in {"cut", "empty"}

\* Only the texts of the packet are odd.
PlainBut(r) == \A e \in Entry \ Given : r[e].kind \in {"plain", "empty"}

\* The file is empty or the report of written; in between, szBuf2 is.
FaithfulInv ==
    /\ ~there => lines = <<>>
    /\ PlainBut(report) /\ PlainBut(written)
    /\ phase = "write" => there
    /\ phase = "clear" => lines # <<>>
    /\ lines # <<>> \/ phase \in {"read", "post"} => Faithful(lines, whole, written)
    /\ phase = "put" => there /\ Faithful(buffer, whole, written)

\* All of the report is in the file f.
Complete(f) == Faithful(f, whole, written) /\ whole = Len(Order)

\* What keeps a whole report from being sent.
Unsent ==
    \E d \in Given :
        ~Before("updateUrl", d) /\ written[d].kind \in {"NONE", "bracket"}

\* A report that waits is whole and not read yet; it is whole until it is read,
\* and an address that could not be read has its reason in the report.
DueInv ==
    /\ due = "written" => phase \in {"down", "loop", "open"}
    /\ phase = "write" => due = "no"
    /\ due = "written" \/ (due = "due" /\ phase \in {"check", "clear"}) =>
         there /\ Complete(lines) /\ lines[1].text = Flag("1")
    /\ due = "due" /\ phase = "put"  => Complete(buffer)
    /\ due = "due" /\ phase = "read" => Complete(lines) /\ there
    /\ due = "due" /\ phase = "post" /\ info["updateUrl"] = Nothing => Unsent
    /\ due = "due" /\ phase \in {"loop", "open"} => Unsent

FileInv == FileTypeOK /\ FaithfulInv /\ DueInv /\ SentIsWritten

-----------------------------------------------------------------------------
(* The lines and their order.                                              *)

LEMMA OrderIs ==
    /\ Len(Order) = 12 /\ DOMAIN Order = 1 .. 12
    /\ \A i \in 1 .. 12 : Order[i] \in Entry
    /\ \A e \in Entry : \E i \in 1 .. 12 : e = Order[i]
    /\ Order[1] = "FirstBoot" /\ Order[10] = "updateUrl"
BY DEF Order, Entry

\* No entry has two lines.
LEMMA OrderOnce ==
    ASSUME NEW i \in 1 .. 12, NEW j \in 1 .. 12, Order[i] = Order[j]
    PROVE  i = j
BY DEF Order

\* Where the entry that is asked for as the k-th stands.
At(k) == IF k <= 2 THEN k + 2 ELSE k + 3

LEMMA ReadOrderIs ==
    /\ Len(ReadOrder) = 9 /\ DOMAIN ReadOrder = 1 .. 9
    /\ \A k \in 1 .. 9 : At(k) \in 2 .. 12 /\ ReadOrder[k] = Order[At(k)]
    /\ \A k \in 1 .. 9, l \in 1 .. 9 : k < l => At(k) < At(l)
    /\ At(7) = 10 /\ ReadOrder[7] = "updateUrl"
BY DEF ReadOrder, Order, At

LEMMA BeforeIs ==
    ASSUME NEW i \in 1 .. 12, NEW j \in 1 .. 12
    PROVE  Before(Order[i], Order[j]) <=> i < j
BY OrderIs, OrderOnce DEF Before

LEMMA KeptIs ==
    ASSUME NEW i \in 1 .. 12, FileTypeOK
    PROVE  Kept(Order[i]) <=> i <= whole
BY OrderIs, OrderOnce DEF Kept, FileTypeOK

LEMMA Smallest ==
    ASSUME NEW T, T \subseteq Nat, T # {}
    PROVE  \E x \in T : \A y \in T : x <= y
<1>1. PICK x \in T : \A y \in T : <<y, x>> \notin OpToRel(<, Nat)
  BY NatLessThanWellFounded, WFMin
<1>2. \A y \in T : ~(y < x)
  BY <1>1 DEF OpToRel
<1> QED BY <1>2

\* strstr finds the first of the lines in which the entry is.
LEMMA MatchIs ==
    ASSUME NEW f \in Seq(Line), NEW e \in Entry
    PROVE  /\ Match(f, e) \in 1 .. Len(f) + 1
           /\ \A i \in 1 .. Len(f) : Holds(f[i], e) => Match(f, e) <= i
           /\ Match(f, e) <= Len(f) => Holds(f[Match(f, e)], e)
<1> DEFINE hits == {i \in DOMAIN f : Holds(f[i], e)}
<1>1. DOMAIN f = 1 .. Len(f) /\ Len(f) \in Nat
  OBVIOUS
<1>2. CASE hits = {}
  <2>1. Match(f, e) = Len(f) + 1
    BY <1>2 DEF Match
  <2> QED BY <1>1, <1>2, <2>1
<1>3. CASE hits # {}
  <2>1. hits \subseteq Nat
    BY <1>1
  <2>2. \E i \in hits : \A j \in hits : i <= j
    BY <1>3, <2>1, Smallest
  <2>3. Match(f, e) = CHOOSE i \in hits : \A j \in hits : i <= j
    BY <1>3 DEF Match
  <2>4. Match(f, e) \in hits /\ \A j \in hits : Match(f, e) <= j
    BY <2>2, <2>3
  <2> QED BY <1>1, <2>4
<1> QED BY <1>2, <1>3

\* What the first n lines of a text and a part of the next are.
LEMMA CutAtIs ==
    ASSUME NEW f \in Seq(Line), NEW n \in 0 .. Len(f), NEW g \in CutAt(f, n)
    PROVE  /\ g \in Seq(Line) /\ Len(g) \in {n, n + 1} /\ Len(g) <= Len(f)
           /\ \A i \in 1 .. n : g[i] = f[i]
           /\ Len(g) = n + 1 => g[n + 1].key = f[n + 1].key
                                  /\ g[n + 1].text.kind \in {"cut", "empty"}
           /\ n = Len(f) => g = f
<1>1. CASE n = Len(f)
  BY <1>1 DEF CutAt
<1>2. CASE n # Len(f)
  <2> DEFINE front == SubSeq(f, 1, n)
  <2>1. n + 1 \in 1 .. Len(f)
    BY <1>2
  <2>2. front \in Seq(Line) /\ Len(front) = n /\ \A i \in 1 .. n : front[i] = f[i]
    OBVIOUS
  <2>3. f[n + 1] \in Line
    BY <2>1
  <2>4. CASE g = front
    BY <1>2, <2>1, <2>2, <2>4
  <2>5. ASSUME NEW kind \in {"cut", "empty"},
               g = Append(front, [f[n + 1] EXCEPT !.text.kind = kind])
        PROVE  /\ g \in Seq(Line) /\ Len(g) = n + 1
               /\ \A i \in 1 .. n : g[i] = f[i]
               /\ g[n + 1].key = f[n + 1].key /\ g[n + 1].text.kind = kind
    <3> DEFINE last == [f[n + 1] EXCEPT !.text.kind = kind]
    <3>1. last \in Line /\ last.key = f[n + 1].key /\ last.text.kind = kind
      BY <2>3 DEF Line, TextType
    <3> HIDE DEF last, front
    <3>2. g \in Seq(Line) /\ Len(g) = n + 1 /\ g[n + 1] = last
      BY <2>2, <2>5, <3>1 DEF last
    <3>3. \A i \in 1 .. n : g[i] = front[i]
      BY <2>2, <2>5, <3>1 DEF last
    <3> QED BY <2>2, <3>1, <3>2, <3>3
  <2>6. \/ g = front
        \/ \E kind \in {"cut", "empty"} :
              g = Append(front, [f[n + 1] EXCEPT !.text.kind = kind])
    BY <1>2 DEF CutAt
  <2> QED BY <1>2, <2>1, <2>4, <2>5, <2>6
<1> QED BY <1>1, <1>2

-----------------------------------------------------------------------------
(* What is read of a report.                                               *)

LEMMA ContentIs ==
    ASSUME FileTypeOK, FaithfulInv
    PROVE  Content = lines
<1>1. CASE there
  <2>1. Content = SubSeq(lines, 1, Len(lines))
    BY <1>1 DEF Content, FileSize, GetFileAttr
  <2> QED BY <2>1 DEF FileTypeOK
<1>2. CASE ~there
  <2>1. Content = SubSeq(lines, 1, 0) /\ lines = <<>>
    BY <1>2 DEF Content, FileSize, GetFileAttr, FaithfulInv
  <2> QED BY <2>1
<1> QED BY <1>1, <1>2

\* In a report the first match of an entry is its line or stands before it.
LEMMA FoundBy ==
    ASSUME FileTypeOK, NEW f \in Seq(Line), Faithful(f, whole, written),
           NEW i \in 1 .. Len(f)
    PROVE  /\ Match(f, Order[i]) \in 1 .. i
           /\ Holds(f[Match(f, Order[i])], Order[i])
<1>1. i \in 1 .. 12 /\ Order[i] \in Entry
  BY OrderIs DEF Faithful
<1>2. Holds(f[i], Order[i])
  BY DEF Faithful, Holds
<1> QED BY <1>1, <1>2, MatchIs

\* An entry of a report is missing only where a bracket or a NONE is.
LEMMA MissingWhy ==
    ASSUME FileTypeOK, NEW f \in Seq(Line), Faithful(f, whole, written),
           NEW i \in 2 .. whole,
           Missing(f, Order[i])
    PROVE  \E j \in 2 .. i : \/ j < i /\ written[Order[j]].kind = "bracket"
                             \/ written[Order[j]].kind = "NONE"
<1> DEFINE m == Match(f, Order[i])
<1>1. i \in 1 .. Len(f) /\ i \in 1 .. 12 /\ Len(f) \in Nat /\ whole \in Nat
  BY OrderIs DEF Faithful, FileTypeOK
<1>2. m \in 1 .. i /\ m <= Len(f)
  BY <1>1, FoundBy
<1> HIDE DEF m
<1>3. f[m] \in Line /\ f[m].text \in TextType /\ f[m].key = Order[m]
  <2>1. f[m] \in Line
    BY <1>2
  <2> QED BY <1>1, <1>2, <2>1 DEF Faithful, Line
<1>4. Foreign(f, m) \/ Scanned(f[m], Order[i]).kind = "NONE"
  BY <1>1, <1>2 DEF Missing, m
<1>5. CASE Foreign(f, m)
  <2>1. PICK j \in 1 .. m - 1 : f[j].text.kind = "bracket"
    BY <1>5 DEF Foreign
  <2>2. j \in 2 .. whole /\ j < i /\ j \in 1 .. Len(f)
    BY <1>1, <1>2, <2>1 DEF Faithful
  <2> QED BY <2>1, <2>2 DEF Faithful
<1>6. CASE Scanned(f[m], Order[i]).kind = "NONE"
  <2>1. f[m].key = Order[i] /\ f[m].text.kind = "NONE"
    BY <1>3, <1>6 DEF Scanned, GetLine, StripSparc, Garbage, TextType
  <2>2. m = i
    <3>1. m \in 1 .. 12 /\ Order[m] = Order[i]
      BY <1>1, <1>2, <1>3, <2>1
    <3> QED BY <1>1, <3>1, OrderOnce
  <2> QED BY <1>1, <2>1, <2>2 DEF Faithful
<1> QED BY <1>4, <1>5, <1>6

\* What is not excused is read as it was written, and so far the reading comes.
LEMMA ReadTrue ==
    ASSUME FileTypeOK, NEW f \in Seq(Line), Faithful(f, whole, written),
           NEW i \in 2 .. 12,
           ~Excused(Order[i])
    PROVE  /\ GetConfigString(f, Order[i]) = written[Order[i]]
           /\ \A k \in 2 .. i : ~Missing(f, Order[k])
<1> DEFINE m == Match(f, Order[i])
<1>1. i <= whole /\ i \in 1 .. Len(f) /\ whole \in Nat /\ Len(f) \in Nat
  <2>1. i \in 1 .. 12 /\ Kept(Order[i])
    BY DEF Excused
  <2>2. i <= whole
    BY <2>1, KeptIs
  <2> QED BY <2>2 DEF Faithful, FileTypeOK
<1>2. /\ written[Order[i]].kind \notin {"blank", "empty", "NONE"}
      /\ \A j \in 1 .. i - 1 : written[Order[j]].kind \notin {"bracket", "NONE", Order[i]}
  <2>1. \A j \in 1 .. i - 1 :
          j \in 1 .. 12 /\ Before(Order[j], Order[i]) /\ Order[j] \in Entry
    BY BeforeIs, OrderIs
  <2> QED BY <2>1 DEF Excused
<1>3. m = i
  <2>1. m \in 1 .. i /\ Holds(f[m], Order[i])
    BY <1>1, FoundBy
  <2> HIDE DEF m
  <2>2. i \in 1 .. 12 /\ m \in 1 .. 12 /\ m \in 1 .. Len(f)
    BY <1>1, <2>1
  <2>3. CASE f[m].key = Order[i]
    <3>1. Order[m] = Order[i]
      BY <2>2, <2>3 DEF Faithful
    <3> QED BY <2>2, <3>1, OrderOnce
  <2>4. CASE m = 1 /\ f[m].text.kind = Order[i]
    <3>1. Order[i] \in {"plain", "cut", "empty"}
      BY <2>2, <2>4 DEF Faithful
    <3> QED BY <3>1 DEF Order
  <2>5. CASE m # 1 /\ m < i /\ f[m].text.kind = Order[i]
    <3>1. f[m].text = written[Order[m]]
      BY <1>1, <2>1, <2>2, <2>5 DEF Faithful
    <3> QED BY <1>2, <2>1, <2>5, <3>1
  <2> QED BY <2>1, <2>3, <2>4, <2>5 DEF Holds
<1>4. GetConfigString(f, Order[i]) = written[Order[i]]
  <2>1. f[i].key = Order[i] /\ f[i].text = written[Order[i]]
    BY <1>1 DEF Faithful
  <2>2. GetLine(f[i], Order[i]) = written[Order[i]]
    BY <2>1 DEF GetLine
  <2>3. Scanned(f[i], Order[i]) = written[Order[i]]
    BY <1>2, <2>2 DEF Scanned, StripSparc
  <2> QED BY <1>3, <2>3 DEF GetConfigString
<1>5. ASSUME NEW k \in 2 .. i, Missing(f, Order[k]) PROVE FALSE
  <2>1. k \in 2 .. whole
    BY <1>1
  <2>2. PICK j \in 2 .. k : \/ j < k /\ written[Order[j]].kind = "bracket"
                            \/ written[Order[j]].kind = "NONE"
    BY <1>5, <2>1, MissingWhy
  <2> QED BY <1>2, <2>2
<1> QED BY <1>4, <1>5

\* Where GetUpgradeInfo stops.
LEMMA StopIs ==
    ASSUME FileTypeOK, FaithfulInv
    PROVE  /\ Stop \in 1 .. 10
           /\ \A k \in 1 .. 9 : k < Stop => ~Missing(lines, ReadOrder[k])
           /\ Stop < 10 => Missing(lines, ReadOrder[Stop])
<1> DEFINE missing == {k \in DOMAIN ReadOrder : Missing(Content, ReadOrder[k])}
<1>1. missing \subseteq 1 .. 9 /\ missing \subseteq Nat
      /\ missing = {k \in 1 .. 9 : Missing(lines, ReadOrder[k])}
  BY ReadOrderIs, ContentIs
<1>2. CASE missing = {}
  BY <1>1, <1>2, ReadOrderIs DEF Stop
<1>3. CASE missing # {}
  <2>1. \E k \in missing : \A l \in missing : k <= l
    BY <1>1, <1>3, Smallest
  <2>2. Stop = CHOOSE k \in missing : \A l \in missing : k <= l
    BY <1>3 DEF Stop
  <2>3. Stop \in missing /\ \A l \in missing : Stop <= l
    BY <2>1, <2>2
  <2> QED BY <1>1, <2>3
<1> QED BY <1>2, <1>3

\* What is read is a text, and never no text at all.
LEMMA ReadIs ==
    ASSUME NEW f \in Seq(Line), NEW e \in Entry, ~Missing(f, e)
    PROVE  GetConfigString(f, e) \in TextType /\ GetConfigString(f, e) # Nothing
<1> DEFINE m == Match(f, e)
<1>1. m \in 1 .. Len(f)
  BY MatchIs DEF Missing
<1> HIDE DEF m
<1>2. f[m].text \in TextType
  <2>1. f[m] \in Line
    BY <1>1
  <2> QED BY <2>1 DEF Line
<1>3. GetLine(f[m], e) \in TextType
  BY <1>2 DEF GetLine, TextType
<1>4. Scanned(f[m], e) \in TextType /\ Scanned(f[m], e).kind # "empty"
  <2> DEFINE t == GetLine(f[m], e)
  <2>1. CASE t.kind = "empty"
    BY <2>1 DEF Scanned, Garbage, TextType
  <2>2. CASE t.kind # "empty"
    <3>1. Scanned(f[m], e) = StripSparc(t)
      BY <2>2 DEF Scanned
    <3> HIDE DEF t
    <3>2. StripSparc(t) \in TextType /\ StripSparc(t).kind # "empty"
      BY <1>3, <2>2 DEF StripSparc, TextType, t
    <3> QED BY <3>1, <3>2
  <2> QED BY <2>1, <2>2
<1>5. GetConfigString(f, e) = Scanned(f[m], e)
  BY DEF GetConfigString, m
<1>6. Nothing.kind = "empty"
  BY DEF Nothing
<1> HIDE DEF m
<1> QED BY <1>4, <1>5, <1>6

-----------------------------------------------------------------------------
(* The file of one step.                                                   *)

\* FirstBoot is found only in a file that has lines.
LEMMA FirstFound ==
    ASSUME FileTypeOK, FaithfulInv, First
    PROVE  lines # <<>>
<1>1. ~(Match(lines, "FirstBoot") > Len(lines))
  BY ContentIs DEF First, Missing
<1>2. Match(lines, "FirstBoot") \in 1 .. Len(lines) + 1
  <2>1. lines \in Seq(Line) /\ "FirstBoot" \in Entry
    BY OrderIs DEF FileTypeOK
  <2> QED BY <2>1, MatchIs
<1> QED BY <1>1, <1>2 DEF FileTypeOK

\* The first line is that of FirstBoot.
LEMMA FirstMatch ==
    ASSUME FileTypeOK, NEW f \in Seq(Line), Faithful(f, whole, written), f # <<>>
    PROVE  Match(f, "FirstBoot") = 1 /\ 1 \in 1 .. Len(f)
<1>1. 1 \in 1 .. Len(f)
  OBVIOUS
<1>2. Match(f, Order[1]) \in 1 .. 1
  BY <1>1, FoundBy
<1> QED BY <1>1, <1>2, OrderIs

\* A whole report that was never read is read.
LEMMA WholeIsFirst ==
    ASSUME FileTypeOK, FaithfulInv, Complete(lines), lines[1].text = Flag("1")
    PROVE  First /\ GetConfigString(Content, "FirstBoot") # Garbage
<1>1. Content = lines /\ lines \in Seq(Line)
  BY ContentIs DEF FileTypeOK
<1>2. lines # <<>>
  BY <1>1, OrderIs DEF Complete, Faithful
<1>3. Match(lines, "FirstBoot") = 1 /\ 1 <= Len(lines)
  BY <1>1, <1>2, FirstMatch DEF Complete
<1>4. lines[1].key = "FirstBoot"
  BY <1>1, <1>3, OrderIs DEF Complete, Faithful
<1>5. Scanned(lines[1], "FirstBoot") = Flag("1")
  BY <1>4 DEF Scanned, GetLine, StripSparc, Flag
<1>6. GetConfigString(lines, "FirstBoot") = Flag("1")
  BY <1>3, <1>5 DEF GetConfigString
<1>7. ~Foreign(lines, 1)
  BY DEF Foreign
<1>8. Flag("1").kind # "NONE" /\ Flag("1") # Garbage
  BY DEF Flag, Garbage
<1>9. ~Missing(lines, "FirstBoot")
  BY <1>1, <1>3, <1>5, <1>7, <1>8 DEF Missing
<1> QED BY <1>1, <1>6, <1>8, <1>9 DEF First

\* The file with FirstBoot cleared is the report it was.
LEMMA ClearedIs ==
    ASSUME FileTypeOK, NEW f \in Seq(Line), Faithful(f, whole, written), f # <<>>
    PROVE  Cleared(f) \in Seq(Line) /\ Faithful(Cleared(f), whole, written)
<1> DEFINE line == [key |-> "FirstBoot", text |-> Flag("0")]
<1>1. Cleared(f) = [f EXCEPT ![1] = line]
  BY FirstMatch DEF Cleared, Replaced
<1>2. line \in Line /\ line.key = "FirstBoot" /\ line.text.kind = "plain"
  <2>1. Flag("0") \in TextType /\ Flag("0").kind = "plain"
    BY DEF TextType, Flag
  <2>2. "FirstBoot" \in Entry
    BY OrderIs
  <2> QED BY <2>1, <2>2 DEF Line
<1> HIDE DEF line
<1>3. /\ Cleared(f) \in Seq(Line) /\ Len(Cleared(f)) = Len(f)
      /\ Cleared(f)[1] = line
      /\ \A i \in 2 .. Len(f) : Cleared(f)[i] = f[i]
  BY <1>1, <1>2, FirstMatch
<1> QED BY <1>2, <1>3, OrderIs DEF Faithful

\* A report cut off is a report with fewer lines in full.
LEMMA CutFaithful ==
    ASSUME NEW f \in Seq(Line), NEW w \in 0 .. 12, NEW r, Faithful(f, w, r),
           NEW n \in 0 .. Len(f), NEW g \in CutAt(f, n)
    PROVE  Faithful(g, IF n < w THEN n ELSE w, r)
<1>1. /\ g \in Seq(Line) /\ Len(g) \in {n, n + 1} /\ Len(g) <= Len(f)
      /\ \A i \in 1 .. n : g[i] = f[i]
      /\ Len(g) = n + 1 => g[n + 1].key = f[n + 1].key
                             /\ g[n + 1].text.kind \in {"cut", "empty"}
      /\ n = Len(f) => g = f
  BY CutAtIs
<1>2. Len(f) \in Nat /\ Len(g) \in Nat /\ Len(f) <= 12 /\ Len(f) \in {w, w + 1}
  BY OrderIs DEF Faithful
<1>3. CASE n = Len(f)
  <2>1. (IF n < w THEN n ELSE w) = w
    BY <1>2, <1>3
  <2> QED BY <1>1, <1>3, <2>1
<1>4. CASE n # Len(f)
  <2>1. n <= w /\ (IF n < w THEN n ELSE w) = n
    BY <1>2, <1>4
  <2>2. Len(g) <= 12 /\ Len(g) \in {n, n + 1}
    BY <1>1, <1>2
  <2>3. ASSUME NEW i \in 1 .. Len(g)
        PROVE  /\ g[i].key = Order[i]
               /\ i = 1          => g[i].text.kind \in {"plain", "cut", "empty"}
               /\ i \in 2 .. n    => g[i].text = r[Order[i]]
               /\ i > 1 /\ i > n => g[i].text.kind \in {"cut", "empty"}
    <3>1. i \in 1 .. Len(f) /\ (i <= n \/ i = n + 1)
      BY <1>1, <1>2
    <3>2. CASE i <= n
      BY <1>1, <2>1, <3>1, <3>2 DEF Faithful
    <3>3. CASE i = n + 1
      BY <1>1, <1>2, <3>1, <3>3 DEF Faithful
    <3> QED BY <3>1, <3>2, <3>3
  <2> QED BY <2>1, <2>2, <2>3, OrderIs DEF Faithful
<1> QED BY <1>3, <1>4

\* The text of snprintf is a whole report.
LEMMA ReportIs ==
    ASSUME report \in [Entry -> TextType]
    PROVE  /\ Report \in Seq(Line) /\ Len(Report) = 12 /\ Faithful(Report, 12, report)
           /\ Report[1].text = Flag("1")
<1> DEFINE line(i) == [key |-> Order[i],
                       text |-> IF Order[i] = "FirstBoot" THEN FirstBoot
                                ELSE report[Order[i]]]
<1>1. Report = [i \in 1 .. 12 |-> line(i)]
  BY OrderIs DEF Report
<1>2. FirstBoot \in TextType /\ FirstBoot.kind = "plain"
  BY DEF FirstBoot, Flag, TextType
<1>3. \A i \in 1 .. 12 :
        /\ line(i) \in Line /\ line(i).key = Order[i]
        /\ line(i).text = IF Order[i] = "FirstBoot" THEN FirstBoot ELSE report[Order[i]]
  BY <1>2, OrderIs DEF Line
<1>4. Report \in Seq(Line) /\ Len(Report) = 12
  BY <1>1, <1>3
<1>5. \A i \in 2 .. 12 : Order[i] # "FirstBoot"
  BY OrderIs, OrderOnce
<1>6. \A i \in 1 .. 12 : Report[i] = line(i)
  BY <1>1
<1> HIDE DEF line
<1>7. \A i \in 2 .. 12 : Report[i].text = report[Order[i]]
  BY <1>3, <1>5, <1>6
<1>8. Report[1].text = FirstBoot
  BY <1>3, <1>6, OrderIs
<1>9. \A i \in 1 .. 12 : Report[i].key = Order[i]
  BY <1>3, <1>6
<1> QED BY <1>2, <1>4, <1>7, <1>8, <1>9, OrderIs DEF Faithful, FirstBoot

-----------------------------------------------------------------------------
(* The steps.                                                              *)

LEMMA FileStart == FileInit => FileInv
<1> SUFFICES ASSUME FileInit PROVE FileInv
  OBVIOUS
<1>1. Nothing \in TextType /\ Nothing.kind = "empty" /\ NoReport \in [Entry -> TextType]
      /\ \A e \in Entry : NoReport[e] = Nothing
  BY DEF Nothing, TextType, NoReport
<1>2. FileTypeOK
  <2>1. lines \in Seq(Line) /\ buffer \in Seq(Line)
    BY DEF FileInit
  <2>2. whole \in 0 .. Len(Order)
    BY OrderIs DEF FileInit
  <2> QED BY <1>1, <2>1, <2>2 DEF FileInit, FileTypeOK
<1>3. FaithfulInv
  BY <1>1 DEF FileInit, FaithfulInv, PlainBut
<1>4. DueInv /\ SentIsWritten
  BY DEF FileInit, DueInv, SentIsWritten
<1> QED BY <1>2, <1>3, <1>4 DEF FileInv

LEMMA BootKeeps ==
    ASSUME FileInv, Boot
    PROVE  FileInv'
<1>1. FileTypeOK'
  BY DEF Boot, FileInv, FileTypeOK
<1>2. FaithfulInv'
  BY DEF Boot, FileInv, FaithfulInv
<1>3. DueInv' /\ SentIsWritten'
  BY DEF Boot, FileInv, DueInv, Complete, SentIsWritten
<1> QED BY <1>1, <1>2, <1>3 DEF FileInv

LEMMA DieKeeps ==
    ASSUME FileInv, Die
    PROVE  FileInv'
<1>1. Nothing \in TextType /\ Nothing.kind = "empty" /\ NoReport \in [Entry -> TextType]
      /\ \A e \in Entry : NoReport[e] = Nothing
  BY DEF Nothing, TextType, NoReport
<1>2. \/ due' \in {"no", due}
      \/ phase \in {"check", "clear"} /\ due = "due" /\ due' = "written"
  BY DEF Die
<1>3. FileTypeOK'
  BY <1>1, <1>2 DEF Die, FileInv, FileTypeOK
<1>4. FaithfulInv'
  BY <1>1 DEF Die, FileInv, FaithfulInv, PlainBut
<1>5. DueInv' /\ SentIsWritten'
  BY <1>2 DEF Die, FileInv, DueInv, Complete, SentIsWritten
<1> QED BY <1>3, <1>4, <1>5 DEF FileInv

LEMMA CheckUpgradeResultKeeps ==
    ASSUME FileInv, CheckUpgradeResult
    PROVE  FileInv'
<1>1. FileTypeOK'
  BY DEF CheckUpgradeResult, FileInv, FileTypeOK
<1>2. FaithfulInv'
  BY FirstFound DEF CheckUpgradeResult, FileInv, FaithfulInv
<1>3. /\ due # "written"
      /\ due = "due" => Complete(lines) /\ lines[1].text = Flag("1") /\ there
  BY DEF CheckUpgradeResult, FileInv, DueInv
<1>4. due = "due" => phase' = "clear"
  BY <1>3, WholeIsFirst DEF CheckUpgradeResult, FileInv
<1>5. DueInv' /\ SentIsWritten'
  BY <1>3, <1>4 DEF CheckUpgradeResult, DueInv, Complete, SentIsWritten
<1> QED BY <1>1, <1>2, <1>5 DEF FileInv

LEMMA CreateFileKeeps ==
    ASSUME FileInv, CreateFile
    PROVE  FileInv'
<1>1. /\ lines \in Seq(Line) /\ lines # <<>> /\ Faithful(lines, whole, written)
      /\ FileTypeOK /\ there
  BY DEF CreateFile, FileInv, FileTypeOK, FaithfulInv
<1>2. CASE buffer' = Cleared(Content) /\ lines' = <<>> /\ phase' = "put"
  <2>1. buffer' \in Seq(Line) /\ Faithful(buffer', whole, written)
    BY <1>1, <1>2, ClearedIs, ContentIs DEF FileInv
  <2>2. FileTypeOK'
    <3>1. lines' \in Seq(Line)
      BY <1>2
    <3> QED BY <1>2, <2>1, <3>1 DEF CreateFile, FileInv, FileTypeOK
  <2>3. FaithfulInv'
    BY <1>1, <1>2, <2>1 DEF CreateFile, FileInv, FaithfulInv
  <2>4. DueInv' /\ SentIsWritten'
    BY <1>2, <2>1 DEF CreateFile, FileInv, DueInv, Complete, SentIsWritten
  <2> QED BY <2>2, <2>3, <2>4 DEF FileInv
<1>3. CASE UNCHANGED <<buffer, lines>> /\ phase' = "read"
  <2>1. FileTypeOK'
    BY <1>3 DEF CreateFile, FileInv, FileTypeOK
  <2>2. FaithfulInv'
    BY <1>1, <1>3 DEF CreateFile, FileInv, FaithfulInv
  <2>3. DueInv' /\ SentIsWritten'
    BY <1>3 DEF CreateFile, FileInv, DueInv, Complete, SentIsWritten
  <2> QED BY <2>1, <2>2, <2>3 DEF FileInv
<1> QED BY <1>2, <1>3 DEF CreateFile

LEMMA PutFileKeeps ==
    ASSUME FileInv, PutFile
    PROVE  FileInv'
<1>1. PICK n \in 0 .. Len(buffer) :
        /\ lines' \in CutAt(buffer, n)
        /\ whole' = IF n < whole THEN n ELSE whole
        /\ due' = IF n = Len(buffer) THEN due ELSE "no"
  BY DEF PutFile
<1>2. /\ buffer \in Seq(Line) /\ Faithful(buffer, whole, written) /\ whole \in 0 .. 12
      /\ there
  BY OrderIs DEF PutFile, FileInv, FileTypeOK, FaithfulInv
<1>3. lines' \in Seq(Line) /\ Len(buffer) \in Nat
  BY <1>1, <1>2, CutAtIs
<1>4. Faithful(lines', whole', written)
  BY <1>1, <1>2, CutFaithful
<1>5. n = Len(buffer) => lines' = buffer /\ whole' = whole
  <2>1. n = Len(buffer) => lines' = buffer
    BY <1>1, <1>2, CutAtIs
  <2>2. Len(buffer) >= whole
    BY <1>2, <1>3 DEF Faithful
  <2> QED BY <1>1, <1>2, <1>3, <2>1, <2>2
<1>6. FileTypeOK'
  <2>1. /\ buffer' \in Seq(Line) /\ whole' \in 0 .. Len(Order)
        /\ due' \in {"no", "written", "due"}
    BY <1>1, <1>2, <1>3, OrderIs DEF PutFile, FileInv, FileTypeOK
  <2> QED BY <1>3, <2>1 DEF PutFile, FileInv, FileTypeOK
<1>7. FaithfulInv'
  BY <1>2, <1>4 DEF PutFile, FileInv, FaithfulInv
<1>8. DueInv'
  BY <1>1, <1>2, <1>5 DEF PutFile, FileInv, DueInv, Complete
<1>9. SentIsWritten'
  BY DEF PutFile, SentIsWritten
<1> QED BY <1>6, <1>7, <1>8, <1>9 DEF FileInv

LEMMA GetUpgradeInfoKeeps ==
    ASSUME FileInv, GetUpgradeInfo
    PROVE  FileInv'
<1>1. /\ FileTypeOK /\ FaithfulInv /\ lines \in Seq(Line)
      /\ Faithful(lines, whole, written) /\ Content = lines
  BY ContentIs DEF GetUpgradeInfo, FileInv, FileTypeOK, FaithfulInv
<1>2. /\ Stop \in 1 .. 10
      /\ \A k \in 1 .. 9 : k < Stop => ~Missing(lines, ReadOrder[k])
      /\ Stop < 10 => Missing(lines, ReadOrder[Stop])
  BY <1>1, StopIs
<1>3. \A e \in Entry :
        info'[e] = IF \E i \in 1 .. Stop - 1 : ReadOrder[i] = e
                   THEN GetConfigString(lines, e) ELSE Nothing
  BY <1>1 DEF GetUpgradeInfo
<1>4. \A k \in 1 .. 9 : k < Stop =>
        info'[ReadOrder[k]] = GetConfigString(lines, ReadOrder[k])
  <2>1. \A k \in 1 .. 9 : ReadOrder[k] \in Entry
    BY ReadOrderIs, OrderIs
  <2> QED BY <1>2, <1>3, <2>1
<1>5. FileTypeOK'
  <2>1. ASSUME NEW e \in Entry PROVE info'[e] \in TextType
    <3>1. CASE \E i \in 1 .. Stop - 1 : ReadOrder[i] = e
      <4>1. PICK i \in 1 .. Stop - 1 : ReadOrder[i] = e
        BY <3>1
      <4>2. ~Missing(lines, e)
        BY <1>2, <4>1
      <4> QED BY <1>1, <1>3, <3>1, <4>2, ReadIs
    <3>2. CASE ~\E i \in 1 .. Stop - 1 : ReadOrder[i] = e
      <4>1. Nothing \in TextType
        BY DEF Nothing, TextType
      <4> QED BY <1>3, <3>2, <4>1
    <3> QED BY <3>1, <3>2
  <2>2. info' = [e \in Entry |-> info'[e]]
    BY DEF GetUpgradeInfo
  <2>3. info' \in [Entry -> TextType]
    BY <2>1, <2>2
  <2> QED BY <1>1, <2>3 DEF GetUpgradeInfo, FileTypeOK
<1>6. FaithfulInv'
  BY <1>1 DEF GetUpgradeInfo, FaithfulInv
<1>7. DueInv'
  <2>1. ASSUME due = "due", info'["updateUrl"] = Nothing PROVE Unsent
    <3>1. whole = 12
      BY <2>1, OrderIs DEF GetUpgradeInfo, FileInv, DueInv, Complete
    <3>2. Stop <= 7
      <4>1. SUFFICES ASSUME 7 < Stop PROVE FALSE
        BY <1>2
      <4>2. /\ info'["updateUrl"] = GetConfigString(lines, "updateUrl")
            /\ ~Missing(lines, "updateUrl")
        BY <1>2, <1>4, <4>1, ReadOrderIs
      <4>3. "updateUrl" \in Entry
        BY OrderIs
      <4> QED BY <1>1, <2>1, <4>2, <4>3, ReadIs
    <3>3. At(Stop) \in 2 .. 10 /\ Missing(lines, Order[At(Stop)])
      <4>1. Stop \in 1 .. 7
        BY <1>2, <3>2
      <4> QED BY <1>2, <4>1, ReadOrderIs DEF At
    <3>4. PICK j \in 2 .. 10 : written[Order[j]].kind \in {"NONE", "bracket"}
      <4>1. PICK i \in 2 .. 10 : i = At(Stop) /\ Missing(lines, Order[i])
        BY <3>3
      <4>2. i \in 2 .. whole
        BY <3>1
      <4> QED BY <1>1, <4>1, <4>2, MissingWhy
    <3>5. Order[j] \in Given
      <4>1. Order[j] \in Entry
        BY OrderIs
      <4> QED BY <1>1, <3>4, <4>1 DEF FaithfulInv, PlainBut
    <3>6. ~Before("updateUrl", Order[j])
      BY BeforeIs, OrderIs
    <3> QED BY <3>4, <3>5, <3>6 DEF Unsent
  <2>2. due' = due /\ phase' = "post" /\ (Unsent' <=> Unsent)
    BY DEF GetUpgradeInfo, Unsent
  <2>3. due # "written"
    BY DEF GetUpgradeInfo, FileInv, DueInv
  <2> QED BY <2>1, <2>2, <2>3 DEF DueInv
<1>8. SentIsWritten'
  <2>1. Content' = lines /\ whole' = whole /\ written' = written
    BY <1>1 DEF GetUpgradeInfo, Content, FileSize, GetFileAttr
  <2>2. ASSUME lines = <<>> PROVE info' = NoReport
    <3>1. Match(lines, ReadOrder[1]) = 1 /\ Len(lines) = 0
      BY <2>2 DEF Match
    <3>2. Missing(lines, ReadOrder[1])
      BY <3>1 DEF Missing
    <3>3. Stop = 1
      BY <1>2, <3>2
    <3> QED BY <3>3 DEF GetUpgradeInfo, NoReport
  <2>3. ASSUME NEW k \in 1 .. 9, ~Excused(ReadOrder[k])
        PROVE  info'[ReadOrder[k]] = written[ReadOrder[k]]
    <3>1. PICK i \in 2 .. 12 : i = At(k) /\ ReadOrder[k] = Order[i]
      BY ReadOrderIs
    <3>2. /\ GetConfigString(lines, Order[i]) = written[Order[i]]
          /\ \A l \in 2 .. i : ~Missing(lines, Order[l])
      BY <1>1, <2>3, <3>1, ReadTrue
    <3>3. k < Stop
      <4>1. SUFFICES ASSUME Stop \in 1 .. k PROVE FALSE
        BY <1>2
      <4>2. Stop \in 1 .. 9 /\ Missing(lines, Order[At(Stop)])
        BY <1>2, <4>1, ReadOrderIs
      <4>3. At(Stop) \in 2 .. i
        BY <3>1, <4>1, <4>2 DEF At
      <4> QED BY <3>2, <4>2, <4>3
    <3> QED BY <1>4, <3>1, <3>2, <3>3
  <2>4. \A e \in Entry : Excused(e)' <=> Excused(e)
    BY <2>1 DEF Excused, Kept
  <2>5. \A k \in 1 .. 9 : ReadOrder[k] \in Entry
    BY ReadOrderIs, OrderIs
  <2> QED BY <2>1, <2>2, <2>3, <2>4, <2>5, ReadOrderIs DEF SentIsWritten
<1> QED BY <1>5, <1>6, <1>7, <1>8 DEF FileInv

LEMMA ReportUpgradeResultKeeps ==
    ASSUME FileInv, ReportUpgradeResult
    PROVE  FileInv'
<1>1. due' \in {due, "no"} /\ (due' = due => due = "no" \/ info["updateUrl"] = Nothing)
  BY DEF ReportUpgradeResult, CPost
<1>2. FileTypeOK'
  BY <1>1 DEF ReportUpgradeResult, FileInv, FileTypeOK
<1>3. FaithfulInv'
  BY DEF ReportUpgradeResult, FileInv, FaithfulInv
<1>4. DueInv' /\ SentIsWritten'
  BY <1>1 DEF ReportUpgradeResult, FileInv, DueInv, Unsent, SentIsWritten
<1> QED BY <1>2, <1>3, <1>4 DEF FileInv

LEMMA ReceiveUpdateKeeps ==
    ASSUME FileInv, NEW kind \in [Given -> Kinds], ReceiveUpdate(kind)
    PROVE  FileInv'
<1>1. report' \in [Entry -> TextType] /\ PlainBut(report')
  <2>1. Nothing \in TextType /\ Nothing.kind = "empty"
    BY DEF Nothing, TextType
  <2>2. ASSUME NEW e \in Entry,
               NEW k \in {"plain", "blank", "empty", "bracket", "NONE"} \cup Entry
        PROVE  Text(e, k) \in TextType /\ Text(e, k).kind = k
    BY DEF Text, TextType, FileInv, FileTypeOK
  <2>3. ASSUME NEW e \in Entry
        PROVE  /\ report'[e] \in TextType
               /\ e \notin Given => report'[e].kind \in {"plain", "empty"}
    <3>1. report'[e] = CASE e = "FirstBoot" -> Nothing
                         [] e = "info"      -> Text(e, "empty")
                         [] e \in Given     -> Text(e, kind[e])
                         [] OTHER           -> Text(e, "plain")
      BY DEF ReceiveUpdate
    <3>2. CASE e = "FirstBoot"
      BY <2>1, <3>1, <3>2 DEF Given
    <3>3. CASE e = "info"
      BY <2>2, <3>1, <3>3 DEF Given
    <3>4. CASE e \in Given
      <4>1. e # "FirstBoot" /\ e # "info" /\ kind[e] \in Kinds
        BY <3>4 DEF Given
      <4> QED BY <2>2, <3>1, <3>4, <4>1, KindsAssumption
    <3>5. CASE e \notin Given /\ e # "FirstBoot" /\ e # "info"
      BY <2>2, <3>1, <3>5
    <3> QED BY <3>2, <3>3, <3>4, <3>5
  <2>4. report' = [e \in Entry |-> report'[e]]
    BY DEF ReceiveUpdate
  <2>5. report' \in [Entry -> TextType]
    BY <2>3, <2>4
  <2> QED BY <2>3, <2>5 DEF PlainBut
<1>2. FileTypeOK'
  BY <1>1 DEF ReceiveUpdate, FileInv, FileTypeOK
<1>3. FaithfulInv'
  BY <1>1 DEF ReceiveUpdate, FileInv, FaithfulInv
<1>4. DueInv' /\ SentIsWritten'
  BY DEF ReceiveUpdate, FileInv, DueInv, Complete, Unsent, SentIsWritten
<1> QED BY <1>2, <1>3, <1>4 DEF FileInv

LEMMA OpenConfKeeps ==
    ASSUME FileInv, OpenConf
    PROVE  FileInv'
<1>1. /\ lines' \in Seq(Line) /\ there' \in BOOLEAN /\ due' \in {due, "no"}
      /\ lines' \in {<<>>, lines} /\ (there' = FALSE => lines' = lines /\ there = FALSE)
  <2>1. <<>> \in Seq(Line) /\ lines \in Seq(Line) /\ there \in BOOLEAN
    BY DEF FileInv, FileTypeOK
  <2> QED BY <2>1, Zenon DEF OpenConf
<1>2. FileTypeOK'
  BY <1>1 DEF OpenConf, FileInv, FileTypeOK
<1>3. FaithfulInv'
  BY <1>1 DEF OpenConf, FileInv, FaithfulInv
<1>4. DueInv' /\ SentIsWritten'
  BY DEF OpenConf, FileInv, DueInv, Complete, Unsent, SentIsWritten
<1> QED BY <1>2, <1>3, <1>4 DEF FileInv

LEMMA WriteConfKeeps ==
    ASSUME FileInv, WriteConf
    PROVE  FileInv'
<1>1. PICK n \in 0 .. 12 :
        /\ lines' \in CutAt(Report, n) /\ whole' = n
        /\ due' = IF n = 12 THEN "written" ELSE "no"
  BY OrderIs DEF WriteConf
<1>2. /\ Report \in Seq(Line) /\ Len(Report) = 12 /\ Faithful(Report, 12, report)
      /\ Report[1].text = Flag("1")
  BY ReportIs DEF FileInv, FileTypeOK
<1>3. lines' \in Seq(Line) /\ (n = 12 => lines' = Report)
  BY <1>1, <1>2, CutAtIs
<1>4. Faithful(lines', n, report)
  <2>1. (IF n < 12 THEN n ELSE 12) = n
    OBVIOUS
  <2>2. n \in 0 .. Len(Report) /\ 12 \in 0 .. 12
    BY <1>2
  <2>3. Faithful(lines', IF n < 12 THEN n ELSE 12, report)
    BY <1>1, <1>2, <2>2, CutFaithful
  <2> QED BY <2>1, <2>3
<1>5. /\ written' = report /\ phase' = "loop" /\ phase = "write"
      /\ UNCHANGED <<report, there, buffer, info, lives, writes>>
  BY DEF WriteConf
<1>6. FileTypeOK'
  BY <1>1, <1>3, <1>5, OrderIs DEF FileInv, FileTypeOK
<1>7. there
  BY <1>5 DEF FileInv, FaithfulInv
<1>8. FaithfulInv'
  BY <1>1, <1>4, <1>5, <1>7 DEF FileInv, FaithfulInv
<1>9. DueInv' /\ SentIsWritten'
  BY <1>1, <1>2, <1>3, <1>4, <1>5, <1>7, OrderIs DEF DueInv, Complete, SentIsWritten
<1> QED BY <1>6, <1>8, <1>9 DEF FileInv

LEMMA FileStep == FileInv /\ [FileNext]_fileVars => FileInv'
<1> SUFFICES ASSUME FileInv, [FileNext]_fileVars PROVE FileInv'
  OBVIOUS
<1>1. CASE UNCHANGED fileVars
  <2>1. FileTypeOK' /\ FaithfulInv'
    BY <1>1 DEF FileInv, fileVars, FileTypeOK, FaithfulInv
  <2>2. DueInv'
    BY <1>1 DEF FileInv, fileVars, DueInv, Complete, Unsent
  <2>3. SentIsWritten'
    BY <1>1
    DEF FileInv, fileVars, SentIsWritten, Excused, Kept, Content, FileSize, GetFileAttr
  <2> QED BY <2>1, <2>2, <2>3 DEF FileInv
<1> QED
  BY <1>1, BootKeeps, DieKeeps, CheckUpgradeResultKeeps, CreateFileKeeps, PutFileKeeps,
     GetUpgradeInfoKeeps, ReportUpgradeResultKeeps, ReceiveUpdateKeeps, OpenConfKeeps,
     WriteConfKeeps
  DEF FileNext, Startup

\* Whatever becomes of the writes, the lines of update.conf are those of the
\* last report, in their order.
THEOREM FileInvariantHolds == FileSpec => []FileInv
BY FileStart, FileStep, PTL DEF FileSpec

\* What is sent after a restart is what was written before it, entry by entry,
\* but for the cut and the odd texts that Excused names.
THEOREM SentIsWrittenHolds == FileSpec => []SentIsWritten
<1>1. FileInv => SentIsWritten
  BY DEF FileInv
<1> QED BY <1>1, FileInvariantHolds, PTL

\* A report that is whole in the file is sent at the next start.
THEOREM SentUnlessLostHolds == FileSpec => []SentUnlessLost
<1>1. FileInv => SentUnlessLost
  BY DEF FileInv, DueInv, Unsent, SentUnlessLost
<1> QED BY <1>1, FileInvariantHolds, PTL
=============================================================================
