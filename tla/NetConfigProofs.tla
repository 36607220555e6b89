--------------------------- MODULE NetConfigProofs ---------------------------
(***************************************************************************)
(* For any number of sessions, any names, passwords and user ids, empty    *)
(* ones included: what the network configuration process reports and       *)
(* binds, and when it destroys its recogniser.                             *)
(***************************************************************************)
EXTENDS NetConfig, TLAPS

\* The places of main() between sessions and in a request to bind.
Idle == {"loop", "transfer", "transferred"}

\* The places of the control thread after it has destroyed the recogniser.
Ended == {"report", "cancel"} \cup Decided

TypeOK ==
    /\ mainPc \in {"recorder", "run", "ctrl", "return"} \cup Idle
    /\ ctrlPc \in {"none", "start", "waiting", "awake", "silent", "quitting", "report",
                  "cancel", "clear", "send", "finish"}
    /\ regstatus \in {"NOTHING", "RECOGING", "FINISH"}
    /\ regIsTimeOut \in BOOLEAN /\ isRegCancel \in BOOLEAN /\ timer \in BOOLEAN
    /\ flags \in SUBSET Part /\ wifiInfo \in Info
    /\ session \in 0 .. MaxSessions
    /\ run \in [Session -> {"none", "created", "running", "done"}]
    /\ success \in BOOLEAN
    /\ heard \in SUBSET Part
    /\ report \in [session : 0 .. MaxSessions, heard : SUBSET Part, info : Info]
    /\ answers \in [Session -> SUBSET {"info", "timeout"}]
    /\ freed \in SUBSET Session
    /\ spurious \in Nat

\* Where main() and the control thread are in the last session, and that the
\* sessions before it are over and those after it have not begun.
PlaceInv ==
    /\ mainPc \in {"recorder", "run", "ctrl"} =>
          regstatus = "RECOGING" /\ ctrlPc = "none" /\ session \notin freed
    /\ mainPc = "recorder" => session \notin recording
    /\ mainPc \in {"recorder", "run"} => run[session] = "none"
    /\ mainPc = "ctrl" => run[session] # "none"
    /\ ctrlPc # "none" => regstatus = "RECOGING" /\ run[session] # "none"
    /\ regstatus = "RECOGING" => session \in Session
    /\ regstatus = "RECOGING" => (session \in freed <=> ctrlPc \in Ended)
    /\ regstatus = "FINISH" => session \in freed
    /\ regstatus = "NOTHING" => session = 0
    /\ \A s \in Session : s < session => s \in freed
    /\ \A s \in Session : s > session =>
          /\ s \notin freed \cup recording \cup cancelled
          /\ run[s] = "none" /\ answers[s] = {}

\* The recogniser and the recorder of a session that stops.
StopInv ==
    /\ FreedWhenQuit
    /\ ctrlPc \in {"silent", "quitting"} => session \notin recording
    /\ ctrlPc = "quitting" => run[session] # "created" \/ session \in late

\* Why the control thread is awake, and what the two flags still say of it.
ReasonInv ==
    /\ TimeoutIsReal /\ EndedIsAnswered
    /\ regstatus = "RECOGING" /\ ctrlPc # "finish" => "timeout" \notin answers[session]
    /\ regstatus = "RECOGING" /\ session \in cancelled =>
          isRegCancel = TRUE /\ mainPc \in Idle
    /\ regstatus = "RECOGING" /\ isRegCancel = TRUE /\ mainPc \in Idle /\ ctrlPc \notin Decided =>
          session \in cancelled
    /\ spurious = 0 /\ ctrlPc \in {"awake", "silent", "quitting", "report", "cancel"} =>
          /\ session \in expired \cup cancelled \/ regIsTimeOut = FALSE
          /\ \/ session \in cancelled \/ answers[session] # {}
             \/ regIsTimeOut = TRUE /\ mainPc \in Idle

\* What the control thread has read when it reports.
DecidedInv ==
    /\ ctrlPc \in {"cancel", "clear", "send"} => regIsTimeOut = TRUE
    /\ ctrlPc \in {"clear", "send"} =>
          session \notin cancelled /\ (spurious = 0 => session \in expired)
    /\ spurious = 0 /\ ctrlPc = "finish" => session \in cancelled \/ answers[session] # {}

\* What the flags say of the parts that were heard, and wifiInfo of the last
\* report.
HeardInv ==
    /\ ReportComplete
    /\ report.session <= session
    /\ success = TRUE => session # 0
    /\ regstatus = "RECOGING" /\ session \notin leftover => flags \ {"name"} \subseteq heard
    /\ regstatus = "RECOGING" /\ wifiInfo["name"] # Empty => "name" \in heard
    /\ report.session = session /\ session # 0 /\ "timeout" \notin answers[session] =>
          \/ wifiInfo["user"] = report.info["user"]
          \/ flags = Part /\ wifiInfo["name"] = Empty
          \/ ctrlPc = "send" /\ wifiInfo["name"] = Empty

BindInv ==
    /\ told \in {0, 1}
    /\ mainPc # "transferred" => told = 0

Inv == TypeOK /\ PlaceInv /\ StopInv /\ ReasonInv /\ DecidedInv /\ HeardInv /\ BindInv

-----------------------------------------------------------------------------
LEMMA InitInv == Init => Inv
<1> SUFFICES ASSUME Init PROVE Inv
  OBVIOUS
<1> USE BoundsAssumption DEF Init, Session
<1>1. TypeOK
  <2>1. NoInfo \in Info
    BY DEF NoInfo, Info, Text
  <2>2. NoReport \in [session : 0 .. MaxSessions, heard : SUBSET Part, info : Info]
    BY <2>1 DEF NoReport
  <2>3. run \in [Session -> {"none", "created", "running", "done"}]
    OBVIOUS
  <2>4. answers \in [Session -> SUBSET {"info", "timeout"}]
    OBVIOUS
  <2>5. regIsTimeOut \in BOOLEAN /\ isRegCancel \in BOOLEAN /\ timer \in BOOLEAN /\ success \in BOOLEAN
    BY Zenon
  <2> QED BY <2>1, <2>2, <2>3, <2>4, <2>5 DEF TypeOK, Idle
<1>2. PlaceInv /\ BindInv
  BY DEF PlaceInv, BindInv, Ended, Decided
<1>3. StopInv
  BY DEF StopInv, FreedWhenQuit
<1>4. ReasonInv /\ DecidedInv
  BY DEF ReasonInv, DecidedInv, TimeoutIsReal, EndedIsAnswered
<1>5. HeardInv
  BY DEF HeardInv, ReportComplete, NoReport, Part
<1> QED BY <1>1, <1>2, <1>3, <1>4, <1>5 DEF Inv

LEMMA StepInv == Inv /\ [Next]_vars => Inv'
<1> SUFFICES ASSUME Inv, [Next]_vars PROVE Inv'
  OBVIOUS
<1> USE BoundsAssumption DEF Inv, Ended, Decided
<1>1. CASE ReadyNetconfig
  <2>1. TypeOK'
    BY <1>1 DEF ReadyNetconfig, NoInfo, TypeOK, Info, Text, Session, Idle, sharedVars,
       parseVars, recogVars, reportVars, bindVars, causeVars
  <2>2. PlaceInv'
    BY <1>1 DEF ReadyNetconfig, NoInfo, TypeOK, PlaceInv, Session, Idle, sharedVars,
       parseVars, recogVars, reportVars, bindVars, causeVars
  <2>3. StopInv'
    BY <1>1 DEF ReadyNetconfig, NoInfo, TypeOK, PlaceInv, StopInv, FreedWhenQuit,
       Session, sharedVars, parseVars, recogVars, reportVars, bindVars, causeVars
  <2>4. ReasonInv' /\ DecidedInv'
    <3> USE <1>1 DEF ReadyNetconfig, TypeOK, PlaceInv, ReasonInv, DecidedInv, Session, recogVars, reportVars
    <3>1. session' \in Session /\ session' > session /\ regstatus' = "RECOGING"
      OBVIOUS
    <3>2. session' \notin cancelled /\ answers[session'] = {} /\ session' \notin freed
      BY <3>1
    <3>3. TimeoutIsReal'
      BY DEF TimeoutIsReal
    <3>4. EndedIsAnswered'
      <4> SUFFICES ASSUME spurious' = 0, NEW s \in (freed \ cancelled)',
                             (s < session \/ regstatus = "FINISH")', run'[s] # "none"
                      PROVE  answers'[s] # {}
        BY DEF EndedIsAnswered
      <4> QED BY <3>1, <3>2 DEF EndedIsAnswered
    <3>5. ctrlPc' = "none" /\ mainPc' \notin Idle
      BY DEF Idle
    <3> QED BY <3>1, <3>2, <3>3, <3>4, <3>5
  <2>5. HeardInv'
    BY <1>1 DEF ReadyNetconfig, NoInfo, TypeOK, PlaceInv, HeardInv, ReportComplete,
       Session, Part, Info, sharedVars, parseVars, recogVars, reportVars, bindVars,
       causeVars
  <2>6. BindInv'
    BY <1>1 DEF ReadyNetconfig, NoInfo, TypeOK, BindInv, Idle, sharedVars, parseVars,
       recogVars, reportVars, bindVars, causeVars
  <2> QED BY <2>1, <2>2, <2>3, <2>4, <2>5, <2>6
<1>2. CASE StartRecord
  <2>1. TypeOK'
    BY <1>2 DEF StartRecord, GiveUp, TypeOK, PlaceInv, Info, Text, Session, Idle,
       sharedVars, parseVars, recogVars, reportVars, bindVars, causeVars
  <2>2. PlaceInv'
    BY <1>2 DEF StartRecord, GiveUp, TypeOK, PlaceInv, Session, Idle, sharedVars,
       parseVars, recogVars, reportVars, bindVars, causeVars
  <2>3. StopInv'
    BY <1>2 DEF StartRecord, GiveUp, TypeOK, PlaceInv, StopInv, FreedWhenQuit, Session,
       sharedVars, parseVars, recogVars, reportVars, bindVars, causeVars
  <2>4. ReasonInv' /\ DecidedInv'
    <3> USE <1>2 DEF StartRecord, GiveUp, TypeOK, PlaceInv, ReasonInv, DecidedInv, Session, reportVars, causeVars
    <3>1. TimeoutIsReal'
      BY DEF TimeoutIsReal
    <3>2. EndedIsAnswered'
      <4> SUFFICES ASSUME spurious' = 0, NEW s \in (freed \ cancelled)',
                             (s < session \/ regstatus = "FINISH")', run'[s] # "none"
                      PROVE  answers'[s] # {}
        BY DEF EndedIsAnswered
      <4>1. s \in freed /\ s # session
        OBVIOUS
      <4>2. s < session /\ run[s] # "none"
        BY <4>1
      <4> QED BY <4>1, <4>2 DEF EndedIsAnswered
    <3> QED BY <3>1, <3>2 DEF Idle
  <2>5. HeardInv'
    BY <1>2 DEF StartRecord, GiveUp, TypeOK, PlaceInv, HeardInv, ReportComplete,
       Session, Part, Info, sharedVars, parseVars, recogVars, reportVars, bindVars,
       causeVars
  <2>6. BindInv'
    BY <1>2 DEF StartRecord, GiveUp, TypeOK, BindInv, Idle, sharedVars, parseVars,
       recogVars, reportVars, bindVars, causeVars
  <2> QED BY <2>1, <2>2, <2>3, <2>4, <2>5, <2>6
<1>3. CASE CreateRun
  <2>1. TypeOK'
    BY <1>3 DEF CreateRun, GiveUp, TypeOK, PlaceInv, Info, Text, Session, Idle,
       sharedVars, parseVars, recogVars, reportVars, bindVars, causeVars
  <2>2. PlaceInv'
    BY <1>3 DEF CreateRun, GiveUp, TypeOK, PlaceInv, Session, Idle, sharedVars,
       parseVars, recogVars, reportVars, bindVars, causeVars
  <2>3. StopInv'
    <3> USE <1>3 DEF CreateRun, GiveUp, TypeOK, PlaceInv, StopInv, FreedWhenQuit, Session
    <3>1. CASE freed' = freed /\ run' = [run EXCEPT ![session] = "created"] /\ UNCHANGED unstarted
      BY <3>1
    <3>2. CASE GiveUp /\ unstarted' = unstarted \cup {session} /\ UNCHANGED run
      BY <3>2
    <3> QED BY <3>1, <3>2
  <2>4. ReasonInv' /\ DecidedInv'
    <3> USE <1>3 DEF CreateRun, GiveUp, TypeOK, PlaceInv, ReasonInv, DecidedInv, Session, reportVars
    <3>1. TimeoutIsReal'
      BY DEF TimeoutIsReal
    <3>2. EndedIsAnswered'
      <4> SUFFICES ASSUME spurious' = 0, NEW s \in (freed \ cancelled)',
                             (s < session \/ regstatus = "FINISH")', run'[s] # "none"
                      PROVE  answers'[s] # {}
        BY DEF EndedIsAnswered
      <4>1. s \in freed /\ s # session
        OBVIOUS
      <4>2. s < session /\ run[s] # "none"
        BY <4>1
      <4> QED BY <4>1, <4>2 DEF EndedIsAnswered
    <3> QED BY <3>1, <3>2 DEF Idle
  <2>5. HeardInv'
    BY <1>3 DEF CreateRun, GiveUp, TypeOK, PlaceInv, HeardInv, ReportComplete, Session,
       Part, Info, sharedVars, parseVars, recogVars, reportVars, bindVars, causeVars
  <2>6. BindInv'
    BY <1>3 DEF CreateRun, GiveUp, TypeOK, BindInv, Idle, sharedVars, parseVars,
       recogVars, reportVars, bindVars, causeVars
  <2> QED BY <2>1, <2>2, <2>3, <2>4, <2>5, <2>6
<1>4. CASE CreateCtrl
  <2>1. TypeOK'
    BY <1>4 DEF CreateCtrl, TypeOK, Info, Text, Session, Idle, sharedVars, parseVars,
       recogVars, reportVars, bindVars, causeVars
  <2>2. PlaceInv'
    BY <1>4 DEF CreateCtrl, TypeOK, PlaceInv, Session, Idle, sharedVars, parseVars,
       recogVars, reportVars, bindVars, causeVars
  <2>3. StopInv'
    BY <1>4 DEF CreateCtrl, TypeOK, PlaceInv, StopInv, FreedWhenQuit, Session,
       sharedVars, parseVars, recogVars, reportVars, bindVars, causeVars
  <2>4. ReasonInv' /\ DecidedInv'
    BY <1>4 DEF CreateCtrl, TypeOK, PlaceInv, ReasonInv, DecidedInv, TimeoutIsReal, EndedIsAnswered,
       Session, Idle, sharedVars, parseVars, recogVars, reportVars, bindVars, causeVars
  <2>5. HeardInv'
    BY <1>4 DEF CreateCtrl, TypeOK, PlaceInv, HeardInv, ReportComplete, Session, Part,
       Info, sharedVars, parseVars, recogVars, reportVars, bindVars, causeVars
  <2>6. BindInv'
    BY <1>4 DEF CreateCtrl, TypeOK, BindInv, Idle, sharedVars, parseVars, recogVars,
       reportVars, bindVars, causeVars
  <2> QED BY <2>1, <2>2, <2>3, <2>4, <2>5, <2>6
<1>5. CASE ReturnToLoop
  <2>1. TypeOK'
    BY <1>5 DEF ReturnToLoop, TypeOK, Info, Text, Session, Idle, sharedVars, parseVars,
       recogVars, reportVars, bindVars, causeVars
  <2>2. PlaceInv'
    BY <1>5 DEF ReturnToLoop, TypeOK, PlaceInv, Session, Idle, sharedVars, parseVars,
       recogVars, reportVars, bindVars, causeVars
  <2>3. StopInv'
    BY <1>5 DEF ReturnToLoop, TypeOK, PlaceInv, StopInv, FreedWhenQuit, Session,
       sharedVars, parseVars, recogVars, reportVars, bindVars, causeVars
  <2>4. ReasonInv' /\ DecidedInv'
    BY <1>5 DEF ReturnToLoop, TypeOK, PlaceInv, ReasonInv, DecidedInv, TimeoutIsReal,
       EndedIsAnswered, Session, Idle, sharedVars, parseVars, recogVars, reportVars,
       bindVars, causeVars
  <2>5. HeardInv'
    BY <1>5 DEF ReturnToLoop, TypeOK, PlaceInv, HeardInv, ReportComplete, Session, Part,
       Info, sharedVars, parseVars, recogVars, reportVars, bindVars, causeVars
  <2>6. BindInv'
    BY <1>5 DEF ReturnToLoop, TypeOK, BindInv, Idle, sharedVars, parseVars, recogVars,
       reportVars, bindVars, causeVars
  <2> QED BY <2>1, <2>2, <2>3, <2>4, <2>5, <2>6
<1>6. CASE QuitNetconfig
  <2>1. TypeOK'
    BY <1>6 DEF QuitNetconfig, Signal, TypeOK, Info, Text, Session, Idle, sharedVars,
       parseVars, recogVars, reportVars, bindVars, causeVars
  <2>2. PlaceInv'
    BY <1>6 DEF QuitNetconfig, Signal, TypeOK, PlaceInv, Session, Idle, sharedVars,
       parseVars, recogVars, reportVars, bindVars, causeVars
  <2>3. StopInv'
    BY <1>6 DEF QuitNetconfig, Signal, TypeOK, PlaceInv, StopInv, FreedWhenQuit,
       Session, sharedVars, parseVars, recogVars, reportVars, bindVars, causeVars
  <2>4. ReasonInv' /\ DecidedInv'
    BY <1>6 DEF QuitNetconfig, Signal, TypeOK, PlaceInv, ReasonInv, DecidedInv, TimeoutIsReal,
       EndedIsAnswered, Session, Idle, sharedVars, parseVars, recogVars, reportVars,
       bindVars, causeVars
  <2>5. HeardInv'
    BY <1>6 DEF QuitNetconfig, Signal, TypeOK, PlaceInv, HeardInv, ReportComplete,
       Session, Part, Info, sharedVars, parseVars, recogVars, reportVars, bindVars,
       causeVars
  <2>6. BindInv'
    BY <1>6 DEF QuitNetconfig, Signal, TypeOK, BindInv, Idle, sharedVars, parseVars,
       recogVars, reportVars, bindVars, causeVars
  <2> QED BY <2>1, <2>2, <2>3, <2>4, <2>5, <2>6
<1>7. CASE RequestBinding
  <2>1. TypeOK'
    BY <1>7 DEF RequestBinding, TypeOK, Info, Text, Session, Idle, sharedVars,
       parseVars, recogVars, reportVars, bindVars, causeVars
  <2>2. PlaceInv'
    BY <1>7 DEF RequestBinding, TypeOK, PlaceInv, Session, Idle, sharedVars, parseVars,
       recogVars, reportVars, bindVars, causeVars
  <2>3. StopInv'
    BY <1>7 DEF RequestBinding, TypeOK, PlaceInv, StopInv, FreedWhenQuit, Session,
       sharedVars, parseVars, recogVars, reportVars, bindVars, causeVars
  <2>4. ReasonInv' /\ DecidedInv'
    BY <1>7 DEF RequestBinding, TypeOK, PlaceInv, ReasonInv, DecidedInv, TimeoutIsReal,
       EndedIsAnswered, Session, Idle, sharedVars, parseVars, recogVars, reportVars,
       bindVars, causeVars
  <2>5. HeardInv'
    BY <1>7 DEF RequestBinding, TypeOK, PlaceInv, HeardInv, ReportComplete, Session,
       Part, Info, sharedVars, parseVars, recogVars, reportVars, bindVars, causeVars
  <2>6. BindInv'
    BY <1>7 DEF RequestBinding, TypeOK, BindInv, Idle, sharedVars, parseVars, recogVars,
       reportVars, bindVars, causeVars
  <2> QED BY <2>1, <2>2, <2>3, <2>4, <2>5, <2>6
<1>8. CASE \E reply \in Reply : Transfer(reply)
  <2> PICK reply \in Reply : Transfer(reply)
    BY <1>8
  <2>1. TypeOK'
    BY DEF Transfer, COnWriteData, ParseBindData, Reply, TypeOK, Info, Text, Session,
       Idle, sharedVars, parseVars, recogVars, reportVars, bindVars, causeVars
  <2>2. PlaceInv'
    BY DEF Transfer, COnWriteData, ParseBindData, Reply, TypeOK, PlaceInv, Session,
       Idle, sharedVars, parseVars, recogVars, reportVars, bindVars, causeVars
  <2>3. StopInv'
    BY DEF Transfer, COnWriteData, ParseBindData, Reply, TypeOK, PlaceInv, StopInv,
       FreedWhenQuit, Session, sharedVars, parseVars, recogVars, reportVars, bindVars,
       causeVars
  <2>4. ReasonInv' /\ DecidedInv'
    BY DEF Transfer, COnWriteData, ParseBindData, Reply, TypeOK, PlaceInv, ReasonInv, DecidedInv,
       TimeoutIsReal, EndedIsAnswered, Session, Idle, sharedVars, parseVars, recogVars,
       reportVars, bindVars, causeVars
  <2>5. HeardInv'
    BY DEF Transfer, COnWriteData, ParseBindData, Reply, TypeOK, PlaceInv, HeardInv,
       ReportComplete, Session, Part, Info, sharedVars, parseVars, recogVars,
       reportVars, bindVars, causeVars
  <2>6. BindInv'
    BY DEF Transfer, COnWriteData, ParseBindData, Reply, TypeOK, BindInv, Idle,
       sharedVars, parseVars, recogVars, reportVars, bindVars, causeVars
  <2> QED BY <2>1, <2>2, <2>3, <2>4, <2>5, <2>6
<1>9. CASE CGet
  <2>1. TypeOK'
    BY <1>9 DEF CGet, TypeOK, Info, Text, Session, Idle, sharedVars, parseVars,
       recogVars, reportVars, bindVars, causeVars
  <2>2. PlaceInv'
    BY <1>9 DEF CGet, TypeOK, PlaceInv, Session, Idle, sharedVars, parseVars, recogVars,
       reportVars, bindVars, causeVars
  <2>3. StopInv'
    BY <1>9 DEF CGet, TypeOK, PlaceInv, StopInv, FreedWhenQuit, Session, sharedVars,
       parseVars, recogVars, reportVars, bindVars, causeVars
  <2>4. ReasonInv' /\ DecidedInv'
    BY <1>9 DEF CGet, TypeOK, PlaceInv, ReasonInv, DecidedInv, TimeoutIsReal, EndedIsAnswered,
       Session, Idle, sharedVars, parseVars, recogVars, reportVars, bindVars, causeVars
  <2>5. HeardInv'
    BY <1>9 DEF CGet, TypeOK, PlaceInv, HeardInv, ReportComplete, Session, Part, Info,
       sharedVars, parseVars, recogVars, reportVars, bindVars, causeVars
  <2>6. BindInv'
    BY <1>9 DEF CGet, TypeOK, BindInv, Idle, sharedVars, parseVars, recogVars,
       reportVars, bindVars, causeVars
  <2> QED BY <2>1, <2>2, <2>3, <2>4, <2>5, <2>6
<1>10. CASE ReturnFromBinding
  <2>1. TypeOK'
    BY <1>10 DEF ReturnFromBinding, TypeOK, Info, Text, Session, Idle, sharedVars,
       parseVars, recogVars, reportVars, bindVars, causeVars
  <2>2. PlaceInv'
    BY <1>10 DEF ReturnFromBinding, TypeOK, PlaceInv, Session, Idle, sharedVars,
       parseVars, recogVars, reportVars, bindVars, causeVars
  <2>3. StopInv'
    BY <1>10 DEF ReturnFromBinding, TypeOK, PlaceInv, StopInv, FreedWhenQuit, Session,
       sharedVars, parseVars, recogVars, reportVars, bindVars, causeVars
  <2>4. ReasonInv' /\ DecidedInv'
    BY <1>10 DEF ReturnFromBinding, TypeOK, PlaceInv, ReasonInv, DecidedInv, TimeoutIsReal,
       EndedIsAnswered, Session, Idle, sharedVars, parseVars, recogVars, reportVars,
       bindVars, causeVars
  <2>5. HeardInv'
    BY <1>10 DEF ReturnFromBinding, TypeOK, PlaceInv, HeardInv, ReportComplete, Session,
       Part, Info, sharedVars, parseVars, recogVars, reportVars, bindVars, causeVars
  <2>6. BindInv'
    BY <1>10 DEF ReturnFromBinding, TypeOK, BindInv, Idle, sharedVars, parseVars,
       recogVars, reportVars, bindVars, causeVars
  <2> QED BY <2>1, <2>2, <2>3, <2>4, <2>5, <2>6
<1>11. CASE SigTimer
  <2>1. TypeOK'
    BY <1>11 DEF SigTimer, Signal, TypeOK, Info, Text, Session, Idle, sharedVars,
       parseVars, recogVars, reportVars, bindVars, causeVars
  <2>2. PlaceInv'
    BY <1>11 DEF SigTimer, Signal, TypeOK, PlaceInv, Session, Idle, sharedVars,
       parseVars, recogVars, reportVars, bindVars, causeVars
  <2>3. StopInv'
    BY <1>11 DEF SigTimer, Signal, TypeOK, PlaceInv, StopInv, FreedWhenQuit, Session,
       sharedVars, parseVars, recogVars, reportVars, bindVars, causeVars
  <2>4. ReasonInv' /\ DecidedInv'
    BY <1>11 DEF SigTimer, Signal, TypeOK, PlaceInv, ReasonInv, DecidedInv, TimeoutIsReal,
       EndedIsAnswered, Session, Idle, sharedVars, parseVars, recogVars, reportVars,
       bindVars, causeVars
  <2>5. HeardInv'
    BY <1>11 DEF SigTimer, Signal, TypeOK, PlaceInv, HeardInv, ReportComplete, Session,
       Part, Info, sharedVars, parseVars, recogVars, reportVars, bindVars, causeVars
  <2>6. BindInv'
    BY <1>11 DEF SigTimer, Signal, TypeOK, BindInv, Idle, sharedVars, parseVars,
       recogVars, reportVars, bindVars, causeVars
  <2> QED BY <2>1, <2>2, <2>3, <2>4, <2>5, <2>6
<1>12. CASE CtrlWait
  <2>1. TypeOK'
    BY <1>12 DEF CtrlWait, TypeOK, Info, Text, Session, Idle, sharedVars, parseVars,
       recogVars, reportVars, bindVars, causeVars
  <2>2. PlaceInv'
    BY <1>12 DEF CtrlWait, TypeOK, PlaceInv, Session, Idle, sharedVars, parseVars,
       recogVars, reportVars, bindVars, causeVars
  <2>3. StopInv'
    BY <1>12 DEF CtrlWait, TypeOK, PlaceInv, StopInv, FreedWhenQuit, Session,
       sharedVars, parseVars, recogVars, reportVars, bindVars, causeVars
  <2>4. ReasonInv' /\ DecidedInv'
    BY <1>12 DEF CtrlWait, TypeOK, PlaceInv, ReasonInv, DecidedInv, TimeoutIsReal, EndedIsAnswered,
       Session, Idle, sharedVars, parseVars, recogVars, reportVars, bindVars, causeVars
  <2>5. HeardInv'
    BY <1>12 DEF CtrlWait, TypeOK, PlaceInv, HeardInv, ReportComplete, Session, Part,
       Info, sharedVars, parseVars, recogVars, reportVars, bindVars, causeVars
  <2>6. BindInv'
    BY <1>12 DEF CtrlWait, TypeOK, BindInv, Idle, sharedVars, parseVars, recogVars,
       reportVars, bindVars, causeVars
  <2> QED BY <2>1, <2>2, <2>3, <2>4, <2>5, <2>6
<1>13. CASE StopRecognize
  <2>1. TypeOK'
    BY <1>13 DEF StopRecognize, TypeOK, Info, Text, Session, Idle, sharedVars,
       parseVars, recogVars, reportVars, bindVars, causeVars
  <2>2. PlaceInv'
    BY <1>13 DEF StopRecognize, TypeOK, PlaceInv, Session, Idle, sharedVars, parseVars,
       recogVars, reportVars, bindVars, causeVars
  <2>3. StopInv'
    BY <1>13 DEF StopRecognize, TypeOK, PlaceInv, StopInv, FreedWhenQuit, Session,
       sharedVars, parseVars, recogVars, reportVars, bindVars, causeVars
  <2>4. ReasonInv' /\ DecidedInv'
    BY <1>13 DEF StopRecognize, TypeOK, PlaceInv, ReasonInv, DecidedInv, TimeoutIsReal,
       EndedIsAnswered, Session, Idle, sharedVars, parseVars, recogVars, reportVars,
       bindVars, causeVars
  <2>5. HeardInv'
    BY <1>13 DEF StopRecognize, TypeOK, PlaceInv, HeardInv, ReportComplete, Session,
       Part, Info, sharedVars, parseVars, recogVars, reportVars, bindVars, causeVars
  <2>6. BindInv'
    BY <1>13 DEF StopRecognize, TypeOK, BindInv, Idle, sharedVars, parseVars, recogVars,
       reportVars, bindVars, causeVars
  <2> QED BY <2>1, <2>2, <2>3, <2>4, <2>5, <2>6
<1>14. CASE Destroy
  <2>1. TypeOK'
    BY <1>14 DEF Destroy, Stopped, TypeOK, PlaceInv, Info, Text, Session, Idle,
       sharedVars, parseVars, recogVars, reportVars, bindVars, causeVars
  <2>2. PlaceInv'
    BY <1>14 DEF Destroy, Stopped, TypeOK, PlaceInv, Session, Idle, sharedVars,
       parseVars, recogVars, reportVars, bindVars, causeVars
  <2>3. StopInv'
    BY <1>14 DEF Destroy, Stopped, TypeOK, PlaceInv, StopInv, FreedWhenQuit, Session,
       sharedVars, parseVars, recogVars, reportVars, bindVars, causeVars
  <2>4. ReasonInv' /\ DecidedInv'
    BY <1>14 DEF Destroy, Stopped, TypeOK, PlaceInv, ReasonInv, DecidedInv, TimeoutIsReal,
       EndedIsAnswered, Session, Idle, sharedVars, parseVars, recogVars, reportVars,
       bindVars, causeVars
  <2>5. HeardInv'
    BY <1>14 DEF Destroy, Stopped, TypeOK, PlaceInv, HeardInv, ReportComplete, Session,
       Part, Info, sharedVars, parseVars, recogVars, reportVars, bindVars, causeVars
  <2>6. BindInv'
    BY <1>14 DEF Destroy, Stopped, TypeOK, BindInv, Idle, sharedVars, parseVars,
       recogVars, reportVars, bindVars, causeVars
  <2> QED BY <2>1, <2>2, <2>3, <2>4, <2>5, <2>6
<1>15. CASE TestTimeOut
  <2>1. TypeOK'
    BY <1>15 DEF TestTimeOut, TypeOK, Info, Text, Part, Session, Idle,
       sharedVars, parseVars, recogVars, reportVars, bindVars,
       causeVars
  <2>2. PlaceInv'
    BY <1>15 DEF TestTimeOut, TypeOK, PlaceInv, Session, Idle,
       sharedVars, parseVars, recogVars, reportVars, bindVars,
       causeVars
  <2>3. StopInv'
    BY <1>15 DEF TestTimeOut, TypeOK, PlaceInv, StopInv, FreedWhenQuit, Session,
       sharedVars, parseVars, recogVars, reportVars, bindVars,
       causeVars
  <2>4. ReasonInv' /\ DecidedInv'
    BY <1>15 DEF TestTimeOut, TypeOK, PlaceInv, ReasonInv, DecidedInv, TimeoutIsReal,
       EndedIsAnswered, Session, Idle, sharedVars, parseVars, recogVars, reportVars, bindVars,
       causeVars
  <2>5. HeardInv'
    BY <1>15 DEF TestTimeOut, TypeOK, PlaceInv, HeardInv, ReportComplete, Session,
       Part, Info,
       sharedVars, parseVars, recogVars, reportVars, bindVars,
       causeVars
  <2>6. BindInv'
    BY <1>15 DEF TestTimeOut, TypeOK, BindInv, Idle,
       sharedVars, parseVars, recogVars, reportVars, bindVars,
       causeVars
  <2> QED BY <2>1, <2>2, <2>3, <2>4, <2>5, <2>6
<1>16. CASE TestCancel
  <2>1. TypeOK'
    BY <1>16 DEF TestCancel, TypeOK, Info, Text, Part, Session, Idle,
       sharedVars, parseVars, recogVars, reportVars, bindVars,
       causeVars
  <2>2. PlaceInv'
    BY <1>16 DEF TestCancel, TypeOK, PlaceInv, Session, Idle,
       sharedVars, parseVars, recogVars, reportVars, bindVars,
       causeVars
  <2>3. StopInv'
    BY <1>16 DEF TestCancel, TypeOK, PlaceInv, StopInv, FreedWhenQuit, Session,
       sharedVars, parseVars, recogVars, reportVars, bindVars,
       causeVars
  <2>4. ReasonInv' /\ DecidedInv'
    BY <1>16 DEF TestCancel, TypeOK, PlaceInv, ReasonInv, DecidedInv, TimeoutIsReal,
       EndedIsAnswered, Session, Idle, sharedVars, parseVars, recogVars, reportVars, bindVars,
       causeVars
  <2>5. HeardInv'
    BY <1>16 DEF TestCancel, TypeOK, PlaceInv, HeardInv, ReportComplete, Session,
       Part, Info,
       sharedVars, parseVars, recogVars, reportVars, bindVars,
       causeVars
  <2>6. BindInv'
    BY <1>16 DEF TestCancel, TypeOK, BindInv, Idle,
       sharedVars, parseVars, recogVars, reportVars, bindVars,
       causeVars
  <2> QED BY <2>1, <2>2, <2>3, <2>4, <2>5, <2>6
<1>17. CASE ClearInfo
  <2>1. TypeOK'
    BY <1>17 DEF ClearInfo, NoInfo, TypeOK, Info, Text, Part, Session, Idle,
       sharedVars, parseVars, recogVars, reportVars, bindVars,
       causeVars
  <2>2. PlaceInv'
    BY <1>17 DEF ClearInfo, NoInfo, TypeOK, PlaceInv, Session, Idle,
       sharedVars, parseVars, recogVars, reportVars, bindVars,
       causeVars
  <2>3. StopInv'
    BY <1>17 DEF ClearInfo, NoInfo, TypeOK, PlaceInv, StopInv, FreedWhenQuit, Session,
       sharedVars, parseVars, recogVars, reportVars, bindVars,
       causeVars
  <2>4. ReasonInv' /\ DecidedInv'
    BY <1>17 DEF ClearInfo, NoInfo, TypeOK, PlaceInv, ReasonInv, DecidedInv, TimeoutIsReal,
       EndedIsAnswered, Session, Idle, sharedVars, parseVars, recogVars, reportVars, bindVars,
       causeVars
  <2>5. HeardInv'
    BY <1>17 DEF ClearInfo, NoInfo, TypeOK, PlaceInv, HeardInv, ReportComplete, Session,
       Part, Info,
       sharedVars, parseVars, recogVars, reportVars, bindVars,
       causeVars
  <2>6. BindInv'
    BY <1>17 DEF ClearInfo, NoInfo, TypeOK, BindInv, Idle,
       sharedVars, parseVars, recogVars, reportVars, bindVars,
       causeVars
  <2> QED BY <2>1, <2>2, <2>3, <2>4, <2>5, <2>6
<1>18. CASE SendTimeOut
  <2>1. TypeOK'
    BY <1>18 DEF SendTimeOut, TypeOK, Info, Text, Part, Session, Idle,
       sharedVars, parseVars, recogVars, reportVars, bindVars,
       causeVars
  <2>2. PlaceInv'
    BY <1>18 DEF SendTimeOut, TypeOK, PlaceInv, Session, Idle,
       sharedVars, parseVars, recogVars, reportVars, bindVars,
       causeVars
  <2>3. StopInv'
    BY <1>18 DEF SendTimeOut, TypeOK, PlaceInv, StopInv, FreedWhenQuit, Session,
       sharedVars, parseVars, recogVars, reportVars, bindVars,
       causeVars
  <2>4. ReasonInv' /\ DecidedInv'
    <3> USE <1>18 DEF SendTimeOut, TypeOK, PlaceInv, ReasonInv, DecidedInv, Session,
            recogVars, causeVars
    <3>1. session \in Session /\ regstatus = "RECOGING" /\ session' = session
          /\ ctrlPc' = "finish" /\ UNCHANGED <<regstatus, spurious, freed, run, expired, cancelled>>
      BY DEF sharedVars
    <3>2. answers' = [answers EXCEPT ![session] = @ \cup {"timeout"}]
      OBVIOUS
    <3>3. TimeoutIsReal'
      BY <3>1, <3>2 DEF TimeoutIsReal
    <3>4. EndedIsAnswered'
      <4> SUFFICES ASSUME spurious' = 0, NEW s \in (freed \ cancelled)',
                             (s < session \/ regstatus = "FINISH")', run'[s] # "none"
                      PROVE  answers'[s] # {}
        BY DEF EndedIsAnswered
      <4> QED BY <3>1, <3>2 DEF EndedIsAnswered
    <3> QED BY <3>1, <3>2, <3>3, <3>4 DEF sharedVars
  <2>5. HeardInv'
    BY <1>18 DEF SendTimeOut, TypeOK, PlaceInv, HeardInv, ReportComplete, Session,
       Part, Info,
       sharedVars, parseVars, recogVars, reportVars, bindVars,
       causeVars
  <2>6. BindInv'
    BY <1>18 DEF SendTimeOut, TypeOK, BindInv, Idle,
       sharedVars, parseVars, recogVars, reportVars, bindVars,
       causeVars
  <2> QED BY <2>1, <2>2, <2>3, <2>4, <2>5, <2>6
<1>19. CASE Finish
  <2>1. TypeOK'
    BY <1>19 DEF Finish, TypeOK, Info, Text, Part, Session, Idle,
       sharedVars, parseVars, recogVars, reportVars, bindVars,
       causeVars
  <2>2. PlaceInv'
    BY <1>19 DEF Finish, TypeOK, PlaceInv, Session, Idle,
       sharedVars, parseVars, recogVars, reportVars, bindVars,
       causeVars
  <2>3. StopInv'
    BY <1>19 DEF Finish, TypeOK, PlaceInv, StopInv, FreedWhenQuit, Session,
       sharedVars, parseVars, recogVars, reportVars, bindVars,
       causeVars
  <2>4. ReasonInv' /\ DecidedInv'
    <3> USE <1>19 DEF Finish, TypeOK, PlaceInv, ReasonInv, DecidedInv, Session, recogVars,
            reportVars, causeVars
    <3>1. session \in Session /\ regstatus' = "FINISH" /\ session' = session /\ ctrlPc' = "none"
      OBVIOUS
    <3>2. TimeoutIsReal'
      BY DEF TimeoutIsReal
    <3>3. EndedIsAnswered'
      <4> SUFFICES ASSUME spurious' = 0, NEW s \in (freed \ cancelled)',
                             (s < session \/ regstatus = "FINISH")', run'[s] # "none"
                      PROVE  answers'[s] # {}
        BY DEF EndedIsAnswered
      <4> QED BY <3>1 DEF EndedIsAnswered
    <3> QED BY <3>1, <3>2, <3>3
  <2>5. HeardInv'
    BY <1>19 DEF Finish, TypeOK, PlaceInv, HeardInv, ReportComplete, Session,
       Part, Info,
       sharedVars, parseVars, recogVars, reportVars, bindVars,
       causeVars
  <2>6. BindInv'
    BY <1>19 DEF Finish, TypeOK, BindInv, Idle,
       sharedVars, parseVars, recogVars, reportVars, bindVars,
       causeVars
  <2> QED BY <2>1, <2>2, <2>3, <2>4, <2>5, <2>6
<1>20. CASE StopRecord
  <2>1. TypeOK'
    BY <1>20 DEF StopRecord, TypeOK, Info, Text, Session, Idle, sharedVars, parseVars,
       recogVars, reportVars, bindVars, causeVars
  <2>2. PlaceInv'
    BY <1>20 DEF StopRecord, TypeOK, PlaceInv, Session, Idle, sharedVars, parseVars,
       recogVars, reportVars, bindVars, causeVars
  <2>3. StopInv'
    BY <1>20 DEF StopRecord, TypeOK, PlaceInv, StopInv, FreedWhenQuit, Session,
       sharedVars, parseVars, recogVars, reportVars, bindVars, causeVars
  <2>4. ReasonInv' /\ DecidedInv'
    BY <1>20 DEF StopRecord, TypeOK, PlaceInv, ReasonInv, DecidedInv, TimeoutIsReal,
       EndedIsAnswered, Session, Idle, sharedVars, parseVars, recogVars, reportVars,
       bindVars, causeVars
  <2>5. HeardInv'
    BY <1>20 DEF StopRecord, TypeOK, PlaceInv, HeardInv, ReportComplete, Session, Part,
       Info, sharedVars, parseVars, recogVars, reportVars, bindVars, causeVars
  <2>6. BindInv'
    BY <1>20 DEF StopRecord, TypeOK, BindInv, Idle, sharedVars, parseVars, recogVars,
       reportVars, bindVars, causeVars
  <2> QED BY <2>1, <2>2, <2>3, <2>4, <2>5, <2>6
<1>21. CASE SpuriousWakeup
  <2>1. TypeOK'
    BY <1>21 DEF SpuriousWakeup, TypeOK, Info, Text, Session, Idle, sharedVars,
       parseVars, recogVars, reportVars, bindVars, causeVars
  <2>2. PlaceInv'
    BY <1>21 DEF SpuriousWakeup, TypeOK, PlaceInv, Session, Idle, sharedVars, parseVars,
       recogVars, reportVars, bindVars, causeVars
  <2>3. StopInv'
    BY <1>21 DEF SpuriousWakeup, TypeOK, PlaceInv, StopInv, FreedWhenQuit, Session,
       sharedVars, parseVars, recogVars, reportVars, bindVars, causeVars
  <2>4. ReasonInv' /\ DecidedInv'
    BY <1>21 DEF SpuriousWakeup, TypeOK, PlaceInv, ReasonInv, DecidedInv, TimeoutIsReal,
       EndedIsAnswered, Session, Idle, sharedVars, parseVars, recogVars, reportVars,
       bindVars, causeVars
  <2>5. HeardInv'
    BY <1>21 DEF SpuriousWakeup, TypeOK, PlaceInv, HeardInv, ReportComplete, Session,
       Part, Info, sharedVars, parseVars, recogVars, reportVars, bindVars, causeVars
  <2>6. BindInv'
    BY <1>21 DEF SpuriousWakeup, TypeOK, BindInv, Idle, sharedVars, parseVars,
       recogVars, reportVars, bindVars, causeVars
  <2> QED BY <2>1, <2>2, <2>3, <2>4, <2>5, <2>6
<1>22. CASE \E s \in Session : BeginRun(s)
  <2> PICK s \in Session : BeginRun(s)
    BY <1>22
  <2>1. TypeOK'
    BY DEF BeginRun, TypeOK, Info, Text, Session, Idle, sharedVars, parseVars,
       recogVars, reportVars, bindVars, causeVars
  <2>2. PlaceInv'
    BY DEF BeginRun, TypeOK, PlaceInv, Session, Idle, sharedVars, parseVars, recogVars,
       reportVars, bindVars, causeVars
  <2>3. StopInv'
    BY DEF BeginRun, TypeOK, PlaceInv, StopInv, FreedWhenQuit, Session, sharedVars,
       parseVars, recogVars, reportVars, bindVars, causeVars
  <2>4. ReasonInv' /\ DecidedInv'
    BY DEF BeginRun, TypeOK, PlaceInv, ReasonInv, DecidedInv, TimeoutIsReal, EndedIsAnswered,
       Session, Idle, sharedVars, parseVars, recogVars, reportVars, bindVars, causeVars
  <2>5. HeardInv'
    BY DEF BeginRun, TypeOK, PlaceInv, HeardInv, ReportComplete, Session, Part, Info,
       sharedVars, parseVars, recogVars, reportVars, bindVars, causeVars
  <2>6. BindInv'
    BY DEF BeginRun, TypeOK, BindInv, Idle, sharedVars, parseVars, recogVars,
       reportVars, bindVars, causeVars
  <2> QED BY <2>1, <2>2, <2>3, <2>4, <2>5, <2>6
<1>23. CASE \E s \in Session : EndRun(s)
  <2> PICK s \in Session : EndRun(s)
    BY <1>23
  <2>1. TypeOK'
    BY DEF EndRun, TypeOK, Info, Text, Session, Idle, sharedVars, parseVars, recogVars,
       reportVars, bindVars, causeVars
  <2>2. PlaceInv'
    BY DEF EndRun, TypeOK, PlaceInv, Session, Idle, sharedVars, parseVars, recogVars,
       reportVars, bindVars, causeVars
  <2>3. StopInv'
    BY DEF EndRun, TypeOK, PlaceInv, StopInv, FreedWhenQuit, Session, sharedVars,
       parseVars, recogVars, reportVars, bindVars, causeVars
  <2>4. ReasonInv' /\ DecidedInv'
    BY DEF EndRun, TypeOK, PlaceInv, ReasonInv, DecidedInv, TimeoutIsReal, EndedIsAnswered, Session,
       Idle, sharedVars, parseVars, recogVars, reportVars, bindVars, causeVars
  <2>5. HeardInv'
    BY DEF EndRun, TypeOK, PlaceInv, HeardInv, ReportComplete, Session, Part, Info,
       sharedVars, parseVars, recogVars, reportVars, bindVars, causeVars
  <2>6. BindInv'
    BY DEF EndRun, TypeOK, BindInv, Idle, sharedVars, parseVars, recogVars, reportVars,
       bindVars, causeVars
  <2> QED BY <2>1, <2>2, <2>3, <2>4, <2>5, <2>6
<1>24. CASE \E s \in Session : \E part \in Part : \E text \in Said(part) : Parse(s, part, text)
  <2> PICK s \in Session, part \in Part : \E text \in Said(part) : Parse(s, part, text)
    BY <1>24
  <2> PICK text \in Said(part) : Parse(s, part, text)
    OBVIOUS
  <2>0. s = session /\ regstatus = "RECOGING" /\ session \in Session
    BY DEF Parse, TypeOK, PlaceInv, Session
  <2>1. TypeOK'
    <3>1. part \in Part /\ text \in Text
      BY DEF Said, Text, Part
    <3>2. wifiInfo' \in Info /\ flags' \in SUBSET Part
      BY <3>1 DEF Parse, TypeOK, Info, Part
    <3>3. heard' \in SUBSET Part
      BY <3>1 DEF Parse, TypeOK
    <3>3a. report' \in [session : 0 .. MaxSessions, heard : SUBSET Part, info : Info]
      <4>1. CASE report' = report
        BY <4>1 DEF TypeOK
      <4>2. CASE report' = [session |-> session, heard |-> heard', info |-> wifiInfo']
        BY <3>2, <3>3, <4>2 DEF TypeOK
      <4> QED BY <4>1, <4>2 DEF Parse, reportVars
    <3>4. answers' \in [Session -> SUBSET {"info", "timeout"}]
      BY DEF Parse, TypeOK, reportVars
    <3>5. ctrlPc' \in {ctrlPc, "awake"}
      BY DEF Parse, Signal
    <3>6. regIsTimeOut' \in BOOLEAN /\ success' \in BOOLEAN
      BY Zenon DEF Parse, TypeOK
    <3> QED BY <3>2, <3>3, <3>3a, <3>4, <3>5, <3>6 DEF Parse, TypeOK, recogVars, causeVars
  <2>2. PlaceInv'
    <3>1. UNCHANGED <<mainPc, regstatus, session, freed, recording, run, cancelled>>
      BY DEF Parse, recogVars, causeVars
    <3>2. (ctrlPc' # "none" <=> ctrlPc # "none") /\ (ctrlPc' \in Ended <=> ctrlPc \in Ended)
      BY DEF Parse, Signal
    <3>3. \A x \in Session : x > session => answers'[x] = answers[x]
      BY DEF Parse, TypeOK, Session, reportVars
    <3> QED BY <3>1, <3>2, <3>3 DEF PlaceInv, Session
  <2>3. StopInv'
    BY DEF Parse, Signal, Needs, Complete, Said, Part, TypeOK, PlaceInv, StopInv,
       FreedWhenQuit, Session, sharedVars, parseVars, recogVars, reportVars, bindVars,
       causeVars
  <2>4. ReasonInv' /\ DecidedInv'
    <3> USE <2>0 DEF Parse, TypeOK, PlaceInv, ReasonInv, DecidedInv, Session, recogVars, causeVars
    <3>1. UNCHANGED <<session, regstatus, mainPc, isRegCancel, freed, run, expired, cancelled, spurious>>
      OBVIOUS
    <3>2. \A t \in Session : answers[t] \subseteq answers'[t]
          /\ ("timeout" \in answers'[t] <=> "timeout" \in answers[t])
      BY DEF reportVars
    <3>3. TimeoutIsReal'
      BY <3>1, <3>2 DEF TimeoutIsReal
    <3>4. EndedIsAnswered'
      <4> SUFFICES ASSUME spurious' = 0, NEW t \in (freed \ cancelled)',
                             (t < session \/ regstatus = "FINISH")', run'[t] # "none"
                      PROVE  answers'[t] # {}
        BY DEF EndedIsAnswered
      <4>1. answers[t] # {} /\ t \in Session
        BY <3>1 DEF EndedIsAnswered
      <4> QED BY <4>1, <3>2
    <3>5. \/ ctrlPc' = ctrlPc /\ UNCHANGED <<regIsTimeOut, answers>>
          \/ regIsTimeOut' = FALSE /\ answers'[session] # {}
      BY DEF reportVars
    <3>6. ctrlPc \notin Ended /\ ctrlPc' \notin Ended
      BY DEF Signal
    <3>7. ReasonInv'
      BY <3>1, <3>2, <3>3, <3>4, <3>5, <3>6
    <3>8. DecidedInv'
      BY <3>6
    <3> QED BY <3>7, <3>8
  <2>5. HeardInv'
    <3> USE <2>0 DEF Parse, TypeOK, PlaceInv, HeardInv, Session, recogVars, causeVars, reportVars
    <3>1. part \in Part /\ text \in Text
      BY DEF Said, Text, Part
    <3>2. UNCHANGED <<session, regstatus, leftover>> /\ ctrlPc # "send"
      OBVIOUS
    <3> DEFINE taken == Needs(part) \subseteq flags
               have  == IF taken THEN flags \cup {part} ELSE flags
               info  == IF taken THEN [wifiInfo EXCEPT ![part] = text] ELSE wifiInfo
               said  == IF taken THEN heard \cup {part} ELSE heard
    <3>3. info \in Info /\ have \subseteq Part /\ wifiInfo' = info
          /\ said \subseteq Part /\ heard' = said
      BY <3>1 DEF Info
    <3>4. /\ session \notin leftover => have \ {"name"} \subseteq said
          /\ info["name"] # Empty => "name" \in said
      <4>1. CASE taken
        BY <4>1, <3>1 DEF Info
      <4>2. CASE ~taken
        BY <4>2
      <4> QED BY <4>1, <4>2
    <3>5. CASE Complete(have, info) /\ flags' = {"name"}
               /\ report' = [session |-> session, heard |-> said, info |-> info]
      <4> HIDE DEF info, said, have, Parse, PlaceInv, TypeOK, Session, HeardInv
      <4>1. report'.session = session /\ report'.info = wifiInfo' /\ report'.heard = said
        BY <3>3, <3>5
      <4>2. ReportComplete'
        BY <4>1, <3>2, <3>3, <3>4, <3>5 DEF Complete, ReportComplete, Part
      <4>3. session' \in Nat \ {0}
        BY <2>0, <3>2 DEF Session
      <4>4. flags' \ {"name"} \subseteq heard' /\ "name" \in heard'
        BY <3>3, <3>4, <3>5 DEF Complete
      <4> QED BY <3>2, <4>1, <4>2, <4>3, <4>4 DEF HeardInv
    <3>6. CASE ~Complete(have, info) /\ flags' = have /\ UNCHANGED <<report, answers>>
      <4>1. ReportComplete'
        BY <3>2, <3>6 DEF ReportComplete
      <4>2. ASSUME wifiInfo["user"] = report.info["user"]
            PROVE  info["user"] = report.info["user"] \/ (have = Part /\ info["name"] = Empty)
        <5>1. CASE part = "user" /\ taken
          BY <5>1, <3>6 DEF Needs, Part, Complete
        <5>2. CASE ~taken
          BY <5>2, <4>2
        <5>3. CASE part # "user" /\ taken
          <6>1. info = [wifiInfo EXCEPT ![part] = text]
            BY <5>3, Zenon
          <6>2. info["user"] = wifiInfo["user"]
            BY <6>1, <5>3, <3>1 DEF Info, Part
          <6> QED BY <6>2, <4>2
        <5> QED BY <5>1, <5>2, <5>3
      <4>3. ASSUME flags = Part /\ wifiInfo["name"] = Empty
            PROVE  have = Part /\ info["name"] = Empty
        BY <4>3, <3>1, <3>6 DEF Complete, Part
      <4> QED BY <3>2, <3>3, <3>4, <3>6, <4>1, <4>2, <4>3
    <3> QED BY <3>5, <3>6
  <2>6. BindInv'
    BY DEF Parse, Signal, Needs, Complete, Said, Part, TypeOK, BindInv, Idle,
       sharedVars, parseVars, recogVars, reportVars, bindVars, causeVars
  <2> QED BY <2>1, <2>2, <2>3, <2>4, <2>5, <2>6
<1>25. CASE UNCHANGED vars
  BY <1>25 DEF vars, TypeOK, PlaceInv, StopInv, ReasonInv, DecidedInv, HeardInv, BindInv,
     FreedWhenQuit, TimeoutIsReal, EndedIsAnswered, ReportComplete, sharedVars,
     parseVars, recogVars, reportVars, bindVars, causeVars
<1> QED
  BY <1>1, <1>2, <1>3, <1>4, <1>5, <1>6, <1>7, <1>8, <1>9, <1>10, <1>11, <1>12, <1>13,
     <1>14, <1>15, <1>16, <1>17, <1>18, <1>19, <1>20, <1>21, <1>22, <1>23, <1>24, <1>25
  DEF Next, Main, Ctrl,
     Recogniser

\* Where main() and the control thread are, what the flags and the recogniser
\* of the session then say, holds in every state (VoiceConnectService.c).
THEOREM InvariantHolds == Spec => []Inv
<1>1. Init => Inv
  BY InitInv
<1>2. Inv /\ [Next]_vars => Inv'
  BY StepInv
<1> QED BY <1>1, <1>2, PTL DEF Spec

-----------------------------------------------------------------------------
\* A report in time has a name, and what it says was heard in its own session,
\* the empty password of an open network included, unless that session found
\* the flag of a password or a user id set (Parse, 96-134).
THEOREM ReportCompleteHolds == Spec => []ReportComplete
<1>1. Inv => ReportComplete
  BY DEF Inv, HeardInv
<1> QED BY <1>1, InvariantHolds, PTL

\* A report of a time-out is about a session whose 20 s are over and that
\* nobody had cancelled when the control thread read isRegCancel, whatever the
\* flags kept from earlier sessions.
THEOREM TimeoutIsRealHolds == Spec => []TimeoutIsReal
<1>1. Inv => TimeoutIsReal
  BY DEF Inv, ReasonInv
<1> QED BY <1>1, InvariantHolds, PTL

\* A session that ended without a cancel has sent a report
\* (ctrlRecorderVoiceRecognize).
THEOREM EndedIsAnsweredHolds == Spec => []EndedIsAnswered
<1>1. Inv => EndedIsAnswered
  BY DEF Inv, ReasonInv
<1> QED BY <1>1, InvariantHolds, PTL

\* The recogniser is destroyed after its thread and the recorder, but for a
\* session that was stopped before that thread began or never had one.
THEOREM FreedWhenQuitHolds == Spec => []FreedWhenQuit
<1>1. Inv => FreedWhenQuit
  BY DEF Inv, StopInv
<1> QED BY <1>1, InvariantHolds, PTL

\* A request to bind is answered at most once (RequestBinding, ParseBindData).
THEOREM BindAnsweredOnceHolds == Spec => []BindAnsweredOnce
<1>1. Inv => BindAnsweredOnce
  BY DEF Inv, BindInv, BindAnsweredOnce
<1> QED BY <1>1, InvariantHolds, PTL

\* Only RequestBinding takes the master's packet.
LEMMA OnlyBindingTakes == Inv /\ [Next]_vars /\ success = TRUE /\ success' = FALSE => RequestBinding
BY Zenon
DEF Next, Main, Ctrl, Recogniser, vars, ReadyNetconfig, StartRecord, CreateRun, CreateCtrl,
    ReturnToLoop, QuitNetconfig, Transfer, CGet, ReturnFromBinding, SigTimer, CtrlWait,
    StopRecognize, Destroy, TestTimeOut, TestCancel, ClearInfo, SendTimeOut, Finish, StopRecord, SpuriousWakeup, BeginRun, EndRun, Parse

\* What RequestBinding binds is what was reported, under the conditions that
\* BindsReported names.
THEOREM BindsReportedHolds == Spec => BindsReported
<1>1. Inv /\ [Next]_vars =>
        [success /\ ~success' /\ report.session = session /\ answers[session] = {"info"}
           /\ wifiInfo["name"] # Empty
           => bound' = report.info["user"]]_vars
  <2> SUFFICES ASSUME Inv, [Next]_vars, success, ~success',
                      report.session = session, answers[session] = {"info"},
                      wifiInfo["name"] # Empty
               PROVE  bound' = report.info["user"]
    BY Zenon
  <2>0. success = TRUE /\ success' = FALSE
    <3>1. Inv'
      BY StepInv
    <3> QED BY <3>1, Zenon DEF Inv, TypeOK
  <2>1. RequestBinding
    BY <2>0, OnlyBindingTakes
  <2>2. wifiInfo["user"] = report.info["user"]
    BY <2>0 DEF Inv, HeardInv
  <2> QED BY <2>1, <2>2 DEF RequestBinding
<1> QED BY <1>1, InvariantHolds, PTL DEF Spec, BindsReported
=============================================================================
