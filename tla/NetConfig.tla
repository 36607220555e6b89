------------------------------ MODULE NetConfig ------------------------------
(***************************************************************************)
(* The network configuration process (PROC_VOICE, VoiceConnectService.c).  *)
(* A phone plays the name and the password of a WiFi network and a user id *)
(* as sound.  A session records until all three are heard, until a timer   *)
(* of 20 s expires, or until the user cancels; a control thread then stops *)
(* the recorder and the recogniser and main() may start another session.   *)
(*                                                                         *)
(* The recogniser is its thread runRecorderVoiceRecognize and whether the  *)
(* null buffer that ends it is queued; the recorder is whether it runs.    *)
(* Their insides are the modules Recognise and Recorder.                   *)
(***************************************************************************)
EXTENDS Integers

CONSTANTS
    Name, Password, User,  \* what can be heard after the digits 1, 2 and 3
    Empty,        \* the empty string
    MaxSessions,  \* bound: sessions main() starts
    MaxSpurious   \* bound: spurious wake-ups of the control thread

ASSUME BoundsAssumption == MaxSessions \in Nat /\ MaxSpurious \in Nat

VARIABLES
    mainPc,       \* main(), inside RecorderVoiceRecog or RequestBinding
    ctrlPc,       \* ctrlRecorderVoiceRecognize
    regstatus, regIsTimeOut, isRegCancel,
    flags,        \* which of flags_WifiName, flags_WiFiPassWd, flags_sUserID are 1
    wifiInfo,
    timer,        \* the interval timer is armed
    session,      \* sessions begun; the last one's are recorder and recognizer
    recording,    \* sessions whose recorder runs
    run,          \* the thread runRecorderVoiceRecognize of a session
    null,         \* sessions whose recogniser has the null buffer queued
    freed,        \* sessions whose recogniser was destroyed
    success,      \* the master's PKT_NETCONFIG_SUCCESS is on its way
    \* History, read by no action of the program:
    heard,        \* parts the session took from a string
    report,       \* the last PKT_SYSTEM_RECEIVE_WIFI_INFO with sIsTimeOut '0'
    answers,      \* what a session has sent
    bound,        \* the user id of the last request to bind
    told,         \* how often the request in progress has told the master its end
    expired,      \* sessions whose timer fired
    cancelled,    \* sessions main() was told to quit before it was decided what
                  \* they report
    leftover,     \* sessions that began with the flag of a password or a user set
    spurious,     \* spurious wake-ups
    late,         \* sessions stopped before their recogniser's thread began
    unstarted     \* sessions whose pthread_create of that thread failed

sharedVars  == <<regstatus, regIsTimeOut, isRegCancel>>
parseVars   == <<flags, wifiInfo>>
recogVars   == <<recording, run, null, freed>>
reportVars  == <<heard, report, answers>>
bindVars    == <<bound, told>>
causeVars   == <<expired, cancelled, leftover, spurious, late, unstarted>>
vars == <<mainPc, ctrlPc, sharedVars, parseVars, timer, session, recogVars,
          success, reportVars, bindVars, causeVars>>

Session == 1 .. MaxSessions
Part    == {"name", "pwd", "user"}
Text    == Name \cup Password \cup User \cup {Empty}
Info    == [Part -> Text]
NoInfo  == [p \in Part |-> Empty]
NoReport == [session |-> 0, heard |-> {}, info |-> NoInfo]

\* The report of a time-out is decided, whatever main() is told from now on.
Decided == {"clear", "send", "finish"}

\* vr_isRecognizerStopped: stopped is TRUE before the thread begins as well.
Stopped(s) == run[s] # "running"

Init ==
    /\ mainPc = "loop" /\ ctrlPc = "none"
    /\ regstatus = "NOTHING" /\ regIsTimeOut = FALSE /\ isRegCancel = FALSE
    /\ flags = {} /\ wifiInfo = NoInfo
    /\ timer = FALSE /\ session = 0
    /\ recording = {} /\ run = [s \in Session |-> "none"]
    /\ null = {} /\ freed = {}
    /\ success = FALSE
    /\ heard = {} /\ report = NoReport /\ answers = [s \in Session |-> {}]
    /\ bound = Empty /\ told = 0
    /\ expired = {} /\ cancelled = {} /\ leftover = {} /\ spurious = 0
    /\ late = {} /\ unstarted = {}

\* pthread_cond_signal(&reg_cond): lost unless the control thread waits.
Signal == ctrlPc' = IF ctrlPc = "waiting" THEN "awake" ELSE ctrlPc

-----------------------------------------------------------------------------
(* main().                                                                 *)

\* PKT_SYSTEM_READY_NETCONFIG, and RecorderVoiceRecog up to StartTimer.
ReadyNetconfig ==
    /\ mainPc = "loop" /\ regstatus \in {"NOTHING", "FINISH"}
    /\ session < MaxSessions
    /\ session' = session + 1
    /\ regstatus' = "RECOGING"
    /\ wifiInfo' = NoInfo
    /\ timer' = TRUE
    /\ mainPc' = "recorder"
    /\ heard' = {}
    /\ leftover' = IF flags \subseteq {"name"} THEN leftover ELSE leftover \cup {session'}
    /\ UNCHANGED <<ctrlPc, regIsTimeOut, isRegCancel, flags, recogVars, success, report,
                   answers, bindVars, expired, cancelled, spurious, late, unstarted>>

\* err: nothing waits for the timer, and a recorder that was started runs on.
GiveUp ==
    /\ regstatus' = "FINISH"
    /\ null' = null \cup {session} /\ freed' = freed \cup {session}
    /\ mainPc' = "return"

\* initRecorder and startRecord.
StartRecord ==
    /\ mainPc = "recorder"
    /\ \/ /\ recording' = recording \cup {session} /\ mainPc' = "run"
          /\ UNCHANGED <<regstatus, null, freed>>
       \/ GiveUp /\ UNCHANGED recording
    /\ UNCHANGED <<ctrlPc, regIsTimeOut, isRegCancel, parseVars, timer, session, run, success,
                   reportVars, bindVars, causeVars>>

CreateRun ==
    /\ mainPc = "run"
    /\ \/ /\ run' = [run EXCEPT ![session] = "created"] /\ mainPc' = "ctrl"
          /\ UNCHANGED <<regstatus, null, freed, unstarted>>
       \/ GiveUp /\ unstarted' = unstarted \cup {session} /\ UNCHANGED run
    /\ UNCHANGED <<ctrlPc, regIsTimeOut, isRegCancel, parseVars, timer, session, recording,
                   success, reportVars, bindVars, expired, cancelled, leftover, spurious, late>>

\* The result of the second pthread_create is not looked at.
CreateCtrl ==
    /\ mainPc = "ctrl"
    /\ ctrlPc' \in {"start", "none"}
    /\ mainPc' = "return"
    /\ UNCHANGED <<sharedVars, parseVars, timer, session, recogVars, success, reportVars,
                   bindVars, causeVars>>

\* Faulty variant of ReturnToLoop: the cancel of an earlier session is kept.
ReturnToLoopCancelled ==
    /\ mainPc = "return"
    /\ mainPc' = "loop"
    /\ UNCHANGED <<ctrlPc, sharedVars, parseVars, timer, session, recogVars, success,
                   reportVars, bindVars, causeVars>>

ReturnToLoop ==
    /\ mainPc = "return"
    /\ isRegCancel' = FALSE
    /\ mainPc' = "loop"
    /\ UNCHANGED <<ctrlPc, regstatus, regIsTimeOut, parseVars, timer, session, recogVars,
                   success, reportVars, bindVars, causeVars>>

\* PKT_SYSTEM_QUIT_NETCONFIG.
QuitNetconfig ==
    /\ mainPc = "loop"
    /\ isRegCancel' = TRUE
    /\ Signal
    /\ cancelled' = IF regstatus = "RECOGING" /\ ctrlPc \notin Decided
                    THEN cancelled \cup {session} ELSE cancelled
    /\ UNCHANGED <<mainPc, regstatus, regIsTimeOut, parseVars, timer, session, recogVars,
                   success, reportVars, bindVars, expired, leftover, spurious, late, unstarted>>

\* PKT_NETCONFIG_SUCCESS, and RequestBinding up to CGet.
RequestBinding ==
    /\ mainPc = "loop" /\ success
    /\ success' = FALSE
    /\ bound' = wifiInfo["user"]
    /\ mainPc' = "transfer"
    /\ UNCHANGED <<ctrlPc, sharedVars, parseVars, timer, session, recogVars, reportVars,
                   told, causeVars>>

\* What a piece of the server's reply is: all of it, with the status 1 and a
\* pushKey or with the status 0, or anything else.
Reply == {"bound", "refused", "other"}

\* ParseBindData: PKT_ROBOT_BIND_OK, PKT_ROBOT_BIND_FAILED or nothing.
ParseBindData(reply) == told' = told + (IF reply = "other" THEN 0 ELSE 1)

\* Faulty variant of COnWriteData: the piece is taken.
COnWriteDataAll == 1

\* How much of a piece, which counts as 1 here, COnWriteData says it took.
COnWriteData == 0

\* curl hands over a piece; when not all of it is taken that is an error, not 28.
Transfer(reply) ==
    /\ mainPc = "transfer"
    /\ ParseBindData(reply)
    /\ mainPc' = IF COnWriteData < 1 THEN "transferred" ELSE "transfer"
    /\ UNCHANGED <<ctrlPc, sharedVars, parseVars, timer, session, recogVars, success,
                   reportVars, bound, causeVars>>

\* CGet returns: after four seconds, which is the error 28 and sends
\* PKT_ROBOT_BIND_FAILED, at the end of the reply or with another error.
CGet ==
    /\ mainPc = "transfer"
    /\ told' \in {told, told + 1}
    /\ mainPc' = "transferred"
    /\ UNCHANGED <<ctrlPc, sharedVars, parseVars, timer, session, recogVars, success,
                   reportVars, bound, causeVars>>

ReturnFromBinding ==
    /\ mainPc = "transferred"
    /\ told' = 0
    /\ mainPc' = "loop"
    /\ UNCHANGED <<ctrlPc, sharedVars, parseVars, timer, session, recogVars, success,
                   reportVars, bound, causeVars>>

\* sig_timer.  A session takes less than 20 s to start.
SigTimer ==
    /\ timer /\ mainPc \in {"loop", "transfer", "transferred"} /\ ctrlPc # "start"
    /\ timer' = FALSE
    /\ regIsTimeOut' = TRUE
    /\ Signal
    /\ expired' = expired \cup {session}
    /\ UNCHANGED <<mainPc, regstatus, isRegCancel, parseVars, session, recogVars, success,
                   reportVars, bindVars, cancelled, leftover, spurious, late, unstarted>>

-----------------------------------------------------------------------------
(* The recogniser's thread, and Parse, which its workers call.             *)

\* vrr_run: b_reset drops what was queued before it.
BeginRun(s) ==
    /\ run[s] = "created"
    /\ run' = [run EXCEPT ![s] = "running"]
    /\ null' = null \ {s}
    /\ UNCHANGED <<mainPc, ctrlPc, sharedVars, parseVars, timer, session, recording, freed,
                   success, reportVars, bindVars, causeVars>>

EndRun(s) ==
    /\ run[s] = "running" /\ s \in null
    /\ run' = [run EXCEPT ![s] = "done"]
    /\ UNCHANGED <<mainPc, ctrlPc, sharedVars, parseVars, timer, session, recording, null,
                   freed, success, reportVars, bindVars, causeVars>>

\* Faulty variant of Needs: the user id is taken whenever it is heard.
NeedsName(part) == IF part = "name" THEN {} ELSE {"name"}

\* The parts whose flags have to be 1 before a string is taken: 2 is a
\* password and needs the name's, 3 a user id and needs the others'.
Needs(part) ==
    CASE part = "name" -> {}
      [] part = "pwd"  -> {"name"}
      [] part = "user" -> {"name", "pwd"}

\* Faulty variant of Complete: the flag of the name is trusted.
CompleteFlags(have, info) == have = Part

\* All three are there, and strlen(sWifiName) is not 0.
Complete(have, info) == have = Part /\ info["name"] # Empty

\* The part of the string that follows the digit, which may be nothing: an open
\* network has no password.
Said(part) ==
    {Empty} \cup CASE part = "name" -> Name
                   [] part = "pwd"  -> Password
                   [] part = "user" -> User

\* A thread that begins on a destroyed recogniser finds no sound in it.
\* Until the callback returns the recogniser does not stop and ctrlRecorderVoiceRecognize
\* comes to no other access of what is written here, so the callback is one step.
Parse(s, part, text) ==
    LET taken == Needs(part) \subseteq flags
        have  == IF taken THEN flags \cup {part} ELSE flags
        info  == IF taken THEN [wifiInfo EXCEPT ![part] = text] ELSE wifiInfo
    IN  /\ run[s] = "running" /\ s \notin freed
        /\ wifiInfo' = info
        /\ heard' = IF taken THEN heard \cup {part} ELSE heard
        /\ \/ /\ Complete(have, info)
              /\ flags' = {"name"}
              /\ regIsTimeOut' = FALSE
              /\ success' = TRUE
              /\ report' = [session |-> session, heard |-> heard', info |-> info]
              /\ answers' = [answers EXCEPT ![session] = @ \cup {"info"}]
              /\ Signal
           \/ /\ ~Complete(have, info)
              /\ flags' = have
              /\ UNCHANGED <<regIsTimeOut, success, report, answers, ctrlPc>>
        /\ UNCHANGED <<mainPc, regstatus, isRegCancel, timer, session, recogVars, bindVars,
                       causeVars>>

-----------------------------------------------------------------------------
(* ctrlRecorderVoiceRecognize.                                             *)

CtrlWait ==
    /\ ctrlPc = "start"
    /\ ctrlPc' = "waiting"
    /\ UNCHANGED <<mainPc, sharedVars, parseVars, timer, session, recogVars, success,
                   reportVars, bindVars, causeVars>>

SpuriousWakeup ==
    /\ ctrlPc = "waiting" /\ spurious < MaxSpurious
    /\ ctrlPc' = "awake"
    /\ spurious' = spurious + 1
    /\ UNCHANGED <<mainPc, sharedVars, parseVars, timer, session, recogVars, success,
                   reportVars, bindVars, expired, cancelled, leftover, late, unstarted>>

\* stopRecord returns.  That it may not is shown in Capture (StopReturns).
StopRecord ==
    /\ ctrlPc = "awake"
    /\ recording' = recording \ {session}
    /\ ctrlPc' = "silent"
    /\ UNCHANGED <<mainPc, sharedVars, parseVars, timer, session, run, null, freed, success,
                   reportVars, bindVars, causeVars>>

\* Faulty variant of StopRecognize: the writer is flushed, and no null buffer is queued.
StopRecognizeFlush ==
    /\ ctrlPc = "silent"
    /\ ctrlPc' = "quitting"
    /\ UNCHANGED <<mainPc, sharedVars, parseVars, timer, session, recogVars,
                   success, reportVars, bindVars, causeVars>>

\* vr_stopRecognize.
StopRecognize ==
    /\ ctrlPc = "silent"
    /\ null' = null \cup {session}
    /\ late' = IF run[session] = "created" THEN late \cup {session} ELSE late
    /\ ctrlPc' = "quitting"
    /\ UNCHANGED <<mainPc, sharedVars, parseVars, timer, session, recording, run, freed,
                   success, reportVars, bindVars, expired, cancelled, leftover, spurious, unstarted>>

\* Faulty variant of Destroy: the recogniser was told to stop, which is enough.
DestroyAtOnce ==
    /\ ctrlPc = "quitting"
    /\ freed' = freed \cup {session}
    /\ ctrlPc' = "report"
    /\ UNCHANGED <<mainPc, sharedVars, parseVars, timer, session, recording, run, null,
                   success, reportVars, bindVars, causeVars>>

\* The loop over vr_isRecognizerStopped, and vr_destroyVoiceRecognizer.
Destroy ==
    /\ ctrlPc = "quitting" /\ Stopped(session)
    /\ freed' = freed \cup {session}
    /\ ctrlPc' = "report"
    /\ UNCHANGED <<mainPc, sharedVars, parseVars, timer, session, recording, run, null,
                   success, reportVars, bindVars, causeVars>>

\* regIsTimeOut, read before isRegCancel.
TestTimeOut ==
    /\ ctrlPc = "report"
    /\ ctrlPc' = IF regIsTimeOut THEN "cancel" ELSE "finish"
    /\ UNCHANGED <<mainPc, sharedVars, parseVars, timer, session, recogVars, success,
                   reportVars, bindVars, causeVars>>

\* Faulty variant of TestCancel: a cancelled session reports as well.
TestNothing ==
    /\ ctrlPc = "cancel"
    /\ ctrlPc' = "clear"
    /\ UNCHANGED <<mainPc, sharedVars, parseVars, timer, session, recogVars, success,
                   reportVars, bindVars, causeVars>>

TestCancel ==
    /\ ctrlPc = "cancel"
    /\ ctrlPc' = IF isRegCancel THEN "finish" ELSE "clear"
    /\ UNCHANGED <<mainPc, sharedVars, parseVars, timer, session, recogVars, success,
                   reportVars, bindVars, causeVars>>

ClearInfo ==
    /\ ctrlPc = "clear"
    /\ wifiInfo' = NoInfo
    /\ ctrlPc' = "send"
    /\ UNCHANGED <<mainPc, sharedVars, flags, timer, session, recogVars, success,
                   reportVars, bindVars, causeVars>>

\* AAWANTSendPacket of the empty report of a time-out, which blocks until the
\* master's socket takes it.
SendTimeOut ==
    /\ ctrlPc = "send"
    /\ answers' = [answers EXCEPT ![session] = @ \cup {"timeout"}]
    /\ ctrlPc' = "finish"
    /\ UNCHANGED <<mainPc, sharedVars, parseVars, timer, session, recogVars, success,
                   heard, report, bindVars, causeVars>>

Finish ==
    /\ ctrlPc = "finish"
    /\ regstatus' = "FINISH"
    /\ ctrlPc' = "none"
    /\ UNCHANGED <<mainPc, regIsTimeOut, isRegCancel, parseVars, timer, session, recogVars,
                   success, reportVars, bindVars, causeVars>>

Main ==
    \/ ReadyNetconfig \/ StartRecord \/ CreateRun \/ CreateCtrl \/ ReturnToLoop
    \/ QuitNetconfig
    \/ RequestBinding \/ (\E reply \in Reply : Transfer(reply)) \/ CGet
    \/ ReturnFromBinding

Ctrl ==
    \/ CtrlWait \/ StopRecognize \/ Destroy
    \/ TestTimeOut \/ TestCancel \/ ClearInfo \/ SendTimeOut \/ Finish

Recogniser(s) ==
    \/ BeginRun(s) \/ EndRun(s)
    \/ \E part \in Part : \E text \in Said(part) : Parse(s, part, text)

Next ==
    \/ Main \/ SigTimer
    \/ Ctrl \/ StopRecord \/ SpuriousWakeup
    \/ \E s \in Session : Recogniser(s)

Spec == Init /\ [][Next]_vars

\* Threads run, a recogniser with a null buffer queued gets to it, the master
\* takes a packet, and the timer fires.  Nothing makes stopRecord return, a string be heard or a
\* packet come.
FairSpec ==
    /\ Spec
    /\ WF_vars(StartRecord \/ CreateRun \/ CreateCtrl \/ ReturnToLoop)
    /\ WF_vars(Ctrl) /\ WF_vars(SigTimer)
    /\ \A s \in Session : WF_vars(BeginRun(s)) /\ WF_vars(EndRun(s))

-----------------------------------------------------------------------------
(* Properties.                                                             *)

\* A report that says it is in time has a name, and all three parts, of which
\* the password and the user id may be empty strings, were heard in its own
\* session, although the flag of the name is never cleared.  It may have one
\* from before only in a session that found the flag of another part set by a
\* session that had not come to its end (Parse, 120-134).
ReportComplete ==
    report.session # 0 =>
        /\ report.info["name"] # Empty /\ "name" \in report.heard
        /\ report.session \notin leftover => report.heard = Part

\* The report of a time-out means that this session's 20 s are over and that
\* nobody had cancelled it when isRegCancel was read: what regIsTimeOut and
\* isRegCancel keep from earlier sessions shows only after a spurious wake-up
\* (562 against 127, 750, 756).  A cancel that main() takes after that, while
\* regstatus still says RECOGING, comes too late: the report goes out.
TimeoutIsReal ==
    spurious = 0 =>
        \A s \in Session : "timeout" \in answers[s] => s \in expired \ cancelled

\* A session that the control thread ends and nobody cancelled has sent the
\* master a report, of one kind or the other.
EndedIsAnswered ==
    spurious = 0 =>
        \A s \in freed \ cancelled :
            (s < session \/ regstatus = "FINISH") /\ run[s] # "none" => answers[s] # {}

\* vr_destroyVoiceRecognizer comes after the recogniser's thread is through,
\* unless the session was stopped before that thread began, and no recorder
\* goes on writing into it, unless the thread could not be created.
FreedWhenQuit ==
    /\ \A s \in freed : run[s] \in {"none", "done"} \/ s \in late
    /\ freed \cap recording \subseteq unstarted

\* The user who is bound is the one of the last report, as long as no other
\* session has cleared wifiInfo, no time-out was reported after it, and no
\* empty name keeps Parse from reporting what it has overwritten.
BindsReported ==
    [][success /\ ~success' /\ report.session = session /\ answers[session] = {"info"}
         /\ wifiInfo["name"] # Empty
         => bound' = report.info["user"]]_vars

\* A request to bind tells the master one thing at most.  COnWriteData takes
\* nothing, so curl gives up after the first piece, and a reply that comes in
\* pieces tells it nothing; a callback that took them would let a time-out
\* follow an answer (COnWriteData 216, RequestBinding 448).
BindAnsweredOnce == told <= 1

\* Each session whose control thread exists comes to its end, whether a
\* string, the timer or a cancel wakes that thread first or finds it not yet
\* waiting, unless stopRecord does not return or the recogniser was told to
\* stop before it began.
SessionEnds ==
    \/ <>[](ctrlPc = "awake")
    \/ ctrlPc # "none" ~> ctrlPc = "none" \/ session \in late
=============================================================================
