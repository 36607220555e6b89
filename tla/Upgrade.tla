------------------------------- MODULE Upgrade -------------------------------
(***************************************************************************)
(* The upgrade process (PROC_UPGRADE): the packet loop of main(), the      *)
(* download threads it starts, and the report file update.conf that        *)
(* survives a restart.                                                     *)
(*                                                                         *)
(* main() and the download threads share, without a lock, the global       *)
(* dl_param (its url and its save_path), the stage variable upgStage and   *)
(* the report newUpgReport.  One action below is one run of statements     *)
(* between two accesses to that shared state.  What happens inside one     *)
(* download is the module Download; here it returns 0 or -1, and nothing is *)
(* said of the bytes it left in the file: 0 is also returned for an empty   *)
(* file, an error page or misplaced pieces.                                 *)
(***************************************************************************)
EXTENDS Integers, FiniteSets

CONSTANTS
    Url,         \* the package addresses a PKT_VERSION_UPDATE can carry
    Thread,      \* identities for the download threads of one process life
    MaxUpdates,  \* bound: PKT_VERSION_UPDATE packets over the whole run
    MaxLives     \* bound: how many times the process is started

ASSUME BoundsAssumption == MaxUpdates \in Nat /\ MaxLives \in Nat

VARIABLES
    mainPc,    \* where main() stands
    stage,     \* upgStage
    pkt,       \* updateUrl of the packet main() is handling
    dlUrl,     \* dl_param.url
    dlPath,    \* dl_param.save_path
    status,    \* aa_status
    report,    \* newUpgReport: the update it names and its type
    pc,        \* where each download thread stands
    copyUrl,   \* url in the DOWNLOAD_PARAM a thread got by value
    toZip,     \* the thread's own save_path is /tmp/update.zip
    rs,        \* the local rs of Do_Download2: what upgrade_app returned
    zip,       \* /tmp/update.zip
    conf,      \* /data/data/etc/update.conf
    \* History, read by no action of the program:
    accepted,  \* url of the packet that started each thread
    flashed,   \* what upgrade_app was given by each thread
    told,      \* packets the threads sent to the master
    stomped,   \* a thread wrote END again while another had not written it
    updates,   \* PKT_VERSION_UPDATE packets so far
    lives,     \* process starts so far
    writes,    \* how many times update.conf was written whole
    posted,    \* reports sent to the server, by the write they came from
    reposted,  \* reports sent a second time
    unclear    \* writes whose FirstBoot could not be set back to 0

mainVars   == <<mainPc, stage, pkt>>
paramVars  == <<dlUrl, dlPath, status>>
threadVars == <<pc, copyUrl, toZip, rs>>
diskVars   == <<zip, conf>>
traceVars  == <<accepted, flashed, told, stomped>>
countVars  == <<updates, lives>>
bootVars   == <<posted, reposted, unclear>>
vars == <<mainVars, paramVars, report, threadVars, diskVars, traceVars,
          countVars, writes, bootVars>>

-----------------------------------------------------------------------------
(* Values.                                                                 *)

\* A string overwritten by a shorter or longer one without its terminator.
Garbled == "garbled"
NoUrl   == "none"
UrlText == Url \cup {Garbled, NoUrl}

MainPc == {"down", "check", "clear", "rewrite", "post",
           "loop", "test", "create", "mark"}
Stage  == {"EARLY", "ING", "END"}

\* save_path: memset to "", "/tmp/", "/tmp/update.zip", or anything longer.
Path   == {"", "/tmp/", "/tmp/update.zip", "other"}
Status == {"INIT", "DOWNLOAD_DOING", "DOWNLOAD_FAIL", "DOWNLOAD_SUCESS",
           "UPGRADE_DOING", "UPGRADE_FAIL", "UPGRADE_SUCESS"}

\* rs is the wait status of system(): -1 when it or remove() failed, 0 when
\* upgrade_app exited with 0, 256 when it exited with 1.
FlashResult == {-1, 0, 256}
ReportType  == FlashResult \cup {3}

\* A thread is Running until it first writes END; a thread that flashed writes
\* it twice, before and after it sends PKT_SYSTEM_SHUTDOWN.
Running == {"start", "init", "transfer", "failed", "end",
            "name", "flash", "record", "trunc", "write", "endOk"}
Pc      == {"none", "done", "shutdown", "endAgain"} \cup Running

\* Who opened update.zip, for which address, and whether that thread's transfer
\* into it has returned 0.
Zip    == [owner : Thread \cup {"nobody"}, url : UrlText, ended : BOOLEAN]
NoZip  == [owner |-> "nobody", url |-> NoUrl, ended |-> FALSE]

Conf   == [state : {"absent", "torn", "whole"}, first : {0, 1},
           url : UrlText, type : ReportType, id : Nat]
NoConf == [state |-> "absent", first |-> 0, url |-> NoUrl, type |-> 0, id |-> 0]

\* What upgrade_app finds: the package in update.zip, or no package at all.
Flashed    == [from : Path, zip : Zip]
NotFlashed == [from |-> "", zip |-> NoZip]

\* strcat(save_path, "update.zip").
WithName(path) == IF path = "/tmp/" THEN "/tmp/update.zip" ELSE "other"

-----------------------------------------------------------------------------
(* Start and restart.                                                      *)

Init ==
    /\ mainPc = "down" /\ stage = "EARLY" /\ pkt = NoUrl
    /\ dlUrl = NoUrl /\ dlPath = "" /\ status = "INIT"
    /\ report = [url |-> NoUrl, type |-> 0]
    /\ pc = [t \in Thread |-> "none"]
    /\ copyUrl = [t \in Thread |-> NoUrl]
    /\ toZip = [t \in Thread |-> FALSE]
    /\ rs = [t \in Thread |-> 0]
    /\ zip = NoZip /\ conf = NoConf
    /\ accepted = [t \in Thread |-> NoUrl]
    /\ flashed = [t \in Thread |-> NotFlashed]
    /\ told = {} /\ stomped = FALSE
    /\ updates = 0 /\ lives = 0 /\ writes = 0
    /\ posted = {} /\ reposted = {} /\ unclear = {}

\* Process start: the globals are zero again; /tmp may or may not be.
Boot ==
    /\ mainPc = "down" /\ lives < MaxLives
    /\ lives' = lives + 1
    /\ mainPc' = "check" /\ stage' = "EARLY" /\ pkt' = NoUrl
    /\ dlUrl' = NoUrl /\ dlPath' = "" /\ status' = "INIT"
    /\ report' = [url |-> NoUrl, type |-> 0]
    /\ zip' \in {zip, NoZip}
    /\ UNCHANGED <<threadVars, conf, traceVars, updates, writes, bootVars>>

\* Power loss, a kill, or the master closing the socket: main() returns and
\* every thread dies where it stands.
Die ==
    /\ mainPc # "down"
    /\ mainPc' = "down"
    /\ pc' = [t \in Thread |-> "none"]
    /\ copyUrl' = [t \in Thread |-> NoUrl]
    /\ toZip' = [t \in Thread |-> FALSE]
    /\ rs' = [t \in Thread |-> 0]
    /\ accepted' = [t \in Thread |-> NoUrl]
    /\ flashed' = [t \in Thread |-> NotFlashed]
    /\ told' = {} /\ stomped' = FALSE
    /\ UNCHANGED <<stage, pkt, paramVars, report, diskVars,
                   countVars, writes, bootVars>>

\* CheckUpgradeResult: no file, no FirstBoot entry or FirstBoot=0 is "no
\* upgrade", and main() goes on to its loop in stage EARLY.
CheckUpgradeResult ==
    /\ mainPc = "check"
    /\ mainPc' = IF conf.state = "whole" /\ conf.first = 1
                 THEN "clear" ELSE "loop"
    /\ UNCHANGED <<stage, pkt, paramVars, report, threadVars, diskVars,
                   traceVars, countVars, writes, bootVars>>

\* AIcom_WriteProfileInt(FirstBoot, 0) reads the file, truncates it and
\* writes it again; CheckUpgradeResult ignores a failure of any of the three.
TruncateConf ==
    /\ mainPc = "clear"
    /\ \/ conf' = [conf EXCEPT !.state = "torn"] /\ mainPc' = "rewrite"
          /\ UNCHANGED unclear
       \/ unclear' = unclear \cup {conf.id} /\ mainPc' = "post"
          /\ UNCHANGED conf
    /\ UNCHANGED <<stage, pkt, paramVars, report, threadVars, zip,
                   traceVars, countVars, writes, posted, reposted>>

\* Faulty variant of RewriteConf: the entry is written back as it was read.
RewriteConfUnchanged ==
    /\ mainPc = "rewrite"
    /\ conf' \in {conf, [conf EXCEPT !.state = "whole"]}
    /\ mainPc' = "post"
    /\ UNCHANGED <<stage, pkt, paramVars, report, threadVars, zip,
                   traceVars, countVars, writes, bootVars>>

RewriteConf ==
    /\ mainPc = "rewrite"
    /\ conf' \in {conf, [conf EXCEPT !.state = "whole", !.first = 0]}
    /\ mainPc' = "post"
    /\ UNCHANGED <<stage, pkt, paramVars, report, threadVars, zip,
                   traceVars, countVars, writes, bootVars>>

\* GetUpgradeInfo stops at the first entry it cannot read, and then there is
\* no updateUrl to post to; CPost's own result is ignored.  Then stage EARLY.
ReportUpgradeResult ==
    /\ mainPc = "post"
    /\ IF conf.state = "whole"
       THEN /\ posted' = posted \cup {conf.id}
            /\ reposted' = reposted \cup (posted \cap {conf.id})
       ELSE UNCHANGED <<posted, reposted>>
    /\ stage' = "EARLY" /\ mainPc' = "loop"
    /\ UNCHANGED <<pkt, paramVars, report, threadVars, diskVars,
                   traceVars, countVars, writes, unclear>>

-----------------------------------------------------------------------------
(* main(): one PKT_VERSION_UPDATE.  Every other packet changes nothing.    *)

\* url and save_path are overwritten before the stage is looked at.
ReceiveUpdate(u) ==
    /\ mainPc = "loop" /\ updates < MaxUpdates
    /\ updates' = updates + 1
    /\ pkt' = u
    /\ dlUrl' = u /\ dlPath' = "/tmp/"
    /\ mainPc' = "test"
    /\ UNCHANGED <<stage, status, report, threadVars, diskVars,
                   traceVars, lives, writes, bootVars>>

\* Faulty variant of TestStage: every packet starts a download.
TestStageUnchecked ==
    /\ mainPc = "test"
    /\ report' = [report EXCEPT !.url = pkt]
    /\ mainPc' = "create"
    /\ UNCHANGED <<stage, pkt, paramVars, threadVars, diskVars,
                   traceVars, countVars, writes, bootVars>>

\* Faulty variant of TestStage: the report is filled in before the check.
TestStageReportFirst ==
    /\ mainPc = "test"
    /\ report' = [report EXCEPT !.url = pkt]
    /\ mainPc' = IF stage \in {"EARLY", "END"} THEN "create" ELSE "loop"
    /\ UNCHANGED <<stage, pkt, paramVars, threadVars, diskVars,
                   traceVars, countVars, writes, bootVars>>

TestStage ==
    /\ mainPc = "test"
    /\ IF stage \in {"EARLY", "END"}
       THEN /\ report' = [report EXCEPT !.url = pkt]
            /\ mainPc' = "create"
       ELSE /\ mainPc' = "loop"
            /\ UNCHANGED report
    /\ UNCHANGED <<stage, pkt, paramVars, threadVars, diskVars,
                   traceVars, countVars, writes, bootVars>>

\* createDownloadThread2: a failure of pthread_create is printed and ignored.
CreateDownloadThread(t) ==
    /\ mainPc = "create"
    /\ pc[t] = "none"
    /\ \/ /\ pc' = [pc EXCEPT ![t] = "start"]
          /\ accepted' = [accepted EXCEPT ![t] = pkt]
       \/ UNCHANGED <<pc, accepted>>
    /\ mainPc' = "mark"
    /\ UNCHANGED <<stage, pkt, paramVars, report, copyUrl, toZip, rs,
                   diskVars, flashed, told, stomped, countVars, writes, bootVars>>

\* CreateSystemTaskThread, whose thread only asks the master for its state and
\* touches nothing, and only then does the stage become ING.
MarkStage ==
    /\ mainPc = "mark"
    /\ stage' = "ING"
    /\ mainPc' = "loop"
    /\ UNCHANGED <<pkt, paramVars, report, threadVars, diskVars, traceVars,
                   countVars, writes, bootVars>>

-----------------------------------------------------------------------------
(* A download thread, Do_Download2.                                        *)

Goto(t, label) == pc' = [pc EXCEPT ![t] = label]

\* dl_param is passed by value; StartDownLoad2 removes the old update.zip.
StartDownload(t) ==
    /\ pc[t] = "start"
    /\ status' = "DOWNLOAD_DOING"
    /\ copyUrl' = [copyUrl EXCEPT ![t] = dlUrl]
    /\ \/ zip' = NoZip /\ Goto(t, "init")
       \/ zip # NoZip /\ UNCHANGED zip /\ Goto(t, "failed")
    /\ UNCHANGED <<mainVars, dlUrl, dlPath, report, toZip, rs, conf,
                   traceVars, countVars, writes, bootVars>>

\* DownLoadInit2 copies url and save_path again, this time from the globals
\* and without the url's terminator; then the file is sized and opened, or
\* one of the checks on the way fails.
InitDownload(t) ==
    /\ pc[t] = "init"
    /\ \E u \in {dlUrl} \cup (IF dlUrl = copyUrl[t] THEN {} ELSE {Garbled}) :
        LET isZip  == WithName(dlPath) = "/tmp/update.zip"
            opened == IF isZip THEN [owner |-> t, url |-> u, ended |-> FALSE]
                               ELSE zip
        IN  /\ copyUrl' = [copyUrl EXCEPT ![t] = u]
            /\ toZip' = [toZip EXCEPT ![t] = isZip]
            /\ \/ zip' = opened /\ Goto(t, "transfer")
               \/ zip' \in {zip, opened} /\ Goto(t, "failed")
    /\ UNCHANGED <<mainVars, paramVars, report, rs, conf, traceVars,
                   countVars, writes, bootVars>>

\* Faulty variant of FinishTransfer: what was transferred is flashed in any case.
FinishTransferAnyway(t) ==
    /\ pc[t] = "transfer"
    /\ zip' \in {zip, [zip EXCEPT !.ended = @ \/ zip.owner = t]}
    /\ status' = "DOWNLOAD_SUCESS"
    /\ dlPath' = "/tmp/"
    /\ Goto(t, "name")
    /\ UNCHANGED <<mainVars, dlUrl, report, copyUrl, toZip, rs, conf,
                   traceVars, countVars, writes, bootVars>>

\* GetDownloadFullPkgData2 returned 0 or -1.  A file another thread removed
\* or opened since is no longer this thread's.  What 0 says of the file's bytes
\* is SuccessHasSize and InOrder of Download.
FinishTransfer(t) ==
    /\ pc[t] = "transfer"
    /\ \/ /\ zip' = [zip EXCEPT !.ended = @ \/ zip.owner = t]
          /\ status' = "DOWNLOAD_SUCESS"
          /\ dlPath' = "/tmp/"
          /\ Goto(t, "name")
       \/ Goto(t, "failed") /\ UNCHANGED <<zip, status, dlPath>>
    /\ UNCHANGED <<mainVars, dlUrl, report, copyUrl, toZip, rs, conf,
                   traceVars, countVars, writes, bootVars>>

\* Faulty variant of DownloadFailed: nobody is told.
DownloadFailedSilently(t) ==
    /\ pc[t] = "failed"
    /\ status' = "DOWNLOAD_FAIL"
    /\ report' = [report EXCEPT !.type = 3]
    /\ Goto(t, "end")
    /\ UNCHANGED <<mainVars, dlUrl, dlPath, copyUrl, toZip, rs, diskVars,
                   traceVars, countVars, writes, bootVars>>

\* Faulty variant of DownloadFailed: the code that stands for a failed check.
DownloadFailedAsCheck(t) ==
    /\ pc[t] = "failed"
    /\ status' = "DOWNLOAD_FAIL"
    /\ report' = [report EXCEPT !.type = 2]
    /\ told' = told \cup {<<t, "SYSTEM_UPGRADE_FAIL">>}
    /\ Goto(t, "end")
    /\ UNCHANGED <<mainVars, dlUrl, dlPath, copyUrl, toZip, rs, diskVars,
                   accepted, flashed, stomped, countVars, writes, bootVars>>

\* The failure branch; the last statement of the thread is still to come.
DownloadFailed(t) ==
    /\ pc[t] = "failed"
    /\ status' = "DOWNLOAD_FAIL"
    /\ report' = [report EXCEPT !.type = 3]
    /\ told' = told \cup {<<t, "SYSTEM_UPGRADE_FAIL">>}
    /\ Goto(t, "end")
    /\ UNCHANGED <<mainVars, dlUrl, dlPath, copyUrl, toZip, rs, diskVars,
                   accepted, flashed, stomped, countVars, writes, bootVars>>

\* strcat(dl_param.save_path, "update.zip") and the status of FlashImgData.
NamePackage(t) ==
    /\ pc[t] = "name"
    /\ dlPath' = WithName(dlPath)
    /\ status' = "UPGRADE_DOING"
    /\ Goto(t, "flash")
    /\ UNCHANGED <<mainVars, dlUrl, report, copyUrl, toZip, rs, diskVars,
                   traceVars, countVars, writes, bootVars>>

\* FullyFlashImgData: system("upgrade_app <save_path>"), or -1 before it when
\* /tmp/update cannot be removed.  Only -1 counts as a failure.
Flash(t) ==
    /\ pc[t] = "flash"
    /\ \E r \in FlashResult :
        /\ rs' = [rs EXCEPT ![t] = r]
        /\ status' = IF r = -1 THEN "UPGRADE_FAIL" ELSE "UPGRADE_SUCESS"
    /\ flashed' = [flashed EXCEPT ![t] =
                     [from |-> dlPath,
                      zip |-> IF dlPath = "/tmp/update.zip" THEN zip ELSE NoZip]]
    /\ Goto(t, "record")
    /\ UNCHANGED <<mainVars, dlUrl, dlPath, report, copyUrl, toZip, diskVars,
                   accepted, told, stomped, countVars, writes, bootVars>>

RecordType(t) ==
    /\ pc[t] = "record"
    /\ report' = [report EXCEPT !.type = rs[t]]
    /\ Goto(t, "trunc")
    /\ UNCHANGED <<mainVars, paramVars, copyUrl, toZip, rs, diskVars,
                   traceVars, countVars, writes, bootVars>>

\* WriteUpgradeReportToFile: without a Version entry or without the file it
\* gives up; else open(O_TRUNC) and write are two steps.
OpenConf(t) ==
    /\ pc[t] = "trunc"
    /\ \/ conf' = [conf EXCEPT !.state = "torn"] /\ Goto(t, "write")
       \/ UNCHANGED conf /\ Goto(t, "endOk")
    /\ UNCHANGED <<mainVars, paramVars, report, copyUrl, toZip, rs, zip,
                   traceVars, countVars, writes, bootVars>>

WriteConf(t) ==
    /\ pc[t] = "write"
    /\ \/ /\ writes' = writes + 1
          /\ conf' = [state |-> "whole", first |-> 1, url |-> report.url,
                      type |-> report.type, id |-> writes + 1]
       \/ UNCHANGED <<writes, conf>>
    /\ Goto(t, "endOk")
    /\ UNCHANGED <<mainVars, paramVars, report, copyUrl, toZip, rs, zip,
                   traceVars, countVars, bootVars>>

\* The first END of a thread that flashed.
EndAfterFlash(t) ==
    /\ pc[t] = "endOk"
    /\ stage' = "END"
    /\ Goto(t, "shutdown")
    /\ UNCHANGED <<mainPc, pkt, paramVars, report, copyUrl, toZip, rs,
                   diskVars, traceVars, countVars, writes, bootVars>>

RequestShutdown(t) ==
    /\ pc[t] = "shutdown"
    /\ told' = told \cup {<<t, "SYSTEM_SHUTDOWN">>}
    /\ Goto(t, "endAgain")
    /\ UNCHANGED <<mainVars, paramVars, report, copyUrl, toZip, rs, diskVars,
                   accepted, flashed, stomped, countVars, writes, bootVars>>

\* The last statement of Do_Download2, on both branches.
EndThread(t) ==
    /\ pc[t] \in {"end", "endAgain"}
    /\ stage' = "END"
    /\ stomped' = (stomped \/ \E u \in Thread \ {t} : pc[u] \in Running)
    /\ Goto(t, "done")
    /\ UNCHANGED <<mainPc, pkt, paramVars, report, copyUrl, toZip, rs, diskVars,
                   accepted, flashed, told, countVars, writes, bootVars>>

ThreadStep(t) ==
    \/ StartDownload(t)  \/ InitDownload(t)    \/ FinishTransfer(t)
    \/ DownloadFailed(t) \/ NamePackage(t)     \/ Flash(t)
    \/ RecordType(t)     \/ OpenConf(t)        \/ WriteConf(t)
    \/ EndAfterFlash(t)  \/ RequestShutdown(t) \/ EndThread(t)

Startup == CheckUpgradeResult \/ TruncateConf \/ RewriteConf \/ ReportUpgradeResult

Handle ==
    \/ TestStage
    \/ \E t \in Thread : CreateDownloadThread(t)
    \/ MarkStage

Next ==
    \/ Boot \/ Die
    \/ Startup
    \/ \E u \in Url : ReceiveUpdate(u)
    \/ Handle
    \/ \E t \in Thread : ThreadStep(t)

Spec == Init /\ [][Next]_vars

\* Where a thread may stay for good: the request for the length has no time-out
\* (upg_download.c 35-40), the loop around the requests for the data ends only
\* when enough has come or one of them fails (1023-1032), and upgrade_app takes
\* what it takes.
Unlimited == {"init", "transfer", "flash"}

\* The kernel schedules every runnable thread, and every other call has a time
\* limit (the reports 3 s and 4 s, sends 60 s) or is local: a step that can be
\* taken is taken.  Nothing makes an update arrive or the process restart.
FairSpec ==
    /\ Spec
    /\ WF_vars(Startup) /\ WF_vars(Handle)
    /\ \A t \in Thread : WF_vars(pc[t] \notin Unlimited /\ ThreadStep(t))

-----------------------------------------------------------------------------
(* Properties.                                                             *)

TypeOK ==
    /\ mainPc \in MainPc /\ stage \in Stage /\ pkt \in UrlText
    /\ dlUrl \in UrlText /\ dlPath \in Path /\ status \in Status
    /\ report \in [url : UrlText, type : ReportType]
    /\ pc \in [Thread -> Pc]
    /\ copyUrl \in [Thread -> UrlText]
    /\ toZip \in [Thread -> BOOLEAN]
    /\ rs \in [Thread -> FlashResult]
    /\ zip \in Zip /\ conf \in Conf
    /\ accepted \in [Thread -> UrlText]
    /\ flashed \in [Thread -> Flashed]
    /\ stomped \in BOOLEAN
    /\ told \subseteq Thread \X {"SYSTEM_UPGRADE_FAIL", "SYSTEM_SHUTDOWN"}
    /\ updates \in Nat /\ lives \in Nat /\ writes \in Nat
    /\ posted \subseteq Nat /\ reposted \subseteq Nat /\ unclear \subseteq Nat

\* The stage keeps downloads apart: two threads never fill /tmp/update.zip at
\* once, unless a thread that had flashed wrote END a second time over an
\* upgrade that began in between.  (AawantUpgrade.c 1231-1249 against the two
\* SetUpgStage of Do_Download2, 567 and 573.)
OneDownload ==
    ~stomped => \A t, u \in Thread : pc[t] \in Running /\ pc[u] \in Running => t = u

\* A thread that downloaded to /tmp/update.zip and gives /tmp/update.zip to
\* upgrade_app gives it the file that it opened itself and whose transfer
\* returned 0 to it: not one that another update has removed, opened again or
\* is still filling, nor one whose transfer failed, whatever updates were ignored,
\* failed or restarted meanwhile.  (Do_Download2, 530-558, against main() 1225.)
FlashOwnDownload ==
    \A t \in Thread :
        ~stomped /\ toZip[t] /\ flashed[t].from = "/tmp/update.zip" =>
            flashed[t].zip.owner = t /\ flashed[t].zip.ended

\* The report that survives the restart is about one update: it names the one
\* that was accepted, and its type is the status that the same thread's call of
\* upgrade_app returned, although main() and other threads fill the same record
\* meanwhile.  The number itself is not what the comment at AawantUpgrade.c:561
\* says (1 for a success, 2 and 3 for failures): it is 0 for a success.
ConfRecordsUpgrade ==
    [][\A t \in Thread :
          pc[t] = "write" /\ writes' # writes /\ ~stomped =>
              conf'.url = accepted[t] /\ conf'.type = rs[t]]_vars

\* Over any restarts a report is sent twice only if its FirstBoot could not
\* be set back to 0.
ReportAtMostOnce == reposted \subseteq unclear

\* Every download thread ends by telling the master that it failed or that
\* the device has to restart, unless the process ends or the thread stays for
\* good in a call that has no limit of time.
UpdateAnswered ==
    \A t \in Thread :
        pc[t] = "start" ~> \/ mainPc = "down"
                           \/ \E p \in told : p[1] = t
                           \/ [](pc[t] \in Unlimited)
=============================================================================
