------------------------------ MODULE Download ------------------------------
(***************************************************************************)
(* One call of StartDownLoad2 (PROC_UPGRADE, upg_download.c): the package  *)
(* is sized with a HEAD request, the file is opened, and the body is       *)
(* fetched by GET requests that are repeated after a short reply and       *)
(* resumed after a broken connection.                                      *)
(*                                                                         *)
(* The package is the sequence of its offsets 0 .. PackageSize - 1, so the *)
(* file shows which byte was written where.  The server and the disk are   *)
(* outside the code: what they may answer is a choice.                     *)
(***************************************************************************)
EXTENDS Integers, Sequences

CONSTANTS
    PackageSize,   \* bytes in the package, below 2^31: sizes are int32
    ResumeTimes,   \* UPGRADE_DOWNLOAD_RESUME_TIMES
    MaxPage,       \* bound: bytes in an HTTP error page
    MaxSurplus     \* bound: bytes left in the file by short writes

ASSUME SizesAssumption ==
    /\ PackageSize \in Nat /\ ResumeTimes \in Nat
    /\ MaxPage \in Nat /\ MaxSurplus \in Nat

VARIABLES
    pc,          \* where the download stands
    size,        \* upg_file_size
    file,        \* the bytes in save_path
    downloaded,  \* downloaded_size
    offset,      \* the offset Aawant_Download_From_Offset was called with
    from,        \* CURLOPT_RESUME_FROM of the curl handle
    pos,         \* next package offset of the running transfer
    caller,      \* who called curl_easy_perform
    tries,       \* try_times
    \* History, read by no action of the program:
    surplus,     \* bytes in the file that downloaded_size does not count
    glitches     \* what went wrong

requestVars == <<offset, from, pos, caller, tries>>
historyVars == <<surplus, glitches>>
vars == <<pc, size, file, downloaded, requestVars, historyVars>>

Pc      == {"head", "storage", "reopen", "loop", "transfer", "resume",
            "success", "failure"}
Caller  == {"From_Offset", "Resume"}
Glitch  == {"no length", "short reply", "error page", "short write",
            "broken connection"}

\* A byte of an HTTP error page, which is no byte of the package.
Page    == -1
Byte    == {Page} \cup 0 .. PackageSize - 1

\* n bytes of the package, the first at offset p.
Bytes(p, n) == [i \in 1 .. n |-> p + i - 1]

-----------------------------------------------------------------------------
Init ==
    /\ pc = "head" /\ size = 0 /\ file = <<>> /\ downloaded = 0
    /\ offset = 0 /\ from = 0 /\ pos = 0 /\ caller = "From_Offset" /\ tries = 0
    /\ surplus = 0 /\ glitches = {}

\* Every failure goes to "out": Aawant_Clean_Download_BasicInfo closes what is
\* open and leaves the file where it is.
Fail ==
    /\ pc' = "failure"
    /\ UNCHANGED <<size, file, downloaded, requestVars, historyVars>>

\* DownLoadInit2: a failed HEAD or an unknown length (-1) is an error, but a
\* length of 0 leaves upg_file_size as it was, which is 0.
SizePackage ==
    /\ pc = "head"
    /\ \/ Fail
       \/ /\ \/ size' = PackageSize /\ UNCHANGED glitches
             \/ size' = 0 /\ glitches' = glitches \cup {"no length"}
          /\ pc' = "storage"
          /\ UNCHANGED <<file, downloaded, requestVars, surplus>>

\* f_bsize * f_bavail is cut to an int32, so the check may go either way
\* whatever room there is.
CheckStorage ==
    /\ pc = "storage"
    /\ \/ Fail
       \/ pc' = "reopen"
          /\ UNCHANGED <<size, file, downloaded, requestVars, historyVars>>

\* The file DownLoadInit2 opened is removed and opened again, and
\* Aawant_Download_Param_Reset sets the counters for a new curl handle.
ReopenSaveFile ==
    /\ pc = "reopen"
    /\ \/ Fail
       \/ /\ file' = <<>> /\ downloaded' = 0 /\ from' = 0
          /\ pc' = "loop"
          /\ UNCHANGED <<size, offset, pos, caller, tries, historyVars>>

\* curl_easy_perform with RESUME_FROM set to p.
Perform(p, who) ==
    /\ from' = p /\ pos' = p /\ caller' = who
    /\ pc' = "transfer"

\* Faulty variant of RequestRest: one request is taken to be the whole package.
RequestOnce ==
    /\ pc = "loop"
    /\ IF size > 0 /\ downloaded = 0
       THEN /\ offset' = downloaded
            /\ Perform(from, "From_Offset")
            /\ UNCHANGED <<size, file, downloaded, tries, historyVars>>
       ELSE /\ pc' = "success"
            /\ UNCHANGED <<size, file, downloaded, requestVars, historyVars>>

\* GetDownloadFullPkgData2's loop and Aawant_Download_From_Offset: an offset of
\* 0 leaves RESUME_FROM as it is.
RequestRest ==
    /\ pc = "loop"
    /\ IF downloaded < size
       THEN /\ offset' = downloaded
            /\ Perform(IF downloaded # 0 THEN downloaded ELSE from, "From_Offset")
            /\ UNCHANGED <<size, file, downloaded, tries, historyVars>>
       ELSE /\ pc' = "success"
            /\ UNCHANGED <<size, file, downloaded, requestVars, historyVars>>

-----------------------------------------------------------------------------
(* A transfer: DownloadFullOtaPackage_CB2 is called with each piece of it.  *)

\* The piece is written and flushed, and counted.
Receive(n) ==
    /\ pc = "transfer" /\ pos + n <= PackageSize
    /\ file' = file \o Bytes(pos, n)
    /\ downloaded' = downloaded + n
    /\ pos' = pos + n
    /\ UNCHANGED <<pc, size, offset, from, caller, tries, historyVars>>

\* CURLOPT_FAILONERROR is not set: the body of an error reply to a request
\* from the start is data like any other.  (libcurl itself refuses a reply
\* without a range to a resumed request.)
ReceivePage(n) ==
    /\ pc = "transfer" /\ from = 0 /\ pos = 0
    /\ file' = file \o [i \in 1 .. n |-> Page]
    /\ downloaded' = downloaded + n
    /\ pos' = PackageSize
    /\ glitches' = glitches \cup {"error page"}
    /\ UNCHANGED <<pc, size, offset, from, caller, tries, surplus>>

\* fwrite wrote k bytes of a longer piece: the callback returns -1 and curl
\* gives up, with the k bytes in the file and not in downloaded_size.
ShortWrite(k) ==
    /\ pc = "transfer" /\ pos + k < PackageSize
    /\ surplus + k <= MaxSurplus
    /\ file' = file \o Bytes(pos, k)
    /\ surplus' = surplus + k
    /\ glitches' = glitches \cup {"short write"}
    /\ tries' = IF caller = "Resume" THEN tries ELSE ResumeTimes
    /\ pc' = "resume"
    /\ UNCHANGED <<size, downloaded, offset, from, pos, caller>>

\* CURLE_OK, after the whole range or after what the server cared to send.
TransferOk ==
    /\ pc = "transfer"
    /\ pc' = "loop"
    /\ glitches' = IF pos < PackageSize THEN glitches \cup {"short reply"}
                                        ELSE glitches
    /\ UNCHANGED <<size, file, downloaded, requestVars, surplus>>

\* Any other code.  The status is never AAW_CTL_DOWNLOAD_CANCEL and
\* is_request_done never True, so the transfer is resumed.
TransferBroken ==
    /\ pc = "transfer"
    /\ glitches' = glitches \cup {"broken connection"}
    /\ tries' = IF caller = "Resume" THEN tries ELSE ResumeTimes
    /\ pc' = "resume"
    /\ UNCHANGED <<size, file, downloaded, offset, from, pos, caller,
                   surplus>>

\* Faulty variant of ResumeDownload: every try starts at the request's offset.
ResumeAtOffset ==
    /\ pc = "resume"
    /\ IF tries = 0
       THEN Fail
       ELSE /\ tries' = tries - 1
            /\ IF downloaded < size
               THEN Perform(offset, "Resume")
               ELSE UNCHANGED <<pc, from, pos, caller>>
            /\ UNCHANGED <<size, file, downloaded, offset, historyVars>>

\* One turn of Aawant_Resume_Download's loop.  requested_size is size, and
\* is_full_pkg_update is False, so offset stays what it was.  A try with all
\* bytes there does nothing, and 60 such tries are a failure.
ResumeDownload ==
    /\ pc = "resume"
    /\ IF tries = 0
       THEN Fail
       ELSE /\ tries' = tries - 1
            /\ IF downloaded < size
               THEN Perform(downloaded + offset, "Resume")
               ELSE UNCHANGED <<pc, from, pos, caller>>
            /\ UNCHANGED <<size, file, downloaded, offset, historyVars>>

Next ==
    \/ SizePackage \/ CheckStorage \/ ReopenSaveFile \/ RequestRest
    \/ \E n \in 1 .. PackageSize : Receive(n)
    \/ \E n \in 1 .. MaxPage : ReceivePage(n)
    \/ \E k \in 0 .. MaxSurplus : ShortWrite(k)
    \/ TransferOk \/ TransferBroken \/ ResumeDownload

Spec == Init /\ [][Next]_vars

-----------------------------------------------------------------------------
(* Properties.                                                             *)

TypeOK ==
    /\ pc \in Pc /\ size \in {0, PackageSize}
    /\ file \in Seq(Byte) /\ downloaded \in Nat
    /\ offset \in Nat /\ from \in Nat /\ pos \in Nat
    /\ caller \in Caller /\ tries \in Nat
    /\ surplus \in Nat /\ glitches \subseteq Glitch

\* Broken connections alone, or short replies alone, never disturb the file:
\* it is the beginning of the package, as long as downloaded_size says,
\* however often the transfer was resumed or repeated; and a download that is
\* then a success has left the package in it, no more and no less.
InOrder ==
    glitches \subseteq {"short reply"} \/ glitches \subseteq {"broken connection"}
      => /\ file = Bytes(0, downloaded)
         /\ pc = "success" => downloaded = PackageSize

\* The download is a success only when the file is at least as long as the
\* server said, whatever went wrong on the way.
SuccessHasSize == pc = "success" => Len(file) >= size
=============================================================================
