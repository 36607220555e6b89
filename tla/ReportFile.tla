------------------------------ MODULE ReportFile ------------------------------
(***************************************************************************)
(* The report file update.conf as a text: what WriteUpgradeReportToFile    *)
(* writes, what the profile functions (AIcom_profile.c) find in it with    *)
(* strstr and sscanf after a restart, and what is then sent to the server. *)
(* The module Upgrade has the threads around it and takes the file for one *)
(* value.                                                                  *)
(*                                                                         *)
(* The file is the line [UPDATE] and one line per entry.  Of a text only   *)
(* its kind is kept: what in it a search or a scan takes for something     *)
(* else.  A text fits the buffers it is copied through, and has one such   *)
(* peculiarity at most.                                                    *)
(***************************************************************************)
EXTENDS Integers, Sequences, FiniteSets

CONSTANTS
    Kinds,     \* the kinds of text a PKT_VERSION_UPDATE can carry
    MaxOdd,    \* bound: texts of one packet that are not plain
    MaxWrites, \* bound: reports over the whole run
    MaxLives   \* bound: how many times the process is started

\* The lines of the file.
Order == <<"FirstBoot", "Version", "mac", "time", "info", "type", "toVersion",
           "nowVersion", "model", "updateUrl", "id", "ids">>

Entry == {Order[i] : i \in DOMAIN Order}

\* The lines GetUpgradeInfo asks for, in that order.
ReadOrder == <<"mac", "time", "type", "toVersion", "nowVersion", "model", "updateUrl",
               "id", "ids">>

\* The texts that come from the packet; the others are numbers and the like.
Given == {"model", "updateUrl", "id"}

\* A text may be the name of an entry with its sign of equality, somewhere in it.
ASSUME KindsAssumption ==
    Kinds \subseteq {"plain", "blank", "empty", "bracket", "NONE"} \cup Entry

VARIABLES
    phase,    \* main() and, from "open" on, the thread of Do_Download2
    report,   \* newUpgReport
    there,    \* the file exists
    lines,    \* its lines, without [UPDATE]
    buffer,   \* szBuf2 of AIcom_WriteProfileString
    info,     \* oldUpgReport
    lives,
    writes,
    \* History, read by no action of the program:
    written,  \* the report in the file as it was given to snprintf
    whole,    \* lines of it that reached the file in full
    due       \* a whole report waits for the next start, or was to be sent in this

fileVars == <<phase, report, there, lines, buffer, info, lives, writes, written, whole, due>>

-----------------------------------------------------------------------------
(* Texts and lines.                                                        *)

Text(e, kind) == [write |-> writes, of |-> e, kind |-> kind]

Nothing == [write |-> 0, of |-> "", kind |-> "empty"]
Garbage == [write |-> 0, of |-> "stack", kind |-> "plain"]

Flag(b) == [write |-> 0, of |-> b, kind |-> "plain"]

NoReport == [e \in Entry |-> Nothing]

\* AIcom_GetFileAttr("A"): the program may read and write every file it finds.
GetFileAttr == there

\* AIcom_FileSize: a file that is missing is not looked into, so it has no length.
FileSize == IF GetFileAttr THEN Len(lines) ELSE 0

\* AIcom_GetFile, into a buffer of the file's size.
Content == SubSeq(lines, 1, FileSize)

\* strstr for "e=": in a line's own name or in the middle of its text.
Holds(line, e) == line.key = e \/ line.text.kind = e

\* The first line in which it is found, past the last when in none.
Match(file, e) ==
    LET hits == {i \in DOMAIN file : Holds(file[i], e)}
    IN  IF hits = {} THEN Len(file) + 1
        ELSE CHOOSE i \in hits : \A j \in hits : i <= j

\* strstr for "[" after the section: what follows belongs to another section.
Foreign(file, i) == \E j \in 1 .. i - 1 : file[j].text.kind = "bracket"

\* AIcom_StripSparc: up to the first blank.
StripSparc(t) == IF t.kind = "blank" THEN [t EXCEPT !.kind = "cut"] ELSE t

\* AIcom_GetLine from the match on: the rest of another text when it is in one.
GetLine(line, e) == IF line.key = e THEN line.text ELSE [line.text EXCEPT !.kind = "tail"]

\* The sscanf of the line: t2 is not set when nothing follows.
Scanned(line, e) ==
    LET t == GetLine(line, e)
    IN  IF t.kind = "empty" THEN Garbage ELSE StripSparc(t)

\* AIcom_GetConfigString: the default NONE stands for no entry.
Missing(file, e) ==
    LET i == Match(file, e)
    IN  i > Len(file) \/ Foreign(file, i) \/ Scanned(file[i], e).kind = "NONE"

GetConfigString(file, e) == Scanned(file[Match(file, e)], e)

\* The first n lines of a text and a part of the text of the next.
CutAt(file, n) ==
    IF n = Len(file) THEN {file}
    ELSE {SubSeq(file, 1, n)} \cup
         {Append(SubSeq(file, 1, n), [file[n + 1] EXCEPT !.text.kind = kind]) :
             kind \in {"cut", "empty"}}

-----------------------------------------------------------------------------
(* Start and restart.                                                      *)

FileInit ==
    /\ phase = "down" /\ report = NoReport
    /\ there = FALSE /\ lines = <<>> /\ buffer = <<>>
    /\ info = NoReport
    /\ lives = 0 /\ writes = 0
    /\ written = NoReport /\ whole = 0 /\ due = "no"

Boot ==
    /\ phase = "down" /\ lives < MaxLives
    /\ lives' = lives + 1
    /\ phase' = "check"
    /\ due' = IF due = "written" THEN "due" ELSE "no"
    /\ UNCHANGED <<report, there, lines, buffer, info, writes, written, whole>>

\* The process ends anywhere, and its memory with it.  Before FirstBoot is
\* cleared the next start does what this one did.
Die ==
    /\ phase # "down"
    /\ phase' = "down"
    /\ report' = NoReport /\ buffer' = <<>> /\ info' = NoReport
    /\ due' = CASE phase \in {"put", "read", "post"}              -> "no"
                [] phase \in {"check", "clear"} /\ due = "due" -> "written"
                [] OTHER                                    -> due
    /\ UNCHANGED <<there, lines, lives, writes, written, whole>>

\* CheckUpgradeResult: FirstBoot=1 in the file.
First ==
    /\ ~Missing(Content, "FirstBoot")
    /\ GetConfigString(Content, "FirstBoot") \in {Flag("1"), Garbage}

\* An uninitialised text may be anything, not only 1.
CheckUpgradeResult ==
    /\ phase = "check"
    /\ \/ First /\ phase' = "clear"
       \/ (First => GetConfigString(Content, "FirstBoot") = Garbage) /\ phase' = "loop"
    /\ UNCHANGED <<report, there, lines, buffer, info, lives, writes, written,
                   whole, due>>

\* AIcom_WriteProfileString: the line of the entry is replaced.
Replaced(file, e, text) == [file EXCEPT ![Match(file, e)] = [key |-> e, text |-> text]]

\* AIcom_WriteProfileInt(FirstBoot, 0).
Cleared(file) == Replaced(file, "FirstBoot", Flag("0"))

\* AIcom_CreateFile truncates, or fails and leaves the file as it was.
CreateFile ==
    /\ phase = "clear"
    /\ \/ buffer' = Cleared(Content) /\ lines' = <<>> /\ phase' = "put"
       \/ UNCHANGED <<buffer, lines>> /\ phase' = "read"
    /\ UNCHANGED <<report, there, info, lives, writes, written, whole, due>>

\* The write of AIcom_PutFile, which may fail or be short; nobody looks.
PutFile ==
    /\ phase = "put"
    /\ \E n \in 0 .. Len(buffer) :
        /\ lines' \in CutAt(buffer, n)
        /\ whole' = IF n < whole THEN n ELSE whole
        /\ due' = IF n = Len(buffer) THEN due ELSE "no"
    /\ buffer' = <<>>
    /\ phase' = "read"
    /\ UNCHANGED <<report, there, info, lives, writes, written>>

\* The first entry GetUpgradeInfo cannot read: it stops there.
Stop ==
    LET missing == {i \in DOMAIN ReadOrder : Missing(Content, ReadOrder[i])}
    IN  IF missing = {} THEN Len(ReadOrder) + 1
        ELSE CHOOSE i \in missing : \A j \in missing : i <= j

\* Faulty variant of GetUpgradeInfo: the texts stay in TMP_PATH_BUFFER, which
\* every call writes.
GetUpgradeInfoShared ==
    /\ phase = "read"
    /\ info' = [e \in Entry |->
                  IF \E i \in 1 .. Stop - 1 : ReadOrder[i] = e
                  THEN GetConfigString(Content, ReadOrder[Stop - 1]) ELSE Nothing]
    /\ phase' = "post"
    /\ UNCHANGED <<report, there, lines, buffer, lives, writes, written, whole, due>>

\* GetUpgradeInfo, whose result nobody looks at; info is set to "".
GetUpgradeInfo ==
    /\ phase = "read"
    /\ info' = [e \in Entry |->
                  IF \E i \in 1 .. Stop - 1 : ReadOrder[i] = e
                  THEN GetConfigString(Content, e) ELSE Nothing]
    /\ phase' = "post"
    /\ UNCHANGED <<report, there, lines, buffer, lives, writes, written, whole, due>>

\* CPost of a report: with no address it fails at once; what else becomes of it
\* nobody looks at.
CPost(url) == due' = IF url = Nothing THEN due ELSE "no"

\* ReportUpgradeResult posts to the address of the package.
ReportUpgradeResult ==
    /\ phase = "post"
    /\ CPost(info["updateUrl"])
    /\ phase' = "loop"
    /\ UNCHANGED <<report, there, lines, buffer, info, lives, writes, written, whole>>

-----------------------------------------------------------------------------
(* An update: the packet, and the report its thread writes.                *)

\* newUpgReport as it is when its thread comes to write it.
ReceiveUpdate(kind) ==
    /\ phase = "loop" /\ writes < MaxWrites
    /\ Cardinality({e \in Given : kind[e] # "plain"}) <= MaxOdd
    /\ report' = [e \in Entry |->
                    CASE e = "FirstBoot" -> Nothing
                      [] e = "info"      -> Text(e, "empty")
                      [] e \in Given     -> Text(e, kind[e])
                      [] OTHER           -> Text(e, "plain")]
    /\ writes' = writes + 1
    /\ phase' = "open"
    /\ UNCHANGED <<there, lines, buffer, info, lives, written, whole, due>>

\* Without a version in CONFIG_FILE, or without the file, there is no report;
\* O_TRUNC empties the old one.
OpenConf ==
    /\ phase = "open"
    /\ \/ there' = TRUE /\ lines' = <<>> /\ due' = "no" /\ phase' = "write"
       \/ UNCHANGED <<there, lines, due>> /\ phase' = "loop"
    /\ UNCHANGED <<report, buffer, info, lives, writes, written, whole>>

\* Faulty variant of FirstBoot: the member is written as it stands.
FirstBootUnset == Flag("0")

\* np->firstboot=1.
FirstBoot == Flag("1")

\* The text of snprintf.
Report ==
    [i \in DOMAIN Order |->
        [key |-> Order[i],
         text |-> IF Order[i] = "FirstBoot" THEN FirstBoot ELSE report[Order[i]]]]

\* snprintf keeps 511 characters, and the write may be short: both cut the
\* report off, and nobody looks.
WriteConf ==
    /\ phase = "write"
    /\ \E n \in 0 .. Len(Order) :
        /\ lines' \in CutAt(Report, n)
        /\ whole' = n
        /\ due' = IF n = Len(Order) THEN "written" ELSE "no"
    /\ written' = report
    /\ phase' = "loop"
    /\ UNCHANGED <<report, there, buffer, info, lives, writes>>

-----------------------------------------------------------------------------
Startup == CheckUpgradeResult \/ CreateFile \/ PutFile \/ GetUpgradeInfo
             \/ ReportUpgradeResult

FileNext ==
    \/ Boot \/ Die
    \/ Startup
    \/ \E kind \in [Given -> Kinds] : ReceiveUpdate(kind)
    \/ OpenConf \/ WriteConf

FileSpec == FileInit /\ [][FileNext]_fileVars

-----------------------------------------------------------------------------
(* Properties.                                                             *)

\* d stands before e in the file.
Before(d, e) ==
    \E i, j \in DOMAIN Order : i < j /\ Order[i] = d /\ Order[j] = e

\* The line of e reached the file in full.
Kept(e) == \E i \in 1 .. whole : Order[i] = e

\* What the program reads for e may differ from what was written: the report
\* was cut off; the text is not one word; or an earlier text looks like the
\* end of the section, like no entry, or like the entry that is asked for.
Excused(e) ==
    \/ ~Kept(e)
    \/ written[e].kind \in {"blank", "empty", "NONE"}
    \/ \E d \in Entry : Before(d, e) /\ written[d].kind \in {"bracket", "NONE", e}

\* Every entry of the report that is sent after a restart is the one that was
\* written, in the same report, with FirstBoot cleared or not, unless Excused;
\* nothing is sent of a file that was lost in between.
SentIsWritten ==
    phase = "post" =>
        /\ Content = <<>> => info = NoReport
        /\ \A i \in DOMAIN ReadOrder :
             LET e == ReadOrder[i] IN Excused(e) \/ info[e] = written[e]

\* A report that reached the file whole is sent at the next start, unless the
\* process ends or a write fails between the clearing of FirstBoot and the
\* post, or its address cannot be read.
SentUnlessLost ==
    phase = "loop" /\ due = "due" =>
        \E d \in Given : ~Before("updateUrl", d) /\ written[d].kind \in {"NONE", "bracket"}
=============================================================================
