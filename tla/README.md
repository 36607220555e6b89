# SmartBoy: a TLA+ model of the speaker's processes

SmartBoy is the software of a smart speaker: a handful of C processes around a
master, connected by Unix sockets. This directory holds TLA+ modules that model
the parts of it whose correctness depends on the order of events, the TLC
configurations that check them on small instances, and proofs, checked by
TLAPS, of what holds for every value of the constants. `PROJECT.json` lists the
runs, the mutants (a plausible bug for each property, which the run must find),
the source lines behind each definition, the hazards and the theorems.

Run a check with `tlc -config <Run>.cfg <Module>.tla` and the proofs with
`tlapm <Module>Proofs.tla`.

## 1. Inventory

```
              IOT     Alarm                      (other repositories)
                 \     /
  Perip -------- Master -------- NetConfigure (voice)
  keys, lights     |                |-- recorder: RecordThread, queue, QueueReadThread
                   |                '-- recogniser: buffers, history, detector, worker,
                   |                    blocks, tones -> WiFi name, password, user
                Upgrade
                   |-- download threads --> /tmp/update.zip --> upgrade_app
                   '-- update.conf (report that survives a restart)
```

Every client connects to the master's socket, sends `PKT_CLIENT_IDENTITY`, and
loops over `select`, `AAWANTGetPacket` and a switch on the packet's kind. The
master keeps one descriptor per kind of client and forwards. A client whose
connection to the master ends, ends itself.

| Component (source) | State | Operations | What is hard | What makes it correct |
|---|---|---|---|---|
| Master (`PROC_AAWANT/src/AawantMain.c`) | slot table `iClientSocketList`, one descriptor variable per role | accept, identity, forward, reply, close, shut down | descriptors are closed and reused while variables keep the number; a client may end or be replaced at any time | slots hold open descriptors; a packet reaches the process it is meant for; no client is starved |
| Upgrade process (`PROC_UPGRADE/src/AawantUpgrade.c`, `upg_control.c`) | `upgStage`, `dl_param`, `newUpgReport`, update.zip, update.conf | receive an update, download thread, flash, write the report, report after the restart | threads and main share globals without a lock; crash between any two steps | one download at a time; what a thread flashes is the file it finished itself; the report is right, and is sent once |
| Package download (`upg_download.c`) | counters, the curl handle's resume offset, the file | size, check room, open, request, receive, resume | short replies, broken connections, error pages, short writes | the file is a prefix of the package; success means complete |
| Profile files (`AIcom_profile.c`, `AIcom_Tool.c`) | a file of `name = text` lines | find, scan, read, truncate, write | not atomic; found by `strstr`; a text may look like an entry or a section | what is read back is what was written; a whole report is sent |
| Transport (`AIUComm.c`, `AIEUComm.c`) | sockets | send and receive a head and a body | two sends per packet, several sending threads, partial sends and reads, time-outs | what the master handles is one whole packet, each once |
| Recorder (`PROC_VOICE/src/recorder.c`, `AudioQueue.c`, `a_thread.c`) | ring queue, event, `runing` | start, record, queue, take, call back, stop | two threads, wrap-around, an event set outside the mutex, stop while waiting | periods are heard in order and whole; no lost wake-up; stop returns |
| Recogniser (`voiceRecog.c`, `voiceRecognizer.c`, `signalAnalyserTimeMatch2.c`) | pool of buffers, circular history, queue of ranges, block searcher, erasures | write, detect, read, analyse, find blocks, correct, decode | two threads share the ranges without a lock; circles and overlaps; headers that only roughly fit; tones not heard | the history is the sound; a range is read to its end or given up knowingly; blocks in order; a decoded text is the sent one |
| Network configuration (`PROC_VOICE/VoiceConnectService.c`) | registration flags, timer, threads, bind request | start, parse, time out, cancel, stop, bind | signal handler, condition variable without predicate and packet loop end the same session | a session ends once and is answered; the report is complete and its own; a recogniser is freed after its thread |
| Peripherals (`PROC_PERIPHERALS/src/perip.c`, `ringbuffer.c`) | pressed key, long-press state, light ring | key down/up, long press, light commands | condition variables without predicate or lock; two long-press threads; a ring both threads move without a lock | every press is answered, as long only if held; lights show whole commands in order |
| Player and encoder, `PROC_KEYEVENT`, `PROC_LED`, `PROC_TEST`, `HttpClient.cpp`, logs, statistics, MD5 | | | | compiled out, earlier versions, tools and pure output |

## 2. What is modelled

| Module | Extends / instantiates | Models | Proofs |
|---|---|---|---|
| `Upgrade` | | the upgrade process with its threads, report file and restarts | `ProcessProofs` |
| `Download` | | one download, from `StartDownLoad2` to its return | `UpgradeFilesProofs` |
| `ReportFile` | | update.conf as a text: what is found in it again | `UpgradeFilesProofs` |
| `Master` | | the master with its clients and the kernel's descriptors | `ProcessProofs` |
| `Frames`, `MCFrames` | | lengths and packets on the sockets, cut anywhere | `FramesProofs` |
| `AudioStream` | | abstract: what the recogniser is promised | |
| `Recorder` | `AudioStream` (refinement) | the two recorder threads, the byte queue, the event, `stopRecord` | `RecorderProofs` |
| `Capture` | extends `Recorder` | composition: the callback, the buffers, the pool and the history | `RecorderProofs` |
| `Recognise` | | detector and worker with the queue of ranges | `RecogniseProofs` |
| `Blocks` | | the searcher of header tones and blocks, and the loop that takes them | `RecogniseProofs` |
| `Codec`, `Tones` | | pure: symbols to texts; tones to symbols with erasures | `DecodeProofs` |
| `Decode`, `MCDecode` | extends `Codec`, `Tones` | a phone that sings a text, the air, and the speaker | `DecodeProofs` |
| `NetConfig` | | registration sessions, their threads, timer and bind request | `NetConfigProofs` |
| `LightQueue` | | abstract: what the lights are promised | |
| `Lights` | `LightQueue` (refinement) | the light commands, the ring, the thread `Customer` | `PeripheralsProofs` |
| `Keys` | | keys, touch keys and the two long-press threads | `PeripheralsProofs` |

`Upgrade` treats a download as one step that returns 0 or -1 and update.conf as
one value; `Download` and `ReportFile` are what happens inside. Of the bytes in
update.zip `Upgrade` says nothing: 0 is also returned for an empty file, an error
page long enough and a file whose pieces are misplaced, and what may then be
said of them is `SuccessHasSize` and `InOrder` of `Download`. `Capture`
puts the actions of `Recorder` beside those of the threads after it: what
`Recorder` leaves as one callback, `Capture` splits. `Recognise` starts where
`Capture` ends (the history's position), `Blocks` inside the worker's analysis,
`Decode` where a block's tones are known. `NetConfig` has a recogniser and a
recorder per session as a few states each.

### Upgrade

`mainPc` is where `main()` stands: `check`, `clear`, `rewrite`, `post` are the
start (`CheckUpgradeResult`, the profile write of `FirstBoot`,
`GetUpgradeInfo`), `loop`, `test`, `create`, `mark` are the handling of
`PKT_VERSION_UPDATE`. `pc[t]` is where a `Do_Download2` thread stands. The
shared globals are `dlUrl` and `dlPath` (`dl_param`), `stage` (`upgStage`) and
`report` (`newUpgReport`); each action is a run of statements between two
accesses to them, so that TLC interleaves threads exactly where the code can
be interrupted. A thread's copy of `dl_param` is its own (`copyUrl`, `toZip`),
but `DownLoadInit2` is given pointers into the global one and copies from there
again, without the terminator: that is what `Garbled` stands for. The disk is
`zip` (which thread opened it, for which address, and whether that thread's
transfer has returned 0) and `conf` (absent, torn by
`O_TRUNC`, or whole). `Die` may happen at any time and keeps only the disk.

`stomped` is a history variable: a thread that flashed writes `END` once before
and once after it sends `PKT_SYSTEM_SHUTDOWN`, and an update accepted in
between loses its `ING`. The properties of one download at a time hold unless
that happened. In the device the master ends on that packet and the processes
with it, so the window is short, but nothing in the upgrade process closes it.

`FlashOwnDownload` is about whose file is flashed: the global `dl_param`, the
stage and update.zip are shared, and a second thread would remove, open again or
be in the middle of filling the file a first one hands to `upgrade_app`.
`ConfRecordsUpgrade` is about whose result is written, not about its number: see
the type's comment under the departures below.

### Download

The package is the sequence of its offsets, so `file` shows which byte was
written where. `from` is the curl handle's `RESUME_FROM`, which stays set from
one request to the next; `offset` is the argument of
`Aawant_Download_From_Offset`. A transfer delivers pieces (`Receive`), an error
page (`ReceivePage`), a piece that does not fit (`ShortWrite`), and ends with
`CURLE_OK` after any of them (`TransferOk`) or with an error (`TransferBroken`).

### ReportFile

The file is the line `[UPDATE]` and a line per entry. Of each text only its kind
is kept: plain, blank, empty, with a bracket, `NONE`, or containing the name of
another entry and an equals sign, since these are what `strstr`, `sscanf` and
the search for the end of the section react to. `snprintf` keeps 511
characters, a write may be short, and the process may end between any two steps
(`Die`). `written` and `due` are history variables: the report last written, and
whether the next start owes it. `Excused` names every way in which a text may
come back as another one.

### Master

A connection is one start of a client process. `peer` is the kernel's table of
descriptors, which the code does not see; `slots` and `route` are the
descriptors the code remembers. One round is `Select`, possibly `Accept`, and
`ServeSlot` for the slots of the mask in order. `Kind` groups the packets that
are handled alike, as the comment on `TargetOf` says. A send to a descriptor
whose process has ended ends the master (`SIGPIPE` has its default action).

### Frames

A packet is a length (`HeadLen` units) and a body; every unit knows its packet,
which the program does not. `Send_Packet` is two calls that put as much as the
kernel's buffer takes each time (`PutUnits`), so two threads of one process can
mix (`mixed`); a send that times out leaves half a packet (`cut`); a read that
waits ten seconds is given up and the connection closed (`late`). The properties
say what holds unless one of these three happened, and mixing really needs two
threads of one process: other connections never matter.

### Recorder and Capture

`queue_write` and `queue_read` hold the mutex throughout, so each is one
action; setting the event after `queue_write` gave the mutex back is another.
The bytes of the periods are numbered, so `heard` shows what was lost, repeated
or torn. `Capture` replaces the callback by `GetBuffer` and `Fill`
(`bdw_write`), and adds `vr_stopRecognize`'s null buffer, the reset of the pool
when `vrr_run` begins, and `cb_write`. No lock keeps `cb_read` of the worker
away from `cb_write`, so `Process` is its copy only, `writing` says how many bytes
were copied and not yet counted, and `MovePos` is the `pos +=` after it.
`CbRead` is `cb_read` as an operator, whose argument `seen` is the position it
compared with, which may be older than `pos`. `HistoryReads` quantifies over
every read that could be made at every moment and with every such position, and
excludes exactly the bytes that are written over: those before
`pos + writing - History`. `cb_read`'s own test lets some of them pass, which is
listed below.
`dropped` counts buffers the reset emptied. It is assumed that the null buffer
comes after `vrr_run` began; `NetConfig` has the case where it comes before
(`late`).

### Recognise

`runPc` is where `vrr_run` stands and `workPc` where `pvp_realProcess` does.
`queue` holds the ranges with their fields; a new one is pushed blank and
filled in two more steps (`FillStart`, `FillEnd`), as the code does. Whether an
event holds a signal is a choice; the four flags of the detector are the counter
`quiet`. A wait without a predicate is `lock`, `wait`, `look`: a broadcast that
finds the worker before `wait` is lost, and `missed` remembers it. The worker
reads a range's start twice, for `processPos` and for `recognizePos`, which are
`BeginProcess` and `BeginRecognize`; `torn` remembers that the detector stored it
in between. `Crashed` is a negative length given to `memcpy` while a range is half
filled, and an assertion that failed because of such a start. `AssertsHold`
excuses the equality of the two positions after `torn`, and nothing else.

### Blocks, Codec, Tones and Decode

`Blocks` is `struct BlockSearcher` with its cache of headers: per time step the
spectrum holds a strong peak, a weak one or none. Which of several candidates
counts as the weakest, the core of a long tone, and whether a grown tone is a new
one depend on amplitudes and are choices. `failed` is set where the code
asserts. `handed` is the sequence of blocks given to the recognition.

`Codec` is the decoders of `voiceRecog.c` as operators: characters of 4, 5, 6, 7
and 8 bits, texts with their type, and every kind of message, with the assertions
on its type and length (`ok`). A message's own first symbol says its type
(`InfoType`), which is what the application dispatches on; the enumeration is in
a header outside the repository, so the types are constants that need only differ
(`TypesAssumption`). The long messages (`vr_bs_...`, which puts each block at a
fixed offset and counts the bytes) and the FS, ZS and XZ messages are in the
library but not called by the application: they stand apart in `Codec`, take no
part in `Decode`, and are checked against their formats by the assumptions
`OthersReadBack` and `BlocksCompose` of `MCDecode`.

`Tones` is the search of `mrl_onStopRecognition2`: a
signal is the tokens it may be, and `Outcomes` what a block can have come to after
each of its signals, one outcome for each way of taking them; a block with a
token too many or too few is cut or filled; suspect and filled ones are erasures.
`loopBlock` calls itself for the next block from inside the search of this one:
`Through` is what the branches that got through each block go on with. The
Reed-Solomon decoder is external and taken as ideal: it corrects what is within
its reach, and the check sum admits nothing but what was sent.

`Decode` plays the messages of `MCInfos` through both: every format of a text,
every type of the application and one it does not know, which it shows as it is.
Noise is met by the short messages of one or two texts, as a lost, doubtful, doubled or
wrong tone at every position. `Understood` is the switch of
`recorderRecognizerEnd` on the decoded message's type: what the phone meant is
not known to it. `damage` is what the correction must repair, and `Bearable` what
it can: a block has no more signals than are looked at, at most one wrong symbol
or two that are marked (in a short last block not its correction symbols), nothing
leans on them, and no start tone stands for a symbol at an edge. `InfoArrives`
says both that whatever is decoded is what was told, and that bearable damage
does not keep it from being decoded. Of the phone, which is external,
`InfosAssumption` says that it writes what it tells the way the decoder of that
type reads it; TLC evaluates that for every message, so that a decoder with a
wrong count at a boundary, or a switch that goes to another one, fails the run.
The inverse of each decoder is written in `MCDecode` from the format, not from
the decoder, so it is a reference definition for `Codec`.

### NetConfig

`mainPc` is `main()`'s thread: the packet loop, the steps of
`RecorderVoiceRecog`, and the transfer of a bind request. `ctrlPc` is
`ctrlRecorderVoiceRecognize`, `run[s]` the thread of session `s`'s recogniser,
`timer` the POSIX timer whose handler signals the same condition variable as
`Parse` and a cancel. The flags (`flags`, `wifiInfo`, `regIsTimeOut`,
`isRegCancel`) are the program's, with what they keep from one session to the
next. The name, the password and the user id heard may be
empty, as `Parse` takes a string's rest for what it is: only an empty name is
tested for. The end of a session is five steps (`TestTimeOut`, `TestCancel`,
`ClearInfo`, `SendTimeOut`, `Finish`), since `main()` may take a cancel between any
two. One that comes after `isRegCancel` was read is too late: the report of
a time-out is decided (`Decided`) and goes out, and the session does not count as
`cancelled`. `answers[s]`, `expired`, `cancelled`, `leftover`, `late` and `unstarted`
are history variables that name the sessions in which something special
happened; the properties say which of them excuse what.

### Lights

The ring is six `struct LedData` long and every transfer is one of them, so a
record is the unit of the cursors. No lock covers both sides, so each access to a
cursor of the other side is an action: `TestEmpty`, `TestOrder`, `TestRoom`, `Put`,
`Advance` and `Wrap` are `rb_write`, whose `rb_can_write` reads `rcursor` up to three
times, and `CompareCursors`, `ReadEqual`, `ReadOrder`, `ReadCount`, `ReadAhead` and
`ReadBehind` are `rb_read`. `wcursor` stands at the end of the buffer for one step
(`Advance` to `Wrap`), unless the compiler makes one store of the two. `Show`
stands for `ioctl` and `write_blns`; a record is the number of its command.

`min(count, rb_can_read(rb))` is a macro that evaluates `rb_can_read` twice: `round`
says which time it is, and `Readable` what its value leads to. When `main()`
stores a second record between the two, the first value is compared and the
second is copied, two records into the room of one. `readPc` is then `overrun`:
what lies behind the thread's `struct LedData` on its stack is overwritten, and
what the thread does after that is not modelled.

`Lights` implements `LightQueue` with the records between the cursors as the
waiting ones, up to the first spurious wake-up, after which the thread reads
from an empty ring and its cursor passes the other, or the first overrun.
`SignalledHasRecord` says that the overrun has no other cause, and
`InsideBuffer` that nothing is written outside the ring and nothing else is read
there, even then. A ring of two records, with room for one, is excluded by
`SizesAssumption`: in it a command dropped while the thread is about to read
wakes it again for nothing. A signal given while the thread shows a record is lost,
and its record stays in the ring until another command comes; nothing in
the code promises otherwise, so no property says so. `pthread_cond_wait` is called
the first time with a mutex that is not held, and is taken to work.

### Keys

`keyPc` is the key thread, which never takes `gmutex`; `pressPc[t]` the
two long-press threads (`main()` and the key thread both call
`Long_Press_Ctrl`, which initialises the mutex and the condition variable a
second time: a thread that waited on the old one is `deaf`). Time is a count of
`LONG_PRESS_PERIOD`s that passes only when every thread waits, sleeps or polls.
`heldFor` and `upFor` say how long the key really is down or up; `said` is what
was sent for the present press; `missed`, `torn` and `others` name the
interleavings the properties exclude. Autorepeat (value 2) and the wrap of the
32-bit time are left out.

## 3. Runs

Every run is expected to pass. Each checks the properties of one part of the
system, and each of them has a mutant in `PROJECT.json` that breaks it.

| Run (module) | Properties | Bounds, and why they are enough |
|---|---|---|
| `upgrade` (`Upgrade`) | `OneDownload`, `FlashOwnDownload`, `ReportAtMostOnce`, `ConfRecordsUpgrade`, `UpdateAnswered` | 2 packages, 2 threads, 2 updates, 3 lives: one update can be ignored or overtake another, a report is written, sent, and there is a start after that |
| `download` (`Download`) | `InOrder`, `SuccessHasSize` | 4 bytes, 3 tries, pages and surplus of a few bytes: a first request, a short reply, a second request, a broken connection and its resumption all fit |
| `reportfile` (`ReportFile`) | `SentIsWritten`, `SentUnlessLost` | 8 kinds of text, one odd text per report, 2 reports, 3 lives: each entry can be odd before and behind each other, and a second report can overwrite a lost one |
| `master` (`Master`) | `SlotsOpen`, `StrayOnlyWhenGone`, `ClientServed` | 3 client starts, 2 slots, 3 descriptors, one packet waiting: a client replaces another, one finds no slot, a descriptor is reused |
| `frames` (`MCFrames`) | `TakenWhole`, `SentIsHandled` | 2 processes, one of them with 2 sending threads; head and body of 2 units, a kernel buffer of 5: a send stops in a head, between head and body and in a body |
| `recorder` (`Capture`) | `ImplementsStream`, `QueuedIsHeard`, `HistoryReads`, `AllIsWritten`, `StopReturns` | periods of 2 bytes, a queue of 7, buffers of 3 + 1, 2 of them, a history of 5, 6 periods: lengths that do not divide each other, so that each circle wraps at each position, and is full and empty; a read is made between the copy and the move of the position, too |
| `recognise` (`Recognise`) | `AssertsHold`, `OutcomeIsTrue`, `QuitLeavesOnlyMissed`, `StopHeard` | 8 buffers, a history of 4, a queue of 2 ranges: a range is overwritten before it is read or filled while it is begun, and the queue is full |
| `blocks` (`Blocks`) | `SearcherAsserts`, `BlocksChain` | 20 steps of sound, a cache of 4 headers: a signal with more blocks than the cache holds, and a second one after it |
| `decode` (`MCDecode`) | `InfoArrives` | blocks of 6 symbols with 2 for correction; every format and every type once, noise twice at any tones of one short message and once at those of 18 with two texts, 2 plays: as much damage as can be repaired, and more |
| `netconfig` (`NetConfig`) | `ReportComplete`, `TimeoutIsReal`, `EndedIsAnswered`, `FreedWhenQuit`, `BindAnsweredOnce`, `BindsReported`, `SessionEnds` | 2 sessions, a name and a user and the empty text for each part, 1 spurious wake-up: what the first leaves behind is met by the second |
| `lights` (`Lights`) | `ImplementsQueue`, `InsideBuffer`, `SignalledHasRecord` | a ring of 3 records (the smallest with room for two), 7 commands: it is full, wraps twice, a second record comes between two reads of a cursor, and 2 spurious wake-ups put its cursors out of step |
| `keys` (`Keys`) | `PressAnswered`, `LongWasHeld`, `LongIsReported` | the mute key, the power key and a touch key, a long press of 3 periods: released before, at and after its end |

`TypeOK` is checked in `upgrade`; that of the other modules with proofs is a part
of their proved invariants.

Bounds on counters are constants named `Max...` in the modules.
`CHECK_DEADLOCK FALSE` is said where the program may really stop: a download
that has returned, a process that is down and not started again, a master that
has ended or waits for its clients, a recorder or recogniser after its end, a
network configuration service with no more commands, sound that is over, lights
without commands. `keys` has deadlock checked: its events never run out.

### Fairness

* `Upgrade!FairSpec`: weak fairness of `main()`'s start and handling and of each
  download thread, but for the places in `Unlimited`. The kernel schedules each
  thread, and outside these places its calls are local or have a limit (the
  reports 3 s and 4 s, the sends 60 s). Three have none: the request for the length
  (`upg_download.c:35-40`, no time-out is set), the loop around the requests for
  the data (`upg_download.c:1023-1032`, which ends only when enough has come or a
  request fails), and `system(upgrade_app)`. A thread may stay in any of them for
  good, and `UpdateAnswered` allows that. There is no fairness on updates
  arriving, on dying, or on starting again.
* `Master!MasterFairSpec` and `Frames!FairSpec`: weak fairness of the master's round
  or step. There is none on clients: they may stop sending, or end.
* `Capture!CaptureFairSpec`: weak fairness of the recording thread (the device
  answers each read, with a period or with an error after which it is read again),
  of the reading thread, of `stopRecord`'s joining, and of the recogniser's
  thread. Nothing forces `stopRecord` to be called or a spurious wake-up. The
  wait's time-out of `0x7fffffff` ms (24 days) is taken as never.
* `NetConfig!FairSpec`: weak fairness of `main()`'s steps inside a start, of the
  control thread, of the recogniser's threads, and of the timer. The timer is
  enabled only once `main()` is back in its loop or transfers a request to bind
  and the control thread runs: 20 s are longer than a start takes. No fairness is
  on strings being heard, on a cancel, or on `stopRecord` returning, which
  is why `SessionEnds` allows a control thread that stays in it.
* `Recognise!FairSpec`: weak fairness of the worker only. That it hears the stop
  does not depend on sound.
* `Keys!KeysFairSpec`: weak fairness of the key thread, of the two long-press
  threads and of time. Time passes only while every thread waits, sleeps or
  polls: a thread is faster than `LONG_PRESS_PERIOD`.

### Where the code departs from what one would expect

Each of these was met while modelling. The modules do what the code does, and
the properties name the case they exclude; none is a run of its own.

Upgrade and download:

* `AawantUpgrade.c:1225`: `dl_param` is overwritten before the stage that is
  there to ignore the packet is looked at.
* `AawantUpgrade.c:1248`: the stage becomes `ING` after the thread was created; a
  thread that fails first leaves it `ING` for good.
* `upg_download.c:371`: a resumption adds the request's offset to the bytes
  already downloaded, so one after a short reply and a broken connection skips
  part of the package.
* A report is lost when the process ends between clearing `FirstBoot` and the
  post, or inside the rewriting of `update.conf`; it is cut off after 511 characters.
* `AIcom_profile.c`: an entry is found with `strstr`, so one text may hide the
  next. When an entry is only in a later section the line of that section's
  header is lost; `update.conf` has one section, so this cannot be seen here.
* `AawantUpgrade.c:561`: the comment numbers the report's type 1 for a success, 2
  for a failed check and 3 for a failed upgrade. What is stored is what
  `FlashImgData` returned, which is the raw status of `system()`: 0 for a success,
  256 for an exit with 1, -1 when nothing was started; 3 is assigned for a failed
  download (`DownloadFailed`), and 1 and 2 are never. `ConfRecordsUpgrade` says that the
  status is the right thread's, and nothing of what a server makes of it.
* The request for the package's length has no time-out, the loop around the
  requests for its data no bound, and `system(upgrade_app)` neither: a thread that
  stays in one of them leaves the stage `ING` and sends nothing.
* `upg_download.c:137-142`, `962` and `1023`: a download returns 0 for a length of 0
  and for an error page of at least the expected length.
* The report is posted to `updateUrl`, the address of the package, and
  `ReportDownloadResult` (`AawantUpgrade.c:431`) takes the packet's `ids` as its
  address.

Master and transport:

* `AawantMain.c:152`: descriptor variables are not cleared when a client closes,
  and descriptors are reused: a packet can reach a process of another kind.
* `AIUComm.c:141-146` and `248-268`: a send whose body timed out returns the full
  length.
* A client that died makes the master's send raise `SIGPIPE`, which ends it.

Voice:

* `recorder.c:409-423`: nobody sets the event for the reading thread that
  `stopRecord` joins, so it may never return.
* `vrr_run` empties the pool of buffers when it starts: buffers the recorder has
  filled by then are lost, and so is a stop.
* `voiceRecognizer.c:937`: a range is pushed before it is filled; a worker that
  reads it in between computes a negative length for `memcpy`.
* After a range that was out of date the reader's `firstBuffer` keeps its value,
  so what is left of that range stays in front of the next.
* `voiceRecognizer.c:2363-2379`: `cb_write` copies first and moves `pos` afterwards,
  and `cb_read` (2393-2421) compares with `pos` only, without a lock: a read of the
  oldest bytes in between, or one that goes on meanwhile, brings new sound for old.
* `voiceRecognizer.c:2054-2055`: the start of a range is read twice. When the range
  was pushed blank (937) and its start is stored (940) in between, the assertion
  of line 2124 fails.

Peripherals:

* `ringbuffer.c:11` and `87`: `min` evaluates `rb_can_read` twice, so two records may
  be copied to a `struct LedData` when the second comes in between.

Network configuration:

* `VoiceConnectService.c:119`: `flags_WifiName` is never cleared.
* `VoiceConnectService.c:103-115`: a password or a user id of no characters is taken,
  and a report with an empty one is sent; only the name's length is tested.
* `VoiceConnectService.c:562-572`: a cancel (756) between the test of `isRegCancel`
  and `regstatus = FINISH` is answered by the report of a time-out.
* A reply to a bind request that comes in pieces, or an error of curl other than
  28, leaves the master without an answer.
* `RequestBinding` copies the reply to where the callback put it: both happen to
  point at `TMP_PATH_BUFFER`.

## 4. Proofs

The proofs hold for every value of the constants under the named assumptions of
the modules (each is called `...Assumption` and stands under the CONSTANTS it is
about), which TLC evaluates in the runs.

* **`ProcessProofs`.** Of `Upgrade`: `Inv` is `TypeOK` with
  `StageInv` (unless `stomped`: at most one thread runs, and while one does
  the stage is `ING`, or `main()` is between creating it and marking),
  `ZipInv` (unless `stomped`, the running thread owns update.zip once it opened it,
  and its transfer has ended when it goes on to flash it), `ReportInv` (the report names the running
  thread's update and, from `RecordType` on, its result) and `BootInv` (the
  write in update.conf was posted only if its `FirstBoot` is 0 or could not be
  cleared). `OneDownload` is not inductive without the first: that a second
  thread cannot be started depends on what the stage and `main()`'s position
  say of the first. Theorems: `OneDownloadHolds`, `FlashOwnDownloadHolds`,
  `ConfRecordsUpgradeHolds` (an action property), `ReportAtMostOnceHolds`.

  Of `Master`: `SlotsOpen` depends on each connection being in at
  most one place (`OnePlace`: the backlog or one descriptor), and
  `StrayOnlyWhenGone` on `RouteReachesCurrent` (a route is the descriptor of the
  connection whose identity was taken last, as long as that is open).
* **`UpgradeFilesProofs`.** `InOrder` needs to know what `offset`, `from` and `pos`
  are in each stage of a history of short replies only, and of broken
  connections only; the invariant says so for each. That a success is then the
  whole package needs `Sized` too: the size compared with is the package's, and a
  file in order is never longer than it. `SuccessHasSize` needs
  `Len(file) = downloaded + surplus`, with `file` a sequence.

  Of `ReportFile`: `FaithfulInv` says that the file, as far as it has lines at all,
  consists of the first `whole` lines of the report `written`, but for the line of
  `FirstBoot`, and perhaps of one more that was cut off; and so does the buffer
  that is to be put back. A text is then read from the first line in which `strstr`
  finds its name, which is its own unless a text before it is odd (`Excused`) or the
  end of the section comes first; the lemmas `FoundBy`, `MissingWhy`, `ReadTrue` and
  `StopIs` follow the two searches through the lines. `SentIsWrittenHolds` is that for each entry.
  `SentUnlessLostHolds` needs `DueInv` as well: a report that is due is whole in the
  file until it is read, and afterwards either was sent or has in it the text that
  kept its address from being read.
* **`PeripheralsProofs`.** `EndInv` says when a cursor may stand at the end of the
  buffer, which `InsideBuffer` needs and which does not depend on how the thread
  was woken. `OwedInv` says that, with no spurious wake-up, the ring holds a
  record for each signal that is owed an answer and never fills its last
  place, and what `main()` still knows of the cursors it has compared: the thread
  may have moved its own meanwhile, but only so that there is more room.
  `CallInv` says the same of the thread's side, in the call for the record and in
  the one for the rest that may follow it. From these follow `SignalledHasRecord` and that the cursors never pass each
  other. `ImplementsQueueHolds` is the whole refinement: each step of
  the ring is `Accept`, `Drop`, `Take` or `Show` of `LightQueue`, or leaves its
  state alone. The lemmas on `Content` say what one record more or less between
  the cursors is as a sequence.

  Of `Keys`: the key thread writes the flags without the lock, so that no flag alone
  tells where a press stands. `MuteOnly` relates them to the key thread's position
  until another key is pressed; `AnswerInv` says who may have marked a press long: a
  thread that is still to report it or has reported it (`said`), and `torn` marks the
  one case in which the mark of a press is wiped by the thread of the press before.
  From it follows `PressAnsweredHolds`: the key thread keeps silent on a release only
  if somebody else speaks. `LongWasHeldHolds` needs `HeldInv`, that no thread has
  measured more than the key was down: a thread that slept looks at the key before
  time passes again, so none sleeps on while the key is up.
* **`RecorderProofs`.** Positions in the queue are counted modulo its capacity;
  the lemmas `ModOnce`, `After...` and `ByPosition` say that a position is that of
  at most one waiting byte, `WriteAppends` that `queue_write`, in one or two
  pieces, appends exactly the period, and `ReadTakesAll` that `queue_read` takes
  all of it and leaves the queue empty. With them each step of `Capture`, whose
  callback is in two parts, is a step of `AudioStream` or leaves its state
  alone, for any `Capacity` above `Period`.
  `HistoryReads` and `AllIsWritten` rest on `CaptureInv`, which says where in
  the sound each stage stands: `Writer` how much of the buffer being filled is
  overlap and how much new, `Waiting` that the `k`th buffer of the pool holds the
  sound from `k` steps behind the history's next byte, `Sent` that these and
  the position account for all the callbacks gave, and `Passed` that the bytes
  of the last `History` positions lie at their places in the circle, the positions
  counted from the end of what is copied (`pos + writing`) and not from `pos`. None is
  inductive alone: what `Process` copies is what waited, what waits is what was
  filled. The reset of the pool at the start (`dropped`) shifts all of them by
  whole steps. The lemma `ModShift` on places in a circle is the only
  number theory needed.
* **`FramesProofs`.** The invariant speaks of the flow of a connection: what
  the master has read of the head or body it is in, followed by what the kernel
  holds. `Framed` says that a flow is made of packets cut off at the front and
  the end only, each thread's in the order sent; `Starts` that it starts where
  the master is, `Ends...` that it ends where the sending thread is, or with a
  packet. The lemmas `SuffixFramed` and `AppendFramed` are about sequences
  alone: what is read and what is put leave a flow framed, however the calls cut
  it. A connection on which two threads mixed or a send gave up is left out of
  account, but for `Origins` (its units are still its own threads'), so that
  it cannot disturb another. `TakenWholeHolds` follows.
* **`NetConfigProofs`.** `PlaceInv` says where `main()` and the control thread
  can stand together, `StopInv` which session's recogniser still lives and
  why, `ReasonInv` what woke the control thread (a flag, the timer or a cancel of
  this session, unless there was a spurious wake-up), `DecidedInv` what it has read of these when it reports, `HeardInv` in which session
  each part of `wifiInfo` was heard, `BindInv` what the transfer has told the
  master. None of the properties is inductive: that a report belongs to its
  session is a matter of which flags were cleared when it started. All safety
  properties of the run are proved.
* **`RecogniseProofs`.** `DetectInv` relates the detector's counters to the range
  it is building, `RangeInv` the ranges of the queue to each other and to the
  history (in order, apart by the distance, only the last unfinished, and only it
  half filled), `WorkInv` the worker's position to the oldest range, `BufferInv`
  its buffer to what it has read, `StopInv` what is left when it ends. `BufferInv`
  relates the two positions only once both are read and unless they were read
  apart (`torn`). The
  worker looks at the range in steps between which the detector may extend,
  finish or push one, so each says what stays true of the oldest range
  meanwhile (`LastGrows`).

  Of `Blocks`: `SearchInv` has two forms for a signal that goes on. `Searching` is
  between two headers: the last two are known and a symbol apart, `unsed` is what
  `ok` is or nothing, and the tone being heard is younger than they are. `Found` is
  after a header, with one place less. `HandedTo` says how many blocks have been
  handed on and at which header they end, which is why the next one starts
  there; `Outcome`, proved of each operation (`FreedIs`, `PlaceHeaderIs`,
  `EndToneIs`, `ListenIs`), says that what is removed is never a header a block was
  handed on for. That no block goes by before the recognition starts needs the
  ages: nothing remembered is older than the signal (`Later`), and the first block
  is not handed on before a full block and a gap, which is more than `StartSize`
  (18 steps against 5.6 for each symbol of a block). That inequality is the only
  assumption on sizes the proof adds to the program's own comparisons. `MaxTime`, which
  keeps a signal finite in the run, may be anything.
* **`DecodeProofs`.** `InfoArrives` for any block size, messages and noise, with two
  correction symbols (`RS_CORRECT_SIZE`, as it is built). The
  search tries every way of taking the signals, so the proof follows one of them:
  `Tracks` says of a block that, where nothing leans on its damage, some outcome of
  its signals has the symbols that were sent wherever nothing hurt them, has marked
  the damage that was marked, and knows the last two symbols and the last
  token, which `Overlap` and `Overlap2` need (`Chained`). It says so for any two
  symbols the block before may have left, since `loopBlock` goes on with what was read
  there and not with what the correction made of it; only the last of them matters,
  and only where the block starts with `Overlap` (`Carries`). Each tone keeps
  `Tracks` (`StepSymbol`, `StepStart`, `StepSurplus`, `StepLose`).
  `MiddleWord` and `LastWord` say what the word is that is cut, padded or filled
  from such an outcome, `InReach` that its wrong symbols and erasures are within the
  correction, and `Arrives` that the search therefore gets through all blocks.

  `DecodeInv` is `AirInv` and `KnownInv`. `AirInv` has, beside `Tracks` for every
  block heard (`Followed`), that the damage lies in what has passed (`InAir`), and that
  there are neither too many signals nor too few for `mrl_onStopRecognition2`
  (`Counted`). `KnownInv` is `InfoArrives` and that nothing is decoded while a message
  is being played.

  Assumed are the ideal correction and check sum, which are in `Tones`, that the
  types differ (`TypesAssumption`), and `InfosAssumption`: that what a decoder of `Codec` makes of a text's symbols is the
  text is an induction over data, and TLC's. The decoders of the tones
  are recursive functions over the length of a sequence; their equations are proved
  from `Recursion` and `Induction`, which are about functions and sets and so need
  no operator as a parameter.

Only model-checked:

* the liveness properties (`UpdateAnswered`, `ClientServed`, `QueuedIsHeard`,
  `StopReturns`, `SessionEnds`, `StopHeard`, `SentIsHandled`, `LongIsReported`),
  because fairness and ENABLED are out of the prover's reach;
* that each decoder of `Codec` reads what a phone writes (`InfosAssumption`,
  evaluated for the information of `MCInfos`), and that the functions without a
  caller read back and compose what was written (`OthersReadBack`,
  `BlocksCompose`).

## 5. Not modelled

* Floating point: the spectrum, the detector of signals, the choice among
  candidate tones by amplitude, `VolumeDetector`. Each result is a choice.
* Restarting and pausing a recogniser (`vrr_pause`): nothing that is built calls
  it. The branches of `mmsq_...` for several queues of ranges: one queue is added.
* The table of input devices, filled by `scan_dir` and by `inotify`. A device
  that appears between `inotify_add_watch` and `scan_dir` is opened twice;
  `close_device` does not close its descriptor, and does not shift
  `device_type_nfds` with the table. It takes part in no property of the keys.
* What follows an overrun of the lights' ring, or a failed assertion: the stack is
  overwritten or the process has ended.
* The older download path (`Aawant_StartDownLoad`, `Do_Download`) and sectional
  packages: nothing starts them. The same holds for the functions of the TCP and
  profile libraries that nothing calls.
* `ReportDownloadResult`, the post itself and the `HttpClient` wrapper: network
  calls whose result is ignored and which change no state of the process.
* The player and encoder, and `VoiceConnectIf.c`, which is compiled out.
* `PROC_KEYEVENT`, `PROC_LED`, `KeyReportThread.java`: earlier versions outside
  the build.
* Logs, `AIcom_Log`, virtual memory helpers and MD5: pure output or pure functions
  no modelled behaviour depends on. The test client.
* Time: a `select` whose time-out has become 0 takes the same steps as one that
  waits (`AawantUpgrade.c:1031` sets it once before its loop).

## 6. What could follow

1. `Upgrade` composed with `Download`, its transfer as the steps of one: then what
   is flashed could be said to be in order, or exactly how it may not be, across
   interrupted updates and not for one download alone.
2. The table of input devices as a module of its own, composed with `Keys`.
