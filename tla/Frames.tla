------------------------------- MODULE Frames -----------------------------
(***************************************************************************)
(* Packets on the connections between the client processes and the master  *)
(* (aawant/src): Send_Packet writes the length of a packet and then the    *)
(* packet with two calls of AIEU_TCPSend, each of them as many send() as   *)
(* the kernel's buffer asks for, and takes no lock: the threads of one     *)
(* process share its connection.  The master reads a length and that many  *)
(* bytes, each within ten seconds, and serves nobody else meanwhile.       *)
(*                                                                         *)
(* A unit stands for some bytes and knows whose packet it is a part of;    *)
(* the program sees a length's digits only.  Signals (EINTR), a lack of    *)
(* memory for a packet as long as it says and the error text a packet may  *)
(* carry are left out; a process connects once.                            *)
(***************************************************************************)
EXTENDS Integers, Sequences, FiniteSets

CONSTANTS
    Conn,        \* connections: one for each client process
    Thread,      \* threads that send
    Uses,        \* the connection of each thread
    HeadLen,     \* units of a length: PKT_PACKET_SIZE_LEN
    Size,        \* units a packet may have
    Capacity,    \* units the kernel holds for a connection
    MaxPackets   \* bound: packets of each thread

ASSUME FramesAssumption ==
    /\ Uses \in [Thread -> Conn]
    /\ HeadLen \in Nat \ {0} /\ Size \subseteq Nat \ {0}
    /\ Capacity \in Nat \ {0} /\ MaxPackets \in [Thread -> Nat]

VARIABLES
    sendPc,   \* where a thread is: idle, in the head, in the body, or ended
    size,     \* of the packet it sends or sent last
    put,      \* units of it that went out
    sent,     \* packets it began
    running,  \* the client process runs
    stream,   \* what the kernel holds for each connection
    open,     \* the master's end is open
    pc,       \* the master: between packets, or in one
    ready,    \* connections select() found readable, not served yet
    cur,      \* the one in service
    need,     \* units of the packet to read
    buf,      \* units read so far
    \* History, read by no action of the program:
    handled,  \* the last packet of each thread the master handled
    mixed,    \* two threads were inside a packet at the same time
    cut,      \* a send gave up inside a packet
    late      \* a read gave up inside a packet

senderVars == <<sendPc, size, put, sent, running, mixed, cut>>
masterVars == <<open, pc, ready, cur, need, buf, handled, late>>
vars == <<senderVars, stream, masterVars>>

\* Unit i of the nth packet of thread t, which has s units after its head.
Unit(t, n, s, i) == [by |-> t, nth |-> n, size |-> s, at |-> i]

Units(t, n, s, a, b) == [i \in 1 .. b - a + 1 |-> Unit(t, n, s, a + i - 1)]

\* The units us are a length, or a packet, as a thread sent it.
IsHead(us) == us = Units(us[1].by, us[1].nth, us[1].size, 1, HeadLen)

IsPacket(us) ==
    /\ us # <<>>
    /\ us = Units(us[1].by, us[1].nth, us[1].size, HeadLen + 1, HeadLen + us[1].size)

Smaller(a, b) == IF a <= b THEN a ELSE b

-----------------------------------------------------------------------------
Init ==
    /\ sendPc = [t \in Thread |-> "idle"] /\ size = [t \in Thread |-> 0]
    /\ put = [t \in Thread |-> 0]
    /\ sent = [t \in Thread |-> 0] /\ running = [c \in Conn |-> TRUE]
    /\ stream = [c \in Conn |-> <<>>] /\ open = [c \in Conn |-> TRUE]
    /\ pc = "select" /\ ready = {} /\ cur \in Conn /\ need = 0 /\ buf = <<>>
    /\ handled = [t \in Thread |-> 0]
    /\ mixed = [c \in Conn |-> FALSE] /\ cut = [c \in Conn |-> FALSE]
    /\ late = [c \in Conn |-> FALSE]

-----------------------------------------------------------------------------
(* A thread of a client: AAWANTSendPacket.                                 *)

Sending(t) == sendPc[t] \in {"head", "body"}

\* Where the call of AIEU_TCPSend in progress ends.
CallEnd(t) == IF sendPc[t] = "head" THEN HeadLen ELSE HeadLen + size[t]

BeginSend(t) ==
    /\ sendPc[t] = "idle" /\ sent[t] < MaxPackets[t]
    /\ running[Uses[t]] /\ open[Uses[t]]
    /\ \E s \in Size : size' = [size EXCEPT ![t] = s]
    /\ sendPc' = [sendPc EXCEPT ![t] = "head"]
    /\ put' = [put EXCEPT ![t] = 0]
    /\ sent' = [sent EXCEPT ![t] = @ + 1]
    /\ UNCHANGED <<running, mixed, cut, stream, masterVars>>

\* After a call that ends at unit end: it goes on, the next one, or back.
Return(t, end) ==
    sendPc' = [sendPc EXCEPT ![t] =
        IF put'[t] < end THEN @ ELSE IF @ = "head" THEN "body" ELSE "idle"]

\* send(): what fits.  Another thread may be inside a packet of its own.
PutUnits(t) ==
    LET c == Uses[t]
        room == Capacity - Len(stream[c])
        upto == Smaller(CallEnd(t), put[t] + room)
    IN  /\ Sending(t) /\ running[c] /\ open[c] /\ room > 0
        /\ stream' = [stream EXCEPT
               ![c] = @ \o Units(t, sent[t], size[t], put[t] + 1, upto)]
        /\ put' = [put EXCEPT ![t] = upto]
        /\ Return(t, CallEnd(t))
        /\ mixed' = [mixed EXCEPT ![c] = @ \/ \E u \in Thread \ {t} :
               Uses[u] = c /\ Sending(u) /\ put[u] > 0]
        /\ UNCHANGED <<size, sent, running, cut, masterVars>>

\* select() finds no room within sixty seconds.  A head that did not go out is
\* an error to the caller, a body that did not is not: neither is sent again.
SendTimesOut(t) ==
    LET c == Uses[t]
    IN  /\ Sending(t) /\ running[c] /\ open[c] /\ Len(stream[c]) = Capacity
        /\ sendPc' = [sendPc EXCEPT ![t] = "idle"]
        /\ cut' = [cut EXCEPT ![c] = @ \/ put[t] > 0]
        /\ UNCHANGED <<size, put, sent, running, mixed, stream, masterVars>>

\* The process ends, by itself or because the master's end is closed and
\* SIGPIPE is not ignored.
ClientEnds(c) ==
    /\ running[c]
    /\ running' = [running EXCEPT ![c] = FALSE]
    /\ sendPc' = [t \in Thread |-> IF Uses[t] = c THEN "ended" ELSE sendPc[t]]
    /\ UNCHANGED <<size, put, sent, mixed, cut, stream, masterVars>>

-----------------------------------------------------------------------------
(* The master: its loop over the readable connections, AAWANTGetPacket.    *)

\* A connection has something to read, or its end to report.
Readable(c) == open[c] /\ (stream[c] # <<>> \/ ~running[c])

Select ==
    /\ pc = "select" /\ ready = {}
    /\ \E c \in Conn : Readable(c)
    /\ ready' = {c \in Conn : Readable(c)}
    /\ UNCHANGED <<senderVars, stream, open, pc, cur, need, buf, handled, late>>

\* AIEU_CheckRecvBuffer peeks: there is something, not the end.
CheckRecvBuffer(c) == stream[c] # <<>>

\* The slot is closed and what the kernel still holds for it is gone.
CloseConn(c) ==
    /\ open' = [open EXCEPT ![c] = FALSE]
    /\ stream' = [stream EXCEPT ![c] = <<>>]
    /\ pc' = "select" /\ need' = 0 /\ buf' = <<>>
    /\ UNCHANGED <<senderVars, ready, cur, handled>>

TakeConn ==
    /\ pc = "select"
    /\ \E c \in ready :
        /\ ready' = ready \ {c} /\ cur' = c
        /\ CheckRecvBuffer(c)
        /\ pc' = "head"
    /\ UNCHANGED <<senderVars, stream, open, need, buf, handled, late>>

TakeEnded ==
    /\ pc = "select"
    /\ \E c \in ready :
        /\ ready' = ready \ {c} /\ cur' = c
        /\ ~CheckRecvBuffer(c)
        /\ open' = [open EXCEPT ![c] = FALSE]
        /\ stream' = [stream EXCEPT ![c] = <<>>]
    /\ UNCHANGED <<senderVars, pc, need, buf, handled, late>>

\* recv(): what is there, at most what is wanted.
Recv(wanted) ==
    LET n == Smaller(wanted - Len(buf), Len(stream[cur]))
    IN  /\ n > 0
        /\ buf' = buf \o SubSeq(stream[cur], 1, n)
        /\ stream' = [stream EXCEPT ![cur] = SubSeq(@, n + 1, Len(@))]

ReadHead ==
    /\ pc = "head" /\ Len(buf) < HeadLen
    /\ Recv(HeadLen)
    /\ UNCHANGED <<senderVars, open, pc, ready, cur, need, handled, late>>

\* atoi(): of a length as it was sent that length, of anything else any.
Lengths(us) ==
    IF IsHead(us) THEN {us[1].size} ELSE {0} \cup Size \cup {Capacity + 1}

TakeLength ==
    /\ pc = "head" /\ Len(buf) = HeadLen
    /\ \E n \in Lengths(buf) : need' = n
    /\ pc' = "body" /\ buf' = <<>>
    /\ UNCHANGED <<senderVars, stream, open, ready, cur, handled, late>>

\* malloc() of what was no length may fail.
RefuseLength ==
    /\ pc = "head" /\ Len(buf) = HeadLen /\ ~IsHead(buf)
    /\ CloseConn(cur) /\ UNCHANGED late

ReadBody ==
    /\ pc = "body" /\ Len(buf) < need
    /\ Recv(need)
    /\ UNCHANGED <<senderVars, open, pc, ready, cur, need, handled, late>>

\* The packet is handed to the master.
Handle ==
    /\ pc = "body" /\ Len(buf) = need
    /\ handled' = IF IsPacket(buf)
                  THEN [handled EXCEPT ![buf[1].by] = buf[1].nth] ELSE handled
    /\ pc' = "select" /\ need' = 0 /\ buf' = <<>>
    /\ UNCHANGED <<senderVars, stream, open, ready, cur, late>>

\* More is wanted of the connection in service than there is.
Wanting ==
    /\ stream[cur] = <<>>
    /\ \/ pc = "head" /\ Len(buf) < HeadLen
       \/ pc = "body" /\ Len(buf) < need

\* Faulty variant of GiveUp: the connection is kept for another try.
GiveUpKeeping ==
    /\ pc' = "select" /\ need' = 0 /\ buf' = <<>>
    /\ UNCHANGED <<senderVars, stream, open, ready, cur, handled>>

\* An error flag other than EINTR closes the connection.
GiveUp == CloseConn(cur)

\* Faulty variant of ReadTimesOut: the wait has no limit.
ReadWaits == FALSE /\ UNCHANGED vars

\* Ten seconds passed, in the head or in the body.
ReadTimesOut ==
    /\ Wanting /\ running[cur]
    /\ GiveUp
    /\ late' = [late EXCEPT ![cur] = TRUE]

\* recv() returns 0: the process has ended.
ReadEnds ==
    /\ Wanting /\ ~running[cur]
    /\ GiveUp
    /\ UNCHANGED late

-----------------------------------------------------------------------------
Sender(t) == BeginSend(t) \/ PutUnits(t) \/ SendTimesOut(t)

MasterStep ==
    \/ Select \/ TakeConn \/ TakeEnded
    \/ ReadHead \/ TakeLength \/ RefuseLength \/ ReadBody \/ Handle
    \/ ReadTimesOut \/ ReadEnds

Next ==
    \/ \E t \in Thread : Sender(t)
    \/ \E c \in Conn : ClientEnds(c)
    \/ MasterStep

Spec == Init /\ [][Next]_vars

\* The master's loop runs, and its waits end; a client may stop anywhere.
FairSpec == Spec /\ WF_vars(MasterStep)

-----------------------------------------------------------------------------
\* However sends and reads are cut into pieces, and however slow the client
\* is: unless two of its threads sent at the same time or a send gave up half
\* way (AIUComm.c 82-147), what the master handles (218-230) is one packet,
\* whole, and not one it has handled before.
TakenWhole ==
    pc = "body" /\ Len(buf) = need /\ ~mixed[cur] /\ ~cut[cur] =>
        IsPacket(buf) /\ buf[1].nth > handled[buf[1].by]

\* A packet that went out whole is handled, whatever the other clients do or
\* leave half done and even if the sender ends at once: only a read that gave
\* up on this connection (AIUComm.c 211) or mixed packets lose it.
SentIsHandled ==
    \A t \in Thread : \A n \in 1 .. MaxPackets[t] :
        (sent[t] = n /\ put[t] = HeadLen + size[t] /\ ~cut[Uses[t]])
            ~> (handled[t] >= n \/ mixed[Uses[t]] \/ cut[Uses[t]] \/ late[Uses[t]])
=============================================================================
