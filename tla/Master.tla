------------------------------- MODULE Master -------------------------------
(***************************************************************************)
(* The master process (PROC_AAWANT): it accepts the other processes on a    *)
(* Unix socket, remembers which descriptor each kind of process identified *)
(* itself on, and forwards packets to those descriptors.                   *)
(*                                                                         *)
(* A connection is one start of a client process.  Descriptors are reused  *)
(* by the kernel, and the variables that hold them are never cleared.      *)
(***************************************************************************)
EXTENDS Integers, Sequences

CONSTANTS
    Conn,      \* connections, one for each start of a client process
    Role,      \* kinds of client process; see Initialised and TargetOf
    Kind,      \* packets the clients send after their identity
    NumSlots,  \* CLIENT_SOCKET_NUM
    NumFds,    \* descriptors the master can have open for clients
    MaxQueue   \* bound: packets of one client the master has not read

ASSUME SizesAssumption ==
    NumSlots \in Nat \ {0} /\ NumFds \in Nat \ {0} /\ MaxQueue \in Nat \ {0}

ASSUME NamesAssumption == "nobody" \notin Conn /\ "reply" \notin Role

VARIABLES
    serverPc, \* where StartAawantServer stands; "accept" only after a knock
    mask,    \* readmask: the descriptors of slots its for loop has yet to reach
    slots,   \* iClientSocketList
    route,   \* iot_socket, alarm_socket, upgrade_socket, ...
    peer,    \* the kernel's table: which connection a descriptor is
    backlog, \* connections the kernel has made and nobody has accepted
    conn,    \* whether the process at the other end is there
    role,    \* the kind of that process
    out,     \* packets it sent that the master has not read
    \* History, read by no action of the program:
    last,    \* what the master sent when it served the last slot
    current  \* for each role, the connection whose identity was taken last

serverVars  == <<serverPc, mask>>
tableVars   == <<slots, route>>
clientVars  == <<backlog, conn, role, out>>
historyVars == <<last, current>>
masterVars == <<serverVars, tableVars, peer, clientVars, historyVars>>

Fd     == 1 .. NumFds
Slot   == 1 .. NumSlots
Nobody == "nobody"
Unset  == -1

\* The only variables of a role that StartAawantServer initialises.
Initialised == {"iot", "alarm", "upgrade"}

\* The variable a packet is forwarded to, or "none".  BIND_OK stands also for
\* WIFI_CONNECT and MEDIA_STATUS, VERSION_UPDATE for SYSTEMTASK_STATUS, BLNS
\* for both BLNS packets; RECEIVE_WIFI_INFO is the one without time-out.
TargetOf(kind) ==
    CASE kind = "BIND_OK"                                            -> "iot"
      [] kind = "ALARM_SETUP"                                        -> "alarm"
      [] kind = "VERSION_UPDATE"                                     -> "upgrade"
      [] kind = "BLNS"                                               -> "perip"
      [] kind \in {"READY_NETCONFIG", "WAKEUP", "RECEIVE_WIFI_INFO"} -> "voice"
      [] OTHER                                                       -> "none"

FreeFds   == {fd \in Fd : peer[fd] = Nobody}
FreeSlots == {s \in Slot : slots[s] = 0}

\* For loops go through the slots, and the kernel through its table, upwards.
Lowest(x, S) == x \in S /\ \A y \in S : x <= y

-----------------------------------------------------------------------------
\* perip_socket, test_socket and voice_socket hold what was on the stack.
\* AIEU_DomainListenForConnection: a socket under the name of an earlier one,
\* that nobody has connected to.
ListenForConnection == backlog = <<>>

MasterInit ==
    /\ serverPc = "serve" /\ mask = {}
    /\ slots = [s \in Slot |-> 0]
    /\ route \in [Role -> Fd \cup {Unset}]
    /\ \A r \in Role \cap Initialised : route[r] = Unset
    /\ peer = [fd \in Fd |-> Nobody]
    /\ ListenForConnection
    /\ conn = [k \in Conn |-> "none"]
    /\ role = [k \in Conn |-> "none"]
    /\ out = [k \in Conn |-> <<>>]
    /\ last = {}
    /\ current = [r \in Role |-> Nobody]

-----------------------------------------------------------------------------
(* The clients.  Each connects and says what it is, then sends packets of  *)
(* any kind, and may end at any time, before it is accepted too; all end   *)
(* when the master does.                                                   *)

Connect(k, r) ==
    /\ serverPc # "exited" /\ conn[k] = "none"
    /\ conn' = [conn EXCEPT ![k] = "there"]
    /\ role' = [role EXCEPT ![k] = r]
    /\ out' = [out EXCEPT ![k] = <<"CLIENT_IDENTITY">>]
    /\ backlog' = Append(backlog, k)
    /\ UNCHANGED <<serverVars, tableVars, peer, historyVars>>

Send(k, kind) ==
    /\ serverPc # "exited" /\ conn[k] = "there" /\ Len(out[k]) < MaxQueue
    /\ out' = [out EXCEPT ![k] = Append(@, kind)]
    /\ UNCHANGED <<serverVars, tableVars, peer, backlog, conn, role, historyVars>>

Leave(k) ==
    /\ serverPc # "exited" /\ conn[k] = "there"
    /\ conn' = [conn EXCEPT ![k] = "gone"]
    /\ UNCHANGED <<serverVars, tableVars, peer, backlog, role, out, historyVars>>

-----------------------------------------------------------------------------
(* One round of the master: select, accept, and each readable slot.        *)

\* The other end sent something, or has ended.
Readable(fd) == out[peer[fd]] # <<>> \/ conn[peer[fd]] = "gone"

\* The slots the for loop has still to serve.
Pending == {s \in Slot : slots[s] # 0 /\ slots[s] \in mask}

\* The loop has passed every slot: a new round, if there is anything to do.
Select ==
    /\ serverPc = "serve" /\ Pending = {}
    /\ mask' = {fd \in Fd : (\E s \in Slot : slots[s] = fd) /\ Readable(fd)}
    /\ \/ backlog # <<>> /\ serverPc' = "accept"
       \/ backlog = <<>> /\ mask' # {} /\ serverPc' = "serve"
    /\ last' = {}
    /\ UNCHANGED <<tableVars, peer, clientVars, current>>

\* The kernel hands out the lowest free descriptor; without one accept fails
\* and the master exits.  With every slot taken the descriptor is forgotten.
Accept ==
    /\ serverPc = "accept"
    /\ \/ /\ FreeFds = {}
          /\ serverPc' = "exited" /\ UNCHANGED <<slots, peer, backlog>>
       \/ /\ \E fd \in FreeFds :
                /\ Lowest(fd, FreeFds)
                /\ peer' = [peer EXCEPT ![fd] = Head(backlog)]
                /\ \/ FreeSlots = {} /\ slots' = slots
                   \/ \E s \in FreeSlots : /\ Lowest(s, FreeSlots)
                                            /\ slots' = [slots EXCEPT ![s] = fd]
          /\ backlog' = Tail(backlog)
          /\ serverPc' = "serve"
    /\ UNCHANGED <<mask, route, conn, role, out, historyVars>>

\* Faulty variant of Advance: the for loop is left after one slot.
AdvanceOnce(s) == mask' = {} /\ serverPc' = serverPc

Advance(s) == mask' = mask \ {slots[s]} /\ serverPc' = serverPc

\* Faulty variant of CloseSlot: the slot keeps the descriptor.
CloseSlotOnly(s) ==
    /\ peer' = [peer EXCEPT ![slots[s]] = Nobody]
    /\ Advance(s) /\ last' = {}
    /\ UNCHANGED <<slots, route, out, current>>

\* AAWANTGetPacket found the connection closed: the descriptor and the slot
\* are given up, and nothing else.
CloseSlot(s) ==
    /\ peer' = [peer EXCEPT ![slots[s]] = Nobody]
    /\ slots' = [slots EXCEPT ![s] = 0]
    /\ Advance(s) /\ last' = {}
    /\ UNCHANGED <<route, out, current>>

\* Faulty variant of TakeIdentity: the first process of a kind stays the one.
TakeFirstIdentity(s, k) ==
    /\ route' = IF route[role[k]] = Unset
                THEN [route EXCEPT ![role[k]] = slots[s]] ELSE route
    /\ current' = [current EXCEPT ![role[k]] = k]
    /\ Advance(s) /\ last' = {}

\* PKT_CLIENT_IDENTITY: the variable of the client's role is this descriptor.
TakeIdentity(s, k) ==
    /\ route' = [route EXCEPT ![role[k]] = slots[s]]
    /\ current' = [current EXCEPT ![role[k]] = k]
    /\ Advance(s) /\ last' = {}

\* AAWANTSendPacket to descriptor fd of something meant for a role.  One that
\* is not open (Unset too, where the code has no test) is an error nobody looks
\* at; one whose other end has ended raises SIGPIPE, which nobody ignores.
SendTo(fd, meant, s) ==
    LET k == IF fd \in Fd THEN peer[fd] ELSE Nobody IN
    \/ /\ k # Nobody /\ conn[k] = "gone"
       /\ serverPc' = "exited" /\ mask' = {} /\ last' = {}
    \/ /\ k # Nobody /\ conn[k] # "gone"
       /\ Advance(s) /\ last' = {[to |-> k, for |-> meant]}
    \/ /\ k = Nobody
       /\ Advance(s) /\ last' = {}

\* A packet of any other kind; FACTORY_RESET and its like change nothing.
TakePacket(s, kind) ==
    /\ \/ /\ kind = "SYSTEM_SHUTDOWN"
          /\ serverPc' = "exited" /\ mask' = {} /\ last' = {}
       \/ /\ kind = "GET_DEVICEINFO"
          /\ SendTo(slots[s], "reply", s)
       \/ /\ TargetOf(kind) \in Role
          /\ SendTo(route[TargetOf(kind)], TargetOf(kind), s)
       \/ /\ kind \notin {"SYSTEM_SHUTDOWN", "GET_DEVICEINFO"}
          /\ TargetOf(kind) \notin Role
          /\ Advance(s) /\ last' = {}
    /\ UNCHANGED <<route, current>>

\* An empty queue with the descriptor in the mask: recv found the end.
TakeFromSlot(s, k) ==
    \/ out[k] = <<>> /\ CloseSlot(s)
    \/ /\ out[k] # <<>>
       /\ out' = [out EXCEPT ![k] = Tail(@)]
       /\ IF Head(out[k]) = "CLIENT_IDENTITY"
          THEN TakeIdentity(s, k)
          ELSE TakePacket(s, Head(out[k]))
       /\ UNCHANGED <<slots, peer>>

ServeSlot ==
    /\ serverPc = "serve"
    /\ \E s \in Pending : Lowest(s, Pending) /\ TakeFromSlot(s, peer[slots[s]])
    /\ UNCHANGED <<backlog, conn, role>>

Round == Select \/ Accept \/ ServeSlot

MasterNext ==
    \/ \E k \in Conn, r \in Role : Connect(k, r)
    \/ \E k \in Conn, kind \in Kind : Send(k, kind)
    \/ \E k \in Conn : Leave(k)
    \/ Round

MasterSpec == MasterInit /\ [][MasterNext]_masterVars

\* The kernel runs the master whenever select has something to report.
MasterFairSpec == MasterSpec /\ WF_masterVars(Round)

-----------------------------------------------------------------------------
(* Properties.                                                             *)

MasterTypeOK ==
    /\ serverPc \in {"serve", "accept", "exited"}
    /\ mask \subseteq Fd
    /\ slots \in [Slot -> Fd \cup {0}]
    /\ route \in [Role -> Fd \cup {Unset}]
    /\ peer \in [Fd -> Conn \cup {Nobody}]
    /\ backlog \in Seq(Conn)
    /\ conn \in [Conn -> {"none", "there", "gone"}]
    /\ role \in [Conn -> Role \cup {"none"}]
    /\ out \in [Conn -> Seq(Kind \cup {"CLIENT_IDENTITY"})]
    /\ last \subseteq [to : Conn, for : Role \cup {"reply"}]
    /\ current \in [Role -> Conn \cup {Nobody}]

\* Every slot in use holds a descriptor of its own that is open: the master
\* never waits on, reads from or closes a descriptor that is not a client's.
SlotsOpen ==
    \A s \in Slot : slots[s] # 0 =>
        /\ peer[slots[s]] # Nobody
        /\ \A x \in Slot : slots[x] = slots[s] => x = s

\* However descriptors are closed and reused, and in whatever order the end of
\* the old process and the start of the new one are noticed: while the master
\* has the connection of the process that identified itself last as a kind,
\* nothing meant for that kind goes anywhere else.
StrayOnlyWhenGone ==
    \A d \in last : d.for \in Role =>
        \A fd \in Fd : peer[fd] # Nobody /\ peer[fd] = current[d.for]
                         => peer[fd] = d.to

HasPacket(k) == out[k] # <<>> /\ \E s \in Slot : slots[s] # 0 /\ peer[slots[s]] = k

\* A client in a slot is served again and again while it has packets waiting,
\* however busy the other clients keep the master.
ClientServed ==
    \A k \in Conn :
        <>[](serverPc # "exited" /\ HasPacket(k)) => []<><<Len(out'[k]) < Len(out[k])>>_masterVars
=============================================================================
