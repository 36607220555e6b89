---------------------------- MODULE ProcessProofs ----------------------------
(***************************************************************************)
(* The two processes that serve others.                                    *)
(*                                                                         *)
(* The master (module Master), for any clients, roles, slots and           *)
(* descriptors: MasterInv relates the slots, the descriptors, the backlog, *)
(* the routes and the identities.                                          *)
(*                                                                         *)
(* The upgrade process (module Upgrade), for any set of package addresses, *)
(* any set of threads and any bounds.  TypeOK is inductive.  The safety    *)
(* properties are not: each follows from one part of the strengthening     *)
(* below, which relates main()'s place, the stage and the places of the    *)
(* threads (StageInv), and on top of it the package file (ZipInv), the     *)
(* report in memory (ReportInv) and the report on disk (BootInv).          *)
(***************************************************************************)
EXTENDS Master, Upgrade, TLAPS

-----------------------------------------------------------------------------
(* The master.                                                              *)

\* A connection is in the backlog once, or behind one descriptor, or neither.
OnePlace ==
    /\ \A a, b \in DOMAIN backlog : backlog[a] = backlog[b] => a = b
    /\ \A fd \in Fd, a \in DOMAIN backlog : peer[fd] # backlog[a]
    /\ \A fd, g \in Fd : peer[fd] # Nobody /\ peer[fd] = peer[g] => fd = g

\* Who has connected has a role, and whose identity was taken was accepted.
Known ==
    /\ \A a \in DOMAIN backlog : conn[backlog[a]] # "none"
    /\ \A fd \in Fd : peer[fd] # Nobody => conn[peer[fd]] # "none"
    /\ \A r \in Role : current[r] # Nobody => conn[current[r]] # "none"
    /\ \A r \in Role, a \in DOMAIN backlog : current[r] # backlog[a]
    /\ \A k \in Conn : conn[k] # "none" => role[k] \in Role

\* A role's variable is the descriptor of the process that identified itself
\* last, while the master has that process's connection.
RouteReachesCurrent ==
    \A r \in Role : \A fd \in Fd :
        peer[fd] # Nobody /\ peer[fd] = current[r] => route[r] = fd

Knock == serverPc = "accept" => backlog # <<>>

MasterInv == MasterTypeOK /\ SlotsOpen /\ OnePlace /\ Known /\ RouteReachesCurrent
              /\ Knock /\ StrayOnlyWhenGone

-----------------------------------------------------------------------------
(* The backlog is a queue.                                                 *)

LEMMA AppendEntries ==
    ASSUME NEW S, NEW q \in Seq(S), NEW x \in S
    PROVE  /\ Append(q, x) \in Seq(S) /\ Len(Append(q, x)) # 0
           /\ \A a \in DOMAIN Append(q, x) :
                \/ a \in DOMAIN q /\ Append(q, x)[a] = q[a]
                \/ a = Len(q) + 1 /\ Append(q, x)[a] = x
  OBVIOUS

LEMMA EntryType ==
    ASSUME NEW S, NEW q \in Seq(S), NEW a \in DOMAIN q
    PROVE  q[a] \in S
  OBVIOUS

LEMMA TailEntries ==
    ASSUME NEW S, NEW q \in Seq(S), q # <<>>
    PROVE  /\ Tail(q) \in Seq(S)
           /\ Head(q) \in S /\ 1 \in DOMAIN q /\ Head(q) = q[1]
           /\ \A a \in DOMAIN Tail(q) :
                a + 1 \in DOMAIN q /\ a + 1 # 1 /\ Tail(q)[a] = q[a + 1]
           /\ \A a, b \in DOMAIN Tail(q) : a + 1 = b + 1 => a = b
  OBVIOUS

-----------------------------------------------------------------------------
(* The clients' steps.                                                     *)

LEMMA ConnectKeeps ==
    ASSUME MasterInv, NEW k \in Conn, NEW r \in Role, Connect(k, r)
    PROVE  MasterInv'
  <1> USE DEF MasterInv
  <1>1. MasterTypeOK'
    <2>1. <<"CLIENT_IDENTITY">> \in Seq(Kind \cup {"CLIENT_IDENTITY"})
      OBVIOUS
    <2>2. backlog' \in Seq(Conn)
      BY AppendEntries DEF Connect, MasterTypeOK
    <2> QED  BY <2>1, <2>2 DEF Connect, MasterTypeOK, serverVars, tableVars, historyVars
  <1>2. SlotsOpen'
    BY DEF Connect, SlotsOpen, serverVars, tableVars, historyVars
  <1>3. \A a \in DOMAIN backlog' :
          \/ a \in DOMAIN backlog /\ backlog'[a] = backlog[a]
          \/ a = Len(backlog) + 1 /\ backlog'[a] = k
    BY AppendEntries DEF Connect, MasterTypeOK
  <1>4. /\ \A a \in DOMAIN backlog : backlog[a] # k
        /\ \A fd \in Fd : peer[fd] # k
        /\ \A q \in Role : current[q] # k
    BY NamesAssumption DEF Connect, Known, Nobody, MasterTypeOK
  <1>5. OnePlace'
    <2>1. \A a, b \in DOMAIN backlog' : backlog'[a] = backlog'[b] => a = b
      BY <1>3, <1>4 DEF OnePlace
    <2>2. \A fd \in Fd, a \in DOMAIN backlog' : peer[fd] # backlog'[a]
      BY <1>3, <1>4 DEF OnePlace
    <2> QED  BY <2>1, <2>2 DEF OnePlace, Connect
  <1>6. Known'
    <2>1. \A x : conn[x] # "none" /\ x \in Conn => conn'[x] # "none"
      BY DEF Connect, MasterTypeOK
    <2>2. conn'[k] # "none" /\ role'[k] = r
      BY DEF Connect, MasterTypeOK
    <2>3. \A a \in DOMAIN backlog' : conn'[backlog'[a]] # "none"
      <3>1. \A a \in DOMAIN backlog : backlog[a] \in Conn
        BY EntryType DEF MasterTypeOK
      <3> QED  BY <1>3, <2>1, <2>2, <3>1 DEF Known
    <2>4. \A fd \in Fd : peer[fd] # Nobody => conn'[peer[fd]] # "none"
      BY <2>1 DEF Known, MasterTypeOK
    <2>5. \A q \in Role : current[q] # Nobody => conn'[current[q]] # "none"
      BY <2>1 DEF Known, MasterTypeOK
    <2>6. \A q \in Role, a \in DOMAIN backlog' : current[q] # backlog'[a]
      BY <1>3, <1>4 DEF Known
    <2>7. \A x \in Conn : conn'[x] # "none" => role'[x] \in Role
      BY DEF Known, Connect, MasterTypeOK
    <2> QED  BY <2>3, <2>4, <2>5, <2>6, <2>7 DEF Known, Connect, historyVars
  <1>7. RouteReachesCurrent' /\ StrayOnlyWhenGone'
    BY DEF RouteReachesCurrent, StrayOnlyWhenGone, Connect, tableVars, historyVars
  <1>8. Knock'
    <2>1. serverPc' = "accept" => backlog # <<>>
      BY DEF Knock, Connect, serverVars
    <2>2. Len(Append(backlog, k)) # 0 /\ Len(<<>>) = 0
      BY AppendEntries DEF MasterTypeOK
    <2> QED  BY <2>2 DEF Knock, Connect
  <1> QED  BY <1>1, <1>2, <1>5, <1>6, <1>7, <1>8

LEMMA SendKeeps ==
    ASSUME MasterInv, NEW k \in Conn, NEW kind \in Kind, Send(k, kind)
    PROVE  MasterInv'
  <1> USE DEF MasterInv
  <1>1. MasterTypeOK'
    <2>1. Append(out[k], kind) \in Seq(Kind \cup {"CLIENT_IDENTITY"})
      BY DEF MasterTypeOK
    <2> QED
      BY <2>1 DEF Send, MasterTypeOK, serverVars, tableVars, historyVars
  <1>2. SlotsOpen' /\ OnePlace' /\ Known' /\ RouteReachesCurrent' /\ Knock'
          /\ StrayOnlyWhenGone'
    BY DEF Send, SlotsOpen, OnePlace, Known, RouteReachesCurrent, Knock,
           StrayOnlyWhenGone, serverVars, tableVars, historyVars
  <1> QED  BY <1>1, <1>2

LEMMA LeaveKeeps ==
    ASSUME MasterInv, NEW k \in Conn, Leave(k)
    PROVE  MasterInv'
  <1> USE DEF MasterInv
  <1>1. MasterTypeOK'
    BY DEF Leave, MasterTypeOK, serverVars, tableVars, historyVars
  <1>2. SlotsOpen' /\ OnePlace' /\ RouteReachesCurrent' /\ Knock' /\ StrayOnlyWhenGone'
    BY DEF Leave, SlotsOpen, OnePlace, RouteReachesCurrent, Knock,
           StrayOnlyWhenGone, serverVars, tableVars, historyVars
  <1>3. \A x \in Conn : conn'[x] # "none" <=> conn[x] # "none"
    BY DEF Leave, MasterTypeOK
  <1>4. Known'
    BY <1>3 DEF Leave, Known, MasterTypeOK, historyVars
  <1> QED  BY <1>1, <1>2, <1>4

-----------------------------------------------------------------------------
(* The master's steps.                                                     *)

LEMMA SelectKeeps ==
    ASSUME MasterInv, Select
    PROVE  MasterInv'
  <1> USE DEF MasterInv
  <1>1. MasterTypeOK'
    BY DEF Select, MasterTypeOK, tableVars, clientVars
  <1>2. SlotsOpen' /\ OnePlace' /\ Known' /\ RouteReachesCurrent' /\ Knock'
          /\ StrayOnlyWhenGone'
    BY DEF Select, SlotsOpen, OnePlace, Known, RouteReachesCurrent, Knock,
           StrayOnlyWhenGone, tableVars, clientVars
  <1> QED  BY <1>1, <1>2

\* The connection accepted is no role's yet, and its descriptor was closed.
LEMMA AcceptKeeps ==
    ASSUME MasterInv, Accept
    PROVE  MasterInv'
  <1> USE DEF MasterInv
  <1>a. CASE serverPc' = "exited" /\ UNCHANGED <<slots, peer, backlog>>
    <2>1. MasterTypeOK'
      BY <1>a DEF Accept, MasterTypeOK, historyVars
    <2>2. SlotsOpen' /\ OnePlace' /\ Known' /\ RouteReachesCurrent' /\ Knock'
            /\ StrayOnlyWhenGone'
      BY <1>a DEF Accept, SlotsOpen, OnePlace, Known, RouteReachesCurrent, Knock,
             StrayOnlyWhenGone, historyVars
    <2> QED  BY <2>1, <2>2
  <1>b. ASSUME NEW fd \in FreeFds,
               peer' = [peer EXCEPT ![fd] = Head(backlog)],
               \/ slots' = slots
               \/ \E s \in FreeSlots : slots' = [slots EXCEPT ![s] = fd],
               backlog' = Tail(backlog), serverPc' = "serve"
        PROVE  MasterInv'
    <2> DEFINE k == Head(backlog)
    <2>0. UNCHANGED <<mask, route, conn, role, out, last, current>>
      BY DEF Accept, historyVars
    <2>1. backlog \in Seq(Conn) /\ backlog # <<>>
      BY DEF Accept, Knock, MasterTypeOK
    <2>2. /\ backlog' \in Seq(Conn) /\ k \in Conn /\ 1 \in DOMAIN backlog
          /\ k = backlog[1]
          /\ \A a \in DOMAIN backlog' :
               a + 1 \in DOMAIN backlog /\ a + 1 # 1 /\ backlog'[a] = backlog[a + 1]
          /\ \A a, b \in DOMAIN backlog' : a + 1 = b + 1 => a = b
      BY <1>b, <2>1, TailEntries
    <2>3. fd \in Fd /\ peer[fd] = Nobody /\ fd # 0
      BY <1>b DEF FreeFds, Fd
    <2>4. /\ peer'[fd] = k
          /\ \A g \in Fd : g # fd => peer'[g] = peer[g]
          /\ peer' \in [Fd -> Conn \cup {Nobody}]
      BY <1>b, <2>2, <2>3 DEF MasterTypeOK
    <2>5. slots' \in [Slot -> Fd \cup {0}]
      BY <1>b, <2>3 DEF MasterTypeOK, FreeSlots
    <2>6. k # Nobody /\ (\A g \in Fd : peer[g] # k) /\ (\A r \in Role : current[r] # k)
      BY <2>2, NamesAssumption DEF OnePlace, Known, Nobody
    <2>7. MasterTypeOK'
      BY <1>b, <2>0, <2>2, <2>4, <2>5 DEF MasterTypeOK
    <2>8. SlotsOpen'
      <3>1. \A s \in Slot : slots[s] # 0 => slots[s] \in Fd /\ slots[s] # fd
        BY <2>3 DEF SlotsOpen, MasterTypeOK
      <3>2. CASE slots' = slots
        BY <2>3, <2>4, <3>1, <3>2 DEF SlotsOpen
      <3>3. ASSUME NEW s \in FreeSlots, slots' = [slots EXCEPT ![s] = fd]
            PROVE  SlotsOpen'
        <4>1. s \in Slot /\ slots'[s] = fd /\ \A x \in Slot : x # s => slots'[x] = slots[x]
          BY <3>3 DEF FreeSlots, MasterTypeOK
        <4>2. ASSUME NEW x \in Slot, slots'[x] # 0
              PROVE  /\ peer'[slots'[x]] # Nobody
                     /\ \A y \in Slot : slots'[y] = slots'[x] => y = x
          <5>1. CASE x = s
            BY <2>4, <2>6, <3>1, <4>1, <5>1, <2>3
          <5>2. CASE x # s
            BY <2>4, <3>1, <4>1, <4>2, <5>2 DEF SlotsOpen
          <5> QED  BY <5>1, <5>2
        <4> QED  BY <4>2 DEF SlotsOpen
      <3> QED  BY <1>b, <3>2, <3>3
    <2>9. OnePlace'
      <3>1. \A a, b \in DOMAIN backlog' : backlog'[a] = backlog'[b] => a = b
        BY <2>2 DEF OnePlace
      <3>2. \A g \in Fd, a \in DOMAIN backlog' : peer'[g] # backlog'[a]
        BY <2>2, <2>4 DEF OnePlace
      <3>3. \A g, h \in Fd : peer'[g] # Nobody /\ peer'[g] = peer'[h] => g = h
        BY <2>4, <2>6 DEF OnePlace
      <3> QED  BY <3>1, <3>2, <3>3 DEF OnePlace
    <2>10. Known'
      <3>1. \A a \in DOMAIN backlog' : conn[backlog'[a]] # "none"
        BY <2>2 DEF Known
      <3>2. \A g \in Fd : peer'[g] # Nobody => conn[peer'[g]] # "none"
        BY <2>2, <2>4 DEF Known
      <3>3. \A r \in Role, a \in DOMAIN backlog' : current[r] # backlog'[a]
        BY <2>2 DEF Known
      <3> QED  BY <2>0, <3>1, <3>2, <3>3 DEF Known
    <2>11. \A g \in Fd, r \in Role :
             peer'[g] # Nobody /\ peer'[g] = current[r] => peer'[g] = peer[g]
      BY <2>4, <2>6
    <2>12. RouteReachesCurrent'
      BY <2>0, <2>11 DEF RouteReachesCurrent
    <2>13. StrayOnlyWhenGone'
      BY <2>0, <2>11 DEF StrayOnlyWhenGone
    <2>14. Knock'
      BY <1>b DEF Knock
    <2> QED  BY <2>7, <2>8, <2>9, <2>10, <2>12, <2>13, <2>14
  <1> QED  BY <1>a, <1>b DEF Accept

\* What serving a slot finds there.
LEMMA Served ==
    ASSUME MasterInv, NEW s \in Pending
    PROVE  /\ s \in Slot /\ slots[s] \in Fd /\ slots[s] # 0
           /\ peer[slots[s]] \in Conn /\ peer[slots[s]] # Nobody
  <1>1. s \in Slot /\ slots[s] # 0 /\ slots[s] \in Fd
    BY DEF Pending, MasterInv, MasterTypeOK
  <1>2. peer[slots[s]] # Nobody
    BY <1>1 DEF MasterInv, SlotsOpen
  <1> QED  BY <1>1, <1>2 DEF MasterInv, MasterTypeOK

LEMMA CloseSlotKeeps ==
    ASSUME MasterInv, NEW s \in Pending, CloseSlot(s), serverPc = "serve",
           UNCHANGED <<backlog, conn, role>>
    PROVE  MasterInv'
  <1> USE DEF MasterInv
  <1>1. s \in Slot /\ slots[s] \in Fd
    BY Served
  <1>2. /\ UNCHANGED <<route, out, current, serverPc>>
        /\ last' = {} /\ mask' \subseteq mask
    BY DEF CloseSlot, Advance
  <1>3. /\ peer'[slots[s]] = Nobody
        /\ \A g \in Fd : g # slots[s] => peer'[g] = peer[g]
        /\ peer' \in [Fd -> Conn \cup {Nobody}]
    BY <1>1 DEF CloseSlot, MasterTypeOK
  <1>4. /\ slots'[s] = 0
        /\ \A x \in Slot : x # s => slots'[x] = slots[x]
        /\ slots' \in [Slot -> Fd \cup {0}]
    BY <1>1 DEF CloseSlot, MasterTypeOK
  <1>5. MasterTypeOK'
    BY <1>2, <1>3, <1>4 DEF MasterTypeOK
  <1>6. SlotsOpen'
    <2>1. ASSUME NEW x \in Slot, slots'[x] # 0
          PROVE  /\ peer'[slots'[x]] # Nobody
                 /\ \A y \in Slot : slots'[y] = slots'[x] => y = x
      <3>1. x # s /\ slots'[x] = slots[x] /\ slots[x] \in Fd
        BY <1>4, <2>1 DEF MasterTypeOK
      <3>2. slots[x] # slots[s]
        BY <1>1, <2>1, <3>1 DEF SlotsOpen
      <3> QED  BY <1>3, <1>4, <2>1, <3>1, <3>2 DEF SlotsOpen
    <2> QED  BY <2>1 DEF SlotsOpen
  <1>7. \A g \in Fd : peer'[g] # Nobody => peer'[g] = peer[g]
    BY <1>1, <1>3
  <1>8. OnePlace' /\ Known'
    <2>1. \A a \in DOMAIN backlog : backlog[a] \in Conn
      BY EntryType DEF MasterTypeOK
    <2>2. \A a \in DOMAIN backlog : backlog[a] # Nobody
      BY <2>1, NamesAssumption DEF Nobody
    <2> QED  BY <1>2, <1>7, <2>2 DEF OnePlace, Known
  <1>9. RouteReachesCurrent' /\ Knock' /\ StrayOnlyWhenGone'
    BY <1>2, <1>7 DEF RouteReachesCurrent, Knock, StrayOnlyWhenGone
  <1> QED  BY <1>5, <1>6, <1>8, <1>9

LEMMA TailType ==
    ASSUME MasterInv, NEW k \in Conn, out[k] # <<>>, out' = [out EXCEPT ![k] = Tail(@)]
    PROVE  out' \in [Conn -> Seq(Kind \cup {"CLIENT_IDENTITY"})]
  <1>1. out[k] \in Seq(Kind \cup {"CLIENT_IDENTITY"})
    BY DEF MasterInv, MasterTypeOK
  <1>2. Tail(out[k]) \in Seq(Kind \cup {"CLIENT_IDENTITY"})
    BY <1>1, TailEntries
  <1> QED  BY <1>2 DEF MasterInv, MasterTypeOK

LEMMA TakeIdentityKeeps ==
    ASSUME MasterInv, NEW s \in Pending, serverPc = "serve",
           TakeIdentity(s, peer[slots[s]]),
           out' \in [Conn -> Seq(Kind \cup {"CLIENT_IDENTITY"})],
           UNCHANGED <<slots, peer, backlog, conn, role>>
    PROVE  MasterInv'
  <1> DEFINE k == peer[slots[s]]
  <1> USE DEF MasterInv
  <1>1. s \in Slot /\ slots[s] \in Fd /\ k \in Conn /\ k # Nobody
    BY Served
  <1>2. conn[k] # "none" /\ role[k] \in Role
    BY <1>1 DEF Known
  <1>3. mask' \subseteq mask /\ serverPc' = serverPc /\ last' = {}
    BY DEF TakeIdentity, Advance
  <1>4. /\ route'[role[k]] = slots[s] /\ route' \in [Role -> Fd \cup {Unset}]
        /\ \A r \in Role : r # role[k] => route'[r] = route[r]
    BY <1>1, <1>2 DEF TakeIdentity, MasterTypeOK
  <1>5. /\ current'[role[k]] = k /\ current' \in [Role -> Conn \cup {Nobody}]
        /\ \A r \in Role : r # role[k] => current'[r] = current[r]
    BY <1>1, <1>2 DEF TakeIdentity, MasterTypeOK
  <1>6. MasterTypeOK'
    BY <1>3, <1>4, <1>5 DEF MasterTypeOK
  <1>7. SlotsOpen' /\ OnePlace' /\ Knock' /\ StrayOnlyWhenGone'
    BY <1>3 DEF SlotsOpen, OnePlace, Knock, StrayOnlyWhenGone
  <1>8. Known'
    <2>1. \A a \in DOMAIN backlog : k # backlog[a]
      BY <1>1 DEF OnePlace
    <2>2. \A r \in Role : current'[r] \in {current[r], k}
      BY <1>5
    <2>3. \A r \in Role : current'[r] # Nobody => conn[current'[r]] # "none"
      BY <1>2, <2>2 DEF Known
    <2>4. \A r \in Role, a \in DOMAIN backlog : current'[r] # backlog[a]
      BY <2>1, <2>2 DEF Known
    <2> QED  BY <2>3, <2>4 DEF Known
  <1>9. RouteReachesCurrent'
    <2>1. \A fd \in Fd : peer[fd] = k => fd = slots[s]
      BY <1>1 DEF OnePlace
    <2> QED  BY <1>4, <1>5, <2>1 DEF RouteReachesCurrent
  <1> QED  BY <1>6, <1>7, <1>8, <1>9

\* Whatever the packet, what is sent goes to the descriptor route names, or
\* back to where it came from.
LEMMA TakePacketSends ==
    ASSUME MasterInv, NEW s \in Pending, NEW kind, TakePacket(s, kind)
    PROVE  /\ UNCHANGED <<route, current>>
           /\ mask' \subseteq mask
           /\ serverPc' = serverPc \/ serverPc' = "exited"
           /\ \/ last' = {}
              \/ last' = {[to |-> peer[slots[s]], for |-> "reply"]}
              \/ \E r \in Role :
                   /\ route[r] \in Fd /\ peer[route[r]] # Nobody
                   /\ last' = {[to |-> peer[route[r]], for |-> r]}
  <1> USE DEF MasterInv
  <1>1. slots[s] \in Fd
    BY Served
  <1>2. UNCHANGED <<route, current>>
    BY DEF TakePacket
  <1>3. CASE serverPc' = "exited" /\ mask' = {} /\ last' = {}
    BY <1>2, <1>3
  <1>4. CASE SendTo(slots[s], "reply", s)
    BY <1>1, <1>2, <1>4 DEF SendTo, Advance
  <1>5. CASE TargetOf(kind) \in Role /\ SendTo(route[TargetOf(kind)], TargetOf(kind), s)
    BY <1>2, <1>5 DEF SendTo, Advance
  <1>6. CASE Advance(s) /\ last' = {}
    BY <1>2, <1>6 DEF Advance
  <1> QED  BY <1>3, <1>4, <1>5, <1>6 DEF TakePacket

LEMMA TakePacketKeeps ==
    ASSUME MasterInv, NEW s \in Pending, NEW kind, serverPc = "serve", TakePacket(s, kind),
           out' \in [Conn -> Seq(Kind \cup {"CLIENT_IDENTITY"})],
           UNCHANGED <<slots, peer, backlog, conn, role>>
    PROVE  MasterInv'
  <1> USE DEF MasterInv
  <1>1. /\ UNCHANGED <<route, current>>
        /\ mask' \subseteq mask
        /\ serverPc' = "serve" \/ serverPc' = "exited"
    BY TakePacketSends
  <1>2. SlotsOpen' /\ OnePlace' /\ Known' /\ RouteReachesCurrent' /\ Knock'
    BY <1>1 DEF SlotsOpen, OnePlace, Known, RouteReachesCurrent, Knock
  <1>3. last' \subseteq [to : Conn, for : Role \cup {"reply"}] /\ StrayOnlyWhenGone'
    <2>1. CASE last' = {}
      BY <2>1 DEF StrayOnlyWhenGone
    <2>2. CASE last' = {[to |-> peer[slots[s]], for |-> "reply"]}
      BY <2>2, Served, NamesAssumption DEF StrayOnlyWhenGone
    <2>3. ASSUME NEW r \in Role, route[r] \in Fd, peer[route[r]] # Nobody,
                 last' = {[to |-> peer[route[r]], for |-> r]}
          PROVE  last' \subseteq [to : Conn, for : Role \cup {"reply"}]
                   /\ StrayOnlyWhenGone'
      <3>1. peer[route[r]] \in Conn
        BY <2>3 DEF MasterTypeOK
      <3>2. \A fd \in Fd : peer[fd] # Nobody /\ peer[fd] = current[r]
                             => peer[fd] = peer[route[r]]
        BY DEF RouteReachesCurrent
      <3> QED  BY <1>1, <2>3, <3>1, <3>2 DEF StrayOnlyWhenGone
    <2> QED  BY <2>1, <2>2, <2>3, TakePacketSends
  <1>4. MasterTypeOK'
    BY <1>1, <1>3 DEF MasterTypeOK
  <1> QED  BY <1>2, <1>3, <1>4

LEMMA ServeSlotKeeps ==
    ASSUME MasterInv, ServeSlot
    PROVE  MasterInv'
  <1>1. PICK s \in Pending : TakeFromSlot(s, peer[slots[s]])
    BY DEF ServeSlot
  <1>2. serverPc = "serve" /\ UNCHANGED <<backlog, conn, role>>
    BY DEF ServeSlot
  <1>3. CASE CloseSlot(s)
    BY <1>2, <1>3, CloseSlotKeeps
  <1>4. ASSUME out[peer[slots[s]]] # <<>>,
               out' = [out EXCEPT ![peer[slots[s]]] = Tail(@)],
               UNCHANGED <<slots, peer>>,
               \/ TakeIdentity(s, peer[slots[s]])
               \/ TakePacket(s, Head(out[peer[slots[s]]]))
        PROVE  MasterInv'
    <2>1. out' \in [Conn -> Seq(Kind \cup {"CLIENT_IDENTITY"})]
      BY <1>4, Served, TailType
    <2> QED  BY <1>2, <1>4, <2>1, TakeIdentityKeeps, TakePacketKeeps
  <1> QED  BY <1>1, <1>3, <1>4 DEF TakeFromSlot

-----------------------------------------------------------------------------
LEMMA MasterInitInv == MasterInit => MasterInv
  <1> SUFFICES ASSUME MasterInit PROVE MasterInv
    OBVIOUS
  <1>1. MasterTypeOK
    BY DEF MasterInit, ListenForConnection, MasterTypeOK
  <1>2. SlotsOpen /\ OnePlace /\ Knock /\ StrayOnlyWhenGone
    BY DEF MasterInit, ListenForConnection, SlotsOpen, OnePlace, Knock, StrayOnlyWhenGone
  <1>3. Known /\ RouteReachesCurrent
    BY DEF MasterInit, ListenForConnection, Known, RouteReachesCurrent
  <1> QED  BY <1>1, <1>2, <1>3 DEF MasterInv

LEMMA NextInv == MasterInv /\ [MasterNext]_masterVars => MasterInv'
  <1> SUFFICES ASSUME MasterInv, [MasterNext]_masterVars PROVE MasterInv'
    OBVIOUS
  <1>1. ASSUME NEW k \in Conn, NEW r \in Role, Connect(k, r) PROVE MasterInv'
    BY <1>1, ConnectKeeps
  <1>2. ASSUME NEW k \in Conn, NEW kind \in Kind, Send(k, kind) PROVE MasterInv'
    BY <1>2, SendKeeps
  <1>3. ASSUME NEW k \in Conn, Leave(k) PROVE MasterInv'
    BY <1>3, LeaveKeeps
  <1>4. CASE Round
    BY <1>4, SelectKeeps, AcceptKeeps, ServeSlotKeeps DEF Round
  <1>5. CASE UNCHANGED masterVars
    BY <1>5 DEF MasterInv, MasterTypeOK, SlotsOpen, OnePlace, Known, RouteReachesCurrent, Knock,
                StrayOnlyWhenGone, masterVars, serverVars, tableVars, clientVars, historyVars
  <1> QED  BY <1>1, <1>2, <1>3, <1>4, <1>5 DEF MasterNext

\* The inductive invariant holds, under fairness or not.
THEOREM MasterInvariantHolds == MasterSpec => []MasterInv
  BY MasterInitInv, NextInv, PTL DEF MasterSpec

\* The master's tables are well formed: a slot never holds -1, nor the mask
\* anything but descriptors.
THEOREM MasterTypeCorrect == MasterSpec => []MasterTypeOK
  <1>1. MasterInv => MasterTypeOK
    BY DEF MasterInv
  <1> QED  BY <1>1, MasterInvariantHolds, PTL

\* For any number of slots, descriptors and clients: the select loop only ever
\* works on open descriptors, each in one slot.
THEOREM SlotsOpenHolds == MasterSpec => []SlotsOpen
  <1>1. MasterInv => SlotsOpen
    BY DEF MasterInv
  <1> QED  BY <1>1, MasterInvariantHolds, PTL

\* For any number of clients and roles: while the process of a role is there,
\* nothing meant for the role goes astray.
THEOREM StrayOnlyWhenGoneHolds == MasterSpec => []StrayOnlyWhenGone
  <1>1. MasterInv => StrayOnlyWhenGone
    BY DEF MasterInv
  <1> QED  BY <1>1, MasterInvariantHolds, PTL

-----------------------------------------------------------------------------
(* The upgrade process.                                                     *)

\* Before the loop no thread exists.
Starting == {"down", "check", "clear", "rewrite", "post"}

\* A running thread shows in the stage, except while main() is about to set it.
StageInv ==
    /\ mainPc \in Starting => \A t \in Thread : pc[t] = "none"
    /\ ~stomped =>
        /\ \A t, u \in Thread : pc[t] \in Running /\ pc[u] \in Running => t = u
        /\ \A t \in Thread :
             pc[t] \in Running => stage = "ING" \/ mainPc = "mark"
        /\ \A t \in Thread : mainPc = "create" => pc[t] \notin Running

\* From the opening of update.zip to the flash the file is the thread's own.
ZipOf(t) ==
    /\ pc[t] \in {"none", "start", "init", "transfer", "failed"}
         => flashed[t].from = ""
    /\ ~stomped /\ toZip[t] =>
        /\ pc[t] \in {"transfer", "name", "flash"} => zip.owner = t
        /\ pc[t] \in {"name", "flash"} => zip.ended
        /\ flashed[t].from = "/tmp/update.zip"
             => flashed[t].zip.owner = t /\ flashed[t].zip.ended

ZipInv == \A t \in Thread : ZipOf(t)

\* From acceptance to the end of the thread the report is about that thread.
ReportInv ==
    /\ mainPc = "create" => report.url = pkt
    /\ ~stomped => \A t \in Thread :
        /\ pc[t] \in Running => report.url = accepted[t]
        /\ pc[t] \in {"trunc", "write"} => report.type = rs[t]

\* A report on disk that still says FirstBoot=1 was never posted, unless its
\* FirstBoot could not be cleared.
BootInv ==
    /\ conf.id <= writes
    /\ \A id \in posted : id <= writes
    /\ conf.state = "whole" /\ conf.first = 1 /\ conf.id \in posted
         => conf.id \in unclear
    /\ mainPc \in {"clear", "rewrite", "post"} /\ conf.id \in posted
         => conf.id \in unclear
    /\ mainPc = "rewrite" => conf.state = "torn"
    /\ mainPc = "post" /\ conf.state = "whole"
         => conf.first = 0 \/ conf.id \in unclear
    /\ reposted \subseteq unclear

-----------------------------------------------------------------------------
\* The constants of the initial states have their types.
LEMMA TypeFacts ==
    /\ NoUrl \in UrlText /\ Garbled \in UrlText /\ Url \subseteq UrlText
    /\ NoZip \in Zip /\ NotFlashed \in Flashed /\ NoConf \in Conf
    /\ 0 \in FlashResult /\ FlashResult \subseteq ReportType
    /\ {0, 3} \subseteq ReportType
  BY DEF UrlText, NoZip, Zip, NotFlashed, Flashed, NoConf, Conf, Path,
         FlashResult, ReportType

\* Every step keeps the types.
LEMMA TypeStep ==
    ASSUME TypeOK, [Next]_vars
    PROVE  TypeOK'
<1> USE DEF TypeOK,
           mainVars, paramVars, threadVars, diskVars, traceVars, countVars, bootVars
<1>1. CASE Boot
  <2>a. lives \in Nat /\ lives' = lives + 1
    BY <1>1 DEF Boot
  <2>1. lives' \in Nat
    BY ONLY <2>a
  <2>2. QED
    BY <1>1, <2>1, TypeFacts DEF Boot, MainPc, Stage, Path, Status
<1>2. CASE Die
  BY <1>2, TypeFacts DEF Die, MainPc, Pc
<1>3. CASE CheckUpgradeResult
  BY <1>3, TypeFacts DEF CheckUpgradeResult, MainPc
<1>4. CASE TruncateConf
  BY <1>4, TypeFacts DEF TruncateConf, MainPc, Conf
<1>5. CASE RewriteConf
  BY <1>5, TypeFacts DEF RewriteConf, MainPc, Conf
<1>6. CASE ReportUpgradeResult
  BY <1>6, TypeFacts DEF ReportUpgradeResult, MainPc, Stage, Conf
<1>7. ASSUME NEW u \in Url, ReceiveUpdate(u) PROVE TypeOK'
  <2>1. updates' \in Nat
    BY <1>7 DEF ReceiveUpdate
  <2>2. QED
    BY <1>7, <2>1, TypeFacts DEF ReceiveUpdate, MainPc, Path
<1>8. CASE TestStage
  BY <1>8, TypeFacts DEF TestStage, MainPc
<1>9. ASSUME NEW t \in Thread, CreateDownloadThread(t) PROVE TypeOK'
  BY <1>9, TypeFacts DEF CreateDownloadThread, MainPc, Pc, Running
<1>10. CASE MarkStage
  BY <1>10, TypeFacts DEF MarkStage, MainPc, Stage
<1>11. ASSUME NEW t \in Thread, StartDownload(t) PROVE TypeOK'
  BY <1>11, TypeFacts DEF StartDownload, Goto, Status, Pc, Running
<1>12. ASSUME NEW t \in Thread, InitDownload(t) PROVE TypeOK'
  <2>1. PICK x \in {dlUrl} \cup (IF dlUrl = copyUrl[t] THEN {} ELSE {Garbled}) :
          LET isZip  == WithName(dlPath) = "/tmp/update.zip"
              opened == IF isZip THEN [owner |-> t, url |-> x, ended |-> FALSE]
                                 ELSE zip
          IN  /\ copyUrl' = [copyUrl EXCEPT ![t] = x]
              /\ toZip' = [toZip EXCEPT ![t] = isZip]
              /\ \/ zip' = opened /\ Goto(t, "transfer")
                 \/ zip' \in {zip, opened} /\ Goto(t, "failed")
    BY <1>12 DEF InitDownload
  <2>2. x \in UrlText /\ [owner |-> t, url |-> x, ended |-> FALSE] \in Zip
    BY TypeFacts DEF Zip
  <2>3. zip' \in Zip /\ copyUrl' \in [Thread -> UrlText]
        /\ toZip' \in [Thread -> BOOLEAN] /\ pc' \in [Thread -> Pc]
    BY <2>1, <2>2 DEF Goto, Pc, Running
  <2>4. QED
    BY <1>12, <2>3 DEF InitDownload
<1>13. ASSUME NEW t \in Thread, FinishTransfer(t) PROVE TypeOK'
  BY <1>13, TypeFacts DEF FinishTransfer, Goto, Zip, Status, Path, Pc, Running
<1>14. ASSUME NEW t \in Thread, DownloadFailed(t) PROVE TypeOK'
  BY <1>14, TypeFacts DEF DownloadFailed, Goto, Status, Pc, Running
<1>15. ASSUME NEW t \in Thread, NamePackage(t) PROVE TypeOK'
  BY <1>15, TypeFacts DEF NamePackage, Goto, Status, WithName, Path, Pc, Running
<1>16. ASSUME NEW t \in Thread, Flash(t) PROVE TypeOK'
  <2>1. PICK r \in FlashResult :
          /\ rs' = [rs EXCEPT ![t] = r]
          /\ status' = IF r = -1 THEN "UPGRADE_FAIL" ELSE "UPGRADE_SUCESS"
    BY <1>16 DEF Flash
  <2>2. rs' \in [Thread -> FlashResult] /\ status' \in Status
    BY <2>1 DEF Status
  <2>3. [from |-> dlPath,
         zip |-> IF dlPath = "/tmp/update.zip" THEN zip ELSE NoZip] \in Flashed
    BY TypeFacts DEF Flashed
  <2>4. flashed' \in [Thread -> Flashed]
    BY <1>16, <2>3 DEF Flash
  <2>5. pc' \in [Thread -> Pc]
    BY <1>16 DEF Flash, Goto, Pc, Running
  <2>6. QED
    BY <1>16, <2>2, <2>4, <2>5 DEF Flash
<1>17. ASSUME NEW t \in Thread, RecordType(t) PROVE TypeOK'
  BY <1>17, TypeFacts DEF RecordType, Goto, Pc, Running
<1>18. ASSUME NEW t \in Thread, OpenConf(t) PROVE TypeOK'
  BY <1>18, TypeFacts DEF OpenConf, Goto, Conf, Pc, Running
<1>19. ASSUME NEW t \in Thread, WriteConf(t) PROVE TypeOK'
  BY <1>19, TypeFacts DEF WriteConf, Goto, Conf, Pc, Running
<1>20. ASSUME NEW t \in Thread, EndAfterFlash(t) PROVE TypeOK'
  BY <1>20, TypeFacts DEF EndAfterFlash, Goto, Stage, Pc, Running
<1>21. ASSUME NEW t \in Thread, RequestShutdown(t) PROVE TypeOK'
  BY <1>21, TypeFacts DEF RequestShutdown, Goto, Pc
<1>22. ASSUME NEW t \in Thread, EndThread(t) PROVE TypeOK'
  BY <1>22, TypeFacts DEF EndThread, Goto, Stage, Pc, Running
<1>23. CASE UNCHANGED vars
  BY <1>23 DEF vars
<1>24. QED
  BY <1>1, <1>2, <1>3, <1>4, <1>5, <1>6, <1>7, <1>8, <1>9, <1>10, <1>11, <1>12,
     <1>13, <1>14, <1>15, <1>16, <1>17, <1>18, <1>19, <1>20, <1>21, <1>22, <1>23
  DEF Next, Startup, Handle, ThreadStep

\* Every step keeps main(), the stage and the threads in step.
LEMMA StageStep ==
    ASSUME TypeOK, StageInv, [Next]_vars
    PROVE  StageInv'
<1> USE DEF TypeOK, StageInv, Starting, Running,
           mainVars, paramVars, threadVars, diskVars, traceVars, countVars, bootVars
<1>1. CASE Boot
  BY <1>1 DEF Boot
<1>2. CASE Die
  BY <1>2 DEF Die
<1>3. CASE CheckUpgradeResult
  BY <1>3 DEF CheckUpgradeResult
<1>4. CASE TruncateConf
  BY <1>4 DEF TruncateConf
<1>5. CASE RewriteConf
  BY <1>5 DEF RewriteConf
<1>6. CASE ReportUpgradeResult
  BY <1>6 DEF ReportUpgradeResult
<1>7. ASSUME NEW u \in Url, ReceiveUpdate(u) PROVE StageInv'
  BY <1>7 DEF ReceiveUpdate
<1>8. CASE TestStage
  BY <1>8 DEF TestStage
<1>9. ASSUME NEW t \in Thread, CreateDownloadThread(t) PROVE StageInv'
  BY <1>9 DEF CreateDownloadThread
<1>10. CASE MarkStage
  BY <1>10 DEF MarkStage
<1>11. ASSUME NEW t \in Thread, StartDownload(t) PROVE StageInv'
  BY <1>11 DEF StartDownload, Goto
<1>12. ASSUME NEW t \in Thread, InitDownload(t) PROVE StageInv'
  BY <1>12 DEF InitDownload, Goto
<1>13. ASSUME NEW t \in Thread, FinishTransfer(t) PROVE StageInv'
  BY <1>13 DEF FinishTransfer, Goto
<1>14. ASSUME NEW t \in Thread, DownloadFailed(t) PROVE StageInv'
  BY <1>14 DEF DownloadFailed, Goto
<1>15. ASSUME NEW t \in Thread, NamePackage(t) PROVE StageInv'
  BY <1>15 DEF NamePackage, Goto
<1>16. ASSUME NEW t \in Thread, Flash(t) PROVE StageInv'
  BY <1>16 DEF Flash, Goto
<1>17. ASSUME NEW t \in Thread, RecordType(t) PROVE StageInv'
  BY <1>17 DEF RecordType, Goto
<1>18. ASSUME NEW t \in Thread, OpenConf(t) PROVE StageInv'
  BY <1>18 DEF OpenConf, Goto
<1>19. ASSUME NEW t \in Thread, WriteConf(t) PROVE StageInv'
  BY <1>19 DEF WriteConf, Goto
<1>20. ASSUME NEW t \in Thread, EndAfterFlash(t) PROVE StageInv'
  BY <1>20 DEF EndAfterFlash, Goto
<1>21. ASSUME NEW t \in Thread, RequestShutdown(t) PROVE StageInv'
  BY <1>21 DEF RequestShutdown, Goto
<1>22. ASSUME NEW t \in Thread, EndThread(t) PROVE StageInv'
  BY <1>22 DEF EndThread, Goto
<1>23. CASE UNCHANGED vars
  BY <1>23 DEF vars
<1>24. QED
  BY <1>1, <1>2, <1>3, <1>4, <1>5, <1>6, <1>7, <1>8, <1>9, <1>10, <1>11, <1>12,
     <1>13, <1>14, <1>15, <1>16, <1>17, <1>18, <1>19, <1>20, <1>21, <1>22, <1>23
  DEF Next, Startup, Handle, ThreadStep

\* Every step keeps update.zip with the thread that is filling it.
LEMMA ZipStep ==
    ASSUME TypeOK, StageInv, ZipInv, [Next]_vars
    PROVE  ZipInv'
<1> SUFFICES ASSUME NEW v \in Thread PROVE ZipOf(v)'
  BY DEF ZipInv
<1>a. /\ pc \in [Thread -> Pc] /\ toZip \in [Thread -> BOOLEAN]
      /\ flashed \in [Thread -> Flashed] /\ zip \in Zip /\ dlPath \in Path
  BY DEF TypeOK
<1>b. ZipOf(v)
  BY DEF ZipInv
<1> USE DEF StageInv, ZipOf, Starting, Running,
           mainVars, paramVars, threadVars, diskVars, traceVars, countVars, bootVars
<1>1. CASE Boot
  BY <1>b, <1>a, <1>1 DEF Boot
<1>2. CASE Die
  BY <1>b, <1>a, <1>2 DEF Die, NotFlashed
<1>3. CASE CheckUpgradeResult
  BY <1>b, <1>a, <1>3 DEF CheckUpgradeResult
<1>4. CASE TruncateConf
  BY <1>b, <1>a, <1>4 DEF TruncateConf
<1>5. CASE RewriteConf
  BY <1>b, <1>a, <1>5 DEF RewriteConf
<1>6. CASE ReportUpgradeResult
  BY <1>b, <1>a, <1>6 DEF ReportUpgradeResult
<1>7. ASSUME NEW u \in Url, ReceiveUpdate(u) PROVE ZipOf(v)'
  BY <1>b, <1>a, <1>7 DEF ReceiveUpdate
<1>8. CASE TestStage
  BY <1>b, <1>a, <1>8 DEF TestStage
<1>9. ASSUME NEW t \in Thread, CreateDownloadThread(t) PROVE ZipOf(v)'
  BY <1>b, <1>a, <1>9 DEF CreateDownloadThread
<1>10. CASE MarkStage
  BY <1>b, <1>a, <1>10 DEF MarkStage
<1>11. ASSUME NEW t \in Thread, StartDownload(t) PROVE ZipOf(v)'
  <2>1. /\ pc[t] = "start" /\ pc'[t] \in {"init", "failed"}
        /\ \A w \in Thread \ {t} : pc'[w] = pc[w]
        /\ UNCHANGED <<toZip, flashed, stomped>>
    BY <1>a, <1>11 DEF StartDownload, Goto
  <2>2. flashed[t].from = ""
    BY <1>11 DEF ZipInv, StartDownload
  <2>3. CASE v = t
    BY <2>1, <2>2, <2>3
  <2>4. CASE v # t
    <3>1. ~stomped => pc'[v] \notin {"transfer", "name", "flash"}
      BY <2>1, <2>4
    <3>2. QED
      BY <1>b, <2>1, <2>4, <3>1
  <2>5. QED
    BY <2>3, <2>4
<1>12. ASSUME NEW t \in Thread, InitDownload(t) PROVE ZipOf(v)'
  <2>1. PICK x \in {dlUrl} \cup (IF dlUrl = copyUrl[t] THEN {} ELSE {Garbled}) :
          LET isZip  == WithName(dlPath) = "/tmp/update.zip"
              opened == IF isZip THEN [owner |-> t, url |-> x, ended |-> FALSE]
                                 ELSE zip
          IN  /\ copyUrl' = [copyUrl EXCEPT ![t] = x]
              /\ toZip' = [toZip EXCEPT ![t] = isZip]
              /\ \/ zip' = opened /\ Goto(t, "transfer")
                 \/ zip' \in {zip, opened} /\ Goto(t, "failed")
    BY <1>12 DEF InitDownload
  <2>2. pc[t] = "init" /\ UNCHANGED <<flashed, stomped>>
    BY <1>12 DEF InitDownload
  <2>3. CASE v = t
    <3>1. flashed[v].from = "" /\ flashed' = flashed
      BY <1>b, <2>2, <2>3
    <3>2. CASE pc'[v] = "failed"
      BY <3>1, <3>2
    <3>3. CASE pc'[v] = "transfer" /\ zip' = (IF WithName(dlPath) = "/tmp/update.zip"
              THEN [owner |-> t, url |-> x, ended |-> FALSE] ELSE zip)
          /\ toZip'[v] = (WithName(dlPath) = "/tmp/update.zip")
      BY <2>3, <3>1, <3>3
    <3>4. QED
      BY <1>a, <2>1, <2>3, <3>2, <3>3 DEF Goto
  <2>4. CASE v # t
    <3>1. pc'[v] = pc[v] /\ toZip'[v] = toZip[v]
      BY <1>a, <2>1, <2>4 DEF Goto
    <3>2. ~stomped => pc[v] \notin Running
      BY <2>2, <2>4
    <3>3. QED
      BY <1>b, <2>2, <3>1, <3>2
  <2>5. QED
    BY <2>3, <2>4
<1>13. ASSUME NEW t \in Thread, FinishTransfer(t) PROVE ZipOf(v)'
  BY <1>b, <1>a, <1>13 DEF FinishTransfer, Goto, Zip
<1>14. ASSUME NEW t \in Thread, DownloadFailed(t) PROVE ZipOf(v)'
  BY <1>b, <1>a, <1>14 DEF DownloadFailed, Goto
<1>15. ASSUME NEW t \in Thread, NamePackage(t) PROVE ZipOf(v)'
  BY <1>b, <1>a, <1>15 DEF NamePackage, Goto
<1>16. ASSUME NEW t \in Thread, Flash(t) PROVE ZipOf(v)'
  BY <1>b, <1>a, <1>16 DEF Flash, Goto, Flashed, Zip
<1>17. ASSUME NEW t \in Thread, RecordType(t) PROVE ZipOf(v)'
  BY <1>b, <1>a, <1>17 DEF RecordType, Goto
<1>18. ASSUME NEW t \in Thread, OpenConf(t) PROVE ZipOf(v)'
  <2>1. /\ pc[t] = "trunc" /\ pc'[t] \in {"write", "endOk"}
        /\ \A w \in Thread \ {t} : pc'[w] = pc[w]
        /\ UNCHANGED <<zip, toZip, flashed, stomped>>
    BY <1>a, <1>18 DEF OpenConf, Goto
  <2>2. CASE v = t
    BY <1>b, <2>1, <2>2
  <2>3. CASE v # t
    BY <1>b, <2>1, <2>3
  <2>4. QED
    BY <2>2, <2>3
<1>19. ASSUME NEW t \in Thread, WriteConf(t) PROVE ZipOf(v)'
  BY <1>b, <1>a, <1>19 DEF WriteConf, Goto
<1>20. ASSUME NEW t \in Thread, EndAfterFlash(t) PROVE ZipOf(v)'
  BY <1>b, <1>a, <1>20 DEF EndAfterFlash, Goto
<1>21. ASSUME NEW t \in Thread, RequestShutdown(t) PROVE ZipOf(v)'
  BY <1>b, <1>a, <1>21 DEF RequestShutdown, Goto
<1>22. ASSUME NEW t \in Thread, EndThread(t) PROVE ZipOf(v)'
  BY <1>b, <1>a, <1>22 DEF EndThread, Goto
<1>23. CASE UNCHANGED vars
  BY <1>b, <1>a, <1>23 DEF vars
<1>24. QED
  BY <1>b, <1>a, <1>1, <1>2, <1>3, <1>4, <1>5, <1>6, <1>7, <1>8, <1>9, <1>10, <1>11,
     <1>12,
     <1>13, <1>14, <1>15, <1>16, <1>17, <1>18, <1>19, <1>20, <1>21, <1>22, <1>23
  DEF Next, Startup, Handle, ThreadStep

\* Every step keeps the report about the thread that runs.
LEMMA ReportStep ==
    ASSUME TypeOK, StageInv, ReportInv, [Next]_vars
    PROVE  ReportInv'
<1> USE DEF TypeOK, StageInv, ReportInv, Starting, Running,
           mainVars, paramVars, threadVars, diskVars, traceVars, countVars, bootVars
<1>1. CASE Boot
  BY <1>1 DEF Boot
<1>2. CASE Die
  BY <1>2 DEF Die
<1>3. CASE CheckUpgradeResult
  BY <1>3 DEF CheckUpgradeResult
<1>4. CASE TruncateConf
  BY <1>4 DEF TruncateConf
<1>5. CASE RewriteConf
  BY <1>5 DEF RewriteConf
<1>6. CASE ReportUpgradeResult
  BY <1>6 DEF ReportUpgradeResult
<1>7. ASSUME NEW u \in Url, ReceiveUpdate(u) PROVE ReportInv'
  BY <1>7 DEF ReceiveUpdate
<1>8. CASE TestStage
  BY <1>8 DEF TestStage
<1>9. ASSUME NEW t \in Thread, CreateDownloadThread(t) PROVE ReportInv'
  BY <1>9 DEF CreateDownloadThread
<1>10. CASE MarkStage
  BY <1>10 DEF MarkStage
<1>11. ASSUME NEW t \in Thread, StartDownload(t) PROVE ReportInv'
  BY <1>11 DEF StartDownload, Goto
<1>12. ASSUME NEW t \in Thread, InitDownload(t) PROVE ReportInv'
  BY <1>12 DEF InitDownload, Goto
<1>13. ASSUME NEW t \in Thread, FinishTransfer(t) PROVE ReportInv'
  BY <1>13 DEF FinishTransfer, Goto
<1>14. ASSUME NEW t \in Thread, DownloadFailed(t) PROVE ReportInv'
  BY <1>14 DEF DownloadFailed, Goto
<1>15. ASSUME NEW t \in Thread, NamePackage(t) PROVE ReportInv'
  BY <1>15 DEF NamePackage, Goto
<1>16. ASSUME NEW t \in Thread, Flash(t) PROVE ReportInv'
  BY <1>16 DEF Flash, Goto
<1>17. ASSUME NEW t \in Thread, RecordType(t) PROVE ReportInv'
  BY <1>17 DEF RecordType, Goto
<1>18. ASSUME NEW t \in Thread, OpenConf(t) PROVE ReportInv'
  BY <1>18 DEF OpenConf, Goto
<1>19. ASSUME NEW t \in Thread, WriteConf(t) PROVE ReportInv'
  BY <1>19 DEF WriteConf, Goto
<1>20. ASSUME NEW t \in Thread, EndAfterFlash(t) PROVE ReportInv'
  BY <1>20 DEF EndAfterFlash, Goto
<1>21. ASSUME NEW t \in Thread, RequestShutdown(t) PROVE ReportInv'
  BY <1>21 DEF RequestShutdown, Goto
<1>22. ASSUME NEW t \in Thread, EndThread(t) PROVE ReportInv'
  BY <1>22 DEF EndThread, Goto
<1>23. CASE UNCHANGED vars
  BY <1>23 DEF vars
<1>24. QED
  BY <1>1, <1>2, <1>3, <1>4, <1>5, <1>6, <1>7, <1>8, <1>9, <1>10, <1>11, <1>12,
     <1>13, <1>14, <1>15, <1>16, <1>17, <1>18, <1>19, <1>20, <1>21, <1>22, <1>23
  DEF Next, Startup, Handle, ThreadStep

\* Every step keeps a posted report from being posted again.
LEMMA BootStep ==
    ASSUME TypeOK, StageInv, BootInv, [Next]_vars
    PROVE  BootInv'
<1> USE DEF TypeOK, StageInv, BootInv, Starting, Running,
           mainVars, paramVars, threadVars, diskVars, traceVars, countVars, bootVars
<1>1. CASE Boot
  BY <1>1 DEF Boot, Conf
<1>2. CASE Die
  BY <1>2 DEF Die, Conf
<1>3. CASE CheckUpgradeResult
  BY <1>3 DEF CheckUpgradeResult
<1>4. CASE TruncateConf
  BY <1>4 DEF TruncateConf, Conf
<1>5. CASE RewriteConf
  <2>1. conf'.id = conf.id /\ (conf' = conf \/ conf'.first = 0)
    BY <1>5 DEF RewriteConf, Conf
  <2>2. conf.id \in Nat /\ conf'.state \in {conf.state, "whole"}
    BY <1>5 DEF RewriteConf, Conf
  <2>3. mainPc = "rewrite" /\ mainPc' = "post"
        /\ UNCHANGED <<writes, posted, reposted, unclear>>
    BY <1>5 DEF RewriteConf
  <2>4. conf'.state = "whole" => conf.state = "whole" \/ conf'.first = 0
    BY <1>5 DEF RewriteConf, Conf
  <2>5. conf'.id <= writes' /\ \A id \in posted' : id <= writes'
    BY <2>1, <2>3
  <2>6. mainPc' = "post" => (conf'.id \in posted' => conf'.id \in unclear')
    BY <2>1, <2>3
  <2>7. mainPc' = "post" /\ conf'.state = "whole"
          => conf'.first = 0 \/ conf'.id \in unclear'
    BY <1>5, <2>1, <2>3 DEF RewriteConf, Conf
  <2>8. QED
    BY <2>3, <2>5, <2>6, <2>7
<1>6. CASE ReportUpgradeResult
  <2>1. mainPc = "post" /\ mainPc' = "loop" /\ UNCHANGED <<conf, writes, unclear>>
    BY <1>6 DEF ReportUpgradeResult
  <2>2. CASE conf.state = "whole"
    <3>1. posted' = posted \cup {conf.id}
          /\ reposted' = reposted \cup (posted \cap {conf.id})
      BY <1>6, <2>2 DEF ReportUpgradeResult
    <3>2. reposted' \subseteq unclear'
      BY <2>1, <3>1
    <3>3. \A id \in posted' : id <= writes'
      BY <2>1, <3>1
    <3>4. QED
      BY <2>1, <2>2, <3>2, <3>3
  <2>3. CASE conf.state # "whole"
    BY <1>6, <2>1, <2>3 DEF ReportUpgradeResult
  <2>4. QED
    BY <2>2, <2>3
<1>7. ASSUME NEW u \in Url, ReceiveUpdate(u) PROVE BootInv'
  BY <1>7 DEF ReceiveUpdate
<1>8. CASE TestStage
  BY <1>8 DEF TestStage
<1>9. ASSUME NEW t \in Thread, CreateDownloadThread(t) PROVE BootInv'
  BY <1>9 DEF CreateDownloadThread
<1>10. CASE MarkStage
  BY <1>10 DEF MarkStage
<1>11. ASSUME NEW t \in Thread, StartDownload(t) PROVE BootInv'
  BY <1>11 DEF StartDownload, Goto
<1>12. ASSUME NEW t \in Thread, InitDownload(t) PROVE BootInv'
  BY <1>12 DEF InitDownload, Goto
<1>13. ASSUME NEW t \in Thread, FinishTransfer(t) PROVE BootInv'
  BY <1>13 DEF FinishTransfer, Goto
<1>14. ASSUME NEW t \in Thread, DownloadFailed(t) PROVE BootInv'
  BY <1>14 DEF DownloadFailed, Goto
<1>15. ASSUME NEW t \in Thread, NamePackage(t) PROVE BootInv'
  BY <1>15 DEF NamePackage, Goto
<1>16. ASSUME NEW t \in Thread, Flash(t) PROVE BootInv'
  BY <1>16 DEF Flash, Goto
<1>17. ASSUME NEW t \in Thread, RecordType(t) PROVE BootInv'
  BY <1>17 DEF RecordType, Goto
<1>18. ASSUME NEW t \in Thread, OpenConf(t) PROVE BootInv'
  BY <1>18 DEF OpenConf, Goto, Conf
<1>19. ASSUME NEW t \in Thread, WriteConf(t) PROVE BootInv'
  BY <1>19 DEF WriteConf, Goto, Conf
<1>20. ASSUME NEW t \in Thread, EndAfterFlash(t) PROVE BootInv'
  BY <1>20 DEF EndAfterFlash, Goto
<1>21. ASSUME NEW t \in Thread, RequestShutdown(t) PROVE BootInv'
  BY <1>21 DEF RequestShutdown, Goto
<1>22. ASSUME NEW t \in Thread, EndThread(t) PROVE BootInv'
  BY <1>22 DEF EndThread, Goto
<1>23. CASE UNCHANGED vars
  BY <1>23 DEF vars
<1>24. QED
  BY <1>1, <1>2, <1>3, <1>4, <1>5, <1>6, <1>7, <1>8, <1>9, <1>10, <1>11, <1>12,
     <1>13, <1>14, <1>15, <1>16, <1>17, <1>18, <1>19, <1>20, <1>21, <1>22, <1>23
  DEF Next, Startup, Handle, ThreadStep

-----------------------------------------------------------------------------
\* The strengthening as a whole.
Inv == TypeOK /\ StageInv /\ ZipInv /\ ReportInv /\ BootInv

LEMMA InitInv == Init => Inv
<1> SUFFICES ASSUME Init PROVE Inv
  OBVIOUS
<1>1. TypeOK
  BY TypeFacts DEF Init, TypeOK, MainPc, Stage, Path, Status, Pc
<1>2. StageInv /\ ReportInv
  BY DEF Init, StageInv, ReportInv, Running
<1>3. ZipInv
  BY DEF Init, ZipInv, ZipOf, NotFlashed
<1>4. BootInv
  <2>1. conf.id = 0 /\ writes = 0
    BY DEF Init, NoConf
  <2>2. conf.state = "absent" /\ mainPc = "down" /\ posted = {} /\ reposted = {}
    BY DEF Init, NoConf
  <2>3. QED
    BY ONLY <2>1, <2>2 DEF BootInv
<1>5. QED
  BY <1>1, <1>2, <1>3, <1>4 DEF Inv

\* Every behaviour satisfies the strengthening.
THEOREM InvariantHolds == Spec => []Inv
<1>1. Inv /\ [Next]_vars => Inv'
  BY TypeStep, StageStep, ZipStep, ReportStep, BootStep DEF Inv
<1>2. QED
  BY <1>1, InitInv, PTL DEF Spec

\* The upgrade process keeps the types of its state.
THEOREM TypeCorrect == Spec => []TypeOK
<1>1. Inv => TypeOK
  BY DEF Inv
<1>2. QED
  BY <1>1, InvariantHolds, PTL

\* At most one download thread has not yet written END, however packets,
\* threads, failures and restarts interleave, until an END is written over
\* an upgrade that began after the shutdown was asked for.
THEOREM OneDownloadHolds == Spec => []OneDownload
<1>1. Inv => OneDownload
  BY DEF Inv, StageInv, OneDownload
<1>2. QED
  BY <1>1, InvariantHolds, PTL

\* What a thread gives to upgrade_app as /tmp/update.zip is the file it opened
\* itself and whose transfer returned 0 to it.  Nothing is said of its bytes.
THEOREM FlashOwnDownloadHolds == Spec => []FlashOwnDownload
<1>1. Inv => FlashOwnDownload
  BY DEF Inv, ZipInv, ZipOf, FlashOwnDownload
<1>2. QED
  BY <1>1, InvariantHolds, PTL

\* update.conf names the accepted update and the status that its own call of
\* upgrade_app returned.
THEOREM ConfRecordsUpgradeHolds == Spec => ConfRecordsUpgrade
<1> DEFINE Recorded ==
      \A t \in Thread :
          pc[t] = "write" /\ writes' # writes /\ ~stomped =>
              conf'.url = accepted[t] /\ conf'.type = rs[t]
<1>1. Inv /\ [Next]_vars => [Recorded]_vars
  <2> SUFFICES ASSUME Inv, Next, NEW t \in Thread,
                      pc[t] = "write", writes' # writes, ~stomped
               PROVE  conf'.url = accepted[t] /\ conf'.type = rs[t]
    BY DEF vars
  <2>1. PICK w \in Thread : WriteConf(w)
    BY DEF Next, Startup, Handle, ThreadStep, Boot, Die, CheckUpgradeResult,
           TruncateConf, RewriteConf, ReportUpgradeResult, ReceiveUpdate,
           TestStage, CreateDownloadThread, MarkStage, StartDownload,
           InitDownload, FinishTransfer, DownloadFailed, NamePackage, Flash,
           RecordType, OpenConf, EndAfterFlash, RequestShutdown, EndThread
  <2>2. w = t
    BY <2>1 DEF Inv, StageInv, WriteConf, Running
  <2>3. report.url = accepted[t] /\ report.type = rs[t]
    BY DEF Inv, ReportInv, Running
  <2>4. QED
    BY <2>1, <2>2, <2>3 DEF WriteConf
<1>2. QED
  BY <1>1, InvariantHolds, PTL DEF Spec, ConfRecordsUpgrade

\* Across any number of restarts a report is posted at most once, unless its
\* FirstBoot entry could not be written back.
THEOREM ReportAtMostOnceHolds == Spec => []ReportAtMostOnce
<1>1. Inv => ReportAtMostOnce
  BY DEF Inv, BootInv, ReportAtMostOnce
<1>2. QED
  BY <1>1, InvariantHolds, PTL
==============================================================================
