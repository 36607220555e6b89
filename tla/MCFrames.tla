------------------------------ MODULE MCFrames ------------------------------
(* Frames with a process of two threads and a process of one.              *)
EXTENDS Frames

CONSTANTS c1, c2, t1, t2, t3

MCConn == {c1, c2}
MCThread == {t1, t2, t3}
MCUses == [t \in MCThread |-> IF t = t3 THEN c2 ELSE c1]
MCMaxPackets == [t \in MCThread |-> IF t = t3 THEN 2 ELSE 1]
=============================================================================
