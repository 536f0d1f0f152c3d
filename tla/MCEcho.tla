---------------------------------- MODULE MCEcho ----------------------------------
(* An ICMP probe and an MTR probe of one target, an MTR probe of another.           *)
EXTENDS Echo
CONSTANTS p1, h1, h2, t1, t2
MCTargetOf == [c \in {p1, h1, h2} |-> IF c = h2 THEN t2 ELSE t1]
=====================================================================================
