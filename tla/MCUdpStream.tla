----------------------------- MODULE MCUdpStream -----------------------------
(* Small frames for TLC: a message of one byte and files of two or three.   *)
EXTENDS UdpStream
CONSTANTS m, f1, f2
SizeOf(f) == IF f = m THEN 1 ELSE IF f = f1 THEN 3 ELSE 2

Alone == {"lose", "lose ack", "early", "tight", "reorder", "repeat", "skip", "move", "close"}
Late == {{"early", "reorder"}}
UpToTwo == {{}} \cup {{f} : f \in Alone} \cup Late
==============================================================================
