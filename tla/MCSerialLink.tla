----------------------------- MODULE MCSerialLink ----------------------------
(* Small instances of SerialLink.                                           *)
EXTENDS SerialLink

CONSTANTS u1, u2, u3, u4, b1, b2, file

MCMessages == {u1, u2, u3, u4, b1, b2}
MCTag == [m \in {b1, b2} |-> file]

Cut(long) == [m \in MCMessages |-> [f \in Frag |-> IF m \in long THEN 2 ELSE 1]]

(* Small messages that share turns, with a broadcast among them.            *)
MCGroups == [urgent |-> <<u1, u2, u3, u4>>, bulk |-> <<>>, parts |-> Cut(MCMessages), kept |-> 2,
             faults |-> {"lose", "late", "giveup", "port"}]

(* A file in two pieces, and an urgent message in between.                  *)
MCFile == [urgent |-> <<u1>>, bulk |-> <<b1, b2>>, parts |-> Cut({b1}), kept |-> 1,
           faults |-> {"lose", "late", "cancel"}]

MCLoads == {MCGroups, MCFile}
==============================================================================
