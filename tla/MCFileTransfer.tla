---------------------------- MODULE MCFileTransfer ---------------------------
(* Small instances of FileTransfer.                                         *)
EXTENDS FileTransfer

MCSessions == 1..3
(* The paths take turns: short chunks, long chunks, short chunks.           *)
MCChunks == [n \in MCSessions |-> IF n = 2 THEN {2} ELSE {1}]

(* Users interfere over TCP, devices restart over the radio.                *)
MCAnyFaults == [tcp |-> {"cut", "switch", "rekey", "early", "giveup",
                         "scancel", "rcancel", "io", "refuse", "ask"},
                radio |-> {"lose", "srestart", "rrestart", "changed"}]
MCPatientFaults == [tcp |-> {"cut", "switch", "rekey"}]
==============================================================================
