------------------------------ MODULE MCOutbox -------------------------------
(* Small instances of Outbox.                                               *)
EXTENDS Outbox

MCFaults == {"cut", "close", "tor", "adelete", "bdelete", "arestart", "brestart"}
==============================================================================
