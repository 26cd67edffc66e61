----------------------------- MODULE ByteStream ------------------------------
(***************************************************************************)
(* What a connection promises to whoever writes to one end and reads at    *)
(* the other: frames enter the stream whole, one after the other, and what *)
(* was read is always a prefix of the stream.                              *)
(***************************************************************************)
EXTENDS Naturals, Sequences

CONSTANT Frames               \* the frames, each a sequence of bytes
VARIABLES stream, read

SInit == stream = <<>> /\ read = <<>>

(* Frame after frame is added, each from where the one before it ends.      *)
Grows(from, to) ==
    /\ SubSeq(to, 1, Len(from)) = from
    /\ \E ends \in SUBSET (Len(from)..Len(to)) :
          /\ Len(from) \in ends
          /\ \A e \in ends \ {Len(to)} :
                \E f \in Frames : e + Len(f) \in ends /\ SubSeq(to, e + 1, e + Len(f)) = f

Commit == Grows(stream, stream') /\ UNCHANGED read

Deliver ==
    /\ \E n \in (Len(read) + 1)..Len(stream) : read' = SubSeq(stream, 1, n)
    /\ UNCHANGED stream

StreamSpec == SInit /\ [][Commit \/ Deliver]_<<stream, read>>
==============================================================================
