---------------------------- MODULE FileTransfer -----------------------------
(***************************************************************************)
(* One file from its sender to its receiver, over sessions that drop, move *)
(* to other paths and change keys (core/messaging/transfer.py): the two    *)
(* sides of FileSender and FileReceiver, and the session between them.     *)
(***************************************************************************)
EXTENDS FileSender, FileReceiver

vars == <<line, linkVars, senderVars, receiverVars>>

TypeOK == LinkTypeOK /\ SenderTypeOK /\ ReceiverTypeOK

Init == LinkInit /\ SenderInit /\ ReceiverInit

(* Work that takes less time than any of the timers, noticing a dead path
   included: where that takes longer, a timer fires early.                  *)
Busy == \/ ReceiverBusy
        \/ task.pc \notin {"none", "wait", "linkwait"}
        \/ task.pc = "wait" /\ out.wake
        \/ task.pc = "linkwait" /\ sUp # 0
        \/ alive /\ (sUp # session \/ rUp # session)
        \/ ~alive /\ (sUp # 0 \/ rUp # 0)

SessionStep == \/ Cut \/ Lose
               \/ NewSession({task.path}) \/ Rekey({task.path})
               \/ \E side \in Sides : RejectAges(side)

SenderRests == UNCHANGED <<line, senderVars>>
ReceiverRests == UNCHANGED <<line, receiverVars>>

Next == \/ SenderStep(Busy) /\ ReceiverRests
        \/ ReceiverStep(Busy) /\ SenderRests
        \/ SessionStep /\ SenderRests /\ ReceiverRests

Spec == Init /\ [][Next]_vars

------------------------------------------------------------------------------
(* What the code's scheduling justifies: a task that can run, runs; what is
   in flight in a working session arrives; a timer that is due fires; a side
   notices that its link is dead (keepalives), and contacts that can reach
   each other connect again.  Nothing is assumed of the user or of faults.  *)
Reconnect == ~alive /\ NewSession({task.path})

SenderFairness ==
    /\ WF_vars(SDown /\ ReceiverRests)
    /\ WF_vars(SUp /\ ReceiverRests)
    /\ WF_vars(TaskLoop /\ ReceiverRests)
    /\ WF_vars(LinkBack /\ ReceiverRests)
    /\ WF_vars(PauseEmitted /\ ReceiverRests)
    /\ WF_vars(PrepDone /\ ReceiverRests)
    /\ WF_vars(ChunkSent /\ ReceiverRests)
    /\ WF_vars(HashDone /\ ReceiverRests)
    /\ WF_vars(CompleteSent /\ ReceiverRests)
    /\ WF_vars(Wake /\ ReceiverRests)
    /\ WF_vars(StallTimer(Busy) /\ ReceiverRests)
    /\ WF_vars(StaleOffer(Busy) /\ ReceiverRests)
    /\ WF_vars(SenderHandles /\ ReceiverRests)

ReceiverFairness ==
    /\ WF_vars(ReceiverHandles /\ SenderRests)
    /\ WF_vars(AckAges /\ SenderRests)
    /\ WF_vars(DelayedAck /\ SenderRests)
    /\ WF_vars(WriterDone /\ SenderRests)
    /\ WF_vars(Verified /\ SenderRests)
    /\ WF_vars(Place /\ SenderRests)
    /\ WF_vars(Placed /\ SenderRests)
    /\ WF_vars(RDown /\ SenderRests)
    /\ WF_vars(RUp /\ SenderRests)

Fairness ==
    /\ SenderFairness /\ ReceiverFairness
    /\ WF_vars(Reconnect /\ SenderRests /\ ReceiverRests)
    /\ \A side \in Sides : WF_vars(RejectAges(side) /\ SenderRests /\ ReceiverRests)

FairSpec == Spec /\ Fairness

------------------------------------------------------------------------------
(* Properties                                                               *)

(* The partial file never has a hole, an overlap or a misplaced block, and
   what waits to be written follows on from it; early chunks lie beyond
   that.  So it is across reorderings, resends with another chunk length,
   and restarts (_handle_file_chunk, _rx_take_ahead, _write_blocks).        *)
FileInOrder ==
    /\ part # None => Len(part) <= Size /\ part = SubSeq(Source, 1, Len(part))
    /\ rx # None =>
         /\ rx.expected <= Size
         /\ part \o rx.writing \o rx.queue = SubSeq(Source, 1, rx.expected)
         /\ \A i \in DOMAIN rx.ahead :
              LET e == rx.ahead[i]
              IN  /\ e.off > rx.expected
                  /\ e.off + Len(e.data) <= Size
                  /\ e.data = SubSeq(Source, e.off + 1, e.off + Len(e.data))

(* Both running hashes cover the file once and in order, so a file that came
   through whole is never called damaged (_prep_chunk, _hash_up_to,
   _catch_up_hash).                                                         *)
NoFalseDamage == fin # None => fin.ok

(* Neither side shows the file as complete before the whole file is under
   its real name (_rx_finalize, _send_file_chunks).                         *)
CompleteMeansWhole ==
    outgoing.state = "complete" \/ incoming.state = "complete" => placed = Source

(* What the sender counts as confirmed is at the receiver, so going back to
   it loses nothing.  (A receiver that crashed may have lost buffered blocks
   it had confirmed.)                                                       *)
ConfirmedIsHeld ==
    out # None /\ rx # None /\ "rrestart" \notin Faults => out.acked <= rx.expected

(* Once a file is started it arrives, whatever path drops, moves or changes
   keys meanwhile; unless no accept ever came and the offer, unanswered
   twice, waits for a link-up that nobody has to make
   (_check_stale_offers, _resume_paused_transfers_for_peer).                *)
NeverAnswered == outgoing.state = "paused" /\ out = None /\ Live(sUp)
FileArrives == <>(outgoing.state # "new") => <>(placed = Source) \/ <>[]NeverAnswered

(* The sender learns that the file arrived (final FILE_ACK, repeated for a
   repeated FILE_COMPLETE or FILE_OFFER), when the path fails once at most.
   After a second failure its loop may pause first, and a paused sender never
   learns (_handle_file_ack leaves the verdict for the loop to read).       *)
SenderLearns ==
    [](faults >= MaxFaults - 1) =>
        (incoming.state = "complete" ~> outgoing.state = "complete")

(* Nothing is left of a download that was cancelled or failed, also when the
   end came while it was written, verified or moved (_stop_transfer_work,
   _rx_close, _rx_finalize).                                                *)
EndedLeavesNothing ==
    incoming.state \in {"cancelled", "failed"} /\ fin = None => part = None

(* A sender that shows the file as complete is never contradicted by its
   receiver (_rx_finalize, _handle_file_reject), which forgets a complete
   file when it restarts.                                                   *)
OneVerdict ==
    outgoing.state = "complete" /\ "rrestart" \notin Faults => incoming.state = "complete"

(* How a transfer is said to have ended is true on both sides.              *)
VerdictsAreRight == NoFalseDamage /\ CompleteMeansWhole /\ OneVerdict /\ EndedLeavesNothing
==============================================================================
