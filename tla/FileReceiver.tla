---------------------------- MODULE FileReceiver -----------------------------
(***************************************************************************)
(* The receiving side of one file (core/messaging/transfer.py): the        *)
(* transfer the app shows, the receiver's state while data comes in, the   *)
(* partial file, the write loop whose writes run in a worker thread, and   *)
(* the finalizer that verifies the file and moves it to its real name.     *)
(*                                                                         *)
(* A block on disk is known by its place in the source file, so a hole, an *)
(* overlap or a swap shows in the content.  A digest is the sequence of    *)
(* blocks that were fed to the hasher.                                     *)
(***************************************************************************)
EXTENDS FileLink

CONSTANTS AckBlocks,    \* ACK_BYTES: confirm at least this often
          BufferMax,    \* RX_BUFFER_MAX: early and unwritten blocks kept
          AheadMax      \* RX_AHEAD_ENTRIES: early chunks kept

ASSUME BufferAssumption == AckBlocks \in Nat /\ BufferMax \in Nat /\ AheadMax \in Nat

VARIABLES
    incoming,   \* FileTransfer: its state, waits for a tap, owes a reject
    rx,         \* _Incoming, None outside of a download
    part,       \* the partial file, None when there is none
    fin,        \* the finalizer: where it waits and what it found, or None
    placed,     \* the file under its real name, None before
    rJournal    \* what transfers.json has of it

receiverVars == <<incoming, rx, part, fin, placed, rJournal>>

Ended == {"complete", "cancelled", "failed"}

ReceiverTypeOK ==
    /\ incoming \in [state : Ended \cup {"none", "offered", "accepted", "transferring", "paused"},
                     ask : BOOLEAN, unsent : BOOLEAN]
    /\ rx = None \/
         /\ rx.expected \in 0..Size /\ rx.prehash \in 0..Size
         /\ {rx.queue, rx.writing, rx.hashed} \subseteq Data
         /\ \A i \in DOMAIN rx.ahead : rx.ahead[i] \in [off : 0..Size, data : Data]
         /\ rx.sha \in Data \cup {None} /\ rx.acked \in -1..Size
         /\ {rx.ackDue, rx.recent} \subseteq BOOLEAN
    /\ part \in Data \cup {None} /\ placed \in Data \cup {None}
    /\ fin \in {None} \cup [phase : {"verify", "place", "moved", "unmoved"}, ok : BOOLEAN]
    /\ rJournal \in {None, "ask", "live"} \cup Ended

NewRx == [expected |-> 0, queue |-> <<>>, writing |-> <<>>, ahead |-> <<>>,
          hashed |-> <<>>, prehash |-> 0, sha |-> None,
          acked |-> -1, ackDue |-> FALSE, recent |-> FALSE]

ReceiverInit ==
    /\ incoming = [state |-> "none", ask |-> FALSE, unsent |-> FALSE]
    /\ rx = None /\ part = None /\ fin = None /\ placed = None
    /\ rJournal = None

(* rx.written: what the write loop has seen on disk.                        *)
Written == Len(part)
WriterRuns == rx.writing # <<>>
ReceiverBusy == \/ rx # None /\ (WriterRuns \/ rx.ackDue \/ rx.recent)
                \/ fin # None

Tell(m) == toS' = Put(toS, rUp, m)
Ack(off) == [t |-> "ack", off |-> off, ok |-> None]
Verdict(ok) == [t |-> "ack", off |-> Size, ok |-> ok]
Refuse(reason) == [t |-> "reject", reason |-> reason]
Waiting == [t |-> "waiting"]              \* the user has to tap Download
Why(state) == IF state = "failed" THEN "failed" ELSE "cancelled"

Handled(i, kind) == /\ i \in Arriving(toR, rUp)
                    /\ toR[i].t = kind
                    /\ toR' = RemoveAt(toR, i)

(* _repeat_reject: the sender still acts on a transfer that was ended.      *)
RefuseAgain == IF MayRepeat("receiver")
               THEN Tell(Refuse(Why(incoming.state))) /\ told' = told \cup {"receiver"}
               ELSE UNCHANGED <<toS, told>>

------------------------------------------------------------------------------
(* The offer.                                                               *)

(* _start_receiving: an empty partial file that no other download has.      *)
StartReceiving == rx' = NewRx /\ part' = <<>>

(* An offer of a file not known here: refused, left to a tap, or accepted.  *)
FirstOffer ==
    \/ /\ Happens("refuse")
       /\ \E reason \in {"cancelled", "failed"} : Tell(Refuse(reason))   \* busy, no_space
       /\ told' = told \cup {"receiver"}
       /\ UNCHANGED <<incoming, rx, part>>
    \/ /\ "ask" \in Faults
       /\ incoming' = [state |-> "offered", ask |-> TRUE, unsent |-> FALSE]
       /\ Tell(Waiting)
       /\ UNCHANGED <<rx, part, told, faults>>
    \/ /\ incoming' = [state |-> "accepted", ask |-> FALSE, unsent |-> FALSE]
       /\ StartReceiving
       /\ Tell([t |-> "accept", off |-> 0])
       /\ UNCHANGED <<told, faults>>

(* Mutated: a re-offer starts the download again. *)
ReofferRestarts ==
    /\ incoming.state \notin Ended
    /\ incoming' = [incoming EXCEPT !.state = "accepted"]
    /\ StartReceiving
    /\ Tell([t |-> "accept", off |-> 0])
    /\ UNCHANGED <<told, faults>>

(* What a re-offer is answered with (reconnect, lost answer).               *)
Reoffer ==
    /\ CASE incoming.state = "complete" -> Tell(Verdict(TRUE)) /\ UNCHANGED told
         [] incoming.state \in {"cancelled", "failed"} ->
              Tell(Refuse(Why(incoming.state))) /\ told' = told \cup {"receiver"}
         [] incoming.ask -> Tell(Waiting) /\ UNCHANGED told
         [] OTHER -> /\ Tell([t |-> "accept", off |-> IF rx = None THEN 0 ELSE rx.expected])
                     /\ UNCHANGED told
    /\ UNCHANGED <<incoming, rx, part, faults>>

OnOffer(i) == /\ Handled(i, "offer")
              /\ IF incoming.state = "none" THEN FirstOffer ELSE Reoffer
              /\ UNCHANGED <<fin, placed, rJournal, pathVars>>

(* download_transfer: the user taps Download.                               *)
Download ==
    /\ incoming.ask /\ incoming.state \notin Ended
    /\ StartReceiving
    /\ \E sent \in SendResults(rUp) :
         /\ incoming' = [incoming EXCEPT !.ask = FALSE,
                                         !.state = IF sent THEN "accepted" ELSE "paused"]
         /\ toS' = IF sent THEN Put(toS, rUp, [t |-> "accept", off |-> 0]) ELSE toS
    /\ UNCHANGED <<fin, placed, rJournal, pathVars, toR, told, faults>>

------------------------------------------------------------------------------
(* Data.                                                                    *)

Early(r) == FlattenSeq([i \in DOMAIN r.ahead |-> r.ahead[i].data])
Buffered(r) == Len(r.queue) + Len(r.writing) + Len(Early(r))

(* _rx_append *)
Queued(r, data) == [r EXCEPT !.queue = @ \o data, !.expected = @ + Len(data)]

(* _rx_take_ahead: early chunks that now follow on are queued; of those now
   behind, the first one that still has something new keeps its end.        *)
Follows(r, e) == e.off = r.expected
Behind(r, e) == e.off < r.expected
Ends(r, e) == Behind(r, e) /\ e.off + Len(e.data) > r.expected
(* Mutated: the end of an overtaken chunk starts one block early. *)
EndOfTooLong(r, e) == [off |-> r.expected,
                       data |-> SubSeq(e.data, r.expected - e.off, Len(e.data))]

EndOf(r, e) == [off |-> r.expected,
                data |-> SubSeq(e.data, r.expected - e.off + 1, Len(e.data))]

(* The entries of q at these positions, in their order.                     *)
EntriesAt(q, places) ==
    [n \in 1..Cardinality(places) |->
        q[CHOOSE i \in places : Cardinality({j \in places : j <= i}) = n]]

DropBehind(r) ==
    LET behind == {i \in DOMAIN r.ahead : Behind(r, r.ahead[i])}
        ends == {i \in behind : Ends(r, r.ahead[i])}
        later == EntriesAt(r.ahead, DOMAIN r.ahead \ behind)
    IN  [r EXCEPT !.ahead = IF ends = {} THEN later
                            ELSE Append(later, EndOf(r, r.ahead[Min(ends)]))]

(* No two of them start at the same offset.                                 *)
TakeNext(r) ==
    LET i == CHOOSE i \in DOMAIN r.ahead : Follows(r, r.ahead[i])
    IN  Queued([r EXCEPT !.ahead = RemoveAt(@, i)], r.ahead[i].data)

TakeTurn(r) ==
    IF \E i \in DOMAIN r.ahead : Follows(r, r.ahead[i]) THEN TakeNext(r)
    ELSE IF \E i \in DOMAIN r.ahead : Behind(r, r.ahead[i]) THEN DropBehind(r)
    ELSE r

(* Twice per early chunk is enough: it is dropped or trimmed, then queued.  *)
TakeAhead(rec) ==
    LET turns[n \in Nat] == IF n = 0 THEN rec ELSE TakeTurn(turns[n - 1])
    IN  turns[2 * Len(rec.ahead)]

(* The write loop takes all that is queued into one write of its thread.    *)
StartWriter(r) == IF r.writing = <<>> THEN [r EXCEPT !.writing = r.queue, !.queue = <<>>] ELSE r

Known(r, off, len) == off + len <= r.expected \/ \E i \in DOMAIN r.ahead : r.ahead[i].off = off

(* The part of a chunk that is new.                                         *)
NewData(r, m) == IF m.off < r.expected
                 THEN SubSeq(m.data, r.expected - m.off + 1, Len(m.data)) ELSE m.data

Receive(r, m) ==
    IF m.off <= r.expected
    THEN StartWriter(TakeAhead(Queued(r, NewData(r, m))))
    ELSE IF Buffered(r) + Len(m.data) > BufferMax \/ Len(r.ahead) >= AheadMax
    THEN r                                      \* the sender sends it again
    ELSE [r EXCEPT !.ahead = Append(@, [off |-> m.off, data |-> m.data])]

(* _rx_ack *)
Acked(r) == [r EXCEPT !.acked = Written, !.recent = TRUE]

(* _handle_file_chunk; a block we have is confirmed again, not too often.   *)
OnChunk(i) ==
    /\ Handled(i, "chunk")
    /\ CASE incoming.state \in {"cancelled", "failed"} ->
              RefuseAgain /\ UNCHANGED <<incoming, rx>>
         [] incoming.state \notin {"cancelled", "failed"} /\ (incoming.state \in Ended \/ rx = None) ->
              UNCHANGED <<incoming, rx, toS, told>>
         [] OTHER ->
              /\ incoming' = [incoming EXCEPT !.state = "transferring"]
              /\ IF Known(rx, toR[i].off, Len(toR[i].data))
                 THEN IF rx.recent THEN UNCHANGED <<rx, toS>>
                                   ELSE rx' = Acked(rx) /\ Tell(Ack(Written))
                 ELSE rx' = Receive(rx, toR[i]) /\ UNCHANGED toS
              /\ UNCHANGED told
    /\ UNCHANGED <<part, fin, placed, rJournal, pathVars, faults>>

(* ACK_INTERVAL passes since the last confirmation.                         *)
AckAges == /\ rx # None /\ rx.recent
           /\ rx' = [rx EXCEPT !.recent = FALSE]
           /\ UNCHANGED <<incoming, part, fin, placed, rJournal, linkVars>>

(* The delayed confirmation of the newest blocks.                           *)
DelayedAck ==
    /\ rx # None /\ rx.ackDue
    /\ IF Written > rx.acked
       THEN rx' = [Acked(rx) EXCEPT !.ackDue = FALSE] /\ Tell(Ack(Written))
       ELSE rx' = [rx EXCEPT !.ackDue = FALSE] /\ UNCHANGED toS
    /\ UNCHANGED <<incoming, part, fin, placed, rJournal, pathVars, toR, told, faults>>

------------------------------------------------------------------------------
(* Writing, verifying, placing.                                             *)

(* The hash after what a restart found on disk is caught up with.           *)
CaughtUp(r) == SubSeq(part, 1, r.prehash) \o r.hashed

(* _rx_finalize up to its first await.                                      *)
Finalize(r) == /\ rx' = None
               /\ fin' = [phase |-> "verify", ok |-> r.hashed = r.sha]

(* The thread has written; then _rx_progress, and the next write.           *)
WriterDone ==
    /\ rx # None /\ WriterRuns
    /\ LET r == [rx EXCEPT !.hashed = CaughtUp(rx) \o rx.writing, !.prehash = 0,
                           !.writing = <<>>]
           file == part \o rx.writing
           ackNow == \/ Len(file) >= Size
                     \/ Len(file) - r.acked >= AckBlocks
                     \/ ~r.recent
       IN  /\ part' = file
           /\ CASE Len(file) >= Size /\ r.sha # None -> Finalize(r) /\ UNCHANGED toS
                [] ~(Len(file) >= Size /\ r.sha # None) /\ ackNow ->
                     /\ rx' = StartWriter([r EXCEPT !.acked = Len(file), !.recent = TRUE])
                     /\ Tell(Ack(Len(file)))
                     /\ UNCHANGED fin
                [] OTHER -> /\ rx' = StartWriter([r EXCEPT !.ackDue = TRUE])
                            /\ UNCHANGED <<fin, toS>>
    /\ UNCHANGED <<incoming, placed, rJournal, pathVars, toR, told, faults>>

(* _rx_close with delete: nothing of the download is left.                  *)
CloseDeleted == rx' = None /\ part' = None

(* The write fails: no space, or the partial file is gone.                  *)
WriteFails ==
    /\ rx # None /\ WriterRuns
    /\ Happens("io")
    /\ CloseDeleted
    /\ incoming' = [incoming EXCEPT !.state = "failed"]
    /\ Tell(Refuse("failed"))
    /\ told' = told \cup {"receiver"}
    /\ UNCHANGED <<fin, placed, rJournal, pathVars, toR>>

(* Mutated: a file that is complete is not confirmed again. *)
OnCompleteSilent(i) ==
    /\ Handled(i, "complete")
    /\ IF incoming.state \in Ended \/ rx = None
       THEN UNCHANGED <<rx, fin>>
       ELSE LET r == [rx EXCEPT !.sha = toR[i].sha]
            IN  IF Written >= Size /\ ~WriterRuns
                THEN Finalize([r EXCEPT !.hashed = CaughtUp(r)])
                ELSE rx' = r /\ UNCHANGED fin
    /\ UNCHANGED <<incoming, part, placed, rJournal, pathVars, toS, told, faults>>

(* _handle_file_complete *)
OnComplete(i) ==
    /\ Handled(i, "complete")
    /\ CASE incoming.state = "complete" ->
              Tell(Verdict(TRUE)) /\ UNCHANGED <<rx, fin, told>>
         [] incoming.state \in {"cancelled", "failed"} ->
              RefuseAgain /\ UNCHANGED <<rx, fin>>
         [] incoming.state \notin Ended /\ rx = None ->
              UNCHANGED <<rx, fin, toS, told>>
         [] OTHER ->
              LET r == [rx EXCEPT !.sha = toR[i].sha]
              IN  /\ IF Written >= Size /\ ~WriterRuns
                     THEN Finalize([r EXCEPT !.hashed = CaughtUp(r)])
                     ELSE rx' = r /\ UNCHANGED fin
                  /\ UNCHANGED <<toS, told>>
    /\ UNCHANGED <<incoming, part, placed, rJournal, pathVars, faults>>

(* The finalizer's last step: the state, whatever it was, and the verdict.  *)
Conclude(ok) ==
    /\ incoming' = [incoming EXCEPT !.state = IF ok THEN "complete" ELSE "failed"]
    /\ fin' = None
    /\ Tell(Verdict(ok))

(* The file is flushed and its digest compared, unless the disk fails; a
   transfer that ended meanwhile stays so.                                  *)
Verified ==
    /\ fin # None /\ fin.phase = "verify"
    /\ \E ok \in {fin.ok, FALSE} :
         /\ IF ok = fin.ok THEN UNCHANGED faults ELSE Happens("io")
         /\ CASE incoming.state \in Ended ->
                   fin' = None /\ UNCHANGED <<incoming, part, toS>>
              [] incoming.state \notin Ended /\ ok ->
                   fin' = [fin EXCEPT !.phase = "place"] /\ UNCHANGED <<incoming, part, toS>>
              [] OTHER -> Conclude(FALSE) /\ part' = None
    /\ UNCHANGED <<rx, placed, rJournal, pathVars, toR, told>>

(* _place_verified in its thread; it fails when a cancel was faster.        *)
Place ==
    /\ fin # None /\ fin.phase = "place"
    /\ \/ /\ part # None
          /\ fin' = [fin EXCEPT !.phase = "moved"]
          /\ placed' = part /\ part' = None
          /\ UNCHANGED faults
       \/ /\ IF part = None THEN UNCHANGED faults ELSE Happens("io")
          /\ fin' = [fin EXCEPT !.phase = "unmoved"]
          /\ UNCHANGED <<placed, part>>
    /\ UNCHANGED <<incoming, rx, rJournal, pathVars, flightVars, told>>

Placed == /\ fin # None /\ fin.phase \in {"moved", "unmoved"}
          /\ Conclude(fin.phase = "moved")
          /\ part' = None
          /\ UNCHANGED <<rx, placed, rJournal, pathVars, toR, told, faults>>

------------------------------------------------------------------------------
(* The session comes and goes; nothing arrives any more.                    *)

(* _recover_incoming_transfers_for_peer                                     *)
RDown == /\ rUp # 0 /\ ~Live(rUp)
         /\ rUp' = 0
         /\ incoming' = IF incoming.state \in {"offered", "accepted", "transferring"} /\ ~incoming.ask
                        THEN [incoming EXCEPT !.state = "paused"] ELSE incoming
         /\ UNCHANGED <<rx, part, fin, placed, rJournal, session, alive, sUp, flightVars, told, faults>>

(* _resume_paused_transfers_for_peer: what we have is where to go on from.  *)
RUp ==
    /\ alive /\ rUp # session
    /\ rUp' = session
    /\ CASE incoming.state \in Ended /\ incoming.unsent ->
              /\ incoming' = [incoming EXCEPT !.unsent = FALSE]
              /\ toS' = Put(toS, session, Refuse(Why(incoming.state)))
              /\ told' = told \cup {"receiver"}
         [] incoming.state = "paused" \/ (incoming.state \in {"accepted", "transferring"} /\ rx # None) ->
              /\ toS' = Put(toS, session, [t |-> "resume",
                                          off |-> IF rx = None THEN 0 ELSE rx.expected])
              /\ UNCHANGED <<incoming, told>>
         [] OTHER -> UNCHANGED <<incoming, toS, told>>
    /\ UNCHANGED <<rx, part, fin, placed, rJournal, session, alive, sUp, toR, faults>>

(* _check_stale_offers: no data for INCOMING_IDLE.                          *)
RIdle(busy) ==
    /\ rx # None /\ incoming.state \in {"accepted", "transferring"}
    /\ Timeout(busy)
    /\ incoming' = [incoming EXCEPT !.state = "paused"]
    /\ UNCHANGED <<rx, part, fin, placed, rJournal, pathVars, flightVars, told>>

------------------------------------------------------------------------------
(* Cancelled, here or there; a restart.                                     *)

(* _stop_transfer_work: the unfinished download is deleted.                 *)
EndIncoming(state, unsent) ==
    /\ incoming' = [state |-> state, ask |-> FALSE, unsent |-> unsent]
    /\ CloseDeleted
    /\ told' = told \cup {"receiver"}

OnCancel(i) ==
    /\ Handled(i, "reject")
    /\ IF incoming.state \in Ended \cup {"none"}
       THEN UNCHANGED <<incoming, rx, part, told>>
       ELSE EndIncoming(IF toR[i].reason = "failed" THEN "failed" ELSE "cancelled",
                        incoming.unsent)
    /\ UNCHANGED <<fin, placed, rJournal, pathVars, toS, faults>>

RCancel ==
    /\ incoming.state \notin Ended \cup {"none"}
    /\ Happens("rcancel")
    /\ \E sent \in SendResults(rUp) :
         /\ EndIncoming("cancelled", ~sent)
         /\ toS' = IF sent THEN Put(toS, rUp, Refuse("cancelled")) ELSE toS
    /\ UNCHANGED <<fin, placed, rJournal, pathVars, toR>>

(* What save_transfer_journal keeps, and the delayed save itself (left out
   where no restart reads it).                                              *)
REntry == CASE incoming.state = "none" -> None
            [] incoming.state \in Ended -> IF incoming.unsent THEN incoming.state ELSE None
            [] incoming.ask -> "ask"
            [] OTHER -> "live"

RSave == /\ "rrestart" \in Faults
         /\ rJournal # REntry
         /\ rJournal' = REntry
         /\ UNCHANGED <<incoming, rx, part, fin, placed, linkVars>>

(* A partial file found on disk: its blocks are there, but not hashed yet.  *)
Partial(have) == [NewRx EXCEPT !.expected = have, !.prehash = have]

(* The app stops and starts.  Written blocks that were still in the file
   handle's buffer are lost; the rest of the partial file is what we have.  *)
RRestart ==
    /\ Happens("rrestart")
    /\ LET live == rJournal = "live"
           had == IF part = None THEN 0 ELSE Len(part)
       IN  /\ incoming' =
                 [state |-> CASE rJournal = None -> "none"
                              [] rJournal = "ask" -> "offered"
                              [] live -> "paused"
                              [] OTHER -> rJournal,
                  ask |-> rJournal = "ask",
                  unsent |-> rJournal \in Ended]
           /\ IF live
              THEN \E have \in 0..had :
                     /\ part' = IF part = None THEN <<>> ELSE SubSeq(part, 1, have)
                     /\ rx' = Partial(have)
              ELSE CloseDeleted
    /\ fin' = None
    /\ rUp' = 0 /\ alive' = FALSE /\ ClearFlight
    /\ told' = told \ {"receiver"}
    /\ UNCHANGED <<placed, rJournal, session, sUp>>

------------------------------------------------------------------------------
ReceiverHandles ==
    \E i \in DOMAIN toR : OnOffer(i) \/ OnChunk(i) \/ OnComplete(i) \/ OnCancel(i)

ReceiverStep(busy) ==
    \/ ReceiverHandles
    \/ Download
    \/ AckAges \/ DelayedAck \/ WriterDone \/ WriteFails
    \/ Verified \/ Place \/ Placed
    \/ RDown \/ RUp \/ RIdle(busy)
    \/ RCancel \/ RSave \/ RRestart
==============================================================================
