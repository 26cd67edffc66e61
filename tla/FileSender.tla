----------------------------- MODULE FileSender ------------------------------
(***************************************************************************)
(* The sending side of one file (core/messaging/transfer.py): the transfer *)
(* the app shows, the sender's state that outlives pauses, the send loop   *)
(* (a task of its own) and the handlers that run beside it.                *)
(*                                                                         *)
(* The handlers and the loop share one event loop, so each of them runs    *)
(* from one await to the next in a step.  What the loop does after an      *)
(* await is a step of its own: a worker thread reads and encrypts a chunk, *)
(* the transport drains, FILE_COMPLETE is written, the pause is announced. *)
(***************************************************************************)
EXTENDS FileLink

VARIABLES
    outgoing,   \* FileTransfer: its state, offers unanswered, metadata
    out,        \* _Outgoing, None until the first accept
    task,       \* the send loop: where it waits, its path_key, its work
    sJournal    \* what transfers.json has of it

senderVars == <<outgoing, out, task, sJournal>>

Terminal == {"complete", "cancelled", "failed"}
Unknown == {"new", "forgotten"}        \* _transfers has no entry for it
MaxStalls == 3

SenderTypeOK ==
    /\ outgoing \in [state : Terminal \cup Unknown \cup {"offered", "transferring", "paused"},
                     tries : 0..2, waiting : BOOLEAN, unsent : BOOLEAN]
    /\ out = None \/
         /\ out.acked \in 0..Size /\ out.next \in Nat /\ out.hashed \in Data
         /\ out.result \in BOOLEAN \cup {None} /\ out.stalls \in 0..MaxStalls
         /\ {out.done, out.rewind, out.wake, out.late} \subseteq BOOLEAN
    /\ task.pc \in {"none", "loop", "linkwait", "prep", "sending", "hash", "complete",
                    "wait", "giveup", "stalled"}
    /\ task.path \in Sessions \cup {0}
    /\ sJournal \in {None, "live"} \cup Terminal

NewOut == [acked |-> 0, next |-> 0, hashed |-> <<>>, result |-> None, done |-> FALSE,
           stalls |-> 0, rewind |-> FALSE, wake |-> FALSE, late |-> FALSE]
NoTask == [pc |-> "none", path |-> 0, job |-> None]
NewTask == [NoTask EXCEPT !.pc = "loop"]
TaskRuns == task.pc # "none"

(* _new_outgoing: not offered yet.                                          *)
NewTransfer == [state |-> "new", tries |-> 0, waiting |-> FALSE, unsent |-> FALSE]

SenderInit ==
    /\ outgoing = NewTransfer
    /\ out = None
    /\ task = NoTask
    /\ sJournal = None

Offer == [t |-> "offer"]
Reject(reason) == [t |-> "reject", reason |-> reason]
Reason(state) == IF state = "failed" THEN "failed" ELSE "cancelled"

------------------------------------------------------------------------------
(* Starting a transfer, and offering it again.                              *)

OfferFile ==
    /\ outgoing.state = "new"
    /\ sUp # 0
    /\ outgoing' = [outgoing EXCEPT !.state = "offered", !.tries = 1]
    /\ toR' = Put(toR, sUp, Offer)
    /\ UNCHANGED <<out, task, sJournal, pathVars, toS, told, faults>>

QueueFile ==
    /\ outgoing.state = "new"
    /\ sUp = 0                           \* send_file queues only without a session
    /\ outgoing' = [outgoing EXCEPT !.state = "paused"]
    /\ UNCHANGED <<out, task, sJournal, linkVars>>

(* Mutated: an unanswered offer is repeated for ever. *)
StaleOfferForever(busy) ==
    /\ outgoing.state = "offered" /\ outgoing.tries > 0
    /\ Timeout(busy)
    /\ outgoing' = [outgoing EXCEPT !.tries = @ + 1]
    /\ toR' = Put(toR, sUp, Offer)
    /\ UNCHANGED <<out, task, sJournal, pathVars, toS, told>>

(* _check_stale_offers: nobody answered for OFFER_TIMEOUT.                  *)
StaleOffer(busy) ==
    /\ outgoing.state = "offered" /\ outgoing.tries > 0
    /\ Timeout(busy)
    /\ IF outgoing.tries < 2 /\ sUp # 0
       THEN /\ outgoing' = [outgoing EXCEPT !.tries = @ + 1]
            /\ toR' = Put(toR, sUp, Offer)
       ELSE /\ outgoing' = [outgoing EXCEPT !.state = "paused", !.tries = 0]
            /\ UNCHANGED toR
    /\ UNCHANGED <<out, task, sJournal, pathVars, toS, told>>

------------------------------------------------------------------------------
(* The session comes and goes.                                              *)

(* _pause_outgoing_for_peer: an offer waits for the next session; a running
   send loop looks after itself.                                            *)
PauseOutgoing == outgoing' = IF outgoing.state = "offered"
                             THEN [outgoing EXCEPT !.state = "paused", !.tries = 0]
                             ELSE outgoing

SDown == /\ sUp # 0 /\ ~Live(sUp)
         /\ sUp' = 0
         /\ PauseOutgoing
         /\ UNCHANGED <<out, task, sJournal, session, alive, rUp, flightVars, told, faults>>

(* _resume_paused_transfers_for_peer, once the new session is announced.    *)
SResume(up) ==
    CASE outgoing.state \in Terminal /\ outgoing.unsent ->
           /\ outgoing' = [outgoing EXCEPT !.unsent = FALSE]
           /\ toR' = Put(toR, up, Reject(Reason(outgoing.state)))
           /\ told' = told \cup {"sender"}
           /\ UNCHANGED out
      [] outgoing.state = "transferring" ->
           /\ out' = IF out = None THEN out
                     ELSE [out EXCEPT !.rewind = TRUE, !.late = FALSE, !.wake = TRUE]
           /\ UNCHANGED <<outgoing, toR, told>>
      [] outgoing.state = "paused" ->
           /\ outgoing' = [outgoing EXCEPT !.state = "offered", !.waiting = FALSE,
                                           !.tries = @ + 1]
           /\ toR' = Put(toR, up, Offer)
           /\ UNCHANGED <<out, told>>
      [] OTHER -> UNCHANGED <<outgoing, out, toR, told>>

SUp == /\ alive /\ sUp # session
       /\ sUp' = session
       /\ SResume(session)
       /\ UNCHANGED <<task, sJournal, session, alive, rUp, toS, faults>>

------------------------------------------------------------------------------
(* The send loop.                                                           *)

(* Mutated: a stall does not go back to the last confirmed byte. *)
SettleForward(o, tk) ==
    /\ out' = [o EXCEPT !.wake = FALSE, !.late = FALSE]
    /\ task' = [tk EXCEPT !.pc = "wait", !.job = None]
    /\ UNCHANGED outgoing

(* Nothing confirmed for the stall time: back to the last confirmed byte;
   the third time in a row, pause and reconnect.  Otherwise wait.           *)
Settle(o, tk) ==
    LET back == [o EXCEPT !.stalls = @ + 1, !.next = o.acked,
                          !.done = FALSE, !.wake = FALSE, !.late = FALSE]
    IN  IF ~o.late
        THEN /\ out' = [o EXCEPT !.wake = FALSE]
             /\ task' = [tk EXCEPT !.pc = "wait", !.job = None]
             /\ UNCHANGED outgoing
        ELSE /\ out' = back
             /\ IF back.stalls < MaxStalls
                THEN /\ task' = [tk EXCEPT !.pc = "loop", !.job = None]
                     /\ UNCHANGED outgoing
                ELSE /\ task' = [tk EXCEPT !.pc = "stalled", !.job = None]
                     /\ outgoing' = [outgoing EXCEPT !.state = "paused"]

(* Nothing to send now: announce the hash once all is sent, then wait.      *)
Announce(o, tk) ==
    IF o.next >= Size /\ Len(o.hashed) >= Size /\ ~o.done
    THEN \E ok \in SendResults(sUp) :
           /\ toR' = IF ok THEN Put(toR, sUp, [t |-> "complete", sha |-> o.hashed]) ELSE toR
           /\ out' = o
           /\ task' = [tk EXCEPT !.pc = "complete", !.job = ok]
           /\ UNCHANGED outgoing
    ELSE Settle(o, tk) /\ UNCHANGED toR

(* What a new path, new keys or a resume does to the place to send from.    *)
Rewound ==
    LET moved == task.path # 0 /\ task.path # sUp
    IN  [out EXCEPT !.next = IF moved \/ out.rewind THEN out.acked ELSE @,
                    !.done = IF moved THEN FALSE ELSE @,
                    !.rewind = FALSE]

WindowOpen(o) == o.next < Size /\ o.next - o.acked < Window

(* From "there is a link" to the next await.                                *)
Shorter(a, b) == IF a < b THEN a ELSE b

Go == LET o == Rewound
          tk == [task EXCEPT !.path = sUp]
      IN  IF WindowOpen(o)
          THEN \E c \in Chunks[sUp] :
                 /\ out' = o
                 /\ task' = [tk EXCEPT !.pc = "prep",
                                       !.job = [off |-> o.next, sess |-> sUp,
                                                len |-> Shorter(c, Size - o.next)]]
                 /\ UNCHANGED <<outgoing, toR>>
          ELSE IF o.next >= Size /\ Len(o.hashed) < Size
          THEN /\ out' = o
               /\ task' = [tk EXCEPT !.pc = "hash"]
               /\ UNCHANGED <<outgoing, toR>>
          ELSE Announce(o, tk)

(* The top of the loop: the receiver's verdict ends it.                     *)
TaskLoop ==
    /\ task.pc = "loop"
    /\ CASE out.result # None ->
              /\ outgoing' = [outgoing EXCEPT !.state = IF out.result THEN "complete"
                                                                      ELSE "failed"]
              /\ out' = None
              /\ task' = NoTask
              /\ UNCHANGED toR
         [] out.result = None /\ sUp = 0 ->
              /\ task' = [task EXCEPT !.pc = "linkwait"]
              /\ UNCHANGED <<outgoing, out, toR>>
         [] OTHER -> Go
    /\ UNCHANGED <<sJournal, pathVars, toS, told, faults>>

LinkBack == /\ task.pc = "linkwait" /\ sUp # 0
            /\ Go
            /\ UNCHANGED <<sJournal, pathVars, toS, told, faults>>

(* No link for LINK_WAIT: the transfer is paused, then that is announced.   *)
LinkGiveUp == /\ task.pc = "linkwait" /\ sUp = 0
              /\ Happens("giveup")
              /\ outgoing' = [outgoing EXCEPT !.state = "paused"]
              /\ task' = [task EXCEPT !.pc = "giveup"]
              /\ UNCHANGED <<out, sJournal, pathVars, flightVars, told>>

(* The pause was announced; the task ends.  After three stalls it also takes
   the link down.                                                           *)
PauseEmitted ==
    /\ task.pc \in {"giveup", "stalled"}
    /\ IF task.pc = "stalled" /\ sUp # 0
       THEN /\ sUp' = 0
            /\ IF Live(sUp) THEN alive' = FALSE /\ ClearFlight
                            ELSE UNCHANGED <<alive, flightVars>>
       ELSE UNCHANGED <<sUp, alive, flightVars>>
    /\ task' = NoTask
    /\ UNCHANGED <<outgoing, out, sJournal, session, rUp, told, faults>>

(* Mutated: a chunk that reaches past what was hashed is hashed whole. *)
HashChunkWhole(hashed, off, len) ==
    LET upTo == IF Len(hashed) < off THEN SubSeq(Source, 1, off) ELSE hashed
    IN  IF off <= Len(upTo) /\ Len(upTo) < off + len
        THEN upTo \o SubSeq(Source, off + 1, off + len)
        ELSE upTo

(* _prep_chunk in its thread: the hash covers every block once, in order.   *)
HashChunk(hashed, off, len) ==
    LET upTo == IF Len(hashed) < off THEN SubSeq(Source, 1, off) ELSE hashed
    IN  IF off <= Len(upTo) /\ Len(upTo) < off + len
        THEN upTo \o SubSeq(Source, Len(upTo) + 1, off + len)
        ELSE upTo

(* The chunk is sealed and written; or the write fails and the loop starts
   again from the last confirmed block.                                     *)
PrepDone ==
    /\ task.pc = "prep"
    /\ LET job == task.job
           hashed == HashChunk(out.hashed, job.off, job.len)
       IN  \/ /\ toR' = Put(toR, job.sess, [t |-> "chunk", off |-> job.off,
                              data |-> SubSeq(Source, job.off + 1, job.off + job.len)])
              /\ out' = [out EXCEPT !.hashed = hashed]
              /\ task' = [task EXCEPT !.pc = "sending"]
           \/ /\ ~Live(job.sess)
              /\ out' = [out EXCEPT !.hashed = hashed, !.next = out.acked]
              /\ task' = [task EXCEPT !.pc = "loop", !.job = None]
              /\ UNCHANGED toR
    /\ UNCHANGED <<outgoing, sJournal, pathVars, toS, told, faults>>

(* The transport has drained: only now next moves on.                       *)
ChunkSent == /\ task.pc = "sending"
             /\ out' = [out EXCEPT !.next = @ + task.job.len]
             /\ task' = [task EXCEPT !.pc = "loop", !.job = None]
             /\ UNCHANGED <<outgoing, sJournal, linkVars>>

(* The rest of the file was hashed from disk.                               *)
HashDone == /\ task.pc = "hash"
            /\ Announce([out EXCEPT !.hashed = Source], task)
            /\ UNCHANGED <<sJournal, pathVars, toS, told, faults>>

(* FILE_COMPLETE was written: only now complete_sent is set.                *)
CompleteSent == /\ task.pc = "complete"
                /\ Settle([out EXCEPT !.done = task.job], task)
                /\ UNCHANGED <<sJournal, linkVars>>

Wake == /\ task.pc = "wait" /\ (out.wake \/ out.late)
        /\ task' = [task EXCEPT !.pc = "loop"]
        /\ UNCHANGED <<outgoing, out, sJournal, linkVars>>

(* The stall time has passed since the last confirmation.                   *)
StallTimer(busy) == /\ task.pc = "wait" /\ ~out.wake /\ ~out.late
                    /\ Timeout(busy)
                    /\ out' = [out EXCEPT !.late = TRUE]
                    /\ UNCHANGED <<outgoing, task, sJournal, pathVars, flightVars, told>>

------------------------------------------------------------------------------
(* Messages from the receiver.  i is the position of the one handled.       *)

Taken(i, kind) == /\ i \in Arriving(toS, sUp)
                  /\ toS[i].t = kind
                  /\ toS' = RemoveAt(toS, i)

(* An ended transfer's task, sender state and offers are gone.              *)
EndOutgoing(state, unsent) ==
    /\ outgoing' = [state |-> state, tries |-> 0, waiting |-> FALSE, unsent |-> unsent]
    /\ out' = None
    /\ task' = NoTask

(* _repeat_reject: the receiver still acts on a transfer that was ended.    *)
RepeatReject ==
    /\ IF MayRepeat("sender")
       THEN /\ toR' = Put(toR, sUp, Reject(Reason(outgoing.state)))
            /\ told' = told \cup {"sender"}
       ELSE UNCHANGED <<toR, told>>
    /\ UNCHANGED <<outgoing, out, task>>

Ignore == UNCHANGED <<outgoing, out, task, toR, told>>

(* _handle_file_accept: the receiver's offset is what it has.  The loop goes
   on from there, or starts.                                                *)
Accepted(o, off) == [o EXCEPT !.acked = off, !.next = off, !.stalls = 0, !.done = FALSE,
                              !.late = FALSE, !.wake = IF TaskRuns THEN TRUE ELSE @]

HandleAccept(off) ==
    CASE outgoing.state \in {"cancelled", "failed"} -> RepeatReject
      [] outgoing.state \in Unknown \cup {"complete"} -> Ignore
      [] OTHER -> /\ out' = Accepted(IF out = None THEN NewOut ELSE out, off)
                  /\ outgoing' = [outgoing EXCEPT !.state = "transferring", !.tries = 0,
                                                  !.waiting = FALSE]
                  /\ task' = IF TaskRuns THEN task ELSE NewTask
                  /\ UNCHANGED <<toR, told>>

OnAccept(i) == /\ Taken(i, "accept")
               /\ HandleAccept(toS[i].off)
               /\ UNCHANGED <<sJournal, pathVars, faults>>

(* FILE_RESUME: as an accept; a receiver whose transfer was forgotten here
   must not wait for it forever.                                            *)
OnResume(i) ==
    /\ Taken(i, "resume")
    /\ IF outgoing.state \in Unknown
       THEN /\ toR' = Put(toR, sUp, Reject("failed"))
            /\ UNCHANGED <<outgoing, out, task, told>>
       ELSE HandleAccept(toS[i].off)
    /\ UNCHANGED <<sJournal, pathVars, faults>>

(* _handle_file_ack: what is on the receiver's disk, and its verdict.       *)
Confirmed(off, ok) ==
    LET more == off > out.acked
        acked == IF more THEN off ELSE out.acked
    IN  [out EXCEPT !.acked = acked,
                    !.stalls = IF more THEN 0 ELSE @,
                    !.late = IF more THEN FALSE ELSE @,
                    !.next = IF @ < acked THEN acked ELSE @,
                    !.result = IF ok # None /\ off >= Size THEN ok ELSE @,
                    !.wake = TRUE]

OnAck(i) ==
    /\ Taken(i, "ack")
    /\ IF outgoing.state \in {"cancelled", "failed"} THEN RepeatReject
       ELSE IF outgoing.state \in Unknown \cup {"complete"} \/ out = None THEN Ignore
       ELSE /\ out' = Confirmed(toS[i].off, toS[i].ok)
            /\ UNCHANGED <<outgoing, task, toR, told>>
    /\ UNCHANGED <<sJournal, pathVars, faults>>

(* The receiver waits for a tap: no more offers in this session.            *)
OnWaiting(i) ==
    /\ Taken(i, "waiting")
    /\ CASE outgoing.state \in {"cancelled", "failed"} -> RepeatReject
         [] outgoing.state = "offered" ->
              /\ outgoing' = [outgoing EXCEPT !.tries = 0, !.waiting = TRUE]
              /\ UNCHANGED <<out, task, toR, told>>
         [] OTHER -> /\ out' = IF outgoing.state \in {"transferring", "paused"} /\ out # None
                               THEN Confirmed(0, None) ELSE out
                     /\ UNCHANGED <<outgoing, task, toR, told>>
    /\ UNCHANGED <<sJournal, pathVars, faults>>

OnReject(i) ==
    /\ Taken(i, "reject")
    /\ IF outgoing.state \in Terminal \cup Unknown
       THEN Ignore
       ELSE /\ EndOutgoing(IF toS[i].reason = "failed" THEN "failed" ELSE "cancelled", FALSE)
            /\ told' = told \cup {"sender"}
            /\ UNCHANGED toR
    /\ UNCHANGED <<sJournal, pathVars, faults>>

------------------------------------------------------------------------------
(* The user, the disk, a restart.                                           *)

(* cancel_transfer: what could not be sent now is owed at the next link-up. *)
SCancel ==
    /\ outgoing.state \notin Terminal \cup Unknown
    /\ Happens("scancel")
    /\ \E sent \in SendResults(sUp) :
         /\ EndOutgoing("cancelled", ~sent)
         /\ toR' = IF sent THEN Put(toR, sUp, Reject("cancelled")) ELSE toR
    /\ told' = told \cup {"sender"}
    /\ UNCHANGED <<sJournal, pathVars, toS>>

(* The file shrank or cannot be read.                                       *)
ReadFails ==
    /\ task.pc \in {"prep", "hash"}
    /\ Happens("io")
    /\ EndOutgoing("failed", FALSE)
    /\ IF MayRepeat("sender")
       THEN /\ toR' = Put(toR, sUp, Reject("failed"))
            /\ told' = told \cup {"sender"}
       ELSE UNCHANGED <<toR, told>>
    /\ UNCHANGED <<sJournal, pathVars, toS>>

(* What save_transfer_journal keeps, and the delayed save itself (left out
   where no restart reads it).                                              *)
SEntry == IF outgoing.state \in Unknown \/ (outgoing.state \in Terminal /\ ~outgoing.unsent)
          THEN None
          ELSE IF outgoing.state \in Terminal THEN outgoing.state ELSE "live"

SSave == /\ "srestart" \in Faults
         /\ sJournal # SEntry
         /\ sJournal' = SEntry
         /\ UNCHANGED <<outgoing, out, task, linkVars>>

(* The app stops and starts: what was in memory is gone, what the journal
   had waits for the contact; a file that changed meanwhile is given up.    *)
Restored(journal, changed) ==
    [state |-> CASE journal = None -> "forgotten"
                 [] journal = "live" -> IF changed THEN "failed" ELSE "paused"
                 [] OTHER -> journal,
     tries |-> 0, waiting |-> FALSE,
     unsent |-> journal # None /\ (journal # "live" \/ changed)]

SRestart ==
    /\ outgoing.state # "new"
    /\ Happens("srestart")
    /\ \E changed \in {FALSE} \cup {c \in {TRUE} : "changed" \in Faults} :
         outgoing' = Restored(sJournal, changed)
    /\ out' = None
    /\ task' = NoTask
    /\ sUp' = 0 /\ alive' = FALSE /\ ClearFlight
    /\ told' = told \ {"sender"}
    /\ UNCHANGED <<sJournal, session, rUp>>

------------------------------------------------------------------------------
SenderHandles ==
    \E i \in DOMAIN toS : OnAccept(i) \/ OnResume(i) \/ OnAck(i) \/ OnWaiting(i) \/ OnReject(i)

SenderStep(busy) ==
    \/ OfferFile \/ QueueFile \/ StaleOffer(busy)
    \/ SDown \/ SUp
    \/ TaskLoop \/ LinkBack \/ LinkGiveUp \/ PauseEmitted
    \/ PrepDone \/ ChunkSent \/ HashDone \/ CompleteSent
    \/ Wake \/ StallTimer(busy)
    \/ SenderHandles
    \/ SCancel \/ ReadFails \/ SSave \/ SRestart
==============================================================================
