# SRLTCP: specifications, model checking and proofs

SRLTCP is a messenger without servers: contacts talk over TCP, a UDP protocol of
its own, Tor (only to find each other) or a serial radio, always inside one
end-to-end encrypted session per contact.  The program is Python
(`src/srltcp`), one asyncio event loop plus worker threads; the page, the
desktop shell and the Android app are its user interface.

This directory models the parts whose correctness depends on the order of
events: what happens when a path drops between two awaits, when keys change
under a running transfer, when an answer comes after its timer, when the
process stops between two writes.  TLC checks small instances, TLAPS proves
what it can for all.

## 1. The system

| part | state | operations | what makes it correct |
|---|---|---|---|
| Session encryption, `core/protocol/crypto.py` | keys, send counter, replay window | `set_keys`, `reserve`, `encrypt`, `decrypt` | a nonce is used once per key; a message is returned at most once; late ones in the window are taken |
| File transfer, `core/messaging/transfer.py` | `FileTransfer`, `_Outgoing`, `_Incoming`, the partial file, `transfers.json` | offer, accept, chunk, ack, complete, resume, reject; send loop, write loop, finalizer | the file arrives, whole, under its name, or nothing of it stays; both sides agree on how it ended |
| Sessions and links, `connect.py`, `links.py` | one `PeerLink` per contact, pending handshakes | dial, handshake, tie-break, re-key, teardown | both ends end up with the same keys on the same connection, and one that works |
| Messages, `backend.py`, `store.py` | message list, status, history file | send, transmit, receipt, flush on link-up | shown once; `delivered` means the contact has it; nothing is forgotten |
| UDP transport, `transports/udp.py` | packet numbers, ranges, lanes, out-of-order pieces | send, ack, detect loss, probe, retransmit, reassemble, move, close | a reliable byte stream over datagrams; no writer is left waiting |
| Serial radio link, `transports/serial_link.py` | message ids, fragments, bitmaps | fragment, ack, resend, give up | each message handed over at most once, whole |
| Contacts on a radio, `radio.py` and its part of `connect.py`, `backend.py` | beacons, who dials, the session and whether it is confirmed | beacon, dial, answer, confirm, ping, move to and from the network | the two end up with the same session, and no stale beacon ends it |
| Hole punching and paths, `punch.py`, `paths.py` | rounds, addresses, probes, candidates, the held connection | ask, offer, answer, punch, adopt, retry, upgrade | from Tor to a direct session, and the old tries leave nothing behind |
| Tor as doorbell, `tor.py`, `ping.py` | Tor's state, the onion address and the old one, what contacts know of it | start, stop, fail, new address, network watch, rendezvous, dial | Tor follows the setting; contacts with it on find each other |
| Announce and discovery, `announce.py`, `discovery.py` | addresses found, in the book and aliases, when to dial no more | announce, reply, find, move, dial, give up, expire | who has heard where a contact is gets a session with it |
| Pairing, `pairing.py` | codes, which of them were handed on, contacts, requests, verified | show, import, send back, consume, verify, decline, remove | verified means met; contacts are mutual or are asked to be |
| Folder sharing, `share_peer.py` | grants in memory and on disk, offers, downloads being zipped | offer, revoke, request, zip, serve, count | no more downloads than the limit |
| Groups, `groups.py` | member lists with versions, whom a list and a text is owed | create, update, leave, delete, send, forward, receipt | all members have the owner's list, and every text |
| Folder sync, `sync.py` | index with version vectors, tombstones, queued and running downloads | scan, exchange, fetch, place, conflict copies, pause, stop | no phantom edits, no lost ones, and the folders converge |
| Call relay, port mapping, disappearing messages, stores, wire formats, settings, web API, pages, shells, scripts | | | not modelled: section 8 |

Everything in the Python process shares one event loop, so a handler runs
undisturbed from one `await` to the next; what an `await` lets in between is what
these models are about.  Components call each other directly: a link-up
(`connect.py:_complete_handshake`) resumes transfers, flushes the outbox and the
groups, greets new contacts, sends offers and starts a round of sync; a frame
(`backend.py:_on_transport_frame`) is decrypted by the link's `CryptoBox` and
handed to the component of its type; a link-down pauses transfers and schedules
a reconnect.

The behaviours that are hard to test are listed line by line in `PROJECT.json`
(`hazards`), each with the properties that cover it.

## 2. Modules

| module | models | composes |
|---|---|---|
| `AtMostOnceChannel` | abstract: what one direction of a session promises | |
| `CryptoBox` | a sender's and a receiver's `CryptoBox` and a network that loses, repeats and reorders | implements `AtMostOnceChannel` |
| `CryptoBoxProofs` | theorems about `CryptoBox` | extends `CryptoBox` |
| `FileLink` | the session below a transfer: link-up and link-down as each side sees them, what is in flight, faults | |
| `FileSender`, `FileReceiver` | the two sides of one file | extend `FileLink` |
| `FileTransfer` | both sides and the session, the fairness, the properties | extends `FileSender`, `FileReceiver` |
| `ListFacts` | lemmas on finite sets, repeated steps and lists from which some entries go | |
| `FileTransferProofs` | theorems about `FileTransfer` | extends `FileTransfer`, `ListFacts` |
| `ByteStream` | abstract: what a connection promises to who writes to it and reads from it | |
| `UdpStream` | one direction of a UDP connection: numbers, acks, loss, retransmission, lanes, flow control | implements `ByteStream` |
| `UdpStreamProofs` | theorems about `UdpStream`: it implements `ByteStream`, its windows, and that nothing is forgotten | extends `UdpStream`, `ListFacts` |
| `SerialLink` | one direction of the reliable radio link: two lanes, turns, the receiver's tables, the answers | |
| `Session` | both ends of a contact: dialing, handshakes, the tie-break, replaced connections, Tor to direct, silence | |
| `Outbox` | the text messages from one contact to another: list, receipts, history files | |
| `OutboxProofs` | theorems about `Outbox` | extends `Outbox`, `ListFacts` |
| `FolderSync` | one file of a synced folder on two devices | |
| `FolderSyncProofs` | a theorem about `FolderSync` | extends `FolderSync`, `ListFacts` |
| `Contacts` | what the next three share: who trusts whom, sessions among three devices, messages in order | |
| `Pairing`, `SharePeer`, `Groups` | codes and contact requests; grants and downloads; a group with an owner | extend `Contacts` |
| `Features` | what a session that comes up, ends, or a restart does to all three | extends `Pairing`, `SharePeer`, `Groups` |
| `FeaturesProofs` | theorems about the downloads and the codes of `Features` | extends `Features` |
| `Punch` | from a session on Tor to a direct one: rounds, NATs, probes, the upgrade | |
| `Doorbell` | Tor of two contacts, their addresses, how each learns the other's | |
| `RadioContact` | beacons, who dials, handshakes whose answer is lost, radio or network | |
| `Announce` | two contacts on one network that find each other | |
| `Reach` | the four ways to reach a contact | extends `Punch`, `Doorbell`, `RadioContact`, `Announce` |
| `ReachProofs` | theorems about `Reach` | extends `Reach` |
| `MC...` | constants of the TLC instances | |

`Features` and `Reach` compose modules whose users would not do everything at
once.  `use` and `way` are chosen in the initial state and say which of them is
looked at; the others rest.  One run each then covers all of them.  In `Features` the
sessions, their ends, restarts and the greetings of a link-up are one action for
all three.

### CryptoBox

`SetSendKeys`/`SetRecvKeys` are the two halves of `set_keys`, installed by each
end at a time of its own; `Reserve` is `reserve` on the event loop, `Seal` the
encryption in a worker thread, so re-keys fall between the two.  `NewSendBox`
and `NewRecvBox` are a link that is replaced by a new one.  AES-GCM is external:
a ciphertext opens under the key that sealed it and no other.  `Fresh` states
what the handshake gives: a key is either the one in use (a repeated answer) or
was never used before, because openings are taken once
(`_handshake_is_fresh`) and both ephemeral keys are new.

### FileTransfer

A block of the file is known by its place in it, so a hole, an overlap or a
swap shows in the content of the partial file; a digest is the sequence of
blocks fed to the hasher.  `outgoing`/`incoming` are the `FileTransfer` objects
(`state`, and the metadata that decide: `waiting`, `ask`, `reject_unsent`),
`out`/`rx` are `_Outgoing`/`_Incoming` (None stands for "not in `_out`/`_in`"),
`task` is the send loop with its `path_key`, `fin` the finalizer, `part`/`placed`
the file on disk, the journals what `transfers.json` has.

The send loop is split at each await: `TaskLoop` (top of the loop up to the next
await), `LinkBack`/`LinkGiveUp` (`_await_link`), `PrepDone` (worker thread, then
the write), `ChunkSent` (drain, then `next` moves on), `HashDone`, `CompleteSent`,
`Wake`, `StallTimer`, `PauseEmitted` (what follows the awaited announcement of a
pause).  At the receiver `OnChunk` queues, `WriterDone` is the return of a write
in its thread with what `_rx_progress` does then, `Verified`, `Place` and
`Placed` are the three parts of `_rx_finalize`.  The handlers of one message are
one action each, with every call they make.

`sUp`/`rUp` are the session each end believes in, `session`/`alive` the one that
works: a message is in flight only within it, and is lost when it ends.  A
session stands for a connection together with its key epoch, which is what the
loop's `path_key` compares.  `Chunks` gives each session the lengths its path
may use, so that a path switch changes the chunk length.

`line` is what the session runs over: `tcp` keeps the order, `radio` does not
and loses single messages.  `LineFaults` names the faults of each, which come out
of one budget (`MaxFaults`): `cut` (the path goes silent), `switch` (a new
session beside a working one), `rekey`, `lose` (the radio gave a message up),
`early` (a timer fires although its answer is on the way), `giveup` (`LINK_WAIT`
passes), `srestart`/`rrestart`, `changed` (the file changed while the app was
stopped), `scancel`/`rcancel`, `refuse`, `io` (a disk error), `ask` (the receiver
has to tap Download).  Timers otherwise fire only when nothing is under way
(`Timeout`): they are far longer than a round trip.

Left out: compression, framing, speeds and progress, chat bubbles, disappearing
timers, folder-sync placement.  `MAX_PENDING_INCOMING`, `RX_BUFFER_TOTAL` and
disk space, which depend on other files, are the nondeterministic `refuse`.  A
cancel at the receiver is one step, although the code waits for the running
write first.  The await in `_handle_file_accept` before the send loop is created
is not split.  Journal saves are modelled only in instances with restarts.

`VerdictsAreRight` is four statements: a damaged file is never reported where
none is (`NoFalseDamage`), complete means whole (`CompleteMeansWhole`), the
sender's "complete" is not contradicted (`OneVerdict`), and a transfer that
ended otherwise leaves no partial file (`EndedLeavesNothing`).

### UdpStream

`snd` has what `UdpConnection` of the sender keeps: the two queues and the
writers that wait for room, the next byte and how far the other is, the ranges
to send again, the packets not acknowledged and the numbers skipped.  `rcv` has
the receiver's `cum`, its out-of-order pieces, the bytes the read loop has not
handed up, and the ranges of packet numbers it acknowledges.  `stream` and
`read` are what `ByteStream` speaks of.

`Write` is `send` and `send_framed` with the wait for room; `SendData` one turn of
the send loop (retransmissions first, then new bytes under the window and the
limits of bulk data), `ProbeTimeout`, `LossByTime`, `KeepAlive`, `ProbePath` the
timers, `Receive` and `ReceiveAtA` the handling of a packet at each end with
`_on_stream`, `_record_pn`, `_on_ack` and `_detect_loss`, `SendAck` the delayed
acknowledgement, `Take` and `Handled` the read loop, `Move` a change of network
with the new path's smaller packets, `Close`/`CloseToo` the end.

Faults: `lose`, `lose ack`, `repeat`, `reorder`, `early` (a timer fires with the
answer on its way), `tight` (a packet takes less than its room), `skip` (a number
is left out), `move`, `close`; `Together` lists which may meet.  A byte stands for
as many as a piece can be cut by.

Left out: congestion control and pacing (`Cwnd` packets in flight), packet size
discovery beyond two sizes, sealing, STUN.

### SerialLink

`queue` holds the two deques of `_Outgoing`, `asking` a bulk `send()` that waits
for room (`awake` is the room event), `lane` the two send loops with the
`_Sending` objects of the turn, `busy` the turn lock.  A loop is split where it
waits: `PickUrgent`/`PickBulk` (the queue), `WantTurn` (what follows the random
wait), `TakeTurn` (the lock), one `Write` per packet, `Answered` or `NoAnswer`
(the wait for the answer), and back to the head, where it is `Complete`, given
up or `Dropped`.  `CutShort` is a bulk turn that gives way to an urgent message.
At the other end `Receive` is `feed` and `_on_data` for one packet with the
answer it may cause, `AnswerTimer` the armed answer.  `rx` has the code's
tables: `_incoming`, the broadcasts, the delivered messages, the keys the turn
touched.  A packet carries which part of which message it is, so a message put
together from two shows.

`load` is picked from `Loads` in the initial state: which messages each lane is
given, into how many packets they are cut, how many partial messages the
receiver keeps, and which faults may happen.  `Parts`, `PartialMax` and
`Faults` are those of the load.

Bounds: ids are `Ids` numbers instead of 65536 and start at 0 or at the last
one; `PartialMax`, `CastMax`, `DoneMax`, `GroupMax`, `TurnMax` and `QueueMax`
stand for 8, 4, 512, 8, the turn's packets and the bulk queue, small enough that
each limit is reached.  `Parts` says how many packets a message is cut into
with either fragment length, which the sender picks by its losses.  Faults, from
one budget: `lose` (a packet or one answer), `late` (a timer fires although the
answer is coming), `giveup` (`GIVE_UP` passes without progress), `cancel`,
`port` (a write fails).  A write holds one packet.

Left out: the datagrams of calls (nothing to keep), pacing and rate
measurement (they decide when, not what), the set of 64 remembered cancels (one
tag here), reopening the port.

### Session

One contact seen from both ends, `a` (the smaller hash) and `b`.  `conn` is what
the operating system knows of each connection: who holds it open, whether its
path is cut, the frames on the way to each end, and who still has to look at it
(`check`, the task of `_expire_if_unauthenticated`).  `link` is `_links` (the
connection, the keys, `metadata["answering"]`), `pending` is
`_pending_handshakes`, `upgrade` is `_upgrades`.  A key is known by the opening
it was agreed from.

Three kinds of tasks run beside each other: `task` is the one that holds the
connect lock (`Dial`, `DialDone`, `Retry`, `HelloSigned`), `climb` is
`_try_direct_upgrade` (`StartUpgrade`, `UpgradeDialed`, `UpgradeSigned`), and
`handler` is per connection the frame its read loop handles.  A handler is split
at its awaits: an opening is `TakeTheirs` (arrives, passes the tie-break), `Bind`
(keys are derived in a worker thread; an earlier connection starts to close),
`Bound` (it has closed), `Answer` (the answer is signed and goes out, the keys are
set); an answer is `TakeAnswer`, then `Verified`, or `Climbed` and `Switched` for
the better connection of an upgrade.  `KeepOurs` and `RejectTor` are the
openings that are not taken.  `SeesClosed` is the end of the read loop with the
event it causes, `Gone` the event of a connection closed by this end itself.

Time: who waits 10 s or 15 s waits until nothing is under way (`Calm`) or, a
fault, not long enough (`slow`).  A periodic task starts when nothing else does
or, a fault called `crossing`, in the middle of something: that is how both ends
come to dial at once.  The other faults are `cut`, `unreachable` (a dial that
nobody answers) and `early` (a Tor opening refused although the direct session
has gone silent).  Each kind happens at most once, at most `MaxFaults` of them in
one behaviour.

A retried opening is a new one, `MaxTries` on a connection.  Two names for
connections are enough for a session and the one that replaces it: a name is
used again only when nobody knows it any more.  A dial that answers while both
names are taken waits until one is free: that is a bound of the model, and a
third connection at the same time is not explored.

Left out: handshakes over the radio, where the session counts only once
something encrypted arrived (`confirm_link`), forced reconnects, hole punching,
and everything that turns a stranger away (signatures, pinned keys, rate
limits, blocked contacts): both ends are honest contacts.

### Outbox

`a` writes to `b`.  `status` is `_messages` at `a` with the status of each
message ("gone" is not in the list), `messages` is the list at `b`, `onDiskA` and
`onDiskB` their `messages.json`, and an end in `unsaved` has a `_persist_handle`.
`session` is the connection both have or had: what is in flight each way, who has
announced the link-up, and whether it is direct (over Tor nothing but receipts
goes, `data_link` and `DOORBELL_REFUSED`).  How a session comes up is the
`Session` module; here one connection at a time replaces another.

`SendMessage` is `send_message` with its `_transmit_text`: "sent" is set after
the drain, and the peer has not got the whole frame before that, so the two are
one step.  `flush_outbox` runs in the read loop and waits after each message:
`flush` is what is left to send, oldest first, `FlushNext` one message, and
`HandleReceipt` waits for its end (`ReadLoopFree`).  A write to a path that is dead may succeed
all the same, or fail (`Transmit`, `CannotTransmit`).  At `b` the receipt is
written first and the text stored after the drain: `HandleText`, then `Store`.
While that drain waits the receipt is still in the buffer of `b`, so `a` cannot
have it (`Waits`).  That is not exact when other tasks write behind the receipt, as
their bytes may keep the drain waiting once it has gone; the text is then not
stored yet when `a` has the receipt, which is the gap of section 5 (1).
`Accept` is the user of `b` adding `a`, at any time or before the first message.

Faults, from one budget: `cut` (part of what was on the way still arrives),
`close` (`b` closes a working connection: its handler is cancelled, its buffer is
still written), `tor` (the session comes up over Tor first), `adelete`/`bdelete`,
`arestart`/`brestart` (whatever is not saved is forgotten).  A regular stop saves
first: `Save`, then the restart.

Left out: the text and its compression, disappearing timers and the retention
limit (they delete), files and groups in the same list, the other direction, and
removing a contact.

### FolderSync

One file on two devices.  `dev` has for each the invitation's state, the file on
disk, the conflict copies and the trash, the index entry with its version vector,
`_sync_dirty`, and the three places a wanted entry goes through: `queue`,
`wanted`, `incoming`.  A content is the number of the edit that made it.

A round is split where it waits: `Scan` (the hashing in a thread and what is
written to the index after it), `SendIndex`, `EndRound`; there are three kinds of
rounds, as the loop's may run beside one of the user and one of a link-up, which
holds the read loop.  `HandleSync` is the handler of each message, with the
comparison of the vectors, the choice of a conflict's winner and the request it
leads to.  `Edit`, `Delete`, `Pause`, `Resume`, `Leave`, `Invite`, `Accept` are the
users.

The end of a download that was asked for at some time before is two steps, as
`sync_transfer_done` waits for `_sync_lock` between them: `Done` takes the path off
the lists (`sync.py:685-686`), `Placed` puts the file in place.  What has come and
waits is in `placing`, each file with who is `ahead` of it: the lock is had in the
order it is asked for, so a round that was due or scanning (also one whose thread has
not looked at the lists yet) and the index that is being handled may come first, each
once (`InLine`, `MayLock`, `HadLock`).  The thread of a scan looks at the two
lists one after the other (`sync.py:390`); `Torn` is the scan between whose looks a
request takes the path from the one to the other, so that it is seen in neither.

`touched` is what the properties know of the users and no device does: whose file
was changed since a scan last looked at it.  A scan that leaves the file out,
because it is on its way in, has not looked (`Overlooks`, `Seen`).

Faults: `pause`, `leave`, `cut`, `restart`, `late` (a request is given up and its
answer comes all the same), `fail` (the transfer fails).  Left out: folders of
several files, renames, ignore rules; the transfer itself is `FileTransfer`.

### Contacts, Pairing, SharePeer, Groups, Features

Three devices: `o` shows codes, shares and owns the group, `m` and `n` do the rest.
A message on a session arrives in order, or the session ends and it is lost.
Nothing here depends on how a session comes up; that is `Session` and `Reach`.

`Pairing`: `tokens` and `shared` are `_pairing_tokens` and `_pairing_shared`, `out`
is `pair_token_out`.  `ImportCard` takes a code from the screen or as a link,
`HandlePair` the code that comes back, `HandleAccepted` the answer to a contact
request; `linked` and `met` are history that no device has: codes ever handed on
as a link, and pairs that have seen each other's screen or compared numbers.

`SharePeer`: `grants` is the memory of `o` and `stored` its `shares.json`.
`HandleFetch` is the first check of a request and, for a single file, the serving;
a folder is zipped in a thread (`zipping`), and `Zipped` is what follows: the count
and, if it is still within the limit, the sending.

`Groups`: `group` is each device's copy with its version, `owed` the `sync_to` of
the owner, `pend` whom a text is still owed.  A broadcast works out whom it owes,
sends, and notes it (`storing`, `Noted`): other broadcasts come between.  `due` is
history: whom a text is meant for who are members still.

`Features` adds `LinkUp` (with the greetings of all three), `Cut` and `Restart`
(what memory forgets).  Left out: addresses, key changes, signatures, passwords,
pictures, names, and limits on sizes.

### Punch, Doorbell, RadioContact, Announce, Reach

`Punch`: the leader and the follower of a session on Tor.  A round is `Tick` or
`HandleAsk`, `Offer`, `HandleOffer`, `Answer`, `HandleAnswer`; then both probe
until a connection is there (`Opens`, `GivesUp`), the leader opens a session on
it, and both take it over (`Adopts`, `TakesOver`, `Upgraded`) or do not
(`UpgradeExpires`, `HeldExpires`, `Retry`).  The two ends take over in one step; what
can happen between their moves is in `Session`.  `cross` says whether the NATs can be
crossed at all.  Faults: `addresses` (they change), `rotate` (a NAT gives another
port), `slow`, `cut`.

`Doorbell`: `tor` is Tor's state on each device, `addr` and `old` its addresses,
`saved` what the other has stored, `live` which addresses lead somewhere.
`Shutdown` is `_tor_shutdown`, on a stop (`StopTor`) or a failure of Tor (`TorFails`): a
session over Tor ends with it, and what was on its way over it (`Carries`), so
contacts that have nothing else must dial again.
`Watch` is the network watch, `HandleRendezvous` the exchange of addresses.
Faults: `settings`, `tor` (it dies), `address` (a new one is made), `move` (another
network), `restart`, and `quick` (one of these within the second or two that a
stop or an old address takes).

`RadioContact`: `sess` is what each side believes (`sure` once something
encrypted came, `confirm_link`), `try` its handshake on the air, `dialing`,
`waiting`, `checking` the three tables of `radio.py`.  Faults: `loss`, `restart`,
`network` (it goes or comes), `slow` (a handshake exceeds its time), `both` (the
network is dialed while something is on the air), `crossing` (both move at once).

`Announce`: `ip` is where a device is, `knows` where it thinks it is, `found`,
`book` and `alts` are the registry, the saved address and the other addresses,
`open` the session each believes in, `ads` the announcements on the way.
Faults: `announce` and `find` (the user does it), `move`, `chat`, `lost`, `late`
(out of order), `restart`.

Time, in these four, is said in the head of each module: who waits longer than
something takes does so, except as a fault.  Left out: STUN, the gathering of
addresses, the round over TCP dials, strangers, more than two contacts, IPv6 scopes, and
the sources of Tor's own delays.

## 3. Runs

All bounds are in the `.cfg` files; `PROJECT.json` says in a sentence what each
run shows.

| run | instance | distinct states | checks |
|---|---|---|---|
| `crypto_window` | 2 keys, 6 messages, window 2 (symmetric messages and keys) | 63 k | `IInv`, `NonceUnique`, `AtMostOnce`, `InWindowAccepted`, `ChannelSpec` |
| `file_faults` | 3 blocks, 3 sessions, window 2; two faults of ten over TCP or of four over the radio | 2.7 M | `TypeOK`, `FileInOrder`, `ConfirmedIsHeld`, `VerdictsAreRight` |
| `file_live` | 3 blocks, two faults of cut, switch, rekey, fair | 353 k | `FileArrives`, `SenderLearns` |
| `radio` | 4 small messages in shared turns, or a file of 2 pieces with a message between; two faults, fair | 584 k | `OnceAndWhole`, `ConfirmedArrived`, `DroppedStaysDropped`, `EverythingArrives` |
| `session_faults` | 2 connections, one over Tor, 2 tries, two of five faults, fair | 328 k | `SameKeys`, `Settles` |
| `outbox_faults` | 2 messages, two of seven faults, fair | 535 k | `ShownOnce`, `DeliveredIsThere`, `DeliveredStays`, `EveryMessageArrives` |
| `outbox_lost` | 1 message, one restart of the receiver | | violated: section 5 |
| `udp_stream` | a message of 1 byte and a file of 3, packets of 2 or 3; one fault of nine, or an early timer with a reordering, fair | 397 k | `TypeOK`, `NothingForgotten`, `ReadsTheStream`, `EverythingArrives` |
| `folder_sync` | 2 edits or deletions, one of six faults, fair | 572 k | `NoPhantomChanges`, `FoldersMeet` |
| `sync_lost` | 2 edits, no fault | | violated: section 5 |
| `features` | 3 devices; 1 code and 1 more step, or 2 grants of 1 download and 3 requests, or 1 text and 1 change of a group; one cut or restart, fair | 819 k | `TypeOK`, `VerifiedWereMet`, `LimitKept`, `ListsAgree`, `TextsReachMembers`, `AskedBack` |
| `reach` | 2 contacts; two faults of punching, of the doorbell or of announcing, one of the radio, fair | 738 k | `SessionKeepsItsConnection`, `WorkingStays`, `GoesDirect`, `TorFollows`, `FindEachOther`, `Agree`, `FoundAgain` |

Why the bounds are enough.  With six messages and a window of two the seen set
is pruned and a pruned counter comes back; two keys give a re-key and a return
to the same keys.  Three blocks and paths of one and two blocks per chunk give a
chunk that starts before what was hashed and reaches past it, and an early chunk
that the next one half covers.  Two faults give a fault in the recovery from
another.  Three session names are enough because a name is reused only when
neither side nor the send loop knows it any more.  On the radio two lost packets
are a lost packet in the turn that repeats a lost packet; the receiver keeps
fewer partial messages than a turn touches, so the table overflows inside a turn;
eight ids are more than the messages of the run.  For sessions, two faults are a
cut while a crossing or a slow handshake is being sorted out.  Two messages are
one in the list of a flush while a receipt of the other waits, and two faults a
receipt lost and then a restart from an old file.  The counter limit of
`CryptoBox` (2^63) is a bound (`MaxCounter`) the run's messages can reach.

In `udp_stream` the file does not fit a small packet and, with the message, neither a
big one nor the window: the writer waits for room, the sender for the window, one
packet carries parts of both, and a retransmission is cut at other places than the
first copy.  One
range of acknowledgements and two of packet numbers are fewer than a lost or
overtaken packet makes.  Two edits in `folder_sync` are a conflict, an edit
against a deletion, or an edit during the download of another.  In `features`
three devices are an owner and two members who may be no contacts of each other;
two grants let one be stopped while the other's offer is being sent, and three
requests against a limit of one are two too many in preparation.  One fault is a
message or an answer lost, or memory lost, at any point.  In `reach` two faults
are a change in the recovery from another; the radio's beacons never end, so one
fault, with two of the four packets of a handshake in question, is what
fits in a run.

Deadlock is checked for `CryptoBox` only.  A transfer that ended, or one that
waits for the user when the fault budget is spent, does stop; so do a radio
link or a connection with nothing left to send, a session that works, an outbox
that is empty, folders that agree and users who have done what they may.

## 4. Fairness

`FairSpec` of `FileTransfer` assumes weak fairness of what the event loop, the
network and the timers do by themselves: a task that can run runs, a message in
flight in a working session arrives, a timer that is due fires, a side notices
that its link is dead (keepalives, pings), contacts that can reach each other
connect again (`_schedule_reconnect`, `retry_outbox_connections`), a write ends.
Nothing is assumed of the user, of cancels, of restarts or of faults; their
number is bounded, which stands for "the network is good long enough".  Journal
saves and `RIdle` are not assumed either.

`LiveSpec` of `SerialLink`: as long as a loop, the line or the answer timer can
do something, one of them does; no single one is favoured.  Giving messages to
`send()`, cancelling and failing are not assumed.  Losses are finitely many, and
the sender does not give up before they end.

`FairSpec` of `Session`: tasks go on after a worker thread or a dial, frames are
handled, closed connections are noticed, timers run out, and a contact without a
session is dialed (the loops of `backend.py` do that every few seconds).  Moving
from Tor to a direct connection is allowed, never assumed.  That timers run out
only when nothing is under way, except as a fault, is what the code's limits are
chosen for: 10 s and more against handshakes of a fraction of a second.
Coincidences are finitely many, because nothing in the code but chance (different
dial times) keeps two ends from crossing again and again.

`FairSpec` of `Outbox`: what is in flight is handled, a handler ends, ends notice
a dead path, contacts connect, and a Tor session becomes a direct one.  The last
two are what the code tries, not what it can promise: a contact that stays
unreachable for two minutes is no longer dialed until something changes
(`REACH_GIVE_UP`), so `EveryMessageArrives` says what happens once a path is
back.  Saving, deleting, restarting, writing and accepting are not assumed.

`FairSpec` of `UdpStream`, of `FolderSync` and of `Features` is weak fairness of
one action, `Progress` (`SyncProgress`): as long as anything can run by itself,
something does.  In `UdpStream` that is the writer, the loops, the timers and the
packets still in flight.  In `FolderSync` it includes `Resume` (a user who pauses
for good gets no equal folders) and `Reconnect`: when all is quiet and the folders
differ, the session sooner or later ends and another follows, whose link-up starts
a full round; sessions do end, by sleeping phones, changing networks and restarts.
In `Features` contacts without a session connect, and no session has to end: what
is owed goes out on the next link-up, and nothing is left owed on a session that is
up.

`FairSpec` of `Reach`: `Progress` for punching, the doorbell and the radio's tasks;
on the radio beacons keep being sent (`BeaconTick`) and each side hears what is on
the air; on the shared network each device does what its timers ask (dial,
notice, end a silent session), whatever the other does.  What users do, lost
announcements and expiring registries are not assumed.

## 5. Disagreements found

The first two are counterexamples of runs; `PROJECT.json` quotes the lines.

1. `outbox_lost`: the receipt of a text goes out before the text is stored, and
   the history is saved half a second later still.  A receiver killed in between
   has confirmed a message it does not have; the sender shows ✓✓ and does not
   send it again.  `DeliveredIsThere` shows that nothing else loses one: a
   connection that the receiver itself closes between the two is the same gap
   without a crash (`dropped`).
2. `sync_lost`: a file made after the last scan has no index entry, so the
   download that is placed over it keeps no copy.

The next are stated in the modules or reached by a change of a `.cfg`; TLC then
shows the behaviour described:

- Orphaned transfer (`MCFileTransferLive.cfg` with the faults `cut` and `giveup`):
  an accept handled while the send loop awaits the announcement of its pause only
  wakes the loop, which then ends.  The transfer shows as moving and nobody sends
  until the next link-up.
- Ids that come round (`MCSerialLink.cfg`, `Ids = 2`): the parts of a message the
  sender gave up stay in the receiver's table without a time limit; when the id
  is used again with the same number of parts, old and new ones are put together
  and confirmed.
- Tie-break (`OneGivesWay` of `Session`): it is decided when an opening arrives
  and not looked at again.  The winner's own dial can complete while it computes
  its answer; each end then moves over to the other's connection and closes its
  own.  `Settles` shows that a session comes up all the same, by starting over.
- Radio and network at once (`SureMeansShared` of `RadioContact`, with the fault
  `crossing`): each end moves its session on the opening of the other, and both
  are sure of sessions with different keys.  At `paths.py:115` a comment says that
  one side moves "so both don't race each other", and `radio.py:20-23` that no
  phone shows "connected" and the other not for good.
- Quick changes of the Tor setting (`TorFollows`, with the fault `quick`): turned
  on again within the second in which it stops, Tor ends up stopped.
- Lost doorbell (`StayReachable` of `Doorbell`, with `move` alone): a rendezvous
  sent while Tor still starts carries an empty address, which erases the one that
  the contact had stored (`tor.py:672-680`); `docs/NETWORKING.md:100-107` says
  they keep finding each other.
- Stopped sharing (`StopEndsAccess` of `SharePeer`): a folder that is being zipped
  when its sharing is stopped goes out all the same (`share_peer.py:733`).
- Deletions nobody made (`AsideIsNoDelete` of `FolderSync`, with no fault at all): the
  file that loses a conflict is moved aside, and the scans leave its path out for as
  long as the winner is queued or wanted.  There are three gaps in that.  A link-up
  forgets what was wanted (`sync.py:364`) and scans at once, before the other side's
  index can ask for it anew.  A download that ended is taken off the lists
  (`sync.py:685-686`) and then waits for the lock, which a scan may have or stand in
  line for.  And a scan that looks at `_sync_wanted` before a request and at
  `_sync_queue` after it sees the path in neither (`sync.py:390`).  Each time the file
  is recorded as deleted, although a comment at `sync.py:389` says that a file renamed
  aside by a conflict is no deletion.  The deletion loses against the winner when the
  two meet, so the folders agree in the end (`FoldersMeet`).  `NoPhantomChanges` has
  these as its exceptions, beside a fault, and says that what is recorded as
  deleted is always there as a conflict copy.
- Lost answer (`AnswerArrives` of `FolderSync`, with the fault `cut`): an `accept` that is
  lost with its session is sent again only if the invitation comes again
  (`sync.py:485`), but that was sent and is not repeated: one side syncs, the other
  shows the folder as not accepted yet.  `FoldersMeet` says nothing of such folders
  (`Active`).
- Removed members (`RemovedAreTold` of `Groups`): an update counts as delivered
  once a session takes it, and on later link-ups only members get the list: a
  removed member whose update is lost with its session never learns of it.

What follows from reading and from counterexamples met on the way:

- A cancel handled while the receiver moves the verified file into place
  (`_place_verified`) is overwritten by `COMPLETE`, and the file stays.
- When the final `FILE_ACK` is lost and the send loop has paused, the re-offer is
  answered by a verdict that `_handle_file_ack` leaves for a loop that no longer
  runs: the sender never shows the file as sent.  `SenderLearns` therefore allows
  one failure of the path, not two.
- A cancel lost on a dead path, and a reconnect within `REJECT_REPEAT`: the rate
  limit swallows the answer and the receiver waits.
- When dials cross, `set_link_keys` and `_complete_handshake` look the link up by
  the contact after several awaits and may give the keys agreed on one connection
  to another.  The two ends then cannot decrypt each other until they go silent.
  `SameKeys` excepts crossings; `Settles` includes them.
- The responder of an upgrade closes the old connection when it answers, before
  the initiator has the answer, although `_send_upgrade_handshake` says that the
  current session is replaced "only once it's proven": it is proven to one end.
- A Tor opening taken while no direct session works is answered over the direct
  session that came up meanwhile, which it replaces.
- A message deleted at the receiver comes back when its receipt was lost: it is
  sent again, and only the list tells a resend.
- Folders that differ can answer each other's indexes for a long time: where they
  cross, each side may raise the version of its own entry (`_resolve_conflict`)
  before it has the other's.  With three edits the versions have no bound, which
  is why `folder_sync` has two.
- When more than `PartialMax` messages push a file piece out of the receiver's
  table, its packets are counted in the progress twice; messages of one turn can
  arrive in another order than they were given.

## 6. Proofs

`CryptoBoxProofs` proves for any set of keys and messages, any window and any
counter limit: `TypeCorrect`, `NoncesNeverRepeat`, `DeliveredAtMostOnce`,
`LateButInWindow` and `ImplementsChannel` (the box implements
`AtMostOnceChannel`).  They rest on `Inductive`: `IInv` is the conjunction of the
type invariant, `SendInv` (a message under the current key has a counter below
the next one; keys in use were installed), `RecvInv` (a message that was
returned under the current key is refused from now on) and `SeenInv` (only
counters of returned messages are in the seen set).  `NonceUnique` alone is not
inductive: a step of `Reserve` keeps it only because of `SendInv`; `AtMostOnce`
needs `RecvInv`, and pruning keeps that because a pruned counter is below the
window.  The assumptions are those of `CryptoBox` (a window of at least one, two
values that are no key and no nonce) and `Fresh`.

`FeaturesProofs` proves `DownloadsAreLimited`, that no grant serves more than its
limit, for any number of grants, downloads, requests, codes and texts, whichever
sessions end and whoever restarts; the assumptions are that these are numbers.
`LimitKept` is not inductive: whether one more download is served is decided by
the count in the grant, and a restart replaces the grants by the stored ones.
`ShareInv` therefore says of the grants in memory and of the stored ones alike
that their counts cover what was served and stay within the limit (`Counts`), and
that live grants and downloads being zipped belong to a contact: a new grant
starts to count at 0, which is right only because a grant made for nobody has
served nothing.  `ServeCounts` is the step that counts, `ShareSteps` has one case
per action of `SharePeer`, `OtherShareSteps` the rest of `Features`, which changes
none of it.

It also proves `VerifiedOnlyInPerson`: whom a device shows as verified
was met, for any number of codes and steps of the users.  A code verifies by
what `o` remembers of it (`tokens`, `shared`), and it comes back in a message
sent long before; so `PairInv` relates all three.  Working codes that were handed
on as a link are marked as shared (`CodeInv`), and who is about to send a code
(`OutInv`) or has sent it (`Fine`) either met `o` or has a code that was handed
on (`Rightful`).  `PairSteps` is the case that matters; groups and sharing send
no codes (`GroupSteps`, `ShareMail`), and what a link-up sends is shown in
`GreetingBears`.

`OutboxProofs` proves `ShownOnceTheorem`, `DeliveredIsThereTheorem` and
`DeliveredStaysTheorem` for any number of messages and faults (`N` and
`MaxFaults` are numbers, `None` is no message).  The invariant has six parts.
`ShownInv`: the list and the file of `b` have each message once, and only what
was stored.  `StatusInv`: what `a` shows as delivered, now or after a start from
its file, was stored or its handler was ended.  `ReceiptInv` says that of the
receipts on their way, with one exception that makes it hard: the receipt of
the message whose handler still waits is there before the message is stored.
It is the last of its kind on a connection that works, and the guard `Waits`
keeps `a` from having it; without that exception the invariant is false, and
with it the end of a connection has to be shown to keep it (`CutRight`).
`OrderInv` is for the action property: no refusal follows a receipt, and what is
resent is not delivered.  `TrustInv` says why, as `b` never stops to trust `a`.

`FileTransferProofs` proves `TypesTheorem`, `FileInOrderTheorem`,
`ConfirmedIsHeldTheorem` and `VerdictsTheorem`: all four invariants of the run
`file_faults`, for a file of any length, any chunk lengths on any paths, any
window and buffer limits, any set of faults and any number of them, over a line
that keeps the order or one that does not.  The assumptions are those of
`FileLink` and `FileReceiver`: lengths and limits are numbers, a window and a
chunk are not empty, and the value for "nothing" is neither a state nor a truth
value.  `IInv` rests on two ideas.

- Pieces.  Everything that is on its way, in memory or on disk is a run of the
  file's blocks in their places (`Piece`, `IsPiece`): chunks whatever path they
  were cut for, the blocks queued, being written and on disk one after the other
  (`InPlace`), the early ones anywhere ahead (`AllEarly`), and what the two running
  hashes have seen, from the start of the file.  The lemmas on pieces show that trimming,
  queueing, taking early chunks, writing and catching up with the hash keep it so;
  `TakeAheadFits` goes through the turns of `_rx_take_ahead` one by one.
  `FileInOrder` follows, and so does that the digests agree.
- Promises.  What the receiver has for good (`Bound`) and what is in its place
  (`Done`) never go back, so an answer that was true when it was sent is true when
  it arrives (`Honest`, `StillHonest`), and what the sender believes stays below
  (`OutRight`, `ShownRight`).  A receiver that may crash has nothing for good:
  `Bound` is then the whole file, and `ConfirmedIsHeld` and `OneVerdict` say
  nothing of such runs, as their definitions do.

Every action is shown to keep the sender's part (`SenderStepRight`,
`SenderPath`), the receiver's (`ReceiverStepRight`) or the session's
(`SessionStepRight`); `Inductive` puts them together.  `IInv` was checked with TLC
on the instance of `file_faults` before it was proved.

`UdpStreamProofs` proves that a connection implements the byte stream of
`ByteStream` (`TheStreamIsRead`), keeps its windows (`TypesOfTheStream`) and forgets
nothing of what it sent (`NothingIsForgotten`), for any frames and sizes, any windows, buffers and numbers of ranges and pieces, and any set
of faults, together or one by one.  The assumptions are `UdpAssumption` (lengths and
limits are numbers, a packet takes a byte, a frame belongs to one lane).  What is
read is right only because everything on the way to it is, so `IInv` says of every
place that holds bytes or ranges what it may hold:

- every piece in a packet, and every piece that waits for a gap at `b`, is what the
  stream has at its place (`PartsTo`, `Pieces`), whichever transmission it comes
  from and however it was cut, and none goes beyond what was sent or offered;
- the ranges `a` may send again, and those of the packets it waits for, are of what
  it has sent (`SndFits`), and no skipped number is among those packets;
- `b` has the stream up to `cum`, the part read and the part not handed up yet one
  after the other (`RcvFits`), and what waits takes no more than a window;
- an acknowledgement in flight says nothing that is not true, and what `a` believes
  of `b` (`cum`, `limit`) follows from one (`Answers`).

Every loop has its own lemma, by induction on its turns: filling a packet
(`_next_range`), the ranges of lost packets and their sorting, `_on_stream` on the
pieces of a packet, and the turns in which early pieces follow the gap that was
filled.  The last is where overlaps meet: a piece that starts behind `cum` is cut
and put back at `cum`, and has to be what the stream has there, take no more room
than before, and leave the other pieces alone.  `Grows` of `ByteStream` lets several
frames enter the stream in one packet; the proof gives the places where each ends.

`NothingIsForgotten` is `NothingForgotten` for every behaviour in which `b` turns no
piece away (`[][~Refuses]_vars`).  The hypothesis is needed: `_on_stream` drops a piece
that is ahead when `MAX_OOO_PIECES` wait or no room is left for it, and `on_datagram`
acknowledges its packet nevertheless, so its bytes need not come again.  In the run
`udp_stream` no reachable state has such a packet, and TLC finds that `CInv` holds of
every state there.  `NothingForgotten` alone is far from
inductive: a range may be in a packet that is on its way, was received, is on an
acknowledgement that is in flight, or is given up as lost, and come in several copies
cut differently.  `CInv` strengthens it twice.  What `b` has heard of, or will have
told `a` (`Heard`), does not count: every byte from `cum` to `next` has to wait at
`b`, be due to be sent again, or be in a packet of `sent` that `b` has not heard of.
And if a piece somebody has ends where the byte is or before (`K` of `Kept`), one of
those ranges starts at that end or later (`Ahead`): a range that arrives where a
shorter one waits at the same offset is dropped by `HasPlace`, and what it has more
than the shorter one would be lost if nothing else had it.  `Numbered` and `Matches` tie the
numbers to the ranges: a packet on its way carries what `a` remembers of its number.
Each step of `a` (`SendOneGood`, `InsertGood`, `DetectLossGood`, `OnAckGood`) and each
turn of the loops of `b` (`DrainStepKept`, `OnStreamKept`, `PacketKept`) is shown to
keep it by a lemma on ranges alone (`KeptMoves`, `KeptCut`, `KeptAway`, `KeptBehind`).

`FolderSyncProofs` proves `ScansFindWhatUsersDid`, that is `NoPhantomChanges`, for any
number of edits and deletions, any set of faults and any number of them; the
assumption is that the two bounds are numbers.  A scan compares what is on disk with
the index, so the invariant says how the two belong together on each device:

- `Right`: a file that is there is the one of the index, unless the user changed
  it since; so no step but the user's leaves something to find.  This needs every
  step that writes to disk or index: placing, moving aside, the trash, merging a
  version.  And a file of the index that is not there is among the conflict copies,
  unless the user deleted it: only `Aside` takes a file away and leaves its entry.
  This is what the theorem says of every deletion nobody made (`MovedAside`),
  whatever faults there were.  What is wanted is also in `incoming`.
- `Awaited`: a file of the index that is not there is queued, or was asked for
  (`incoming`), unless the user deleted it.  It holds until the first fault, as a
  restart or a failed transfer takes the lists away, and not while something waits
  to be put in place (`placing`).  With `Right` it leaves a scan nothing to take for a
  deletion but what was given up or waits (`Unlisted`).
- `Calm`, also until the first fault: that, and only what is wanted comes, and nothing
  is under way without a session.  Otherwise a download that ended would be refused
  and leave `Awaited` false.
- `InviteInv`: there is one invitation, and `b` had no part in the folder before it.
  A second one would make a device that left the folder, with files and without an
  index, look at these files as new ones.

`BlindFits`, `ScannedFits`, `MergeFits`, `RequestedFits` and `PlaceFits` say what each
operation keeps of it, `HandleStep` has one case per message, and `DeviceStep` gathers
what a step of one device has to show.  A scan between whose looks a request moves
a path (`TornStep`) leaves nothing missed, as what it did not see was just asked for.
TLC checked `IInv` on the instance of `folder_sync` as well.

`ReachProofs` proves `SessionKeepsItsConnectionTheorem` for any number of rounds,
pending connections, lowered hop limits and faults.  The invariant is the property
itself with the type of `conns`; the work is in the steps, as five actions take
connections away (a round that ends, an upgrade that expires, a connection
nobody uses, a session that is replaced or cut), and each has to spare the one that
carries the session (`HeldStays`).

It also proves `WorkingStaysTheorem`, for any number of faults and so any number of
keys, and any number of packets on the air.  A beacon ends a session only if it was
not sent before it (`Predates`), which a side knows of a beacon by its age and of a
session by its youth.  A session that is no longer young needs an invariant,
`RadioInv`:

- `LateBeacons`: if the other end has the same session, it is sure of it, so it does
  not send beacons, and those on the way are older than the session.
- `LateKeys`: no opening or answer on the air has its keys.  Otherwise the other end
  could take up the same keys anew, not be sure of them, and send a beacon that is
  not old.  The keys of a new handshake differ from all in use (`FreshFacts`), which
  counts the keys in use.

`Settles` establishes both, and its guard is what the settling time (120 s) stands
for; `RadioFits` says what the other steps may do to a session and to the packets
(a packet comes from one that was there, or is one of four new kinds), and `RadioKept`
that this keeps the invariant.

`ListFacts` has what the proofs on lists need: induction over a number, stated for
a set (`Counting`) and for a recursive function (`Iterates`), a least element of a
set (`Least`), the least and the greatest of given numbers (`MinOf`, `MaxOfTwo`), and
what remains of a list of which entries at some places are taken (`Ranks`,
`RemoveOne`).  Facts about the operators of the library that are
parametrised by an operator (`SelectSeq`, the folds) cannot be stated in this way;
where a proof needed one, the model says the same with sets or functions
(`EntriesAt` and `TakeAhead` of `FileReceiver`, `flush` of `Outbox`).

Only model-checked: all liveness, and `ENABLED`, which TLAPS does not reach here.
Of the invariants: `OnceAndWhole` and
`ConfirmedArrived` of `SerialLink` and `SameKeys` of `Session`, which do not hold for
every value of the constants (ids that come round, dials that cross: section 5), and
the type of `Features`, which rests on what `SetToSortSeq` returns, an operator with an
operator for a parameter.  Of the action properties: `DroppedStaysDropped` of
`SerialLink`.

## 7. Plan

Done: session encryption, the file transfer, the outbox, the UDP stream, folder sync,
the download limit, codes, punched connections and radio sessions with their proofs;
the serial link, sessions on the network, groups and the other ways to reach a contact
model-checked.  What is
left:

1. Theorems.  `DroppedStaysDropped` of `SerialLink`; its `AtMostOnce` for ids that do
   not wrap.  `SameKeys` without crossings.  For which windows, packet sizes and
   `MaxPieces` no piece is ever turned away, so that `~Refuses` need not be assumed.
2. Larger folders: two files of one folder, as the queue of downloads is shared.
3. Punching over TCP dials, and disappearing timers of a message under way.

## 8. Not modelled

- Calls (`calls.js`) and their relay (`turn.py`): the relay copies packets between
  sockets and keeps nothing but allocations that expire; the call itself is the
  browser's.
- `portmap.py`: requests to a router, repeated until they are answered; nothing
  else waits for them.
- `disappear.py`: one timer per message, on each device by itself; deleting is in
  `Outbox`.
- Wire formats, signatures and key derivation: no state of their own.  The models
  take them as what they promise (a ciphertext opens under its key only, a
  message is its author's).
- Identity, settings, backup, storage at rest: files read at start and written
  whole.  The settings that others read are variables of their modules.
- The web API and the pages, the desktop and Android shells: they call the
  components above.  The two handlers that decide something (updating a group,
  opening a chat) are in `Groups` and `Announce`.
- Scripts and benchmarks: test tools.
