# Keyweave in TLA+

Keyweave is an end-to-end encrypted messenger for two people who met. The client
(`client/src`, TypeScript, in the browser) pairs two devices by showing each
other animated QR codes, keeps identity, contacts and messages in one encrypted
vault blob in IndexedDB, and exchanges sealed blobs through a relay
(`relay/keyweave_relay.py`) that knows mailboxes and nothing else.

This directory holds TLA+ models of the parts whose correctness depends on the
order of events, the configurations that check them with TLC, and proofs of the
results that hold for every value of the constants.

## 1. The system

| component | state | operations | talks to |
|---|---|---|---|
| replay guard, `replay.ts` | per sender: ids seen with their timestamps, a high-water mark; a total count; admits since the last prune | admit (stale, duplicate, accepted), exportHighWater, exportSeen, restore, destroy | held by the vault, asked by the messenger |
| vault persistence, `ui/session.ts`, `vault.ts`, `ui/vault-*.ts`, `ui/storage.ts` | vault data in memory, the worker's passphrase and queue, the database's queue and its one blob, an idle timer | createIdentity, unlock, persist, commit, lock, forget | worker by messages, database by transactions |
| messenger, `messaging.ts` | records (queued with wire, relayed, received), three budgets | send, flush, receive, sync | vault, guard, relay client, session.persist |
| relay client, `relay-client.ts` | none | createMailbox, putBlob, listBlobs, pullBlob, each with a deadline | relay over HTTP |
| pairing ceremony, `ui/ceremony.ts`, `pairing-session.ts`, `pairing.ts`, `mailbox.ts` | phase, step, what is expected and collected, the peer's card, nonce, mailbox and proof | handOff, offer, prove, finalize, confirmMatch, confirmMismatch, cancel | the peer's camera and screen, session.commit |
| contact store, `contacts.ts` | pinned cards | classify, pin, confirmSupersede, export, restore | session |
| application shell, `ui/app.ts` | the screen, the session and ceremony held, a busy latch per conversation, a poll timer | render and event handlers, onLock | all of the above |
| keys, `keys.ts` with the seed buffer of `vault.ts` | one key manager per opened vault, one buffer for the seeds of all of them | keyManagerFromSeeds, sign, dh, destroy | vault, ceremony, sealing |
| sealing, `seal.ts` | none | seal, open | messenger |
| optical channel, `optical.ts`, `vendor/decimen` | fountain decoder of the session being received | encode, feed, reset | camera, ceremony |
| camera, `ui/camera.ts`, `ui/qr-display.ts` | media stream, worker pool, wake lock | start, stop, onDecoded | app |
| relay store, `keyweave_relay.py` Store | index in memory; directories, blobs, temporary files and the byte ledger on disk; flocks | create_mailbox, add_blob, list_blobs, pull_blob, delete_blob, purge, reconcile | handler threads, purge thread |
| relay limiters | sliding windows in files | allow, charge, blocked, record, sweep | handler threads |
| cards, CBOR | none of their own | pure functions over bytes | everyone |

Where it is hard:

* **Awaits.** Everything in the client runs on one thread and is interrupted at
  every `await`. A rendering's work outlives the rendering; a lock withdraws
  nothing; a commit's rollback runs on stores that moved on meanwhile; what
  wakes up after a lock asks the session the app holds by then.
* **Durability.** A snapshot is taken when a save is asked for and lands later,
  or never. An unlock reads the disk seconds before its session exists.
* **A relay that deletes what it hands out**, and that may be slow, gone or
  hostile. A request given up can still be served.
* **A ceremony** in which people press buttons at any time and cameras read
  whatever is in the room.
* **Threads and processes sharing a directory**, with lock files that the
  reclaim unlinks, and a crash possible between any two file operations.

What makes each part correct is stated as properties in its module;
`PROJECT.json` lists the hazards with the properties that cover them.

## 2. Modules

```
OnceFilter      <-- implemented by --  ReplayGuard     ReceiveProofs
DurableCell     <-- implemented by --  VaultStore
VaultBlob         --> VaultStore                       VaultStoreProofs
MessageSeal       --> Inbox                            InboxProofs
                      Outbox                           OutboxProofs
                      AppShell                         AppShellProofs
                      PassBudget                       ReceiveProofs
                      PairingCeremony                  PairingCeremonyProofs
OpticalReceiver   --> OpticalScan                      OpticalScanProofs
                      RelayStore                       RelayStoreProofs
```

`-->` is EXTENDS. Outbox and Inbox are written against what DurableCell and
OnceFilter promise.

`MC*` modules give a model its small instances; one `.cfg` is one run.
Definitions introduced by a comment "Slip" are deliberate mistakes that no
specification uses. Each is what a plausible bug would make of the definition
it stands beside; put in its place it must break the property named for it in
`PROJECT.json` ("mutants"), which shows that the property can fail.

### OnceFilter, ReplayGuard

`OnceFilter` promises: nothing the filter holds is taken again, it forgets only
when it holds more than its capacity, and reopening restores exactly what the
last landed save held. `ReplayGuard` is `replay.ts`. The two nested Maps are
represented by what their iteration order depends on, the serial number of each
insertion. `Admit` is the whole accepting path: insertion, mark, per-sender cap,
and the prune with the total cap when it is due; its guards are the negations
of the 'stale' and 'duplicate' verdicts, which change nothing. `Export` prunes
on its way out as `exportSeen` does, `Land` is the blob reaching the disk,
`Destroy` and `Restore` are lock and reopen. `accepted` and `evicted` are
history: what the filter's present state stands for, and which of it a cap
dropped.

`FilterSpec` maps the guard to `OnceFilter`: held is what it would refuse,
retained or below its sender's window.

### VaultBlob, DurableCell, VaultStore

`VaultBlob` is the format half of `vault.ts`: which keys a vault has, which of
them a blob of format 1 or 2 lacks, which fields of a message are written at
all, the two walls around the KDF parameters, and the descriptor a ciphertext is
bound to. An array is the set of its entries; a derived key is what it was
derived from.

`DurableCell` is a value in memory, copies of it in flight to a disk in order,
any of which may fail to arrive, a close that stops none of them and an open
that reads the disk. `VaultStore` is the pipeline behind `session.persist()`:
main thread, worker queue, database queue, with `VaultBlob`'s blobs on the disk
and `contacts.ts` deciding what a commit does. A job posted to the worker carries
its own copy (structured clone). `Persist` is snapshot and post; a persist ends
in `Acknowledged` or in `Failed`, which for a commit puts back both images
(`TakeBack`). `CommitContact` pins or supersedes, and files the peer's mailbox when
the ceremony agreed on one; when the relay was gone an earlier ceremony's mailbox
stays beside the new card. `Unlock` is two steps apart from its start: `StoreLoads` reads the
blob, `WorkerUnlocks` makes the session, `WorkerRefuses` is the wrong passphrase.
`Lock` posts `forget` behind whatever is queued. Locking with a save pending is
reachable: `snapshot()` re-arms the five-minute timer and a seal takes seconds,
so it needs a suspended machine or a shorter `idleMs`, which `SessionOptions`
allows. `Crash` is the page going away. The device may start with nothing, or
with what a build of format 1 or 2 left there. VaultStore has one unlock at a time and
one open vault; unlocks that overlap, and vaults left open behind a newer session,
whose locks post their own `forget` into the queue, are AppShell's.

`CellSpec` maps the pipeline to `DurableCell`. What is in flight are the snapshots in
both queues, the database's before the worker's (`InFlight`). The cell is open from
the moment the stored blob was read: until the worker has made the session, the live
value is what that blob holds (`Unlocking`).

### AppShell

Which vaults are unlocked and what the screen says of it. An attempt is a
submitted passphrase and then the vault it opened; vaults are never locked by
the app, each locks itself (`Lock`, the idle timer), and its lock empties the
screen whichever vault the screen is about. An operation (`Begin`, `Offer`,
`Match`, `Pass` and what they become) waits with the vault it began in, and on
waking asks `Locked`, which looks at the session the app holds then. The worker's
queue is one for all of them: the forget of a vault left behind can come before another
session's save, which is then refused; `RefusedIsLocked` says that the screen then
tells of a lock. The seeds
of every vault being opened lie in the one buffer `scratch`; `CopySeeds` is
`Vault.fromData` up to its first await, `Import` reads the buffer after it.
`WorkerDies` is `onerror`. Time is left out: any open vault may be idle for long
enough at any step. `crossed` remembers the attempts during which another vault
locked, for which alone `KeysMatch` makes an exception.

### Outbox

`messaging.ts` send and flush. A rendering of the conversation (`Pass`) has a
latch: it starts nothing while its work is running; leaving and coming back
makes a new rendering while the old work goes on, with the records of the
session it began in. Each action runs to the next `await`; `OfferNext` is the
loop body with its re-read of `wire`. The relay may take a blob and fail to say
so, and may act on a request long after it was given up (`late`).

### MessageSeal, Inbox

`MessageSeal` is `seal.ts`: the key two cards agree on, what is signed, what is
sealed, and every check `open` makes before it believes an envelope. A public
key stands for its pair, a Diffie-Hellman secret for the two keys it is made
from, a ciphertext for what is in it with its key and its associated data.

`Inbox` is `messaging.ts` receive: list, then pull by pull, with all the ways a
pull ends (bytes that open or do not, 404, defective answer, interruption,
refusal), the replay guard, the lock check before each pull, and one save at the
end. A blob holds an envelope: the peer's, the peer's stamped too far ahead, or
one of our own, which a relay may hand back to us; `Opens` decides. The guard is
`OnceFilter`'s with room for every message, which `MemoryBound` and the caps
justify for what fits one pass. `hostile`, chosen once and for all, lets the
relay list and hand out what it has deleted. `named` collects the messages lost
in one of the windows the comments of `receive` and of `vault.lock` name, and
those `open` refuses for their stamp; `LossesAreNamed` says there is no other
way to lose one.

### PassBudget

The clocks of one sync, in milliseconds. The relay can spend a request's
deadline and no more; anything else that takes time (local work, a timer that
fires late, a suspended tab) is `slip`, and the properties are stated with slip
on their right-hand side, so that they say what the relay can do. It assumes a
finite `timeoutMs`; the default is finite.

### PairingCeremony

Two devices and, optionally, a third party's codes: a pairing of its own at the next
table (`NextTable`), or a screen held up into what these two show (`heldUp`,
chosen once and for all). `Offer` is ceremony.offer
with the pairing session's accept functions; `Prove` and `Finalize` are the
continuations of completeScan's await, so that presses can fall between.
A signature is the record of what it signs (`Transcript`). An info payload is a nonce
and, beside it, a coordinate with its signer or none; nothing ties the one to the
other, so a screen held up (`Recombined`) may show any nonce it has seen with any
coordinate it has seen, with one of an earlier ceremony (`Past`), with its own or with
none. The two roles are chosen independently, as on the screen. `RefusalStands` is what is left of
"every refusal is terminal": it holds once nothing is being awaited.

### OpticalReceiver, OpticalScan

`OpticalReceiver` is what is computed: the frames a payload is shown as, the two
walls (`parseFrame`, `headerRefusal`), the identity of a stream, and the fountain
decoder with its peeling cascade. A block is the pair of its payload and its
number and XOR is symmetric difference, so that a payload mixed from two streams
would be seen as such. Which blocks a frame number stands for (`frameIndices`) is
the constant `Indices`: sender and receiver compute the same function, and
nothing claimed here depends on which one, only on its drawing from the blocks
there are.

`OpticalScan` is what happens: `start()` as one action per await (permission, in
three tries; the lens; the picture), `stop()`, the frame callback with the
generation it was born in, the workers, the payloads remembered, and the screens
of the app that begin and abandon all this. Any frame of any visible code may be
on the other screen at any time, which stands for the player's clock, for frames
missed and for codes turned in the middle. The player's wake lock, the picture's
geometry, the counters and the insecure-context refusal are left out. A frame in
the air when a worker is terminated is lost with it. Two assumptions bound what is
shown: two payloads with the same checksum, session and size do not occur
(`StreamsAssumption`; the receiver would take them for one code), and a symbol that
is not ours is stopped by the first wall (`NoiseAssumption`; a payload is handed on
unverified, and to refuse one that was forged is the ceremony's part).

### RelayStore

Class Store with its callers. A request is a small program counter: authorised
against the index, staged outside the locks, lock file opened (and created),
lock taken, cap checked, ledger section, answer. A lock is a path and a
generation, because flock excludes only those who opened the same inode and the
reclaim unlinks the file. rmtree removes names in any order, one at a time.
Blobs have size 1, so `MaxBlobs` stands for the per-mailbox count and byte caps
alike and `MaxTotal` for the global one. There is one server process. `Returns`
says whether anyone uses a mailbox again after `mailbox_idle_days`: only then can
a request meet the reclaim of its own mailbox. The rate limits, the per-blob size cap
and the reading of bodies come before the store and are left out.

## 3. Runs

| run | instance | shows |
|---|---|---|
| ReplayGuard | 2 senders, 5 messages straddling a window of 3, caps of 2, prune every 3 admits, 5 insertions, two clock readings | bounds, exact count, no re-acceptance, refinement of OnceFilter |
| VaultStore | nothing stored or a vault of format 1 or 2; a message sent, one received, 2 commits of a card with 2 serials, with a mailbox or without; failing store, wrong passphrases, 2 sessions, 2 persists at once | acknowledged and inherited state stays word for word, a failed pin goes with its mailbox, who waits has a job in a queue, refinement of DurableCell |
| AppShell | 3 unlocks, 2 waiting operations, a worker that may die, a stored card that may be refused | keys match, the passphrase is held exactly as long as the screen says, a save refused for want of it is told as a lock, the lock notice comes true, the unlock button returns |
| Outbox | 2 messages, 2 renderings, failing store, 2 sessions | no false claim, order, monotone durable progress; the queue drains |
| Inbox | 2 blobs: one message twice, or beside it one stamped too far ahead, or our own handed back; relay honest or hostile, 2 renderings, failing store, 2 sessions | no duplicate, nothing held is hidden, losses are only the named ones, only what the peer sealed is shown; with an honest relay what is posted is saved in the end |
| PassBudget | budgets 8 and 3, floor 4, ceiling 6, 2 records, 3 ids, 5 ms slip | first pull, cost |
| PairingCeremony | 2 devices, 2 mailboxes, one of them also published another day; a pairing at the next table, and every role, inbox, pin and press; or a screen held up to both cameras of two who go on | words prove a live peer, mailboxes cross and are the signer's, a refusal stands once nothing is awaited |
| PairingCeremonyTogether | complementary roles, fair | both are paired in the end |
| OpticalScan | 2 codes of 3 blocks in 3 frames, alike in session and size, one symbol that is not ours, 2 attempts, 2 workers, 1 payload remembered | what is read was shown, all that peeling can find is found, a stopped scanner is dark, a lit camera is owned |
| RelayStore | 2 mailboxes, 2 blobs, caps of 1, 2 threads, purge, crashes, nobody back after idleness | exact ledger, byte cap, accepted blobs stay, no stray temporary |
| RelayStoreLive | 1 mailbox, 1 blob, no crash, use after idleness | delivered at most once, requests finish, slots are freed |
| RelayStoreReclaim | 1 mailbox, 1 blob, no crash, use after idleness | *violation*: add against reclaim |

**Why the bounds are enough.** Each hazard needs two actors and one of the
things they share: two renderings, two senders, two threads and the purge, two
devices. Caps of 1 or 2 are reached and passed in the first few steps. Two
sessions give every race between an old session's work and a new one. In VaultStore
two persists at once are what it takes for one to overtake another, and one
message in a vault leaves room for every order of it and a commit. There the first
ceremony agrees a mailbox; the second agrees none, or another, which `MCSpec` lets
happen only in a first session while no message is in the vault. With a screen held up
`MCSpec` of PairingCeremony has the two press only what a pairing takes, in their
complementary roles: what refuses is asked where none is. In AppShell
three unlocks are a vault left behind, the one that replaced it, and a third being
opened while either locks. Named bounds (`MaxSessions`, `MaxWaiting`,
`MaxMessages`, `MaxAdmits`, `MaxPresses`, `MaxSlip`, and the sets `Attempt` and
`Op`) only limit how often the environment acts; they cut no step of the code. Symmetry is used over request
threads, in a safety run only. `CHECK_DEADLOCK FALSE` stands where the bounded
instance really comes to rest: all messages written, sessions used up, ceremony
over, scanners and blob ids used up. Out of reach are two uploads to one mailbox beside a
third to another (a separate question only with three blobs).

Two attempts are what a race between an abandoned scanner and its successor
takes. The three frames {1,2}, {2,3}, {3} make the last one set off a cascade of
two, and the stream can be completed in every order.

**Types.** Every module of a component states a `TypeOK`. It is proved for
ReplayGuard, Inbox, Outbox, AppShell, VaultStore and PairingCeremony, as part of
`BudgetInv` for PassBudget, as `Types` in a sharper form for RelayStore, and for OpticalScan the
part that its invariant needs. No run lists it: a type that is wrong shows in the
properties that read the variable.

**Fairness.** *VaultStore* needs none: that a caller is answered is the invariant
`WaitersAreInLine`, a job in a queue for everyone who waits. *AppShell*: a worker
that lives serves its queue, the database and the browser answer, and the idle
timer of a vault the app no longer holds runs out, because nothing reads that
vault and so nothing re-arms it; the person presses nothing in particular, and
nothing is assumed of a vault that is in use. *Outbox,
Inbox*: the poll (`POLL_INTERVAL_MS`) starts a pass again and again on
whichever screen is up; requests have deadlines, so an answer or a failure
always comes; a locked vault is unlocked again by its owner; and a relay asked
infinitely often succeeds at some point (strong fairness on its answer):
draining through a relay that never answers is not claimed. *PairingCeremonyTogether*: the two
people go on. *RelayStoreLive*: threads run, a lock that is free again and again is granted
(flock wakes waiters in turn), and the purge cursor comes round to every
mailbox.

**Disagreements with the documentation.** One run ends in a violation of a
sentence in a comment; `PROJECT.json` ("findings") quotes it with its line and
says how the code comes to do otherwise. The models led to others, which have no
run of their own and are not asserted by any property:

| says | does |
|---|---|
| `ceremony.ts:22-23` "EVERY refusal is terminal. There is no path from `refused` back into the ceremony" | `completeScan` (311) and `confirmMatch` (257) set the phase after their await without looking at it: a cancel or a mismatch pressed meanwhile is undone (`RefusalStands` holds outside those awaits) |
| `keys.ts:96-97` "Inputs are COPIED" | the private keys are read from the caller's buffer after the first await (121); another vault's lock zeroes that buffer meanwhile, and the session opened publishes one key and signs with another (`crossed` in AppShell) |
| `copy.ts:142` "The keys are out of memory and the passphrase is forgotten" | the notice is put up by the lock of any vault the app ever opened; a second vault, left open by an unlock it did not wait for or by a stored card that `ContactStore.import` refused (59), keeps its keys until its own timer runs out (`NoticeComesTrue`) |
| `vault-client.ts:31-32` "must not leave a promise hanging forever" | true of the calls waiting when it dies; one made afterwards is posted to nobody (42-48) and waits (`ButtonReturns` ends where the worker does) |
| `app.ts:383-384` the lock is looked for after the relay's round trip | not after the next await, the signing of the card (389): the ceremony screen may come up after the lock, over the unlock form |
| `app.ts:568-570` "A lock and a failed write are different events" | what is asked is whether the session held now is locked, not the one whose write failed: after an unlock meanwhile, a lock is reported as a failed write |
| `mailbox.ts:26-27` "An injected coordinate is then a refusal, not a redirect" | the signature covers the coordinate only (104-106), not the ceremony: one that the peer signed another day passes beside a new nonce, and one left out of the payload is not missed (`MailboxesCross` asks for a coordinate the peer signed, and for the peer's present one where no screen is held up) |
| `messaging.ts:681-682` "The message did not come from a verified peer" | one that did, stamped further ahead than the skew allows, takes the same branch: pulled, so deleted, and counted unopenable |
| `session.ts:101-103` "a durable contact" | a commit that fails beside another takes its image back over the other's pin, or the other's snapshot carries to the disk what was taken back (`undone` in VaultStore) |
| `messaging.ts:27` "The outbox entry is persisted BEFORE the relay is called" | while `send` awaits its save, the `flush` (407-410) of a second rendering, or one behind a save that failed, offers the record |
| `messaging.ts:233-234`, `429-431`: the stuck counter is "Always 0", its branch "Unreachable" | of two overlapping passes, one drops the wire of a record the other still lists (424) |
| `session.ts:105-115` "ALL OR NOTHING", `contacts.ts:93-97` | a second press of "They match" takes its rollback image after the first one's pin; if both writes fail the pin stays in memory (`session.ts:123`, `146`) |
| `copy.ts:143` "Nothing was saved from it" | a commit's snapshot posted before the lock is sealed and stored after it |
| `copy.ts:144` "Messages you had already sent are still on this device" | `unlock` reads the disk before an older session's save lands, and its first save overwrites it (`overtaken` in VaultStore) |
| `replay.ts:22-24` "the OLDEST entries are dropped first" | both caps drop in insertion order (141-147, 171-182), which the order of arrival decides |
| `app.ts:319-321` "Release the camera FIRST (a live camera behind a frozen screen is the failure this whole path exists to prevent)" | the catch of an attempt that was abandoned during its prompt sets `this.scanner = undefined` (502) over its successor, which leaving the screen then does not stop: `LightIsOwned` names the exception. Pressing a begin button twice, or cancelling during the prompt and beginning again, is enough |
| `keyweave_relay.py:56-59`, `825-829`: the ledger cannot drift, startup is alone | `purge` (1714) and a second `serve` before its bind fails (1612) reconcile beside a running server |
| `keyweave_relay.py:1064-1066`: an abandoned mailbox does not consume the budget for ever | a crash inside rmtree after `blobs` and before `meta.json` leaves a mailbox that is indexed again and whose purge returns at 1022 |

## 4. Proofs

`ReceiveProofs` holds what bounds a receive, the guard and the clocks. Of
`ReplayGuard`, for all senders, messages, windows, skews, caps and prune periods, from `MessagesAssumption` (finitely many messages, each with a sender
and a natural timestamp) and `LimitsAssumption` (positive window, period, caps):

* `TypeCorrect`: types of the state and of both exported images. `Restore` reads
  the durable image, so the invariant covers the images too.
* `CountCorrect`: `totalSeen` is the number of retained entries. Needs that what
  a prune subtracts is disjoint from what the caps subtract (`PruneLemma`,
  `AdmitLemma`).
* `DedupeWall`: every accepted message not evicted by a cap is retained or at or
  below its sender's window, in the live state and in both images. The step uses
  that marks only rise (`MarkLemma`), so that what is below a window stays below
  it (`BelowStays`), and that prune drops only what is below.
* `NeverReaccepted`: from the wall and from the guards of `Admit`, which test
  the same two conditions.
* `MemoryIsBounded`: both caps, in memory and in both images. The total cap is
  enforced by the prune only, so the bound between two prunes is the cap plus the
  admits since the last one; `Bounds` keeps that count beside the total. What a cap
  drops is what it needs: the serials are distinct, so the oldest are well defined
  and exactly the excess goes.
* `ImplementsOnceFilter`: `Spec => FilterSpec`. An admit takes what the filter does
  not hold (the wall), forgets only when the guard holds more than a cap
  (`Stands`: what is in the Maps is accepted and not evicted), and a restore holds
  what the image held.

Of `PassBudget`, for all options (absent, zero, negative or huge), ceilings,
queue and list lengths and any slip, from `BudgetAssumption`: `BudgetInv` says
for each await what the time already spent and the deadline still open add up
to (`elapsed + limit - run`). Inside a deadline the two move against each
other, outside both sides of each bound grow with slip; so a deadline is paid
for once, when it is set. `Options` is what the constructor guarantees about the
floor, and from `InsideBudget` follow `FloorIsKept`, `FirstPullIsPaid`,
`OverrunIsBounded` and `CostIsBounded`.

`OpticalScanProofs`, for any number of scanners, workers, codes and frames, from
the named assumptions of OpticalReceiver and OpticalScan: `StoppedDark` and
`LightOwned`. The inductive `CameraInv` says more than either: scanners are made in
order and the app holds the last one or none; one that is waiting or live and not
stopped is the one the app holds, on the screen that is up, or an older one failed
late. Without that order the late failure could be anyone's, and the exception in
`LightIsOwned` would be empty.
Of the receiver, for all caps: `WallsAgree` (the two walls draw the same line, so
neither lets through what the other stops) and `SentIsRead` (whatever
`buildFrameStream` agrees to encode passes both). Both rest on `CeilLemma`, the
bounds of a rounded-up quotient.

`ReadIsShown` and `SolvedIsAll` are about what the decoder computes, for any number
of blocks. `Genuine` says that all in it is of one payload: a solved block is the
sender's, and what waits holds the XOR of exactly its unsolved blocks
(`ReducedLemma`: taking solved blocks out of a frame leaves a frame). `Thorough`
says that every frame given is solved or waits in part, and that a set of blocks
closed under peeling contains all that is solved. A turn of the cascade keeps both
and solves one block more (`PeelLemma`); after as many turns as there are blocks
nothing is ready (`CascadeLemma`), so that what is solved is itself closed, and is
the least such set (`ClosureLemma`). The loop is an induction over its turns, which
the library offers only for an operator; `EveryTurn` proves it for a set of numbers
instead, from the well-foundedness of finite sets under inclusion, and `PeelRuns`
shows that the recursive function of `PeelAll` is such a run. `OneCode` is why two
codes are never mixed, and the place where the checksum in `streamIdentity` counts.

`VaultStoreProofs` has four layers.

* Formats, for all data, passphrases, salts and walls: `MessageRoundTrip`,
  `BlobRoundTrip` and `OldBlobsOpen` say that what the writer accepts comes back,
  through every combination of fields that carry nothing and through the change of
  format; `DescriptorIsAuthentic` that one ciphertext opens under one descriptor
  and one passphrase only. They assume a record has its four required fields and
  that the two coded fields (direction, delivery) have one of their two values.
* The line, for any calls at once: `LineInv` says which jobs can stand in which
  queue in which phase, and that a job stands for one waiting caller. From it
  `StoreTypes` and `OneJobPerWaiter`.
* What is in the line: `AcknowledgedIsKept` and `ListedIsOnDisk`, from `DataInv`.
  `Chain` compares what was acknowledged, what is stored, each snapshot in line and
  the live vault, each with everything behind it. Neighbours are not enough:
  "follows, but for what is excused" is not transitive, because an excused card may
  be missing from one snapshot and be back in the next. A failed commit moves the
  live vault back, so `Undoable` puts the image it holds into the same line: it has
  everything older, and misses of the newer only what this commit and those behind
  it pinned. `Grounded` is the converse, that a card which is live, or would be put
  back, is already in every older vault or belongs to a commit still waiting between
  them, and gives `ListedIsDurable`; `Wholes` keeps, in
  every one of them, each mailbox with a pinned peer and no younger than the pin, and one
  card to a peer. `Sessions`, that a later session stands behind an
  earlier one, separates the commits that may still put something back from those a
  lock has overtaken.
* The line as a whole: `ImplementsCell`, `Spec => CellSpec`. A persist is the cell's
  `Put`; a seal is a stutter, because it moves a snapshot from the head of one queue to
  the end of the other and the line they make together stays as it is; an answered save
  is `Land` or `Fail`, a blob that was read `Open`, a refused passphrase `Close`. The
  line is a recursive function over two queues; the lemmas from `Sifted` to
  `SnapshotsFirst` say how it changes when a job is added, done or handed on, by an
  induction over places (`EveryTurn`, as in OpticalScan). `Waiting`, that an unlock is
  the last job while it waits, makes `Unlocking` well defined.

The last three rest on `CallsAssumption` and `DataAssumption`: this build's
parameters pass its own walls, a ceremony agrees one mailbox or none and files it
under the card it came with (both are arguments of one `commit`), what an older
build left is a vault that build could write, with one card to a peer
(`contacts.ts` keeps a Map by peer). Every conjunct is about inputs; the instance the run checks satisfies them. `ImplementsCell`
also needs `TokensAssumption`, that a mailbox in a card passes the check a save makes of
it: `relay-client.ts:322` and `mailbox.ts:88` and `99` make the same check where tokens
are issued and read. A save the worker refused would leave the middle of the line,
where the cell's saves fail in order.

`OutboxProofs`, for any number of messages, renderings and sessions, from
`OutboxAssumption`, whatever the relay, the store and the person do:
`NothingIsClaimedFalsely`, `TakenInOrder`, `DiskProgressIsKept`. The inductive `IInv`
has three parts. `Claims`: besides every mark, an answer that is about to become a
mark is true. `Rising`: from the disk through the writes on their way to the records
in use no message falls back, except those a later session overtook; that is why a
write may land at any time. `Order`: a pass skips nothing that still waits, so
whatever the relay has, or may yet take from a request given up, has everything
older before it, or the older was lost with a crash and is on no copy (`Gone`).

`RelayStoreProofs`, for any threads, mailboxes, blobs and caps, with the purge and a
crash between any two steps, from `StoreAssumption`. `HandedOutOnce` holds without
conditions: whoever removes a file is the only one to answer with it, and its
blob is not put back. The others have conditions, which cannot be dropped: without
them TLC finds each property violated on one or two mailboxes with a blob each.

| theorem | holds when | why not otherwise |
|---|---|---|
| `CapIsRespected`, `TmpsAreOwned` | nobody returns to a mailbox after its idle days, or there is no crash | an upload meets the reclaim of its mailbox, and a crash in the middle of the rmtree leaves a directory without `meta.json`, whose files the reconcile does not see |
| `LedgerIsExact`, `AcceptedIsKept` | nobody returns | the reclaim removes a blob that was just accepted and does not subtract it (run RelayStoreReclaim) |

Nobody returning is what `mailbox_idle_days` (307, 30 by default) counts on. `Rooms` says
what the condition gives: a request works in a mailbox that is whole and in use, and
what is being removed is empty. `Owed` is what the ledger will say once the section
in progress has written it; `Capped` bounds the disk by it, `Exact` equates the two.
No proof uses the mailbox lock: what these theorems claim rests on the ledger lock
and on `os.replace` and `os.remove` succeeding once.

`InboxProofs`, for all envelopes, blobs, passes at once, budgets and sessions, from
`InboxAssumption`, whatever the relay and the store do: `ShownOnce`,
`RefusedIsShown` and, where signatures cannot be forged (`Unforgeable`),
`ShownIsSaid`. The three properties speak of what a conversation shows and none is
inductive: a snapshot written now is another session's beginning. `IInv` says of
every session, every write on its way and the disk that the conversation is exactly
the guard's set, each message once, and that the guard holds only what our keys
opened. The end of a pass keeps it because it writes the two together
(`EndPassWrites`), the opening because it asks the guard before the push, with no
await between (`OpenedIInv`).
`NothingElseIsLost` proves `LossesAreNamed` from `IInv` and `Losses`, which follows a
message from hand to hand: what a pass accepted is in its session's guard while that
session is live and named or on the disk afterwards (`Turns`), a pass that saves has
one write with all of it (`Flown`), every later write has what the disk and the
earlier writes have but for what an unlock overtook (`Growing`), and what has left
the mailbox is in one of these hands or named (`Served`). `InboxTypes` comes with
`IInv`. Of `MessageSeal`, for all parties whose keys are consistent (one pair of keys
to an identity): `KeyIsShared`, `SealOpens` (exactly when the stamp is within the
skew), `OneReading` (whoever opens an envelope is the same recipient and takes it for
the same sender's) and `NoReflection` (nobody opens their own message as the
other's, although both directions share one key).

`AppShellProofs`, for any number of attempts and operations, from
`AppAssumption`: `KeysAgree`. An attempt relies on a buffer it does not own; the
inductive `SeedsInv` adds to `KeysMatch` what it may rely on: while an attempt that
no lock has crossed waits for its import, the seeds are in the buffer and its
public keys were made from them. `WorkerFollows` proves `PassphraseFollows`, which
speaks only of an empty queue; `WorkerInv` says what the worker will hold once it has
emptied the queue it has: a forget behind an attempt's message has crossed that
attempt (`Behind`), whoever counts on the passphrase has it and no forget is on its
way (`Counted`), and a passphrase that is held is owed to somebody (`Owed`). `Fresh`,
that a device without a vault has one attempt at a time and has locked nothing, is
what excludes a create behind a lock. `RefusalIsLock` follows from `Counted` alone,
at any place in the queue. `ShellTypes` comes with it.

`PairingCeremonyProofs`, for all roles, mailboxes, pins, bystanders and numbers of
presses, from `CeremonyAssumption`: `WordsMeanAlive`, `LinksCross` and, action by action,
`RefusedForGood`. The first two speak of the end of a ceremony; `CeremonyInv`
(`SessionsAreWhole`) is what makes them inductive. It follows a proof back: a screen
shows only its device's own codes (`ShowsOwn`), so a proof that was read is a
bystander's or what a device signed; a device that has signed reads neither card nor
nonce again (`Turns`), so what it signed it holds still (`ProofIsReal`). A proof that
fits this device's transcript therefore says what the peer holds now, and words, the
comparison and a commit come only after such a proof: `Trusting` implies `Met`, or that
the card is of one who holds up a screen and pairs under their own name (`Facing`). A
coordinate is kept in a session only with the card that signed it, in whichever order
the two were read (`Session`); that it is the one of this ceremony is true where no
screen is held up and each coordinate comes with its signer's nonce (`Welded`), and then
two that met link the same two mailboxes (`LinksAgree`). `CeremonyTypes` comes with it.

Model-checked only: liveness (`NoticeComesTrue`, `ButtonReturns`, `Drains`,
`Collected`, `BothPair`, `RequestsFinish`, `SlotFreed`), which is out of the prover's
reach. Every invariant and every safety property of a step that a passing run checks,
and both refinements, are theorems; the four of RelayStore under the conditions above.

## 5. Not modelled

* Limiters and authentication budgets (`keyweave_relay.py:447-682`): they refuse
  requests before the store sees them.
* The wake lock, the degree distribution of the fountain and the QR raster. The
  ceremony takes a payload to arrive whole or not at all, which is what
  OpticalScan promises it.
* Two tabs on one database, `storage.clear()`. In VaultStore: unlocks that overlap and
  vaults open beside one another, which AppShell has without the data.
* A ledger write that fails (`keyweave_relay.py:696-699`, `724-726`). The file is
  truncated before it is written, after the blob was renamed (934): an I/O error or a
  full disk there leaves the blob and an empty ledger until the next reconcile.
* A second process on the relay's directory (`cmd_purge`, a second `serve`).
  The TTL in Inbox: a blob that expires unread is lost by design.
* Cryptography, byte encodings, cards, rendering, wording: a signature is what it
  signs, a derived key what it was derived from. The AEAD's nonce and
  `assertNoIdentityMaterial`, which look at bytes.

## 6. Plan

1. `AuthBudget`: the failure limiter's files (record, blocked, unlink, sweep),
   for the claim that the locked re-check cannot race a record.
2. A second process in RelayStore (its reconcile, purge and sweep), and two
   uploads to one mailbox at its cap.
3. The player in OpticalScan: its generations and the wake lock that arrives
   after `stop()`.
4. `Channel`: Outbox, RelayStore and Inbox of two devices composed, with the
   TTL: every message handed to the relay is read, expired or in a named window.
5. `VaultStore` with a second tab.
