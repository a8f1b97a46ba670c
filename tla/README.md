# Linux Link in TLA+

Linux Link joins an Android phone to a Linux PC: a daemon on the PC (`src/linkd`,
Rust on tokio) and an app on the phone (`src/android`, Kotlin) that talk over one
QUIC connection with mutual TLS.  The modules here model the parts of that system
in which tasks, devices, crashes and users meet; TLC checks them on small instances
and TLAPS proves their safety properties for all of them.

Paths like `lock.rs` are below `src/linkd/src`, paths like `LinkClient.kt` below
`src/android/app/src/main/java/org/linuxlink/app`.

## Contents

| Module | What it models | Checked | Proved |
|---|---|---|---|
| `PeerTrust` | pairing, peers.json, forgetting, registered connections | `MCPeerTrust` with `PeerTrust_*.cfg` | `PeerTrustProofs` |
| `TrustedDevices` | what users may expect of pairing: the abstract specification of `PeerTrust` | - | refinement in `PeerTrustProofs` |
| `FolderSync` | sessions of the synchronised folder | `FolderSync*.cfg` | `FolderSyncProofs` |
| `TwoCopies` | what users may expect of the folder: the abstract specification of `FolderSync` | - | refinement in `FolderSyncProofs` |
| `Transfer` | files offered to phones, files uploaded by phones | `Transfer.cfg` | `TransferProofs` |
| `SharedClipboard` | the hub, its watcher and its channels, the phone's comparison | `SharedClipboard*.cfg` | `SharedClipboardProofs` |
| `SecondScreen` | the exclusive session, every compositor's recipe, the guards | `SecondScreen.cfg` | `SecondScreenProofs` |
| `VideoPump` | splitter, assembler and queue of the pictures | `MCVideoPump` with `VideoPump.cfg` | `TabletProofs` |
| `ScreenInput` | touches, pen and hover on the second screen | `MCScreenInput` with `ScreenInput.cfg` | `TabletProofs` |
| `Mouse` | what a mouse may do: the abstract specification of `ScreenInput` | refined in `ScreenInput.cfg` | refinement in `TabletProofs` |
| `DoNotDisturb` | two switches that follow each other | `Services.cfg` | `ServicesProofs` |
| `Advertiser` | mDNS and BLE advertisements and their retries | `Services.cfg` | `ServicesProofs` |
| `AudioFeeds` | modules and pipes of microphone and speaker | `Services.cfg` | `ServicesProofs` |
| `Notifications` | notifications and pages shown on the desktop, replies | `Services.cfg` | `ServicesProofs` |
| `StatusFile` | battery.json and status.json | `Services.cfg` | `ServicesProofs` |
| `ProximityLock` | the task that locks the PC when the phone leaves | `Services.cfg` | `ServicesProofs` |
| `Services` | the six modules above, as `run` starts them side by side | `Services*.cfg` | `ServicesProofs` |

## Inventory of the system

**Trust** (`identity.rs`, `pairing.rs`, `server.rs`, `control.rs`).  State: the file peers.json,
one current pairing code, the table LIVE of connections, a sticky `session_trusted` flag per
stream.  Operations: a pairing window (PAIR), a pairing request, the trust test before every
message, FORGET with kick, edits of the file by other programs when the daemon is down or
answers an error.  Hard: the file is loaded, changed and saved by concurrent tasks without a
lock; a save is a truncation and a write; windows overlap; the daemon may die between any two
steps.  Correct when: no trust without a code, codes expire, forgetting is final, an
acknowledged pairing lasts.

**Proximity lock** (`lock.rs`, `events.rs`).  State: the setting and its file, `we_locked`, the
countdown.  It reads the subscriptions of the clipboard hub and is woken by the event bus, a
watch channel.  Hard: presence and setting change while it locks, unlocks or goes to sleep; it
may be restarted; a failing save is ignored.  Correct when: no wake-up is lost; it locks when
left and unlocks on return.

**Folder sync** (`sync.rs`; `LinkClient.runSync`, `SyncFolder.kt`, `SyncWatcher.kt`).
State: the files of both sides, and a baseline per folder on the PC.  A session is an
index, a plan, pushes, pulls, a second index and a new baseline.  Hard: users edit during
a session, sessions are cut short, operations on files fail and the session goes on,
several phones share a folder.  Correct when: no edit
is lost, removals are passed on and nothing else is removed, sessions converge.

**File transfer** (`files.rs`, `server.rs`, `control.rs`; `LinkClient.sendFile`,
`pullFile`, `receiveFileFromPc`).  State: the map of offers, the download folder.
Hard: several phones pull one offer; concurrent uploads choose the same name; streams
break.  Correct when: "received" and `Ok` mean that the whole file is there, and nobody's
file is overwritten or removed.

**Clipboard hub** (`clipboard.rs`, `clipwatch.rs`; `ClipboardAutoSync.kt`, `LinkBus.kt`).
State: the subscribers with a bounded channel each, the last text and image, what the phone saw
and received last.  Hard: two sources of change on either side, which read and compare while the
other remembers and sets; echoes, full channels, subscribing while a text is pushed.  Correct
when: the clipboards agree once nobody copies any more, and no echo circulates.

**Second screen** (`display/`, `SecondScreenActivity.kt`).  State: the flag of the
exclusive session, what its recipe has made on the desktop and the guards that undo it;
an encoder with a splitter, an assembler and a queue of 4 pictures; the translator of
touches with its gesture.  Hard: a recipe that fails halfway, a tablet that leaves at any
time, teardown that overlaps the next session; pictures that come in any portions with
pauses anywhere; gestures that end in any order while a clock ticks.  Correct when: the
session is released on every path with nothing left behind, the tablet gets whole pictures
in order and at once, and the touches are those of a mouse of which no button stays down.

**Notifications** (`notifications.rs`, `NotificationRelayService.kt`).  State: maps from
keys to the desktop's ids and from ids to the targets of buttons.  Hard: calls to the
desktop take time, ids are reused, notifications expire or are closed without the daemon
hearing of it, and the phone sends some updates and removals and withholds others.
Correct when: the desktop shows what the phone has sent, and an answer goes to the
conversation it was typed for.

**Do Not Disturb** (`dnd.rs`, `LinkForegroundService.kt`).  State: a switch and a
remembered value on each side.  Hard: each side reports its changes and must not report
those it was told.  Correct when: the switches agree once somebody has switched.

**Battery and status** (`battery.rs`, `status.rs`).  State: the last report, one per
device, two files.  Hard: reports, pokes and the writer's reads interleave.  Correct when:
the files are true once it is quiet.

**Advertising** (`netwatch.rs`, `mdns.rs`, `ble.rs`).  State: a generation and the two
advertisements.  Hard: retries overlap with republishing.  Correct when: BLE is not given
up.

**Microphone and speaker** (`speaker.rs`, `mic.rs`).  State: modules of the sound server
and a pipe, which outlive their owner.  Hard: removed by threads while the next session
begins; a daemon that dies.  Correct when: what a session loads goes with it.

**Others.**  The phone's connect loop (`LinkForegroundService.kt`, `NetworkMonitor.kt`,
`PcLocator.kt`), the sync loop of the phone, webcam and audio of the phone, media and
volume (stateless calls), the control socket, the desktop windows and tray, shortcuts,
doctor, the activities of the app, installation.

How they meet: the daemon's tasks share the hub (push streams), the event bus, peers.json
and the map of offers.  The control socket calls into pairing, lock, transfer and hub;
the server calls into all of them for a line of a phone; the lock reads the hub's
subscribers; the status writer reads peers.json, hub, battery and lock when the bus pokes.

`PROJECT.json` lists every component with its status, and under "hazards" what is hard to
test, each at its line.

## Plan

Done: `PeerTrust`, `FolderSync`, `Transfer`, `SharedClipboard`,
`SecondScreen`, `VideoPump`, `ScreenInput` and the six modules of `Services`; proofs of every
safety property a run checks; refinements of `TrustedDevices` by `PeerTrust`, of `TwoCopies` by
`FolderSync` and of `Mouse` by `ScreenInput`.

To come, in this order:

1. `PhoneLink`: the connect loop with its delays, health check, wake-ups, BLE, switching of
   PCs; liveness under fair delivery.  Composed with `ProximityLock` through the push stream.
2. The sync loop of the phone, composed with `FolderSync`.

## The modules

### PeerTrust

A connection slot `c` runs the code of `handle_connection` and `handle_stream`: `step[c]`
is where it is.  For a pairing request it is: "checking" the code, "matched", "saving" a
loaded copy, "writing" (the file is truncated), "paired", "ending".  A window `w` runs
`handle_pair`.  An editor `f` runs a forget: `Forgets` are handlers of the daemon and end
with `kick`, `Tools` are the settings window or the command line, which edit the file
themselves when `control::forget` returns any error: the daemon is down, or it is up and
answers ERR.  peers.json is `peers` and `disk`: a save first empties it, and two saves that
overlap may leave the longer content showing behind the shorter one ("garbage").

Abstractions: names of devices, prefixes of fingerprints and the version of the request
(an unknown version is a "wrong" code); one stream at a time per slot; a code is the
identity of its window; the table LIVE drops a connection with its handler.  The queue of
the broadcast holds 16 names and never overflows with these numbers of connections.

History variables (`admitted`, `stored`, `told`, `revoked`, `cut`, `stale`, `clobbered`)
are read by the properties only.  `clobbered` says that some save was made from a copy
older than the file.  The code cannot exclude it, so the properties that depend on it say so.

`TrustedDevices` is what this is for: a set of devices that each pairing and each forget changes
in one step.  While it is being rewritten, and after a crash in the middle of that for good, the PC
cannot read it and trusts nobody, but never a part of it.  `Registry` maps the set to `Listed`,
what was stored and not revoked since, and what the PC trusts at the moment to `peers`.

### FolderSync

Paths of a folder are planned independently, so one path is followed.  A file is a
version, a size and a modification time; the index shows size and time only.  Times come
from one clock that moves at every write: clocks of the two sides agree and every edit
gets a new time.  A session goes through SendIndex, MakePlan, CarryOutOnPc,
CarryOutOnPhone, SendPulled, ReceivePulled, SendFinalIndex and Finish; Abort may come at
any point, and DieWriting leaves a truncated file.  `Relying` names the windows in which a
session counts on a side staying as it was read; the code does not protect them, and
`disturbed` remembers that somebody acted in one, or that a side died while writing.

Operations that fail do not all end a session: `Fails` are the failures the code ignores
before it goes on and saves a baseline.  A scan cannot list the folder (`MissedOnPhone`,
`MissedOnPc`), the PC cannot remove the file or cannot open it to push it (`FailsOnPc`), the
phone cannot remove it (`FailsOnPhone`), the PC cannot write what it pulled (`FailsToWrite`).
Each sets `disturbed`: afterwards the baseline may take two different files for the same, and
the two sides stay apart until somebody edits one.  A scan that misses a file sets `removed` as
well, since to `reconcile` the file has been removed.  The failures the properties do withstand
are in the ordinary steps: a failing setLastModified (`CarryOutOnPhone`) and a failing save of
the baseline (`SaveFails`).

`TwoCopies` is what this is for: each side has a copy or none, users write and remove, and in a
single step a side gets what another one has - a newer version, or what has become there of the
version it has itself.  `Copies` maps a file to its version and no file to 0; a session is
then one step, the one that changes a file, and all its other steps are stuttering.

### Transfer

Offers: Announce is `offer` with `push` or `push_to`, Serve is `take`, ReportReceived is
the end of `pullFile`.  A lost connection makes the phone show a failure.  Uploads all
have the same file name: Choose is `unique_dest`, Create is `File::create` (which opens
and empties a file that is there by now), Fill writes, RemoveFile is the clean-up by name.
`dir` maps names to files and `data` files to their writers, so that two uploads in one
file are told apart.  `raced` remembers that a name was taken between its choice and the
creation of the file, or that `unique_dest` has run out of names and returns the one that is
taken: the code leaves both open and the upload properties are stated for behaviours in which
nobody hits them.

### SharedClipboard

`pc` and `clip[p]` are the clipboards, texts are numbers and images model values.  The watcher
of the PC is at "wait", "compare" (it has read) or "push" (it has remembered); `events` is
clipwatch, whose channel of one place is the bit `tick`; when it ends the task polls.  A text of
a phone is handled by a task of its own in three steps: remember, set, push - to the sender as
well.  `queue[p]` is the channel of a subscriber, with `Places` places for the 16 of the code;
`subs[p]` is "joining" between the reading of the last text and the entry in the list.  On the
phone two threads work with the clipboard: the listener reads what it has not seen
(`OnClipChanged`, into `read`) and later compares it with `received` (`SendIfNew`); `HandlePush`
remembers a text as `received` (and keeps it in `taken`) and `SetPrimaryClip` sets it.  An image
is pushed as an offer, and only one phone gets it: the properties are about texts.  `crossed`
and `repeated` are history: two copies met, or something was lost with a connection or a full
channel, or a listener sent what a push had replaced since it was read; or something is copied
again.  The overtaken listener is a race of the code and no fault of the users: a phone shows a
text it was sent, its listener has read it, the next push is remembered and perhaps set, and the
comparison with the new `received` takes the older text for a copy.  It goes back to the PC and
out again, so that after one further copy the PC and its phones may end with the older text, and
two texts may chase each other.  Without this exclusion TLC finds `SharedWhenSettled` violated.
A poll of the hub may compare a text that it read before a phone's was recorded, and a phone
then shows the older text again for a moment; the properties therefore speak of quiet states.

### SecondScreen

A request goes through `start` ("asked", "detecting", "preparing", "prepared"), runs
("streaming") and is taken down ("stopping", "stopped", "dropping", "done").  Each
compositor has a recipe: a sequence of commands, each with what it makes and what is pushed
on the guards when it has succeeded.  Any command may fail; `Undo` is the drop of the
guards, one at a time, and `UndoFails` a guard whose command fails, which the drop ignores:
`FailingGuards` are the kinds of guards whose failures the run explores, an output and the
framebuffer.  X11 has one recipe per free port and one with a larger framebuffer,
and goes from one to the next.  The flag ACTIVE is cleared by the drop of the session, before
its guards are dropped: `overlap` remembers that a session began in between, and what a
desktop then looks like is not promised by the code.  `litter` remembers what a recipe had made
without a guard when it failed, between making a thing and pushing its guard (an output of
Hyprland or Sway, a mode of X11), and what a guard failed to undo.  On the tablet one loop asks
at a time.  Left out: surfaceCreated sets the shared flag again, so that a loop a quick
surfaceDestroyed has not ended yet asks beside its successor; to the daemon it is one more
tablet.

### VideoPump

The stream of the encoder is a sequence of NAL units - parameter sets, first slices, further
slices - of three pieces each: the two halves of a start code (which the pipe may separate) and
the rest.  `WellFormed` says what an encoder writes: pictures one after another, each with its
parameter sets if it has any, a first slice and further slices.  `Read` takes any number of
pieces; `Push` is one turn of the loop over the units that `push` finds, so that the tablet
may receive between two of them and the next read comes only when nothing can be split any
more.  A silence of 10 ms (`Idle`) and the end of the file (`End`) finish the splitter, and
`Flush` then finishes the assembler: `pump` is "idle" or "ending" in between, and "done" when it
has returned.  `stalled` remembers that the encoder paused or exited (`Exit`, anywhere) inside a
picture, which is then flushed in parts; `lost` are units dropped at a full queue.
`FinishSplitter` keeps a header without a body, as `finish` does.

### ScreenInput and Mouse

One axis of the glass; positions are whole points and the sum of two fingers stands for their
centroid, so that no fraction is needed.  `press` and `twoAt` are ages: 0 to 2, at most one step
per comparison the code makes.  `FingerDown`, `FingerMove` and `FingerUp` are the phases of
`push`, `Tick` is `tick`.  `glass` has the fingers on the tablet's glass, `slots` the
translator's map of them.  The two differ when a gesture is cancelled while the pen is the first
of its pointers (`CancelUnderPen`): onTouchEvent hands the event to the pen, and no line says
that the fingers are gone.  Such a finger stays in the map until one of the same number has come
and gone, and the button it dragged with stays down until a next finger comes or goes;
`PointerUnderFinger` and `HeldFingerActs` make an exception of it.  A stray move for a pointer
that is not down (the pen is one more pointer of the tablet's events) is ignored by the map of
slots but not by the drag, and `strayed` remembers it.  `Arrange` moves the monitors after the
geometry was read.  Left out: keys, the buttons of a mouse and its wheel (the lines `sc`), which
are passed on as they come.

`Mouse` has two variables: whether the left button is down, and a bit that changes with
every right click or turn of the wheel.  It allows these only while the button is up.
`ActsLikeAMouse` says that `ScreenInput` implements it: `left` and `flip` are mapped to
themselves, and steps of fingers, pen and clock are steps of the mouse or stuttering.

### Services

`main.rs` starts six smaller services.  Their modules stand alone: what one reads of another
(the lock the subscribers of the hub, the status file those, the batteries and the lock's
setting) is part of its own module, where it may change at any time.  `Services` chooses one at
the start and runs it.

- `DoNotDisturb`: `last` and `dndFromPc` are the two remembered values.  Applying a report is
  two steps (remember, then gsettings), and gsettings makes a line for the monitor.  When the
  monitor exits, the poll reads and compares in two steps; what it has read may be overtaken by
  a report of the phone, is pushed nevertheless and taken back by the next poll.  Both sides
  report their switch when they start, and both reports are lost: the PC's has no subscriber
  yet, and the phone's is sent before its connection collects `LinkBus`, once in its life.  So
  `Init` has any two switches and nothing on its way, and the switches agree only after the
  first toggle.  The daemon is not restarted.
- `Advertiser`: the steps of `republish` and of a retry, `works` is what the adapter would
  answer.  `overtaken` remembers that a task of an older generation had its turn late.
- `AudioFeeds`: sessions of the speaker sweep, load and record, sessions of the microphone
  make the pipe, load and open it; `Drop` hands the module to a thread, `Kill` ends the
  daemon but not the sound server.  `stuck` are modules that pactl failed to list or to unload,
  which the code does not notice.  `torn`: a pipe in use was removed by another session.
- `Notifications`: a task is at "show", "shown", "recorded" or "close" with the call it is
  waiting for; the second task is that of the previous connection.  A page has the key `Page`.
  The relay of the phone sends what `shouldRelay` admits and has a title or a text (`Post`) and
  withholds the rest (`PostUnsent`); it asks `shouldRelay` again at a removal, which is not sent
  of what is then `withheld`.  The desktop is therefore compared with what the phone has `told`,
  not with what it has `posted`.  `Close` is the user's click on the desktop, which no signal of
  the daemon's hears.
- `StatusFile`: the writer reads battery, presence, peers, devices and the proximity setting
  (`nearby`), writes and waits.  Writes of both files may fail; `failed` and `unstored` say so.
- `ProximityLock`: `monitor` is the point of the task's loop: "top", "count", "locking",
  "unlocking", "arm", "waiting".  Reading the setting, counting the subscribers, running the
  lock command and choosing the wait are steps of their own.  The event bus is one bit, `dirty`:
  the watch channel has a version the task has not seen.  Those who change presence or setting
  change first and poke later, in two steps.  A save of the setting is a truncation and a write,
  and may fail (`unsaved`).  GRACE is a step that turns the countdown from "counting" to "over".
  Whether the screen is locked is no part of the model: the code never reads it and ignores what
  the lock command answers.

## Runs

| Run | Result | Instance | Shows |
|---|---|---|---|
| `PeerTrust_forget` | holds | 2 phones, 1 connection, 1 window, 1 boot code, 1 forget, 1 tool, crashes | no trust without a code, forgetting is final, also across restarts, and harms nobody else |
| `PeerTrust_windows` | holds | 2 phones, 1 connection, 2 windows, 1 boot code | codes expire and are withdrawn in the end, PAIRED is true |
| `FolderSync` | holds | 1 phone, 2 sizes, 4 writes | undisturbed edits survive, convergence, removals, with operations that fail |
| `FolderSync_phones` | violated | 2 phones, 3 writes | the session of a second phone removes the PC's file |
| `Transfer` | holds | 2 phones, 1 offer, 2 uploads, 2 names | targeted offers arrive whole, uploads keep apart |
| `SharedClipboard` | holds | 2 phones, 2 texts, 1 image, 2 copies, 1 lost connection, channels of 1 | the clipboards agree when it is quiet, echoes die out |
| `SharedClipboard_again` | violated | 1 phone, 3 copies | a text copied again after an image is not pushed |
| `SecondScreen` | holds | 2 requests, 5 compositors, 2 ports | one session, taken down on every path, nothing left behind but what guards failed to undo |
| `VideoPump` | holds | 3 streams of 4 units, a queue of 1 | whole pictures, in order, at once; the pump ends |
| `ScreenInput` | holds | 3 fingers, 2 points, 2 layouts, both sinks, pen, cancelled gestures | nothing stuck, no notch lost, pointer under the finger, a mouse, held fingers click |
| `Services` | holds | see `Services.cfg` | the six services: among others no lost wake-up of the lock, which locks when left, unlocks on return and keeps its setting |
| `Services_dismiss` | violated | as `Services` | a notification closed on the desktop stays on the phone |

The three violated runs are disagreements between the code and what its texts say; the
"findings" of `PROJECT.json` quote them.

**Bounds.**  Two writers of peers.json suffice for every overlap of two saves, two windows for
the overlap of windows, and forgets, tools and boot codes are used up.  A stream leaves and
joins any number of times, two requests let one setting overtake another; the safety properties
of the lock are proved for any number of both.  In `FolderSync`, `MaxTime` bounds the writes:
four allow both sides to edit, a session to write the result, and one edit more; two sizes let
an edit change the size or not.  Two names (`LastSuffix = 1` for the 9 999 of `unique_dest`) let
two uploads meet, and the file of the user makes the names run out.  `SharedClipboard`: two
copies on any of three clipboards meet in every way two can, and a channel of one place
overflows; behaviours are followed up to the step that sets `crossed` (`Uncrossed`), since the
properties promise nothing after it.  `SecondScreen`: with two requests one is taken down while
the other begins; a third would wait like the second, and the safety properties are proved for
any number.  Two ports let a recipe of X11 fail and the next one begin.  `FailingGuards` has one
of the things a compositor makes and the framebuffer; what other guards fail to undo is in the
proofs.  `VideoPump`: three pictures, two boundaries, slices and parameter sets on either side
of a boundary; a queue of one is full after one picture.  `ScreenInput`: three fingers reach
each of the translator's cases (one, two, more), two points with `Slop = 0` and a step of one
point let every comparison go both ways; the safety properties are proved for all sizes.  With a
cancelled finger in the map (`FewCancelled` of `MCScreenInput`) the run follows at most one
more, and monitors that stay where they are; the proofs need no such bound.  `Services`: two
users of every shared thing, and enough switches, posts and reports for two to be under way with
one more to follow.

**Fairness.**  All of it is weak fairness of steps that stay enabled until they are taken or
made void; no user, phone or compositor owes anything unless said so here.  `CodesStopWorking`:
the handler of a window is scheduled by tokio and its `select!` ends at the timer at the
latest.  `LocksWhenLeft` and `UnlocksWhenBack`: the task and the tasks that are about to poke
are scheduled, and time passes.  `EchoesDieOut`: the watcher, the handlers and the phone go on,
and a phone that has lost its connection reconnects (its loop retries for ever), but no
connection need last; it speaks of behaviours in which no copies cross.  `LeftScreenIsFreed`:
the task of a request is scheduled, commands end in success or failure, and a closed stream is
an end of file to `stream_display`.  `NoPictureIsHeldBack` and `PumpEnds`: the pump reads what
is there, its timeout expires, `stream_display` takes pictures; the encoder owes nothing.
`HeldFingerActs`: the clock runs and the interval of 50 ms fires.  `SwitchesAgree` and
`FileBecomesTrue`: the tasks of both programs are scheduled, the connection comes back, the
writer's wait ends after 30 s.

**Mutants.**  Definitions marked `mutant` are plausible bugs (a reset forgotten, a guard
dropped, a test inverted); each property of a passing run is violated when one of them
replaces the definition it stands before.  They are no part of any specification.

## Proofs

Each theorem below holds for every value of the constants that satisfies the assumptions of
its module.  The pattern is always the same: the property is strengthened to an invariant
that Init implies and every step preserves, one lemma or one step of the proof per action.

`PeerTrustProofs`, for any finite or infinite sets of phones, connections, windows, boot
codes, forgets and tools, from the assumptions that codes differ from the other values of
a line (`DistinctCodes`) and that writers are of one kind (`DistinctWriters`):

- `TypeCorrect`: the type invariant is inductive.  It is used by all the others.
- `CodesExpireAlways`: inductive with the types.
- `TrustNeedsCodeAlways`: the property is strengthened by the connections that are past the
  comparison of the codes; their device is `admitted` although nothing is saved yet.
- `PairedAnswerIsTrueAlways`: the event a window has heard, and the connection that is
  about to send it, name a device that is `stored` and `admitted`.
- `ForgottenStaysOutAlways`: rests on `ForgetInv`.  A copy that is not stale agrees with
  what was forgotten; a connection of a forgotten device that has a trusted stream is
  registered, and so closed by the kick to come.
- `TrustIsASet`: a behaviour in which no save is `clobbered` is one of `TrustedDevices`.  A copy
  that is not stale is `Listed` with the change of its writer, and the file it has truncated
  stays empty until it is written (`ListInv`), so that the writing is the step `Pair` or `Forget`,
  the truncation is `Withhold`, and all else is stuttering.  `AllAreTrustedOrNone` is the
  consequence for readers: they see the whole set or nobody.
- `PairOkIsDurableAlways`: rests on `DurableInv`.  What was promised, or will be if the
  connection lasts, is in every readable file and in every copy that is not stale; a copy that
  is not stale holds what the file holds, but for the device its editor removes.

`FolderSyncProofs`, for any sizes and any number of writes, from `PlacesAssumption`,
`SizesAssumption` and `NoFileAssumption` (no file is none of the records of a file):

- `TypeCorrect`, for any number of phones.
- The others assume `OnePhone`, a folder that one phone shares with the PC.  They have to: with
  two, `OnlyUsersRemove` is refuted by `FolderSync_phones`.  Nothing else is assumed: edits,
  removals, sessions cut short, sides that die while writing and operations that fail come at
  any time; the last two, and what users do in a window of a session, end what the properties
  promise (`disturbed`).
- `OnlyUsersRemoveAlone`: until some user has removed the file or a scan has missed it, a
  baseline has both files and no plan is a removal (`RemoveInv`).
- `EditsSurvive`, `SessionsConvergeAlone` and `RemovalsStickAlone` rest on one invariant,
  `Quiet`, for as long as nothing has been `disturbed`: versions are numbered by the clock, the
  baseline knows what both sides have seen, the plan is still what `Reconcile` would say of the
  files as they are, each point of the session knows how the two files compare, and what is in
  `gone` is on one side at most, as the baseline has it.  One lemma per action (`QuietMakePlan`,
  `QuietCarryOutOnPc`, ...), and the lemmas about `Reconcile` before them.
- `SessionsAreAtomic`: a behaviour of `FolderSync` in which nothing is disturbed is one of
  `TwoCopies`.  Edits map to `Write`, since no version that was seen is newer than the clock
  (`FreshInv`), removals to `Remove`, and each step of a session that changes a file to `PassOn`
  (`PassedToPc`, `PassedToPhone`, from `Quiet`); a copy is given up for none only when some user
  has removed one, or a scan missed it (`RemoveInv`).
- `NoVersionGoesBack` states `NeverOlder` of `TwoCopies` for `FolderSync`, as an invariant that
  holds until something is disturbed.

`TransferProofs`, for any phones, offers, uploads and any number of names:

- `TargetedOfferIsWhole`: an offer that one phone was told of waits for it until it is served,
  and a pull that has ended has brought all of it (`DownInv`).
- `FolderIsRight`: until somebody races, a chosen name is free and chosen by one upload, an
  open file is the upload's own, and a name in the folder is that of the upload whose file it
  is.  `OkMeansWholeAlways`, `UserFileSurvivesAlways` and `NoDebrisAlways` are parts of it.

`SharedClipboardProofs`, for any phones, texts, images and places in a channel, from
`ClipboardAssumption` (texts are numbers, in the order of their copying, and images are not):

- `TypeCorrect`: the types, and that what is anywhere was once copied.
- `SharedAlways`: the invariant `CleanInv` holds as long as no copies crossed and none was
  repeated.  One phone at a time has a text to pass on, and then the rest is quiet; the newest
  text is the PC's or on its way there; the last text in the channel of a connected phone, or
  the one it has received, is the hub's, or a push of it is still to come; a phone that shows an
  image has not yet received the text that replaces it; what a listener has read is what the phone
  has on its clipboard unless a push is just replacing it.

`ServicesProofs`, for all values of the constants that satisfy `ServicesAssumption` (speakers
are not microphones, conversations are keys, a page is none).  `OneRuns` states that a step is a
step of the service that runs and leaves the variables of the others alone.

- `SwitchesAgreeWhenQuiet`: the safety half of `SwitchesAgree`, `QuietMeansAgreed`.  Until
  switches cross, what the phone is heading for (its switch, or the last one pushed to it) is
  what the PC has on record in `last`, unless the phone is about to report, and then the PC
  rests (`SwitchInv`).  A report that is being applied may be met by one stale poll, which is
  pushed and taken back: `Due` counts the pushes the PC still owes, and together with the
  broadcasts on the phone there are never more than two, so that the broadcast that finds
  `dndFromPc` cleared by the one before it is the last, and comes when the PC rests.  Until the
  first toggle nothing is under way and nothing is promised.
- `BleGoesOn`: a generation that is not yet advertised is in the hands of its watcher or of its
  retry, and only `RetryCheck` ends a retry, when its generation is not the latest.
- `ModulesGo`: what is loaded belongs to a session at work, unless pactl failed to unload it; a
  sweep has listed what a killed daemon left (`SweepIsThorough`); until it is torn a microphone
  has the pipe from its making on, and its module reads what the daemon writes.
- `FilesStayTrue`: while the status is still, what the writer has read of it is true piece by
  piece, in the order in which it reads.
- `RepliesGoWhereAsked`: an id of the desktop belongs to one key for ever (`IdsHaveOwners`).
- `DesktopIsRight`: with one task at work, the last message of a key has the text the phone told
  last, so has the task about to show it, a key has one notification at most, and its buttons
  lead where its text does, unless a task is between showing and recording.

- `LockTypesHold` also says what the task of the lock knows at each point, for example that a wait
  with a time-out has a countdown and no lock.
- `NoWakeUpIsLost`: between the reading of the setting or of the subscribers and the sleep,
  either what was read is still so or there is news on its way.  `OthersMakeNews` gives
  this for the steps of other tasks, `DecisionStep` for those of the task.
- `RestartKeepsSettingAlways`: with at most one request served at a time, its point of
  progress tells how the file and the setting differ, unless the last write has failed.

`SecondScreenProofs`, for any requests, compositors and number of ports:

- `OneSessionAtATime`: inductive with the types of the flag and of the labels: a request enters
  the labels that hold the flag only through `Enter`, which finds it clear, and leaves them only
  through `GiveUp` and `Release`, which clear it.
- `MonitorFoldsUp` and `ScreenStays`: `PlanIsSound` goes through the recipes once: whatever a
  command makes has its guard by the end of its recipe, the framebuffer no later than its size
  changes.  `OwnInv` says of a request where in its
  recipe it is and what it has made, `AloneInv` that, unless sessions overlapped, one request at a
  time is at work and the desktop has what that request has made, or litter; what a guard fails to
  undo is litter from then on.

`TabletProofs`, about `ScreenInput` for any fingers, width, slop, step and layouts:

- `NoButtonStuck`: with the virtual pointer, the left button is down exactly while one finger
  drags alone.  It is inductive with the types of the gesture.
- `TranslatorIsAMouse`: a step mapping to `Mouse`.  A right click and a turn of the wheel need
  the button up, which `NoButtonStuck` gives: two fingers have ended the drag.
- `HandsOffNothingStuck`: `NoButtonStuck` for the button, the same induction for what an empty
  glass leaves armed, and the keys of the pen, which each line of the pen sets for its tool.
- `PointerLandsUnderFinger`: a finger that drags is the only one, so that the last line that
  moved the pointer was its own, unless a finger in the map has left the glass.  Layouts are
  records of whole numbers (`SizesAssumption`).
- `NoNotchIsLost`: inductive with the bound of the remainder; `StepsLeaveLess` states the
  arithmetic of `Steps` once (after whole steps are taken less than one step remains), and
  `ScrollStep` applies it to what a move of the fingers adds.

`TabletProofs`, about `VideoPump` for any streams an encoder may write and any capacity of the
channel, from `PumpAssumption`:

- `PiecesStayInOrder`: the splitter's buffer is a run of the stream that ends with what was read
  last, and what has arrived, waits in the channel and is pending in the assembler ascends and
  comes before it (`OrderInv`).  A unit is taken from the front of the buffer and appended to
  what is pending, and what is pending goes to the end of the channel.
- `UnitsAreWholePictures` rests on `PictureInv`: until the encoder stalls, what is pending are the
  units of one picture from its first on, up to where the buffer begins, and `hasVcl` says
  whether a slice is among them.  The units of a picture lie together because the numbers of the
  pictures ascend.  When pictures are flushed, what follows belongs to another one: a first
  slice or parameter sets do, or the silence fell between two pictures.

Checked by TLC only:

- liveness, which needs ENABLED: `CodesStopWorking`, `LocksWhenLeft`, `UnlocksWhenBack`,
  `EchoesDieOut`, `LeftScreenIsFreed`, `NoPictureIsHeldBack`, `PumpEnds`, `HeldFingerActs`,
  the liveness half of `SwitchesAgree` (in the end nothing is under way) and `FileBecomesTrue`;
- the three violations, which are counterexamples.

## Not modelled

The encoding of messages, TLS and QUIC themselves, discovery and BLE as radio, drawing and
layout, samples and pictures as data, the installer.  The connect loop of the phone and the
loop that starts sync sessions are the next modules of the plan; `ProximityLock`,
`SharedClipboard`, `Transfer` and `FolderSync` let connections come and go at any time
instead.  Webcam and audio of the phone feed one stream into a child process that is killed
with it; media control and volume are calls without state.  Keys, mouse buttons
and wheel lines of the tablet are passed on as they come.  A loop of the tablet that outlives a
quick surfaceDestroyed, a restart of the daemon in `DoNotDisturb`, and failures of gsettings are
left out.  What the lock command answers is ignored by the code, so nothing is said of the screen.

What the code itself cannot promise is excluded by name in the properties: `clobbered`, `mixed`,
`unsaved`, `disturbed`, `removed`, `raced`, `crossed`, `repeated`, `overlap`, `litter`, `stalled`,
`strayed`, `overtaken`, `killed`, `stuck`, `torn`, `overlapped`, `missed`, `unstored`, `failed`,
`silent`, `swapped`; each of these variables is set in the model by the step that breaks the
promise.
