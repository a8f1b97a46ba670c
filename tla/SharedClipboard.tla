-------------------------- MODULE SharedClipboard ---------------------------
(***************************************************************************)
(* The clipboard that the PC and its phones share (clipboard.rs,           *)
(* clipwatch.rs, the Clipboard and Subscribe arms of server.rs, and their  *)
(* counterpart on the phone: ClipboardAutoSync, ClipboardStore, handlePush *)
(* and LinkBus).                                                           *)
(* On both sides a program looks at the clipboard and passes on what is    *)
(* new; on both sides what was received must not be passed on again.  The  *)
(* PC remembers last_text and last_image_hash, the phone lastSeen and      *)
(* lastReceivedFromPc.                                                     *)
(* Texts stand for their hashes, and images likewise; a text of more than  *)
(* 256 KiB, which both sides ignore, is left out, and so is set_image: no  *)
(* phone sends an image of its clipboard.                                  *)
(***************************************************************************)
EXTENDS Naturals, Sequences, FiniteSets

CONSTANTS
    Phones,
    Texts,      \* numbered in the order in which they are first copied
    Images,
    Places,     \* of a subscriber's channel
    Copies,     \* bound: how often users copy
    Drops,      \* bound: how often a connection is lost
    None

ASSUME ClipboardAssumption ==
    /\ Places \in Nat \ {0} /\ Texts \subseteq Nat
    /\ Images \cap Texts = {} /\ None \notin Texts \cup Images

VARIABLES
    pc,         \* what is on the PC's clipboard
    last, lastImage, pending,   \* ClipboardHub; images offered and not yet pulled
    events, tick,               \* clipwatch is alive; the place of its channel is taken
    watch,      \* the watching task: [at, item]
    handlers,   \* set_from_peer in progress: [from, text, at]
    subs, queue,                \* subscribers and their channels
    link, out,  \* the connection; texts of LinkBus on their way
    clip, seen, received,       \* the phone: clipboard, lastSeen, lastReceivedFromPc
    read, taken,                \* what the listener has read; what handlePush is to set
    pulling,                    \* receiveClipboardImageFromPc
    used,       \* history: what has been copied
    copies, drops, crossed, repeated    \* counts, and history, see below

hub     == <<last, lastImage, pending>>
watcher == <<events, tick, watch>>
net     == <<subs, queue, link, out>>
phone   == <<clip, seen, received, read, taken, pulling>>
history == <<used, copies, drops, crossed, repeated>>
vars    == <<pc, hub, watcher, handlers, net, phone, history>>

Idle == [at |-> "wait", item |-> None]

Init ==
    /\ pc = None /\ last = None /\ lastImage = None /\ pending = {}
    /\ events = TRUE /\ tick = FALSE /\ watch = Idle /\ handlers = {}
    /\ subs = [p \in Phones |-> "yes"] /\ link = [p \in Phones |-> TRUE]
    /\ queue = [p \in Phones |-> <<>>] /\ out = [p \in Phones |-> <<>>]
    /\ clip = [p \in Phones |-> None] /\ seen = clip /\ received = clip
    /\ pulling = clip /\ read = clip /\ taken = clip
    /\ used = {} /\ copies = 0 /\ drops = 0 /\ crossed = FALSE /\ repeated = FALSE

\* The hub has this on record as passed on or received.
Known(x) == IF x \in Images THEN lastImage = x ELSE last = x

\* Nothing is under way.
Settled ==
    /\ Known(pc) /\ watch.at # "push" /\ (watch.at = "compare" => Known(watch.item))
    /\ handlers = {}
    /\ \A p \in Phones :
          /\ queue[p] = <<>> /\ out[p] = <<>> /\ pulling[p] = None
          /\ read[p] = None /\ taken[p] = None
          /\ clip[p] \notin Images => clip[p] = seen[p]
          /\ link[p] <=> subs[p] = "yes"

\* crossed: a copy was made while another one was under way, or what was
\* under way was lost, or the listener sent what a push was just replacing;
\* repeated: something is copied a second time.
Copied(x, lost) ==
    /\ x \in Texts => \A y \in Texts : y < x => y \in used
    /\ copies < Copies /\ copies' = copies + 1
    /\ used' = used \cup {x} /\ repeated' = (repeated \/ x \in used)
    /\ crossed' = (crossed \/ lost \/ ~Settled)
    /\ UNCHANGED drops

Noted(lost) == crossed' = (crossed \/ lost) /\ UNCHANGED <<used, copies, drops, repeated>>

-----------------------------------------------------------------------------
(* The hub.                                                                *)

\* push: try_send to every subscriber.  A phone that has read the last text
\* and is not in the list yet gets nothing, nor does one whose channel is full.
Push(x) ==
    LET gets == {p \in Phones : subs[p] = "yes" /\ Len(queue[p]) < Places}
    IN  /\ queue' = [p \in Phones |-> IF p \in gets THEN Append(queue[p], x) ELSE queue[p]]
        /\ Noted(\E p \in Phones \ gets : subs[p] # "no")

Remember(x) ==
    IF x \in Images THEN lastImage' = x /\ UNCHANGED <<last, pending>>
                    ELSE last' = x /\ UNCHANGED <<lastImage, pending>>

\* After a tick, or POLL_INTERVAL without clipwatch: wl-paste or xclip.
WatchRead ==
    /\ watch = Idle /\ (events => tick)
    /\ watch' = IF pc = None THEN Idle ELSE [at |-> "compare", item |-> pc]
    /\ tick' = FALSE
    /\ UNCHANGED <<pc, hub, events, handlers, net, phone, history>>

WatchCompareTexts ==    \* mutant: what has been received is passed on again
    /\ watch.at = "compare"
    /\ IF watch.item \in Images /\ Known(watch.item)
       THEN watch' = Idle /\ UNCHANGED hub
       ELSE watch' = [watch EXCEPT !.at = "push"] /\ Remember(watch.item)
    /\ UNCHANGED <<pc, events, tick, handlers, net, phone, history>>

WatchCompare ==
    /\ watch.at = "compare"
    /\ IF Known(watch.item)
       THEN watch' = Idle /\ UNCHANGED hub
       ELSE watch' = [watch EXCEPT !.at = "push"] /\ Remember(watch.item)
    /\ UNCHANGED <<pc, events, tick, handlers, net, phone, history>>

\* An image is first offered to be pulled.
WatchPush ==
    /\ watch.at = "push"
    /\ pending' = pending \cup ({watch.item} \cap Images)
    /\ Push(watch.item)
    /\ watch' = Idle
    /\ UNCHANGED <<pc, last, lastImage, events, tick, handlers, subs, link, out, phone>>

\* wl-paste --watch or the X connection ends: from now on the task polls.
WatchEnds ==
    /\ events
    /\ events' = FALSE /\ tick' = FALSE
    /\ UNCHANGED <<pc, hub, watch, handlers, net, phone, history>>

\* set_from_peer: last_text, then the clipboard, then push, to the sender as
\* well.  The phone sends its next text after the reply.
SetFromPeer(p) ==
    /\ link[p] /\ out[p] # <<>> /\ ~\E h \in handlers : h.from = p
    /\ Remember(Head(out[p]))
    /\ handlers' = handlers \cup {[from |-> p, text |-> Head(out[p]), at |-> "set"]}
    /\ out' = [out EXCEPT ![p] = Tail(@)]
    /\ UNCHANGED <<pc, watcher, subs, queue, link, phone, history>>

SetClipboard(h) ==
    /\ h.at = "set"
    /\ pc' = h.text /\ tick' = events
    /\ handlers' = (handlers \ {h}) \cup {[h EXCEPT !.at = "push"]}
    /\ UNCHANGED <<hub, events, watch, net, phone, history>>

PushToPhones(h) ==
    /\ h.at = "push"
    /\ Push(h.text)
    /\ handlers' = handlers \ {h}
    /\ UNCHANGED <<pc, hub, watcher, subs, link, out, phone>>

Join(p) ==
    /\ subs[p] = "joining"
    /\ subs' = [subs EXCEPT ![p] = "yes"]
    /\ UNCHANGED <<pc, hub, watcher, handlers, queue, link, out, phone, history>>

-----------------------------------------------------------------------------
(* The connection.                                                         *)

ConnectBare(p) ==    \* mutant: a new subscriber is told nothing
    /\ ~link[p]
    /\ link' = [link EXCEPT ![p] = TRUE] /\ subs' = [subs EXCEPT ![p] = "joining"]
    /\ UNCHANGED <<pc, hub, watcher, handlers, queue, out, phone, history>>

\* A new connection and subscribe: the last text goes into the channel, then
\* the list grows.
Connect(p) ==
    /\ ~link[p]
    /\ link' = [link EXCEPT ![p] = TRUE] /\ subs' = [subs EXCEPT ![p] = "joining"]
    /\ queue' = [queue EXCEPT ![p] = IF last = None THEN <<>> ELSE <<last>>]
    /\ UNCHANGED <<pc, hub, watcher, handlers, out, phone, history>>

\* What is in the channel and in LinkBus is gone; a handler goes on.
Disconnect(p) ==
    /\ link[p] /\ drops < Drops /\ drops' = drops + 1
    /\ link' = [link EXCEPT ![p] = FALSE] /\ subs' = [subs EXCEPT ![p] = "no"]
    /\ queue' = [queue EXCEPT ![p] = <<>>] /\ out' = [out EXCEPT ![p] = <<>>]
    /\ handlers' = {IF h.from = p THEN [h EXCEPT !.from = None] ELSE h : h \in handlers}
    /\ pulling' = [pulling EXCEPT ![p] = None]
    /\ crossed' = (crossed \/ out[p] # <<>>)
    /\ UNCHANGED <<pc, hub, watcher, clip, seen, received, read, taken, used, copies, repeated>>

-----------------------------------------------------------------------------
(* The phone.                                                              *)

\* onClipChanged, on the main thread: the listener, and a poll every 1.5 s.
\* An image has no text.  Only this thread changes lastSeen.
OnClipChanged(p) ==
    /\ read[p] = None /\ clip[p] \in Texts /\ clip[p] # seen[p]
    /\ read' = [read EXCEPT ![p] = clip[p]]
    /\ UNCHANGED <<pc, hub, watcher, handlers, net, clip, seen, received, taken, pulling, history>>

\* What was read is compared with what has been received by now: a text that a
\* push replaces between the two steps is taken for a copy and sent.  Without
\* a connection nobody collects what LinkBus emits.
SendIfNew(p) ==
    LET new == read[p] # received[p]
        replaced == clip[p] # read[p] \/ taken[p] # None
    IN
    /\ read[p] # None
    /\ read' = [read EXCEPT ![p] = None] /\ seen' = [seen EXCEPT ![p] = read[p]]
    /\ out' = IF new /\ link[p] THEN [out EXCEPT ![p] = Append(@, read[p])] ELSE out
    /\ crossed' = (crossed \/ (new /\ (replaced \/ ~link[p])))
    /\ UNCHANGED <<pc, hub, watcher, handlers, subs, queue, link, clip, received, taken, pulling,
                   used, copies, drops, repeated>>

\* handlePush, on a thread of its own: a text that was received before is
\* ignored, another is remembered first.  The offer of an image starts a pull.
HandlePush(p) ==
    LET x == Head(queue[p]) IN
    /\ link[p] /\ queue[p] # <<>> /\ taken[p] = None
    /\ queue' = [queue EXCEPT ![p] = Tail(@)]
    /\ IF x \in Images
       THEN pulling' = [pulling EXCEPT ![p] = x] /\ UNCHANGED <<received, taken>>
       ELSE /\ received' = [received EXCEPT ![p] = x]
            /\ taken' = IF x = received[p] THEN taken ELSE [taken EXCEPT ![p] = x]
            /\ UNCHANGED pulling
    /\ UNCHANGED <<pc, hub, watcher, handlers, subs, link, out, clip, seen, read, history>>

\* setPrimaryClip.
SetPrimaryClip(p) ==
    /\ taken[p] # None
    /\ clip' = [clip EXCEPT ![p] = taken[p]] /\ taken' = [taken EXCEPT ![p] = None]
    /\ UNCHANGED <<pc, hub, watcher, handlers, net, seen, received, read, pulling, history>>

\* pullFile and take: only the first phone gets an image.
Pull(p) ==
    /\ pulling[p] # None
    /\ clip' = IF pulling[p] \in pending THEN [clip EXCEPT ![p] = pulling[p]] ELSE clip
    /\ pending' = pending \ {pulling[p]}
    /\ pulling' = [pulling EXCEPT ![p] = None]
    /\ UNCHANGED <<pc, last, lastImage, watcher, handlers, net, seen, received, read, taken, history>>

-----------------------------------------------------------------------------
(* The users.                                                              *)

PCCopy(x) ==
    /\ pc' = x /\ tick' = events
    /\ Copied(x, FALSE)
    /\ UNCHANGED <<hub, events, watch, handlers, net, phone>>

PhoneCopy(p, x) ==
    /\ clip' = [clip EXCEPT ![p] = x]
    /\ Copied(x, ~link[p])
    /\ UNCHANGED <<pc, hub, watcher, handlers, net, seen, received, read, taken, pulling>>

Watch == WatchRead \/ WatchCompare \/ WatchPush

Hub(p) == SetFromPeer(p) \/ Join(p)

Phone(p) == OnClipChanged(p) \/ SendIfNew(p) \/ HandlePush(p) \/ SetPrimaryClip(p) \/ Pull(p)

Handle == \E h \in handlers : SetClipboard(h) \/ PushToPhones(h)

Next ==
    \/ Watch \/ WatchEnds \/ Handle
    \/ \E p \in Phones : Hub(p) \/ Phone(p) \/ Connect(p) \/ Disconnect(p)
    \/ \E x \in Texts \cup Images : PCCopy(x)
    \/ \E p \in Phones, x \in Texts : PhoneCopy(p, x)

\* Every task that has work goes on; a phone reconnects, but its connection
\* need not last.
Spec ==
    /\ Init /\ [][Next]_vars
    /\ WF_vars(Watch) /\ WF_vars(Handle)
    /\ \A p \in Phones :
          /\ WF_vars(SetFromPeer(p)) /\ WF_vars(Join(p)) /\ WF_vars(Connect(p))
          /\ WF_vars(OnClipChanged(p)) /\ WF_vars(SendIfNew(p))
          /\ WF_vars(HandlePush(p)) /\ WF_vars(SetPrimaryClip(p)) /\ WF_vars(Pull(p))

-----------------------------------------------------------------------------
(* Properties.                                                             *)

Shared == pc \in Texts => \A p \in Phones : link[p] => clip[p] = pc

(* When all is quiet, every connected phone has the PC's text on its       *)
(* clipboard, wherever it was copied and whether or not the phone was      *)
(* connected then.  Excluded: copies that cross each other or the loss of  *)
(* a connection or of a place in a channel, and texts copied twice.        *)
SharedWhenSettled == Settled /\ ~(crossed \/ repeated) => Shared

(* src/README.md:24, "The clipboard is shared both ways. Copy on the PC,   *)
(* paste on the phone two seconds later": also what is copied again.       *)
CopiedIsPasted == Settled /\ ~crossed => Shared

(* A copy does not come back for ever from where it was sent: once it has  *)
(* reached everybody nothing is under way.  Copies that cross do chase each *)
(* other, if each time a listener is overtaken between reading and comparing. *)
EchoesDieOut == <>[](Settled \/ crossed)

\* A bound of the runs: no property says anything of what comes after copies
\* have crossed, so it is not explored.
Uncrossed == ~crossed
=============================================================================
