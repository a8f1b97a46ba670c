--------------------------- MODULE Notifications ---------------------------
(***************************************************************************)
(* The notifications of a phone on the PC's desktop (notifications.rs).    *)
(* The daemon knows which notification of the desktop stands for which key *)
(* of the phone and what its buttons lead to.  A stream is handled by one  *)
(* task, one message after the other; when the phone connects anew the     *)
(* task of the old connection finishes what it has begun.                  *)
(***************************************************************************)
EXTENDS Naturals, Sequences

CONSTANTS
    Keys, Talks,    \* notifications of the phone, those one can reply to
    Page,           \* a page that is handed off; not a key
    Tasks,          \* one per connection, used anew when it is idle
    Posts,          \* bound: of notifications, updates and pages
    Waiting         \* bound: of messages on their way

VARIABLES
    posted,     \* on the phone: the text of each key, 0 if there is none
    withheld,   \* keys whose notification shouldRelay rejects
    posts, bus, \* texts so far; LinkBus and the stream
    serving, job,           \* the task of the connection; what each task does
    ids,                    \* Notifier.ids, 0 for a key without one
    viewTargets, replyTargets, openTargets,     \* by id
    desktop, lastId,        \* the desktop's open notifications, its last id
    clicks,                 \* signals ActionInvoked that wait
    told,                   \* history: what was last sent of each key, 0 if it was removed
    dismissed,              \* history: texts the user closed on the desktop
    overlapped, missed      \* history: tasks met; messages were lost

phone   == <<posted, withheld, posts, told>>
maps    == <<ids, viewTargets, replyTargets, openTargets>>
screen  == <<desktop, lastId>>
mirror  == <<phone, bus, serving, job, maps, screen, clicks, dismissed, overlapped, missed>>

None == [at |-> "idle"]
Ids  == 1 .. Posts

Init ==
    /\ posted = [k \in Keys |-> 0] /\ withheld = {} /\ posts = 0 /\ bus = <<>>
    /\ told = [k \in Keys |-> 0] /\ dismissed = {}
    /\ serving = (CHOOSE t \in Tasks : TRUE) /\ job = [t \in Tasks |-> None]
    /\ ids = [k \in Keys |-> 0]
    /\ viewTargets = [i \in Ids |-> 0] /\ openTargets = [i \in Ids |-> 0]
    /\ replyTargets = [i \in Ids |-> Page]
    /\ desktop = [i \in Ids |-> [key |-> Page, text |-> 0]] /\ lastId = 0
    /\ clicks = <<>> /\ overlapped = FALSE /\ missed = FALSE

Open(i) == desktop[i].text # 0

-----------------------------------------------------------------------------
(* The phone.                                                              *)

Arrive(k) ==
    /\ posts < Posts /\ posts' = posts + 1
    /\ posted' = IF k \in Keys THEN [posted EXCEPT ![k] = posts'] ELSE posted
    /\ UNCHANGED <<serving, job, maps, screen, clicks, dismissed, overlapped, missed>>

\* onNotificationPosted, or a page is shared.
Post(k) ==
    /\ Arrive(k) /\ Len(bus) < Waiting
    /\ bus' = Append(bus, [at |-> "show", key |-> k, text |-> posts'])
    /\ told' = IF k \in Keys THEN [told EXCEPT ![k] = posts'] ELSE told
    /\ withheld' = withheld \ {k}

\* shouldRelay rejects it: no one can clear it, or it sums up a group.  Or it
\* has neither title nor text, which shouldRelay does not look at.
PostUnsent(k) ==
    /\ Arrive(k)
    /\ withheld' \in {withheld \cup {k}, withheld \ {k}}
    /\ UNCHANGED <<bus, told>>

Removed(k) ==
    /\ posted[k] # 0 /\ posted' = [posted EXCEPT ![k] = 0]
    /\ withheld' = withheld \ {k}
    /\ UNCHANGED <<posts, serving, job, maps, screen, clicks, dismissed, overlapped, missed>>

SendRemoval(k) ==
    /\ Len(bus) < Waiting /\ bus' = Append(bus, [at |-> "gone", key |-> k])
    /\ told' = [told EXCEPT ![k] = 0]

\* onNotificationRemoved, which asks shouldRelay too.
Remove(k) ==
    /\ Removed(k)
    /\ IF k \in withheld THEN UNCHANGED <<bus, told>> ELSE SendRemoval(k)

\* A new connection: what was on its way is lost.
Reconnect(t) ==
    /\ t # serving /\ job[t] = None
    /\ serving' = t /\ bus' = <<>>
    /\ missed' = (missed \/ bus # <<>>)
    /\ UNCHANGED <<phone, job, maps, screen, clicks, dismissed, overlapped>>

-----------------------------------------------------------------------------
(* The tasks.                                                              *)

Begin(t, replaces) ==
    /\ t = serving /\ job[t] = None /\ bus # <<>> /\ Head(bus).at = "show"
    /\ bus' = Tail(bus)
    /\ LET m == Head(bus) IN
       job' = [job EXCEPT ![t] = [at |-> "show", key |-> m.key, text |-> m.text,
                                  replaces |-> replaces]]
    /\ overlapped' = (overlapped \/ \E u \in Tasks \ {t} : job[u] # None)
    /\ UNCHANGED <<phone, serving, maps, screen, clicks, dismissed, missed>>

ShowOverLast(t) ==    \* mutant: the last notification is replaced, whatever its key
    bus # <<>> /\ Begin(t, lastId)

\* show reads replaces_id; show_handoff uses 0.
Show(t) ==
    bus # <<>> /\ Begin(t, IF Head(bus).key = Page THEN 0 ELSE ids[Head(bus).key])

\* Notify: the desktop keeps the id of a notification that is replaced; one
\* that is no longer open may get a new one.
ShownAs(t, i) ==
    LET j == job[t] IN
    /\ j.at = "show"
    /\ \/ i = j.replaces /\ UNCHANGED lastId
       \/ /\ j.replaces \notin {n \in Ids : Open(n)}
          /\ i = lastId + 1 /\ lastId' = i
    /\ desktop' = [desktop EXCEPT ![i] = [key |-> j.key, text |-> j.text]]
    /\ job' = [job EXCEPT ![t] = [at |-> "shown", key |-> j.key, text |-> j.text,
                                  replaces |-> i]]
    /\ UNCHANGED <<phone, bus, serving, maps, clicks, dismissed, overlapped, missed>>

\* The call may fail.
NotifyFails(t) ==
    /\ job[t].at = "show"
    /\ job' = [job EXCEPT ![t] = None] /\ missed' = TRUE
    /\ UNCHANGED <<phone, bus, serving, maps, screen, clicks, dismissed, overlapped>>

Notify(t) == NotifyFails(t) \/ \E i \in Ids : ShownAs(t, i)

Recorded(t) ==
    /\ job[t].at = "shown"
    /\ job' = [job EXCEPT ![t].at = "recorded"]
    /\ UNCHANGED <<phone, bus, serving, viewTargets, replyTargets, openTargets, screen>>
    /\ UNCHANGED <<clicks, dismissed, overlapped, missed>>

RecordFirst(t) ==    \* mutant: an id the key already has is kept
    /\ Recorded(t)
    /\ ids' = IF job[t].key = Page \/ ids[job[t].key] # 0 THEN ids
              ELSE [ids EXCEPT ![job[t].key] = job[t].replaces]

\* ids.insert.
Record(t) ==
    /\ Recorded(t)
    /\ ids' = IF job[t].key = Page THEN ids ELSE [ids EXCEPT ![job[t].key] = job[t].replaces]

\* view_targets, reply_targets or open_targets; the task is done.
Aim(t) ==
    LET j == job[t]  i == j.replaces IN
    /\ j.at = "recorded" /\ job' = [job EXCEPT ![t] = None]
    /\ openTargets' = IF j.key = Page THEN [openTargets EXCEPT ![i] = j.text] ELSE openTargets
    /\ viewTargets' = IF j.key \in Talks THEN [viewTargets EXCEPT ![i] = j.text] ELSE viewTargets
    /\ replyTargets' = IF j.key \in Talks THEN [replyTargets EXCEPT ![i] = j.key] ELSE replyTargets
    /\ UNCHANGED <<phone, bus, serving, ids, screen, clicks, dismissed, overlapped, missed>>

\* dismiss: the key is forgotten, with its reply; then the notification is closed.
Dismiss(t) ==
    /\ t = serving /\ job[t] = None /\ bus # <<>> /\ Head(bus).at = "gone"
    /\ LET k == Head(bus).key IN
       IF ids[k] = 0 THEN UNCHANGED <<ids, replyTargets, job>>
       ELSE /\ ids' = [ids EXCEPT ![k] = 0]
            /\ replyTargets' = [replyTargets EXCEPT ![ids[k]] = Page]
            /\ job' = [job EXCEPT ![t] = [at |-> "close", id |-> ids[k]]]
    /\ bus' = Tail(bus)
    /\ overlapped' = (overlapped \/ \E u \in Tasks \ {t} : job[u] # None)
    /\ UNCHANGED <<phone, serving, viewTargets, openTargets, screen, clicks, dismissed, missed>>

Vanish(i) == desktop' = [desktop EXCEPT ![i] = [key |-> Page, text |-> 0]]

\* CloseNotification.
CloseNotification(t) ==
    /\ job[t].at = "close" /\ Vanish(job[t].id)
    /\ job' = [job EXCEPT ![t] = None]
    /\ UNCHANGED <<phone, bus, serving, maps, lastId, clicks, dismissed, overlapped, missed>>

-----------------------------------------------------------------------------
(* The desktop, its user, and listen_actions.                              *)

\* Eight seconds have passed.
Expire(i) ==
    /\ Open(i) /\ Vanish(i)
    /\ UNCHANGED <<phone, bus, serving, job, maps, lastId, clicks, dismissed, overlapped, missed>>

\* The user closes it.  The daemon does not listen to NotificationClosed.
Close(i) ==
    /\ Open(i) /\ Vanish(i)
    /\ dismissed' = dismissed \cup {desktop[i].text}
    /\ UNCHANGED <<phone, bus, serving, job, maps, lastId, clicks, overlapped, missed>>

\* The user presses Reply; the signal is on its way.
PressReply(i) ==
    /\ Open(i) /\ desktop[i].key \in Talks /\ clicks = <<>>
    /\ clicks' = <<[id |-> i, key |-> desktop[i].key]>>
    /\ UNCHANGED <<phone, bus, serving, job, maps, screen, dismissed, overlapped, missed>>

\* listen_actions: without a target nothing happens; else prompt_and_send asks
\* and pushes the answer, with the key of the target, to the phone.
Listen ==
    /\ clicks # <<>> /\ clicks' = Tail(clicks)
    /\ UNCHANGED <<phone, bus, serving, job, maps, screen, dismissed, overlapped, missed>>

Task(t) == Show(t) \/ Notify(t) \/ Record(t) \/ Aim(t) \/ Dismiss(t) \/ CloseNotification(t)
Next ==
    \/ \E k \in Keys \cup {Page} : Post(k)
    \/ \E k \in Keys : PostUnsent(k) \/ Remove(k)
    \/ \E t \in Tasks : Reconnect(t) \/ Task(t)
    \/ \E i \in Ids : Expire(i) \/ Close(i) \/ PressReply(i)
    \/ Listen

Spec == Init /\ [][Next]_mirror

-----------------------------------------------------------------------------
(* Properties.                                                             *)

Orderly == ~overlapped /\ ~missed
Quiet   == bus = <<>> /\ \A t \in Tasks : job[t] = None

(* Once the tasks are done the desktop shows nothing the phone has said is *)
(* removed, and each open notification has the text last sent of its key;  *)
(* its buttons lead to what it shows, and to no page unless it stands for  *)
(* one.  What the phone withholds, the desktop cannot know: an old text    *)
(* stays.  Excluded: tasks of two connections that met, messages lost and  *)
(* calls that failed.                                                      *)
DesktopFollowsPhone ==
    Orderly /\ Quiet => \A i \in Ids : Open(i) =>
        LET d == desktop[i] IN
        /\ d.key # Page => d.text = told[d.key]
        /\ openTargets[i] = IF d.key = Page THEN d.text ELSE 0
        /\ d.key \in Talks => viewTargets[i] = d.text /\ replyTargets[i] = d.key

(* A pressed Reply asks for the conversation it stood on, however late the *)
(* signal is handled and whatever was shown, replaced or removed in the    *)
(* meantime, even if tasks met and messages were lost.                     *)
AnswersGoWhereAsked ==
    \A n \in 1 .. Len(clicks) : replyTargets[clicks[n].id] \in {clicks[n].key, Page}

(* "Dismiss on one side, gone on the other": what the user has closed on   *)
(* the desktop is gone from the phone once nothing is on its way.          *)
DismissReachesPhone ==
    Orderly /\ Quiet => \A k \in Keys : posted[k] # 0 => posted[k] \notin dismissed
=============================================================================
