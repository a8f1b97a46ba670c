------------------------------ MODULE Services ------------------------------
(***************************************************************************)
(* The services of the daemon that main.rs starts side by side and that    *)
(* share no state: do-not-disturb, advertising, the audio feeds, desktop   *)
(* notifications, the status files and the proximity lock.  As none can    *)
(* disturb another, a behaviour runs one of them, chosen at the start.     *)
(***************************************************************************)
EXTENDS Naturals

CONSTANTS
    Toggles, Watchers, Calls, Speakers, Mics, Nobody,
    Keys, Talks, Page, Tasks, Posts, Waiting, Devices, Changes,
    Streams, Switches

ASSUME ServicesAssumption ==
    /\ Speakers \cap Mics = {} /\ Nobody \notin Mics
    /\ Talks \subseteq Keys /\ Page \notin Keys /\ Posts \in Nat

VARIABLES
    part,   \* the service that runs
    pcDnd, last, lines, polled, monitored, applying, pushes, reports, online,
    phoneDnd, dndFromPc, casts, toggles, crossed,
    generation, mdns, ble, works, step, mine, retries, checked, overtaken,
    stage, listed, modules, dropping, removing, pipe, reads, writes, killed, stuck, torn,
    posted, withheld, posts, bus, serving, job, ids, viewTargets, replyTargets, openTargets,
    desktop, lastId, clicks, told, dismissed, overlapped, missed,
    lastReport, byDevice, saved, unstored, present, peers, nearby, report, level, owed, dirty,
    writer, got, lastJson, file, failed, changes, silent, swapped,
    up, enabled, setting, mixed, unsaved, stream, switch, wish,
    monitor, weLocked, absent, timed, poked

dnd   == <<pcDnd, last, lines, polled, monitored, applying, pushes, reports, online,
           phoneDnd, dndFromPc, casts, toggles, crossed>>
adv   == <<generation, mdns, ble, works, step, mine, retries, checked, overtaken>>
audio == <<stage, listed, modules, dropping, removing, pipe, reads, writes, killed,
           stuck, torn>>
note  == <<posted, withheld, posts, bus, serving, job, ids, viewTargets, replyTargets, openTargets,
           desktop, lastId, clicks, told, dismissed, overlapped, missed>>
stat  == <<lastReport, byDevice, saved, unstored, present, peers, nearby, report, level, owed, dirty,
           writer, got, lastJson, file, failed, changes, silent, swapped>>
prox  == <<up, enabled, setting, mixed, unsaved, stream, switch, wish,
           monitor, weLocked, absent, timed, poked>>
vars  == <<part, dnd, adv, audio, note, stat, prox>>

Dnd    == INSTANCE DoNotDisturb
Adv    == INSTANCE Advertiser
Audio  == INSTANCE AudioFeeds
Notify == INSTANCE Notifications
Stat   == INSTANCE StatusFile
Prox   == INSTANCE ProximityLock WITH saved <- setting, dirty <- poked

Init ==
    /\ part \in {"dnd", "advertiser", "audio", "notifications", "status", "lock"}
    /\ Dnd!Init /\ (part # "dnd" => pcDnd = "on" /\ phoneDnd = "on")
    /\ Adv!Init /\ (part # "advertiser" => works)
    /\ Audio!Init /\ Notify!Init /\ Stat!Init
    /\ Prox!Init /\ (part # "lock" => setting = "off" /\ \A r \in Switches : wish[r])

Next ==
    /\ UNCHANGED part
    /\ \/ /\ part = "dnd" /\ Dnd!Next
          /\ UNCHANGED <<adv, audio, note, stat, prox>>
       \/ /\ part = "advertiser" /\ Adv!Next
          /\ UNCHANGED <<dnd, audio, note, stat, prox>>
       \/ /\ part = "audio" /\ Audio!Next
          /\ UNCHANGED <<dnd, adv, note, stat, prox>>
       \/ /\ part = "notifications" /\ Notify!Next
          /\ UNCHANGED <<dnd, adv, audio, stat, prox>>
       \/ /\ part = "status" /\ Stat!Next
          /\ UNCHANGED <<dnd, adv, audio, note, prox>>
       \/ /\ part = "lock" /\ Prox!Next
          /\ UNCHANGED <<dnd, adv, audio, note, stat>>

\* The fairness of the three services with a liveness property, while they run.
Fairness ==
    /\ WF_dnd(part = "dnd" /\ Dnd!Pc)
    /\ WF_dnd(part = "dnd" /\ (Dnd!ApplyFromPhone \/ Dnd!ApplySet))
    /\ WF_dnd(part = "dnd" /\ Dnd!ApplyDndFromPc)
    /\ WF_dnd(part = "dnd" /\ Dnd!OnReceive)
    /\ WF_dnd(part = "dnd" /\ Dnd!Connect)
    /\ WF_stat(part = "status" /\ Stat!Writer)
    /\ WF_stat(part = "status" /\ Stat!Poke)
    /\ \A h \in Devices : WF_stat(part = "status" /\ (Stat!SetDevice(h) \/ Stat!Save(h)))
    /\ WF_prox(part = "lock" /\ Prox!MonitorStep)
    /\ WF_prox(part = "lock" /\ Prox!GraceOver)
    /\ \A s \in Streams : WF_prox(part = "lock" /\ Prox!Poke(s))
    /\ \A r \in Switches : WF_prox(part = "lock" /\ Prox!Serve(r))

Spec == Init /\ [][Next]_vars /\ Fairness

-----------------------------------------------------------------------------
(* Properties: those of the services, see there.                           *)

(* The do-not-disturb switches of PC and phone agree in the end.           *)
SwitchesAgree == part = "dnd" => Dnd!SwitchesAgree

(* A BLE advertisement that fails is tried again (netwatch.rs).            *)
BleIsNotGivenUp == Adv!BleIsNotGivenUp

(* Sinks and sources go with the session that loaded them.                 *)
ModulesFollowSessions == Audio!ModulesFollowSessions

(* The desktop shows what the phone shows.                                 *)
DesktopFollowsPhone == Notify!DesktopFollowsPhone

(* What the user closes on the desktop is gone from the phone.             *)
DismissReachesPhone == Notify!DismissReachesPhone

(* A Reply answers the conversation it stood on.                           *)
AnswersGoWhereAsked == Notify!AnswersGoWhereAsked

(* status.json and battery.json miss no change that pokes.                 *)
FilesAreTrue == Stat!FilesAreTrue

(* status.json catches up with every change.                               *)
FileBecomesTrue == part = "status" => Stat!FileBecomesTrue

(* The task of the proximity lock misses no poke (lock.rs).                *)
SleepsOnlyWhenRight == Prox!SleepsOnlyWhenRight

(* The proximity lock is on after a restart if it was before.              *)
RestartKeepsSetting == Prox!RestartKeepsSetting

(* Walk away with the phone and the PC locks.                              *)
LocksWhenLeft == part = "lock" => Prox!LocksWhenLeft

(* Come back and it unlocks.                                               *)
UnlocksWhenBack == part = "lock" => Prox!UnlocksWhenBack
=============================================================================
