----------------------------- MODULE StatusFile -----------------------------
(***************************************************************************)
(* status.json, from which the tray and the settings window show the       *)
(* devices (status.rs), and the battery levels in it (battery.rs).  One    *)
(* task composes the status from what it reads piece by piece and writes   *)
(* it if it has changed; events.rs wakes it, and so do thirty seconds.     *)
(***************************************************************************)
EXTENDS Naturals

CONSTANTS
    Devices,
    Changes     \* bound: of reports, presence, peers and the proximity setting

VARIABLES
    lastReport, byDevice, saved,    \* BatteryStore; battery.json
    unstored,               \* history: the last write of battery.json failed
    present, peers, nearby, \* who has a push channel; peers.json; ProximityLock.enabled
    report, level,          \* the update of each phone: "none", "device", "save", "poke"
    owed,                   \* pokes that are still to come after a change
    dirty,                  \* the watch channel has a value the writer has not seen
    writer, got, lastJson,
    file, failed,           \* status.json (lastJson, file: {} or one status); the last write failed
    changes, silent, swapped    \* silent: peers.json changed since it was read

store  == <<lastReport, byDevice, saved, unstored>>
world  == <<store, present, peers, nearby, report, level, owed, changes, swapped>>
task   == <<writer, got, lastJson, file, failed>>
status == <<world, dirty, task, silent>>

Truth == [battery |-> lastReport, present |-> present,
          devices |-> [h \in peers |-> byDevice[h]], proximity |-> nearby]

Init ==
    /\ lastReport = 0 /\ byDevice = [h \in Devices |-> 0] /\ saved = 0
    /\ unstored = FALSE /\ present = {} /\ peers = Devices /\ nearby = FALSE
    /\ report = [h \in Devices |-> "none"] /\ level = [h \in Devices |-> 0]
    /\ owed = 0 /\ dirty = FALSE /\ changes = 0 /\ silent = FALSE /\ swapped = FALSE
    /\ writer = "battery" /\ got = Truth /\ lastJson = {}
    /\ file = {} /\ failed = FALSE

Changed == changes < Changes /\ changes' = changes + 1

-----------------------------------------------------------------------------
(* BatteryStore.update, a phone at a time; two phones are not ordered.     *)

SetLast(h) ==
    /\ report[h] = "none" /\ Changed
    /\ lastReport' = changes' /\ level' = [level EXCEPT ![h] = changes']
    /\ report' = [report EXCEPT ![h] = "device"]
    /\ swapped' = (swapped \/ \E g \in Devices : report[g] \in {"device", "save"})
    /\ UNCHANGED <<byDevice, saved, unstored, present, peers, nearby, owed, dirty, task, silent>>

SetDevice(h) ==
    /\ report[h] = "device"
    /\ byDevice' = [byDevice EXCEPT ![h] = level[h]]
    /\ report' = [report EXCEPT ![h] = "save"]
    /\ UNCHANGED <<lastReport, saved, unstored, present, peers, nearby, level, owed, dirty, task,
                   changes, silent, swapped>>

\* What fs::write answers is ignored.
Save(h) ==
    /\ report[h] = "save"
    /\ \/ saved' = level[h] /\ unstored' = FALSE
       \/ UNCHANGED saved /\ unstored' = TRUE
    /\ report' = [report EXCEPT ![h] = "none"] /\ owed' = owed + 1
    /\ UNCHANGED <<lastReport, byDevice, present, peers, nearby, level, dirty, task, changes,
                   silent, swapped>>

(* Others that change the status and poke: subscribe, unsubscribe, a       *)
(* pairing, a removal, set_enabled; a tool outside the daemon does not.    *)

Presence(h) ==
    /\ Changed
    /\ present' = IF h \in present THEN present \ {h} ELSE present \cup {h}
    /\ owed' = owed + 1
    /\ UNCHANGED <<store, peers, nearby, report, level, dirty, task, silent, swapped>>

Peers(h) ==
    /\ Changed
    /\ peers' = IF h \in peers THEN peers \ {h} ELSE peers \cup {h}
    /\ \/ owed' = owed + 1 /\ UNCHANGED silent
       \/ silent' = TRUE /\ UNCHANGED owed
    /\ UNCHANGED <<store, present, nearby, report, level, dirty, task, swapped>>

Setting ==
    /\ Changed
    /\ nearby' = ~nearby /\ owed' = owed + 1
    /\ UNCHANGED <<store, present, peers, report, level, dirty, task, silent, swapped>>

Poke ==
    /\ owed > 0 /\ owed' = owed - 1 /\ dirty' = TRUE
    /\ UNCHANGED <<store, present, peers, nearby, report, level, changes, task, silent, swapped>>

-----------------------------------------------------------------------------
(* The writer.                                                             *)

Compose(from, to, status_) ==
    /\ writer = from /\ writer' = to /\ got' = status_
    /\ UNCHANGED <<world, dirty, lastJson, file, failed>>

ReadBattery == Compose("battery", "present", [got EXCEPT !.battery = lastReport]) /\ UNCHANGED silent
ReadPresent == Compose("present", "peers", [got EXCEPT !.present = present]) /\ UNCHANGED silent
ReadPeers   == Compose("peers", "devices", [got EXCEPT !.devices = [h \in peers |-> 0]]) /\ silent' = FALSE
ReadDevices ==
    Compose("devices", "proximity", [got EXCEPT !.devices = [h \in DOMAIN @ |-> byDevice[h]]])
        /\ UNCHANGED silent
ReadProximity == Compose("proximity", "write", [got EXCEPT !.proximity = nearby]) /\ UNCHANGED silent

WriteAndSettle ==    \* mutant: what came while it was composed counts as seen
    /\ writer = "write" /\ writer' = "wait" /\ dirty' = FALSE
    /\ lastJson' = {got} /\ file' = {got} /\ failed' = FALSE
    /\ UNCHANGED <<world, got, silent>>

\* last_json is set whether the write succeeds or not.
Write ==
    /\ writer = "write" /\ writer' = "wait"
    /\ lastJson' = {got}
    /\ IF lastJson = {got} THEN UNCHANGED <<file, failed>>
       ELSE \/ file' = {got} /\ failed' = FALSE
            \/ file' \in {file, {}} /\ failed' = TRUE
    /\ UNCHANGED <<world, dirty, got, silent>>

WakeByPoke ==    \* mutant: the wait has no time limit
    /\ writer = "wait" /\ writer' = "battery"
    /\ dirty /\ dirty' = FALSE
    /\ UNCHANGED <<world, got, lastJson, file, failed, silent>>

\* rx.changed(), for thirty seconds at most.
Wake ==
    /\ writer = "wait" /\ writer' = "battery"
    /\ dirty' = FALSE
    /\ UNCHANGED <<world, got, lastJson, file, failed, silent>>

Writer == ReadBattery \/ ReadPresent \/ ReadPeers \/ ReadDevices \/ ReadProximity \/ Write \/ Wake
Update(h) == SetLast(h) \/ SetDevice(h) \/ Save(h)

Next ==
    \/ \E h \in Devices : Update(h) \/ Presence(h) \/ Peers(h)
    \/ Setting \/ Poke \/ Writer

\* The writer, the updates and the pokes are tasks that nothing blocks.
Fairness ==
    /\ WF_status(Writer) /\ WF_status(Poke)
    /\ \A h \in Devices : WF_status(SetDevice(h) \/ Save(h))

Spec == Init /\ [][Next]_status /\ Fairness

-----------------------------------------------------------------------------
(* Properties.                                                             *)

(* The writer never sleeps over a change it was woken for: when it waits   *)
(* with nothing to see, the file is true, and battery.json has the latest  *)
(* report.  Excluded: updates under way, peers.json changed by a tool, a   *)
(* write of either that failed, and reports of two phones that met.        *)
FilesAreTrue ==
    (\A h \in Devices : report[h] = "none") =>
        /\ writer = "wait" /\ ~dirty /\ owed = 0 /\ ~silent /\ ~failed => file = {Truth}
        /\ ~swapped /\ ~unstored => saved = lastReport

(* Whoever changes it, the file is true in the end, unless the last write  *)
(* has failed.                                                             *)
FileBecomesTrue == <>[](failed \/ file = {Truth})
=============================================================================
