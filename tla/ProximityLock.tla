---------------------------- MODULE ProximityLock ----------------------------
(***************************************************************************)
(* "Walk away with your phone and the PC locks; come back and it unlocks." *)
(* One task (lock.rs, spawn) watches the push subscriptions that are open  *)
(* and the setting.  Both are changed by other tasks, which change first   *)
(* and poke the event bus (events.rs) afterwards; the bus is a watch       *)
(* channel, so pokes that come close together are one wake-up.             *)
(***************************************************************************)
CONSTANTS
    Streams,    \* push streams of the phones: presence
    Switches    \* LOCKMODE requests

VARIABLES
    up,         \* the daemon is running
    enabled,    \* ProximityLock.enabled
    saved,      \* the file "proximity": "on", "off" or "empty" (truncated)
    stream,     \* progress of each push stream
    switch,     \* progress of each LOCKMODE request
    wish,       \* what each request sets
    mixed,      \* history: two requests were served at the same time
    unsaved,    \* history: the last write of the file has failed
    monitor,    \* where the task of lock.rs is
    weLocked,   \* we_locked
    absent,     \* absent_since: "none", "counting" or "over" (GRACE has passed)
    timed,      \* the task waits with a timeout
    dirty       \* the bus has a version the task has not seen

requests == <<enabled, saved, switch, wish, mixed, unsaved>>
task     == <<monitor, weLocked, absent, timed>>
vars     == <<up, requests, stream, task, dirty>>

Init ==
    /\ up = FALSE
    /\ enabled = FALSE /\ saved \in {"on", "off"}
    /\ stream = [s \in Streams |-> "out"]
    /\ switch = [r \in Switches |-> "new"]
    /\ wish \in [Switches -> BOOLEAN]
    /\ mixed = FALSE /\ unsaved = FALSE
    /\ monitor = "top" /\ weLocked = FALSE /\ absent = "none" /\ timed = FALSE
    /\ dirty = FALSE

\* The subscribers of the hub.
Present == {s \in Streams : stream[s] \in {"joined", "in"}}

\* Requests whose handler is at work.
Active == {r \in Switches : switch[r] \in {"stored", "truncated", "written"}}

-----------------------------------------------------------------------------
(* The push streams: ClipboardHub.subscribe and unsubscribe.               *)

Join(s) ==
    /\ up /\ stream[s] = "out"
    /\ stream' = [stream EXCEPT ![s] = "joined"]
    /\ UNCHANGED <<up, requests, task, dirty>>

\* The stream ends: closed by the phone, or timed out.
Leave(s) ==
    /\ stream[s] = "in"
    /\ stream' = [stream EXCEPT ![s] = "left"]
    /\ UNCHANGED <<up, requests, task, dirty>>

PokeIfJoined(s) ==    \* mutant: only a phone that comes is announced
    /\ stream[s] \in {"joined", "left"}
    /\ stream' = [stream EXCEPT ![s] = IF @ = "joined" THEN "in" ELSE "out"]
    /\ dirty' = (dirty \/ stream[s] = "joined")
    /\ UNCHANGED <<up, requests, task>>

\* poke, after the list of subscribers has changed.
Poke(s) ==
    /\ stream[s] \in {"joined", "left"}
    /\ stream' = [stream EXCEPT ![s] = IF @ = "joined" THEN "in" ELSE "out"]
    /\ dirty' = TRUE
    /\ UNCHANGED <<up, requests, task>>

-----------------------------------------------------------------------------
(* LOCKMODE: set_enabled stores the setting, saves it and pokes the bus.   *)

Store(r) ==
    /\ up /\ switch[r] = "new"
    /\ enabled' = wish[r]
    /\ switch' = [switch EXCEPT ![r] = "stored"]
    /\ mixed' = (mixed \/ Active # {})
    /\ UNCHANGED <<up, saved, wish, unsaved, stream, task, dirty>>

\* fs::write empties the file first.
TruncateSetting(r) ==
    /\ switch[r] = "stored"
    /\ saved' = "empty"
    /\ switch' = [switch EXCEPT ![r] = "truncated"]
    /\ UNCHANGED <<up, enabled, wish, mixed, unsaved, stream, task, dirty>>

SaveOn(r) ==    \* mutant: what is saved is not what was asked for
    /\ switch[r] = "truncated"
    /\ saved' = "on"
    /\ switch' = [switch EXCEPT ![r] = "written"]
    /\ unsaved' = FALSE
    /\ UNCHANGED <<up, enabled, wish, mixed, stream, task, dirty>>

SaveSetting(r) ==
    /\ switch[r] = "truncated"
    /\ saved' = IF wish[r] THEN "on" ELSE "off"
    /\ switch' = [switch EXCEPT ![r] = "written"]
    /\ unsaved' = FALSE
    /\ UNCHANGED <<up, enabled, wish, mixed, stream, task, dirty>>

\* What fs::write answers is ignored, whether it fails to open the file or to
\* write into it.
FailToSave(r) ==
    /\ switch[r] \in {"stored", "truncated"}
    /\ switch' = [switch EXCEPT ![r] = "written"]
    /\ unsaved' = TRUE
    /\ UNCHANGED <<up, enabled, saved, wish, mixed, stream, task, dirty>>

PokeSetting(r) ==
    /\ switch[r] = "written"
    /\ switch' = [switch EXCEPT ![r] = "done"]
    /\ dirty' = TRUE
    /\ UNCHANGED <<up, enabled, saved, wish, mixed, unsaved, stream, task>>

-----------------------------------------------------------------------------
(* The task: the body of the loop, then the wait for a change.             *)

\* The setting is read; off resets the countdown and nothing else.
ReadSetting ==
    /\ up /\ monitor = "top"
    /\ monitor' = IF enabled THEN "count" ELSE "arm"
    /\ absent' = IF enabled THEN absent ELSE "none"
    /\ UNCHANGED <<up, requests, stream, weLocked, timed, dirty>>

\* subscriber_count() > 0.
SeePhone ==
    /\ monitor = "count" /\ Present # {}
    /\ absent' = "none"
    /\ monitor' = IF weLocked THEN "unlocking" ELSE "arm"
    /\ UNCHANGED <<up, requests, stream, weLocked, timed, dirty>>

SeeNobody ==
    /\ monitor = "count" /\ Present = {}
    /\ absent' = IF absent = "none" THEN "counting" ELSE absent
    /\ monitor' = IF ~weLocked /\ absent = "over" THEN "locking" ELSE "arm"
    /\ UNCHANGED <<up, requests, stream, weLocked, timed, dirty>>

\* lock_session and unlock_session; what they answer is ignored, and nothing
\* reads whether the screen is locked.
LockAndSettle ==    \* mutant: the bus is marked as seen after the lock
    /\ monitor = "locking"
    /\ weLocked' = TRUE
    /\ dirty' = FALSE
    /\ monitor' = "arm"
    /\ UNCHANGED <<up, requests, stream, absent, timed>>

Lock ==
    /\ monitor = "locking"
    /\ weLocked' = TRUE
    /\ monitor' = "arm"
    /\ UNCHANGED <<up, requests, stream, absent, timed, dirty>>

Unlock ==
    /\ monitor = "unlocking"
    /\ weLocked' = FALSE
    /\ monitor' = "arm"
    /\ UNCHANGED <<up, requests, stream, absent, timed, dirty>>

\* The setting is read again to choose between the two waits.
ArmOnce ==    \* mutant: no timeout once the countdown has been seen to run
    /\ monitor = "arm"
    /\ timed' = (absent = "none" /\ enabled /\ ~weLocked)
    /\ monitor' = "waiting"
    /\ UNCHANGED <<up, requests, stream, weLocked, absent, dirty>>

Arm ==
    /\ monitor = "arm"
    /\ timed' = (absent # "none" /\ enabled /\ ~weLocked)
    /\ monitor' = "waiting"
    /\ UNCHANGED <<up, requests, stream, weLocked, absent, dirty>>

\* rx.changed() returns at once when a version was missed.
Wake ==
    /\ monitor = "waiting"
    /\ dirty \/ (timed /\ absent = "over")
    /\ dirty' = FALSE
    /\ monitor' = "top"
    /\ UNCHANGED <<up, requests, stream, weLocked, absent, timed>>

GraceOver ==
    /\ absent = "counting"
    /\ absent' = "over"
    /\ UNCHANGED <<up, requests, stream, monitor, weLocked, timed, dirty>>

-----------------------------------------------------------------------------
(* The life of the daemon.                                                 *)

\* ProximityLock::new; earlier components may have poked the bus already.
Start ==
    /\ ~up
    /\ up' = TRUE
    /\ enabled' = (saved = "on")
    /\ dirty' \in BOOLEAN
    /\ unsaved' = FALSE
    /\ UNCHANGED <<saved, switch, wish, mixed, stream, task>>

Crash ==
    /\ up
    /\ up' = FALSE
    /\ enabled' = FALSE
    /\ stream' = [s \in Streams |-> "out"]
    /\ switch' = [r \in Switches |-> IF switch[r] = "new" THEN "new" ELSE "done"]
    /\ mixed' = FALSE
    /\ monitor' = "top" /\ weLocked' = FALSE /\ absent' = "none" /\ timed' = FALSE
    /\ dirty' = FALSE
    /\ UNCHANGED <<saved, wish, unsaved>>

-----------------------------------------------------------------------------
StreamStep == \E s \in Streams : Join(s) \/ Leave(s) \/ Poke(s)

\* A request that is being served.
Serve(r) == TruncateSetting(r) \/ SaveSetting(r) \/ FailToSave(r) \/ PokeSetting(r)

SwitchStep == \E r \in Switches : Store(r) \/ Serve(r)

MonitorStep == ReadSetting \/ SeePhone \/ SeeNobody \/ Lock \/ Unlock \/ Arm \/ Wake

Next == StreamStep \/ SwitchStep \/ MonitorStep \/ GraceOver \/ Start \/ Crash

\* The runtime runs every task that can run, and time passes.  The phones and
\* the service manager owe nothing.
Fairness ==
    /\ WF_vars(MonitorStep)
    /\ WF_vars(GraceOver)
    /\ \A s \in Streams : WF_vars(Poke(s))
    /\ \A r \in Switches : WF_vars(Serve(r))

Spec == Init /\ [][Next]_vars /\ Fairness

-----------------------------------------------------------------------------
(* Properties.                                                             *)

TypeOK ==
    /\ up \in BOOLEAN /\ enabled \in BOOLEAN /\ saved \in {"on", "off", "empty"}
    /\ stream \in [Streams -> {"out", "joined", "in", "left"}]
    /\ switch \in [Switches -> {"new", "stored", "truncated", "written", "done"}]
    /\ wish \in [Switches -> BOOLEAN] /\ mixed \in BOOLEAN /\ unsaved \in BOOLEAN
    /\ monitor \in {"top", "count", "locking", "unlocking", "arm", "waiting"}
    /\ weLocked \in BOOLEAN /\ absent \in {"none", "counting", "over"}
    /\ timed \in BOOLEAN /\ dirty \in BOOLEAN
    /\ monitor = "locking" => ~weLocked /\ absent = "over"
    /\ monitor = "unlocking" => weLocked /\ absent = "none"
    /\ monitor = "waiting" /\ timed => ~weLocked /\ absent # "none"

\* Somebody has changed what the task decides on and it will hear of it.
News == dirty \/ (\E s \in Streams : stream[s] \in {"joined", "left"}) \/ Active # {}

\* No wake-up is lost: whenever the task sleeps and nothing is on its way to
\* wake it, its last decision is right.  With a phone there it holds no lock;
\* with nobody there it has locked or its countdown runs; off, no timer runs.
SleepsOnlyWhenRight ==
    up /\ monitor = "waiting" /\ ~News =>
        /\ enabled /\ Present # {} => ~weLocked /\ absent = "none"
        /\ enabled /\ Present = {} => weLocked \/ (timed /\ absent # "none")
        /\ ~enabled => ~timed /\ absent = "none"

\* The file says what the daemon does, so that a restart changes nothing:
\* unless two requests were served at once or the last write has failed,
\* whenever none is being served.
RestartKeepsSetting ==
    up /\ ~mixed /\ ~unsaved /\ Active = {} => (enabled <=> saved = "on")

\* Walk away and the PC locks: nobody there leads to the lock, or to somebody
\* coming, or to the setting being turned off.
LocksWhenLeft ==
    up /\ enabled /\ Present = {} ~> weLocked \/ ~enabled \/ Present # {} \/ ~up

\* Come back and it unlocks, also when the phone comes back while the lock
\* command of the countdown is still being executed.
UnlocksWhenBack ==
    up /\ enabled /\ weLocked /\ Present # {} ~> ~weLocked \/ ~enabled \/ Present = {} \/ ~up

=============================================================================
