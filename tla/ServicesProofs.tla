--------------------------- MODULE ServicesProofs ---------------------------
(***************************************************************************)
(* Theorems about Services: the invariants of do-not-disturb, advertising, *)
(* the audio feeds, the notifications, the status files and the proximity  *)
(* lock, for all values of the constants. A step of the daemon is a step   *)
(* of the service that runs and leaves the others as they are (OneRuns),   *)
(* so that each section shows what the steps of one service preserve.      *)
(***************************************************************************)
EXTENDS Services, Integers, Sequences, TLAPS

LEMMA OneRuns ==
    [Next]_vars =>
        /\ [Dnd!Next]_dnd /\ [Adv!Next]_adv /\ [Audio!Next]_audio
        /\ [Notify!Next]_note /\ [Stat!Next]_stat /\ [Prox!Next]_prox
BY DEF Next, vars, dnd, adv, audio, note, stat, prox

-----------------------------------------------------------------------------
(* Advertising (netwatch.rs).  BleIsNotGivenUp is inductive with the       *)
(* types: a step either leaves the task of the latest generation alone, or *)
(* hands it from the republish to the retry, or publishes, or is overtaken.*)

(* What is typed stays typed, whatever step is taken (netwatch.rs).        *)
LEMMA BleTypeStep == Adv!TypeOK /\ [Adv!Next]_adv => Adv!TypeOK'
<1> SUFFICES ASSUME Adv!TypeOK, [Adv!Next]_adv PROVE Adv!TypeOK'
    OBVIOUS
<1> USE DEF Adv!TypeOK
<1>1. ASSUME NEW w \in Watchers, Adv!Republish(w) PROVE Adv!TypeOK'
    BY <1>1 DEF Adv!Republish
<1>2. ASSUME NEW w \in Watchers, Adv!PublishMdns(w) PROVE Adv!TypeOK'
    BY <1>2 DEF Adv!PublishMdns
<1>3. ASSUME NEW w \in Watchers, Adv!PublishBle(w) PROVE Adv!TypeOK'
    BY <1>3 DEF Adv!PublishBle, Adv!TryBle
<1>4. ASSUME NEW g \in retries, Adv!RetryCheck(g) PROVE Adv!TypeOK'
  <2>1. CASE g = generation
    <3>1. checked' = checked \cup {g} /\ retries' = retries
        BY <1>4, <2>1 DEF Adv!RetryCheck
    <3>2. checked' \subseteq retries' /\ retries' \subseteq 0 .. generation
        BY <3>1
    <3> QED
        BY <1>4, <2>1, <3>2 DEF Adv!RetryCheck
  <2>2. CASE g # generation
    <3>1. g \notin checked /\ checked' = checked /\ retries' = retries \ {g}
        BY <1>4, <2>2 DEF Adv!RetryCheck
    <3>2. checked' \subseteq retries' /\ retries' \subseteq 0 .. generation
        BY <3>1
    <3> QED
        BY <1>4, <2>2, <3>2 DEF Adv!RetryCheck
  <2> QED
      BY <2>1, <2>2
<1>5. ASSUME NEW g \in retries, Adv!RetryTry(g) PROVE Adv!TypeOK'
    BY <1>5 DEF Adv!RetryTry, Adv!TryBle
<1>6. CASE Adv!Adapter
    BY <1>6 DEF Adv!Adapter
<1>7. CASE UNCHANGED adv
    BY <1>7 DEF adv
<1> QED
    BY <1>1, <1>2, <1>3, <1>4, <1>5, <1>6, <1>7 DEF Adv!Next, Adv!Publish, Adv!Retry

(* The daemon starts typed, with nothing to advertise yet (netwatch.rs).   *)
LEMMA BleInit == Adv!Init => Adv!TypeOK /\ Adv!BleIsNotGivenUp
<1> SUFFICES ASSUME Adv!Init PROVE Adv!TypeOK /\ Adv!BleIsNotGivenUp
    OBVIOUS
<1>1. step \in [Watchers -> {"idle", "mdns", "ble"}]
    BY DEF Adv!Init
<1>2. generation = 0 /\ mine \in [Watchers -> 0 .. generation]
    BY DEF Adv!Init
<1>3. checked \subseteq retries /\ retries \subseteq 0 .. generation
    BY DEF Adv!Init
<1>4. mdns \in BOOLEAN /\ ble \in BOOLEAN /\ works \in BOOLEAN /\ overtaken \in BOOLEAN
    BY Zenon DEF Adv!Init
<1> QED
    BY <1>1, <1>2, <1>3, <1>4 DEF Adv!TypeOK, Adv!BleIsNotGivenUp

(* No step gives up BLE: the induction step of Adv!BleIsNotGivenUp.            *)
LEMMA RetryStep == Adv!TypeOK /\ Adv!BleIsNotGivenUp /\ [Adv!Next]_adv => Adv!BleIsNotGivenUp'
<1> SUFFICES ASSUME Adv!TypeOK, Adv!BleIsNotGivenUp, [Adv!Next]_adv,
                    ~overtaken', generation' > 0
             PROVE  \/ ble' \/ generation' \in retries'
                    \/ \E w \in Watchers : step'[w] # "idle" /\ mine'[w] = generation'
    BY DEF Adv!BleIsNotGivenUp
<1> USE DEF Adv!TypeOK, Adv!BleIsNotGivenUp
<1> DEFINE Kept == \/ ble' \/ generation' \in retries'
                   \/ \E v \in Watchers : step'[v] # "idle" /\ mine'[v] = generation'
<1>1. ASSUME NEW w \in Watchers, Adv!Republish(w) PROVE Kept
  <2>1. step'[w] # "idle" /\ mine'[w] = generation'
      BY <1>1 DEF Adv!Republish
  <2> QED
      BY <2>1
<1>2. ASSUME NEW w \in Watchers, Adv!PublishMdns(w) PROVE Kept
  <2>1. \A v \in Watchers : step[v] # "idle" => step'[v] # "idle"
      BY <1>2 DEF Adv!PublishMdns
  <2> QED
      BY <1>2, <2>1 DEF Adv!PublishMdns
<1>3. ASSUME NEW w \in Watchers, Adv!PublishBle(w) PROVE Kept
  <2>1. mine[w] = generation /\ generation' = generation
      BY <1>3 DEF Adv!PublishBle, Adv!TryBle
  <2>2. CASE works
      BY <1>3, <2>2 DEF Adv!PublishBle, Adv!TryBle
  <2>3. CASE ~works
      BY <1>3, <2>1, <2>3 DEF Adv!PublishBle
  <2> QED
      BY <2>2, <2>3
<1>4. ASSUME NEW g \in retries, Adv!RetryCheck(g) PROVE Kept
    BY <1>4 DEF Adv!RetryCheck
<1>5. ASSUME NEW g \in retries, Adv!RetryTry(g) PROVE Kept
    BY <1>5 DEF Adv!RetryTry, Adv!TryBle
<1>6. CASE Adv!Adapter
    BY <1>6 DEF Adv!Adapter
<1>7. CASE UNCHANGED adv
    BY <1>7 DEF adv
<1> QED
    BY <1>1, <1>2, <1>3, <1>4, <1>5, <1>6, <1>7 DEF Adv!Next, Adv!Publish, Adv!Retry

(* The types (netwatch.rs).                                                *)
THEOREM TypesHold == Spec => []Adv!TypeOK
<1>1. Init => Adv!TypeOK
    BY BleInit DEF Init
<1>2. Adv!TypeOK /\ [Next]_vars => Adv!TypeOK'
    BY OneRuns, BleTypeStep
<1> QED
    BY <1>1, <1>2, PTL DEF Spec

(* BLE is not given up while it fails, however many watchers republish     *)
(* (netwatch.rs, try_ble and spawn_ble_retry).                             *)
THEOREM BleGoesOn == Spec => []BleIsNotGivenUp
<1> DEFINE Inv == Adv!TypeOK /\ Adv!BleIsNotGivenUp
<1>1. Init => Inv
    BY BleInit DEF Init
<1>2. Inv /\ [Next]_vars => Inv'
    BY OneRuns, BleTypeStep, RetryStep
<1>3. Inv => BleIsNotGivenUp
    BY DEF BleIsNotGivenUp
<1> QED
    BY <1>1, <1>2, <1>3, PTL DEF Spec

-----------------------------------------------------------------------------
(* The audio feeds (speaker.rs, mic.rs).                                   *)

AudioTypes ==
    /\ stage \in [Audio!Sessions -> {"off", "sweeping", "loaded", "on", "ended",
                                     "cleared", "made"}]
    /\ listed \in [Speakers -> SUBSET Speakers]
    /\ modules \subseteq Audio!Sessions /\ dropping \subseteq Audio!Sessions
    /\ removing \subseteq Mics /\ killed \subseteq Audio!Sessions
    /\ stuck \subseteq Audio!Sessions
    /\ pipe \in Mics \cup {Nobody} /\ torn \in BOOLEAN
    /\ reads \in [Mics -> Mics \cup {Nobody}] /\ writes \in [Mics -> Mics \cup {Nobody}]

(* A session is over for good: its thread is at work or has been, and      *)
(* nothing of it is loaded before it has loaded it.                        *)
OverMeansOver ==
    /\ \A s \in dropping \cup removing \cup killed : stage[s] = "ended"
    /\ \A s \in modules : stage[s] \in {"loaded", "on", "ended"}
    /\ \A s \in Mics : stage[s] # "sweeping"

(* Nobody stays loaded but those at work, those the daemon's death cut     *)
(* off, those pactl failed to unload and microphones whose pipe was torn.  *)
LoadedAreBusy ==
    \A s \in modules : Audio!Busy(s) \/ s \in killed \cup stuck \/ (torn /\ s \in Mics)

(* What a killed daemon left is listed by the sweep and gone after it,     *)
(* unless pactl failed.                                                    *)
SweepIsThorough ==
    \A s \in Speakers :
        /\ stage[s] = "sweeping" => modules \cap killed \cap Speakers \subseteq listed[s] \cup stuck
        /\ stage[s] \in {"loaded", "on"} => modules \cap killed \cap Speakers \subseteq stuck

(* Until somebody tears it, a microphone has the pipe from mkfifo on, and  *)
(* its module reads what the daemon writes.                                *)
PipeIsKept ==
    ~torn => \A s \in Mics :
        /\ stage[s] \in {"made", "loaded", "on"} => pipe = s
        /\ stage[s] \in {"loaded", "on"} => s \in modules /\ reads[s] = s
        /\ stage[s] = "on" => writes[s] = s

AudioInv == AudioTypes /\ OverMeansOver /\ LoadedAreBusy /\ SweepIsThorough /\ PipeIsKept

(* No step of the audio feeds breaks this.                                 *)
LEMMA AudioStep == AudioInv /\ [Audio!Next]_audio => AudioInv'
<1> SUFFICES ASSUME AudioInv, [Audio!Next]_audio PROVE AudioInv'
    OBVIOUS
<1> USE ServicesAssumption
        DEF AudioInv, AudioTypes, OverMeansOver, LoadedAreBusy, SweepIsThorough, PipeIsKept,
            Audio!Sessions, Audio!Busy, Audio!Step, Audio!micOnly, Audio!UnloadModule
<1>1. ASSUME NEW s \in Speakers, Audio!Sweep(s) PROVE AudioInv'
    BY <1>1 DEF Audio!Sweep
<1>2. ASSUME NEW s \in Speakers, NEW t \in Speakers, Audio!SweepOne(s, t) PROVE AudioInv'
    BY <1>2 DEF Audio!SweepOne
<1>3. ASSUME NEW s \in Speakers, Audio!LoadSink(s) PROVE AudioInv'
    BY <1>3 DEF Audio!LoadSink
<1>4. ASSUME NEW s \in Speakers, Audio!Record(s) PROVE AudioInv'
    BY <1>4 DEF Audio!Record
<1>5. ASSUME NEW s \in Mics, Audio!ClearPipe(s) PROVE AudioInv'
    BY <1>5 DEF Audio!ClearPipe, Audio!RemovePipe
<1>6. ASSUME NEW s \in Mics, Audio!MakePipe(s) PROVE AudioInv'
    BY <1>6 DEF Audio!MakePipe
<1>7. ASSUME NEW s \in Mics, Audio!LoadSource(s) PROVE AudioInv'
    BY <1>7 DEF Audio!LoadSource, Audio!RemovePipe
<1>8. ASSUME NEW s \in Mics, Audio!OpenPipe(s) PROVE AudioInv'
    BY <1>8 DEF Audio!OpenPipe
<1>9. ASSUME NEW s \in Mics, Audio!RemoveOwnPipe(s) PROVE AudioInv'
    BY <1>9, ZenonT(30) DEF Audio!RemoveOwnPipe, Audio!RemovePipe
<1>10. ASSUME NEW s \in Audio!Sessions, Audio!Drop(s) PROVE AudioInv'
    BY <1>10 DEF Audio!Drop
<1>11. ASSUME NEW s \in Audio!Sessions, Audio!Unload(s) PROVE AudioInv'
    BY <1>11 DEF Audio!Unload
<1>12. CASE Audio!Kill
    BY <1>12 DEF Audio!Kill
<1>13. CASE UNCHANGED audio
    BY <1>13 DEF audio
<1> QED
    BY <1>1, <1>2, <1>3, <1>4, <1>5, <1>6, <1>7, <1>8, <1>9, <1>10, <1>11, <1>12, <1>13
       DEF Audio!Next, Audio!Speaker, Audio!Mic

(* What a session has loaded goes with it; a microphone that is on has its *)
(* module and its pipe (speaker.rs and mic.rs, start and Drop).            *)
THEOREM ModulesGo == Spec => []ModulesFollowSessions
<1>1. Init => AudioInv
    BY ServicesAssumption
       DEF Init, Audio!Init, AudioInv, AudioTypes, OverMeansOver, LoadedAreBusy,
           SweepIsThorough, PipeIsKept, Audio!Sessions, Audio!Busy
<1>2. AudioInv /\ [Next]_vars => AudioInv'
    BY OneRuns, AudioStep
<1>3. AudioInv => ModulesFollowSessions
    BY DEF ModulesFollowSessions, Audio!ModulesFollowSessions, AudioInv, LoadedAreBusy,
           SweepIsThorough, PipeIsKept
<1> QED
    BY <1>1, <1>2, <1>3, PTL DEF Spec

-----------------------------------------------------------------------------
(* The proximity lock (lock.rs).                                           *)

\* The variables have their types, and the task issues a command only in the
\* state it decided in: it locks when GRACE is over, unlocks what it locked.
LEMMA LockTypeStep == Prox!TypeOK /\ [Prox!Next]_prox => Prox!TypeOK'
<1> SUFFICES ASSUME Prox!TypeOK, [Prox!Next]_prox
             PROVE  Prox!TypeOK'
  OBVIOUS
<1> USE DEF Prox!TypeOK, Prox!requests, Prox!task
<1>1. CASE Prox!StreamStep
  <2> PICK s \in Streams : Prox!Join(s) \/ Prox!Leave(s) \/ Prox!Poke(s)
    BY <1>1 DEF Prox!StreamStep
  <2>1. CASE Prox!Join(s)   BY <2>1 DEF Prox!Join
  <2>2. CASE Prox!Leave(s)  BY <2>2 DEF Prox!Leave
  <2>3. CASE Prox!Poke(s)   BY <2>3 DEF Prox!Poke
  <2> QED BY <2>1, <2>2, <2>3
<1>2. CASE Prox!SwitchStep
  <2> PICK r \in Switches :
             \/ Prox!Store(r) \/ Prox!TruncateSetting(r) \/ Prox!SaveSetting(r)
             \/ Prox!FailToSave(r) \/ Prox!PokeSetting(r)
    BY <1>2 DEF Prox!SwitchStep, Prox!Serve
  <2>1. CASE Prox!Store(r)            BY <2>1 DEF Prox!Store
  <2>2. CASE Prox!TruncateSetting(r)  BY <2>2 DEF Prox!TruncateSetting
  <2>3. CASE Prox!SaveSetting(r)
    <3>1. setting' \in {"on", "off"}  BY <2>3 DEF Prox!SaveSetting
    <3>2. /\ switch' \in [Switches -> {"new", "stored", "truncated", "written", "done"}]
          /\ UNCHANGED <<up, enabled, wish, mixed, stream, Prox!task, poked>> /\ unsaved' = FALSE
      BY <2>3 DEF Prox!SaveSetting
    <3> QED BY <3>1, <3>2, ZenonT(30)
  <2>4. CASE Prox!FailToSave(r)       BY <2>4 DEF Prox!FailToSave
  <2>5. CASE Prox!PokeSetting(r)      BY <2>5 DEF Prox!PokeSetting
  <2> QED BY <2>1, <2>2, <2>3, <2>4, <2>5
<1>3. CASE Prox!MonitorStep
  <2>1. CASE Prox!ReadSetting  BY <2>1 DEF Prox!ReadSetting
  <2>2. CASE Prox!SeePhone     BY <2>2 DEF Prox!SeePhone
  <2>3. CASE Prox!SeeNobody    BY <2>3 DEF Prox!SeeNobody
  <2>4. CASE Prox!Lock         BY <2>4 DEF Prox!Lock
  <2>5. CASE Prox!Unlock       BY <2>5 DEF Prox!Unlock
  <2>6. CASE Prox!Arm          BY <2>6 DEF Prox!Arm
  <2>7. CASE Prox!Wake         BY <2>7 DEF Prox!Wake
  <2> QED BY <1>3, <2>1, <2>2, <2>3, <2>4, <2>5, <2>6, <2>7 DEF Prox!MonitorStep
<1>4. CASE Prox!GraceOver   BY <1>4 DEF Prox!GraceOver
<1>6. CASE Prox!Start       BY <1>6 DEF Prox!Start
<1>7. CASE Prox!Crash       BY <1>7 DEF Prox!Crash
<1>8. CASE UNCHANGED prox  BY <1>8 DEF prox
<1> QED BY <1>1, <1>2, <1>3, <1>4, <1>6, <1>7, <1>8 DEF Prox!Next

(* The types of the lock, and of its decisions (lock.rs).                  *)
THEOREM LockTypesHold == Spec => []Prox!TypeOK
<1>1. Init => Prox!TypeOK
  BY DEF Init, Prox!Init, Prox!TypeOK
<1>2. Prox!TypeOK /\ [Next]_vars => Prox!TypeOK'
  BY OneRuns, LockTypeStep
<1> QED BY <1>1, <1>2, PTL DEF Spec

-----------------------------------------------------------------------------
(* No wake-up is lost.                                                     *)

\* The task's variables fit the setting and the subscribers.
Decided ==
    /\ enabled /\ Prox!Present # {} => ~weLocked /\ absent = "none"
    /\ enabled /\ Prox!Present = {} => weLocked \/ absent # "none"
    /\ ~enabled => absent = "none"

\* What the task has read is still true, unless it will hear otherwise.
DecisionInv ==
    /\ ~up => monitor = "top"
    /\ ~Prox!News =>
         /\ monitor = "count" => enabled
         /\ monitor = "locking" => enabled /\ Prox!Present = {}
         /\ monitor = "unlocking" => enabled /\ Prox!Present # {}
         /\ monitor \in {"arm", "waiting"} => Decided
         /\ monitor = "waiting" => (timed <=> absent # "none" /\ enabled /\ ~weLocked)

\* A stream or a request that changes what the task reads makes news, and only
\* a poke makes that news the task's own.
LEMMA OthersMakeNews ==
    ASSUME Prox!TypeOK, DecisionInv, Prox!StreamStep \/ Prox!SwitchStep
    PROVE  DecisionInv'
<1> USE DEF Prox!TypeOK, DecisionInv, Prox!requests, Prox!task
<1>1. UNCHANGED <<up, Prox!task>>
  BY DEF Prox!StreamStep, Prox!SwitchStep, Prox!Serve, Prox!Join, Prox!Leave, Prox!Poke,
         Prox!Store, Prox!TruncateSetting, Prox!SaveSetting, Prox!FailToSave, Prox!PokeSetting
<1>2. Prox!News'
  <2>1. CASE Prox!StreamStep
    BY <2>1 DEF Prox!StreamStep, Prox!Join, Prox!Leave, Prox!Poke, Prox!News
  <2>2. CASE Prox!SwitchStep
    <3> PICK r \in Switches :
               \/ Prox!Store(r) \/ Prox!TruncateSetting(r) \/ Prox!SaveSetting(r)
               \/ Prox!FailToSave(r) \/ Prox!PokeSetting(r)
      BY <2>2 DEF Prox!SwitchStep, Prox!Serve
    <3>1. poked' \/ switch'[r] \in {"stored", "truncated", "written"}
      BY DEF Prox!Store, Prox!TruncateSetting, Prox!SaveSetting, Prox!FailToSave, Prox!PokeSetting
    <3> QED BY <3>1 DEF Prox!News, Prox!Active
  <2> QED BY <2>1, <2>2
<1> QED BY <1>1, <1>2

LEMMA DecisionStep == Prox!TypeOK /\ DecisionInv /\ [Prox!Next]_prox => DecisionInv'
<1> SUFFICES ASSUME Prox!TypeOK, DecisionInv, [Prox!Next]_prox
             PROVE  DecisionInv'
  OBVIOUS
<1> USE DEF Prox!TypeOK, DecisionInv, Decided, Prox!requests, Prox!task
<1>1. CASE Prox!StreamStep \/ Prox!SwitchStep
  BY <1>1, OthersMakeNews
<1>2. CASE Prox!MonitorStep \/ Prox!GraceOver
  <2>1. UNCHANGED <<up, Prox!requests, stream>>
    BY <1>2 DEF Prox!MonitorStep, Prox!GraceOver, Prox!ReadSetting, Prox!SeePhone,
                Prox!SeeNobody, Prox!Lock, Prox!Unlock, Prox!Arm, Prox!Wake
  <2>2. Prox!Present' = Prox!Present /\ Prox!Active' = Prox!Active
    BY <2>1 DEF Prox!Present, Prox!Active
  <2>3. poked' = poked => Prox!News' = Prox!News
    BY <2>1, <2>2 DEF Prox!News
  <2>4. CASE Prox!ReadSetting  BY <2>1, <2>2, <2>3, <2>4 DEF Prox!ReadSetting
  <2>5. CASE Prox!SeePhone     BY <2>1, <2>2, <2>3, <2>5 DEF Prox!SeePhone
  <2>6. CASE Prox!SeeNobody    BY <2>1, <2>2, <2>3, <2>6 DEF Prox!SeeNobody
  <2>7. CASE Prox!Lock         BY <2>1, <2>2, <2>3, <2>7 DEF Prox!Lock
  <2>8. CASE Prox!Unlock       BY <2>1, <2>2, <2>3, <2>8 DEF Prox!Unlock
  <2>9. CASE Prox!Arm
    <3>1. timed' <=> absent # "none" /\ enabled /\ ~weLocked
      BY <2>9, Zenon DEF Prox!Arm
    <3>2. UNCHANGED <<poked, weLocked, absent>> /\ monitor = "arm" /\ monitor' = "waiting"
      BY <2>9 DEF Prox!Arm
    <3> QED BY <2>1, <2>2, <2>3, <3>1, <3>2
  <2>10. CASE Prox!Wake        BY <2>1, <2>10 DEF Prox!Wake
  <2>11. CASE Prox!GraceOver   BY <2>1, <2>2, <2>3, <2>11 DEF Prox!GraceOver
  <2> QED BY <1>2, <2>4, <2>5, <2>6, <2>7, <2>8, <2>9, <2>10, <2>11 DEF Prox!MonitorStep
<1>3. CASE Prox!Start  BY <1>3 DEF Prox!Start
<1>4. CASE Prox!Crash  BY <1>4 DEF Prox!Crash
<1>5. CASE UNCHANGED prox
  BY <1>5 DEF prox, Prox!News, Prox!Present, Prox!Active
<1> QED BY <1>1, <1>2, <1>3, <1>4, <1>5 DEF Prox!Next

\* Whenever the task sleeps and no poke is due, its last decision is right.
THEOREM NoWakeUpIsLost == Spec => []SleepsOnlyWhenRight
<1>1. Init => DecisionInv
  BY DEF Init, Prox!Init, DecisionInv
<1>2. Prox!TypeOK /\ DecisionInv => SleepsOnlyWhenRight
  BY DEF Prox!TypeOK, DecisionInv, Decided, SleepsOnlyWhenRight, Prox!SleepsOnlyWhenRight
<1>3. Prox!TypeOK /\ DecisionInv /\ [Next]_vars => DecisionInv'
  BY OneRuns, DecisionStep
<1> QED BY <1>1, <1>2, <1>3, LockTypesHold, PTL DEF Spec

-----------------------------------------------------------------------------
(* The file and the setting.                                               *)

\* While one request is served at a time, memory holds its wish and the file
\* holds it as soon as it is written, unless the last write has failed.
SettingInv ==
    /\ ~up => Prox!Active = {} /\ ~mixed
    /\ ~mixed =>
         /\ \A r, q \in Prox!Active : r = q
         /\ \A r \in Prox!Active : enabled <=> wish[r]
         /\ \A r \in Prox!Active : switch[r] = "written" /\ ~unsaved => (wish[r] <=> setting = "on")
         /\ up /\ ~unsaved /\ Prox!Active = {} => (enabled <=> setting = "on")

LEMMA SettingStep == Prox!TypeOK /\ SettingInv /\ [Prox!Next]_prox => SettingInv'
<1> SUFFICES ASSUME Prox!TypeOK, SettingInv, [Prox!Next]_prox
             PROVE  SettingInv'
  OBVIOUS
<1> USE DEF Prox!TypeOK, SettingInv, Prox!Active, Prox!requests, Prox!task
<1>1. CASE Prox!SwitchStep
  <2> PICK r \in Switches :
             \/ Prox!Store(r) \/ Prox!TruncateSetting(r) \/ Prox!SaveSetting(r)
             \/ Prox!FailToSave(r) \/ Prox!PokeSetting(r)
    BY <1>1 DEF Prox!SwitchStep, Prox!Serve
  <2>1. CASE Prox!Store(r)            BY <2>1 DEF Prox!Store
  <2>2. CASE Prox!TruncateSetting(r)  BY <2>2 DEF Prox!TruncateSetting
  <2>3. CASE Prox!SaveSetting(r)      BY <2>3 DEF Prox!SaveSetting
  <2>4. CASE Prox!FailToSave(r)       BY <2>4 DEF Prox!FailToSave
  <2>5. CASE Prox!PokeSetting(r)      BY <2>5 DEF Prox!PokeSetting
  <2> QED BY <2>1, <2>2, <2>3, <2>4, <2>5
<1>2. CASE Prox!StreamStep \/ Prox!MonitorStep \/ Prox!GraceOver \/ UNCHANGED prox
  <2>1. UNCHANGED <<up, Prox!requests>>
    BY <1>2 DEF Prox!StreamStep, Prox!Join, Prox!Leave, Prox!Poke, Prox!MonitorStep,
                Prox!GraceOver, Prox!ReadSetting, Prox!SeePhone, Prox!SeeNobody, Prox!Lock,
                Prox!Unlock, Prox!Arm, Prox!Wake, prox
  <2> QED BY <2>1
<1>3. CASE Prox!Start  BY <1>3 DEF Prox!Start
<1>4. CASE Prox!Crash  BY <1>4 DEF Prox!Crash
<1> QED BY <1>1, <1>2, <1>3, <1>4 DEF Prox!Next

\* Unless requests overlap or a write fails, the file always says what the
\* daemon does.
THEOREM RestartKeepsSettingAlways == Spec => []RestartKeepsSetting
<1>1. Init => SettingInv
  BY DEF Init, Prox!Init, SettingInv, Prox!Active
<1>2. SettingInv => RestartKeepsSetting
  BY DEF SettingInv, RestartKeepsSetting, Prox!RestartKeepsSetting
<1>3. Prox!TypeOK /\ SettingInv /\ [Next]_vars => SettingInv'
  BY OneRuns, SettingStep
<1> QED BY <1>1, <1>2, <1>3, LockTypesHold, PTL DEF Spec

-----------------------------------------------------------------------------
(* The status files (status.rs, battery.rs).                               *)

StatTypes ==
    /\ lastReport \in Nat /\ byDevice \in [Devices -> Nat] /\ saved \in Nat
    /\ report \in [Devices -> {"none", "device", "save"}] /\ level \in [Devices -> Nat]
    /\ present \subseteq Devices /\ peers \subseteq Devices /\ nearby \in BOOLEAN
    /\ owed \in Nat /\ changes \in Nat
    /\ writer \in {"battery", "present", "peers", "devices", "proximity", "write", "wait"}
    /\ got \in [battery : Nat, present : SUBSET Devices,
                devices : UNION {[P -> Nat] : P \in SUBSET Devices}, proximity : BOOLEAN]

(* All who change the status have done so, and the writer knows.           *)
Still == (\A h \in Devices : report[h] = "none") /\ ~dirty /\ owed = 0

(* While the status is still, what the writer has read of it is true, piece*)
(* by piece, and a status it has written too.                              *)
ReadIsTrue ==
    /\ ~failed => file = lastJson
    /\ Still =>
        /\ writer \in {"present", "peers", "devices", "proximity", "write"}
             => got.battery = lastReport
        /\ writer \in {"peers", "devices", "proximity", "write"} => got.present = present
        /\ writer = "write" => got.proximity = nearby
        /\ ~silent =>
            /\ writer \in {"devices", "proximity", "write"} => DOMAIN got.devices = peers
            /\ writer \in {"proximity", "write"} => got.devices = [h \in peers |-> byDevice[h]]
            /\ writer = "wait" /\ ~failed => file = {Stat!Truth}

(* While no two phones report at once, a report under way is the latest.   *)
LatestIsSaved ==
    ~swapped =>
        /\ ~unstored /\ (\A h \in Devices : report[h] = "none") => saved = lastReport
        /\ \A h \in Devices : report[h] # "none" =>
            level[h] = lastReport /\ \A g \in Devices \ {h} : report[g] = "none"

StatInv == StatTypes /\ ReadIsTrue /\ LatestIsSaved

(* The updates and the writer keep the types (status.rs, battery.rs).      *)
LEMMA StatTypeStep == StatTypes /\ [Stat!Next]_stat => StatTypes'
<1> SUFFICES ASSUME StatTypes, [Stat!Next]_stat PROVE StatTypes'
    OBVIOUS
<1> USE DEF StatTypes, Stat!store, Stat!world, Stat!task, Stat!Compose, Stat!Changed
<1>1. ASSUME NEW h \in Devices, Stat!Update(h) PROVE StatTypes'
    BY <1>1 DEF Stat!Update, Stat!SetLast, Stat!SetDevice, Stat!Save
<1>2. ASSUME NEW h \in Devices, Stat!Presence(h) PROVE StatTypes'
    BY <1>2 DEF Stat!Presence
<1>3. ASSUME NEW h \in Devices, Stat!Peers(h) PROVE StatTypes'
    BY <1>3 DEF Stat!Peers
<1>4. CASE Stat!Poke
    BY <1>4 DEF Stat!Poke
<1>5. CASE Stat!ReadBattery
    BY <1>5 DEF Stat!ReadBattery
<1>6. CASE Stat!ReadPresent
    BY <1>6 DEF Stat!ReadPresent
<1>7. CASE Stat!ReadPeers
  <2>1. [h \in peers |-> 0] \in [peers -> Nat]
      OBVIOUS
  <2>2. [h \in peers |-> 0] \in UNION {[P -> Nat] : P \in SUBSET Devices}
      BY <2>1
  <2> QED
      BY <1>7, <2>2 DEF Stat!ReadPeers
<1>8. CASE Stat!ReadDevices
  <2>1. PICK P \in SUBSET Devices : got.devices \in [P -> Nat]
      OBVIOUS
  <2>2. [h \in DOMAIN got.devices |-> byDevice[h]] \in [P -> Nat]
      BY <2>1
  <2>3. [h \in DOMAIN got.devices |-> byDevice[h]] \in UNION {[Q -> Nat] : Q \in SUBSET Devices}
      BY <2>2
  <2> QED
      BY <1>8, <2>3 DEF Stat!ReadDevices
<1>p. CASE Stat!ReadProximity
    BY <1>p DEF Stat!ReadProximity
<1>s. CASE Stat!Setting
    BY <1>s DEF Stat!Setting
<1>9. CASE Stat!Write
    BY <1>9 DEF Stat!Write
<1>10. CASE Stat!Wake
    BY <1>10 DEF Stat!Wake
<1>11. CASE UNCHANGED stat
    BY <1>11 DEF stat
<1> QED
    BY <1>1, <1>2, <1>3, <1>4, <1>5, <1>6, <1>7, <1>8, <1>p, <1>s, <1>9, <1>10, <1>11
       DEF Stat!Next, Stat!Writer

(* A change is owed a poke until the writer starts over (status.rs).       *)
LEMMA ReadStep == StatTypes /\ ReadIsTrue /\ [Stat!Next]_stat => ReadIsTrue'
<1> SUFFICES ASSUME StatTypes, ReadIsTrue, [Stat!Next]_stat PROVE ReadIsTrue'
    OBVIOUS
<1> USE DEF StatTypes, ReadIsTrue, Still, Stat!Truth, Stat!store, Stat!world, Stat!task, Stat!Compose, Stat!Changed
<1>1. ASSUME NEW h \in Devices, Stat!Update(h) PROVE ReadIsTrue'
  <2>1. CASE Stat!SetLast(h)
    <3>1. report'[h] = "device" /\ file' = file /\ lastJson' = lastJson /\ failed' = failed
        BY <2>1 DEF Stat!SetLast
    <3> QED
        BY <3>1
  <2>2. CASE Stat!SetDevice(h)
    <3>1. report'[h] = "save" /\ file' = file /\ lastJson' = lastJson /\ failed' = failed
        BY <2>2 DEF Stat!SetDevice
    <3> QED
        BY <3>1
  <2>3. CASE Stat!Save(h)
    <3>1. owed' # 0 /\ file' = file /\ lastJson' = lastJson /\ failed' = failed
        BY <2>3 DEF Stat!Save
    <3> QED
        BY <3>1
  <2> QED
      BY <1>1, <2>1, <2>2, <2>3 DEF Stat!Update
<1>2. ASSUME NEW h \in Devices, Stat!Presence(h) PROVE ReadIsTrue'
  <2>1. owed' # 0 /\ file' = file /\ lastJson' = lastJson /\ failed' = failed
      BY <1>2 DEF Stat!Presence
  <2> QED
      BY <2>1
<1>3. ASSUME NEW h \in Devices, Stat!Peers(h) PROVE ReadIsTrue'
  <2>1. UNCHANGED <<file, lastJson, failed, got, writer, lastReport, present, nearby, report, dirty>>
      BY <1>3 DEF Stat!Peers
  <2>2. owed' = owed + 1 \/ (silent' /\ owed' = owed)
      BY <1>3 DEF Stat!Peers
  <2> QED
      BY <2>1, <2>2
<1>4. CASE Stat!Poke
    BY <1>4 DEF Stat!Poke
<1>5. CASE Stat!ReadBattery
    BY <1>5 DEF Stat!ReadBattery
<1>6. CASE Stat!ReadPresent
    BY <1>6 DEF Stat!ReadPresent
<1>7. CASE Stat!ReadPeers
  <2>1. DOMAIN got'.devices = peers /\ got'.battery = got.battery /\ got'.present = got.present
      BY <1>7 DEF Stat!ReadPeers
  <2> QED
      BY <1>7, <2>1 DEF Stat!ReadPeers
<1>8. CASE Stat!ReadDevices
  <2>1. /\ got'.devices = [h \in DOMAIN got.devices |-> byDevice[h]]
        /\ got'.battery = got.battery /\ got'.present = got.present
      BY <1>8 DEF Stat!ReadDevices
  <2> QED
      BY <1>8, <2>1 DEF Stat!ReadDevices
<1>p. CASE Stat!ReadProximity
  <2>1. /\ got'.devices = got.devices /\ got'.proximity = nearby
        /\ got'.battery = got.battery /\ got'.present = got.present
      BY <1>p DEF Stat!ReadProximity
  <2> QED
      BY <1>p, <2>1 DEF Stat!ReadProximity
<1>s. CASE Stat!Setting
  <2>1. owed' # 0 /\ file' = file /\ lastJson' = lastJson /\ failed' = failed
      BY <1>s DEF Stat!Setting
  <2> QED
      BY <2>1
<1>9. CASE Stat!Write
  <2>1. /\ UNCHANGED <<got, report, dirty, owed, silent, lastReport, present, peers, nearby,
                       byDevice>>
        /\ writer = "write" /\ writer' = "wait"
      BY <1>9 DEF Stat!Write
  <2>2. ~failed' => file' = {got} /\ lastJson' = {got}
      BY <1>9 DEF Stat!Write
  <2>3. Still /\ ~silent => got = Stat!Truth
    <3>1. SUFFICES ASSUME Still, ~silent PROVE got = Stat!Truth
        OBVIOUS
    <3>2. /\ got.battery = lastReport /\ got.present = present /\ got.proximity = nearby
          /\ got.devices = [h \in peers |-> byDevice[h]]
        BY <2>1, <3>1
    <3>3. got = [battery |-> got.battery, present |-> got.present, devices |-> got.devices,
                 proximity |-> got.proximity]
        OBVIOUS
    <3> QED
        BY <3>2, <3>3
  <2>4. (Stat!Truth)' = Stat!Truth
      BY <2>1
  <2> QED
      BY <2>1, <2>2, <2>3, <2>4
<1>10. CASE Stat!Wake
    BY <1>10 DEF Stat!Wake
<1>11. CASE UNCHANGED stat
    BY <1>11 DEF stat
<1> QED
    BY <1>1, <1>2, <1>3, <1>4, <1>5, <1>6, <1>7, <1>8, <1>p, <1>s, <1>9, <1>10, <1>11
       DEF Stat!Next, Stat!Writer

(* battery.json follows the reports (battery.rs).                          *)
LEMMA SavedStep == StatTypes /\ LatestIsSaved /\ [Stat!Next]_stat => LatestIsSaved'
<1> SUFFICES ASSUME StatTypes, LatestIsSaved, [Stat!Next]_stat PROVE LatestIsSaved'
    OBVIOUS
<1> USE DEF StatTypes, LatestIsSaved, Stat!store, Stat!world, Stat!task
<1>1. ASSUME NEW h \in Devices, Stat!SetLast(h) PROVE LatestIsSaved'
    BY <1>1 DEF Stat!SetLast
<1>2. ASSUME NEW h \in Devices, Stat!SetDevice(h) PROVE LatestIsSaved'
    BY <1>2 DEF Stat!SetDevice
<1>3. ASSUME NEW h \in Devices, Stat!Save(h) PROVE LatestIsSaved'
    BY <1>3 DEF Stat!Save
<1>4. CASE UNCHANGED <<lastReport, saved, unstored, report, level, swapped>>
    BY <1>4
<1>5. ASSUME NEW h \in Devices, Stat!Presence(h) \/ Stat!Peers(h) PROVE LatestIsSaved'
    BY <1>4, <1>5 DEF Stat!Presence, Stat!Peers
<1>6. CASE Stat!Setting \/ Stat!Poke \/ Stat!Writer
    BY <1>4, <1>6 DEF Stat!Setting, Stat!Poke, Stat!Writer, Stat!ReadBattery, Stat!ReadPresent,
                      Stat!ReadPeers, Stat!ReadDevices, Stat!ReadProximity, Stat!Write, Stat!Wake, Stat!Compose
<1> QED
    BY <1>1, <1>2, <1>3, <1>4, <1>5, <1>6 DEF Stat!Next, Stat!Update, stat

(* status.json misses no change that pokes, battery.json no report         *)
(* (status.rs and battery.rs).                                             *)
THEOREM FilesStayTrue == Spec => []FilesAreTrue
<1>1. Init => StatInv
  <2> SUFFICES ASSUME Init PROVE StatInv
      OBVIOUS
  <2> USE DEF Init, Stat!Init
  <2>1. [h \in Devices |-> 0] \in [Devices -> Nat]
      OBVIOUS
  <2>2. got = Stat!Truth /\ Stat!Truth \in [battery : Nat, present : SUBSET Devices,
              devices : UNION {[P -> Nat] : P \in SUBSET Devices}, proximity : BOOLEAN]
      BY <2>1 DEF Stat!Truth
  <2>3. StatTypes
      BY <2>2 DEF StatTypes
  <2>4. ReadIsTrue /\ LatestIsSaved
      BY DEF ReadIsTrue, LatestIsSaved
  <2> QED
      BY <2>3, <2>4 DEF StatInv
<1>2. StatInv /\ [Next]_vars => StatInv'
    BY OneRuns, StatTypeStep, ReadStep, SavedStep DEF StatInv
<1>3. StatInv => FilesAreTrue
    BY DEF FilesAreTrue, Stat!FilesAreTrue, StatInv, ReadIsTrue, LatestIsSaved, Still
<1> QED
    BY <1>1, <1>2, <1>3, PTL DEF Spec

-----------------------------------------------------------------------------
(* The notifications (notifications.rs).                                   *)

Shown   == [at : {"show", "shown", "recorded"}, key : Keys \cup {Page},
            text : Nat \ {0}, replaces : 0 .. Posts]
Closing == [at : {"close"}, id : Notify!Ids]
Message == [at : {"show"}, key : Keys \cup {Page}, text : Nat \ {0}]
           \cup [at : {"gone"}, key : Keys]

NoteTypes ==
    /\ posted \in [Keys -> Nat] /\ told \in [Keys -> Nat] /\ posts \in Nat /\ bus \in Seq(Message)
    /\ job \in [Tasks -> {Notify!None} \cup Shown \cup Closing]
    /\ \A t \in Tasks : job[t].at \in {"shown", "recorded"} => job[t].replaces # 0
    /\ ids \in [Keys -> 0 .. Posts] /\ lastId \in 0 .. Posts
    /\ viewTargets \in [Notify!Ids -> Nat] /\ openTargets \in [Notify!Ids -> Nat]
    /\ replyTargets \in [Notify!Ids -> Keys \cup {Page}]
    /\ desktop \in [Notify!Ids -> [key : Keys \cup {Page}, text : Nat]]
    /\ clicks \in Seq([id : Notify!Ids, key : Talks])
    /\ overlapped \in BOOLEAN /\ missed \in BOOLEAN

(* Each id the desktop has given out stands for one key, or for a page,    *)
(* once and for all: o says for which.                                     *)
IdsOwn(o)  == \A k \in Keys : ids[k] # 0 => ids[k] <= lastId /\ o[ids[k]] = k
JobsOwn(o) ==
    \A t \in Tasks : job[t].at \in {"show", "shown", "recorded"} /\ job[t].replaces # 0 =>
        job[t].replaces <= lastId /\ o[job[t].replaces] = job[t].key
ScreenOwns(o) ==
    \A i \in Notify!Ids :
        /\ Notify!Open(i) => i <= lastId /\ o[i] = desktop[i].key
        /\ replyTargets[i] # Page => i <= lastId /\ o[i] = replyTargets[i]
        /\ openTargets[i] # 0 => i <= lastId /\ o[i] = Page
ClicksOwn(o) ==
    \A n \in 1 .. Len(clicks) : clicks[n].id <= lastId /\ o[clicks[n].id] = clicks[n].key

Owns(o) == IdsOwn(o) /\ JobsOwn(o) /\ ScreenOwns(o) /\ ClicksOwn(o)

IdsHaveOwners == \E o \in [Notify!Ids -> Keys \cup {Page}] : Owns(o)

(* The keys of which a message is on its way, that a task is about to show *)
(* or has shown but not recorded, and the ids a task sets or closes.       *)
OnWay    == {bus[n].key : n \in 1 .. Len(bus)}
Keyed(at) == {t \in Tasks : job[t].at = at}
Showing  == {job[t].key : t \in Keyed("show")}
Fresh    == {job[t].key : t \in Keyed("shown")}
Aimed    == {job[t].replaces : t \in Keyed("shown") \cup Keyed("recorded")}
Closed   == {job[t].id : t \in Keyed("close")}

OneAtWork == \A t, u \in Tasks : job[t].at # "idle" /\ job[u].at # "idle" => t = u

(* The last message about a key has the text last sent of it, 0 for none.  *)
LastTells ==
    \A n \in 1 .. Len(bus) :
        bus[n].key \in Keys /\ (\A m \in 1 .. Len(bus) : m > n => bus[m].key # bus[n].key) =>
            told[bus[n].key] = IF bus[n].at = "show" THEN bus[n].text ELSE 0

(* So has the task that is about to show it.                               *)
ShowIsLatest ==
    \A t \in Keyed("show") : job[t].key \in Keys =>
        /\ job[t].replaces = ids[job[t].key]
        /\ job[t].key \notin OnWay => job[t].text = told[job[t].key]

(* A key has one notification at most: the one whose id is recorded or     *)
(* will be.                                                                *)
OneEach ==
    \A i \in Notify!Ids : Notify!Open(i) /\ desktop[i].key \in Keys =>
        /\ \A t \in Keyed("shown") : desktop[i].key = job[t].key => i = job[t].replaces
        /\ desktop[i].key \notin Fresh /\ i \notin Closed => i = ids[desktop[i].key]

(* It has the text last sent and that of the task that has shown it, and   *)
(* its buttons lead there.                                                     *)
TextsFollow ==
    \A i \in Notify!Ids : Notify!Open(i) =>
        /\ desktop[i].key \in Keys \ (OnWay \cup Showing) /\ i \notin Closed =>
            desktop[i].text = told[desktop[i].key]
        /\ \A t \in Keyed("shown") \cup Keyed("recorded") :
            i = job[t].replaces => desktop[i].text = job[t].text

ButtonsLead ==
    \A i \in Notify!Ids \ (Aimed \cup Closed) : Notify!Open(i) =>
        LET d == desktop[i] IN
        /\ d.key = Page => openTargets[i] = d.text
        /\ d.key \in Talks => viewTargets[i] = d.text /\ replyTargets[i] = d.key

Follows ==
    Notify!Orderly =>
        OneAtWork /\ LastTells /\ ShowIsLatest /\ OneEach /\ TextsFollow /\ ButtonsLead

(* What a task does tells what is known of it (notifications.rs).          *)
LEMMA JobShapes ==
    ASSUME NoteTypes, NEW t \in Tasks
    PROVE  /\ job[t].at \in {"show", "shown", "recorded"} => job[t] \in Shown
           /\ job[t].at = "close" => job[t] \in Closing
           /\ job[t] # Notify!None => job[t].at # "idle"
<1>1. job[t] = Notify!None \/ job[t] \in Shown \/ job[t] \in Closing
    BY DEF NoteTypes
<1>2. CASE job[t] = Notify!None
    BY <1>2 DEF Notify!None
<1>3. CASE job[t] \in Shown
    BY <1>3 DEF Shown
<1>4. CASE job[t] \in Closing
    BY <1>4 DEF Closing
<1> QED
    BY <1>1, <1>2, <1>3, <1>4

(* The message a task begins with is one of the phone's (notifications.rs).*)
LEMMA BusShape ==
    NoteTypes /\ bus # <<>> => Head(bus) \in Message /\ Tail(bus) \in Seq(Message)
BY DEF NoteTypes

(* A click is one on a conversation (notifications.rs).                    *)
LEMMA ClickShape ==
    NoteTypes => \A n \in 1 .. Len(clicks) : clicks[n].id \in Notify!Ids /\ clicks[n].key \in Talks
<1> SUFFICES ASSUME NoteTypes, NEW n \in 1 .. Len(clicks)
             PROVE  clicks[n] \in [id : Notify!Ids, key : Talks]
    OBVIOUS
<1> DEFINE C == [id : Notify!Ids, key : Talks]
<1>1. clicks \in Seq(C)
    BY DEF NoteTypes
<1> HIDE DEF C
<1>2. clicks[n] \in C
    BY <1>1
<1> QED
    BY <1>2 DEF C

(* The tasks keep the types (notifications.rs).                            *)
LEMMA NoteTypeStep == NoteTypes /\ [Notify!Next]_note => NoteTypes'
<1> SUFFICES ASSUME NoteTypes, [Notify!Next]_note PROVE NoteTypes'
    OBVIOUS
<1> USE ServicesAssumption
        DEF NoteTypes, Notify!Ids, Notify!phone, Notify!maps, Notify!screen
<1>1. ASSUME NEW k \in Keys \cup {Page}, Notify!Post(k) PROVE NoteTypes'
  <2>1. posts' \in Nat \ {0} /\ posted' \in [Keys -> Nat] /\ told' \in [Keys -> Nat]
      BY <1>1, SMTT(30) DEF Notify!Post, Notify!Arrive
  <2>2. [at |-> "show", key |-> k, text |-> posts'] \in Message
      BY <2>1 DEF Message
  <2>3. bus' \in Seq(Message)
      BY <1>1, <2>2 DEF Notify!Post
  <2> QED
      BY <1>1, <2>1, <2>3 DEF Notify!Post, Notify!Arrive
<1>u. ASSUME NEW k \in Keys, Notify!PostUnsent(k) PROVE NoteTypes'
  <2>1. posts' \in Nat /\ posted' \in [Keys -> Nat]
      BY <1>u DEF Notify!PostUnsent, Notify!Arrive
  <2> QED
      BY <1>u, <2>1 DEF Notify!PostUnsent, Notify!Arrive
<1>2. ASSUME NEW k \in Keys, Notify!Remove(k) PROVE NoteTypes'
  <2>1. [at |-> "gone", key |-> k] \in Message
      BY DEF Message
  <2>2. bus' \in Seq(Message) /\ told' \in [Keys -> Nat]
    <3>1. CASE k \in withheld
        BY <1>2, <3>1 DEF Notify!Remove
    <3>2. CASE k \notin withheld
      <4>1. bus' = Append(bus, [at |-> "gone", key |-> k]) /\ told' = [told EXCEPT ![k] = 0]
          BY <1>2, <3>2 DEF Notify!Remove, Notify!SendRemoval
      <4>2. bus' \in Seq(Message)
          BY <2>1, <4>1
      <4> QED
          BY <4>1, <4>2
    <3> QED
        BY <3>1, <3>2
  <2>3. posted' \in [Keys -> Nat]
      BY <1>2 DEF Notify!Remove, Notify!Removed
  <2> QED
      BY <1>2, <2>2, <2>3 DEF Notify!Remove, Notify!Removed
<1>3. ASSUME NEW t \in Tasks, Notify!Reconnect(t) PROVE NoteTypes'
  <2>1. bus' \in Seq(Message) /\ missed' \in BOOLEAN
      BY <1>3 DEF Notify!Reconnect
  <2> QED
      BY <1>3, <2>1 DEF Notify!Reconnect
<1>4. ASSUME NEW t \in Tasks, Notify!Show(t) PROVE NoteTypes'
  <2> DEFINE m == Head(bus)
             r == IF m.key = Page THEN 0 ELSE ids[m.key]
  <2>1. m \in Message /\ m.at = "show" /\ bus' \in Seq(Message)
      BY BusShape, <1>4 DEF Notify!Show, Notify!Begin
  <2>2. m.key \in Keys \cup {Page} /\ m.text \in Nat \ {0}
      BY <2>1 DEF Message
  <2>3. r \in 0 .. Posts
      BY <2>2
  <2>4. [at |-> "show", key |-> m.key, text |-> m.text, replaces |-> r] \in Shown
      BY <2>2, <2>3 DEF Shown
  <2>5. job' = [job EXCEPT ![t] = [at |-> "show", key |-> m.key, text |-> m.text,
                                   replaces |-> r]]
      BY <1>4 DEF Notify!Show, Notify!Begin
  <2>6. /\ job' \in [Tasks -> {Notify!None} \cup Shown \cup Closing]
        /\ \A u \in Tasks : job'[u].at \in {"shown", "recorded"} => job'[u].replaces # 0
      BY <2>4, <2>5
  <2>7. overlapped' \in BOOLEAN
      BY <1>4 DEF Notify!Show, Notify!Begin
  <2>8. UNCHANGED <<posted, told, posts, ids, viewTargets, replyTargets, openTargets, desktop,
                    lastId, clicks, missed>>
      BY <1>4 DEF Notify!Show, Notify!Begin
  <2> QED
      BY <2>1, <2>6, <2>7, <2>8
<1>5. ASSUME NEW t \in Tasks, Notify!Notify(t) PROVE NoteTypes'
  <2>1. CASE Notify!NotifyFails(t)
      BY <2>1 DEF Notify!NotifyFails, Notify!None
  <2>2. ASSUME NEW i \in Notify!Ids, Notify!ShownAs(t, i) PROVE NoteTypes'
    <3>1. job[t] \in Shown
        BY JobShapes, <2>2 DEF Notify!ShownAs
    <3>2. job[t].key \in Keys \cup {Page} /\ job[t].text \in Nat \ {0}
        BY <3>1 DEF Shown
    <3>3. [at |-> "shown", key |-> job[t].key, text |-> job[t].text, replaces |-> i] \in Shown
        BY <3>2 DEF Shown
    <3>4. /\ job' \in [Tasks -> {Notify!None} \cup Shown \cup Closing]
          /\ \A u \in Tasks : job'[u].at \in {"shown", "recorded"} => job'[u].replaces # 0
        BY <2>2, <3>3 DEF Notify!ShownAs
    <3>5. desktop' \in [Notify!Ids -> [key : Keys \cup {Page}, text : Nat]]
        BY <2>2, <3>2 DEF Notify!ShownAs
    <3>6. lastId' \in 0 .. Posts
        BY <2>2 DEF Notify!ShownAs
    <3> QED
        BY <2>2, <3>4, <3>5, <3>6 DEF Notify!ShownAs
  <2> QED
      BY <1>5, <2>1, <2>2 DEF Notify!Notify
<1>6. ASSUME NEW t \in Tasks, Notify!Record(t) PROVE NoteTypes'
  <2>1. job[t] \in Shown /\ job[t].replaces # 0
      BY JobShapes, <1>6 DEF Notify!Record, Notify!Recorded
  <2>2. [job[t] EXCEPT !.at = "recorded"] \in Shown
      BY <2>1 DEF Shown
  <2>3. job' = [job EXCEPT ![t] = [job[t] EXCEPT !.at = "recorded"]]
      BY <1>6 DEF Notify!Record, Notify!Recorded
  <2>4. /\ job' \in [Tasks -> {Notify!None} \cup Shown \cup Closing]
        /\ \A u \in Tasks : job'[u].at \in {"shown", "recorded"} => job'[u].replaces # 0
      BY <2>1, <2>2, <2>3 DEF Shown
  <2>5. ids' \in [Keys -> 0 .. Posts]
      BY <1>6, <2>1 DEF Notify!Record, Shown
  <2> QED
      BY <1>6, <2>4, <2>5 DEF Notify!Record, Notify!Recorded
<1>7. ASSUME NEW t \in Tasks, Notify!Aim(t) PROVE NoteTypes'
  <2>1. job[t].key \in Keys \cup {Page} /\ job[t].text \in Nat
      BY JobShapes, <1>7 DEF Notify!Aim, Shown
  <2>2. /\ openTargets' \in [Notify!Ids -> Nat] /\ viewTargets' \in [Notify!Ids -> Nat]
        /\ replyTargets' \in [Notify!Ids -> Keys \cup {Page}]
      BY <1>7, <2>1 DEF Notify!Aim
  <2> QED
      BY <1>7, <2>2 DEF Notify!Aim, Notify!None
<1>8. ASSUME NEW t \in Tasks, Notify!Dismiss(t) PROVE NoteTypes'
  <2> DEFINE k == Head(bus).key
  <2>1. k \in Keys /\ bus' \in Seq(Message)
      BY BusShape, <1>8 DEF Notify!Dismiss, Message
  <2>2. CASE ids[k] = 0
      BY <1>8, <2>1, <2>2 DEF Notify!Dismiss
  <2>3. CASE ids[k] # 0
    <3>1. [at |-> "close", id |-> ids[k]] \in Closing
        BY <2>1, <2>3 DEF Closing
    <3>2. /\ job' = [job EXCEPT ![t] = [at |-> "close", id |-> ids[k]]]
          /\ ids' = [ids EXCEPT ![k] = 0]
          /\ replyTargets' = [replyTargets EXCEPT ![ids[k]] = Page]
        BY <1>8, <2>3 DEF Notify!Dismiss
    <3>3. /\ job' \in [Tasks -> {Notify!None} \cup Shown \cup Closing]
          /\ \A u \in Tasks : job'[u].at \in {"shown", "recorded"} => job'[u].replaces # 0
        BY <3>1, <3>2
    <3>4. ids' \in [Keys -> 0 .. Posts] /\ replyTargets' \in [Notify!Ids -> Keys \cup {Page}]
        BY <2>1, <2>3, <3>2, SMTT(30)
    <3>5. UNCHANGED <<posted, told, posts, lastId, viewTargets, openTargets, desktop, clicks, missed>>
          /\ overlapped' \in BOOLEAN
        BY <1>8 DEF Notify!Dismiss
    <3> QED
        BY <2>1, <3>3, <3>4, <3>5
  <2> QED
      BY <2>2, <2>3
<1>9. ASSUME NEW t \in Tasks, Notify!CloseNotification(t) PROVE NoteTypes'
    BY <1>9 DEF Notify!CloseNotification, Notify!Vanish, Notify!None
<1>10. ASSUME NEW i \in Notify!Ids, Notify!Expire(i) PROVE NoteTypes'
    BY <1>10 DEF Notify!Expire, Notify!Vanish
<1>x. ASSUME NEW i \in Notify!Ids, Notify!Close(i) PROVE NoteTypes'
    BY <1>x DEF Notify!Close, Notify!Vanish
<1>11. ASSUME NEW i \in Notify!Ids, Notify!PressReply(i) PROVE NoteTypes'
  <2>1. clicks' \in Seq([id : Notify!Ids, key : Talks])
      BY <1>11 DEF Notify!PressReply
  <2> QED
      BY <1>11, <2>1 DEF Notify!PressReply
<1>12. CASE Notify!Listen
  <2>1. clicks' \in Seq([id : Notify!Ids, key : Talks])
      BY <1>12 DEF Notify!Listen
  <2> QED
      BY <1>12, <2>1 DEF Notify!Listen
<1>13. CASE UNCHANGED note
    BY <1>13 DEF note
<1> QED
    BY <1>1, <1>u, <1>2, <1>3, <1>4, <1>5, <1>6, <1>7, <1>8, <1>9, <1>10, <1>x, <1>11, <1>12, <1>13
       DEF Notify!Next, Notify!Task

(* An id is given out once: it never changes hands (notifications.rs).     *)
LEMMA OwnerStep == NoteTypes /\ IdsHaveOwners /\ [Notify!Next]_note => IdsHaveOwners'
<1> SUFFICES ASSUME NoteTypes, IdsHaveOwners, [Notify!Next]_note PROVE IdsHaveOwners'
    OBVIOUS
<1>o. PICK o \in [Notify!Ids -> Keys \cup {Page}] : Owns(o)
    BY DEF IdsHaveOwners
<1>s. Owns(o)' => IdsHaveOwners'
    BY DEF IdsHaveOwners, Owns, IdsOwn, JobsOwn, ScreenOwns, ClicksOwn, Notify!Open, Notify!Ids
<1>t. /\ ids \in [Keys -> 0 .. Posts] /\ lastId \in 0 .. Posts
      /\ job \in [Tasks -> {Notify!None} \cup Shown \cup Closing]
      /\ \A t \in Tasks : job[t].at \in {"shown", "recorded"} => job[t].replaces # 0
      /\ viewTargets \in [Notify!Ids -> Nat] /\ openTargets \in [Notify!Ids -> Nat]
      /\ replyTargets \in [Notify!Ids -> Keys \cup {Page}]
      /\ desktop \in [Notify!Ids -> [key : Keys \cup {Page}, text : Nat]]
    BY DEF NoteTypes
<1> USE <1>o, <1>t, ServicesAssumption
        DEF Owns, IdsOwn, JobsOwn, ScreenOwns, ClicksOwn, Notify!Open, Notify!Ids,
            Notify!phone, Notify!maps, Notify!screen
<1>1. ASSUME NEW k \in Keys \cup {Page}, Notify!Post(k) PROVE Owns(o)'
    BY <1>1 DEF Notify!Post, Notify!Arrive
<1>u. ASSUME NEW k \in Keys, Notify!PostUnsent(k) PROVE Owns(o)'
    BY <1>u DEF Notify!PostUnsent, Notify!Arrive
<1>2. ASSUME NEW k \in Keys, Notify!Remove(k) PROVE Owns(o)'
    BY <1>2 DEF Notify!Remove, Notify!Removed
<1>3. ASSUME NEW t \in Tasks, Notify!Reconnect(t) PROVE Owns(o)'
    BY <1>3 DEF Notify!Reconnect
<1>4. ASSUME NEW t \in Tasks, Notify!Show(t) PROVE Owns(o)'
  <2> DEFINE m == Head(bus)
             r == IF m.key = Page THEN 0 ELSE ids[m.key]
  <2>1. m.key \in Keys \cup {Page}
      BY <1>4, BusShape DEF Notify!Show, Notify!Begin, Message
  <2>2. r # 0 => r <= lastId /\ o[r] = m.key
      BY <2>1
  <2>3. job' = [job EXCEPT ![t] = [at |-> "show", key |-> m.key, text |-> m.text,
                                   replaces |-> r]]
      BY <1>4 DEF Notify!Show, Notify!Begin
  <2>4. UNCHANGED <<ids, viewTargets, replyTargets, openTargets, desktop, lastId, clicks>>
      BY <1>4 DEF Notify!Show, Notify!Begin
  <2>5. JobsOwn(o)'
      BY <2>2, <2>3, <2>4
  <2> QED
      BY <2>4, <2>5
<1>5. ASSUME NEW t \in Tasks, Notify!NotifyFails(t) PROVE Owns(o)'
    BY <1>5 DEF Notify!NotifyFails, Notify!None
<1>6. ASSUME NEW t \in Tasks, NEW i \in Notify!Ids, Notify!ShownAs(t, i) PROVE IdsHaveOwners'
  <2>1. /\ job[t].key \in Keys \cup {Page}
        /\ \A u \in Tasks : job[u].at \in {"show", "shown", "recorded"} => job[u].replaces \in 0 .. Posts
      BY JobShapes, <1>6 DEF Notify!ShownAs, Shown
  <2>2. PICK n \in [Notify!Ids -> Keys \cup {Page}] : n = [o EXCEPT ![i] = job[t].key]
      BY <2>1
  <2>3. /\ i <= lastId' /\ lastId <= lastId' /\ n[i] = job[t].key
        /\ \A e \in Notify!Ids : e <= lastId => n[e] = o[e]
    <3>1. CASE lastId' = lastId
      <4>1. i <= lastId /\ o[i] = job[t].key
          BY <1>6, <3>1 DEF Notify!ShownAs
      <4> QED
          BY <2>2, <3>1, <4>1
    <3>2. CASE lastId' # lastId
        BY <1>6, <2>2, <3>2 DEF Notify!ShownAs
    <3> QED
        BY <3>1, <3>2
  <2>4. IdsOwn(n)'
      BY <1>6, <2>3 DEF Notify!ShownAs
  <2>5. JobsOwn(n)'
      BY <1>6, <2>1, <2>3 DEF Notify!ShownAs
  <2>6. ScreenOwns(n)'
      BY <1>6, <2>1, <2>3 DEF Notify!ShownAs
  <2>7. ClicksOwn(n)'
      BY <1>6, <2>3, ClickShape DEF Notify!ShownAs
  <2> QED
      BY <2>2, <2>4, <2>5, <2>6, <2>7 DEF IdsHaveOwners
<1>7. ASSUME NEW t \in Tasks, Notify!Record(t) PROVE Owns(o)'
  <2>1. job[t] \in Shown /\ job[t].replaces # 0
      BY <1>7, JobShapes DEF Notify!Record, Notify!Recorded
  <2>2. job'[t] = [job[t] EXCEPT !.at = "recorded"] /\ \A u \in Tasks \ {t} : job'[u] = job[u]
      BY <1>7 DEF Notify!Record, Notify!Recorded
  <2>3. JobsOwn(o)'
    <3>1. job'[t].key = job[t].key /\ job'[t].replaces = job[t].replaces
        BY <2>1, <2>2 DEF Shown
    <3> QED
        BY <1>7, <2>2, <3>1 DEF Notify!Record, Notify!Recorded
  <2>4. IdsOwn(o)'
      BY <1>7, <2>1 DEF Notify!Record, Notify!Recorded, Shown
  <2> QED
      BY <1>7, <2>3, <2>4 DEF Notify!Record, Notify!Recorded
<1>8. ASSUME NEW t \in Tasks, Notify!Aim(t) PROVE Owns(o)'
  <2>1. job[t] \in Shown /\ job[t].replaces # 0
      BY <1>8, JobShapes DEF Notify!Aim
  <2>2. JobsOwn(o)'
      BY <1>8 DEF Notify!Aim, Notify!None
  <2>3. ScreenOwns(o)'
      BY <1>8, <2>1, ZenonT(30) DEF Notify!Aim, Shown
  <2> QED
      BY <1>8, <2>2, <2>3 DEF Notify!Aim
<1>9. ASSUME NEW t \in Tasks, Notify!Dismiss(t) PROVE Owns(o)'
  <2> DEFINE k == Head(bus).key
  <2>1. k \in Keys
      BY <1>9, BusShape DEF Notify!Dismiss, Message
  <2>2. CASE ids[k] = 0
      BY <1>9, <2>1, <2>2 DEF Notify!Dismiss
  <2>3. CASE ids[k] # 0
    <3>1. /\ job' = [job EXCEPT ![t] = [at |-> "close", id |-> ids[k]]]
          /\ ids' = [ids EXCEPT ![k] = 0]
          /\ replyTargets' = [replyTargets EXCEPT ![ids[k]] = Page]
          /\ UNCHANGED <<openTargets, desktop, lastId, clicks>>
        BY <1>9, <2>3 DEF Notify!Dismiss
    <3>2. JobsOwn(o)'
        BY <3>1
    <3> QED
        BY <2>1, <3>1, <3>2
  <2> QED
      BY <2>2, <2>3
<1>10. ASSUME NEW t \in Tasks, Notify!CloseNotification(t) PROVE Owns(o)'
    BY <1>10 DEF Notify!CloseNotification, Notify!Vanish, Notify!None
<1>11. ASSUME NEW i \in Notify!Ids, Notify!Expire(i) PROVE Owns(o)'
    BY <1>11 DEF Notify!Expire, Notify!Vanish
<1>x. ASSUME NEW i \in Notify!Ids, Notify!Close(i) PROVE Owns(o)'
    BY <1>x DEF Notify!Close, Notify!Vanish
<1>12. ASSUME NEW i \in Notify!Ids, Notify!PressReply(i) PROVE Owns(o)'
  <2>1. ClicksOwn(o)'
      BY <1>12 DEF Notify!PressReply
  <2> QED
      BY <1>12, <2>1 DEF Notify!PressReply
<1>13. CASE Notify!Listen
  <2>1. \A x \in 1 .. Len(clicks') : x + 1 \in 1 .. Len(clicks) /\ clicks'[x] = clicks[x + 1]
      BY <1>13 DEF Notify!Listen, NoteTypes
  <2>2. ClicksOwn(o)'
      BY <1>13, <2>1 DEF Notify!Listen
  <2>3. Owns(o)'
      BY <1>13, <2>2 DEF Notify!Listen
  <2> QED
      BY <2>3, <1>s
<1>14. CASE UNCHANGED note
  <2>1. UNCHANGED <<ids, lastId, job, desktop, replyTargets, openTargets, clicks>>
      BY <1>14 DEF note
  <2>2. Owns(o)'
      BY <2>1
  <2> QED
      BY <2>2, <1>s
<1> QED
    BY <1>s, <1>1, <1>u, <1>2, <1>3, <1>4, <1>5, <1>6, <1>7, <1>8, <1>9, <1>10, <1>11, <1>x,
       <1>12, <1>13, <1>14
       DEF Notify!Next, Notify!Task, Notify!Notify

(* The mirror starts typed and without an id (notifications.rs).           *)
LEMMA NoteInit == Notify!Init => NoteTypes /\ IdsHaveOwners
<1> SUFFICES ASSUME Notify!Init PROVE NoteTypes /\ IdsHaveOwners
    OBVIOUS
<1>1. NoteTypes
  <2>1. bus \in Seq(Message) /\ clicks \in Seq([id : Notify!Ids, key : Talks])
      BY DEF Notify!Init
  <2>2. /\ job \in [Tasks -> {Notify!None} \cup Shown \cup Closing]
        /\ \A t \in Tasks : job[t].at \in {"shown", "recorded"} => job[t].replaces # 0
      BY DEF Notify!Init, Notify!None
  <2>3. /\ desktop \in [Notify!Ids -> [key : Keys \cup {Page}, text : Nat]]
        /\ ids \in [Keys -> 0 .. Posts] /\ lastId \in 0 .. Posts
      BY ServicesAssumption DEF Notify!Init
  <2>4. overlapped \in BOOLEAN /\ missed \in BOOLEAN
      BY DEF Notify!Init
  <2> QED
      BY <2>1, <2>2, <2>3, <2>4, ServicesAssumption DEF Notify!Init, NoteTypes
<1>2. Owns([i \in Notify!Ids |-> Page])
    BY ServicesAssumption DEF Notify!Init, Owns, IdsOwn, JobsOwn, ScreenOwns, ClicksOwn, Notify!None, Notify!Open, Notify!Ids
<1>3. [i \in Notify!Ids |-> Page] \in [Notify!Ids -> Keys \cup {Page}]
    OBVIOUS
<1> QED
    BY <1>1, <1>2, <1>3 DEF IdsHaveOwners

(* A Reply asks for the conversation it stood on, whatever tasks meet and  *)
(* messages are lost (notifications.rs, listen_actions and dismiss).       *)
THEOREM RepliesGoWhereAsked == Spec => []AnswersGoWhereAsked
<1> DEFINE Inv == NoteTypes /\ IdsHaveOwners
<1>1. Init => Inv
    BY NoteInit DEF Init
<1>2. Inv /\ [Next]_vars => Inv'
    BY OneRuns, NoteTypeStep, OwnerStep
<1>3. Inv => AnswersGoWhereAsked
  <2> SUFFICES ASSUME NoteTypes, IdsHaveOwners, NEW n \in 1 .. Len(clicks)
               PROVE  replyTargets[clicks[n].id] \in {clicks[n].key, Page}
      BY DEF AnswersGoWhereAsked, Notify!AnswersGoWhereAsked
  <2>1. PICK o \in [Notify!Ids -> Keys \cup {Page}] : Owns(o)
      BY DEF IdsHaveOwners
  <2>2. clicks[n].id \in Notify!Ids /\ clicks[n].key \in Keys
      BY ClickShape, ServicesAssumption
  <2> QED
      BY <2>1, <2>2 DEF Owns, ClicksOwn, ScreenOwns
<1> QED
    BY <1>1, <1>2, <1>3, PTL DEF Spec

(* No step lets the desktop fall behind: the induction step of Follows.    *)
LEMMA FollowStep ==
    NoteTypes /\ IdsHaveOwners /\ Follows /\ [Notify!Next]_note => Follows'
<1> DEFINE Goal == /\ OneAtWork' /\ LastTells' /\ ShowIsLatest'
                   /\ OneEach' /\ TextsFollow' /\ ButtonsLead'
           Shape == /\ ids \in [Keys -> 0 .. Posts] /\ told \in [Keys -> Nat]
                    /\ DOMAIN job = Tasks
                    /\ viewTargets \in [Notify!Ids -> Nat] /\ openTargets \in [Notify!Ids -> Nat]
                    /\ replyTargets \in [Notify!Ids -> Keys \cup {Page}]
                    /\ desktop \in [Notify!Ids -> [key : Keys \cup {Page}, text : Nat]]
<1> SUFFICES ASSUME NoteTypes, IdsHaveOwners, Follows, [Notify!Next]_note, Notify!Orderly'
             PROVE  Goal
    BY DEF Follows
<1>t. Shape /\ bus \in Seq(Message) /\ posts \in Nat
    BY DEF NoteTypes
<1>o. PICK o \in [Notify!Ids -> Keys \cup {Page}] : Owns(o)
    BY DEF IdsHaveOwners
<1>e. /\ \A i \in Notify!Ids : Notify!Open(i) => o[i] = desktop[i].key
      /\ \A i \in Notify!Ids : openTargets[i] # 0 => o[i] = Page
      /\ \A k \in Keys : ids[k] # 0 => o[ids[k]] = k
      /\ \A t \in Tasks : job[t].at \in {"show", "shown", "recorded"} /\ job[t].replaces # 0 =>
            o[job[t].replaces] = job[t].key
    BY <1>o DEF Owns, IdsOwn, JobsOwn, ScreenOwns
<1>f. Notify!Orderly
  <2>1. overlapped \in BOOLEAN /\ missed \in BOOLEAN
      BY DEF NoteTypes
  <2> QED
      BY <2>1 DEF Notify!Next, Notify!Orderly, Notify!Post, Notify!PostUnsent, Notify!Arrive,
         Notify!Remove, Notify!Removed, Notify!SendRemoval, Notify!Reconnect,
         Notify!Task, Notify!Show, Notify!Begin, Notify!Notify, Notify!NotifyFails, Notify!ShownAs,
         Notify!Record, Notify!Recorded, Notify!Aim, Notify!Dismiss, Notify!CloseNotification,
         Notify!Expire, Notify!Close, Notify!PressReply, Notify!Listen, note
<1>g. OneAtWork /\ LastTells /\ ShowIsLatest /\ OneEach /\ TextsFollow /\ ButtonsLead
    BY <1>f DEF Follows
<1>i. Notify!None.at = "idle"
    BY DEF Notify!None
<1> HIDE DEF Shape
<1> USE DEF Notify!phone, Notify!maps, Notify!screen

(* What is sent about a key is the last message about it.                  *)
<1>a. ASSUME NEW m \in Message, bus' = Append(bus, m),
             m.key \in Keys => told'[m.key] = IF m.at = "show" THEN m.text ELSE 0,
             \A k \in Keys \ {m.key} : told'[k] = told[k],
             UNCHANGED <<ids, viewTargets, openTargets, replyTargets, desktop, job>>
      PROVE  Goal
  <2>1. /\ Len(bus) \in Nat /\ Len(bus') = Len(bus) + 1 /\ bus'[Len(bus')] = m
        /\ \A n \in 1 .. Len(bus) : bus'[n] = bus[n]
      BY <1>a, <1>t
  <2>2. OnWay' = OnWay \cup {m.key}
    <3>1. \A n \in 1 .. Len(bus') : n = Len(bus') \/ n \in 1 .. Len(bus)
        BY <2>1
    <3>2. \A n \in 1 .. Len(bus) : n \in 1 .. Len(bus')
        BY <2>1
    <3>3. Len(bus') \in 1 .. Len(bus')
        BY <2>1
    <3> QED
        BY <2>1, <3>1, <3>2, <3>3 DEF OnWay
  <2>3. LastTells'
    <3> SUFFICES ASSUME NEW n \in 1 .. Len(bus'), bus'[n].key \in Keys,
                        \A x \in 1 .. Len(bus') : x > n => bus'[x].key # bus'[n].key
                 PROVE  told'[bus'[n].key] = IF bus'[n].at = "show" THEN bus'[n].text ELSE 0
        BY DEF LastTells
    <3>1. CASE n = Len(bus')
        BY <1>a, <2>1, <3>1
    <3>2. CASE n # Len(bus')
      <4>1. n \in 1 .. Len(bus) /\ bus'[n] = bus[n] /\ bus[n].key # m.key
          BY <2>1, <3>2
      <4>2. \A x \in 1 .. Len(bus) : x > n => bus[x].key # bus[n].key
          BY <2>1, <4>1
      <4> QED
          BY <1>a, <1>g, <4>1, <4>2 DEF LastTells
    <3> QED
        BY <3>1, <3>2
  <2>4. UNCHANGED <<Keyed("show"), Keyed("shown"), Keyed("recorded"), Showing, Fresh, Aimed, Closed>>
      BY <1>a DEF Keyed, Showing, Fresh, Aimed, Closed
  <2>5. OneAtWork'
      BY <1>a, <1>g DEF OneAtWork
  <2>6. ShowIsLatest'
      BY <1>a, <1>g, <2>2, <2>4 DEF ShowIsLatest
  <2>7. OneEach'
      BY <1>a, <1>g, <2>4 DEF OneEach, Notify!Open
  <2>8. TextsFollow'
      BY <1>a, <1>g, <2>2, <2>4 DEF TextsFollow, Notify!Open
  <2>9. ButtonsLead'
      BY <1>a, <1>g, <2>4 DEF ButtonsLead, Notify!Open
  <2> QED
      BY <2>3, <2>5, <2>6, <2>7, <2>8, <2>9
<1>1. ASSUME NEW k \in Keys \cup {Page}, Notify!Post(k) PROVE Goal
  <2> DEFINE m == [at |-> "show", key |-> k, text |-> posts']
  <2>1. m \in Message
      BY <1>t, <1>1 DEF Notify!Post, Notify!Arrive, Message
  <2>2. bus' = Append(bus, m) /\ UNCHANGED <<ids, viewTargets, openTargets, replyTargets, desktop, job>>
      BY <1>1 DEF Notify!Post, Notify!Arrive
  <2>3. /\ k \in Keys => told'[k] = posts'
        /\ \A x \in Keys \ {k} : told'[x] = told[x]
      BY <1>t, <1>1, ServicesAssumption DEF Notify!Post, Notify!Arrive, Shape
  <2> HIDE DEF Goal
  <2> QED
      BY <1>a, <2>1, <2>2, <2>3

(* What concerns none of this.                                             *)
<1>b. ASSUME UNCHANGED <<bus, told, ids, viewTargets, openTargets, replyTargets, desktop, job>>
      PROVE  Goal
  <2>1. UNCHANGED <<OnWay, Keyed("show"), Keyed("shown"), Keyed("recorded"),
                    Showing, Fresh, Aimed, Closed>>
      BY <1>b DEF OnWay, Keyed, Showing, Fresh, Aimed, Closed
  <2>2. OneAtWork' /\ LastTells'
      BY <1>b, <1>g DEF OneAtWork, LastTells
  <2>3. ShowIsLatest' /\ OneEach'
      BY <1>b, <1>g, <2>1 DEF ShowIsLatest, OneEach, Notify!Open
  <2>4. TextsFollow' /\ ButtonsLead'
      BY <1>b, <1>g, <2>1 DEF TextsFollow, ButtonsLead, Notify!Open
  <2> QED
      BY <2>2, <2>3, <2>4
<1>u. ASSUME NEW k \in Keys, Notify!PostUnsent(k) PROVE Goal
  <2> HIDE DEF Goal
  <2> QED
      BY <1>u, <1>b DEF Notify!PostUnsent, Notify!Arrive
<1>2. ASSUME NEW k \in Keys, Notify!Remove(k) PROVE Goal
  <2>1. UNCHANGED <<ids, viewTargets, openTargets, replyTargets, desktop, job>>
      BY <1>2 DEF Notify!Remove, Notify!Removed
  <2>2. CASE k \in withheld
    <3>1. UNCHANGED <<bus, told>>
        BY <1>2, <2>2 DEF Notify!Remove
    <3> HIDE DEF Goal
    <3> QED
        BY <1>b, <2>1, <3>1
  <2>3. CASE k \notin withheld
    <3> DEFINE m == [at |-> "gone", key |-> k]
    <3>1. m \in Message
        BY DEF Message
    <3>2. bus' = Append(bus, m)
        BY <1>2, <2>3 DEF Notify!Remove, Notify!SendRemoval
    <3>3. told'[k] = 0 /\ \A x \in Keys \ {k} : told'[x] = told[x]
        BY <1>t, <1>2, <2>3 DEF Notify!Remove, Notify!SendRemoval, Shape
    <3> HIDE DEF Goal
    <3> QED
        BY <1>a, <2>1, <3>1, <3>2, <3>3
  <2> QED
      BY <2>2, <2>3
<1>3. ASSUME NEW t \in Tasks, Notify!Reconnect(t) PROVE Goal
  <2> HIDE DEF Goal
  <2> QED
      BY <1>3, <1>b DEF Notify!Reconnect, Notify!Orderly

(* What a task takes from the stream, and what is left there.              *)
<1>c. ASSUME bus # <<>>, bus' = Tail(bus), told' = told
      PROVE  /\ LastTells' /\ OnWay \ {Head(bus).key} \subseteq OnWay'
             /\ Head(bus).key \in Keys \ OnWay' =>
                  told[Head(bus).key] = IF Head(bus).at = "show" THEN Head(bus).text ELSE 0
  <2>1. /\ Len(bus) \in Nat \ {0} /\ Len(bus') = Len(bus) - 1 /\ Head(bus) = bus[1]
        /\ \A n \in 1 .. Len(bus') : bus'[n] = bus[n + 1]
      BY <1>c, <1>t
  <2>2. \A x \in 1 .. Len(bus) : x # 1 => x - 1 \in 1 .. Len(bus') /\ bus'[x - 1] = bus[x]
      BY <2>1
  <2>3. \A x \in 1 .. Len(bus) : x # 1 => bus[x].key \in OnWay'
      BY <2>2 DEF OnWay
  <2>4. LastTells'
    <3> SUFFICES ASSUME NEW n \in 1 .. Len(bus'), bus'[n].key \in Keys,
                        \A x \in 1 .. Len(bus') : x > n => bus'[x].key # bus'[n].key
                 PROVE  told'[bus'[n].key] = IF bus'[n].at = "show" THEN bus'[n].text ELSE 0
        BY DEF LastTells
    <3>1. n + 1 \in 1 .. Len(bus) /\ bus'[n] = bus[n + 1]
        BY <2>1
    <3>2. \A x \in 1 .. Len(bus) : x > n + 1 => bus[x].key # bus[n + 1].key
      <4> SUFFICES ASSUME NEW x \in 1 .. Len(bus), x > n + 1 PROVE bus[x].key # bus[n + 1].key
          OBVIOUS
      <4>1. x - 1 \in 1 .. Len(bus') /\ bus'[x - 1] = bus[x] /\ x - 1 > n
          BY <2>2
      <4> QED
          BY <3>1, <4>1
    <3> QED
        BY <1>c, <1>g, <3>1, <3>2 DEF LastTells
  <2>5. OnWay \ {Head(bus).key} \subseteq OnWay'
    <3> SUFFICES ASSUME NEW x \in 1 .. Len(bus), bus[x].key # Head(bus).key
                 PROVE  bus[x].key \in OnWay'
        BY DEF OnWay
    <3> QED
        BY <2>1, <2>3
  <2>6. Head(bus).key \in Keys \ OnWay' =>
            told[Head(bus).key] = IF Head(bus).at = "show" THEN Head(bus).text ELSE 0
    <3> SUFFICES ASSUME Head(bus).key \in Keys \ OnWay'
                 PROVE  told[Head(bus).key] = IF Head(bus).at = "show" THEN Head(bus).text ELSE 0
        OBVIOUS
    <3>1. \A x \in 1 .. Len(bus) : x > 1 => bus[x].key # bus[1].key
        BY <2>1, <2>3
    <3>2. 1 \in 1 .. Len(bus)
        BY <2>1
    <3> QED
        BY <1>g, <2>1, <3>1, <3>2 DEF LastTells
  <2> QED
      BY <2>4, <2>5, <2>6
<1>4. ASSUME NEW t \in Tasks, Notify!Show(t) PROVE Goal
  <2> DEFINE m == Head(bus)
             r == IF m.key = Page THEN 0 ELSE ids[m.key]
             j == [at |-> "show", key |-> m.key, text |-> m.text, replaces |-> r]
  <2>1. /\ bus # <<>> /\ m.at = "show" /\ bus' = Tail(bus) /\ job' = [job EXCEPT ![t] = j]
        /\ job[t] = Notify!None
        /\ overlapped' = (overlapped \/ \E u \in Tasks \ {t} : job[u] # Notify!None)
        /\ UNCHANGED <<told, ids, viewTargets, openTargets, replyTargets, desktop>>
      BY <1>4 DEF Notify!Show, Notify!Begin
  <2>2. \A u \in Tasks : job[u].at = "idle"
      BY <1>i, <2>1 DEF Notify!Orderly
  <2>3. job'[t] = j /\ \A u \in Tasks \ {t} : job'[u].at = "idle"
      BY <1>t, <2>1, <2>2 DEF Shape
  <2>4. /\ LastTells' /\ OnWay \ {m.key} \subseteq OnWay'
        /\ m.key \in Keys \ OnWay' => told[m.key] = m.text
      BY <2>1, <1>c
  <2>5. Fresh = {} /\ Aimed = {} /\ Closed = {} /\ Showing = {}
      BY <2>2 DEF Keyed, Fresh, Aimed, Closed, Showing
  <2>6. /\ Keyed("show")' = {t} /\ Keyed("shown")' = {} /\ Keyed("recorded")' = {}
        /\ Keyed("close")' = {}
      BY <2>3 DEF Keyed
  <2>7. /\ Showing' = {m.key} /\ Fresh' = {} /\ Aimed' = {} /\ Closed' = {}
      BY <2>3, <2>6 DEF Showing, Fresh, Aimed, Closed
  <2>8. OneAtWork'
      BY <2>3 DEF OneAtWork
  <2>9. ShowIsLatest'
    <3>1. j.key = m.key /\ j.text = m.text /\ (m.key \in Keys => j.replaces = ids[m.key])
        BY ServicesAssumption
    <3> HIDE DEF j, m
    <3> QED
        BY <2>1, <2>3, <2>4, <2>6, <3>1 DEF ShowIsLatest
  <2> HIDE DEF m, j
  <2>10. OneEach'
      BY <1>g, <2>1, <2>5, <2>6, <2>7 DEF OneEach, Notify!Open
  <2>11. TextsFollow'
      BY <1>g, <2>1, <2>4, <2>5, <2>6, <2>7 DEF TextsFollow, Notify!Open
  <2>12. ButtonsLead'
      BY <1>g, <2>1, <2>5, <2>7 DEF ButtonsLead, Notify!Open
  <2> QED
      BY <2>4, <2>8, <2>9, <2>10, <2>11, <2>12
<1>5. ASSUME NEW t \in Tasks, Notify!NotifyFails(t) PROVE Goal
    BY <1>5 DEF Notify!NotifyFails, Notify!Orderly
<1>6. ASSUME NEW t \in Tasks, NEW i \in Notify!Ids, Notify!ShownAs(t, i) PROVE Goal
  <2> DEFINE k == job[t].key
             j == [at |-> "shown", key |-> k, text |-> job[t].text, replaces |-> i]
             d == [key |-> k, text |-> job[t].text]
  <2>1. /\ job[t].at = "show" /\ job' = [job EXCEPT ![t] = j]
        /\ desktop' = [desktop EXCEPT ![i] = d]
        /\ i = job[t].replaces \/ ~(job[t].replaces \in Notify!Ids /\ Notify!Open(job[t].replaces))
        /\ UNCHANGED <<bus, told, ids, viewTargets, openTargets, replyTargets>>
      BY <1>6 DEF Notify!ShownAs
  <2>2. \A u \in Tasks \ {t} : job[u].at = "idle"
      BY <1>g, <2>1 DEF OneAtWork
  <2>3. job'[t] = j /\ \A u \in Tasks \ {t} : job'[u].at = "idle"
      BY <1>t, <2>1, <2>2 DEF Shape
  <2>4. Keyed("show") = {t} /\ Keyed("shown") = {} /\ Keyed("recorded") = {} /\ Keyed("close") = {}
      BY <2>1, <2>2 DEF Keyed
  <2>5. Showing = {k} /\ Fresh = {} /\ Aimed = {} /\ Closed = {}
      BY <2>4 DEF Showing, Fresh, Aimed, Closed
  <2>6. /\ Keyed("show")' = {} /\ Keyed("shown")' = {t} /\ Keyed("recorded")' = {}
        /\ Keyed("close")' = {}
      BY <2>3 DEF Keyed
  <2>7. Showing' = {} /\ Fresh' = {k} /\ Aimed' = {i} /\ Closed' = {}
      BY <2>3, <2>6 DEF Showing, Fresh, Aimed, Closed
  <2>8. /\ desktop'[i].key = k /\ desktop'[i].text = job[t].text
        /\ \A n \in Notify!Ids \ {i} : desktop'[n] = desktop[n]
      BY <1>t, <2>1 DEF Shape
  <2>9. job'[t].key = k /\ job'[t].text = job[t].text /\ job'[t].replaces = i
      BY <2>3
  <2>10. OnWay' = OnWay
      BY <2>1 DEF OnWay
  <2>11. k \in Keys => job[t].replaces = ids[k] /\ (k \notin OnWay => job[t].text = told[k])
      BY <1>g, <2>4 DEF ShowIsLatest
  <2> HIDE DEF d, j, k
  <2>12. OneAtWork' /\ LastTells'
      BY <1>g, <2>1, <2>3 DEF OneAtWork, LastTells
  <2>13. ShowIsLatest'
      BY <2>6 DEF ShowIsLatest
  <2>14. \A n \in Notify!Ids \ {i} : Notify!Open(n) /\ desktop[n].key \in Keys => desktop[n].key # k
      BY <1>g, <2>1, <2>5, <2>11 DEF OneEach
  <2>15. OneEach'
    <3> SUFFICES ASSUME NEW n \in Notify!Ids, Notify!Open(n)', desktop'[n].key \in Keys
                 PROVE  /\ desktop'[n].key = k => n = i
                        /\ desktop'[n].key # k => n = ids[desktop'[n].key]
        BY <2>1, <2>6, <2>7, <2>9 DEF OneEach
    <3>1. CASE n = i
        BY <2>8, <3>1
    <3>2. CASE n # i
      <4>1. desktop'[n] = desktop[n] /\ Notify!Open(n)
          BY <2>8, <3>2 DEF Notify!Open
      <4> QED
          BY <1>g, <2>5, <2>14, <3>2, <4>1 DEF OneEach
    <3> QED
        BY <3>1, <3>2
  <2>16. TextsFollow'
    <3> SUFFICES ASSUME NEW n \in Notify!Ids, Notify!Open(n)'
                 PROVE  /\ desktop'[n].key \in Keys \ OnWay => desktop'[n].text = told[desktop'[n].key]
                        /\ n = i => desktop'[n].text = job'[t].text
        BY <2>1, <2>6, <2>7, <2>9, <2>10 DEF TextsFollow
    <3>1. CASE n = i
        BY <2>8, <2>9, <2>11, <3>1
    <3>2. CASE n # i
      <4>1. desktop'[n] = desktop[n] /\ Notify!Open(n)
          BY <2>8, <3>2 DEF Notify!Open
      <4> QED
          BY <1>g, <2>5, <2>14, <3>2, <4>1 DEF TextsFollow
    <3> QED
        BY <3>1, <3>2
  <2>17. ButtonsLead'
      BY <1>g, <2>1, <2>5, <2>7, <2>8 DEF ButtonsLead, Notify!Open
  <2> QED
      BY <2>12, <2>13, <2>15, <2>16, <2>17
<1>7. ASSUME NEW t \in Tasks, Notify!Record(t) PROVE Goal
  <2> DEFINE j == [job[t] EXCEPT !.at = "recorded"]
             k == job[t].key
  <2>1. /\ job[t].at = "shown" /\ job' = [job EXCEPT ![t] = j]
        /\ ids' = IF k = Page THEN ids ELSE [ids EXCEPT ![k] = job[t].replaces]
        /\ UNCHANGED <<bus, told, desktop, viewTargets, openTargets, replyTargets>>
      BY <1>7 DEF Notify!Record, Notify!Recorded
  <2>2. \A u \in Tasks \ {t} : job[u].at = "idle"
      BY <1>g, <2>1 DEF OneAtWork
  <2>3. \A u \in Tasks \ {t} : job'[u].at = "idle"
      BY <1>t, <2>1, <2>2 DEF Shape
  <2>4. /\ job'[t].at = "recorded" /\ job'[t].key = k /\ job'[t].text = job[t].text
        /\ job'[t].replaces = job[t].replaces
    <3>1. job'[t] = j /\ job[t] \in Shown
        BY <1>t, <2>1, JobShapes DEF Shape
    <3> QED
        BY <3>1 DEF Shown
  <2>5. Keyed("show") = {} /\ Keyed("shown") = {t} /\ Keyed("recorded") = {} /\ Keyed("close") = {}
      BY <2>1, <2>2 DEF Keyed
  <2>6. Showing = {} /\ Fresh = {k} /\ Aimed = {job[t].replaces} /\ Closed = {}
      BY <2>5 DEF Showing, Fresh, Aimed, Closed
  <2>7. /\ Keyed("show")' = {} /\ Keyed("shown")' = {} /\ Keyed("recorded")' = {t}
        /\ Keyed("close")' = {}
      BY <2>3, <2>4 DEF Keyed
  <2>8. Showing' = {} /\ Fresh' = {} /\ Aimed' = {job[t].replaces} /\ Closed' = {}
      BY <2>4, <2>7 DEF Showing, Fresh, Aimed, Closed
  <2>9. \A x \in Keys : ids'[x] = IF x = k THEN job[t].replaces ELSE ids[x]
      BY <1>t, <2>1, ServicesAssumption DEF Shape
  <2>10. OnWay' = OnWay
      BY <2>1 DEF OnWay
  <2> HIDE DEF j, k
  <2>11. OneAtWork' /\ LastTells'
      BY <1>g, <2>1, <2>3 DEF OneAtWork, LastTells
  <2>12. ShowIsLatest'
      BY <2>7 DEF ShowIsLatest
  <2>13. OneEach'
    <3>1. \A n \in Notify!Ids : Notify!Open(n) /\ desktop[n].key \in Keys => n = ids'[desktop[n].key]
        BY <1>g, <2>5, <2>6, <2>9 DEF OneEach, k
    <3> QED
        BY <2>1, <2>7, <2>8, <3>1 DEF OneEach, Notify!Open
  <2>14. TextsFollow'
      BY <1>g, <2>1, <2>4, <2>5, <2>6, <2>7, <2>8, <2>10 DEF TextsFollow, Notify!Open
  <2>15. ButtonsLead'
      BY <1>g, <2>1, <2>6, <2>8 DEF ButtonsLead, Notify!Open
  <2> QED
      BY <2>11, <2>12, <2>13, <2>14, <2>15
<1>8. ASSUME NEW t \in Tasks, Notify!Aim(t) PROVE Goal
  <2> DEFINE k == job[t].key
             i == job[t].replaces
  <2>1. /\ job[t].at = "recorded" /\ job' = [job EXCEPT ![t] = Notify!None]
        /\ openTargets' = IF k = Page THEN [openTargets EXCEPT ![i] = job[t].text] ELSE openTargets
        /\ viewTargets' = IF k \in Talks THEN [viewTargets EXCEPT ![i] = job[t].text] ELSE viewTargets
        /\ replyTargets' = IF k \in Talks THEN [replyTargets EXCEPT ![i] = k] ELSE replyTargets
        /\ UNCHANGED <<bus, told, ids, desktop>>
      BY <1>8 DEF Notify!Aim
  <2>2. i \in Notify!Ids /\ i # 0
    <3>1. job[t] \in Shown /\ job[t].replaces # 0
        BY <2>1, JobShapes DEF NoteTypes
    <3> QED
        BY <3>1, ServicesAssumption DEF Shown, Notify!Ids
  <2>3. \A u \in Tasks \ {t} : job[u].at = "idle"
      BY <1>g, <2>1 DEF OneAtWork
  <2>4. \A u \in Tasks : job'[u].at = "idle"
      BY <1>t, <1>i, <2>1, <2>3 DEF Shape
  <2>5. Keyed("show") = {} /\ Keyed("shown") = {} /\ Keyed("recorded") = {t} /\ Keyed("close") = {}
      BY <2>1, <2>3 DEF Keyed
  <2>6. Showing = {} /\ Fresh = {} /\ Aimed = {i} /\ Closed = {}
      BY <2>5 DEF Showing, Fresh, Aimed, Closed
  <2>7. /\ Keyed("show")' = {} /\ Keyed("shown")' = {} /\ Keyed("recorded")' = {}
        /\ Keyed("close")' = {}
      BY <2>4 DEF Keyed
  <2>8. Showing' = {} /\ Fresh' = {} /\ Aimed' = {} /\ Closed' = {}
      BY <2>7 DEF Showing, Fresh, Aimed, Closed
  <2>9. Notify!Open(i) => desktop[i].key = k /\ desktop[i].text = job[t].text
    <3>1. Notify!Open(i) => desktop[i].text = job[t].text
        BY <1>g, <2>2, <2>5 DEF TextsFollow
    <3> QED
        BY <1>e, <2>1, <2>2, <3>1
  <2>10. OnWay' = OnWay
      BY <2>1 DEF OnWay
  <2>11. /\ k = Page => openTargets'[i] = job[t].text
         /\ k \in Talks => viewTargets'[i] = job[t].text /\ replyTargets'[i] = k
         /\ \A n \in Notify!Ids \ {i} : /\ openTargets'[n] = openTargets[n]
                                        /\ viewTargets'[n] = viewTargets[n]
                                        /\ replyTargets'[n] = replyTargets[n]
      BY <1>t, <2>1, <2>2 DEF Shape
  <2> HIDE DEF k, i
  <2>12. OneAtWork' /\ LastTells'
      BY <1>g, <2>1, <2>4 DEF OneAtWork, LastTells
  <2>13. ShowIsLatest'
      BY <2>7 DEF ShowIsLatest
  <2>14. OneEach'
      BY <1>g, <2>1, <2>6, <2>7 DEF OneEach, Notify!Open
  <2>15. TextsFollow'
      BY <1>g, <2>1, <2>6, <2>7, <2>10 DEF TextsFollow, Notify!Open
  <2>16. ButtonsLead'
      BY <1>g, <2>1, <2>6, <2>9, <2>11 DEF ButtonsLead, Notify!Open
  <2> QED
      BY <2>12, <2>13, <2>14, <2>15, <2>16
<1>9. ASSUME NEW t \in Tasks, Notify!Dismiss(t) PROVE Goal
  <2> DEFINE k == Head(bus).key
             i == ids[k]
  <2>1. /\ bus # <<>> /\ Head(bus).at = "gone" /\ bus' = Tail(bus) /\ job[t] = Notify!None
        /\ overlapped' = (overlapped \/ \E u \in Tasks \ {t} : job[u] # Notify!None)
        /\ UNCHANGED <<told, desktop, viewTargets, openTargets>>
      BY <1>9 DEF Notify!Dismiss
  <2>2. \A u \in Tasks : job[u].at = "idle"
      BY <1>i, <2>1 DEF Notify!Orderly
  <2>3. /\ LastTells' /\ OnWay \ {k} \subseteq OnWay'
      BY <2>1, <1>c
  <2>4. k \in Keys
      BY <2>1, BusShape DEF Message
  <2>5. Keyed("show") = {} /\ Keyed("shown") = {} /\ Keyed("recorded") = {} /\ Keyed("close") = {}
      BY <2>2 DEF Keyed
  <2>6. Showing = {} /\ Fresh = {} /\ Aimed = {} /\ Closed = {}
      BY <2>5 DEF Showing, Fresh, Aimed, Closed
  <2>7. /\ ids' = [ids EXCEPT ![k] = 0]
        /\ i \in Notify!Ids => replyTargets' = [replyTargets EXCEPT ![i] = Page]
        /\ i \notin Notify!Ids => replyTargets' = replyTargets
        /\ \A u \in Tasks : job'[u].at # "idle" =>
            u = t /\ i \in Notify!Ids /\ job'[u].at = "close" /\ job'[u].id = i
        /\ i \in Notify!Ids => job'[t].at = "close" /\ job'[t].id = i
    <3>1. CASE i = 0
      <4>1. UNCHANGED <<ids, replyTargets, job>>
          BY <1>9, <3>1 DEF Notify!Dismiss
      <4>2. ids = [ids EXCEPT ![k] = 0]
          BY <1>t, <3>1 DEF Shape
      <4>3. 0 \notin Notify!Ids
          BY DEF Notify!Ids
      <4> QED
          BY <2>2, <3>1, <4>1, <4>2, <4>3
    <3>2. CASE i # 0
      <4>1. i \in Notify!Ids
          BY <1>t, <2>4, <3>2, ServicesAssumption DEF Shape, Notify!Ids
      <4>2. /\ ids' = [ids EXCEPT ![k] = 0]
            /\ replyTargets' = [replyTargets EXCEPT ![i] = Page]
            /\ job' = [job EXCEPT ![t] = [at |-> "close", id |-> i]]
          BY <1>9, <3>2 DEF Notify!Dismiss
      <4>3. job'[t].at = "close" /\ job'[t].id = i /\ \A u \in Tasks \ {t} : job'[u] = job[u]
          BY <1>t, <4>2 DEF Shape
      <4> QED
          BY <2>2, <4>1, <4>2, <4>3
    <3> QED
        BY <3>1, <3>2
  <2>8. /\ Keyed("show")' = {} /\ Keyed("shown")' = {} /\ Keyed("recorded")' = {}
      BY <2>7 DEF Keyed
  <2>9. Showing' = {} /\ Fresh' = {} /\ Aimed' = {}
      BY <2>8 DEF Showing, Fresh, Aimed
  <2>10. i \in Notify!Ids => i \in Closed'
      BY <2>7 DEF Closed, Keyed
  <2>11. /\ \A x \in Keys \ {k} : ids'[x] = ids[x]
         /\ \A n \in Notify!Ids \ {i} : replyTargets'[n] = replyTargets[n]
      BY <1>t, <2>7 DEF Shape
  <2>12. \A n \in Notify!Ids : Notify!Open(n) /\ n \notin Closed' => desktop[n].key # k
      BY <1>g, <2>4, <2>6, <2>10 DEF OneEach
  <2> HIDE DEF k, i
  <2>13. OneAtWork'
      BY <2>7 DEF OneAtWork
  <2>14. ShowIsLatest'
      BY <2>8 DEF ShowIsLatest
  <2>15. OneEach'
      BY <1>g, <2>1, <2>6, <2>8, <2>11, <2>12 DEF OneEach, Notify!Open
  <2>16. TextsFollow'
      BY <1>g, <2>1, <2>3, <2>6, <2>8, <2>12 DEF TextsFollow, Notify!Open
  <2>17. ButtonsLead'
      BY <1>g, <2>1, <2>6, <2>10, <2>11 DEF ButtonsLead, Notify!Open
  <2> QED
      BY <2>3, <2>13, <2>14, <2>15, <2>16, <2>17

(* What is closed is open no more.                                         *)
<1>d. ASSUME NEW i \in Notify!Ids, Notify!Vanish(i),
             UNCHANGED <<bus, told, ids, viewTargets, openTargets, replyTargets>>,
             \A u \in Tasks : \/ job'[u] = job[u]
                              \/ job[u].at = "close" /\ job[u].id = i /\ job'[u].at = "idle"
      PROVE  Goal
  <2>1. ~Notify!Open(i)' /\ \A n \in Notify!Ids \ {i} : desktop'[n] = desktop[n]
      BY <1>t, <1>d DEF Notify!Vanish, Notify!Open, Shape
  <2>2. UNCHANGED <<Keyed("show"), Keyed("shown"), Keyed("recorded")>>
      BY <1>d DEF Keyed
  <2>3. \A u \in Keyed("show") \cup Keyed("shown") \cup Keyed("recorded") : job'[u] = job[u]
      BY <1>d DEF Keyed
  <2>4. UNCHANGED <<Showing, Fresh, Aimed>>
      BY <2>2, <2>3 DEF Showing, Fresh, Aimed
  <2>5. Closed \ {i} \subseteq Closed'
      BY <1>d DEF Closed, Keyed
  <2>6. OnWay' = OnWay
      BY <1>d DEF OnWay
  <2>7. OneAtWork' /\ LastTells'
      BY <1>d, <1>g DEF OneAtWork, LastTells
  <2>8. ShowIsLatest'
      BY <1>d, <1>g, <2>2, <2>3, <2>6 DEF ShowIsLatest
  <2>9. OneEach'
      BY <1>d, <1>g, <2>1, <2>2, <2>3, <2>4, <2>5 DEF OneEach, Notify!Open
  <2>10. TextsFollow'
      BY <1>d, <1>g, <2>1, <2>2, <2>3, <2>4, <2>5, <2>6 DEF TextsFollow, Notify!Open
  <2>11. ButtonsLead'
      BY <1>d, <1>g, <2>1, <2>4, <2>5 DEF ButtonsLead, Notify!Open
  <2> QED
      BY <2>7, <2>8, <2>9, <2>10, <2>11
<1>10. ASSUME NEW t \in Tasks, Notify!CloseNotification(t) PROVE Goal
  <2>1. job[t].at = "close" /\ job[t].id \in Notify!Ids
      BY <1>10, JobShapes DEF Notify!CloseNotification, Closing
  <2>2. \A u \in Tasks : \/ job'[u] = job[u]
                         \/ job[u].at = "close" /\ job[u].id = job[t].id /\ job'[u].at = "idle"
      BY <1>t, <1>i, <1>10 DEF Notify!CloseNotification, Shape
  <2> HIDE DEF Goal
  <2> QED
      BY <1>10, <1>d, <2>1, <2>2 DEF Notify!CloseNotification
<1> HIDE DEF Goal
<1>11. ASSUME NEW i \in Notify!Ids, Notify!Expire(i) PROVE Goal
    BY <1>11, <1>d DEF Notify!Expire
<1>x. ASSUME NEW i \in Notify!Ids, Notify!Close(i) PROVE Goal
    BY <1>x, <1>d DEF Notify!Close
<1>12. ASSUME NEW i \in Notify!Ids, Notify!PressReply(i) PROVE Goal
    BY <1>12, <1>b DEF Notify!PressReply
<1>13. CASE Notify!Listen
    BY <1>13, <1>b DEF Notify!Listen
<1>14. CASE UNCHANGED note
    BY <1>14, <1>b DEF note
<1> QED
    BY <1>1, <1>u, <1>2, <1>3, <1>4, <1>5, <1>6, <1>7, <1>8, <1>9, <1>10, <1>11, <1>x, <1>12,
       <1>13, <1>14
       DEF Notify!Next, Notify!Task, Notify!Notify

(* The desktop shows what the phone last sent of each notification, and    *)
(* its buttons lead to what they stand on, while no tasks meet and nothing *)
(* is lost (notifications.rs, show, show_handoff and dismiss).                     *)
THEOREM DesktopIsRight == Spec => []DesktopFollowsPhone
<1> DEFINE Inv == NoteTypes /\ IdsHaveOwners /\ Follows
<1>1. Init => Inv
  <2>1. Notify!Init => Follows
    <3> SUFFICES ASSUME Notify!Init PROVE Follows
        OBVIOUS
    <3>1. /\ \A t \in Tasks : job[t].at = "idle"
          /\ \A i \in Notify!Ids : ~Notify!Open(i)
          /\ Len(bus) = 0
        BY DEF Notify!Init, Notify!None, Notify!Open
    <3> QED
        BY <3>1 DEF Follows, OneAtWork, LastTells, ShowIsLatest, OneEach, TextsFollow,
                    ButtonsLead, Keyed
  <2> QED
      BY <2>1, NoteInit DEF Init
<1>2. Inv /\ [Next]_vars => Inv'
    BY OneRuns, NoteTypeStep, OwnerStep, FollowStep
<1>3. Inv => DesktopFollowsPhone
  <2> SUFFICES ASSUME Inv, Notify!Orderly, Notify!Quiet, NEW i \in Notify!Ids, Notify!Open(i)
               PROVE  LET d == desktop[i] IN
                      /\ d.key # Page => d.text = told[d.key]
                      /\ openTargets[i] = IF d.key = Page THEN d.text ELSE 0
                      /\ d.key \in Talks => viewTargets[i] = d.text /\ replyTargets[i] = d.key
      BY DEF DesktopFollowsPhone, Notify!DesktopFollowsPhone
  <2>1. PICK o \in [Notify!Ids -> Keys \cup {Page}] : Owns(o)
      BY DEF IdsHaveOwners
  <2>2. o[i] = desktop[i].key /\ (openTargets[i] # 0 => o[i] = Page)
      BY <2>1 DEF Owns, ScreenOwns
  <2>3. desktop[i].key \in Keys \cup {Page}
      BY DEF NoteTypes
  <2>4. Showing = {} /\ Aimed = {} /\ Closed = {} /\ OnWay = {}
      BY DEF Notify!Quiet, Showing, Aimed, Closed, OnWay, Keyed, Notify!None
  <2> QED
      BY <2>2, <2>3, <2>4 DEF Follows, TextsFollow, ButtonsLead
<1> QED
    BY <1>1, <1>2, <1>3, PTL DEF Spec

-----------------------------------------------------------------------------
(* Do not disturb (dnd.rs).  As long as no switches crossed, what the      *)
(* phone is going to have is what the PC has on record, or will have once  *)
(* it has noticed the first switch.                                        *)

Unread == Dnd!Switch \cup {"none"}

DndTyped ==
    /\ pcDnd \in Dnd!Switch /\ last \in Dnd!Switch /\ phoneDnd \in Dnd!Switch
    /\ lines \in Seq(Dnd!Switch) /\ pushes \in Seq(Dnd!Switch) /\ reports \in Seq(Dnd!Switch)
    /\ polled \in Unread /\ applying \in Unread /\ casts \in Nat
    /\ monitored \in BOOLEAN /\ online \in BOOLEAN /\ dndFromPc \in BOOLEAN /\ crossed \in BOOLEAN
    /\ dndFromPc => casts > 0
    /\ toggles \in Nat

\* The phone's setting once it has received what was pushed.
Heading == IF pushes = <<>> THEN phoneDnd ELSE pushes[Len(pushes)]

\* A switch of the phone is on its way to the PC.
Reporting == reports # <<>> \/ (casts > 0 /\ ~dndFromPc)

\* The PC has nothing to pass on.
PcRests == last = pcDnd /\ lines = <<>> /\ polled \in {"none", pcDnd} /\ pushes = <<>>

\* How often the PC may still push: a stale poll is pushed and taken back.
Due == IF last # pcDnd THEN 1 ELSE IF polled \in {"none", pcDnd} THEN 0 ELSE 2

ReportAlone ==
    Reporting =>
        /\ PcRests /\ applying = "none"
        /\ \/ reports = <<phoneDnd>> /\ casts = 0
           \/ reports = <<>> /\ casts = 1

ApplyAlone ==
    applying # "none" =>
        /\ polled \in {"none", pcDnd} /\ lines = <<>>
        /\ \/ last = applying /\ casts = 0 /\ pushes = <<>>
           \/ last = pcDnd /\ last # applying /\ ~monitored /\ casts + Len(pushes) <= 1

LinesTell ==
    /\ lines = <<>> \/ (lines = <<pcDnd>> /\ applying = "none" /\ monitored)
    /\ monitored => polled = "none"

FewPushes == applying = "none" => casts + Len(pushes) + Due <= IF monitored THEN 1 ELSE 2

\* Before the first switch nothing happens, whether or not the sides agree.
AtFirst == toggles = 0 => PcRests /\ applying = "none" /\ casts = 0 /\ reports = <<>>

\* The first switch, on the PC, may be to what the phone has anyhow.
HeadsRight ==
    ~Reporting =>
        \/ Heading = last
        \/ toggles = 0
        \/ applying = "none" /\ last # pcDnd /\ Heading = pcDnd

SwitchInv == ReportAlone /\ ApplyAlone /\ LinesTell /\ FewPushes /\ AtFirst /\ HeadsRight

LEMMA Queued ==
    ASSUME NEW S, NEW s \in Seq(S), NEW x \in S
    PROVE  /\ Append(s, x) \in Seq(S) /\ Append(s, x) # <<>> /\ Len(Append(s, x)) = Len(s) + 1
           /\ Append(s, x)[Len(Append(s, x))] = x /\ Len(s) \in Nat
           /\ s = <<>> => Append(s, x) = <<x>>
<1>1. /\ Append(s, x) \in Seq(S) /\ Len(Append(s, x)) = Len(s) + 1 /\ Len(s) \in Nat
      /\ Append(s, x)[Len(s) + 1] = x
    OBVIOUS
<1>2. Append(s, x) # <<>>
  <2>1. Len(Append(s, x)) # 0
      BY <1>1
  <2>2. Len(<<>>) = 0
      OBVIOUS
  <2> QED
      BY <2>1, <2>2, Zenon
<1>3. s = <<>> => Append(s, x) = <<x>>
  <2>1. Append(<<>>, x) = <<x>>
      OBVIOUS
  <2> QED
      BY <2>1, Zenon
<1> QED
    BY <1>1, <1>2, <1>3, Zenon

LEMMA Taken ==
    ASSUME NEW S, NEW s \in Seq(S), s # <<>>
    PROVE  /\ Tail(s) \in Seq(S) /\ Head(s) \in S /\ Len(s) \in Nat
           /\ Len(Tail(s)) = Len(s) - 1 /\ Len(s) >= 1
           /\ Tail(s) # <<>> => Tail(s)[Len(Tail(s))] = s[Len(s)]
           /\ Tail(s) = <<>> => s[Len(s)] = Head(s)
<1>1. /\ Tail(s) \in Seq(S) /\ Head(s) \in S /\ Len(s) \in Nat /\ Len(s) # 0
      /\ Len(Tail(s)) = Len(s) - 1 /\ \A i \in 1 .. Len(s) - 1 : Tail(s)[i] = s[i + 1]
      /\ Head(s) = s[1]
    OBVIOUS
<1>2. Tail(s) # <<>> => Len(Tail(s)) # 0
    BY <1>1
<1>3. Tail(s) = <<>> => Len(Tail(s)) = 0
  <2>1. Len(<<>>) = 0
      OBVIOUS
  <2> QED
      BY <2>1, Zenon
<1>4. Len(s) >= 1
    BY <1>1
<1>5. ASSUME Tail(s) # <<>> PROVE Tail(s)[Len(Tail(s))] = s[Len(s)]
  <2>1. Len(s) - 1 \in 1 .. Len(s) - 1
      BY <1>1, <1>2, <1>5
  <2> QED
      BY <1>1, <2>1
<1>6. ASSUME Tail(s) = <<>> PROVE s[Len(s)] = Head(s)
  <2>1. Len(s) = 1
      BY <1>1, <1>3, <1>6
  <2> QED
      BY <1>1, <2>1
<1> QED
    BY <1>1, <1>4, <1>5, <1>6

LEMMA NothingQueued ==
    ASSUME NEW S, NEW s \in Seq(S)
    PROVE  Len(s) \in Nat /\ (s = <<>> <=> Len(s) = 0) /\ <<>> \in Seq(S)
OBVIOUS

LEMMA NoneIsNoSwitch == "none" \notin Dnd!Switch
BY DEF Dnd!Switch

(* A comparison of the PC: nothing changes, or what was read is recorded   *)
(* and pushed.                                                             *)
LEMMA Compared ==
    ASSUME DndTyped, NEW cur \in Dnd!Switch, Dnd!Compare(cur)
    PROVE  /\ last' = cur /\ pushes' \in Seq(Dnd!Switch) /\ crossed' \in BOOLEAN
           /\ crossed' = FALSE => crossed = FALSE
           /\ last = cur => pushes' = pushes
           /\ last # cur /\ crossed' = FALSE => pushes' = Append(pushes, cur)
BY Queued DEF Dnd!Compare, Dnd!Push, DndTyped

LEMMA DndTypedStep == DndTyped /\ [Dnd!Next]_dnd => DndTyped'
<1> SUFFICES ASSUME DndTyped, [Dnd!Next]_dnd PROVE DndTyped'
    OBVIOUS
<1> USE DEF DndTyped, Unread, Dnd!desk, Dnd!hand
<1>1. CASE Dnd!MonitorLine
  <2>1. Tail(lines) \in Seq(Dnd!Switch) /\ Head(lines) \in Dnd!Switch
      BY <1>1, Taken DEF Dnd!MonitorLine
  <2> QED
      BY <1>1, <2>1, Compared DEF Dnd!MonitorLine
<1>2. CASE Dnd!PollRead
    BY <1>2 DEF Dnd!PollRead
<1>3. CASE Dnd!PollCompare
    BY <1>3, Compared DEF Dnd!PollCompare
<1>4. CASE Dnd!MonitorEnds
    BY <1>4, NothingQueued DEF Dnd!MonitorEnds
<1>5. CASE Dnd!ApplyFromPhone
    BY <1>5, Taken DEF Dnd!ApplyFromPhone
<1>6. CASE Dnd!ApplySet
    BY <1>6, Queued DEF Dnd!ApplySet, Dnd!SetPc
<1>7. CASE Dnd!ApplyDndFromPc
  <2>1. /\ UNCHANGED <<pcDnd, last, lines, polled, monitored, applying, reports, online, crossed, toggles>>
        /\ pushes' \in Seq(Dnd!Switch) /\ Head(pushes) \in Dnd!Switch
      BY <1>7, Taken DEF Dnd!ApplyDndFromPc
  <2>2. phoneDnd' \in Dnd!Switch /\ casts' \in Nat /\ dndFromPc' \in BOOLEAN /\ (dndFromPc' => casts' > 0)
    <3>1. CASE Head(pushes) = phoneDnd
        BY <1>7, <3>1 DEF Dnd!ApplyDndFromPc
    <3>2. CASE Head(pushes) # phoneDnd
      <4>1. phoneDnd' = Head(pushes) /\ dndFromPc' = TRUE /\ casts' = casts + 1
          BY <1>7, <3>2 DEF Dnd!ApplyDndFromPc
      <4> QED
          BY <2>1, <4>1
    <3> QED
        BY <3>1, <3>2
  <2> QED
      BY <2>1, <2>2
<1>8. CASE Dnd!OnReceive
  <2>1. reports' \in Seq(Dnd!Switch)
      BY <1>8, Queued DEF Dnd!OnReceive
  <2>2. casts' \in Nat /\ dndFromPc' = FALSE /\ crossed' \in BOOLEAN
      BY <1>8 DEF Dnd!OnReceive
  <2>3. UNCHANGED <<pcDnd, last, lines, polled, monitored, applying, pushes, online, phoneDnd,
                    toggles>>
      BY <1>8 DEF Dnd!OnReceive
  <2> QED
      BY <2>1, <2>2, <2>3
<1>9. CASE Dnd!TogglePc
    BY <1>9, Queued DEF Dnd!TogglePc, Dnd!Toggle, Dnd!SetPc, Dnd!Other, Dnd!Switch
<1>10. CASE Dnd!TogglePhone
    BY <1>10 DEF Dnd!TogglePhone, Dnd!Toggle, Dnd!Other, Dnd!Switch
<1>11. CASE Dnd!Disconnect
    BY <1>11, NothingQueued DEF Dnd!Disconnect
<1>12. CASE Dnd!Connect
    BY <1>12 DEF Dnd!Connect
<1>13. CASE UNCHANGED dnd
    BY <1>13 DEF dnd
<1> QED
    BY <1>1, <1>2, <1>3, <1>4, <1>5, <1>6, <1>7, <1>8, <1>9, <1>10, <1>11, <1>12, <1>13
       DEF Dnd!Next, Dnd!Pc

\* Two switches that differ from a third are the same.
LEMMA TwoWays ==
    ASSUME NEW x \in Dnd!Switch
    PROVE  /\ x # "none" /\ Dnd!Other(x) # x /\ Dnd!Other(x) \in Dnd!Switch
           /\ \A y, z \in Dnd!Switch : y # x /\ z # x => y = z
BY DEF Dnd!Switch, Dnd!Other

(* A step that crosses nothing keeps what the PC has on record ahead of    *)
(* the phone (dnd.rs; applyDndFromPc and startDndSync).                    *)
LEMMA SwitchStep ==
    ASSUME DndTyped, SwitchInv, [Dnd!Next]_dnd, crossed' = FALSE
    PROVE  SwitchInv'
<1>t. DndTyped'
    BY DndTypedStep
<1>n. /\ casts \in Nat /\ Len(pushes) \in Nat /\ (pushes = <<>> <=> Len(pushes) = 0)
      /\ pcDnd \in Dnd!Switch /\ last \in Dnd!Switch /\ phoneDnd \in Dnd!Switch
      /\ polled \in Unread /\ applying \in Unread /\ Due \in {0, 1, 2}
    BY NothingQueued DEF DndTyped, Due
<1>p. /\ casts' \in Nat /\ Len(pushes') \in Nat /\ (pushes' = <<>> <=> Len(pushes') = 0)
    BY <1>t, NothingQueued DEF DndTyped
<1> USE DEF Dnd!desk, Dnd!hand
<1>1. CASE Dnd!MonitorLine
  <2>1. /\ lines = <<pcDnd>> /\ applying = "none" /\ monitored /\ polled = "none"
        /\ ~Reporting /\ toggles # 0
      BY <1>1 DEF Dnd!MonitorLine, SwitchInv, LinesTell, ReportAlone, PcRests, AtFirst
  <2>2. Head(lines) = pcDnd /\ Tail(lines) = <<>>
      BY <2>1
  <2>3. /\ last' = pcDnd
        /\ last = pcDnd => pushes' = pushes
        /\ last # pcDnd => pushes' = Append(pushes, pcDnd)
      BY <1>1, <1>n, <2>2, Compared DEF Dnd!MonitorLine
  <2>4. /\ lines' = <<>>
        /\ UNCHANGED <<pcDnd, polled, monitored, applying, reports, casts, dndFromPc, phoneDnd, toggles>>
      BY <1>1, <2>2 DEF Dnd!MonitorLine
  <2>5. Due' = 0 /\ ~Reporting'
      BY <2>1, <2>3, <2>4 DEF Due, Reporting
  <2>6. casts + Len(pushes) + Due <= 1 /\ (last = pcDnd => Heading = last)
      BY <2>1 DEF SwitchInv, FewPushes, HeadsRight
  <2>7. Heading' = last' /\ casts' + Len(pushes') <= 1
    <3>1. CASE last = pcDnd
        BY <1>n, <2>3, <2>4, <2>6, <3>1 DEF Heading
    <3>2. CASE last # pcDnd
      <4>1. Due = 1
          BY <3>2 DEF Due
      <4>2. casts = 0 /\ Len(pushes) = 0
          BY <1>n, <2>6, <4>1
      <4>3. Len(pushes') = 1 /\ pushes' # <<>> /\ pushes'[Len(pushes')] = pcDnd
        <5>1. /\ Len(Append(pushes, pcDnd)) = Len(pushes) + 1 /\ Append(pushes, pcDnd) # <<>>
              /\ Append(pushes, pcDnd)[Len(Append(pushes, pcDnd))] = pcDnd
            BY Queued DEF DndTyped
        <5>2. pushes' = Append(pushes, pcDnd)
            BY <2>3, <3>2
        <5> QED
            BY <4>2, <5>1, <5>2
      <4> QED
          BY <2>3, <2>4, <4>2, <4>3 DEF Heading
    <3> QED
        BY <3>1, <3>2
  <2> QED
      BY <1>p, <2>1, <2>4, <2>5, <2>7
         DEF SwitchInv, ReportAlone, ApplyAlone, LinesTell, FewPushes, AtFirst, HeadsRight
<1>2. CASE Dnd!PollRead
  <2>1. /\ ~monitored /\ polled = "none" /\ polled' = pcDnd /\ lines = <<>>
        /\ UNCHANGED <<pcDnd, last, lines, monitored, applying, pushes, reports, casts, dndFromPc,
                       phoneDnd, toggles>>
      BY <1>2 DEF Dnd!PollRead, SwitchInv, LinesTell
  <2>2. Due' = Due /\ Heading' = Heading /\ Reporting' = Reporting /\ (PcRests => PcRests')
      BY <2>1 DEF Due, Heading, Reporting, PcRests
  <2> QED
      BY <2>1, <2>2 DEF SwitchInv, ReportAlone, ApplyAlone, LinesTell, FewPushes, AtFirst, HeadsRight
<1>3. CASE Dnd!PollCompare
  <2>1. /\ polled \in Dnd!Switch /\ ~monitored /\ lines = <<>> /\ polled' = "none"
        /\ UNCHANGED <<pcDnd, lines, monitored, applying, reports, casts, dndFromPc, phoneDnd, toggles>>
      BY <1>3, <1>n DEF Dnd!PollCompare, SwitchInv, LinesTell, Unread
  <2>2. /\ last' = polled
        /\ last = polled => pushes' = pushes
        /\ last # polled => pushes' = Append(pushes, polled)
      BY <1>3, <2>1, Compared DEF Dnd!PollCompare
  <2>3. Reporting' = Reporting /\ LinesTell'
      BY <2>1 DEF Reporting, LinesTell
  <2>4. CASE last = polled
    <3>1. Heading' = Heading /\ last' = last /\ pushes' = pushes
        BY <2>1, <2>2, <2>4 DEF Heading
    <3>2. Due' <= Due
        BY <2>1, <2>2, <2>4 DEF Due
    <3>3. PcRests => PcRests'
        BY <2>1, <3>1 DEF PcRests
    <3>4. Due' \in {0, 1, 2}
        BY DEF Due
    <3>5. FewPushes'
        BY <1>n, <2>1, <3>1, <3>2, <3>4 DEF SwitchInv, FewPushes
    <3> QED
        BY <2>1, <2>3, <3>1, <3>3, <3>5 DEF SwitchInv, ReportAlone, ApplyAlone, AtFirst, HeadsRight
  <2>5. CASE last # polled
    <3>1. ~Reporting /\ toggles # 0
        BY <2>1, <2>5, <1>n, NoneIsNoSwitch DEF SwitchInv, ReportAlone, PcRests, AtFirst
    <3>2. /\ Len(pushes') = Len(pushes) + 1 /\ pushes' # <<>>
          /\ pushes'[Len(pushes')] = polled
        BY <2>1, <2>2, <2>5, Queued DEF DndTyped
    <3>3. Heading' = last'
        BY <2>2, <3>2 DEF Heading
    <3>4. applying = "none" => casts' + Len(pushes') + Due' <= 2
      <4>1. CASE last = pcDnd
        <5>1. Due = 2 /\ Due' = 1
            BY <2>1, <2>2, <2>5, <4>1, NoneIsNoSwitch DEF Due
        <5> QED
            BY <1>n, <2>1, <3>2, <5>1 DEF SwitchInv, FewPushes
      <4>2. CASE last # pcDnd
        <5>1. polled = pcDnd
            BY <1>n, <2>1, <2>5, <4>2, TwoWays
        <5>2. Due = 1 /\ Due' = 0
            BY <2>1, <2>2, <4>2, <5>1 DEF Due
        <5> QED
            BY <1>n, <2>1, <3>2, <5>2 DEF SwitchInv, FewPushes
      <4> QED
          BY <4>1, <4>2
    <3>5. ApplyAlone'
      <4> SUFFICES ASSUME applying # "none" PROVE ApplyAlone'
          BY <2>1 DEF ApplyAlone
      <4>1. polled = pcDnd
          BY <2>1, NoneIsNoSwitch DEF SwitchInv, ApplyAlone
      <4>2. last = applying /\ casts = 0 /\ pushes = <<>>
          BY <2>5, <4>1 DEF SwitchInv, ApplyAlone
      <4>3. casts' + Len(pushes') <= 1
          BY <1>n, <2>1, <3>2, <4>2
      <4> QED
          BY <2>1, <2>2, <2>5, <4>1, <4>2, <4>3 DEF ApplyAlone
    <3> QED
        BY <2>1, <2>3, <3>1, <3>3, <3>4, <3>5
           DEF SwitchInv, ReportAlone, FewPushes, AtFirst, HeadsRight
  <2> QED
      BY <2>4, <2>5
<1>4. CASE Dnd!MonitorEnds
  <2>1. /\ monitored /\ ~monitored' /\ polled = "none" /\ lines' = <<>>
        /\ UNCHANGED <<pcDnd, last, polled, applying, pushes, reports, casts, dndFromPc, phoneDnd, toggles>>
      BY <1>4 DEF Dnd!MonitorEnds, SwitchInv, LinesTell
  <2>2. Due' = Due /\ Heading' = Heading /\ Reporting' = Reporting /\ (PcRests => PcRests')
      BY <2>1 DEF Due, Heading, Reporting, PcRests
  <2>3. FewPushes'
      BY <1>n, <2>1, <2>2 DEF SwitchInv, FewPushes
  <2> QED
      BY <2>1, <2>2, <2>3 DEF SwitchInv, ReportAlone, ApplyAlone, LinesTell, AtFirst, HeadsRight
<1>5. CASE Dnd!ApplyFromPhone
  <2>1. /\ reports # <<>> /\ applying = "none" /\ applying' = Head(reports) /\ last' = Head(reports)
        /\ reports' = Tail(reports)
        /\ UNCHANGED <<pcDnd, lines, polled, monitored, pushes, casts, dndFromPc, phoneDnd, toggles>>
        /\ toggles # 0
      BY <1>5 DEF Dnd!ApplyFromPhone, SwitchInv, AtFirst
  <2>2. Reporting
      BY <2>1 DEF Reporting
  <2>3. PcRests /\ reports = <<phoneDnd>> /\ casts = 0
      BY <2>1, <2>2 DEF SwitchInv, ReportAlone
  <2>4. Head(reports) = phoneDnd /\ Tail(reports) = <<>>
      BY <2>3
  <2>5. ~Reporting'
      BY <2>1, <2>3, <2>4 DEF Reporting
  <2>6. Heading' = last'
      BY <2>1, <2>3, <2>4 DEF Heading, PcRests
  <2>7. applying' # "none"
      BY <1>n, <2>1, <2>4, TwoWays
  <2> QED
      BY <2>1, <2>3, <2>4, <2>5, <2>6, <2>7
         DEF SwitchInv, ReportAlone, ApplyAlone, LinesTell, FewPushes, PcRests, AtFirst, HeadsRight
<1>6. CASE Dnd!ApplySet
  <2>1. /\ applying \in Dnd!Switch /\ applying # "none" /\ pcDnd' = applying /\ applying' = "none"
        /\ lines' = IF applying # pcDnd /\ monitored THEN Append(lines, applying) ELSE lines
        /\ UNCHANGED <<last, polled, monitored, pushes, reports, casts, dndFromPc, phoneDnd, toggles>>
        /\ toggles # 0
      BY <1>6, <1>n DEF Dnd!ApplySet, Dnd!SetPc, Unread, SwitchInv, AtFirst
  <2>2. /\ ~Reporting /\ polled \in {"none", pcDnd} /\ lines = <<>>
        /\ \/ last = applying /\ casts = 0 /\ pushes = <<>>
           \/ last = pcDnd /\ last # applying /\ ~monitored /\ casts + Len(pushes) <= 1
      BY <2>1 DEF SwitchInv, ReportAlone, ApplyAlone
  <2>3. ~Reporting' /\ Heading' = last'
      BY <2>1, <2>2 DEF Reporting, Heading, SwitchInv, HeadsRight
  <2>4. Append(lines, applying) = <<applying>>
      BY <2>1, <2>2, Queued DEF DndTyped
  <2>5. LinesTell'
      BY <2>1, <2>2, <2>4 DEF LinesTell, SwitchInv
  <2>6. casts' + Len(pushes') + Due' <= IF monitored' THEN 1 ELSE 2
    <3>1. CASE last = applying /\ casts = 0 /\ pushes = <<>>
      <4>1. Due' <= IF monitored THEN 1 ELSE 2
          BY <2>1, <2>2, <3>1 DEF Due, SwitchInv, LinesTell
      <4>2. Due' \in {0, 1, 2}
          BY DEF Due
      <4>3. Len(pushes') = 0 /\ casts' = 0
          BY <1>n, <2>1, <3>1
      <4>4. casts' + Len(pushes') + Due' = Due'
        <5>1. Due' \in Int
            BY <4>2
        <5>2. casts' + Len(pushes') = 0
            BY <4>3
        <5> QED
            BY <5>1, <5>2
      <4>5. monitored' = monitored
          BY <2>1
      <4> QED
          BY <4>1, <4>4, <4>5
    <3>2. CASE last # applying /\ ~monitored /\ casts + Len(pushes) <= 1
      <4>1. Due' = 1
          BY <2>1, <3>2 DEF Due
      <4> QED
          BY <1>n, <2>1, <3>2, <4>1
    <3> QED
        BY <2>2, <3>1, <3>2
  <2> QED
      BY <2>1, <2>3, <2>5, <2>6
         DEF SwitchInv, ReportAlone, ApplyAlone, FewPushes, AtFirst, HeadsRight
<1>7. CASE Dnd!ApplyDndFromPc
  <2>1. /\ pushes # <<>> /\ pushes' = Tail(pushes)
        /\ UNCHANGED <<pcDnd, last, lines, polled, monitored, applying, reports, toggles>>
        /\ toggles # 0
      BY <1>7 DEF Dnd!ApplyDndFromPc, SwitchInv, AtFirst, PcRests
  <2>2. /\ Len(pushes') = Len(pushes) - 1 /\ Len(pushes) >= 1
        /\ pushes' # <<>> => pushes'[Len(pushes')] = pushes[Len(pushes)]
        /\ pushes' = <<>> => pushes[Len(pushes)] = Head(pushes)
      BY <2>1, Taken DEF DndTyped
  <2>3. ~Reporting
      BY <2>1 DEF SwitchInv, ReportAlone, PcRests
  <2>4. /\ phoneDnd' = Head(pushes) /\ ~Reporting' /\ casts' <= casts + 1
    <3>1. CASE Head(pushes) = phoneDnd
      <4>1. UNCHANGED <<phoneDnd, dndFromPc, casts>>
          BY <1>7, <3>1 DEF Dnd!ApplyDndFromPc
      <4> QED
          BY <1>n, <2>1, <2>3, <3>1, <4>1 DEF Reporting
    <3>2. CASE Head(pushes) # phoneDnd
      <4>1. phoneDnd' = Head(pushes) /\ dndFromPc' = TRUE /\ casts' = casts + 1
          BY <1>7, <3>2 DEF Dnd!ApplyDndFromPc
      <4> QED
          BY <1>n, <2>1, <2>3, <4>1 DEF Reporting
    <3> QED
        BY <3>1, <3>2
  <2>5. Heading' = Heading
      BY <2>1, <2>2, <2>4 DEF Heading
  <2>6. Due' = Due
      BY <2>1 DEF Due
  <2>7. casts' + Len(pushes') <= casts + Len(pushes)
      BY <1>n, <1>p, <2>2, <2>4
  <2>8. ApplyAlone'
    <3> SUFFICES ASSUME applying # "none" PROVE ApplyAlone'
        BY <2>1 DEF ApplyAlone
    <3>1. /\ polled \in {"none", pcDnd} /\ lines = <<>>
          /\ last = pcDnd /\ last # applying /\ ~monitored /\ casts + Len(pushes) <= 1
        BY <2>1 DEF SwitchInv, ApplyAlone
    <3>2. casts' + Len(pushes') <= 1
        BY <1>n, <1>p, <2>7, <3>1
    <3> QED
        BY <2>1, <3>1, <3>2 DEF ApplyAlone
  <2>9. FewPushes'
    <3> SUFFICES ASSUME applying = "none"
                 PROVE  casts' + Len(pushes') + Due <= IF monitored THEN 1 ELSE 2
        BY <2>1, <2>6 DEF FewPushes
    <3>1. casts + Len(pushes) + Due <= IF monitored THEN 1 ELSE 2
        BY DEF SwitchInv, FewPushes
    <3> QED
        BY <1>n, <1>p, <2>7, <3>1
  <2> QED
      BY <2>1, <2>3, <2>4, <2>5, <2>8, <2>9 DEF SwitchInv, ReportAlone, LinesTell, AtFirst, HeadsRight
<1>8. CASE Dnd!OnReceive
  <2>1. /\ casts > 0 /\ casts' = casts - 1 /\ dndFromPc' = FALSE
        /\ reports' = IF ~dndFromPc /\ online THEN Append(reports, phoneDnd) ELSE reports
        /\ ~dndFromPc => online
        /\ UNCHANGED <<pcDnd, last, lines, polled, monitored, applying, pushes, phoneDnd, toggles>>
      BY <1>8, crossed' = FALSE DEF Dnd!OnReceive, DndTyped
  <2>a. toggles # 0
      BY <2>1, <1>n DEF SwitchInv, AtFirst
  <2>2. Due' = Due /\ Heading' = Heading /\ LinesTell' /\ (PcRests => PcRests')
      BY <2>1 DEF Due, Heading, LinesTell, PcRests, SwitchInv
  <2>3. FewPushes'
      BY <1>n, <2>1, <2>2 DEF SwitchInv, FewPushes
  <2>4. CASE ~dndFromPc
    <3>1. PcRests /\ applying = "none" /\ casts = 1 /\ reports = <<>>
        BY <1>n, <2>1, <2>4 DEF Reporting, SwitchInv, ReportAlone
    <3>2. reports' = <<phoneDnd>> /\ reports' # <<>> /\ casts' = 0
        BY <2>1, <2>4, <3>1, Queued DEF DndTyped
    <3>3. Reporting'
        BY <3>2 DEF Reporting
    <3> QED
        BY <2>1, <2>2, <2>3, <3>1, <3>2, <3>3, <2>a
           DEF SwitchInv, ReportAlone, ApplyAlone, AtFirst, HeadsRight
  <2>5. CASE dndFromPc
    <3>1. reports' = reports /\ ~Reporting
        BY <1>n, <2>1, <2>5 DEF Reporting, SwitchInv, ReportAlone
    <3>2. Reporting' <=> casts' > 0
        BY <2>1, <3>1 DEF Reporting
    <3>3. CASE casts' = 0
      <4>1. ApplyAlone'
          BY <1>n, <1>p, <2>1, <3>3 DEF SwitchInv, ApplyAlone
      <4> QED
          BY <2>1, <2>2, <2>3, <3>1, <3>2, <3>3, <4>1, <2>a
             DEF SwitchInv, ReportAlone, AtFirst, HeadsRight
    <3>4. CASE casts' # 0
      <4>1. casts >= 2
          BY <1>n, <1>p, <2>1, <3>4
      <4>2. applying = "none"
          BY <1>n, <4>1 DEF SwitchInv, ApplyAlone
      <4>3. casts + Len(pushes) + Due <= IF monitored THEN 1 ELSE 2
          BY <4>2 DEF SwitchInv, FewPushes
      <4>4. casts = 2 /\ Len(pushes) = 0 /\ Due = 0 /\ ~monitored
          BY <1>n, <4>1, <4>3
      <4>5. PcRests
          BY <1>n, <4>4 DEF PcRests, Due, SwitchInv, LinesTell
      <4>6. reports = <<>>
          BY <3>1 DEF Reporting
      <4>7. casts' = 1
          BY <2>1, <4>4
      <4>8. reports' = <<>> /\ PcRests' /\ applying' = "none"
          BY <2>1, <2>2, <3>1, <4>2, <4>5, <4>6
      <4>9. Reporting'
          BY <3>2, <4>7
      <4>10. ReportAlone'
          BY <4>7, <4>8 DEF ReportAlone
      <4> QED
          BY <2>1, <2>2, <2>3, <4>2, <4>9, <4>10, <2>a DEF SwitchInv, ApplyAlone, AtFirst, HeadsRight
    <3> QED
        BY <3>3, <3>4
  <2> QED
      BY <2>4, <2>5 DEF DndTyped

(* A user switches when nothing is under way.                              *)
<1>s. ASSUME Dnd!Settled, reports = <<>>, casts = 0
      PROVE  /\ lines = <<>> /\ last = pcDnd /\ applying = "none" /\ polled \in {"none", pcDnd}
             /\ pushes = <<>> /\ Len(pushes) = 0 /\ PcRests /\ ~Reporting /\ ~dndFromPc
    BY <1>n, <1>s DEF Dnd!Settled, PcRests, Reporting, DndTyped
<1>9. CASE Dnd!TogglePc
  <2>1. /\ Dnd!Settled /\ reports = <<>> /\ casts = 0
        /\ pcDnd' = Dnd!Other(pcDnd)
        /\ lines' = IF Dnd!Other(pcDnd) # pcDnd /\ monitored
                    THEN Append(lines, Dnd!Other(pcDnd)) ELSE lines
        /\ toggles' = toggles + 1
        /\ UNCHANGED <<last, polled, monitored, applying, pushes, reports, casts, dndFromPc, phoneDnd>>
      BY <1>9, crossed' = FALSE DEF Dnd!TogglePc, Dnd!Toggle, Dnd!Settled, Dnd!SetPc, DndTyped
  <2>2. pcDnd' # last /\ pcDnd' \in Dnd!Switch
      BY <1>n, <1>s, <2>1, TwoWays
  <2>3. Append(lines, Dnd!Other(pcDnd)) = <<pcDnd'>>
      BY <1>s, <2>1, <2>2, Queued DEF DndTyped
  <2>4. LinesTell'
      BY <1>s, <2>1, <2>3 DEF LinesTell, SwitchInv
  <2>5. Due' = 1 /\ ~Reporting' /\ Heading' = Heading
      BY <1>s, <2>1, <2>2 DEF Due, Reporting, Heading
  <2>6. casts' + Len(pushes') + Due' <= IF monitored' THEN 1 ELSE 2
      BY <1>s, <2>1, <2>5
  <2>7. AtFirst'
      BY <2>1 DEF AtFirst, DndTyped
  <2>8. HeadsRight'
    <3>1. Heading = phoneDnd
        BY <1>s, <2>1 DEF Heading
    <3>2. Heading' = last' \/ Heading' = pcDnd'
        BY <1>n, <1>s, <2>1, <2>2, <2>5, <3>1, TwoWays
    <3> QED
        BY <1>s, <2>1, <2>2, <3>2 DEF HeadsRight
  <2> QED
      BY <1>s, <2>1, <2>4, <2>5, <2>6, <2>7, <2>8 DEF SwitchInv, ReportAlone, ApplyAlone, FewPushes
<1>10. CASE Dnd!TogglePhone
  <2>1. /\ Dnd!Settled /\ reports = <<>> /\ casts = 0 /\ casts' = casts + 1 /\ toggles' = toggles + 1
        /\ UNCHANGED <<pcDnd, last, lines, polled, monitored, applying, pushes, reports, dndFromPc>>
      BY <1>10, crossed' = FALSE DEF Dnd!TogglePhone, Dnd!Toggle, Dnd!Settled, DndTyped
  <2>2. casts' = 1 /\ Due' = 0 /\ PcRests' /\ Reporting'
      BY <1>s, <2>1 DEF Due, PcRests, Reporting
  <2>3. casts' + Len(pushes') + Due' <= IF monitored' THEN 1 ELSE 2
      BY <1>s, <2>1, <2>2
  <2> QED
      BY <1>s, <2>1, <2>2, <2>3
         DEF SwitchInv, ReportAlone, ApplyAlone, LinesTell, FewPushes, AtFirst, HeadsRight, DndTyped
<1>11. CASE Dnd!Disconnect
  <2>1. UNCHANGED <<pcDnd, last, lines, polled, monitored, applying, pushes, reports,
                    casts, dndFromPc, phoneDnd, toggles>>
      BY <1>11, crossed' = FALSE DEF Dnd!Disconnect, DndTyped
  <2> QED
      BY <2>1 DEF SwitchInv, ReportAlone, ApplyAlone, LinesTell, FewPushes, AtFirst, HeadsRight,
                  Reporting, PcRests, Due, Heading
<1>12. CASE Dnd!Connect
  <2>1. UNCHANGED <<pcDnd, last, lines, polled, monitored, applying, pushes, reports,
                    casts, dndFromPc, phoneDnd, toggles>>
      BY <1>12 DEF Dnd!Connect
  <2> QED
      BY <2>1 DEF SwitchInv, ReportAlone, ApplyAlone, LinesTell, FewPushes, AtFirst, HeadsRight,
                  Reporting, PcRests, Due, Heading
<1>13. CASE UNCHANGED dnd
    BY <1>13 DEF dnd, SwitchInv, ReportAlone, ApplyAlone, LinesTell, FewPushes, AtFirst, HeadsRight,
                 Reporting, PcRests, Due, Heading
<1> QED
    BY <1>1, <1>2, <1>3, <1>4, <1>5, <1>6, <1>7, <1>8, <1>9, <1>10, <1>11, <1>12, <1>13
       DEF Dnd!Next, Dnd!Pc

\* What has crossed stays so.
LEMMA CrossedStays ==
    ASSUME DndTyped, [Dnd!Next]_dnd, crossed' = FALSE PROVE crossed = FALSE
BY DEF DndTyped, dnd, Dnd!Next, Dnd!Pc, Dnd!MonitorLine, Dnd!PollRead, Dnd!PollCompare,
       Dnd!Compare, Dnd!MonitorEnds, Dnd!ApplyFromPhone, Dnd!ApplySet, Dnd!ApplyDndFromPc,
       Dnd!OnReceive, Dnd!TogglePc, Dnd!TogglePhone, Dnd!Toggle, Dnd!Disconnect, Dnd!Connect

(* Once somebody has switched, the PC and the phone agree whenever nothing *)
(* is under way, however often the users switch, the monitor dies and the  *)
(* connection is lost, as long as no two switches crossed and none was lost*)
(* with its connection; and dndFromPc never stays behind (dnd.rs,          *)
(* applyDndFromPc).                                                        *)
THEOREM SwitchesAgreeWhenQuiet == Spec => []Dnd!QuietMeansAgreed
<1> DEFINE Clean == crossed = FALSE => SwitchInv
<1>1. Init => DndTyped /\ Clean
  <2> SUFFICES ASSUME Dnd!Init PROVE DndTyped /\ SwitchInv
      BY DEF Init
  <2>1. /\ pcDnd \in Dnd!Switch /\ last = pcDnd /\ phoneDnd \in Dnd!Switch
        /\ lines = <<>> /\ pushes = <<>> /\ reports = <<>> /\ casts = 0 /\ toggles = 0
        /\ polled = "none" /\ applying = "none" /\ monitored = TRUE /\ online = TRUE
        /\ dndFromPc = FALSE /\ crossed = FALSE
      BY DEF Dnd!Init
  <2>2. <<>> \in Seq(Dnd!Switch) /\ Len(<<>>) = 0
      OBVIOUS
  <2>3. DndTyped
      BY <2>1, <2>2 DEF DndTyped, Unread
  <2>4. ~Reporting /\ PcRests /\ Due = 0
      BY <2>1, <2>2 DEF Reporting, PcRests, Due
  <2> QED
      BY <2>1, <2>2, <2>3, <2>4
         DEF SwitchInv, ReportAlone, ApplyAlone, LinesTell, FewPushes, AtFirst, HeadsRight
<1>2. DndTyped /\ Clean /\ [Next]_vars => DndTyped' /\ Clean'
    BY OneRuns, DndTypedStep, SwitchStep, CrossedStays
<1>3. DndTyped /\ Clean => Dnd!QuietMeansAgreed
  <2> SUFFICES ASSUME DndTyped, crossed = FALSE, SwitchInv, Dnd!Settled, toggles # 0
               PROVE  pcDnd = phoneDnd
      BY DEF DndTyped, Dnd!QuietMeansAgreed
  <2>1. ~Reporting /\ Heading = phoneDnd /\ last = pcDnd
      BY DEF Dnd!Settled, Reporting, Heading
  <2> QED
      BY <2>1 DEF SwitchInv, HeadsRight
<1> QED
    BY <1>1, <1>2, <1>3, PTL DEF Spec
=============================================================================
