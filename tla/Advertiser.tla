----------------------------- MODULE Advertiser -----------------------------
(***************************************************************************)
(* How the PC makes itself known (netwatch.rs): republish drops the mDNS   *)
(* record and the BLE advertisement and publishes both anew.  If BLE fails *)
(* a task retries until it succeeds or a later republish has raised the    *)
(* generation.  Republishing is asked for at startup, by watch_sleep and   *)
(* by watch_ip, which do not wait for each other.                          *)
(***************************************************************************)
EXTENDS Naturals

CONSTANTS
    Watchers,   \* who calls republish: startup, watch_sleep, watch_ip
    Calls       \* bound: of republish

VARIABLES
    generation,
    mdns, ble,  \* the slot holds the guard of an advertisement
    works,      \* the adapter accepts advertisements
    step,       \* of each watcher: "idle", "mdns", "ble"
    mine,       \* the generation each watcher's republish has got
    retries,    \* generations of the retry tasks
    checked,    \* those that have found their generation to be the latest
    overtaken   \* history: BLE was tried for a generation that was not the latest

vars == <<generation, mdns, ble, works, step, mine, retries, checked, overtaken>>

Init ==
    /\ generation = 0 /\ mdns = FALSE /\ ble = FALSE /\ works \in BOOLEAN
    /\ step = [w \in Watchers |-> "idle"] /\ mine = [w \in Watchers |-> 0]
    /\ retries = {} /\ checked = {} /\ overtaken = FALSE

\* republish: the generation.
Republish(w) ==
    /\ step[w] = "idle" /\ generation < Calls
    /\ generation' = generation + 1
    /\ mine' = [mine EXCEPT ![w] = generation + 1]
    /\ step' = [step EXCEPT ![w] = "mdns"]
    /\ UNCHANGED <<mdns, ble, works, retries, checked, overtaken>>

\* republish: the mDNS record, which may not be accepted.
PublishMdns(w) ==
    /\ step[w] = "mdns"
    /\ mdns' \in BOOLEAN
    /\ step' = [step EXCEPT ![w] = "ble"]
    /\ UNCHANGED <<generation, ble, works, mine, retries, checked, overtaken>>

\* try_ble: the old advertisement goes, under the lock of the slot.
TryBle(g) == ble' = works /\ overtaken' = (overtaken \/ g # generation)

PublishBleOnce(w) ==    \* mutant: a failure is not retried
    /\ step[w] = "ble"
    /\ TryBle(mine[w])
    /\ step' = [step EXCEPT ![w] = "idle"]
    /\ UNCHANGED <<generation, mdns, works, mine, retries, checked>>

\* republish: BLE, and spawn_ble_retry if it failed.
PublishBle(w) ==
    /\ step[w] = "ble"
    /\ TryBle(mine[w])
    /\ retries' = IF works THEN retries ELSE retries \cup {mine[w]}
    /\ step' = [step EXCEPT ![w] = "idle"]
    /\ UNCHANGED <<generation, mdns, works, mine, checked>>

\* spawn_ble_retry after its wait: it ends if there is a later generation.
RetryCheck(g) ==
    /\ g \in retries \ checked
    /\ IF g = generation THEN checked' = checked \cup {g} /\ UNCHANGED retries
                         ELSE retries' = retries \ {g} /\ UNCHANGED checked
    /\ UNCHANGED <<generation, mdns, ble, works, step, mine, overtaken>>

RetryTry(g) ==
    /\ g \in checked
    /\ TryBle(g)
    /\ checked' = checked \ {g}
    /\ retries' = IF works THEN retries \ {g} ELSE retries
    /\ UNCHANGED <<generation, mdns, works, step, mine>>

\* The adapter is switched on or off: the slot keeps its guard.
Adapter ==
    /\ works' = ~works
    /\ UNCHANGED <<generation, mdns, ble, step, mine, retries, checked, overtaken>>

Publish(w) == PublishMdns(w) \/ PublishBle(w)
Retry      == \E g \in retries : RetryCheck(g) \/ RetryTry(g)

Next ==
    \/ \E w \in Watchers : Republish(w) \/ Publish(w)
    \/ Retry \/ Adapter

Spec ==
    /\ Init /\ [][Next]_vars
    /\ \A w \in Watchers : WF_vars(Publish(w))
    /\ WF_vars(Retry)

-----------------------------------------------------------------------------
(* Properties.                                                             *)

TypeOK ==
    /\ generation \in Nat
    /\ mdns \in BOOLEAN /\ ble \in BOOLEAN /\ works \in BOOLEAN /\ overtaken \in BOOLEAN
    /\ step \in [Watchers -> {"idle", "mdns", "ble"}] /\ mine \in [Watchers -> 0 .. generation]
    /\ checked \subseteq retries /\ retries \subseteq 0 .. generation

(* BLE is not given up while it fails: until the latest republish has its  *)
(* advertisement, a task goes on trying, however republishing and retries  *)
(* overlap.  Excluded: a task of an older generation that has its turn     *)
(* after the latest republish has begun, and may undo its work.            *)
BleIsNotGivenUp ==
    ~overtaken /\ generation > 0 =>
        \/ ble \/ generation \in retries
        \/ \E w \in Watchers : step[w] # "idle" /\ mine[w] = generation
=============================================================================
