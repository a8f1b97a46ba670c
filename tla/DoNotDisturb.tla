---------------------------- MODULE DoNotDisturb ----------------------------
(***************************************************************************)
(* The do-not-disturb switches of the PC and of its phone (dnd.rs; on the  *)
(* phone startDndSync and applyDndFromPc).  Each side passes on a change   *)
(* of its own switch and sets it when the other's changed; `last` on the   *)
(* PC and dndFromPc on the phone keep a change from being sent back.       *)
(***************************************************************************)
EXTENDS Naturals, Sequences

CONSTANT Toggles    \* bound: how often the users switch

VARIABLES
    pcDnd, last,    \* GNOME's setting; DndSync.last
    lines, polled,  \* of gsettings monitor; what poll has read, or "none"
    monitored,      \* gsettings monitor is alive
    applying,       \* apply_from_phone between store and gsettings, or "none"
    pushes, reports,    \* the push channel; LinkBus
    online,
    phoneDnd, dndFromPc,
    casts,          \* broadcasts of a changed filter, not yet received
    toggles, crossed    \* history: a switch while another was on its way, or one lost

desk == <<pcDnd, last, lines, polled, monitored, applying>>
hand == <<phoneDnd, dndFromPc, casts>>
vars == <<desk, pushes, reports, online, hand, toggles, crossed>>

Switch   == {"on", "off"}
Other(x) == IF x = "on" THEN "off" ELSE "on"

\* The daemon has read its setting and pushed it when nobody had subscribed.
\* The phone has connected and sent its own before anybody collected LinkBus,
\* which keeps nothing; it does so once in its life.  Both are lost.
Init ==
    /\ pcDnd \in Switch /\ last = pcDnd /\ lines = <<>> /\ polled = "none"
    /\ monitored = TRUE /\ applying = "none"
    /\ phoneDnd \in Switch /\ dndFromPc = FALSE /\ casts = 0
    /\ pushes = <<>> /\ reports = <<>> /\ online = TRUE
    /\ toggles = 0 /\ crossed = FALSE

Settled ==
    /\ lines = <<>> /\ last = pcDnd /\ applying = "none" /\ polled \in {"none", pcDnd}
    /\ pushes = <<>> /\ reports = <<>> /\ casts = 0

\* The setting changes; a line of the monitor says so.
SetPc(on) ==
    /\ pcDnd' = on
    /\ lines' = IF on # pcDnd /\ monitored THEN Append(lines, on) ELSE lines

Push(on) == pushes' = IF online THEN Append(pushes, on) ELSE pushes

\* last changes to cur; a change is pushed.
Compare(cur) ==
    /\ last' = cur
    /\ IF last = cur THEN UNCHANGED <<pushes, crossed>>
                     ELSE Push(cur) /\ crossed' = (crossed \/ ~online)

MonitorLine ==
    /\ lines # <<>>
    /\ lines' = Tail(lines)
    /\ Compare(Head(lines))
    /\ UNCHANGED <<pcDnd, polled, monitored, applying, reports, online, hand, toggles>>

\* gsettings monitor exits, with the lines that were not read: poll.
MonitorEnds ==
    /\ monitored
    /\ monitored' = FALSE /\ lines' = <<>>
    /\ UNCHANGED <<pcDnd, last, polled, applying, pushes, reports, online, hand, toggles, crossed>>

PollRead ==
    /\ ~monitored /\ polled = "none"
    /\ polled' = pcDnd
    /\ UNCHANGED <<pcDnd, last, lines, monitored, applying, pushes, reports, online, hand, toggles, crossed>>

PollCompare ==
    /\ polled # "none"
    /\ polled' = "none"
    /\ Compare(polled)
    /\ UNCHANGED <<pcDnd, lines, monitored, applying, reports, online, hand, toggles>>

\* apply_from_phone: last, then gsettings set.
ApplyFromPhone ==
    /\ online /\ reports # <<>> /\ applying = "none"
    /\ applying' = Head(reports) /\ last' = Head(reports) /\ reports' = Tail(reports)
    /\ UNCHANGED <<pcDnd, lines, polled, monitored, pushes, online, hand, toggles, crossed>>

ApplySet ==
    /\ applying # "none"
    /\ SetPc(applying) /\ applying' = "none"
    /\ UNCHANGED <<last, polled, monitored, pushes, reports, online, hand, toggles, crossed>>

-----------------------------------------------------------------------------
ApplyDndFromPc ==
    /\ online /\ pushes # <<>>
    /\ pushes' = Tail(pushes)
    /\ IF Head(pushes) = phoneDnd
       THEN UNCHANGED hand
       ELSE dndFromPc' = TRUE /\ phoneDnd' = Head(pushes) /\ casts' = casts + 1
    /\ UNCHANGED <<desk, reports, online, toggles, crossed>>

OnReceiveAlways ==    \* mutant: dndFromPc is not looked at
    /\ casts > 0 /\ casts' = casts - 1
    /\ reports' = IF online THEN Append(reports, phoneDnd) ELSE reports
    /\ crossed' = (crossed \/ ~online)
    /\ UNCHANGED <<desk, pushes, online, phoneDnd, dndFromPc, toggles>>

\* The receiver of the broadcast sends what the switch is now.
OnReceive ==
    /\ casts > 0 /\ casts' = casts - 1
    /\ dndFromPc' = FALSE
    /\ reports' = IF ~dndFromPc /\ online THEN Append(reports, phoneDnd) ELSE reports
    /\ crossed' = (crossed \/ (~dndFromPc /\ ~online))
    /\ UNCHANGED <<desk, pushes, online, phoneDnd, toggles>>

-----------------------------------------------------------------------------
Toggle == toggles < Toggles /\ toggles' = toggles + 1 /\ crossed' = (crossed \/ ~Settled \/ ~online)

TogglePc ==
    /\ Toggle /\ SetPc(Other(pcDnd))
    /\ UNCHANGED <<last, polled, monitored, applying, pushes, reports, online, hand>>

TogglePhone ==
    /\ Toggle
    /\ phoneDnd' = Other(phoneDnd) /\ casts' = casts + 1
    /\ UNCHANGED <<desk, pushes, reports, online, dndFromPc>>

Disconnect ==
    /\ online
    /\ online' = FALSE /\ pushes' = <<>> /\ reports' = <<>>
    /\ crossed' = (crossed \/ pushes # <<>> \/ reports # <<>>)
    /\ UNCHANGED <<desk, hand, toggles>>

Connect ==
    /\ ~online /\ online' = TRUE
    /\ UNCHANGED <<desk, pushes, reports, hand, toggles, crossed>>

Pc   == MonitorLine \/ PollRead \/ PollCompare
Next ==
    \/ Pc \/ MonitorEnds \/ ApplyFromPhone \/ ApplySet \/ ApplyDndFromPc \/ OnReceive
    \/ TogglePc \/ TogglePhone \/ Disconnect \/ Connect

\* Every task of both programs goes on, and a lost connection is made anew.
Fairness ==
    /\ WF_vars(Pc) /\ WF_vars(ApplyFromPhone \/ ApplySet)
    /\ WF_vars(ApplyDndFromPc) /\ WF_vars(OnReceive) /\ WF_vars(Connect)

Spec == Init /\ [][Next]_vars /\ Fairness

-----------------------------------------------------------------------------
(* Properties.                                                             *)

(* Once somebody has switched, both sides agree when nothing is under way, *)
(* unless switches crossed or one was lost with its connection; until then *)
(* they may differ, as the first reports are lost.  And dndFromPc is never *)
(* left set to swallow the user's next switch.                             *)
QuietMeansAgreed ==
    /\ dndFromPc => casts > 0
    /\ Settled => crossed \/ toggles = 0 \/ pcDnd = phoneDnd

(* The switches do not chase each other: in the end nothing is under way.  *)
SwitchesAgree == []QuietMeansAgreed /\ <>[]Settled
=============================================================================
