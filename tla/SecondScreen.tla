---------------------------- MODULE SecondScreen ----------------------------
(***************************************************************************)
(* The session of the second screen: one at a time (display/mod.rs,        *)
(* ACTIVE), each building a virtual monitor with the commands of the       *)
(* compositor (backends.rs, portal.rs), capturing it with an encoder and   *)
(* taking it down through guards that run when the session is dropped.     *)
(* A tablet asks for it, loses the link, leaves and comes back             *)
(* (SecondScreenActivity); every request of the tablet is a task of the    *)
(* daemon, and the task of an old one may still be taking things down.     *)
(***************************************************************************)
EXTENDS Integers, Sequences, Functions

CONSTANTS
    Requests,   \* DisplayStart messages
    Backends,   \* Compositor: subset of "mutter", "hyprland", "sway", "kde", "x11"
    Ports,      \* video ports that are free, with X11
    FailingGuards   \* guards whose command may fail

ASSUME RequestsAssumption ==
    /\ Ports \in Nat
    /\ Backends \subseteq {"mutter", "hyprland", "sway", "kde", "x11"}
    /\ FailingGuards \subseteq {"output", "port", "mode", "screen", "monitor"}

Nobody == "nobody"

VARIABLES
    backend,    \* detect
    active,     \* ACTIVE
    pc,         \* where the task of each request is
    attempt, step,  \* recipe and command it is at
    taken,      \* what its recipe has made so far
    guards,     \* its Guards: what is still to be undone, in order
    saved,      \* screens the framebuffer had when it asked (cur_w)
    desktop,    \* what exists on the desktop
    screens,    \* width of the X11 framebuffer, in screens beyond the user's own
    overlap,    \* history: a session began while guards of another were to run
    litter,     \* history: what was made without a guard by a recipe that failed, or
                \* whose guard's command failed
    tablet, asked,  \* the tablet, and the request it waits for
    closed      \* requests whose stream the tablet has closed or lost

place  == <<attempt, step>>
things == <<taken, guards, desktop, screens>>
far    == <<tablet, asked, closed>>
vars   == <<backend, active, pc, place, things, saved, overlap, litter, far>>

-----------------------------------------------------------------------------
(* The recipes: each command may fail; takes is what it makes, guards what *)
(* is pushed on the guards after it has succeeded.                         *)

Command(takes, pushed) == [takes |-> takes, guards |-> pushed]

\* The session and its stream end with the connection to the bus, which every
\* return drops; then the wait for PipeWireStreamAdded.
MutterSteps == << Command({}, <<>>), Command({"stream"}, <<"stream">>), Command({}, <<>>) >>

HyprlandUnguarded ==    \* mutant: nothing is pushed
    << Command({"output"}, <<>>), Command({}, <<>>), Command({}, <<>>) >>

\* create, the mode, the list of monitors: the guard comes last.
HyprlandSteps ==
    << Command({"output"}, <<>>), Command({}, <<>>), Command({}, <<"output">>) >>

\* Names before, create_output, names after, the mode, the geometry.
SwaySteps ==
    << Command({}, <<>>), Command({"output"}, <<>>), Command({}, <<>>),
       Command({}, <<>>), Command({}, <<"output">>) >>

\* CreateSession, SelectSources, Start: each answer is waited for.  The session
\* ends with the connection, which an error drops and the guards keep.
PortalSteps == << Command({}, <<>>), Command({}, <<>>), Command({"portal"}, <<"portal">>) >>

\* krfb-virtualmonitor, the wait for its output, the portal.
KdeSteps == << Command({"child"}, <<"child">>), Command({}, <<>>) >> \o PortalSteps

\* newmode, whose result is ignored; addmode; the mode on the port; the check.
X11ForcedSteps ==
    << Command({"mode"}, <<>>), Command({"port"}, <<"port", "mode", "screen">>),
       Command({"screen"}, <<>>), Command({}, <<>>) >>

\* The larger framebuffer, setmonitor, the check that the desktop kept it.
X11FramebufferSteps ==
    << Command({"screen"}, <<"monitor", "screen">>), Command({"monitor"}, <<>>),
       Command({}, <<>>) >>

\* prepare_x11: every port that is free, then the larger framebuffer.
X11Recipes == [i \in 1 .. Ports |-> X11ForcedSteps] \o << X11FramebufferSteps >>

\* prepare: what is tried, in order.
Plan ==
    CASE backend = "mutter"   -> << MutterSteps >>
      [] backend = "hyprland" -> << HyprlandSteps >>
      [] backend = "sway"     -> << SwaySteps >>
      [] backend = "kde"      -> << KdeSteps >>
      [] backend = "x11"      -> X11Recipes

\* Hyprland's output and X11's things have one name for all sessions.
Name(r, thing) ==
    IF backend \in {"hyprland", "x11"} \/ thing = "screen" THEN thing ELSE <<thing, r>>

Init ==
    /\ backend \in Backends
    /\ active = FALSE
    /\ pc = [r \in Requests |-> "new"]
    /\ attempt = [r \in Requests |-> 1] /\ step = [r \in Requests |-> 1]
    /\ taken = [r \in Requests |-> {}] /\ guards = [r \in Requests |-> <<>>]
    /\ saved = [r \in Requests |-> 0]
    /\ desktop = {} /\ screens = 0
    /\ overlap = FALSE /\ litter = {}
    /\ tablet = "away" /\ asked = Nobody /\ closed = {}

\* What its guards will undo.
Guarded(r) == Range(guards[r])

Goto(r, label) == pc' = [pc EXCEPT ![r] = label]

-----------------------------------------------------------------------------
(* The daemon: DisplaySession.start.                                       *)

Refuse(r) ==
    /\ pc[r] = "asked" /\ active
    /\ Goto(r, "refused")
    /\ UNCHANGED <<backend, active, place, things, saved, overlap, litter, far>>

EnterUnasked(r) ==    \* mutant: the flag is set, not tested
    /\ pc[r] = "asked"
    /\ active' = TRUE
    /\ overlap' = (overlap \/ \E q \in Requests : pc[q] = "dropping")
    /\ Goto(r, "detecting")
    /\ UNCHANGED <<backend, place, things, saved, litter, far>>

Enter(r) ==
    /\ pc[r] = "asked" /\ ~active
    /\ active' = TRUE
    /\ overlap' = (overlap \/ \E q \in Requests : pc[q] = "dropping")
    /\ Goto(r, "detecting")
    /\ UNCHANGED <<backend, place, things, saved, litter, far>>

\* detect, and with X11 the first query; both may fail.
Detect(r) ==
    /\ pc[r] = "detecting"
    /\ \/ Goto(r, "preparing") /\ saved' = [saved EXCEPT ![r] = screens]
       \/ Goto(r, "failing") /\ UNCHANGED saved
    /\ UNCHANGED <<backend, active, place, things, overlap, litter, far>>

\* One command of the recipe succeeds.
Succeed(r) ==
    LET recipe  == Plan[attempt[r]]
        command == recipe[step[r]]
    IN  /\ pc[r] = "preparing"
        /\ taken' = [taken EXCEPT ![r] = @ \cup command.takes]
        /\ desktop' = desktop \cup {Name(r, t) : t \in command.takes \ {"screen"}}
        /\ screens' = IF "screen" \in command.takes THEN saved[r] + 1 ELSE screens
        /\ guards' = [guards EXCEPT ![r] = @ \o command.guards]
        /\ step' = [step EXCEPT ![r] = @ + 1]
        /\ IF step[r] = Len(recipe) THEN Goto(r, "prepared") ELSE UNCHANGED pc
        /\ UNCHANGED <<backend, active, attempt, saved, overlap, litter, far>>

\* It fails, and so does the recipe, except that the result of newmode is ignored.
Fail(r) ==
    /\ pc[r] = "preparing"
    /\ IF Plan[attempt[r]][step[r]].takes = {"mode"}
       THEN step' = [step EXCEPT ![r] = @ + 1] /\ UNCHANGED <<pc, litter>>
       ELSE /\ Goto(r, "undoing") /\ UNCHANGED step
            /\ litter' = litter \cup {Name(r, t) : t \in taken[r] \ ({"screen"} \cup Guarded(r))}
    /\ UNCHANGED <<backend, active, attempt, things, saved, overlap, far>>

\* Drop of Guards: the next thing is undone.  The framebuffer gets back the size
\* it had when this session asked.
Undo(r) ==
    /\ pc[r] \in {"undoing", "dropping"} /\ guards[r] # <<>>
    /\ desktop' = desktop \ {Name(r, Head(guards[r]))}
    /\ screens' = IF Head(guards[r]) = "screen" THEN saved[r] ELSE screens
    /\ guards' = [guards EXCEPT ![r] = Tail(@)]
    /\ UNCHANGED <<backend, active, pc, place, taken, saved, overlap, litter, far>>

\* Drop ignores a command that fails; dropping a connection or a child does not.
UndoFails(r) ==
    LET t == Head(guards[r]) IN
    /\ pc[r] \in {"undoing", "dropping"} /\ guards[r] # <<>>
    /\ t \in FailingGuards
    /\ litter' = litter \cup {Name(r, t)}
    /\ guards' = [guards EXCEPT ![r] = Tail(@)]
    /\ UNCHANGED <<backend, active, pc, place, taken, desktop, screens, saved, overlap, far>>

\* The next recipe, or none is left.
TryNext(r) ==
    /\ pc[r] = "undoing" /\ guards[r] = <<>>
    /\ IF attempt[r] < Len(Plan)
       THEN /\ Goto(r, "preparing")
            /\ attempt' = [attempt EXCEPT ![r] = @ + 1]
            /\ step' = [step EXCEPT ![r] = 1]
            /\ taken' = [taken EXCEPT ![r] = {}]
       ELSE Goto(r, "failing") /\ UNCHANGED <<place, taken>>
    /\ UNCHANGED <<backend, active, guards, desktop, screens, saved, overlap, litter, far>>

GiveUpSilently(r) ==    \* mutant: the flag stays
    /\ pc[r] = "failing"
    /\ Goto(r, "failed")
    /\ UNCHANGED <<backend, active, place, things, saved, overlap, litter, far>>

\* start returns the error: the flag is cleared.
GiveUp(r) ==
    /\ pc[r] = "failing"
    /\ active' = FALSE
    /\ Goto(r, "failed")
    /\ UNCHANGED <<backend, place, things, saved, overlap, litter, far>>

\* Encoder.start, and the sink.  If it fails, Mutter is stopped and what was
\* prepared is dropped; no other recipe is tried.
StartEncoder(r) ==
    /\ pc[r] = "prepared"
    /\ \/ Goto(r, "streaming") /\ UNCHANGED attempt
       \/ Goto(r, "undoing") /\ attempt' = [attempt EXCEPT ![r] = Len(Plan)]
    /\ UNCHANGED <<backend, active, step, things, saved, overlap, litter, far>>

-----------------------------------------------------------------------------
(* stream_display.                                                         *)

BreakOnEncoder(r) ==    \* mutant: a tablet that is gone is not noticed
    /\ pc[r] = "streaming" /\ r \notin closed
    /\ Goto(r, "stopping")
    /\ UNCHANGED <<backend, active, place, things, saved, overlap, litter, far>>

\* The loop ends: the tablet is gone, or the encoder has stopped by itself.
Break(r) ==
    /\ pc[r] = "streaming"
    /\ Goto(r, "stopping")
    /\ UNCHANGED <<backend, active, place, things, saved, overlap, litter, far>>

\* shutdown: the encoder is killed, Mutter is told to stop.
Shutdown(r) ==
    /\ pc[r] = "stopping"
    /\ Goto(r, "stopped")
    /\ desktop' = desktop \ {Name(r, "stream")}
    /\ UNCHANGED <<backend, active, place, taken, guards, screens, saved, overlap, litter, far>>

\* Drop of the session comes before the drop of its guards.
Release(r) ==
    /\ pc[r] = "stopped"
    /\ active' = FALSE
    /\ Goto(r, "dropping")
    /\ UNCHANGED <<backend, place, things, saved, overlap, litter, far>>

Finish(r) ==
    /\ pc[r] = "dropping" /\ guards[r] = <<>>
    /\ Goto(r, "done")
    /\ UNCHANGED <<backend, active, place, things, saved, overlap, litter, far>>

Daemon(r) ==
    \/ Refuse(r) \/ Enter(r) \/ Detect(r) \/ Succeed(r) \/ Fail(r) \/ Undo(r) \/ UndoFails(r)
    \/ TryNext(r) \/ GiveUp(r) \/ StartEncoder(r) \/ Shutdown(r) \/ Release(r) \/ Finish(r)

-----------------------------------------------------------------------------
(* The tablet: sessionLoop.                                                *)

\* surfaceCreated.  Left out: a loop that a quick surfaceDestroyed has not ended
\* asks beside the new one, as one more tablet would.
Show ==
    /\ tablet = "away"
    /\ tablet' = "wanting"
    /\ UNCHANGED <<backend, active, pc, place, things, saved, overlap, litter, asked, closed>>

\* openDisplay.
Ask(r) ==
    /\ tablet = "wanting" /\ pc[r] = "new"
    /\ tablet' = "waiting" /\ asked' = r
    /\ Goto(r, "asked")
    /\ UNCHANGED <<backend, active, place, things, saved, overlap, litter, closed>>

\* display_ready starts the decoder; display_error ends the loop for good.
Answer ==
    /\ tablet = "waiting"
    /\ \/ pc[asked] = "streaming" /\ tablet' = "showing"
       \/ pc[asked] \in {"refused", "failed"} /\ tablet' = "gaveUp"
    /\ UNCHANGED <<backend, active, pc, place, things, saved, overlap, litter, asked, closed>>

\* The stream ends or the link is lost: the loop asks again 1.5 s later.
Lose ==
    /\ tablet \in {"waiting", "showing"}
    /\ tablet' = "wanting"
    /\ closed' = closed \cup {asked}
    /\ UNCHANGED <<backend, active, pc, place, things, saved, overlap, litter, asked>>

\* surfaceDestroyed.
Leave ==
    /\ tablet # "away"
    /\ tablet' = "away"
    /\ closed' = IF tablet \in {"waiting", "showing"} THEN closed \cup {asked} ELSE closed
    /\ UNCHANGED <<backend, active, pc, place, things, saved, overlap, litter, asked>>

Next ==
    \/ \E r \in Requests : Daemon(r) \/ Break(r) \/ Ask(r)
    \/ Show \/ Answer \/ Lose \/ Leave

\* Tasks of the daemon run; a closed stream is an end of file or an error to it.
Spec ==
    /\ Init /\ [][Next]_vars
    /\ \A r \in Requests : WF_vars(Daemon(r)) /\ WF_vars(r \in closed /\ Break(r))

-----------------------------------------------------------------------------
(* Properties.                                                             *)

Labels == {"new", "asked", "refused", "detecting", "preparing", "prepared", "undoing",
           "failing", "failed", "streaming", "stopping", "stopped", "dropping", "done"}

Holding == {"detecting", "preparing", "prepared", "undoing", "failing",
            "streaming", "stopping", "stopped"}

(* The flag is the lock it is meant to be on every path, errors included:  *)
(* set exactly while one request builds or runs a session, and never by    *)
(* two; if it stayed set, the second screen would be gone until a restart. *)
ActiveIsHeld ==
    /\ active = (\E r \in Requests : pc[r] \in Holding)
    /\ \A r, q \in Requests : pc[r] \in Holding /\ pc[q] \in Holding => r = q

(* README: "the monitor folds back up".  With nobody at work the desktop   *)
(* is as it was, whatever failed on the way, except for what a recipe that *)
(* failed had made before its guard was pushed and for what a guard failed *)
(* to undo, and unless a session began while another one was still being   *)
(* taken down.                                                             *)
NothingLeftBehind ==
    (~overlap /\ \A r \in Requests : pc[r] \in {"new", "asked", "refused", "failed", "done"})
        => desktop \subseteq litter /\ (screens = 0 \/ "screen" \in litter)

(* Nobody takes the monitor from under the encoder that captures it: what  *)
(* the recipe has made is there until the session stops.                   *)
ScreenStaysWhileStreaming ==
    \A r \in Requests :
        ~overlap /\ pc[r] \in {"streaming", "stopping"} =>
            /\ {Name(r, t) : t \in taken[r] \ {"screen"}} \subseteq desktop
            /\ "screen" \in taken[r] => screens = saved[r] + 1

(* A tablet that leaves or loses the link does not keep the screen: its    *)
(* session is taken down, whatever it was doing.                           *)
LeftScreenIsFreed ==
    \A r \in Requests : r \in closed ~> pc[r] \in {"refused", "failed", "done"}

=============================================================================
