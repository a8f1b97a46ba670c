---------------------------- MODULE ScreenInput -----------------------------
(***************************************************************************)
(* Touch, pen and mouse of the tablet on the second screen: lines of       *)
(* RemoteInput, the translation of fingers to a mouse (display/input.rs,   *)
(* TouchTranslator), the virtual pointer and pen (UinputSink) and the      *)
(* calls to Mutter (backends.rs, MutterSession.handle).  Positions are     *)
(* points of one axis of the monitor; the state on the right of the line   *)
(* between PC and tablet is what the tablet's Android sees.  Left out:     *)
(* keys and buttons, and the lines of a mouse wheel at the tablet ("sc"),  *)
(* each one turn of the virtual wheel without a state, whatever fingers    *)
(* do.                                                                     *)
(***************************************************************************)
EXTENDS Integers, FiniteSets

CONSTANTS
    Fingers,    \* pointer ids of the tablet
    Width,      \* points of the monitor: 0 .. Width
    Slop,       \* LONG_PRESS_SLOP, in points
    TwoSteps,   \* twice SCROLL_STEP: the sum of two fingers stands for the centroid
    Layouts,    \* where the compositor may have put the monitors
    Sinks       \* Sink: "uinput" or "mutter"

ASSUME SizesAssumption ==
    /\ Width \in Nat /\ Slop \in Nat /\ TwoSteps \in Nat \ {0}
    /\ IsFiniteSet(Fingers) /\ Sinks \subseteq {"uinput", "mutter"}
    /\ Layouts \subseteq [monitor : Int, own : Int]

None == -1      \* no position, no time

Points == 0 .. Width

(* An age stands for a time: 0 is less than TWO_FINGER_TAP_MS, 1 less than *)
(* LONG_PRESS_MS, 2 anything longer.                                       *)

VARIABLES
    sink,       \* session.sink
    layout,     \* left edges of the virtual monitor and of the user's own
    geometry,   \* left edges of the monitor and of the desktop, read at the start
    glass,      \* fingers that are on the glass
    slots,      \* slots: position of each finger, or None
    dragging, press, origin,        \* dragging; press: age and place
    twoAt, scrolled, lastSum, acc,  \* two_at, scrolled, last_centroid, scroll_acc
    left, flip,         \* the virtual mouse, see Mouse
    cursor,     \* the pointer, in points of the desktop
    notches, start,     \* history: notches and centroid since two fingers landed
    strayed,            \* history: the last line of a move was not a finger's
    penTool, penKeys,   \* pen_tool; keys that are down on the virtual pen
    pen                 \* the pen over the glass: "away", "near" or "contact"

gesture == <<slots, dragging, press, origin, twoAt, scrolled, lastSum, acc>>
mouse   == <<left, flip>>
history == <<notches, start>>
stylus  == <<penTool, penKeys>>
places  == <<sink, layout, geometry>>
vars    == <<places, glass, gesture, mouse, cursor, history, strayed, stylus, pen>>

\* union_rects: the desktop begins where the leftmost monitor does.
Union(l) == IF l.monitor < l.own THEN l.monitor ELSE l.own

\* sway_geometry and its sisters.
Geometry(l) == [monitor |-> l.monitor, desktop |-> Union(l)]

Init ==
    /\ sink \in Sinks
    /\ layout \in Layouts /\ geometry = Geometry(layout)
    /\ glass = {} /\ slots = [f \in Fingers |-> None]
    /\ dragging = FALSE /\ press = None /\ origin = None
    /\ twoAt = None /\ scrolled = FALSE /\ lastSum = None /\ acc = 0
    /\ left = FALSE /\ flip = FALSE /\ cursor = 0
    /\ notches = 0 /\ start = None /\ strayed = FALSE
    /\ penTool = "none" /\ penKeys = {} /\ pen = "away"

\* Keys of the map slots.
Held(s) == {f \in Fingers : s[f] # None}

\* centroid of two fingers, times two.
Sum(s) == LET f == CHOOSE f \in Held(s) : TRUE
              g == CHOOSE g \in Held(s) : g # f
          IN  s[f] + s[g]

Abs(n) == IF n < 0 THEN -n ELSE n

\* Whole steps in n, towards zero: the loop that takes SCROLL_STEP from scroll_acc.
Steps(n) == IF n < 0 THEN -((-n) \div TwoSteps) ELSE n \div TwoSteps

ToAbsOfMonitor(u) == u    \* mutant: the place of the monitor is forgotten

\* to_abs, and the compositor, which spreads the axis over the desktop.
ToAbs(u) == geometry.monitor + u

Shown(a) == a + Union(layout)

-----------------------------------------------------------------------------
(* Fingers, through TouchTranslator.push.                                  *)

FirstFinger(f, u) ==
    /\ dragging' = TRUE /\ press' = 0 /\ origin' = u
    /\ left' = TRUE /\ cursor' = Shown(ToAbs(u))
    /\ UNCHANGED <<twoAt, scrolled, lastSum, acc, flip, history>>

SecondFinger(s) ==
    /\ dragging' = FALSE /\ left' = (left /\ ~dragging)
    /\ press' = None /\ origin' = None
    /\ lastSum' = Sum(s) /\ acc' = 0 /\ twoAt' = 0 /\ scrolled' = FALSE
    /\ start' = Sum(s) /\ notches' = 0
    /\ UNCHANGED <<flip, cursor>>

MoreFingers ==
    /\ press' = None /\ origin' = None /\ twoAt' = None
    /\ UNCHANGED <<dragging, scrolled, lastSum, acc, mouse, cursor, history>>

FingerDown(f, u) ==
    /\ sink = "uinput"
    /\ f \notin glass /\ glass' = glass \cup {f}
    /\ slots' = [slots EXCEPT ![f] = u]
    /\ CASE Cardinality(Held(slots')) = 1 -> FirstFinger(f, u)
         [] Cardinality(Held(slots')) = 2 -> SecondFinger(slots')
         [] OTHER -> MoreFingers
    /\ strayed' = FALSE
    /\ UNCHANGED <<places, stylus, pen>>

Drag(u) ==
    /\ cursor' = Shown(ToAbs(u))
    /\ IF press # None /\ Abs(u - origin) > Slop
       THEN press' = None /\ origin' = None
       ELSE UNCHANGED <<press, origin>>
    /\ UNCHANGED <<lastSum, acc, scrolled, mouse, history>>

ScrollOneStep(s) ==    \* mutant: one notch per line, however far the fingers went
    LET total == acc + IF lastSum = None THEN 0 ELSE Sum(s) - lastSum
        step == IF Abs(total) < TwoSteps THEN 0 ELSE IF total < 0 THEN -1 ELSE 1
    IN  /\ lastSum' = Sum(s)
        /\ acc' = 0
        /\ notches' = notches + step
        /\ IF step # 0 THEN scrolled' = TRUE /\ flip' = ~flip
                       ELSE UNCHANGED <<scrolled, flip>>
        /\ UNCHANGED <<press, origin, left, cursor, start>>

Scroll(s) ==
    LET total == acc + IF lastSum = None THEN 0 ELSE Sum(s) - lastSum
    IN  /\ lastSum' = Sum(s)
        /\ acc' = total - Steps(total) * TwoSteps
        /\ notches' = notches + Steps(total)
        /\ IF Steps(total) # 0 THEN scrolled' = TRUE /\ flip' = ~flip
                               ELSE UNCHANGED <<scrolled, flip>>
        /\ UNCHANGED <<press, origin, left, cursor, start>>

\* A line for a pointer that is no finger: the pen, when it came down after
\* a finger, is one more pointer of the fingers' MOVE events.
FingerMove(f, u) ==
    /\ sink = "uinput"
    /\ f \in glass \/ (pen = "contact" /\ glass # {})
    /\ slots' = IF slots[f] # None THEN [slots EXCEPT ![f] = u] ELSE slots
    /\ IF dragging /\ Cardinality(Held(slots')) = 1 THEN Drag(u)
       ELSE IF Cardinality(Held(slots')) = 2 THEN Scroll(slots')
       ELSE UNCHANGED <<press, origin, lastSum, acc, scrolled, mouse, cursor, history>>
    /\ strayed' = (f \notin glass)
    /\ UNCHANGED <<dragging, twoAt, places, glass, stylus, pen>>

GestureEndsHalf ==    \* mutant: a press that is armed survives its finger
    /\ dragging' = FALSE /\ left' = (left /\ ~dragging)
    /\ flip' = IF twoAt = 0 /\ ~scrolled THEN ~flip ELSE flip
    /\ lastSum' = None /\ twoAt' = None /\ scrolled' = FALSE
    /\ UNCHANGED <<press, origin, history>>

GestureEnds ==
    /\ dragging' = FALSE /\ left' = (left /\ ~dragging)
    /\ flip' = IF twoAt = 0 /\ ~scrolled THEN ~flip ELSE flip
    /\ press' = None /\ origin' = None /\ lastSum' = None
    /\ twoAt' = None /\ scrolled' = FALSE
    /\ UNCHANGED history

FingersRemain(s) ==
    /\ IF Cardinality(Held(s)) = 1
       THEN lastSum' = None /\ start' = None /\ notches' = 0
       ELSE UNCHANGED <<lastSum, history>>
    /\ UNCHANGED <<dragging, mouse, press, origin, twoAt, scrolled>>

\* Up and cancel.
FingerUp(f) ==
    /\ sink = "uinput"
    /\ f \in glass /\ glass' = glass \ {f}
    /\ slots' = [slots EXCEPT ![f] = None]
    /\ IF Held(slots') = {} THEN GestureEnds ELSE FingersRemain(slots')
    /\ UNCHANGED <<acc, cursor, strayed, places, stylus, pen>>

TickHolds ==    \* mutant: the left button is not released before the right click
    /\ sink = "uinput"
    /\ press = 2 /\ dragging /\ Cardinality(Held(slots)) = 1
    /\ press' = None /\ origin' = None
    /\ dragging' = FALSE /\ flip' = ~flip
    /\ UNCHANGED <<slots, twoAt, scrolled, lastSum, acc, left, cursor,
                   history, strayed, places, glass, stylus, pen>>

TickExactly ==    \* mutant: the click is due at one moment only
    /\ sink = "uinput"
    /\ press = 1 /\ dragging /\ Cardinality(Held(slots)) = 1
    /\ press' = None /\ origin' = None
    /\ dragging' = FALSE /\ left' = FALSE /\ flip' = ~flip
    /\ UNCHANGED <<slots, twoAt, scrolled, lastSum, acc, cursor,
                   history, strayed, places, glass, stylus, pen>>

\* tick, every 50 ms: a finger that was held still becomes a right click.
Tick ==
    /\ sink = "uinput"
    /\ press = 2 /\ dragging /\ Cardinality(Held(slots)) = 1
    /\ press' = None /\ origin' = None
    /\ dragging' = FALSE /\ left' = FALSE /\ flip' = ~flip
    /\ UNCHANGED <<slots, twoAt, scrolled, lastSum, acc, cursor,
                   history, strayed, places, glass, stylus, pen>>

\* Time passes for a press or for two fingers.
Elapse ==
    /\ press \in 0 .. 1 \/ twoAt \in 0 .. 1
    /\ press' = IF press \in 0 .. 1 THEN press + 1 ELSE press
    /\ twoAt' = IF twoAt \in 0 .. 1 THEN twoAt + 1 ELSE twoAt
    /\ UNCHANGED <<slots, dragging, origin, scrolled, lastSum, acc, mouse, cursor,
                   history, strayed, places, glass, stylus, pen>>

-----------------------------------------------------------------------------
(* Mutter takes touches as they are: slots stand for its touch points.     *)

MutterTouch(f, u) ==
    /\ sink = "mutter"
    /\ u = None => f \in glass
    /\ glass' = IF u = None THEN glass \ {f} ELSE glass \cup {f}
    /\ slots' = [slots EXCEPT ![f] = u]
    /\ UNCHANGED <<dragging, press, origin, twoAt, scrolled, lastSum, acc, mouse,
                   cursor, history, strayed, places, stylus, pen>>

-----------------------------------------------------------------------------
(* The pen and a mouse over the glass.                                     *)

\* pen_event: BTN_TOOL_PEN or BTN_TOOL_RUBBER while in range, BTN_TOUCH, BTN_STYLUS.
PenUinput(down, rubber, barrel, near) ==
    LET wanted == IF ~near THEN "none" ELSE IF rubber THEN "rubber" ELSE "pen"
        kept   == IF penTool = wanted THEN penKeys
                  ELSE IF penTool = "none" THEN penKeys
                  ELSE penKeys \ {"touch", "stylus", penTool}
        pressed == (IF down THEN {"touch"} ELSE {}) \cup (IF barrel THEN {"stylus"} ELSE {})
    IN  /\ penTool' = wanted
        /\ penKeys' = IF wanted = "none" THEN kept
                      ELSE ((kept \cup {wanted}) \ {"touch", "stylus"}) \cup pressed
        /\ UNCHANGED <<left, cursor>>

\* Out of range is nothing to Mutter; in range the pen is a pointer with one button.
PenMutter(down, near, u) ==
    /\ IF near THEN left' = down /\ cursor' = layout.monitor + u
               ELSE UNCHANGED <<left, cursor>>
    /\ UNCHANGED stylus

\* The tablet's events: the pen comes near, hovers, writes, is lifted, leaves.
PenLine(to, rubber, barrel, u) ==
    /\ <<pen, to>> \notin {<<"away", "away">>, <<"contact", "away">>}
    /\ pen' = to
    /\ penTool # "none" => rubber = (penTool = "rubber")
    /\ IF sink = "uinput" THEN PenUinput(to = "contact", rubber, barrel, to # "away")
                          ELSE PenMutter(to = "contact", to # "away", u)
    /\ UNCHANGED <<gesture, flip, history, strayed, places>>

PenEvent(to, rubber, barrel, u) ==
    PenLine(to, rubber, barrel, u) /\ UNCHANGED glass

\* A gesture that is cancelled while the pen is the first of its pointers goes
\* to the pen: the fingers have left the glass and no line says so.
CancelUnderPen(rubber, barrel, u) ==
    /\ pen = "contact" /\ glass # {} /\ glass' = {}
    /\ PenLine("near", rubber, barrel, u)

\* A mouse at the tablet hovers: never while a finger is down.
Hover(u) ==
    /\ glass = {}
    /\ cursor' = IF sink = "uinput" THEN Shown(ToAbs(u)) ELSE layout.monitor + u
    /\ UNCHANGED <<gesture, mouse, history, strayed, places, glass, stylus, pen>>

\* The user arranges the monitors, once: the geometry of the session stays.
Arrange ==
    /\ geometry = Geometry(layout)
    /\ layout' \in Layouts \ {layout}
    /\ UNCHANGED <<sink, geometry, glass, gesture, mouse, cursor, history, strayed,
                   stylus, pen>>

-----------------------------------------------------------------------------
Next ==
    \/ \E f \in Fingers, u \in Points : FingerDown(f, u) \/ FingerMove(f, u)
    \/ \E f \in Fingers : FingerUp(f)
    \/ \E f \in Fingers, u \in Points \cup {None} : MutterTouch(f, u)
    \/ Tick \/ Elapse \/ Arrange
    \/ \E u \in Points : Hover(u)
    \/ \E to \in {"away", "near", "contact"}, rubber, barrel \in BOOLEAN, u \in Points :
           PenEvent(to, rubber, barrel, u)
    \/ \E rubber, barrel \in BOOLEAN, u \in Points : CancelUnderPen(rubber, barrel, u)

\* The clock runs, and the interval of stream_display fires again and again.
Spec == Init /\ [][Next]_vars /\ WF_vars(Elapse) /\ WF_vars(Tick)

-----------------------------------------------------------------------------
(* Properties.                                                             *)

(* No gesture leaves the button stuck: with the virtual mouse, the left    *)
(* button is down exactly while one finger of the map drags, and the map   *)
(* has every finger on the glass (and more only when a gesture has been    *)
(* cancelled under the pen: then the button stays down until a next one).  *)
LeftMeansOneFinger ==
    sink = "uinput" =>
        /\ left = dragging
        /\ left => Cardinality(Held(slots)) = 1
        /\ glass \subseteq Held(slots)

(* The translator keeps the promise of a mouse (Mouse): no right click and *)
(* no turn of the wheel while the left button is held.                     *)
Hand == INSTANCE Mouse WITH left <- left, flip <- flip
ActsLikeAMouse == Hand!Spec

(* Scrolling neither loses nor doubles a step: the notches since the       *)
(* second finger landed are the whole steps the centroid has moved, also   *)
(* when a third finger comes and goes or fingers move in turns.            *)
ScrollFollowsFingers ==
    sink = "uinput" /\ Cardinality(Held(slots)) = 2 /\ lastSum # None =>
        /\ acc + TwoSteps * notches = lastSum - start
        /\ Abs(acc) < TwoSteps

(* A gesture inherits nothing from the one before: whatever fingers did,   *)
(* once all of them have been reported up the translator is as new.        *)
EmptyGlassIsFresh ==
    sink = "uinput" /\ Held(slots) = {} =>
        press = None /\ twoAt = None /\ lastSum = None /\ ~scrolled /\ ~dragging

(* README: the pointer lands where the glass was touched, as long as the   *)
(* monitors are where they were and the desktop begins at the origin, and  *)
(* no pen on the glass has been taken for the finger.                      *)
PointerUnderFinger ==
    /\ sink = "uinput" /\ dragging /\ ~strayed /\ Held(slots) \subseteq glass
    /\ geometry = Geometry(layout) /\ Union(layout) = 0
    => \E f \in Held(slots) : cursor = layout.monitor + slots[f]

(* The pen never leaves a key behind: the keys of the virtual pen are      *)
(* those of the tool in range, none when the pen is away; with Mutter its  *)
(* button is up unless the pen touches the glass.                          *)
PenLeavesNoKey ==
    /\ sink = "uinput" =>
          /\ pen = "away" => penKeys = {}
          /\ penKeys \cap {"pen", "rubber"} = {penTool} \ {"none"}
          /\ pen # "contact" => "touch" \notin penKeys
    /\ sink = "mutter" => left = (pen = "contact")

(* Nothing stays stuck when hands are off: no button, no press that is     *)
(* armed, no key of the pen.                                               *)
NothingStuck == LeftMeansOneFinger /\ EmptyGlassIsFresh /\ PenLeavesNoKey

(* A finger held still does become a right click: a press that is armed    *)
(* ends, by the click if nothing else, or its gesture is cancelled under   *)
(* the pen.                                                                *)
HeldFingerActs == press # None ~> press = None \/ ~(Held(slots) \subseteq glass)
=============================================================================
