---------------------------- MODULE TabletProofs ----------------------------
(***************************************************************************)
(* Proofs about the two ways between the second screen and the tablet:     *)
(* ScreenInput, for any fingers, sizes and layouts, and VideoPump, for any *)
(* streams and any capacity of the channel.                                *)
(*                                                                         *)
(* Those about ScreenInput rest on how many fingers the map has: a line of *)
(* down adds one or replaces one whose end was never told, up takes one    *)
(* away and move changes none.  HandInv is the invariant of the virtual    *)
(* mouse and ScrollInv the one of the wheel; the latter also says that two *)
(* fingers or more have a last centroid, without which a scroll could be   *)
(* counted from nowhere.                                                   *)
(*                                                                         *)
(* Those about VideoPump rest on runs: the splitter's buffer is always the *)
(* last of what has been read (OrderInv), and while no silence has cut a   *)
(* picture, what the assembler holds are the units of one picture from its *)
(* first on (PictureInv).  A unit then is complete when it is sent because *)
(* the numbers of the pictures ascend in the stream.                       *)
(***************************************************************************)
EXTENDS ScreenInput, VideoPump, FiniteSetTheorems, SequenceTheorems, TLAPS

Places == [Fingers -> Points \cup {None}]

HandInv ==
    /\ slots \in Places /\ dragging \in BOOLEAN /\ left \in BOOLEAN
    /\ LeftMeansOneFinger

(* A number of fingers, always.                                            *)
LEMMA HeldCount ==
    ASSUME NEW s \in Places
    PROVE  IsFiniteSet(Held(s)) /\ Cardinality(Held(s)) \in Nat
<1>1. Held(s) \in SUBSET Fingers
    BY DEF Held
<1>2. IsFiniteSet(Held(s))
    BY <1>1, FS_Subset, SizesAssumption
<1> QED
    BY <1>2, FS_CardinalityType

(* A finger that comes down is one more, unless it takes its own place.    *)
LEMMA OneMore ==
    ASSUME NEW s \in Places, NEW f \in Fingers, NEW u \in Points
    PROVE  LET t == [s EXCEPT ![f] = u]
           IN  /\ t \in Places /\ Held(t) = Held(s) \cup {f}
               /\ Cardinality(Held(t)) \in Nat \ {0}
               /\ Cardinality(Held(t)) \in {Cardinality(Held(s)), Cardinality(Held(s)) + 1}
<1> DEFINE t == [s EXCEPT ![f] = u]
<1>1. t \in Places
    BY DEF Places
<1>2. u # None
    BY SizesAssumption DEF Points, None
<1>3. Held(t) = Held(s) \cup {f}
    BY <1>2 DEF Held, Places
<1>4. Cardinality(Held(t)) \in {Cardinality(Held(s)), Cardinality(Held(s)) + 1}
  <2>1. CASE f \in Held(s)
    <3>1. Held(t) = Held(s)
        BY <1>3, <2>1
    <3> QED
        BY <3>1
  <2>2. CASE f \notin Held(s)
      BY <1>3, <2>2, HeldCount, FS_AddElement
  <2> QED
      BY <2>1, <2>2
<1>5. IsFiniteSet(Held(t)) /\ Cardinality(Held(t)) \in Nat /\ Held(t) # {}
    BY <1>1, <1>3, HeldCount
<1>6. Cardinality(Held(t)) # 0
    BY <1>5, FS_EmptySet
<1> QED
    BY <1>1, <1>3, <1>4, <1>5, <1>6

(* A finger that is lifted is one less.                                    *)
LEMMA OneLess ==
    ASSUME NEW s \in Places, NEW f \in Fingers, s[f] # None
    PROVE  LET t == [s EXCEPT ![f] = None]
           IN  /\ t \in Places /\ Held(t) = Held(s) \ {f}
               /\ Cardinality(Held(t)) = Cardinality(Held(s)) - 1
<1> DEFINE t == [s EXCEPT ![f] = None]
<1>1. t \in Places
    BY DEF Places
<1>2. Held(t) = Held(s) \ {f} /\ f \in Held(s)
    BY DEF Held, Places
<1> QED
    BY <1>1, <1>2, HeldCount, FS_RemoveElement

(* Moves change no finger's being there.                                   *)
LEMMA AsMany ==
    ASSUME NEW s \in Places, NEW f \in Fingers, NEW u \in Points,
           NEW t, t = IF s[f] # None THEN [s EXCEPT ![f] = u] ELSE s
    PROVE  t \in Places /\ Held(t) = Held(s)
<1>1. u # None
    BY SizesAssumption DEF Points, None
<1>2. t \in Places
    BY DEF Places
<1> QED
    BY <1>1, <1>2 DEF Held, Places

(* No finger is down exactly when there are none of them.                  *)
LEMMA NoneHeld ==
    ASSUME NEW s \in Places
    PROVE  Held(s) = {} <=> Cardinality(Held(s)) = 0
BY HeldCount, FS_EmptySet

(* What each line does to the hand: the new fingers and, with the virtual  *)
(* mouse, one of the moves a mouse has.                                    *)
LEMMA DownStep ==
    ASSUME HandInv, NEW f \in Fingers, NEW u \in Points, FingerDown(f, u)
    PROVE  HandInv' /\ (Hand!Next \/ UNCHANGED mouse)
<1> DEFINE n == Cardinality(Held(slots))
           m == Cardinality(Held(slots'))
<1>1. /\ slots' \in Places /\ n \in Nat /\ m \in Nat \ {0} /\ m \in {n, n + 1}
      /\ Held(slots') = Held(slots) \cup {f}
    BY OneMore, HeldCount DEF FingerDown, HandInv
<1>2. /\ sink = "uinput" /\ sink' = sink /\ left = dragging /\ (left => n = 1)
      /\ glass' = glass \cup {f} /\ glass \subseteq Held(slots)
    BY DEF FingerDown, places, HandInv, LeftMeansOneFinger
<1>3. CASE m = 1
  <2>1. FirstFinger(f, u)
      BY <1>3 DEF FingerDown
  <2>2. left' = TRUE /\ dragging' = TRUE /\ flip' = flip
      BY <2>1 DEF FirstFinger
  <2> QED
      BY <1>1, <1>2, <1>3, <2>2 DEF HandInv, LeftMeansOneFinger, Hand!Next, Hand!Press, mouse
<1>4. CASE m = 2
  <2>1. SecondFinger(slots')
      BY <1>4 DEF FingerDown
  <2>2. left' = FALSE /\ dragging' = FALSE /\ flip' = flip
      BY <1>2, <2>1 DEF SecondFinger
  <2> QED
      BY <1>1, <1>2, <2>2
         DEF HandInv, LeftMeansOneFinger, Hand!Next, Hand!Release, mouse
<1>5. CASE m \notin {1, 2}
  <2>1. MoreFingers
      BY <1>5 DEF FingerDown
  <2>2. UNCHANGED mouse /\ dragging' = dragging /\ left' = left /\ left = FALSE
      BY <1>1, <1>2, <1>5, <2>1 DEF MoreFingers, mouse, HandInv
  <2> QED
      BY <1>1, <1>2, <2>2 DEF HandInv, LeftMeansOneFinger
<1> QED
    BY <1>3, <1>4, <1>5

(* A finger that moves drags, scrolls or does nothing.                     *)
LEMMA MoveStep ==
    ASSUME HandInv, NEW f \in Fingers, NEW u \in Points, FingerMove(f, u)
    PROVE  HandInv' /\ (Hand!Next \/ UNCHANGED mouse)
<1> DEFINE n == Cardinality(Held(slots))
<1>1. slots' \in Places /\ Held(slots') = Held(slots)
    BY AsMany DEF FingerMove, HandInv
<1>2. /\ sink = "uinput" /\ sink' = sink /\ left = dragging /\ (left => n = 1)
      /\ dragging' = dragging /\ glass' \subseteq Held(slots)
    BY DEF FingerMove, places, HandInv, LeftMeansOneFinger
<1>3. CASE dragging /\ n = 1
  <2>1. Drag(u)
      BY <1>1, <1>3 DEF FingerMove
  <2> QED
      BY <1>1, <1>2, <2>1 DEF Drag, mouse, HandInv, LeftMeansOneFinger
<1>4. CASE n = 2
  <2>1. Scroll(slots')
      BY <1>1, <1>4 DEF FingerMove
  <2>2. left = FALSE /\ left' = left
      BY <1>2, <1>4, <2>1 DEF Scroll, HandInv
  <2>3. flip' = ~flip \/ flip' = flip
      BY <2>1 DEF Scroll
  <2> QED
      BY <1>1, <1>2, <2>2, <2>3
         DEF HandInv, LeftMeansOneFinger, Hand!Next, Hand!Turn, mouse
<1>5. CASE ~(dragging /\ n = 1) /\ n # 2
  <2>1. UNCHANGED mouse
      BY <1>1, <1>5 DEF FingerMove
  <2> QED
      BY <1>1, <1>2, <2>1 DEF mouse, HandInv, LeftMeansOneFinger
<1> QED
    BY <1>3, <1>4, <1>5

(* A finger that is lifted ends the gesture or leaves fingers behind.      *)
LEMMA UpStep ==
    ASSUME HandInv, NEW f \in Fingers, FingerUp(f)
    PROVE  HandInv' /\ (Hand!Next \/ UNCHANGED mouse)
<1> DEFINE n == Cardinality(Held(slots))
<1>0. slots[f] # None
    BY DEF FingerUp, HandInv, LeftMeansOneFinger, Held
<1>1. /\ slots' \in Places /\ Held(slots') = Held(slots) \ {f}
      /\ Cardinality(Held(slots')) = n - 1 /\ n \in Nat
    BY <1>0, OneLess, HeldCount DEF FingerUp, HandInv
<1>2. /\ sink = "uinput" /\ sink' = sink /\ left = dragging /\ (left => n = 1)
      /\ glass' \subseteq Held(slots')
    BY <1>1 DEF FingerUp, places, HandInv, LeftMeansOneFinger
<1>3. CASE Held(slots') = {}
  <2>1. GestureEnds
      BY <1>3 DEF FingerUp
  <2>2. left' = FALSE /\ dragging' = FALSE /\ (flip' = ~flip \/ flip' = flip)
      BY <1>2, <2>1 DEF GestureEnds
  <2> QED
      BY <1>1, <1>2, <2>2
         DEF HandInv, LeftMeansOneFinger, Hand!Next, Hand!Release, Hand!RightClick, mouse
<1>4. CASE Held(slots') # {}
  <2>1. FingersRemain(slots')
      BY <1>4 DEF FingerUp
  <2>2. n # 1
      BY <1>1, <1>4, NoneHeld
  <2>3. UNCHANGED mouse /\ left' = left /\ dragging' = dragging /\ left = FALSE
      BY <1>2, <2>1, <2>2 DEF FingersRemain, mouse, HandInv
  <2> QED
      BY <1>1, <1>2, <2>3 DEF HandInv, LeftMeansOneFinger
<1> QED
    BY <1>3, <1>4

(* Mutter's touch points are nothing to the mouse; the pen is its button   *)
(* there, and none of the mouse's with uinput.                             *)
LEMMA OtherSteps ==
    ASSUME HandInv,
           \/ \E f \in Fingers, u \in Points \cup {None} : MutterTouch(f, u)
           \/ Tick \/ Elapse \/ Arrange
           \/ \E u \in Points : Hover(u)
           \/ \E to \in {"away", "near", "contact"}, rubber, barrel \in BOOLEAN, u \in Points :
                  PenEvent(to, rubber, barrel, u)
           \/ \E rubber, barrel \in BOOLEAN, u \in Points : CancelUnderPen(rubber, barrel, u)
    PROVE  HandInv' /\ (Hand!Next \/ UNCHANGED mouse)
<1> USE DEF HandInv, LeftMeansOneFinger
<1>1. ASSUME NEW f \in Fingers, NEW u \in Points \cup {None}, MutterTouch(f, u)
      PROVE  HandInv' /\ UNCHANGED mouse
    BY <1>1 DEF MutterTouch, mouse, places, Places
<1>2. CASE Tick
    BY <1>2 DEF Tick, places, Hand!Next, Hand!RightClick
<1>3. CASE Elapse
    BY <1>3 DEF Elapse, places, mouse
<1>4. CASE Arrange
    BY <1>4 DEF Arrange, gesture, mouse
<1>5. ASSUME NEW u \in Points, Hover(u) PROVE HandInv' /\ UNCHANGED mouse
    BY <1>5 DEF Hover, places, gesture, mouse
<1>6. ASSUME NEW to \in {"away", "near", "contact"}, NEW rubber \in BOOLEAN,
             NEW barrel \in BOOLEAN, NEW u \in Points, PenLine(to, rubber, barrel, u),
             glass' \subseteq glass
      PROVE  HandInv' /\ (Hand!Next \/ UNCHANGED mouse)
  <2>1. UNCHANGED <<sink, slots, dragging, flip>> /\ glass' \subseteq glass
      BY <1>6 DEF PenLine, gesture, places
  <2>2. CASE sink = "uinput"
    <3>1. left' = left
        BY <1>6, <2>2 DEF PenLine, PenUinput
    <3> QED
        BY <2>1, <3>1 DEF mouse
  <2>3. CASE sink # "uinput"
    <3>1. left' \in BOOLEAN
        BY <1>6, <2>3 DEF PenLine, PenMutter
    <3> QED
        BY <2>1, <2>3, <3>1 DEF Hand!Next, Hand!Press, Hand!Release, mouse
  <2> QED
      BY <2>2, <2>3
<1> QED
    BY <1>1, <1>2, <1>3, <1>4, <1>5, <1>6 DEF PenEvent, CancelUnderPen

(* Every step keeps HandInv and is a step of a mouse, or none.             *)
LEMMA HandStep == HandInv /\ [Next]_vars => HandInv' /\ [Hand!Next]_mouse
<1> SUFFICES ASSUME HandInv, [Next]_vars PROVE HandInv' /\ (Hand!Next \/ UNCHANGED mouse)
    OBVIOUS
<1>1. CASE UNCHANGED vars
    BY <1>1 DEF HandInv, LeftMeansOneFinger, vars, places, gesture, mouse
<1>2. CASE Next
    BY <1>2, DownStep, MoveStep, UpStep, OtherSteps DEF Next
<1> QED
    BY <1>1, <1>2

(* Before the first line no finger is down and no button either.           *)
LEMMA HandInit == Init => HandInv /\ Hand!Init
BY DEF Init, HandInv, LeftMeansOneFinger, Places, Hand!Init

(* The left button is down exactly while one finger, alone on the glass,   *)
(* drags (input.rs, TouchTranslator).                                      *)
THEOREM NoButtonStuck == Spec => []LeftMeansOneFinger
<1>1. HandInv => LeftMeansOneFinger
    BY DEF HandInv
<1> QED
    BY <1>1, HandInit, HandStep, PTL DEF Spec

(* The translator implements a mouse: no right click and no turn of the    *)
(* wheel while the left button is held (input.rs, TouchTranslator).        *)
THEOREM TranslatorIsAMouse == Spec => ActsLikeAMouse
<1>1. HandInv /\ [Next]_vars => HandInv' /\ [Hand!Next]_(Hand!mouse)
    BY HandStep DEF Hand!mouse, mouse
<1> QED
    BY <1>1, HandInit, PTL DEF Spec, ActsLikeAMouse, Hand!Spec

-----------------------------------------------------------------------------
(* The wheel.                                                              *)

ScrollInv ==
    /\ slots \in Places
    /\ lastSum \in Int /\ acc \in Int /\ notches \in Int /\ start \in Int
    /\ sink = "uinput" =>
          /\ Cardinality(Held(slots)) >= 2 => lastSum # None
          /\ lastSum # None =>
                /\ acc + TwoSteps * notches = lastSum - start
                /\ Abs(acc) < TwoSteps

(* Two fingers have a centroid, which is not the value that stands for     *)
(* none.                                                                   *)
LEMMA SumOfTwo ==
    ASSUME NEW s \in Places, Cardinality(Held(s)) = 2
    PROVE  Sum(s) \in Nat /\ Sum(s) # None
<1> DEFINE f == CHOOSE f \in Held(s) : TRUE
           g == CHOOSE g \in Held(s) : g # f
<1>1. f \in Held(s)
    BY NoneHeld
<1>2. ASSUME NEW h \in Held(s) PROVE Held(s) \ {h} # {}
  <2>1. IsFiniteSet(Held(s))
      BY HeldCount
  <2>2. Cardinality(Held(s) \ {h}) = 1
      BY <2>1, FS_RemoveElement
  <2> QED
      BY <2>2, FS_EmptySet
<1>3. Held(s) \ {f} # {}
    BY <1>1, <1>2
<1>4. g \in Held(s)
    BY <1>3
<1>5. s[f] \in Nat /\ s[g] \in Nat
    BY <1>1, <1>4, SizesAssumption DEF Held, Places, Points
<1>6. Sum(s) = s[f] + s[g]
    BY DEF Sum
<1> QED
    BY <1>5, <1>6 DEF None

(* Taking whole steps leaves less than one.                                *)
LEMMA StepsLeaveLess ==
    ASSUME NEW n \in Int
    PROVE  Steps(n) \in Int /\ Abs(n - Steps(n) * TwoSteps) < TwoSteps
<1>1. \A m \in Nat : /\ m \div TwoSteps \in Int
                     /\ 0 <= m - (m \div TwoSteps) * TwoSteps
                     /\ m - (m \div TwoSteps) * TwoSteps < TwoSteps
    BY SizesAssumption
<1>2. CASE n < 0
  <2>1. -n \in Nat
      BY <1>2
  <2>2. Steps(n) = -((-n) \div TwoSteps)
      BY <1>2 DEF Steps
  <2> DEFINE q == (-n) \div TwoSteps
  <2>3. q \in Int /\ 0 <= -n - q * TwoSteps /\ -n - q * TwoSteps < TwoSteps
      BY <1>1, <2>1
  <2>4. n - (-q) * TwoSteps = -(-n - q * TwoSteps)
      BY <2>3, SizesAssumption
  <2> HIDE DEF q
  <2> QED
      BY <2>2, <2>3, <2>4, SizesAssumption DEF Abs, q
<1>3. CASE n >= 0
  <2>1. Steps(n) = n \div TwoSteps
      BY <1>3 DEF Steps
  <2> QED
      BY <1>1, <1>3, <2>1, SizesAssumption DEF Abs
<1> QED
    BY <1>2, <1>3

(* A scroll moves what it takes from the rest to the notches.              *)
LEMMA ScrollStep ==
    ASSUME ScrollInv, sink = "uinput", NEW s \in Places,
           Cardinality(Held(s)) = 2, lastSum # None, Scroll(s)
    PROVE  /\ lastSum' \in Int /\ acc' \in Int /\ notches' \in Int /\ start' = start
           /\ lastSum' # None
           /\ acc' + TwoSteps * notches' = lastSum' - start'
           /\ Abs(acc') < TwoSteps
<1> DEFINE total == acc + (Sum(s) - lastSum)
           k == Steps(total)
<1>1. Sum(s) \in Int /\ Sum(s) # None /\ total \in Int
    BY SumOfTwo DEF ScrollInv
<1>2. k \in Int /\ Abs(total - k * TwoSteps) < TwoSteps
    BY <1>1, StepsLeaveLess
<1>3. /\ lastSum' = Sum(s) /\ acc' = total - k * TwoSteps
      /\ notches' = notches + k /\ start' = start
    BY DEF Scroll
<1>4. acc + TwoSteps * notches = lastSum - start
    BY DEF ScrollInv
<1> HIDE DEF k
<1>5. k * TwoSteps \in Int /\ TwoSteps * (notches + k) = TwoSteps * notches + k * TwoSteps
    BY <1>2, SizesAssumption DEF ScrollInv
<1> QED
    BY <1>1, <1>2, <1>3, <1>4, <1>5, SizesAssumption DEF ScrollInv

(* Every step keeps ScrollInv.                                             *)
LEMMA ScrollInvStep == HandInv /\ ScrollInv /\ [Next]_vars => ScrollInv'
<1> SUFFICES ASSUME HandInv, ScrollInv, [Next]_vars PROVE ScrollInv'
    OBVIOUS
<1> DEFINE n == Cardinality(Held(slots))
<1> USE DEF ScrollInv
<1>1. ASSUME NEW f \in Fingers, NEW u \in Points, FingerDown(f, u) PROVE ScrollInv'
  <2> DEFINE m == Cardinality(Held(slots'))
  <2>1. slots' \in Places /\ n \in Nat /\ m \in Nat \ {0} /\ m \in {n, n + 1}
      BY <1>1, OneMore, HeldCount DEF FingerDown
  <2>2. sink = "uinput" /\ sink' = sink
      BY <1>1 DEF FingerDown, places
  <2>3. CASE m = 1
    <3>1. FirstFinger(f, u)
        BY <1>1, <2>1, <2>3 DEF FingerDown
    <3> QED
        BY <2>1, <2>2, <2>3, <3>1 DEF FirstFinger, history
  <2>4. CASE m = 2
    <3>1. SecondFinger(slots')
        BY <1>1, <2>1, <2>4 DEF FingerDown
    <3>2. Sum(slots') \in Nat /\ Sum(slots') # None
        BY <2>1, <2>4, SumOfTwo
    <3>3. /\ lastSum' = Sum(slots') /\ start' = Sum(slots') /\ acc' = 0 /\ notches' = 0
        BY <3>1 DEF SecondFinger
    <3> QED
        BY <2>1, <2>2, <3>2, <3>3, SizesAssumption DEF Abs
  <2>5. CASE m \notin {1, 2}
    <3>1. MoreFingers
        BY <1>1, <2>1, <2>5 DEF FingerDown
    <3> QED
        BY <2>1, <2>2, <2>5, <3>1 DEF MoreFingers, history
  <2> QED
      BY <2>3, <2>4, <2>5
<1>2. ASSUME NEW f \in Fingers, NEW u \in Points, FingerMove(f, u) PROVE ScrollInv'
  <2>1. slots' \in Places /\ Held(slots') = Held(slots)
      BY <1>2, AsMany DEF FingerMove
  <2>2. sink = "uinput" /\ sink' = sink
      BY <1>2 DEF FingerMove, places
  <2>3. CASE n = 2
    <3>1. Scroll(slots')
        BY <1>2, <2>1, <2>3 DEF FingerMove
    <3> QED
        BY <2>1, <2>2, <2>3, <3>1, ScrollStep
  <2>4. CASE n # 2
    <3>1. UNCHANGED <<lastSum, acc, notches, start>>
        BY <1>2, <2>1, <2>4 DEF FingerMove, Drag, history
    <3> QED
        BY <2>1, <2>2, <3>1
  <2> QED
      BY <2>3, <2>4
<1>3. ASSUME NEW f \in Fingers, FingerUp(f) PROVE ScrollInv'
  <2>0. slots[f] # None
      BY <1>3 DEF FingerUp, HandInv, LeftMeansOneFinger, Held
  <2>1. slots' \in Places /\ Cardinality(Held(slots')) = n - 1 /\ n \in Nat
      BY <1>3, <2>0, OneLess, HeldCount DEF FingerUp
  <2>2. sink = "uinput" /\ sink' = sink /\ acc' = acc
      BY <1>3 DEF FingerUp, places
  <2>3. CASE Held(slots') = {}
    <3>1. GestureEnds
        BY <1>3, <2>3 DEF FingerUp
    <3>2. Cardinality(Held(slots')) = 0
        BY <2>1, <2>3, NoneHeld
    <3> QED
        BY <2>1, <2>2, <3>1, <3>2 DEF GestureEnds, history, None
  <2>4. CASE Held(slots') # {}
    <3>1. FingersRemain(slots')
        BY <1>3, <2>4 DEF FingerUp
    <3>2. CASE n - 1 = 1
        BY <2>1, <2>2, <3>1, <3>2 DEF FingersRemain, None
    <3>3. CASE n - 1 # 1
        BY <2>1, <2>2, <3>1, <3>3 DEF FingersRemain, history
    <3> QED
        BY <3>2, <3>3
  <2> QED
      BY <2>3, <2>4
<1>4. ASSUME NEW f \in Fingers, NEW u \in Points \cup {None}, MutterTouch(f, u)
      PROVE  ScrollInv'
    BY <1>4 DEF MutterTouch, places, history, Places
<1>5. CASE Tick
    BY <1>5 DEF Tick, places, history
<1>6. CASE Elapse
    BY <1>6 DEF Elapse, places, history
<1>7. CASE Arrange
    BY <1>7 DEF Arrange, gesture, history
<1>8. ASSUME NEW u \in Points, Hover(u) PROVE ScrollInv'
    BY <1>8 DEF Hover, gesture, places, history
<1>9. ASSUME NEW to \in {"away", "near", "contact"}, NEW rubber \in BOOLEAN,
             NEW barrel \in BOOLEAN, NEW u \in Points, PenLine(to, rubber, barrel, u)
      PROVE  ScrollInv'
    BY <1>9 DEF PenLine, gesture, places, history
<1>10. CASE UNCHANGED vars
    BY <1>10 DEF vars, gesture, places, history
<1> QED
    BY <1>1, <1>2, <1>3, <1>4, <1>5, <1>6, <1>7, <1>8, <1>9, <1>10
       DEF Next, PenEvent, CancelUnderPen

(* Scrolling neither loses nor doubles a step, for any size of a step and  *)
(* any number of fingers (input.rs, TouchTranslator.push and tick).        *)
THEOREM NoNotchIsLost == Spec => []ScrollFollowsFingers
<1>1. Init => ScrollInv
  <2> SUFFICES ASSUME Init PROVE ScrollInv
      OBVIOUS
  <2>1. slots \in Places /\ Held(slots) = {}
      BY DEF Init, Places, Held
  <2>2. Cardinality(Held(slots)) = 0
      BY <2>1, NoneHeld
  <2> QED
      BY <2>1, <2>2 DEF Init, ScrollInv, None
<1>2. ScrollInv => ScrollFollowsFingers
  <2> SUFFICES ASSUME ScrollInv, sink = "uinput", lastSum # None
               PROVE  acc + TwoSteps * notches = lastSum - start /\ Abs(acc) < TwoSteps
      BY DEF ScrollFollowsFingers
  <2> QED
      BY DEF ScrollInv
<1> QED
    BY <1>1, <1>2, HandInit, HandStep, ScrollInvStep, PTL DEF Spec

-----------------------------------------------------------------------------
(* Hands off: what a gesture or the pen leaves behind.                     *)

PenInv ==
    /\ sink \in {"uinput", "mutter"} /\ pen \in {"away", "near", "contact"}
    /\ penKeys \subseteq {"touch", "stylus", "pen", "rubber"}
    /\ penTool \in {"none", "pen", "rubber"}
    /\ sink = "uinput" => (penTool = "none" <=> pen = "away")
    /\ PenLeavesNoKey

HandsOffInv == HandInv /\ EmptyGlassIsFresh /\ PenInv

(* The pen takes its keys along (input.rs, pen_event; backends.rs).        *)
LEMMA PenStep == PenInv /\ [Next]_vars => PenInv'
<1> SUFFICES ASSUME PenInv, [Next]_vars PROVE PenInv'
    OBVIOUS
<1> USE DEF PenInv, PenLeavesNoKey
<1>1. ASSUME NEW to \in {"away", "near", "contact"}, NEW rubber \in BOOLEAN,
             NEW barrel \in BOOLEAN, NEW u \in Points, PenLine(to, rubber, barrel, u)
      PROVE  PenInv'
  <2>1. sink' = sink /\ pen' = to /\ (to = "away" => pen = "near")
      BY <1>1 DEF PenLine, places
  <2>2. CASE sink = "uinput"
    <3>1. PenUinput(to = "contact", rubber, barrel, to # "away")
        BY <1>1, <2>2 DEF PenLine
    <3>2. penTool # "none" => rubber = (penTool = "rubber")
        BY <1>1 DEF PenLine
    <3>3. CASE to = "away"
        BY <2>1, <2>2, <3>1, <3>3 DEF PenUinput
    <3>4. CASE to # "away"
      <4>1. penTool' = IF rubber THEN "rubber" ELSE "pen"
          BY <3>1, <3>4 DEF PenUinput
      <4>2. penTool = "none" \/ penTool = penTool'
          BY <3>2, <4>1
      <4>3. penKeys' = ((penKeys \cup {penTool'}) \ {"touch", "stylus"})
                       \cup (IF to = "contact" THEN {"touch"} ELSE {})
                       \cup (IF barrel THEN {"stylus"} ELSE {})
          BY <3>1, <3>4, <4>1, <4>2 DEF PenUinput
      <4>4. penKeys' \cap {"pen", "rubber"} = {penTool'}
          BY <2>2, <4>1, <4>2, <4>3
      <4> QED
          BY <2>1, <2>2, <3>4, <4>1, <4>3, <4>4
    <3> QED
        BY <3>3, <3>4
  <2>3. CASE sink = "mutter"
    <3>1. PenMutter(to = "contact", to # "away", u)
        BY <1>1, <2>3 DEF PenLine
    <3> QED
        BY <2>1, <2>3, <3>1 DEF PenMutter, stylus
  <2> QED
      BY <2>2, <2>3
<1>2. ASSUME UNCHANGED <<sink, pen, penKeys, penTool>>, left' = left \/ sink = "uinput"
      PROVE  PenInv'
    BY <1>2
<1>3. ASSUME NEW f \in Fingers, NEW u \in Points, FingerDown(f, u) \/ FingerMove(f, u)
      PROVE  PenInv'
    BY <1>2, <1>3 DEF FingerDown, FingerMove, places, stylus
<1>4. ASSUME NEW f \in Fingers, FingerUp(f) PROVE PenInv'
    BY <1>2, <1>4 DEF FingerUp, places, stylus
<1>5. ASSUME NEW f \in Fingers, NEW u \in Points \cup {None}, MutterTouch(f, u) PROVE PenInv'
    BY <1>2, <1>5 DEF MutterTouch, places, stylus, mouse
<1>6. CASE Tick \/ Elapse \/ Arrange
    BY <1>2, <1>6 DEF Tick, Elapse, Arrange, places, stylus, mouse
<1>7. ASSUME NEW u \in Points, Hover(u) PROVE PenInv'
    BY <1>2, <1>7 DEF Hover, places, stylus, mouse
<1>8. CASE UNCHANGED vars
    BY <1>2, <1>8 DEF vars, places, stylus, mouse
<1> QED
    BY <1>1, <1>3, <1>4, <1>5, <1>6, <1>7, <1>8 DEF Next, PenEvent, CancelUnderPen

(* The last finger that is lifted resets the translator (input.rs).        *)
LEMMA GlassStep == HandInv /\ EmptyGlassIsFresh /\ [Next]_vars => EmptyGlassIsFresh'
<1> SUFFICES ASSUME HandInv, EmptyGlassIsFresh, [Next]_vars, sink' = "uinput", Held(slots') = {}
             PROVE  press' = None /\ twoAt' = None /\ lastSum' = None /\ ~scrolled' /\ ~dragging'
    BY DEF EmptyGlassIsFresh, Held
<1> DEFINE Fresh == press' = None /\ twoAt' = None /\ lastSum' = None /\ ~scrolled' /\ ~dragging'
<1>1. ASSUME NEW f \in Fingers, NEW u \in Points, FingerDown(f, u) PROVE Fresh
  <2>1. Held(slots') = Held(slots) \cup {f}
      BY <1>1, OneMore DEF FingerDown, HandInv
  <2> QED
      BY <2>1
<1>2. ASSUME NEW f \in Fingers, NEW u \in Points, FingerMove(f, u) PROVE Fresh
  <2>1. Held(slots') = Held(slots)
      BY <1>2, AsMany DEF FingerMove, HandInv
  <2>2. Held(slots) # {}
      BY <1>2 DEF FingerMove, HandInv, LeftMeansOneFinger
  <2> QED
      BY <2>1, <2>2
<1>3. ASSUME NEW f \in Fingers, FingerUp(f) PROVE Fresh
    BY <1>3 DEF FingerUp, GestureEnds
<1>4. ASSUME NEW f \in Fingers, NEW u \in Points \cup {None}, MutterTouch(f, u) PROVE Fresh
    BY <1>4 DEF MutterTouch, places
<1>5. CASE Tick
  <2>1. Held(slots) = {} /\ Cardinality(Held(slots)) = 1
      BY <1>5 DEF Tick
  <2> QED
      BY <2>1, NoneHeld DEF HandInv
<1>6. CASE UNCHANGED <<sink, slots, press, twoAt, lastSum, scrolled, dragging>>
    BY <1>6 DEF EmptyGlassIsFresh
<1>7. CASE Elapse
    BY <1>7 DEF Elapse, EmptyGlassIsFresh, places, None
<1>8. CASE Arrange
    BY <1>6, <1>8 DEF Arrange, gesture
<1>9. ASSUME NEW u \in Points, Hover(u) PROVE Fresh
    BY <1>6, <1>9 DEF Hover, gesture, places
<1>10. ASSUME NEW to \in {"away", "near", "contact"}, NEW rubber \in BOOLEAN,
              NEW barrel \in BOOLEAN, NEW u \in Points, PenLine(to, rubber, barrel, u)
       PROVE  Fresh
    BY <1>6, <1>10 DEF PenLine, gesture, places
<1>11. CASE UNCHANGED vars
    BY <1>6, <1>11 DEF vars, gesture, places
<1> QED
    BY <1>1, <1>2, <1>3, <1>4, <1>5, <1>7, <1>8, <1>9, <1>10, <1>11
       DEF Next, PenEvent, CancelUnderPen

(* Nothing stays stuck when hands are off: no button, no press that is     *)
(* armed, no key of the pen (input.rs and backends.rs).                    *)
THEOREM HandsOffNothingStuck == Spec => []NothingStuck
<1>1. Init => HandsOffInv
  <2>1. Init => EmptyGlassIsFresh /\ PenInv
      BY SizesAssumption DEF Init, EmptyGlassIsFresh, PenInv, PenLeavesNoKey
  <2> QED
      BY <2>1, HandInit DEF HandsOffInv
<1>2. HandsOffInv /\ [Next]_vars => HandsOffInv'
    BY HandStep, GlassStep, PenStep DEF HandsOffInv
<1>3. HandsOffInv => NothingStuck
    BY DEF HandsOffInv, HandInv, PenInv, NothingStuck
<1> QED
    BY <1>1, <1>2, <1>3, PTL DEF Spec

-----------------------------------------------------------------------------
(* The pointer.                                                            *)

(* A finger that drags is the only one, so that the line that moved the    *)
(* pointer last was its own; a monitor whose place and whose desktop are   *)
(* what they were is where it was.                                         *)
PointerInv == HandInv /\ layout \in Layouts /\ PointerUnderFinger

(* Every step keeps the pointer under the finger (input.rs and Mapping).   *)
LEMMA PointerStep == PointerInv /\ [Next]_vars => PointerInv'
<1> SUFFICES ASSUME PointerInv, [Next]_vars
             PROVE  layout' \in Layouts /\ PointerUnderFinger'
    BY HandStep DEF PointerInv
<1> DEFINE Goal == layout' \in Layouts /\ PointerUnderFinger'
<1>h. HandInv /\ HandInv'
    BY HandStep DEF PointerInv
<1>l. layout \in Layouts /\ layout.monitor \in Int
    BY SizesAssumption DEF PointerInv
<1>s. ASSUME NEW f \in Fingers, NEW u \in Points, slots'[f] = u, cursor' = Shown(ToAbs(u)),
             UNCHANGED places
      PROVE  Goal
  <2> SUFFICES ASSUME geometry = Geometry(layout), Union(layout) = 0
               PROVE  f \in Held(slots') /\ cursor' = layout'.monitor + slots'[f]
      BY <1>l, <1>s DEF PointerUnderFinger, places, Geometry, Union
  <2>1. u \in Nat /\ u # None
      BY SizesAssumption DEF Points, None
  <2>2. cursor' = layout.monitor + u
      BY <1>l, <1>s, <2>1 DEF Shown, ToAbs, Geometry
  <2> QED
      BY <1>s, <2>1, <2>2 DEF Held, places
<1>n. ASSUME ~dragging' \/ sink' # "uinput" \/ strayed' \/ ~(Held(slots') \subseteq glass'),
             layout' \in Layouts
      PROVE  Goal
    BY <1>n DEF PointerUnderFinger
<1>u. ASSUME UNCHANGED <<places, glass, slots, cursor, strayed, dragging>> PROVE Goal
    BY <1>u DEF PointerInv, PointerUnderFinger, places, Held, Geometry, Union
<1>1. ASSUME NEW f \in Fingers, NEW u \in Points, FingerDown(f, u) PROVE Goal
  <2>1. UNCHANGED places /\ slots'[f] = u
      BY <1>1, <1>h DEF FingerDown, HandInv, Places
  <2>2. CASE Cardinality(Held(slots')) = 1
      BY <1>1, <1>s, <2>1, <2>2 DEF FingerDown, FirstFinger
  <2>3. CASE Cardinality(Held(slots')) # 1
    <3>1. sink' # "uinput" \/ ~dragging'
        BY <1>h, <2>3 DEF HandInv, LeftMeansOneFinger
    <3> QED
        BY <1>l, <1>n, <2>1, <3>1 DEF places
  <2> QED
      BY <2>2, <2>3
<1>2. ASSUME NEW f \in Fingers, NEW u \in Points, FingerMove(f, u) PROVE Goal
  <2>1. UNCHANGED places /\ dragging' = dragging /\ strayed' = (f \notin glass)
        /\ slots' = IF slots[f] # None THEN [slots EXCEPT ![f] = u] ELSE slots
      BY <1>2 DEF FingerMove
  <2>2. CASE f \notin glass \/ ~dragging
      BY <1>l, <1>n, <2>1, <2>2 DEF places
  <2>3. CASE f \in glass /\ dragging
    <3>0. slots[f] # None
        BY <1>h, <1>2, <2>3 DEF FingerMove, HandInv, LeftMeansOneFinger, Held
    <3>1. Cardinality(Held(slots')) = 1
        BY <1>h, <1>2, <2>1, <2>3 DEF FingerMove, HandInv, LeftMeansOneFinger, places
    <3>2. cursor' = Shown(ToAbs(u))
        BY <1>2, <2>3, <3>1 DEF FingerMove, Drag
    <3>3. slots'[f] = u
        BY <1>h, <2>1, <3>0 DEF HandInv, Places
    <3> QED
        BY <1>s, <2>1, <3>2, <3>3
  <2> QED
      BY <2>2, <2>3
<1>3. ASSUME NEW f \in Fingers, FingerUp(f) PROVE Goal
  <2> DEFINE n == Cardinality(Held(slots))
  <2>0. slots[f] # None
      BY <1>h, <1>3 DEF FingerUp, HandInv, LeftMeansOneFinger, Held
  <2>1. slots' \in Places /\ Cardinality(Held(slots')) = n - 1 /\ n \in Nat
      BY <1>3, <1>h, <2>0, OneLess, HeldCount DEF FingerUp, HandInv
  <2>2. sink = "uinput" /\ UNCHANGED places
      BY <1>3 DEF FingerUp
  <2>3. dragging' => n - 1 = 1
      BY <1>h, <2>1, <2>2 DEF HandInv, LeftMeansOneFinger, places
  <2>4. dragging' => dragging
      BY <1>3 DEF FingerUp, GestureEnds, FingersRemain
  <2>5. dragging => n = 1
      BY <1>h, <2>2 DEF HandInv, LeftMeansOneFinger
  <2> QED
      BY <1>l, <1>n, <2>1, <2>2, <2>3, <2>4, <2>5 DEF places
<1>4. ASSUME NEW f \in Fingers, NEW u \in Points \cup {None}, MutterTouch(f, u) PROVE Goal
    BY <1>4, <1>l, <1>n DEF MutterTouch, places
<1>5. CASE Tick
    BY <1>5, <1>l, <1>n DEF Tick, places
<1>6. CASE Elapse
    BY <1>6, <1>u DEF Elapse
<1>7. CASE Arrange
  <2>1. /\ geometry = Geometry(layout) /\ layout' \in Layouts
        /\ UNCHANGED <<sink, geometry, glass, slots, dragging, cursor, strayed>>
      BY <1>7 DEF Arrange, gesture
  <2>2. geometry' = Geometry(layout') => layout'.monitor = layout.monitor /\ Union(layout') = Union(layout)
      BY <2>1 DEF Geometry
  <2> QED
      BY <2>1, <2>2 DEF PointerInv, PointerUnderFinger, Geometry, Union, Held
<1>8. ASSUME NEW u \in Points, Hover(u) PROVE Goal
  <2>1. UNCHANGED <<sink, layout, dragging, slots, glass>> /\ glass = {}
      BY <1>8 DEF Hover, gesture, places
  <2>2. sink = "uinput" /\ dragging => ~(Held(slots) \subseteq {})
      BY <1>h, <2>1, NoneHeld DEF HandInv, LeftMeansOneFinger
  <2> QED
      BY <1>l, <1>n, <2>1, <2>2
<1>9. ASSUME NEW to \in {"away", "near", "contact"}, NEW rubber \in BOOLEAN,
             NEW barrel \in BOOLEAN, NEW u \in Points, PenLine(to, rubber, barrel, u),
             glass' = glass \/ glass' = {}
      PROVE  Goal
  <2>1. UNCHANGED <<places, slots, dragging, strayed>>
      BY <1>9 DEF PenLine, gesture
  <2>2. CASE sink = "uinput" /\ glass' = glass
      BY <1>9, <1>u, <2>1, <2>2 DEF PenLine, PenUinput
  <2>3. CASE sink # "uinput"
      BY <1>l, <1>n, <2>1, <2>3 DEF places
  <2>4. CASE sink = "uinput" /\ glass' = {}
    <3>1. dragging => ~(Held(slots) \subseteq {})
        BY <1>h, <2>4, NoneHeld DEF HandInv, LeftMeansOneFinger
    <3> QED
        BY <1>l, <1>n, <2>1, <2>4, <3>1 DEF places
  <2> QED
      BY <1>9, <2>2, <2>3, <2>4
<1>10. CASE UNCHANGED vars
    BY <1>10, <1>u DEF vars, gesture, history
<1> QED
    BY <1>1, <1>2, <1>3, <1>4, <1>5, <1>6, <1>7, <1>8, <1>9, <1>10
       DEF Next, PenEvent, CancelUnderPen

(* The pointer lands where the glass is touched and follows the finger,    *)
(* for any layout that has not moved and begins at the origin              *)
(* (input.rs, to_abs; display/mod.rs and backends.rs for the geometry).    *)
THEOREM PointerLandsUnderFinger == Spec => []PointerUnderFinger
<1>1. Init => PointerInv
    BY HandInit DEF Init, PointerInv, PointerUnderFinger
<1>2. PointerInv => PointerUnderFinger
    BY DEF PointerInv
<1> QED
    BY <1>1, <1>2, PointerStep, PTL DEF Spec

-----------------------------------------------------------------------------
(* Pieces c to d of the stream, one after another.                         *)
Run(c, d) == [k \in 1 .. d - c + 1 |-> c + k - 1]

(* What a run is.                                                          *)
LEMMA RunIs ==
    ASSUME NEW c \in Nat, NEW d \in Nat, c <= d + 1
    PROVE  /\ Run(c, d) \in Seq(Nat)
           /\ Len(Run(c, d)) = d - c + 1
           /\ DOMAIN Run(c, d) = 1 .. d - c + 1
           /\ \A k \in 1 .. d - c + 1 : Run(c, d)[k] = c + k - 1
BY DEF Run

(* A run goes on where another ends.                                       *)
LEMMA RunGoesOn ==
    ASSUME NEW c \in Nat, NEW d \in Nat, NEW e \in Nat, c <= d + 1, d <= e
    PROVE  Run(c, d) \o Run(d + 1, e) = Run(c, e)
<1> DEFINE s == Run(c, d)
           t == Run(d + 1, e)
           u == Run(c, e)
<1>1. s \in Seq(Nat) /\ Len(s) = d - c + 1 /\ \A k \in 1 .. d - c + 1 : s[k] = c + k - 1
    BY DEF Run
<1>2. t \in Seq(Nat) /\ Len(t) = e - d /\ \A k \in 1 .. e - d : t[k] = d + k
    BY DEF Run
<1>3. u \in Seq(Nat) /\ Len(u) = e - c + 1 /\ \A k \in 1 .. e - c + 1 : u[k] = c + k - 1
    BY DEF Run
<1> HIDE DEF s, t, u
<1> DEFINE v == s \o t
<1>4. /\ v \in Seq(Nat)
      /\ Len(v) = Len(s) + Len(t)
      /\ \A k \in 1 .. Len(s) + Len(t) :
            v[k] = IF k <= Len(s) THEN s[k] ELSE t[k - Len(s)]
    BY <1>1, <1>2, ConcatProperties, Zenon
<1> HIDE DEF v
<1>5. Len(v) = e - c + 1
    BY <1>1, <1>2, <1>4
<1>6. ASSUME NEW k \in 1 .. e - c + 1
      PROVE  v[k] = u[k]
  <2>1. CASE k <= d - c + 1
    BY <1>1, <1>2, <1>3, <1>4, <2>1
  <2>2. CASE ~(k <= d - c + 1)
    <3>1. k - (d - c + 1) \in 1 .. e - d
        BY <2>2
    <3>2. v[k] = t[k - (d - c + 1)]
        BY <1>1, <1>2, <1>4, <2>2
    <3> QED
        BY <1>2, <1>3, <2>2, <3>1, <3>2
  <2> QED
    BY <2>1, <2>2
<1>7. v = u
  <2>1. v \in Seq(Nat) /\ u \in Seq(Nat) /\ Len(v) = Len(u)
    BY <1>3, <1>4, <1>5
  <2>2. \A k \in 1 .. Len(v) : v[k] = u[k]
    BY <1>5, <1>6
  <2> QED
    BY <2>1, <2>2, SeqEqual
<1> QED
    BY <1>7 DEF s, t, u, v

(* A part of a run is a run.                                               *)
LEMMA RunPart ==
    ASSUME NEW t \in Nat, NEW d \in Nat, t <= d,
           NEW i \in Nat \ {0}, NEW j \in Nat, i <= j + 1, j <= d - t
    PROVE  SubSeq(Run(t + 1, d), i, j) = Run(t + i, t + j)
<1> DEFINE r == Run(t + 1, d)
           s == SubSeq(r, i, j)
           u == Run(t + i, t + j)
<1>1. r \in Seq(Nat) /\ Len(r) = d - t /\ \A k \in 1 .. d - t : r[k] = t + k
    BY DEF Run
<1> HIDE DEF r
<1>2. s \in Seq(Nat) /\ Len(s) = j - i + 1 /\ \A k \in 1 .. j - i + 1 : s[k] = t + i + k - 1
    BY <1>1
<1>3. u \in Seq(Nat) /\ Len(u) = j - i + 1 /\ \A k \in 1 .. j - i + 1 : u[k] = t + i + k - 1
    BY DEF Run
<1> HIDE DEF s, u
<1>4. s = u
    BY <1>2, <1>3
<1> QED
    BY <1>4 DEF r, s, u

-----------------------------------------------------------------------------
(* The order of the pieces.                                                *)

Ascends(s)   == \A k, l \in DOMAIN s : k < l => s[k] < s[l]
Before(s, t) == \A k \in DOMAIN s, l \in DOMAIN t : s[k] < t[l]
UpTo(s, t)   == \A k \in DOMAIN s : s[k] <= t

\* The units of line, and p after them, in order and none of them beyond t.
InOrder(line, p, t) ==
    /\ line \in Seq(Seq(Nat)) /\ p \in Seq(Nat) /\ t \in Nat
    /\ \A i \in 1 .. Len(line) :
        Ascends(line[i]) /\ Before(line[i], p) /\ UpTo(line[i], t)
    /\ \A i, j \in 1 .. Len(line) : i < j => Before(line[i], line[j])
    /\ Ascends(p) /\ UpTo(p, t)

\* The pieces that the splitter has let go.
Taken == read - Len(buf)

OrderInv ==
    /\ read \in Nat /\ Taken \in Nat
    /\ buf \in Seq(Nat) /\ buf = Run(Taken + 1, read)
    /\ arrived \in Seq(Seq(Nat)) /\ queue \in Seq(Seq(Nat))
    /\ InOrder(arrived \o queue, pending, Taken)

(* What the assembler gets comes after what it has.                        *)
LEMMA OrderPushed ==
    ASSUME NEW line, NEW p, NEW t, InOrder(line, p, t),
           NEW c \in Nat, NEW d \in Nat, t < c, c <= d + 1
    PROVE  InOrder(line, p \o Run(c, d), d)
<1> DEFINE r == Run(c, d)
           q == p \o r
<1>1. r \in Seq(Nat) /\ Len(r) = d - c + 1 /\ \A k \in 1 .. Len(r) : r[k] = c + k - 1
    BY DEF Run
<1> HIDE DEF r
<1>2. p \in Seq(Nat) /\ t \in Nat /\ line \in Seq(Seq(Nat))
    BY DEF InOrder
<1>3. /\ q \in Seq(Nat) /\ Len(q) = Len(p) + Len(r)
      /\ \A k \in 1 .. Len(p) + Len(r) : q[k] = IF k <= Len(p) THEN p[k] ELSE r[k - Len(p)]
    BY <1>1, <1>2, ConcatProperties, Zenon
<1> HIDE DEF q
<1>4. Len(p) \in Nat /\ Len(r) \in Nat
    BY <1>1, <1>2
<1>5. ASSUME NEW k \in 1 .. Len(q), k > Len(p)
      PROVE  q[k] = c + (k - Len(p)) - 1
  <2>1. k - Len(p) \in 1 .. Len(r)
    BY <1>3, <1>4, <1>5
  <2> QED
    BY <1>1, <1>3, <1>4, <1>5, <2>1
<1>6. \A k \in 1 .. Len(q) : k <= Len(p) => k \in 1 .. Len(p) /\ q[k] = p[k]
    BY <1>3, <1>4
<1>7. /\ DOMAIN p = 1 .. Len(p) /\ DOMAIN q = 1 .. Len(q)
      /\ \A k \in 1 .. Len(p) : p[k] \in Nat
    BY <1>2, <1>3
<1>8. Ascends(p) /\ \A k \in 1 .. Len(p) : p[k] <= t
    BY <1>7 DEF InOrder, UpTo
<1>8a. \A k \in 1 .. Len(q) : ~(k <= Len(p)) => q[k] \in Nat /\ c <= q[k]
    BY <1>4, <1>5
<1>9. Ascends(q)
  <2> SUFFICES ASSUME NEW k \in 1 .. Len(q), NEW l \in 1 .. Len(q), k < l
               PROVE  q[k] < q[l]
    BY <1>7 DEF Ascends
  <2>1. CASE l <= Len(p)
    BY <1>4, <1>6, <1>7, <1>8, <2>1, SMTT(30) DEF Ascends
  <2>2. CASE k <= Len(p) /\ ~(l <= Len(p))
    <3>1. q[k] <= t /\ q[k] \in Nat
        BY <1>6, <1>7, <1>8, <2>2
    <3>2. q[l] \in Nat /\ c <= q[l]
        BY <1>8a, <2>2
    <3> QED
        BY <1>2, <3>1, <3>2
  <2>3. CASE ~(k <= Len(p)) /\ ~(l <= Len(p))
    BY <1>4, <1>5, <2>3
  <2> QED
    BY <1>4, <2>1, <2>2, <2>3
<1>10. UpTo(q, d)
  <2> SUFFICES ASSUME NEW k \in 1 .. Len(q)
               PROVE  q[k] <= d
    BY <1>7 DEF UpTo
  <2>1. CASE k <= Len(p)
    BY <1>2, <1>4, <1>6, <1>7, <1>8, <2>1
  <2>2. CASE ~(k <= Len(p))
    BY <1>1, <1>3, <1>4, <1>5, <2>2, SMTT(30)
  <2> QED
    BY <2>1, <2>2
<1>11. ASSUME NEW i \in 1 .. Len(line)
       PROVE  Ascends(line[i]) /\ Before(line[i], q) /\ UpTo(line[i], d)
  <2>1. /\ line[i] \in Seq(Nat) /\ Ascends(line[i]) /\ Before(line[i], p)
        /\ \A k \in DOMAIN line[i] : line[i][k] \in Nat /\ line[i][k] <= t
    BY <1>2 DEF InOrder, UpTo
  <2>2. UpTo(line[i], d)
    BY <1>2, <2>1 DEF UpTo
  <2>3. Before(line[i], q)
    <3> SUFFICES ASSUME NEW k \in DOMAIN line[i], NEW l \in 1 .. Len(q)
                 PROVE  line[i][k] < q[l]
        BY <1>7 DEF Before
    <3>1. CASE l <= Len(p)
        BY <1>4, <1>6, <1>7, <2>1, <3>1 DEF Before
    <3>2. CASE ~(l <= Len(p))
        BY <1>2, <1>8a, <2>1, <3>2, SMTT(30)
    <3> QED
        BY <3>1, <3>2
  <2> QED
    BY <2>1, <2>2, <2>3
<1> QED
    BY <1>2, <1>3, <1>9, <1>10, <1>11 DEF InOrder, q, r

(* A unit that is sent is the last of the line.                            *)
LEMMA OrderSent ==
    ASSUME NEW line, NEW p, NEW t, InOrder(line, p, t)
    PROVE  InOrder(Append(line, p), <<>>, t) /\ InOrder(line, <<>>, t)
<1>1. line \in Seq(Seq(Nat)) /\ p \in Seq(Nat)
    BY DEF InOrder
<1>2. <<>> \in Seq(Nat) /\ Ascends(<<>>) /\ UpTo(<<>>, t) /\ \A u : Before(u, <<>>)
    BY DEF Ascends, UpTo, Before
<1>3. InOrder(line, <<>>, t)
    BY <1>2 DEF InOrder
<1> DEFINE more == Append(line, p)
<1>4. /\ more \in Seq(Seq(Nat)) /\ Len(more) = Len(line) + 1 /\ Len(line) \in Nat
      /\ more[Len(line) + 1] = p
      /\ \A i \in 1 .. Len(line) : more[i] = line[i]
    BY <1>1
<1> HIDE DEF more
<1>5. ASSUME NEW i \in 1 .. Len(more)
      PROVE  Ascends(more[i]) /\ UpTo(more[i], t)
  <2>1. CASE i = Len(line) + 1
    BY <1>4, <2>1 DEF InOrder
  <2>2. CASE i \in 1 .. Len(line)
    BY <1>4, <2>2 DEF InOrder
  <2> QED
    BY <1>4, <2>1, <2>2
<1>6. ASSUME NEW i \in 1 .. Len(more), NEW j \in 1 .. Len(more), i < j
      PROVE  Before(more[i], more[j])
  <2>1. i \in 1 .. Len(line)
    BY <1>4, <1>6
  <2>2. CASE j = Len(line) + 1
    BY <1>4, <2>1, <2>2 DEF InOrder
  <2>3. CASE j \in 1 .. Len(line)
    BY <1>4, <1>6, <2>1, <2>3 DEF InOrder
  <2> QED
    BY <1>4, <2>2, <2>3
<1>7. InOrder(more, <<>>, t)
    BY <1>2, <1>4, <1>5, <1>6 DEF InOrder
<1> QED
    BY <1>3, <1>7 DEF more

(* A session that ends leaves the units that have arrived.                 *)
LEMMA OrderOfArrived ==
    ASSUME NEW a \in Seq(Seq(Nat)), NEW q \in Seq(Seq(Nat)), NEW p, NEW t,
           InOrder(a \o q, p, t)
    PROVE  InOrder(a \o <<>>, p, t)
<1> DEFINE line == a \o q
<1>1. /\ Len(line) = Len(a) + Len(q) /\ Len(a) \in Nat /\ Len(q) \in Nat
      /\ \A i \in 1 .. Len(a) : line[i] = a[i]
    BY ConcatProperties
<1>2. a \o <<>> = a
    BY ConcatEmptySeq
<1> HIDE DEF line
<1>3. InOrder(line, p, t)
    BY DEF line
<1>4. \A i \in 1 .. Len(a) : i \in 1 .. Len(line)
    BY <1>1
<1>5. InOrder(a, p, t)
    BY <1>1, <1>3, <1>4 DEF InOrder
<1> QED
    BY <1>2, <1>5

(* The tablet takes the first of the queue: the line is the same.          *)
LEMMA LineOfReceive ==
    ASSUME NEW S, NEW a \in Seq(S), NEW q \in Seq(S), q # <<>>
    PROVE  /\ Append(a, Head(q)) \in Seq(S) /\ Tail(q) \in Seq(S)
           /\ Append(a, Head(q)) \o Tail(q) = a \o q
<1>1. Head(q) \in S /\ Tail(q) \in Seq(S) /\ Len(Tail(q)) = Len(q) - 1
    BY HeadTailProperties
<1>2. <<Head(q)>> \in Seq(S) /\ <<Head(q)>> \o Tail(q) = q
    BY <1>1
<1>3. Append(a, Head(q)) = a \o <<Head(q)>>
    BY <1>1
<1>4. (a \o <<Head(q)>>) \o Tail(q) = a \o (<<Head(q)>> \o Tail(q))
    BY <1>1, <1>2, ConcatAssociative
<1> QED
    BY <1>1, <1>2, <1>3, <1>4

(* A unit that is sent, or dropped, after those in the line.               *)
LEMMA LineOfSend ==
    ASSUME NEW S, NEW a \in Seq(S), NEW q \in Seq(S), NEW u \in S
    PROVE  /\ Append(q, u) \in Seq(S)
           /\ a \o Append(q, u) = Append(a \o q, u)
<1>1. Append(q, u) = q \o <<u>> /\ Append(a \o q, u) = (a \o q) \o <<u>> /\ <<u>> \in Seq(S)
    BY ConcatProperties
<1>2. (a \o q) \o <<u>> = a \o (q \o <<u>>)
    BY <1>1, ConcatAssociative
<1> QED
    BY <1>1, <1>2

(* What becomes of the line when pending is sent.                          *)
LEMMA OrderOfSend ==
    ASSUME NEW t, arrived \in Seq(Seq(Nat)), queue \in Seq(Seq(Nat)),
           InOrder(arrived \o queue, pending, t), Send(pending)
    PROVE  queue' \in Seq(Seq(Nat)) /\ InOrder(arrived \o queue', <<>>, t)
<1>1. pending \in Seq(Nat)
    BY DEF InOrder
<1>2. CASE queue' = queue
    BY <1>2, OrderSent
<1>3. CASE queue' = Append(queue, pending)
  <2>1. arrived \o queue' = Append(arrived \o queue, pending) /\ queue' \in Seq(Seq(Nat))
    BY <1>1, <1>3, LineOfSend
  <2> QED
    BY <2>1, OrderSent
<1> QED
    BY <1>2, <1>3 DEF Send

(* The assembler gets the pieces from c to d.                              *)
LEMMA OrderOfAssemble ==
    ASSUME NEW t, arrived \in Seq(Seq(Nat)), queue \in Seq(Seq(Nat)),
           InOrder(arrived \o queue, pending, t),
           NEW c \in Nat, NEW d \in Nat, t < c, c <= d + 1,
           NEW then, Assemble(Run(c, d), then)
    PROVE  queue' \in Seq(Seq(Nat)) /\ InOrder(arrived \o queue', pending', d)
<1>1. CASE Flushes(Run(c, d))
  <2>1. pending' = Run(c, d) /\ Send(pending)
    BY <1>1 DEF Assemble
  <2>2. queue' \in Seq(Seq(Nat)) /\ InOrder(arrived \o queue', <<>>, t)
    BY <2>1, OrderOfSend
  <2>3. <<>> \o Run(c, d) = Run(c, d)
    BY RunIs, ConcatEmptySeq
  <2> QED
    BY <2>1, <2>2, <2>3, OrderPushed
<1>2. CASE ~Flushes(Run(c, d))
    BY <1>2, OrderPushed DEF Assemble
<1> QED
    BY <1>1, <1>2

LEMMA OrderInit == PumpInit => OrderInv
<1> SUFFICES ASSUME PumpInit PROVE OrderInv
    OBVIOUS
<1>1. /\ read = 0 /\ buf = <<>> /\ arrived = <<>> /\ queue = <<>> /\ pending = <<>>
    BY DEF PumpInit
<1>5. Taken = 0
  <2>1. read = 0 /\ Len(buf) = 0
    BY <1>1
  <2> QED
    BY <2>1 DEF Taken
<1>2. Run(1, 0) = <<>>
    BY DEF Run
<1>3. arrived \o queue = <<>>
    BY <1>1
<1>4. InOrder(<<>>, <<>>, 0)
    BY DEF InOrder, Ascends, UpTo
<1> QED
    BY <1>1, <1>2, <1>3, <1>4, <1>5 DEF OrderInv

LEMMA OrderOfRead ==
    ASSUME OrderInv, NEW n \in Pieces, Read(n)
    PROVE  OrderInv' /\ Taken' = Taken
<1>1. n \in Nat /\ read \in Nat /\ Taken \in Nat /\ read < n /\ read' = n
    BY DEF Pieces, Read, OrderInv
<1>2. [i \in 1 .. n - read |-> read + i] = Run(read + 1, n)
    BY <1>1 DEF Run
<1>3. Taken <= read /\ Len(buf) = read - Taken /\ buf = Run(Taken + 1, read)
  <2>1. Len(buf) \in Nat
    BY DEF OrderInv
  <2> QED
    BY <1>1, <2>1 DEF OrderInv, Taken
<1>4. buf' = Run(Taken + 1, n)
  <2>1. Taken + 1 \in Nat /\ Taken + 1 <= read + 1 /\ read <= n
    BY <1>1, <1>3
  <2>2. Run(Taken + 1, read) \o Run(read + 1, n) = Run(Taken + 1, n)
    BY <1>1, <2>1, RunGoesOn
  <2> QED
    BY <1>2, <1>3, <2>2 DEF Read
<1>5. buf' \in Seq(Nat) /\ Len(buf') = n - Taken
  <2>1. Taken + 1 \in Nat /\ Taken + 1 <= n + 1
    BY <1>1, <1>3
  <2> QED
    <3>1. Run(Taken + 1, n) \in Seq(Nat) /\ Len(Run(Taken + 1, n)) = n - (Taken + 1) + 1
        BY <1>1, <2>1, RunIs
    <3> QED
        BY <1>1, <1>4, <3>1
<1>6. Taken' = Taken
    BY <1>1, <1>5 DEF Taken
<1>7. UNCHANGED <<arrived, queue, pending>>
    BY DEF Read, channel
<1> QED
    BY <1>1, <1>4, <1>5, <1>6, <1>7 DEF OrderInv

(* The buffer is the last of what has been read.                           *)
LEMMA BufferIs ==
    ASSUME read \in Nat, Taken \in Nat, buf \in Seq(Nat), buf = Run(Taken + 1, read)
    PROVE  /\ Taken <= read /\ Len(buf) = read - Taken
           /\ \A i \in Nat \ {0}, j \in Nat :
                i <= j + 1 /\ j <= Len(buf) => SubSeq(buf, i, j) = Run(Taken + i, Taken + j)
<1>1. Taken <= read /\ Len(buf) = read - Taken
  <2>1. Len(buf) \in Nat
    OBVIOUS
  <2> QED
    BY <2>1 DEF Taken
<1>2. ASSUME NEW i \in Nat \ {0}, NEW j \in Nat, i <= j + 1, j <= Len(buf)
      PROVE  SubSeq(buf, i, j) = Run(Taken + i, Taken + j)
  <2>1. j <= read - Taken
    BY <1>1, <1>2
  <2>2. SubSeq(Run(Taken + 1, read), i, j) = Run(Taken + i, Taken + j)
    BY <1>1, <1>2, <2>1, RunPart, ZenonT(30)
  <2> QED
    BY <2>2
<1> QED
    BY <1>1, <1>2

(* What a unit that the splitter finds is, and what it leaves.             *)
LEMMA SplitIs ==
    ASSUME read \in Nat, Taken \in Nat, buf \in Seq(Nat), buf = Run(Taken + 1, read),
           NEW from \in StartCodes(buf), NEW to \in StartCodes(buf), from < to
    PROVE  /\ from \in Nat \ {0} /\ to \in Nat /\ Taken + to <= read
           /\ SubSeq(buf, from, to - 1) = Run(Taken + from, Taken + to - 1)
           /\ SubSeq(buf, to, Len(buf)) = Run(Taken + to, read)
<1>1. /\ from \in Nat \ {0} /\ to \in Nat \ {0} /\ Len(buf) \in Nat
      /\ from <= Len(buf) /\ to <= Len(buf)
    BY SMTT(30) DEF StartCodes
<1>2. Len(buf) = read - Taken
    BY BufferIs
<1>3. SubSeq(buf, from, to - 1) = Run(Taken + from, Taken + (to - 1))
  <2>1. to - 1 \in Nat /\ from <= (to - 1) + 1 /\ to - 1 <= Len(buf)
    BY <1>1
  <2> QED
    BY <1>1, <2>1, BufferIs
<1>4. SubSeq(buf, to, Len(buf)) = Run(Taken + to, Taken + Len(buf))
  <2>1. to <= Len(buf) + 1 /\ from <= Len(buf) + 1 /\ Len(buf) <= Len(buf)
    BY <1>1
  <2> QED
    BY <1>1, <2>1, BufferIs, Zenon
<1>5. Taken + (to - 1) = Taken + to - 1 /\ Taken + Len(buf) = read /\ Taken + to <= read
    BY <1>1, <1>2
<1> QED
    BY <1>1, <1>3, <1>4, <1>5

LEMMA OrderOfPush ==
    ASSUME OrderInv, Push
    PROVE  OrderInv'
<1>1. PICK from \in StartCodes(buf), to \in StartCodes(buf) :
        /\ from < to
        /\ buf' = SubSeq(buf, to, Len(buf))
        /\ Assemble(SubSeq(buf, from, to - 1), "running")
    BY DEF Push, IsUnit
<1>2. read' = read /\ arrived' = arrived /\ read \in Nat /\ Taken \in Nat
    BY DEF Push, OrderInv
<1>3. /\ from \in Nat \ {0} /\ to \in Nat /\ Taken + to <= read
      /\ buf' = Run(Taken + to, read)
      /\ Assemble(Run(Taken + from, Taken + to - 1), "running")
    BY <1>1, SplitIs DEF OrderInv
<1> DEFINE d == Taken + to - 1
<1>4. d \in Nat /\ Taken + from <= d + 1 /\ Taken < Taken + from /\ Taken + from \in Nat
    BY <1>1, <1>2, <1>3
<1>5. queue' \in Seq(Seq(Nat)) /\ InOrder(arrived \o queue', pending', d)
    BY <1>3, <1>4, OrderOfAssemble DEF OrderInv
<1>6. buf' \in Seq(Nat) /\ Len(buf') = read - d
  <2>1. Taken + to \in Nat /\ Taken + to <= read + 1
    BY <1>2, <1>3
  <2>2. Len(buf') = read - (Taken + to) + 1 /\ buf' \in Seq(Nat)
    BY <1>2, <1>3, <2>1, RunIs
  <2> QED
    BY <1>2, <1>3, <2>2
<1>7. Taken' = d
    BY <1>2, <1>4, <1>6 DEF Taken
<1>8. d + 1 = Taken + to
    BY <1>2, <1>3
<1> HIDE DEF d
<1> QED
    BY <1>2, <1>3, <1>4, <1>5, <1>6, <1>7, <1>8 DEF OrderInv

LEMMA OrderOfFinishSplitter ==
    ASSUME OrderInv, NEW then, FinishSplitter(then), UNCHANGED <<read, arrived>>
    PROVE  OrderInv'
<1>1. CASE UNCHANGED <<inner, queue>>
    BY <1>1 DEF OrderInv, Taken, inner
<1>2. ASSUME NEW from \in StartCodes(buf), buf' = <<>>,
             Assemble(SubSeq(buf, from, Len(buf)), then)
      PROVE  OrderInv'
  <2>1. /\ from \in Nat \ {0} /\ Len(buf) \in Nat /\ from <= Len(buf)
        /\ read \in Nat /\ Taken \in Nat
    BY SMTT(30) DEF StartCodes, OrderInv
  <2>2. Len(buf) = read - Taken /\ SubSeq(buf, from, Len(buf)) = Run(Taken + from, Taken + Len(buf))
    <3>1. from <= Len(buf) + 1 /\ Len(buf) <= Len(buf)
        BY <2>1
    <3> QED
        BY <2>1, <3>1, BufferIs, Zenon DEF OrderInv
  <2>3. Taken + Len(buf) = read /\ Taken + from <= read + 1 /\ Taken < Taken + from
    BY <2>1, <2>2
  <2>4. Assemble(Run(Taken + from, read), then)
    BY <1>2, <2>2, <2>3
  <2>5. queue' \in Seq(Seq(Nat)) /\ InOrder(arrived \o queue', pending', read)
    <3>1. Taken + from \in Nat
        BY <2>1
    <3> QED
        BY <2>1, <2>3, <2>4, <3>1, OrderOfAssemble, Zenon DEF OrderInv
  <2>6. Len(buf') = 0 /\ Run(read + 1, read) = <<>>
    BY <1>2, <2>1 DEF Run
  <2>7. Taken' = read
    BY <2>1, <2>6 DEF Taken
  <2> QED
    BY <1>2, <2>1, <2>5, <2>6, <2>7 DEF OrderInv
<1> QED
    BY <1>1, <1>2 DEF FinishSplitter

LEMMA ReceiveKeepsLine ==
    ASSUME OrderInv, Receive
    PROVE  /\ arrived' \in Seq(Seq(Nat)) /\ queue' \in Seq(Seq(Nat))
           /\ arrived' \o queue' = arrived \o queue
<1>1. /\ queue # <<>> /\ arrived' = Append(arrived, Head(queue)) /\ queue' = Tail(queue)
      /\ arrived \in Seq(Seq(Nat)) /\ queue \in Seq(Seq(Nat))
    BY DEF Receive, OrderInv
<1>2. /\ Append(arrived, Head(queue)) \in Seq(Seq(Nat)) /\ Tail(queue) \in Seq(Seq(Nat))
      /\ Append(arrived, Head(queue)) \o Tail(queue) = arrived \o queue
    BY <1>1, LineOfReceive, Zenon
<1> QED
    BY <1>1, <1>2

LEMMA OrderNext == OrderInv /\ [PumpNext]_pumpVars => OrderInv'
<1> SUFFICES ASSUME OrderInv, [PumpNext]_pumpVars PROVE OrderInv'
    OBVIOUS
<1>1. ASSUME NEW n \in Pieces, Read(n) PROVE OrderInv'
    BY <1>1, OrderOfRead
<1>2. CASE Push
    BY <1>2, OrderOfPush
<1>3. CASE Idle
    BY <1>3, OrderOfFinishSplitter DEF Idle
<1>4. CASE End
    BY <1>4, OrderOfFinishSplitter DEF End
<1>5. CASE Flush
  <2>1. UNCHANGED <<read, buf, arrived>>
    BY <1>5 DEF Flush
  <2>2. CASE UNCHANGED <<pending, queue>>
    BY <2>1, <2>2 DEF OrderInv, Taken
  <2>3. CASE pending' = <<>> /\ Send(pending)
    <3>1. queue' \in Seq(Seq(Nat)) /\ InOrder(arrived \o queue', <<>>, Taken)
        BY <2>3, OrderOfSend DEF OrderInv
    <3> QED
        BY <2>1, <2>3, <3>1 DEF OrderInv, Taken
  <2> QED
    BY <1>5, <2>2, <2>3 DEF Flush
<1>6. CASE Receive
  <2>1. /\ arrived' \in Seq(Seq(Nat)) /\ queue' \in Seq(Seq(Nat))
        /\ arrived' \o queue' = arrived \o queue
    BY <1>6, ReceiveKeepsLine
  <2>2. UNCHANGED <<read, buf, pending>>
    BY <1>6 DEF Receive, inner
  <2> QED
    BY <2>1, <2>2 DEF OrderInv, Taken
<1>7. CASE Shutdown
  <2>1. queue' = <<>> /\ UNCHANGED <<read, buf, pending, arrived>>
    BY <1>7 DEF Shutdown, inner
  <2>2. InOrder(arrived \o <<>>, pending, Taken)
    BY OrderOfArrived DEF OrderInv
  <2> QED
    BY <2>1, <2>2 DEF OrderInv, Taken
<1>8. CASE Write \/ Exit \/ UNCHANGED pumpVars
    BY <1>8 DEF Write, Exit, pumpVars, inner, channel, OrderInv, Taken
<1> QED
    BY <1>1, <1>2, <1>3, <1>4, <1>5, <1>6, <1>7, <1>8 DEF PumpNext

LEMMA OrderEnough == OrderInv => PiecesInOrder
<1> SUFFICES ASSUME OrderInv PROVE PiecesInOrder
    OBVIOUS
<1> DEFINE line  == arrived \o queue
           n     == Len(line)
           units == line \o <<pending>> \o <<buf>>
<1>1. /\ line \in Seq(Seq(Nat)) /\ pending \in Seq(Nat) /\ buf \in Seq(Nat)
      /\ InOrder(line, pending, Taken) /\ read \in Nat /\ Taken \in Nat
    BY DEF OrderInv, InOrder
<1> HIDE DEF line
<1>2. n \in Nat
    BY <1>1
<1>3. /\ units \in Seq(Seq(Nat)) /\ Len(units) = n + 2
      /\ units[n + 1] = pending /\ units[n + 2] = buf
      /\ \A i \in 1 .. n : units[i] = line[i]
  <2> DEFINE most == line \o <<pending>>
  <2>1. <<pending>> \in Seq(Seq(Nat)) /\ <<buf>> \in Seq(Seq(Nat))
    BY <1>1
  <2>2. /\ most \in Seq(Seq(Nat)) /\ Len(most) = n + 1
        /\ most[n + 1] = pending /\ \A i \in 1 .. n : most[i] = line[i]
    BY <1>1, <2>1
  <2> HIDE DEF most
  <2>3. /\ most \o <<buf>> \in Seq(Seq(Nat)) /\ Len(most \o <<buf>>) = n + 2
        /\ (most \o <<buf>>)[n + 2] = buf
        /\ \A i \in 1 .. n + 1 : (most \o <<buf>>)[i] = most[i]
    BY <1>2, <2>1, <2>2
  <2> QED
    <3>1. n + 1 \in 1 .. n + 1 /\ \A i \in 1 .. n : i \in 1 .. n + 1
        BY <1>2
    <3>2. /\ (most \o <<buf>>)[n + 1] = pending
          /\ \A i \in 1 .. n : (most \o <<buf>>)[i] = line[i]
        BY <2>2, <2>3, <3>1
    <3>3. most \o <<buf>> = units
        BY DEF most
    <3> HIDE DEF n, units
    <3> QED
        BY <2>3, <3>2, <3>3
<1> HIDE DEF n, units
<1>3a. \A i \in DOMAIN units : i \in 1 .. n \/ i = n + 1 \/ i = n + 2
    BY <1>2, <1>3, SMTT(30)
<1>4. Ascends(buf) /\ \A k \in DOMAIN buf : Taken < buf[k]
  <2>1. \A k \in DOMAIN buf : k \in Nat \ {0} /\ buf[k] = Taken + k
    BY <1>1 DEF OrderInv, Run
  <2> QED
    BY <1>1, <2>1, SMTT(30) DEF Ascends
<1>5. ASSUME NEW s \in Seq(Nat), UpTo(s, Taken)
      PROVE  Before(s, buf)
    BY <1>1, <1>4, <1>5 DEF UpTo, Before
<1>6. Before(pending, buf) /\ \A i \in 1 .. n : Before(line[i], buf)
    BY <1>1, <1>5 DEF InOrder, n
<1>7. ASSUME NEW i \in DOMAIN units
      PROVE  Ascends(units[i])
  <2>1. CASE i \in 1 .. n
    BY <1>1, <1>3, <2>1 DEF InOrder, n
  <2>2. CASE i = n + 1
    BY <1>1, <1>3, <2>2 DEF InOrder
  <2>3. CASE i = n + 2
    BY <1>3, <1>4, <2>3
  <2> QED
    BY <1>3a, <2>1, <2>2, <2>3
<1>8. ASSUME NEW i \in DOMAIN units, NEW j \in DOMAIN units, i < j
      PROVE  Before(units[i], units[j])
  <2>1. CASE i \in 1 .. n /\ j \in 1 .. n
    BY <1>1, <1>3, <1>8, <2>1 DEF InOrder, n
  <2>2. CASE i \in 1 .. n /\ j = n + 1
    BY <1>1, <1>3, <2>2 DEF InOrder, n
  <2>3. CASE i \in 1 .. n /\ j = n + 2
    BY <1>3, <1>6, <2>3
  <2>4. CASE i = n + 1 /\ j = n + 2
    BY <1>3, <1>6, <2>4
  <2> QED
    BY <1>2, <1>8, <1>3a, <2>1, <2>2, <2>3, <2>4
<1> QED
    BY <1>7, <1>8 DEF Ascends, Before, PiecesInOrder, units, line

(* The tablet gets the pieces in their order and no piece twice, and the   *)
(* assembler and the splitter keep what comes after, wherever the encoder  *)
(* pauses and however many units the channel holds or drops.               *)
THEOREM PiecesStayInOrder == PumpSpec => []PiecesInOrder
<1> QED
    BY OrderInit, OrderNext, OrderEnough, PTL DEF PumpSpec

-----------------------------------------------------------------------------
(* Whole pictures.                                                         *)

\* Units have three pieces: piece i is of unit n + 1, n = (i - 1) \div 3.
LEMMA Thirds ==
    ASSUME NEW i \in Nat \ {0}
    PROVE  /\ (i - 1) \div 3 \in Nat /\ (i - 1) % 3 \in 0 .. 2
           /\ i = 3 * ((i - 1) \div 3) + ((i - 1) % 3) + 1
           /\ \A k \in Nat : 3 * k < i /\ i <= 3 * k + 3 => (i - 1) \div 3 = k
<1> DEFINE n == (i - 1) \div 3
           r == (i - 1) % 3
<1>1. i - 1 \in Nat
    OBVIOUS
<1>2. n \in Nat /\ r \in 0 .. 2 /\ i - 1 = 3 * n + r
    BY <1>1
<1> HIDE DEF n, r
<1>3. \A k \in Nat : 3 * k < i /\ i <= 3 * k + 3 => n = k
    BY <1>2
<1>4. i = 3 * n + r + 1
    BY <1>2
<1> QED
    BY <1>2, <1>3, <1>4 DEF n, r

\* p are the units from a + 1 to m of the stream s, all of one picture that
\* begins with the first; v says that a slice is the last of them.
Holds(s, p, v, a, m) ==
    /\ a \in Nat /\ m \in Nat /\ a <= m /\ m <= Len(s)
    /\ p = Run(3 * a + 1, 3 * m)
    /\ v <=> a < m /\ s[m].kind # "params"
    /\ \A n \in a + 1 .. m : s[n].pic = s[a + 1].pic
    /\ 0 < a /\ a < Len(s) => s[a].pic # s[a + 1].pic

WholePictures(line) ==
    \A i \in 1 .. Len(line) : \E p \in Pics : Range(line[i]) = Picture(p)

(* The units of one picture, all of them, are its pieces: the pictures     *)
(* before have smaller numbers, those after it greater ones.               *)
LEMMA PictureIs ==
    ASSUME stream \in Seq(Nals), WellFormed(stream),
           NEW p, NEW v, NEW a, NEW m, Holds(stream, p, v, a, m), a < m,
           m < Len(stream) => stream[m].pic # stream[m + 1].pic
    PROVE  \E q \in Pics : Range(p) = Picture(q)
<1>1. /\ a \in Nat /\ m \in Nat /\ m <= Len(stream) /\ p = Run(3 * a + 1, 3 * m)
      /\ \A n \in a + 1 .. m : stream[n].pic = stream[a + 1].pic
      /\ 0 < a => stream[a].pic # stream[a + 1].pic
    BY DEF Holds
<1>2. /\ Len(stream) \in Nat /\ DOMAIN stream = 1 .. Len(stream)
      /\ \A n \in 1 .. Len(stream) : stream[n].pic \in Nat
  <2>1. \A n \in 1 .. Len(stream) : stream[n] \in Nals
    OBVIOUS
  <2> QED
    BY <2>1 DEF Nals
<1>3. \A i, j \in 1 .. Len(stream) : i <= j => stream[i].pic <= stream[j].pic
  <2>1. \A i, j \in 1 .. Len(stream) : i < j => stream[i].pic <= stream[j].pic
    BY DEF WellFormed
  <2> QED
    BY <1>2, <2>1
<1> DEFINE q == stream[a + 1].pic
<1>4. q \in Pics
    BY <1>1, <1>2 DEF Pics
<1>5. Range(p) = 3 * a + 1 .. 3 * m
  <2>1. p = [k \in 1 .. 3 * m - 3 * a |-> 3 * a + k]
    BY <1>1 DEF Run
  <2>2. \A i \in 3 * a + 1 .. 3 * m :
            i - 3 * a \in 1 .. 3 * m - 3 * a /\ 3 * a + (i - 3 * a) = i
    BY <1>1
  <2> QED
    <3>1. DOMAIN p = 1 .. 3 * m - 3 * a /\ \A k \in 1 .. 3 * m - 3 * a : p[k] = 3 * a + k
        BY <2>1
    <3>2. \A k \in 1 .. 3 * m - 3 * a : 3 * a + k \in 3 * a + 1 .. 3 * m
        BY <1>1
    <3>3. \A i \in 3 * a + 1 .. 3 * m : i - 3 * a \in DOMAIN p /\ p[i - 3 * a] = i
        BY <2>2, <3>1
    <3> QED
        BY <3>1, <3>2, <3>3 DEF Range
<1>6. ASSUME NEW i \in 3 * a + 1 .. 3 * m
      PROVE  i \in Picture(q)
  <2> DEFINE n == (i - 1) \div 3
  <2>1. n \in Nat /\ i \in Pieces /\ a <= n /\ n < m
    <3>1. i \in Nat \ {0} /\ i <= 3 * Len(stream)
        BY <1>1, <1>2
    <3> DEFINE r == (i - 1) % 3
    <3>2. n \in Nat /\ r \in 0 .. 2 /\ i = 3 * n + r + 1
        BY <3>1, Thirds
    <3> HIDE DEF n, r
    <3> QED
        BY <1>1, <3>1, <3>2 DEF Pieces
  <2> HIDE DEF n
  <2>2. stream[n + 1].pic = q
    BY <1>1, <2>1
  <2> QED
    BY <2>1, <2>2 DEF Picture, Nal, n
<1>7. ASSUME NEW i \in Picture(q)
      PROVE  i \in 3 * a + 1 .. 3 * m
  <2> DEFINE n == (i - 1) \div 3
  <2>1. i \in 1 .. 3 * Len(stream) /\ stream[n + 1].pic = q
    BY DEF Picture, Pieces, Nal
  <2>2. /\ n \in Nat /\ n + 1 \in 1 .. Len(stream) /\ 3 * n < i /\ i <= 3 * n + 3
    BY <1>2, <2>1, Thirds
  <2> HIDE DEF n
  <2>3. a <= n
    <3> SUFFICES ASSUME n < a PROVE FALSE
        BY <1>1, <2>2
    <3>1. a \in 1 .. Len(stream) /\ a + 1 \in 1 .. Len(stream) /\ n + 1 <= a
        BY <1>1, <1>2, <2>2
    <3>2. stream[n + 1].pic <= stream[a].pic /\ stream[a].pic <= q
        BY <1>1, <1>3, <2>2, <3>1
    <3> QED
        BY <1>1, <1>2, <2>1, <3>1, <3>2
  <2>4. n < m
    <3> SUFFICES ASSUME m <= n PROVE FALSE
        BY <1>1, <2>2
    <3>1. m \in 1 .. Len(stream) /\ m + 1 \in 1 .. Len(stream) /\ m + 1 <= n + 1 /\ m < Len(stream)
        BY <1>1, <1>2, <2>2
    <3>2. stream[m + 1].pic <= stream[n + 1].pic /\ stream[m].pic <= stream[m + 1].pic
        BY <1>1, <1>3, <2>2, <3>1
    <3>3. stream[m].pic = q
        BY <1>1
    <3> QED
        BY <1>2, <2>1, <3>1, <3>2, <3>3
  <2> QED
    BY <1>1, <2>1, <2>2, <2>3, <2>4
<1> QED
    BY <1>4, <1>5, <1>6, <1>7

(* The next unit of the stream goes on with the picture, or it ends it.    *)
LEMMA HoldsMore ==
    ASSUME NEW s \in Seq(Nals), WellFormed(s),
           NEW p, NEW v, NEW a, NEW m, Holds(s, p, v, a, m), m < Len(s),
           ~(v /\ s[m + 1].kind # "next")
    PROVE  Holds(s, p \o Run(3 * m + 1, 3 * m + 3), v \/ s[m + 1].kind # "params", a, m + 1)
<1>1. /\ a \in Nat /\ m \in Nat /\ a <= m /\ p = Run(3 * a + 1, 3 * m)
      /\ v <=> a < m /\ s[m].kind # "params"
      /\ \A n \in a + 1 .. m : s[n].pic = s[a + 1].pic
      /\ 0 < a /\ a < Len(s) => s[a].pic # s[a + 1].pic
    BY DEF Holds
<1>2. p \o Run(3 * m + 1, 3 * m + 3) = Run(3 * a + 1, 3 * (m + 1))
  <2>1. /\ 3 * a + 1 \in Nat /\ 3 * m \in Nat /\ 3 * m + 3 \in Nat
        /\ 3 * a + 1 <= 3 * m + 1 /\ 3 * m <= 3 * m + 3
    BY <1>1
  <2>2. Run(3 * a + 1, 3 * m) \o Run(3 * m + 1, 3 * m + 3) = Run(3 * a + 1, 3 * m + 3)
    BY <2>1, RunGoesOn
  <2>3. 3 * (m + 1) = 3 * m + 3
    BY <1>1
  <2> QED
    BY <1>1, <2>2, <2>3
<1>3. Len(s) \in Nat
    OBVIOUS
<1>4. a < m => s[m].pic = s[m + 1].pic
  <2> SUFFICES ASSUME a < m PROVE s[m].pic = s[m + 1].pic
    OBVIOUS
  <2>1. m \in 1 .. Len(s) - 1
    BY <1>1, <1>3
  <2>2. s[m].kind = "params" \/ s[m + 1].kind = "next"
    BY <1>1
  <2> QED
    BY <2>1, <2>2 DEF WellFormed
<1>5. \A n \in a + 1 .. m + 1 : s[n].pic = s[a + 1].pic
  <2> TAKE n \in a + 1 .. m + 1
  <2>1. CASE n \in a + 1 .. m
    BY <1>1, <2>1
  <2>2. CASE n = m + 1 /\ a < m
    <3>1. m \in a + 1 .. m
        BY <1>1, <2>2
    <3> QED
        BY <1>1, <1>4, <2>2, <3>1
  <2>3. CASE n = m + 1 /\ a = m
    BY <2>3
  <2> QED
    BY <1>1, <2>1, <2>2, <2>3
<1>6. v => s[m + 1].kind # "params"
    BY <1>1
<1>7. (v \/ s[m + 1].kind # "params") <=> a < m + 1 /\ s[m + 1].kind # "params"
    BY <1>1, <1>6
<1>8. m + 1 \in Nat /\ a <= m + 1 /\ m + 1 <= Len(s)
    BY <1>1, <1>3
<1> QED
    BY <1>1, <1>2, <1>5, <1>7, <1>8 DEF Holds

LEMMA HoldsEnds ==
    ASSUME NEW s \in Seq(Nals), WellFormed(s),
           NEW p, NEW v, NEW a, NEW m, Holds(s, p, v, a, m), v,
           m < Len(s) => s[m + 1].kind # "next"
    PROVE  /\ a < m /\ m \in Nat
           /\ m < Len(s) => s[m].pic # s[m + 1].pic
           /\ Holds(s, <<>>, FALSE, m, m)
           /\ m < Len(s) => Holds(s, Run(3 * m + 1, 3 * m + 3), s[m + 1].kind # "params", m, m + 1)
<1>1. a \in Nat /\ m \in Nat /\ a < m /\ m <= Len(s) /\ s[m].kind # "params" /\ Len(s) \in Nat
    BY DEF Holds
<1>2. m < Len(s) => s[m].pic # s[m + 1].pic
  <2> SUFFICES ASSUME m < Len(s) PROVE s[m].pic # s[m + 1].pic
    OBVIOUS
  <2>1. m \in 1 .. Len(s) - 1
    BY <1>1
  <2> QED
    BY <1>1, <2>1 DEF WellFormed
<1>3. Holds(s, <<>>, FALSE, m, m)
  <2>1. Run(3 * m + 1, 3 * m) = <<>>
    <3>1. 3 * m - (3 * m + 1) + 1 = 0
        BY <1>1
    <3> QED
        BY <3>1 DEF Run
  <2> QED
    BY <1>1, <1>2, <2>1 DEF Holds
<1>4. m < Len(s) => Holds(s, Run(3 * m + 1, 3 * m + 3), s[m + 1].kind # "params", m, m + 1)
  <2>1. 3 * (m + 1) = 3 * m + 3 /\ m + 1 \in Nat /\ m < m + 1
    BY <1>1
  <2>2. \A n \in m + 1 .. m + 1 : s[n].pic = s[m + 1].pic
    BY <1>1
  <2> QED
    BY <1>1, <1>2, <2>1, <2>2 DEF Holds
<1> QED
    BY <1>1, <1>2, <1>3, <1>4

(* A unit that is one picture is sent, or dropped.                         *)
LEMMA PictureOfSend ==
    ASSUME arrived \in Seq(Seq(Nat)), queue \in Seq(Seq(Nat)), pending \in Seq(Nat),
           WholePictures(arrived \o queue),
           \E p \in Pics : Range(pending) = Picture(p),
           Send(pending)
    PROVE  WholePictures(arrived \o queue')
<1>1. CASE queue' = queue
    BY <1>1
<1>2. CASE queue' = Append(queue, pending)
  <2> DEFINE line == arrived \o queue
             more == Append(line, pending)
  <2>1. arrived \o queue' = more
    BY <1>2, LineOfSend
  <2>2. line \in Seq(Seq(Nat))
    BY ConcatProperties
  <2> HIDE DEF line
  <2>3. /\ Len(more) = Len(line) + 1 /\ Len(line) \in Nat /\ more[Len(line) + 1] = pending
        /\ \A i \in 1 .. Len(line) : more[i] = line[i]
    BY <2>2
  <2> HIDE DEF more
  <2>4. WholePictures(line)
    BY DEF line
  <2>5. WholePictures(more)
    <3> SUFFICES ASSUME NEW i \in 1 .. Len(more)
                 PROVE  \E p \in Pics : Range(more[i]) = Picture(p)
        BY DEF WholePictures
    <3>1. CASE i \in 1 .. Len(line)
        BY <2>3, <2>4, <3>1 DEF WholePictures
    <3>2. CASE i = Len(line) + 1
        BY <2>3, <3>2
    <3> QED
        BY <2>3, <3>1, <3>2
  <2> QED
    BY <2>1, <2>5
<1> QED
    BY <1>1, <1>2 DEF Send

(* What the assembler makes of the next unit of the stream.                *)
LEMMA PictureOfAssemble ==
    ASSUME stream \in Seq(Nals), WellFormed(stream), OrderInv, ~closed,
           WholePictures(arrived \o queue),
           NEW a, NEW m, Holds(stream, pending, hasVcl, a, m), m < Len(stream),
           NEW then, Assemble(Run(3 * m + 1, 3 * m + 3), then)
    PROVE  /\ WholePictures(arrived \o queue') /\ pump' = then
           /\ \E b \in Nat : Holds(stream, pending', hasVcl', b, m + 1)
<1> DEFINE nal == Run(3 * m + 1, 3 * m + 3)
<1>1. a \in Nat /\ m \in Nat
    BY DEF Holds
<1>2. nal[1] = 3 * m + 1 /\ Len(nal) = 3
    BY <1>1 DEF Run
<1> HIDE DEF nal
<1>3. Kind(nal) = stream[m + 1].kind
  <2>1. (nal[1] - 1) \div 3 = m
    <3>1. nal[1] \in Nat \ {0} /\ 3 * m < nal[1] /\ nal[1] <= 3 * m + 3
        BY <1>1, <1>2
    <3> QED
        BY <1>1, <3>1, Thirds
  <2> QED
    <3>1. Kind(nal) = stream[((nal[1] - 1) \div 3) + 1].kind
        BY DEF Kind, Nal
    <3> QED
        BY <2>1, <3>1
<1>4. stream[m + 1].kind \in {"params", "first", "next"}
  <2>1. stream[m + 1] \in Nals
    <3>1. m + 1 \in 1 .. Len(stream)
        BY <1>1
    <3> QED
        BY <3>1
  <2> QED
    BY <2>1 DEF Nals
<1>5. Flushes(nal) <=> hasVcl /\ stream[m + 1].kind # "next"
    BY <1>2, <1>3, <1>4 DEF Flushes, StartsNewPicture
<1>6. pump' = then /\ Assemble(nal, then)
    BY DEF Assemble, nal
<1>7. CASE Flushes(nal)
  <2>1. hasVcl /\ stream[m + 1].kind # "next"
    BY <1>5, <1>7
  <2>2. /\ a < m
        /\ m < Len(stream) => stream[m].pic # stream[m + 1].pic
        /\ Holds(stream, nal, stream[m + 1].kind # "params", m, m + 1)
    BY <2>1, HoldsEnds DEF nal
  <2>3. \E p \in Pics : Range(pending) = Picture(p)
    BY <2>2, PictureIs
  <2>4. pending' = nal /\ (hasVcl' <=> stream[m + 1].kind # "params") /\ Send(pending)
    BY <1>3, <1>6, <1>7 DEF Assemble
  <2>5. WholePictures(arrived \o queue')
    BY <2>3, <2>4, PictureOfSend DEF OrderInv, InOrder
  <2>6. Holds(stream, pending', hasVcl', m, m + 1)
    BY <2>2, <2>4 DEF Holds
  <2> QED
    BY <1>1, <1>6, <2>5, <2>6
<1>8. CASE ~Flushes(nal)
  <2>1. Holds(stream, pending \o nal, hasVcl \/ stream[m + 1].kind # "params", a, m + 1)
    BY <1>5, <1>8, HoldsMore DEF nal
  <2>2. /\ pending' = pending \o nal /\ queue' = queue
        /\ hasVcl' <=> hasVcl \/ stream[m + 1].kind # "params"
    BY <1>3, <1>6, <1>8 DEF Assemble
  <2>3. Holds(stream, pending', hasVcl', a, m + 1)
    BY <2>1, <2>2 DEF Holds
  <2> QED
    BY <1>1, <1>6, <2>2, <2>3
<1> QED
    BY <1>7, <1>8

(* Start codes are where units of the stream begin.                        *)
LEMMA CodesAre ==
    ASSUME OrderInv, NEW m \in Nat, Taken = 3 * m
    PROVE  \A i : i \in StartCodes(buf) <=> i \in 1 .. Len(buf) - 1 /\ (i - 1) % 3 = 0
<1>1. Taken <= read /\ Len(buf) = read - Taken /\ read \in Nat
    BY BufferIs DEF OrderInv
<1>2. \A i \in 1 .. Len(buf) : buf[i] = 3 * m + i
  <2>1. \A i \in 1 .. read - (Taken + 1) + 1 : buf[i] = Taken + 1 + i - 1
    BY DEF OrderInv, Run
  <2> QED
    BY <1>1, <2>1
<1>3. ASSUME NEW i \in 1 .. Len(buf) - 1
      PROVE  buf[i + 1] = buf[i] + 1 /\ (Part(buf[i]) = 0 <=> (i - 1) % 3 = 0)
  <2>1. i \in 1 .. Len(buf) /\ i + 1 \in 1 .. Len(buf) /\ Len(buf) \in Nat
    BY <1>1
  <2>2. buf[i] = 3 * m + i /\ buf[i + 1] = 3 * m + (i + 1)
    BY <1>2, <2>1
  <2>3. (3 * m + i - 1) % 3 = (i - 1) % 3
    BY <2>1
  <2> QED
    BY <2>1, <2>2, <2>3 DEF Part
<1> QED
    BY <1>3 DEF StartCodes

\* The encoder writes a stream, and exits between two pictures or stalls.
StreamInv ==
    /\ stream \in Seq(Nals) /\ WellFormed(stream)
    /\ read \in Nat /\ written \in Nat /\ read <= written /\ written <= 3 * Len(stream)
    /\ eof => closed \/ stalled \/ Boundary(written + 1)

\* While no silence has cut a picture: what is sent are pictures, and what is
\* kept are the units from a picture's first to the last that was split off.
PictureInv ==
    ~stalled =>
        /\ WholePictures(arrived \o queue)
        /\ ~closed /\ pump # "done" =>
            /\ \E a, m \in Nat : Taken = 3 * m /\ Holds(stream, pending, hasVcl, a, m)
            /\ pump \in {"idle", "ending"} => buf = <<>> /\ Boundary(read + 1)

LEMMA StreamInit == PumpInit => StreamInv /\ PictureInv
<1> SUFFICES ASSUME PumpInit PROVE StreamInv /\ PictureInv
    OBVIOUS
<1>1. /\ stream \in Streams /\ written = 0 /\ eof = FALSE /\ read = 0 /\ hasVcl = FALSE
      /\ buf = <<>> /\ pending = <<>> /\ arrived = <<>> /\ queue = <<>>
      /\ pump = "running"
    BY DEF PumpInit
<1>2. stream \in Seq(Nals) /\ WellFormed(stream) /\ Len(stream) \in Nat
    BY <1>1, PumpAssumption
<1>3. StreamInv
    BY <1>1, <1>2 DEF StreamInv
<1>4. WholePictures(arrived \o queue)
  <2>1. arrived \o queue = <<>>
    BY <1>1
  <2> QED
    BY <2>1 DEF WholePictures
<1>5. Taken = 3 * 0
  <2>1. read = 0 /\ Len(buf) = 0
    BY <1>1
  <2> QED
    BY <2>1 DEF Taken
<1>6. Holds(stream, pending, hasVcl, 0, 0)
  <2>1. Run(3 * 0 + 1, 3 * 0) = <<>>
    BY DEF Run
  <2> QED
    BY <1>1, <1>2, <2>1 DEF Holds
<1>7. PictureInv
    BY <1>1, <1>4, <1>5, <1>6 DEF PictureInv
<1> QED
    BY <1>3, <1>7

LEMMA StreamNext == StreamInv /\ [PumpNext]_pumpVars => StreamInv'
<1> SUFFICES ASSUME StreamInv, [PumpNext]_pumpVars PROVE StreamInv'
    OBVIOUS
<1>1. stream' = stream
    BY DEF PumpNext, Read, Push, Idle, End, Flush, Write, Exit, Receive, Shutdown,
           pumpVars, encoder
<1>2. CASE \E n \in Pieces : Read(n)
    BY <1>2 DEF StreamInv, Read, Pieces, encoder, channel, Boundary, Part, Nal
<1>3. CASE Write
    BY <1>3 DEF StreamInv, Write, Pieces, channel
<1>4. CASE Exit
    BY <1>4 DEF StreamInv, Exit, channel, Boundary, Pieces, Part, Nal
<1>5. CASE Shutdown
    BY <1>5 DEF StreamInv, Shutdown
<1>6. CASE Push \/ Idle \/ End \/ Flush \/ Receive \/ UNCHANGED pumpVars
  <2>1. UNCHANGED <<encoder, read, closed>>
    BY <1>6 DEF Push, Idle, End, Flush, Receive, pumpVars, encoder, channel
  <2>2. stalled' = stalled \/ stalled' = (stalled \/ ~Boundary(read + 1))
    BY <1>6 DEF Push, Idle, End, Flush, Receive, pumpVars
  <2>3. stalled => stalled'
    BY <2>2, Zenon
  <2> QED
    BY <2>1, <2>3 DEF StreamInv, encoder, Boundary, Pieces, Part, Nal
<1> QED
    BY <1>2, <1>3, <1>4, <1>5, <1>6 DEF PumpNext

LEMMA SamePictures ==
    ASSUME stream' = stream, WholePictures(arrived' \o queue')
    PROVE  WholePictures(arrived \o queue)'
<1>1. Pics' = Pics
    BY DEF Pics
<1>2. \A p : Picture(p)' = Picture(p)
    BY DEF Picture, Pieces, Nal
<1> QED
    BY <1>1, <1>2 DEF WholePictures

LEMMA SameBoundary ==
    ASSUME stream' = stream, read' = read, Boundary(read + 1)
    PROVE  Boundary(read + 1)'
BY DEF Boundary, Part, Nal, Pieces

(* Nothing is sent to a receiver that is gone.                             *)
LEMMA ClosedSendsNothing ==
    ASSUME closed, NEW nal, NEW then, Assemble(nal, then)
    PROVE  queue' = queue
BY DEF Assemble, Send

LEMMA PictureOfPush ==
    ASSUME OrderInv, StreamInv, PictureInv, Push
    PROVE  PictureInv'
<1>1. UNCHANGED <<stream, read, arrived, closed, stalled>>
    BY DEF Push, encoder
<1>2. PICK from \in StartCodes(buf), to \in StartCodes(buf) :
        /\ IsUnit(from, to)
        /\ buf' = SubSeq(buf, to, Len(buf))
        /\ Assemble(SubSeq(buf, from, to - 1), "running")
    BY DEF Push
<1>3. SUFFICES ASSUME ~stalled PROVE PictureInv'
    BY <1>1 DEF PictureInv
<1>4. CASE closed
  <2>1. queue' = queue
    BY <1>2, <1>4, ClosedSendsNothing
  <2>2. WholePictures(arrived \o queue)'
    BY <1>1, <1>3, <2>1, SamePictures DEF PictureInv
  <2> QED
    BY <1>1, <1>4, <2>2 DEF PictureInv
<1>5. CASE ~closed
  <2>1. pump = "running" /\ WholePictures(arrived \o queue)
    BY <1>3 DEF Push, PictureInv
  <2>2. PICK a \in Nat, m \in Nat : Taken = 3 * m /\ Holds(stream, pending, hasVcl, a, m)
    BY <1>3, <1>5, <2>1 DEF PictureInv
  <2>3. /\ Taken <= read /\ Len(buf) = read - Taken /\ read \in Nat /\ Len(buf) \in Nat
    BY BufferIs DEF OrderInv
  <2>4. \A i : i \in StartCodes(buf) <=> i \in 1 .. Len(buf) - 1 /\ (i - 1) % 3 = 0
    BY <2>2, CodesAre
  <2>5. from = 1 /\ to = 4
    <3>1. /\ from \in 1 .. Len(buf) - 1 /\ to \in 1 .. Len(buf) - 1 /\ (to - 1) % 3 = 0
          /\ from < to /\ \A i \in StartCodes(buf) : i = from \/ i >= to
        BY <1>2, <2>4 DEF IsUnit
    <3>2. (1 - 1) % 3 = 0 /\ (4 - 1) % 3 = 0
        OBVIOUS
    <3>3. 1 \in StartCodes(buf)
        BY <2>3, <2>4, <3>1, <3>2
    <3>4. from = 1
        BY <2>3, <3>1, <3>3
    <3>5. to >= 4
        BY <2>3, <3>1, <3>4
    <3>6. 4 \in StartCodes(buf)
        BY <2>3, <2>4, <3>1, <3>2, <3>5
    <3> QED
        BY <2>3, <3>1, <3>4, <3>5, <3>6
  <2>6. /\ Taken + 4 <= read /\ buf' = Run(Taken + 4, read)
        /\ SubSeq(buf, 1, 3) = Run(Taken + 1, Taken + 3)
    <3>1. /\ Taken + to <= read
          /\ SubSeq(buf, from, to - 1) = Run(Taken + from, Taken + to - 1)
          /\ SubSeq(buf, to, Len(buf)) = Run(Taken + to, read)
        BY <1>2, SplitIs DEF OrderInv, IsUnit
    <3>2. to - 1 = 3 /\ Taken + to - 1 = Taken + 3
        BY <2>2, <2>5
    <3> QED
        BY <1>2, <2>5, <3>1, <3>2
  <2>7. m < Len(stream) /\ Len(stream) \in Nat
    BY <2>2, <2>6 DEF StreamInv
  <2>8. Assemble(Run(3 * m + 1, 3 * m + 3), "running")
    <3>1. to - 1 = 3
        BY <2>5
    <3> QED
        BY <1>2, <2>2, <2>5, <2>6, <3>1
  <2>9. /\ WholePictures(arrived \o queue') /\ pump' = "running"
        /\ \E b \in Nat : Holds(stream, pending', hasVcl', b, m + 1)
    BY <1>5, <2>1, <2>2, <2>7, <2>8, PictureOfAssemble DEF StreamInv
  <2>10. Taken' = 3 * (m + 1)
    <3>1. Len(buf') = read - (Taken + 4) + 1
        <4>1. Taken + 4 \in Nat /\ Taken + 4 <= read + 1
            BY <2>2, <2>3, <2>6
        <4> QED
            BY <2>3, <2>6, <4>1, RunIs
    <3> QED
        BY <1>1, <2>2, <2>3, <3>1 DEF Taken
  <2>11. WholePictures(arrived \o queue)'
    BY <1>1, <2>9, SamePictures
  <2>12. \E b, n \in Nat : Taken' = 3 * n /\ Holds(stream', pending', hasVcl', b, n)
    BY <1>1, <2>2, <2>9, <2>10
  <2> QED
    BY <1>1, <2>9, <2>11, <2>12 DEF PictureInv
<1> QED
    BY <1>4, <1>5

(* At the end of a picture the buffer is empty or it is the last unit.     *)
LEMMA PictureOfFinishSplitter ==
    ASSUME OrderInv, StreamInv, PictureInv, ~stalled, pump = "running", ~Splittable,
           closed \/ Boundary(read + 1), NEW then \in {"idle", "ending"}, FinishSplitter(then),
           UNCHANGED <<stream, read, arrived, closed>>
    PROVE  PictureInv'
<1>1. WholePictures(arrived \o queue)
    BY DEF PictureInv
<1>2. CASE closed
  <2>1. queue' = queue
    BY <1>2, ClosedSendsNothing DEF FinishSplitter
  <2>2. WholePictures(arrived \o queue)'
    BY <1>1, <2>1, SamePictures
  <2> QED
    BY <1>2, <2>2 DEF PictureInv
<1>3. CASE ~closed
  <2>1. PICK a \in Nat, m \in Nat : Taken = 3 * m /\ Holds(stream, pending, hasVcl, a, m)
    BY <1>3 DEF PictureInv
  <2>2. /\ Taken <= read /\ Len(buf) = read - Taken /\ read \in Nat /\ Len(buf) \in Nat
        /\ Len(stream) \in Nat
    BY BufferIs DEF OrderInv, StreamInv
  <2>3. \A i : i \in StartCodes(buf) <=> i \in 1 .. Len(buf) - 1 /\ (i - 1) % 3 = 0
    BY <2>1, CodesAre
  <2>4. PICK r \in Nat : read = 3 * r /\ r <= Len(stream)
    <3>1. read % 3 = 0
        <4>1. CASE read + 1 \in Pieces
            <5>1. Part(read + 1) = 0
                BY <1>3, <4>1 DEF Boundary
            <5>2. Part(read + 1) = read % 3
                BY <2>2 DEF Part
            <5> QED
                BY <5>1, <5>2
        <4>2. CASE read + 1 \notin Pieces
            <5>1. read = 3 * Len(stream)
                BY <2>2, <4>2 DEF Pieces, StreamInv
            <5> QED
                BY <2>2, <5>1
        <4> QED
            BY <4>1, <4>2
    <3>2. read \div 3 \in Nat /\ read = 3 * (read \div 3)
        BY <2>2, <3>1
    <3> QED
        BY <2>2, <3>2 DEF StreamInv
  <2>5. (1 - 1) % 3 = 0 /\ (4 - 1) % 3 = 0
    OBVIOUS
  <2>6. r <= m + 1
    <3> SUFFICES ASSUME m + 1 < r PROVE FALSE
        BY <2>1
    <3>1. Len(buf) >= 6
        BY <2>1, <2>2, <2>4
    <3>2. 1 \in StartCodes(buf) /\ 4 \in StartCodes(buf)
        BY <2>2, <2>3, <2>5, <3>1
    <3>3. \A i \in StartCodes(buf) : i = 1 \/ i >= 4
        <4> TAKE i \in StartCodes(buf)
        <4>1. i \in 1 .. Len(buf) - 1 /\ (i - 1) % 3 = 0
            BY <2>3
        <4> QED
            BY <2>2, <4>1
    <3> QED
        BY <3>2, <3>3 DEF Splittable, IsUnit
  <2>7. CASE r = m
    <3>1. Len(buf) = 0 /\ buf = <<>>
        <4>1. Len(buf) = 0
            BY <2>1, <2>2, <2>4, <2>7
        <4> QED
            BY <4>1 DEF OrderInv
    <3>2. StartCodes(buf) = {}
        BY <2>3, <3>1
    <3>3. UNCHANGED <<buf, pending, hasVcl, queue>>
        BY <3>2 DEF FinishSplitter, inner
    <3>4. WholePictures(arrived \o queue)'
        BY <1>1, <3>3, SamePictures
    <3>5. Boundary(read + 1)'
        BY <1>3, SameBoundary
    <3>6. Taken' = 3 * m /\ Holds(stream', pending', hasVcl', a, m)
        BY <2>1, <3>3 DEF Taken
    <3> QED
        BY <2>1, <3>1, <3>3, <3>4, <3>5, <3>6 DEF PictureInv
  <2>8. CASE r = m + 1
    <3>1. Len(buf) = 3
        BY <2>1, <2>2, <2>4, <2>8
    <3>2. \A i : i \in StartCodes(buf) <=> i = 1
        <4>1. \A i : i \in 1 .. 3 - 1 /\ (i - 1) % 3 = 0 <=> i = 1
            OBVIOUS
        <4> QED
            BY <2>3, <3>1, <4>1
    <3>3. buf' = <<>> /\ Assemble(SubSeq(buf, 1, Len(buf)), then)
        <4>1. 1 \in StartCodes(buf)
            BY <3>2
        <4> QED
            BY <3>1, <3>2, <4>1 DEF FinishSplitter
    <3>4. SubSeq(buf, 1, Len(buf)) = Run(3 * m + 1, 3 * m + 3)
        <4>1. SubSeq(buf, 1, Len(buf)) = buf
            BY SubSeqFull DEF OrderInv
        <4>2. Taken + 1 = 3 * m + 1 /\ read = 3 * m + 3
            BY <2>1, <2>4, <2>8
        <4> QED
            BY <4>1, <4>2 DEF OrderInv
    <3>5. m < Len(stream)
        BY <2>1, <2>2, <2>4, <2>8
    <3>6. /\ WholePictures(arrived \o queue') /\ pump' = then
          /\ \E b \in Nat : Holds(stream, pending', hasVcl', b, m + 1)
        BY <1>1, <1>3, <2>1, <3>3, <3>4, <3>5, PictureOfAssemble DEF StreamInv
    <3>7. WholePictures(arrived \o queue)'
        BY <3>6, SamePictures
    <3>8. Taken' = 3 * (m + 1)
        <4>1. Len(buf') = 0
            BY <3>3
        <4> QED
            BY <2>1, <2>2, <2>4, <2>8, <4>1 DEF Taken
    <3>9. Boundary(read + 1)'
        BY <1>3, SameBoundary
    <3>10. \E b, n \in Nat : Taken' = 3 * n /\ Holds(stream', pending', hasVcl', b, n)
        BY <2>1, <3>6, <3>8
    <3> QED
        BY <3>3, <3>7, <3>9, <3>10 DEF PictureInv
  <2>9. m <= r
    BY <2>1, <2>2, <2>4
  <2> QED
    BY <2>1, <2>4, <2>6, <2>7, <2>8, <2>9
<1> QED
    BY <1>2, <1>3

LEMMA PictureOfFlush ==
    ASSUME OrderInv, StreamInv, PictureInv, Flush
    PROVE  PictureInv'
<1>1. UNCHANGED <<stream, read, buf, arrived, closed, stalled>>
    BY DEF Flush, encoder
<1>2. SUFFICES ASSUME ~stalled PROVE PictureInv'
    BY <1>1 DEF PictureInv
<1>3. WholePictures(arrived \o queue) /\ pump \in {"idle", "ending"}
    BY <1>2 DEF PictureInv, Flush
<1>4. CASE closed
  <2>1. queue' = queue
    BY <1>4 DEF Flush, Send
  <2>2. WholePictures(arrived \o queue)'
    BY <1>1, <1>3, <2>1, SamePictures
  <2> QED
    BY <1>1, <1>4, <2>2 DEF PictureInv
<1>5. CASE ~closed
  <2>1. PICK a \in Nat, m \in Nat : Taken = 3 * m /\ Holds(stream, pending, hasVcl, a, m)
    BY <1>2, <1>3, <1>5 DEF PictureInv
  <2>2. buf = <<>> /\ Boundary(read + 1)
    BY <1>2, <1>3, <1>5 DEF PictureInv
  <2>3. read = 3 * m /\ Len(stream) \in Nat
    <3>1. Len(buf) = 0 /\ read \in Nat
        BY <2>2 DEF OrderInv
    <3> QED
        BY <2>1, <3>1 DEF Taken, StreamInv
  <2>4. m < Len(stream) => stream[m + 1].kind # "next"
    <3> SUFFICES ASSUME m < Len(stream) PROVE stream[m + 1].kind # "next"
        OBVIOUS
    <3>1. read + 1 \in Nat \ {0} /\ 3 * m < read + 1 /\ read + 1 <= 3 * m + 3
        BY <2>3
    <3>2. ((read + 1) - 1) \div 3 = m
        BY <3>1, Thirds
    <3>3. read + 1 \in Pieces
        BY <2>3 DEF Pieces
    <3> QED
        BY <2>2, <3>2, <3>3 DEF Boundary, Nal
  <2>5. pump' # "idle" /\ pump' # "ending"
    BY <1>3 DEF Flush
  <2>6. CASE hasVcl
    <3>1. pending' = <<>> /\ hasVcl' = FALSE /\ Send(pending)
        BY <2>6 DEF Flush
    <3>2. /\ a < m
          /\ m < Len(stream) => stream[m].pic # stream[m + 1].pic
          /\ Holds(stream, <<>>, FALSE, m, m)
        BY <2>1, <2>4, <2>6, HoldsEnds DEF StreamInv
    <3>3. \E p \in Pics : Range(pending) = Picture(p)
        BY <2>1, <3>2, PictureIs DEF StreamInv
    <3>4. WholePictures(arrived \o queue')
        BY <1>3, <3>1, <3>3, PictureOfSend DEF OrderInv, InOrder
    <3>5. WholePictures(arrived \o queue)'
        BY <1>1, <3>4, SamePictures
    <3>6. Taken' = 3 * m /\ Holds(stream', pending', hasVcl', m, m)
        BY <1>1, <2>1, <3>1, <3>2 DEF Taken
    <3> QED
        BY <2>1, <2>5, <3>5, <3>6 DEF PictureInv
  <2>7. CASE ~hasVcl
    <3>1. UNCHANGED <<pending, hasVcl, queue>>
        BY <2>7 DEF Flush
    <3>2. WholePictures(arrived \o queue)'
        BY <1>1, <1>3, <3>1, SamePictures
    <3>3. Taken' = 3 * m /\ Holds(stream', pending', hasVcl', a, m)
        BY <1>1, <2>1, <3>1 DEF Taken
    <3> QED
        BY <2>1, <2>5, <3>2, <3>3 DEF PictureInv
  <2> QED
    BY <2>6, <2>7
<1> QED
    BY <1>4, <1>5

LEMMA PictureNext ==
    OrderInv /\ StreamInv /\ PictureInv /\ [PumpNext]_pumpVars => PictureInv'
<1> SUFFICES ASSUME OrderInv, StreamInv, PictureInv, [PumpNext]_pumpVars
             PROVE  PictureInv'
    OBVIOUS
<1>1. ASSUME NEW n \in Pieces, Read(n) PROVE PictureInv'
  <2>1. /\ Taken' = Taken /\ pump = "running"
        /\ UNCHANGED <<stream, pending, hasVcl, queue, closed, arrived, pump, stalled>>
    BY <1>1, OrderOfRead DEF Read, encoder, channel
  <2>2. WholePictures(arrived \o queue) => WholePictures(arrived \o queue)'
    BY <2>1, SamePictures
  <2> QED
    BY <2>1, <2>2 DEF PictureInv
<1>2. CASE Push
    BY <1>2, PictureOfPush
<1>3. CASE Idle
  <2>1. CASE ~stalled /\ Boundary(read + 1)
    BY <1>3, <2>1, PictureOfFinishSplitter DEF Idle, encoder
  <2>2. CASE stalled \/ ~Boundary(read + 1)
    BY <1>3, <2>2 DEF Idle, PictureInv
  <2> QED
    BY <2>1, <2>2
<1>4. CASE End
  <2>1. CASE ~stalled
    BY <1>4, <2>1, PictureOfFinishSplitter DEF End, encoder, StreamInv
  <2>2. CASE stalled
    BY <1>4, <2>2 DEF End, PictureInv
  <2> QED
    BY <2>1, <2>2
<1>5. CASE Flush
    BY <1>5, PictureOfFlush
<1>6. CASE Receive
  <2>2. arrived' \o queue' = arrived \o queue
    BY <1>6, ReceiveKeepsLine
  <2>3. UNCHANGED <<stream, read, buf, pending, hasVcl, closed, pump, stalled>>
    BY <1>6 DEF Receive, encoder, inner
  <2>4. WholePictures(arrived \o queue) => WholePictures(arrived \o queue)'
    BY <2>2, <2>3, SamePictures
  <2>5. Boundary(read + 1) => Boundary(read + 1)'
    BY <2>3, SameBoundary
  <2> QED
    BY <2>3, <2>4, <2>5 DEF PictureInv, Taken
<1>7. CASE Shutdown
  <2>1. closed' /\ queue' = <<>> /\ UNCHANGED <<stream, arrived, stalled>>
    BY <1>7 DEF Shutdown
  <2>2. ASSUME WholePictures(arrived \o queue)
        PROVE  WholePictures(arrived' \o queue')
    <3>1. arrived \in Seq(Seq(Nat)) /\ queue \in Seq(Seq(Nat))
        BY DEF OrderInv
    <3> DEFINE line == arrived \o queue
    <3>2. /\ Len(line) = Len(arrived) + Len(queue) /\ Len(arrived) \in Nat /\ Len(queue) \in Nat
          /\ \A i \in 1 .. Len(arrived) : line[i] = arrived[i]
        BY <3>1, ConcatProperties
    <3> HIDE DEF line
    <3>3. arrived' \o queue' = arrived
        BY <2>1, <3>1, ConcatEmptySeq
    <3>4. WholePictures(line)
        BY <2>2 DEF line
    <3>5. \A i \in 1 .. Len(arrived) : i \in 1 .. Len(line)
        BY <3>2
    <3>6. WholePictures(arrived)
        BY <3>2, <3>4, <3>5 DEF WholePictures
    <3> QED
        BY <3>3, <3>6
  <2>3. WholePictures(arrived \o queue) => WholePictures(arrived \o queue)'
    BY <2>1, <2>2, SamePictures
  <2> QED
    BY <2>1, <2>3 DEF PictureInv
<1>8. CASE Write \/ Exit \/ UNCHANGED pumpVars
  <2>1. UNCHANGED <<stream, read, buf, pending, hasVcl, queue, arrived, closed, pump>>
    BY <1>8 DEF Write, Exit, pumpVars, encoder, inner, channel
  <2>4. stalled' = stalled \/ stalled' = (stalled \/ ~Boundary(written + 1))
    BY <1>8 DEF Write, Exit, pumpVars
  <2>5. stalled => stalled'
    BY <2>4, Zenon
  <2>2. WholePictures(arrived \o queue) => WholePictures(arrived \o queue)'
    BY <2>1, SamePictures
  <2>3. Boundary(read + 1) => Boundary(read + 1)'
    BY <2>1, SameBoundary
  <2> QED
    BY <2>1, <2>2, <2>3, <2>5 DEF PictureInv, Taken
<1> QED
    BY <1>1, <1>2, <1>3, <1>4, <1>5, <1>6, <1>7, <1>8 DEF PumpNext

(* A unit is one whole picture, with its parameter sets and nothing else,  *)
(* for any stream, any portions the pipe is read in, any pauses between    *)
(* pictures and any place in the channel.                                  *)
THEOREM UnitsAreWholePictures == PumpSpec => []UnitsArePictures
<1>1. OrderInv /\ PictureInv => UnitsArePictures
  <2> SUFFICES ASSUME OrderInv, PictureInv, ~stalled PROVE
            \A i \in DOMAIN (arrived \o queue) :
                \E p \in Pics : Range((arrived \o queue)[i]) = Picture(p)
    BY DEF UnitsArePictures
  <2> DEFINE line == arrived \o queue
  <2>1. WholePictures(line) /\ line \in Seq(Seq(Nat))
    BY DEF PictureInv, OrderInv, InOrder
  <2> HIDE DEF line
  <2>2. \A i \in DOMAIN line : \E p \in Pics : Range(line[i]) = Picture(p)
    <3>1. DOMAIN line = 1 .. Len(line)
        BY <2>1
    <3> QED
        BY <2>1, <3>1, Zenon DEF WholePictures
  <2> QED
    BY <2>2 DEF line
<1> QED
    BY <1>1, OrderInit, OrderNext, StreamInit, StreamNext, PictureNext, PTL DEF PumpSpec
=============================================================================
