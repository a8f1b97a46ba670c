------------------------- MODULE SecondScreenProofs -------------------------
(***************************************************************************)
(* Proofs about SecondScreen, for any requests, compositors and ports.     *)
(* The flag ACTIVE is a lock: a step of a request leaves the request where *)
(* it is, moves it within the labels that hold the flag or within the      *)
(* others, or moves it between them together with the flag.  So, unless    *)
(* sessions overlapped, one request at a time is at work, and what is on   *)
(* the desktop is its own or litter; where its recipe is tells which of it *)
(* the guards hold, for each compositor.                                   *)
(***************************************************************************)
EXTENDS SecondScreen, TLAPS

PcTyped == pc \in [Requests -> Labels] /\ active \in BOOLEAN

LockInv == PcTyped /\ ActiveIsHeld

(* A request that moves on one side of the lock leaves it as it is.        *)
LEMMA MoveOnOneSide ==
    ASSUME LockInv, NEW r \in Requests, NEW to \in Labels,
           pc[r] \in Holding <=> to \in Holding,
           Goto(r, to), active' = active
    PROVE  LockInv'
<1>1. pc' = [pc EXCEPT ![r] = to] /\ PcTyped'
    BY DEF LockInv, PcTyped, Goto
<1>2. \A q \in Requests : pc'[q] \in Holding <=> pc[q] \in Holding
    BY <1>1 DEF LockInv, PcTyped
<1> QED
    BY <1>1, <1>2 DEF LockInv, ActiveIsHeld

(* Entering with the flag clear takes the lock.                            *)
LEMMA TakeLock ==
    ASSUME LockInv, NEW r \in Requests, ~active, Goto(r, "detecting"), active' = TRUE
    PROVE  LockInv'
<1>1. pc' = [pc EXCEPT ![r] = "detecting"] /\ PcTyped'
    BY DEF LockInv, PcTyped, Goto, Labels
<1>2. \A q \in Requests : pc[q] \notin Holding
    BY DEF LockInv, ActiveIsHeld
<1>3. \A q \in Requests : pc'[q] \in Holding <=> q = r
    BY <1>1, <1>2 DEF LockInv, PcTyped, Holding
<1> QED
    BY <1>1, <1>3 DEF LockInv, ActiveIsHeld

(* Who holds the lock and moves out with the flag cleared gives it up.     *)
LEMMA GiveLock ==
    ASSUME LockInv, NEW r \in Requests, NEW to \in Labels \ Holding,
           pc[r] \in Holding, Goto(r, to), active' = FALSE
    PROVE  LockInv'
<1>1. pc' = [pc EXCEPT ![r] = to] /\ PcTyped'
    BY DEF LockInv, PcTyped, Goto
<1>2. \A q \in Requests : pc'[q] \notin Holding
    BY <1>1 DEF LockInv, PcTyped, ActiveIsHeld
<1> QED
    BY <1>1, <1>2 DEF LockInv, ActiveIsHeld

(* A step that moves no request and leaves the flag keeps the lock.        *)
LEMMA StayPut == LockInv /\ UNCHANGED <<pc, active>> => LockInv'
BY DEF LockInv, PcTyped, ActiveIsHeld

(* Every step keeps the lock (display/mod.rs, DisplaySession.start, Drop). *)
LEMMA LockStep == LockInv /\ [Next]_vars => LockInv'
<1> SUFFICES ASSUME LockInv, [Next]_vars PROVE LockInv'
    OBVIOUS
<1> USE DEF Labels, Holding
<1>1. ASSUME NEW r \in Requests, Daemon(r) PROVE LockInv'
  <2>1. CASE Refuse(r)
      BY <2>1, MoveOnOneSide DEF Refuse
  <2>2. CASE Enter(r)
      BY <2>2, TakeLock DEF Enter
  <2>3. CASE Detect(r)
      BY <2>3, MoveOnOneSide DEF Detect
  <2>4. CASE Succeed(r)
    <3>1. pc[r] = "preparing" /\ active' = active /\ (Goto(r, "prepared") \/ UNCHANGED pc)
        BY <2>4 DEF Succeed
    <3> QED
        BY <3>1, MoveOnOneSide, StayPut
  <2>5. CASE Fail(r)
    <3>1. pc[r] = "preparing" /\ active' = active /\ (Goto(r, "undoing") \/ UNCHANGED pc)
        BY <2>5 DEF Fail
    <3> QED
        BY <3>1, MoveOnOneSide, StayPut
  <2>6. CASE Undo(r) \/ UndoFails(r)
      BY <2>6, StayPut DEF Undo, UndoFails
  <2>7. CASE TryNext(r)
    <3>1. /\ pc[r] = "undoing" /\ active' = active
          /\ Goto(r, "preparing") \/ Goto(r, "failing")
        BY <2>7 DEF TryNext
    <3> QED
        BY <3>1, MoveOnOneSide
  <2>8. CASE GiveUp(r)
      BY <2>8, GiveLock DEF GiveUp
  <2>9. CASE StartEncoder(r)
      BY <2>9, MoveOnOneSide DEF StartEncoder
  <2>10. CASE Shutdown(r)
      BY <2>10, MoveOnOneSide DEF Shutdown
  <2>11. CASE Release(r)
      BY <2>11, GiveLock DEF Release
  <2>12. CASE Finish(r)
      BY <2>12, MoveOnOneSide DEF Finish
  <2> QED
      BY <1>1, <2>1, <2>2, <2>3, <2>4, <2>5, <2>6, <2>7, <2>8, <2>9, <2>10, <2>11, <2>12
         DEF Daemon
<1>2. ASSUME NEW r \in Requests, Break(r) PROVE LockInv'
    BY <1>2, MoveOnOneSide DEF Break
<1>3. ASSUME NEW r \in Requests, Ask(r) PROVE LockInv'
    BY <1>3, MoveOnOneSide DEF Ask
<1>4. CASE Show \/ Answer \/ Lose \/ Leave
    BY <1>4, StayPut DEF Show, Answer, Lose, Leave
<1>5. CASE UNCHANGED vars
    BY <1>5, StayPut DEF vars
<1> QED
    BY <1>1, <1>2, <1>3, <1>4, <1>5 DEF Next

(* The flag is set exactly while one request builds or runs a session, and *)
(* never by two, on every path of the code (display/mod.rs, ACTIVE).       *)
THEOREM OneSessionAtATime == Spec => []ActiveIsHeld
<1>1. Init => LockInv
    BY DEF Init, LockInv, PcTyped, ActiveIsHeld, Labels, Holding
<1>2. LockInv => ActiveIsHeld
    BY DEF LockInv
<1> QED
    BY <1>1, <1>2, LockStep, PTL DEF Spec

-----------------------------------------------------------------------------
(* What the recipes promise.                                               *)

Things == {"stream", "output", "portal", "child", "port", "mode", "screen", "monitor"}

(* What a command makes has its guard by the end of the recipe, the        *)
(* framebuffer no later than it is resized, and newmode is not the last.   *)
CommandIsSound(R, i) ==
    /\ R[i].takes \subseteq Things /\ R[i].guards \in Seq(Things)
    /\ "screen" \in R[i].takes => \E j \in 1 .. i : "screen" \in Range(R[j].guards)
    /\ \A t \in R[i].takes : \E j \in DOMAIN R : t \in Range(R[j].guards)
    /\ R[i].takes = {"mode"} => i + 1 \in DOMAIN R /\ R[i].guards = <<>>

Recipe(R) ==
    /\ Len(R) \in Nat \ {0} /\ DOMAIN R = 1 .. Len(R)
    /\ \A i \in DOMAIN R : CommandIsSound(R, i)

(* Only those of the things that a sequence has are in its range.          *)
LEMMA RangeOfEmpty == Range(<<>>) = {}
BY DEF Range

LEMMA RangeOfOne == ASSUME NEW a PROVE Range(<<a>>) = {a}
<1>1. DOMAIN <<a>> = 1 .. 1 /\ <<a>>[1] = a
    OBVIOUS
<1> QED
    BY <1>1 DEF Range

LEMMA RangeOfAppended ==
    ASSUME NEW S, NEW s \in Seq(S), NEW t \in Seq(S)
    PROVE  s \o t \in Seq(S) /\ Range(s \o t) = Range(s) \cup Range(t)
<1>1. s \o t \in Seq(S) /\ Len(s \o t) = Len(s) + Len(t)
    OBVIOUS
<1>2. Range(s \o t) \subseteq Range(s) \cup Range(t)
    BY <1>1 DEF Range
<1>3. Range(s) \subseteq Range(s \o t)
    BY <1>1 DEF Range
<1>4. ASSUME NEW i \in 1 .. Len(t) PROVE t[i] \in Range(s \o t)
  <2>1. Len(s) + i \in 1 .. Len(s \o t) /\ (s \o t)[Len(s) + i] = t[i]
      BY <1>1
  <2> QED
      BY <2>1, <1>1 DEF Range
<1>5. Range(t) \subseteq Range(s \o t)
    BY <1>4 DEF Range
<1> QED
    BY <1>1, <1>2, <1>3, <1>5

LEMMA RangeOfTail ==
    ASSUME NEW S, NEW s \in Seq(S), s # <<>>
    PROVE  /\ Head(s) \in S /\ Tail(s) \in Seq(S)
           /\ Range(s) = {Head(s)} \cup Range(Tail(s))
<1>1. Len(s) \in Nat \ {0} /\ Tail(s) \in Seq(S) /\ Len(Tail(s)) = Len(s) - 1
    OBVIOUS
<1>2. Head(s) = s[1] /\ \A i \in 1 .. Len(s) - 1 : Tail(s)[i] = s[i + 1]
    OBVIOUS
<1>3. ASSUME NEW i \in 1 .. Len(s) PROVE s[i] \in {Head(s)} \cup Range(Tail(s))
  <2>1. CASE i = 1
      BY <2>1, <1>2
  <2>2. CASE i # 1
    <3>1. i - 1 \in 1 .. Len(Tail(s)) /\ Tail(s)[i - 1] = s[i]
        BY <2>2, <1>1, <1>2
    <3>2. DOMAIN Tail(s) = 1 .. Len(Tail(s))
        BY <1>1
    <3>3. Tail(s)[i - 1] \in Range(Tail(s))
        BY <3>1, <3>2 DEF Range
    <3> QED
        BY <3>1, <3>3
  <2> QED
      BY <2>1, <2>2
<1>4. Range(Tail(s)) \subseteq Range(s)
    BY <1>1, <1>2 DEF Range
<1> QED
    BY <1>1, <1>2, <1>3, <1>4 DEF Range

(* A command that makes nothing, or one thing that some command guards.    *)
LEMMA CommandParts ==
    ASSUME NEW S, NEW g PROVE Command(S, g).takes = S /\ Command(S, g).guards = g
BY DEF Command

LEMMA MakingNothingIsSound ==
    ASSUME NEW R, NEW i, NEW g \in Seq(Things), R[i] = Command({}, g)
    PROVE  CommandIsSound(R, i)
<1>1. R[i].takes = {} /\ R[i].guards = g
    BY CommandParts
<1>2. R[i].guards \in Seq(Things) /\ "mode" \notin R[i].takes
    BY <1>1, Zenon
<1> QED
    BY <1>1, <1>2 DEF CommandIsSound

LEMMA MakingIsSound ==
    ASSUME NEW R, NEW i \in DOMAIN R, NEW j \in DOMAIN R, NEW a \in Things, NEW g \in Seq(Things),
           R[i] = Command({a}, g), a \in Range(R[j].guards),
           a = "screen" => j \in 1 .. i, a = "mode" => i + 1 \in DOMAIN R /\ g = <<>>
    PROVE  CommandIsSound(R, i)
<1>1. R[i].takes = {a} /\ R[i].guards = g
    BY CommandParts
<1>2. R[i].guards \in Seq(Things)
    BY <1>1, Zenon
<1>3. R[i].takes = {"mode"} => a = "mode"
    BY <1>1
<1> QED
    BY <1>1, <1>2, <1>3 DEF CommandIsSound

LEMMA ThingSequences ==
    /\ <<>> \in Seq(Things)
    /\ \A a \in Things : <<a>> \in Seq(Things)
    /\ <<"monitor", "screen">> \in Seq(Things)
    /\ <<"port", "mode", "screen">> \in Seq(Things)
    /\ Range(<<"monitor", "screen">>) = {"monitor", "screen"}
    /\ Range(<<"port", "mode", "screen">>) = {"port", "mode", "screen"}
<1>1. Range(<<"monitor", "screen">>) = {"monitor", "screen"}
  <2>1. <<"monitor">> \in Seq(Things) /\ <<"screen">> \in Seq(Things)
      BY DEF Things
  <2>2. <<"monitor", "screen">> = <<"monitor">> \o <<"screen">>
      OBVIOUS
  <2>3. Range(<<"monitor">> \o <<"screen">>) = Range(<<"monitor">>) \cup Range(<<"screen">>)
      BY <2>1, RangeOfAppended
  <2> QED
      BY <2>2, <2>3, RangeOfOne
<1>2. Range(<<"port", "mode", "screen">>) = {"port", "mode", "screen"}
  <2>1. <<"port">> \in Seq(Things) /\ <<"mode">> \in Seq(Things) /\ <<"screen">> \in Seq(Things)
      BY DEF Things
  <2>2. <<"port", "mode">> = <<"port">> \o <<"mode">>
      OBVIOUS
  <2>3. /\ Range(<<"port">> \o <<"mode">>) = Range(<<"port">>) \cup Range(<<"mode">>)
        /\ <<"port">> \o <<"mode">> \in Seq(Things)
      BY <2>1, RangeOfAppended, ZenonT(30)
  <2>4. <<"port", "mode", "screen">> = <<"port", "mode">> \o <<"screen">>
      OBVIOUS
  <2>5. Range(<<"port", "mode">> \o <<"screen">>) = Range(<<"port", "mode">>) \cup Range(<<"screen">>)
    <3>1. <<"port", "mode">> \in Seq(Things)
        BY <2>2, <2>3
    <3> QED
        BY <2>1, <3>1, RangeOfAppended, ZenonT(30)
  <2>6. Range(<<"port", "mode">>) = {"port", "mode"}
      BY <2>2, <2>3, RangeOfOne
  <2>7. Range(<<"port", "mode">> \o <<"screen">>) = {"port", "mode", "screen"}
      BY <2>5, <2>6, RangeOfOne
  <2> QED
      BY <2>4, <2>7
<1> QED
    BY <1>1, <1>2 DEF Things

LEMMA MutterIsSound == Recipe(MutterSteps)
<1>1. /\ MutterSteps[1] = Command({}, <<>>)
      /\ MutterSteps[2] = Command({"stream"}, <<"stream">>)
      /\ MutterSteps[3] = Command({}, <<>>)
      /\ Len(MutterSteps) = 3 /\ DOMAIN MutterSteps = 1 .. 3
    BY DEF MutterSteps
<1>2. CommandIsSound(MutterSteps, 1) /\ CommandIsSound(MutterSteps, 3)
    BY <1>1, MakingNothingIsSound, ThingSequences DEF Things
<1>3. /\ Range(MutterSteps[2].guards) = {"stream"}
    BY <1>1, CommandParts, RangeOfOne, ThingSequences
<1>4. CommandIsSound(MutterSteps, 2)
  <2>1. "stream" \in Range(MutterSteps[2].guards) /\ "stream" \in Things /\ <<"stream">> \in Seq(Things)
      BY <1>3, ThingSequences DEF Things
  <2>2. 2 \in DOMAIN MutterSteps /\ 2 \in DOMAIN MutterSteps
      BY <1>1
  <2> QED
      BY <1>1, <2>1, <2>2, MakingIsSound
<1> QED
    BY <1>1, <1>2, <1>4 DEF Recipe

LEMMA HyprlandIsSound == Recipe(HyprlandSteps)
<1>1. /\ HyprlandSteps[1] = Command({"output"}, <<>>)
      /\ HyprlandSteps[2] = Command({}, <<>>)
      /\ HyprlandSteps[3] = Command({}, <<"output">>)
      /\ Len(HyprlandSteps) = 3 /\ DOMAIN HyprlandSteps = 1 .. 3
    BY DEF HyprlandSteps
<1>2. CommandIsSound(HyprlandSteps, 2) /\ CommandIsSound(HyprlandSteps, 3)
    BY <1>1, MakingNothingIsSound, ThingSequences DEF Things
<1>3. /\ Range(HyprlandSteps[3].guards) = {"output"}
    BY <1>1, CommandParts, RangeOfOne, ThingSequences
<1>4. CommandIsSound(HyprlandSteps, 1)
  <2>1. "output" \in Range(HyprlandSteps[3].guards) /\ "output" \in Things /\ <<>> \in Seq(Things)
      BY <1>3, ThingSequences DEF Things
  <2>2. 1 \in DOMAIN HyprlandSteps /\ 3 \in DOMAIN HyprlandSteps
      BY <1>1
  <2> QED
      BY <1>1, <2>1, <2>2, MakingIsSound
<1> QED
    BY <1>1, <1>2, <1>4 DEF Recipe

LEMMA SwayIsSound == Recipe(SwaySteps)
<1>1. /\ SwaySteps[1] = Command({}, <<>>)
      /\ SwaySteps[2] = Command({"output"}, <<>>)
      /\ SwaySteps[3] = Command({}, <<>>)
      /\ SwaySteps[4] = Command({}, <<>>)
      /\ SwaySteps[5] = Command({}, <<"output">>)
      /\ Len(SwaySteps) = 5 /\ DOMAIN SwaySteps = 1 .. 5
    BY DEF SwaySteps
<1>2. CommandIsSound(SwaySteps, 1) /\ CommandIsSound(SwaySteps, 3) /\ CommandIsSound(SwaySteps, 4) /\ CommandIsSound(SwaySteps, 5)
    BY <1>1, MakingNothingIsSound, ThingSequences DEF Things
<1>3. /\ Range(SwaySteps[5].guards) = {"output"}
    BY <1>1, CommandParts, RangeOfOne, ThingSequences
<1>4. CommandIsSound(SwaySteps, 2)
  <2>1. "output" \in Range(SwaySteps[5].guards) /\ "output" \in Things /\ <<>> \in Seq(Things)
      BY <1>3, ThingSequences DEF Things
  <2>2. 2 \in DOMAIN SwaySteps /\ 5 \in DOMAIN SwaySteps
      BY <1>1
  <2> QED
      BY <1>1, <2>1, <2>2, MakingIsSound
<1> QED
    BY <1>1, <1>2, <1>4 DEF Recipe

LEMMA KdeIsSound == Recipe(KdeSteps)
<1>1. /\ KdeSteps[1] = Command({"child"}, <<"child">>)
      /\ KdeSteps[2] = Command({}, <<>>)
      /\ KdeSteps[3] = Command({}, <<>>)
      /\ KdeSteps[4] = Command({}, <<>>)
      /\ KdeSteps[5] = Command({"portal"}, <<"portal">>)
      /\ Len(KdeSteps) = 5 /\ DOMAIN KdeSteps = 1 .. 5
    BY DEF KdeSteps, PortalSteps
<1>2. CommandIsSound(KdeSteps, 2) /\ CommandIsSound(KdeSteps, 3) /\ CommandIsSound(KdeSteps, 4)
    BY <1>1, MakingNothingIsSound, ThingSequences DEF Things
<1>3. /\ Range(KdeSteps[1].guards) = {"child"}
      /\ Range(KdeSteps[5].guards) = {"portal"}
    BY <1>1, CommandParts, RangeOfOne, ThingSequences
<1>4. CommandIsSound(KdeSteps, 1)
  <2>1. "child" \in Range(KdeSteps[1].guards) /\ "child" \in Things /\ <<"child">> \in Seq(Things)
      BY <1>3, ThingSequences DEF Things
  <2>2. 1 \in DOMAIN KdeSteps /\ 1 \in DOMAIN KdeSteps
      BY <1>1
  <2> QED
      BY <1>1, <2>1, <2>2, MakingIsSound
<1>5. CommandIsSound(KdeSteps, 5)
  <2>1. "portal" \in Range(KdeSteps[5].guards) /\ "portal" \in Things /\ <<"portal">> \in Seq(Things)
      BY <1>3, ThingSequences DEF Things
  <2>2. 5 \in DOMAIN KdeSteps /\ 5 \in DOMAIN KdeSteps
      BY <1>1
  <2> QED
      BY <1>1, <2>1, <2>2, MakingIsSound
<1> QED
    BY <1>1, <1>2, <1>4, <1>5 DEF Recipe

LEMMA X11ForcedIsSound == Recipe(X11ForcedSteps)
<1>1. /\ X11ForcedSteps[1] = Command({"mode"}, <<>>)
      /\ X11ForcedSteps[2] = Command({"port"}, <<"port", "mode", "screen">>)
      /\ X11ForcedSteps[3] = Command({"screen"}, <<>>)
      /\ X11ForcedSteps[4] = Command({}, <<>>)
      /\ Len(X11ForcedSteps) = 4 /\ DOMAIN X11ForcedSteps = 1 .. 4
    BY DEF X11ForcedSteps
<1>2. CommandIsSound(X11ForcedSteps, 4)
    BY <1>1, MakingNothingIsSound, ThingSequences DEF Things
<1>3. /\ Range(X11ForcedSteps[2].guards) = {"port", "mode", "screen"}
    BY <1>1, CommandParts, RangeOfOne, ThingSequences
<1>4. CommandIsSound(X11ForcedSteps, 1)
  <2>1. "mode" \in Range(X11ForcedSteps[2].guards) /\ "mode" \in Things /\ <<>> \in Seq(Things)
      BY <1>3, ThingSequences DEF Things
  <2>2. 1 \in DOMAIN X11ForcedSteps /\ 2 \in DOMAIN X11ForcedSteps /\ 1 + 1 \in DOMAIN X11ForcedSteps
      BY <1>1
  <2> QED
      BY <1>1, <2>1, <2>2, MakingIsSound
<1>5. CommandIsSound(X11ForcedSteps, 2)
  <2>1. "port" \in Range(X11ForcedSteps[2].guards) /\ "port" \in Things /\ <<"port", "mode", "screen">> \in Seq(Things)
      BY <1>3, ThingSequences DEF Things
  <2>2. 2 \in DOMAIN X11ForcedSteps /\ 2 \in DOMAIN X11ForcedSteps
      BY <1>1
  <2> QED
      BY <1>1, <2>1, <2>2, MakingIsSound
<1>6. CommandIsSound(X11ForcedSteps, 3)
  <2>1. "screen" \in Range(X11ForcedSteps[2].guards) /\ "screen" \in Things /\ <<>> \in Seq(Things)
      BY <1>3, ThingSequences DEF Things
  <2>2. 3 \in DOMAIN X11ForcedSteps /\ 2 \in DOMAIN X11ForcedSteps /\ 2 \in 1 .. 3
      BY <1>1
  <2> QED
      BY <1>1, <2>1, <2>2, MakingIsSound
<1> QED
    BY <1>1, <1>2, <1>4, <1>5, <1>6 DEF Recipe

LEMMA X11FramebufferIsSound == Recipe(X11FramebufferSteps)
<1>1. /\ X11FramebufferSteps[1] = Command({"screen"}, <<"monitor", "screen">>)
      /\ X11FramebufferSteps[2] = Command({"monitor"}, <<>>)
      /\ X11FramebufferSteps[3] = Command({}, <<>>)
      /\ Len(X11FramebufferSteps) = 3 /\ DOMAIN X11FramebufferSteps = 1 .. 3
    BY DEF X11FramebufferSteps
<1>2. CommandIsSound(X11FramebufferSteps, 3)
    BY <1>1, MakingNothingIsSound, ThingSequences DEF Things
<1>3. /\ Range(X11FramebufferSteps[1].guards) = {"monitor", "screen"}
    BY <1>1, CommandParts, RangeOfOne, ThingSequences
<1>4. CommandIsSound(X11FramebufferSteps, 1)
  <2>1. "screen" \in Range(X11FramebufferSteps[1].guards) /\ "screen" \in Things /\ <<"monitor", "screen">> \in Seq(Things)
      BY <1>3, ThingSequences DEF Things
  <2>2. 1 \in DOMAIN X11FramebufferSteps /\ 1 \in DOMAIN X11FramebufferSteps /\ 1 \in 1 .. 1
      BY <1>1
  <2> QED
      BY <1>1, <2>1, <2>2, MakingIsSound
<1>5. CommandIsSound(X11FramebufferSteps, 2)
  <2>1. "monitor" \in Range(X11FramebufferSteps[1].guards) /\ "monitor" \in Things /\ <<>> \in Seq(Things)
      BY <1>3, ThingSequences DEF Things
  <2>2. 2 \in DOMAIN X11FramebufferSteps /\ 1 \in DOMAIN X11FramebufferSteps
      BY <1>1
  <2> QED
      BY <1>1, <2>1, <2>2, MakingIsSound
<1> QED
    BY <1>1, <1>2, <1>4, <1>5 DEF Recipe

(* Every recipe that prepare tries is one of these, and there is one.      *)
LEMMA PlanIsSound ==
    ASSUME backend \in Backends
    PROVE  Len(Plan) \in Nat \ {0} /\ \A a \in 1 .. Len(Plan) : Recipe(Plan[a])
<1>1. \A R : Len(<<R>>) = 1 /\ <<R>>[1] = R
    OBVIOUS
<1>2. CASE backend = "mutter"
    BY <1>1, <1>2, MutterIsSound DEF Plan
<1>3. CASE backend = "hyprland"
    BY <1>1, <1>3, HyprlandIsSound DEF Plan
<1>4. CASE backend = "sway"
    BY <1>1, <1>4, SwayIsSound DEF Plan
<1>5. CASE backend = "kde"
    BY <1>1, <1>5, KdeIsSound DEF Plan
<1>6. CASE backend = "x11"
  <2>0. Ports \in Nat
      BY RequestsAssumption
  <2>1. PICK s : s = [i \in 1 .. Ports |-> X11ForcedSteps]
      OBVIOUS
  <2>2. s \in Seq({X11ForcedSteps, X11FramebufferSteps}) /\ Len(s) = Ports
      BY <2>0, <2>1
  <2>3. PICK t : t = << X11FramebufferSteps >>
      OBVIOUS
  <2>4. /\ t \in Seq({X11ForcedSteps, X11FramebufferSteps})
        /\ Len(t) = 1 /\ t[1] = X11FramebufferSteps
      BY <2>3
  <2>5. Len(s \o t) = Ports + 1
    <3>1. \A S : \A u, v \in Seq(S) : Len(u \o v) = Len(u) + Len(v)
        OBVIOUS
    <3>2. Len(s \o t) = Len(s) + Len(t)
        BY <3>1, <2>2, <2>4
    <3> QED
        BY <3>2, <2>2, <2>4
  <2>6. ASSUME NEW a \in 1 .. Ports + 1
        PROVE  (s \o t)[a] = X11ForcedSteps \/ (s \o t)[a] = X11FramebufferSteps
      BY <2>0, <2>2, <2>4, <2>5, <2>6
  <2>7. Plan = s \o t
      BY <1>6, <2>1, <2>3 DEF Plan, X11Recipes
  <2> QED
      BY <2>0, <2>5, <2>6, <2>7, X11ForcedIsSound, X11FramebufferIsSound, SMTT(30)
<1> QED
    BY <1>2, <1>3, <1>4, <1>5, <1>6, RequestsAssumption

-----------------------------------------------------------------------------
(* What a request has of its own: nothing before it detects, guards only   *)
(* while something may be undone, and, at a command, what the commands     *)
(* before it have made and pushed.                                         *)

Fresh(r) == taken[r] = {} /\ attempt[r] = 1 /\ step[r] = 1

OnRecipe(r) ==
    /\ step[r] \in DOMAIN Plan[attempt[r]]
    /\ \A t \in taken[r] : \E i \in 1 .. step[r] - 1 : t \in Plan[attempt[r]][i].takes
    /\ \A i \in 1 .. step[r] - 1 : Range(Plan[attempt[r]][i].guards) \subseteq Guarded(r)

Bare == {"new", "asked", "refused", "detecting", "failing", "failed", "done"}

Own(r) ==
    /\ attempt[r] \in 1 .. Len(Plan)
    /\ pc[r] \in {"new", "asked", "detecting"} => Fresh(r)
    /\ pc[r] \in Bare => guards[r] = <<>>
    /\ pc[r] = "preparing" => OnRecipe(r)

OwnTyped ==
    /\ backend \in Backends
    /\ pc \in [Requests -> Labels]
    /\ attempt \in [Requests -> Int] /\ step \in [Requests -> Int]
    /\ taken \in [Requests -> SUBSET Things] /\ guards \in [Requests -> Seq(Things)]
    /\ saved \in [Requests -> Int] /\ screens \in Int

OwnInv == OwnTyped /\ \A r \in Requests : Own(r)

(* A request that only moves keeps what it has.                            *)
LEMMA OwnMove ==
    ASSUME OwnInv, NEW r \in Requests, NEW to \in Labels, Goto(r, to),
           UNCHANGED <<backend, attempt, step, taken, guards>>,
           saved' \in [Requests -> Int], screens' \in Int,
           to \in {"new", "asked", "detecting"} => Fresh(r),
           to \in Bare => guards[r] = <<>>, to = "preparing" => OnRecipe(r)
    PROVE  OwnInv'
<1>1. pc' = [pc EXCEPT ![r] = to] /\ OwnTyped'
    BY DEF OwnInv, OwnTyped, Goto
<1>2. Plan' = Plan
    BY DEF Plan
<1>3. ASSUME NEW q \in Requests, Fresh(q) PROVE Fresh(q)'
    BY <1>3 DEF Fresh
<1>4. ASSUME NEW q \in Requests, OnRecipe(q) PROVE OnRecipe(q)'
    BY <1>2, <1>4 DEF OnRecipe, Guarded
<1>5. pc'[r] = to /\ \A q \in Requests \ {r} : pc'[q] = pc[q]
    BY <1>1 DEF OwnInv, OwnTyped
<1>6. ASSUME NEW q \in Requests PROVE Own(q)'
  <2>1. Own(q)
      BY DEF OwnInv
  <2>2. CASE q = r
      BY <1>2, <1>3, <1>4, <1>5, <2>1, <2>2 DEF Own
  <2>3. CASE q # r
      BY <1>2, <1>3, <1>4, <1>5, <2>1, <2>3 DEF Own
  <2> QED
      BY <2>2, <2>3
<1> QED
    BY <1>1, <1>6 DEF OwnInv

(* A step of one request leaves the others what they have.                 *)
LEMMA OwnStep ==
    ASSUME OwnInv, NEW r \in Requests, OwnTyped', UNCHANGED backend, Own(r)',
           \A q \in Requests \ {r} :
              /\ pc'[q] = pc[q] /\ attempt'[q] = attempt[q] /\ step'[q] = step[q]
              /\ taken'[q] = taken[q] /\ guards'[q] = guards[q]
    PROVE  OwnInv'
<1>1. Plan' = Plan
    BY DEF Plan
<1>2. ASSUME NEW q \in Requests \ {r} PROVE Own(q)'
  <2>1. /\ pc'[q] = pc[q] /\ attempt'[q] = attempt[q] /\ step'[q] = step[q]
        /\ taken'[q] = taken[q] /\ guards'[q] = guards[q] /\ Own(q)
      BY DEF OwnInv
  <2>2. Fresh(q) => Fresh(q)'
      BY <2>1 DEF Fresh
  <2>3. OnRecipe(q) => OnRecipe(q)'
      BY <1>1, <2>1 DEF OnRecipe, Guarded
  <2> QED
      BY <1>1, <2>1, <2>2, <2>3 DEF Own
<1> QED
    BY <1>2 DEF OwnInv

(* The command a request is at is one of a recipe that is sound.           *)
LEMMA AtCommand ==
    ASSUME OwnInv, NEW r \in Requests, pc[r] = "preparing"
    PROVE  LET R == Plan[attempt[r]]
           IN  /\ Recipe(R) /\ step[r] \in 1 .. Len(R) /\ CommandIsSound(R, step[r])
               /\ R[step[r]].takes \in SUBSET Things /\ R[step[r]].guards \in Seq(Things)
<1>1. attempt[r] \in 1 .. Len(Plan) /\ step[r] \in DOMAIN Plan[attempt[r]]
    BY DEF OwnInv, Own, OnRecipe
<1>2. Recipe(Plan[attempt[r]])
    BY <1>1, PlanIsSound DEF OwnInv, OwnTyped
<1> QED
    BY <1>1, <1>2 DEF Recipe, CommandIsSound

LEMMA SucceedKeepsOwn ==
    ASSUME OwnInv, NEW r \in Requests, Succeed(r) PROVE OwnInv'
<1>1. PICK R : R = Plan[attempt[r]]
    OBVIOUS
<1>2. PICK n : n = step[r]
    OBVIOUS
<1>3. Len(R) \in Nat /\ n \in Nat /\ n \in 1 .. Len(R)
    BY <1>1, <1>2, AtCommand DEF Succeed, Recipe
<1>4. DOMAIN R = 1 .. Len(R)
    BY <1>1, AtCommand DEF Succeed, Recipe
<1>5. R[n].takes \in SUBSET Things /\ R[n].guards \in Seq(Things)
    BY <1>1, <1>2, AtCommand DEF Succeed
<1>6. /\ pc[r] = "preparing"
      /\ taken' = [taken EXCEPT ![r] = @ \cup R[n].takes]
      /\ guards' = [guards EXCEPT ![r] = @ \o R[n].guards]
      /\ step' = [step EXCEPT ![r] = @ + 1]
      /\ \/ n = Len(R) /\ pc' = [pc EXCEPT ![r] = "prepared"]
         \/ n # Len(R) /\ pc' = pc
      /\ UNCHANGED <<backend, attempt, saved>>
    BY <1>1, <1>2 DEF Succeed, Goto
<1>7. screens' \in Int
    BY DEF Succeed, OwnInv, OwnTyped
<1>8. guards[r] \in Seq(Things) /\ guards[r] \o R[n].guards \in Seq(Things)
    BY <1>5, RangeOfAppended DEF OwnInv, OwnTyped
<1>9. OwnTyped'
  <2>1. pc' \in [Requests -> Labels]
      BY <1>6 DEF OwnInv, OwnTyped, Labels
  <2>2. taken' \in [Requests -> SUBSET Things]
      BY <1>6, <1>5 DEF OwnInv, OwnTyped
  <2>3. guards' \in [Requests -> Seq(Things)]
      BY <1>6, <1>8 DEF OwnInv, OwnTyped
  <2>4. step' \in [Requests -> Int]
      BY <1>6 DEF OwnInv, OwnTyped
  <2> QED
      BY <1>6, <1>7, <2>1, <2>2, <2>3, <2>4 DEF OwnInv, OwnTyped
<1>10. /\ taken'[r] = taken[r] \cup R[n].takes /\ guards'[r] = guards[r] \o R[n].guards
       /\ step'[r] = n + 1 /\ attempt'[r] = attempt[r] /\ Plan' = Plan
       /\ pc'[r] = "prepared" \/ (pc'[r] = "preparing" /\ n # Len(R))
    BY <1>2, <1>6 DEF OwnInv, OwnTyped, Plan
<1>11. Guarded(r)' = Guarded(r) \cup Range(R[n].guards)
    BY <1>5, <1>8, <1>10, RangeOfAppended DEF Guarded
<1>12. ASSUME n # Len(R) PROVE OnRecipe(r)'
  <2>1. /\ \A t \in taken[r] : \E i \in 1 .. n - 1 : t \in R[i].takes
        /\ \A i \in 1 .. n - 1 : Range(R[i].guards) \subseteq Guarded(r)
      BY <1>1, <1>2, <1>6 DEF OwnInv, Own, OnRecipe
  <2>2. n + 1 \in DOMAIN R
    <3>1. n + 1 \in 1 .. Len(R)
        BY <1>3, <1>12
    <3> QED
        BY <3>1, <1>4
  <2>3. ASSUME NEW t \in taken'[r] PROVE \E i \in 1 .. n : t \in R[i].takes
    <3>1. CASE t \in taken[r]
        BY <1>3, <2>1, <3>1
    <3>2. CASE t \in R[n].takes
        BY <1>3, <3>2
    <3> QED
        BY <1>10, <3>1, <3>2
  <2>4. \A i \in 1 .. n : Range(R[i].guards) \subseteq Guarded(r)'
      BY <1>3, <1>11, <2>1
  <2>5. step'[r] - 1 = n
      BY <1>3, <1>10
  <2> QED
      BY <1>1, <1>10, <2>2, <2>3, <2>4, <2>5 DEF OnRecipe
<1>13. Own(r)'
    BY <1>10, <1>12 DEF OwnInv, Own, Bare
<1> QED
    BY <1>6, <1>9, <1>13, OwnStep DEF OwnInv, OwnTyped

LEMMA FailKeepsOwn ==
    ASSUME OwnInv, NEW r \in Requests, Fail(r) PROVE OwnInv'
<1>1. PICK R : R = Plan[attempt[r]]
    OBVIOUS
<1>2. PICK n : n = step[r]
    OBVIOUS
<1>3. pc[r] = "preparing" /\ Recipe(R) /\ n \in 1 .. Len(R) /\ CommandIsSound(R, n)
    BY <1>1, <1>2, AtCommand DEF Fail
<1>4. UNCHANGED <<backend, attempt, taken, guards, saved, screens>>
    BY DEF Fail, things
<1>5. saved' \in [Requests -> Int] /\ screens' \in Int
    BY <1>4 DEF OwnInv, OwnTyped
<1>6. CASE R[n].takes # {"mode"}
  <2>1. Goto(r, "undoing") /\ UNCHANGED step
      BY <1>1, <1>2, <1>6 DEF Fail
  <2> QED
      BY <1>4, <1>5, <2>1, OwnMove DEF Labels, Bare
<1>7. CASE R[n].takes = {"mode"}
  <2>1. step' = [step EXCEPT ![r] = @ + 1] /\ pc' = pc
      BY <1>1, <1>2, <1>7 DEF Fail
  <2>2. n + 1 \in DOMAIN R /\ R[n].guards = <<>>
      BY <1>3, <1>7 DEF CommandIsSound
  <2>3. /\ OwnTyped' /\ step'[r] = n + 1 /\ pc'[r] = "preparing" /\ Plan' = Plan
        /\ taken'[r] = taken[r] /\ guards'[r] = guards[r] /\ attempt'[r] = attempt[r]
      BY <1>2, <1>3, <1>4, <2>1 DEF OwnInv, OwnTyped, Plan
  <2>4. /\ \A t \in taken[r] : \E i \in 1 .. n - 1 : t \in R[i].takes
        /\ \A i \in 1 .. n - 1 : Range(R[i].guards) \subseteq Guarded(r)
      BY <1>1, <1>2, <1>3 DEF OwnInv, Own, OnRecipe
  <2>5. n \in Nat /\ step'[r] - 1 = n
      BY <1>3, <2>3
  <2>6. Guarded(r)' = Guarded(r) /\ Range(R[n].guards) = {}
      BY <2>2, <2>3, RangeOfEmpty DEF Guarded
  <2>7. \A t \in taken'[r] : \E i \in 1 .. n : t \in R[i].takes
      BY <2>3, <2>4, <2>5
  <2>8. \A i \in 1 .. n : Range(R[i].guards) \subseteq Guarded(r)'
      BY <2>4, <2>5, <2>6
  <2>9. OnRecipe(r)'
      BY <1>1, <2>2, <2>3, <2>5, <2>7, <2>8 DEF OnRecipe
  <2>10. Own(r)'
      BY <2>3, <2>9 DEF OwnInv, Own, Bare
  <2> QED
      BY <1>4, <2>1, <2>3, <2>10, OwnStep DEF OwnInv, OwnTyped
<1> QED
    BY <1>6, <1>7

LEMMA UndoKeepsOwn ==
    ASSUME OwnInv, NEW r \in Requests, Undo(r) \/ UndoFails(r) PROVE OwnInv'
<1>1. /\ pc[r] \in {"undoing", "dropping"} /\ guards[r] # <<>>
      /\ guards' = [guards EXCEPT ![r] = Tail(@)]
      /\ UNCHANGED <<backend, pc, attempt, step, taken, saved>>
    BY DEF Undo, UndoFails, place
<1>2. screens' \in Int
    BY DEF Undo, UndoFails, OwnInv, OwnTyped
<1>3. Tail(guards[r]) \in Seq(Things)
    BY <1>1, RangeOfTail DEF OwnInv, OwnTyped
<1>4. OwnTyped'
    BY <1>1, <1>2, <1>3 DEF OwnInv, OwnTyped
<1>5. Own(r)'
    BY <1>1 DEF OwnInv, OwnTyped, Own, Bare, Plan
<1> QED
    BY <1>1, <1>4, <1>5, OwnStep DEF OwnInv, OwnTyped

LEMMA TryNextKeepsOwn ==
    ASSUME OwnInv, NEW r \in Requests, TryNext(r) PROVE OwnInv'
<1>1. /\ pc[r] = "undoing" /\ guards[r] = <<>>
      /\ UNCHANGED <<backend, guards, screens, saved>>
      /\ saved' \in [Requests -> Int] /\ screens' \in Int
    BY DEF TryNext, OwnInv, OwnTyped
<1>2. CASE attempt[r] < Len(Plan)
  <2>1. /\ pc' = [pc EXCEPT ![r] = "preparing"]
        /\ attempt' = [attempt EXCEPT ![r] = @ + 1]
        /\ step' = [step EXCEPT ![r] = 1] /\ taken' = [taken EXCEPT ![r] = {}]
      BY <1>2 DEF TryNext, Goto
  <2>2. OwnTyped'
      BY <1>1, <2>1 DEF OwnInv, OwnTyped, Labels
  <2>3. /\ pc'[r] = "preparing" /\ attempt'[r] = attempt[r] + 1 /\ step'[r] = 1
        /\ taken'[r] = {} /\ Plan' = Plan
      BY <1>1, <2>1 DEF OwnInv, OwnTyped, Plan
  <2>4. attempt'[r] \in 1 .. Len(Plan)
      BY <1>2, <2>3, PlanIsSound DEF OwnInv, OwnTyped, Own
  <2>5. 1 \in DOMAIN Plan[attempt'[r]]
      BY <2>4, PlanIsSound DEF OwnInv, OwnTyped, Recipe
  <2>6. OnRecipe(r)'
      BY <2>3, <2>5 DEF OnRecipe
  <2>7. Own(r)'
      BY <2>3, <2>4, <2>6 DEF Own, Bare
  <2> QED
      BY <1>1, <2>1, <2>2, <2>7, OwnStep DEF OwnInv, OwnTyped
<1>3. CASE ~(attempt[r] < Len(Plan))
  <2>1. Goto(r, "failing") /\ UNCHANGED <<attempt, step, taken>>
      BY <1>3 DEF TryNext, place
  <2> QED
      BY <1>1, <2>1, OwnMove DEF Labels, Bare
<1> QED
    BY <1>2, <1>3

LEMMA StartEncoderKeepsOwn ==
    ASSUME OwnInv, NEW r \in Requests, StartEncoder(r) PROVE OwnInv'
<1>1. /\ UNCHANGED <<backend, step, taken, guards, saved, screens>>
      /\ saved' \in [Requests -> Int] /\ screens' \in Int
    BY DEF StartEncoder, things, OwnInv, OwnTyped
<1>2. CASE Goto(r, "streaming") /\ UNCHANGED attempt
    BY <1>1, <1>2, OwnMove DEF Labels, Bare
<1>3. CASE Goto(r, "undoing") /\ attempt' = [attempt EXCEPT ![r] = Len(Plan)]
  <2>1. Len(Plan) \in Nat \ {0} /\ Plan' = Plan
      BY <1>1, PlanIsSound DEF OwnInv, OwnTyped, Plan
  <2>2. OwnTyped'
      BY <1>1, <1>3, <2>1 DEF OwnInv, OwnTyped, Goto, Labels
  <2>3. pc'[r] = "undoing" /\ attempt'[r] = Len(Plan)
      BY <1>3 DEF OwnInv, OwnTyped, Goto
  <2>4. Own(r)'
      BY <2>1, <2>3 DEF Own, Bare
  <2> QED
      BY <1>1, <1>3, <2>2, <2>4, OwnStep DEF OwnInv, OwnTyped, Goto
<1> QED
    BY <1>2, <1>3 DEF StartEncoder

LEMMA OwnNext == OwnInv /\ [Next]_vars => OwnInv'
<1> SUFFICES ASSUME OwnInv, [Next]_vars PROVE OwnInv'
    OBVIOUS
<1>1. saved \in [Requests -> Int] /\ screens \in Int /\ \A r \in Requests : Own(r)
    BY DEF OwnInv, OwnTyped
<1>2. ASSUME NEW r \in Requests, Daemon(r) PROVE OwnInv'
  <2>1. CASE Refuse(r)
      BY <1>1, <2>1, OwnMove DEF Refuse, place, things, Labels, Bare, Own
  <2>2. CASE Enter(r)
      BY <1>1, <2>2, OwnMove DEF Enter, place, things, Labels, Bare, Own
  <2>3. CASE Detect(r)
    <3>1. PICK to \in {"preparing", "failing"} : Goto(r, to)
        BY <2>3 DEF Detect
    <3>2. /\ pc[r] = "detecting" /\ UNCHANGED <<backend, attempt, step, taken, guards>>
          /\ saved' \in [Requests -> Int] /\ screens' \in Int
        BY <1>1, <2>3 DEF Detect, place, things
    <3>3. Fresh(r) /\ guards[r] = <<>> /\ attempt[r] \in 1 .. Len(Plan)
        BY <1>1, <3>2 DEF Own, Bare
    <3>4. 1 \in DOMAIN Plan[attempt[r]]
        BY <3>3, PlanIsSound DEF Recipe, OwnInv, OwnTyped
    <3>5. OnRecipe(r)
        BY <3>3, <3>4 DEF OnRecipe, Fresh
    <3> QED
        BY <3>1, <3>2, <3>3, <3>5, OwnMove DEF Labels
  <2>4. CASE Succeed(r)
      BY <2>4, SucceedKeepsOwn
  <2>5. CASE Fail(r)
      BY <2>5, FailKeepsOwn
  <2>6. CASE Undo(r) \/ UndoFails(r)
      BY <2>6, UndoKeepsOwn
  <2>7. CASE TryNext(r)
      BY <2>7, TryNextKeepsOwn
  <2>8. CASE GiveUp(r)
      BY <1>1, <2>8, OwnMove DEF GiveUp, place, things, Labels, Bare, Own
  <2>9. CASE StartEncoder(r)
      BY <2>9, StartEncoderKeepsOwn
  <2>10. CASE Shutdown(r)
      BY <1>1, <2>10, OwnMove DEF Shutdown, place, Labels, Bare
  <2>11. CASE Release(r)
      BY <1>1, <2>11, OwnMove DEF Release, place, things, Labels, Bare
  <2>12. CASE Finish(r)
      BY <1>1, <2>12, OwnMove DEF Finish, place, things, Labels, Bare
  <2> QED
      BY <1>2, <2>1, <2>2, <2>3, <2>4, <2>5, <2>6, <2>7, <2>8, <2>9, <2>10, <2>11, <2>12
         DEF Daemon
<1>3. ASSUME NEW r \in Requests, Break(r) PROVE OwnInv'
    BY <1>1, <1>3, OwnMove DEF Break, place, things, Labels, Bare
<1>4. ASSUME NEW r \in Requests, Ask(r) PROVE OwnInv'
    BY <1>1, <1>4, OwnMove DEF Ask, place, things, Labels, Bare, Own
<1>5. CASE Show \/ Answer \/ Lose \/ Leave \/ UNCHANGED vars
  <2>1. UNCHANGED <<backend, pc, attempt, step, taken, guards, saved, screens>>
      BY <1>5 DEF Show, Answer, Lose, Leave, vars, place, things
  <2> QED
      BY <2>1 DEF OwnInv, OwnTyped, Own, Fresh, OnRecipe, Guarded, Plan
<1> QED
    BY <1>2, <1>3, <1>4, <1>5 DEF Next

-----------------------------------------------------------------------------
(* What only one request that works, and nobody else, has on the desktop.  *)

Busy == Holding \cup {"dropping"}

Built == {"preparing", "prepared", "streaming", "stopping"}

\* The framebuffer has the user's width, unless a guard failed to give it back.
Narrow         == screens = 0 \/ "screen" \in litter
FoundNarrow(r) == saved[r] = 0 \/ "screen" \in litter

\* What is on the desktop is what is left there, or will be undone, or has been
\* made by the recipe that is being tried.
Covered(r) ==
    /\ \A d \in desktop :
        \/ d \in litter
        \/ \E t \in Guarded(r) : d = Name(r, t)
        \/ pc[r] = "preparing" /\ \E t \in taken[r] \ {"screen"} : d = Name(r, t)
    /\ Narrow \/ "screen" \in Guarded(r)

\* What the recipe has made is there.
Kept(r) ==
    /\ \A t \in taken[r] \ {"screen"} : Name(r, t) \in desktop
    /\ "screen" \in taken[r] => screens = saved[r] + 1

Works(r) ==
    /\ pc[r] \notin {"detecting", "failing"} => FoundNarrow(r)
    /\ Covered(r)
    /\ pc[r] \in Built => Kept(r)

AloneInv ==
    ~overlap =>
        /\ \A r, q \in Requests : pc[r] \in Busy /\ pc[q] \in Busy => r = q
        /\ \A r \in Requests : pc[r] \in Busy => Works(r)
        /\ (\A r \in Requests : pc[r] \notin Busy) => desktop \subseteq litter /\ Narrow

(* A step of the only request at work, or of one that goes to work alone.  *)
LEMMA WorkAlone ==
    ASSUME NEW r \in Requests,
           \A q \in Requests \ {r} : pc[q] \notin Busy /\ pc'[q] = pc[q],
           pc'[r] \in Busy => Works(r)',
           pc'[r] \notin Busy => desktop' \subseteq litter' /\ Narrow'
    PROVE  AloneInv'
<1>1. \A q \in Requests : pc'[q] \in Busy => q = r
    OBVIOUS
<1> QED
    BY <1>1 DEF AloneInv

(* Steps that change nothing on the desktop, of those who do not work.     *)
LEMMA WorkNot ==
    ASSUME AloneInv,
           UNCHANGED <<backend, taken, guards, saved, desktop, screens, litter, overlap>>,
           \A q \in Requests : pc'[q] = pc[q] \/ (pc[q] \notin Busy /\ pc'[q] \notin Busy)
    PROVE  AloneInv'
<1>1. ASSUME NEW q \in Requests, pc'[q] = pc[q], Works(q) PROVE Works(q)'
    BY <1>1 DEF Narrow, FoundNarrow, Works, Covered, Kept, Guarded, Name
<1>2. \A q \in Requests : pc'[q] \in Busy => pc'[q] = pc[q]
    OBVIOUS
<1> QED
    BY <1>1, <1>2 DEF Narrow, FoundNarrow, AloneInv

(* Whoever works, works alone, and what holds of it holds.                 *)
LEMMA Alone ==
    ASSUME AloneInv, OwnInv, ~overlap, NEW r \in Requests, pc[r] \in Busy
    PROVE  Works(r) /\ Own(r) /\ \A q \in Requests \ {r} : pc[q] \notin Busy
BY DEF AloneInv, OwnInv

(* With no guard left and no recipe tried, nothing is left to be undone.   *)
LEMMA NothingToUndo ==
    ASSUME NEW r \in Requests, Covered(r), guards[r] = <<>>, pc[r] # "preparing"
    PROVE  desktop \subseteq litter /\ Narrow
BY RangeOfEmpty DEF Covered, Guarded

(* A request that moves, with the desktop as it is.                        *)
LEMMA AloneMove ==
    ASSUME AloneInv, OwnInv, ~overlap, NEW r \in Requests, NEW to \in Busy, Goto(r, to),
           UNCHANGED <<backend, taken, guards, saved, desktop, screens, litter>>,
           pc[r] \in Busy \ {"detecting", "preparing", "failing"}, to \notin {"detecting", "preparing"},
           to \in Built => pc[r] \in Built
    PROVE  AloneInv'
<1>1. pc' = [pc EXCEPT ![r] = to] /\ pc'[r] = to
    BY DEF Goto, OwnInv, OwnTyped
<1>2. Works(r) /\ \A q \in Requests \ {r} : pc[q] \notin Busy
    BY Alone
<1>3. Works(r)'
  <2>1. FoundNarrow(r)'
      BY <1>2 DEF Narrow, FoundNarrow, Works
  <2>2. Covered(r)'
      BY <1>1, <1>2 DEF Narrow, FoundNarrow, Works, Covered, Guarded, Name
  <2>3. pc'[r] \in Built => Kept(r)'
      BY <1>1, <1>2 DEF Works, Kept, Name
  <2> QED
      BY <2>1, <2>2, <2>3 DEF Works
<1> QED
    BY <1>1, <1>2, <1>3, WorkAlone DEF OwnInv, OwnTyped

(* A request that ends, with nothing left to undo.                         *)
LEMMA AloneEnd ==
    ASSUME AloneInv, OwnInv, ~overlap, NEW r \in Requests, NEW to \in Labels \ Busy, Goto(r, to),
           UNCHANGED <<desktop, screens, litter>>,
           pc[r] \in Busy \ {"preparing"}, guards[r] = <<>>
    PROVE  AloneInv'
<1>1. pc' = [pc EXCEPT ![r] = to] /\ pc'[r] = to
    BY DEF Goto, OwnInv, OwnTyped
<1>2. Works(r) /\ \A q \in Requests \ {r} : pc[q] \notin Busy
    BY Alone
<1>3. desktop \subseteq litter /\ Narrow
    BY <1>2, NothingToUndo DEF Works
<1> QED
    BY <1>1, <1>2, <1>3, WorkAlone DEF Narrow, FoundNarrow, OwnInv, OwnTyped

LEMMA EnterAlone ==
    ASSUME AloneInv, OwnInv, LockInv, ~overlap', NEW r \in Requests, Enter(r)
    PROVE  AloneInv'
<1>1. /\ pc[r] = "asked" /\ ~active /\ ~overlap
      /\ \A q \in Requests : pc[q] # "dropping"
      /\ pc' = [pc EXCEPT ![r] = "detecting"]
      /\ UNCHANGED <<backend, taken, guards, saved, desktop, screens, litter>>
    BY DEF Enter, Goto, things
<1>2. \A q \in Requests : pc[q] \notin Busy
    BY <1>1 DEF LockInv, ActiveIsHeld, Busy
<1>3. desktop \subseteq litter /\ Narrow
    BY <1>1, <1>2 DEF AloneInv
<1>4. pc'[r] = "detecting"
    BY <1>1 DEF OwnInv, OwnTyped
<1>5. Works(r)'
    BY <1>1, <1>3, <1>4 DEF Narrow, FoundNarrow, Works, Covered, Built
<1> QED
    BY <1>1, <1>2, <1>4, <1>5, WorkAlone DEF OwnInv, OwnTyped, Busy, Holding

LEMMA DetectAlone ==
    ASSUME AloneInv, OwnInv, ~overlap, NEW r \in Requests, Detect(r)
    PROVE  AloneInv'
<1>1. /\ pc[r] = "detecting"
      /\ UNCHANGED <<backend, taken, guards, desktop, screens, litter>>
    BY DEF Detect, things
<1>2. /\ Works(r) /\ guards[r] = <<>> /\ taken[r] = {}
      /\ \A q \in Requests \ {r} : pc[q] \notin Busy
    BY <1>1, Alone DEF Busy, Holding, Own, Bare, Fresh
<1>3. desktop \subseteq litter /\ Narrow
    BY <1>1, <1>2, NothingToUndo DEF Works
<1>4. PICK to \in {"preparing", "failing"} : pc' = [pc EXCEPT ![r] = to]
    BY DEF Detect, Goto
<1>5. pc'[r] = to /\ \A q \in Requests \ {r} : pc'[q] = pc[q]
    BY <1>4 DEF OwnInv, OwnTyped
<1>6. Covered(r)' /\ Kept(r)'
    BY <1>1, <1>2, <1>3, <1>5 DEF Narrow, Covered, Kept
<1>7. to = "preparing" => FoundNarrow(r)'
    BY <1>1, <1>3, <1>4, <1>5 DEF Narrow, FoundNarrow, Detect, Goto, OwnInv, OwnTyped
<1>8. Works(r)'
    BY <1>5, <1>6, <1>7 DEF Works
<1> QED
    BY <1>2, <1>5, <1>8, WorkAlone DEF Busy, Holding

LEMMA SucceedAlone ==
    ASSUME AloneInv, OwnInv, ~overlap, NEW r \in Requests, Succeed(r)
    PROVE  AloneInv'
<1>1. PICK R : R = Plan[attempt[r]]
    OBVIOUS
<1>2. PICK n : n = step[r]
    OBVIOUS
<1>3. PICK takes : takes = R[n].takes
    OBVIOUS
<1>4. PICK pushed : pushed = R[n].guards
    OBVIOUS
<1>5. /\ pc[r] = "preparing"
      /\ taken' = [taken EXCEPT ![r] = @ \cup takes]
      /\ guards' = [guards EXCEPT ![r] = @ \o pushed]
      /\ desktop' = desktop \cup {Name(r, t) : t \in takes \ {"screen"}}
      /\ screens' = IF "screen" \in takes THEN saved[r] + 1 ELSE screens
      /\ \/ n = Len(R) /\ pc' = [pc EXCEPT ![r] = "prepared"]
         \/ n # Len(R) /\ pc' = pc
      /\ UNCHANGED <<backend, saved, litter>>
    BY <1>1, <1>2, <1>3, <1>4 DEF Succeed, Goto
<1>6. /\ Works(r) /\ FoundNarrow(r) /\ Covered(r) /\ Kept(r)
      /\ \A q \in Requests \ {r} : pc[q] \notin Busy
    BY <1>5, Alone DEF Busy, Holding, Works, Built
<1>7. /\ takes \in SUBSET Things /\ pushed \in Seq(Things) /\ guards[r] \in Seq(Things)
      /\ Recipe(R) /\ n \in 1 .. Len(R) /\ CommandIsSound(R, n)
    BY <1>1, <1>2, <1>3, <1>4, <1>5, AtCommand DEF OwnInv, OwnTyped
<1>8. /\ taken'[r] = taken[r] \cup takes /\ guards'[r] = guards[r] \o pushed
      /\ FoundNarrow(r)'
      /\ pc'[r] \in {"preparing", "prepared"} /\ (pc'[r] = "prepared" => n = Len(R))
      /\ \A q \in Requests \ {r} : pc'[q] = pc[q]
    BY <1>5, <1>6 DEF Narrow, FoundNarrow, OwnInv, OwnTyped
<1>9. Guarded(r)' = Guarded(r) \cup Range(pushed)
    BY <1>7, <1>8, RangeOfAppended DEF Guarded
<1>10. /\ \A t \in taken[r] : \E i \in 1 .. n - 1 : t \in R[i].takes
       /\ \A i \in 1 .. n - 1 : Range(R[i].guards) \subseteq Guarded(r)
    BY <1>1, <1>2, <1>5 DEF OwnInv, Own, OnRecipe
<1>11. n \in 1 .. n /\ n \in Nat /\ \A i \in 1 .. n : Range(R[i].guards) \subseteq Guarded(r)'
    BY <1>4, <1>7, <1>9, <1>10
<1>12. \A t : Name(r, t)' = Name(r, t)
    BY <1>5 DEF Name
<1>13. ASSUME "screen" \in takes PROVE "screen" \in Guarded(r)'
    BY <1>3, <1>7, <1>11, <1>13 DEF CommandIsSound
<1>14. ASSUME pc'[r] = "prepared", NEW t \in taken'[r] PROVE t \in Guarded(r)'
  <2>1. n = Len(R) /\ DOMAIN R = 1 .. n
      BY <1>7, <1>8, <1>14 DEF Recipe
  <2>2. PICK i \in 1 .. n : t \in R[i].takes
    <3>1. CASE t \in taken[r]
        BY <1>10, <1>11, <3>1
    <3>2. CASE t \in takes
        BY <1>3, <1>11, <3>2
    <3> QED
        BY <1>8, <1>14, <3>1, <3>2
  <2>3. PICK j \in 1 .. n : t \in Range(R[j].guards)
      BY <1>7, <2>1, <2>2 DEF Recipe, CommandIsSound
  <2> QED
      BY <1>11, <2>3
<1>15. Covered(r)'
  <2>1. ASSUME NEW d \in desktop'
        PROVE  \/ d \in litter
               \/ \E t \in Guarded(r)' : d = Name(r, t)
               \/ \E t \in taken'[r] \ {"screen"} : d = Name(r, t)
    <3>1. CASE d \in desktop
        BY <1>6, <1>8, <1>9, <3>1 DEF Covered
    <3>2. CASE d \in {Name(r, t) : t \in takes \ {"screen"}}
        BY <1>8, <3>2
    <3> QED
        BY <1>5, <2>1, <3>1, <3>2
  <2>2. ASSUME NEW d \in desktop'
        PROVE  \/ d \in litter'
               \/ \E t \in Guarded(r)' : d = Name(r, t)'
               \/ pc'[r] = "preparing" /\ \E t \in taken'[r] \ {"screen"} : d = Name(r, t)'
      BY <1>5, <1>8, <1>12, <1>14, <2>1
  <2>3. Narrow' \/ "screen" \in Guarded(r)'
      BY <1>5, <1>6, <1>9, <1>13 DEF Narrow, FoundNarrow, Covered
  <2> QED
      BY <2>2, <2>3 DEF Covered
<1>16. Kept(r)'
  <2>1. \A t \in taken'[r] \ {"screen"} : Name(r, t)' \in desktop'
      BY <1>5, <1>6, <1>8, <1>12 DEF Kept
  <2>2. "screen" \in taken'[r] => screens' = saved'[r] + 1
      BY <1>5, <1>6, <1>8 DEF Kept
  <2> QED
      BY <2>1, <2>2 DEF Kept
<1>17. Works(r)'
    BY <1>8, <1>15, <1>16 DEF Works
<1> QED
    BY <1>6, <1>8, <1>17, WorkAlone DEF Busy, Holding

LEMMA FailAlone ==
    ASSUME AloneInv, OwnInv, ~overlap, NEW r \in Requests, Fail(r)
    PROVE  AloneInv'
<1>1. /\ pc[r] = "preparing"
      /\ UNCHANGED <<backend, taken, guards, saved, desktop, screens>>
    BY DEF Fail, things
<1>2. /\ Works(r) /\ FoundNarrow(r) /\ Covered(r) /\ Kept(r)
      /\ \A q \in Requests \ {r} : pc[q] \notin Busy
    BY <1>1, Alone DEF Busy, Holding, Works, Built
<1>3. \A t : Name(r, t)' = Name(r, t)
    BY <1>1 DEF Name
<1>4. CASE UNCHANGED <<pc, litter>>
  <2>1. Works(r)'
      BY <1>1, <1>2, <1>4 DEF Narrow, FoundNarrow, Works, Covered, Kept, Guarded, Name
  <2> QED
      BY <1>1, <1>2, <1>4, <2>1, WorkAlone DEF Busy, Holding
<1>5. CASE /\ pc' = [pc EXCEPT ![r] = "undoing"]
           /\ litter' = litter \cup {Name(r, t) : t \in taken[r] \ ({"screen"} \cup Guarded(r))}
  <2>1. pc'[r] = "undoing" /\ \A q \in Requests \ {r} : pc'[q] = pc[q]
      BY <1>5 DEF OwnInv, OwnTyped
  <2>2. ASSUME NEW d \in desktop
        PROVE  d \in litter' \/ \E t \in Guarded(r) : d = Name(r, t)
    <3>1. CASE d \in litter
        BY <1>5, <3>1
    <3>2. CASE \E t \in taken[r] \ {"screen"} : d = Name(r, t)
        BY <1>5, <3>2
    <3> QED
        BY <1>2, <3>1, <3>2 DEF Covered
  <2>3. Guarded(r)' = Guarded(r)
      BY <1>1 DEF Guarded
  <2>4. Covered(r)'
      BY <1>1, <1>2, <1>3, <1>5, <2>2, <2>3 DEF Narrow, Covered
  <2>5. Works(r)'
      BY <1>1, <1>2, <1>5, <2>1, <2>4 DEF FoundNarrow, Works, Built
  <2> QED
      BY <1>2, <2>1, <2>5, WorkAlone DEF Busy, Holding
<1> QED
    BY <1>4, <1>5 DEF Fail, Goto

LEMMA UndoAlone ==
    ASSUME AloneInv, OwnInv, ~overlap, NEW r \in Requests, Undo(r)
    PROVE  AloneInv'
<1>1. PICK first : first = Head(guards[r])
    OBVIOUS
<1>2. /\ pc[r] \in {"undoing", "dropping"} /\ guards[r] # <<>>
      /\ desktop' = desktop \ {Name(r, first)}
      /\ screens' = IF first = "screen" THEN saved[r] ELSE screens
      /\ guards' = [guards EXCEPT ![r] = Tail(@)]
      /\ UNCHANGED <<backend, pc, taken, saved, litter>>
    BY <1>1 DEF Undo
<1>3. /\ Works(r) /\ FoundNarrow(r) /\ Covered(r)
      /\ \A q \in Requests \ {r} : pc[q] \notin Busy
    BY <1>2, Alone DEF Busy, Holding, Works
<1>4. guards'[r] = Tail(guards[r]) /\ Guarded(r) = {first} \cup Guarded(r)'
    BY <1>1, <1>2, RangeOfTail DEF OwnInv, OwnTyped, Guarded
<1>5. \A t : Name(r, t)' = Name(r, t)
    BY <1>2 DEF Name
<1>6. ASSUME NEW d \in desktop'
      PROVE  d \in litter' \/ \E t \in Guarded(r)' : d = Name(r, t)'
  <2>1. d \in desktop /\ d # Name(r, first)
      BY <1>2, <1>6
  <2>2. d \in litter \/ \E t \in Guarded(r) : d = Name(r, t)
      BY <1>2, <1>3, <2>1 DEF Covered
  <2> QED
      BY <1>2, <1>4, <1>5, <2>1, <2>2
<1>7. Narrow' \/ "screen" \in Guarded(r)'
    BY <1>2, <1>3, <1>4 DEF Narrow, FoundNarrow, Covered
<1>8. Covered(r)'
    BY <1>6, <1>7 DEF Covered
<1>9. Works(r)'
    BY <1>2, <1>3, <1>8 DEF Narrow, FoundNarrow, Works, Built
<1> QED
    BY <1>2, <1>3, <1>9, WorkAlone DEF Busy, Holding

LEMMA UndoFailsAlone ==
    ASSUME AloneInv, OwnInv, ~overlap, NEW r \in Requests, UndoFails(r)
    PROVE  AloneInv'
<1>1. PICK first : first = Head(guards[r])
    OBVIOUS
<1>2. /\ pc[r] \in {"undoing", "dropping"} /\ guards[r] # <<>>
      /\ litter' = litter \cup {Name(r, first)}
      /\ guards' = [guards EXCEPT ![r] = Tail(@)]
      /\ UNCHANGED <<backend, pc, taken, desktop, screens, saved>>
    BY <1>1 DEF UndoFails
<1>3. /\ Works(r) /\ FoundNarrow(r) /\ Covered(r)
      /\ \A q \in Requests \ {r} : pc[q] \notin Busy
    BY <1>2, Alone DEF Busy, Holding, Works
<1>4. guards'[r] = Tail(guards[r]) /\ Guarded(r) = {first} \cup Guarded(r)'
    BY <1>1, <1>2, RangeOfTail DEF OwnInv, OwnTyped, Guarded
<1>5. \A t : Name(r, t)' = Name(r, t)
    BY <1>2 DEF Name
<1>6. ASSUME NEW d \in desktop'
      PROVE  d \in litter' \/ \E t \in Guarded(r)' : d = Name(r, t)'
  <2>1. d \in litter \/ \E t \in Guarded(r) : d = Name(r, t)
      BY <1>2, <1>3, <1>6 DEF Covered
  <2> QED
      BY <1>2, <1>4, <1>5, <2>1
<1>7. Narrow' \/ "screen" \in Guarded(r)'
    BY <1>2, <1>3, <1>4 DEF Covered, Narrow, Name
<1>8. Covered(r)'
    BY <1>6, <1>7 DEF Covered
<1>9. Works(r)'
    BY <1>2, <1>3, <1>8 DEF Works, Built, FoundNarrow
<1> QED
    BY <1>2, <1>3, <1>9, WorkAlone DEF Busy, Holding

LEMMA TryNextAlone ==
    ASSUME AloneInv, OwnInv, ~overlap, NEW r \in Requests, TryNext(r)
    PROVE  AloneInv'
<1>1. /\ pc[r] = "undoing" /\ guards[r] = <<>>
      /\ UNCHANGED <<backend, guards, saved, desktop, screens, litter>>
    BY DEF TryNext
<1>2. /\ Works(r) /\ FoundNarrow(r) /\ Covered(r)
      /\ \A q \in Requests \ {r} : pc[q] \notin Busy
    BY <1>1, Alone DEF Busy, Holding, Works
<1>3. desktop \subseteq litter /\ Narrow
    BY <1>1, <1>2, NothingToUndo
<1>4. Covered(r)'
    BY <1>1, <1>3 DEF Narrow, FoundNarrow, Covered
<1>5. CASE Goto(r, "failing")
  <2>1. pc'[r] = "failing" /\ \A q \in Requests \ {r} : pc'[q] = pc[q]
      BY <1>5 DEF OwnInv, OwnTyped, Goto
  <2>2. Works(r)'
      BY <1>4, <2>1 DEF Works, Built
  <2> QED
      BY <1>2, <2>1, <2>2, WorkAlone DEF Busy, Holding
<1>6. CASE Goto(r, "preparing") /\ taken' = [taken EXCEPT ![r] = {}]
  <2>1. /\ pc'[r] = "preparing" /\ taken'[r] = {}
        /\ \A q \in Requests \ {r} : pc'[q] = pc[q]
      BY <1>6 DEF OwnInv, OwnTyped, Goto
  <2>2. Kept(r)' /\ Works(r)'
      BY <1>1, <1>2, <1>4, <2>1 DEF Narrow, FoundNarrow, Works, Kept
  <2> QED
      BY <1>2, <2>1, <2>2, WorkAlone DEF Busy, Holding
<1> QED
    BY <1>5, <1>6 DEF TryNext

LEMMA ShutdownAlone ==
    ASSUME AloneInv, OwnInv, ~overlap, NEW r \in Requests, Shutdown(r)
    PROVE  AloneInv'
<1>1. /\ pc[r] = "stopping" /\ Goto(r, "stopped")
      /\ desktop' \subseteq desktop
      /\ UNCHANGED <<backend, taken, guards, saved, screens, litter>>
    BY DEF Shutdown
<1>2. /\ Works(r) /\ FoundNarrow(r) /\ Covered(r)
      /\ \A q \in Requests \ {r} : pc[q] \notin Busy
    BY <1>1, Alone DEF Busy, Holding, Works
<1>3. pc'[r] = "stopped" /\ \A q \in Requests \ {r} : pc'[q] = pc[q]
    BY <1>1 DEF OwnInv, OwnTyped, Goto
<1>4. Covered(r)'
    BY <1>1, <1>2 DEF Narrow, FoundNarrow, Covered, Guarded, Name
<1>5. Works(r)'
    BY <1>1, <1>2, <1>3, <1>4 DEF Narrow, FoundNarrow, Works, Built
<1> QED
    BY <1>2, <1>3, <1>5, WorkAlone DEF Busy, Holding

(* A session that begins and ends alone leaves nothing behind, at each     *)
(* step of it (display/backends.rs, display/portal.rs, the Guards).        *)
LEMMA AloneNext == AloneInv /\ OwnInv /\ LockInv /\ [Next]_vars => AloneInv'
<1> SUFFICES ASSUME AloneInv, OwnInv, LockInv, [Next]_vars, ~overlap' PROVE AloneInv'
    BY DEF AloneInv
<1> USE DEF Busy, Holding, Built, Labels
<1>1. ASSUME NEW r \in Requests, Daemon(r) PROVE AloneInv'
  <2>1. CASE Enter(r)
      BY <2>1, EnterAlone
  <2>2. ~overlap
      BY <1>1 DEF Daemon, Refuse, Enter, Detect, Succeed, Fail, Undo, UndoFails, TryNext, GiveUp,
                  StartEncoder, Shutdown, Release, Finish
  <2>3. CASE Refuse(r)
    <3>1. pc' = [pc EXCEPT ![r] = "refused"] /\ pc[r] = "asked"
        BY <2>3 DEF Refuse, Goto
    <3>2. \A q \in Requests : pc'[q] = pc[q] \/ (pc[q] \notin Busy /\ pc'[q] \notin Busy)
        BY <3>1 DEF OwnInv, OwnTyped
    <3> QED
        BY <2>3, <3>2, WorkNot DEF Refuse, things
  <2>4. CASE Detect(r)
      BY <2>2, <2>4, DetectAlone
  <2>5. CASE Succeed(r)
      BY <2>2, <2>5, SucceedAlone
  <2>6. CASE Fail(r)
      BY <2>2, <2>6, FailAlone
  <2>7. CASE Undo(r)
      BY <2>2, <2>7, UndoAlone
  <2>u. CASE UndoFails(r)
      BY <2>2, <2>u, UndoFailsAlone
  <2>8. CASE TryNext(r)
      BY <2>2, <2>8, TryNextAlone
  <2>9. CASE GiveUp(r)
    <3>1. guards[r] = <<>>
        BY <2>9 DEF GiveUp, OwnInv, Own, Bare
    <3> QED
        BY <2>2, <2>9, <3>1, AloneEnd DEF GiveUp, things
  <2>10. CASE StartEncoder(r)
      BY <2>2, <2>10, AloneMove DEF StartEncoder, things
  <2>11. CASE Shutdown(r)
      BY <2>2, <2>11, ShutdownAlone
  <2>12. CASE Release(r)
      BY <2>2, <2>12, AloneMove DEF Release, things
  <2>13. CASE Finish(r)
      BY <2>2, <2>13, AloneEnd DEF Finish, things
  <2> QED
      BY <1>1, <2>1, <2>3, <2>4, <2>5, <2>6, <2>7, <2>u, <2>8, <2>9, <2>10, <2>11, <2>12,
         <2>13
         DEF Daemon
<1>2. ASSUME NEW r \in Requests, Break(r) PROVE AloneInv'
    BY <1>2, AloneMove DEF Break, things
<1>3. ASSUME NEW r \in Requests, Ask(r) PROVE AloneInv'
  <2>1. pc' = [pc EXCEPT ![r] = "asked"] /\ pc[r] = "new"
      BY <1>3 DEF Ask, Goto
  <2>2. \A q \in Requests : pc'[q] = pc[q] \/ (pc[q] \notin Busy /\ pc'[q] \notin Busy)
      BY <2>1 DEF OwnInv, OwnTyped
  <2> QED
      BY <1>3, <2>2, WorkNot DEF Ask, things
<1>4. CASE Show \/ Answer \/ Lose \/ Leave \/ UNCHANGED vars
    BY <1>4, WorkNot DEF Show, Answer, Lose, Leave, vars, things
<1> QED
    BY <1>1, <1>2, <1>3, <1>4 DEF Next

ScreenInv == LockInv /\ OwnInv /\ AloneInv

LEMMA ScreenInvHolds == Spec => []ScreenInv
<1>1. Init => ScreenInv
  <2> SUFFICES ASSUME Init PROVE ScreenInv
      OBVIOUS
  <2>1. LockInv
      BY DEF Init, LockInv, PcTyped, ActiveIsHeld, Labels, Holding
  <2>2. OwnTyped
      BY DEF Init, OwnTyped, Labels
  <2>3. Len(Plan) \in Nat \ {0}
      BY <2>2, PlanIsSound DEF OwnTyped
  <2>4. OwnInv
      BY <2>2, <2>3 DEF Init, OwnInv, Own, Fresh
  <2>5. AloneInv
      BY DEF Narrow, FoundNarrow, Init, AloneInv, Busy, Holding
  <2> QED
      BY <2>1, <2>4, <2>5 DEF ScreenInv
<1>2. ScreenInv /\ [Next]_vars => ScreenInv'
    BY LockStep, OwnNext, AloneNext DEF ScreenInv
<1> QED
    BY <1>1, <1>2, PTL DEF Spec

(* With nobody at work the desktop is as it was, whatever failed, except   *)
(* for what failed recipes had made without a guard and for what a guard   *)
(* failed to undo (README: "the monitor folds back up"), unless sessions   *)
(* have overlapped.                                                        *)
THEOREM MonitorFoldsUp == Spec => []NothingLeftBehind
<1>1. ScreenInv => NothingLeftBehind
    BY DEF Narrow, ScreenInv, AloneInv, NothingLeftBehind, Busy, Holding
<1> QED
    BY <1>1, ScreenInvHolds, PTL

(* What the recipe has made is there until the session stops capturing it. *)
THEOREM ScreenStays == Spec => []ScreenStaysWhileStreaming
<1>1. ScreenInv => ScreenStaysWhileStreaming
    BY DEF ScreenInv, AloneInv, ScreenStaysWhileStreaming, Works, Kept, Busy, Holding, Built
<1> QED
    BY <1>1, ScreenInvHolds, PTL
=============================================================================
