------------------------------ MODULE FolderSync ------------------------------
(***************************************************************************)
(* The synchronised folder (sync.rs and LinkClient.runSync).  Paths are    *)
(* planned one by one and never influence each other, so the model follows *)
(* one path.  A session with a phone is a conversation of several steps;   *)
(* the users of both sides may write or remove the file between any two.   *)
(***************************************************************************)
EXTENDS Integers

CONSTANTS
    Phones,
    Sizes,      \* sizes of what users write; the data itself is a version
    MaxTime,    \* bound: number of writes that get a modification time
    NoFile,     \* no file, no entry in an index or in the baseline
    PC          \* the PC as a place

ASSUME SizesAssumption == Sizes \subseteq Nat \ {0} /\ MaxTime \in Nat
ASSUME PlacesAssumption == PC \notin Phones
ASSUME NoFileAssumption ==
    NoFile \notin [ver : Nat, size : Nat, mtime : Nat] \cup [size : Nat, mtime : Nat]
                  \cup [size : Nat, pcTime : Nat, phoneTime : Nat]

Places == Phones \cup {PC}

VARIABLES
    file,       \* what each place holds: version, size and modification time
    base,       \* the baseline file: size, time on the PC, time on the phone
    clock,      \* time of the last write
    step,       \* progress of the session with each phone
    index,      \* the phone's entry in the index it has sent
    scanned,    \* the PC's entry when the session was planned
    plan,       \* what the session does: one of Plans
    sent        \* the file on the wire

\* History, read by the properties only.
VARIABLES
    seen,       \* versions a place has held
    removed,    \* some user has removed the file, or a scan has left it out
    disturbed,  \* a user changed a place in a window where a session relies on it,
                \* a side died while it wrote the file, or an operation on it failed
    calm,       \* phones whose last session was not cut short and saw no user change
    gone        \* versions a user removed on one side while both sides agreed on them

session == <<step, index, scanned, plan, sent>>
history == <<seen, removed, disturbed, calm, gone>>
vars    == <<file, base, clock, session, history>>

Init ==
    /\ file = [x \in Places |-> NoFile]
    /\ base = NoFile
    /\ clock = 0
    /\ step = [h \in Phones |-> "idle"]
    /\ index = [h \in Phones |-> NoFile]
    /\ scanned = [h \in Phones |-> NoFile]
    /\ plan = [h \in Phones |-> "nothing"]
    /\ sent = [h \in Phones |-> NoFile]
    /\ seen = [x \in Places |-> {}]
    /\ removed = FALSE /\ disturbed = FALSE /\ calm = {} /\ gone = {}

-----------------------------------------------------------------------------
(* reconcile: the plan for a path, from the two indexes and the baseline.  *)

\* What scan reports of a file.
Entry(f) == IF f = NoFile THEN NoFile ELSE [size |-> f.size, mtime |-> f.mtime]

\* Compared with the baseline entry b and its time t.
Changed(e, b, t) ==
    IF e = NoFile \/ b = NoFile THEN e # b ELSE e.size # b.size \/ e.mtime # t

PcChanged(p, b)    == Changed(p, b, IF b = NoFile THEN 0 ELSE b.pcTime)
PhoneChanged(h, b) == Changed(h, b, IF b = NoFile THEN 0 ELSE b.phoneTime)

\* Both have the file: the changed one wins, the later one if both are.
WinsPc(p, h, b) ==    \* mutant: a change on the phone alone is overlooked
    CASE PcChanged(p, b) /\ PhoneChanged(h, b) ->
           IF p.mtime >= h.mtime THEN "push" ELSE "pull"
      [] PcChanged(p, b) /\ ~PhoneChanged(h, b) -> "push"
      [] OTHER -> "nothing"

Wins(p, h, b) ==
    CASE PcChanged(p, b) /\ PhoneChanged(h, b) ->
           IF p.mtime >= h.mtime THEN "push" ELSE "pull"
      [] PcChanged(p, b) /\ ~PhoneChanged(h, b) -> "push"
      [] ~PcChanged(p, b) /\ PhoneChanged(h, b) -> "pull"
      [] OTHER -> "nothing"

ReconcileInverted(p, h, b) ==    \* mutant: the test of the baseline is inverted
    CASE p # NoFile /\ h # NoFile -> Wins(p, h, b)
      [] p # NoFile /\ h = NoFile -> IF b = NoFile THEN "del_pc" ELSE "push"
      [] p = NoFile /\ h # NoFile -> IF b = NoFile THEN "del_phone" ELSE "pull"
      [] OTHER -> "nothing"

ReconcileEarlier(p, h, b) ==    \* mutant: a removal wins over a change
    CASE p # NoFile /\ h # NoFile -> Wins(p, h, b)
      [] p # NoFile /\ h = NoFile -> IF b # NoFile THEN "del_pc" ELSE "push"
      [] p = NoFile /\ h # NoFile -> IF b # NoFile THEN "del_phone" ELSE "pull"
      [] OTHER -> "nothing"

ReconcileAdd(p, h, b) ==    \* mutant: a removal is never passed on
    CASE p # NoFile /\ h # NoFile -> Wins(p, h, b)
      [] p # NoFile /\ h = NoFile -> "push"
      [] p = NoFile /\ h # NoFile -> "pull"
      [] OTHER -> "nothing"

Reconcile(p, h, b) ==
    CASE p # NoFile /\ h # NoFile -> Wins(p, h, b)
      [] p # NoFile /\ h = NoFile -> IF b # NoFile /\ ~PcChanged(p, b) THEN "del_pc" ELSE "push"
      [] p = NoFile /\ h # NoFile ->
           IF b # NoFile /\ ~PhoneChanged(h, b) THEN "del_phone" ELSE "pull"
      [] OTHER -> "nothing"

-----------------------------------------------------------------------------
(* The users.                                                              *)

\* The steps in which a session relies on what it has read of a place.
Relying(x) ==
    IF x = PC THEN \E h \in Phones : step[h] \notin {"idle", "indexed"}
              ELSE step[x] \notin {"idle", "scanned"}

UserDisturbs(x) ==
    /\ disturbed' = (disturbed \/ Relying(x))
    /\ calm' = {}

UserWrites(x, s) ==
    /\ clock < MaxTime
    /\ clock' = clock + 1
    /\ file' = [file EXCEPT ![x] = [ver |-> clock + 1, size |-> s, mtime |-> clock + 1]]
    /\ seen' = [seen EXCEPT ![x] = @ \cup {clock + 1}]
    /\ UserDisturbs(x)
    /\ UNCHANGED <<base, session, removed, gone>>

\* The baseline knows the file both sides have.
Agreed(h) ==
    /\ file[PC] # NoFile /\ file[h] # NoFile /\ base # NoFile
    /\ file[PC].ver = file[h].ver
    /\ ~PcChanged(Entry(file[PC]), base) /\ ~PhoneChanged(Entry(file[h]), base)

UserRemoves(x) ==
    /\ file[x] # NoFile
    /\ file' = [file EXCEPT ![x] = NoFile]
    /\ removed' = TRUE
    /\ gone' = IF \E h \in Phones : Agreed(h) THEN gone \cup {file[x].ver} ELSE gone
    /\ UserDisturbs(x)
    /\ UNCHANGED <<base, clock, session, seen>>

-----------------------------------------------------------------------------
(* A session, in the order of the conversation.                            *)

\* sync_index: the phone scans and sends.
SendIndex(h) ==
    /\ step[h] = "idle"
    /\ index' = [index EXCEPT ![h] = Entry(file[h])]
    /\ step' = [step EXCEPT ![h] = "indexed"]
    /\ calm' = calm \cup {h}
    /\ UNCHANGED <<file, base, clock, scanned, plan, sent, seen, removed, disturbed, gone>>

\* The PC scans, loads the baseline and reconciles.
MakePlan(h) ==
    /\ step[h] = "indexed"
    /\ scanned' = [scanned EXCEPT ![h] = Entry(file[PC])]
    /\ plan' = [plan EXCEPT ![h] = Reconcile(Entry(file[PC]), index[h], base)]
    /\ step' = [step EXCEPT ![h] = "planned"]
    /\ UNCHANGED <<file, base, clock, index, sent, history>>

\* del_pc is carried out before the plan is sent, push while it is: the data
\* is read now, the time is the one of the scan.
CarryOutOnPc(h) ==
    /\ step[h] = "planned"
    /\ file' = [file EXCEPT ![PC] = IF plan[h] = "del_pc" THEN NoFile ELSE @]
    /\ sent' = [sent EXCEPT ![h] =
                  IF plan[h] = "push" /\ file[PC] # NoFile
                  THEN [file[PC] EXCEPT !.mtime = scanned[h].mtime] ELSE NoFile]
    /\ step' = [step EXCEPT ![h] = "pushed"]
    /\ UNCHANGED <<base, clock, index, scanned, plan, history>>

\* The phone writes what was pushed and removes what was removed.  If
\* setLastModified fails, the file has the time of the write.
CarryOutOnPhone(h) ==
    LET pushed == plan[h] = "push" /\ sent[h] # NoFile IN
    /\ step[h] = "pushed"
    /\ \/ /\ file' = [file EXCEPT ![h] = CASE pushed -> sent[h]
                                          [] plan[h] = "del_phone" -> NoFile
                                          [] OTHER -> @]
          /\ UNCHANGED clock
       \/ /\ pushed /\ clock < MaxTime /\ clock' = clock + 1
          /\ file' = [file EXCEPT ![h] = [sent[h] EXCEPT !.mtime = clock + 1]]
    /\ seen' = [seen EXCEPT ![h] = IF pushed THEN @ \cup {sent[h].ver} ELSE @]
    /\ step' = [step EXCEPT ![h] = "applied"]
    /\ UNCHANGED <<base, index, scanned, plan, sent, removed, disturbed, calm, gone>>

\* The phone sends what is pulled, an empty file if it has it no longer.
SendPulled(h) ==
    /\ step[h] = "applied"
    /\ sent' = [sent EXCEPT ![h] =
                  CASE plan[h] # "pull" -> NoFile
                    [] plan[h] = "pull" /\ file[h] = NoFile -> [ver |-> 0, size |-> 0, mtime |-> 0]
                    [] OTHER -> file[h]]
    /\ step' = [step EXCEPT ![h] = "pulled"]
    /\ UNCHANGED <<file, base, clock, index, scanned, plan, history>>

\* The PC writes it; the file gets the time of the write.
ReceivePulled(h) ==
    /\ step[h] = "pulled" /\ plan[h] = "pull" /\ clock < MaxTime
    /\ clock' = clock + 1
    /\ file' = [file EXCEPT ![PC] = [sent[h] EXCEPT !.mtime = clock + 1]]
    /\ seen' = [seen EXCEPT ![PC] = @ \cup {sent[h].ver}]
    /\ step' = [step EXCEPT ![h] = "received"]
    /\ UNCHANGED <<base, index, scanned, plan, sent, removed, disturbed, calm, gone>>

NothingPulled(h) ==
    /\ step[h] = "pulled" /\ plan[h] # "pull"
    /\ step' = [step EXCEPT ![h] = "received"]
    /\ UNCHANGED <<file, base, clock, index, scanned, plan, sent, history>>

\* sync_index2: the phone scans again.
SendFinalIndex(h) ==
    /\ step[h] = "received"
    /\ index' = [index EXCEPT ![h] = Entry(file[h])]
    /\ step' = [step EXCEPT ![h] = "scanned"]
    /\ UNCHANGED <<file, base, clock, scanned, plan, sent, history>>

\* The new baseline: the size is the PC's, the times are those of both.
NewBase(p, h) ==
    IF p = NoFile \/ h = NoFile THEN NoFile
    ELSE [size |-> p.size, pcTime |-> p.mtime, phoneTime |-> h.mtime]

Ended(h) ==
    /\ step' = [step EXCEPT ![h] = "idle"]
    /\ index' = [index EXCEPT ![h] = NoFile]
    /\ scanned' = [scanned EXCEPT ![h] = NoFile]
    /\ plan' = [plan EXCEPT ![h] = "nothing"]
    /\ sent' = [sent EXCEPT ![h] = NoFile]

\* A save that fails leaves the old baseline or none that load can read.
SaveFails == UNCHANGED <<base, gone>> \/ (base' = NoFile /\ gone' = {})

\* A last scan that leaves the file out loses its entry, too.
Finish(h) ==
    /\ step[h] = "scanned"
    /\ \/ base' = NewBase(Entry(file[PC]), index[h]) /\ UNCHANGED gone
       \/ SaveFails
    /\ Ended(h)
    /\ UNCHANGED <<file, clock, seen, removed, disturbed, calm>>

\* The link is lost or a side dies, perhaps while the PC saves the baseline.
\* A whole file is written or none.
Abort(h) ==
    /\ step[h] # "idle"
    /\ \/ UNCHANGED <<base, gone>>
       \/ step[h] = "scanned" /\ SaveFails
    /\ calm' = calm \ {h}
    /\ Ended(h)
    /\ UNCHANGED <<file, clock, seen, removed, disturbed>>

\* The phone or the PC dies while it writes the file, or the phone's write
\* fails: it was emptied first.
DieWriting(h) ==
    LET x == IF plan[h] = "push" THEN h ELSE PC IN
    /\ \/ step[h] = "pushed" /\ plan[h] = "push" /\ sent[h] # NoFile
       \/ step[h] = "pulled" /\ plan[h] = "pull"
    /\ clock < MaxTime
    /\ clock' = clock + 1
    /\ file' = [file EXCEPT ![x] = [ver |-> 0, size |-> 0, mtime |-> clock + 1]]
    /\ seen' = [seen EXCEPT ![x] = @ \cup {0}]
    /\ disturbed' = TRUE /\ calm' = calm \ {h}
    /\ Ended(h)
    /\ UNCHANGED <<base, removed, gone>>

-----------------------------------------------------------------------------
(* Operations that fail and do not end the session.                        *)

\* listFiles, or read_dir on the PC, fails: the scan leaves the file out, and
\* to reconcile it has been removed.
MissedOnPhone(h) ==
    /\ step[h] = "idle" /\ file[h] # NoFile
    /\ step' = [step EXCEPT ![h] = "indexed"]
    /\ removed' = TRUE
    /\ UNCHANGED <<file, clock, index, scanned, plan, sent, seen>>

MissedOnPc(h) ==
    /\ step[h] = "indexed" /\ file[PC] # NoFile
    /\ plan' = [plan EXCEPT ![h] = Reconcile(NoFile, index[h], base)]
    /\ step' = [step EXCEPT ![h] = "planned"]
    /\ removed' = TRUE
    /\ UNCHANGED <<file, clock, index, scanned, sent, seen>>

\* remove_file fails, or the file that is to be pushed cannot be opened.
FailsOnPc(h) ==
    /\ step[h] = "planned" /\ plan[h] \in {"del_pc", "push"}
    /\ step' = [step EXCEPT ![h] = "pushed"]
    /\ UNCHANGED <<file, clock, index, scanned, plan, sent, seen, removed>>

\* delete fails.
FailsOnPhone(h) ==
    /\ step[h] = "pushed" /\ plan[h] = "del_phone"
    /\ step' = [step EXCEPT ![h] = "applied"]
    /\ UNCHANGED <<file, clock, index, scanned, plan, sent, seen, removed>>

\* write fails, before or after the file is emptied.
FailsToWrite(h) ==
    /\ step[h] = "pulled" /\ plan[h] = "pull"
    /\ \/ UNCHANGED <<file, clock, seen>>
       \/ /\ clock < MaxTime /\ clock' = clock + 1
          /\ file' = [file EXCEPT ![PC] = [ver |-> 0, size |-> 0, mtime |-> clock + 1]]
          /\ seen' = [seen EXCEPT ![PC] = @ \cup {0}]
    /\ step' = [step EXCEPT ![h] = "received"]
    /\ UNCHANGED <<index, scanned, plan, sent, removed>>

Fails(h) ==
    /\ \/ MissedOnPhone(h) \/ MissedOnPc(h)
       \/ FailsOnPc(h) \/ FailsOnPhone(h) \/ FailsToWrite(h)
    /\ disturbed' = TRUE
    /\ UNCHANGED <<base, calm, gone>>

-----------------------------------------------------------------------------
UserStep == \E x \in Places : UserRemoves(x) \/ \E s \in Sizes : UserWrites(x, s)

SyncStep(h) ==
    \/ SendIndex(h) \/ MakePlan(h) \/ CarryOutOnPc(h) \/ CarryOutOnPhone(h)
    \/ SendPulled(h) \/ ReceivePulled(h) \/ NothingPulled(h)
    \/ SendFinalIndex(h) \/ Finish(h) \/ Abort(h)

Next == UserStep \/ \E h \in Phones : SyncStep(h) \/ DieWriting(h) \/ Fails(h)

Spec == Init /\ [][Next]_vars

-----------------------------------------------------------------------------
(* Properties.                                                             *)

\* x's file v may give way to w (or to a removal) in a session with y if y has
\* seen v, or if w was written by a user later than v.
MayGiveWay(x, y, w) ==
    \/ file[x] = NoFile
    \/ file[x].ver \in seen[y]
    \/ w # NoFile /\ w.ver > file[x].ver

Respects(h) ==
    /\ file'[PC] # file[PC] => MayGiveWay(PC, h, file'[PC])
    /\ file'[h] # file[h] => MayGiveWay(h, PC, file'[h])

\* A version that a session takes away was known on the other side or gives way
\* to a later one, as long as users keep out of the windows of Relying, nobody
\* dies while writing and no operation on the file fails; however else sessions
\* are cut short, whatever is edited or removed between them.
UndisturbedEditsSurvive ==
    [][~disturbed => \A h \in Phones : SyncStep(h) => Respects(h)]_vars

\* A session that runs to its end leaves the same version, or none, on both,
\* with the same exceptions: one that has gone on after a failed write, removal
\* or open saves a baseline that takes two different files for the same.
SessionsConverge ==
    ~disturbed => \A h \in calm : step[h] = "idle" =>
        \/ file[PC] = NoFile /\ file[h] = NoFile
        \/ file[PC] # NoFile /\ file[h] # NoFile /\ file[PC].ver = file[h].ver

\* What a user removed on one side, when both sides agreed on it, is not put
\* back by a session, unless the baseline is lost, with the same exceptions.
RemovalsStick ==
    [][~disturbed => \A x \in Places :
         file'[x] # file[x] /\ file'[x] # NoFile => file'[x].ver \notin gone]_vars

\* Sessions remove a file only after some user has, or after a scan could not
\* see it.
OnlyUsersRemove ==
    [][\A x \in Places : file[x] # NoFile /\ file'[x] = NoFile => removed']_vars

\* The folder as its users see it: versions on two sides.
Version(f) == IF f = NoFile THEN 0 ELSE f.ver
Versions   == [x \in Places |-> Version(file[x])]

Copies == INSTANCE TwoCopies WITH Sides <- Places, copy <- Versions,
                                  seen <- seen, removed <- removed
=============================================================================
