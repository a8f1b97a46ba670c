-------------------------- MODULE FolderSyncProofs ---------------------------
(***************************************************************************)
(* Proofs about FolderSync for a folder that one phone shares with the PC, *)
(* for any sizes and any number of writes.  With two phones the first of   *)
(* them is refuted (FolderSync_phones.cfg).                                *)
(***************************************************************************)
EXTENDS FolderSync, TLAPS

FileSet  == [ver : Nat, size : Nat, mtime : Nat]
EntrySet == [size : Nat, mtime : Nat]
BaseSet  == [size : Nat, pcTime : Nat, phoneTime : Nat]

LEMMA NoFileIsNone == NoFile \notin FileSet /\ NoFile \notin EntrySet /\ NoFile \notin BaseSet
BY NoFileAssumption DEF FileSet, EntrySet, BaseSet

-----------------------------------------------------------------------------
(* The plan for a path.                                                    *)

Plans == {"push", "pull", "del_pc", "del_phone", "nothing"}

(* What each plan means: nobody's file is removed or replaced that differs *)
(* from the baseline, unless the other one differs too and is not older;   *)
(* nothing is done only when both are as the baseline has them (sync.rs,   *)
(* reconcile).                                                             *)
LEMMA ReconcileSays ==
    ASSUME NEW p, NEW q, NEW b, NEW do, do = Reconcile(p, q, b)
    PROVE  /\ do \in Plans
           /\ do = "del_pc" => p # NoFile /\ q = NoFile /\ b # NoFile /\ ~PcChanged(p, b)
           /\ do = "del_phone" => p = NoFile /\ q # NoFile /\ b # NoFile /\ ~PhoneChanged(q, b)
           /\ do = "push" =>
                /\ p # NoFile /\ (b # NoFile => PcChanged(p, b))
                /\ q # NoFile => PcChanged(p, b) /\ (PhoneChanged(q, b) => p.mtime >= q.mtime)
           /\ do = "pull" =>
                /\ q # NoFile /\ (b # NoFile => PhoneChanged(q, b))
                /\ p # NoFile => PhoneChanged(q, b) /\ (PcChanged(p, b) => ~(p.mtime >= q.mtime))
           /\ do = "nothing" =>
                \/ p = NoFile /\ q = NoFile
                \/ p # NoFile /\ q # NoFile /\ ~PcChanged(p, b) /\ ~PhoneChanged(q, b)
<1> DEFINE pc == PcChanged(p, b)
           ph == PhoneChanged(q, b)
           later == p.mtime >= q.mtime
<1>1. CASE p # NoFile /\ q # NoFile
  <2>1. /\ do = "push" => pc /\ (ph => later)
        /\ do = "pull" => ph /\ (pc => ~later)
        /\ do = "nothing" => ~pc /\ ~ph
        /\ do \in {"push", "pull", "nothing"}
      BY <1>1, Zenon DEF Reconcile, Wins
  <2> QED
      BY <1>1, <2>1 DEF Plans
<1>2. CASE p # NoFile /\ q = NoFile
    BY <1>2 DEF Reconcile, Plans
<1>3. CASE p = NoFile /\ q # NoFile
    BY <1>3 DEF Reconcile, Plans
<1>4. CASE p = NoFile /\ q = NoFile
    BY <1>4 DEF Reconcile, Plans
<1> QED
    BY <1>1, <1>2, <1>3, <1>4

(* The entry of a file tells whether there is one, its size and its time.  *)
LEMMA EntryTells ==
    ASSUME NEW f \in FileSet \cup {NoFile}
    PROVE  /\ Entry(f) \in EntrySet \cup {NoFile}
           /\ Entry(f) = NoFile <=> f = NoFile
           /\ f # NoFile => Entry(f).size = f.size /\ Entry(f).mtime = f.mtime
<1>1. CASE f = NoFile
    BY <1>1 DEF Entry
<1>2. CASE f # NoFile
  <2>1. f.size \in Nat /\ f.mtime \in Nat
      BY <1>2 DEF FileSet
  <2>2. Entry(f) = [size |-> f.size, mtime |-> f.mtime]
      BY <1>2 DEF Entry
  <2>3. Entry(f) \in EntrySet
      BY <2>1, <2>2 DEF EntrySet
  <2> QED
      BY <1>2, <2>2, <2>3, NoFileIsNone
<1> QED
    BY <1>1, <1>2

(* What is as the baseline has it.                                         *)
LEMMA UnchangedMeans ==
    ASSUME NEW f \in FileSet, NEW b \in BaseSet \cup {NoFile}
    PROVE  /\ ~PcChanged(Entry(f), b) <=> b # NoFile /\ f.size = b.size /\ f.mtime = b.pcTime
           /\ ~PhoneChanged(Entry(f), b) <=> b # NoFile /\ f.size = b.size /\ f.mtime = b.phoneTime
<1>1. Entry(f) # NoFile /\ Entry(f).size = f.size /\ Entry(f).mtime = f.mtime
    BY EntryTells, NoFileIsNone
<1>2. CASE b = NoFile
    BY <1>1, <1>2 DEF PcChanged, PhoneChanged, Changed
<1>3. CASE b # NoFile
    BY <1>1, <1>3 DEF PcChanged, PhoneChanged, Changed
<1> QED
    BY <1>2, <1>3

(* The meaning of a plan for two files and their baseline.                 *)
LEMMA PlanSays ==
    ASSUME NEW p \in FileSet \cup {NoFile}, NEW q \in FileSet \cup {NoFile},
           NEW b \in BaseSet \cup {NoFile}, NEW do, do = Reconcile(Entry(p), Entry(q), b)
    PROVE  /\ do \in Plans
           /\ do = "del_pc" => p # NoFile /\ q = NoFile /\ b # NoFile /\ p.mtime = b.pcTime
           /\ do = "del_phone" => p = NoFile /\ q # NoFile /\ b # NoFile /\ q.mtime = b.phoneTime
           /\ do = "push" =>
                /\ p # NoFile /\ (b # NoFile => PcChanged(Entry(p), b))
                /\ q # NoFile => q.mtime <= p.mtime \/ (b # NoFile /\ q.mtime = b.phoneTime)
           /\ do = "pull" =>
                /\ q # NoFile /\ (b # NoFile => PhoneChanged(Entry(q), b))
                /\ p # NoFile => p.mtime < q.mtime \/ (b # NoFile /\ p.mtime = b.pcTime)
           /\ do = "nothing" =>
                \/ p = NoFile /\ q = NoFile
                \/ /\ p # NoFile /\ q # NoFile /\ b # NoFile
                   /\ p.mtime = b.pcTime /\ q.mtime = b.phoneTime
<1>1. /\ Entry(p) = NoFile <=> p = NoFile
      /\ Entry(q) = NoFile <=> q = NoFile
      /\ p # NoFile => Entry(p).mtime = p.mtime
      /\ q # NoFile => Entry(q).mtime = q.mtime
    BY EntryTells
<1>2. p # NoFile => (~PcChanged(Entry(p), b) => b # NoFile /\ p.mtime = b.pcTime)
    BY UnchangedMeans
<1>3. q # NoFile => (~PhoneChanged(Entry(q), b) => b # NoFile /\ q.mtime = b.phoneTime)
    BY UnchangedMeans
<1>4. p # NoFile => p.mtime \in Nat
    BY DEF FileSet
<1>5. q # NoFile => q.mtime \in Nat
    BY DEF FileSet
<1>6. do \in Plans
    BY ReconcileSays
<1>7. do = "del_pc" => p # NoFile /\ q = NoFile /\ b # NoFile /\ p.mtime = b.pcTime
    BY <1>1, <1>2, ReconcileSays
<1>8. do = "del_phone" => p = NoFile /\ q # NoFile /\ b # NoFile /\ q.mtime = b.phoneTime
    BY <1>1, <1>3, ReconcileSays
<1>9. do = "push" =>
        /\ p # NoFile /\ (b # NoFile => PcChanged(Entry(p), b))
        /\ q # NoFile => q.mtime <= p.mtime \/ (b # NoFile /\ q.mtime = b.phoneTime)
  <2>1. do = "push" =>
          /\ p # NoFile /\ (b # NoFile => PcChanged(Entry(p), b))
          /\ q # NoFile => (PhoneChanged(Entry(q), b) => Entry(p).mtime >= Entry(q).mtime)
      BY <1>1, ReconcileSays
  <2> QED
      BY <1>1, <1>3, <1>4, <1>5, <2>1
<1>10. do = "pull" =>
        /\ q # NoFile /\ (b # NoFile => PhoneChanged(Entry(q), b))
        /\ p # NoFile => p.mtime < q.mtime \/ (b # NoFile /\ p.mtime = b.pcTime)
  <2>1. do = "pull" =>
          /\ q # NoFile /\ (b # NoFile => PhoneChanged(Entry(q), b))
          /\ p # NoFile => (PcChanged(Entry(p), b) => ~(Entry(p).mtime >= Entry(q).mtime))
      BY <1>1, ReconcileSays
  <2> QED
      BY <1>1, <1>2, <1>4, <1>5, <2>1
<1>11. do = "nothing" =>
        \/ p = NoFile /\ q = NoFile
        \/ /\ p # NoFile /\ q # NoFile /\ b # NoFile
           /\ p.mtime = b.pcTime /\ q.mtime = b.phoneTime
  <2>1. do = "nothing" =>
          \/ Entry(p) = NoFile /\ Entry(q) = NoFile
          \/ /\ Entry(p) # NoFile /\ Entry(q) # NoFile
             /\ ~PcChanged(Entry(p), b) /\ ~PhoneChanged(Entry(q), b)
      BY ReconcileSays
  <2> QED
      BY <1>1, <1>2, <1>3, <2>1
<1> QED
    BY <1>6, <1>7, <1>8, <1>9, <1>10, <1>11

-----------------------------------------------------------------------------
(* The types, and that what a session needs to write is there.             *)

Steps == {"idle", "indexed", "planned", "pushed", "applied", "pulled", "received", "scanned"}

StateTyped ==
    /\ file \in [Places -> FileSet \cup {NoFile}]
    /\ base \in BaseSet \cup {NoFile}
    /\ clock \in Nat

SessionTyped ==
    /\ step \in [Phones -> Steps]
    /\ index \in [Phones -> EntrySet \cup {NoFile}]
    /\ scanned \in [Phones -> EntrySet \cup {NoFile}]
    /\ plan \in [Phones -> Plans]
    /\ sent \in [Phones -> FileSet \cup {NoFile}]

HistoryTyped ==
    /\ seen \in [Places -> SUBSET Nat]
    /\ removed \in BOOLEAN /\ disturbed \in BOOLEAN
    /\ calm \subseteq Phones /\ gone \subseteq Nat

HasItsFile(h) ==
    /\ step[h] = "planned" /\ plan[h] = "push" => scanned[h] # NoFile
    /\ step[h] = "pulled" /\ plan[h] = "pull" => sent[h] # NoFile

Typed ==
    /\ StateTyped /\ SessionTyped /\ HistoryTyped
    /\ \A h \in Phones : HasItsFile(h)

(* A file with another time is a file.                                     *)
LEMMA Retimed ==
    ASSUME NEW f \in FileSet, NEW t \in Nat
    PROVE  /\ [f EXCEPT !.mtime = t] \in FileSet
           /\ [f EXCEPT !.mtime = t].ver = f.ver
           /\ [f EXCEPT !.mtime = t].size = f.size
           /\ [f EXCEPT !.mtime = t].mtime = t
BY DEF FileSet

LEMMA EndedTyped ==
    ASSUME Typed, NEW h \in Phones, Ended(h), StateTyped', HistoryTyped'
    PROVE  Typed'
<1>1. SessionTyped'
    BY DEF Typed, SessionTyped, Ended, Steps, Plans
<1>2. \A g \in Phones : HasItsFile(g)'
    BY DEF Typed, SessionTyped, Ended, HasItsFile
<1> QED
    BY <1>1, <1>2 DEF Typed

LEMMA TypedUser ==
    ASSUME Typed, UserStep PROVE Typed'
<1>1. \A h \in Phones : HasItsFile(h)' <=> HasItsFile(h)
    BY DEF UserStep, UserWrites, UserRemoves, session, HasItsFile
<1>2. SessionTyped'
    BY DEF Typed, SessionTyped, UserStep, UserWrites, UserRemoves, session
<1>3. ASSUME NEW x \in Places, NEW s \in Sizes, UserWrites(x, s)
      PROVE  StateTyped' /\ HistoryTyped'
  <2>1. clock + 1 \in Nat /\ s \in Nat
      BY SizesAssumption DEF Typed, StateTyped
  <2>2. [ver |-> clock + 1, size |-> s, mtime |-> clock + 1] \in FileSet
      BY <2>1 DEF FileSet
  <2>3. StateTyped'
      BY <1>3, <2>1, <2>2 DEF Typed, StateTyped, UserWrites
  <2>4. HistoryTyped'
      BY <1>3, <2>1 DEF Typed, HistoryTyped, UserWrites, UserDisturbs
  <2> QED
      BY <2>3, <2>4
<1>4. ASSUME NEW x \in Places, UserRemoves(x)
      PROVE  StateTyped' /\ HistoryTyped'
  <2>1. StateTyped'
      BY <1>4 DEF Typed, StateTyped, UserRemoves
  <2>2. file[x].ver \in Nat
      BY <1>4 DEF Typed, StateTyped, UserRemoves, FileSet
  <2>3. HistoryTyped'
      BY <1>4, <2>2 DEF Typed, HistoryTyped, UserRemoves, UserDisturbs
  <2> QED
      BY <2>1, <2>3
<1> QED
    BY <1>1, <1>2, <1>3, <1>4 DEF UserStep, Typed

LEMMA TypedSync ==
    ASSUME Typed, NEW h \in Phones, SyncStep(h) \/ DieWriting(h) \/ Fails(h) PROVE Typed'
<1>1. PC \in Places /\ h \in Places /\ clock \in Nat
    BY DEF Places, Typed, StateTyped
<1>2. /\ file[PC] \in FileSet \cup {NoFile} /\ file[h] \in FileSet \cup {NoFile}
      /\ sent[h] \in FileSet \cup {NoFile} /\ scanned[h] \in EntrySet \cup {NoFile}
    BY <1>1 DEF Typed, StateTyped, SessionTyped
<1>3. Entry(file[PC]) \in EntrySet \cup {NoFile} /\ Entry(file[h]) \in EntrySet \cup {NoFile}
    BY <1>2, EntryTells
<1>4. CASE SendIndex(h)
    BY <1>3, <1>4 DEF SendIndex, Typed, StateTyped, SessionTyped, HistoryTyped, HasItsFile, Steps
<1>5. CASE MakePlan(h)
  <2>1. PICK do : do = Reconcile(Entry(file[PC]), index[h], base)
      OBVIOUS
  <2>2. do \in Plans /\ (do = "push" => Entry(file[PC]) # NoFile)
      BY <2>1, ReconcileSays
  <2>3. plan' = [plan EXCEPT ![h] = do]
      BY <1>5, <2>1 DEF MakePlan
  <2> QED
      BY <1>3, <1>5, <2>2, <2>3
         DEF MakePlan, Typed, StateTyped, SessionTyped, HistoryTyped, HasItsFile, Steps, history
<1>6. CASE CarryOutOnPc(h)
  <2>1. PICK f : f = IF plan[h] = "push" /\ file[PC] # NoFile
                     THEN [file[PC] EXCEPT !.mtime = scanned[h].mtime] ELSE NoFile
      OBVIOUS
  <2>2. plan[h] = "push" => scanned[h].mtime \in Nat
      BY <1>2, <1>6 DEF CarryOutOnPc, Typed, HasItsFile, EntrySet
  <2>3. f \in FileSet \cup {NoFile}
      BY <1>2, <2>1, <2>2, Retimed
  <2>4. sent' = [sent EXCEPT ![h] = f]
      BY <1>6, <2>1 DEF CarryOutOnPc
  <2> QED
      BY <1>6, <2>3, <2>4, ZenonT(30)
         DEF CarryOutOnPc, Typed, StateTyped, SessionTyped, HistoryTyped, HasItsFile, Steps, history
<1>7. CASE CarryOutOnPhone(h)
  <2>1. StateTyped'
    <3>1. sent[h] # NoFile => [sent[h] EXCEPT !.mtime = clock + 1] \in FileSet
        BY <1>1, <1>2, Retimed
    <3> QED
        BY <1>2, <1>7, <3>1 DEF CarryOutOnPhone, Typed, StateTyped
  <2>2. plan[h] = "push" /\ sent[h] # NoFile => sent[h].ver \in Nat
      BY <1>2 DEF FileSet
  <2>3. HistoryTyped'
      BY <1>1, <1>7, <2>2 DEF CarryOutOnPhone, Typed, HistoryTyped
  <2>4. SessionTyped' /\ \A g \in Phones : HasItsFile(g)'
      BY <1>7 DEF CarryOutOnPhone, Typed, SessionTyped, HasItsFile, Steps
  <2> QED
      BY <2>1, <2>3, <2>4 DEF Typed
<1>8. CASE SendPulled(h)
  <2>1. PICK f : f = CASE plan[h] # "pull" -> NoFile
                       [] plan[h] = "pull" /\ file[h] = NoFile ->
                            [ver |-> 0, size |-> 0, mtime |-> 0]
                       [] OTHER -> file[h]
      OBVIOUS
  <2>2. [ver |-> 0, size |-> 0, mtime |-> 0] \in FileSet
      BY DEF FileSet
  <2>3. f \in FileSet \cup {NoFile} /\ (plan[h] = "pull" => f # NoFile)
      BY <1>2, <2>1, <2>2, NoFileIsNone
  <2>4. sent' = [sent EXCEPT ![h] = f]
      BY <1>8, <2>1 DEF SendPulled
  <2> QED
      BY <1>8, <2>3, <2>4
         DEF SendPulled, Typed, StateTyped, SessionTyped, HistoryTyped, HasItsFile, Steps, history
<1>9. CASE ReceivePulled(h)
  <2>1. sent[h] \in FileSet /\ clock + 1 \in Nat
      BY <1>1, <1>2, <1>9 DEF ReceivePulled, Typed, HasItsFile
  <2>2. [sent[h] EXCEPT !.mtime = clock + 1] \in FileSet /\ sent[h].ver \in Nat
      BY <2>1, Retimed DEF FileSet
  <2>3. StateTyped'
      BY <1>9, <2>1, <2>2 DEF ReceivePulled, Typed, StateTyped
  <2>4. HistoryTyped'
      BY <1>1, <1>9, <2>2 DEF ReceivePulled, Typed, HistoryTyped
  <2>5. SessionTyped' /\ \A g \in Phones : HasItsFile(g)'
      BY <1>9 DEF ReceivePulled, Typed, SessionTyped, HasItsFile, Steps
  <2> QED
      BY <2>3, <2>4, <2>5 DEF Typed
<1>10. CASE NothingPulled(h)
    BY <1>10 DEF NothingPulled, Typed, StateTyped, SessionTyped, HistoryTyped, HasItsFile, Steps, history
<1>11. CASE SendFinalIndex(h)
    BY <1>3, <1>11
       DEF SendFinalIndex, Typed, StateTyped, SessionTyped, HistoryTyped, HasItsFile, Steps, history
<1>12. CASE Finish(h)
  <2>1. index[h] \in EntrySet \cup {NoFile}
      BY DEF Typed, SessionTyped
  <2>2. NewBase(Entry(file[PC]), index[h]) \in BaseSet \cup {NoFile}
      BY <1>3, <2>1 DEF NewBase, EntrySet, BaseSet
  <2>3. StateTyped' /\ HistoryTyped' /\ Ended(h)
      BY <1>12, <2>2 DEF Finish, SaveFails, Typed, StateTyped, HistoryTyped
  <2> QED
      BY <2>3, EndedTyped
<1>13. CASE Abort(h)
  <2>1. StateTyped' /\ HistoryTyped' /\ Ended(h)
      BY <1>13 DEF Abort, SaveFails, Typed, StateTyped, HistoryTyped
  <2> QED
      BY <2>1, EndedTyped
<1>14. CASE DieWriting(h)
  <2>1. PICK x \in Places : /\ file' = [file EXCEPT ![x] = [ver |-> 0, size |-> 0, mtime |-> clock + 1]]
                            /\ seen' = [seen EXCEPT ![x] = @ \cup {0}]
      BY <1>1, <1>14 DEF DieWriting
  <2>2. [ver |-> 0, size |-> 0, mtime |-> clock + 1] \in FileSet /\ clock + 1 \in Nat
      BY <1>1 DEF FileSet
  <2>3. /\ clock' = clock + 1 /\ base' = base /\ gone' = gone /\ removed' = removed
        /\ disturbed' = TRUE /\ calm' \subseteq calm /\ Ended(h)
      BY <1>14 DEF DieWriting
  <2>4. StateTyped'
      BY <2>1, <2>2, <2>3 DEF Typed, StateTyped
  <2>5. seen' \in [Places -> SUBSET Nat]
      BY <2>1 DEF Typed, HistoryTyped
  <2>6. HistoryTyped'
      BY <2>3, <2>5 DEF Typed, HistoryTyped
  <2> QED
      BY <2>3, <2>4, <2>6, EndedTyped
<1>15. CASE Fails(h)
  <2>1. disturbed' = TRUE /\ UNCHANGED <<base, calm, gone>> /\ removed' \in BOOLEAN
      BY <1>15 DEF Fails, MissedOnPhone, MissedOnPc, FailsOnPc, FailsOnPhone, FailsToWrite,
                   Typed, HistoryTyped
  <2>2. CASE ~FailsToWrite(h)
    <3>1. UNCHANGED <<file, clock, seen, index, scanned, sent>>
        BY <1>15, <2>2 DEF Fails, MissedOnPhone, MissedOnPc, FailsOnPc, FailsOnPhone
    <3>2. step' \in [Phones -> Steps]
        BY <1>15, <2>2 DEF Fails, MissedOnPhone, MissedOnPc, FailsOnPc, FailsOnPhone,
                           Typed, SessionTyped, Steps
    <3>3. Reconcile(NoFile, index[h], base) \in Plans \ {"push"}
        BY ReconcileSays DEF Plans
    <3>4. plan' \in [Phones -> Plans] /\ \A g \in Phones : HasItsFile(g)'
      <4>1. CASE MissedOnPc(h)
        <5>1. PICK do : do = Reconcile(NoFile, index[h], base)
            OBVIOUS
        <5>2. plan' = [plan EXCEPT ![h] = do] /\ step' = [step EXCEPT ![h] = "planned"]
            BY <4>1, <5>1 DEF MissedOnPc
        <5> QED
            BY <3>1, <3>3, <5>1, <5>2 DEF Typed, SessionTyped, HasItsFile, Plans
      <4>2. CASE MissedOnPhone(h) \/ FailsOnPc(h) \/ FailsOnPhone(h)
          BY <4>2 DEF MissedOnPhone, FailsOnPc, FailsOnPhone, Typed, SessionTyped, HasItsFile
      <4> QED
          BY <1>15, <2>2, <4>1, <4>2 DEF Fails
    <3> QED
        BY <2>1, <3>1, <3>2, <3>4 DEF Typed, StateTyped, SessionTyped, HistoryTyped
  <2>3. CASE FailsToWrite(h)
    <3>1. [ver |-> 0, size |-> 0, mtime |-> clock + 1] \in FileSet /\ clock + 1 \in Nat
        BY <1>1 DEF FileSet
    <3>2. StateTyped'
        BY <1>1, <2>1, <2>3, <3>1 DEF FailsToWrite, Typed, StateTyped
    <3>3. HistoryTyped'
        BY <1>1, <2>1, <2>3 DEF FailsToWrite, Typed, HistoryTyped
    <3>4. SessionTyped' /\ \A g \in Phones : HasItsFile(g)'
        BY <2>3 DEF FailsToWrite, Typed, SessionTyped, HasItsFile, Steps
    <3> QED
        BY <3>2, <3>3, <3>4 DEF Typed
  <2> QED
      BY <2>2, <2>3
<1> QED
    BY <1>4, <1>5, <1>6, <1>7, <1>8, <1>9, <1>10, <1>11, <1>12, <1>13, <1>14, <1>15 DEF SyncStep

LEMMA TypedStep == Typed /\ [Next]_vars => Typed'
<1> SUFFICES ASSUME Typed, [Next]_vars PROVE Typed'
    OBVIOUS
<1>1. CASE UserStep
    BY <1>1, TypedUser
<1>2. ASSUME NEW h \in Phones, SyncStep(h) \/ DieWriting(h) \/ Fails(h) PROVE Typed'
    BY <1>2, TypedSync
<1>3. CASE UNCHANGED vars
    BY <1>3 DEF vars, session, history, Typed, StateTyped, SessionTyped, HistoryTyped, HasItsFile
<1> QED
    BY <1>1, <1>2, <1>3 DEF Next

(* The types, for any number of phones.                                    *)
THEOREM TypeCorrect == Spec => []Typed
<1>1. Init => Typed
  <2> SUFFICES ASSUME Init PROVE Typed
      OBVIOUS
  <2>1. StateTyped
      BY DEF Init, StateTyped
  <2>2. SessionTyped /\ \A h \in Phones : HasItsFile(h)
      BY DEF Init, SessionTyped, HasItsFile, Steps, Plans
  <2>3. HistoryTyped
      BY DEF Init, HistoryTyped
  <2> QED
      BY <2>1, <2>2, <2>3 DEF Typed
<1> QED
    BY <1>1, TypedStep, PTL DEF Spec

-----------------------------------------------------------------------------
(* A folder with one phone: its two files, and where their session is.     *)

OnePhone == \E h : Phones = {h}

Phone == CHOOSE h \in Phones : TRUE

OnPc      == file[PC]
OnPhone   == file[Phone]
SeenPc    == seen[PC]
SeenPhone == seen[Phone]
At        == step[Phone]
Doing     == plan[Phone]
Index     == index[Phone]
Scanned   == scanned[Phone]
Sent      == sent[Phone]

files == <<OnPc, OnPhone>>
views == <<SeenPc, SeenPhone>>

LEMMA ThePhone ==
    ASSUME OnePhone
    PROVE  /\ Phones = {Phone} /\ Places = {PC, Phone}
           /\ Phone \in Phones /\ Phone \in Places /\ PC \in Places /\ Phone # PC
BY PlacesAssumption DEF OnePhone, Phone, Places

LEMMA OneTyped ==
    ASSUME OnePhone, Typed
    PROVE  /\ OnPc \in FileSet \cup {NoFile} /\ OnPhone \in FileSet \cup {NoFile}
           /\ Sent \in FileSet \cup {NoFile}
           /\ Index \in EntrySet \cup {NoFile} /\ Scanned \in EntrySet \cup {NoFile}
           /\ base \in BaseSet \cup {NoFile} /\ clock \in Nat
           /\ At \in Steps /\ Doing \in Plans
           /\ SeenPc \in SUBSET Nat /\ SeenPhone \in SUBSET Nat /\ gone \in SUBSET Nat
           /\ At = "pulled" /\ Doing = "pull" => Sent # NoFile
           /\ At = "planned" /\ Doing = "push" => Scanned # NoFile
BY ThePhone DEF Typed, StateTyped, SessionTyped, HistoryTyped, HasItsFile,
                OnPc, OnPhone, Sent, Index, Scanned, At, Doing, SeenPc, SeenPhone

(* What each step does to the two files and their session.                 *)
LEMMA DoesSendIndex ==
    ASSUME OnePhone, Typed, SendIndex(Phone)
    PROVE  /\ At = "idle" /\ At' = "indexed" /\ Index' = Entry(OnPhone)
           /\ calm' = calm \cup {Phone}
           /\ UNCHANGED <<files, views, base, clock, Doing, Scanned, Sent, removed, disturbed, gone>>
BY ThePhone DEF SendIndex, Typed, StateTyped, SessionTyped, HistoryTyped, files, views,
                OnPc, OnPhone, Sent, Index, Scanned, At, Doing, SeenPc, SeenPhone

LEMMA DoesMakePlan ==
    ASSUME OnePhone, Typed, MakePlan(Phone)
    PROVE  /\ At = "indexed" /\ At' = "planned" /\ Scanned' = Entry(OnPc)
           /\ Doing' = Reconcile(Entry(OnPc), Index, base)
           /\ UNCHANGED <<files, views, base, clock, Index, Sent, removed, disturbed, calm, gone>>
<1>1. PICK do : do = Reconcile(Entry(OnPc), Index, base)
    OBVIOUS
<1>2. plan' = [plan EXCEPT ![Phone] = do]
    BY <1>1 DEF MakePlan, OnPc, Index
<1> QED
    BY <1>1, <1>2, ThePhone
       DEF MakePlan, Typed, StateTyped, SessionTyped, HistoryTyped, files, views, history,
           OnPc, OnPhone, Sent, Index, Scanned, At, Doing, SeenPc, SeenPhone

LEMMA DoesCarryOutOnPc ==
    ASSUME OnePhone, Typed, CarryOutOnPc(Phone)
    PROVE  /\ At = "planned" /\ At' = "pushed"
           /\ OnPc' = (IF Doing = "del_pc" THEN NoFile ELSE OnPc) /\ OnPhone' = OnPhone
           /\ Sent' = IF Doing = "push" /\ OnPc # NoFile
                      THEN [OnPc EXCEPT !.mtime = Scanned.mtime] ELSE NoFile
           /\ UNCHANGED <<views, base, clock, Index, Scanned, Doing, removed, disturbed, calm, gone>>
BY ThePhone DEF CarryOutOnPc, Typed, StateTyped, SessionTyped, HistoryTyped, views, history,
                OnPc, OnPhone, Sent, Index, Scanned, At, Doing, SeenPc, SeenPhone

LEMMA DoesCarryOutOnPhone ==
    ASSUME OnePhone, Typed, CarryOutOnPhone(Phone)
    PROVE  /\ At = "pushed" /\ At' = "applied" /\ OnPc' = OnPc
           /\ \/ /\ Doing = "push" /\ Sent # NoFile /\ SeenPhone' = SeenPhone \cup {Sent.ver}
                 /\ \/ OnPhone' = Sent /\ clock' = clock
                    \/ OnPhone' = [Sent EXCEPT !.mtime = clock + 1] /\ clock' = clock + 1
              \/ /\ Doing = "del_phone" /\ OnPhone' = NoFile
                 /\ SeenPhone' = SeenPhone /\ clock' = clock
              \/ /\ Doing # "del_phone" /\ (Doing = "push" => Sent = NoFile)
                 /\ OnPhone' = OnPhone /\ SeenPhone' = SeenPhone /\ clock' = clock
           /\ UNCHANGED <<SeenPc, base, Index, Scanned, Doing, Sent, removed, disturbed, calm, gone>>
BY ThePhone DEF CarryOutOnPhone, Typed, StateTyped, SessionTyped, HistoryTyped,
                OnPc, OnPhone, Sent, Index, Scanned, At, Doing, SeenPc, SeenPhone

LEMMA DoesSendPulled ==
    ASSUME OnePhone, Typed, SendPulled(Phone)
    PROVE  /\ At = "applied" /\ At' = "pulled"
           /\ Doing = "pull" /\ OnPhone # NoFile => Sent' = OnPhone
           /\ UNCHANGED <<files, views, base, clock, Index, Scanned, Doing, removed, disturbed, calm, gone>>
BY ThePhone DEF SendPulled, Typed, StateTyped, SessionTyped, HistoryTyped, files, views, history,
                OnPc, OnPhone, Sent, Index, Scanned, At, Doing, SeenPc, SeenPhone

LEMMA DoesReceivePulled ==
    ASSUME OnePhone, Typed, ReceivePulled(Phone)
    PROVE  /\ At = "pulled" /\ Doing = "pull" /\ At' = "received"
           /\ clock' = clock + 1 /\ OnPc' = [Sent EXCEPT !.mtime = clock + 1]
           /\ SeenPc' = SeenPc \cup {Sent.ver}
           /\ UNCHANGED <<OnPhone, SeenPhone, base, Index, Scanned, Doing, Sent,
                          removed, disturbed, calm, gone>>
BY ThePhone DEF ReceivePulled, Typed, StateTyped, SessionTyped, HistoryTyped,
                OnPc, OnPhone, Sent, Index, Scanned, At, Doing, SeenPc, SeenPhone

LEMMA DoesNothingPulled ==
    ASSUME OnePhone, Typed, NothingPulled(Phone)
    PROVE  /\ At = "pulled" /\ Doing # "pull" /\ At' = "received"
           /\ UNCHANGED <<files, views, base, clock, Index, Scanned, Doing, Sent,
                          removed, disturbed, calm, gone>>
BY ThePhone DEF NothingPulled, Typed, StateTyped, SessionTyped, HistoryTyped, files, views, history,
                OnPc, OnPhone, Sent, Index, Scanned, At, Doing, SeenPc, SeenPhone

LEMMA DoesSendFinalIndex ==
    ASSUME OnePhone, Typed, SendFinalIndex(Phone)
    PROVE  /\ At = "received" /\ At' = "scanned" /\ Index' = Entry(OnPhone)
           /\ UNCHANGED <<files, views, base, clock, Scanned, Doing, Sent,
                          removed, disturbed, calm, gone>>
BY ThePhone DEF SendFinalIndex, Typed, StateTyped, SessionTyped, HistoryTyped, files, views, history,
                OnPc, OnPhone, Sent, Index, Scanned, At, Doing, SeenPc, SeenPhone

LEMMA DoesFinish ==
    ASSUME OnePhone, Typed, Finish(Phone)
    PROVE  /\ At = "scanned" /\ At' = "idle"
           /\ \/ base' = NewBase(Entry(OnPc), Index) /\ gone' = gone
              \/ base' = base /\ gone' = gone
              \/ base' = NoFile /\ gone' = {}
           /\ UNCHANGED <<files, views, clock, removed, disturbed, calm>>
BY ThePhone DEF Finish, SaveFails, Ended, Typed, StateTyped, SessionTyped, HistoryTyped, files, views,
                OnPc, OnPhone, Index, At, SeenPc, SeenPhone

LEMMA DoesAbort ==
    ASSUME OnePhone, Typed, Abort(Phone)
    PROVE  /\ At' = "idle" /\ calm' = calm \ {Phone}
           /\ (base' = base /\ gone' = gone) \/ (base' = NoFile /\ gone' = {})
           /\ UNCHANGED <<files, views, clock, removed, disturbed>>
BY ThePhone DEF Abort, SaveFails, Ended, Typed, StateTyped, SessionTyped, HistoryTyped, files, views,
                OnPc, OnPhone, At, SeenPc, SeenPhone

LEMMA DoesDieWriting ==
    ASSUME OnePhone, Typed, DieWriting(Phone)
    PROVE  /\ At' = "idle" /\ disturbed' = TRUE /\ base' = base /\ removed' = removed
           /\ OnPc' = OnPc \/ OnPc' = [ver |-> 0, size |-> 0, mtime |-> clock + 1]
           /\ OnPhone' = OnPhone \/ OnPhone' = [ver |-> 0, size |-> 0, mtime |-> clock + 1]
BY ThePhone DEF DieWriting, Ended, Typed, StateTyped, SessionTyped, HistoryTyped, OnPc, OnPhone, At

(* What the users do; a step in a window where the session relies on the   *)
(* file is remembered in disturbed.                                        *)
LEMMA DoesUserWrites ==
    ASSUME OnePhone, Typed, NEW x \in Places, NEW s \in Sizes, UserWrites(x, s)
    PROVE  \E f \in FileSet :
             /\ f.ver = clock + 1 /\ f.mtime = clock + 1 /\ clock' = clock + 1
             /\ \/ /\ OnPc' = f /\ OnPhone' = OnPhone
                   /\ SeenPc' = SeenPc \cup {clock + 1} /\ SeenPhone' = SeenPhone
                   /\ disturbed' = FALSE => At \in {"idle", "indexed"}
                \/ /\ OnPhone' = f /\ OnPc' = OnPc
                   /\ SeenPhone' = SeenPhone \cup {clock + 1} /\ SeenPc' = SeenPc
                   /\ disturbed' = FALSE => At \in {"idle", "scanned"}
             /\ calm' = {} /\ (disturbed' = FALSE => disturbed = FALSE)
             /\ UNCHANGED <<base, At, Doing, Index, Scanned, Sent, removed, gone>>
<1>1. clock \in Nat /\ s \in Nat
    BY SizesAssumption DEF Typed, StateTyped
<1>2. PICK f : f = [ver |-> clock + 1, size |-> s, mtime |-> clock + 1]
    OBVIOUS
<1>3. f \in FileSet /\ f.ver = clock + 1 /\ f.mtime = clock + 1
    BY <1>1, <1>2 DEF FileSet
<1>4. /\ file' = [file EXCEPT ![x] = f] /\ seen' = [seen EXCEPT ![x] = @ \cup {clock + 1}]
      /\ clock' = clock + 1 /\ calm' = {}
      /\ UNCHANGED <<base, At, Doing, Index, Scanned, Sent, removed, gone>>
    BY <1>2 DEF UserWrites, UserDisturbs, session, At, Doing, Index, Scanned, Sent
<1>5. disturbed' = FALSE => disturbed = FALSE /\ ~Relying(x)
    BY DEF UserWrites, UserDisturbs, Typed, HistoryTyped
<1>6. ~Relying(PC) => At \in {"idle", "indexed"}
    BY ThePhone DEF Relying, At
<1>7. ~Relying(Phone) => At \in {"idle", "scanned"}
    BY ThePhone DEF Relying, At
<1>8. CASE x = PC
  <2>1. /\ OnPc' = f /\ OnPhone' = OnPhone
        /\ SeenPc' = SeenPc \cup {clock + 1} /\ SeenPhone' = SeenPhone
      BY <1>4, <1>8, ThePhone
         DEF Typed, StateTyped, HistoryTyped, OnPc, OnPhone, SeenPc, SeenPhone
  <2> QED
      BY <1>3, <1>4, <1>5, <1>6, <1>8, <2>1
<1>9. CASE x = Phone
  <2>1. /\ OnPhone' = f /\ OnPc' = OnPc
        /\ SeenPhone' = SeenPhone \cup {clock + 1} /\ SeenPc' = SeenPc
      BY <1>4, <1>9, ThePhone
         DEF Typed, StateTyped, HistoryTyped, OnPc, OnPhone, SeenPc, SeenPhone
  <2> QED
      BY <1>3, <1>4, <1>5, <1>7, <1>9, <2>1
<1> QED
    BY <1>8, <1>9, ThePhone

LEMMA DoesUserRemoves ==
    ASSUME OnePhone, Typed, NEW x \in Places, UserRemoves(x)
    PROVE  /\ removed' = TRUE /\ calm' = {} /\ (disturbed' = FALSE => disturbed = FALSE)
           /\ \/ /\ OnPc' = NoFile /\ OnPhone' = OnPhone /\ OnPc # NoFile
                 /\ gone' = gone \/ (Agreed(Phone) /\ gone' = gone \cup {OnPc.ver})
                 /\ disturbed' = FALSE => At \in {"idle", "indexed"}
              \/ /\ OnPhone' = NoFile /\ OnPc' = OnPc /\ OnPhone # NoFile
                 /\ gone' = gone \/ (Agreed(Phone) /\ gone' = gone \cup {OnPhone.ver})
                 /\ disturbed' = FALSE => At \in {"idle", "scanned"}
           /\ UNCHANGED <<base, clock, views, At, Doing, Index, Scanned, Sent>>
<1>1. /\ file' = [file EXCEPT ![x] = NoFile] /\ file[x] # NoFile
      /\ gone' = gone \/ (Agreed(Phone) /\ gone' = gone \cup {file[x].ver})
      /\ removed' = TRUE /\ calm' = {}
      /\ UNCHANGED <<base, clock, views, At, Doing, Index, Scanned, Sent>>
    BY ThePhone DEF UserRemoves, UserDisturbs, session, views, SeenPc, SeenPhone,
                    At, Doing, Index, Scanned, Sent
<1>2. disturbed' = FALSE => disturbed = FALSE /\ ~Relying(x)
    BY DEF UserRemoves, UserDisturbs, Typed, HistoryTyped
<1>3. ~Relying(PC) => At \in {"idle", "indexed"}
    BY ThePhone DEF Relying, At
<1>4. ~Relying(Phone) => At \in {"idle", "scanned"}
    BY ThePhone DEF Relying, At
<1>5. CASE x = PC
  <2>1. OnPc' = NoFile /\ OnPhone' = OnPhone /\ OnPc # NoFile
      BY <1>1, <1>5, ThePhone DEF Typed, StateTyped, OnPc, OnPhone
  <2> QED
      BY <1>1, <1>2, <1>3, <1>5, <2>1 DEF OnPc
<1>6. CASE x = Phone
  <2>1. OnPhone' = NoFile /\ OnPc' = OnPc /\ OnPhone # NoFile
      BY <1>1, <1>6, ThePhone DEF Typed, StateTyped, OnPc, OnPhone
  <2> QED
      BY <1>1, <1>2, <1>4, <1>6, <2>1 DEF OnPhone
<1> QED
    BY <1>5, <1>6, ThePhone

LEMMA DoesFails ==
    ASSUME OnePhone, Typed, Fails(Phone)
    PROVE  /\ disturbed' = TRUE /\ base' = base /\ OnPhone' = OnPhone
           /\ OnPc' = OnPc \/ OnPc' = [ver |-> 0, size |-> 0, mtime |-> clock + 1]
           /\ \/ removed' = TRUE
              \/ /\ removed' = removed /\ Index' = Index /\ Doing' = Doing
                 /\ \/ At \in {"planned", "pushed"} /\ At' \in {"pushed", "applied"}
                    \/ At' = "received"
BY ThePhone DEF Fails, MissedOnPhone, MissedOnPc, FailsOnPc, FailsOnPhone, FailsToWrite,
                Typed, StateTyped, SessionTyped, OnPc, OnPhone, At, Index, Doing

-----------------------------------------------------------------------------
(* Nothing is removed before a user has removed the file or a scan has     *)
(* left it out: until then a baseline has both files, and no plan is a     *)
(* removal.                                                                *)

RemoveInv ==
    removed = FALSE =>
        /\ base # NoFile => OnPc # NoFile /\ OnPhone # NoFile
        /\ At = "indexed" =>
             (Index # NoFile => OnPhone # NoFile) /\ (base # NoFile => Index # NoFile)
        /\ At \in {"planned", "pushed"} => Doing \notin {"del_pc", "del_phone"}
        /\ At = "scanned" /\ Index # NoFile => OnPhone # NoFile

LEMMA RemoveSync ==
    ASSUME OnePhone, Typed, RemoveInv, SyncStep(Phone) \/ DieWriting(Phone) \/ Fails(Phone)
    PROVE  /\ RemoveInv'
           /\ removed' = FALSE =>
                /\ OnPc # NoFile => OnPc' # NoFile
                /\ OnPhone # NoFile => OnPhone' # NoFile
<1>1. CASE SendIndex(Phone)
  <2>1. Entry(OnPhone) = NoFile <=> OnPhone = NoFile
      BY OneTyped, EntryTells
  <2> QED
      BY <1>1, <2>1, DoesSendIndex DEF RemoveInv, files
<1>2. CASE MakePlan(Phone)
  <2>1. Entry(OnPc) = NoFile <=> OnPc = NoFile
      BY OneTyped, EntryTells
  <2>2. /\ Doing' = "del_pc" => Index = NoFile /\ base # NoFile
        /\ Doing' = "del_phone" => Entry(OnPc) = NoFile /\ base # NoFile
      BY <1>2, DoesMakePlan, ReconcileSays
  <2> QED
      BY <1>2, <2>1, <2>2, DoesMakePlan DEF RemoveInv, files
<1>3. CASE CarryOutOnPc(Phone)
    BY <1>3, DoesCarryOutOnPc DEF RemoveInv
<1>4. CASE CarryOutOnPhone(Phone)
  <2>1. clock + 1 \in Nat /\ Sent \in FileSet \cup {NoFile}
      BY OneTyped
  <2>2. Sent # NoFile => [Sent EXCEPT !.mtime = clock + 1] # NoFile
      BY <2>1, Retimed, NoFileIsNone
  <2> QED
      BY <1>4, <2>2, DoesCarryOutOnPhone DEF RemoveInv
<1>5. CASE SendPulled(Phone)
    BY <1>5, DoesSendPulled DEF RemoveInv, files
<1>6. CASE ReceivePulled(Phone)
  <2>1. Sent \in FileSet /\ clock + 1 \in Nat
      BY <1>6, DoesReceivePulled, OneTyped
  <2>2. OnPc' \in FileSet
      BY <1>6, <2>1, DoesReceivePulled, Retimed
  <2> QED
      BY <1>6, <2>2, DoesReceivePulled, NoFileIsNone DEF RemoveInv
<1>7. CASE NothingPulled(Phone)
    BY <1>7, DoesNothingPulled DEF RemoveInv, files
<1>8. CASE SendFinalIndex(Phone)
  <2>1. Entry(OnPhone) = NoFile <=> OnPhone = NoFile
      BY OneTyped, EntryTells
  <2> QED
      BY <1>8, <2>1, DoesSendFinalIndex DEF RemoveInv, files
<1>9. CASE Finish(Phone)
  <2>1. Entry(OnPc) = NoFile <=> OnPc = NoFile
      BY OneTyped, EntryTells
  <2>2. NewBase(Entry(OnPc), Index) # NoFile => OnPc # NoFile /\ Index # NoFile
      BY <2>1 DEF NewBase
  <2> QED
      BY <1>9, <2>2, DoesFinish DEF RemoveInv, files
<1>10. CASE Abort(Phone)
    BY <1>10, DoesAbort DEF RemoveInv, files
<1>11. CASE DieWriting(Phone)
  <2>1. clock + 1 \in Nat
      BY OneTyped
  <2>2. [ver |-> 0, size |-> 0, mtime |-> clock + 1] \in FileSet
      BY <2>1 DEF FileSet
  <2> QED
      BY <1>11, <2>2, DoesDieWriting, NoFileIsNone DEF RemoveInv
<1>12. CASE Fails(Phone)
  <2>1. clock + 1 \in Nat
      BY OneTyped
  <2>2. [ver |-> 0, size |-> 0, mtime |-> clock + 1] \in FileSet
      BY <2>1 DEF FileSet
  <2> QED
      BY <1>12, <2>2, DoesFails, NoFileIsNone DEF RemoveInv
<1> QED
    BY <1>1, <1>2, <1>3, <1>4, <1>5, <1>6, <1>7, <1>8, <1>9, <1>10, <1>11, <1>12 DEF SyncStep

OnlyUsers == \A x \in Places : file[x] # NoFile /\ file'[x] = NoFile => removed'

LEMMA RemoveStep ==
    ASSUME OnePhone, Typed, RemoveInv, [Next]_vars PROVE RemoveInv' /\ OnlyUsers
<1>1. ASSUME NEW x \in Places, NEW s \in Sizes, UserWrites(x, s) PROVE RemoveInv' /\ OnlyUsers
  <2>1. \E f \in FileSet :
          /\ UNCHANGED <<base, At, Doing, Index, removed>>
          /\ (OnPc' = f /\ OnPhone' = OnPhone) \/ (OnPhone' = f /\ OnPc' = OnPc)
      BY <1>1, DoesUserWrites
  <2>2. /\ OnPc # NoFile => OnPc' # NoFile
        /\ OnPhone # NoFile => OnPhone' # NoFile
      BY <2>1, NoFileIsNone
  <2>3. RemoveInv'
      BY <2>1, <2>2 DEF RemoveInv
  <2> QED
      BY <2>2, <2>3, ThePhone DEF OnlyUsers, OnPc, OnPhone
<1>2. ASSUME NEW x \in Places, UserRemoves(x) PROVE RemoveInv' /\ OnlyUsers
    BY <1>2, DoesUserRemoves DEF RemoveInv, OnlyUsers
<1>3. CASE SyncStep(Phone) \/ DieWriting(Phone) \/ Fails(Phone)
  <2>1. removed' \in BOOLEAN
      BY TypedStep DEF Typed, HistoryTyped
  <2> QED
      BY <1>3, <2>1, RemoveSync, ThePhone DEF OnlyUsers, OnPc, OnPhone
<1>4. CASE UNCHANGED vars
    BY <1>4 DEF vars, session, history, RemoveInv, OnlyUsers, OnPc, OnPhone, At, Doing, Index
<1> QED
    BY <1>1, <1>2, <1>3, <1>4, ThePhone DEF Next, UserStep

(* With one phone, sessions remove a file only after some user has removed *)
(* it on one side (sync.rs, del_pc and del_phone).                         *)
THEOREM OnlyUsersRemoveAlone == OnePhone => (Spec => OnlyUsersRemove)
<1> SUFFICES ASSUME OnePhone PROVE Spec => OnlyUsersRemove
    OBVIOUS
<1>1. Init => RemoveInv
  <2> SUFFICES ASSUME Init PROVE RemoveInv
      OBVIOUS
  <2>1. base = NoFile /\ At = "idle"
      BY ThePhone DEF Init, At
  <2> QED
      BY <2>1 DEF RemoveInv
<1>2. Typed /\ RemoveInv /\ [Next]_vars => RemoveInv'
    BY RemoveStep
<1>3. Typed /\ RemoveInv /\ [Next]_vars => OnlyUsers
    BY RemoveStep
<1>4. OnlyUsers => \A x \in Places : file[x] # NoFile /\ file'[x] = NoFile => removed'
    BY DEF OnlyUsers
<1> QED
    BY <1>1, <1>2, <1>3, <1>4, TypeCorrect, PTL DEF Spec, OnlyUsersRemove

-----------------------------------------------------------------------------
(* What holds of the two files as long as nobody is disturbed.             *)

Same ==
    \/ OnPc = NoFile /\ OnPhone = NoFile
    \/ OnPc # NoFile /\ OnPhone # NoFile /\ OnPc.ver = OnPhone.ver

PcUnchanged    == base # NoFile /\ OnPc.size = base.size /\ OnPc.mtime = base.pcTime
PhoneUnchanged == base # NoFile /\ OnPhone.size = base.size /\ OnPhone.mtime = base.phoneTime

\* Versions and times come from the clock, and who has a file has seen it.
Numbered ==
    /\ OnPc # NoFile => OnPc.ver \in 1 .. clock /\ OnPc.mtime \in 1 .. clock /\ OnPc.ver \in SeenPc
    /\ OnPhone # NoFile =>
         OnPhone.ver \in 1 .. clock /\ OnPhone.mtime \in 1 .. clock /\ OnPhone.ver \in SeenPhone
    /\ base # NoFile => base.pcTime <= clock /\ base.phoneTime <= clock
    /\ \A v \in gone : v \in 1 .. clock

\* The file with the later time has replaced the other one, or is an edit after it.
LaterIsNewer ==
    OnPc # NoFile /\ OnPhone # NoFile =>
        /\ OnPhone.mtime <= OnPc.mtime => OnPhone.ver \in SeenPc \/ OnPc.ver > OnPhone.ver
        /\ OnPc.mtime < OnPhone.mtime => OnPc.ver \in SeenPhone \/ OnPhone.ver > OnPc.ver

\* A file that is as the baseline has it has been on the other side.
BaseKnows ==
    base # NoFile =>
        /\ OnPc # NoFile /\ OnPc.mtime = base.pcTime => OnPc.ver \in SeenPhone
        /\ OnPhone # NoFile /\ OnPhone.mtime = base.phoneTime => OnPhone.ver \in SeenPc
        /\ (/\ OnPc # NoFile /\ OnPc.mtime = base.pcTime
            /\ OnPhone # NoFile /\ OnPhone.mtime = base.phoneTime) => OnPc.ver = OnPhone.ver

\* What was removed on one side is on one side at most, as the baseline has it.
GoneStays ==
    /\ OnPc # NoFile /\ OnPc.ver \in gone =>
         PcUnchanged /\ (OnPhone # NoFile => OnPhone.ver # OnPc.ver)
    /\ OnPhone # NoFile /\ OnPhone.ver \in gone => PhoneUnchanged

FilesInv == Numbered /\ LaterIsNewer /\ BaseKnows /\ GoneStays

Planned == Doing = Reconcile(Entry(OnPc), Entry(OnPhone), base)

\* At the end of a session: what the baseline will say.
Rescanned ==
    /\ Index # NoFile <=> OnPc # NoFile
    /\ OnPc # NoFile => OnPc.ver \in SeenPhone
    /\ OnPhone # NoFile => OnPhone.ver \notin gone
    /\ Index # NoFile =>
         /\ Index.mtime <= clock
         /\ OnPhone # NoFile /\ OnPhone.mtime = Index.mtime => OnPhone.ver = OnPc.ver

InSession ==
    /\ At = "indexed" => Index = Entry(OnPhone)
    /\ At = "planned" => Planned /\ Scanned = Entry(OnPc)
    /\ At = "pushed" =>
         /\ Doing = "del_pc" => OnPc = NoFile /\ OnPhone = NoFile
         /\ Doing # "del_pc" => Planned
         /\ Doing = "push" => Sent = OnPc
    /\ At \in {"applied", "pulled"} =>
         /\ Doing = "pull" => Planned
         /\ Doing # "pull" => Same
    /\ At = "pulled" /\ Doing = "pull" => Sent = OnPhone
    /\ At = "received" => Same
    /\ At = "scanned" => Rescanned

CalmIsSame == At \in {"idle", "scanned"} /\ Phone \in calm => Same

Quiet == FilesInv /\ InSession /\ CalmIsSame

\* A file that a step replaces may give way; none comes back that was removed.
GivesWay ==
    /\ OnPc' # OnPc =>
         \/ OnPc = NoFile
         \/ OnPc.ver \in SeenPhone
         \/ OnPc' # NoFile /\ OnPc'.ver > OnPc.ver
    /\ OnPhone' # OnPhone =>
         \/ OnPhone = NoFile
         \/ OnPhone.ver \in SeenPc
         \/ OnPhone' # NoFile /\ OnPhone'.ver > OnPhone.ver

NoneComesBack ==
    /\ OnPc' # OnPc /\ OnPc' # NoFile => OnPc'.ver \notin gone
    /\ OnPhone' # OnPhone /\ OnPhone' # NoFile => OnPhone'.ver \notin gone

(* The meaning of the plan for the two files.                              *)
LEMMA PlannedSays ==
    ASSUME OnePhone, Typed, Planned
    PROVE  /\ Doing = "del_pc" =>
                OnPc # NoFile /\ OnPhone = NoFile /\ base # NoFile /\ OnPc.mtime = base.pcTime
           /\ Doing = "del_phone" =>
                OnPc = NoFile /\ OnPhone # NoFile /\ base # NoFile /\ OnPhone.mtime = base.phoneTime
           /\ Doing = "push" =>
                /\ OnPc # NoFile /\ ~PcUnchanged
                /\ OnPhone # NoFile =>
                     OnPhone.mtime <= OnPc.mtime \/ (base # NoFile /\ OnPhone.mtime = base.phoneTime)
           /\ Doing = "pull" =>
                /\ OnPhone # NoFile /\ ~PhoneUnchanged
                /\ OnPc # NoFile =>
                     OnPc.mtime < OnPhone.mtime \/ (base # NoFile /\ OnPc.mtime = base.pcTime)
           /\ Doing = "nothing" =>
                \/ OnPc = NoFile /\ OnPhone = NoFile
                \/ /\ OnPc # NoFile /\ OnPhone # NoFile /\ base # NoFile
                   /\ OnPc.mtime = base.pcTime /\ OnPhone.mtime = base.phoneTime
<1>1. /\ OnPc \in FileSet \cup {NoFile} /\ OnPhone \in FileSet \cup {NoFile}
      /\ base \in BaseSet \cup {NoFile} /\ Doing = Reconcile(Entry(OnPc), Entry(OnPhone), base)
    BY OneTyped DEF Planned
<1>2. OnPc # NoFile /\ PcUnchanged => ~PcChanged(Entry(OnPc), base) /\ base # NoFile
    BY <1>1, UnchangedMeans DEF PcUnchanged
<1>3. OnPhone # NoFile /\ PhoneUnchanged => ~PhoneChanged(Entry(OnPhone), base) /\ base # NoFile
    BY <1>1, UnchangedMeans DEF PhoneUnchanged
<1>4. Doing = "del_pc" =>
        OnPc # NoFile /\ OnPhone = NoFile /\ base # NoFile /\ OnPc.mtime = base.pcTime
    BY <1>1, PlanSays
<1>5. Doing = "del_phone" =>
        OnPc = NoFile /\ OnPhone # NoFile /\ base # NoFile /\ OnPhone.mtime = base.phoneTime
    BY <1>1, PlanSays, ZenonT(60)
<1>6. Doing = "push" =>
        /\ OnPc # NoFile /\ ~PcUnchanged
        /\ OnPhone # NoFile =>
             OnPhone.mtime <= OnPc.mtime \/ (base # NoFile /\ OnPhone.mtime = base.phoneTime)
  <2>1. Doing = "push" =>
          /\ OnPc # NoFile /\ (base # NoFile => PcChanged(Entry(OnPc), base))
          /\ OnPhone # NoFile =>
               OnPhone.mtime <= OnPc.mtime \/ (base # NoFile /\ OnPhone.mtime = base.phoneTime)
      BY <1>1, PlanSays, Zenon
  <2> QED
      BY <1>2, <2>1
<1>7. Doing = "pull" =>
        /\ OnPhone # NoFile /\ ~PhoneUnchanged
        /\ OnPc # NoFile =>
             OnPc.mtime < OnPhone.mtime \/ (base # NoFile /\ OnPc.mtime = base.pcTime)
  <2>1. Doing = "pull" =>
          /\ OnPhone # NoFile /\ (base # NoFile => PhoneChanged(Entry(OnPhone), base))
          /\ OnPc # NoFile =>
               OnPc.mtime < OnPhone.mtime \/ (base # NoFile /\ OnPc.mtime = base.pcTime)
      BY <1>1, PlanSays, Zenon
  <2> QED
      BY <1>3, <2>1
<1>8. Doing = "nothing" =>
        \/ OnPc = NoFile /\ OnPhone = NoFile
        \/ /\ OnPc # NoFile /\ OnPhone # NoFile /\ base # NoFile
           /\ OnPc.mtime = base.pcTime /\ OnPhone.mtime = base.phoneTime
    BY <1>1, PlanSays
<1> QED
    BY <1>4, <1>5, <1>6, <1>7, <1>8

(* Steps that change neither file.                                         *)
LEMMA FilesStay ==
    ASSUME UNCHANGED <<files, views, base, clock, gone>>
    PROVE  /\ FilesInv => FilesInv'
           /\ GivesWay /\ NoneComesBack
           /\ Same' = Same /\ (UNCHANGED Doing => Planned' = Planned)
BY DEF files, views, FilesInv, Numbered, LaterIsNewer, BaseKnows, GoneStays, PcUnchanged,
       PhoneUnchanged, GivesWay, NoneComesBack, Same, Planned

LEMMA QuietSendIndex ==
    ASSUME OnePhone, Typed, Quiet, SendIndex(Phone)
    PROVE  Quiet' /\ GivesWay /\ NoneComesBack
<1>1. InSession' /\ CalmIsSame'
    BY DoesSendIndex DEF InSession, CalmIsSame, files
<1> QED
    BY <1>1, DoesSendIndex, FilesStay DEF Quiet

LEMMA QuietMakePlan ==
    ASSUME OnePhone, Typed, Quiet, MakePlan(Phone)
    PROVE  Quiet' /\ GivesWay /\ NoneComesBack
<1>1. /\ At = "indexed" /\ At' = "planned" /\ Scanned' = Entry(OnPc)
      /\ Doing' = Reconcile(Entry(OnPc), Index, base)
      /\ UNCHANGED <<files, views, base, clock, gone>>
    BY DoesMakePlan
<1>2. Index = Entry(OnPhone)
    BY <1>1 DEF Quiet, InSession
<1>3. Planned' /\ (Scanned = Entry(OnPc))'
    BY <1>1, <1>2 DEF Planned, files
<1>4. InSession' /\ CalmIsSame'
    BY <1>1, <1>3 DEF InSession, CalmIsSame
<1> QED
    BY <1>1, <1>4, FilesStay DEF Quiet

(* Files that are removed leave the rest as it was.                        *)
LEMMA FilesRemoved ==
    ASSUME FilesInv, OnPc' = NoFile \/ OnPc' = OnPc, OnPhone' = NoFile \/ OnPhone' = OnPhone,
           UNCHANGED <<views, base, clock, gone>>
    PROVE  FilesInv' /\ NoneComesBack
BY DEF views, FilesInv, Numbered, LaterIsNewer, BaseKnows, GoneStays, PcUnchanged,
       PhoneUnchanged, NoneComesBack

LEMMA FilesPushed ==
    ASSUME OnePhone, Typed, FilesInv, OnPc # NoFile, OnPc' = OnPc,
           \/ OnPhone' = OnPc /\ clock' = clock
           \/ OnPhone' = [OnPc EXCEPT !.mtime = clock + 1] /\ clock' = clock + 1,
           SeenPhone' = SeenPhone \cup {OnPc.ver}, OnPc.ver \notin gone,
           UNCHANGED <<SeenPc, base, gone>>
    PROVE  FilesInv' /\ Same' /\ NoneComesBack
<1>1. /\ OnPhone' # NoFile /\ OnPhone'.ver = OnPc.ver /\ clock \in Nat
      /\ \/ OnPhone'.mtime = OnPc.mtime /\ clock' = clock
         \/ OnPhone'.mtime = clock + 1 /\ clock' = clock + 1
  <2>1. OnPc \in FileSet /\ clock \in Nat /\ clock + 1 \in Nat
      BY OneTyped
  <2>2. PICK f : f = [OnPc EXCEPT !.mtime = clock + 1]
      OBVIOUS
  <2>3. f \in FileSet /\ f.ver = OnPc.ver /\ f.mtime = clock + 1
      BY <2>1, <2>2, Retimed
  <2> QED
      BY <2>1, <2>2, <2>3, NoFileIsNone
<1>2. Numbered'
    BY <1>1, OneTyped DEF FilesInv, Numbered, BaseSet
<1>3. LaterIsNewer'
    BY <1>1, OneTyped DEF FilesInv, Numbered, LaterIsNewer
<1>4. BaseKnows'
    BY <1>1 DEF FilesInv, Numbered, BaseKnows
<1>5. GoneStays'
    BY <1>1 DEF FilesInv, GoneStays
<1> QED
    BY <1>1, <1>2, <1>3, <1>4, <1>5 DEF FilesInv, Same, NoneComesBack

LEMMA QuietCarryOutOnPc ==
    ASSUME OnePhone, Typed, Quiet, CarryOutOnPc(Phone)
    PROVE  Quiet' /\ GivesWay /\ NoneComesBack
<1>1. /\ At = "planned" /\ At' = "pushed" /\ OnPhone' = OnPhone
      /\ OnPc' = (IF Doing = "del_pc" THEN NoFile ELSE OnPc)
      /\ Doing = "push" /\ OnPc # NoFile => Sent' = [OnPc EXCEPT !.mtime = Scanned.mtime]
      /\ UNCHANGED <<views, base, clock, Doing, gone>>
    BY DoesCarryOutOnPc
<1>2. Planned /\ Scanned = Entry(OnPc) /\ FilesInv
    BY <1>1 DEF Quiet, InSession
<1>3. FilesInv' /\ NoneComesBack
    BY <1>1, <1>2, FilesRemoved
<1>4. Doing = "del_pc" => OnPhone = NoFile /\ OnPc.ver \in SeenPhone
    BY <1>2, PlannedSays DEF FilesInv, BaseKnows
<1>5. Doing # "del_pc" => Planned'
    BY <1>1, <1>2 DEF Planned
<1>6. Doing = "push" => Sent' = OnPc
  <2>1. SUFFICES ASSUME Doing = "push" PROVE Sent' = OnPc
      OBVIOUS
  <2>2. OnPc # NoFile /\ OnPc \in FileSet
      BY <1>2, <2>1, PlannedSays, OneTyped
  <2>3. Scanned.mtime = OnPc.mtime
      BY <1>2, <2>2, EntryTells
  <2> QED
      BY <1>1, <2>1, <2>2, <2>3 DEF FileSet
<1>7. InSession' /\ CalmIsSame'
    BY <1>1, <1>4, <1>5, <1>6 DEF InSession, CalmIsSame
<1>8. GivesWay
    BY <1>1, <1>4 DEF GivesWay
<1> QED
    BY <1>3, <1>7, <1>8 DEF Quiet

LEMMA QuietCarryOutOnPhone ==
    ASSUME OnePhone, Typed, Quiet, CarryOutOnPhone(Phone)
    PROVE  Quiet' /\ GivesWay /\ NoneComesBack
<1>1. /\ At = "pushed" /\ At' = "applied" /\ OnPc' = OnPc
      /\ UNCHANGED <<SeenPc, base, Doing, gone>>
    BY DoesCarryOutOnPhone
<1>2. /\ FilesInv
      /\ Doing = "del_pc" => OnPc = NoFile /\ OnPhone = NoFile
      /\ Doing # "del_pc" => Planned
      /\ Doing = "push" => Sent = OnPc
    BY <1>1 DEF Quiet, InSession
<1>3. CASE Doing = "push"
  <2>1. OnPc # NoFile /\ ~PcUnchanged
      BY <1>2, <1>3, PlannedSays
  <2>2. /\ SeenPhone' = SeenPhone \cup {OnPc.ver}
        /\ \/ OnPhone' = OnPc /\ clock' = clock
           \/ OnPhone' = [OnPc EXCEPT !.mtime = clock + 1] /\ clock' = clock + 1
      BY <1>2, <1>3, <2>1, DoesCarryOutOnPhone
  <2>3. OnPc.ver \notin gone
      BY <1>2, <2>1 DEF FilesInv, GoneStays
  <2>4. FilesInv' /\ Same' /\ NoneComesBack
      BY <1>1, <1>2, <2>1, <2>2, <2>3, FilesPushed
  <2>5. OnPhone # NoFile => OnPhone.ver \in SeenPc \/ OnPc.ver > OnPhone.ver
    <3>1. OnPhone # NoFile =>
            OnPhone.mtime <= OnPc.mtime \/ (base # NoFile /\ OnPhone.mtime = base.phoneTime)
        BY <1>2, <1>3, PlannedSays
    <3> QED
        BY <1>2, <2>1, <3>1 DEF FilesInv, LaterIsNewer, BaseKnows
  <2>6. GivesWay
      BY <1>1, <2>1, <2>4, <2>5 DEF GivesWay, Same
  <2>7. InSession' /\ CalmIsSame'
      BY <1>1, <1>3, <2>4 DEF InSession, CalmIsSame
  <2> QED
      BY <2>4, <2>6, <2>7 DEF Quiet
<1>4. CASE Doing = "del_phone"
  <2>1. OnPhone' = NoFile /\ SeenPhone' = SeenPhone /\ clock' = clock
      BY <1>4, DoesCarryOutOnPhone
  <2>2. OnPc = NoFile /\ OnPhone.ver \in SeenPc
      BY <1>2, <1>4, PlannedSays DEF FilesInv, BaseKnows
  <2>3. FilesInv' /\ NoneComesBack
      BY <1>1, <1>2, <2>1, FilesRemoved DEF views
  <2>4. Same' /\ GivesWay
      BY <1>1, <2>1, <2>2 DEF Same, GivesWay
  <2>5. InSession' /\ CalmIsSame'
      BY <1>1, <1>4, <2>4 DEF InSession, CalmIsSame
  <2> QED
      BY <2>3, <2>4, <2>5 DEF Quiet
<1>5. CASE Doing \notin {"push", "del_phone"}
  <2>1. OnPhone' = OnPhone /\ SeenPhone' = SeenPhone /\ clock' = clock
      BY <1>5, DoesCarryOutOnPhone
  <2>2. UNCHANGED <<files, views, base, clock, gone>>
      BY <1>1, <2>1 DEF files, views
  <2>3. Doing # "pull" => Same
    <3>1. Doing \in {"del_pc", "nothing", "pull"}
        BY <1>5, OneTyped DEF Plans
    <3>2. Doing = "nothing" => Same
        BY <1>2, PlannedSays DEF FilesInv, BaseKnows, Same
    <3> QED
        BY <1>2, <3>1, <3>2 DEF Same
  <2>4. (Doing # "pull" => Same') /\ (Doing = "pull" => Planned')
      BY <1>1, <1>2, <2>2, <2>3, FilesStay
  <2>5. InSession' /\ CalmIsSame'
      BY <1>1, <2>4 DEF InSession, CalmIsSame
  <2> QED
      BY <1>2, <2>2, <2>5, FilesStay DEF Quiet
<1> QED
    BY <1>3, <1>4, <1>5

LEMMA QuietSendPulled ==
    ASSUME OnePhone, Typed, Quiet, SendPulled(Phone)
    PROVE  Quiet' /\ GivesWay /\ NoneComesBack
<1>1. /\ At = "applied" /\ At' = "pulled"
      /\ Doing = "pull" /\ OnPhone # NoFile => Sent' = OnPhone
      /\ UNCHANGED <<files, views, base, clock, Doing, gone>>
    BY DoesSendPulled
<1>2. (Doing = "pull" => Planned) /\ (Doing # "pull" => Same)
    BY <1>1 DEF Quiet, InSession
<1>3. Doing = "pull" => OnPhone # NoFile
    BY <1>2, PlannedSays
<1>4. (Doing = "pull" => Planned') /\ (Doing # "pull" => Same')
    BY <1>1, <1>2, FilesStay
<1>5. OnPhone' = OnPhone
    BY <1>1 DEF files
<1>6. InSession' /\ CalmIsSame'
    BY <1>1, <1>3, <1>4, <1>5 DEF InSession, CalmIsSame
<1> QED
    BY <1>1, <1>6, FilesStay DEF Quiet

LEMMA QuietReceivePulled ==
    ASSUME OnePhone, Typed, Quiet, ReceivePulled(Phone)
    PROVE  Quiet' /\ GivesWay /\ NoneComesBack
<1>1. /\ At = "pulled" /\ Doing = "pull" /\ At' = "received"
      /\ clock' = clock + 1 /\ OnPc' = [Sent EXCEPT !.mtime = clock + 1]
      /\ SeenPc' = SeenPc \cup {Sent.ver}
      /\ UNCHANGED <<OnPhone, SeenPhone, base, gone>>
    BY DoesReceivePulled
<1>2. Planned /\ Sent = OnPhone /\ FilesInv
    BY <1>1 DEF Quiet, InSession
<1>3. /\ OnPhone # NoFile /\ ~PhoneUnchanged
      /\ OnPc # NoFile => OnPc.mtime < OnPhone.mtime \/ (base # NoFile /\ OnPc.mtime = base.pcTime)
    BY <1>1, <1>2, PlannedSays
<1>4. clock \in Nat /\ clock + 1 \in Nat /\ OnPhone \in FileSet
    BY <1>3, OneTyped
<1>5. OnPc' \in FileSet /\ OnPc'.ver = OnPhone.ver /\ OnPc'.mtime = clock + 1
    BY <1>1, <1>2, <1>4, Retimed
<1>6. OnPc' # NoFile
    BY <1>5, NoFileIsNone
<1>7. OnPhone.ver \notin gone
    BY <1>2, <1>3 DEF FilesInv, GoneStays
<1>8. Numbered'
    BY <1>1, <1>2, <1>4, <1>5, <1>6, OneTyped DEF FilesInv, Numbered, BaseSet
<1>9. LaterIsNewer'
    BY <1>1, <1>2, <1>4, <1>5, <1>6 DEF FilesInv, Numbered, LaterIsNewer
<1>10. BaseKnows'
    BY <1>1, <1>2, <1>4, <1>5, OneTyped DEF FilesInv, Numbered, BaseKnows, BaseSet
<1>11. GoneStays'
    BY <1>1, <1>5, <1>7 DEF GoneStays
<1>12. OnPc # NoFile => OnPc.ver \in SeenPhone \/ OnPhone.ver > OnPc.ver
    BY <1>2, <1>3 DEF FilesInv, LaterIsNewer, BaseKnows
<1>13. GivesWay /\ NoneComesBack
    BY <1>1, <1>5, <1>6, <1>7, <1>12 DEF GivesWay, NoneComesBack
<1>14. InSession' /\ CalmIsSame'
    BY <1>1, <1>3, <1>5, <1>6 DEF InSession, CalmIsSame, Same
<1> QED
    BY <1>8, <1>9, <1>10, <1>11, <1>13, <1>14 DEF Quiet, FilesInv

LEMMA QuietNothingPulled ==
    ASSUME OnePhone, Typed, Quiet, NothingPulled(Phone)
    PROVE  Quiet' /\ GivesWay /\ NoneComesBack
<1>1. /\ At = "pulled" /\ Doing # "pull" /\ At' = "received"
      /\ UNCHANGED <<files, views, base, clock, gone>>
    BY DoesNothingPulled
<1>2. Same'
    BY <1>1, FilesStay DEF Quiet, InSession
<1>3. InSession' /\ CalmIsSame'
    BY <1>1, <1>2 DEF InSession, CalmIsSame
<1> QED
    BY <1>1, <1>3, FilesStay DEF Quiet

LEMMA QuietSendFinalIndex ==
    ASSUME OnePhone, Typed, Quiet, SendFinalIndex(Phone)
    PROVE  Quiet' /\ GivesWay /\ NoneComesBack
<1>1. /\ At = "received" /\ At' = "scanned" /\ Index' = Entry(OnPhone)
      /\ UNCHANGED <<files, views, base, clock, gone>>
    BY DoesSendFinalIndex
<1>2. Same /\ Same' /\ FilesInv
    BY <1>1, FilesStay DEF Quiet, InSession
<1>3. /\ Index' = NoFile <=> OnPhone = NoFile
      /\ OnPhone # NoFile => Index'.mtime = OnPhone.mtime
    BY <1>1, OneTyped, EntryTells
<1>4. OnPhone # NoFile => OnPhone.ver \notin gone
    BY <1>2 DEF FilesInv, GoneStays, Same
<1>5. Rescanned'
    BY <1>1, <1>2, <1>3, <1>4, OneTyped DEF Rescanned, Same, FilesInv, Numbered, files, views
<1>6. InSession' /\ CalmIsSame'
    BY <1>1, <1>2, <1>5 DEF InSession, CalmIsSame
<1> QED
    BY <1>1, <1>6, FilesStay DEF Quiet

LEMMA QuietSaved ==
    ASSUME OnePhone, Typed, Quiet, Finish(Phone), base' = NewBase(Entry(OnPc), Index), gone' = gone
    PROVE  Quiet' /\ GivesWay /\ NoneComesBack
<1>1. /\ At = "scanned" /\ At' = "idle" /\ base' = NewBase(Entry(OnPc), Index)
      /\ UNCHANGED <<OnPc, OnPhone, SeenPc, SeenPhone, clock, calm, gone>>
    BY DoesFinish DEF files, views
<1>2. Rescanned /\ FilesInv
    BY <1>1 DEF Quiet, InSession
<1>3. /\ Entry(OnPc) = NoFile <=> OnPc = NoFile
      /\ OnPc # NoFile => Entry(OnPc).size = OnPc.size /\ Entry(OnPc).mtime = OnPc.mtime
    BY OneTyped, EntryTells
<1>4. base' # NoFile =>
        /\ OnPc # NoFile /\ Index # NoFile
        /\ base'.size = OnPc.size /\ base'.pcTime = OnPc.mtime /\ base'.phoneTime = Index.mtime
    BY <1>1, <1>3 DEF NewBase
<1>5. OnPc # NoFile => base' # NoFile
  <2>1. SUFFICES ASSUME OnPc # NoFile PROVE base' # NoFile
      OBVIOUS
  <2>2. Entry(OnPc) \in EntrySet /\ Index \in EntrySet
      BY <1>2, <1>3, <2>1, OneTyped, EntryTells DEF Rescanned
  <2>3. base' = [size |-> Entry(OnPc).size, pcTime |-> Entry(OnPc).mtime, phoneTime |-> Index.mtime]
      BY <1>1, <2>2, NoFileIsNone DEF NewBase
  <2>4. base' \in BaseSet
      BY <2>2, <2>3 DEF EntrySet, BaseSet
  <2> QED
      BY <2>4, NoFileIsNone
<1>6. Numbered'
    BY <1>1, <1>2, <1>4 DEF FilesInv, Numbered, Rescanned
<1>7. LaterIsNewer'
    BY <1>1, <1>2 DEF FilesInv, LaterIsNewer
<1>8. BaseKnows'
    BY <1>1, <1>2, <1>4 DEF FilesInv, Numbered, BaseKnows, Rescanned
<1>9. GoneStays'
    BY <1>1, <1>2, <1>4, <1>5 DEF FilesInv, GoneStays, Rescanned, PcUnchanged
<1>10. InSession' /\ CalmIsSame'
    BY <1>1 DEF Quiet, InSession, CalmIsSame, Same
<1> QED
    BY <1>1, <1>6, <1>7, <1>8, <1>9, <1>10 DEF Quiet, FilesInv, GivesWay, NoneComesBack

LEMMA QuietFinish ==
    ASSUME OnePhone, Typed, Quiet, Finish(Phone)
    PROVE  Quiet' /\ GivesWay /\ NoneComesBack
<1>1. CASE base' = NewBase(Entry(OnPc), Index) /\ gone' = gone
    BY <1>1, QuietSaved
<1>2. CASE (base' = base /\ gone' = gone) \/ (base' = NoFile /\ gone' = {})
  <2>1. /\ At = "scanned" /\ At' = "idle"
        /\ UNCHANGED <<OnPc, OnPhone, SeenPc, SeenPhone, clock, calm>>
      BY DoesFinish DEF files, views
  <2>2. FilesInv'
      BY <1>2, <2>1 DEF Quiet, FilesInv, Numbered, LaterIsNewer, BaseKnows, GoneStays,
                        PcUnchanged, PhoneUnchanged
  <2>3. InSession' /\ CalmIsSame'
      BY <2>1 DEF Quiet, InSession, CalmIsSame, Same
  <2> QED
      BY <2>1, <2>2, <2>3 DEF Quiet, GivesWay, NoneComesBack
<1> QED
    BY <1>1, <1>2, DoesFinish

LEMMA QuietAbort ==
    ASSUME OnePhone, Typed, Quiet, Abort(Phone)
    PROVE  Quiet' /\ GivesWay /\ NoneComesBack
<1>1. /\ At' = "idle" /\ calm' = calm \ {Phone}
      /\ (base' = base /\ gone' = gone) \/ (base' = NoFile /\ gone' = {})
      /\ UNCHANGED <<OnPc, OnPhone, SeenPc, SeenPhone, clock>>
    BY DoesAbort DEF files, views
<1>2. FilesInv'
    BY <1>1 DEF Quiet, FilesInv, Numbered, LaterIsNewer, BaseKnows, GoneStays,
                PcUnchanged, PhoneUnchanged
<1>3. InSession' /\ CalmIsSame'
    BY <1>1 DEF InSession, CalmIsSame
<1> QED
    BY <1>1, <1>2, <1>3 DEF Quiet, GivesWay, NoneComesBack

(* A user who writes on one side makes the newest version.                 *)
LEMMA FilesWritten ==
    ASSUME OnePhone, Typed, FilesInv, NEW f \in FileSet, f.ver = clock + 1, f.mtime = clock + 1,
           clock' = clock + 1, UNCHANGED <<base, gone>>,
           \/ /\ OnPc' = f /\ OnPhone' = OnPhone
              /\ SeenPc' = SeenPc \cup {clock + 1} /\ SeenPhone' = SeenPhone
           \/ /\ OnPhone' = f /\ OnPc' = OnPc
              /\ SeenPhone' = SeenPhone \cup {clock + 1} /\ SeenPc' = SeenPc
    PROVE  FilesInv' /\ NoneComesBack
<1>1. clock \in Nat /\ f # NoFile
    BY OneTyped, NoFileIsNone
<1>2. clock + 1 \notin gone
    BY <1>1 DEF FilesInv, Numbered
<1>3. base # NoFile => base.pcTime \in Nat /\ base.phoneTime \in Nat
    BY OneTyped DEF BaseSet
<1>4. Numbered'
    BY <1>1, <1>3 DEF FilesInv, Numbered
<1>5. LaterIsNewer'
    BY <1>1 DEF FilesInv, Numbered, LaterIsNewer
<1>6. BaseKnows'
    BY <1>1, <1>3 DEF FilesInv, Numbered, BaseKnows
<1>7. GoneStays'
    BY <1>1, <1>2 DEF FilesInv, Numbered, GoneStays, PcUnchanged, PhoneUnchanged
<1>8. NoneComesBack
    BY <1>2 DEF NoneComesBack
<1> QED
    BY <1>4, <1>5, <1>6, <1>7, <1>8 DEF FilesInv

LEMMA QuietUserWrites ==
    ASSUME OnePhone, Typed, Quiet, NEW x \in Places, NEW s \in Sizes, UserWrites(x, s)
    PROVE  NoneComesBack /\ (disturbed' = FALSE => Quiet')
<1>1. PICK f \in FileSet :
             /\ f.ver = clock + 1 /\ f.mtime = clock + 1 /\ clock' = clock + 1
             /\ \/ /\ OnPc' = f /\ OnPhone' = OnPhone
                   /\ SeenPc' = SeenPc \cup {clock + 1} /\ SeenPhone' = SeenPhone
                   /\ disturbed' = FALSE => At \in {"idle", "indexed"}
                \/ /\ OnPhone' = f /\ OnPc' = OnPc
                   /\ SeenPhone' = SeenPhone \cup {clock + 1} /\ SeenPc' = SeenPc
                   /\ disturbed' = FALSE => At \in {"idle", "scanned"}
             /\ calm' = {}
             /\ UNCHANGED <<base, At, Index, gone>>
    BY DoesUserWrites
<1>2. FilesInv' /\ NoneComesBack
    BY <1>1, FilesWritten DEF Quiet
<1>3. CalmIsSame'
    BY <1>1 DEF CalmIsSame
<1>4. ASSUME disturbed' = FALSE PROVE InSession'
  <2>1. CASE At = "idle"
      BY <1>1, <2>1 DEF InSession
  <2>2. CASE At = "indexed"
    <3>1. OnPhone' = OnPhone
        BY <1>1, <1>4, <2>2
    <3> QED
        BY <1>1, <2>2, <3>1 DEF Quiet, InSession
  <2>3. CASE At = "scanned"
    <3>1. /\ OnPhone' = f /\ OnPc' = OnPc /\ SeenPhone' = SeenPhone \cup {clock + 1}
          /\ Rescanned /\ Numbered
        BY <1>1, <1>4, <2>3 DEF Quiet, InSession, FilesInv
    <3>2. Index # NoFile => Index.mtime \in Nat
        BY OneTyped DEF EntrySet
    <3>3. clock \in Nat
        BY OneTyped
    <3>4. Rescanned'
        BY <1>1, <3>1, <3>2, <3>3 DEF Rescanned, Numbered
    <3> QED
        BY <1>1, <2>3, <3>4 DEF InSession
  <2> QED
      BY <1>1, <1>4, <2>1, <2>2, <2>3
<1> QED
    BY <1>2, <1>3, <1>4 DEF Quiet

(* A version that a user removes where both sides agreed is, on the other  *)
(* side, as the baseline has it.                                           *)
LEMMA AgreedMeans ==
    ASSUME OnePhone, Typed, Agreed(Phone)
    PROVE  /\ OnPc # NoFile /\ OnPhone # NoFile /\ OnPc.ver = OnPhone.ver
           /\ PcUnchanged /\ PhoneUnchanged
<1>1. /\ OnPc # NoFile /\ OnPhone # NoFile /\ OnPc.ver = OnPhone.ver
      /\ ~PcChanged(Entry(OnPc), base) /\ ~PhoneChanged(Entry(OnPhone), base)
    BY DEF Agreed, OnPc, OnPhone
<1>2. OnPc \in FileSet /\ OnPhone \in FileSet /\ base \in BaseSet \cup {NoFile}
    BY <1>1, OneTyped
<1> QED
    BY <1>1, <1>2, UnchangedMeans DEF PcUnchanged, PhoneUnchanged

LEMMA QuietUserRemoves ==
    ASSUME OnePhone, Typed, Quiet, NEW x \in Places, UserRemoves(x)
    PROVE  NoneComesBack /\ (disturbed' = FALSE => Quiet')
<1>1. /\ calm' = {} /\ UNCHANGED <<base, clock, views, At, Index>>
      /\ \/ /\ OnPc' = NoFile /\ OnPhone' = OnPhone /\ OnPc # NoFile
            /\ gone' = gone \/ (Agreed(Phone) /\ gone' = gone \cup {OnPc.ver})
            /\ disturbed' = FALSE => At \in {"idle", "indexed"}
         \/ /\ OnPhone' = NoFile /\ OnPc' = OnPc /\ OnPhone # NoFile
            /\ gone' = gone \/ (Agreed(Phone) /\ gone' = gone \cup {OnPhone.ver})
            /\ disturbed' = FALSE => At \in {"idle", "scanned"}
    BY DoesUserRemoves
<1>2. Agreed(Phone) => OnPc.ver = OnPhone.ver /\ PcUnchanged /\ PhoneUnchanged
    BY AgreedMeans
<1>3. Numbered' /\ LaterIsNewer' /\ BaseKnows'
    BY <1>1 DEF Quiet, FilesInv, Numbered, LaterIsNewer, BaseKnows, views
<1>4. GoneStays'
    BY <1>1, <1>2 DEF Quiet, FilesInv, GoneStays, PcUnchanged, PhoneUnchanged
<1>5. NoneComesBack /\ CalmIsSame'
    BY <1>1 DEF NoneComesBack, CalmIsSame
<1>6. ASSUME disturbed' = FALSE PROVE InSession'
  <2>1. CASE At = "idle"
      BY <1>1, <2>1 DEF InSession
  <2>2. CASE At = "indexed"
    <3>1. OnPhone' = OnPhone
        BY <1>1, <1>6, <2>2
    <3> QED
        BY <1>1, <2>2, <3>1 DEF Quiet, InSession
  <2>3. CASE At = "scanned"
    <3>1. OnPhone' = NoFile /\ OnPc' = OnPc /\ Rescanned
        BY <1>1, <1>6, <2>3 DEF Quiet, InSession
    <3>2. Rescanned'
        BY <1>1, <3>1 DEF Rescanned, views
    <3> QED
        BY <1>1, <2>3, <3>2 DEF InSession
  <2> QED
      BY <1>1, <1>6, <2>1, <2>2, <2>3
<1> QED
    BY <1>3, <1>4, <1>5, <1>6 DEF Quiet, FilesInv

(* Whoever dies or fails while writing leaves an empty file, which is no   *)
(* version.                                                                *)
LEMMA FailingBringsNoneBack ==
    ASSUME OnePhone, Typed, Quiet, DieWriting(Phone) \/ Fails(Phone)
    PROVE  NoneComesBack /\ disturbed' = TRUE
<1>1. 0 \notin gone
    BY OneTyped DEF Quiet, FilesInv, Numbered
<1>2. disturbed' = TRUE
    BY DEF DieWriting, Fails
<1>3. PICK f : f = [ver |-> 0, size |-> 0, mtime |-> clock + 1]
    OBVIOUS
<1>4. OnPc' \in {OnPc, f} /\ OnPhone' \in {OnPhone, f}
    BY <1>3, DoesDieWriting, DoesFails
<1> QED
    BY <1>1, <1>2, <1>3, <1>4 DEF NoneComesBack

LEMMA QuietSync ==
    ASSUME OnePhone, Typed, Quiet, SyncStep(Phone)
    PROVE  Quiet' /\ GivesWay /\ NoneComesBack /\ disturbed' = disturbed
<1>1. disturbed' = disturbed
    BY DEF SyncStep, SendIndex, MakePlan, CarryOutOnPc, CarryOutOnPhone, SendPulled, ReceivePulled,
           NothingPulled, SendFinalIndex, Finish, Abort, history
<1>2. Quiet' /\ GivesWay /\ NoneComesBack
    BY QuietSendIndex, QuietMakePlan, QuietCarryOutOnPc, QuietCarryOutOnPhone, QuietSendPulled,
       QuietReceivePulled, QuietNothingPulled, QuietSendFinalIndex, QuietFinish, QuietAbort
       DEF SyncStep
<1> QED
    BY <1>1, <1>2

QuietInv == ~disturbed => Quiet

LEMMA QuietStep ==
    ASSUME OnePhone, Typed, QuietInv, [Next]_vars
    PROVE  QuietInv' /\ (~disturbed => NoneComesBack)
<1>1. disturbed \in BOOLEAN /\ disturbed' \in BOOLEAN
    BY TypedStep DEF Typed, HistoryTyped
<1>2. ASSUME NEW x \in Places, NEW s \in Sizes, UserWrites(x, s)
      PROVE  QuietInv' /\ (~disturbed => NoneComesBack)
  <2>1. ~disturbed' => ~disturbed
      BY <1>2 DEF UserWrites, UserDisturbs
  <2>2. ~disturbed => NoneComesBack /\ (~disturbed' => Quiet')
      BY <1>1, <1>2, QuietUserWrites DEF QuietInv
  <2> QED
      BY <2>1, <2>2 DEF QuietInv
<1>3. ASSUME NEW x \in Places, UserRemoves(x)
      PROVE  QuietInv' /\ (~disturbed => NoneComesBack)
  <2>1. ~disturbed' => ~disturbed
      BY <1>3 DEF UserRemoves, UserDisturbs
  <2>2. ~disturbed => NoneComesBack /\ (~disturbed' => Quiet')
      BY <1>1, <1>3, QuietUserRemoves DEF QuietInv
  <2> QED
      BY <2>1, <2>2 DEF QuietInv
<1>4. CASE SyncStep(Phone)
  <2>1. ~disturbed => Quiet' /\ NoneComesBack
      BY <1>4, QuietSync DEF QuietInv
  <2>2. disturbed' = disturbed
      BY <1>4 DEF SyncStep, SendIndex, MakePlan, CarryOutOnPc, CarryOutOnPhone, SendPulled,
                  ReceivePulled, NothingPulled, SendFinalIndex, Finish, Abort, history
  <2> QED
      BY <2>1, <2>2 DEF QuietInv
<1>5. CASE DieWriting(Phone) \/ Fails(Phone)
  <2>1. disturbed' = TRUE
      BY <1>5 DEF DieWriting, Fails
  <2>2. ~disturbed => NoneComesBack
      BY <1>5, FailingBringsNoneBack DEF QuietInv
  <2> QED
      BY <2>1, <2>2 DEF QuietInv
<1>6. CASE UNCHANGED vars
  <2>1. UNCHANGED <<files, views, base, clock, gone, calm, disturbed, At, Doing, Index, Scanned, Sent>>
      BY <1>6 DEF vars, session, history, files, views, OnPc, OnPhone, SeenPc, SeenPhone,
                  At, Doing, Index, Scanned, Sent
  <2>2. Quiet => Quiet' /\ NoneComesBack
    <3>1. /\ FilesInv => FilesInv'
          /\ NoneComesBack /\ Same' = Same /\ Planned' = Planned
        BY <2>1, FilesStay
    <3>2. InSession => InSession'
        BY <2>1, <3>1 DEF InSession, Rescanned, files, views
    <3>3. CalmIsSame => CalmIsSame'
        BY <2>1, <3>1 DEF CalmIsSame
    <3> QED
        BY <3>1, <3>2, <3>3 DEF Quiet
  <2> QED
      BY <2>1, <2>2 DEF QuietInv
<1> QED
    BY <1>2, <1>3, <1>4, <1>5, <1>6, ThePhone DEF Next, UserStep

LEMMA QuietInvHolds == OnePhone => (Spec => []QuietInv)
<1> SUFFICES ASSUME OnePhone PROVE Spec => []QuietInv
    OBVIOUS
<1>1. Init => QuietInv
  <2> SUFFICES ASSUME Init PROVE Quiet
      BY DEF QuietInv
  <2>1. OnPc = NoFile /\ OnPhone = NoFile /\ base = NoFile /\ At = "idle" /\ gone = {} /\ calm = {}
      BY ThePhone DEF Init, OnPc, OnPhone, At
  <2> QED
      BY <2>1 DEF Quiet, FilesInv, Numbered, LaterIsNewer, BaseKnows, GoneStays, InSession, CalmIsSame
<1>2. Typed /\ QuietInv /\ [Next]_vars => QuietInv'
    BY QuietStep
<1> QED
    BY <1>1, <1>2, TypeCorrect, PTL DEF Spec

(* Nobody's file gives way in a session that has not been replaced already *)
(* or is not older, while users keep out of the windows in which it relies *)
(* on what it has read (sync.rs, reconcile; LinkClient.runSync).           *)
THEOREM EditsSurvive == OnePhone => (Spec => UndisturbedEditsSurvive)
<1> SUFFICES ASSUME OnePhone PROVE Spec => UndisturbedEditsSurvive
    OBVIOUS
<1>1. ASSUME Typed, QuietInv, ~disturbed
      PROVE  \A h \in Phones : SyncStep(h) => Respects(h)
  <2> SUFFICES ASSUME SyncStep(Phone) PROVE Respects(Phone)
      BY ThePhone
  <2>1. GivesWay
      BY <1>1, QuietSync DEF QuietInv
  <2> QED
      BY <2>1 DEF GivesWay, Respects, MayGiveWay, OnPc, OnPhone, SeenPc, SeenPhone
<1>2. Typed /\ QuietInv => (~disturbed => \A h \in Phones : SyncStep(h) => Respects(h))
    BY <1>1
<1> QED
    BY <1>2, TypeCorrect, QuietInvHolds, PTL DEF UndisturbedEditsSurvive

(* A session that ran to its end, and that no user has touched since, left *)
(* the same version on both sides (sync.rs, reconcile and the baseline).   *)
THEOREM SessionsConvergeAlone == OnePhone => (Spec => []SessionsConverge)
<1> SUFFICES ASSUME OnePhone PROVE Spec => []SessionsConverge
    OBVIOUS
<1>1. Typed /\ QuietInv => SessionsConverge
  <2> SUFFICES ASSUME Typed, Quiet, NEW h \in calm, step[h] = "idle"
               PROVE  \/ file[PC] = NoFile /\ file[h] = NoFile
                      \/ file[PC] # NoFile /\ file[h] # NoFile /\ file[PC].ver = file[h].ver
      BY DEF QuietInv, SessionsConverge
  <2>1. h = Phone
      BY ThePhone DEF Typed, HistoryTyped
  <2> QED
      BY <2>1 DEF Quiet, CalmIsSame, Same, At, OnPc, OnPhone
<1> QED
    BY <1>1, TypeCorrect, QuietInvHolds, PTL

(* What a user removed on one side, when both sides agreed on it, no       *)
(* session puts back (sync.rs, del_pc and del_phone).                      *)
THEOREM RemovalsStickAlone == OnePhone => (Spec => RemovalsStick)
<1> SUFFICES ASSUME OnePhone PROVE Spec => RemovalsStick
    OBVIOUS
<1>1. ASSUME Typed, QuietInv, [Next]_vars
      PROVE  ~disturbed => \A x \in Places :
               file'[x] # file[x] /\ file'[x] # NoFile => file'[x].ver \notin gone
    BY <1>1, QuietStep, ThePhone DEF NoneComesBack, OnPc, OnPhone
<1>2. Typed /\ QuietInv /\ [Next]_vars =>
        (~disturbed => \A x \in Places :
           file'[x] # file[x] /\ file'[x] # NoFile => file'[x].ver \notin gone)
    BY <1>1
<1> QED
    BY <1>2, TypeCorrect, QuietInvHolds, PTL DEF Spec, RemovalsStick

-----------------------------------------------------------------------------
(* The session as its users see it (TwoCopies): one side gets what the     *)
(* other one has, in one of its many steps.                                *)

PcVersion    == Version(OnPc)
PhoneVersion == Version(OnPhone)

LEMMA VersionSays ==
    ASSUME OnePhone, Typed
    PROVE  /\ PcVersion = (IF OnPc = NoFile THEN 0 ELSE OnPc.ver) /\ PcVersion \in Nat
           /\ PhoneVersion = (IF OnPhone = NoFile THEN 0 ELSE OnPhone.ver) /\ PhoneVersion \in Nat
           /\ Versions[PC] = PcVersion /\ Versions[Phone] = PhoneVersion
<1>1. PcVersion = (IF OnPc = NoFile THEN 0 ELSE OnPc.ver) /\ PcVersion \in Nat
    BY OneTyped DEF PcVersion, Version, FileSet
<1>2. PhoneVersion = (IF OnPhone = NoFile THEN 0 ELSE OnPhone.ver) /\ PhoneVersion \in Nat
    BY OneTyped DEF PhoneVersion, Version, FileSet
<1>3. Versions[PC] = PcVersion /\ Versions[Phone] = PhoneVersion
    BY ThePhone DEF Versions, PcVersion, PhoneVersion, OnPc, OnPhone
<1> QED
    BY <1>1, <1>2, <1>3

(* A step that changes neither file nor what has been seen is no step of   *)
(* the users' folder.                                                      *)
LEMMA NothingPassed ==
    ASSUME OnePhone, Typed, Typed', UNCHANGED <<files, views, removed>>
    PROVE  UNCHANGED Copies!copies
<1>1. UNCHANGED <<file[PC], file[Phone], seen[PC], seen[Phone]>>
    BY DEF files, views, OnPc, OnPhone, SeenPc, SeenPhone
<1>2. Versions' = Versions
    BY <1>1, ThePhone DEF Versions
<1>3. seen \in [Places -> SUBSET Nat] /\ seen' \in [Places -> SUBSET Nat]
    BY DEF Typed, HistoryTyped
<1>4. seen' = seen
    BY <1>1, <1>3, ThePhone
<1> QED
    BY <1>2, <1>4 DEF Copies!copies

LEMMA PassedToPhone ==
    ASSUME OnePhone, Typed, Typed', OnPc' = OnPc, SeenPc' = SeenPc, removed' = removed,
           PhoneVersion' = PcVersion,
           SeenPhone' = IF PcVersion = 0 THEN SeenPhone ELSE SeenPhone \cup {PcVersion},
           PhoneVersion < PcVersion \/ PhoneVersion \in SeenPc, PcVersion = 0 => removed
    PROVE  Copies!PassOn(Phone, PC)
<1>1. Versions' = [Versions EXCEPT ![Phone] = Versions[PC]]
    BY ThePhone, VersionSays DEF Versions, PcVersion, PhoneVersion, OnPc, OnPhone
<1>2. seen \in [Places -> SUBSET Nat] /\ seen' \in [Places -> SUBSET Nat]
    BY DEF Typed, HistoryTyped
<1>3. seen' = [seen EXCEPT ![Phone] = IF Versions[PC] = 0 THEN @ ELSE @ \cup {Versions[PC]}]
    BY <1>2, ThePhone, VersionSays DEF SeenPc, SeenPhone
<1> QED
    BY <1>1, <1>3, VersionSays DEF Copies!PassOn, SeenPc

LEMMA PassedToPc ==
    ASSUME OnePhone, Typed, Typed', OnPhone' = OnPhone, SeenPhone' = SeenPhone, removed' = removed,
           PcVersion' = PhoneVersion,
           SeenPc' = IF PhoneVersion = 0 THEN SeenPc ELSE SeenPc \cup {PhoneVersion},
           PcVersion < PhoneVersion \/ PcVersion \in SeenPhone, PhoneVersion = 0 => removed
    PROVE  Copies!PassOn(PC, Phone)
<1>1. Versions' = [Versions EXCEPT ![PC] = Versions[Phone]]
    BY ThePhone, VersionSays DEF Versions, PcVersion, PhoneVersion, OnPc, OnPhone
<1>2. seen \in [Places -> SUBSET Nat] /\ seen' \in [Places -> SUBSET Nat]
    BY DEF Typed, HistoryTyped
<1>3. seen' = [seen EXCEPT ![PC] = IF Versions[Phone] = 0 THEN @ ELSE @ \cup {Versions[Phone]}]
    BY <1>2, ThePhone, VersionSays DEF SeenPc, SeenPhone
<1> QED
    BY <1>1, <1>3, VersionSays DEF Copies!PassOn, SeenPhone

(* Carrying out on the PC: a removal is passed on, or nothing.             *)
LEMMA PassCarryOutOnPc ==
    ASSUME OnePhone, Typed, Typed', Quiet, RemoveInv, CarryOutOnPc(Phone)
    PROVE  [Copies!Next]_Copies!copies
<1>1. /\ At = "planned" /\ OnPhone' = OnPhone
      /\ OnPc' = (IF Doing = "del_pc" THEN NoFile ELSE OnPc)
      /\ UNCHANGED <<views, removed>>
    BY DoesCarryOutOnPc
<1>2. Planned /\ BaseKnows
    BY <1>1 DEF Quiet, InSession, FilesInv
<1>3. CASE Doing = "del_pc"
  <2>1. OnPc # NoFile /\ OnPhone = NoFile /\ OnPc.ver \in SeenPhone
      BY <1>2, <1>3, PlannedSays DEF BaseKnows
  <2>2. removed
      BY <1>1, <1>3 DEF RemoveInv, Typed, HistoryTyped
  <2>3. PcVersion \in SeenPhone /\ PhoneVersion = 0 /\ PcVersion' = 0
      BY <1>1, <1>3, <2>1, VersionSays DEF PcVersion, Version
  <2>4. Copies!PassOn(PC, Phone)
      BY <1>1, <2>2, <2>3, PassedToPc DEF views
  <2> QED
      BY <2>4, ThePhone DEF Copies!Next
<1>4. CASE Doing # "del_pc"
    BY <1>1, <1>4, NothingPassed DEF files
<1> QED
    BY <1>3, <1>4

(* Carrying out on the phone: what the PC has is passed on.                *)
LEMMA PassCarryOutOnPhone ==
    ASSUME OnePhone, Typed, Typed', Quiet, RemoveInv, CarryOutOnPhone(Phone)
    PROVE  [Copies!Next]_Copies!copies
<1>1. At = "pushed" /\ OnPc' = OnPc /\ SeenPc' = SeenPc /\ removed' = removed
    BY DoesCarryOutOnPhone
<1>2. /\ FilesInv /\ GivesWay
      /\ Doing # "del_pc" => Planned
      /\ Doing = "push" => Sent = OnPc
    BY <1>1, QuietCarryOutOnPhone DEF Quiet, InSession
<1>3. CASE Doing = "push"
  <2>1. /\ OnPc # NoFile /\ SeenPhone' = SeenPhone \cup {OnPc.ver}
        /\ OnPhone' = OnPc \/ OnPhone' = [OnPc EXCEPT !.mtime = clock + 1]
      BY <1>2, <1>3, PlannedSays, DoesCarryOutOnPhone
  <2>2. OnPhone' # NoFile /\ OnPhone'.ver = OnPc.ver
    <3>1. OnPc \in FileSet /\ clock + 1 \in Nat
        BY <2>1, OneTyped
    <3>2. PICK f : f = [OnPc EXCEPT !.mtime = clock + 1]
        OBVIOUS
    <3>3. f \in FileSet /\ f.ver = OnPc.ver
        BY <3>1, <3>2, Retimed
    <3> QED
        BY <2>1, <3>1, <3>2, <3>3, NoFileIsNone
  <2>3. PcVersion = OnPc.ver /\ PcVersion > 0 /\ PhoneVersion' = PcVersion
      BY <1>2, <2>1, <2>2, VersionSays DEF FilesInv, Numbered, PhoneVersion, PcVersion, Version
  <2>4. PhoneVersion < PcVersion \/ PhoneVersion \in SeenPc
    <3>1. CASE OnPhone = NoFile
        BY <2>3, <3>1, VersionSays
    <3>2. CASE OnPhone # NoFile
      <4>1. OnPhone.ver \in SeenPc \/ OnPhone' = OnPhone \/ OnPhone'.ver > OnPhone.ver
          BY <1>2, <3>2 DEF GivesWay
      <4> QED
          BY <1>2, <2>1, <2>2, <2>3, <3>2, <4>1, VersionSays, OneTyped DEF FilesInv, Numbered, FileSet
    <3> QED
        BY <3>1, <3>2
  <2>5. Copies!PassOn(Phone, PC)
      BY <1>1, <2>1, <2>3, <2>4, PassedToPhone
  <2> QED
      BY <2>5, ThePhone DEF Copies!Next
<1>4. CASE Doing = "del_phone"
  <2>1. OnPhone' = NoFile /\ SeenPhone' = SeenPhone
      BY <1>4, DoesCarryOutOnPhone
  <2>2. OnPc = NoFile /\ OnPhone # NoFile /\ OnPhone.ver \in SeenPc
      BY <1>2, <1>4, PlannedSays DEF FilesInv, BaseKnows
  <2>3. removed
      BY <1>1, <1>4 DEF RemoveInv, Typed, HistoryTyped
  <2>4. PhoneVersion \in SeenPc /\ PcVersion = 0 /\ PhoneVersion' = 0
      BY <2>1, <2>2, VersionSays DEF PhoneVersion, Version
  <2>5. Copies!PassOn(Phone, PC)
      BY <1>1, <2>1, <2>3, <2>4, PassedToPhone
  <2> QED
      BY <2>5, ThePhone DEF Copies!Next
<1>5. CASE Doing \notin {"push", "del_phone"}
  <2>1. OnPhone' = OnPhone /\ SeenPhone' = SeenPhone
      BY <1>5, DoesCarryOutOnPhone
  <2> QED
      BY <1>1, <2>1, NothingPassed DEF files, views
<1> QED
    BY <1>3, <1>4, <1>5

(* Receiving what was pulled: what the phone has is passed on.             *)
LEMMA PassReceivePulled ==
    ASSUME OnePhone, Typed, Typed', Quiet, ReceivePulled(Phone)
    PROVE  [Copies!Next]_Copies!copies
<1>1. /\ At = "pulled" /\ Doing = "pull"
      /\ OnPc' = [Sent EXCEPT !.mtime = clock + 1]
      /\ SeenPc' = SeenPc \cup {Sent.ver}
      /\ UNCHANGED <<OnPhone, SeenPhone, removed>>
    BY DoesReceivePulled
<1>2. Planned /\ Sent = OnPhone /\ FilesInv /\ GivesWay
    BY <1>1, QuietReceivePulled DEF Quiet, InSession
<1>3. OnPhone # NoFile /\ OnPhone \in FileSet /\ clock + 1 \in Nat
    BY <1>1, <1>2, PlannedSays, OneTyped
<1>4. OnPc' \in FileSet /\ OnPc' # NoFile /\ OnPc'.ver = OnPhone.ver
    BY <1>1, <1>2, <1>3, Retimed, NoFileIsNone
<1>5. PhoneVersion = OnPhone.ver /\ PhoneVersion > 0 /\ PcVersion' = PhoneVersion
    BY <1>2, <1>3, <1>4, VersionSays DEF FilesInv, Numbered, PcVersion, Version
<1>6. PcVersion < PhoneVersion \/ PcVersion \in SeenPhone
  <2>1. CASE OnPc = NoFile
      BY <1>5, <2>1, VersionSays
  <2>2. CASE OnPc # NoFile
    <3>1. OnPc.ver \in SeenPhone \/ OnPc' = OnPc \/ OnPc'.ver > OnPc.ver
        BY <1>2, <2>2 DEF GivesWay
    <3> QED
        BY <1>2, <1>3, <1>4, <1>5, <2>2, <3>1, VersionSays, OneTyped DEF FilesInv, Numbered, FileSet
  <2> QED
      BY <2>1, <2>2
<1>7. Copies!PassOn(PC, Phone)
    BY <1>1, <1>2, <1>5, <1>6, PassedToPc
<1> QED
    BY <1>7, ThePhone DEF Copies!Next

LEMMA PassSync ==
    ASSUME OnePhone, Typed, Typed', Quiet, RemoveInv, SyncStep(Phone)
    PROVE  [Copies!Next]_Copies!copies
<1>1. CASE \/ SendIndex(Phone) \/ MakePlan(Phone) \/ SendPulled(Phone) \/ NothingPulled(Phone)
           \/ SendFinalIndex(Phone) \/ Finish(Phone) \/ Abort(Phone)
  <2>1. UNCHANGED <<files, views, removed>>
      BY <1>1, DoesSendIndex, DoesMakePlan, DoesSendPulled, DoesNothingPulled, DoesSendFinalIndex,
         DoesFinish, DoesAbort
  <2> QED
      BY <2>1, NothingPassed
<1> QED
    BY <1>1, PassCarryOutOnPc, PassCarryOutOnPhone, PassReceivePulled DEF SyncStep

(* What the users do to the folder is what they do to the two copies: the  *)
(* clock gives every edit a new version.                                   *)
Fresh == \A v \in SeenPc \cup SeenPhone : v <= clock

LEMMA WriteIsWrite ==
    ASSUME OnePhone, Typed, Fresh, NEW x \in Places, NEW s \in Sizes, UserWrites(x, s)
    PROVE  Copies!Next
<1>1. PICK f : f = [ver |-> clock + 1, size |-> s, mtime |-> clock + 1]
    OBVIOUS
<1>2. clock \in Nat /\ s \in Nat
    BY SizesAssumption DEF Typed, StateTyped
<1>3. f \in FileSet /\ f.ver = clock + 1
    BY <1>1, <1>2 DEF FileSet
<1>4. Version(f) = clock + 1
    BY <1>3, NoFileIsNone DEF Version
<1>5. /\ file' = [file EXCEPT ![x] = f] /\ removed' = removed
      /\ seen' = [seen EXCEPT ![x] = @ \cup {clock + 1}]
    BY <1>1 DEF UserWrites
<1>6. Versions' = [Versions EXCEPT ![x] = clock + 1]
    BY <1>4, <1>5 DEF Typed, StateTyped, Versions
<1>7. \A y \in Places : \A w \in seen[y] : w < clock + 1
    BY <1>2, ThePhone, OneTyped DEF Fresh, SeenPc, SeenPhone
<1>8. Copies!Write(x, clock + 1)
    BY <1>5, <1>6, <1>7 DEF Copies!Write
<1> QED
    BY <1>2, <1>8 DEF Copies!Next

LEMMA RemoveIsRemove ==
    ASSUME OnePhone, Typed, Quiet, NEW x \in Places, UserRemoves(x)
    PROVE  Copies!Next
<1>1. /\ file' = [file EXCEPT ![x] = NoFile] /\ file[x] # NoFile /\ removed' = TRUE /\ seen' = seen
    BY DEF UserRemoves
<1>2. Versions' = [Versions EXCEPT ![x] = 0]
    BY <1>1 DEF Typed, StateTyped, Versions, Version
<1>3. Versions[x] # 0
    BY <1>1, ThePhone, OneTyped
       DEF Versions, Version, Quiet, FilesInv, Numbered, OnPc, OnPhone
<1>4. Copies!Remove(x)
    BY <1>1, <1>2, <1>3 DEF Copies!Remove
<1> QED
    BY <1>4 DEF Copies!Next

FreshInv == ~disturbed => Fresh

LEMMA FreshStep ==
    ASSUME OnePhone, Typed, QuietInv, FreshInv, [Next]_vars PROVE FreshInv'
<1>1. disturbed \in BOOLEAN /\ disturbed' \in BOOLEAN /\ clock \in Nat
    BY TypedStep DEF Typed, HistoryTyped, StateTyped
<1>2. SeenPc \in SUBSET Nat /\ SeenPhone \in SUBSET Nat
    BY OneTyped
<1>3. ASSUME NEW x \in Places, NEW s \in Sizes, UserWrites(x, s) PROVE FreshInv'
  <2>1. /\ clock' = clock + 1 /\ (disturbed' = FALSE => disturbed = FALSE)
        /\ SeenPc' \subseteq SeenPc \cup {clock + 1} /\ SeenPhone' \subseteq SeenPhone \cup {clock + 1}
      BY <1>3, DoesUserWrites
  <2> QED
      BY <1>1, <1>2, <2>1 DEF FreshInv, Fresh
<1>4. ASSUME NEW x \in Places, UserRemoves(x) PROVE FreshInv'
    BY <1>1, <1>4, DoesUserRemoves DEF FreshInv, Fresh, views
<1>5. CASE SyncStep(Phone)
  <2> SUFFICES ASSUME ~disturbed' PROVE Fresh'
      BY DEF FreshInv
  <2>1. Quiet /\ Fresh
      BY <1>5 DEF SyncStep, SendIndex, MakePlan, CarryOutOnPc, CarryOutOnPhone, SendPulled,
                  ReceivePulled, NothingPulled, SendFinalIndex, Finish, Abort, history,
                  QuietInv, FreshInv
  <2>2. CASE CarryOutOnPhone(Phone)
    <3>1. /\ clock' \in {clock, clock + 1} /\ SeenPc' = SeenPc /\ At = "pushed"
          /\ SeenPhone' = SeenPhone \/ (Doing = "push" /\ SeenPhone' = SeenPhone \cup {Sent.ver})
        BY <2>2, DoesCarryOutOnPhone
    <3>2. Doing = "push" => Sent = OnPc /\ OnPc # NoFile
        BY <2>1, <3>1, PlannedSays DEF Quiet, InSession
    <3>3. OnPc # NoFile => OnPc.ver \in Nat /\ OnPc.ver <= clock
        BY <1>1, <2>1 DEF Quiet, FilesInv, Numbered
    <3> QED
        BY <1>1, <1>2, <2>1, <3>1, <3>2, <3>3 DEF Fresh
  <2>3. CASE ReceivePulled(Phone)
    <3>1. /\ clock' = clock + 1 /\ SeenPhone' = SeenPhone /\ SeenPc' = SeenPc \cup {Sent.ver}
          /\ At = "pulled" /\ Doing = "pull"
        BY <2>3, DoesReceivePulled
    <3>2. Sent = OnPhone /\ OnPhone # NoFile
        BY <2>1, <3>1, PlannedSays DEF Quiet, InSession
    <3>3. OnPhone.ver \in Nat /\ OnPhone.ver <= clock
        BY <1>1, <2>1, <3>2 DEF Quiet, FilesInv, Numbered
    <3> QED
        BY <1>1, <1>2, <2>1, <3>1, <3>2, <3>3 DEF Fresh
  <2>4. CASE ~(CarryOutOnPhone(Phone) \/ ReceivePulled(Phone))
    <3>1. UNCHANGED <<views, clock>>
        BY <1>5, <2>4, DoesSendIndex, DoesMakePlan, DoesCarryOutOnPc, DoesSendPulled,
           DoesNothingPulled, DoesSendFinalIndex, DoesFinish, DoesAbort DEF SyncStep
    <3> QED
        BY <2>1, <3>1 DEF Fresh, views
  <2> QED
      BY <2>2, <2>3, <2>4
<1>6. CASE DieWriting(Phone) \/ Fails(Phone)
    BY <1>6 DEF DieWriting, Fails, FreshInv
<1>7. CASE UNCHANGED vars
    BY <1>7 DEF vars, history, FreshInv, Fresh, SeenPc, SeenPhone
<1> QED
    BY <1>3, <1>4, <1>5, <1>6, <1>7, ThePhone DEF Next, UserStep

FolderInv == Typed /\ RemoveInv /\ QuietInv /\ FreshInv

LEMMA FolderInvHolds == OnePhone => (Spec => []FolderInv)
<1> SUFFICES ASSUME OnePhone PROVE Spec => []FolderInv
    OBVIOUS
<1>1. Init => RemoveInv
  <2>1. Init => base = NoFile /\ At = "idle"
      BY ThePhone DEF Init, At
  <2> QED
      BY <2>1 DEF RemoveInv
<1>2. Init => FreshInv
    BY ThePhone DEF Init, FreshInv, Fresh, SeenPc, SeenPhone
<1>3. Typed /\ RemoveInv /\ QuietInv /\ FreshInv /\ [Next]_vars => RemoveInv' /\ FreshInv'
    BY RemoveStep, FreshStep
<1> QED
    BY <1>1, <1>2, <1>3, TypeCorrect, QuietInvHolds, PTL DEF Spec, FolderInv

(* The step mapping: as long as nobody was disturbed, whatever happens is  *)
(* a step of the two copies, or none.                                      *)
LEMMA PassStep ==
    ASSUME OnePhone, FolderInv, [Next]_vars, ~disturbed' PROVE [Copies!Next]_Copies!copies
<1>1. Typed /\ Typed' /\ disturbed \in BOOLEAN
    BY TypedStep DEF FolderInv, Typed, HistoryTyped
<1>2. ASSUME ~disturbed PROVE Quiet /\ Fresh /\ RemoveInv
    BY <1>2 DEF FolderInv, QuietInv, FreshInv
<1>3. ASSUME NEW x \in Places, NEW s \in Sizes, UserWrites(x, s) PROVE Copies!Next
  <2>1. ~disturbed
      BY <1>3 DEF UserWrites, UserDisturbs
  <2> QED
      BY <1>1, <1>2, <1>3, <2>1, WriteIsWrite
<1>4. ASSUME NEW x \in Places, UserRemoves(x) PROVE Copies!Next
  <2>1. ~disturbed
      BY <1>4 DEF UserRemoves, UserDisturbs
  <2> QED
      BY <1>1, <1>2, <1>4, <2>1, RemoveIsRemove
<1>5. CASE SyncStep(Phone)
  <2>1. disturbed' = disturbed
      BY <1>5 DEF SyncStep, SendIndex, MakePlan, CarryOutOnPc, CarryOutOnPhone, SendPulled,
                  ReceivePulled, NothingPulled, SendFinalIndex, Finish, Abort, history
  <2> QED
      BY <1>1, <1>2, <1>5, <2>1, PassSync
<1>6. ~DieWriting(Phone) /\ ~Fails(Phone)
    BY DEF DieWriting, Fails
<1>7. CASE UNCHANGED vars
    BY <1>7 DEF vars, history, Copies!copies, Versions
<1> QED
    BY <1>3, <1>4, <1>5, <1>6, <1>7, ThePhone DEF Next, UserStep

LEMMA CopiesInit == Init => Copies!Init
BY DEF Init, Copies!Init, Versions, Version

(* Undisturbed, a session of many steps is one step as its users see it:   *)
(* the side whose file is older, or was known to the other one, gets what  *)
(* the other one has, and nothing else ever happens to a file (sync.rs,    *)
(* reconcile and handle; LinkClient.runSync).                              *)
THEOREM SessionsAreAtomic == OnePhone => (Spec /\ []~disturbed => Copies!Spec)
<1> SUFFICES ASSUME OnePhone PROVE Spec /\ []~disturbed => Copies!Spec
    OBVIOUS
<1>1. FolderInv /\ [Next]_vars /\ ~disturbed' => [Copies!Next]_Copies!copies
    BY PassStep
<1> QED
    BY <1>1, CopiesInit, FolderInvHolds, PTL DEF Spec, Copies!Spec

(* Until somebody removes something, each side has the newest of all the   *)
(* versions it has ever had.                                               *)
Newest == ~disturbed => Copies!NeverOlder

LEMMA NewestAfterPass ==
    ASSUME OnePhone, Typed, Copies!NeverOlder,
           NEW x \in Places, NEW y \in Places, Copies!PassOn(x, y)
    PROVE  Copies!NeverOlder'
<1> SUFFICES ASSUME ~removed, NEW z \in Places, NEW v \in seen'[z] PROVE v <= Versions'[z]
    BY DEF Copies!NeverOlder, Copies!PassOn
<1>1. /\ Versions[x] < Versions[y] \/ Versions[x] \in seen[y]
      /\ Versions' = [Versions EXCEPT ![x] = Versions[y]]
      /\ seen' = [seen EXCEPT ![x] = @ \cup {Versions[y]}]
    BY DEF Copies!PassOn
<1>2. /\ seen \in [Places -> SUBSET Nat] /\ Versions \in [Places -> Nat]
    BY ThePhone, VersionSays DEF Typed, HistoryTyped, Versions
<1>3. \A w \in seen[z] : w <= Versions[z]
    BY DEF Copies!NeverOlder
<1>4. Versions[x] <= Versions[y]
    BY <1>1, <1>2 DEF Copies!NeverOlder
<1>5. CASE z # x
    BY <1>1, <1>2, <1>3, <1>5
<1>6. CASE z = x
  <2>1. v \in seen[x] \/ v = Versions[y]
      BY <1>1, <1>2, <1>6
  <2>2. Versions'[z] = Versions[y]
      BY <1>1, <1>2, <1>6
  <2> QED
      BY <1>2, <1>3, <1>4, <1>6, <2>1, <2>2
<1> QED
    BY <1>5, <1>6

LEMMA NewestAfterWrite ==
    ASSUME OnePhone, Typed, Copies!NeverOlder,
           NEW x \in Places, NEW v \in Nat, Copies!Write(x, v)
    PROVE  Copies!NeverOlder'
<1> SUFFICES ASSUME ~removed, NEW z \in Places, NEW w \in seen'[z] PROVE w <= Versions'[z]
    BY DEF Copies!NeverOlder, Copies!Write
<1>1. /\ \A y \in Places : \A u \in seen[y] : u < v
      /\ Versions' = [Versions EXCEPT ![x] = v]
      /\ seen' = [seen EXCEPT ![x] = @ \cup {v}]
    BY DEF Copies!Write
<1>2. /\ seen \in [Places -> SUBSET Nat] /\ Versions \in [Places -> Nat]
    BY ThePhone, VersionSays DEF Typed, HistoryTyped, Versions
<1>3. \A u \in seen[z] : u <= Versions[z]
    BY DEF Copies!NeverOlder
<1> QED
    BY <1>1, <1>2, <1>3

(* Until a user removes the file or disturbs a session, no session takes a *)
(* side back to a version older than one it has had, and so the newest     *)
(* version is never lost (sync.rs, reconcile; LinkClient.runSync).         *)
THEOREM NoVersionGoesBack == OnePhone => (Spec => [](~disturbed => Copies!NeverOlder))
<1> SUFFICES ASSUME OnePhone PROVE Spec => [](~disturbed => Copies!NeverOlder)
    OBVIOUS
<1>1. Init => Newest
    BY DEF Init, Newest, Copies!NeverOlder
<1>2. ASSUME FolderInv, Newest, [Next]_vars PROVE Newest'
  <2> SUFFICES ASSUME ~disturbed' PROVE Copies!NeverOlder'
      BY DEF Newest
  <2>1. [Copies!Next]_Copies!copies
      BY <1>2, PassStep
  <2>2. Typed
      BY <1>2 DEF FolderInv
  <2>3. ~disturbed
      BY <1>2, <2>2 DEF Next, UserStep, UserWrites, UserRemoves, UserDisturbs, SyncStep, SendIndex,
         MakePlan, CarryOutOnPc, CarryOutOnPhone, SendPulled, ReceivePulled, NothingPulled,
         SendFinalIndex, Finish, Abort, DieWriting, Fails, history, vars
  <2>4. Copies!NeverOlder
      BY <1>2, <2>3 DEF Newest
  <2>5. ASSUME NEW x \in Places, Copies!Remove(x) PROVE Copies!NeverOlder'
      BY <2>5 DEF Copies!Remove, Copies!NeverOlder
  <2>6. CASE UNCHANGED Copies!copies
      BY <2>4, <2>6 DEF Copies!copies, Copies!NeverOlder
  <2> QED
      BY <2>1, <2>2, <2>4, <2>5, <2>6, NewestAfterPass, NewestAfterWrite DEF Copies!Next
<1>3. FolderInv /\ Newest /\ [Next]_vars => Newest'
    BY <1>2
<1> QED
    BY <1>1, <1>3, FolderInvHolds, PTL DEF Spec, Newest
=============================================================================
