--------------------------- MODULE PeerTrustProofs ---------------------------
(***************************************************************************)
(* Theorems about PeerTrust for every set of phones, connections, windows, *)
(* codes, handlers and tools.                                              *)
(***************************************************************************)
EXTENDS PeerTrust, TLAPS

-----------------------------------------------------------------------------
(* The inductive invariants.                                               *)

\* A window that is being served needs the daemon.
WindowsNeedDaemon ==
    \A w \in Windows : win[w] \in {"subscribed", "open", "ending"} => up

\* A fresh slot carries no trust from the connection before it, and every open
\* connection that reads messages can be found by kick.
SlotsAreFresh ==
    /\ \A c \in Conns : step[c] = "none" => ~open[c]
    /\ \A c \in Conns : step[c] \in {"none", "accepted"} => ~sessionTrusted[c]
    /\ \A c \in Conns : open[c] /\ c \notin live => step[c] = "accepted"

\* A handler past the comparison of the codes works for an admitted phone, and
\* past the save for a stored one; so do the events and the answers.
HandlersAreAdmitted ==
    /\ peers \subseteq stored
    /\ \A c \in Conns : step[c] \in {"matched", "saving", "writing", "paired", "ending"}
                          => owner[c] \in admitted
    /\ \A c \in Conns : step[c] \in {"saving", "writing"} => owner[c] \in copy[c]
    /\ \A c \in Conns : step[c] \in {"paired", "ending"} => owner[c] \in stored
    /\ \A w \in Windows : heard[w] # NoOne => heard[w] \in stored \cap admitted

AdmissionInv ==
    SlotsAreFresh /\ HandlersAreAdmitted /\ TrustNeedsCode /\ PairedAnswerIsTrue

\* A forget's copy lacks its target, and a file that was truncated by a writer
\* whose copy is fresh is still empty.  While no save has lost another: a fresh
\* copy holds no forgotten device but the one it adds, and no pairing of a
\* device that was cut off is complete.
ForgetInv ==
    /\ cut \subseteq revoked
    /\ \A f \in Editors : edit[f] \in {"saving", "writing"} => target[f] \notin copy[f]
    /\ \A c \in Conns : step[c] = "writing" /\ c \notin stale => disk = "empty"
    /\ ~clobbered =>
        /\ peers \cap revoked = {}
        /\ \A c \in Conns : step[c] \in {"saving", "writing"} /\ c \notin stale
                              => copy[c] \cap revoked \subseteq {owner[c]}
        /\ \A f \in Editors : edit[f] \in {"saving", "writing"} /\ f \notin stale
                               => copy[f] \cap revoked = {}
        /\ \A c \in Conns : open[c] /\ owner[c] \in cut
                              => ~sessionTrusted[c] /\ step[c] \notin {"paired", "ending"}

\* Phones that are told PairOk, or will be if their connection lasts.
Promised == told \cup {owner[c] : c \in {d \in Conns : step[d] \in {"paired", "ending"}}}

\* A writer whose copy is as new as the file holds what the file holds, but for
\* the device it removes, and every promise that was not taken back; the file,
\* while it can be read, holds every such promise.
DurableInv ==
    /\ Readable =>
        /\ \A c \in Conns : step[c] \in {"saving", "writing"} /\ c \notin stale
                              => peers \subseteq copy[c]
        /\ \A f \in Editors : edit[f] \in {"saving", "writing"} /\ f \notin stale
                               => peers \subseteq copy[f] \cup {target[f]}
    /\ ~clobbered =>
        /\ Readable => Promised \ revoked \subseteq peers
        /\ \A c \in Conns : step[c] \in {"saving", "writing"} /\ c \notin stale
                              => Promised \ revoked \subseteq copy[c]
        /\ \A f \in Editors : edit[f] \in {"saving", "writing"} /\ f \notin stale
                               => Promised \ revoked \subseteq copy[f] \cup {target[f]}

\* Every variable keeps its type.
THEOREM TypeCorrect == Spec => []TypeOK
<1> USE DEF TypeOK, Codes, Editors, Writers, file, pairing, conn, editing, history
<1>1. Init => TypeOK
  <2> SUFFICES ASSUME Init PROVE TypeOK
    OBVIOUS
  <2>1. copy \in [Writers -> SUBSET Phones]
    BY DEF Init
  <2>2. QED
    BY <2>1 DEF Init
<1>2. TypeOK /\ [Next]_vars => TypeOK'
  <2> SUFFICES ASSUME TypeOK, [Next]_vars PROVE TypeOK'
    OBVIOUS
  <2>1. ASSUME NEW c \in Conns, NEW p \in Phones, Accept(c, p) PROVE TypeOK'
    BY <2>1 DEF Accept
  <2>2. ASSUME NEW c \in Conns, Register(c) PROVE TypeOK'
    BY <2>2 DEF Register
  <2>3. ASSUME NEW c \in Conns, NewStream(c) PROVE TypeOK'
    BY <2>3 DEF NewStream
  <2>4. ASSUME NEW c \in Conns, Close(c) PROVE TypeOK'
    BY <2>4 DEF Close
  <2>5. ASSUME NEW c \in Conns, NEW l, SendLine(c, l) PROVE TypeOK'
    BY <2>5 DEF SendLine
  <2>6. ASSUME NEW c \in Conns, ReceiveUse(c) PROVE TypeOK'
    BY <2>6 DEF ReceiveUse, EvaluateTrust, IsTrusted, Readable, AfterReply
  <2>7. ASSUME NEW c \in Conns, ReceivePair(c) PROVE TypeOK'
    BY <2>7 DEF ReceivePair, EvaluateTrust, IsTrusted, Readable
  <2>8. ASSUME NEW c \in Conns, AcceptCode(c) PROVE TypeOK'
    BY <2>8 DEF AcceptCode
  <2>9. ASSUME NEW c \in Conns, RejectCode(c) PROVE TypeOK'
    BY <2>9 DEF RejectCode, AfterReply
  <2>10. ASSUME NEW c \in Conns, LoadPeers(c) PROVE TypeOK'
    BY <2>10 DEF LoadPeers
  <2>11. ASSUME NEW c \in Conns, LoadFails(c) PROVE TypeOK'
    BY <2>11 DEF LoadFails
  <2>12. ASSUME NEW c \in Conns, TruncatePeers(c) PROVE TypeOK'
    BY <2>12 DEF TruncatePeers, Truncate
  <2>13. ASSUME NEW c \in Conns, WritePeers(c) PROVE TypeOK'
    BY <2>13 DEF WritePeers, Write, Saving
  <2>14. ASSUME NEW c \in Conns, NotifyPaired(c) PROVE TypeOK'
    BY <2>14 DEF NotifyPaired
  <2>15. ASSUME NEW c \in Conns, EndPairing(c) PROVE TypeOK'
    BY <2>15 DEF EndPairing, AfterReply
  <2>16. ASSUME NEW c \in Conns, EndStream(c) PROVE TypeOK'
    BY <2>16 DEF EndStream
  <2>17. ASSUME NEW c \in Conns, DropConnection(c) PROVE TypeOK'
    BY <2>17 DEF DropConnection
  <2>18. ASSUME NEW w \in Windows, WindowStep(w) PROVE TypeOK'
    BY <2>18 DEF WindowStep, Subscribe, Begin, HearPaired, TimeOut, EndWindow
  <2>19. ASSUME NEW f \in Editors, NEW p \in Phones, LoadForget(f, p) PROVE TypeOK'
    BY <2>19 DEF LoadForget
  <2>20. ASSUME NEW f \in Editors, TruncateForget(f) PROVE TypeOK'
    BY <2>20 DEF TruncateForget, Truncate
  <2>21. ASSUME NEW f \in Editors, WriteForget(f) PROVE TypeOK'
    BY <2>21 DEF WriteForget, Write, Saving
  <2>22. ASSUME NEW f \in Editors, Kick(f) PROVE TypeOK'
    BY <2>22 DEF Kick
  <2>23. ASSUME NEW code \in BootCodes \cup {NoOne}, Start(code) PROVE TypeOK'
    BY <2>23 DEF Start
  <2>24. CASE Crash
    BY <2>24 DEF Crash
  <2>25. CASE UNCHANGED vars
    BY <2>25 DEF vars
  <2>26. QED
    BY <2>1, <2>2, <2>3, <2>4, <2>5, <2>6, <2>7, <2>8, <2>9, <2>10, <2>11, <2>12, <2>13,
       <2>14, <2>15, <2>16, <2>17, <2>18, <2>19, <2>20, <2>21, <2>22, <2>23, <2>24, <2>25
       DEF Next, ConnStep, EditorStep
<1>3. QED
  BY <1>1, <1>2, PTL DEF Spec

-----------------------------------------------------------------------------
\* A connection's step leaves the windows' progress alone and takes a code
\* away at most.
LEMMA ConnStepKeepsWindows ==
    ASSUME NEW c \in Conns, ConnStep(c)
    PROVE  UNCHANGED <<up, win>> /\ token' \in {token, NoOne}
BY DEF ConnStep, Accept, Register, NewStream, Close, SendLine, ReceiveUse, ReceivePair,
       AcceptCode, RejectCode, LoadPeers, LoadFails, TruncatePeers, WritePeers, NotifyPaired,
       EndPairing, EndStream, DropConnection, pairing

\* Nor does a forget touch the pairing mode.
LEMMA EditorStepKeepsPairing ==
    ASSUME NEW f \in Editors, EditorStep(f)
    PROVE  UNCHANGED <<up, token, shown, win, heard, answer>>
BY DEF EditorStep, LoadForget, TruncateForget, WriteForget, Kick, pairing

\* No code outlives its window, nor the daemon (Pairing::begin and end).
THEOREM CodesExpireAlways == Spec => []CodesExpire
<1> DEFINE Inv == CodesExpire /\ WindowsNeedDaemon
<1> USE DEF CodesExpire, WindowsNeedDaemon
<1>1. Init => Inv
  BY DistinctCodes DEF Init, Codes
<1>2. TypeOK /\ Inv /\ [Next]_vars => Inv'
  <2> SUFFICES ASSUME TypeOK, Inv, [Next]_vars PROVE Inv'
    OBVIOUS
  <2> USE DistinctCodes DEF Codes
  <2>1. ASSUME NEW c \in Conns, ConnStep(c) PROVE Inv'
    BY <2>1, ConnStepKeepsWindows
  <2>2. ASSUME NEW w \in Windows, WindowStep(w) PROVE Inv'
    BY <2>2 DEF WindowStep, Subscribe, Begin, HearPaired, TimeOut, EndWindow, TypeOK
  <2>3. ASSUME NEW f \in Editors, EditorStep(f) PROVE Inv'
    BY <2>3, EditorStepKeepsPairing
  <2>4. ASSUME NEW code \in BootCodes \cup {NoOne}, Start(code) PROVE Inv'
    BY <2>4 DEF Start
  <2>5. CASE Crash
    BY <2>5 DEF Crash
  <2>6. CASE UNCHANGED vars
    BY <2>6 DEF vars, pairing
  <2>7. QED
    BY <2>1, <2>2, <2>3, <2>4, <2>5, <2>6 DEF Next
<1>3. QED
  BY <1>1, <1>2, TypeCorrect, PTL DEF Spec

-----------------------------------------------------------------------------
\* Trust starts with a code, and the window's answer with a save.
THEOREM AdmissionAlways == Spec => []AdmissionInv
<1> USE DistinctCodes, DistinctWriters
    DEF AdmissionInv, SlotsAreFresh, HandlersAreAdmitted, TrustNeedsCode, PairedAnswerIsTrue,
        file, pairing, conn, editing, history, Codes, Editors, Writers
<1>1. Init => AdmissionInv
  BY DEF Init
<1>2. TypeOK /\ AdmissionInv /\ [Next]_vars => AdmissionInv'
  <2> SUFFICES ASSUME TypeOK, AdmissionInv, [Next]_vars PROVE AdmissionInv'
    OBVIOUS
  <2> USE DEF TypeOK
  <2>1. ASSUME NEW c \in Conns, NEW p \in Phones, Accept(c, p) PROVE AdmissionInv'
    BY <2>1 DEF Accept
  <2>2. ASSUME NEW c \in Conns, Register(c) PROVE AdmissionInv'
    BY <2>2 DEF Register
  <2>3. ASSUME NEW c \in Conns, NewStream(c) PROVE AdmissionInv'
    BY <2>3 DEF NewStream
  <2>4. ASSUME NEW c \in Conns, Close(c) PROVE AdmissionInv'
    BY <2>4 DEF Close
  <2>5. ASSUME NEW c \in Conns, NEW l, SendLine(c, l) PROVE AdmissionInv'
    BY <2>5 DEF SendLine
  <2>6. ASSUME NEW c \in Conns, ReceiveUse(c) PROVE AdmissionInv'
    BY <2>6 DEF ReceiveUse, EvaluateTrust, IsTrusted, Readable, AfterReply
  <2>7. ASSUME NEW c \in Conns, ReceivePair(c) PROVE AdmissionInv'
    BY <2>7 DEF ReceivePair, EvaluateTrust, IsTrusted, Readable
  <2>8. ASSUME NEW c \in Conns, AcceptCode(c) PROVE AdmissionInv'
    BY <2>8 DEF AcceptCode
  <2>9. ASSUME NEW c \in Conns, RejectCode(c) PROVE AdmissionInv'
    BY <2>9 DEF RejectCode, AfterReply
  <2>10. ASSUME NEW c \in Conns, LoadPeers(c) PROVE AdmissionInv'
    BY <2>10 DEF LoadPeers, NothingToSave, Readable, Saving
  <2>11. ASSUME NEW c \in Conns, LoadFails(c) PROVE AdmissionInv'
    BY <2>11 DEF LoadFails, Readable
  <2>12. ASSUME NEW c \in Conns, TruncatePeers(c) PROVE AdmissionInv'
    BY <2>12 DEF TruncatePeers, Truncate
  <2>13. ASSUME NEW c \in Conns, WritePeers(c) PROVE AdmissionInv'
    BY <2>13 DEF WritePeers, Write, Saving
  <2>14. ASSUME NEW c \in Conns, NotifyPaired(c) PROVE AdmissionInv'
    BY <2>14 DEF NotifyPaired
  <2>15. ASSUME NEW c \in Conns, EndPairing(c) PROVE AdmissionInv'
    BY <2>15 DEF EndPairing, AfterReply
  <2>16. ASSUME NEW c \in Conns, EndStream(c) PROVE AdmissionInv'
    BY <2>16 DEF EndStream
  <2>17. ASSUME NEW c \in Conns, DropConnection(c) PROVE AdmissionInv'
    BY <2>17 DEF DropConnection
  <2>18. ASSUME NEW w \in Windows, WindowStep(w) PROVE AdmissionInv'
    BY <2>18 DEF WindowStep, Subscribe, Begin, HearPaired, TimeOut, EndWindow
  <2>19. ASSUME NEW f \in Editors, NEW p \in Phones, LoadForget(f, p) PROVE AdmissionInv'
    BY <2>19 DEF LoadForget, IsTrusted, Readable
  <2>20. ASSUME NEW f \in Editors, TruncateForget(f) PROVE AdmissionInv'
    BY <2>20 DEF TruncateForget, Truncate
  <2>21. ASSUME NEW f \in Editors, WriteForget(f) PROVE AdmissionInv'
    BY <2>21 DEF WriteForget, Write, Saving
  <2>22. ASSUME NEW f \in Editors, Kick(f) PROVE AdmissionInv'
    BY <2>22 DEF Kick
  <2>23. ASSUME NEW code \in BootCodes \cup {NoOne}, Start(code) PROVE AdmissionInv'
    BY <2>23 DEF Start
  <2>24. CASE Crash
    BY <2>24 DEF Crash
  <2>25. CASE UNCHANGED vars
    BY <2>25 DEF vars
  <2>26. QED
    BY <2>1, <2>2, <2>3, <2>4, <2>5, <2>6, <2>7, <2>8, <2>9, <2>10, <2>11, <2>12, <2>13,
       <2>14, <2>15, <2>16, <2>17, <2>18, <2>19, <2>20, <2>21, <2>22, <2>23, <2>24,
       <2>25
       DEF Next, ConnStep, EditorStep
<1>3. QED
  BY <1>1, <1>2, TypeCorrect, PTL DEF Spec

\* Nobody is trusted without a code.
THEOREM TrustNeedsCodeAlways == Spec => []TrustNeedsCode
<1>1. AdmissionInv => TrustNeedsCode
  BY DEF AdmissionInv
<1>2. QED
  BY <1>1, AdmissionAlways, PTL

\* "PAIRED name" comes after the save.
THEOREM PairedAnswerIsTrueAlways == Spec => []PairedAnswerIsTrue
<1>1. AdmissionInv => PairedAnswerIsTrue
  BY DEF AdmissionInv
<1>2. QED
  BY <1>1, AdmissionAlways, PTL

-----------------------------------------------------------------------------
\* Forgetting is final while no save has overwritten a newer file.
THEOREM ForgetInvAlways == Spec => []ForgetInv
<1> USE DistinctCodes, DistinctWriters
    DEF ForgetInv, SlotsAreFresh,
        file, pairing, conn, editing, history, Codes, Editors, Writers
<1>1. Init => ForgetInv
  BY DEF Init
<1>2. TypeOK /\ SlotsAreFresh /\ ForgetInv /\ [Next]_vars => ForgetInv'
  <2> SUFFICES ASSUME TypeOK, SlotsAreFresh, ForgetInv, [Next]_vars PROVE ForgetInv'
    OBVIOUS
  <2> USE DEF TypeOK
  <2>1. ASSUME NEW c \in Conns, NEW p \in Phones, Accept(c, p) PROVE ForgetInv'
    BY <2>1 DEF Accept
  <2>2. ASSUME NEW c \in Conns, Register(c) PROVE ForgetInv'
    BY <2>2 DEF Register
  <2>3. ASSUME NEW c \in Conns, NewStream(c) PROVE ForgetInv'
    BY <2>3 DEF NewStream
  <2>4. ASSUME NEW c \in Conns, Close(c) PROVE ForgetInv'
    BY <2>4 DEF Close
  <2>5. ASSUME NEW c \in Conns, NEW l, SendLine(c, l) PROVE ForgetInv'
    BY <2>5 DEF SendLine
  <2>6. ASSUME NEW c \in Conns, ReceiveUse(c) PROVE ForgetInv'
    BY <2>6 DEF ReceiveUse, EvaluateTrust, IsTrusted, Readable, AfterReply
  <2>7. ASSUME NEW c \in Conns, ReceivePair(c) PROVE ForgetInv'
    BY <2>7 DEF ReceivePair, EvaluateTrust, IsTrusted, Readable
  <2>8. ASSUME NEW c \in Conns, AcceptCode(c) PROVE ForgetInv'
    BY <2>8 DEF AcceptCode
  <2>9. ASSUME NEW c \in Conns, RejectCode(c) PROVE ForgetInv'
    BY <2>9 DEF RejectCode, AfterReply
  <2>10. ASSUME NEW c \in Conns, LoadPeers(c) PROVE ForgetInv'
    BY <2>10 DEF LoadPeers, NothingToSave, Readable, Saving
  <2>11. ASSUME NEW c \in Conns, LoadFails(c) PROVE ForgetInv'
    BY <2>11 DEF LoadFails, Readable
  <2>12. ASSUME NEW c \in Conns, TruncatePeers(c) PROVE ForgetInv'
    BY <2>12 DEF TruncatePeers, Truncate
  <2>13. ASSUME NEW c \in Conns, WritePeers(c) PROVE ForgetInv'
    <3> USE <2>13 DEF WritePeers, Write
    <3>1. (cut \subseteq revoked)'
      OBVIOUS
    <3>2. \A f \in Editors : (edit[f] \in {"saving", "writing"} => target[f] \notin copy[f])'
      OBVIOUS
    <3>3. ASSUME ~clobbered' PROVE ~clobbered /\ c \notin stale
      BY <3>3
    <3>4. ASSUME ~clobbered' PROVE (peers \cap revoked = {})'
      BY <3>3, <3>4
    <3>5. \A d \in Conns : (step[d] \in {"saving", "writing"} => d \in stale)'
      BY DEF Saving
    <3>6. \A f \in Editors : (edit[f] \in {"saving", "writing"} => f \in stale)'
      BY DEF Saving
    <3>7. ASSUME ~clobbered', NEW d \in Conns, open'[d], owner'[d] \in cut'
          PROVE  ~sessionTrusted'[d] /\ step'[d] \notin {"paired", "ending"}
      <4>1. CASE d # c
        BY <3>3, <3>7, <4>1
      <4>2. CASE d = c /\ disk' = "whole"
        BY <3>7, <4>2
      <4>3. CASE d = c /\ disk' # "whole"
        BY <3>3, <3>7, <4>3
      <4>4. QED
        BY <4>1, <4>2, <4>3
    <3>8. QED
      BY <3>1, <3>2, <3>4, <3>5, <3>6, <3>7
  <2>14. ASSUME NEW c \in Conns, NotifyPaired(c) PROVE ForgetInv'
    BY <2>14 DEF NotifyPaired
  <2>15. ASSUME NEW c \in Conns, EndPairing(c) PROVE ForgetInv'
    BY <2>15 DEF EndPairing, AfterReply
  <2>16. ASSUME NEW c \in Conns, EndStream(c) PROVE ForgetInv'
    BY <2>16 DEF EndStream
  <2>17. ASSUME NEW c \in Conns, DropConnection(c) PROVE ForgetInv'
    BY <2>17 DEF DropConnection
  <2>18. ASSUME NEW w \in Windows, WindowStep(w) PROVE ForgetInv'
    BY <2>18 DEF WindowStep, Subscribe, Begin, HearPaired, TimeOut, EndWindow
  <2>19. ASSUME NEW f \in Editors, NEW p \in Phones, LoadForget(f, p) PROVE ForgetInv'
    BY <2>19 DEF LoadForget, IsTrusted, Readable
  <2>20. ASSUME NEW f \in Editors, TruncateForget(f) PROVE ForgetInv'
    BY <2>20 DEF TruncateForget, Truncate
  <2>21. ASSUME NEW f \in Editors, WriteForget(f) PROVE ForgetInv'
    <3> USE <2>21 DEF WriteForget, Write
    <3>1. (cut \subseteq revoked)'
      OBVIOUS
    <3>2. ASSUME ~clobbered' PROVE (peers \cap revoked = {})'
      <4>1. copy[f] \cap revoked = {} /\ target[f] \notin copy[f]
        BY <3>2
      <4>2. peers' \subseteq copy[f] /\ revoked' = revoked \cup {target[f]}
        OBVIOUS
      <4>3. QED
        BY <4>1, <4>2
    <3>3. \A g \in Editors : (edit[g] \in {"saving", "writing"} => target[g] \notin copy[g])'
      OBVIOUS
    <3>4. \A c \in Conns : (step[c] \in {"saving", "writing"} => c \in stale)'
      BY DEF Saving
    <3>5. \A g \in Editors : (edit[g] \in {"saving", "writing"} => g \in stale)'
      BY DEF Saving
    <3>6. QED
      BY <3>1, <3>2, <3>3, <3>4, <3>5
  <2>22. ASSUME NEW f \in Editors, Kick(f) PROVE ForgetInv'
    BY <2>22 DEF Kick
  <2>23. ASSUME NEW code \in BootCodes \cup {NoOne}, Start(code) PROVE ForgetInv'
    BY <2>23 DEF Start
  <2>24. CASE Crash
    BY <2>24 DEF Crash
  <2>25. CASE UNCHANGED vars
    BY <2>25 DEF vars
  <2>26. QED
    BY <2>1, <2>2, <2>3, <2>4, <2>5, <2>6, <2>7, <2>8, <2>9, <2>10, <2>11, <2>12, <2>13,
       <2>14, <2>15, <2>16, <2>17, <2>18, <2>19, <2>20, <2>21, <2>22, <2>23, <2>24,
       <2>25
       DEF Next, ConnStep, EditorStep
<1>3. AdmissionInv => SlotsAreFresh
  BY DEF AdmissionInv
<1>4. QED
  BY <1>1, <1>2, <1>3, TypeCorrect, AdmissionAlways, PTL DEF Spec

\* A forgotten device stays out until it pairs again.
THEOREM ForgottenStaysOutAlways == Spec => []ForgottenStaysOut
<1>1. ForgetInv => ForgottenStaysOut
  BY DEF ForgetInv, ForgottenStaysOut
<1>2. QED
  BY <1>1, ForgetInvAlways, PTL

-----------------------------------------------------------------------------
\* A step that completes no pairing and leaves the file, the editors and the
\* other copies alone keeps every promise.
LEMMA PromisesKept ==
    ASSUME TypeOK, DurableInv,
           UNCHANGED <<peers, disk, edit, target, copy, revoked, stale, clobbered>>,
           Promised' \subseteq Promised,
           \A c \in Conns : step'[c] \in {"saving", "writing"} => step'[c] = step[c]
    PROVE  DurableInv'
BY DEF DurableInv, Readable

\* All but the last two steps of a pairing are such steps for a connection.
LEMMA ConnKeepsPromises ==
    ASSUME TypeOK, SlotsAreFresh, DurableInv, NEW c \in Conns, ConnStep(c)
    PROVE  DurableInv' \/ LoadPeers(c) \/ TruncatePeers(c) \/ WritePeers(c)
<1> USE DEF TypeOK, Promised, file, pairing, editing, history
<1>1. CASE \E p \in Phones : Accept(c, p)
  BY <1>1, PromisesKept DEF Accept
<1>2. CASE Register(c) \/ NewStream(c)
  BY <1>2, PromisesKept DEF Register, NewStream
<1>3. CASE Close(c) \/ \E l \in Codes \cup {"use", "wrong"} : SendLine(c, l)
  BY <1>3, PromisesKept DEF Close, SendLine
<1>4. CASE ReceiveUse(c)
  BY <1>4, PromisesKept DEF ReceiveUse, AfterReply
<1>5. CASE ReceivePair(c) \/ AcceptCode(c)
  BY <1>5, PromisesKept DEF ReceivePair, AcceptCode
<1>6. CASE RejectCode(c)
  BY <1>6, PromisesKept DEF RejectCode, AfterReply
<1>7. CASE LoadFails(c)
  BY <1>7, PromisesKept DEF LoadFails
<1>8. CASE NotifyPaired(c)
  BY <1>8, PromisesKept DEF NotifyPaired
<1>9. CASE EndPairing(c)
  BY <1>9, PromisesKept DEF EndPairing, AfterReply
<1>10. CASE EndStream(c)
  BY <1>10, PromisesKept DEF EndStream
<1>11. CASE DropConnection(c)
  BY <1>11, PromisesKept DEF DropConnection
<1>12. QED
  BY <1>1, <1>2, <1>3, <1>4, <1>5, <1>6, <1>7, <1>8, <1>9, <1>10, <1>11 DEF ConnStep

\* Every step keeps every promise that is not taken back.
LEMMA DurableStep == TypeOK /\ AdmissionInv /\ DurableInv /\ [Next]_vars => DurableInv'
<1> SUFFICES ASSUME TypeOK, AdmissionInv, DurableInv, [Next]_vars PROVE DurableInv'
  OBVIOUS
<1> USE DistinctWriters DEF file, pairing, conn, editing, history, Editors, Writers
<1>1. ASSUME NEW c \in Conns, LoadPeers(c) PROVE DurableInv'
  <2>1. CASE NothingToSave(owner[c])
    <3>1. owner[c] \in peers /\ Readable /\ step' = [step EXCEPT ![c] = "paired"]
          /\ UNCHANGED <<peers, disk, owner, edit, target, copy, told, revoked, stale, clobbered>>
      BY <1>1, <2>1 DEF LoadPeers, NothingToSave
    <3>2. Promised' \subseteq Promised \cup {owner[c]}
      BY <3>1 DEF Promised, TypeOK
    <3>3. QED
      BY <3>1, <3>2 DEF DurableInv, Readable, TypeOK
  <2>2. CASE ~NothingToSave(owner[c])
    <3>1. copy' = [copy EXCEPT ![c] = peers \cup {owner[c]}] /\ Readable
          /\ step' = [step EXCEPT ![c] = "saving"] /\ step[c] = "matched"
          /\ UNCHANGED <<peers, disk, owner, edit, target, told, revoked, stale, clobbered>>
      BY <1>1, <2>2 DEF LoadPeers
    <3>2. Promised' = Promised
      BY <3>1 DEF Promised, TypeOK
    <3>3. QED
      BY <3>1, <3>2 DEF DurableInv, Readable, TypeOK
  <2>3. QED
    BY <2>1, <2>2
<1>2. ASSUME NEW c \in Conns, TruncatePeers(c) PROVE DurableInv'
  <2>1. Promised' = Promised
    BY <1>2 DEF TruncatePeers, Promised, TypeOK
  <2>2. QED
    BY <1>2, <2>1 DEF TruncatePeers, Truncate, DurableInv, Readable, TypeOK
<1>3. ASSUME NEW c \in Conns, WritePeers(c) PROVE DurableInv'
  <2>1. Promised' \subseteq Promised \cup {owner[c]}
    BY <1>3 DEF WritePeers, Promised, TypeOK
  <2>2. /\ \A d \in Conns : step'[d] \in {"saving", "writing"} => d \in stale'
        /\ \A f \in Editors : edit'[f] \in {"saving", "writing"} => f \in stale'
    BY <1>3 DEF WritePeers, Write, Saving, TypeOK
  <2>3. ASSUME ~clobbered', Readable' PROVE (Promised \ revoked \subseteq peers)'
    <3>1. ~clobbered /\ c \notin stale
      BY <1>3, <2>3 DEF WritePeers, Write, TypeOK
    <3>2. peers' = copy[c] /\ revoked' = revoked \ {owner[c]}
      BY <1>3, <2>3 DEF WritePeers, Write, Readable
    <3>3. owner[c] \in copy[c] /\ Promised \ revoked \subseteq copy[c]
      BY <1>3, <3>1 DEF WritePeers, AdmissionInv, HandlersAreAdmitted, DurableInv
    <3>4. QED
      BY <2>1, <3>2, <3>3
  <2>4. QED
    BY <2>2, <2>3 DEF DurableInv
<1>4. ASSUME NEW f \in Editors, NEW p \in Phones, LoadForget(f, p) PROVE DurableInv'
  <2>1. Promised' = Promised
    BY <1>4 DEF LoadForget, Promised
  <2>2. QED
    BY <1>4, <2>1 DEF LoadForget, IsTrusted, DurableInv, Readable, TypeOK
<1>5. ASSUME NEW f \in Editors, TruncateForget(f) PROVE DurableInv'
  <2>1. Promised' = Promised
    BY <1>5 DEF TruncateForget, Promised
  <2>2. QED
    BY <1>5, <2>1 DEF TruncateForget, Truncate, DurableInv, Readable, TypeOK
<1>6. ASSUME NEW f \in Editors, WriteForget(f) PROVE DurableInv'
  <2>1. Promised' = Promised
    BY <1>6 DEF WriteForget, Promised
  <2>2. /\ \A d \in Conns : step'[d] \in {"saving", "writing"} => d \in stale'
        /\ \A g \in Editors : edit'[g] \in {"saving", "writing"} => g \in stale'
    BY <1>6 DEF WriteForget, Write, Saving, TypeOK
  <2>3. ASSUME ~clobbered', Readable' PROVE (Promised \ revoked \subseteq peers)'
    <3>1. ~clobbered /\ f \notin stale
      BY <1>6, <2>3 DEF WriteForget, Write, TypeOK
    <3>2. peers' = copy[f] /\ revoked' = revoked \cup {target[f]}
      BY <1>6, <2>3 DEF WriteForget, Write, Readable
    <3>3. Promised \ revoked \subseteq copy[f] \cup {target[f]}
      BY <1>6, <3>1 DEF WriteForget, DurableInv
    <3>4. QED
      BY <2>1, <3>2, <3>3
  <2>4. QED
    BY <2>2, <2>3 DEF DurableInv
<1>7. ASSUME NEW f \in Editors, Kick(f) PROVE DurableInv'
  <2>1. Promised' = Promised
    BY <1>7 DEF Kick, Promised
  <2>2. QED
    BY <1>7, <2>1 DEF Kick, DurableInv, Readable, TypeOK
<1>8. CASE Crash
  <2>1. Promised' \subseteq Promised
    BY <1>8 DEF Crash, Promised
  <2>2. \A f \in Editors : edit'[f] \in {"saving", "writing"} =>
          f \in Tools /\ edit'[f] = edit[f] /\ target'[f] = target[f] /\ copy'[f] = copy[f]
    BY <1>8 DEF Crash
  <2>3. QED
    BY <1>8, <2>1, <2>2 DEF Crash, DurableInv, Readable
<1>9. ASSUME NEW w \in Windows, WindowStep(w) PROVE DurableInv'
  <2>1. UNCHANGED <<peers, disk, edit, target, copy, told, revoked, stale, clobbered, step, owner>>
    BY <1>9 DEF WindowStep, Subscribe, Begin, HearPaired, TimeOut, EndWindow
  <2>2. QED
    BY <2>1, PromisesKept DEF Promised
<1>10. CASE (\E code \in BootCodes \cup {NoOne} : Start(code)) \/ UNCHANGED vars
  <2>1. UNCHANGED <<peers, disk, edit, target, copy, told, revoked, stale, clobbered, step, owner>>
    BY <1>10 DEF Start, vars
  <2>2. QED
    BY <2>1, PromisesKept DEF Promised
<1>11. QED
  BY <1>1, <1>2, <1>3, <1>4, <1>5, <1>6, <1>7, <1>8, <1>9, <1>10, ConnKeepsPromises
     DEF Next, EditorStep, AdmissionInv

\* Who was answered PairOk is in peers.json until it is forgotten, while no save
\* overwrites a newer file (server.rs, PairRequest; identity.rs, add).
THEOREM PairOkIsDurableAlways == Spec => []PairOkIsDurable
<1>1. Init => DurableInv
  BY DEF Init, DurableInv, Promised
<1>2. DurableInv => PairOkIsDurable
  BY DEF DurableInv, PairOkIsDurable, Promised
<1>3. QED
  BY <1>1, <1>2, DurableStep, TypeCorrect, AdmissionAlways, PTL DEF Spec

-----------------------------------------------------------------------------
(* Refinement: peers.json, which tasks load, truncate and write in steps,  *)
(* implements the set of devices of TrustedDevices.                        *)

\* A copy that is as new as the file has its writer's change and no other; the
\* file has the devices that are listed, or cannot be read.
ListInv ==
    /\ revoked \subseteq stored /\ Listed \subseteq admitted
    /\ peers = IF Readable THEN Listed ELSE {}
    /\ \A c \in Conns : step[c] \in {"saving", "writing"} /\ c \notin stale
                          => owner[c] \notin Listed /\ copy[c] = Listed \cup {owner[c]}
    /\ \A f \in Editors : edit[f] \in {"saving", "writing"} /\ f \notin stale
                           => target[f] \in Listed /\ copy[f] = Listed \ {target[f]}
    /\ \A c \in Conns : step[c] = "writing" /\ c \notin stale => disk = "empty"
    /\ \A f \in Editors : edit[f] = "writing" /\ f \notin stale => disk = "empty"

\* Nothing changes for the file and for those who save it.
LEMMA ListKept ==
    ASSUME ListInv, UNCHANGED <<peers, disk, copy, stored, revoked>>, admitted \subseteq admitted',
           \A c \in Conns : step'[c] \in {"saving", "writing"} /\ c \notin stale'
                             => step'[c] = step[c] /\ owner'[c] = owner[c] /\ c \notin stale,
           \A f \in Editors : edit'[f] \in {"saving", "writing"} /\ f \notin stale'
                              => edit'[f] = edit[f] /\ target'[f] = target[f] /\ f \notin stale
    PROVE  ListInv'
BY DEF ListInv, Listed, Readable

\* A save of a fresh copy, which makes all the others old.
LEMMA ListWritten ==
    ASSUME ListInv, revoked' \subseteq stored', Listed' \subseteq admitted',
           peers' = Listed', disk' = "whole",
           \A c \in Conns : step'[c] \in {"saving", "writing"} => c \in stale',
           \A f \in Editors : edit'[f] \in {"saving", "writing"} => f \in stale'
    PROVE  ListInv'
BY DEF ListInv, Readable

LEMMA ListTruncated ==
    ASSUME ListInv, Truncate, UNCHANGED <<copy, stored, revoked, admitted, stale, owner, target>>,
           \A c \in Conns : step'[c] \in {"saving", "writing"} => step[c] \in {"saving", "writing"},
           \A f \in Editors : edit'[f] \in {"saving", "writing"} => edit[f] \in {"saving", "writing"}
    PROVE  ListInv'
BY DEF ListInv, Listed, Readable, Truncate

LEMMA RegistryStep ==
    ASSUME TypeOK, AdmissionInv, ListInv, [Next]_vars, ~clobbered'
    PROVE  ListInv' /\ [Registry!Next]_Registry!registry
<1> USE DistinctWriters
    DEF TypeOK, file, pairing, conn, editing, history, Editors, Writers, Registry!registry
<1>1. ASSUME NEW c \in Conns, ConnStep(c)
      PROVE  \/ ListInv' /\ UNCHANGED <<Listed, peers, admitted>>
             \/ AcceptCode(c) \/ LoadPeers(c) \/ TruncatePeers(c) \/ WritePeers(c)
  <2> USE DEF Listed
  <2>1. CASE \E p \in Phones : Accept(c, p)
      BY <2>1, ListKept DEF Accept
  <2>2. CASE Register(c) \/ NewStream(c) \/ Close(c)
      BY <2>2, ListKept DEF Register, NewStream, Close
  <2>3. CASE \E l \in Codes \cup {"use", "wrong"} : SendLine(c, l)
      BY <2>3, ListKept DEF SendLine
  <2>4. CASE ReceiveUse(c) \/ ReceivePair(c)
      BY <2>4, ListKept DEF ReceiveUse, ReceivePair, AfterReply
  <2>5. CASE RejectCode(c) \/ LoadFails(c)
      BY <2>5, ListKept DEF RejectCode, LoadFails, AfterReply
  <2>6. CASE NotifyPaired(c) \/ EndPairing(c)
      BY <2>6, ListKept DEF NotifyPaired, EndPairing, AfterReply
  <2>7. CASE EndStream(c) \/ DropConnection(c)
      BY <2>7, ListKept DEF EndStream, DropConnection
  <2> QED
      BY <1>1, <2>1, <2>2, <2>3, <2>4, <2>5, <2>6, <2>7 DEF ConnStep
<1>2. ASSUME NEW c \in Conns, AcceptCode(c) PROVE ListInv' /\ [Registry!Next]_Registry!registry
  <2>1. ListInv'
      BY <1>2, ListKept DEF AcceptCode
  <2>2. Registry!Present(owner[c]) /\ owner[c] \in Phones
      BY <1>2 DEF AcceptCode, Registry!Present, Listed
  <2> QED
      BY <2>1, <2>2 DEF Registry!Next
<1>3. ASSUME NEW c \in Conns, LoadPeers(c)
      PROVE  ListInv' /\ UNCHANGED <<Listed, peers, admitted>>
  <2>1. CASE NothingToSave(owner[c])
      BY <1>3, <2>1, ListKept DEF LoadPeers, Listed
  <2>2. CASE ~NothingToSave(owner[c])
      BY <1>3, <2>2 DEF LoadPeers, NothingToSave, ListInv, Readable, Listed
  <2> QED
      BY <2>1, <2>2
<1>4. ASSUME NEW f \in Editors, NEW p \in Phones, LoadForget(f, p)
      PROVE  ListInv' /\ UNCHANGED <<Listed, peers, admitted>>
    BY <1>4 DEF LoadForget, IsTrusted, ListInv, Readable, Listed
<1>5. ASSUME \/ \E c \in Conns : TruncatePeers(c)
             \/ \E f \in Editors : TruncateForget(f)
      PROVE  ListInv' /\ Registry!Withhold
    BY <1>5, ListTruncated
       DEF TruncatePeers, TruncateForget, Truncate, Registry!Withhold, Listed
<1>6. ASSUME NEW c \in Conns, WritePeers(c) PROVE ListInv' /\ Registry!Pair(owner[c])
  <2>1. /\ disk = "empty" /\ owner[c] \notin Listed /\ copy[c] = Listed \cup {owner[c]}
        /\ owner[c] \in admitted
      BY <1>6 DEF WritePeers, Write, ListInv, AdmissionInv, HandlersAreAdmitted
  <2>2. /\ peers' = copy[c] /\ disk' = "whole" /\ stored' = stored \cup copy[c]
        /\ revoked' = revoked \ {owner[c]} /\ admitted' = admitted
      BY <1>6, <2>1 DEF WritePeers, Write
  <2>3. Listed' = Listed \cup {owner[c]} /\ revoked' \subseteq stored' /\ Listed' \subseteq admitted'
      BY <2>1, <2>2 DEF Listed, ListInv
  <2>4. /\ \A d \in Conns : step'[d] \in {"saving", "writing"} => d \in stale'
        /\ \A f \in Editors : edit'[f] \in {"saving", "writing"} => f \in stale'
      BY <1>6 DEF WritePeers, Write, Saving
  <2> QED
      BY <2>1, <2>2, <2>3, <2>4, ListWritten DEF Registry!Pair
<1>7. ASSUME NEW f \in Editors, WriteForget(f) PROVE ListInv' /\ Registry!Forget(target[f])
  <2>1. disk = "empty" /\ target[f] \in Listed /\ copy[f] = Listed \ {target[f]}
      BY <1>7 DEF WriteForget, Write, ListInv
  <2>2. /\ peers' = copy[f] /\ disk' = "whole" /\ stored' = stored \cup copy[f]
        /\ revoked' = revoked \cup {target[f]} /\ admitted' = admitted
      BY <1>7, <2>1 DEF WriteForget, Write
  <2>3. Listed' = Listed \ {target[f]} /\ revoked' \subseteq stored' /\ Listed' \subseteq admitted'
      BY <2>1, <2>2 DEF Listed, ListInv
  <2>4. /\ \A d \in Conns : step'[d] \in {"saving", "writing"} => d \in stale'
        /\ \A g \in Editors : edit'[g] \in {"saving", "writing"} => g \in stale'
      BY <1>7 DEF WriteForget, Write, Saving
  <2> QED
      BY <2>1, <2>2, <2>3, <2>4, ListWritten DEF Registry!Forget
<1>8. ASSUME NEW f \in Editors, Kick(f)
      PROVE  ListInv' /\ UNCHANGED <<Listed, peers, admitted>>
    BY <1>8, ListKept DEF Kick, Listed
<1>9. CASE Crash
  <2>1. \A f \in Editors : edit'[f] \in {"saving", "writing"} =>
          /\ f \in Tools /\ edit'[f] = edit[f] /\ target'[f] = target[f]
          /\ copy'[f] = copy[f] /\ (f \in stale' <=> f \in stale)
      BY <1>9 DEF Crash
  <2>2. \A c \in Conns : step'[c] = "none"
      BY <1>9 DEF Crash
  <2>3. UNCHANGED <<peers, disk, stored, revoked, admitted>>
      BY <1>9 DEF Crash
  <2> QED
      BY <2>1, <2>2, <2>3 DEF ListInv, Readable, Listed
<1>10. CASE \/ \E w \in Windows : WindowStep(w)
            \/ \E code \in BootCodes \cup {NoOne} : Start(code)
            \/ UNCHANGED vars
  <2>1. UNCHANGED <<peers, disk, edit, target, copy, stored, revoked, admitted, stale, step, owner>>
      BY <1>10 DEF WindowStep, Subscribe, Begin, HearPaired, TimeOut, EndWindow, Start, vars
  <2> QED
      BY <2>1, ListKept DEF Listed
<1>11. /\ \A c \in Conns : step[c] = "writing" => owner[c] \in Phones
       /\ \A f \in Editors : edit[f] = "writing" => target[f] \in Phones
    OBVIOUS
<1>12. ASSUME NEW c \in Conns, ConnStep(c) PROVE ListInv' /\ [Registry!Next]_Registry!registry
  <2>1. CASE WritePeers(c)
      BY <1>6, <1>11, <2>1 DEF WritePeers, Registry!Next
  <2>2. CASE TruncatePeers(c)
      BY <1>5, <2>2 DEF Registry!Next
  <2> QED
      BY <1>1, <1>2, <1>3, <1>12, <2>1, <2>2
<1>13. ASSUME NEW f \in Editors, EditorStep(f) PROVE ListInv' /\ [Registry!Next]_Registry!registry
  <2>1. CASE WriteForget(f)
      BY <1>7, <1>11, <2>1 DEF WriteForget, Registry!Next
  <2>2. CASE TruncateForget(f)
      BY <1>5, <2>2 DEF Registry!Next
  <2> QED
      BY <1>4, <1>8, <1>13, <2>1, <2>2 DEF EditorStep
<1> QED
    BY <1>9, <1>10, <1>12, <1>13 DEF Next

LEMMA RegistryInit == Init => ListInv /\ Registry!Init
BY DEF Init, ListInv, Registry!Init, Listed, Readable

\* What has overwritten a newer file has done so for ever.
LEMMA ClobberedStays == TypeOK /\ [Next]_vars /\ ~clobbered' => ~clobbered
BY DEF TypeOK, Next, ConnStep, WindowStep, EditorStep, vars, history, Accept, Register, NewStream,
       SendLine, Close, ReceiveUse, ReceivePair, AcceptCode, RejectCode, LoadPeers, LoadFails,
       TruncatePeers, WritePeers, Write, NotifyPaired, EndPairing, EndStream, DropConnection,
       Subscribe, Begin, HearPaired, TimeOut, EndWindow, LoadForget, TruncateForget,
       WriteForget, Kick, Start, Crash

LEMMA ListInvHolds == Spec => [](~clobbered => ListInv)
<1>1. TypeOK /\ AdmissionInv /\ (~clobbered => ListInv) /\ [Next]_vars => (~clobbered => ListInv)'
    BY RegistryStep, ClobberedStays
<1> QED
    BY <1>1, RegistryInit, TypeCorrect, AdmissionAlways, PTL DEF Spec

(* As long as no save overwrites a newer file, peers.json is a set that    *)
(* each pairing and each forget changes in one step, through all the steps *)
(* of the tasks that load and save it, crashes and restarts (identity.rs,  *)
(* load, save, add and forget; server.rs, PairRequest; control.rs,         *)
(* forget_device).                                                         *)
THEOREM TrustIsASet == Spec /\ []~clobbered => Registry!Spec
<1>1. TypeOK /\ AdmissionInv /\ (~clobbered => ListInv) /\ [Next]_vars /\ ~clobbered /\ ~clobbered'
      => [Registry!Next]_Registry!registry
    BY RegistryStep
<1> QED
    BY <1>1, RegistryInit, ListInvHolds, TypeCorrect, AdmissionAlways, PTL DEF Spec, Registry!Spec

(* Then the PC trusts exactly the devices that were paired and not         *)
(* forgotten since, each after a code, or nobody, while the file cannot be *)
(* read (identity.rs, is_trusted).                                         *)
THEOREM AllAreTrustedOrNone == Spec => [](~clobbered => Registry!AllOrNobody)
<1>1. ListInv => Registry!AllOrNobody
    BY DEF ListInv, Registry!AllOrNobody
<1> QED
    BY <1>1, ListInvHolds, PTL
=============================================================================
