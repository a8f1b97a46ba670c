--------------------------- MODULE TransferProofs ---------------------------
(***************************************************************************)
(* Theorems about Transfer for every set of phones, offers and uploads and *)
(* any number of names.  The two directions share nothing but the restart  *)
(* of the daemon, so there is an inductive invariant for each.             *)
(***************************************************************************)
EXTENDS Transfer, FiniteSetTheorems, TLAPS

-----------------------------------------------------------------------------
(* PC to phone.                                                            *)

Progress == {"none", "told", "asked", "sending", "ended", "received", "failed"}

\* At any time finitely many phones are connected, as they connect one by one.
DownTypes ==
    /\ link \subseteq Phones /\ IsFiniteSet(link)
    /\ told \in [Offers -> SUBSET Phones] /\ \A o \in Offers : IsFiniteSet(told[o])
    /\ pending \subseteq Offers /\ unread \subseteq Offers
    /\ pull \in [Phones -> [Offers -> Progress]]
    /\ got \in [Phones -> [Offers -> {"nothing", "part", "all"}]]

\* Only a phone that was told pulls.  When it is the only one, the offer waits
\* for it until it is served, and a pull that ended brought the file.
DownInv ==
    /\ DownTypes
    /\ \A p \in Phones, o \in Offers :
          /\ pull[p][o] # "none" => p \in told[o]
          /\ Cardinality(told[o]) = 1 =>
               /\ pull[p][o] \in {"told", "asked"} => o \in pending
               /\ pull[p][o] \in {"ended", "received"} /\ o \notin unread
                    => got[p][o] = "all"

\* Two phones are not the only one.
LEMMA OnlyOne ==
    ASSUME NEW S, IsFiniteSet(S), Cardinality(S) = 1, NEW p \in S, NEW q \in S
    PROVE  p = q
<1>1. PICK x : S = {x}
    BY FS_Singleton
<1> QED
    BY <1>1

-----------------------------------------------------------------------------
(* Phone to PC.                                                            *)

UploadStages == {"new", "chosen", "writing", "filling", "failing", "ok", "failed", "cut"}

UpTypes ==
    /\ upload \in [Uploads -> UploadStages]
    /\ dest \in [Uploads -> Names]
    /\ fd \in [Uploads -> Inodes \cup {None}]
    /\ dir \in [Names -> Inodes \cup {None}]
    /\ data \in [Inodes -> SUBSET Uploads]
    /\ saved \in BOOLEAN /\ raced \in BOOLEAN

\* An upload that has chosen its name and has no file yet finds the name free.
GapIsFree ==
    \A u \in Uploads : upload[u] \in {"chosen", "failing"} /\ fd[u] = None => dir[dest[u]] = None

\* An upload that has a file made it itself.
OwnFiles == \A u \in Uploads : fd[u] \in {u, None}

\* The file is there under the upload's name while it is filled and after, and
\* holds what the upload has written and nothing else.
FilesInPlace ==
    \A u \in Uploads :
        /\ upload[u] \in {"writing", "filling", "ok"} => fd[u] = u
        /\ upload[u] \in {"new", "chosen"} => fd[u] = None
        /\ upload[u] \in {"writing", "filling", "failing", "ok"} /\ fd[u] = u
             => dir[dest[u]] = u
        /\ upload[u] \in {"filling", "ok"} => data[u] = {u}
        /\ data[u] \subseteq {u}

\* A file in the folder has the name its upload has chosen, and is not that of
\* an upload that failed.
NamesAreRight ==
    \A n \in Names : dir[n] \in Uploads =>
        /\ dest[dir[n]] = n /\ fd[dir[n]] = dir[n] /\ upload[dir[n]] # "failed"

UserFile ==
    /\ data[User] = {}
    /\ saved <=> \E n \in Names : dir[n] = User

UpInv ==
    /\ UpTypes
    /\ ~raced => GapIsFree /\ OwnFiles /\ FilesInPlace /\ NamesAreRight /\ UserFile

-----------------------------------------------------------------------------
\* Nothing an upload does touches the offers.
LEMMA UploadsApart ==
    /\ \A u \in Uploads : Uploading(u) => UNCHANGED downloads
    /\ \A n \in Names : UserSaves(n) => UNCHANGED downloads
BY DEF Uploading, Choose, Create, Fill, Fail, RemoveFile, UserSaves

\* Nor does a download touch the folder.
LEMMA DownloadsApart ==
    /\ \A p \in Phones : Download(p) => UNCHANGED uploads
    /\ \A o \in Offers : OfferToAll(o) => UNCHANGED uploads
BY DEF Download, Connect, Disconnect, OfferToAll, OfferTo, Announce, Ask, Serve, SendAll,
       SendFails, ReportReceived

\* An announcement reaches phones that had not heard of the offer.
LEMMA AnnounceStep ==
    ASSUME DownInv, NEW o \in Offers, NEW audience \in SUBSET link, Announce(o, audience)
    PROVE  DownInv'
<1> USE DEF DownInv, DownTypes, Progress
<1>1. DownTypes'
  <2>1. IsFiniteSet(audience)
    BY FS_Subset
  <2>2. told' \in [Offers -> SUBSET Phones] /\ \A q \in Offers : IsFiniteSet(told'[q])
    BY <2>1 DEF Announce
  <2>3. pull' \in [Phones -> [Offers -> Progress]]
    BY DEF Announce
  <2> QED
    BY <2>2, <2>3 DEF Announce
<1>2. \A p \in Phones : pull[p][o] = "none"
    BY DEF Announce
<1>3. \A p \in Phones : pull'[p][o] = IF p \in audience THEN "told" ELSE "none"
    BY <1>2 DEF Announce
<1>4. \A p \in Phones, q \in Offers \ {o} : pull'[p][q] = pull[p][q] /\ told'[q] = told[q]
    BY DEF Announce
<1>5. told'[o] = audience /\ pending' = pending \cup {o} /\ UNCHANGED <<got, unread>>
    BY DEF Announce
<1> QED
    BY <1>1, <1>3, <1>4, <1>5

\* Every step keeps DownInv.
LEMMA DownStep == DownInv /\ [Next]_vars => DownInv'
<1> SUFFICES ASSUME DownInv, [Next]_vars PROVE DownInv'
    OBVIOUS
<1> USE DEF DownInv, DownTypes, Progress
<1>1. ASSUME NEW p \in Phones, Connect(p) PROVE DownInv'
    BY <1>1, FS_AddElement DEF Connect
<1>2. ASSUME NEW p \in Phones, Disconnect(p) PROVE DownInv'
  <2>1. IsFiniteSet(link')
    BY <1>2, FS_RemoveElement DEF Disconnect
  <2>2. \A q \in Phones, o \in Offers : pull'[q][o] \in {pull[q][o], "failed"}
                                        /\ (pull[q][o] = "none" => pull'[q][o] = "none")
    BY <1>2 DEF Disconnect, Broken, GoingOn
  <2>3. pull' \in [Phones -> [Offers -> Progress]]
    BY <1>2 DEF Disconnect, Broken
  <2> QED
    BY <1>2, <2>1, <2>2, <2>3 DEF Disconnect
<1>3. ASSUME NEW o \in Offers, OfferToAll(o) PROVE DownInv'
    BY <1>3, AnnounceStep DEF OfferToAll
<1>4. ASSUME NEW o \in Offers, NEW p \in Phones, OfferTo(o, p) PROVE DownInv'
    BY <1>4, AnnounceStep DEF OfferTo
<1>5. ASSUME NEW p \in Phones, NEW o \in Offers, Ask(p, o) PROVE DownInv'
    BY <1>5 DEF Ask
<1>6. ASSUME NEW p \in Phones, NEW o \in Offers, Serve(p, o) PROVE DownInv'
  <2>1. \A q \in Phones : Cardinality(told[o]) = 1 /\ pull[q][o] # "none" => q = p
    BY <1>6, OnlyOne DEF Serve
  <2>2. Cardinality(told[o]) = 1 => o \in pending
    BY <1>6 DEF Serve
  <2> QED
    BY <1>6, <2>1, <2>2 DEF Serve
<1>7. ASSUME NEW p \in Phones, NEW o \in Offers, SendAll(p, o) PROVE DownInv'
    BY <1>7 DEF SendAll
<1>8. ASSUME NEW p \in Phones, NEW o \in Offers, SendFails(p, o) PROVE DownInv'
    BY <1>8 DEF SendFails
<1>9. ASSUME NEW p \in Phones, NEW o \in Offers, ReportReceived(p, o) PROVE DownInv'
    BY <1>9 DEF ReportReceived
<1>10. CASE Restart
  <2>1. \A q \in Phones, o \in Offers :
           /\ pull'[q][o] \in {pull[q][o], "failed"} /\ pull'[q][o] \notin GoingOn
           /\ pull[q][o] = "none" => pull'[q][o] = "none"
    BY <1>10 DEF Restart, Broken, GoingOn
  <2>2. pull' \in [Phones -> [Offers -> Progress]]
    BY <1>10 DEF Restart, Broken
  <2>3. link' = {} /\ IsFiniteSet(link')
    BY <1>10, FS_EmptySet DEF Restart
  <2> QED
    BY <1>10, <2>1, <2>2, <2>3 DEF Restart, GoingOn
<1>11. CASE UNCHANGED downloads
    BY <1>11 DEF downloads
<1> QED
    BY <1>1, <1>2, <1>3, <1>4, <1>5, <1>6, <1>7, <1>8, <1>9, <1>10, <1>11, UploadsApart
       DEF Next, Download, vars

\* An offer to one phone that the PC could read arrives whole (files.rs, take;
\* LinkClient.kt, receiveFileFromPc).
THEOREM TargetedOfferIsWhole == Spec => []OfferToOneIsWhole
<1>1. Init => DownInv
    BY FS_EmptySet DEF Init, DownInv, DownTypes, Progress
<1>2. DownInv => OfferToOneIsWhole
    BY DEF DownInv, OfferToOneIsWhole
<1> QED
    BY <1>1, <1>2, DownStep, PTL DEF Spec

-----------------------------------------------------------------------------
\* The parts of the invariant that speak of the folder.
FolderInv == GapIsFree /\ OwnFiles /\ FilesInPlace /\ NamesAreRight /\ UserFile

\* Once a name was taken in the gap, only the types matter.
LEMMA RacedStays == UpTypes /\ raced /\ [Next]_vars => raced'
<1> SUFFICES ASSUME UpTypes, raced, [Next]_vars PROVE raced'
    OBVIOUS
<1>1. ASSUME NEW u \in Uploads, Uploading(u) PROVE raced'
    BY <1>1 DEF Uploading, Choose, Create, Fill, Fail, RemoveFile
<1> QED
    BY <1>1, DownloadsApart DEF Next, UserSaves, Restart, uploads, vars

LEMMA UpTypesStep == UpTypes /\ [Next]_vars => UpTypes'
<1> SUFFICES ASSUME UpTypes, [Next]_vars PROVE UpTypes'
    OBVIOUS
<1> USE TransferAssumption DEF UpTypes, UploadStages, Inodes
<1>1. ASSUME NEW u \in Uploads, Choose(u) PROVE UpTypes'
    BY <1>1 DEF Choose
<1>2. ASSUME NEW u \in Uploads, Create(u) PROVE UpTypes'
    BY <1>2 DEF Create
<1>3. ASSUME NEW u \in Uploads, Fill(u) PROVE UpTypes'
    BY <1>3 DEF Fill
<1>4. ASSUME NEW u \in Uploads, Fail(u) \/ RemoveFile(u) PROVE UpTypes'
    BY <1>4 DEF Fail, RemoveFile
<1>5. ASSUME NEW n \in Names, UserSaves(n) PROVE UpTypes'
    BY <1>5 DEF UserSaves
<1>6. CASE Restart
    BY <1>6 DEF Restart
<1>7. CASE UNCHANGED uploads
    BY <1>7 DEF uploads
<1> QED
    BY <1>1, <1>2, <1>3, <1>4, <1>5, <1>6, <1>7, DownloadsApart DEF Next, Uploading, vars

\* While no name has been taken in the gap, every step keeps the folder right.
LEMMA FolderStep == UpTypes /\ FolderInv /\ [Next]_vars /\ ~raced' => FolderInv'
<1> SUFFICES ASSUME UpTypes, FolderInv, [Next]_vars, ~raced' PROVE FolderInv'
    OBVIOUS
<1> USE TransferAssumption DEF UpTypes, UploadStages, Inodes, FolderInv, GapIsFree, OwnFiles,
        FilesInPlace, NamesAreRight, UserFile
<1>1. ASSUME NEW u \in Uploads, Choose(u) PROVE FolderInv'
  <2>1. dest'[u] \in Names /\ dir[dest'[u]] = None
    <3>1. PICK n \in Names : n \in Free /\ dest' = [dest EXCEPT ![u] = n]
      BY <1>1 DEF Choose
    <3> QED
      BY <3>1 DEF Free
  <2>2. \A n \in Names : dir[n] # u
    BY <1>1 DEF Choose
  <2>3. /\ \A v \in Uploads \ {u} : dest'[v] = dest[v] /\ upload'[v] = upload[v]
        /\ upload'[u] = "chosen" /\ fd[u] = None
        /\ UNCHANGED <<fd, dir, data, saved>>
    BY <1>1 DEF Choose
  <2>4. GapIsFree' /\ OwnFiles' /\ UserFile'
    BY <2>1, <2>3
  <2>5. FilesInPlace'
    BY <2>3
  <2>6. NamesAreRight'
    BY <2>2, <2>3
  <2> QED
    BY <2>4, <2>5, <2>6
<1>2. ASSUME NEW u \in Uploads, Create(u) PROVE FolderInv'
  <2>1. fd[u] = None /\ dir[dest[u]] = None
    BY <1>2 DEF Create
  <2>2. /\ dir' = [dir EXCEPT ![dest[u]] = u] /\ fd' = [fd EXCEPT ![u] = u]
        /\ data' = [data EXCEPT ![u] = {}] /\ upload' = [upload EXCEPT ![u] = "writing"]
        /\ UNCHANGED <<dest, saved>>
    BY <1>2, <2>1 DEF Create
  <2>3. \A v \in Uploads : upload[v] \in {"chosen", "failing"} /\ fd[v] = None /\ v # u
                              => dest[v] # dest[u]
    BY <1>2 DEF Create, InTheGap
  <2>4. \A n \in Names : dir[n] # u
    BY <2>1
  <2> QED
    BY <2>1, <2>2, <2>3, <2>4
<1>3. ASSUME NEW u \in Uploads, Fill(u) PROVE FolderInv'
    BY <1>3 DEF Fill
<1>4. ASSUME NEW u \in Uploads, Fail(u) PROVE FolderInv'
    BY <1>4 DEF Fail
<1>5. ASSUME NEW u \in Uploads, RemoveFile(u) PROVE FolderInv'
  <2>1. dir[dest[u]] \in {u, None}
    BY <1>5 DEF RemoveFile
  <2>2. \A n \in Names : dir[n] = u => n = dest[u]
    OBVIOUS
  <2> QED
    BY <1>5, <2>1, <2>2 DEF RemoveFile
<1>6. ASSUME NEW n \in Names, UserSaves(n) PROVE FolderInv'
  <2>1. \A v \in Uploads : upload[v] \in {"chosen", "failing"} /\ fd[v] = None => dest[v] # n
    BY <1>6 DEF UserSaves, InTheGap
  <2> QED
    BY <1>6, <2>1 DEF UserSaves
<1>7. CASE Restart
    BY <1>7 DEF Restart, Busy
<1>8. CASE UNCHANGED uploads
    BY <1>8 DEF uploads
<1> QED
    BY <1>1, <1>2, <1>3, <1>4, <1>5, <1>6, <1>7, <1>8, DownloadsApart DEF Next, Uploading, vars

\* The types, and a folder that is right until a name is taken in the gap.
THEOREM FolderIsRight == Spec => []UpInv
<1>1. Init => UpInv
  <2> SUFFICES ASSUME Init PROVE UpInv
    OBVIOUS
  <2>1. 0 \in Names
    BY TransferAssumption DEF Names
  <2>2. UpTypes
    BY <2>1 DEF Init, UpTypes, UploadStages, Inodes
  <2>3. GapIsFree /\ OwnFiles /\ FilesInPlace
    BY <2>1 DEF Init, GapIsFree, OwnFiles, FilesInPlace, Inodes
  <2>4. NamesAreRight /\ UserFile
    BY TransferAssumption DEF Init, NamesAreRight, UserFile, Inodes
  <2> QED
    BY <2>2, <2>3, <2>4 DEF UpInv
<1>2. UpInv /\ [Next]_vars => UpInv'
    BY UpTypesStep, FolderStep, RacedStays DEF UpInv, FolderInv
<1> QED
    BY <1>1, <1>2, PTL DEF Spec

\* What the PC has answered OK for is there, whole and alone (server.rs, FileStart).
THEOREM OkMeansWholeAlways == Spec => []OkMeansWhole
<1>1. UpInv => OkMeansWhole
    BY DEF UpInv, OkMeansWhole, FilesInPlace
<1> QED
    BY <1>1, FolderIsRight, PTL

\* No upload writes into the user's file or removes it (files.rs, unique_dest).
THEOREM UserFileSurvivesAlways == Spec => []UserFileSurvives
<1>1. UpInv => UserFileSurvives
    BY DEF UpInv, UserFileSurvives, UserFile
<1> QED
    BY <1>1, FolderIsRight, PTL

\* A failed upload leaves no file (server.rs, remove_file after an error).
THEOREM NoDebrisAlways == Spec => []NoDebris
<1>1. UpInv => NoDebris
    BY DEF UpInv, NoDebris, NamesAreRight
<1> QED
    BY <1>1, FolderIsRight, PTL
=============================================================================
