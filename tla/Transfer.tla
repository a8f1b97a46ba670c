------------------------------- MODULE Transfer -------------------------------
(***************************************************************************)
(* Files in both directions.                                               *)
(* PC to phone: the PC offers a file (files.rs, PendingFiles), announces   *)
(* it on the push streams, and a phone that hears of it pulls it by id.    *)
(* Phone to PC: each upload chooses a name in the download folder, creates *)
(* the file and fills it (server.rs, FileStart), concurrently with others  *)
(* and with the user, who saves a file of the same name.                   *)
(***************************************************************************)
EXTENDS Integers, FiniteSets

CONSTANTS
    Phones,
    Offers,      \* SENDFILE and SENDFILETO requests, each with its id
    FilesFail,   \* an offered file may be gone or cut short when it is sent
    Uploads,     \* uploads, all of the same file name
    LastSuffix,  \* bound of the names tried: "name", "name (1)", ... (9 999 in the code)
    User,        \* a file of that name the user has put there
    None

ASSUME TransferAssumption ==
    /\ FilesFail \in BOOLEAN /\ LastSuffix \in Nat
    /\ {User, None} \cap Uploads = {} /\ User # None

VARIABLES
    link,      \* phones that are connected and subscribed
    told,      \* the phones an offer was announced to
    pending,   \* PendingFiles.map
    pull,      \* progress of each phone with each offer
    got,       \* what it has of it: "nothing", "part" or "all"
    unread     \* history: the offers the PC failed to read

VARIABLES
    upload,    \* progress of each upload
    dest,      \* the name it has chosen
    fd,        \* the file it has open
    dir,       \* the download folder: the file under each name
    data,      \* who has written into each file
    saved,     \* the user has saved a file of that name
    raced      \* history: a name an upload had found free was taken before it
               \* created its file, or none was free

downloads == <<link, told, pending, pull, got, unread>>
uploads   == <<upload, dest, fd, dir, data, saved, raced>>
vars      == <<downloads, uploads>>

Names == 0..LastSuffix
Inodes == Uploads \cup {User}
Busy == {"chosen", "writing", "filling", "failing"}

Init ==
    /\ link = {} /\ pending = {} /\ unread = {}
    /\ told = [o \in Offers |-> {}]
    /\ pull = [p \in Phones |-> [o \in Offers |-> "none"]]
    /\ got = [p \in Phones |-> [o \in Offers |-> "nothing"]]
    /\ upload = [u \in Uploads |-> "new"]
    /\ dest = [u \in Uploads |-> 0]
    /\ fd = [u \in Uploads |-> None]
    /\ dir = [n \in Names |-> None]
    /\ data = [i \in Inodes |-> {}]
    /\ saved = FALSE /\ raced = FALSE

-----------------------------------------------------------------------------
(* PC to phone.                                                            *)

Connect(p) ==
    /\ p \notin link
    /\ link' = link \cup {p}
    /\ UNCHANGED <<told, pending, pull, got, unread, uploads>>

\* What was queued for the phone is lost with the connection, and reads on its
\* streams throw: the phone shows that the transfer failed.
GoingOn == {"told", "asked", "sending", "ended"}
Broken(o, progress) == IF progress[o] \in GoingOn THEN "failed" ELSE progress[o]
DisconnectForgets(p) ==    \* mutant: the end of a connection clears the offers
    /\ p \in link
    /\ link' = link \ {p} /\ pending' = {}
    /\ pull' = [pull EXCEPT ![p] = [o \in Offers |-> Broken(o, pull[p])]]
    /\ UNCHANGED <<told, got, unread, uploads>>

Disconnect(p) ==
    /\ p \in link
    /\ link' = link \ {p}
    /\ pull' = [pull EXCEPT ![p] = [o \in Offers |-> Broken(o, pull[p])]]
    /\ UNCHANGED <<told, pending, got, unread, uploads>>

\* offer, then push or push_to: the subscribers at that time hear of it, no
\* phone at all if there is none.
Announce(o, audience) ==
    /\ o \notin pending /\ told[o] = {}
    /\ pending' = pending \cup {o}
    /\ told' = [told EXCEPT ![o] = audience]
    /\ pull' = [p \in Phones |->
                  IF p \in audience THEN [pull[p] EXCEPT ![o] = "told"] ELSE pull[p]]
    /\ UNCHANGED <<link, got, unread, uploads>>

OfferToAll(o) == Announce(o, link)
OfferTo(o, p) == Announce(o, link \cap {p})

\* receiveFileFromPc: the phone opens a stream and sends FilePull.
Ask(p, o) ==
    /\ pull[p][o] = "told"
    /\ pull' = [pull EXCEPT ![p][o] = "asked"]
    /\ UNCHANGED <<link, told, pending, got, unread, uploads>>

\* take: the first pull of an id gets the file, the next ones an empty stream.
Serve(p, o) ==
    /\ pull[p][o] = "asked"
    /\ pull' = [pull EXCEPT ![p][o] = IF o \in pending THEN "sending" ELSE "ended"]
    /\ pending' = pending \ {o}
    /\ UNCHANGED <<link, told, got, unread, uploads>>

SendAll(p, o) ==
    /\ pull[p][o] = "sending"
    /\ got' = [got EXCEPT ![p][o] = "all"]
    /\ pull' = [pull EXCEPT ![p][o] = "ended"]
    /\ UNCHANGED <<link, told, pending, unread, uploads>>

\* An error is logged; the stream is finished like any other.
SendFails(p, o) ==
    /\ FilesFail /\ pull[p][o] = "sending"
    /\ \E g \in {"nothing", "part"} : got' = [got EXCEPT ![p][o] = g]
    /\ pull' = [pull EXCEPT ![p][o] = "ended"]
    /\ unread' = unread \cup {o}
    /\ UNCHANGED <<link, told, pending, uploads>>

\* pullFile leaves its loop at the end of the stream, however much has come,
\* and "received" is shown.
ReportReceived(p, o) ==
    /\ pull[p][o] = "ended"
    /\ pull' = [pull EXCEPT ![p][o] = "received"]
    /\ UNCHANGED <<link, told, pending, got, unread, uploads>>

-----------------------------------------------------------------------------
(* Phone to PC.                                                            *)

\* unique_dest: the first name that is free, the plain one if none is.
Free == {n \in Names : dir[n] = None}

\* The uploads that have chosen name n and not created their file: raced, if
\* the name is taken by another meanwhile.
InTheGap(n) == {u \in Uploads : upload[u] \in {"chosen", "failing"} /\ fd[u] = None /\ dest[u] = n}

ChooseFirst(u) ==    \* mutant: the name is taken as it is
    /\ upload[u] = "new"
    /\ dest' = [dest EXCEPT ![u] = 0]
    /\ upload' = [upload EXCEPT ![u] = "chosen"]
    /\ raced' = (raced \/ Free = {})
    /\ UNCHANGED <<downloads, fd, dir, data, saved>>

Choose(u) ==
    /\ upload[u] = "new"
    /\ \E n \in Names :
          /\ IF Free = {} THEN n = 0 ELSE n \in Free /\ \A m \in Free : n <= m
          /\ dest' = [dest EXCEPT ![u] = n]
    /\ upload' = [upload EXCEPT ![u] = "chosen"]
    /\ raced' = (raced \/ Free = {})
    /\ UNCHANGED <<downloads, fd, dir, data, saved>>

\* File::create opens and empties a file that is there by now.
Create(u) ==
    LET n == dest[u]
        i == IF dir[n] = None THEN u ELSE dir[n]
    IN /\ upload[u] = "chosen"
       /\ dir' = [dir EXCEPT ![n] = i]
       /\ fd' = [fd EXCEPT ![u] = i]
       /\ data' = [data EXCEPT ![i] = {}]
       /\ raced' = (raced \/ InTheGap(n) # {u})
       /\ upload' = [upload EXCEPT ![u] = "writing"]
       /\ UNCHANGED <<downloads, dest, saved>>

Fill(u) ==
    /\ upload[u] \in {"writing", "filling"}
    /\ data' = [data EXCEPT ![fd[u]] = @ \cup {u}]
    /\ upload' = [upload EXCEPT ![u] = IF @ = "writing" THEN "filling" ELSE "ok"]
    /\ UNCHANGED <<downloads, dest, fd, dir, saved, raced>>

\* The stream is cut off, the file cannot be created, the disk is full.
Fail(u) ==
    /\ upload[u] \in {"chosen", "writing", "filling"}
    /\ upload' = [upload EXCEPT ![u] = "failing"]
    /\ UNCHANGED <<downloads, dest, fd, dir, data, saved, raced>>

\* remove_file(dest), whichever file has that name now.
LeaveFile(u) ==    \* mutant: what has come so far is kept
    /\ upload[u] = "failing"
    /\ upload' = [upload EXCEPT ![u] = "failed"]
    /\ UNCHANGED <<downloads, dest, fd, dir, data, saved, raced>>

RemoveFile(u) ==
    /\ upload[u] = "failing"
    /\ dir' = [dir EXCEPT ![dest[u]] = None]
    /\ upload' = [upload EXCEPT ![u] = "failed"]
    /\ UNCHANGED <<downloads, dest, fd, data, saved, raced>>

\* The user puts a file of that name there.
UserSaves(n) ==
    /\ ~saved /\ saved' = TRUE
    /\ dir[n] = None
    /\ dir' = [dir EXCEPT ![n] = User]
    /\ raced' = (raced \/ InTheGap(n) # {})
    /\ UNCHANGED <<downloads, upload, dest, fd, data>>

-----------------------------------------------------------------------------
\* The daemon restarts: the offers were only in memory, uploads are cut short
\* and what has come of them stays in the folder.
Restart ==
    /\ \E u \in Uploads : upload[u] \in Busy
    /\ link' = {} /\ pending' = {}
    /\ pull' = [p \in Phones |-> [o \in Offers |-> Broken(o, pull[p])]]
    /\ upload' = [u \in Uploads |-> IF upload[u] \in Busy THEN "cut" ELSE upload[u]]
    /\ UNCHANGED <<told, got, unread, dest, fd, dir, data, saved, raced>>

-----------------------------------------------------------------------------
Download(p) ==
    \/ Connect(p) \/ Disconnect(p)
    \/ \E o \in Offers :
          OfferTo(o, p) \/ Ask(p, o) \/ Serve(p, o) \/ SendAll(p, o) \/ SendFails(p, o)
          \/ ReportReceived(p, o)

Uploading(u) == Choose(u) \/ Create(u) \/ Fill(u) \/ Fail(u) \/ RemoveFile(u)

Next ==
    \/ \E p \in Phones : Download(p)
    \/ \E o \in Offers : OfferToAll(o)
    \/ \E u \in Uploads : Uploading(u)
    \/ \E n \in Names : UserSaves(n)
    \/ Restart

Spec == Init /\ [][Next]_vars

-----------------------------------------------------------------------------
(* Properties.                                                             *)

\* It is so for an offer announced to one phone and read by the PC without an
\* error, whatever becomes of the connections, of the daemon and of the other
\* offers: the take of another phone cannot come in between.
OfferToOneIsWhole ==
    \A p \in Phones, o \in Offers :
        Cardinality(told[o]) = 1 /\ o \notin unread /\ pull[p][o] = "received"
            => got[p][o] = "all"

\* While nobody takes the name between the choice of it and the creation of
\* the file, and a free name is found: a file the PC has answered OK for stays
\* under its name with exactly its own bytes, whatever other uploads of the
\* same name start, fail or are cut short.
OkMeansWhole ==
    ~raced => \A u \in Uploads : upload[u] = "ok" => dir[dest[u]] = u /\ data[u] = {u}

\* Under the same condition, no upload writes into, or in its clean-up
\* removes, the file of the user.
UserFileSurvives ==
    ~raced /\ saved => data[User] = {} /\ \E n \in Names : dir[n] = User

\* Only a restart of the daemon leaves a part of a file behind: an upload that
\* fails while the daemon runs has removed its own.
NoDebris ==
    ~raced => \A n \in Names : dir[n] \in Uploads => upload[dir[n]] # "failed"
=============================================================================
