------------------------------ MODULE PeerTrust ------------------------------
(***************************************************************************)
(* Who the daemon trusts.  Three kinds of tasks run concurrently on the    *)
(* multi-threaded runtime and share the pairing code, the file peers.json  *)
(* and the table LIVE of registered connections:                           *)
(*   - a connection and the stream it carries (server.rs, handle_stream);  *)
(*   - a pairing window, the handler of PAIR (control.rs, handle_pair);    *)
(*   - a forget, the handler of FORGET (control.rs, forget_device), or the *)
(*     fallback that edits the file when it cannot ask the daemon (main.rs)*)
(* A task may be interrupted between any two accesses to shared state, and *)
(* fs::write is two of them: the file is truncated, then written.          *)
(***************************************************************************)
EXTENDS FiniteSets

CONSTANTS
    Phones,     \* the devices, each identified by its certificate
    Conns,      \* connection slots; a slot carries one stream at a time
    Windows,    \* the PAIR requests; a window's code is the window itself
    BootCodes,  \* the codes printed by "linkd pair", one per start
    Forgets,    \* handlers of FORGET in the daemon
    Tools,      \* linkd forget, when the daemon cannot be asked or answers ERR
    NoOne       \* no phone, no code

Codes   == Windows \cup BootCodes
Editors == Forgets \cup Tools
Writers == Conns \cup Editors    \* everyone who loads and saves peers.json

ASSUME DistinctCodes ==
    /\ NoOne \notin Phones \cup Codes
    /\ Windows \cap BootCodes = {}
    /\ {"empty", "use", "wrong"} \cap Codes = {}

ASSUME DistinctWriters ==
    /\ Conns \cap Editors = {}
    /\ Forgets \cap Tools = {}

VARIABLES
    up,         \* the daemon is running
    peers,      \* the devices listed in peers.json (when it can be read)
    disk,       \* peers.json is "whole", "empty" (truncated) or "garbage"
    token,      \* Pairing.token
    shown,      \* codes that were displayed
    win,        \* progress of each window
    heard,      \* the first event in the window's broadcast receiver
    answer,     \* the name in the window's PAIRED reply, NoOne for TIMEOUT
    step,       \* progress of each connection and its stream
    owner,      \* the certificate a connection was opened with
    open,       \* the QUIC connection is open
    sessionTrusted,  \* handle_stream's sticky flag
    line,       \* the line waiting in the stream's reader
    live,       \* the connections in LIVE
    edit,       \* progress of each editor
    target,     \* the device an editor removes
    copy        \* the TrustedPeers value a writer has loaded

\* History, read by the properties only.
VARIABLES
    admitted,   \* phones that presented the code that was current
    stored,     \* phones that were in a value some writer has saved
    told,       \* phones that were answered PairOk
    revoked,    \* phones forgotten and not stored by a pairing since
    cut,        \* phones whose forget went through kick, not paired since
    stale,      \* writers whose copy is older than the file
    clobbered   \* some writer saved a stale copy

file    == <<peers, disk>>
pairing == <<token, shown, win, heard, answer>>
conn    == <<step, owner, open, sessionTrusted, line, live>>
editing == <<edit, target>>
history == <<admitted, stored, told, revoked, cut, stale, clobbered>>
vars    == <<up, file, pairing, conn, editing, copy, history>>

Init ==
    /\ up = FALSE
    /\ peers = {} /\ disk = "whole"
    /\ token = NoOne /\ shown = {}
    /\ win = [w \in Windows |-> "new"]
    /\ heard = [w \in Windows |-> NoOne]
    /\ answer = [w \in Windows |-> NoOne]
    /\ step = [c \in Conns |-> "none"]
    /\ owner = [c \in Conns |-> NoOne]
    /\ open = [c \in Conns |-> FALSE]
    /\ sessionTrusted = [c \in Conns |-> FALSE]
    /\ line = [c \in Conns |-> "empty"]
    /\ live = {}
    /\ edit = [f \in Editors |-> "idle"]
    /\ target = [f \in Editors |-> NoOne]
    /\ copy = [x \in Writers |-> {}]
    /\ admitted = {} /\ stored = {} /\ told = {}
    /\ revoked = {} /\ cut = {} /\ stale = {} /\ clobbered = FALSE

-----------------------------------------------------------------------------
(* TrustedPeers: load and save.                                            *)

Readable == disk = "whole"

\* load().is_trusted(p), where a load that fails counts as a no.
IsTrustedOnError(p) == ~Readable \/ p \in peers    \* mutant: as a yes
IsTrusted(p) == Readable /\ p \in peers

\* The writers between their load and the end of their save.
Saving == {c \in Conns : step[c] \in {"saving", "writing"}}
          \cup {f \in Editors : edit[f] \in {"saving", "writing"}}

\* Opening peers.json for writing empties it.
Truncate == peers' = {} /\ disk' = "empty"

\* x writes its copy from the first byte.  If another save ended after x's
\* truncation, the longer of the two contents may show behind x's.
Write(x) ==
    /\ \/ peers' = copy[x] /\ disk' = "whole"
       \/ disk # "empty" /\ peers' = {} /\ disk' = "garbage"
    /\ stored' = stored \cup copy[x]
    /\ clobbered' = (clobbered \/ x \in stale)
    /\ stale' = Saving \ {x}

-----------------------------------------------------------------------------
(* Connections and their streams.                                          *)

\* handle_connection starts when the handshake is complete.
Accept(c, p) ==
    /\ up /\ step[c] = "none"
    /\ step' = [step EXCEPT ![c] = "accepted"]
    /\ owner' = [owner EXCEPT ![c] = p]
    /\ open' = [open EXCEPT ![c] = TRUE]
    /\ UNCHANGED <<up, file, pairing, sessionTrusted, line, live, editing, copy, history>>

\* register_live, then the first stream.
RegisterIfTrusted(c) ==    \* mutant: only devices trusted on arrival are listed
    /\ step[c] = "accepted"
    /\ step' = [step EXCEPT ![c] = "reading"]
    /\ live' = IF IsTrusted(owner[c]) THEN live \cup {c} ELSE live
    /\ UNCHANGED <<up, file, pairing, owner, open, sessionTrusted, line, editing, copy, history>>

Register(c) ==
    /\ step[c] = "accepted"
    /\ step' = [step EXCEPT ![c] = "reading"]
    /\ live' = live \cup {c}
    /\ UNCHANGED <<up, file, pairing, owner, open, sessionTrusted, line, editing, copy, history>>

\* The phone opens another stream on a connection whose stream has ended.
NewStream(c) ==
    /\ step[c] = "done" /\ open[c]
    /\ step' = [step EXCEPT ![c] = "reading"]
    /\ sessionTrusted' = [sessionTrusted EXCEPT ![c] = FALSE]
    /\ UNCHANGED <<up, file, pairing, owner, open, line, live, editing, copy, history>>

\* A line reaches the reader: PairRequest with a code, or any other message.
SendLine(c, l) ==
    /\ open[c] /\ line[c] = "empty"
    /\ step[c] \notin {"accepted", "done"}
    /\ l \in shown \cup {"use", "wrong"}
    /\ line' = [line EXCEPT ![c] = l]
    /\ UNCHANGED <<up, file, pairing, step, owner, open, sessionTrusted, live, editing, copy, history>>

\* The phone closes, or the idle timeout fires.
Close(c) ==
    /\ open[c]
    /\ open' = [open EXCEPT ![c] = FALSE]
    /\ UNCHANGED <<up, file, pairing, step, owner, sessionTrusted, line, live, editing, copy, history>>

\* Once it has replied the stream reads on; on a closed connection the write
\* fails and the stream ends.
AfterReply(c) == IF open[c] THEN "reading" ELSE "done"

\* Evaluated for every line, before the dispatch on the message.
EvaluateTrust(c) ==
    sessionTrusted' = [sessionTrusted EXCEPT ![c] = @ \/ IsTrusted(owner[c])]

\* A message that needs trust is handled or answered NotTrusted.
ReceiveUse(c) ==
    /\ step[c] = "reading" /\ line[c] = "use"
    /\ EvaluateTrust(c)
    /\ line' = [line EXCEPT ![c] = "empty"]
    /\ step' = [step EXCEPT ![c] = AfterReply(c)]
    /\ UNCHANGED <<up, file, pairing, owner, open, live, editing, copy, history>>

ReceivePair(c) ==
    /\ step[c] = "reading" /\ line[c] \notin {"empty", "use"}
    /\ EvaluateTrust(c)
    /\ step' = [step EXCEPT ![c] = "checking"]
    /\ UNCHANGED <<up, file, pairing, owner, open, line, live, editing, copy, history>>

\* pairing.current(), then the comparison of the codes.
AcceptCode(c) ==
    /\ step[c] = "checking" /\ line[c] = token
    /\ step' = [step EXCEPT ![c] = "matched"]
    /\ admitted' = admitted \cup {owner[c]}
    /\ UNCHANGED <<up, file, pairing, owner, open, sessionTrusted, line, live, editing, copy,
                   stored, told, revoked, cut, stale, clobbered>>

RejectCode(c) ==
    /\ step[c] = "checking" /\ line[c] # token
    /\ step' = [step EXCEPT ![c] = AfterReply(c)]
    /\ line' = [line EXCEPT ![c] = "empty"]
    /\ UNCHANGED <<up, file, pairing, owner, open, sessionTrusted, live, editing, copy, history>>

\* add saves nothing for a device that is listed already.
AlwaysPaired(p) == TRUE    \* mutant: it saves nothing at all
NothingToSave(p) == p \in peers

\* TrustedPeers::load()? and the decision of add.
LoadPeers(c) ==
    /\ step[c] = "matched" /\ Readable
    /\ IF NothingToSave(owner[c])
       THEN step' = [step EXCEPT ![c] = "paired"] /\ UNCHANGED copy
       ELSE /\ step' = [step EXCEPT ![c] = "saving"]
            /\ copy' = [copy EXCEPT ![c] = peers \cup {owner[c]}]
    /\ UNCHANGED <<up, file, pairing, owner, open, sessionTrusted, line, live, editing, history>>

\* The error of load()? ends the stream without a reply.
LoadFails(c) ==
    /\ step[c] = "matched" /\ ~Readable
    /\ step' = [step EXCEPT ![c] = "done"]
    /\ line' = [line EXCEPT ![c] = "empty"]
    /\ UNCHANGED <<up, file, pairing, owner, open, sessionTrusted, live, editing, copy, history>>

TruncatePeers(c) ==
    /\ step[c] = "saving"
    /\ Truncate
    /\ step' = [step EXCEPT ![c] = "writing"]
    /\ UNCHANGED <<up, pairing, owner, open, sessionTrusted, line, live, editing, copy, history>>

WritePeers(c) ==
    /\ step[c] = "writing"
    /\ Write(c)
    /\ step' = [step EXCEPT ![c] = "paired"]
    /\ revoked' = IF disk' = "whole" THEN revoked \ {owner[c]} ELSE revoked
    /\ cut' = IF disk' = "whole" THEN cut \ {owner[c]} ELSE cut
    /\ copy' = [copy EXCEPT ![c] = {}]
    /\ UNCHANGED <<up, pairing, owner, open, sessionTrusted, line, live, editing, admitted, told>>

\* Every window whose receiver exists gets the event, whatever its code.
NotifyPaired(c) ==
    /\ step[c] = "paired"
    /\ sessionTrusted' = [sessionTrusted EXCEPT ![c] = TRUE]
    /\ heard' = [w \in Windows |->
                   IF win[w] \in {"subscribed", "open"} /\ heard[w] = NoOne
                   THEN owner[c] ELSE heard[w]]
    /\ step' = [step EXCEPT ![c] = "ending"]
    /\ UNCHANGED <<up, file, token, shown, win, answer, owner, open, line, live, editing, copy, history>>

\* pairing.end(), then the reply PairOk.
EndPairing(c) ==
    /\ step[c] = "ending"
    /\ token' = NoOne
    /\ told' = IF open[c] THEN told \cup {owner[c]} ELSE told
    /\ line' = [line EXCEPT ![c] = "empty"]
    /\ step' = [step EXCEPT ![c] = AfterReply(c)]
    /\ UNCHANGED <<up, file, shown, win, heard, answer, owner, open, sessionTrusted, live,
                   editing, copy, admitted, stored, revoked, cut, stale, clobbered>>

\* A read on a closed connection fails; what waits in the reader is dropped
\* with it or was served before.
EndStream(c) ==
    /\ step[c] = "reading" /\ ~open[c]
    /\ step' = [step EXCEPT ![c] = "done"]
    /\ line' = [line EXCEPT ![c] = "empty"]
    /\ UNCHANGED <<up, file, pairing, owner, open, sessionTrusted, live, editing, copy, history>>

\* handle_connection returns and drops its LiveGuard; the slot is free again.
DropConnection(c) ==
    /\ step[c] = "done" /\ ~open[c]
    /\ step' = [step EXCEPT ![c] = "none"]
    /\ owner' = [owner EXCEPT ![c] = NoOne]
    /\ sessionTrusted' = [sessionTrusted EXCEPT ![c] = FALSE]
    /\ live' = live \ {c}
    /\ UNCHANGED <<up, file, pairing, open, line, editing, copy, history>>

-----------------------------------------------------------------------------
(* Pairing windows.                                                        *)

Subscribe(w) ==
    /\ up /\ win[w] = "new"
    /\ win' = [win EXCEPT ![w] = "subscribed"]
    /\ UNCHANGED <<up, file, token, shown, heard, answer, conn, editing, copy, history>>

\* pairing.begin, then the payload is written to the window.
Begin(w) ==
    /\ win[w] = "subscribed"
    /\ win' = [win EXCEPT ![w] = "open"]
    /\ token' = w
    /\ shown' = shown \cup {w}
    /\ UNCHANGED <<up, file, heard, answer, conn, editing, copy, history>>

HearPaired(w) ==
    /\ win[w] = "open" /\ heard[w] # NoOne
    /\ win' = [win EXCEPT ![w] = "ending"]
    /\ answer' = [answer EXCEPT ![w] = heard[w]]
    /\ heard' = [heard EXCEPT ![w] = NoOne]
    /\ UNCHANGED <<up, file, token, shown, conn, editing, copy, history>>

\* The two minutes are over; select! may prefer this to a waiting event.
TimeOut(w) ==
    /\ win[w] = "open"
    /\ win' = [win EXCEPT ![w] = "ending"]
    /\ heard' = [heard EXCEPT ![w] = NoOne]
    /\ UNCHANGED <<up, file, token, shown, answer, conn, editing, copy, history>>

\* pairing.end(), whatever the result, then the reply PAIRED or TIMEOUT.
EndIfPaired(w) ==    \* mutant: the code is withdrawn after a pairing only
    /\ win[w] = "ending"
    /\ token' = IF answer[w] = NoOne THEN token ELSE NoOne
    /\ win' = [win EXCEPT ![w] = "answered"]
    /\ UNCHANGED <<up, file, shown, heard, answer, conn, editing, copy, history>>

EndWindow(w) ==
    /\ win[w] = "ending"
    /\ token' = NoOne
    /\ win' = [win EXCEPT ![w] = "answered"]
    /\ UNCHANGED <<up, file, shown, heard, answer, conn, editing, copy, history>>

-----------------------------------------------------------------------------
(* Forgetting a device.                                                    *)

\* load and the search of forget: in a handler of the daemon, or in the fallback
\* of the command line, which any error of control::forget leads to.
LoadForget(f, p) ==
    /\ edit[f] = "idle" /\ (f \in Forgets => up)
    /\ IsTrusted(p)
    /\ edit' = [edit EXCEPT ![f] = "saving"]
    /\ target' = [target EXCEPT ![f] = p]
    /\ copy' = [copy EXCEPT ![f] = peers \ {p}]
    /\ UNCHANGED <<up, file, pairing, conn, history>>

TruncateForget(f) ==
    /\ edit[f] = "saving"
    /\ Truncate
    /\ edit' = [edit EXCEPT ![f] = "writing"]
    /\ UNCHANGED <<up, pairing, conn, target, copy, history>>

WriteForget(f) ==
    /\ edit[f] = "writing"
    /\ Write(f)
    /\ revoked' = revoked \cup {target[f]}
    /\ edit' = [edit EXCEPT ![f] = IF f \in Forgets THEN "kicking" ELSE "idle"]
    /\ target' = [target EXCEPT ![f] = IF f \in Forgets THEN @ ELSE NoOne]
    /\ copy' = [copy EXCEPT ![f] = {}]
    /\ UNCHANGED <<up, pairing, conn, admitted, told, cut>>

\* kick closes the registered connections of the device.
Kick(f) ==
    LET kicked == {c \in live : owner[c] = target[f]} IN
    /\ edit[f] = "kicking"
    /\ open' = [c \in Conns |-> open[c] /\ c \notin kicked]
    /\ live' = live \ kicked
    /\ cut' = cut \cup ({target[f]} \cap revoked)
    /\ edit' = [edit EXCEPT ![f] = "idle"]
    /\ target' = [target EXCEPT ![f] = NoOne]
    /\ UNCHANGED <<up, file, pairing, step, owner, sessionTrusted, line, copy,
                   admitted, stored, told, revoked, stale, clobbered>>

-----------------------------------------------------------------------------
(* The daemon starts ("linkd run", or "linkd pair" with a code) and dies.  *)

Start(code) ==
    /\ ~up
    /\ code \in {NoOne} \cup (BootCodes \ shown)
    /\ up' = TRUE
    /\ token' = code
    /\ shown' = shown \cup ({code} \ {NoOne})
    /\ UNCHANGED <<file, win, heard, answer, conn, editing, copy, history>>

\* Everything in memory is lost; a truncated file stays truncated.
Crash ==
    /\ up
    /\ up' = FALSE
    /\ token' = NoOne
    /\ win' = [w \in Windows |-> IF win[w] = "new" THEN "new" ELSE "answered"]
    /\ step' = [c \in Conns |-> "none"]
    /\ owner' = [c \in Conns |-> NoOne]
    /\ open' = [c \in Conns |-> FALSE]
    /\ sessionTrusted' = [c \in Conns |-> FALSE]
    /\ line' = [c \in Conns |-> "empty"]
    /\ live' = {}
    /\ edit' = [f \in Editors |-> IF f \in Forgets THEN "idle" ELSE edit[f]]
    /\ target' = [f \in Editors |-> IF f \in Forgets THEN NoOne ELSE target[f]]
    /\ copy' = [x \in Writers |-> IF x \in Tools THEN copy[x] ELSE {}]
    /\ heard' = [w \in Windows |-> NoOne]
    /\ stale' = stale \cap Tools
    /\ UNCHANGED <<file, shown, answer, admitted, stored, told, revoked, cut, clobbered>>

-----------------------------------------------------------------------------
ConnStep(c) ==
    \/ \E p \in Phones : Accept(c, p)
    \/ Register(c) \/ NewStream(c) \/ Close(c)
    \/ \E l \in Codes \cup {"use", "wrong"} : SendLine(c, l)
    \/ ReceiveUse(c) \/ ReceivePair(c)
    \/ AcceptCode(c) \/ RejectCode(c)
    \/ LoadPeers(c) \/ LoadFails(c) \/ TruncatePeers(c) \/ WritePeers(c)
    \/ NotifyPaired(c) \/ EndPairing(c)
    \/ EndStream(c) \/ DropConnection(c)

WindowStep(w) ==
    Subscribe(w) \/ Begin(w) \/ HearPaired(w) \/ TimeOut(w) \/ EndWindow(w)

EditorStep(f) ==
    \/ \E p \in Phones : LoadForget(f, p)
    \/ TruncateForget(f) \/ WriteForget(f) \/ Kick(f)

Next ==
    \/ \E c \in Conns : ConnStep(c)
    \/ \E w \in Windows : WindowStep(w)
    \/ \E f \in Editors : EditorStep(f)
    \/ \E code \in BootCodes \cup {NoOne} : Start(code)
    \/ Crash

Spec == Init /\ [][Next]_vars

\* The tokio runtime runs a window's handler to its end: select! returns when
\* the timer fires at the latest.  Phones and users owe nothing.
Fairness ==
    \A w \in Windows : WF_vars(HearPaired(w) \/ TimeOut(w)) /\ WF_vars(EndWindow(w))

FairSpec == Spec /\ Fairness

-----------------------------------------------------------------------------
(* Properties.                                                             *)

TypeOK ==
    /\ up \in BOOLEAN
    /\ peers \subseteq Phones /\ disk \in {"whole", "empty", "garbage"}
    /\ token \in Codes \cup {NoOne} /\ shown \subseteq Codes
    /\ win \in [Windows -> {"new", "subscribed", "open", "ending", "answered"}]
    /\ heard \in [Windows -> Phones \cup {NoOne}]
    /\ answer \in [Windows -> Phones \cup {NoOne}]
    /\ step \in [Conns -> {"none", "accepted", "reading", "checking", "matched", "saving",
                          "writing", "paired", "ending", "done"}]
    /\ owner \in [Conns -> Phones \cup {NoOne}]
    /\ open \in [Conns -> BOOLEAN]
    /\ sessionTrusted \in [Conns -> BOOLEAN]
    /\ line \in [Conns -> Codes \cup {"empty", "use", "wrong"}]
    /\ live \subseteq Conns
    /\ edit \in [Editors -> {"idle", "saving", "writing", "kicking"}]
    /\ target \in [Editors -> Phones \cup {NoOne}]
    /\ copy \in [Writers -> SUBSET Phones]
    /\ admitted \subseteq Phones /\ stored \subseteq Phones /\ told \subseteq Phones
    /\ revoked \subseteq Phones /\ cut \subseteq Phones
    /\ stale \subseteq Writers /\ clobbered \in BOOLEAN
    /\ \A c \in Conns : step[c] # "none" => owner[c] \in Phones
    /\ \A f \in Editors : edit[f] # "idle" => target[f] \in Phones

\* Nobody is trusted without a code: whoever is listed in peers.json, is about
\* to be saved there, or is served as trusted on a stream once presented, on a
\* connection with that same certificate, the code that was current.
TrustNeedsCode ==
    /\ peers \subseteq admitted
    /\ \A x \in Writers : copy[x] \subseteq admitted
    /\ \A c \in Conns : sessionTrusted[c] => owner[c] \in admitted

\* A code is accepted only while its window's handler is at work or, for a
\* code of "linkd pair", while that daemon runs: overlapping windows and late
\* ends erase codes too early but never leave one behind.
CodesExpire ==
    /\ token \in Windows => win[token] \in {"open", "ending"}
    /\ token # NoOne => up

\* "PAIRED name" names a device whose entry has been saved, and that presented
\* a current code: the answer never comes before the save.
PairedAnswerIsTrue ==
    \A w \in Windows : answer[w] # NoOne => answer[w] \in stored \cap admitted

\* As long as no save has overwritten a newer file, forgetting is final: a
\* forgotten device is not listed, and once kick has run no open connection
\* of it has a trusted stream, until it pairs again.
ForgottenStaysOut ==
    ~clobbered =>
        /\ peers \cap revoked = {}
        /\ \A c \in Conns : open[c] /\ owner[c] \in cut => ~sessionTrusted[c]

\* As long as no save has overwritten a newer file, a device that was answered
\* PairOk is in every complete peers.json until it is forgotten.
PairOkIsDurable ==
    ~clobbered /\ Readable => told \ revoked \subseteq peers

\* "Codes stop working after two minutes": every code of a window dies.
CodesStopWorking == \A w \in Windows : token = w ~> token # w

-----------------------------------------------------------------------------
\* What users see of all this, as long as no save has overwritten a newer file:
\* the set of devices that were paired and not forgotten since.
Listed == stored \ revoked

Registry == INSTANCE TrustedDevices WITH Devices <- Phones, listed <- Listed, trusted <- peers

=============================================================================
