----------------------------- MODULE AudioFeeds -----------------------------
(***************************************************************************)
(* The phone as the PC's speaker (speaker.rs) and as its microphone        *)
(* (mic.rs).  A session loads a module of the sound server and talks to it *)
(* through parec or a named pipe; when it is dropped, a thread unloads the *)
(* module in the background, while the next session may already be under   *)
(* way.  A new speaker session first unloads the sinks left by a daemon    *)
(* that was killed; the pipe of the microphone has one fixed path.         *)
(***************************************************************************)
EXTENDS FiniteSets

CONSTANTS
    Speakers, Mics,     \* sessions, each used once
    Nobody

VARIABLES
    stage,      \* of a session
    listed,     \* sinks that a speaker session has still to sweep
    modules,    \* loaded modules, named by the session that loaded them
    dropping,   \* sessions whose thread has not unloaded the module yet
    removing,   \* microphones whose thread has not removed the pipe yet
    pipe,       \* the pipe at PIPE, named by the session that made it
    reads, writes,  \* the pipes a microphone's module and file have open
    killed,     \* history: sessions that ended with the daemon
    stuck,      \* history: modules that pactl failed to list or to unload
    torn        \* history: a pipe in use was removed by another session

audio == <<stage, listed, modules, dropping, removing, pipe, reads, writes, killed,
           stuck, torn>>

Sessions == Speakers \cup Mics

Init ==
    /\ stage = [s \in Sessions |-> "off"] /\ listed = [s \in Speakers |-> {}]
    /\ modules = {} /\ dropping = {} /\ removing = {} /\ pipe = Nobody
    /\ reads = [s \in Mics |-> Nobody] /\ writes = [s \in Mics |-> Nobody]
    /\ killed = {} /\ stuck = {} /\ torn = FALSE

Step(s, from, to) == stage[s] = from /\ stage' = [stage EXCEPT ![s] = to]

micOnly == <<removing, pipe, reads, writes, torn>>

-----------------------------------------------------------------------------
(* SpeakerFeed.                                                            *)

\* pactl unload-module of m; nobody looks at what it answers.
UnloadModule(m) ==
    \/ modules' = modules \ {m} /\ UNCHANGED stuck
    \/ UNCHANGED modules /\ stuck' = stuck \cup {m}

\* sweep_stale_sinks: pactl list; if it fails nothing is swept.
Sweep(s) ==
    LET sinks == modules \cap Speakers IN
    /\ Step(s, "off", "sweeping")
    /\ \/ listed' = [listed EXCEPT ![s] = sinks] /\ UNCHANGED stuck
       \/ UNCHANGED listed /\ stuck' = stuck \cup sinks
    /\ UNCHANGED <<modules, dropping, killed, micOnly>>

\* sweep_stale_sinks: pactl unload-module, one sink after the other.
SweepOne(s, t) ==
    /\ stage[s] = "sweeping" /\ t \in listed[s]
    /\ listed' = [listed EXCEPT ![s] = @ \ {t}]
    /\ UnloadModule(t)
    /\ UNCHANGED <<stage, dropping, killed, micOnly>>

\* pactl load-module succeeds or not.
LoadSink(s) ==
    /\ listed[s] = {}
    /\ \/ Step(s, "sweeping", "loaded") /\ modules' = modules \cup {s}
       \/ Step(s, "sweeping", "ended") /\ UNCHANGED modules
    /\ UNCHANGED <<listed, dropping, killed, stuck, micOnly>>

RecordOnly(s) ==    \* mutant: the module stays if parec does not start
    /\ Step(s, "loaded", "on") \/ Step(s, "loaded", "ended")
    /\ UNCHANGED <<listed, modules, dropping, killed, stuck, micOnly>>

\* parec starts, or the module is unloaded.
Record(s) ==
    /\ \/ Step(s, "loaded", "on") /\ UNCHANGED <<modules, stuck>>
       \/ Step(s, "loaded", "ended") /\ UnloadModule(s)
    /\ UNCHANGED <<listed, dropping, killed, micOnly>>

-----------------------------------------------------------------------------
(* MicFeed.                                                                *)

\* remove_file(&pipe) by s.
RemovePipe(s) ==
    /\ pipe' = Nobody
    /\ torn' = (torn \/ (pipe \notin {Nobody, s} /\ stage[pipe] # "ended"))

ClearPipe(s) ==
    /\ Step(s, "off", "cleared")
    /\ RemovePipe(s)
    /\ UNCHANGED <<listed, modules, dropping, removing, reads, writes, killed, stuck>>

\* mkfifo fails if there is a file, or cannot be run.
MakePipe(s) ==
    /\ \/ pipe = Nobody /\ Step(s, "cleared", "made") /\ pipe' = s
       \/ Step(s, "cleared", "ended") /\ UNCHANGED pipe
    /\ UNCHANGED <<listed, modules, dropping, removing, reads, writes, killed, stuck, torn>>

\* pactl load-module: the module opens what is at PIPE, or makes a pipe itself.
\* The pipe is removed if pactl refuses, and stays if it cannot be run.
LoadSource(s) ==
    /\ \/ /\ Step(s, "made", "loaded")
          /\ modules' = modules \cup {s}
          /\ pipe' = IF pipe = Nobody THEN s ELSE pipe
          /\ reads' = [reads EXCEPT ![s] = pipe']
          /\ UNCHANGED torn
       \/ /\ Step(s, "made", "ended")
          /\ RemovePipe(s)
          /\ UNCHANGED <<modules, reads>>
       \/ Step(s, "made", "ended") /\ UNCHANGED <<modules, reads, pipe, torn>>
    /\ UNCHANGED <<listed, dropping, removing, writes, killed, stuck>>

\* Opening the pipe: if it is gone the session ends, and its module stays.
OpenPipe(s) ==
    /\ IF pipe = Nobody
       THEN Step(s, "loaded", "ended") /\ UNCHANGED writes
       ELSE Step(s, "loaded", "on") /\ writes' = [writes EXCEPT ![s] = pipe]
    /\ UNCHANGED <<listed, modules, dropping, removing, pipe, reads, killed, stuck, torn>>

\* The thread, once the module is unloaded.
RemoveOwnPipe(s) ==
    /\ s \in removing /\ removing' = removing \ {s}
    /\ RemovePipe(s)
    /\ UNCHANGED <<stage, listed, modules, dropping, reads, writes, killed, stuck>>

-----------------------------------------------------------------------------
(* Both.                                                                   *)

\* Drop: the phone closes the stream, or parec or the pipe fails.
Drop(s) ==
    /\ Step(s, "on", "ended")
    /\ dropping' = dropping \cup {s}
    /\ UNCHANGED <<listed, modules, killed, stuck, micOnly>>

\* The thread: pactl unload-module with the session's own id.
Unload(s) ==
    /\ s \in dropping /\ dropping' = dropping \ {s}
    /\ UnloadModule(s)
    /\ removing' = removing \cup ({s} \cap Mics)
    /\ UNCHANGED <<stage, listed, pipe, reads, writes, killed, torn>>

\* The daemon dies: its sessions and threads end, the sound server goes on.
Kill ==
    LET lost == {s \in Sessions : stage[s] \notin {"off", "ended"}} \cup dropping
    IN  /\ lost # {}
        /\ stage' = [s \in Sessions |-> IF s \in lost THEN "ended" ELSE stage[s]]
        /\ killed' = killed \cup lost
        /\ dropping' = {} /\ removing' = {}
        /\ UNCHANGED <<listed, modules, pipe, reads, writes, stuck, torn>>

Speaker(s) == Sweep(s) \/ LoadSink(s) \/ Record(s) \/ \E t \in Speakers : SweepOne(s, t)
Mic(s)     == ClearPipe(s) \/ MakePipe(s) \/ LoadSource(s) \/ OpenPipe(s) \/ RemoveOwnPipe(s)

Next ==
    \/ \E s \in Speakers : Speaker(s)
    \/ \E s \in Mics : Mic(s)
    \/ \E s \in Sessions : Drop(s) \/ Unload(s)
    \/ Kill

Spec == Init /\ [][Next]_audio

-----------------------------------------------------------------------------
(* Properties.                                                             *)

Busy(s) == stage[s] \notin {"off", "ended"} \/ s \in dropping

(* What a session has loaded goes when it has ended, whatever fails on the *)
(* way and whichever sessions overlap, and a speaker that plays is rid of  *)
(* what a killed daemon left.  A microphone that is on has its module,     *)
(* reading the pipe the daemon writes: a session that is dropped late does *)
(* not unload the next one's.  Excluded: a killed daemon's last sessions,  *)
(* modules that pactl failed to list or to unload, and a pipe in use that  *)
(* another session removed.                                                *)
ModulesFollowSessions ==
    /\ \A s \in modules : Busy(s) \/ s \in killed \cup stuck \/ (torn /\ s \in Mics)
    /\ (\E s \in Speakers : stage[s] = "on") => modules \cap killed \cap Speakers \subseteq stuck
    /\ ~torn => \A s \in Mics : stage[s] = "on" => s \in modules /\ reads[s] = writes[s]
=============================================================================
