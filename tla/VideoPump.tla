----------------------------- MODULE VideoPump ------------------------------
(***************************************************************************)
(* The picture of the second screen on its way from the encoder's pipe to  *)
(* the tablet (display/encoder.rs): the bytes are split at start codes     *)
(* (AnnexBSplitter), NAL units are put together to access units, one per   *)
(* picture (AuAssembler), and access units go through a queue of four that *)
(* drops when it is full.  When the pipe is silent for 10 ms, what has     *)
(* arrived is taken for complete, so that a picture does not wait for the  *)
(* next one.                                                               *)
(* The stream is a sequence of NAL units.  Each is three pieces long: the  *)
(* zeros of its start code, the 1 with the header, the payload.  A piece   *)
(* is named by its number in the stream.  The tablet receives while the    *)
(* pump works, so that each access unit is sent in a step of its own.      *)
(***************************************************************************)
EXTENDS Integers, Sequences, Functions

CONSTANTS
    Streams,    \* what the encoder writes: sequences of [pic, kind]
    Capacity    \* places of the channel

\* Kinds of a NAL unit: "params" (types 6 to 9), "first" slice of a picture, or
\* "next" slice.
Nals == [pic : Nat, kind : {"params", "first", "next"}]

\* H.264: pictures come one after another.  One begins with its parameter sets
\* or else its first slice, and goes on as long as there are further slices.
WellFormed(s) ==
    /\ s # <<>> => s[1].kind # "next"
    /\ \A i, j \in 1 .. Len(s) : i < j => s[i].pic <= s[j].pic
    /\ \A i \in 1 .. Len(s) - 1 :
        /\ s[i].pic = s[i + 1].pic <=> s[i].kind = "params" \/ s[i + 1].kind = "next"
        /\ s[i].kind = "params" => s[i + 1].kind # "next"

ASSUME PumpAssumption ==
    /\ Capacity \in Nat \ {0}
    /\ \A s \in Streams : s \in Seq(Nals) /\ WellFormed(s)

VARIABLES
    stream,
    written, eof,   \* pieces in or through the pipe; the encoder has exited
    read,           \* pieces the pump has read
    buf,            \* splitter.buf
    pending, hasVcl,    \* assembler
    queue, closed,  \* the channel; its receiver is gone
    pump,           \* "running"; "idle" or "ending": the splitter is finished; "done"
    arrived,        \* units the tablet has got
    lost,           \* units dropped by a full queue
    stalled         \* history: the encoder paused or exited within a picture

encoder  == <<stream, written, eof>>
inner    == <<buf, pending, hasVcl>>
channel  == <<queue, closed, arrived>>
pumpVars == <<encoder, read, inner, channel, pump, lost, stalled>>

Nal(piece)  == stream[((piece - 1) \div 3) + 1]
Part(piece) == (piece - 1) % 3
Pieces      == 1 .. 3 * Len(stream)

\* The pieces of a picture.
Picture(p) == {i \in Pieces : Nal(i).pic = p}

\* A piece that may be the first of a picture, or the end of the stream.
Boundary(piece) ==
    piece \in Pieces => Part(piece) = 0 /\ Nal(piece).kind # "next"

PumpInit ==
    /\ stream \in Streams
    /\ written = 0 /\ eof = FALSE /\ read = 0
    /\ buf = <<>> /\ pending = <<>> /\ hasVcl = FALSE
    /\ queue = <<>> /\ closed = FALSE
    /\ pump = "running" /\ arrived = <<>> /\ lost = {} /\ stalled = FALSE

-----------------------------------------------------------------------------
(* AnnexBSplitter.                                                         *)

\* Places of b where a start code is complete.
StartCodes(b) == {i \in 1 .. Len(b) - 1 : Part(b[i]) = 0 /\ b[i + 1] = b[i] + 1}

\* push finds a unit from the first start code to the second.
IsUnit(from, to) ==
    /\ from \in StartCodes(buf) /\ to \in StartCodes(buf) /\ from < to
    /\ \A i \in StartCodes(buf) : i = from \/ i >= to

Splittable == \E from, to \in StartCodes(buf) : IsUnit(from, to)

-----------------------------------------------------------------------------
(* AuAssembler.                                                            *)

Kind(nal) == Nal(nal[1]).kind

\* first_mb_in_slice is zero, or cannot be read.
StartsNewPicture(nal) == Kind(nal) = "first" \/ Len(nal) = 2

\* try_send; a unit that finds the queue full is dropped.
Send(unit) ==
    IF closed THEN UNCHANGED <<queue, lost>>
    ELSE IF Len(queue) < Capacity THEN queue' = Append(queue, unit) /\ UNCHANGED lost
    ELSE lost' = lost \cup {unit} /\ UNCHANGED queue

\* Parameter sets and a slice that starts a picture end the one before.
Flushes(nal) == hasVcl /\ (Kind(nal) = "params" \/ StartsNewPicture(nal))

AssembleSlices(nal, then) ==    \* mutant: every slice is a picture
    /\ pending' = IF hasVcl THEN nal ELSE pending \o nal
    /\ hasVcl' = (Kind(nal) # "params")
    /\ IF hasVcl THEN Send(pending) ELSE UNCHANGED <<queue, lost>>
    /\ pump' = IF hasVcl /\ closed /\ then # "ending" THEN "done" ELSE then

\* push, and what is sent.  The pump returns when the receiver is gone, but at
\* the end of the file it tries the rest too.
Assemble(nal, then) ==
    LET flush == Flushes(nal) IN
    /\ pending' = IF flush THEN nal ELSE pending \o nal
    /\ hasVcl' = ((hasVcl /\ ~flush) \/ Kind(nal) # "params")
    /\ IF flush THEN Send(pending) ELSE UNCHANGED <<queue, lost>>
    /\ pump' = IF flush /\ closed /\ then # "ending" THEN "done" ELSE then

\* finish: a unit that has a slice is complete.
Flush ==
    /\ pump \in {"idle", "ending"}
    /\ IF hasVcl THEN pending' = <<>> /\ hasVcl' = FALSE /\ Send(pending)
                 ELSE UNCHANGED <<pending, hasVcl, queue, lost>>
    /\ pump' = IF pump = "ending" \/ (hasVcl /\ closed) THEN "done" ELSE "running"
    /\ UNCHANGED <<encoder, read, buf, closed, arrived, stalled>>

-----------------------------------------------------------------------------
(* pump.                                                                   *)

\* read returns some of what is in the pipe.
Read(n) ==
    /\ pump = "running" /\ ~Splittable /\ read < n /\ n <= written
    /\ buf' = buf \o [i \in 1 .. n - read |-> read + i]
    /\ read' = n
    /\ UNCHANGED <<encoder, pending, hasVcl, channel, pump, lost, stalled>>

\* The loop over the units of what was read.
Push ==
    /\ pump = "running"
    /\ \E from, to \in StartCodes(buf) :
        /\ IsUnit(from, to)
        /\ buf' = SubSeq(buf, to, Len(buf))
        /\ Assemble(SubSeq(buf, from, to - 1), "running")
    /\ UNCHANGED <<encoder, read, closed, arrived, stalled>>

FinishKeepsBuffer(then) ==    \* mutant: what was taken for complete stays in the buffer
    \/ /\ StartCodes(buf) = {}
       /\ pump' = then
       /\ UNCHANGED <<inner, queue, lost>>
    \/ \E from \in StartCodes(buf) :
        /\ UNCHANGED buf
        /\ Assemble(SubSeq(buf, from, Len(buf)), then)

\* finish of the splitter: what follows the start code, if there is one.  A
\* header alone is too short when its start code has three bytes.
FinishSplitter(then) ==
    \/ /\ \A from \in StartCodes(buf) : from = Len(buf) - 1
       /\ pump' = then
       /\ UNCHANGED <<inner, queue, lost>>
    \/ \E from \in StartCodes(buf) :
        /\ buf' = <<>>
        /\ Assemble(SubSeq(buf, from, Len(buf)), then)

IdleWaits ==    \* mutant: a silent pipe is waited for
    /\ pump = "running" /\ read = written /\ ~eof
    /\ buf = <<>>
    /\ UNCHANGED pumpVars

\* 10 ms without a byte.
Idle ==
    /\ pump = "running" /\ ~Splittable /\ read = written /\ ~eof
    /\ stalled' = (stalled \/ ~Boundary(read + 1))
    /\ FinishSplitter("idle")
    /\ UNCHANGED <<encoder, read, closed, arrived>>

\* The end of the file; the sender is dropped with the task.
End ==
    /\ pump = "running" /\ ~Splittable /\ read = written /\ eof
    /\ FinishSplitter("ending")
    /\ UNCHANGED <<encoder, read, closed, arrived, stalled>>

-----------------------------------------------------------------------------
(* The encoder, stream_display and the tablet.                             *)

Write ==
    /\ ~eof /\ written + 1 \in Pieces
    /\ written' = written + 1
    /\ UNCHANGED <<stream, eof, read, inner, channel, pump, lost, stalled>>

\* It exits, between two pictures or in the middle of one.
Exit ==
    /\ ~eof
    /\ eof' = TRUE
    /\ stalled' = (stalled \/ ~Boundary(written + 1))
    /\ UNCHANGED <<stream, written, read, inner, channel, pump, lost>>

Receive ==
    /\ queue # <<>>
    /\ arrived' = Append(arrived, Head(queue))
    /\ queue' = Tail(queue)
    /\ UNCHANGED <<encoder, read, inner, closed, pump, lost, stalled>>

ShutdownSpares ==    \* mutant: the encoder is not killed
    /\ ~closed
    /\ closed' = TRUE /\ queue' = <<>>
    /\ UNCHANGED <<encoder, read, inner, arrived, pump, lost, stalled>>

\* shutdown kills the encoder, wherever it is; the session drops the receiver.
Shutdown ==
    /\ ~closed
    /\ closed' = TRUE /\ queue' = <<>> /\ eof' = TRUE
    /\ UNCHANGED <<stream, written, read, inner, arrived, pump, lost, stalled>>

PumpNext ==
    \/ \E n \in Pieces : Read(n)
    \/ Push \/ Idle \/ End \/ Flush
    \/ Write \/ Exit \/ Receive \/ Shutdown

\* The pump goes on with what there is, its timeout expires, the tablet takes
\* units.
PumpSpec ==
    /\ PumpInit /\ [][PumpNext]_pumpVars
    /\ WF_pumpVars(\E n \in Pieces : Read(n)) /\ WF_pumpVars(Push)
    /\ WF_pumpVars(Idle) /\ WF_pumpVars(End) /\ WF_pumpVars(Flush) /\ WF_pumpVars(Receive)

-----------------------------------------------------------------------------
(* Properties.                                                             *)

Pics == {stream[i].pic : i \in DOMAIN stream}

(* However the bytes are cut into reads and wherever the silences fall     *)
(* between pictures, a unit is one whole picture: all of its slices, with  *)
(* the parameter sets that come before it, and nothing else.               *)
UnitsArePictures ==
    ~stalled => \A i \in DOMAIN (arrived \o queue) :
                   \E p \in Pics : Range((arrived \o queue)[i]) = Picture(p)

(* Even when a silence cuts a picture in two, no byte is sent twice or out *)
(* of order: the tablet gets pieces of the stream in its order, and what   *)
(* the assembler and the splitter keep comes after them.                   *)
PiecesInOrder ==
    LET units == arrived \o queue \o <<pending>> \o <<buf>> IN
    \A i, j \in DOMAIN units : \A k \in DOMAIN units[i], l \in DOMAIN units[j] :
        i < j \/ (i = j /\ k < l) => units[i][k] < units[j][l]

(* The last picture is not held back until the next one: once it is in the *)
(* pipe, it reaches the tablet or is dropped by a full queue, even if the  *)
(* encoder never writes again.                                             *)
NoPictureIsHeldBack ==
    \A p \in 1 .. 3 :
        (p \in Pics /\ ~stalled /\ Picture(p) \subseteq 1 .. written)
            ~> (\/ stalled \/ closed
                \/ \E unit \in lost : Range(unit) = Picture(p)
                \/ \E i \in DOMAIN arrived : Range(arrived[i]) = Picture(p))

(* The pump does not outlive its encoder: after a shutdown it ends.        *)
PumpEnds == closed ~> pump = "done"
=============================================================================
