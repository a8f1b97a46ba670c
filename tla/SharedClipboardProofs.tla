----------------------- MODULE SharedClipboardProofs ------------------------
(***************************************************************************)
(* Proofs about SharedClipboard: once all is quiet, every connected phone  *)
(* has the PC's text, for any number of phones, texts, images and places   *)
(* in a channel, and however often connections are lost.                   *)
(***************************************************************************)
EXTENDS SharedClipboard, TLAPS

(* Sequences of things pushed to a phone.                                  *)

Only(s, S) == \A i \in DOMAIN s : s[i] \in S

\* x, and after it only images.
LastText(s, x) ==
    \E i \in DOMAIN s : s[i] = x /\ \A j \in DOMAIN s : j > i => s[j] \in Images

LEMMA NoThings ==
    ASSUME NEW S, NEW x PROVE Only(<<>>, S) /\ ~LastText(<<>>, x)
BY DEF Only, LastText

LEMMA OneThing ==
    ASSUME NEW S, NEW x
    PROVE  (Only(<<x>>, S) <=> x \in S) /\ LastText(<<x>>, x)
BY DEF Only, LastText

LEMMA AppendedAt ==
    ASSUME NEW U, NEW s \in Seq(U), NEW x \in U
    PROVE  /\ DOMAIN s = 1 .. Len(s) /\ DOMAIN Append(s, x) = 1 .. Len(s) + 1 /\ Len(s) \in Nat
           /\ \A i \in 1 .. Len(s) : Append(s, x)[i] = s[i]
           /\ Append(s, x)[Len(s) + 1] = x
OBVIOUS

LEMMA AppendedOnly ==
    ASSUME NEW U, NEW s \in Seq(U), NEW x \in U, NEW S
    PROVE  Only(Append(s, x), S) <=> Only(s, S) /\ x \in S
BY AppendedAt DEF Only

LEMMA AppendedText ==
    ASSUME NEW U, NEW s \in Seq(U), NEW x \in U PROVE LastText(Append(s, x), x)
BY AppendedAt DEF LastText

LEMMA AppendedImage ==
    ASSUME NEW U, NEW s \in Seq(U), NEW x \in U, x \in Images, NEW y, LastText(s, y)
    PROVE  LastText(Append(s, x), y)
BY AppendedAt DEF LastText

LEMMA Tailed ==
    ASSUME NEW U, NEW s \in Seq(U), s # <<>>, NEW S, NEW x
    PROVE  /\ Tail(s) \in Seq(U) /\ Head(s) \in U
           /\ Only(s, S) => Only(Tail(s), S) /\ Head(s) \in S
           /\ LastText(s, x) => LastText(Tail(s), x) \/ (Head(s) = x /\ Only(Tail(s), Images))
<1>1. /\ DOMAIN s = 1 .. Len(s) /\ DOMAIN Tail(s) = 1 .. Len(s) - 1 /\ Len(s) \in Nat
      /\ Len(s) # 0 /\ \A i \in 1 .. Len(s) - 1 : Tail(s)[i] = s[i + 1]
      /\ Head(s) = s[1] /\ Tail(s) \in Seq(U) /\ Head(s) \in U
    OBVIOUS
<1>2. Only(s, S) => Only(Tail(s), S) /\ Head(s) \in S
    BY <1>1 DEF Only
<1>3. ASSUME NEW i \in DOMAIN s, s[i] = x, \A j \in DOMAIN s : j > i => s[j] \in Images
      PROVE  LastText(Tail(s), x) \/ (Head(s) = x /\ Only(Tail(s), Images))
  <2>1. CASE i = 1
      BY <1>1, <1>3, <2>1 DEF Only
  <2>2. CASE i # 1
    <3>1. i - 1 \in DOMAIN Tail(s) /\ Tail(s)[i - 1] = x
        BY <1>1, <1>3, <2>2
    <3>2. \A j \in DOMAIN Tail(s) : j > i - 1 => Tail(s)[j] \in Images
        BY <1>1, <1>3, <2>2
    <3> QED
        BY <3>1, <3>2 DEF LastText
  <2> QED
      BY <2>1, <2>2
<1> QED
    BY <1>1, <1>2, <1>3 DEF LastText

-----------------------------------------------------------------------------
(* The types, and that what is anywhere has been copied.                   *)

Things      == Texts \cup Images
TextOrNone  == Texts \cup {None}
ThingOrNone == Things \cup {None}
UsedTexts   == used \cap Texts
UsedOrNone  == used \cup {None}

HubTyped ==
    /\ pc \in ThingOrNone /\ last \in TextOrNone /\ lastImage \in ThingOrNone
    /\ watch \in [at : {"wait", "compare", "push"}, item : ThingOrNone]
    /\ watch.at # "wait" => watch.item # None
    /\ handlers \subseteq [from : Phones \cup {None}, text : Texts, at : {"set", "push"}]

NetTyped ==
    /\ subs \in [Phones -> {"no", "joining", "yes"}] /\ link \in [Phones -> BOOLEAN]
    /\ queue \in [Phones -> Seq(Things)] /\ out \in [Phones -> Seq(Texts)]
    /\ \A p \in Phones : link[p] <=> subs[p] # "no"

PhoneTyped ==
    /\ clip \in [Phones -> ThingOrNone] /\ seen \in [Phones -> ThingOrNone]
    /\ received \in [Phones -> TextOrNone] /\ pulling \in [Phones -> ThingOrNone]
    /\ read \in [Phones -> TextOrNone] /\ taken \in [Phones -> TextOrNone]
    /\ \A p \in Phones : pulling[p] # None => pulling[p] \in Images
    /\ \A p \in Phones : clip[p] = None => taken[p] # None \/ received[p] = None
    /\ \A p \in Phones : taken[p] # None => taken[p] = received[p]
    /\ \A p \in Phones : read[p] # None => read[p] # seen[p]

AllUsed ==
    /\ used \subseteq Things
    /\ \A y \in UsedTexts, z \in Texts : z < y => z \in used
    /\ pc \in UsedOrNone /\ last \in UsedOrNone /\ watch.item \in UsedOrNone
    /\ \A h \in handlers : h.text \in used
    /\ \A p \in Phones :
          /\ clip[p] \in UsedOrNone /\ seen[p] \in UsedOrNone
          /\ received[p] \in UsedOrNone /\ pulling[p] \in UsedOrNone
          /\ read[p] \in UsedOrNone /\ taken[p] \in UsedOrNone
          /\ Only(queue[p], used) /\ Only(out[p], used)

Typed == HubTyped /\ NetTyped /\ PhoneTyped /\ AllUsed /\ crossed \in BOOLEAN /\ repeated \in BOOLEAN

-----------------------------------------------------------------------------
(* What holds as long as copies do not cross and nothing is copied again.  *)

Clean == ~crossed /\ ~repeated

\* What p's clipboard holds, or is about to: with the text that handlePush has
\* remembered and not yet set.
shown == [p \in Phones |-> IF taken[p] = None THEN clip[p] ELSE taken[p]]

\* A text that p's user has copied and p has yet to pass on.
Waits(p) == shown[p] \in Texts /\ shown[p] # seen[p] /\ shown[p] # received[p]
Sends(p) == Waits(p) \/ out[p] # <<>>

\* A text on its way from a phone to the PC's clipboard.
Fresh(y) ==
    \/ \E p \in Phones : Waits(p) /\ shown[p] = y
    \/ \E p \in Phones : out[p] # <<>> /\ Head(out[p]) = y
    \/ \E h \in handlers : h.at = "set" /\ h.text = y

NothingFresh == handlers = {} /\ \A p \in Phones : ~Sends(p)

WatchKnows == watch.at # "push" /\ (watch.at = "compare" => Known(watch.item))

(* While a phone has a text to pass on, the rest is quiet.                 *)
SendersAlone ==
    \A p \in Phones : Sends(p) =>
        /\ Known(pc) /\ WatchKnows /\ handlers = {}
        /\ \A q \in Phones : Sends(q) => q = p
        /\ \A q \in Phones : Only(queue[q], {last})
        /\ Waits(p) => out[p] = <<>> /\ received[p] = last
        /\ Len(out[p]) <= 1

(* There is one handler at most; its text is the PC's once it is set.      *)
OneHandler ==
    /\ \A g, h \in handlers : g = h
    /\ \A h \in handlers : h.at = "push" => pc = h.text
    /\ handlers # {} /\ pc \in Images => Known(pc)

\* An image on its way from the PC to a phone.
ImageMoves ==
    \/ watch.at = "compare" /\ watch.item \in Images /\ ~Known(watch.item)
    \/ watch.at = "push" /\ watch.item \in Images
    \/ \E p \in Phones : pulling[p] # None
    \/ \E p \in Phones : ~Only(queue[p], Texts)

ImagesAlone == ImageMoves => pc \in Images /\ NothingFresh

WatchPushesLast == watch.at = "push" /\ watch.item \in Texts => watch.item = last

(* The newest text is the PC's, or on its way there.                       *)
NewestInv ==
    /\ pc \in Texts => \A y \in UsedTexts : y <= pc \/ Fresh(y)
    /\ \A y \in UsedTexts : Fresh(y) => \A z \in UsedTexts : z <= y

(* A phone that shows an image has not yet received what replaces it.      *)
ImageGivesWay ==
    \A p \in Phones : shown[p] \in Images =>
        ~Fresh(received[p]) /\ (pc \in Texts => received[p] # pc)

(* A phone's text is no older than the one it received.                    *)
ReceivedIsShown ==
    \A p \in Phones : shown[p] \in Texts /\ received[p] \in Texts => received[p] <= shown[p]

(* A text that was received and then read is still there when it is compared. *)
ReadsShown ==
    \A p \in Phones : read[p] # None /\ read[p] = received[p] =>
        shown[p] \notin Texts \/ shown[p] = read[p]

NoneYet ==
    last = None =>
        handlers = {} /\ \A p \in Phones : received[p] = None /\ Only(queue[p], Images)

\* The last text that p gets, or has got, is the hub's.
GetsLast(p) ==
    \/ LastText(queue[p], last)
    \/ received[p] = last /\ Only(queue[p], Images)

\* Some push of it is still to come.
PushComes ==
    \/ watch.at = "push" /\ watch.item = last
    \/ \E h \in handlers : h.text = last
    \/ pc \in Texts /\ pc # last

LastArrives == \A p \in Phones : link[p] => GetsLast(p) \/ PushComes

CleanInv ==
    /\ SendersAlone /\ OneHandler /\ ImagesAlone /\ WatchPushesLast
    /\ NewestInv /\ ImageGivesWay /\ ReceivedIsShown /\ ReadsShown /\ NoneYet /\ LastArrives

Inv == Clean => CleanInv
-----------------------------------------------------------------------------
LEMMA Kinds ==
    /\ Places \in Nat \ {0} /\ Texts \subseteq Nat
    /\ Images \cap Texts = {} /\ None \notin Texts \cup Images
BY ClipboardAssumption

LEMMA OnlyMore ==
    ASSUME NEW s, NEW S, NEW T, S \subseteq T, Only(s, S) PROVE Only(s, T)
BY DEF Only

(* A push: whoever is connected gets it, unless something is lost.         *)
LEMMA Pushes ==
    ASSUME Typed, NEW x \in Things, x \in used, Push(x)
    PROVE  /\ queue' \in [Phones -> Seq(Things)]
           /\ \A p \in Phones : queue'[p] \in {queue[p], Append(queue[p], x)}
           /\ \A p \in Phones : Only(queue'[p], used)
           /\ crossed' \in BOOLEAN /\ repeated' = repeated /\ used' = used
           /\ Clean' => Clean /\ \A p \in Phones : link[p] => queue'[p] = Append(queue[p], x)
<1>1. \A p \in Phones : queue[p] \in Seq(Things) /\ Append(queue[p], x) \in Seq(Things)
    BY DEF Typed, NetTyped
<1>2. /\ queue' = [p \in Phones |-> IF subs[p] = "yes" /\ Len(queue[p]) < Places
                                    THEN Append(queue[p], x) ELSE queue[p]]
      /\ crossed' = (crossed \/ \E p \in Phones :
                                   ~(subs[p] = "yes" /\ Len(queue[p]) < Places) /\ subs[p] # "no")
      /\ repeated' = repeated /\ used' = used
    BY DEF Push, Noted
<1>3. queue' \in [Phones -> Seq(Things)]
    BY <1>1, <1>2
<1>4. \A p \in Phones : queue'[p] \in {queue[p], Append(queue[p], x)}
    BY <1>2
<1>5. \A p \in Phones : Only(queue'[p], used)
  <2> SUFFICES ASSUME NEW p \in Phones PROVE Only(queue'[p], used)
      OBVIOUS
  <2>1. Only(queue[p], used)
      BY DEF Typed, AllUsed, UsedOrNone
  <2>2. Only(Append(queue[p], x), used)
      BY <2>1, <1>1, AppendedOnly
  <2> QED
      BY <1>4, <2>1, <2>2
<1>6. Clean' => Clean /\ \A p \in Phones : link[p] => queue'[p] = Append(queue[p], x)
    BY <1>2 DEF Clean, Typed, NetTyped
<1> QED
    BY <1>2, <1>3, <1>4, <1>5, <1>6 DEF Typed

(* A copy is made when all is quiet, and is newer than any before, unless  *)
(* copies cross or something is copied again.                              *)
LEMMA CopiesAreNew ==
    ASSUME Typed, NEW x \in Things, NEW lost \in BOOLEAN, Copied(x, lost)
    PROVE  /\ used' = used \cup {x} /\ crossed' \in BOOLEAN /\ repeated' \in BOOLEAN
           /\ Clean' => Clean /\ Settled /\ x \notin used /\ ~lost
           /\ Clean' /\ x \in Texts => \A y \in UsedTexts : y < x
<1>1. used' = used \cup {x} /\ crossed' \in BOOLEAN /\ repeated' \in BOOLEAN
    BY DEF Copied, Typed
<1>2. Clean' => Clean /\ Settled /\ x \notin used /\ ~lost
    BY DEF Copied, Clean
<1>3. ASSUME x \in Texts, x \notin used, NEW y \in UsedTexts PROVE y < x
  <2>1. y \in Nat /\ x \in Nat /\ y # x /\ y \in used
      BY <1>3, Kinds DEF UsedTexts
  <2>2. \A z \in Texts : z < y => z \in used
      BY DEF Typed, AllUsed, UsedOrNone
  <2> QED
      BY <1>3, <2>1, <2>2 DEF Copied
<1> QED
    BY <1>1, <1>2, <1>3

(* What a phone shows.                                                     *)
LEMMA Shows ==
    ASSUME Typed
    PROVE  /\ shown \in [Phones -> ThingOrNone]
           /\ \A p \in Phones :
                /\ shown[p] \in UsedOrNone
                /\ shown[p] = None => received[p] = None
                /\ taken[p] = None => shown[p] = clip[p]
                /\ taken[p] # None => shown[p] = taken[p]
BY DEF shown, Typed, PhoneTyped, AllUsed, ThingOrNone, TextOrNone, Things

LEMMA TypedWatch ==
    ASSUME Typed, Watch \/ WatchEnds PROVE Typed'
<1>1. CASE WatchRead
    BY <1>1 DEF WatchRead, Idle, hub, net, phone, history,
                Typed, HubTyped, NetTyped, PhoneTyped, AllUsed, UsedOrNone, UsedTexts
<1>2. CASE WatchCompare
  <2>1. watch.item \in Things /\ watch.item \in used
      BY <1>2 DEF WatchCompare, Typed, HubTyped, AllUsed, UsedOrNone, ThingOrNone
  <2>2. \/ watch' = Idle /\ last' = last /\ lastImage' = lastImage
        \/ /\ watch' = [watch EXCEPT !.at = "push"]
           /\ last' \in {last, watch.item} /\ lastImage' \in {lastImage, watch.item}
           /\ watch.item \in Images => last' = last
      BY <1>2 DEF WatchCompare, Remember, hub
  <2>3. HubTyped' /\ pc' \in UsedOrNone /\ last' \in UsedOrNone /\ watch'.item \in UsedOrNone
      BY <1>2, <2>1, <2>2
         DEF WatchCompare, Idle, net, phone, history, Typed, HubTyped, AllUsed, UsedOrNone, Things, ThingOrNone, TextOrNone
  <2> QED
      BY <1>2, <2>3
         DEF WatchCompare, net, phone, history, Typed, NetTyped, PhoneTyped, AllUsed, UsedOrNone, UsedTexts
<1>3. CASE WatchPush
  <2>1. watch.item \in Things /\ watch.item \in used
      BY <1>3 DEF WatchPush, Typed, HubTyped, AllUsed, UsedOrNone, ThingOrNone
  <2>2. /\ queue' \in [Phones -> Seq(Things)] /\ \A p \in Phones : Only(queue'[p], used)
        /\ crossed' \in BOOLEAN /\ repeated' = repeated /\ used' = used
      BY <1>3, <2>1, Pushes DEF WatchPush
  <2> QED
      BY <1>3, <2>2 DEF WatchPush, Idle, phone, Typed, HubTyped, NetTyped, PhoneTyped,
                        AllUsed, UsedOrNone, UsedTexts, ThingOrNone
<1>4. CASE WatchEnds
    BY <1>4 DEF WatchEnds, hub, net, phone, history,
                Typed, HubTyped, NetTyped, PhoneTyped, AllUsed, UsedOrNone, UsedTexts
<1> QED
    BY <1>1, <1>2, <1>3, <1>4 DEF Watch

LEMMA TypedHub ==
    ASSUME Typed, Handle \/ \E p \in Phones : Hub(p) PROVE Typed'
<1>1. ASSUME NEW p \in Phones, SetFromPeer(p) PROVE Typed'
  <2>1. out[p] \in Seq(Texts) /\ out[p] # <<>> /\ Only(out[p], used)
      BY <1>1 DEF SetFromPeer, Typed, NetTyped, AllUsed, UsedOrNone
  <2>2. /\ Tail(out[p]) \in Seq(Texts) /\ Head(out[p]) \in Texts
        /\ Only(Tail(out[p]), used) /\ Head(out[p]) \in used
      BY <2>1, Tailed
  <2>3. /\ last' = Head(out[p]) /\ lastImage' = lastImage
      BY <1>1, <2>2, Kinds DEF SetFromPeer, Remember
  <2>4. handlers' = handlers \cup {[from |-> p, text |-> Head(out[p]), at |-> "set"]}
      BY <1>1 DEF SetFromPeer
  <2>5. HubTyped'
      BY <1>1, <2>2, <2>3, <2>4 DEF SetFromPeer, watcher, Typed, HubTyped, TextOrNone
  <2>6. NetTyped' /\ PhoneTyped'
      BY <1>1, <2>2 DEF SetFromPeer, phone, Typed, NetTyped, PhoneTyped
  <2>7. AllUsed'
      BY <1>1, <2>2, <2>3, <2>4
         DEF SetFromPeer, watcher, phone, history, Typed, NetTyped, AllUsed, UsedOrNone, UsedTexts
  <2> QED
      BY <1>1, <2>5, <2>6, <2>7 DEF SetFromPeer, history, Typed
<1>2. ASSUME NEW h \in handlers, SetClipboard(h) PROVE Typed'
  <2>1. h.text \in Texts /\ h.text \in used /\ [h EXCEPT !.at = "push"] \in
            [from : Phones \cup {None}, text : Texts, at : {"set", "push"}]
      BY DEF Typed, HubTyped, AllUsed, UsedOrNone
  <2>2. [h EXCEPT !.at = "push"].text = h.text
      BY DEF Typed, HubTyped
  <2>3. PICK g : g = [h EXCEPT !.at = "push"]
      OBVIOUS
  <2>4. /\ handlers' = (handlers \ {h}) \cup {g} /\ pc' = h.text
        /\ UNCHANGED <<last, lastImage, watch, subs, queue, link, out,
                      clip, seen, received, read, taken, pulling, used, crossed, repeated>>
      BY <1>2, <2>3 DEF SetClipboard, hub, net, phone, history
  <2>5. HubTyped'
      BY <2>1, <2>3, <2>4 DEF Typed, HubTyped, ThingOrNone, Things
  <2>6. NetTyped' /\ PhoneTyped'
      BY <2>4 DEF Typed, NetTyped, PhoneTyped
  <2>7. AllUsed' /\ crossed' \in BOOLEAN /\ repeated' \in BOOLEAN
    <3>1. \A k \in handlers' : k.text \in used
        BY <2>1, <2>2, <2>3, <2>4 DEF Typed, AllUsed, UsedOrNone
    <3> QED
        BY <2>1, <2>4, <3>1 DEF Typed, AllUsed, UsedOrNone, UsedTexts
  <2> QED
      BY <2>5, <2>6, <2>7 DEF Typed
<1>3. ASSUME NEW h \in handlers, PushToPhones(h) PROVE Typed'
  <2>1. h.text \in Things /\ h.text \in used
      BY DEF Typed, HubTyped, AllUsed, UsedOrNone, Things
  <2>2. /\ queue' \in [Phones -> Seq(Things)] /\ \A p \in Phones : Only(queue'[p], used)
        /\ crossed' \in BOOLEAN /\ repeated' = repeated /\ used' = used
      BY <1>3, <2>1, Pushes DEF PushToPhones
  <2> QED
      BY <1>3, <2>2 DEF PushToPhones, hub, watcher, phone, Typed, HubTyped, NetTyped, PhoneTyped,
                        AllUsed, UsedOrNone, UsedTexts
<1>4. ASSUME NEW p \in Phones, Join(p) PROVE Typed'
    BY <1>4 DEF Join, hub, watcher, phone, history, Typed, HubTyped, NetTyped, PhoneTyped,
                AllUsed, UsedOrNone, UsedTexts
<1> QED
    BY <1>1, <1>2, <1>3, <1>4 DEF Handle, Hub

LEMMA TypedLink ==
    ASSUME Typed, NEW p \in Phones, Connect(p) \/ Disconnect(p) PROVE Typed'
<1>1. CASE Connect(p)
  <2>1. PICK q : q = IF last = None THEN <<>> ELSE <<last>>
      OBVIOUS
  <2>2. last # None => last \in Things /\ last \in used
      BY DEF Typed, HubTyped, TextOrNone, Things, AllUsed, UsedOrNone
  <2>3. q \in Seq(Things) /\ Only(q, used)
      BY <2>1, <2>2, NoThings, OneThing
  <2>4. queue' = [queue EXCEPT ![p] = q]
      BY <1>1, <2>1 DEF Connect
  <2>5. HubTyped' /\ PhoneTyped' /\ crossed' \in BOOLEAN /\ repeated' \in BOOLEAN
      BY <1>1 DEF Connect, hub, watcher, phone, history, Typed, HubTyped, PhoneTyped
  <2>6. NetTyped'
      BY <1>1, <2>3, <2>4 DEF Connect, Typed, NetTyped
  <2>7. AllUsed'
      BY <1>1, <2>3, <2>4 DEF Connect, hub, watcher, phone, history, Typed, NetTyped, AllUsed, UsedOrNone, UsedTexts
  <2> QED
      BY <2>5, <2>6, <2>7 DEF Typed
<1>2. CASE Disconnect(p)
  <2>1. /\ queue' = [queue EXCEPT ![p] = <<>>] /\ out' = [out EXCEPT ![p] = <<>>]
        /\ <<>> \in Seq(Things) /\ <<>> \in Seq(Texts) /\ Only(<<>>, used)
      BY <1>2, NoThings DEF Disconnect
  <2>2. \A g \in handlers' : \E h \in handlers :
          /\ g.text = h.text
          /\ g \in [from : Phones \cup {None}, text : Texts, at : {"set", "push"}]
    <3>1. \A h \in handlers : h \in [from : Phones \cup {None}, text : Texts, at : {"set", "push"}]
        BY DEF Typed, HubTyped
    <3> QED
        BY <1>2, <3>1 DEF Disconnect
  <2>3. HubTyped'
      BY <1>2, <2>2 DEF Disconnect, hub, watcher, Typed, HubTyped
  <2>4. NetTyped' /\ PhoneTyped'
    <3>1. NetTyped'
        BY <1>2, <2>1 DEF Disconnect, Typed, NetTyped
    <3>2. PhoneTyped'
        BY <1>2 DEF Disconnect, Typed, PhoneTyped, ThingOrNone
    <3> QED
        BY <3>1, <3>2
  <2>5. AllUsed'
    <3>1. /\ \A h \in handlers' : h.text \in used
          /\ \A q \in Phones : Only(queue'[q], used) /\ Only(out'[q], used)
        BY <2>1, <2>2 DEF Typed, NetTyped, AllUsed
    <3>2. \A q \in Phones : pulling'[q] \in UsedOrNone
        BY <1>2 DEF Disconnect, Typed, PhoneTyped, AllUsed, UsedOrNone
    <3>3. UNCHANGED <<pc, last, lastImage, pending, watch, clip, seen, received, read, taken, used>>
        BY <1>2 DEF Disconnect, hub, watcher
    <3> QED
        BY <3>1, <3>2, <3>3 DEF Typed, AllUsed, UsedOrNone, UsedTexts
  <2>6. crossed' \in BOOLEAN /\ repeated' \in BOOLEAN
      BY <1>2 DEF Disconnect, Typed
  <2> QED
      BY <2>3, <2>4, <2>5, <2>6 DEF Typed
<1> QED
    BY <1>1, <1>2


LEMMA TypedPhone ==
    ASSUME Typed, NEW p \in Phones, Phone(p) PROVE Typed'
<1>1. CASE SendIfNew(p)
  <2>1. PICK o : o = IF read[p] # received[p] /\ link[p] THEN Append(out[p], read[p]) ELSE out[p]
      OBVIOUS
  <2>2. read[p] \in Texts /\ read[p] \in used
      BY <1>1, Kinds DEF SendIfNew, Typed, PhoneTyped, TextOrNone, AllUsed, UsedOrNone
  <2>3. out[p] \in Seq(Texts) /\ Only(out[p], used)
      BY DEF Typed, NetTyped, AllUsed, UsedOrNone
  <2>4. o \in Seq(Texts) /\ Only(o, used)
    <3>1. Only(Append(out[p], read[p]), used) <=> Only(out[p], used) /\ read[p] \in used
        BY <2>2, <2>3, AppendedOnly
    <3>2. Append(out[p], read[p]) \in Seq(Texts)
        BY <2>2, <2>3
    <3> QED
        BY <2>1, <2>2, <2>3, <3>1, <3>2
  <2>5. out' = [out EXCEPT ![p] = o]
      BY <1>1, <2>1 DEF SendIfNew, Typed, NetTyped
  <2>6. HubTyped' /\ NetTyped'
      BY <1>1, <2>4, <2>5 DEF SendIfNew, hub, watcher, Typed, HubTyped, NetTyped
  <2>7. PhoneTyped'
      BY <1>1, <2>2 DEF SendIfNew, Typed, PhoneTyped, TextOrNone, ThingOrNone, Things
  <2>8. AllUsed' /\ crossed' \in BOOLEAN /\ repeated' \in BOOLEAN
      BY <1>1, <2>2, <2>4, <2>5
         DEF SendIfNew, hub, watcher, Typed, NetTyped, PhoneTyped, AllUsed, UsedOrNone, UsedTexts
  <2> QED
      BY <2>6, <2>7, <2>8 DEF Typed
<1>2. CASE HandlePush(p)
  <2>1. PICK x : x = Head(queue[p])
      OBVIOUS
  <2>2. queue[p] \in Seq(Things) /\ queue[p] # <<>> /\ Only(queue[p], used)
      BY <1>2 DEF HandlePush, Typed, NetTyped, AllUsed, UsedOrNone
  <2>3. /\ Tail(queue[p]) \in Seq(Things) /\ x \in Things
        /\ Only(Tail(queue[p]), used) /\ x \in used
      BY <2>1, <2>2, Tailed
  <2>4. /\ queue' = [queue EXCEPT ![p] = Tail(@)]
        /\ \/ /\ x \in Images /\ pulling' = [pulling EXCEPT ![p] = x]
              /\ taken' = taken /\ received' = received
           \/ /\ x \in Texts /\ received' = [received EXCEPT ![p] = x]
              /\ (x = received[p] /\ taken' = taken) \/ taken' = [taken EXCEPT ![p] = x]
              /\ pulling' = pulling
      BY <1>2, <2>1, <2>3 DEF HandlePush, Things
  <2>5. NetTyped'
      BY <1>2, <2>3, <2>4 DEF HandlePush, Typed, NetTyped
  <2>6. HubTyped' /\ crossed' \in BOOLEAN /\ repeated' \in BOOLEAN
      BY <1>2 DEF HandlePush, hub, watcher, history, Typed, HubTyped
  <2>7. PhoneTyped'
    <3>1. /\ x # None /\ x \in ThingOrNone /\ seen' = seen /\ clip' = clip /\ read' = read
          /\ taken[p] = None
        BY <1>2, <2>3, Kinds DEF HandlePush, Things, ThingOrNone
    <3>2. CASE x \in Images /\ pulling' = [pulling EXCEPT ![p] = x] /\ taken' = taken /\ received' = received
        BY <3>1, <3>2 DEF Typed, PhoneTyped
    <3>3. CASE /\ x \in Texts /\ received' = [received EXCEPT ![p] = x] /\ pulling' = pulling
               /\ x = received[p] /\ taken' = taken
        BY <3>1, <3>3 DEF Typed, PhoneTyped
    <3>4. CASE /\ x \in Texts /\ received' = [received EXCEPT ![p] = x] /\ pulling' = pulling
               /\ taken' = [taken EXCEPT ![p] = x]
        BY <3>1, <3>4 DEF Typed, PhoneTyped, TextOrNone
    <3> QED
        BY <2>4, <3>2, <3>3, <3>4
  <2>8. AllUsed'
      BY <1>2, <2>3, <2>4
         DEF HandlePush, hub, watcher, history, Typed, NetTyped, PhoneTyped, AllUsed, UsedOrNone, UsedTexts
  <2> QED
      BY <2>5, <2>6, <2>7, <2>8 DEF Typed
<1>3. CASE Pull(p)
  <2>1. pulling[p] \in Images /\ pulling[p] \in Things /\ pulling[p] # None
      BY <1>3 DEF Pull, Typed, PhoneTyped, Things
  <2>2. clip' = clip \/ clip' = [clip EXCEPT ![p] = pulling[p]]
      BY <1>3 DEF Pull
  <2>3. HubTyped' /\ NetTyped' /\ crossed' \in BOOLEAN /\ repeated' \in BOOLEAN
      BY <1>3 DEF Pull, watcher, net, history, Typed, HubTyped, NetTyped
  <2>4. PhoneTyped'
      BY <1>3, <2>1, <2>2 DEF Pull, Typed, PhoneTyped, ThingOrNone
  <2>5. AllUsed'
      BY <1>3, <2>1, <2>2 DEF Pull, watcher, net, history, Typed, PhoneTyped, AllUsed, UsedOrNone, UsedTexts
  <2> QED
      BY <2>3, <2>4, <2>5 DEF Typed
<1>4. CASE OnClipChanged(p)
    BY <1>4, Kinds DEF OnClipChanged, hub, watcher, net, history, Typed, HubTyped, NetTyped, PhoneTyped,
                       AllUsed, UsedOrNone, UsedTexts, TextOrNone
<1>5. CASE SetPrimaryClip(p)
  <2>1. taken[p] \in Texts /\ taken[p] \in ThingOrNone /\ taken[p] \in UsedOrNone /\ taken[p] # None
      BY <1>5 DEF SetPrimaryClip, Typed, PhoneTyped, TextOrNone, ThingOrNone, Things, AllUsed
  <2>2. HubTyped' /\ NetTyped' /\ crossed' \in BOOLEAN /\ repeated' \in BOOLEAN
      BY <1>5 DEF SetPrimaryClip, hub, watcher, net, history, Typed, HubTyped, NetTyped
  <2>3. PhoneTyped'
      BY <1>5, <2>1 DEF SetPrimaryClip, Typed, PhoneTyped, TextOrNone
  <2>4. AllUsed'
      BY <1>5, <2>1 DEF SetPrimaryClip, hub, watcher, net, history, Typed, PhoneTyped, AllUsed, UsedOrNone, UsedTexts
  <2> QED
      BY <2>2, <2>3, <2>4 DEF Typed
<1> QED
    BY <1>1, <1>2, <1>3, <1>4, <1>5 DEF Phone


LEMMA TypedUsers ==
    ASSUME Typed, NEW x \in Things,
           PCCopy(x) \/ \E p \in Phones : x \in Texts /\ PhoneCopy(p, x)
    PROVE  Typed'
<1>1. /\ used' = used \cup {x} /\ crossed' \in BOOLEAN /\ repeated' \in BOOLEAN
      /\ x \in Texts => \A y \in Texts : y < x => y \in used
  <2>1. ASSUME NEW lost \in BOOLEAN, Copied(x, lost)
        PROVE  /\ used' = used \cup {x} /\ crossed' \in BOOLEAN /\ repeated' \in BOOLEAN
               /\ x \in Texts => \A y \in Texts : y < x => y \in used
      BY <2>1, CopiesAreNew DEF Copied
  <2> QED
      BY <2>1 DEF PCCopy, PhoneCopy, Typed, NetTyped
<1>2. x # None /\ x \in ThingOrNone
    BY Kinds DEF Things, ThingOrNone
<1>3. \A p \in Phones : Only(queue[p], used') /\ Only(out[p], used')
    BY <1>1, OnlyMore DEF Typed, AllUsed, UsedOrNone
<1>4. \A y \in UsedTexts', z \in Texts : z < y => z \in used'
    BY <1>1 DEF UsedTexts, Typed, AllUsed, UsedOrNone
<1>5. CASE PCCopy(x)
    BY <1>1, <1>2, <1>3, <1>4, <1>5
       DEF PCCopy, hub, net, phone, Typed, HubTyped, NetTyped, PhoneTyped, AllUsed, UsedOrNone
<1>6. ASSUME NEW p \in Phones, x \in Texts, PhoneCopy(p, x) PROVE Typed'
  <2>1. HubTyped' /\ NetTyped'
      BY <1>6 DEF PhoneCopy, hub, watcher, net, Typed, HubTyped, NetTyped
  <2>2. PhoneTyped'
      BY <1>2, <1>6 DEF PhoneCopy, Typed, PhoneTyped
  <2>3. AllUsed'
      BY <1>1, <1>3, <1>4, <1>6
         DEF PhoneCopy, hub, watcher, net, Typed, PhoneTyped, AllUsed, UsedOrNone
  <2> QED
      BY <1>1, <2>1, <2>2, <2>3 DEF Typed
<1> QED
    BY <1>5, <1>6

LEMMA TypedStep == Typed /\ [Next]_vars => Typed'
<1> SUFFICES ASSUME Typed, [Next]_vars PROVE Typed'
    OBVIOUS
<1>1. CASE UNCHANGED vars
    BY <1>1 DEF vars, hub, watcher, net, phone, history,
                Typed, HubTyped, NetTyped, PhoneTyped, AllUsed, UsedOrNone, UsedTexts
<1>2. CASE Next
    BY <1>2, TypedWatch, TypedHub, TypedLink, TypedPhone, TypedUsers DEF Next, Things
<1> QED
    BY <1>1, <1>2

(* The types, and that nothing is anywhere that nobody has copied.         *)
THEOREM TypeCorrect == Spec => []Typed
<1>1. Init => Typed
  <2> SUFFICES ASSUME Init PROVE Typed
      OBVIOUS
  <2>1. \A p \in Phones : Only(queue[p], used) /\ Only(out[p], used)
      BY NoThings DEF Init
  <2>2. HubTyped
      BY DEF Init, Idle, HubTyped, TextOrNone, ThingOrNone
  <2>3. NetTyped
      BY DEF Init, NetTyped
  <2>4. \A p \in Phones : clip[p] = None /\ seen[p] = None /\ received[p] = None /\ pulling[p] = None
      BY DEF Init
  <2>5. PhoneTyped
      BY <2>4 DEF Init, PhoneTyped, TextOrNone, ThingOrNone
  <2>6. AllUsed
      BY <2>1, <2>4 DEF Init, Idle, AllUsed, UsedTexts, UsedOrNone
  <2> QED
      BY <2>2, <2>3, <2>5, <2>6 DEF Init, Typed
<1> QED
    BY <1>1, TypedStep, PTL DEF Spec

-----------------------------------------------------------------------------
(* CleanInv, action by action.                                             *)

LEMMA FreshStays ==
    ASSUME UNCHANGED <<shown, seen, received, out, handlers>>
    PROVE  /\ \A p \in Phones : Waits(p)' = Waits(p) /\ Sends(p)' = Sends(p)
           /\ \A y : Fresh(y)' = Fresh(y)
           /\ NothingFresh' = NothingFresh
BY DEF Waits, Sends, Fresh, NothingFresh

(* The parts that a step of the watching task leaves alone.                *)
LEMMA WatchLeaves ==
    ASSUME CleanInv, UNCHANGED <<pc, handlers, out, used, shown, read, seen, received>>
    PROVE  NewestInv' /\ ImageGivesWay' /\ ReceivedIsShown' /\ ReadsShown'
<1>1. \A y : Fresh(y)' = Fresh(y)
    BY FreshStays
<1> QED
    BY <1>1 DEF CleanInv, NewestInv, ImageGivesWay, ReceivedIsShown, ReadsShown, UsedTexts

LEMMA CleanWatchRead ==
    ASSUME Typed, CleanInv, WatchRead PROVE CleanInv'
<1>1. /\ watch = Idle /\ watch' \in {Idle, [at |-> "compare", item |-> pc]}
      /\ UNCHANGED <<pc, last, lastImage, handlers, subs, queue, link, out, used,
                     shown, read, seen, received, pulling>>
    BY DEF WatchRead, hub, net, phone, shown, history
<1>2. NewestInv' /\ ImageGivesWay' /\ ReceivedIsShown' /\ ReadsShown'
    BY <1>1, WatchLeaves
<1>3. /\ \A p \in Phones : Waits(p)' = Waits(p) /\ Sends(p)' = Sends(p)
      /\ NothingFresh' = NothingFresh
    BY <1>1, FreshStays
<1>4. SendersAlone'
  <2>1. Known(pc) => Known(pc)' /\ WatchKnows'
      BY <1>1 DEF WatchKnows, Known, Idle
  <2> QED
      BY <1>1, <1>3, <2>1 DEF CleanInv, SendersAlone
<1>5. OneHandler'
    BY <1>1 DEF CleanInv, OneHandler, Known
<1>6. ImagesAlone'
  <2>1. pc \in Images /\ ~Known(pc) => NothingFresh
      BY DEF CleanInv, SendersAlone, OneHandler, NothingFresh
  <2>2. ImageMoves' => ImageMoves \/ (pc \in Images /\ ~Known(pc))
      BY <1>1 DEF ImageMoves, Known, Idle
  <2> QED
      BY <1>1, <1>3, <2>1, <2>2 DEF CleanInv, ImagesAlone
<1>7. WatchPushesLast' /\ NoneYet'
    BY <1>1 DEF CleanInv, WatchPushesLast, NoneYet, Idle
<1>8. LastArrives'
    BY <1>1 DEF CleanInv, LastArrives, GetsLast, PushComes, Idle
<1> QED
    BY <1>2, <1>4, <1>5, <1>6, <1>7, <1>8 DEF CleanInv

LEMMA CleanWatchCompare ==
    ASSUME Typed, CleanInv, WatchCompare PROVE CleanInv'
<1>1. /\ watch.at = "compare"
      /\ UNCHANGED <<pc, handlers, subs, queue, link, out, used, shown, read, seen, received, pulling>>
    BY DEF WatchCompare, net, phone, shown, history
<1>2. NewestInv' /\ ImageGivesWay' /\ ReceivedIsShown' /\ ReadsShown'
    BY <1>1, WatchLeaves
<1>3. /\ \A p \in Phones : Waits(p)' = Waits(p) /\ Sends(p)' = Sends(p)
      /\ NothingFresh' = NothingFresh
    BY <1>1, FreshStays
<1>4. CASE Known(watch.item)
  <2>1. watch' = Idle /\ last' = last /\ lastImage' = lastImage
      BY <1>4 DEF WatchCompare, hub
  <2>2. SendersAlone' /\ OneHandler'
      BY <1>1, <1>3, <2>1 DEF CleanInv, SendersAlone, OneHandler, WatchKnows, Known, Idle
  <2>3. ImagesAlone'
      BY <1>1, <1>3, <2>1 DEF CleanInv, ImagesAlone, ImageMoves, Idle
  <2>4. WatchPushesLast' /\ NoneYet'
      BY <1>1, <2>1 DEF CleanInv, WatchPushesLast, NoneYet, Idle
  <2>5. LastArrives'
      BY <1>1, <2>1 DEF CleanInv, LastArrives, GetsLast, PushComes, Idle
  <2> QED
      BY <1>2, <2>2, <2>3, <2>4, <2>5 DEF CleanInv
<1>5. CASE ~Known(watch.item)
  <2>1. /\ watch'.at = "push" /\ watch'.item = watch.item
        /\ watch.item \in Images => lastImage' = watch.item /\ last' = last
        /\ watch.item \notin Images => last' = watch.item /\ lastImage' = lastImage
      BY <1>5 DEF WatchCompare, Remember, Typed, HubTyped
  <2>2. \A p \in Phones : ~Sends(p)
      BY <1>1, <1>5 DEF CleanInv, SendersAlone, WatchKnows
  <2>3. watch.item \in Texts \/ watch.item \in Images
      BY <1>1 DEF Typed, HubTyped, ThingOrNone, Things
  <2>4. watch.item \in Images => pc \in Images /\ NothingFresh
      BY <1>1, <1>5 DEF CleanInv, ImagesAlone, ImageMoves
  <2>5. SendersAlone'
      BY <1>3, <2>2 DEF SendersAlone
  <2>6. OneHandler'
      BY <1>1, <2>1, <2>4 DEF CleanInv, OneHandler, NothingFresh, Known
  <2>7. ImagesAlone'
      BY <1>1, <1>3, <2>1, <2>4 DEF CleanInv, ImagesAlone, ImageMoves
  <2>8. WatchPushesLast'
      BY <2>1, <2>3, Kinds DEF WatchPushesLast
  <2>9. NoneYet'
      BY <1>1, <2>1, <2>3, Kinds DEF CleanInv, NoneYet
  <2>10. LastArrives'
    <3>1. CASE watch.item \in Images
        BY <1>1, <2>1, <3>1 DEF CleanInv, LastArrives, GetsLast, PushComes
    <3>2. CASE watch.item \notin Images
        BY <1>1, <2>1, <3>2 DEF LastArrives, PushComes
    <3> QED
        BY <3>1, <3>2
  <2> QED
      BY <1>2, <2>5, <2>6, <2>7, <2>8, <2>9, <2>10 DEF CleanInv
<1> QED
    BY <1>4, <1>5

LEMMA CleanWatchPush ==
    ASSUME Typed, CleanInv, WatchPush, Clean' PROVE CleanInv'
<1>1. /\ watch.at = "push" /\ watch' = Idle /\ Push(watch.item)
      /\ UNCHANGED <<pc, last, lastImage, handlers, subs, link, out, shown, read, seen, received, pulling>>
    BY DEF WatchPush, phone, shown
<1>2. watch.item \in Things /\ watch.item \in used
    BY <1>1 DEF Typed, HubTyped, AllUsed, ThingOrNone, UsedOrNone
<1>3. /\ \A p \in Phones : queue'[p] \in {queue[p], Append(queue[p], watch.item)}
      /\ \A p \in Phones : link[p] => queue'[p] = Append(queue[p], watch.item)
      /\ used' = used
    BY <1>1, <1>2, Pushes
<1>4. \A p \in Phones : queue[p] \in Seq(Things)
    BY DEF Typed, NetTyped
<1>5. NewestInv' /\ ImageGivesWay' /\ ReceivedIsShown' /\ ReadsShown'
    BY <1>1, <1>3, WatchLeaves
<1>6. /\ \A p \in Phones : Waits(p)' = Waits(p) /\ Sends(p)' = Sends(p)
      /\ NothingFresh' = NothingFresh
    BY <1>1, FreshStays
<1>7. SendersAlone' /\ OneHandler'
    BY <1>1, <1>6 DEF CleanInv, SendersAlone, OneHandler, WatchKnows, Known
<1>8. ImagesAlone'
  <2>1. watch.item \in Texts => \A p \in Phones : Only(queue[p], Texts) => Only(queue'[p], Texts)
      BY <1>2, <1>3, <1>4, AppendedOnly
  <2>2. ImageMoves' => ImageMoves
      BY <1>1, <1>2, <2>1 DEF ImageMoves, Idle, Things
  <2> QED
      BY <1>1, <1>6, <2>2 DEF CleanInv, ImagesAlone
<1>9. WatchPushesLast'
    BY <1>1 DEF WatchPushesLast, Idle
<1>10. NoneYet'
  <2>1. last = None => watch.item \in Images
      BY <1>1, <1>2, Kinds DEF CleanInv, WatchPushesLast, Things
  <2>2. watch.item \in Images => \A p \in Phones : Only(queue[p], Images) => Only(queue'[p], Images)
      BY <1>2, <1>3, <1>4, AppendedOnly, ZenonT(30)
  <2> QED
      BY <1>1, <2>1, <2>2 DEF CleanInv, NoneYet
<1>11. LastArrives'
  <2>1. CASE watch.item \in Texts
    <3>1. watch.item = last
        BY <1>1, <2>1 DEF CleanInv, WatchPushesLast
    <3>2. \A p \in Phones : link[p] => LastText(queue'[p], last)
        BY <1>2, <1>3, <1>4, <3>1, AppendedText
    <3> QED
        BY <1>1, <3>2 DEF LastArrives, GetsLast
  <2>2. CASE watch.item \in Images
    <3>1. watch.item # last
        BY <2>2, Kinds DEF Typed, HubTyped, TextOrNone
    <3>2. ASSUME NEW p \in Phones, link[p], GetsLast(p) PROVE GetsLast(p)'
      <4>1. /\ queue'[p] = Append(queue[p], watch.item)
            /\ queue[p] \in Seq(Things) /\ watch.item \in Things
          BY <1>2, <1>3, <1>4, <3>2
      <4>2. /\ LastText(queue[p], last) => LastText(queue'[p], last)
            /\ Only(queue[p], Images) => Only(queue'[p], Images)
          BY <2>2, <4>1, AppendedImage, AppendedOnly
      <4> QED
          BY <1>1, <3>2, <4>2 DEF GetsLast
    <3>3. PushComes => PushComes'
        BY <1>1, <3>1 DEF PushComes
    <3> QED
        BY <1>1, <3>2, <3>3 DEF CleanInv, LastArrives
  <2> QED
      BY <1>2, <2>1, <2>2 DEF Things
<1> QED
    BY <1>5, <1>7, <1>8, <1>9, <1>10, <1>11 DEF CleanInv


LEMMA CleanStays ==
    ASSUME CleanInv, ReadsShown' \/ read' = read,
           UNCHANGED <<pc, last, lastImage, watch, handlers, queue, link, out, used,
                       shown, seen, received, pulling>>
    PROVE  CleanInv'
<1>1. /\ \A p \in Phones : Waits(p)' = Waits(p) /\ Sends(p)' = Sends(p)
      /\ \A y : Fresh(y)' = Fresh(y)
      /\ NothingFresh' = NothingFresh
    BY FreshStays
<1>2. NewestInv' /\ ImageGivesWay' /\ ReceivedIsShown' /\ ReadsShown'
    BY <1>1 DEF CleanInv, NewestInv, ImageGivesWay, ReceivedIsShown, ReadsShown, UsedTexts
<1>3. SendersAlone'
  <2>1. Known(pc)' = Known(pc) /\ WatchKnows' = WatchKnows
      BY DEF WatchKnows, Known
  <2> QED
      BY <1>1, <2>1 DEF CleanInv, SendersAlone
<1>4. OneHandler' /\ WatchPushesLast' /\ NoneYet'
    BY DEF CleanInv, OneHandler, WatchPushesLast, NoneYet, Known
<1>5. ImagesAlone'
  <2>1. ImageMoves' = ImageMoves
      BY DEF ImageMoves, Known
  <2> QED
      BY <1>1, <2>1 DEF CleanInv, ImagesAlone
<1>6. LastArrives'
    BY DEF CleanInv, LastArrives, GetsLast, PushComes
<1> QED
    BY <1>2, <1>3, <1>4, <1>5, <1>6 DEF CleanInv

LEMMA CleanSetFromPeer ==
    ASSUME Typed, CleanInv, NEW p \in Phones, SetFromPeer(p) PROVE CleanInv'
<1>1. PICK x : x = Head(out[p])
    OBVIOUS
<1>2. PICK h : h = [from |-> p, text |-> x, at |-> "set"]
    OBVIOUS
<1>3. /\ out[p] # <<>> /\ handlers' = handlers \cup {h} /\ out' = [out EXCEPT ![p] = Tail(@)]
      /\ UNCHANGED <<pc, watch, queue, link, used, shown, read, seen, received, pulling>>
    BY <1>1, <1>2 DEF SetFromPeer, watcher, phone, shown, history
<1>4. Sends(p)
    BY <1>3 DEF Sends
<1>5. /\ Known(pc) /\ WatchKnows /\ handlers = {}
      /\ \A q \in Phones : Sends(q) => q = p
      /\ Waits(p) => out[p] = <<>>
      /\ Len(out[p]) <= 1
    BY <1>4 DEF CleanInv, SendersAlone
<1>6. x \in Texts /\ x \in used /\ Tail(out[p]) = <<>>
  <2>1. out[p] \in Seq(Texts) /\ Only(out[p], used)
      BY DEF Typed, NetTyped, AllUsed
  <2>2. Tail(out[p]) = <<>>
      BY <1>3, <1>5, <2>1
  <2> QED
      BY <1>1, <1>3, <2>1, <2>2, Tailed
<1>7. last' = x /\ lastImage' = lastImage
    BY <1>1, <1>6, Kinds DEF SetFromPeer, Remember
<1>8. \A q \in Phones : out'[q] = <<>> /\ ~Waits(q) /\ ~Waits(q)' /\ ~Sends(q)'
    BY <1>3, <1>5, <1>6 DEF Sends, Waits, Typed, NetTyped
<1>9. \A y : Fresh(y) <=> y = x
    BY <1>1, <1>3, <1>5, <1>8 DEF Fresh, Sends
<1>10. \A y : Fresh(y)' <=> y = x
    BY <1>2, <1>3, <1>5, <1>8 DEF Fresh
<1>11. SendersAlone'
    BY <1>8 DEF SendersAlone
<1>12. OneHandler'
    BY <1>2, <1>3, <1>5, <1>7 DEF OneHandler, Known
<1>13. ImagesAlone'
  <2>1. ~ImageMoves
      BY <1>4 DEF CleanInv, ImagesAlone, NothingFresh
  <2>2. ~ImageMoves'
      BY <1>3, <1>7, <2>1 DEF ImageMoves, Known
  <2> QED
      BY <2>2 DEF ImagesAlone
<1>14. WatchPushesLast'
    BY <1>3, <1>5 DEF WatchPushesLast, WatchKnows
<1>15. NewestInv' /\ ImageGivesWay' /\ ReceivedIsShown' /\ ReadsShown'
    BY <1>3, <1>9, <1>10 DEF CleanInv, NewestInv, ImageGivesWay, ReceivedIsShown, ReadsShown, UsedTexts
<1>16. NoneYet'
    BY <1>6, <1>7, Kinds DEF NoneYet
<1>17. LastArrives'
    BY <1>2, <1>3, <1>7 DEF LastArrives, PushComes
<1> QED
    BY <1>11, <1>12, <1>13, <1>14, <1>15, <1>16, <1>17 DEF CleanInv

(* While a text is set, nothing else is on its way.                        *)
LEMMA HandlerAlone ==
    ASSUME Typed, CleanInv, NEW h \in handlers
    PROVE  /\ handlers = {h} /\ \A p \in Phones : ~Sends(p)
           /\ ~ImageMoves /\ last # None
           /\ h.text \in Texts /\ h.text \in used
           /\ \A y : Fresh(y) <=> (h.at = "set" /\ y = h.text)
<1>1. handlers = {h} /\ \A p \in Phones : ~Sends(p)
    BY DEF CleanInv, OneHandler, SendersAlone
<1>2. ~ImageMoves /\ last # None
    BY DEF CleanInv, ImagesAlone, NoneYet, NothingFresh
<1>3. h.text \in Texts /\ h.text \in used
    BY DEF Typed, HubTyped, AllUsed
<1>4. \A y : Fresh(y) <=> (h.at = "set" /\ y = h.text)
    BY <1>1 DEF Fresh, Sends
<1> QED
    BY <1>1, <1>2, <1>3, <1>4

LEMMA CleanSetClipboard ==
    ASSUME Typed, CleanInv, NEW h \in handlers, SetClipboard(h) PROVE CleanInv'
<1>1. PICK g : g = [h EXCEPT !.at = "push"]
    OBVIOUS
<1>2. g.at = "push" /\ g.text = h.text /\ h.at = "set"
    BY <1>1 DEF SetClipboard, Typed, HubTyped
<1>3. /\ pc' = h.text /\ handlers' = {g}
      /\ UNCHANGED <<last, lastImage, watch, queue, link, out, used, shown, read, seen, received, pulling>>
    BY <1>1, HandlerAlone DEF SetClipboard, hub, net, phone, shown, history
<1>4. \A p \in Phones : ~Sends(p) /\ ~Sends(p)'
    BY <1>3, HandlerAlone DEF Sends, Waits
<1>5. \A y : ~Fresh(y)'
    BY <1>2, <1>3, <1>4 DEF Fresh, Sends
<1>6. Fresh(h.text) /\ h.text \in Texts /\ h.text \in used
    BY <1>2, HandlerAlone
<1>7. SendersAlone' /\ OneHandler'
    BY <1>2, <1>3, <1>4, <1>6, Kinds DEF SendersAlone, OneHandler
<1>8. ImagesAlone'
  <2>1. ImageMoves' = ImageMoves
      BY <1>3 DEF ImageMoves, Known
  <2> QED
      BY <2>1, HandlerAlone DEF ImagesAlone
<1>9. WatchPushesLast' /\ ReceivedIsShown' /\ ReadsShown' /\ NoneYet'
    BY <1>3, HandlerAlone DEF CleanInv, WatchPushesLast, ReceivedIsShown, ReadsShown, NoneYet
<1>10. NewestInv'
    BY <1>3, <1>5, <1>6 DEF CleanInv, NewestInv, UsedTexts
<1>11. ImageGivesWay'
    BY <1>3, <1>5, <1>6 DEF CleanInv, ImageGivesWay
<1>12. LastArrives'
  <2>1. PushComes => PushComes'
      BY <1>2, <1>3, HandlerAlone DEF PushComes
  <2> QED
      BY <1>3, <2>1 DEF CleanInv, LastArrives, GetsLast
<1> QED
    BY <1>7, <1>8, <1>9, <1>10, <1>11, <1>12 DEF CleanInv

LEMMA CleanPushToPhones ==
    ASSUME Typed, CleanInv, NEW h \in handlers, PushToPhones(h), Clean' PROVE CleanInv'
<1>1. /\ h.at = "push" /\ Push(h.text) /\ handlers' = {}
      /\ UNCHANGED <<pc, last, lastImage, watch, link, out, shown, read, seen, received, pulling>>
    BY HandlerAlone DEF PushToPhones, hub, watcher, phone, shown
<1>2. h.text \in Texts /\ h.text \in Things /\ h.text \in used
    BY HandlerAlone DEF Things
<1>3. /\ \A p \in Phones : queue'[p] \in {queue[p], Append(queue[p], h.text)}
      /\ \A p \in Phones : link[p] => queue'[p] = Append(queue[p], h.text)
      /\ used' = used
    BY <1>1, <1>2, Pushes
<1>4. \A p \in Phones : queue[p] \in Seq(Things)
    BY DEF Typed, NetTyped
<1>5. \A p \in Phones : ~Sends(p) /\ ~Sends(p)'
    BY <1>1, HandlerAlone DEF Sends, Waits
<1>6. \A y : ~Fresh(y) /\ ~Fresh(y)'
    BY <1>1, <1>5, HandlerAlone DEF Fresh, Sends
<1>7. SendersAlone' /\ OneHandler'
    BY <1>1, <1>5 DEF SendersAlone, OneHandler
<1>8. ImagesAlone'
  <2>1. ASSUME NEW p \in Phones, Only(queue[p], Texts) PROVE Only(queue'[p], Texts)
    <3>1. Only(Append(queue[p], h.text), Texts)
        BY <1>2, <1>4, <2>1, AppendedOnly
    <3> QED
        BY <1>3, <2>1, <3>1
  <2>2. ~ImageMoves'
      BY <1>1, <2>1, HandlerAlone DEF ImageMoves, Known
  <2> QED
      BY <2>2 DEF ImagesAlone
<1>9. WatchPushesLast' /\ ReceivedIsShown' /\ ReadsShown' /\ NoneYet'
    BY <1>1, HandlerAlone DEF CleanInv, WatchPushesLast, ReceivedIsShown, ReadsShown, NoneYet
<1>10. NewestInv' /\ ImageGivesWay'
    BY <1>1, <1>3, <1>6 DEF CleanInv, NewestInv, ImageGivesWay, UsedTexts
<1>11. LastArrives'
  <2>1. CASE h.text = last
    <3>1. \A p \in Phones : link[p] => LastText(queue'[p], last)
        BY <1>2, <1>3, <1>4, <2>1, AppendedText
    <3> QED
        BY <1>1, <3>1 DEF LastArrives, GetsLast
  <2>2. CASE h.text # last
    <3>1. pc = h.text
        BY <1>1 DEF CleanInv, OneHandler
    <3> QED
        BY <1>1, <1>2, <2>2, <3>1 DEF LastArrives, PushComes
  <2> QED
      BY <2>1, <2>2
<1> QED
    BY <1>7, <1>8, <1>9, <1>10, <1>11 DEF CleanInv


-----------------------------------------------------------------------------
(* The connection.                                                         *)

LEMMA CleanConnect ==
    ASSUME Typed, CleanInv, NEW p \in Phones, Connect(p) PROVE CleanInv'
<1>1. PICK s : s = IF last = None THEN <<>> ELSE <<last>>
    OBVIOUS
<1>2. /\ queue' = [queue EXCEPT ![p] = s] /\ link' = [link EXCEPT ![p] = TRUE]
      /\ UNCHANGED <<pc, last, lastImage, watch, handlers, out, used, shown, read, seen, received, pulling>>
    BY <1>1 DEF Connect, hub, watcher, phone, shown, history
<1>3. /\ \A q \in Phones : q # p => queue'[q] = queue[q] /\ link'[q] = link[q]
      /\ queue'[p] = s
    BY <1>2 DEF Typed, NetTyped
<1>4. /\ Only(s, {last}) /\ Only(s, Texts)
      /\ last = None => Only(s, Images)
      /\ last # None => LastText(s, last)
    BY <1>1, NoThings, OneThing DEF Typed, HubTyped, TextOrNone
<1>5. /\ \A q \in Phones : Waits(q)' = Waits(q) /\ Sends(q)' = Sends(q)
      /\ NothingFresh' = NothingFresh
    BY <1>2, FreshStays
<1>6. NewestInv' /\ ImageGivesWay' /\ ReceivedIsShown' /\ ReadsShown'
    BY <1>2, WatchLeaves
<1>7. SendersAlone'
  <2>1. Known(pc)' = Known(pc) /\ WatchKnows' = WatchKnows
      BY <1>2 DEF WatchKnows, Known
  <2> QED
      BY <1>2, <1>3, <1>4, <1>5, <2>1 DEF CleanInv, SendersAlone
<1>8. ImagesAlone'
  <2>1. ImageMoves' => ImageMoves
      BY <1>2, <1>3, <1>4 DEF ImageMoves, Known
  <2> QED
      BY <1>2, <1>5, <2>1 DEF CleanInv, ImagesAlone
<1>9. OneHandler' /\ WatchPushesLast' /\ NoneYet'
    BY <1>2, <1>3, <1>4 DEF CleanInv, OneHandler, WatchPushesLast, NoneYet, Known
<1>10. LastArrives'
  <2>1. GetsLast(p)'
      BY <1>2, <1>3, <1>4 DEF CleanInv, NoneYet, GetsLast
  <2>2. \A q \in Phones : q # p => GetsLast(q)' = GetsLast(q)
      BY <1>2, <1>3 DEF GetsLast
  <2>3. PushComes' = PushComes
      BY <1>2 DEF PushComes
  <2> QED
      BY <1>3, <2>1, <2>2, <2>3 DEF CleanInv, LastArrives
<1> QED
    BY <1>6, <1>7, <1>8, <1>9, <1>10 DEF CleanInv

LEMMA CleanDisconnect ==
    ASSUME Typed, CleanInv, NEW p \in Phones, Disconnect(p), Clean' PROVE CleanInv'
<1>1. /\ out[p] = <<>> /\ queue' = [queue EXCEPT ![p] = <<>>] /\ link' = [link EXCEPT ![p] = FALSE]
      /\ out' = [out EXCEPT ![p] = <<>>] /\ pulling' = [pulling EXCEPT ![p] = None]
      /\ UNCHANGED <<pc, last, lastImage, watch, used, shown, read, seen, received>>
    BY DEF Disconnect, hub, watcher, Clean, shown
<1>2. /\ \A q \in Phones : q # p => /\ queue'[q] = queue[q] /\ link'[q] = link[q]
                                    /\ pulling'[q] = pulling[q]
      /\ queue'[p] = <<>> /\ ~link'[p] /\ pulling'[p] = None
      /\ \A q \in Phones : out'[q] = out[q]
    BY <1>1 DEF Typed, NetTyped, PhoneTyped
<1>3. /\ \A g \in handlers' : \E h \in handlers : g.text = h.text /\ g.at = h.at
      /\ \A h \in handlers : \E g \in handlers' : g.text = h.text /\ g.at = h.at
  <2>1. handlers' = {IF h.from = p THEN [h EXCEPT !.from = None] ELSE h : h \in handlers}
      BY DEF Disconnect
  <2>2. \A h \in handlers : [h EXCEPT !.from = None].text = h.text /\ [h EXCEPT !.from = None].at = h.at
      BY DEF Typed, HubTyped
  <2>3. \A g \in handlers' : \E h \in handlers : g = h \/ g = [h EXCEPT !.from = None]
      BY <2>1
  <2>4. \A h \in handlers : \E g \in handlers' : g = h \/ g = [h EXCEPT !.from = None]
      BY <2>1
  <2> QED
      BY <2>2, <2>3, <2>4
<1>4. \A g, k \in handlers' : g = k
    BY DEF CleanInv, OneHandler, Disconnect
<1>5. handlers' = {} <=> handlers = {}
    BY <1>3
<1>6. /\ \A q \in Phones : Waits(q)' = Waits(q) /\ Sends(q)' = Sends(q)
      /\ NothingFresh' = NothingFresh
    BY <1>1, <1>2, <1>5 DEF Waits, Sends, NothingFresh
<1>7. \A y : Fresh(y)' <=> Fresh(y)
  <2>1. \A y : (\E h \in handlers' : h.at = "set" /\ h.text = y) <=>
               (\E h \in handlers : h.at = "set" /\ h.text = y)
      BY <1>3
  <2> QED
      BY <1>1, <1>2, <1>6, <2>1 DEF Fresh
<1>8. NewestInv' /\ ImageGivesWay' /\ ReceivedIsShown' /\ ReadsShown'
    BY <1>1, <1>7 DEF CleanInv, NewestInv, ImageGivesWay, ReceivedIsShown, ReadsShown, UsedTexts
<1>9. SendersAlone'
  <2>1. Known(pc)' = Known(pc) /\ WatchKnows' = WatchKnows
      BY <1>1 DEF WatchKnows, Known
  <2> QED
      BY <1>1, <1>2, <1>5, <1>6, <2>1, NoThings DEF CleanInv, SendersAlone
<1>10. OneHandler'
    BY <1>1, <1>3, <1>4, <1>5 DEF CleanInv, OneHandler, Known
<1>11. ImagesAlone'
  <2>1. ImageMoves' => ImageMoves
      BY <1>1, <1>2, NoThings DEF ImageMoves, Known
  <2> QED
      BY <1>1, <1>6, <2>1 DEF CleanInv, ImagesAlone
<1>12. WatchPushesLast' /\ NoneYet'
    BY <1>1, <1>2, <1>5, NoThings DEF CleanInv, WatchPushesLast, NoneYet
<1>13. LastArrives'
  <2>1. \A q \in Phones : q # p => GetsLast(q)' = GetsLast(q)
      BY <1>1, <1>2 DEF GetsLast
  <2>2. PushComes => PushComes'
      BY <1>1, <1>3 DEF PushComes
  <2> QED
      BY <1>2, <2>1, <2>2 DEF CleanInv, LastArrives
<1> QED
    BY <1>8, <1>9, <1>10, <1>11, <1>12, <1>13 DEF CleanInv


-----------------------------------------------------------------------------
(* The phone.                                                              *)

LEMMA CleanSendIfNew ==
    ASSUME Typed, CleanInv, NEW p \in Phones, SendIfNew(p), Clean' PROVE CleanInv'
<1>1. /\ read[p] # None /\ read[p] # seen[p] /\ seen' = [seen EXCEPT ![p] = read[p]]
      /\ read' = [read EXCEPT ![p] = None]
      /\ \/ /\ shown[p] \in Texts /\ shown[p] = read[p]
            /\ shown[p] # received[p] /\ out' = [out EXCEPT ![p] = Append(@, shown[p])]
         \/ /\ read[p] = received[p] /\ out' = out
            /\ shown[p] \notin Texts \/ shown[p] = read[p]
      /\ UNCHANGED <<pc, last, lastImage, watch, handlers, queue, link, used, shown, received, pulling>>
  <2>1. read[p] \in Texts /\ read[p] # seen[p]
      BY DEF SendIfNew, Typed, PhoneTyped, TextOrNone
  <2>2. read[p] # received[p] => link[p] /\ shown[p] = read[p]
      BY Shows DEF SendIfNew, Clean
  <2>3. read[p] = received[p] => shown[p] \notin Texts \/ shown[p] = read[p]
      BY <2>1, Kinds DEF CleanInv, ReadsShown
  <2>4. UNCHANGED <<pc, last, lastImage, watch, handlers, queue, link, used, shown, received, pulling>>
      BY DEF SendIfNew, hub, watcher, shown
  <2> QED
      BY <2>1, <2>2, <2>3, <2>4 DEF SendIfNew
<1>2. \A q \in Phones : q # p => seen'[q] = seen[q] /\ out'[q] = out[q] /\ read'[q] = read[q]
    BY <1>1 DEF Typed, NetTyped, PhoneTyped
<1>3. /\ \A q \in Phones : q # p => Waits(q)' = Waits(q) /\ Sends(q)' = Sends(q)
      /\ ~Waits(p)'
    BY <1>1, <1>2 DEF Waits, Sends, Typed, PhoneTyped
<1>4. /\ Sends(p)' <=> Sends(p)
      /\ Sends(p) => Len(out'[p]) <= 1
      /\ \A y : Fresh(y)' <=> Fresh(y)
  <2>1. CASE out' = out /\ read[p] = received[p]
    <3>1. ~Waits(p) /\ out' = out
        BY <1>1, <2>1 DEF Waits
    <3>2. Sends(p)' <=> Sends(p)
        BY <1>3, <3>1 DEF Sends
    <3>3. Sends(p) => Len(out'[p]) <= 1
        BY <3>1 DEF CleanInv, SendersAlone
    <3>4. \A y : Fresh(y)' <=> Fresh(y)
        BY <1>1, <1>3, <3>1 DEF Fresh
    <3> QED
        BY <3>2, <3>3, <3>4
  <2>2. CASE out' # out \/ read[p] # received[p]
    <3>1. Waits(p) /\ Sends(p)
        BY <1>1, <2>2 DEF Waits, Sends
    <3>2. /\ out[p] = <<>> /\ handlers = {}
          /\ \A q \in Phones : Sends(q) => q = p
        BY <3>1 DEF CleanInv, SendersAlone
    <3>3. out'[p] = <<shown[p]>>
        BY <1>1, <2>2, <3>2 DEF Typed, NetTyped
    <3>4. Sends(p)' /\ Len(out'[p]) <= 1
        BY <3>3 DEF Sends
    <3>5. \A q \in Phones : q # p => ~Waits(q) /\ ~Waits(q)' /\ out[q] = <<>> /\ out'[q] = <<>>
        BY <1>2, <1>3, <3>2 DEF Sends
    <3>6. \A y : Fresh(y) <=> y = shown[p]
        BY <3>1, <3>2, <3>5 DEF Fresh
    <3>7. \A y : Fresh(y)' <=> y = shown[p]
        BY <1>1, <1>3, <3>2, <3>3, <3>5 DEF Fresh
    <3> QED
        BY <3>1, <3>4, <3>6, <3>7
  <2> QED
      BY <2>1, <2>2
<1>5. NothingFresh' <=> NothingFresh
    BY <1>1, <1>3, <1>4 DEF NothingFresh
<1>6. SendersAlone'
  <2>1. Known(pc)' = Known(pc) /\ WatchKnows' = WatchKnows
      BY <1>1 DEF WatchKnows, Known
  <2>2. ASSUME NEW r \in Phones, Sends(r)' PROVE Sends(r)
      BY <1>3, <1>4, <2>2
  <2>3. \A q \in Phones : Sends(q) => Len(out'[q]) <= 1
      BY <1>2, <1>4 DEF CleanInv, SendersAlone
  <2>4. ASSUME NEW r \in Phones, Sends(r)'
        PROVE  (Waits(r) => out[r] = <<>> /\ received[r] = last)' /\ (Len(out[r]) <= 1)'
      BY <1>1, <1>2, <1>3, <2>2, <2>3, <2>4 DEF CleanInv, SendersAlone
  <2>5. ASSUME NEW r \in Phones, Sends(r)'
        PROVE  /\ (Known(pc) /\ WatchKnows /\ handlers = {})'
               /\ \A q \in Phones : Sends(q)' => q = r
               /\ (\A q \in Phones : Only(queue[q], {last}))'
      BY <1>1, <2>1, <2>2, <2>5 DEF CleanInv, SendersAlone
  <2> QED
      BY <2>4, <2>5 DEF SendersAlone
<1>7. ImagesAlone'
  <2>1. ImageMoves' = ImageMoves
      BY <1>1 DEF ImageMoves, Known
  <2> QED
      BY <1>1, <1>5, <2>1 DEF CleanInv, ImagesAlone
<1>8. NewestInv' /\ ImageGivesWay' /\ ReceivedIsShown' /\ ReadsShown'
    BY <1>1, <1>4 DEF CleanInv, NewestInv, ImageGivesWay, ReceivedIsShown, ReadsShown, UsedTexts
<1>9. OneHandler' /\ WatchPushesLast' /\ NoneYet' /\ LastArrives'
    BY <1>1 DEF CleanInv, OneHandler, WatchPushesLast, NoneYet, LastArrives, GetsLast, PushComes, Known
<1> QED
    BY <1>6, <1>7, <1>8, <1>9 DEF CleanInv

(* The steps that only start or end what the phone shows anyhow.           *)
LEMMA CleanListens ==
    ASSUME Typed, CleanInv, NEW p \in Phones, OnClipChanged(p) \/ SetPrimaryClip(p)
    PROVE  CleanInv'
<1>1. CASE OnClipChanged(p)
  <2>1. UNCHANGED <<pc, last, lastImage, watch, handlers, queue, link, out, used,
                    shown, seen, received, pulling>>
      BY <1>1 DEF OnClipChanged, hub, watcher, net, history, shown
  <2>2. read' = [read EXCEPT ![p] = clip[p]] /\ read \in [Phones -> TextOrNone]
      BY <1>1 DEF OnClipChanged, Typed, PhoneTyped
  <2>3. clip[p] = received[p] => shown[p] = clip[p]
      BY Shows DEF Typed, PhoneTyped
  <2>4. ReadsShown'
      BY <2>1, <2>2, <2>3 DEF CleanInv, ReadsShown
  <2> QED
      BY <2>1, <2>4, CleanStays
<1>2. CASE SetPrimaryClip(p)
  <2>1. shown' = shown
      BY <1>2 DEF SetPrimaryClip, Typed, PhoneTyped, shown
  <2> QED
      BY <1>2, <2>1, CleanStays DEF SetPrimaryClip, hub, watcher, net, history
<1> QED
    BY <1>1, <1>2

(* What p reads off its channel.                                           *)
LEMMA ReadsHead ==
    ASSUME Typed, CleanInv, NEW p \in Phones, HandlePush(p)
    PROVE  LET x == Head(queue[p]) IN
           /\ x \in Things /\ x \in used
           /\ \A q \in Phones : q # p => /\ queue'[q] = queue[q] /\ shown'[q] = shown[q]
                                         /\ received'[q] = received[q] /\ pulling'[q] = pulling[q]
           /\ UNCHANGED <<pc, last, lastImage, watch, handlers, link, out, used, seen, read>>
           /\ \/ /\ x \in Images /\ shown'[p] = shown[p] /\ received'[p] = received[p]
              \/ /\ x \in Texts /\ received'[p] = x /\ pulling'[p] = pulling[p]
                 /\ shown'[p] = IF x = received[p] THEN shown[p] ELSE x
           /\ \A S : Only(queue[p], S) => Only(queue'[p], S) /\ x \in S
           /\ LastText(queue[p], last) =>
                LastText(queue'[p], last) \/ (x = last /\ Only(queue'[p], Images))
<1>1. PICK x : x = Head(queue[p])
    OBVIOUS
<1>2. queue[p] \in Seq(Things) /\ queue[p] # <<>> /\ Only(queue[p], used)
    BY DEF HandlePush, Typed, NetTyped, AllUsed
<1>3. x \in Things /\ x \in used
    BY <1>1, <1>2, Tailed
<1>4. queue'[p] = Tail(queue[p]) /\ \A q \in Phones : q # p => queue'[q] = queue[q]
    BY DEF HandlePush, Typed, NetTyped
<1>5. UNCHANGED <<pc, last, lastImage, watch, handlers, link, out, used, seen, read>>
    BY DEF HandlePush, hub, watcher, history
<1>6. CASE x \in Images
  <2>1. pulling' = [pulling EXCEPT ![p] = x] /\ shown' = shown /\ received' = received
      BY <1>1, <1>6 DEF HandlePush, shown
  <2>2. \A q \in Phones : q # p => pulling'[q] = pulling[q]
      BY <2>1 DEF Typed, PhoneTyped
  <2> QED
      BY <1>1, <1>2, <1>3, <1>4, <1>5, <1>6, <2>1, <2>2, Tailed
<1>7. CASE x \notin Images
  <2>1. /\ received' = [received EXCEPT ![p] = x] /\ pulling' = pulling /\ x \in Texts
        /\ clip' = clip /\ taken[p] = None /\ x # None
        /\ taken' = IF x = received[p] THEN taken ELSE [taken EXCEPT ![p] = x]
      BY <1>1, <1>3, <1>7, Kinds DEF HandlePush, Things
  <2>2. /\ received'[p] = x /\ shown'[p] = IF x = received[p] THEN shown[p] ELSE x
        /\ \A q \in Phones : q # p => shown'[q] = shown[q] /\ received'[q] = received[q]
      BY <2>1 DEF Typed, PhoneTyped, shown
  <2>3. pulling' = pulling /\ received'[p] = x /\ x \in Texts
      BY <2>1, <2>2
  <2>4. /\ \A S : Only(queue[p], S) => Only(queue'[p], S) /\ x \in S
        /\ LastText(queue[p], last) =>
             LastText(queue'[p], last) \/ (x = last /\ Only(queue'[p], Images))
      BY <1>1, <1>2, <1>4, Tailed
  <2> QED
      BY <1>1, <1>3, <1>4, <1>5, <2>2, <2>3, <2>4
<1> QED
    BY <1>6, <1>7


LEMMA CleanHandlePush ==
    ASSUME Typed, CleanInv, NEW p \in Phones, HandlePush(p) PROVE CleanInv'
<1>1. PICK x \in Things :
        /\ x \in used
        /\ \A q \in Phones : q # p => /\ queue'[q] = queue[q] /\ shown'[q] = shown[q]
                                      /\ received'[q] = received[q] /\ pulling'[q] = pulling[q]
        /\ UNCHANGED <<pc, last, lastImage, watch, handlers, link, out, used, seen, read>>
        /\ \/ /\ x \in Images /\ shown'[p] = shown[p] /\ received'[p] = received[p]
           \/ /\ x \in Texts /\ received'[p] = x /\ pulling'[p] = pulling[p]
              /\ shown'[p] = IF x = received[p] THEN shown[p] ELSE x
        /\ \A S : Only(queue[p], S) => Only(queue'[p], S) /\ x \in S
        /\ LastText(queue[p], last) =>
             LastText(queue'[p], last) \/ (x = last /\ Only(queue'[p], Images))
    BY ReadsHead
<1>2. x \in Texts /\ x # received[p] => ~Waits(p)
  <2>1. SUFFICES ASSUME x \in Texts, x # received[p], Waits(p) PROVE FALSE
      OBVIOUS
  <2>2. Only(queue[p], {last}) /\ received[p] = last
      BY <2>1 DEF Sends, CleanInv, SendersAlone
  <2> QED
      BY <1>1, <2>1, <2>2
<1>3. \A q \in Phones :
        /\ Waits(q)' <=> Waits(q)
        /\ Waits(q) => shown'[q] = shown[q] /\ received'[q] = received[q]
    BY <1>1, <1>2 DEF Waits
<1>4. /\ \A q \in Phones : Sends(q)' <=> Sends(q)
      /\ \A y : Fresh(y)' <=> Fresh(y)
    BY <1>1, <1>3 DEF Sends, Fresh
<1>5. NothingFresh' <=> NothingFresh
    BY <1>1, <1>4 DEF NothingFresh
<1>6. SendersAlone'
  <2>1. Known(pc)' = Known(pc) /\ WatchKnows' = WatchKnows
      BY <1>1 DEF WatchKnows, Known
  <2>2. \A q \in Phones : Only(queue[q], {last}) => Only(queue'[q], {last})
      BY <1>1
  <2> QED
      BY <1>1, <1>3, <1>4, <2>1, <2>2 DEF CleanInv, SendersAlone
<1>7. OneHandler' /\ WatchPushesLast'
    BY <1>1 DEF CleanInv, OneHandler, WatchPushesLast, Known
<1>8. ImagesAlone'
  <2>1. x \in Images => ImageMoves
      BY <1>1, Kinds DEF ImageMoves
  <2>2. x \in Texts /\ ImageMoves' => ImageMoves
      BY <1>1, Kinds DEF ImageMoves, Known
  <2> QED
      BY <1>1, <1>5, <2>1, <2>2 DEF CleanInv, ImagesAlone, Things
<1>9. NewestInv'
    BY <1>1, <1>4 DEF CleanInv, NewestInv, UsedTexts
<1>10. ImageGivesWay'
  <2>1. ASSUME NEW q \in Phones, shown'[q] \in Images
        PROVE  shown'[q] = shown[q] /\ received'[q] = received[q]
      BY <1>1, <2>1, Kinds
  <2> QED
      BY <1>1, <1>4, <2>1 DEF CleanInv, ImageGivesWay
<1>11. ReceivedIsShown' /\ ReadsShown'
  <2>1. x \in Texts => x <= x
      BY Kinds
  <2> QED
      BY <1>1, <2>1 DEF CleanInv, ReceivedIsShown, ReadsShown
<1>12. NoneYet'
    BY <1>1, Kinds DEF CleanInv, NoneYet
<1>13. LastArrives'
  <2>1. PushComes' = PushComes
      BY <1>1 DEF PushComes
  <2>2. GetsLast(p) => GetsLast(p)'
    <3>1. CASE LastText(queue[p], last)
      <4>1. x = last => received'[p] = last
          BY <1>1, Kinds DEF Typed, HubTyped, TextOrNone
      <4> QED
          BY <1>1, <3>1, <4>1 DEF GetsLast
    <3>2. CASE received[p] = last /\ Only(queue[p], Images)
        BY <1>1, <3>2, Kinds DEF GetsLast
    <3> QED
        BY <3>1, <3>2 DEF GetsLast
  <2>3. \A q \in Phones : q # p => GetsLast(q)' = GetsLast(q)
      BY <1>1 DEF GetsLast
  <2> QED
      BY <1>1, <2>1, <2>2, <2>3 DEF CleanInv, LastArrives
<1> QED
    BY <1>6, <1>7, <1>8, <1>9, <1>10, <1>11, <1>12, <1>13 DEF CleanInv

LEMMA CleanPull ==
    ASSUME Typed, CleanInv, NEW p \in Phones, Pull(p) PROVE CleanInv'
<1>1. /\ pulling[p] \in Images
      /\ shown' = shown \/ shown' = [shown EXCEPT ![p] = pulling[p]]
      /\ UNCHANGED <<pc, last, lastImage, watch, handlers, queue, link, out, used, seen, read, received>>
    BY DEF Pull, watcher, net, history, Typed, PhoneTyped, shown
<1>2. pc \in Images /\ NothingFresh
    BY DEF Pull, CleanInv, ImagesAlone, ImageMoves
<1>3. \A q \in Phones : shown'[q] = shown[q] \/ (shown'[q] \in Images /\ shown'[q] \notin Texts)
    BY <1>1, Shows, Kinds
<1>4. \A q \in Phones : ~Waits(q)' /\ ~Sends(q)'
    BY <1>1, <1>2, <1>3 DEF NothingFresh, Sends, Waits
<1>5. NothingFresh' /\ \A y : ~Fresh(y)'
    BY <1>1, <1>2, <1>4 DEF NothingFresh, Fresh, Sends
<1>6. SendersAlone' /\ ImagesAlone'
    BY <1>1, <1>2, <1>4, <1>5 DEF SendersAlone, ImagesAlone
<1>7. OneHandler' /\ WatchPushesLast' /\ NoneYet' /\ LastArrives'
    BY <1>1 DEF CleanInv, OneHandler, WatchPushesLast, NoneYet, LastArrives, GetsLast, PushComes, Known
<1>8. NewestInv' /\ ImageGivesWay'
    BY <1>1, <1>2, <1>5, Kinds DEF NewestInv, ImageGivesWay
<1>9. ReceivedIsShown' /\ ReadsShown'
    BY <1>1, <1>3 DEF CleanInv, ReceivedIsShown, ReadsShown
<1> QED
    BY <1>6, <1>7, <1>8, <1>9 DEF CleanInv

-----------------------------------------------------------------------------
(* The users.                                                              *)

(* When all is quiet, every connected phone has received the last text.    *)
LEMMA SettledMeans ==
    ASSUME Typed, CleanInv, Settled
    PROVE  /\ NothingFresh /\ ~ImageMoves /\ WatchKnows /\ Known(pc) /\ ~PushComes
           /\ \A p \in Phones : queue[p] = <<>> /\ out[p] = <<>>
           /\ \A y : ~Fresh(y)
           /\ \A p \in Phones : link[p] => received[p] = last
<1>1. /\ Known(pc) /\ WatchKnows /\ handlers = {}
      /\ \A p \in Phones : queue[p] = <<>> /\ out[p] = <<>> /\ pulling[p] = None
      /\ \A p \in Phones : shown[p] \notin Images => shown[p] = seen[p]
    BY Shows DEF Settled, WatchKnows
<1>2. \A p \in Phones : ~Waits(p) /\ ~Sends(p)
    BY <1>1, Kinds DEF Waits, Sends
<1>3. NothingFresh /\ \A y : ~Fresh(y)
    BY <1>1, <1>2 DEF NothingFresh, Fresh
<1>4. ~ImageMoves
    BY <1>1, NoThings DEF ImageMoves, WatchKnows
<1>5. ~PushComes
    BY <1>1, Kinds DEF PushComes, WatchKnows, Known
<1>6. \A p \in Phones : link[p] => received[p] = last
    BY <1>1, <1>5, NoThings DEF CleanInv, LastArrives, GetsLast
<1> QED
    BY <1>1, <1>3, <1>4, <1>5, <1>6

LEMMA CleanPCCopy ==
    ASSUME Typed, CleanInv, NEW x \in Things, PCCopy(x), Clean' PROVE CleanInv'
<1>1. /\ pc' = x
      /\ UNCHANGED <<last, lastImage, watch, handlers, queue, link, out, shown, read, seen, received, pulling>>
    BY DEF PCCopy, hub, net, phone, shown
<1>2. /\ used' = used \cup {x} /\ Settled /\ x \notin used
      /\ x \in Texts => \A y \in UsedTexts : y < x
    BY CopiesAreNew DEF PCCopy
<1>3. /\ \A q \in Phones : Waits(q)' = Waits(q) /\ Sends(q)' = Sends(q)
      /\ \A y : Fresh(y)' = Fresh(y)
      /\ NothingFresh' = NothingFresh
    BY <1>1, FreshStays
<1>4. /\ NothingFresh /\ ~ImageMoves /\ ~PushComes
      /\ \A y : ~Fresh(y)
    BY <1>2, SettledMeans
<1>5. SendersAlone' /\ OneHandler'
    BY <1>1, <1>3, <1>4 DEF SendersAlone, OneHandler, NothingFresh
<1>6. ImagesAlone'
  <2>1. ImageMoves' = ImageMoves
      BY <1>1 DEF ImageMoves, Known
  <2> QED
      BY <1>4, <2>1 DEF ImagesAlone
<1>7. WatchPushesLast' /\ ReceivedIsShown' /\ ReadsShown' /\ NoneYet'
    BY <1>1 DEF CleanInv, WatchPushesLast, ReceivedIsShown, ReadsShown, NoneYet
<1>8. NewestInv'
  <2>1. ASSUME x \in Texts, NEW y \in UsedTexts' PROVE y <= x
    <3>1. x \in Nat /\ y \in Nat /\ (y \in UsedTexts \/ y = x)
        BY <1>2, <2>1, Kinds DEF UsedTexts
    <3> QED
        BY <1>2, <2>1, <3>1
  <2> QED
      BY <1>1, <1>3, <1>4, <2>1 DEF NewestInv
<1>9. ImageGivesWay'
  <2>1. x # None /\ \A p \in Phones : received[p] # x
      BY <1>2, Kinds DEF Things, Typed, AllUsed, UsedOrNone
  <2> QED
      BY <1>1, <1>3, <1>4, <2>1 DEF ImageGivesWay
<1>10. LastArrives'
    BY <1>1, <1>4 DEF CleanInv, LastArrives, GetsLast
<1> QED
    BY <1>5, <1>6, <1>7, <1>8, <1>9, <1>10 DEF CleanInv

LEMMA CleanPhoneCopy ==
    ASSUME Typed, CleanInv, NEW p \in Phones, NEW x \in Texts, PhoneCopy(p, x), Clean' PROVE CleanInv'
<1>2. /\ used' = used \cup {x} /\ Settled /\ x \notin used /\ link[p]
      /\ \A y \in UsedTexts : y < x
  <2>1. x \in Things /\ (~link[p]) \in BOOLEAN /\ Copied(x, ~link[p])
      BY DEF PhoneCopy, Things
  <2> QED
      BY <2>1, CopiesAreNew
<1>1. /\ shown' = [shown EXCEPT ![p] = x]
      /\ \A q \in Phones : read[q] = None
      /\ UNCHANGED <<pc, last, lastImage, watch, handlers, queue, link, out,
                     seen, received, read, pulling>>
  <2>1. \A q \in Phones : taken[q] = None /\ taken'[q] = None /\ read[q] = None
      BY <1>2 DEF Settled, PhoneCopy
  <2>2. clip' = [clip EXCEPT ![p] = x] /\ clip \in [Phones -> ThingOrNone]
      BY DEF PhoneCopy, Typed, PhoneTyped
  <2>3. shown = clip /\ shown' = clip'
      BY <2>1, <2>2 DEF shown
  <2> QED
      BY <2>1, <2>2, <2>3 DEF PhoneCopy, hub, watcher, net
<1>3. shown'[p] = x /\ \A q \in Phones : q # p => shown'[q] = shown[q]
    BY <1>1, Shows
<1>4. /\ NothingFresh /\ ~ImageMoves /\ WatchKnows /\ Known(pc) /\ ~PushComes
      /\ \A q \in Phones : queue[q] = <<>> /\ out[q] = <<>>
      /\ received[p] = last
    BY <1>2, SettledMeans
<1>5. x # None /\ \A q \in Phones : received[q] # x /\ seen[q] # x
    BY <1>2, Kinds DEF Typed, AllUsed, UsedOrNone
<1>6. /\ Waits(p)' /\ \A q \in Phones : q # p => ~Waits(q)' /\ ~Sends(q)'
      /\ \A y : Fresh(y)' <=> y = x
  <2>1. Waits(p)' /\ \A q \in Phones : q # p => ~Waits(q)' /\ ~Sends(q)'
      BY <1>1, <1>3, <1>4, <1>5 DEF NothingFresh, Sends, Waits
  <2> QED
      BY <1>1, <1>3, <1>4, <2>1 DEF Fresh, NothingFresh
<1>7. SendersAlone'
  <2>1. Known(pc)' /\ WatchKnows' /\ handlers' = {}
      BY <1>1, <1>4 DEF WatchKnows, Known, NothingFresh
  <2>2. \A q \in Phones : Only(queue'[q], {last'})
      BY <1>1, <1>4, NoThings
  <2>3. Len(out'[p]) <= 1 /\ out'[p] = <<>> /\ received'[p] = last'
      BY <1>1, <1>4
  <2> QED
      BY <1>6, <2>1, <2>2, <2>3 DEF SendersAlone
<1>8. OneHandler' /\ WatchPushesLast' /\ NoneYet' /\ LastArrives'
    BY <1>1 DEF CleanInv, OneHandler, WatchPushesLast, NoneYet, LastArrives, GetsLast, PushComes, Known
<1>9. ImagesAlone'
  <2>1. ImageMoves' = ImageMoves
      BY <1>1 DEF ImageMoves, Known
  <2> QED
      BY <1>4, <2>1 DEF ImagesAlone
<1>10. NewestInv'
  <2>1. ASSUME NEW z \in UsedTexts' PROVE z <= x
    <3>1. x \in Nat /\ z \in Nat /\ (z \in UsedTexts \/ z = x)
        BY <1>2, <2>1, Kinds DEF UsedTexts
    <3> QED
        BY <1>2, <3>1
  <2>2. pc \in Texts => \A y \in UsedTexts : y <= pc
      BY <1>2, SettledMeans DEF CleanInv, NewestInv
  <2>3. \A y \in UsedTexts' : y \in UsedTexts \/ y = x
      BY <1>2 DEF UsedTexts
  <2> QED
      BY <1>1, <1>6, <2>1, <2>2, <2>3 DEF NewestInv
<1>11. ImageGivesWay'
    BY <1>1, <1>3, <1>5, <1>6, Kinds DEF CleanInv, ImageGivesWay
<1>12. ReceivedIsShown' /\ ReadsShown'
  <2>1. received[p] \in Texts => received[p] <= x
    <3>1. received[p] \in used \cup {None}
        BY DEF Typed, AllUsed, UsedOrNone
    <3>2. ASSUME received[p] \in Texts PROVE received[p] <= x
      <4>1. received[p] \in UsedTexts /\ received[p] \in Nat /\ x \in Nat
          BY <3>1, <3>2, Kinds DEF UsedTexts
      <4> QED
          BY <1>2, <4>1
    <3> QED
        BY <3>2
  <2> QED
      BY <1>1, <1>3, <2>1 DEF CleanInv, ReceivedIsShown, ReadsShown
<1> QED
    BY <1>7, <1>8, <1>9, <1>10, <1>11, <1>12 DEF CleanInv

-----------------------------------------------------------------------------
LEMMA CleanStep ==
    ASSUME Typed, Inv, [Next]_vars PROVE Inv'
<1> SUFFICES ASSUME Clean' PROVE CleanInv'
    BY DEF Inv
<1>1. Clean
  <2>1. ASSUME NEW x \in Things, NEW lost \in BOOLEAN, Copied(x, lost) PROVE Clean
      BY <2>1, CopiesAreNew
  <2>2. ASSUME NEW x, Push(x) PROVE Clean
      BY <2>2 DEF Push, Noted, Clean
  <2> QED
      BY <2>1, <2>2
         DEF Next, Watch, WatchRead, WatchCompare, WatchPush, WatchEnds, Handle, SetClipboard, PushToPhones,
             Hub, SetFromPeer, Join, Phone, OnClipChanged, SendIfNew, HandlePush, SetPrimaryClip, Pull, Connect, Disconnect,
             PCCopy, PhoneCopy, Things, Clean, vars, history, Typed, NetTyped
<1>2. CleanInv
    BY <1>1 DEF Inv
<1>3. CASE Watch \/ WatchEnds
  <2>1. WatchEnds => CleanInv'
      BY <1>2, CleanStays DEF WatchEnds, hub, net, phone, shown, history
  <2> QED
      BY <1>2, <1>3, <2>1, CleanWatchRead, CleanWatchCompare, CleanWatchPush DEF Watch
<1>4. CASE Handle
    BY <1>2, <1>4, CleanSetClipboard, CleanPushToPhones DEF Handle
<1>5. ASSUME NEW p \in Phones, Hub(p) \/ Phone(p) \/ Connect(p) \/ Disconnect(p) PROVE CleanInv'
  <2>1. Join(p) => CleanInv'
      BY <1>2, CleanStays DEF Join, hub, watcher, phone, shown, history
  <2> QED
      BY <1>2, <1>5, <2>1, CleanSetFromPeer, CleanListens, CleanSendIfNew, CleanHandlePush, CleanPull,
         CleanConnect, CleanDisconnect DEF Hub, Phone
<1>6. ASSUME NEW x \in Texts \cup Images, PCCopy(x) PROVE CleanInv'
    BY <1>2, <1>6, CleanPCCopy DEF Things
<1>7. ASSUME NEW p \in Phones, NEW x \in Texts, PhoneCopy(p, x) PROVE CleanInv'
    BY <1>2, <1>7, CleanPhoneCopy
<1>8. CASE UNCHANGED vars
    BY <1>2, <1>8, CleanStays DEF vars, hub, watcher, net, phone, shown, history
<1> QED
    BY <1>3, <1>4, <1>5, <1>6, <1>7, <1>8 DEF Next

(* When all is quiet, every connected phone has the PC's text on its       *)
(* clipboard, however the programs that watch the clipboards, the pushes   *)
(* and the connections interleave (clipboard.rs; ClipboardAutoSync and     *)
(* handlePush on the phone).                                               *)
THEOREM SharedAlways == Spec => []SharedWhenSettled
<1>1. Init => Inv
  <2> SUFFICES ASSUME Init PROVE CleanInv
      BY DEF Inv
  <2>1. \A p \in Phones :
          /\ queue[p] = <<>> /\ out[p] = <<>> /\ pulling[p] = None
          /\ shown[p] = None /\ received[p] = None /\ read[p] = None
      BY DEF Init, shown
  <2>2. \A p \in Phones : ~Waits(p) /\ ~Sends(p)
      BY <2>1, Kinds DEF Waits, Sends
  <2>3. SendersAlone /\ OneHandler /\ NoneYet /\ ReceivedIsShown /\ ReadsShown
      BY <2>1, <2>2, Kinds, NoThings DEF Init, SendersAlone, OneHandler, NoneYet, ReceivedIsShown, ReadsShown
  <2>4. ImagesAlone /\ WatchPushesLast
      BY <2>1, NoThings DEF Init, Idle, ImagesAlone, ImageMoves, WatchPushesLast
  <2>5. NewestInv /\ ImageGivesWay
      BY <2>1, Kinds DEF Init, NewestInv, ImageGivesWay, UsedTexts
  <2>6. LastArrives
      BY <2>1, NoThings DEF Init, LastArrives, GetsLast
  <2> QED
      BY <2>3, <2>4, <2>5, <2>6 DEF CleanInv
<1>2. Typed /\ Inv /\ [Next]_vars => Inv'
    BY CleanStep
<1>3. Typed /\ Inv => SharedWhenSettled
  <2> SUFFICES ASSUME Typed, CleanInv, Settled, pc \in Texts, NEW p \in Phones, link[p]
               PROVE  shown[p] = pc
      BY Shows DEF Settled, Inv, Clean, SharedWhenSettled, Shared
  <2>1. received[p] = pc /\ \A y : ~Fresh(y)
      BY SettledMeans, Kinds DEF Known
  <2>2. shown[p] \in Images \cup Texts
      BY <2>1, Kinds, Shows DEF ThingOrNone, Things
  <2>3. shown[p] \notin Images
      BY <2>1 DEF CleanInv, ImageGivesWay
  <2>4. shown[p] \in UsedTexts
      BY <2>2, <2>3, Kinds, Shows DEF UsedOrNone, UsedTexts
  <2>5. shown[p] <= pc /\ pc <= shown[p]
      BY <2>1, <2>4 DEF CleanInv, NewestInv, ReceivedIsShown, UsedTexts
  <2>6. shown[p] \in Nat /\ pc \in Nat
      BY <2>4, Kinds DEF UsedTexts
  <2> QED
      BY <2>5, <2>6
<1> QED
    BY <1>1, <1>2, <1>3, TypeCorrect, PTL DEF Spec

==============================================================================
