-------------------------- MODULE AmqpClientProofs --------------------------
(***************************************************************************)
(* Proofs about AmqpClient, for any channels, kinds of requests, bodies    *)
(* and bounds: a message is handed to the application whole, unmixed and   *)
(* in its channel's order, unless a wait has missed a frame behind its own *)
(* blocked heartbeat; and a reply to the call whose request it answers,    *)
(* whatever frames are queued, put back, skipped or missed on the way.     *)
(***************************************************************************)
EXTENDS AmqpClient, SequenceTheorems, TLAPS

AnyChannel == Channel \cup {Zero}

Content == {"deliver", "header", "body"}

AnyFrame == [channel : AnyChannel, type : Request \cup Content \cup {"close"},
             id : Nat, len : Nat, left : Nat]

(* A message whose next frame is to follow this one. *)
More(f) == f.type = "deliver" \/ f.left > 0

(***************************************************************************)
(* What the call in progress holds in its hand: the frame it is about to   *)
(* use, or the last frame of the message it reads.                         *)
(***************************************************************************)
Held == (pc = "use" /\ call # "rpc") \/ call \in {"header", "body"}

(***************************************************************************)
(* The frames read, queued and under way, each channel's in the order in   *)
(* which the broker sent them.  An RPC takes its frame from the wire, with *)
(* the queued ones in front of it.                                         *)
(***************************************************************************)
Stream == IF Held THEN << frame >> \o (q \o wire)
          ELSE IF pc = "use" THEN q \o (<< frame >> \o wire)
          ELSE q \o wire

(* g may come next after f on their channel. *)
Follows(f, g) ==
    /\ f.type # "close"
    /\ \/ g.type = "close"
       \/ f.type = "deliver" /\ g.type = "header" /\ g.id = f.id /\ g.left = g.len
       \/ /\ f.type \in {"header", "body"} /\ f.left > 0
          /\ g.type = "body" /\ g.id = f.id /\ g.left + g.len = f.left
       \/ ~More(f) /\ g.type \notin {"header", "body"}

(* g may come anywhere after f on their channel. *)
Precedes(f, g) ==
    f.type \in Content /\ g.type \in Content => f.id < g.id \/ (f.id = g.id /\ More(f))

Adjacent(s, i, j) == /\ i < j /\ s[i].channel = s[j].channel
                     /\ \A k \in i + 1 .. j - 1 : s[k].channel # s[i].channel

Linked(s) == \A i, j \in DOMAIN s : Adjacent(s, i, j) => Follows(s[i], s[j])

Ordered(s) == \A i, j \in DOMAIN s :
    i < j /\ s[i].channel = s[j].channel => Precedes(s[i], s[j])

(* A reply comes once. *)
Distinct(s) == \A i, j \in DOMAIN s : s[i].type \in Request /\ s[i] = s[j] => i = j

LastOf(s, i) == \A j \in DOMAIN s : j > i => s[j].channel # s[i].channel

(***************************************************************************)
(* The broker goes on with the message whose frame was its last.           *)
(***************************************************************************)
Expected(f) ==
    \/ f.channel \in closed
    \/ /\ f.type # "close"
       /\ LET c == content[f.channel] IN
            IF More(f) THEN /\ c.id = f.id
                            /\ c.part = IF f.type = "deliver" THEN "header" ELSE "body"
                            /\ f.type # "deliver" => c.left = f.left
                       ELSE c = NoContent

(* What is known of a frame of the stream, wherever it is. *)
FrameOK(f) ==
    /\ f \in AnyFrame
    /\ f.type = "close" => f.channel \in closed
    /\ f.type # "close" => f.channel \in Channel
    /\ f.type \in Request => /\ f \in pending /\ f.left = 0
                             /\ \A k \in DOMAIN requests[f.channel] : requests[f.channel][k] # f
    /\ f.type \in Content =>
         /\ f.id <= nmsg
         /\ \A i \in DOMAIN delivered[f.channel] : delivered[f.channel][i].id < f.id
         /\ LET c == content[f.channel] IN
              c.part # "none" => f.id < c.id \/ (f.id = c.id /\ More(f))

StreamInv(s) == /\ Linked(s) /\ Ordered(s) /\ Distinct(s)
                /\ \A i \in DOMAIN s : FrameOK(s[i])
                /\ \A i \in DOMAIN s : LastOf(s, i) => Expected(s[i])

StreamOK == StreamInv(Stream)

MessageType == [id : Nat, parts : SUBSET Nat, read : Nat, size : Nat]

(* The call in progress has no frame yet. *)
Waits == pc \in {"queue", "wire", "blocked"}

TypeOK ==
    /\ wire \in Seq(AnyFrame) /\ q \in Seq(AnyFrame)
    /\ message \in MessageType
    /\ delivered \in [Channel -> Seq(MessageType)]
    /\ requests \in [Channel -> Seq(AnyFrame)]
    /\ content \in [Channel -> [id : Nat, left : Nat, size : Nat,
                                part : {"none", "header", "body"}]]
    /\ nmsg \in Nat /\ nreq \in Nat
    /\ pc = "use" \/ call \in {"header", "body"} => frame \in AnyFrame
    /\ pc = "idle" <=> call = "none"
    /\ pc \in {"idle", "use"} \/ Waits \/ (pc = "whole" /\ call = "body")

(* The requests under way: one of a kind on a channel. *)
PendingInv ==
    /\ \A r \in pending : /\ r \in AnyFrame /\ r.type \in Request /\ r.left = 0
                          /\ r.channel \in Channel /\ r.id <= nreq
    /\ \A r, t \in pending : r.channel = t.channel /\ r.type = t.type => r = t

(* A call that waits for a reply waits for that to a request under way. *)
AskedInv == call \in {"rpc", "method"} => asked \in pending

RequestsInv == \A ch \in Channel :
    /\ \A k \in DOMAIN requests[ch] : requests[ch][k] \in pending /\ requests[ch][k].channel = ch
    /\ \A k, l \in DOMAIN requests[ch] : requests[ch][k] = requests[ch][l] => k = l

ContentInv == \A ch \in Channel : LET c == content[ch] IN
    /\ c.part = "none" => c = NoContent
    /\ c.part = "header" => c.left = c.size
    /\ c.part = "body" => c.left > 0
    /\ c.part # "none" => /\ c.id <= nmsg
                          /\ \A i \in DOMAIN delivered[ch] : delivered[ch][i].id < c.id
    /\ \A i \in DOMAIN delivered[ch] : delivered[ch][i].id <= nmsg

(* How far the message in the call's hand has been read. *)
ReadInv ==
    /\ call \in {"none", "rpc", "method", "frame", "envelope"} => message = NoMessage
    /\ call \in {"header", "body"} =>
         /\ asked.channel \in Channel /\ message.id = asked.id
         /\ frame.channel = asked.channel
         /\ pc # "use" => frame.type \in Content /\ frame.id = message.id
    /\ call = "header" => /\ message.parts = {} /\ message.read = 0
                          /\ asked.type = "deliver"
                          /\ Waits => frame = asked
                          /\ pc = "use" => Follows(asked, frame)
    /\ call = "body" =>
         /\ message.parts = {message.id} /\ message.read <= message.size
         /\ Waits \/ pc = "whole" => /\ frame.type # "deliver"
                                     /\ frame.left = message.size - message.read
                                     /\ Waits <=> frame.left > 0
         /\ pc = "use" /\ frame.type # "close" =>
              /\ frame.type = "body" /\ frame.id = message.id
              /\ frame.left + frame.len = message.size - message.read

(* What a wait looks for on the wire is not on the queue. *)
WireInv == pc \in {"wire", "blocked"} =>
    /\ call \in OnAny => q = << >>
    /\ call \in OnChannel => ~QueuedOn(asked.channel)

DeliveredInv == \A ch \in Channel : \A i \in DOMAIN delivered[ch] :
    LET d == delivered[ch][i] IN
      /\ d.parts = {d.id} /\ d.read = d.size
      /\ \A j \in 1 .. i - 1 : delivered[ch][j].id < d.id

IInv == /\ TypeOK /\ PendingInv /\ AskedInv /\ RequestsInv /\ ContentInv
        /\ ReadInv /\ WireInv /\ DeliveredInv /\ StreamOK

-----------------------------------------------------------------------------
(* Streams.                                                                *)

(* What follows a frame that is no part of a message may follow the one before it. *)
LEMMA FollowsOver ==
  ASSUME NEW f \in AnyFrame, NEW x \in AnyFrame, NEW g \in AnyFrame,
         x.type \notin Content, x.type \in Request => x.left = 0,
         Follows(f, x), Follows(x, g)
  PROVE  Follows(f, g)
BY DEF Follows, AnyFrame, Content, More

(***************************************************************************)
(* t is made of frames of s, the m[i]th at i, in each channel's order and  *)
(* without gaps but for one frame, which is no part of a message.          *)
(***************************************************************************)
EmbeddedBy(t, s, m, x) ==
    /\ m \in [DOMAIN t -> DOMAIN s] /\ x \in Nat
    /\ \A i \in DOMAIN t : t[i] = s[m[i]]
    /\ \A i, j \in DOMAIN t : i < j /\ t[i].channel = t[j].channel => m[i] < m[j]
    /\ \A i, j \in DOMAIN t : m[i] = m[j] => i = j
    /\ \A i \in DOMAIN t : \A l \in DOMAIN s :
         m[i] < l /\ s[l].channel = t[i].channel => l = x \/ \E j \in DOMAIN t : m[j] = l
    /\ x \in DOMAIN s => s[x].type \notin Content

LEMMA Embedded ==
  ASSUME NEW s \in Seq(AnyFrame), NEW t \in Seq(AnyFrame), StreamInv(s),
         NEW m, NEW x, EmbeddedBy(t, s, m, x)
  PROVE  StreamInv(t)
<1> USE DEF EmbeddedBy
<1>1. /\ Len(s) \in Nat /\ DOMAIN s = 1 .. Len(s) /\ Len(t) \in Nat /\ DOMAIN t = 1 .. Len(t)
      /\ \A i \in DOMAIN s : s[i] \in AnyFrame /\ i \in Nat
      /\ \A i \in DOMAIN t : t[i] \in AnyFrame /\ i \in Nat /\ m[i] \in DOMAIN s /\ m[i] \in Nat
  OBVIOUS
<1>2. \A i, j \in DOMAIN t : t[i].channel = t[j].channel /\ m[i] < m[j] => i < j
  BY <1>1, SMTT(30)
<1>3. ASSUME x \in DOMAIN s PROVE s[x].type \notin Content /\ (s[x].type \in Request => s[x].left = 0)
  BY <1>3 DEF StreamInv, FrameOK
<1>4. Linked(t)
  <2> SUFFICES ASSUME NEW i \in DOMAIN t, NEW j \in DOMAIN t, Adjacent(t, i, j)
               PROVE  Follows(t[i], t[j])
    BY DEF Linked
  <2>1. /\ i < j /\ t[i].channel = t[j].channel /\ m[i] < m[j]
        /\ s[m[i]] = t[i] /\ s[m[j]] = t[j] /\ m[i] \in DOMAIN s /\ m[j] \in DOMAIN s
    BY <1>1 DEF Adjacent
  <2>2. \A l \in m[i] + 1 .. m[j] - 1 : s[l].channel = t[i].channel => l = x
    <3> SUFFICES ASSUME NEW l \in m[i] + 1 .. m[j] - 1, s[l].channel = t[i].channel, l # x
                 PROVE  FALSE
      OBVIOUS
    <3>1. l \in DOMAIN s /\ m[i] < l /\ l < m[j]
      BY <1>1
    <3>2. PICK o \in DOMAIN t : m[o] = l
      BY <3>1
    <3>3. t[o].channel = t[i].channel /\ i < o /\ o < j
      BY <1>2, <2>1, <3>1, <3>2
    <3>4. o \in i + 1 .. j - 1
      BY <1>1, <3>3
    <3> QED
      BY <3>3, <3>4 DEF Adjacent
  <2>3. CASE x \in m[i] + 1 .. m[j] - 1 /\ s[x].channel = t[i].channel
    <3>1. x \in DOMAIN s /\ m[i] < x /\ x < m[j]
      BY <1>1, <2>3
    <3>2. Adjacent(s, m[i], x) /\ Adjacent(s, x, m[j])
      BY <1>1, <2>1, <2>2, <2>3, <3>1 DEF Adjacent
    <3>3. Follows(s[m[i]], s[x]) /\ Follows(s[x], s[m[j]])
      BY <2>1, <3>1, <3>2 DEF StreamInv, Linked
    <3> QED
      BY <1>1, <1>3, <2>1, <3>1, <3>3, FollowsOver
  <2>4. CASE ~(x \in m[i] + 1 .. m[j] - 1 /\ s[x].channel = t[i].channel)
    <3>1. Adjacent(s, m[i], m[j])
      BY <2>1, <2>2, <2>4 DEF Adjacent
    <3> QED
      BY <2>1, <3>1 DEF StreamInv, Linked
  <2> QED
    BY <2>3, <2>4
<1>5. Ordered(t)
  BY <1>1, SMTT(30) DEF StreamInv, Ordered
<1>6. Distinct(t)
  BY <1>1 DEF StreamInv, Distinct
<1>7. \A i \in DOMAIN t : FrameOK(t[i])
  BY <1>1 DEF StreamInv
<1>8. ASSUME NEW i \in DOMAIN t, LastOf(t, i) PROVE Expected(t[i])
  <2>1. m[i] \in DOMAIN s /\ s[m[i]] = t[i]
    BY <1>1
  <2>2. \A l \in DOMAIN s : m[i] < l /\ s[l].channel = t[i].channel => l = x
    <3> SUFFICES ASSUME NEW l \in DOMAIN s, m[i] < l, s[l].channel = t[i].channel, l # x
                 PROVE  FALSE
      OBVIOUS
    <3>1. PICK o \in DOMAIN t : m[o] = l
      OBVIOUS
    <3>2. i < o /\ t[o].channel = t[i].channel
      BY <1>2, <3>1
    <3> QED
      BY <1>8, <3>2 DEF LastOf
  <2>3. CASE x \in DOMAIN s /\ m[i] < x /\ s[x].channel = t[i].channel
    <3> x \in Nat /\ m[i] \in Nat
      BY <1>1
    <3>0. LastOf(s, x)
      <4> SUFFICES ASSUME NEW j \in DOMAIN s, j > x, s[j].channel = s[x].channel PROVE FALSE
        BY DEF LastOf
      <4> j \in Nat /\ m[i] < j
        BY <1>1, <2>3
      <4> QED
        BY <2>2, <2>3
    <3>1. Adjacent(s, m[i], x)
      <4>1. \A k \in m[i] + 1 .. x - 1 : k \in DOMAIN s /\ m[i] < k /\ k # x
        BY <1>1, <2>3
      <4> QED
        BY <2>1, <2>2, <2>3, <4>1 DEF Adjacent
    <3>2. Expected(s[x]) /\ Follows(t[i], s[x])
      BY <2>1, <2>3, <3>0, <3>1 DEF StreamInv, Linked
    <3>3. s[x] \in AnyFrame /\ t[i] \in AnyFrame
      BY <1>1, <2>3
    <3>4. s[x].type # "close" => ~More(s[x]) /\ ~More(t[i]) /\ t[i].type # "close"
      BY <1>3, <2>3, <3>2, <3>3 DEF Follows, More, AnyFrame, Content
    <3> QED
      BY <2>3, <3>2, <3>4 DEF Expected, Follows
  <2>4. CASE ~(x \in DOMAIN s /\ m[i] < x /\ s[x].channel = t[i].channel)
    <3>1. LastOf(s, m[i])
      BY <1>1, <2>1, <2>2, <2>4 DEF LastOf
    <3> QED
      BY <2>1, <3>1 DEF StreamInv
  <2> QED
    BY <2>3, <2>4
<1> QED
  BY <1>4, <1>5, <1>6, <1>7, <1>8 DEF StreamInv

(* A sequence whose first frames are gone. *)
LEMMA Suffix ==
  ASSUME NEW s \in Seq(AnyFrame), NEW k \in 0 .. Len(s), NEW t, t = SubSeq(s, k + 1, Len(s))
  PROVE  /\ Len(s) \in Nat /\ DOMAIN s = 1 .. Len(s) /\ k \in Nat
         /\ t \in Seq(AnyFrame) /\ Len(t) = Len(s) - k /\ DOMAIN t = 1 .. Len(s) - k
         /\ \A i \in DOMAIN t : t[i] = s[i + k]
<1>1. Len(s) \in Nat /\ DOMAIN s = 1 .. Len(s) /\ k \in Nat /\ k <= Len(s)
  OBVIOUS
<1>2. \A i \in k + 1 .. Len(s) : s[i] \in AnyFrame
  BY <1>1
<1>3. /\ t \in Seq(AnyFrame)
      /\ Len(t) = IF k + 1 <= Len(s) THEN Len(s) - (k + 1) + 1 ELSE 0
      /\ \A i \in 1 .. Len(s) - (k + 1) + 1 : t[i] = s[(k + 1) + i - 1]
  BY <1>1, <1>2, SubSeqProperties
<1>4. Len(t) = Len(s) - k /\ DOMAIN t = 1 .. Len(s) - k
  <2>1. Len(t) = Len(s) - k
    BY <1>1, <1>3
  <2>2. DOMAIN t = 1 .. Len(t)
    BY <1>3
  <2> QED
    BY <2>1, <2>2
<1>5. \A i \in DOMAIN t : t[i] = s[i + k]
  <2> SUFFICES ASSUME NEW i \in 1 .. Len(s) - k PROVE t[i] = s[i + k]
    BY <1>4
  <2>1. i \in 1 .. Len(s) - (k + 1) + 1 /\ (k + 1) + i - 1 = i + k
    BY <1>1
  <2> QED
    BY <1>3, <2>1
<1> QED
  BY <1>1, <1>3, <1>4, <1>5

(* A stream whose first frames are gone. *)
LEMMA Dropped ==
  ASSUME NEW s \in Seq(AnyFrame), StreamInv(s), NEW k \in 0 .. Len(s)
  PROVE  StreamInv(SubSeq(s, k + 1, Len(s)))
<1> DEFINE t == SubSeq(s, k + 1, Len(s))
           m == [i \in DOMAIN t |-> i + k]
<1>1. /\ Len(s) \in Nat /\ DOMAIN s = 1 .. Len(s) /\ k \in Nat
      /\ t \in Seq(AnyFrame) /\ Len(t) = Len(s) - k /\ DOMAIN t = 1 .. Len(s) - k
      /\ \A i \in DOMAIN t : t[i] = s[i + k]
  BY Suffix
<1> HIDE DEF t
<1>2. m \in [DOMAIN t -> DOMAIN s] /\ \A i \in DOMAIN t : i \in Nat /\ m[i] = i + k
  BY <1>1
<1> HIDE DEF m
<1>3. \A i \in DOMAIN t : \A l \in DOMAIN s :
        m[i] < l /\ s[l].channel = t[i].channel => l = 0 \/ \E j \in DOMAIN t : m[j] = l
  <2> SUFFICES ASSUME NEW i \in DOMAIN t, NEW l \in DOMAIN s, m[i] < l
               PROVE  \E j \in DOMAIN t : m[j] = l
    OBVIOUS
  <2>1. l - k \in DOMAIN t /\ m[l - k] = l
    BY <1>1, <1>2
  <2> QED
    BY <2>1
<1>4. \A i, j \in DOMAIN t : i < j => m[i] < m[j]
  BY <1>1, <1>2
<1>5. \A i, j \in DOMAIN t : m[i] = m[j] => i = j
  BY <1>1, <1>2
<1>6. 0 \notin DOMAIN s /\ \A i \in DOMAIN t : t[i] = s[m[i]]
  BY <1>1, <1>2
<1>7. EmbeddedBy(t, s, m, 0)
  BY <1>2, <1>3, <1>4, <1>5, <1>6 DEF EmbeddedBy
<1> QED
  BY <1>1, <1>7, Embedded DEF t

LEMMA Joined ==
  ASSUME NEW a \in Seq(AnyFrame), NEW b \in Seq(AnyFrame)
  PROVE  /\ a \o b \in Seq(AnyFrame) /\ Len(a) \in Nat /\ Len(b) \in Nat
         /\ Len(a \o b) = Len(a) + Len(b) /\ DOMAIN (a \o b) = 1 .. Len(a) + Len(b)
         /\ \A i \in DOMAIN (a \o b) : (a \o b)[i] = IF i <= Len(a) THEN a[i] ELSE b[i - Len(a)]
BY ConcatProperties

LEMMA JoinedOne ==
  ASSUME NEW f \in AnyFrame, NEW b \in Seq(AnyFrame)
  PROVE  /\ << f >> \o b \in Seq(AnyFrame) /\ Len(b) \in Nat
         /\ Len(<< f >> \o b) = Len(b) + 1 /\ DOMAIN (<< f >> \o b) = 1 .. Len(b) + 1
         /\ \A i \in DOMAIN (<< f >> \o b) : (<< f >> \o b)[i] = IF i = 1 THEN f ELSE b[i - 1]
<1>1. << f >> \in Seq(AnyFrame) /\ Len(<< f >>) = 1 /\ << f >>[1] = f
  OBVIOUS
<1> QED
  BY <1>1, Joined

(* A frame taken out of the middle, which is no part of a message. *)
LEMMA Removed ==
  ASSUME NEW a \in Seq(AnyFrame), NEW f \in AnyFrame, NEW b \in Seq(AnyFrame),
         f.type \notin Content, StreamInv(a \o (<< f >> \o b))
  PROVE  StreamInv(a \o b)
<1> DEFINE s == a \o (<< f >> \o b)
           t == a \o b
           x == Len(a) + 1
           m == [i \in DOMAIN t |-> IF i <= Len(a) THEN i ELSE i + 1]
<1>1. /\ Len(a) \in Nat /\ Len(b) \in Nat
      /\ s \in Seq(AnyFrame) /\ t \in Seq(AnyFrame)
      /\ DOMAIN s = 1 .. Len(a) + Len(b) + 1 /\ DOMAIN t = 1 .. Len(a) + Len(b)
      /\ \A i \in DOMAIN t : t[i] = IF i <= Len(a) THEN a[i] ELSE b[i - Len(a)]
      /\ \A i \in DOMAIN s : s[i] = IF i <= Len(a) THEN a[i]
                                    ELSE IF i = Len(a) + 1 THEN f ELSE b[i - Len(a) - 1]
  <2> DEFINE c == << f >> \o b
  <2>1. /\ c \in Seq(AnyFrame) /\ Len(c) = Len(b) + 1 /\ Len(b) \in Nat
        /\ \A i \in 1 .. Len(b) + 1 : c[i] = IF i = 1 THEN f ELSE b[i - 1]
    BY JoinedOne
  <2> HIDE DEF c
  <2>2. /\ Len(a) \in Nat /\ t \in Seq(AnyFrame) /\ DOMAIN t = 1 .. Len(a) + Len(b)
        /\ \A i \in DOMAIN t : t[i] = IF i <= Len(a) THEN a[i] ELSE b[i - Len(a)]
    BY Joined
  <2>3. /\ a \o c \in Seq(AnyFrame) /\ DOMAIN (a \o c) = 1 .. Len(a) + (Len(b) + 1)
        /\ \A i \in DOMAIN (a \o c) : (a \o c)[i] = IF i <= Len(a) THEN a[i] ELSE c[i - Len(a)]
    BY <2>1, Joined
  <2>4. s = a \o c
    BY DEF c
  <2> HIDE DEF s, t
  <2>5. /\ DOMAIN s = 1 .. Len(a) + Len(b) + 1
        /\ \A i \in DOMAIN s : s[i] = IF i <= Len(a) THEN a[i]
                                      ELSE IF i = Len(a) + 1 THEN f ELSE b[i - Len(a) - 1]
    BY <2>1, <2>2, <2>3, <2>4, SMTT(30)
  <2> QED
    BY <2>1, <2>2, <2>3, <2>4, <2>5
<1> HIDE DEF s, t
<1>2. m \in [DOMAIN t -> DOMAIN s] /\ \A i \in DOMAIN t : i \in Nat /\ t[i] = s[m[i]]
  <2>1. \A i \in DOMAIN t : i \in Nat /\ i <= Len(a) + Len(b) /\ i >= 1
    BY <1>1
  <2>2. ASSUME NEW i \in DOMAIN t, i <= Len(a) PROVE i \in DOMAIN s /\ t[i] = s[i]
    BY <1>1, <2>1, <2>2, SMTT(30)
  <2>3. ASSUME NEW i \in DOMAIN t, ~(i <= Len(a)) PROVE i + 1 \in DOMAIN s /\ t[i] = s[i + 1]
    <3>1. i + 1 \in DOMAIN s /\ ~(i + 1 <= Len(a)) /\ i + 1 # Len(a) + 1
          /\ (i + 1) - Len(a) - 1 = i - Len(a)
      BY <1>1, <2>1, <2>3
    <3> QED
      BY <1>1, <2>3, <3>1, SMTT(30)
  <2> QED
    BY <2>1, <2>2, <2>3
<1>3. \A i \in DOMAIN t : \A l \in DOMAIN s :
        m[i] < l /\ s[l].channel = t[i].channel => l = x \/ \E j \in DOMAIN t : m[j] = l
  <2> SUFFICES ASSUME NEW l \in DOMAIN s, l # x PROVE \E j \in DOMAIN t : m[j] = l
    OBVIOUS
  <2>1. CASE l <= Len(a)
    <3>1. l \in DOMAIN t /\ m[l] = l
      BY <1>1, <2>1
    <3> QED
      BY <3>1
  <2>2. CASE l > Len(a) + 1
    <3>1. l - 1 \in DOMAIN t /\ m[l - 1] = l
      BY <1>1, <2>2
    <3> QED
      BY <3>1
  <2> QED
    BY <1>1, <2>1, <2>2
<1>4. \A i, j \in DOMAIN t : i < j => m[i] < m[j]
  BY <1>1
<1>5. \A i, j \in DOMAIN t : m[i] = m[j] => i = j
  BY <1>1
<1>6. x \in Nat /\ s[x] = f
  <2>1. x \in DOMAIN s /\ ~(x <= Len(a)) /\ x \in Nat
    BY <1>1
  <2> QED
    BY <1>1, <2>1
<1> HIDE DEF m, x
<1>7. StreamInv(s)
  BY DEF s
<1>8. EmbeddedBy(t, s, m, x)
  BY <1>2, <1>3, <1>4, <1>5, <1>6 DEF EmbeddedBy
<1> QED
  BY <1>1, <1>7, <1>8, Embedded DEF t

(* The next frame of a channel taken past frames of other channels. *)
LEMMA MovedUp ==
  ASSUME NEW f \in AnyFrame, NEW a \in Seq(AnyFrame), NEW b \in Seq(AnyFrame),
         b # << >>, \A i \in DOMAIN a : a[i].channel # Head(b).channel,
         StreamInv(<< f >> \o (a \o b))
  PROVE  StreamInv(<< Head(b) >> \o (a \o Tail(b)))
<1> DEFINE s == << f >> \o (a \o b)
           t == << Head(b) >> \o (a \o Tail(b))
           m == [i \in DOMAIN t |-> IF i = 1 THEN Len(a) + 2
                                    ELSE IF i <= Len(a) + 1 THEN i ELSE i + 1]
<1>1. /\ Len(a) \in Nat /\ Len(b) \in Nat /\ Len(b) > 0 /\ Head(b) \in AnyFrame /\ Head(b) = b[1]
      /\ Tail(b) \in Seq(AnyFrame) /\ Len(Tail(b)) = Len(b) - 1
      /\ \A i \in 1 .. Len(b) - 1 : Tail(b)[i] = b[i + 1]
  BY HeadTailProperties
<1>2. /\ s \in Seq(AnyFrame) /\ t \in Seq(AnyFrame)
      /\ DOMAIN s = 1 .. Len(a) + Len(b) + 1 /\ DOMAIN t = 1 .. Len(a) + Len(b)
      /\ \A i \in DOMAIN s : s[i] = IF i = 1 THEN f
                                    ELSE IF i <= Len(a) + 1 THEN a[i - 1] ELSE b[i - Len(a) - 1]
      /\ \A i \in DOMAIN t : t[i] = IF i = 1 THEN b[1]
                                    ELSE IF i <= Len(a) + 1 THEN a[i - 1] ELSE b[i - Len(a)]
  <2> DEFINE c == a \o b
             d == a \o Tail(b)
  <2>1. /\ c \in Seq(AnyFrame) /\ Len(c) = Len(a) + Len(b)
        /\ \A i \in 1 .. Len(a) + Len(b) : c[i] = IF i <= Len(a) THEN a[i] ELSE b[i - Len(a)]
    BY <1>1, Joined
  <2>2. /\ d \in Seq(AnyFrame) /\ Len(d) = Len(a) + Len(b) - 1
        /\ \A i \in 1 .. Len(a) + Len(b) - 1 : d[i] = IF i <= Len(a) THEN a[i] ELSE b[i - Len(a) + 1]
    BY <1>1, Joined
  <2>3. s = << f >> \o c /\ t = << Head(b) >> \o d
    BY DEF c, d
  <2> HIDE DEF c, d, s, t
  <2>4. /\ s \in Seq(AnyFrame) /\ DOMAIN s = 1 .. Len(a) + Len(b) + 1
        /\ \A i \in DOMAIN s : s[i] = IF i = 1 THEN f ELSE c[i - 1]
    BY <2>1, <2>3, JoinedOne
  <2>5. /\ t \in Seq(AnyFrame) /\ DOMAIN t = 1 .. Len(a) + Len(b)
        /\ \A i \in DOMAIN t : t[i] = IF i = 1 THEN b[1] ELSE d[i - 1]
    BY <1>1, <2>2, <2>3, JoinedOne
  <2>6. ASSUME NEW i \in DOMAIN s, i # 1
        PROVE  s[i] = IF i <= Len(a) + 1 THEN a[i - 1] ELSE b[i - Len(a) - 1]
    <3>1. i - 1 \in 1 .. Len(a) + Len(b) /\ s[i] = c[i - 1]
          /\ (i - 1 <= Len(a) <=> i <= Len(a) + 1) /\ (i - 1) - Len(a) = i - Len(a) - 1
      BY <1>1, <2>4, <2>6
    <3> QED
      BY <2>1, <3>1
  <2>7. ASSUME NEW i \in DOMAIN t, i # 1
        PROVE  t[i] = IF i <= Len(a) + 1 THEN a[i - 1] ELSE b[i - Len(a)]
    <3>1. i - 1 \in 1 .. Len(a) + Len(b) - 1 /\ t[i] = d[i - 1]
          /\ (i - 1 <= Len(a) <=> i <= Len(a) + 1) /\ (i - 1) - Len(a) + 1 = i - Len(a)
      BY <1>1, <2>5, <2>7
    <3> QED
      BY <2>2, <3>1
  <2> QED
    BY <2>4, <2>5, <2>6, <2>7
<1> HIDE DEF s, t
<1>3. m \in [DOMAIN t -> DOMAIN s] /\ \A i \in DOMAIN t : i \in Nat /\ t[i] = s[m[i]]
  <2>1. \A i \in DOMAIN t : i \in Nat /\ i <= Len(a) + Len(b) /\ i >= 1
    BY <1>1, <1>2
  <2>2. Len(a) + 2 \in DOMAIN s /\ s[Len(a) + 2] = b[1]
    <3>1. Len(a) + 2 \in DOMAIN s /\ Len(a) + 2 # 1 /\ ~(Len(a) + 2 <= Len(a) + 1)
          /\ (Len(a) + 2) - Len(a) - 1 = 1
      BY <1>1, <1>2
    <3> QED
      BY <1>2, <3>1
  <2>3. ASSUME NEW i \in DOMAIN t, i # 1, i <= Len(a) + 1 PROVE i \in DOMAIN s /\ t[i] = s[i]
    <3>1. i \in DOMAIN s
      BY <1>1, <1>2, <2>1, <2>3
    <3> QED
      BY <1>2, <2>3, <3>1
  <2>4. ASSUME NEW i \in DOMAIN t, i # 1, ~(i <= Len(a) + 1)
        PROVE  i + 1 \in DOMAIN s /\ t[i] = s[i + 1]
    <3>1. i + 1 \in DOMAIN s /\ i + 1 # 1 /\ ~(i + 1 <= Len(a) + 1)
          /\ (i + 1) - Len(a) - 1 = i - Len(a)
      BY <1>1, <1>2, <2>1, <2>4
    <3> QED
      BY <1>2, <2>4, <3>1, SMTT(30)
  <2> QED
    BY <1>2, <2>1, <2>2, <2>3, <2>4
<1>4. \A i \in DOMAIN t : \A l \in DOMAIN s :
        m[i] < l /\ s[l].channel = t[i].channel => l = 0 \/ \E j \in DOMAIN t : m[j] = l
  <2> SUFFICES ASSUME NEW i \in DOMAIN t, NEW l \in DOMAIN s, m[i] < l
               PROVE  \E j \in DOMAIN t : m[j] = l
    OBVIOUS
  <2>1. l \in Nat /\ l > 1
    BY <1>1, <1>2
  <2>2. CASE l <= Len(a) + 1
    <3>1. l \in DOMAIN t /\ m[l] = l
      BY <1>1, <1>2, <2>1, <2>2
    <3> QED
      BY <3>1
  <2>3. CASE l = Len(a) + 2
    <3>1. 1 \in DOMAIN t /\ m[1] = l
      BY <1>1, <1>2, <2>3
    <3> QED
      BY <3>1
  <2>4. CASE l > Len(a) + 2
    <3>1. l - 1 \in DOMAIN t /\ m[l - 1] = l
      BY <1>1, <1>2, <2>4
    <3> QED
      BY <3>1
  <2> QED
    BY <1>1, <2>1, <2>2, <2>3, <2>4
<1>5. \A i, j \in DOMAIN t : i < j /\ t[i].channel = t[j].channel => m[i] < m[j]
  <2> SUFFICES ASSUME NEW i \in DOMAIN t, NEW j \in DOMAIN t, i < j,
                      t[i].channel = t[j].channel
               PROVE  m[i] < m[j]
    OBVIOUS
  <2>1. i = 1 => j > Len(a) + 1
    <3> SUFFICES ASSUME i = 1, j <= Len(a) + 1 PROVE FALSE
      BY <1>1, <1>2
    <3>1. j \in 2 .. Len(a) + 1 /\ j - 1 \in DOMAIN a /\ 1 \in DOMAIN t
      BY <1>1, <1>2
    <3>2. j # 1 /\ j <= Len(a) + 1
      BY <1>1, <3>1
    <3>3. t[j] = a[j - 1]
      BY <1>2, <3>2
    <3>4. t[1] = Head(b)
      BY <1>1, <1>2, <3>1
    <3> QED
      BY <3>1, <3>3, <3>4
  <2> QED
    BY <1>1, <1>2, <2>1
<1>6. \A i, j \in DOMAIN t : m[i] = m[j] => i = j
  BY <1>1, <1>2
<1>7. 0 \notin DOMAIN s
  BY <1>2
<1> HIDE DEF m
<1>8. StreamInv(s)
  BY DEF s
<1>9. EmbeddedBy(t, s, m, 0)
  BY <1>3, <1>4, <1>5, <1>6, <1>7 DEF EmbeddedBy
<1> QED
  BY <1>2, <1>8, <1>9, Embedded DEF t

(* Frames that change places in a sequence made of several. *)
LEMMA Shuffles ==
  ASSUME NEW a \in Seq(AnyFrame), NEW b \in Seq(AnyFrame), NEW f \in AnyFrame
  PROVE  /\ b # << >> => << Head(b) >> \o Tail(b) = b
         /\ b # << >> => Append(a, Head(b)) \o Tail(b) = a \o b
         /\ a \o (<< f >> \o b) = Append(a, f) \o b
         /\ << f >> \o (a \o b) = (<< f >> \o a) \o b
         /\ a \o Append(b, f) = Append(a \o b, f)
         /\ SubSeq(<< f >> \o b, 2, Len(<< f >> \o b)) = b
<1>1. << f >> \in Seq(AnyFrame) /\ Len(<< f >>) = 1
  OBVIOUS
<1>2. a \o (<< f >> \o b) = Append(a, f) \o b
  BY <1>1, ConcatAssociative, AppendIsConcat
<1>3. ASSUME b # << >> PROVE << Head(b) >> \o Tail(b) = b
  <2>1. Len(b) \in Nat \ {0}
    BY <1>3, EmptySeq
  <2>2. 1 \in 1 .. Len(b) /\ Len(b) \in 1 .. Len(b)
    BY <2>1
  <2>3. SubSeq(b, 1, Len(b)) = << b[1] >> \o SubSeq(b, 1 + 1, Len(b))
    BY <2>2, SubSeqRecursiveFirst
  <2>4. Head(b) = b[1] /\ Tail(b) = SubSeq(b, 2, Len(b)) /\ SubSeq(b, 1, Len(b)) = b
    BY <1>3, TailIsSubSeq, SubSeqFull
  <2> QED
    BY <2>3, <2>4
<1>4. ASSUME b # << >> PROVE Append(a, Head(b)) \o Tail(b) = a \o b
  <2>1. Head(b) \in AnyFrame /\ Tail(b) \in Seq(AnyFrame) /\ << Head(b) >> \in Seq(AnyFrame)
    BY <1>4, HeadTailProperties
  <2>2. Append(a, Head(b)) \o Tail(b) = a \o (<< Head(b) >> \o Tail(b))
    BY <2>1, ConcatAssociative, AppendIsConcat
  <2> QED
    BY <1>3, <1>4, <2>2
<1>5. << f >> \o (a \o b) = (<< f >> \o a) \o b
  BY <1>1, ConcatAssociative
<1>6. a \o Append(b, f) = Append(a \o b, f)
  <2>1. a \o b \in Seq(AnyFrame)
    BY ConcatProperties
  <2> QED
    BY <1>1, <2>1, ConcatAssociative, AppendIsConcat
<1>7. SubSeq(<< f >> \o b, 2, Len(<< f >> \o b)) = b
  <2> DEFINE s == << f >> \o b
  <2>1. s \in Seq(AnyFrame) /\ s # << >> /\ Head(s) = f
    BY JoinedOne
  <2>2. << Head(s) >> \o Tail(s) = s
    <3>1. Len(s) \in Nat \ {0}
      BY <2>1, EmptySeq
    <3>2. 1 \in 1 .. Len(s) /\ Len(s) \in 1 .. Len(s)
      BY <3>1
    <3>3. SubSeq(s, 1, Len(s)) = << s[1] >> \o SubSeq(s, 1 + 1, Len(s))
      BY <2>1, <3>2, SubSeqRecursiveFirst
    <3>4. Head(s) = s[1] /\ Tail(s) = SubSeq(s, 2, Len(s)) /\ SubSeq(s, 1, Len(s)) = s
      BY <2>1, TailIsSubSeq, SubSeqFull
    <3> QED
      BY <3>3, <3>4
  <2>3. Tail(s) \in Seq(AnyFrame) /\ Tail(s) = SubSeq(s, 2, Len(s))
    BY <2>1, HeadTailProperties, TailIsSubSeq
  <2>4. << f >> \o Tail(s) = << f >> \o b
    BY <2>1, <2>2
  <2>5. Tail(s) = b
    BY <1>1, <2>3, <2>4, ConcatSimplifications
  <2> QED
    BY <2>3, <2>5
<1> QED
  BY <1>2, <1>3, <1>4, <1>5, <1>6, <1>7

(* What TakeOnChannel leaves of the stream. *)
LEMMA TakenOnChannel ==
  ASSUME NEW f \in AnyFrame, NEW a \in Seq(AnyFrame), NEW b \in Seq(AnyFrame),
         NEW k \in 1 .. Len(a)
  PROVE  << a[k] >> \o (SubSeq(a, k + 1, Len(a)) \o b)
           = SubSeq(<< f >> \o (a \o b), k + 1, Len(<< f >> \o (a \o b)))
<1>1. Len(a) \in Nat /\ k \in Nat /\ k <= Len(a) /\ a[k] \in AnyFrame /\ Len(b) \in Nat
  BY LenProperties, ElementOfSeq
<1> DEFINE r == SubSeq(a, k + 1, Len(a))
           ab == a \o b
           s == << f >> \o ab
           t == SubSeq(s, k + 1, Len(s))
           u == << a[k] >> \o (r \o b)
<1>2. /\ r \in Seq(AnyFrame) /\ Len(r) = Len(a) - k
      /\ \A i \in 1 .. Len(a) - k : r[i] = a[k + i]
  <2>1. \A i \in k + 1 .. Len(a) : a[i] \in AnyFrame
    BY <1>1, ElementOfSeq
  <2>2. /\ r \in Seq(AnyFrame)
        /\ Len(r) = IF k + 1 <= Len(a) THEN Len(a) - (k + 1) + 1 ELSE 0
        /\ \A i \in 1 .. Len(a) - (k + 1) + 1 : r[i] = a[(k + 1) + i - 1]
    BY <1>1, <2>1, SubSeqProperties
  <2> HIDE DEF r
  <2>3. Len(r) = Len(a) - k
    BY <1>1, <2>2
  <2>4. ASSUME NEW i \in 1 .. Len(a) - k PROVE r[i] = a[k + i]
    <3>1. i \in 1 .. Len(a) - (k + 1) + 1 /\ (k + 1) + i - 1 = k + i
      BY <1>1
    <3> QED
      BY <2>2, <3>1
  <2> QED
    BY <2>2, <2>3, <2>4
<1>3. /\ ab \in Seq(AnyFrame) /\ Len(ab) = Len(a) + Len(b)
      /\ \A i \in 1 .. Len(a) + Len(b) : ab[i] = IF i <= Len(a) THEN a[i] ELSE b[i - Len(a)]
  BY Joined
<1> HIDE DEF r, ab
<1>4. /\ s \in Seq(AnyFrame) /\ Len(s) = Len(ab) + 1
      /\ \A i \in 1 .. Len(ab) + 1 : s[i] = IF i = 1 THEN f ELSE ab[i - 1]
  BY <1>3, JoinedOne
<1> DEFINE rb == r \o b
<1>5. /\ rb \in Seq(AnyFrame) /\ Len(rb) = Len(r) + Len(b)
      /\ \A i \in 1 .. Len(r) + Len(b) : rb[i] = IF i <= Len(r) THEN r[i] ELSE b[i - Len(r)]
  BY <1>2, ConcatProperties
<1> HIDE DEF rb
<1>6. /\ u \in Seq(AnyFrame) /\ Len(u) = Len(rb) + 1
      /\ \A i \in 1 .. Len(rb) + 1 : u[i] = IF i = 1 THEN a[k] ELSE rb[i - 1]
  BY <1>1, <1>5, JoinedOne DEF rb
<1>7. /\ t \in Seq(AnyFrame) /\ Len(t) = Len(s) - k
      /\ \A i \in 1 .. Len(s) - k : t[i] = s[k + i]
  <2> HIDE DEF s, u
  <2>1. \A i \in k + 1 .. Len(s) : s[i] \in AnyFrame
    BY <1>1, <1>3, <1>4, ElementOfSeq
  <2>2. k + 1 <= Len(s) /\ Len(s) \in Nat
    BY <1>1, <1>3, <1>4
  <2>3. /\ t \in Seq(AnyFrame)
        /\ Len(t) = IF k + 1 <= Len(s) THEN Len(s) - (k + 1) + 1 ELSE 0
        /\ \A i \in 1 .. Len(s) - (k + 1) + 1 : t[i] = s[(k + 1) + i - 1]
    BY <1>1, <2>1, <2>2, SubSeqProperties
  <2> HIDE DEF t
  <2>4. Len(t) = Len(s) - k
    BY <1>1, <2>2, <2>3
  <2>5. ASSUME NEW i \in 1 .. Len(s) - k PROVE t[i] = s[k + i]
    <3>1. i \in 1 .. Len(s) - (k + 1) + 1 /\ (k + 1) + i - 1 = k + i
      BY <1>1, <2>2
    <3> QED
      BY <2>3, <3>1
  <2> QED
    BY <2>3, <2>4, <2>5
<1> HIDE DEF s, t, u
<1>8. Len(u) = Len(t)
  BY <1>1, <1>2, <1>3, <1>4, <1>5, <1>6, <1>7
<1>9. ASSUME NEW i \in 1 .. Len(u) PROVE u[i] = t[i]
  <2>1. /\ i \in Nat /\ i >= 1 /\ i <= Len(a) - k + Len(b) + 1
        /\ t[i] = s[k + i] /\ s[k + i] = ab[k + i - 1]
    BY <1>1, <1>2, <1>3, <1>4, <1>5, <1>6, <1>7, SMTT(30)
  <2>2. CASE i = 1
    <3>1. k + i - 1 = k /\ k \in 1 .. Len(a) + Len(b) /\ 1 \in 1 .. Len(rb) + 1
      BY <1>1, <1>2, <1>5, <2>2
    <3> QED
      BY <1>1, <1>3, <1>6, <2>1, <2>2, <3>1
  <2>3. CASE i # 1
    <3>1. u[i] = rb[i - 1] /\ i - 1 \in 1 .. Len(r) + Len(b)
      BY <1>1, <1>2, <1>5, <1>6, <2>1, <2>3
    <3>2. k + i - 1 \in 1 .. Len(a) + Len(b)
      BY <1>1, <2>1
    <3>3. CASE i - 1 <= Len(r)
      <4>1. i - 1 \in 1 .. Len(a) - k /\ k + (i - 1) = k + i - 1 /\ k + i - 1 <= Len(a)
        <5>1. k \in Nat /\ Len(a) \in Nat /\ i - 1 <= Len(a) - k
          BY <1>1, <1>2, <3>3
        <5>2. i - 1 \in Nat /\ i - 1 >= 1
          BY <2>1, <2>3
        <5> QED
          BY <5>1, <5>2
      <4>2. rb[i - 1] = r[i - 1] /\ r[i - 1] = a[k + (i - 1)] /\ ab[k + i - 1] = a[k + i - 1]
        BY <1>2, <1>3, <1>5, <3>1, <3>2, <3>3, <4>1
      <4> QED
        BY <2>1, <3>1, <4>1, <4>2
    <3>4. CASE ~(i - 1 <= Len(r))
      <4>1. ~(k + i - 1 <= Len(a)) /\ (k + i - 1) - Len(a) = (i - 1) - Len(r)
        BY <1>1, <1>2, <2>1, <3>4, SMTT(30)
      <4>2. rb[i - 1] = b[(i - 1) - Len(r)] /\ ab[k + i - 1] = b[(k + i - 1) - Len(a)]
        BY <1>3, <1>5, <3>1, <3>2, <3>4, <4>1
      <4> QED
        BY <2>1, <3>1, <4>1, <4>2
    <3> QED
      BY <3>3, <3>4
  <2> QED
    BY <2>2, <2>3
<1>10. u = t
  BY <1>6, <1>7, <1>8, <1>9, SeqEqual
<1> QED
  BY <1>10 DEF u, t, s, ab, r, rb

-----------------------------------------------------------------------------
(* Requests under way.                                                     *)

RequestsOK == /\ requests \in [Channel -> Seq(AnyFrame)] /\ nreq \in Nat
              /\ PendingInv /\ RequestsInv

(* A request unlike any other goes to the broker. *)
LEMMA RequestSent ==
  ASSUME RequestsOK, NEW ch \in Channel, NEW type \in Request, Send(ch, type),
         NEW r, r = F(ch, type, nreq + 1, 0, 0)
  PROVE  /\ r \in AnyFrame /\ pending' = pending \cup {r} /\ r \notin pending
         /\ RequestsOK'
         /\ \A c \in Channel : \A k \in DOMAIN requests'[c] :
              \/ k \in DOMAIN requests[c] /\ requests'[c][k] = requests[c][k]
              \/ requests'[c][k] = r
<1>1. /\ r \in AnyFrame /\ r.channel = ch /\ r.type = type /\ r.id = nreq + 1 /\ r.left = 0
      /\ nreq \in Nat
  BY DEF F, AnyFrame, AnyChannel, RequestsOK
<1>2. /\ pending' = pending \cup {r} /\ nreq' = nreq + 1
      /\ requests' = [requests EXCEPT ![ch] = Append(requests[ch], r)]
      /\ \A p \in pending : p.channel # ch \/ p.type # type
  BY DEF Send
<1>3. \A p \in pending : p # r /\ p.id <= nreq /\ p.id \in Nat
  BY <1>1, <1>2 DEF RequestsOK, PendingInv, AnyFrame
<1>4. /\ requests \in [Channel -> Seq(AnyFrame)] /\ requests' \in [Channel -> Seq(AnyFrame)]
      /\ \A c \in Channel : \A k \in DOMAIN requests'[c] :
           \/ k \in DOMAIN requests[c] /\ requests'[c][k] = requests[c][k]
           \/ c = ch /\ k = Len(requests[ch]) + 1 /\ k \notin DOMAIN requests[ch]
              /\ requests'[c][k] = r
  <2>1. requests \in [Channel -> Seq(AnyFrame)] /\ requests[ch] \in Seq(AnyFrame)
    BY DEF RequestsOK
  <2> DEFINE t == Append(requests[ch], r)
  <2>2. /\ t \in Seq(AnyFrame) /\ DOMAIN t = 1 .. Len(requests[ch]) + 1
        /\ Len(requests[ch]) \in Nat /\ DOMAIN requests[ch] = 1 .. Len(requests[ch])
        /\ \A i \in 1 .. Len(requests[ch]) : t[i] = requests[ch][i]
        /\ t[Len(requests[ch]) + 1] = r
    BY <1>1, <2>1, AppendProperties, LenProperties
  <2> HIDE DEF t
  <2>3. requests' = [requests EXCEPT ![ch] = t]
    BY <1>2 DEF t
  <2>4. requests' \in [Channel -> Seq(AnyFrame)]
    BY <2>1, <2>2, <2>3
  <2>5. ASSUME NEW k \in DOMAIN t
        PROVE  \/ k \in DOMAIN requests[ch] /\ t[k] = requests[ch][k]
               \/ k = Len(requests[ch]) + 1 /\ k \notin DOMAIN requests[ch] /\ t[k] = r
    BY <2>2
  <2> QED
    BY <2>1, <2>3, <2>4, <2>5
<1>5. PendingInv'
  BY <1>1, <1>2, <1>3 DEF RequestsOK, PendingInv
<1>6. RequestsInv'
  <2> SUFFICES ASSUME NEW c \in Channel
               PROVE  /\ \A k \in DOMAIN requests'[c] : /\ requests'[c][k] \in pending'
                                                        /\ requests'[c][k].channel = c
                      /\ \A k, l \in DOMAIN requests'[c] :
                           requests'[c][k] = requests'[c][l] => k = l
    BY DEF RequestsInv
  <2>1. /\ \A k \in DOMAIN requests[c] : /\ requests[c][k] \in pending
                                         /\ requests[c][k].channel = c
                                         /\ requests[c][k] # r
        /\ \A k, l \in DOMAIN requests[c] : requests[c][k] = requests[c][l] => k = l
    BY <1>3 DEF RequestsOK, RequestsInv
  <2> QED
    BY <1>1, <1>2, <1>4, <2>1
<1> QED
  BY <1>1, <1>2, <1>3, <1>4, <1>5, <1>6 DEF RequestsOK

(* The broker answers the first request of a channel. *)
LEMMA RequestAnswered ==
  ASSUME RequestsOK, NEW ch \in Channel, requests[ch] # << >>,
         NEW r, r = Head(requests[ch]),
         requests' = [requests EXCEPT ![ch] = Tail(requests[ch])], UNCHANGED <<pending, nreq>>
  PROVE  /\ r \in pending /\ r.channel = ch /\ 1 \in DOMAIN requests[ch] /\ r = requests[ch][1]
         /\ RequestsOK'
         /\ \A c \in Channel : \A k \in DOMAIN requests'[c] :
              \E l \in DOMAIN requests[c] : requests'[c][k] = requests[c][l]
         /\ \A k \in DOMAIN requests'[ch] : requests'[ch][k] # r
<1>1. /\ requests \in [Channel -> Seq(AnyFrame)] /\ requests' \in [Channel -> Seq(AnyFrame)]
      /\ 1 \in DOMAIN requests[ch] /\ r = requests[ch][1]
      /\ \A c \in Channel : \A k \in DOMAIN requests'[c] :
           \E l \in DOMAIN requests[c] : /\ requests'[c][k] = requests[c][l]
                                         /\ l = IF c = ch THEN k + 1 ELSE k
                                         /\ k \in Nat /\ l \in Nat /\ (c = ch => l # 1)
  <2>1. requests \in [Channel -> Seq(AnyFrame)] /\ requests[ch] \in Seq(AnyFrame)
    BY DEF RequestsOK
  <2> DEFINE t == Tail(requests[ch])
  <2>2. /\ t \in Seq(AnyFrame) /\ DOMAIN requests[ch] = 1 .. Len(requests[ch])
        /\ Len(requests[ch]) \in Nat \ {0} /\ r = requests[ch][1]
        /\ Len(t) = Len(requests[ch]) - 1 /\ DOMAIN t = 1 .. Len(t)
        /\ \A i \in 1 .. Len(t) : t[i] = requests[ch][i + 1]
    BY <2>1, HeadTailProperties, LenProperties, EmptySeq
  <2> HIDE DEF t
  <2>3. requests' = [requests EXCEPT ![ch] = t]
    BY DEF t
  <2>4. ASSUME NEW k \in DOMAIN t
        PROVE  /\ k + 1 \in DOMAIN requests[ch] /\ t[k] = requests[ch][k + 1]
               /\ k \in Nat /\ k + 1 # 1
    BY <2>2
  <2>5. \A c \in Channel : DOMAIN requests[c] \subseteq Nat
    BY <2>1, LenProperties
  <2>6. ASSUME NEW c \in Channel, NEW k \in DOMAIN requests'[c]
        PROVE  \E l \in DOMAIN requests[c] : /\ requests'[c][k] = requests[c][l]
                                             /\ l = IF c = ch THEN k + 1 ELSE k
                                             /\ k \in Nat /\ l \in Nat /\ (c = ch => l # 1)
    <3>1. CASE c = ch
      BY <2>1, <2>3, <2>4, <3>1
    <3>2. CASE c # ch
      BY <2>1, <2>3, <2>5, <3>2
    <3> QED
      BY <3>1, <3>2
  <2> QED
    BY <2>1, <2>2, <2>3, <2>6
<1>2. /\ r \in pending /\ r.channel = ch
      /\ \A l \in DOMAIN requests[ch] : l # 1 => requests[ch][l] # r
  BY <1>1 DEF RequestsOK, RequestsInv
<1>3. \A k \in DOMAIN requests'[ch] : requests'[ch][k] # r
  BY <1>1, <1>2
<1>4. RequestsInv'
  <2> SUFFICES ASSUME NEW c \in Channel
               PROVE  /\ \A k \in DOMAIN requests'[c] : /\ requests'[c][k] \in pending'
                                                        /\ requests'[c][k].channel = c
                      /\ \A k, l \in DOMAIN requests'[c] :
                           requests'[c][k] = requests'[c][l] => k = l
    BY DEF RequestsInv
  <2>1. /\ \A k \in DOMAIN requests[c] : requests[c][k] \in pending /\ requests[c][k].channel = c
        /\ \A k, l \in DOMAIN requests[c] : requests[c][k] = requests[c][l] => k = l
    BY DEF RequestsOK, RequestsInv
  <2> QED
    BY <1>1, <2>1
<1> QED
  BY <1>1, <1>2, <1>3, <1>4 DEF RequestsOK, PendingInv

(* The application learns of a frame: its request is under way no more. *)
LEMMA RequestEnded ==
  ASSUME RequestsOK, NEW f, Learn(f), UNCHANGED <<requests, nreq>>,
         f.type \in Request => /\ f \in pending
                               /\ \A k \in DOMAIN requests[f.channel] : requests[f.channel][k] # f
  PROVE  /\ pending' \subseteq pending
         /\ \A p \in pending : p = f \/ p \in pending'
         /\ RequestsOK'
<1>1. /\ pending' \subseteq pending
      /\ \A p \in pending : p = f \/ p \in pending'
  <2>1. pending' = { p \in pending : ~(p.channel = f.channel /\ p.type = f.type) }
    BY DEF Learn
  <2>2. ASSUME NEW p \in pending, p.channel = f.channel, p.type = f.type
        PROVE  p = f
    BY <2>2 DEF RequestsOK, PendingInv
  <2> QED
    BY <2>1, <2>2
<1>2. PendingInv'
  BY <1>1 DEF RequestsOK, PendingInv
<1>3. RequestsInv'
  <2>1. ASSUME NEW ch \in Channel, NEW k \in DOMAIN requests[ch] PROVE requests[ch][k] \in pending'
    <3>1. requests[ch][k] \in pending /\ requests[ch][k].channel = ch
          /\ requests[ch][k].type \in Request
      BY DEF RequestsOK, RequestsInv, PendingInv
    <3> QED
      BY <1>1, <3>1
  <2> QED
    BY <2>1 DEF RequestsOK, RequestsInv
<1> QED
  BY <1>1, <1>2, <1>3 DEF RequestsOK

-----------------------------------------------------------------------------
(* The stream in each state of a call.                                     *)

LEMMA StreamParts ==
  ASSUME IInv
  PROVE  /\ q \in Seq(AnyFrame) /\ wire \in Seq(AnyFrame) /\ q \o wire \in Seq(AnyFrame)
         /\ Stream \in Seq(AnyFrame)
         /\ Held => /\ frame \in AnyFrame /\ Stream = << frame >> \o (q \o wire)
                    /\ 1 \in DOMAIN Stream /\ Stream[1] = frame
         /\ ~Held /\ pc = "use" => /\ frame \in AnyFrame /\ Stream = q \o (<< frame >> \o wire)
                                   /\ Len(q) + 1 \in DOMAIN Stream /\ Stream[Len(q) + 1] = frame
         /\ ~Held /\ pc # "use" => Stream = q \o wire
<1>1. q \in Seq(AnyFrame) /\ wire \in Seq(AnyFrame) /\ q \o wire \in Seq(AnyFrame)
  BY ConcatProperties DEF IInv, TypeOK
<1>2. CASE Held
  <2>1. frame \in AnyFrame
    BY <1>2 DEF IInv, TypeOK, Held
  <2>2. Stream = << frame >> \o (q \o wire)
    BY <1>2 DEF Stream
  <2> QED
    BY <1>1, <1>2, <2>1, <2>2, JoinedOne
<1>3. CASE ~Held /\ pc = "use"
  <2>1. frame \in AnyFrame
    BY <1>3 DEF IInv, TypeOK
  <2>2. Stream = q \o (<< frame >> \o wire)
    BY <1>3 DEF Stream
  <2> DEFINE c == << frame >> \o wire
  <2>3. c \in Seq(AnyFrame) /\ Len(c) = Len(wire) + 1 /\ Len(wire) \in Nat /\ c[1] = frame
    BY <1>1, <2>1, JoinedOne
  <2> HIDE DEF c
  <2>4. /\ q \o c \in Seq(AnyFrame) /\ Len(q) \in Nat
        /\ DOMAIN (q \o c) = 1 .. Len(q) + Len(c)
        /\ \A i \in DOMAIN (q \o c) : (q \o c)[i] = IF i <= Len(q) THEN q[i] ELSE c[i - Len(q)]
    BY <1>1, <2>3, Joined
  <2>5. Len(q) + 1 \in DOMAIN (q \o c) /\ ~(Len(q) + 1 <= Len(q)) /\ (Len(q) + 1) - Len(q) = 1
    BY <2>3, <2>4
  <2>6. Len(q) + 1 \in DOMAIN (q \o c) /\ (q \o c)[Len(q) + 1] = frame
    BY <2>3, <2>4, <2>5
  <2> QED
    BY <1>1, <1>3, <2>1, <2>2, <2>4, <2>6 DEF c
<1>4. CASE ~Held /\ pc # "use"
  BY <1>1, <1>4 DEF Stream
<1> QED
  BY <1>1, <1>2, <1>3, <1>4

LEMMA FrameHeld ==
  ASSUME IInv, Held \/ pc = "use"
  PROVE  FrameOK(frame)
BY StreamParts DEF IInv, StreamOK, StreamInv

(* What the steps keep that neither move a frame on a channel nor learn anything. *)
LEMMA Kept ==
  ASSUME IInv, StreamInv(Stream'),
         UNCHANGED <<closed, pending, requests, nmsg, nreq, delivered, content>>
  PROVE  /\ StreamOK' /\ PendingInv' /\ RequestsInv' /\ ContentInv' /\ DeliveredInv'
         /\ delivered' \in [Channel -> Seq(MessageType)]
         /\ requests' \in [Channel -> Seq(AnyFrame)]
         /\ content' \in [Channel -> [id : Nat, left : Nat, size : Nat,
                                      part : {"none", "header", "body"}]]
         /\ nmsg' \in Nat /\ nreq' \in Nat
<1>1. StreamOK'
  BY DEF StreamOK, StreamInv, FrameOK, Expected
<1>2. PendingInv' /\ RequestsInv' /\ ContentInv' /\ DeliveredInv'
  BY DEF IInv, PendingInv, RequestsInv, ContentInv, DeliveredInv
<1> QED
  BY <1>1, <1>2 DEF IInv, TypeOK

(* A frame taken off the wire, or queued, by a call that is not reading a message. *)
LEMMA TakeAnyStep ==
  ASSUME IInv, Take, call \in {"rpc", "frame", "method", "envelope"}
  PROVE  IInv'
<1>1. /\ pc \in {"queue", "wire"} /\ pc' = "use" /\ ~Held /\ Stream = q \o wire
      /\ UNCHANGED <<open, call, asked, message, app, broker>>
  BY StreamParts DEF Take, FromWire, FromQueue, Used, amqp_simple_wait_frame_noblock, Held,
                     OnChannel
<1>2. UNCHANGED <<closed, pending, requests, nmsg, nreq, delivered, content, done>>
  BY <1>1 DEF app, broker
<1>3. /\ StreamInv(Stream') /\ frame' \in AnyFrame
      /\ q' \in Seq(AnyFrame) /\ wire' \in Seq(AnyFrame)
  <2>1. CASE call = "rpc"
    <3>1. wire # << >> /\ frame' = Head(wire) /\ wire' = Tail(wire) /\ q' = q
      BY <2>1 DEF Take, FromWire, OnAny, OnChannel
    <3>2. frame' \in AnyFrame /\ wire' \in Seq(AnyFrame) /\ << frame' >> \o wire' = wire
      BY <3>1, StreamParts, HeadTailProperties, Shuffles
    <3>3. Stream' = q \o wire
      BY <1>1, <2>1, <3>1, <3>2 DEF Stream, Held
    <3> QED
      BY <1>1, <3>1, <3>2, <3>3, StreamParts DEF IInv, StreamOK
  <2>2. CASE call # "rpc" /\ pc = "queue"
    <3>1. q # << >> /\ frame' = Head(q) /\ q' = Tail(q) /\ wire' = wire
      BY <2>2 DEF Take, amqp_simple_wait_frame_noblock, OnChannel, FromQueue,
                  Queue!TakeFirst, Used
    <3>2. frame' \in AnyFrame /\ q' \in Seq(AnyFrame) /\ << frame' >> \o q' = q
      BY <3>1, StreamParts, HeadTailProperties, Shuffles
    <3>3. Stream' = << frame' >> \o (q' \o wire')
      BY <1>1, <2>2 DEF Stream, Held
    <3>4. << frame' >> \o (q' \o wire') = (<< frame' >> \o q') \o wire'
      BY <3>1, <3>2, StreamParts, Shuffles
    <3> QED
      BY <1>1, <3>1, <3>2, <3>3, <3>4, StreamParts DEF IInv, StreamOK
  <2>3. CASE call # "rpc" /\ pc = "wire"
    <3>1. q = << >> /\ wire # << >> /\ frame' = Head(wire) /\ wire' = Tail(wire) /\ q' = q
      BY <2>3 DEF Take, FromWire, amqp_simple_wait_frame_noblock, OnAny, OnChannel,
                  IInv, WireInv
    <3>2. frame' \in AnyFrame /\ wire' \in Seq(AnyFrame) /\ << frame' >> \o wire' = wire
      BY <3>1, StreamParts, HeadTailProperties, Shuffles
    <3>3. Stream' = << frame' >> \o (q' \o wire')
      BY <1>1, <2>3 DEF Stream, Held
    <3>4. q \o wire = wire /\ q' \o wire' = wire'
      BY <3>1, <3>2, StreamParts, ConcatEmptySeq
    <3> QED
      BY <1>1, <3>1, <3>2, <3>3, <3>4, StreamParts DEF IInv, StreamOK
  <2> QED
    BY <1>1, <2>1, <2>2, <2>3
<1>4. TypeOK'
  BY <1>1, <1>2, <1>3, Kept DEF IInv, TypeOK
<1>5. ReadInv' /\ WireInv' /\ AskedInv'
  BY <1>1, <1>2 DEF IInv, ReadInv, WireInv, AskedInv, Waits
<1> QED
  BY <1>2, <1>3, <1>4, <1>5, Kept DEF IInv

(* The next frame of the message being read follows the last one read. *)
LEMMA ReadNext ==
  ASSUME IInv, call \in {"header", "body"}, Waits, pc' = "use",
         frame' \in AnyFrame, Follows(frame, frame'), frame'.channel = frame.channel,
         UNCHANGED <<call, asked, message>>
  PROVE  ReadInv'
BY DEF IInv, ReadInv, Follows, AnyFrame, Content, More, Waits

(* A frame queued is not of the channel waited for. *)
LEMMA QueuedAnother ==
  ASSUME q \in Seq(AnyFrame), NEW g \in AnyFrame, q' = Append(q, g),
         NEW c, g.channel # c, ~QueuedOn(c)
  PROVE  ~QueuedOn(c)'
<1>1. /\ DOMAIN q' = 1 .. Len(q) + 1 /\ DOMAIN q = 1 .. Len(q) /\ Len(q) \in Nat
      /\ q'[Len(q) + 1] = g /\ \A i \in DOMAIN q : q'[i] = q[i]
  BY AppendProperties, LenProperties
<1>2. \A i \in DOMAIN q' : i \in DOMAIN q \/ i = Len(q) + 1
  BY <1>1
<1> QED
  BY <1>1, <1>2 DEF QueuedOn

LEMMA TakeOnChannelStep ==
  ASSUME IInv, Take, call \in {"header", "body"}
  PROVE  IInv'
<1> DEFINE ch == asked.channel
           s == << frame >> \o (q \o wire)
<1>1. /\ pc \in {"queue", "wire"} /\ Waits /\ Held /\ Held' /\ Stream = s /\ s \in Seq(AnyFrame)
      /\ Stream' = << frame' >> \o (q' \o wire')
      /\ amqp_simple_wait_frame_on_channel(ch)
      /\ UNCHANGED <<open, call, asked, message, app, broker>>
  <2>1. call' = call
    BY DEF Take
  <2> QED
    BY <2>1, StreamParts DEF Take, Held, Stream, Waits, OnAny, amqp_simple_wait_frame_on_channel
<1>2. UNCHANGED <<closed, pending, requests, nmsg, nreq, delivered, content, done>>
  BY <1>1 DEF app, broker
<1>3. /\ q \in Seq(AnyFrame) /\ wire \in Seq(AnyFrame) /\ frame \in AnyFrame
      /\ frame.channel = ch /\ StreamInv(s)
  BY <1>1, StreamParts DEF IInv, ReadInv, StreamOK
<1>4. /\ DOMAIN s = 1 .. Len(q) + Len(wire) + 1 /\ s[1] = frame
      /\ \A i \in 1 .. Len(q) : s[i + 1] = q[i]
      /\ wire # << >> => Len(q) + 2 \in DOMAIN s /\ s[Len(q) + 2] = Head(wire)
      /\ Len(q) \in Nat /\ Len(wire) \in Nat /\ DOMAIN q = 1 .. Len(q)
  <2> DEFINE c == q \o wire
  <2>1. /\ Len(q) \in Nat /\ Len(wire) \in Nat /\ DOMAIN q = 1 .. Len(q)
        /\ c \in Seq(AnyFrame) /\ Len(c) = Len(q) + Len(wire)
        /\ \A i \in 1 .. Len(q) + Len(wire) : c[i] = IF i <= Len(q) THEN q[i] ELSE wire[i - Len(q)]
    BY <1>3, Joined
  <2> HIDE DEF c
  <2>2. /\ DOMAIN s = 1 .. Len(c) + 1
        /\ \A i \in 1 .. Len(c) + 1 : s[i] = IF i = 1 THEN frame ELSE c[i - 1]
    BY <1>3, <2>1, JoinedOne DEF c
  <2> HIDE DEF s
  <2>3. ASSUME NEW i \in 1 .. Len(q) PROVE s[i + 1] = q[i]
    <3>1. i + 1 \in 1 .. Len(c) + 1 /\ i + 1 # 1 /\ (i + 1) - 1 = i /\ i \in 1 .. Len(q) + Len(wire)
      BY <2>1
    <3> QED
      BY <2>1, <2>2, <3>1
  <2>4. ASSUME wire # << >> PROVE Len(q) + 2 \in DOMAIN s /\ s[Len(q) + 2] = Head(wire)
    <3>1. Len(wire) >= 1 /\ Head(wire) = wire[1]
      BY <1>3, <2>4, EmptySeq
    <3>2. /\ Len(q) + 2 \in 1 .. Len(c) + 1 /\ Len(q) + 2 # 1 /\ (Len(q) + 2) - 1 = Len(q) + 1
          /\ Len(q) + 1 \in 1 .. Len(q) + Len(wire) /\ ~(Len(q) + 1 <= Len(q))
          /\ (Len(q) + 1) - Len(q) = 1
      BY <2>1, <3>1
    <3> QED
      BY <2>1, <2>2, <3>1, <3>2
  <2>5. Len(c) + 1 = Len(q) + Len(wire) + 1 /\ 1 \in 1 .. Len(c) + 1
    BY <2>1
  <2> QED
    BY <2>1, <2>2, <2>3, <2>4, <2>5
<1>5. CASE Queue!TakeOnChannel(ch) /\ Used
  <2>1. PICK k \in 1 .. Len(q) : /\ q[k].channel = ch
                                 /\ \A j \in 1 .. k - 1 : q[j].channel # ch
                                 /\ frame' = q[k]
                                 /\ q' = SubSeq(q, k + 1, Len(q))
    BY <1>5 DEF Queue!TakeOnChannel
  <2>2. pc' = "use" /\ wire' = wire /\ frame' \in AnyFrame /\ q' \in Seq(AnyFrame)
    <3>1. k \in Nat /\ \A j \in k + 1 .. Len(q) : q[j] \in AnyFrame
      BY <1>3, <1>4, ElementOfSeq
    <3>2. k + 1 \in Int /\ Len(q) \in Int
      BY <1>4, <3>1
    <3>3. SubSeq(q, k + 1, Len(q)) \in Seq(AnyFrame)
      BY <3>1, <3>2, SubSeqProperties
    <3>4. q[k] \in AnyFrame
      BY <1>3, ElementOfSeq
    <3>5. pc' = "use" /\ wire' = wire
      BY <1>5 DEF Used
    <3> QED
      BY <2>1, <3>3, <3>4, <3>5
  <2>3. Stream' = SubSeq(s, k + 1, Len(s))
    <3>1. << q[k] >> \o (SubSeq(q, k + 1, Len(q)) \o wire) = SubSeq(s, k + 1, Len(s))
      BY <1>3, TakenOnChannel
    <3>2. Stream' = << q[k] >> \o (SubSeq(q, k + 1, Len(q)) \o wire)
      BY <1>1, <2>1, <2>2
    <3> QED
      BY <3>1, <3>2
  <2>4. k \in 0 .. Len(s)
    BY <1>1, <1>4, LenProperties
  <2>5. StreamInv(Stream')
    BY <1>1, <1>3, <2>3, <2>4, Dropped
  <2>6. Follows(frame, frame')
    <3>1. 1 \in DOMAIN s /\ k + 1 \in DOMAIN s /\ s[k + 1] = frame' /\ k \in Nat /\ k >= 1
      BY <1>4, <2>1
    <3>2. \A j \in 2 .. k : s[j].channel # ch
      <4> SUFFICES ASSUME NEW j \in 2 .. k PROVE s[j].channel # ch
        OBVIOUS
      <4>1. j - 1 \in 1 .. k - 1 /\ j - 1 \in 1 .. Len(q) /\ (j - 1) + 1 = j
        BY <1>4, <3>1
      <4> HIDE DEF s
      <4>2. s[j] = q[j - 1]
        BY <1>4, <4>1
      <4> QED
        BY <2>1, <4>1, <4>2
    <3> HIDE DEF s
    <3>3. Adjacent(s, 1, k + 1)
      BY <1>3, <1>4, <2>1, <3>1, <3>2 DEF Adjacent
    <3> QED
      BY <1>3, <1>4, <3>1, <3>3 DEF StreamInv, Linked
  <2>7. ReadInv'
    BY <1>1, <1>3, <2>1, <2>2, <2>6, ReadNext
  <2>8. TypeOK'
    BY <1>1, <1>2, <1>3, <2>2, <2>5, Kept DEF IInv, TypeOK
  <2> QED
    BY <1>1, <1>2, <2>2, <2>5, <2>7, <2>8, Kept DEF IInv, WireInv, AskedInv
<1>6. CASE pc = "wire" /\ Head(wire).channel = ch /\ FromWire
  <2>1. wire # << >> /\ frame' = Head(wire) /\ wire' = Tail(wire) /\ q' = q /\ pc' = "use"
    BY <1>6 DEF FromWire
  <2>2. frame' \in AnyFrame /\ wire' \in Seq(AnyFrame)
    BY <1>3, <2>1, HeadTailProperties
  <2>3. \A i \in DOMAIN q : q[i].channel # ch
    <3>1. ~QueuedOn(asked.channel)
      BY <1>6 DEF IInv, WireInv, OnChannel
    <3> QED
      BY <3>1 DEF QueuedOn
  <2>4. StreamInv(Stream')
    BY <1>1, <1>3, <1>6, <2>1, <2>3, MovedUp
  <2>5. Follows(frame, frame')
    <3>1. 1 \in DOMAIN s /\ Len(q) + 2 \in DOMAIN s /\ s[Len(q) + 2] = frame'
      BY <1>4, <2>1
    <3>2. \A j \in 2 .. Len(q) + 1 : s[j].channel # ch
      <4> SUFFICES ASSUME NEW j \in 2 .. Len(q) + 1 PROVE s[j].channel # ch
        OBVIOUS
      <4>1. j - 1 \in 1 .. Len(q) /\ (j - 1) + 1 = j
        BY <1>4
      <4> HIDE DEF s
      <4>2. s[j] = q[j - 1]
        BY <1>4, <4>1
      <4> QED
        BY <1>4, <2>3, <4>1, <4>2
    <3> HIDE DEF s
    <3>3. Adjacent(s, 1, Len(q) + 2)
      <4>1. Len(q) + 2 - 1 = Len(q) + 1 /\ 1 < Len(q) + 2
        BY <1>4
      <4> QED
        BY <1>3, <1>4, <1>6, <2>1, <3>1, <3>2, <4>1 DEF Adjacent
    <3> QED
      BY <1>3, <1>4, <3>1, <3>3 DEF StreamInv, Linked
  <2>6. ReadInv'
    BY <1>1, <1>3, <1>6, <2>1, <2>2, <2>5, ReadNext
  <2>7. TypeOK'
    BY <1>1, <1>2, <1>3, <2>1, <2>2, <2>4, Kept DEF IInv, TypeOK
  <2> QED
    BY <1>1, <1>2, <2>1, <2>4, <2>6, <2>7, Kept DEF IInv, WireInv, AskedInv
<1>7. CASE Head(wire).channel # ch /\ WireToQueue /\ UNCHANGED pc
  <2>1. wire # << >> /\ q' = Append(q, Head(wire)) /\ wire' = Tail(wire) /\ frame' = frame
    BY <1>7 DEF WireToQueue, Queue!Arrive
  <2>2. q' \in Seq(AnyFrame) /\ wire' \in Seq(AnyFrame) /\ q' \o wire' = q \o wire
    BY <1>3, <2>1, HeadTailProperties, AppendProperties, Shuffles
  <2>3. Stream' = s
    BY <1>1, <2>1, <2>2
  <2>4. StreamInv(Stream')
    BY <1>3, <2>3
  <2>5. TypeOK' /\ ReadInv' /\ WireInv' /\ AskedInv'
    <3>1. TypeOK'
      BY <1>1, <1>2, <1>3, <1>7, <2>1, <2>2, <2>4, Kept DEF IInv, TypeOK, Waits
    <3>2. WireInv'
      BY <1>1, <1>3, <1>7, <2>1, QueuedAnother DEF IInv, WireInv, OnAny
    <3> QED
      BY <1>1, <1>2, <1>7, <2>1, <3>1, <3>2 DEF IInv, ReadInv, AskedInv, Waits
  <2> QED
    BY <1>2, <2>4, <2>5, Kept DEF IInv
<1> QED
  BY <1>1, <1>5, <1>6, <1>7 DEF amqp_simple_wait_frame_on_channel

LEMMA TakeStep == ASSUME IInv, Take PROVE IInv'
BY TakeAnyStep, TakeOnChannelStep DEF Take, OnAny, OnChannel

-----------------------------------------------------------------------------
(* The start of a call, and frames read or queued outside of one.          *)

LEMMA Looks ==
  ASSUME IInv, NEW c \in OnAny \cup OnChannel, NEW ch, call' = c, pc' = Look(c, ch),
         q' = q, c \in OnChannel => asked'.channel = ch
  PROVE  Waits' /\ WireInv'
<1>1. pc' \in {"queue", "wire"}
  BY DEF Look
<1>2. pc' = "wire" => (c \in OnAny => q = << >>) /\ (c \in OnChannel => ~QueuedOn(ch))
  BY DEF Look
<1>3. c \in OnChannel => (QueuedOn(asked.channel)' <=> QueuedOn(ch))
  BY DEF QueuedOn
<1> QED
  BY <1>1, <1>2, <1>3 DEF Waits, WireInv

LEMMA StartStep ==
  ASSUME IInv, NEW c \in {"method", "frame", "envelope"}, NEW a, Start(c, a),
         c = "method" => a \in pending, UNCHANGED <<pending, nreq, broker>>
  PROVE  IInv'
<1>1. /\ pc = "idle" /\ call = "none" /\ ~Held
      /\ call' = c /\ pc' = Look(c, Zero) /\ asked' = a /\ done' = NULL
      /\ UNCHANGED <<wire, q, frame, message, delivered>>
  BY DEF Start, IInv, TypeOK, Held
<1>0. Waits' /\ WireInv' /\ pc' # "use"
  BY <1>1, Looks DEF OnAny, OnChannel, Waits
<1>2. UNCHANGED <<closed, pending, requests, nmsg, nreq, delivered, content>>
  BY <1>1 DEF broker
<1>3. Stream' = Stream /\ StreamInv(Stream')
  BY <1>1, <1>0, StreamParts DEF Stream, Held, IInv, StreamOK
<1>4. TypeOK'
  BY <1>1, <1>0, <1>2, <1>3, Kept DEF IInv, TypeOK, Waits
<1>5. ReadInv' /\ AskedInv'
  BY <1>1, <1>2 DEF IInv, ReadInv, AskedInv
<1> QED
  BY <1>0, <1>2, <1>3, <1>4, <1>5, Kept DEF IInv

(***************************************************************************)
(* A frame read behind a send goes to the queue, and is not one that a     *)
(* wait is looking for unless it is missed.                                *)
(***************************************************************************)
LEMMA TryRecvStep == ASSUME IInv, amqp_try_recv, ~missed' PROVE IInv'
<1>1. /\ pc \in {"idle", "blocked"} /\ pc # "use"
      /\ UNCHANGED <<call, pc, asked, message, frame, app, broker>>
      /\ wire # << >> /\ q' = Append(q, Head(wire)) /\ wire' = Tail(wire)
      /\ ~Awaited(Head(wire))
  BY DEF amqp_try_recv, WireToQueue, Queue!Arrive
<1>2. UNCHANGED <<closed, pending, requests, nmsg, nreq, delivered, content, done>>
  BY <1>1 DEF app, broker
<1>3. /\ q \in Seq(AnyFrame) /\ Head(wire) \in AnyFrame
      /\ q' \in Seq(AnyFrame) /\ wire' \in Seq(AnyFrame) /\ q' \o wire' = q \o wire
  BY <1>1, StreamParts, HeadTailProperties, AppendProperties, Shuffles
<1>4. Stream' = Stream /\ StreamInv(Stream')
  BY <1>1, <1>3 DEF Stream, Held, IInv, StreamOK
<1>5. TypeOK'
  BY <1>1, <1>2, <1>3, <1>4, Kept DEF IInv, TypeOK, Waits
<1>6. WireInv'
  <2>1. CASE pc = "idle"
    BY <1>1, <2>1 DEF WireInv
  <2>2. CASE pc = "blocked" /\ call \in OnChannel
    <3>1. call \notin OnAny /\ Head(wire).channel # asked.channel
      BY <1>1, <2>2 DEF Awaited
    <3>2. ~QueuedOn(asked.channel)
      BY <2>2 DEF IInv, WireInv
    <3>3. ~QueuedOn(asked.channel)'
      BY <1>1, <1>3, <3>1, <3>2, QueuedAnother
    <3> QED
      BY <1>1, <3>1, <3>3 DEF WireInv
  <2>3. CASE pc = "blocked" /\ call \notin OnChannel
    BY <1>1, <2>3 DEF WireInv, Awaited
  <2> QED
    BY <1>1, <2>1, <2>2, <2>3
<1>7. ReadInv' /\ AskedInv'
  BY <1>1, <1>2 DEF IInv, ReadInv, AskedInv, Waits
<1> QED
  BY <1>2, <1>4, <1>5, <1>6, <1>7, Kept DEF IInv

(* A heartbeat that blocks, and one that goes out with nothing read over. *)
LEMMA HeartbeatStep ==
  ASSUME IInv, HeartbeatBlocks \/ HeartbeatSent, ~missed'
  PROVE  IInv'
<1>1. /\ pc \in {"wire", "blocked"} /\ pc' \in {"wire", "blocked"}
      /\ UNCHANGED <<wire, q, frame, call, asked, message, app, broker>>
  <2>1. CASE HeartbeatBlocks
    BY <2>1 DEF HeartbeatBlocks
  <2>2. CASE HeartbeatSent
    <3>1. PICK k \in 0 .. Len(wire) : /\ wire' = SubSeq(wire, k + 1, Len(wire))
                                      /\ missed' = (missed \/ k > 0)
      BY <2>2 DEF HeartbeatSent
    <3>2. k = 0 /\ wire \in Seq(AnyFrame)
      <4>1. ~(k > 0)
        BY <3>1
      <4> QED
        BY <3>1, <4>1, LenProperties DEF IInv, TypeOK
    <3>3. wire' = SubSeq(wire, 1, Len(wire))
      BY <3>1, <3>2
    <3> QED
      BY <2>2, <3>2, <3>3, SubSeqFull DEF HeartbeatSent
  <2> QED
    BY <2>1, <2>2
<1>2. UNCHANGED <<closed, pending, requests, nmsg, nreq, delivered, content, done>>
  BY <1>1 DEF app, broker
<1>3. Stream' = Stream /\ StreamInv(Stream')
  BY <1>1 DEF Stream, Held, IInv, StreamOK
<1>4. TypeOK'
  BY <1>1, <1>2, <1>3, Kept DEF IInv, TypeOK, Waits
<1>5. WireInv'
  <2>1. QueuedOn(asked.channel)' <=> QueuedOn(asked.channel)
    BY <1>1 DEF QueuedOn
  <2> QED
    BY <1>1, <2>1 DEF IInv, WireInv
<1>6. ReadInv' /\ AskedInv'
  BY <1>1, <1>2 DEF IInv, ReadInv, AskedInv, Waits
<1> QED
  BY <1>2, <1>3, <1>4, <1>5, <1>6, Kept DEF IInv

LEMMA SendKeeps ==
  ASSUME IInv, NEW ch \in Channel, NEW type \in Request, Send(ch, type), Stream' = Stream,
         UNCHANGED delivered
  PROVE  /\ StreamOK' /\ PendingInv' /\ RequestsInv' /\ ContentInv' /\ DeliveredInv'
         /\ F(ch, type, nreq + 1, 0, 0) \in pending'
         /\ pending \subseteq pending'
         /\ requests' \in [Channel -> Seq(AnyFrame)] /\ nreq' \in Nat
         /\ UNCHANGED <<content, nmsg>>
<1>0. PICK r : r = F(ch, type, nreq + 1, 0, 0)
  OBVIOUS
<1>1. UNCHANGED <<content, nmsg, closed, delivered>>
  BY DEF Send
<1>2. /\ pending' = pending \cup {r} /\ r \notin pending /\ RequestsOK'
      /\ \A c \in Channel : \A k \in DOMAIN requests'[c] :
           \/ k \in DOMAIN requests[c] /\ requests'[c][k] = requests[c][k]
           \/ requests'[c][k] = r
  BY <1>0, RequestSent DEF RequestsOK, IInv, TypeOK
<1>3. StreamOK'
  <2>1. ASSUME NEW f, FrameOK(f) PROVE FrameOK(f)'
    <3>1. f.type \in Request => f \in pending /\ f # r
      BY <1>2, <2>1 DEF FrameOK
    <3>2. f.type \in Request => /\ f \in pending'
                                /\ \A k \in DOMAIN requests'[f.channel] :
                                     requests'[f.channel][k] # f
      <4> SUFFICES ASSUME f.type \in Request, NEW k \in DOMAIN requests'[f.channel],
                          requests'[f.channel][k] = f
                   PROVE  FALSE
        BY <1>2, <3>1
      <4>1. f.channel \in Channel
        BY <2>1 DEF FrameOK, IInv, PendingInv
      <4> QED
        BY <1>2, <2>1, <3>1, <4>1 DEF FrameOK
    <3> QED
      BY <1>1, <2>1, <3>2 DEF FrameOK
  <2>2. ASSUME NEW f, Expected(f) PROVE Expected(f)'
    BY <1>1, <2>2 DEF Expected
  <2> QED
    BY <2>1, <2>2 DEF IInv, StreamOK, StreamInv
<1>4. ContentInv' /\ DeliveredInv'
  BY <1>1 DEF IInv, ContentInv, DeliveredInv
<1> QED
  BY <1>0, <1>1, <1>2, <1>3, <1>4 DEF RequestsOK

LEMMA SendStep ==
  ASSUME IInv, NEW ch \in Channel, NEW type \in Request,
         amqp_send_method(ch, type) \/ amqp_simple_rpc(ch, type)
  PROVE  IInv'
<1>1. /\ Send(ch, type) /\ pc = "idle" /\ call = "none" /\ ~Held
      /\ UNCHANGED <<wire, q, frame, message, delivered>>
      /\ \/ UNCHANGED <<call, pc, asked, done>>
         \/ call' = "rpc" /\ pc' = "wire" /\ asked' = F(ch, type, nreq + 1, 0, 0) /\ done' = NULL
  BY DEF amqp_send_method, amqp_simple_rpc, Start, Send, IInv, TypeOK, Held, Look, OnAny,
         OnChannel
<1>2. Stream' = Stream
  BY <1>1 DEF Stream, Held
<1>3. TypeOK'
  BY <1>1, <1>2, SendKeeps DEF IInv, TypeOK, Waits
<1>4. ReadInv' /\ WireInv' /\ AskedInv'
  BY <1>1, <1>2, SendKeeps DEF IInv, ReadInv, WireInv, AskedInv, OnAny, OnChannel
<1> QED
  BY <1>1, <1>2, <1>3, <1>4, SendKeeps DEF IInv

-----------------------------------------------------------------------------
(* What a call makes of the frame it has taken.                            *)

(* The stream without the frame in the call's hand, which is nowhere else. *)
LEMMA HandEmptied ==
  ASSUME IInv, Held \/ pc = "use", ~Held => frame.type \notin Content
  PROVE  /\ StreamInv(q \o wire)
         /\ frame.type \in Request => \A i \in DOMAIN (q \o wire) : (q \o wire)[i] # frame
         /\ Held => \A i \in DOMAIN (q \o wire) :
              (q \o wire)[i].channel = frame.channel => Precedes(frame, (q \o wire)[i])
<1>1. /\ q \in Seq(AnyFrame) /\ wire \in Seq(AnyFrame) /\ q \o wire \in Seq(AnyFrame)
      /\ frame \in AnyFrame /\ Stream \in Seq(AnyFrame) /\ StreamInv(Stream)
  BY StreamParts DEF IInv, StreamOK
<1> DEFINE b == q \o wire
<1>2. CASE Held
  <2>1. /\ Stream = << frame >> \o b /\ Len(b) \in Nat /\ DOMAIN b = 1 .. Len(b)
        /\ Len(Stream) = Len(b) + 1 /\ DOMAIN Stream = 1 .. Len(b) + 1
        /\ \A i \in DOMAIN Stream : Stream[i] = IF i = 1 THEN frame ELSE b[i - 1]
    <3>1. Stream = << frame >> \o b /\ b \in Seq(AnyFrame)
      BY <1>1, <1>2, StreamParts
    <3> HIDE DEF b
    <3> QED
      BY <1>1, <3>1, JoinedOne, LenProperties
  <2>2. SubSeq(Stream, 2, Len(Stream)) = b
    BY <1>1, <2>1, Shuffles
  <2>3. 1 \in 0 .. Len(Stream) /\ 1 + 1 = 2
    BY <2>1
  <2>4. StreamInv(SubSeq(Stream, 1 + 1, Len(Stream)))
    BY <1>1, <2>3, Dropped
  <2> HIDE DEF b
  <2>5. ASSUME frame.type \in Request, NEW i \in DOMAIN b PROVE b[i] # frame
    <3>1. /\ i + 1 \in DOMAIN Stream /\ 1 \in DOMAIN Stream /\ i + 1 # 1 /\ (i + 1) - 1 = i
      BY <2>1
    <3>2. Stream[i + 1] = b[i] /\ Stream[1] = frame
      BY <2>1, <3>1
    <3> QED
      BY <1>1, <2>5, <3>1, <3>2 DEF StreamInv, Distinct
  <2>6. ASSUME NEW i \in DOMAIN b, b[i].channel = frame.channel PROVE Precedes(frame, b[i])
    <3>1. /\ i + 1 \in DOMAIN Stream /\ 1 \in DOMAIN Stream /\ 1 < i + 1 /\ i + 1 # 1
          /\ (i + 1) - 1 = i
      BY <2>1
    <3>2. Stream[i + 1] = b[i] /\ Stream[1] = frame
      BY <2>1, <3>1
    <3> QED
      BY <1>1, <2>6, <3>1, <3>2 DEF StreamInv, Ordered
  <2> QED
    BY <2>2, <2>3, <2>4, <2>5, <2>6 DEF b
<1>3. CASE ~Held
  <2>1. Stream = q \o (<< frame >> \o wire) /\ Stream[Len(q) + 1] = frame
        /\ Len(q) + 1 \in DOMAIN Stream
    BY <1>3, StreamParts
  <2>2. StreamInv(b)
    BY <1>1, <1>3, <2>1, Removed
  <2> DEFINE c == << frame >> \o wire
  <2>3. /\ c \in Seq(AnyFrame) /\ Len(c) = Len(wire) + 1
        /\ \A i \in 1 .. Len(wire) + 1 : c[i] = IF i = 1 THEN frame ELSE wire[i - 1]
    BY <1>1, JoinedOne
  <2> HIDE DEF c
  <2>4. /\ Len(q) \in Nat /\ Len(wire) \in Nat /\ DOMAIN b = 1 .. Len(q) + Len(wire)
        /\ \A i \in DOMAIN b : b[i] = IF i <= Len(q) THEN q[i] ELSE wire[i - Len(q)]
        /\ DOMAIN Stream = 1 .. Len(q) + Len(wire) + 1
        /\ \A i \in DOMAIN Stream : Stream[i] = IF i <= Len(q) THEN q[i] ELSE c[i - Len(q)]
    <3>1. /\ Len(q) \in Nat /\ Len(wire) \in Nat /\ DOMAIN b = 1 .. Len(q) + Len(wire)
          /\ \A i \in DOMAIN b : b[i] = IF i <= Len(q) THEN q[i] ELSE wire[i - Len(q)]
      BY <1>1, Joined
    <3>2. /\ DOMAIN Stream = 1 .. Len(q) + Len(c)
          /\ \A i \in DOMAIN Stream : Stream[i] = IF i <= Len(q) THEN q[i] ELSE c[i - Len(q)]
      BY <1>1, <2>1, <2>3, Joined DEF c
    <3> HIDE DEF b
    <3>3. Len(q) + Len(c) = Len(q) + Len(wire) + 1
      BY <2>3, <3>1
    <3> QED
      BY <3>1, <3>2, <3>3
  <2> HIDE DEF b
  <2>5. ASSUME frame.type \in Request, NEW i \in DOMAIN b PROVE b[i] # frame
    <3>1. CASE i <= Len(q)
      <4>1. i \in DOMAIN Stream /\ Stream[i] = b[i] /\ i # Len(q) + 1
        BY <2>4, <3>1
      <4> QED
        BY <1>1, <2>1, <2>5, <4>1 DEF StreamInv, Distinct
    <3>2. CASE ~(i <= Len(q))
      <4>1. /\ i + 1 \in DOMAIN Stream /\ ~(i + 1 <= Len(q)) /\ i + 1 # Len(q) + 1
            /\ (i + 1) - Len(q) \in 1 .. Len(wire) + 1 /\ (i + 1) - Len(q) # 1
            /\ ((i + 1) - Len(q)) - 1 = i - Len(q)
        BY <2>4, <3>2
      <4>2. Stream[i + 1] = c[(i + 1) - Len(q)] /\ c[(i + 1) - Len(q)] = wire[i - Len(q)]
        BY <2>3, <2>4, <4>1
      <4>3. Stream[i + 1] = b[i]
        BY <2>4, <3>2, <4>2
      <4> QED
        BY <1>1, <2>1, <2>5, <4>1, <4>3 DEF StreamInv, Distinct
    <3> QED
      BY <3>1, <3>2
  <2> QED
    BY <1>3, <2>2, <2>5 DEF b
<1> QED
  BY <1>2, <1>3

(* The application learns of the frame. *)
LEMMA Learnt ==
  ASSUME IInv, Held \/ pc = "use", ~Held => frame.type \notin Content, Learn(frame),
         Stream' = q \o wire,
         UNCHANGED <<closed, requests, nmsg, nreq, delivered, content>>
  PROVE  StreamOK' /\ PendingInv' /\ RequestsInv' /\ ContentInv' /\ DeliveredInv'
<1>1. FrameOK(frame) /\ StreamInv(Stream')
      /\ (frame.type \in Request => \A i \in DOMAIN Stream' : Stream'[i] # frame)
  BY FrameHeld, HandEmptied
<1>2. /\ pending' \subseteq pending
      /\ \A p \in pending : p = frame \/ p \in pending'
      /\ RequestsOK'
  BY <1>1, RequestEnded DEF RequestsOK, IInv, TypeOK, FrameOK
<1>3. StreamOK'
  <2>1. ASSUME NEW f, FrameOK(f), f.type \in Request => f # frame PROVE FrameOK(f)'
    BY <1>2, <2>1 DEF FrameOK
  <2>2. ASSUME NEW f, Expected(f) PROVE Expected(f)'
    BY <2>2 DEF Expected
  <2> QED
    BY <1>1, <2>1, <2>2 DEF StreamOK, StreamInv
<1>4. ContentInv' /\ DeliveredInv'
  BY DEF IInv, ContentInv, DeliveredInv
<1> QED
  BY <1>2, <1>3, <1>4 DEF RequestsOK

(* A call that ends without its frame, whether the application learns of it or not. *)
LEMMA FinishStep ==
  ASSUME IInv, Held \/ pc = "use", ~Held => frame.type \notin Content,
         NEW st, NEW g, Finish(st, g), Learn(frame) \/ LearnNothing, Return
  PROVE  IInv'
<1>1. /\ call' = "none" /\ pc' = "idle" /\ message' = NoMessage
      /\ done' = [call |-> call, status |-> st, asked |-> asked, got |-> g]
      /\ UNCHANGED <<wire, q, delivered, nreq, requests, content, nmsg, closed>>
  BY DEF Finish, Return, broker
<1>2. Stream' = q \o wire
  BY <1>1 DEF Stream, Held
<1>3. StreamOK' /\ PendingInv' /\ RequestsInv' /\ ContentInv' /\ DeliveredInv'
  <2>1. CASE Learn(frame)
    BY <1>1, <1>2, <2>1, Learnt
  <2>2. CASE LearnNothing
    BY <1>1, <1>2, <2>2, HandEmptied, Kept DEF LearnNothing
  <2> QED
    BY <2>1, <2>2
<1>4. TypeOK'
  BY <1>1 DEF IInv, TypeOK, MessageType, NoMessage
<1>5. ReadInv' /\ WireInv' /\ AskedInv'
  BY <1>1 DEF ReadInv, WireInv, AskedInv
<1> QED
  BY <1>3, <1>4, <1>5 DEF IInv

LEMMA RpcReturnsStep == ASSUME IInv, RpcReturns PROVE IInv'
<1>1. /\ call = "rpc" /\ pc = "use" /\ (IsReply \/ IsClose) /\ Learn(frame) /\ Return
  BY DEF RpcReturns, Using
<1>2. frame.type \notin Content
  <2>1. asked.type \in Request
    BY <1>1 DEF IInv, AskedInv, PendingInv
  <2> QED
    BY <1>1, <2>1, ClientAssumption DEF IsReply, IsClose, Content
<1>3. PICK st : Finish(st, frame)
  BY DEF RpcReturns
<1> QED
  BY <1>1, <1>2, <1>3, FinishStep

(* A frame that is not for the RPC goes behind the queued ones, before the rest of the wire. *)
LEMMA RpcQueuesStep == ASSUME IInv, RpcQueues PROVE IInv'
<1>1. /\ call = "rpc" /\ pc = "use" /\ pc' = "wire" /\ ~Held
      /\ q' = Append(q, frame)
      /\ UNCHANGED <<open, wire, frame, call, asked, message, app, broker>>
  BY DEF RpcQueues, Using, Queue!Arrive, Held
<1>2. UNCHANGED <<closed, pending, requests, nmsg, nreq, delivered, content, done>>
  BY <1>1 DEF app, broker
<1>3. q \in Seq(AnyFrame) /\ wire \in Seq(AnyFrame) /\ frame \in AnyFrame
      /\ Stream = q \o (<< frame >> \o wire)
  BY <1>1, StreamParts
<1>4. q' \in Seq(AnyFrame) /\ q' \o wire = q \o (<< frame >> \o wire)
  BY <1>1, <1>3, AppendProperties, Shuffles
<1>5. Stream' = Stream /\ StreamInv(Stream')
  BY <1>1, <1>3, <1>4 DEF Stream, Held, IInv, StreamOK
<1>6. TypeOK'
  BY <1>1, <1>2, <1>4, <1>5, Kept DEF IInv, TypeOK, Waits
<1>7. ReadInv' /\ WireInv' /\ AskedInv'
  BY <1>1, <1>2 DEF IInv, ReadInv, WireInv, AskedInv, OnAny, OnChannel
<1> QED
  BY <1>2, <1>5, <1>6, <1>7, Kept DEF IInv

(* A call that is given up while it waits, with the last frame of a message in its hand. *)
LEMMA TimeoutStep == ASSUME IInv, RpcTimeout \/ WaitTimeout \/ FrameCut PROVE IInv'
<1>1. /\ pc \in {"wire", "blocked"} /\ pc # "use"
      /\ call' = "none" /\ pc' = "idle" /\ message' = NoMessage
      /\ done'.status # "NORMAL"
      /\ UNCHANGED <<wire, q, delivered, pending, nreq, requests, content, nmsg, closed>>
  BY DEF RpcTimeout, WaitTimeout, FrameCut, Finish, Return, LearnNothing, broker
<1>2. Stream' = q \o wire
  BY <1>1 DEF Stream, Held
<1>3. StreamInv(Stream')
  <2>1. CASE Held
    BY <1>2, <2>1, HandEmptied
  <2>2. CASE ~Held
    BY <1>1, <1>2, <2>2, StreamParts DEF IInv, StreamOK
  <2> QED
    BY <2>1, <2>2
<1>4. TypeOK'
  BY <1>1 DEF IInv, TypeOK, MessageType, NoMessage
<1>5. ReadInv' /\ WireInv' /\ AskedInv'
  BY <1>1 DEF ReadInv, WireInv, AskedInv
<1> QED
  BY <1>1, <1>3, <1>4, <1>5, Kept DEF IInv

LEMMA WaitMethodReturnsStep == ASSUME IInv, WaitMethodReturns PROVE IInv'
<1>1. call = "method" /\ pc = "use" /\ Held /\ Return
  BY DEF WaitMethodReturns, Using, Held
<1> QED
  BY <1>1, FinishStep DEF WaitMethodReturns

LEMMA WaitFrameReturnsStep == ASSUME IInv, WaitFrameReturns PROVE IInv'
BY FinishStep DEF WaitFrameReturns, Using, Held

LEMMA ReadClosedStep == ASSUME IInv, ReadClosed PROVE IInv'
BY FinishStep DEF ReadClosed, Using, Held

-----------------------------------------------------------------------------
(* Messages.                                                               *)

(* Steps that only look at the frame in the call's hand. *)
LEMMA LookKeeps ==
  ASSUME IInv, Held, Held', UNCHANGED <<wire, q, frame, app, broker>>
  PROVE  /\ StreamOK' /\ PendingInv' /\ RequestsInv' /\ ContentInv' /\ DeliveredInv'
         /\ StreamInv(Stream')
         /\ UNCHANGED <<closed, pending, requests, nmsg, nreq, delivered, content, done>>
<1>1. UNCHANGED <<closed, pending, requests, nmsg, nreq, delivered, content, done>>
  BY DEF app, broker
<1>2. Stream' = Stream /\ StreamInv(Stream')
  BY DEF Stream, IInv, StreamOK
<1> QED
  BY <1>1, <1>2, Kept

LEMMA EnvelopeReadStep == ASSUME IInv, EnvelopeRead PROVE IInv'
<1>1. /\ call = "envelope" /\ pc = "use" /\ frame.type = "deliver" /\ Held /\ Held'
      /\ call' = "header" /\ pc' = Look("header", frame.channel) /\ asked' = frame
      /\ message' = [message EXCEPT !.id = frame.id]
      /\ UNCHANGED <<wire, q, frame, app, broker>>
  BY DEF EnvelopeRead, Using, Held
<1>2. FrameOK(frame) /\ frame \in AnyFrame
  BY <1>1, FrameHeld DEF FrameOK
<1>3. message = NoMessage /\ frame.channel \in Channel /\ frame.id \in Nat
  BY <1>1, <1>2 DEF IInv, ReadInv, FrameOK, AnyFrame
<1>4. message' = [id |-> frame.id, parts |-> {}, read |-> 0, size |-> 0]
  BY <1>1, <1>3 DEF NoMessage
<1>0. Waits' /\ WireInv' /\ pc' # "use" /\ pc' # "idle"
  BY <1>1, Looks DEF OnAny, OnChannel, Waits
<1>5. TypeOK'
  BY <1>0, <1>1, <1>2, <1>3, <1>4, LookKeeps DEF IInv, TypeOK, MessageType, Waits
<1>6. ReadInv' /\ AskedInv'
  BY <1>0, <1>1, <1>2, <1>3, <1>4, LookKeeps DEF IInv, ReadInv, AskedInv, Content
<1> QED
  BY <1>0, <1>1, <1>5, <1>6, LookKeeps DEF IInv

LEMMA UnexpectedStep == ASSUME IInv, UnexpectedPutBack PROVE IInv'
<1>1. /\ call \in {"envelope", "header"} /\ pc = "use" /\ Held
      /\ call' = "none" /\ pc' = "idle" /\ message' = NoMessage
      /\ done' = [call |-> call, status |-> "UNEXPECTED_STATE", asked |-> asked, got |-> NULL]
      /\ q' = << frame >> \o q
      /\ UNCHANGED <<wire, delivered, pending, nreq, requests, content, nmsg, closed>>
  BY DEF UnexpectedPutBack, Using, Held, Queue!PutBack, Finish, LearnNothing, broker
<1>2. /\ q \in Seq(AnyFrame) /\ wire \in Seq(AnyFrame) /\ frame \in AnyFrame
      /\ Stream = << frame >> \o (q \o wire)
  BY <1>1, StreamParts
<1>3. q' \in Seq(AnyFrame) /\ Stream' = q' \o wire
  BY <1>1, <1>2, JoinedOne DEF Stream, Held
<1>4. Stream' = Stream /\ StreamInv(Stream')
  BY <1>1, <1>2, <1>3, Shuffles, ZenonT(30) DEF IInv, StreamOK
<1>5. TypeOK'
  BY <1>1, <1>3 DEF IInv, TypeOK, MessageType, NoMessage
<1>6. ReadInv' /\ WireInv' /\ AskedInv'
  BY <1>1 DEF ReadInv, WireInv, AskedInv
<1> QED
  BY <1>1, <1>4, <1>5, <1>6, Kept DEF IInv

LEMMA HeaderReadStep == ASSUME IInv, HeaderRead PROVE IInv'
<1>1. /\ call = "header" /\ pc = "use" /\ frame.type = "header" /\ Held /\ Held'
      /\ call' = "body" /\ pc' = IF frame.len = 0 THEN "whole" ELSE Look("body", asked.channel)
      /\ message' = [message EXCEPT !.parts = {frame.id}, !.size = frame.len]
      /\ UNCHANGED <<wire, q, frame, asked, app, broker>>
  BY DEF HeaderRead, Using, Held
<1>2. FrameOK(frame) /\ frame \in AnyFrame
  BY <1>1, FrameHeld DEF FrameOK
<1>3. /\ frame.id = asked.id /\ frame.left = frame.len /\ frame.len \in Nat /\ frame.id \in Nat
      /\ message \in MessageType /\ message.id = asked.id /\ message.read = 0
      /\ frame.channel = asked.channel
  <2>1. Follows(asked, frame) /\ asked.type = "deliver"
    BY <1>1 DEF IInv, ReadInv
  <2> QED
    BY <1>1, <1>2, <2>1 DEF Follows, AnyFrame, IInv, ReadInv, TypeOK, More
<1>4. /\ message' \in MessageType /\ message'.id = frame.id /\ message'.parts = {frame.id}
      /\ message'.read = 0 /\ message'.size = frame.len
  BY <1>1, <1>3 DEF MessageType
<1>0. /\ WireInv' /\ pc' # "use" /\ pc' # "idle" /\ (Waits' <=> frame.len # 0)
      /\ Waits' \/ pc' = "whole"
  <2>1. CASE frame.len = 0
    BY <1>1, <2>1 DEF WireInv, Waits
  <2>2. CASE frame.len # 0
    BY <1>1, <2>2, Looks DEF OnAny, OnChannel, Waits
  <2> QED
    BY <2>1, <2>2
<1>5. TypeOK'
  BY <1>0, <1>1, <1>2, <1>4, LookKeeps DEF IInv, TypeOK
<1>6. ReadInv'
  BY <1>0, <1>1, <1>2, <1>3, <1>4 DEF IInv, ReadInv, Content
<1>7. AskedInv'
  BY <1>1, LookKeeps DEF IInv, AskedInv
<1> QED
  BY <1>0, <1>1, <1>5, <1>6, <1>7, LookKeeps DEF IInv

LEMMA BodyReadStep == ASSUME IInv, BodyRead PROVE IInv'
<1>1. /\ call = "body" /\ pc = "use" /\ frame.type = "body" /\ Held /\ Held'
      /\ call' = "body"
      /\ pc' = IF message'.read = message.size THEN "whole" ELSE Look("body", asked.channel)
      /\ message' = [message EXCEPT !.parts = message.parts \cup {frame.id},
                                    !.read = message.read + frame.len]
      /\ UNCHANGED <<wire, q, frame, asked, app, broker>>
  BY DEF BodyRead, Using, Held
<1>2. FrameOK(frame) /\ frame \in AnyFrame
  BY <1>1, FrameHeld DEF FrameOK
<1>3. /\ frame.id = message.id /\ frame.left + frame.len = message.size - message.read
      /\ frame.len \in Nat /\ frame.left \in Nat /\ frame.id \in Nat
      /\ message \in MessageType /\ message.parts = {message.id} /\ message.id = asked.id
      /\ message.read \in Nat /\ message.size \in Nat
      /\ frame.channel = asked.channel /\ asked.channel \in Channel
  BY <1>1, <1>2 DEF IInv, ReadInv, TypeOK, AnyFrame, MessageType
<1>4. /\ message' \in MessageType /\ message'.id = message.id /\ message'.parts = {message.id}
      /\ message'.read = message.read + frame.len /\ message'.size = message.size
  <2>1. message.parts \cup {frame.id} = {message.id}
    BY <1>3
  <2>2. message' = [message EXCEPT !.parts = {message.id}, !.read = message.read + frame.len]
    BY <1>1, <2>1
  <2>3. {message.id} \in SUBSET Nat /\ message.read + frame.len \in Nat
    BY <1>3
  <2> QED
    BY <1>3, <2>2, <2>3 DEF MessageType
<1>0. /\ WireInv' /\ pc' # "use" /\ pc' # "idle" /\ (Waits' <=> message'.read # message.size)
      /\ Waits' \/ pc' = "whole"
  <2>1. CASE message'.read = message.size
    BY <1>1, <2>1 DEF WireInv, Waits
  <2>2. CASE message'.read # message.size
    BY <1>1, <2>2, Looks DEF OnAny, OnChannel, Waits
  <2> QED
    BY <2>1, <2>2
<1>5. TypeOK'
  BY <1>0, <1>1, <1>2, <1>4, LookKeeps DEF IInv, TypeOK
<1>6. ReadInv'
  <2>1. /\ message'.read <= message'.size
        /\ frame.left = message'.size - message'.read
        /\ frame.left > 0 <=> message'.read # message.size
    BY <1>3, <1>4
  <2> QED
    BY <1>0, <1>1, <1>2, <1>3, <1>4, <2>1 DEF ReadInv, Content
<1>7. AskedInv'
  BY <1>1, LookKeeps DEF IInv, AskedInv
<1> QED
  BY <1>0, <1>1, <1>5, <1>6, <1>7, LookKeeps DEF IInv

(* A read is never refused: it meets nothing but the rest of its body or a close. *)
LEMMA BodyAnnounced == IInv => BodyAsAnnounced
<1> SUFFICES ASSUME IInv, Using({"body"}), frame.type # "close"
             PROVE  frame.type = "body" /\ message.read + frame.len <= message.size
  BY DEF BodyAsAnnounced
<1>1. /\ call = "body" /\ pc = "use" /\ frame \in AnyFrame /\ message \in MessageType
      /\ frame.type = "body" /\ frame.left + frame.len = message.size - message.read
  BY DEF Using, IInv, ReadInv, TypeOK
<1> QED
  BY <1>1 DEF AnyFrame, MessageType

LEMMA BodyRefusedNever == ASSUME IInv, BodyRefused PROVE FALSE
<1>1. /\ Using({"body"}) /\ frame.type # "close"
      /\ frame.type = "body" => message.read + frame.len > message.size
      /\ frame \in AnyFrame /\ message \in MessageType
  BY DEF BodyRefused, Using, IInv, TypeOK
<1> QED
  BY <1>1, BodyAnnounced DEF BodyAsAnnounced, AnyFrame, MessageType

(* The message is the next of its channel: what is left of the stream comes after it. *)
LEMMA MessageReadStep == ASSUME IInv, MessageRead PROVE IInv'
<1> DEFINE ch == asked.channel
<1>1. /\ call = "body" /\ pc = "whole" /\ Held
      /\ call' = "none" /\ pc' = "idle" /\ message' = NoMessage
      /\ done' = [call |-> call, status |-> "NORMAL", asked |-> asked, got |-> NULL]
      /\ delivered' = [delivered EXCEPT ![ch] = Append(delivered[ch], message)]
      /\ UNCHANGED <<wire, q, pending, nreq, requests, content, nmsg, closed>>
  BY DEF MessageRead, Finish, LearnNothing, broker, Held
<1>2. /\ FrameOK(frame) /\ StreamInv(q \o wire)
      /\ \A i \in DOMAIN (q \o wire) :
           (q \o wire)[i].channel = frame.channel => Precedes(frame, (q \o wire)[i])
  BY <1>1, FrameHeld, HandEmptied
<1>3. /\ ch \in Channel /\ frame.channel = ch /\ frame.type \in Content /\ frame.id = message.id
      /\ ~More(frame) /\ message \in MessageType
      /\ message.parts = {message.id} /\ message.read = message.size
  <2>1. message.read <= message.size /\ frame.left = message.size - message.read
        /\ ~(frame.left > 0) /\ message \in MessageType
        /\ frame.type # "deliver" /\ frame \in AnyFrame
    BY <1>1, <1>2 DEF IInv, ReadInv, TypeOK, FrameOK, Waits
  <2>2. message.read = message.size
    BY <2>1 DEF MessageType, AnyFrame
  <2> QED
    BY <1>1, <2>1, <2>2 DEF IInv, ReadInv, More
<1> HIDE DEF ch
<1>4. /\ delivered \in [Channel -> Seq(MessageType)] /\ delivered' \in [Channel -> Seq(MessageType)]
      /\ \A c \in Channel : c # ch => delivered'[c] = delivered[c]
      /\ DOMAIN delivered'[ch] = 1 .. Len(delivered[ch]) + 1
      /\ DOMAIN delivered[ch] = 1 .. Len(delivered[ch]) /\ Len(delivered[ch]) \in Nat
      /\ \A i \in DOMAIN delivered[ch] : delivered'[ch][i] = delivered[ch][i]
      /\ delivered'[ch][Len(delivered[ch]) + 1] = message
  <2>1. delivered \in [Channel -> Seq(MessageType)] /\ delivered[ch] \in Seq(MessageType)
    BY <1>3 DEF IInv, TypeOK
  <2> DEFINE t == Append(delivered[ch], message)
  <2>2. /\ t \in Seq(MessageType) /\ DOMAIN t = 1 .. Len(delivered[ch]) + 1
        /\ DOMAIN delivered[ch] = 1 .. Len(delivered[ch]) /\ Len(delivered[ch]) \in Nat
        /\ \A i \in DOMAIN delivered[ch] : t[i] = delivered[ch][i]
        /\ t[Len(delivered[ch]) + 1] = message
    BY <1>3, <2>1, AppendProperties, LenProperties
  <2> HIDE DEF t
  <2>3. delivered' = [delivered EXCEPT ![ch] = t]
    BY <1>1 DEF t
  <2> QED
    BY <1>3, <2>1, <2>2, <2>3
<1>5. \A i \in DOMAIN delivered'[ch] :
         \/ i \in DOMAIN delivered[ch] /\ delivered'[ch][i] = delivered[ch][i]
         \/ i = Len(delivered[ch]) + 1 /\ delivered'[ch][i] = message
  BY <1>4
<1>6. StreamOK'
  <2>1. Stream' = q \o wire
    BY <1>1 DEF Stream, Held
  <2>2. ASSUME NEW f, FrameOK(f), f.channel = frame.channel => Precedes(frame, f)
        PROVE  FrameOK(f)'
    <3>1. f.type \in Content => \A i \in DOMAIN delivered'[f.channel] :
                                  delivered'[f.channel][i].id < f.id
      <4> SUFFICES ASSUME f.type \in Content, NEW i \in DOMAIN delivered'[f.channel]
                   PROVE  delivered'[f.channel][i].id < f.id
        OBVIOUS
      <4>1. f.channel \in Channel
        BY <2>2, ClientAssumption DEF FrameOK, Content
      <4>2. CASE f.channel = ch
        <5>1. message.id < f.id
          BY <1>3, <2>2, <4>2 DEF Precedes
        <5> QED
          BY <1>5, <2>2, <4>2, <5>1 DEF FrameOK
      <4>3. CASE f.channel # ch
        BY <1>4, <2>2, <4>1, <4>3 DEF FrameOK
      <4> QED
        BY <4>2, <4>3
    <3> QED
      BY <1>1, <2>2, <3>1 DEF FrameOK
  <2>3. ASSUME NEW f, Expected(f) PROVE Expected(f)'
    BY <1>1, <2>3 DEF Expected
  <2> QED
    BY <1>2, <2>1, <2>2, <2>3 DEF StreamOK, StreamInv
<1>7. ContentInv'
  <2>1. /\ message.id <= nmsg
        /\ content[ch].part # "none" => message.id < content[ch].id
    BY <1>2, <1>3 DEF FrameOK
  <2> SUFFICES ASSUME NEW c \in Channel
               PROVE  \A i \in DOMAIN delivered'[c] :
                        /\ delivered'[c][i].id <= nmsg
                        /\ content[c].part # "none" => delivered'[c][i].id < content[c].id
    BY <1>1 DEF IInv, ContentInv
  <2> QED
    BY <1>4, <1>5, <2>1 DEF IInv, ContentInv
<1>8. DeliveredInv'
  <2>1. \A i \in DOMAIN delivered[ch] : delivered[ch][i].id < message.id
    BY <1>2, <1>3 DEF FrameOK
  <2> SUFFICES ASSUME NEW c \in Channel, NEW i \in DOMAIN delivered'[c]
               PROVE  /\ delivered'[c][i].parts = {delivered'[c][i].id}
                      /\ delivered'[c][i].read = delivered'[c][i].size
                      /\ \A j \in 1 .. i - 1 : delivered'[c][j].id < delivered'[c][i].id
    BY DEF DeliveredInv
  <2>2. CASE c # ch
    <3>1. delivered'[c] = delivered[c]
      BY <1>4, <2>2
    <3> QED
      BY <3>1 DEF IInv, DeliveredInv
  <2>3. CASE c = ch /\ i \in DOMAIN delivered[ch]
    <3>1. \A j \in 1 .. i - 1 : j \in DOMAIN delivered[ch]
      BY <1>4, <2>3
    <3>2. /\ delivered'[c][i] = delivered[ch][i]
          /\ \A j \in 1 .. i - 1 : delivered'[c][j] = delivered[ch][j]
      BY <1>4, <2>3, <3>1
    <3>3. /\ delivered[ch][i].parts = {delivered[ch][i].id}
          /\ delivered[ch][i].read = delivered[ch][i].size
          /\ \A j \in 1 .. i - 1 : delivered[ch][j].id < delivered[ch][i].id
      BY <1>3, <2>3 DEF IInv, DeliveredInv
    <3> QED
      BY <3>2, <3>3
  <2>4. CASE c = ch /\ i = Len(delivered[ch]) + 1
    <3>1. \A j \in 1 .. i - 1 : j \in DOMAIN delivered[ch]
      BY <1>4, <2>4
    <3> QED
      BY <1>3, <1>4, <2>1, <2>4, <3>1
  <2> QED
    BY <1>5, <2>2, <2>3, <2>4
<1>9. TypeOK'
  BY <1>1, <1>4 DEF IInv, TypeOK, MessageType, NoMessage
<1>10. PendingInv' /\ RequestsInv' /\ ReadInv' /\ WireInv' /\ AskedInv'
  BY <1>1 DEF IInv, PendingInv, RequestsInv, ReadInv, WireInv, AskedInv
<1> QED
  BY <1>6, <1>7, <1>8, <1>9, <1>10 DEF IInv

-----------------------------------------------------------------------------
(* The broker.                                                             *)

LEMMA Appended ==
  ASSUME NEW s \in Seq(AnyFrame), NEW f \in AnyFrame, Linked(s), Ordered(s), Distinct(s),
         \A i \in DOMAIN s : LastOf(s, i) /\ s[i].channel = f.channel => Follows(s[i], f),
         \A i \in DOMAIN s : s[i].channel = f.channel => Precedes(s[i], f),
         f.type \in Request => \A i \in DOMAIN s : s[i] # f
  PROVE  /\ Linked(Append(s, f)) /\ Ordered(Append(s, f)) /\ Distinct(Append(s, f))
         /\ \A i \in DOMAIN Append(s, f) :
              \/ i \in DOMAIN s /\ Append(s, f)[i] = s[i]
                   /\ (LastOf(Append(s, f), i) => LastOf(s, i) /\ s[i].channel # f.channel)
              \/ Append(s, f)[i] = f
<1> DEFINE t == Append(s, f)
           n == Len(s) + 1
<1>1. /\ Len(s) \in Nat /\ DOMAIN s = 1 .. Len(s) /\ t \in Seq(AnyFrame)
      /\ DOMAIN t = 1 .. n /\ t[n] = f /\ \A i \in DOMAIN s : t[i] = s[i]
  BY AppendProperties, LenProperties
<1> HIDE DEF t
<1>2. \A i \in DOMAIN t : i \in Nat /\ (i \in DOMAIN s \/ i = n)
  BY <1>1
<1>3. n \in DOMAIN t /\ n \notin DOMAIN s /\ \A i \in DOMAIN s : i \in DOMAIN t /\ i < n /\ i \in Nat
  BY <1>1
<1>4. Linked(t)
  <2> SUFFICES ASSUME NEW i \in DOMAIN t, NEW j \in DOMAIN t, Adjacent(t, i, j)
               PROVE  Follows(t[i], t[j])
    BY DEF Linked
  <2>1. i < j /\ i \in DOMAIN s
    BY <1>1, <1>2 DEF Adjacent
  <2>2. CASE j \in DOMAIN s
    <3>1. \A k \in i + 1 .. j - 1 : k \in DOMAIN s
      BY <1>1, <2>1, <2>2
    <3>2. Adjacent(s, i, j)
      BY <1>1, <2>1, <2>2, <3>1 DEF Adjacent
    <3> QED
      BY <1>1, <2>1, <2>2, <3>2 DEF Linked
  <2>3. CASE j = n
    <3>1. \A k \in DOMAIN s : k > i => k \in i + 1 .. j - 1
      BY <1>1, <2>1, <2>3
    <3>2. LastOf(s, i) /\ s[i].channel = f.channel
      BY <1>1, <2>1, <2>3, <3>1 DEF Adjacent, LastOf
    <3> QED
      BY <1>1, <2>1, <2>3, <3>2
  <2> QED
    BY <1>2, <2>2, <2>3
<1>5. Ordered(t)
  BY <1>1, <1>2, <1>3 DEF Ordered
<1>6. Distinct(t)
  BY <1>1, <1>2, <1>3 DEF Distinct
<1>7. ASSUME NEW i \in DOMAIN t
      PROVE  \/ i \in DOMAIN s /\ t[i] = s[i]
                  /\ (LastOf(t, i) => LastOf(s, i) /\ s[i].channel # f.channel)
             \/ t[i] = f
  BY <1>1, <1>2, <1>3 DEF LastOf
<1> QED
  BY <1>4, <1>5, <1>6, <1>7 DEF t

(***************************************************************************)
(* A frame sent by the broker goes to the end of the stream: it continues  *)
(* what came last on its channel, and what is known of the others holds.   *)
(***************************************************************************)
LEMMA PutKeeps ==
  ASSUME IInv, NEW f \in AnyFrame, Put(f), FrameOK(f)', Expected(f)',
         \A g : FrameOK(g) /\ Expected(g) /\ g.channel = f.channel => Follows(g, f),
         \A g : FrameOK(g) /\ g.channel = f.channel => Precedes(g, f),
         f.type \in Request => \A g : FrameOK(g) => g # f,
         \A g : FrameOK(g) => FrameOK(g)',
         \A g : Expected(g) /\ g.channel # f.channel => Expected(g)'
  PROVE  StreamOK' /\ wire' \in Seq(AnyFrame)
<1>1. /\ wire' = Append(wire, f) /\ UNCHANGED <<q, frame, call, pc>>
      /\ q \in Seq(AnyFrame) /\ wire \in Seq(AnyFrame) /\ q \o wire \in Seq(AnyFrame)
      /\ Stream \in Seq(AnyFrame) /\ StreamInv(Stream) /\ (Held \/ pc = "use" => frame \in AnyFrame)
      /\ (Held' <=> Held) /\ wire' \in Seq(AnyFrame)
  BY StreamParts, AppendProperties DEF Put, IInv, StreamOK, Held
<1>2. q \o wire' = Append(q \o wire, f)
  BY <1>1, Shuffles
<1>3. Stream' = Append(Stream, f)
  <2>1. CASE Held
    <3>1. << frame >> \in Seq(AnyFrame) /\ Stream = << frame >> \o (q \o wire)
      BY <1>1, <2>1, StreamParts
    <3>2. << frame >> \o Append(q \o wire, f) = Append(<< frame >> \o (q \o wire), f)
      BY <1>1, <3>1, Shuffles
    <3>3. Stream' = << frame >> \o (q \o wire')
      BY <1>1, <2>1 DEF Stream
    <3> QED
      BY <1>2, <3>1, <3>2, <3>3
  <2>2. CASE ~Held /\ pc = "use"
    <3>1. /\ << frame >> \in Seq(AnyFrame) /\ << frame >> \o wire \in Seq(AnyFrame)
          /\ Stream = q \o (<< frame >> \o wire)
      BY <1>1, <2>2, StreamParts, JoinedOne
    <3>2. << frame >> \o Append(wire, f) = Append(<< frame >> \o wire, f)
      BY <1>1, <3>1, Shuffles
    <3>3. q \o Append(<< frame >> \o wire, f) = Append(q \o (<< frame >> \o wire), f)
      BY <1>1, <3>1, Shuffles
    <3>4. Stream' = q \o (<< frame >> \o wire')
      BY <1>1, <2>2 DEF Stream
    <3> QED
      BY <1>1, <3>1, <3>2, <3>3, <3>4
  <2>3. CASE ~Held /\ pc # "use"
    BY <1>1, <1>2, <2>3, StreamParts DEF Stream
  <2> QED
    BY <2>1, <2>2, <2>3
<1> DEFINE s == Stream
<1>4. /\ Linked(s) /\ Ordered(s) /\ Distinct(s) /\ s \in Seq(AnyFrame)
      /\ \A i \in DOMAIN s : FrameOK(s[i])
      /\ \A i \in DOMAIN s : LastOf(s, i) => Expected(s[i])
  BY <1>1 DEF StreamInv
<1> HIDE DEF s
<1>5. /\ \A i \in DOMAIN s : LastOf(s, i) /\ s[i].channel = f.channel => Follows(s[i], f)
      /\ \A i \in DOMAIN s : s[i].channel = f.channel => Precedes(s[i], f)
      /\ f.type \in Request => \A i \in DOMAIN s : s[i] # f
  BY <1>4
<1>6. /\ Linked(Append(s, f)) /\ Ordered(Append(s, f)) /\ Distinct(Append(s, f))
      /\ \A i \in DOMAIN Append(s, f) :
           \/ i \in DOMAIN s /\ Append(s, f)[i] = s[i]
                /\ (LastOf(Append(s, f), i) => LastOf(s, i) /\ s[i].channel # f.channel)
           \/ Append(s, f)[i] = f
  BY <1>4, <1>5, Appended
<1>7. Stream' = Append(s, f)
  BY <1>3 DEF s
<1> DEFINE t == Append(s, f)
<1> HIDE DEF t
<1>8. /\ Linked(t) /\ Ordered(t) /\ Distinct(t) /\ Stream' = t
      /\ \A i \in DOMAIN t :
           \/ i \in DOMAIN s /\ t[i] = s[i]
                /\ (LastOf(t, i) => LastOf(s, i) /\ s[i].channel # f.channel)
           \/ t[i] = f
  BY <1>6, <1>7 DEF t
<1>9. \A g : (g = f \/ \E i \in DOMAIN s : g = s[i]) => FrameOK(g)'
  BY <1>4
<1>10. \A g : (g = f \/ (g.channel # f.channel /\ \E i \in DOMAIN s : g = s[i] /\ LastOf(s, i)))
         => Expected(g)'
  BY <1>4
<1>11. StreamOK'
  BY <1>8, <1>9, <1>10 DEF StreamOK, StreamInv
<1> QED
  BY <1>1, <1>11

(* The invariants that no frame from the broker touches. *)
LEMMA PutLeaves ==
  ASSUME IInv, NEW f, Put(f)
  PROVE  /\ ReadInv' /\ WireInv' /\ AskedInv' /\ PendingInv' /\ DeliveredInv'
         /\ UNCHANGED <<q, frame, call, pc, message, delivered, pending, nreq>>
         /\ f.channel \notin closed
<1>1. /\ UNCHANGED <<q, frame, call, pc, asked, message, done, delivered, pending, nreq>>
      /\ f.channel \notin closed
  BY DEF Put, app
<1>2. WireInv'
  <2>1. QueuedOn(asked.channel)' <=> QueuedOn(asked.channel)
    BY <1>1 DEF QueuedOn
  <2> QED
    BY <1>1, <2>1 DEF IInv, WireInv
<1> QED
  BY <1>1, <1>2 DEF IInv, ReadInv, AskedInv, PendingInv, DeliveredInv, Waits

LEMMA AnswerStep == ASSUME IInv, NEW ch \in Channel, Answer(ch) PROVE IInv'
<1>0. PICK r : r = Head(requests[ch])
  OBVIOUS
<1>1. /\ requests[ch] # << >> /\ content[ch] = NoContent /\ Put(r)
      /\ requests' = [requests EXCEPT ![ch] = Tail(requests[ch])]
      /\ UNCHANGED <<content, nmsg, closed>>
  BY <1>0 DEF Answer
<1>2. /\ r \in pending /\ r.channel = ch /\ 1 \in DOMAIN requests[ch] /\ r = requests[ch][1]
      /\ RequestsOK'
      /\ \A c \in Channel : \A k \in DOMAIN requests'[c] :
           \E l \in DOMAIN requests[c] : requests'[c][k] = requests[c][l]
      /\ \A k \in DOMAIN requests'[ch] : requests'[ch][k] # r
  <2>1. RequestsOK /\ UNCHANGED <<pending, nreq>>
    BY <1>1 DEF RequestsOK, IInv, TypeOK, Put, app
  <2> QED
    BY <1>0, <1>1, <2>1, RequestAnswered
<1>3. r \in AnyFrame /\ r.type \in Request /\ r.left = 0
  BY <1>2 DEF IInv, PendingInv
<1>4. r.type # "close" /\ r.type \notin Content /\ ~More(r)
  BY <1>3, ClientAssumption DEF Content, More, AnyFrame
<1>5. \A g : FrameOK(g) => FrameOK(g)'
  <2> SUFFICES ASSUME NEW g, FrameOK(g) PROVE FrameOK(g)'
    OBVIOUS
  <2>1. g.type \in Request => \A k \in DOMAIN requests'[g.channel] : requests'[g.channel][k] # g
    <3>1. g.type \in Request => g.channel \in Channel
      BY DEF FrameOK, IInv, PendingInv
    <3> QED
      BY <1>2, <3>1 DEF FrameOK
  <2>2. UNCHANGED <<pending, delivered, content, nmsg, closed>>
    BY <1>1, PutLeaves
  <2> QED
    BY <2>1, <2>2 DEF FrameOK
<1>6. FrameOK(r)' /\ Expected(r)'
  <2>2. pending' = pending
    BY <1>1, PutLeaves
  <2>3. FrameOK(r)'
    BY <1>2, <1>3, <1>4, <2>2 DEF FrameOK
  <2>4. Expected(r)'
    BY <1>1, <1>2, <1>4 DEF Expected
  <2> QED
    BY <2>3, <2>4
<1>7. \A g : FrameOK(g) /\ Expected(g) /\ g.channel = r.channel => Follows(g, r)
  <2> SUFFICES ASSUME NEW g, FrameOK(g), Expected(g), g.channel = ch PROVE Follows(g, r)
    BY <1>2
  <2>1. ch \notin closed /\ content[ch].part = "none"
    BY <1>1, <1>2, PutLeaves DEF NoContent
  <2> QED
    BY <1>4, <2>1 DEF Expected, Follows, Content
<1>8. \A g : FrameOK(g) => g # r
  BY <1>2, <1>3 DEF FrameOK
<1>9. \A g : Precedes(g, r)
  BY <1>4 DEF Precedes
<1>10. ASSUME NEW g, Expected(g) PROVE Expected(g)'
  BY <1>1, <1>10 DEF Expected
<1>11. StreamOK' /\ wire' \in Seq(AnyFrame)
  BY <1>1, <1>3, <1>5, <1>6, <1>7, <1>8, <1>9, <1>10, PutKeeps
<1>12. ContentInv' /\ TypeOK'
  BY <1>1, <1>2, <1>11, PutLeaves DEF IInv, ContentInv, TypeOK, Waits, RequestsOK
<1> QED
  BY <1>1, <1>2, <1>11, <1>12, PutLeaves DEF IInv, RequestsOK

LEMMA DeliveredIds ==
  ASSUME IInv, NEW c \in Channel, NEW i \in DOMAIN delivered[c]
  PROVE  delivered[c][i].id \in Nat /\ delivered[c][i].id <= nmsg
<1>1. delivered[c] \in Seq(MessageType)
  BY DEF IInv, TypeOK
<1>2. delivered[c][i] \in MessageType
  BY <1>1
<1> QED
  BY <1>2 DEF IInv, ContentInv, MessageType

LEMMA DeliverStep == ASSUME IInv, NEW ch \in Channel, Deliver(ch) PROVE IInv'
<1>1. PICK size \in 0 .. MaxBody :
        /\ content[ch] = NoContent /\ nmsg' = nmsg + 1
        /\ Put(F(ch, "deliver", nmsg', 0, 0))
        /\ content' = [content EXCEPT ![ch] = [id |-> nmsg', left |-> size,
                                               size |-> size, part |-> "header"]]
        /\ UNCHANGED <<requests, closed>>
  BY DEF Deliver
<1>2. PICK f : f = F(ch, "deliver", nmsg', 0, 0)
  OBVIOUS
<1>3. /\ Put(f) /\ UNCHANGED <<q, frame, call, pc, message, delivered, pending, nreq>>
      /\ ch \notin closed
  BY <1>1, <1>2, PutLeaves DEF F
<1>4. /\ nmsg \in Nat /\ size \in Nat /\ f \in AnyFrame
      /\ f.channel = ch /\ f.type = "deliver" /\ f.id = nmsg + 1
      /\ More(f) /\ f.type \in Content /\ f.type \notin Request
  BY <1>1, <1>2, ClientAssumption DEF IInv, TypeOK, F, AnyFrame, AnyChannel, Content, More
<1>5. /\ content[ch].part = "none"
      /\ content'[ch] = [id |-> nmsg + 1, left |-> size, size |-> size, part |-> "header"]
      /\ \A c \in Channel : c # ch => content'[c] = content[c]
      /\ content' \in [Channel -> [id : Nat, left : Nat, size : Nat,
                                   part : {"none", "header", "body"}]]
  BY <1>1, <1>4 DEF IInv, TypeOK, NoContent
<1>6. \A g : FrameOK(g) => FrameOK(g)'
  <2> SUFFICES ASSUME NEW g, FrameOK(g) PROVE FrameOK(g)'
    OBVIOUS
  <2>1. g.type \in Content =>
          /\ g.id <= nmsg'
          /\ content'[g.channel].part # "none" =>
               \/ g.id < content'[g.channel].id
               \/ g.id = content'[g.channel].id /\ More(g)
    <3> SUFFICES ASSUME g.type \in Content
                 PROVE  /\ g.id <= nmsg'
                        /\ content'[g.channel].part # "none" =>
                             \/ g.id < content'[g.channel].id
                             \/ g.id = content'[g.channel].id /\ More(g)
      OBVIOUS
    <3>1. g.channel \in Channel /\ g.id \in Nat /\ g.id <= nmsg
      BY DEF FrameOK, Content, AnyFrame
    <3>2. g.id <= nmsg' /\ g.id < nmsg + 1
      BY <1>1, <1>4, <3>1
    <3> QED
      BY <1>5, <3>1, <3>2 DEF FrameOK
  <2> QED
    BY <1>1, <1>3, <2>1 DEF FrameOK
<1>7. FrameOK(f)'
  <2>1. \A i \in DOMAIN delivered[ch] : delivered[ch][i].id < f.id
    <3>1. \A i \in DOMAIN delivered[ch] : delivered[ch][i].id \in Nat /\ delivered[ch][i].id <= nmsg
      BY DeliveredIds
    <3> QED
      BY <1>4, <3>1
  <2> QED
    BY <1>1, <1>3, <1>4, <1>5, <2>1 DEF FrameOK
<1>8. Expected(f)'
  BY <1>4, <1>5 DEF Expected
<1>9. \A g : FrameOK(g) /\ Expected(g) /\ g.channel = f.channel => Follows(g, f)
  <2> SUFFICES ASSUME NEW g, FrameOK(g), Expected(g), g.channel = ch PROVE Follows(g, f)
    BY <1>4
  <2> QED
    BY <1>3, <1>4, <1>5 DEF Expected, Follows
<1>10. \A g : FrameOK(g) => Precedes(g, f)
  <2> SUFFICES ASSUME NEW g, FrameOK(g), g.type \in Content PROVE g.id < f.id
    BY DEF Precedes
  <2> QED
    BY <1>4 DEF FrameOK, AnyFrame
<1>11. ASSUME NEW g, Expected(g), g.channel # f.channel PROVE Expected(g)'
  <2>1. content'[g.channel] = content[g.channel]
    BY <1>1, <1>4, <1>11
  <2> QED
    BY <1>1, <1>11, <2>1 DEF Expected
<1>12. StreamOK' /\ wire' \in Seq(AnyFrame)
  BY <1>3, <1>4, <1>6, <1>7, <1>8, <1>9, <1>10, <1>11, PutKeeps
<1>13. ContentInv'
  <2>1. \A c \in Channel : \A i \in DOMAIN delivered[c] :
          delivered[c][i].id \in Nat /\ delivered[c][i].id <= nmsg
    BY DeliveredIds
  <2>2. \A c \in Channel : \A i \in DOMAIN delivered[c] :
          delivered[c][i].id < nmsg + 1 /\ delivered[c][i].id <= nmsg + 1
    BY <1>4, <2>1
  <2>3. \A c \in Channel : content[c].part # "none" => content[c].id <= nmsg + 1
    BY <1>4 DEF IInv, TypeOK, ContentInv
  <2> QED
    BY <1>1, <1>3, <1>5, <2>2, <2>3 DEF IInv, ContentInv
<1>14. TypeOK'
  <2>1. nmsg' \in Nat /\ wire' \in Seq(AnyFrame)
    BY <1>1, <1>4, <1>12
  <2> QED
    BY <1>1, <1>3, <1>5, <2>1 DEF IInv, TypeOK, Waits
<1>15. RequestsInv'
  BY <1>1, <1>3 DEF IInv, RequestsInv
<1> QED
  BY <1>3, <1>12, <1>13, <1>14, <1>15, PutLeaves DEF IInv

(* A part of the message being sent, with l of the body left after it. *)
LEMMA ContentSent ==
  ASSUME IInv, NEW ch \in Channel, NEW f \in AnyFrame, Put(f),
         f.channel = ch, f.type \in {"header", "body"}, f.id = content[ch].id,
         content[ch].part # "none", \A g : FrameOK(g) /\ Expected(g) /\ g.channel = ch => Follows(g, f),
         content' = [content EXCEPT ![ch] = Rest(content[ch], f.left)],
         UNCHANGED <<requests, nmsg, closed>>
  PROVE  IInv'
<1>1. /\ UNCHANGED <<q, frame, call, pc, message, delivered, pending, nreq>>
      /\ ch \notin closed
  BY PutLeaves
<1>2. /\ f.type \in Content /\ f.type \notin Request /\ f.type # "deliver" /\ f.type # "close"
      /\ f.left \in Nat
  BY ClientAssumption DEF Content, AnyFrame
<1>3. /\ content \in [Channel -> [id : Nat, left : Nat, size : Nat,
                                  part : {"none", "header", "body"}]]
      /\ f.left = 0 => content'[ch] = NoContent
      /\ f.left # 0 => /\ content'[ch].id = f.id /\ content'[ch].part = "body"
                       /\ content'[ch].left = f.left /\ More(f)
      /\ \A c \in Channel : c # ch => content'[c] = content[c]
  BY <1>2 DEF IInv, TypeOK, Rest, More
<1>4. content' \in [Channel -> [id : Nat, left : Nat, size : Nat,
                                part : {"none", "header", "body"}]]
  <2>1. Rest(content[ch], f.left) \in [id : Nat, left : Nat, size : Nat,
                                       part : {"none", "header", "body"}]
    <3>1. content[ch] \in [id : Nat, left : Nat, size : Nat, part : {"none", "header", "body"}]
      BY <1>3
    <3>2. [content[ch] EXCEPT !.left = f.left, !.part = "body"]
            \in [id : Nat, left : Nat, size : Nat, part : {"none", "header", "body"}]
      BY <1>2, <3>1
    <3>3. NoContent \in [id : Nat, left : Nat, size : Nat, part : {"none", "header", "body"}]
      BY DEF NoContent
    <3> QED
      BY <3>2, <3>3 DEF Rest
  <2> QED
    BY <1>3, <2>1
<1>5. \A g : FrameOK(g) => FrameOK(g)'
  <2> SUFFICES ASSUME NEW g, FrameOK(g) PROVE FrameOK(g)'
    OBVIOUS
  <2>1. g.type \in Content /\ content'[g.channel].part # "none" =>
          \/ g.id < content'[g.channel].id
          \/ g.id = content'[g.channel].id /\ More(g)
    <3>1. g.type \in Content => g.channel \in Channel
      BY DEF FrameOK, Content
    <3> QED
      BY <1>3, <3>1 DEF FrameOK, NoContent
  <2> QED
    BY <1>1, <2>1 DEF FrameOK
<1>6. FrameOK(f)'
  <2>1. f.id <= nmsg /\ \A i \in DOMAIN delivered[ch] : delivered[ch][i].id < f.id
    BY DEF IInv, ContentInv
  <2>2. content'[ch].part # "none" => f.id = content'[ch].id /\ More(f)
    BY <1>3 DEF NoContent
  <2> QED
    BY <1>1, <1>2, <2>1, <2>2 DEF FrameOK
<1>7. Expected(f)'
  BY <1>2, <1>3 DEF Expected, More
<1>8. \A g : FrameOK(g) /\ g.channel = f.channel => Precedes(g, f)
  BY DEF FrameOK, Precedes
<1>9. ASSUME NEW g, Expected(g), g.channel # f.channel PROVE Expected(g)'
  <2>1. content'[g.channel] = content[g.channel]
    BY <1>9
  <2> QED
    BY <1>9, <2>1 DEF Expected
<1>10. StreamOK' /\ wire' \in Seq(AnyFrame)
  BY <1>2, <1>5, <1>6, <1>7, <1>8, <1>9, PutKeeps
<1>11. ContentInv'
  <2>1. \A c \in Channel : c # ch => content'[c] = content[c]
    BY <1>3
  <2>2. /\ content'[ch].part = "none" => content'[ch] = NoContent
        /\ content'[ch].part # "header"
        /\ content'[ch].part = "body" => content'[ch].left > 0
        /\ content'[ch].part # "none" => content'[ch].id = content[ch].id
    BY <1>2, <1>3 DEF NoContent
  <2> QED
    BY <1>1, <2>1, <2>2 DEF IInv, ContentInv
<1>12. TypeOK' /\ RequestsInv'
  BY <1>1, <1>4, <1>10 DEF IInv, TypeOK, RequestsInv, Waits
<1> QED
  BY <1>10, <1>11, <1>12, PutLeaves DEF IInv

LEMMA SendContentStep == ASSUME IInv, NEW ch \in Channel, SendContent(ch) PROVE IInv'
<1> DEFINE c == content[ch]
<1>1. c \in [id : Nat, left : Nat, size : Nat, part : {"none", "header", "body"}]
  BY DEF IInv, TypeOK
<1>2. UNCHANGED <<requests, nmsg, closed>>
  BY DEF SendContent
<1>3. ASSUME c.part = "header", Put(F(ch, "header", c.id, c.size, c.left)),
             content' = [content EXCEPT ![ch] = Rest(c, c.left)]
      PROVE  IInv'
  <2>1. PICK f : f = F(ch, "header", c.id, c.size, c.left)
    OBVIOUS
  <2>2. /\ f \in AnyFrame /\ f.channel = ch /\ f.type = "header" /\ f.id = c.id
        /\ f.len = c.size /\ f.left = c.left /\ c.left = c.size /\ Put(f)
    BY <1>1, <1>3, <2>1 DEF F, AnyFrame, AnyChannel, Content, IInv, ContentInv
  <2>3. ASSUME NEW g, FrameOK(g), Expected(g), g.channel = ch PROVE Follows(g, f)
    <3>1. ch \notin closed
      BY <2>2, PutLeaves
    <3> QED
      BY <1>3, <2>2, <2>3, <3>1 DEF Expected, Follows, NoContent
  <2> QED
    BY <1>2, <1>3, <2>2, <2>3, ContentSent
<1>4. ASSUME c.part = "body", NEW n \in 1 .. c.left, Put(F(ch, "body", c.id, n, c.left - n)),
             content' = [content EXCEPT ![ch] = Rest(c, c.left - n)]
      PROVE  IInv'
  <2>1. PICK f : f = F(ch, "body", c.id, n, c.left - n)
    OBVIOUS
  <2>2. /\ n \in Nat /\ c.left - n \in Nat /\ (c.left - n) + n = c.left
    BY <1>1
  <2>3. /\ f \in AnyFrame /\ f.channel = ch /\ f.type = "body" /\ f.id = c.id
        /\ f.len = n /\ f.left = c.left - n /\ f.left + f.len = c.left /\ Put(f)
    BY <1>1, <1>4, <2>1, <2>2 DEF F, AnyFrame, AnyChannel, Content
  <2>4. ASSUME NEW g, FrameOK(g), Expected(g), g.channel = ch PROVE Follows(g, f)
    <3>1. ch \notin closed
      BY <2>3, PutLeaves
    <3>2. /\ g.type # "close" /\ More(g) /\ c.id = g.id
          /\ g.type # "deliver" /\ c.left = g.left
      BY <1>4, <2>4, <3>1 DEF Expected, NoContent
    <3>3. g.type \in {"header", "body"} /\ g.left > 0
      BY <2>4, <3>2 DEF FrameOK, More, AnyFrame, Content
    <3> QED
      BY <2>3, <3>2, <3>3 DEF Follows
  <2> QED
    BY <1>2, <1>4, <2>3, <2>4, ContentSent
<1> QED
  BY <1>3, <1>4 DEF SendContent

LEMMA CloseStep == ASSUME IInv, NEW ch \in AnyChannel, Close(ch) PROVE IInv'
<1>1. PICK f : f = F(ch, "close", 0, 0, 0)
  OBVIOUS
<1>2. /\ Put(f) /\ closed' = closed \cup {ch} /\ UNCHANGED <<requests, content, nmsg>>
      /\ f \in AnyFrame /\ f.channel = ch /\ f.type = "close" /\ f.type \notin Request
      /\ f.type \notin Content
  BY <1>1, ClientAssumption DEF Close, F, AnyFrame, Content
<1>3. /\ UNCHANGED <<q, frame, call, pc, message, delivered, pending, nreq>>
      /\ ch \notin closed
  BY <1>2, PutLeaves
<1>4. ASSUME NEW g, FrameOK(g) PROVE FrameOK(g)'
  BY <1>2, <1>3, <1>4 DEF FrameOK
<1>5. FrameOK(f)' /\ Expected(f)'
  BY <1>2 DEF FrameOK, Expected
<1>6. \A g : FrameOK(g) /\ Expected(g) /\ g.channel = f.channel => Follows(g, f)
  BY <1>2, <1>3 DEF Expected, Follows
<1>7. \A g : Precedes(g, f)
  BY <1>2 DEF Precedes
<1>8. ASSUME NEW g, Expected(g) PROVE Expected(g)'
  BY <1>2, <1>8 DEF Expected
<1>9. StreamOK' /\ wire' \in Seq(AnyFrame)
  BY <1>2, <1>4, <1>5, <1>6, <1>7, <1>8, PutKeeps
<1>10. TypeOK' /\ RequestsInv' /\ ContentInv'
  BY <1>2, <1>3, <1>9 DEF IInv, TypeOK, RequestsInv, ContentInv, Waits
<1> QED
  BY <1>2, <1>9, <1>10, PutLeaves DEF IInv

-----------------------------------------------------------------------------
(* The invariant and the theorems.                                         *)

LEMMA InitIInv == Init => IInv
<1> SUFFICES ASSUME Init PROVE IInv
  OBVIOUS
<1>1. /\ wire = << >> /\ q = << >> /\ call = "none" /\ pc = "idle" /\ message = NoMessage
      /\ done = NULL /\ delivered = [ch \in Channel |-> << >>] /\ pending = {} /\ nreq = 0
      /\ requests = [ch \in Channel |-> << >>] /\ content = [ch \in Channel |-> NoContent]
      /\ nmsg = 0
  BY DEF Init
<1>2. Stream = << >>
  BY <1>1 DEF Stream, Held
<1>3. StreamOK
  BY <1>2 DEF StreamOK, StreamInv, Linked, Ordered, Distinct
<1>4. TypeOK
  BY <1>1 DEF TypeOK, MessageType, NoMessage, NoContent
<1>5. PendingInv /\ AskedInv /\ RequestsInv /\ ContentInv
  BY <1>1 DEF PendingInv, AskedInv, RequestsInv, ContentInv, NoContent
<1>6. ReadInv /\ WireInv /\ DeliveredInv
  BY <1>1 DEF ReadInv, WireInv, DeliveredInv
<1> QED
  BY <1>3, <1>4, <1>5, <1>6 DEF IInv

LEMMA CallsStep == ASSUME IInv, Calls, ~missed' PROVE IInv'
<1>1. ASSUME amqp_simple_wait_method PROVE IInv'
  <2>1. PICK r \in pending : Start("method", r) /\ UNCHANGED <<pending, nreq, broker>>
    BY <1>1 DEF amqp_simple_wait_method
  <2> QED
    BY <2>1, StartStep
<1>2. ASSUME amqp_simple_wait_frame PROVE IInv'
  <2>1. Start("frame", NULL) /\ UNCHANGED <<pending, nreq, broker>>
    BY <1>2 DEF amqp_simple_wait_frame
  <2> QED
    BY <2>1, StartStep
<1>3. ASSUME amqp_consume_message PROVE IInv'
  <2>1. Start("envelope", NULL) /\ UNCHANGED <<pending, nreq, broker>>
    BY <1>3 DEF amqp_consume_message
  <2> QED
    BY <2>1, StartStep
<1> QED
  BY <1>1, <1>2, <1>3, SendStep, TryRecvStep DEF Calls

LEMMA UseStep == ASSUME IInv, Use PROVE IInv'
BY RpcReturnsStep, RpcQueuesStep, WaitMethodReturnsStep, WaitFrameReturnsStep,
   EnvelopeReadStep, UnexpectedStep, ReadClosedStep, HeaderReadStep, BodyReadStep,
   BodyRefusedNever, MessageReadStep DEF Use

LEMMA NextIInv == IInv /\ [Next]_vars => missed' \/ IInv'
<1> SUFFICES ASSUME IInv, [Next]_vars, ~missed' PROVE IInv'
  OBVIOUS
<1>1. ASSUME UNCHANGED vars PROVE IInv'
  <2>1. /\ UNCHANGED <<closed, pending, requests, nmsg, nreq, delivered, content, done>>
        /\ UNCHANGED <<wire, q, frame, call, pc, asked, message>>
    BY <1>1 DEF vars, app, broker
  <2>2. Stream' = Stream /\ StreamInv(Stream')
    BY <2>1 DEF Stream, Held, IInv, StreamOK
  <2>3. TypeOK'
    BY <2>1 DEF IInv, TypeOK, Waits
  <2>4. ReadInv' /\ WireInv' /\ AskedInv'
    <3>1. QueuedOn(asked.channel)' <=> QueuedOn(asked.channel)
      BY <2>1 DEF QueuedOn
    <3> QED
      BY <2>1, <3>1 DEF IInv, ReadInv, WireInv, AskedInv, Waits
  <2> QED
    BY <2>1, <2>2, <2>3, <2>4, Kept DEF IInv
<1>2. CASE Broker
  BY <1>2, AnswerStep, SendContentStep DEF Broker
<1>3. ASSUME NEW ch \in Channel, Deliver(ch) PROVE IInv'
  BY <1>3, DeliverStep
<1>4. ASSUME NEW ch \in Channel \cup {Zero}, Close(ch) PROVE IInv'
  BY <1>4, CloseStep DEF AnyChannel
<1> QED
  BY <1>1, <1>2, <1>3, <1>4, CallsStep, TakeStep, UseStep, TimeoutStep, HeartbeatStep DEF Next

(* Frames once missed are missed for good. *)
LEMMA MissedStays == missed /\ [Next]_vars => missed'
<1> SUFFICES ASSUME missed, [Next]_vars, missed' # missed PROVE missed'
  OBVIOUS
<1>1. amqp_try_recv \/ HeartbeatSent
  BY DEF Next, Calls, Take, Use, Broker, Answer, SendContent, Deliver, Close, Put,
         amqp_send_method, amqp_simple_rpc, amqp_simple_wait_method, amqp_simple_wait_frame,
         amqp_consume_message, Start, RpcReturns, RpcQueues, WaitMethodReturns,
         WaitFrameReturns, EnvelopeRead, UnexpectedPutBack, ReadClosed, HeaderRead, BodyRead,
         BodyRefused, MessageRead, RpcTimeout, WaitTimeout, HeartbeatBlocks, FrameCut, Return,
         vars
<1> QED
  BY <1>1 DEF amqp_try_recv, HeartbeatSent

LEMMA AlwaysIInv == Spec => [](missed \/ IInv)
<1>1. Init => missed \/ IInv
  BY InitIInv
<1>2. (missed \/ IInv) /\ [Next]_vars => (missed \/ IInv)'
  BY NextIInv, MissedStays
<1> QED
  BY <1>1, <1>2, PTL DEF Spec

(***************************************************************************)
(* As long as no wait has missed a frame behind its own blocked heartbeat, *)
(* the messages returned by amqp_consume_message each have their own       *)
(* header and their whole body, and come in the broker's order on their    *)
(* channel; the loop over the body in amqp_read_message meets nothing but  *)
(* the rest of the body or a close.                                        *)
(***************************************************************************)
THEOREM MessagesAlwaysIntact == Spec => []MessagesIntact
<1>1. missed \/ IInv => MessagesIntact
  BY BodyAnnounced DEF MessagesIntact, IInv, DeliveredInv
<1> QED
  BY <1>1, AlwaysIInv, PTL

-----------------------------------------------------------------------------
(* Replies, which a frame that is missed leaves as they are.               *)

(* f is a frame of s. *)
Has(s, f) == \E i \in DOMAIN s : s[i] = f

(* t is what s is without its first frames, the last of them is f. *)
Behind(s, t, f) ==
    /\ t \in Seq(AnyFrame) /\ f \in AnyFrame /\ Has(s, f)
    /\ \A g : Has(t, g) => Has(s, g)
    /\ Distinct(s) => Distinct(t) /\ (f.type \in Request => ~Has(t, f))

LEMMA HasLater ==
  ASSUME NEW s \in Seq(AnyFrame), NEW k \in 1 .. Len(s)
  PROVE  Behind(s, SubSeq(s, k + 1, Len(s)), s[k])
<1> DEFINE t == SubSeq(s, k + 1, Len(s))
<1>0. k \in 0 .. Len(s)
  BY LenProperties
<1>1. /\ Len(s) \in Nat /\ DOMAIN s = 1 .. Len(s) /\ k \in Nat
      /\ t \in Seq(AnyFrame) /\ DOMAIN t = 1 .. Len(s) - k
      /\ \A i \in DOMAIN t : t[i] = s[i + k]
  BY <1>0, Suffix
<1> HIDE DEF t
<1>2. \A i \in DOMAIN t : i \in Nat /\ i + k \in DOMAIN s /\ i + k # k
  BY <1>1
<1>3. \A i, j \in DOMAIN t : i + k = j + k => i = j
  BY <1>1, <1>2
<1>4. \A g : Has(t, g) => Has(s, g)
  BY <1>1, <1>2 DEF Has
<1>5. Distinct(s) => Distinct(t)
  BY <1>1, <1>2, <1>3 DEF Distinct
<1>6. k \in DOMAIN s /\ s[k] \in AnyFrame
  BY <1>1, ElementOfSeq
<1>7. Has(s, s[k]) /\ (Distinct(s) /\ s[k].type \in Request => ~Has(t, s[k]))
  BY <1>1, <1>2, <1>6 DEF Has, Distinct
<1> QED
  BY <1>1, <1>4, <1>5, <1>6, <1>7 DEF Behind, t

LEMMA HasTail ==
  ASSUME NEW s \in Seq(AnyFrame), s # << >>
  PROVE  Behind(s, Tail(s), Head(s))
<1>1. 1 \in 1 .. Len(s)
  BY EmptySeq
<1>2. Head(s) = s[1] /\ Tail(s) = SubSeq(s, 1 + 1, Len(s))
  BY <1>1, TailIsSubSeq
<1> QED
  BY <1>1, <1>2, HasLater

LEMMA HasMore ==
  ASSUME NEW s \in Seq(AnyFrame), NEW g \in AnyFrame, NEW t \in {Append(s, g), << g >> \o s}
  PROVE  /\ t \in Seq(AnyFrame)
         /\ \A f : Has(t, f) => Has(s, f) \/ f = g
         /\ Distinct(s) /\ (g.type \in Request => ~Has(s, g)) => Distinct(t)
<1>1. CASE t = Append(s, g)
  <2>1. /\ Len(s) \in Nat /\ DOMAIN s = 1 .. Len(s) /\ t \in Seq(AnyFrame)
        /\ DOMAIN t = 1 .. Len(s) + 1 /\ t[Len(s) + 1] = g /\ \A i \in DOMAIN s : t[i] = s[i]
    BY <1>1, AppendProperties, LenProperties
  <2>2. \A i \in DOMAIN t : i \in DOMAIN s \/ i = Len(s) + 1
    BY <2>1
  <2> QED
    BY <2>1, <2>2 DEF Has, Distinct
<1>2. CASE t = << g >> \o s
  <2>1. /\ Len(s) \in Nat /\ DOMAIN s = 1 .. Len(s) /\ t \in Seq(AnyFrame)
        /\ DOMAIN t = 1 .. Len(s) + 1
        /\ \A i \in DOMAIN t : t[i] = IF i = 1 THEN g ELSE s[i - 1]
    BY <1>2, JoinedOne, LenProperties
  <2>2. \A i \in DOMAIN t : i # 1 => i - 1 \in DOMAIN s
    BY <2>1
  <2>3. \A i, j \in DOMAIN t : i - 1 = j - 1 => i = j
    BY <2>1
  <2> QED
    BY <2>1, <2>2, <2>3 DEF Has, Distinct
<1> QED
  BY <1>1, <1>2

(* f has been sent by the broker and is still to be looked at. *)
Around(f) == Has(q, f) \/ Has(wire, f) \/ (pc = "use" /\ frame = f)

(***************************************************************************)
(* A reply is in one place, and its request under way and not to be        *)
(* answered again.                                                         *)
(***************************************************************************)
PlaceInv ==
    /\ \A f \in AnyFrame : Around(f) /\ f.type \in Request =>
         f \in pending /\ ~Has(requests[f.channel], f)
    /\ Distinct(q) /\ Distinct(wire)
    /\ \A f \in AnyFrame : f.type \in Request => ~(Has(q, f) /\ Has(wire, f))
    /\ pc = "use" /\ frame.type \in Request => ~Has(q, frame) /\ ~Has(wire, frame)

(* Where the frames are, and what the broker makes them of. *)
FramesOK == /\ wire \in Seq(AnyFrame) /\ q \in Seq(AnyFrame)
            /\ pc = "use" => frame \in AnyFrame
            /\ content \in [Channel -> [id : Nat, left : Nat, size : Nat,
                                        part : {"none", "header", "body"}]]
            /\ nmsg \in Nat

ReplyInv == FramesOK /\ RequestsOK /\ PlaceInv /\ AskedInv /\ ReplyMatches

(***************************************************************************)
(* A step that makes nothing of the frames it moves.                       *)
(***************************************************************************)
LEMMA MovesKeep ==
  ASSUME ReplyInv, UNCHANGED <<pending, nreq, broker>>, PlaceInv', AskedInv', ReplyMatches',
         q' \in Seq(AnyFrame), wire' \in Seq(AnyFrame), pc' = "use" => frame' \in AnyFrame
  PROVE  ReplyInv'
<1>1. UNCHANGED <<requests, content, nmsg>>
  BY DEF broker
<1>2. FramesOK' /\ RequestsOK'
  BY <1>1 DEF ReplyInv, FramesOK, RequestsOK, PendingInv, RequestsInv
<1> QED
  BY <1>2 DEF ReplyInv

(* The call has no frame to use after the step. *)
LEMMA HandEmpty ==
  ASSUME ReplyInv, pc' # "use", AskedInv', ReplyMatches',
         UNCHANGED <<q, wire, pending, nreq, broker>>
  PROVE  ReplyInv'
<1>1. PlaceInv'
  BY DEF ReplyInv, PlaceInv, Around, broker
<1> QED
  BY <1>1, MovesKeep DEF ReplyInv, FramesOK

LEMMA ReplyQueued ==
  ASSUME ReplyInv, WireToQueue, pc # "use", pc' = pc,
         UNCHANGED <<call, asked, done, pending, nreq, broker>>
  PROVE  ReplyInv'
<1>1. /\ q \in Seq(AnyFrame) /\ wire \in Seq(AnyFrame) /\ PlaceInv /\ wire # << >>
      /\ q' = Append(q, Head(wire)) /\ wire' = Tail(wire)
  BY DEF ReplyInv, FramesOK, WireToQueue, Queue!Arrive
<1>2. /\ wire' \in Seq(AnyFrame) /\ Head(wire) \in AnyFrame /\ Has(wire, Head(wire))
      /\ \A f : Has(wire', f) => Has(wire, f)
      /\ Distinct(wire') /\ (Head(wire).type \in Request => ~Has(wire', Head(wire)))
  BY <1>1, HasTail DEF PlaceInv, Behind
<1>3. Head(wire).type \in Request => ~Has(q, Head(wire))
  BY <1>1, <1>2 DEF PlaceInv
<1>4. /\ q' \in Seq(AnyFrame) /\ Distinct(q')
      /\ \A f : Has(q', f) => Has(q, f) \/ f = Head(wire)
  BY <1>1, <1>2, <1>3, HasMore DEF PlaceInv
<1>5. PlaceInv'
  BY <1>1, <1>2, <1>4 DEF PlaceInv, Around, broker
<1>6. AskedInv' /\ ReplyMatches'
  BY DEF ReplyInv, AskedInv, ReplyMatches
<1> QED
  BY <1>1, <1>2, <1>4, <1>5, <1>6, MovesKeep

LEMMA ReplyTaken == ASSUME ReplyInv, Take PROVE ReplyInv'
<1>1. /\ q \in Seq(AnyFrame) /\ wire \in Seq(AnyFrame) /\ PlaceInv /\ pc # "use"
      /\ UNCHANGED <<call, asked, pending, nreq, done, broker, requests>>
  BY DEF ReplyInv, FramesOK, Take, app, broker, amqp_simple_wait_frame_noblock,
         amqp_simple_wait_frame_on_channel
<1>2. AskedInv' /\ ReplyMatches'
  BY <1>1 DEF ReplyInv, AskedInv, ReplyMatches
<1>3. ASSUME wire # << >>, frame' = Head(wire), wire' = Tail(wire), pc' = "use", q' = q
      PROVE  ReplyInv'
  <2>1. /\ wire' \in Seq(AnyFrame) /\ frame' \in AnyFrame /\ Has(wire, frame')
        /\ \A f : Has(wire', f) => Has(wire, f)
        /\ Distinct(wire') /\ (frame'.type \in Request => ~Has(wire', frame'))
    BY <1>1, <1>3, HasTail DEF PlaceInv, Behind
  <2>2. PlaceInv'
    BY <1>1, <1>3, <2>1 DEF PlaceInv, Around
  <2> QED
    BY <1>1, <1>2, <1>3, <2>1, <2>2, MovesKeep
<1>4. ASSUME NEW k \in 1 .. Len(q), frame' = q[k], q' = SubSeq(q, k + 1, Len(q)),
             pc' = "use", wire' = wire
      PROVE  ReplyInv'
  <2>1. Behind(q, q', frame')
    BY <1>1, <1>4, HasLater
  <2>2. /\ q' \in Seq(AnyFrame) /\ frame' \in AnyFrame /\ Has(q, frame')
        /\ \A f : Has(q', f) => Has(q, f)
        /\ Distinct(q') /\ (frame'.type \in Request => ~Has(q', frame'))
    BY <1>1, <2>1 DEF PlaceInv, Behind
  <2>3. PlaceInv'
    BY <1>1, <1>4, <2>2 DEF PlaceInv, Around
  <2> QED
    BY <1>1, <1>2, <1>4, <2>2, <2>3, MovesKeep
<1>5. ASSUME FromQueue PROVE ReplyInv'
  <2>1. q # << >> /\ frame' = Head(q) /\ q' = Tail(q) /\ pc' = "use" /\ wire' = wire
    BY <1>5 DEF FromQueue, Queue!TakeFirst, Used
  <2>2. 1 \in 1 .. Len(q) /\ Head(q) = q[1] /\ Tail(q) = SubSeq(q, 1 + 1, Len(q))
    BY <1>1, <2>1, EmptySeq, TailIsSubSeq
  <2> QED
    BY <1>4, <2>1, <2>2
<1>6. ASSUME WireToQueue, pc' = pc PROVE ReplyInv'
  BY <1>1, <1>6, ReplyQueued
<1>7. ASSUME FromWire PROVE ReplyInv'
  BY <1>3, <1>7 DEF FromWire
<1>8. ASSUME NEW ch, Queue!TakeOnChannel(ch), Used PROVE ReplyInv'
  BY <1>4, <1>8 DEF Queue!TakeOnChannel, Used
<1> QED
  BY <1>5, <1>6, <1>7, <1>8 DEF Take, amqp_simple_wait_frame_noblock,
     amqp_simple_wait_frame_on_channel

(* A frame the call has no use for goes to the queue, at its end or in front. *)
LEMMA ReplyPutBack ==
  ASSUME ReplyInv, pc = "use", pc' # "use", q' \in {Append(q, frame), << frame >> \o q},
         UNCHANGED <<wire, pending, nreq, broker>>, AskedInv', ReplyMatches'
  PROVE  ReplyInv'
<1>1. q \in Seq(AnyFrame) /\ wire \in Seq(AnyFrame) /\ PlaceInv /\ frame \in AnyFrame
  BY DEF ReplyInv, FramesOK
<1>2. /\ q' \in Seq(AnyFrame) /\ Distinct(q')
      /\ \A f : Has(q', f) => Has(q, f) \/ f = frame
  BY <1>1, HasMore DEF PlaceInv
<1>3. PlaceInv'
  BY <1>1, <1>2 DEF PlaceInv, Around, broker
<1> QED
  BY <1>1, <1>2, <1>3, MovesKeep

(* The application learns of the frame in the call's hand. *)
LEMMA ReplyLearnt ==
  ASSUME ReplyInv, pc = "use", pc' # "use", call' = "none", Learn(frame), ReplyMatches',
         UNCHANGED <<wire, q, nreq, broker>>
  PROVE  ReplyInv'
<1>1. /\ q \in Seq(AnyFrame) /\ wire \in Seq(AnyFrame) /\ PlaceInv /\ frame \in AnyFrame
      /\ UNCHANGED <<requests, content, nmsg>>
  BY DEF ReplyInv, FramesOK, broker
<1>2. frame.type \in Request => frame \in pending /\ ~Has(requests[frame.channel], frame)
  BY <1>1 DEF PlaceInv, Around
<1>3. /\ \A p \in pending : p = frame \/ p \in pending'
      /\ RequestsOK'
  BY <1>1, <1>2, RequestEnded DEF ReplyInv, Has
<1>4. PlaceInv'
  BY <1>1, <1>2, <1>3 DEF PlaceInv, Around
<1>5. FramesOK' /\ AskedInv'
  BY <1>1 DEF ReplyInv, FramesOK, AskedInv
<1> QED
  BY <1>3, <1>4, <1>5 DEF ReplyInv

(* A reply of the kind that is asked for, on its channel, is the one asked for. *)
LEMMA ReplyIsAsked ==
  ASSUME PendingInv, asked \in pending, IsReply, frame.type \in Request => frame \in pending
  PROVE  frame = asked
BY DEF PendingInv, IsReply

LEMMA ReplyUsed == ASSUME ReplyInv, Use PROVE ReplyInv'
<1>1. pc = "use" => /\ frame \in AnyFrame
                    /\ frame.type \in Request => frame \in pending
  BY DEF ReplyInv, FramesOK, PlaceInv, Around
<1>2. ASSUME pc = "use", call \in {"rpc", "method"}, IsReply PROVE frame = asked
  BY <1>1, <1>2, ReplyIsAsked DEF ReplyInv, RequestsOK, AskedInv
<1>3. ASSUME RpcReturns PROVE ReplyInv'
  <2>1. /\ pc = "use" /\ call = "rpc" /\ pc' = "idle" /\ call' = "none" /\ Learn(frame)
        /\ done'.asked = asked /\ done'.got = frame
        /\ done'.status = IF IsReply THEN "NORMAL" ELSE "SERVER_EXCEPTION"
        /\ UNCHANGED <<wire, q, nreq, broker>>
    BY <1>3 DEF RpcReturns, Using, Finish, Return
  <2>2. ReplyMatches'
    BY <1>2, <2>1 DEF ReplyMatches
  <2> QED
    BY <2>1, <2>2, ReplyLearnt
<1>4. ASSUME RpcQueues PROVE ReplyInv'
  <2>1. /\ pc = "use" /\ pc' = "wire" /\ q' = Append(q, frame)
        /\ UNCHANGED <<wire, call, asked, pending, nreq, done, broker>>
    BY <1>4 DEF RpcQueues, Using, Queue!Arrive, app
  <2>2. AskedInv' /\ ReplyMatches'
    BY <2>1 DEF ReplyInv, AskedInv, ReplyMatches
  <2> QED
    BY <2>1, <2>2, ReplyPutBack
<1>5. ASSUME WaitMethodReturns, IsReply PROVE ReplyInv'
  <2>1. /\ pc = "use" /\ call = "method" /\ pc' = "idle" /\ call' = "none" /\ Learn(frame)
        /\ done'.asked = asked /\ done'.got = frame
        /\ UNCHANGED <<wire, q, nreq, broker>>
    BY <1>5 DEF WaitMethodReturns, Using, Finish, Return
  <2>2. ReplyMatches'
    BY <1>2, <1>5, <2>1 DEF ReplyMatches
  <2> QED
    BY <2>1, <2>2, ReplyLearnt
<1>6. ASSUME WaitFrameReturns \/ ReadClosed PROVE ReplyInv'
  <2>1. /\ pc = "use" /\ call \notin {"rpc", "method"} /\ pc' = "idle" /\ call' = "none"
        /\ Learn(frame) /\ done'.call = call
        /\ UNCHANGED <<wire, q, nreq, broker>>
    BY <1>6 DEF WaitFrameReturns, ReadClosed, Using, Finish, Return
  <2>2. ReplyMatches'
    BY <2>1 DEF ReplyMatches
  <2> QED
    BY <2>1, <2>2, ReplyLearnt
<1>7. ASSUME UnexpectedPutBack PROVE ReplyInv'
  <2>1. /\ pc = "use" /\ pc' = "idle" /\ call' = "none" /\ q' = << frame >> \o q
        /\ done'.status = "UNEXPECTED_STATE"
        /\ UNCHANGED <<wire, pending, nreq, broker>>
    BY <1>7 DEF UnexpectedPutBack, Using, Queue!PutBack, Finish, LearnNothing
  <2>2. AskedInv' /\ ReplyMatches'
    BY <2>1 DEF AskedInv, ReplyMatches
  <2> QED
    BY <2>1, <2>2, ReplyPutBack
<1>8. ASSUME (WaitMethodReturns /\ ~IsReply) \/ BodyRefused \/ MessageRead PROVE ReplyInv'
  <2>1. /\ pc' = "idle" /\ call' = "none"
        /\ done'.status # "NORMAL" \/ done'.call \notin {"rpc", "method"}
        /\ UNCHANGED <<q, wire, pending, nreq, broker>>
    BY <1>8 DEF WaitMethodReturns, BodyRefused, MessageRead, Finish, LearnNothing, Return
  <2>2. AskedInv' /\ ReplyMatches'
    BY <2>1 DEF AskedInv, ReplyMatches
  <2> QED
    BY <2>1, <2>2, HandEmpty
<1>9. ASSUME EnvelopeRead \/ HeaderRead \/ BodyRead PROVE ReplyInv'
  <2>1. /\ pc' # "use" /\ call' \notin {"rpc", "method"} /\ done' = done
        /\ UNCHANGED <<q, wire, pending, nreq, broker>>
    BY <1>9 DEF EnvelopeRead, HeaderRead, BodyRead, Using, Look, app
  <2>2. AskedInv' /\ ReplyMatches'
    BY <2>1 DEF ReplyInv, AskedInv, ReplyMatches
  <2> QED
    BY <2>1, <2>2, HandEmpty
<1> QED
  BY <1>3, <1>4, <1>5, <1>6, <1>7, <1>8, <1>9 DEF Use

(* A request goes to the broker, of which nothing has come yet. *)
LEMMA ReplySent ==
  ASSUME ReplyInv, NEW ch \in Channel, NEW type \in Request,
         amqp_send_method(ch, type) \/ amqp_simple_rpc(ch, type)
  PROVE  ReplyInv'
<1>0. PICK r : r = F(ch, type, nreq + 1, 0, 0)
  OBVIOUS
<1>1. /\ Send(ch, type) /\ pc = "idle" /\ pc' # "use"
      /\ UNCHANGED <<wire, q, frame, content, nmsg>>
      /\ \/ UNCHANGED <<call, asked, done>>
         \/ call' = "rpc" /\ asked' = r /\ done' = NULL
  BY <1>0 DEF amqp_send_method, amqp_simple_rpc, Start, Send, Look
<1>2. /\ r \in AnyFrame /\ pending' = pending \cup {r} /\ r \notin pending
      /\ RequestsOK'
      /\ \A c \in Channel : \A k \in DOMAIN requests'[c] :
           \/ k \in DOMAIN requests[c] /\ requests'[c][k] = requests[c][k]
           \/ requests'[c][k] = r
  BY <1>0, <1>1, RequestSent DEF ReplyInv
<1>3. ASSUME NEW f \in AnyFrame, Around(f)', f.type \in Request
      PROVE  f \in pending' /\ ~Has(requests[f.channel], f)'
  <2>1. f \in pending /\ ~Has(requests[f.channel], f) /\ f.channel \in Channel /\ f # r
    BY <1>1, <1>2, <1>3 DEF ReplyInv, PlaceInv, Around, RequestsOK, PendingInv
  <2> QED
    BY <1>2, <2>1 DEF Has
<1>4. PlaceInv'
  BY <1>1, <1>3 DEF ReplyInv, PlaceInv
<1>5. FramesOK' /\ AskedInv' /\ ReplyMatches'
  BY <1>1, <1>2 DEF ReplyInv, FramesOK, AskedInv, ReplyMatches
<1> QED
  BY <1>2, <1>4, <1>5 DEF ReplyInv

LEMMA ReplyCalls == ASSUME ReplyInv, Calls PROVE ReplyInv'
<1>1. ASSUME NEW c \in {"method", "frame", "envelope"}, NEW a, Start(c, a),
             c = "method" => a \in pending, UNCHANGED <<pending, nreq, broker>>
      PROVE  ReplyInv'
  <2>1. pc' # "use" /\ call' = c /\ asked' = a /\ done' = NULL /\ UNCHANGED <<q, wire>>
    BY <1>1 DEF Start, Look
  <2>2. AskedInv' /\ ReplyMatches'
    BY <1>1, <2>1 DEF AskedInv, ReplyMatches
  <2> QED
    BY <1>1, <2>1, <2>2, HandEmpty
<1>2. ASSUME amqp_simple_wait_method \/ amqp_simple_wait_frame \/ amqp_consume_message
      PROVE  ReplyInv'
  BY <1>1, <1>2 DEF amqp_simple_wait_method, amqp_simple_wait_frame, amqp_consume_message
<1>3. ASSUME amqp_try_recv PROVE ReplyInv'
  BY <1>3, ReplyQueued DEF amqp_try_recv, app
<1> QED
  BY <1>2, <1>3, ReplySent DEF Calls

(* A wait given up or held up, and what its heartbeat has read over. *)
LEMMA ReplyWaits ==
  ASSUME ReplyInv,
         RpcTimeout \/ WaitTimeout \/ FrameCut \/ HeartbeatBlocks \/ HeartbeatSent
  PROVE  ReplyInv'
<1>1. ASSUME RpcTimeout \/ WaitTimeout \/ FrameCut PROVE ReplyInv'
  <2>1. /\ pc' = "idle" /\ call' = "none" /\ done'.status # "NORMAL"
        /\ UNCHANGED <<q, wire, pending, nreq, broker>>
    BY <1>1 DEF RpcTimeout, WaitTimeout, FrameCut, Finish, LearnNothing, Return
  <2>2. AskedInv' /\ ReplyMatches'
    BY <2>1 DEF AskedInv, ReplyMatches
  <2> QED
    BY <2>1, <2>2, HandEmpty
<1>2. ASSUME HeartbeatBlocks PROVE ReplyInv'
  <2>1. pc' = "blocked" /\ UNCHANGED <<q, wire, call, asked, done, pending, nreq, broker>>
    BY <1>2 DEF HeartbeatBlocks, app
  <2>2. AskedInv' /\ ReplyMatches'
    BY <2>1 DEF ReplyInv, AskedInv, ReplyMatches
  <2> QED
    BY <2>1, <2>2, HandEmpty
<1>3. ASSUME HeartbeatSent PROVE ReplyInv'
  <2>1. PICK k \in 0 .. Len(wire) : wire' = SubSeq(wire, k + 1, Len(wire))
    BY <1>3 DEF HeartbeatSent
  <2>2. /\ pc = "blocked" /\ pc' = "wire" /\ q \in Seq(AnyFrame) /\ wire \in Seq(AnyFrame)
        /\ UNCHANGED <<q, call, asked, done, pending, nreq, broker>>
    BY <1>3 DEF HeartbeatSent, app, ReplyInv, FramesOK
  <2>3. /\ wire' \in Seq(AnyFrame)
        /\ \A f : Has(wire', f) => Has(wire, f)
        /\ Distinct(wire) => Distinct(wire')
    <3>1. CASE k \in 1 .. Len(wire)
      <4>1. Behind(wire, wire', wire[k])
        BY <2>1, <2>2, <3>1, HasLater
      <4> QED
        BY <4>1 DEF Behind
    <3>2. CASE k = 0
      <4>1. wire' = SubSeq(wire, 1, Len(wire))
        BY <2>1, <3>2
      <4>2. wire' = wire
        BY <2>2, <4>1, SubSeqFull
      <4> QED
        BY <2>2, <4>2
    <3> QED
      BY <2>1, <2>2, <3>1, <3>2, LenProperties
  <2>4. PlaceInv'
    BY <2>2, <2>3 DEF ReplyInv, PlaceInv, Around, broker
  <2>5. AskedInv' /\ ReplyMatches'
    BY <2>2 DEF ReplyInv, AskedInv, ReplyMatches
  <2> QED
    BY <2>2, <2>3, <2>4, <2>5, MovesKeep
<1> QED
  BY <1>1, <1>2, <1>3

(* A frame sent by the broker, a reply if it answers a request with it. *)
LEMMA ReplyPut ==
  ASSUME ReplyInv, NEW f \in AnyFrame, Put(f), RequestsOK',
         content' \in [Channel -> [id : Nat, left : Nat, size : Nat,
                                   part : {"none", "header", "body"}]],
         nmsg' \in Nat,
         \A c \in Channel : \A g : Has(requests'[c], g) => Has(requests[c], g),
         f.type \in Request => /\ f \in pending /\ Has(requests[f.channel], f)
                               /\ ~Has(requests'[f.channel], f)
  PROVE  ReplyInv'
<1>1. /\ q \in Seq(AnyFrame) /\ wire \in Seq(AnyFrame) /\ PlaceInv
      /\ wire' = Append(wire, f)
      /\ UNCHANGED <<q, frame, call, pc, asked, done, pending, nreq>>
  BY DEF ReplyInv, FramesOK, Put, app
<1>2. f.type \in Request => ~Around(f)
  BY <1>1 DEF PlaceInv
<1>3. /\ wire' \in Seq(AnyFrame) /\ Distinct(wire')
      /\ \A g : Has(wire', g) => Has(wire, g) \/ g = f
  BY <1>1, <1>2, HasMore DEF PlaceInv, Around
<1>4. ASSUME NEW g \in AnyFrame, Around(g)', g.type \in Request
      PROVE  g \in pending' /\ ~Has(requests[g.channel], g)'
  <2>1. CASE g = f
    BY <1>1, <1>4, <2>1 DEF Has
  <2>2. CASE g # f
    <3>1. Around(g)
      BY <1>1, <1>3, <1>4, <2>2 DEF Around
    <3>2. g \in pending /\ ~Has(requests[g.channel], g) /\ g.channel \in Channel
      BY <1>1, <1>4, <3>1 DEF ReplyInv, PlaceInv, RequestsOK, PendingInv
    <3> QED
      BY <1>1, <3>2 DEF Has
  <2> QED
    BY <2>1, <2>2
<1>5. PlaceInv'
  BY <1>1, <1>2, <1>3, <1>4 DEF PlaceInv, Around
<1>6. FramesOK' /\ AskedInv' /\ ReplyMatches'
  BY <1>1, <1>3 DEF ReplyInv, FramesOK, AskedInv, ReplyMatches
<1> QED
  BY <1>5, <1>6 DEF ReplyInv

LEMMA ReplyAnswered == ASSUME ReplyInv, NEW ch \in Channel, Answer(ch) PROVE ReplyInv'
<1>0. PICK r : r = Head(requests[ch])
  OBVIOUS
<1>1. /\ requests[ch] # << >> /\ Put(r)
      /\ requests' = [requests EXCEPT ![ch] = Tail(requests[ch])]
      /\ UNCHANGED <<content, nmsg, pending, nreq>>
  BY <1>0 DEF Answer, Put, app
<1>2. /\ r \in pending /\ r.channel = ch /\ 1 \in DOMAIN requests[ch] /\ r = requests[ch][1]
      /\ RequestsOK'
      /\ \A c \in Channel : \A k \in DOMAIN requests'[c] :
           \E l \in DOMAIN requests[c] : requests'[c][k] = requests[c][l]
      /\ \A k \in DOMAIN requests'[ch] : requests'[ch][k] # r
  BY <1>0, <1>1, RequestAnswered DEF ReplyInv
<1>3. r \in AnyFrame
  BY <1>2 DEF ReplyInv, RequestsOK, PendingInv
<1>4. Has(requests[ch], r) /\ ~Has(requests'[ch], r)
      /\ \A c \in Channel : \A g : Has(requests'[c], g) => Has(requests[c], g)
  BY <1>2 DEF Has
<1> QED
  BY <1>1, <1>2, <1>3, <1>4, ReplyPut DEF ReplyInv, FramesOK

(* What the broker sends unasked. *)
LEMMA ReplyUnasked ==
  ASSUME ReplyInv, NEW f \in AnyFrame, Put(f), f.type \notin Request,
         content' \in [Channel -> [id : Nat, left : Nat, size : Nat,
                                   part : {"none", "header", "body"}]],
         nmsg' \in Nat, UNCHANGED requests
  PROVE  ReplyInv'
<1>1. UNCHANGED <<pending, nreq>>
  BY DEF Put, app
<1>2. RequestsOK'
  BY <1>1 DEF ReplyInv, RequestsOK, PendingInv, RequestsInv
<1> QED
  BY <1>2, ReplyPut

LEMMA ReplyContent ==
  ASSUME ReplyInv, NEW ch \in AnyChannel,
         (ch \in Channel /\ (Deliver(ch) \/ SendContent(ch))) \/ Close(ch)
  PROVE  ReplyInv'
<1> DEFINE ContentType == [id : Nat, left : Nat, size : Nat, part : {"none", "header", "body"}]
<1>1. content \in [Channel -> ContentType] /\ nmsg \in Nat
  BY DEF ReplyInv, FramesOK
<1>2. ASSUME ch \in Channel, Deliver(ch) PROVE ReplyInv'
  <2>1. PICK size \in 0 .. MaxBody :
          /\ nmsg' = nmsg + 1 /\ Put(F(ch, "deliver", nmsg', 0, 0))
          /\ content' = [content EXCEPT ![ch] = [id |-> nmsg', left |-> size,
                                                 size |-> size, part |-> "header"]]
          /\ requests' = requests
    BY <1>2 DEF Deliver
  <2>2. size \in Nat /\ nmsg' \in Nat
    BY <1>1, <2>1, ClientAssumption
  <2>3. content' \in [Channel -> ContentType]
    BY <1>1, <2>1, <2>2
  <2>4. /\ F(ch, "deliver", nmsg', 0, 0) \in AnyFrame
        /\ F(ch, "deliver", nmsg', 0, 0).type \notin Request
    BY <2>2, ClientAssumption DEF F, AnyFrame, AnyChannel, Content
  <2> QED
    BY <2>1, <2>2, <2>3, <2>4, ReplyUnasked
<1>3. ASSUME ch \in Channel, SendContent(ch) PROVE ReplyInv'
  <2> DEFINE c == content[ch]
  <2>1. c \in ContentType /\ requests' = requests /\ nmsg' \in Nat
    BY <1>1, <1>3 DEF SendContent
  <2>2. PICK type \in {"header", "body"}, len \in Nat, left \in Nat :
          /\ Put(F(ch, type, c.id, len, left))
          /\ content' = [content EXCEPT ![ch] = Rest(c, left)]
    <3>1. CASE c.part = "header"
      BY <1>3, <2>1, <3>1 DEF SendContent
    <3>2. CASE c.part # "header"
      <4>1. PICK n \in 1 .. c.left :
              /\ Put(F(ch, "body", c.id, n, c.left - n))
              /\ content' = [content EXCEPT ![ch] = Rest(c, c.left - n)]
        BY <1>3, <3>2 DEF SendContent
      <4>2. n \in Nat /\ c.left - n \in Nat
        BY <2>1
      <4> QED
        BY <4>1, <4>2
    <3> QED
      BY <3>1, <3>2
  <2>3. Rest(c, left) \in ContentType
    BY <2>1 DEF Rest, NoContent
  <2>4. content' \in [Channel -> ContentType]
    BY <1>1, <2>2, <2>3
  <2>5. /\ F(ch, type, c.id, len, left) \in AnyFrame
        /\ F(ch, type, c.id, len, left).type \notin Request
    BY <2>1, ClientAssumption DEF F, AnyFrame, AnyChannel, Content
  <2> QED
    BY <2>1, <2>2, <2>4, <2>5, ReplyUnasked
<1>4. ASSUME Close(ch) PROVE ReplyInv'
  <2>1. Put(F(ch, "close", 0, 0, 0)) /\ UNCHANGED <<requests, content, nmsg>>
    BY <1>4 DEF Close
  <2>2. F(ch, "close", 0, 0, 0) \in AnyFrame /\ F(ch, "close", 0, 0, 0).type \notin Request
    BY ClientAssumption DEF F, AnyFrame
  <2> QED
    BY <1>1, <2>1, <2>2, ReplyUnasked
<1> QED
  BY <1>2, <1>3, <1>4

LEMMA AlwaysReplyInv == Spec => []ReplyInv
<1>1. Init => ReplyInv
  <2> SUFFICES ASSUME Init PROVE ReplyInv
    OBVIOUS
  <2>1. /\ wire = << >> /\ q = << >> /\ call = "none" /\ pc = "idle" /\ done = NULL
        /\ pending = {} /\ nreq = 0 /\ nmsg = 0
        /\ requests = [ch \in Channel |-> << >>] /\ content = [ch \in Channel |-> NoContent]
    BY DEF Init
  <2>2. RequestsOK
    BY <2>1 DEF RequestsOK, PendingInv, RequestsInv
  <2>3. FramesOK
    BY <2>1 DEF FramesOK, NoContent
  <2>4. PlaceInv
    BY <2>1 DEF PlaceInv, Around, Has, Distinct
  <2>5. AskedInv /\ ReplyMatches
    BY <2>1 DEF AskedInv, ReplyMatches
  <2> QED
    BY <2>2, <2>3, <2>4, <2>5 DEF ReplyInv
<1>2. ReplyInv /\ [Next]_vars => ReplyInv'
  <2> SUFFICES ASSUME ReplyInv, [Next]_vars PROVE ReplyInv'
    OBVIOUS
  <2>1. CASE UNCHANGED vars
    <3>1. UNCHANGED <<q, wire, frame, call, pc, asked, done, pending, nreq, broker>>
      BY <2>1 DEF vars, app
    <3>2. PlaceInv' /\ AskedInv' /\ ReplyMatches'
      BY <3>1 DEF ReplyInv, PlaceInv, Around, AskedInv, ReplyMatches, broker
    <3> QED
      BY <3>1, <3>2, MovesKeep DEF ReplyInv, FramesOK
  <2>2. CASE Broker
    BY <2>2, ReplyAnswered, ReplyContent DEF Broker, AnyChannel
  <2>3. ASSUME NEW ch \in Channel, Deliver(ch) PROVE ReplyInv'
    BY <2>3, ReplyContent DEF AnyChannel
  <2>4. ASSUME NEW ch \in Channel \cup {Zero}, Close(ch) PROVE ReplyInv'
    BY <2>4, ReplyContent DEF AnyChannel
  <2> QED
    BY <2>1, <2>2, <2>3, <2>4, ReplyCalls, ReplyTaken, ReplyUsed, ReplyWaits DEF Next
<1> QED
  BY <1>1, <1>2, PTL DEF Spec

(***************************************************************************)
(* amqp_simple_rpc and amqp_simple_wait_method return the reply to the     *)
(* very request they are about, whatever other requests are under way and  *)
(* whatever frames their waits have missed.                                *)
(***************************************************************************)
THEOREM RepliesAlwaysMatch == Spec => []ReplyMatches
<1>1. ReplyInv => ReplyMatches
  BY DEF ReplyInv
<1> QED
  BY <1>1, AlwaysReplyInv, PTL
=============================================================================
