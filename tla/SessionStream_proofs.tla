-------------------------- MODULE SessionStream_proofs --------------------------
(***************************************************************************)
(* Proofs about a terminal session, for any number of clients, publishers, *)
(* attachments and frames and any size of ring and channels: what a        *)
(* publisher does after it has left the session lock neither repeats nor   *)
(* loses a frame of an attachment, and the ring, its keyframe pointer and  *)
(* the transcript stay in step.                                            *)
(***************************************************************************)
EXTENDS SessionStream, FiniteSetTheorems, TLAPS

\* The numbers a channel has seen: sent or refused.
Numbers(ch) == FramesOf(ch) \cup ch.missed

\* A channel that is well formed by itself.
GoodChannel(ch) ==
  /\ ch \in Channel
  /\ ch.open => ch.used /\ ch.sent # <<>>
  /\ \A i, j \in DOMAIN ch.sent : ch.sent[i] = ch.sent[j] => i = j
  /\ IsFiniteSet(ch.missed) /\ ch.lag <= Cardinality(ch.missed)

\* What a channel may become: the same with more numbers, all from N, or one
\* whose receiver is gone.
Grown(ch, d, N) ==
  /\ d.used = ch.used /\ d.client = ch.client /\ d.open = ch.open
  /\ FramesOf(ch) \subseteq FramesOf(d) /\ ch.missed \subseteq d.missed
  /\ Numbers(d) \subseteq Numbers(ch) \cup N
  /\ ch.sent # <<>> => d.sent[1] = ch.sent[1]

Lost(ch, d) ==
  d.used = ch.used /\ d.client = ch.client /\ d.open = FALSE /\ Numbers(d) = {}

\* The fields of a channel.
LEMMA ChannelFields ==
  ASSUME NEW ch \in Channel
  PROVE  /\ ch.used \in BOOLEAN /\ ch.open \in BOOLEAN /\ ch.sent \in Seq(SeqNo)
         /\ ch.unread \in 0..Capacity /\ ch.lag \in Nat /\ ch.missed \subseteq SeqNo
         /\ ch.client \in Client \cup {None}
         /\ FramesOf(ch) \subseteq SeqNo /\ Numbers(ch) \subseteq SeqNo
BY DEF Channel, FramesOf, Numbers

\* A channel with some of its fields replaced.
LEMMA SentUpdate ==
  ASSUME NEW ch \in Channel, NEW f \in Seq(SeqNo), NEW u \in 0..Capacity, NEW l \in Nat
  PROVE  [ch EXCEPT !.sent = f, !.unread = u, !.lag = l] \in Channel
BY DEF Channel

\* The same of the lag and what was refused.
LEMMA MissedUpdate ==
  ASSUME NEW ch \in Channel, NEW l \in Nat, NEW m \in SUBSET SeqNo
  PROVE  [ch EXCEPT !.lag = l, !.missed = m] \in Channel
BY DEF Channel

\* try_send: a number that is new to the channel is sent, or refused and
\* counted; nothing is lost and nothing repeated.
LEMMA TrySendEffect ==
  ASSUME NEW ch, GoodChannel(ch), NEW s \in SeqNo, s \notin Numbers(ch)
  PROVE  /\ GoodChannel(TrySend(ch, s)) /\ Grown(ch, TrySend(ch, s), {s})
         /\ s \in Numbers(TrySend(ch, s))
         /\ TrySend(ch, s).lag > 0 => ch.unread = Capacity
<1>0. /\ ch \in Channel /\ ch.sent \in Seq(SeqNo) /\ ch.unread \in 0..Capacity /\ ch.lag \in Nat
      /\ ch.missed \subseteq SeqNo /\ IsFiniteSet(ch.missed) /\ ch.lag <= Cardinality(ch.missed)
      /\ ch.open \in BOOLEAN /\ ch.used \in BOOLEAN /\ ch.client \in Client \cup {None}
      /\ Capacity \in Nat
  BY ChannelFields, SessionAssumption DEF GoodChannel
<1> DEFINE d == TrySend(ch, s)
<1>1. CASE ch.unread < Capacity
  <2>1. d = [ch EXCEPT !.sent = Append(ch.sent, s), !.unread = ch.unread + 1, !.lag = 0]
    BY <1>0, <1>1 DEF TrySend, Channel
  <2>2. Append(ch.sent, s) \in Seq(SeqNo) /\ ch.unread + 1 \in 0..Capacity
    BY <1>0, <1>1
  <2>3. /\ d \in Channel /\ d.used = ch.used /\ d.client = ch.client /\ d.open = ch.open
        /\ d.sent = Append(ch.sent, s) /\ d.lag = 0 /\ d.missed = ch.missed
    <3> DEFINE a == Append(ch.sent, s)
               u == ch.unread + 1
    <3>2. d = [ch EXCEPT !.sent = a, !.unread = u, !.lag = 0] /\ a \in Seq(SeqNo) /\ u \in 0..Capacity
      BY <2>1, <2>2
    <3> HIDE DEF a, u, d
    <3>1. d \in Channel
      BY <1>0, <3>2, SentUpdate
    <3>3. d.used = ch.used /\ d.client = ch.client /\ d.open = ch.open /\ d.sent = a /\ d.lag = 0
          /\ d.missed = ch.missed
      BY <1>0, <3>2 DEF Channel
    <3> QED BY <3>1, <3>3 DEF a
  <2> HIDE DEF d
  <2>4. /\ DOMAIN d.sent = 1..(Len(ch.sent) + 1) /\ DOMAIN ch.sent = 1..Len(ch.sent) /\ Len(ch.sent) \in Nat
        /\ \A i \in 1..Len(ch.sent) : d.sent[i] = ch.sent[i]
        /\ d.sent[Len(ch.sent) + 1] = s /\ d.sent # <<>>
        /\ ch.sent # <<>> => d.sent[1] = ch.sent[1]
    BY <1>0, <2>3
  <2>5. FramesOf(d) = FramesOf(ch) \cup {s}
    BY <2>4 DEF FramesOf
  <2>6. \A i, j \in DOMAIN d.sent : d.sent[i] = d.sent[j] => i = j
    <3>1. \A i \in 1..Len(ch.sent) : ch.sent[i] # s
      BY <2>4 DEF Numbers, FramesOf
    <3> QED BY <2>4, <3>1 DEF GoodChannel
  <2>7. Cardinality(ch.missed) \in Nat
    BY <1>0, FS_CardinalityType
  <2>8. GoodChannel(d)
    BY <1>0, <2>3, <2>4, <2>6, <2>7 DEF GoodChannel
  <2>9. Grown(ch, d, {s}) /\ s \in Numbers(d)
    BY <2>3, <2>4, <2>5 DEF Grown, Numbers
  <2> QED BY <2>3, <2>8, <2>9 DEF d
<1>2. CASE ~(ch.unread < Capacity)
  <2>1. d = [ch EXCEPT !.lag = ch.lag + 1, !.missed = ch.missed \cup {s}]
    BY <1>0, <1>2 DEF TrySend, Channel
  <2>2. /\ d \in Channel /\ d.used = ch.used /\ d.client = ch.client /\ d.open = ch.open
        /\ d.sent = ch.sent /\ d.lag = ch.lag + 1 /\ d.missed = ch.missed \cup {s}
    <3> DEFINE m == ch.missed \cup {s}
    <3>1. d = [ch EXCEPT !.lag = ch.lag + 1, !.missed = m] /\ m \in SUBSET SeqNo /\ ch.lag + 1 \in Nat
      BY <1>0, <2>1
    <3> HIDE DEF m, d
    <3>2. d \in Channel
      BY <1>0, <3>1, MissedUpdate
    <3>3. d.used = ch.used /\ d.client = ch.client /\ d.open = ch.open /\ d.sent = ch.sent
          /\ d.lag = ch.lag + 1 /\ d.missed = m
      BY <1>0, <3>1 DEF Channel
    <3> QED BY <3>2, <3>3 DEF m
  <2> HIDE DEF d
  <2>3. s \notin ch.missed
    BY DEF Numbers
  <2>4. IsFiniteSet(ch.missed \cup {s}) /\ Cardinality(ch.missed \cup {s}) = Cardinality(ch.missed) + 1
    BY <1>0, <2>3, FS_AddElement
  <2>5. Cardinality(ch.missed) \in Nat
    BY <1>0, FS_CardinalityType
  <2>6. d.lag <= Cardinality(d.missed)
    BY <1>0, <2>2, <2>4, <2>5
  <2>7. GoodChannel(d)
    BY <2>2, <2>4, <2>6 DEF GoodChannel
  <2>8. Grown(ch, d, {s}) /\ s \in Numbers(d)
    BY <2>2 DEF Grown, Numbers, FramesOf
  <2>9. ch.unread = Capacity
    BY <1>0, <1>2
  <2> QED BY <2>7, <2>8, <2>9 DEF d
<1> QED BY <1>1, <1>2

\* A channel that is left alone.
LEMMA GrownSame == ASSUME NEW ch, NEW N PROVE Grown(ch, ch, N)
BY DEF Grown

\* Session::broadcast: every channel is as it was or has the new frame, and
\* one that had room has no lag.
LEMMA SentEffect ==
  ASSUME NEW a, NEW cs \in [Chan -> Channel], \A k \in Chan : GoodChannel(cs[k]),
         NEW s \in SeqNo, \A k \in Chan : s \notin Numbers(cs[k])
  PROVE  /\ Sent(a, cs, s) \in [Chan -> Channel]
         /\ \A k \in Chan : /\ GoodChannel(Sent(a, cs, s)[k])
                            /\ Grown(cs[k], Sent(a, cs, s)[k], {s})
                            /\ Sent(a, cs, s)[k].lag > 0 => cs[k].lag > 0 \/ cs[k].unread = Capacity
<1> DEFINE d == Sent(a, cs, s)
<1>1. \A k \in Chan : \/ d[k] = cs[k]
                      \/ d[k] = TrySend(cs[k], s) /\ cs[k].open
  BY DEF Sent
<1>2. \A k \in Chan : /\ GoodChannel(d[k]) /\ Grown(cs[k], d[k], {s})
                      /\ d[k].lag > 0 => cs[k].lag > 0 \/ cs[k].unread = Capacity
  <2> SUFFICES ASSUME NEW k \in Chan
               PROVE  /\ GoodChannel(d[k]) /\ Grown(cs[k], d[k], {s})
                      /\ d[k].lag > 0 => cs[k].lag > 0 \/ cs[k].unread = Capacity
    OBVIOUS
  <2> HIDE DEF d
  <2>1. CASE d[k] = cs[k]
    BY <2>1, GrownSame
  <2>2. CASE d[k] = TrySend(cs[k], s) /\ cs[k].open
    BY <2>2, TrySendEffect
  <2> QED BY <1>1, <2>1, <2>2
<1>3. d \in [Chan -> Channel]
  <2>1. d = [k \in Chan |-> d[k]]
    BY DEF Sent
  <2> HIDE DEF d
  <2> QED BY <1>2, <2>1 DEF GoodChannel
<1> QED BY <1>2, <1>3

\* The channels of a sound session: no number beyond the last one given.
LEMMA StateChannels ==
  ASSUME SessionInv
  PROVE  /\ seq \in Nat /\ chan \in [Chan -> Channel]
         /\ \A k \in Chan : GoodChannel(chan[k])
         /\ \A k \in Chan : \A n \in Numbers(chan[k]) : n \in SeqNo /\ n <= seq
         /\ \A k \in Chan : \A n \in Nat : n > seq => n \notin Numbers(chan[k])
<1>1. seq \in Nat /\ chan \in [Chan -> Channel]
  BY DEF SessionInv, SessionTypeOK, SeqNo
<1>2. \A k \in Chan : GoodChannel(chan[k])
  BY <1>1 DEF SessionInv, ChannelsSound, NoDuplicateFrame, GoodChannel
<1>3. \A k \in Chan : \A n \in Numbers(chan[k]) : n \in SeqNo /\ n <= seq
  BY <1>1, ChannelFields DEF SessionInv, ChannelsSound, Numbers, FramesOn
<1> QED BY <1>1, <1>2, <1>3 DEF SeqNo

\* The invariant of the channels after a step, from what it did to each.
LEMMA ChannelsAfter ==
  ASSUME seq' \in Nat, chan' \in [Chan -> Channel],
         \A k \in Chan : GoodChannel(chan'[k]) /\ \A n \in Numbers(chan'[k]) : n <= seq',
         \A k \in Chan : chan'[k].used => \A j \in Chan : j < k => chan'[j].used,
         \A c \in Client : att'[c] # None =>
           /\ chan'[att'[c].chan].used /\ chan'[att'[c].chan].client = c
           /\ \A k \in Chan : chan'[k].used /\ chan'[k].client = c => k <= att'[c].chan
  PROVE  ChannelsSound' /\ NoDuplicateFrame'
BY DEF ChannelsSound, NoDuplicateFrame, GoodChannel, Numbers, FramesOn, FramesOf

Evolves(k, N) == Grown(chan[k], chan'[k], N) \/ Lost(chan[k], chan'[k])

\* Channels that only evolve, under attachments that only end.
LEMMA EvolvedChannels ==
  ASSUME SessionInv, seq' \in Nat, seq <= seq', chan' \in [Chan -> Channel], NEW N,
         \A n \in N : n <= seq',
         \A k \in Chan : GoodChannel(chan'[k]) /\ Evolves(k, N),
         \A c \in Client : att'[c] # None => att'[c] = att[c]
  PROVE  ChannelsSound' /\ NoDuplicateFrame'
<1>1. /\ seq \in Nat
      /\ \A k \in Chan : \A n \in Numbers(chan[k]) : n \in SeqNo /\ n <= seq
  BY StateChannels
<1>2. \A k \in Chan : chan'[k].used = chan[k].used /\ chan'[k].client = chan[k].client
                      /\ Numbers(chan'[k]) \subseteq Numbers(chan[k]) \cup N
  BY DEF Evolves, Grown, Lost
<1>3. \A k \in Chan : \A n \in Numbers(chan'[k]) : n <= seq'
  BY <1>1, <1>2 DEF SeqNo
<1>4. att \in [Client -> Attachment \cup {None}]
  BY DEF SessionInv, SessionTypeOK
<1>5. \A k \in Chan : chan'[k].used => \A j \in Chan : j < k => chan'[j].used
  BY <1>2 DEF SessionInv, ChannelsSound
<1>6. \A c \in Client : att'[c] # None =>
           /\ chan'[att'[c].chan].used /\ chan'[att'[c].chan].client = c
           /\ \A k \in Chan : chan'[k].used /\ chan'[k].client = c => k <= att'[c].chan
  BY <1>2, <1>4 DEF SessionInv, ChannelsSound, Attachment
<1> QED BY <1>3, <1>5, <1>6, ChannelsAfter

\* A channel that was too slow stays so.
LEMMA StaysSlow ==
  ASSUME NEW k \in Chan, NEW N, GoodChannel(chan'[k]), Evolves(k, N), TooSlow(k)
  PROVE  TooSlow(k)'
<1>1. CASE Lost(chan[k], chan'[k])
  BY <1>1 DEF Lost, TooSlow
<1>2. CASE Grown(chan[k], chan'[k], N)
  <2>1. chan'[k].open = chan[k].open /\ chan[k].missed \in SUBSET chan'[k].missed
        /\ IsFiniteSet(chan'[k].missed)
    BY <1>2 DEF Grown, GoodChannel
  <2>2. Cardinality(chan[k].missed) <= Cardinality(chan'[k].missed) /\ IsFiniteSet(chan[k].missed)
    BY <2>1, FS_Subset
  <2>3. Cardinality(chan[k].missed) \in Nat /\ Cardinality(chan'[k].missed) \in Nat /\ LagLimit \in Nat
    BY <2>1, <2>2, FS_CardinalityType, SessionAssumption
  <2>4. Cardinality(chan[k].missed) >= LagLimit => Cardinality(chan'[k].missed) >= LagLimit
    BY <2>2, <2>3
  <2> QED BY <2>1, <2>4 DEF TooSlow
<1> QED BY <1>1, <1>2 DEF Evolves

\* What a publisher is doing.
Publisher == [pc : {"idle", "fan", "spill"}, seq : SeqNo \cup {None},
              to : SUBSET (Client \X Chan), evict : SUBSET Client, spill : SUBSET SeqNo]

\* Publishers that are left alone, while channels evolve by numbers that were
\* not given before.
LEMMA PublishersKept ==
  ASSUME SessionInv, seq' \in Nat, seq <= seq', pub' = pub, NEW N,
         \A n \in N : n \in Nat /\ n > seq,
         \A k \in Chan : chan[k].used => GoodChannel(chan'[k]) /\ Evolves(k, N)
  PROVE  PublishersSound'
<1>0. seq \in Nat /\ pub \in [Producer -> Publisher]
  BY StateChannels DEF SessionInv, SessionTypeOK, Publisher
<1>1. \A k \in Chan : chan[k].used =>
         /\ chan'[k].used = chan[k].used /\ chan'[k].client = chan[k].client
         /\ Numbers(chan'[k]) \subseteq Numbers(chan[k]) \cup N
         /\ TooSlow(k) => TooSlow(k)'
  BY StaysSlow DEF Evolves, Grown, Lost
<1> SUFFICES ASSUME NEW p \in Producer
             PROVE  /\ pub[p].pc = "fan" => pub[p].seq # None /\ pub[p].seq <= seq'
                    /\ pub[p].pc # "fan" => pub[p].to = {} /\ pub[p].evict = {}
                    /\ pub[p].pc = "idle" => pub[p].spill = {}
                    /\ \A q \in Producer :
                         pub[p].pc = "fan" /\ pub[q].pc = "fan" /\ pub[p].seq = pub[q].seq => p = q
                    /\ \A c \in Client, k \in Chan : <<c, k>> \in pub[p].to =>
                         /\ chan'[k].used /\ chan'[k].client = c
                         /\ pub[p].seq \notin Numbers(chan'[k])
                    /\ \A c \in pub[p].evict :
                         \E k \in Chan : chan'[k].used /\ chan'[k].client = c /\ TooSlow(k)'
  BY DEF PublishersSound, Numbers, FramesOn, FramesOf
<1>2. /\ pub[p].pc = "fan" => pub[p].seq # None /\ pub[p].seq <= seq
      /\ pub[p].pc # "fan" => pub[p].to = {} /\ pub[p].evict = {}
      /\ pub[p].pc = "idle" => pub[p].spill = {}
      /\ \A q \in Producer :
           pub[p].pc = "fan" /\ pub[q].pc = "fan" /\ pub[p].seq = pub[q].seq => p = q
      /\ \A c \in Client, k \in Chan : <<c, k>> \in pub[p].to =>
           /\ chan[k].used /\ chan[k].client = c
           /\ pub[p].seq \notin Numbers(chan[k])
      /\ \A c \in pub[p].evict :
           \E k \in Chan : chan[k].used /\ chan[k].client = c /\ TooSlow(k)
  BY DEF SessionInv, PublishersSound, Numbers, FramesOn
<1>3. pub[p].pc = "fan" => pub[p].seq \in Nat /\ pub[p].seq <= seq'
  BY <1>0, <1>2 DEF Publisher, SeqNo
<1>4. \A c \in Client, k \in Chan : <<c, k>> \in pub[p].to =>
           /\ chan'[k].used /\ chan'[k].client = c
           /\ pub[p].seq \notin Numbers(chan'[k])
  <2> SUFFICES ASSUME NEW c \in Client, NEW k \in Chan, <<c, k>> \in pub[p].to
               PROVE  /\ chan'[k].used /\ chan'[k].client = c
                      /\ pub[p].seq \notin Numbers(chan'[k])
    OBVIOUS
  <2>1. pub[p].pc = "fan"
    BY <1>2
  <2>2. pub[p].seq \in Nat /\ pub[p].seq <= seq
    BY <1>2, <1>3, <2>1
  <2>3. pub[p].seq \notin N
    BY <1>0, <2>2
  <2> QED BY <1>1, <1>2, <2>3
<1>5. \A c \in pub[p].evict :
           \E k \in Chan : chan'[k].used /\ chan'[k].client = c /\ TooSlow(k)'
  <2> SUFFICES ASSUME NEW c \in pub[p].evict
               PROVE  \E k \in Chan : chan'[k].used /\ chan'[k].client = c /\ TooSlow(k)'
    OBVIOUS
  <2>1. PICK k \in Chan : chan[k].used /\ chan[k].client = c /\ TooSlow(k)
    BY <1>2
  <2> QED BY <1>1, <2>1
<1> QED BY <1>2, <1>3, <1>4, <1>5

\* Nothing is skipped on an attachment that goes on.
LEMMA GapKept ==
  ASSUME SessionInv, NoSilentGap, NEW c \in Client, att[c] # None, att'[c] = att[c],
         NEW N, Evolves(att[c].chan, N), chan'[att[c].chan].open,
         \A p \in Producer : <<c, att[c].chan>> \in pub[p].to =>
            \/ pub'[p].seq = pub[p].seq /\ <<c, att[c].chan>> \in pub'[p].to
            \/ pub[p].seq \in Numbers(chan'[att[c].chan]),
         \A f \in logged' : \/ f \in logged
                            \/ \E p \in Producer : pub'[p].seq = f.seq /\ <<c, att[c].chan>> \in pub'[p].to
  PROVE  \A f \in logged' :
           f.seq >= chan'[att'[c].chan].sent[1]
             => \/ f.seq \in Numbers(chan'[att'[c].chan])
                \/ \E p \in Producer : pub'[p].seq = f.seq /\ <<c, att'[c].chan>> \in pub'[p].to
<1> DEFINE k == att[c].chan
<1>1. k \in Chan /\ att'[c].chan = k
  BY DEF SessionInv, SessionTypeOK, Attachment
<1>2. Grown(chan[k], chan'[k], N) /\ chan[k].open
  BY DEF Evolves, Lost, Grown
<1>3. chan[k].sent # <<>>
  BY <1>1, <1>2 DEF SessionInv, ChannelsSound
<1>4. chan'[k].sent[1] = chan[k].sent[1] /\ Numbers(chan[k]) \subseteq Numbers(chan'[k])
  BY <1>2, <1>3 DEF Grown, Numbers
<1>5. \A f \in logged : f.seq >= chan[k].sent[1] =>
         \/ f.seq \in Numbers(chan[k])
         \/ \E p \in Producer : pub[p].seq = f.seq /\ <<c, k>> \in pub[p].to
  BY <1>2 DEF NoSilentGap, Numbers, FramesOn
<1> HIDE DEF k
<1>6. \A p \in Producer : <<c, k>> \in pub[p].to =>
            \/ pub'[p].seq = pub[p].seq /\ <<c, k>> \in pub'[p].to
            \/ pub[p].seq \in Numbers(chan'[k])
  BY DEF k
<1>7. \A f \in logged' : \/ f \in logged
                         \/ \E p \in Producer : pub'[p].seq = f.seq /\ <<c, k>> \in pub'[p].to
  BY DEF k
<1> QED BY <1>1, <1>4, <1>5, <1>6, <1>7

\* NoSilentGap after a step, by attachment.
LEMMA GapAfter ==
  ASSUME \A c \in Client : att'[c] # None /\ chan'[att'[c].chan].open =>
           \A f \in logged' :
             f.seq >= chan'[att'[c].chan].sent[1]
               => \/ f.seq \in Numbers(chan'[att'[c].chan])
                  \/ \E p \in Producer : pub'[p].seq = f.seq /\ <<c, att'[c].chan>> \in pub'[p].to
  PROVE  NoSilentGap'
BY DEF NoSilentGap, Numbers, FramesOn, FramesOf

-----------------------------------------------------------------------------
(* Steps that publish nothing.                                             *)

\* The ring is left alone, or it goes with the session.
RingLeft == (ring' = ring /\ (Freed => Freed')) \/ (ring' = <<>> /\ Freed')

\* The same while numbers go on.
LEMMA RingKept ==
  ASSUME SessionInv, seq' \in Nat, seq <= seq', RingLeft, logged' = logged
  PROVE  RingOrdered'
<1>1. seq \in Nat /\ \A f \in logged : f.seq \in Nat
  BY DEF SessionInv, SessionTypeOK, SeqNo, Frame
<1>2. \A f \in logged' : f.seq <= seq'
  BY <1>1 DEF SessionInv, RingOrdered
<1>3. CASE ring' = ring /\ (Freed => Freed')
  BY <1>2, <1>3 DEF SessionInv, RingOrdered
<1>4. CASE ring' = <<>> /\ Freed'
  <2>1. DOMAIN ring' = {}
    BY <1>4
  <2> QED BY <1>2, <1>4, <2>1 DEF RingOrdered
<1> QED BY <1>3, <1>4 DEF RingLeft

\* The session is as free as it was.
LEMMA SameFreed ==
  ASSUME UNCHANGED <<ring, pub, gone, late>>
  PROVE  RingLeft
BY DEF RingLeft, Freed

\* What a step that may drop the last reference leaves.
LEMMA LeavesEffect ==
  ASSUME SessionInv, ~Freed, NEW a \in [Client -> Attachment \cup {None}], Leaves(ring, lastKey, a)
  PROVE  /\ RingLeft /\ lastKey' \in SeqNo \cup {None} /\ ring' \in Seq(Frame) /\ Len(ring') <= MaxFrames
         /\ att' \in [Client -> Attachment \cup {None}]
         /\ \A c \in Client : att'[c] # None => att'[c] = a[c]
<1>1. ring \in Seq(Frame) /\ Len(ring) <= MaxFrames /\ MaxFrames \in Nat /\ lastKey \in SeqNo \cup {None}
  BY SessionAssumption DEF SessionInv, SessionTypeOK
<1>2. CASE Freed'
  <2>1. ring' = <<>> /\ lastKey' = None /\ att' = [c \in Client |-> None]
    BY <1>2 DEF Leaves
  <2>2. ring' \in Seq(Frame) /\ Len(ring') <= MaxFrames
    BY <1>1, <2>1
  <2> QED BY <1>2, <2>1, <2>2 DEF RingLeft
<1>3. CASE ~Freed'
  BY <1>1, <1>3 DEF Leaves, RingLeft
<1> QED BY <1>2, <1>3

\* Steps on channels and attachments only: channels evolve by new numbers and
\* attachments end.
LEMMA ChannelStep ==
  ASSUME SessionInv, NoSilentGap, seq' \in Nat, seq <= seq',
         RingLeft, ring' \in Seq(Frame), Len(ring') <= MaxFrames, lastKey' \in SeqNo \cup {None},
         UNCHANGED <<pub, logged, archived>>,
         gone' \in BOOLEAN, late' \subseteq Producer, ended' \subseteq Client,
         chan' \in [Chan -> Channel], att' \in [Client -> Attachment \cup {None}],
         NEW N, \A n \in N : n \in Nat /\ n > seq /\ n <= seq',
         \A k \in Chan : GoodChannel(chan'[k]) /\ Evolves(k, N),
         \A c \in Client : att'[c] # None => att'[c] = att[c]
  PROVE  SessionInv' /\ NoSilentGap'
<1>1. SessionTypeOK'
  BY DEF SessionInv, SessionTypeOK, SeqNo
<1>2. RingOrdered'
  BY RingKept
<1>3. ChannelsSound' /\ NoDuplicateFrame'
  BY EvolvedChannels
<1>4. PublishersSound'
  BY PublishersKept
<1>5. NoSilentGap'
  <2> SUFFICES ASSUME NEW c \in Client, att'[c] # None, chan'[att'[c].chan].open
               PROVE  \A f \in logged' :
                        f.seq >= chan'[att'[c].chan].sent[1]
                          => \/ f.seq \in Numbers(chan'[att'[c].chan])
                             \/ \E p \in Producer : pub'[p].seq = f.seq /\ <<c, att'[c].chan>> \in pub'[p].to
    BY GapAfter
  <2>1. att'[c] = att[c] /\ att[c] # None /\ att[c].chan \in Chan
    BY DEF SessionInv, SessionTypeOK, Attachment
  <2>2. Evolves(att[c].chan, N) /\ chan'[att[c].chan].open
    BY <2>1
  <2>3. \A p \in Producer : pub'[p] = pub[p]
    OBVIOUS
  <2>4. logged' = logged
    OBVIOUS
  <2> QED BY <2>1, <2>2, <2>3, <2>4, GapKept
<1> QED BY <1>1, <1>2, <1>3, <1>4, <1>5 DEF SessionInv

\* The same of steps that leave the session alone.
LEMMA QuietStep ==
  ASSUME SessionInv, NoSilentGap, seq' \in Nat, seq <= seq',
         UNCHANGED <<ring, lastKey, pub, gone, late, logged, archived>>, ended' \subseteq Client,
         chan' \in [Chan -> Channel], att' \in [Client -> Attachment \cup {None}],
         NEW N, \A n \in N : n \in Nat /\ n > seq /\ n <= seq',
         \A k \in Chan : GoodChannel(chan'[k]) /\ Evolves(k, N),
         \A c \in Client : att'[c] # None => att'[c] = att[c]
  PROVE  SessionInv' /\ NoSilentGap'
<1>1. RingLeft /\ UNCHANGED <<pub, logged, archived>>
  BY SameFreed
<1>2. /\ ring' \in Seq(Frame) /\ Len(ring') <= MaxFrames /\ lastKey' \in SeqNo \cup {None}
      /\ gone' \in BOOLEAN /\ late' \subseteq Producer
  BY DEF SessionInv, SessionTypeOK
<1> QED BY <1>1, <1>2, ChannelStep

\* A step on one channel.
LEMMA OneChannel ==
  ASSUME SessionInv, NEW k \in Chan, NEW d, GoodChannel(d), chan' = [chan EXCEPT ![k] = d], NEW N,
         Grown(chan[k], d, N) \/ Lost(chan[k], d)
  PROVE  /\ chan' \in [Chan -> Channel]
         /\ \A j \in Chan : GoodChannel(chan'[j]) /\ Evolves(j, N)
<1>1. chan \in [Chan -> Channel] /\ d \in Channel /\ \A j \in Chan : GoodChannel(chan[j])
  BY StateChannels DEF GoodChannel
<1>2. chan' \in [Chan -> Channel] /\ chan'[k] = d /\ \A j \in Chan : j # k => chan'[j] = chan[j]
  BY <1>1
<1> QED BY <1>1, <1>2, GrownSame DEF Evolves

\* The relay takes what its channel holds.
LEMMA DrainInv ==
  ASSUME SessionInv, NoSilentGap, NEW k \in Chan, Drain(k)
  PROVE  SessionInv' /\ NoSilentGap'
<1>0. chan[k] \in Channel /\ GoodChannel(chan[k]) /\ seq \in Nat /\ chan \in [Chan -> Channel]
  BY StateChannels
<1> DEFINE d == [chan[k] EXCEPT !.unread = 0]
<1>1. /\ d \in Channel /\ d.used = chan[k].used /\ d.client = chan[k].client /\ d.open = chan[k].open
      /\ d.sent = chan[k].sent /\ d.lag = chan[k].lag /\ d.missed = chan[k].missed
  <2>1. 0 \in 0..Capacity
    BY SessionAssumption
  <2> QED BY <1>0, <2>1 DEF Channel
<1>2. chan' = [chan EXCEPT ![k] = d]
  BY <1>0 DEF Drain
<1> HIDE DEF d
<1>3. GoodChannel(d) /\ Grown(chan[k], d, {})
  BY <1>0, <1>1 DEF GoodChannel, Grown, Numbers, FramesOf
<1>4. /\ chan' \in [Chan -> Channel]
      /\ \A j \in Chan : GoodChannel(chan'[j]) /\ Evolves(j, {})
  BY <1>2, <1>3, OneChannel
<1>5. /\ UNCHANGED <<seq, ring, lastKey, att, pub, gone, late, ended, logged, archived>>
      /\ att \in [Client -> Attachment \cup {None}] /\ gone \in BOOLEAN /\ late \subseteq Producer
      /\ ended \subseteq Client
  BY DEF Drain, SessionInv, SessionTypeOK
<1> QED BY <1>0, <1>4, <1>5, QuietStep

\* A channel that was never used.
LEMMA NewChannel ==
  /\ NewChan \in Channel /\ NewChan.sent = <<>> /\ NewChan.lag = 0 /\ NewChan.missed = {}
  /\ NewChan.open = FALSE /\ NewChan.used = FALSE
<1>1. 0 \in 0..Capacity /\ <<>> \in Seq(SeqNo)
  BY SessionAssumption
<1> QED BY <1>1 DEF NewChan, Channel

\* A receiver is dropped.
LEMMA DroppedEffect ==
  ASSUME NEW k \in Chan, chan[k] \in Channel, chan[k].used
  PROVE  GoodChannel(Dropped(k)) /\ Lost(chan[k], Dropped(k))
<1>1. chan[k].client \in Client \cup {None} /\ chan[k].used = TRUE
  BY ChannelFields
<1> DEFINE d == Dropped(k)
           x == chan[k].client
<1>2. d = [NewChan EXCEPT !.used = TRUE, !.client = x] /\ x \in Client \cup {None}
  BY <1>1 DEF Dropped
<1> HIDE DEF d, x
<1>3. /\ d \in Channel /\ d.used = TRUE /\ d.client = x /\ d.open = FALSE
      /\ d.sent = <<>> /\ d.lag = 0 /\ d.missed = {}
  BY <1>2, NewChannel DEF Channel
<1>4. GoodChannel(d)
  BY <1>3, FS_EmptySet DEF GoodChannel
<1>5. Numbers(d) = {}
  BY <1>3 DEF Numbers, FramesOf
<1>6. Lost(chan[k], d)
  BY <1>1, <1>3, <1>5 DEF Lost, x
<1> QED BY <1>4, <1>6 DEF d

\* A connection ends.
LEMMA DisconnectInv ==
  ASSUME SessionInv, NoSilentGap, NEW c \in Client, Disconnect(c)
  PROVE  SessionInv' /\ NoSilentGap'
<1>0. seq \in Nat /\ chan \in [Chan -> Channel]
  BY StateChannels
<1>1. /\ UNCHANGED <<seq, ring, lastKey, att, pub, gone, late, logged, archived>>
      /\ att \in [Client -> Attachment \cup {None}] /\ gone \in BOOLEAN /\ late \subseteq Producer
      /\ ended' \subseteq Client /\ att[c] # None
  BY DEF Disconnect, SessionInv, SessionTypeOK
<1> DEFINE k == att[c].chan
<1>2. k \in Chan /\ chan[k].used /\ chan' = [chan EXCEPT ![k] = Dropped(k)]
  BY <1>1 DEF Disconnect, SessionInv, ChannelsSound, Attachment
<1> HIDE DEF k
<1>3. GoodChannel(Dropped(k)) /\ Lost(chan[k], Dropped(k))
  BY <1>0, <1>2, DroppedEffect
<1>4. /\ chan' \in [Chan -> Channel]
      /\ \A j \in Chan : GoodChannel(chan'[j]) /\ Evolves(j, {})
  BY <1>2, <1>3, OneChannel
<1> QED BY <1>0, <1>1, <1>4, QuietStep

\* The relay of an attachment that is no more ends.
LEMMA RelayEndsInv ==
  ASSUME SessionInv, NoSilentGap, NEW k \in Chan, RelayEnds(k)
  PROVE  SessionInv' /\ NoSilentGap'
<1>0. seq \in Nat /\ chan \in [Chan -> Channel]
  BY StateChannels
<1>1. /\ UNCHANGED <<seq, ring, lastKey, att, pub, gone, late, ended, logged, archived>>
      /\ att \in [Client -> Attachment \cup {None}] /\ ended \subseteq Client
      /\ chan[k].used /\ chan' = [chan EXCEPT ![k] = Dropped(k)]
  BY DEF RelayEnds, SessionInv, SessionTypeOK, ChannelsSound
<1>2. GoodChannel(Dropped(k)) /\ Lost(chan[k], Dropped(k))
  BY <1>0, <1>1, DroppedEffect
<1>3. /\ chan' \in [Chan -> Channel]
      /\ \A j \in Chan : GoodChannel(chan'[j]) /\ Evolves(j, {})
  BY <1>1, <1>2, OneChannel
<1> QED BY <1>0, <1>1, <1>3, QuietStep

\* Attachments a broadcast leaves.
LEMMA RemainingEffect ==
  ASSUME NEW a \in [Client -> Attachment \cup {None}], NEW cs
  PROVE  /\ Remaining(a, cs) \in [Client -> Attachment \cup {None}]
         /\ \A c \in Client : Remaining(a, cs)[c] # None => Remaining(a, cs)[c] = a[c]
BY DEF Remaining

\* A broadcast of the next number.
LEMMA BroadcastEffect ==
  ASSUME SessionInv, NEW a, chan' = Sent(a, chan, seq + 1)
  PROVE  /\ chan' \in [Chan -> Channel]
         /\ \A j \in Chan : GoodChannel(chan'[j]) /\ Evolves(j, {seq + 1})
<1>0. /\ seq \in Nat /\ chan \in [Chan -> Channel] /\ \A k \in Chan : GoodChannel(chan[k])
      /\ \A k \in Chan : \A n \in Nat : n > seq => n \notin Numbers(chan[k])
  BY StateChannels
<1>1. seq + 1 \in SeqNo /\ \A j \in Chan : seq + 1 \notin Numbers(chan[j])
  BY <1>0 DEF SeqNo
<1>2. /\ chan' \in [Chan -> Channel]
      /\ \A j \in Chan : GoodChannel(chan'[j]) /\ Grown(chan[j], chan'[j], {seq + 1})
  BY <1>0, <1>1, SentEffect
<1> QED BY <1>2 DEF Evolves

\* SessionRegistry::detach.
LEMMA DetachInv ==
  ASSUME SessionInv, NoSilentGap, NEW c \in Client, Detach(c)
  PROVE  SessionInv' /\ NoSilentGap'
<1>0. /\ UNCHANGED <<ring, lastKey, pub, gone, late, ended, logged, archived>> /\ seq' = seq + 1
      /\ att \in [Client -> Attachment \cup {None}] /\ ended \subseteq Client /\ seq \in Nat
  BY StateChannels DEF Detach, SessionInv, SessionTypeOK
<1> DEFINE a == [att EXCEPT ![c] = None]
           N == {seq + 1}
<1>1. chan' = Sent(a, chan, seq + 1) /\ att' = Remaining(a, chan')
  BY DEF Detach
<1>2. a \in [Client -> Attachment \cup {None}] /\ \A b \in Client : a[b] # None => a[b] = att[b]
  BY <1>0
<1> HIDE DEF a
<1>3. /\ chan' \in [Chan -> Channel]
      /\ \A j \in Chan : GoodChannel(chan'[j]) /\ Evolves(j, N)
  BY <1>1, BroadcastEffect
<1>4. att' \in [Client -> Attachment \cup {None}] /\ \A b \in Client : att'[b] # None => att'[b] = att[b]
  BY <1>1, <1>2, RemainingEffect
<1>5. \A n \in N : n \in Nat /\ n > seq /\ n <= seq'
  BY <1>0
<1> HIDE DEF N
<1> QED BY <1>0, <1>3, <1>4, <1>5, QuietStep

\* SessionRegistry::close.
LEMMA CloseInv ==
  ASSUME SessionInv, NoSilentGap, Close
  PROVE  SessionInv' /\ NoSilentGap'
<1>0. /\ UNCHANGED <<pub, ended, logged, archived>> /\ seq' = seq + 1 /\ ~Freed
      /\ gone' = TRUE /\ late' \subseteq Producer /\ chan' = Sent(att, chan, seq + 1)
      /\ Leaves(ring, lastKey, Remaining(att, chan'))
      /\ att \in [Client -> Attachment \cup {None}] /\ ended \subseteq Client /\ seq \in Nat
  BY StateChannels DEF Close, SessionInv, SessionTypeOK, Freed
<1> DEFINE N == {seq + 1}
           a == Remaining(att, chan')
<1>1. /\ chan' \in [Chan -> Channel]
      /\ \A j \in Chan : GoodChannel(chan'[j]) /\ Evolves(j, N)
  BY <1>0, BroadcastEffect
<1>2. a \in [Client -> Attachment \cup {None}] /\ \A b \in Client : a[b] # None => a[b] = att[b]
  BY <1>0, RemainingEffect
<1>3. \A n \in N : n \in Nat /\ n > seq /\ n <= seq'
  BY <1>0
<1>4. Leaves(ring, lastKey, a)
  BY <1>0
<1> HIDE DEF N, a
<1>5. /\ RingLeft /\ lastKey' \in SeqNo \cup {None} /\ ring' \in Seq(Frame) /\ Len(ring') <= MaxFrames
      /\ att' \in [Client -> Attachment \cup {None}]
      /\ \A c \in Client : att'[c] # None => att'[c] = a[c]
  BY <1>0, <1>2, <1>4, LeavesEffect
<1>6. \A c \in Client : att'[c] # None => att'[c] = att[c]
  BY <1>2, <1>5
<1>7. seq' \in Nat /\ seq <= seq' /\ gone' \in BOOLEAN
  BY <1>0
<1>8. UNCHANGED <<pub, logged, archived>> /\ ended' \subseteq Client
  BY <1>0
<1> QED BY <1>0, <1>1, <1>3, <1>5, <1>6, <1>7, <1>8, ChannelStep

-----------------------------------------------------------------------------
(* Attaching.                                                              *)

\* The first entry that frames_from keeps.
LEMMA FirstLaterEffect ==
  ASSUME NEW r \in Seq(Frame), NEW n, Later(r, n) # {}
  PROVE  FirstLater(r, n) \in Later(r, n) /\ \A j \in Later(r, n) : FirstLater(r, n) <= j
<1> DEFINE T == Later(r, n)
<1>1. T \in SUBSET Nat /\ T # {}
  BY DEF Later
<1> HIDE DEF T
<1>2. \E i \in T : \A j \in T : ~(<<j, i>> \in OpToRel(<, Nat))
  BY <1>1, NatLessThanWellFounded, WFMin
<1>3. \A i, j \in Nat : j < i => <<j, i>> \in OpToRel(<, Nat)
  BY DEF OpToRel
<1>4. \E i \in T : \A j \in T : i <= j
  <2>1. PICK i \in T : \A j \in T : ~(<<j, i>> \in OpToRel(<, Nat))
    BY <1>2
  <2>2. \A j \in T : ~(j < i)
    BY <1>1, <1>3, <2>1
  <2> QED BY <1>1, <2>2
<1> QED BY <1>4 DEF T, FirstLater

\* frames_from: no number twice, none beyond the last one given, and every
\* frame published since the first one it returns.
LEMMA FramesFromEffect ==
  ASSUME SessionInv, ~Freed, NEW n
  PROVE  LET F == FramesFrom(ring, n)
         IN /\ F \in Seq(SeqNo) /\ Len(F) <= MaxFrames
            /\ \A i, j \in DOMAIN F : F[i] = F[j] => i = j
            /\ \A i \in DOMAIN F : F[i] <= seq
            /\ F # <<>> => \A f \in logged : f.seq >= F[1] => \E i \in DOMAIN F : F[i] = f.seq
<1> DEFINE F == FramesFrom(ring, n)
           m == FirstLater(ring, n)
           len == Len(ring)
<1>0. /\ ring \in Seq(Frame) /\ len \in Nat /\ len <= MaxFrames /\ MaxFrames \in Nat /\ seq \in Nat
      /\ DOMAIN ring = 1..len
      /\ \A i \in 1..len : ring[i] \in Frame /\ ring[i].seq \in SeqNo
  <2>1. ring \in Seq(Frame) /\ Len(ring) <= MaxFrames /\ MaxFrames \in Nat /\ seq \in Nat
    BY SessionAssumption DEF SessionInv, SessionTypeOK, SeqNo
  <2>2. \A e \in Frame : e.seq \in SeqNo
    BY DEF Frame
  <2> QED BY <2>1, <2>2
<1>1. /\ \A i, j \in 1..len : i < j => ring[i].seq < ring[j].seq
      /\ \A i \in 1..len : ring[i] \in logged
      /\ \A f \in logged : /\ f.seq \in SeqNo /\ f.seq <= seq
                           /\ ring[1].seq <= f.seq => \E i \in 1..len : ring[i] = f
  BY <1>0 DEF SessionInv, SessionTypeOK, RingOrdered, Frame
<1>2. CASE Later(ring, n) = {}
  <2>1. F = <<>>
    BY <1>2 DEF FramesFrom
  <2> QED BY <1>0, <2>1
<1>3. CASE Later(ring, n) # {}
  <2>1. m \in 1..len
    BY <1>0, <1>3, FirstLaterEffect DEF Later
  <2>2. F = [i \in 1..(len - m + 1) |-> ring[m + i - 1].seq]
    BY <1>3 DEF FramesFrom
  <2> HIDE DEF F, m, len
  <2>3. len - m + 1 \in Nat /\ len - m + 1 <= len /\ \A i \in 1..(len - m + 1) : m + i - 1 \in 1..len
    BY <1>0, <2>1
  <2>4. \A i \in 1..(len - m + 1) : F[i] = ring[m + i - 1].seq /\ F[i] \in SeqNo
    BY <1>0, <2>2, <2>3
  <2>5. F \in Seq(SeqNo) /\ Len(F) = len - m + 1 /\ DOMAIN F = 1..(len - m + 1)
    <3>1. F \in [1..(len - m + 1) -> SeqNo]
      BY <2>2, <2>4
    <3> QED BY <2>3, <3>1
  <2>6. ASSUME NEW i \in DOMAIN F, NEW j \in DOMAIN F, F[i] = F[j] PROVE i = j
    <3>1. ring[m + i - 1].seq = ring[m + j - 1].seq /\ m + i - 1 \in 1..len /\ m + j - 1 \in 1..len
      BY <2>3, <2>4, <2>5, <2>6
    <3>2. ~(m + i - 1 < m + j - 1) /\ ~(m + j - 1 < m + i - 1)
      BY <1>0, <1>1, <3>1 DEF SeqNo
    <3> QED BY <2>1, <2>3, <2>5, <3>2
  <2>7. \A i \in DOMAIN F : F[i] <= seq
    BY <1>1, <2>3, <2>4, <2>5
  <2>8. ASSUME NEW f \in logged, f.seq >= F[1] PROVE \E i \in DOMAIN F : F[i] = f.seq
    <3>1. F[1] = ring[m].seq
      BY <2>1, <2>3, <2>4, <1>0
    <3>2. ring[1].seq <= ring[m].seq
      BY <1>0, <1>1, <2>1 DEF SeqNo
    <3>3. ring[1].seq <= f.seq /\ f.seq \in Nat
      BY <1>0, <1>1, <2>1, <2>8, <3>1, <3>2 DEF SeqNo
    <3>4. PICK j \in 1..len : ring[j] = f
      BY <1>1, <3>3
    <3>5. ~(j < m)
      BY <1>0, <1>1, <2>1, <2>8, <3>1, <3>4 DEF SeqNo
    <3>6. j - m + 1 \in 1..(len - m + 1) /\ m + (j - m + 1) - 1 = j
      BY <1>0, <2>1, <3>5
    <3> QED BY <2>4, <2>5, <3>4, <3>6
  <2>9. Len(F) <= MaxFrames
    BY <1>0, <2>3, <2>5
  <2> QED BY <2>5, <2>6, <2>7, <2>8, <2>9 DEF F
<1> QED BY <1>2, <1>3

\* The first frames of an attachment: the replay and its role frame.
LEMMA ReplayEffect ==
  ASSUME SessionInv, ~Freed, NEW x
  PROVE  LET G == FramesFrom(ring, x) \o <<seq + 1>>
         IN /\ G \in Seq(SeqNo) /\ Len(G) <= MaxFrames + 1 /\ G # <<>>
            /\ \A i, j \in DOMAIN G : G[i] = G[j] => i = j
            /\ \A i \in DOMAIN G : G[i] <= seq + 1
            /\ \A f \in logged : f.seq >= G[1] => \E i \in DOMAIN G : G[i] = f.seq
<1> DEFINE F == FramesFrom(ring, x)
           n == seq + 1
           G == F \o <<n>>
<1>0. seq \in Nat /\ MaxFrames \in Nat /\ n \in SeqNo /\ n > seq
  BY StateChannels, SessionAssumption DEF SeqNo
<1>1. /\ F \in Seq(SeqNo) /\ Len(F) <= MaxFrames
      /\ \A i, j \in DOMAIN F : F[i] = F[j] => i = j
      /\ \A i \in DOMAIN F : F[i] <= seq
      /\ F # <<>> => \A f \in logged : f.seq >= F[1] => \E i \in DOMAIN F : F[i] = f.seq
  BY FramesFromEffect
<1>2. \A f \in logged : f.seq \in Nat /\ f.seq <= seq
  BY DEF SessionInv, SessionTypeOK, RingOrdered, Frame, SeqNo
<1> SUFFICES /\ G \in Seq(SeqNo) /\ Len(G) <= MaxFrames + 1 /\ G # <<>>
             /\ \A i, j \in DOMAIN G : G[i] = G[j] => i = j
             /\ \A i \in DOMAIN G : G[i] <= n
             /\ \A f \in logged : f.seq >= G[1] => \E i \in DOMAIN G : G[i] = f.seq
  OBVIOUS
<1> HIDE DEF F, n
<1>3. /\ G \in Seq(SeqNo) /\ Len(G) = Len(F) + 1 /\ DOMAIN G = 1..(Len(F) + 1)
      /\ DOMAIN F = 1..Len(F) /\ Len(F) \in Nat
      /\ \A i \in 1..Len(F) : G[i] = F[i]
      /\ G[Len(F) + 1] = n
  BY <1>0, <1>1
<1> HIDE DEF G
<1>4. \A i \in 1..Len(F) : F[i] \in Nat
  BY <1>1, <1>3 DEF SeqNo
<1>5. \A i, j \in DOMAIN G : G[i] = G[j] => i = j
  BY <1>0, <1>1, <1>3, <1>4
<1>6. \A i \in DOMAIN G : G[i] <= n
  <2> SUFFICES ASSUME NEW i \in DOMAIN G PROVE G[i] <= n
    OBVIOUS
  <2>1. n \in Nat /\ n > seq /\ seq \in Nat
    BY <1>0 DEF SeqNo
  <2>2. CASE i \in 1..Len(F)
    <3>1. G[i] = F[i] /\ F[i] \in Nat /\ F[i] <= seq
      BY <1>1, <1>3, <1>4, <2>2
    <3> QED BY <2>1, <3>1
  <2>3. CASE i = Len(F) + 1
    <3>1. G[i] = n
      BY <1>3, <2>3
    <3> QED BY <2>1, <3>1
  <2>4. i \in 1..Len(F) \/ i = Len(F) + 1
    BY <1>3
  <2> QED BY <2>2, <2>3, <2>4
<1>7. ASSUME NEW f \in logged, f.seq >= G[1] PROVE \E i \in DOMAIN G : G[i] = f.seq
  <2>1. CASE F = <<>>
    <3>1. G[1] = n
      BY <1>3, <2>1
    <3> QED BY <1>0, <1>2, <1>7, <3>1 DEF SeqNo
  <2>2. CASE F # <<>>
    <3>1. G[1] = F[1]
      BY <1>1, <1>3, <2>2
    <3> QED BY <1>1, <1>3, <1>7, <2>2, <3>1
  <2> QED BY <2>1, <2>2
<1>8. Len(G) <= MaxFrames + 1 /\ G # <<>>
  BY <1>0, <1>1, <1>3
<1> QED BY <1>3, <1>5, <1>6, <1>7, <1>8

\* The channel of a new attachment.
Opened(c, G) == [NewChan EXCEPT !.used = TRUE, !.open = TRUE, !.client = c, !.sent = G,
                                !.unread = Len(G)]

\* It is well formed, and has room left.
LEMMA OpenedEffect ==
  ASSUME NEW c \in Client, NEW G \in Seq(SeqNo), Len(G) <= MaxFrames + 1, G # <<>>,
         \A i, j \in DOMAIN G : G[i] = G[j] => i = j
  PROVE  LET e == Opened(c, G)
         IN /\ GoodChannel(e) /\ e.used = TRUE /\ e.open = TRUE /\ e.client = c
            /\ e.sent = G /\ e.lag = 0 /\ e.unread # Capacity
            /\ FramesOf(e) = {G[i] : i \in DOMAIN G} /\ Numbers(e) = FramesOf(e)
<1> DEFINE u == Len(G)
           e == [NewChan EXCEPT !.used = TRUE, !.open = TRUE, !.client = c, !.sent = G, !.unread = u]
<1>1. u \in 0..Capacity /\ u # Capacity
  BY SessionAssumption
<1> HIDE DEF u
<1>2. /\ e.used = TRUE /\ e.open = TRUE /\ e.client = c /\ e.sent = G /\ e.unread = u
      /\ e.lag = 0 /\ e.missed = {} /\ e \in Channel
  BY <1>1, NewChannel DEF Channel
<1>3. e = Opened(c, G)
  BY DEF Opened, u
<1> HIDE DEF e
<1>4. GoodChannel(e)
  BY <1>2, FS_EmptySet DEF GoodChannel
<1> QED BY <1>1, <1>2, <1>3, <1>4 DEF FramesOf, Numbers

\* SessionRegistry::attach: the channel of the client is new, later than every
\* other and holds all that was published since its first frame; the others get
\* the membership frame, and an attachment ends that is closed or lags.
LEMMA AttachEffect ==
  ASSUME SessionInv, NEW c \in Client, NEW k \in Chan, NEW r \in Role, NEW asked,
         Attach(c, k, r, asked)
  PROVE  /\ seq' = seq + 2 /\ UNCHANGED <<ring, lastKey, pub, gone, late, ended, logged, archived>>
         /\ chan' \in [Chan -> Channel] /\ att' \in [Client -> Attachment \cup {None}]
         /\ \A j \in Chan : GoodChannel(chan'[j]) /\ (j # k => Grown(chan[j], chan'[j], {seq + 2}))
         /\ \A j \in Chan : chan[j].used => j < k
         /\ \A j \in Chan : j < k => chan[j].used
         /\ chan'[k].used /\ chan'[k].client = c
         /\ \A i \in Numbers(chan'[k]) : i <= seq + 2
         /\ \A f \in logged : f.seq >= chan'[k].sent[1] => f.seq \in Numbers(chan'[k])
         /\ att'[c] # None /\ att'[c].chan = k
         /\ \A b \in Client : b # c /\ att'[b] # None => att'[b] = att[b]
         /\ \A b \in Client : b # c /\ att'[b] = None /\ att[b] # None =>
               ~chan'[att[b].chan].open \/ chan'[att[b].chan].lag >= LagLimit
         /\ \A b \in Client \ {c} : att'[b] # None /\ att'[b].role = "controller" =>
               att'[c].role = "observer"
<1> DEFINE F == FramesFrom(ring, ReplayFrom(asked)) \o <<seq + 1>>
           g == Granted(Reaped, r)
           a == [Reaped EXCEPT ![c] = [role |-> g, chan |-> k]]
           e == Opened(c, F)
           m == [chan EXCEPT ![k] = e]
           n == seq + 2
<1>0. /\ seq \in Nat /\ chan \in [Chan -> Channel] /\ \A j \in Chan : GoodChannel(chan[j])
      /\ \A j \in Chan : \A i \in Nat : i > seq => i \notin Numbers(chan[j])
  BY StateChannels
<1>1. /\ seq' = seq + 2 /\ UNCHANGED <<ring, lastKey, pub, gone, late, ended, logged, archived>>
      /\ chan' = Sent(a, m, n) /\ att' = Remaining(a, chan')
      /\ chan[k].used = FALSE /\ (k > 1 => chan[k - 1].used)
  BY <1>0, ChannelFields DEF Attach, Opened
<1>2. /\ F \in Seq(SeqNo) /\ Len(F) <= MaxFrames + 1 /\ F # <<>>
      /\ \A i, j \in DOMAIN F : F[i] = F[j] => i = j
      /\ \A i \in DOMAIN F : F[i] <= seq + 1
      /\ \A f \in logged : f.seq >= F[1] => \E i \in DOMAIN F : F[i] = f.seq
  BY ReplayEffect DEF Attach, Freed
<1>3. n \in SeqNo /\ n > seq /\ n > seq + 1
  BY <1>0 DEF SeqNo
<1>4. /\ att \in [Client -> Attachment \cup {None}]
      /\ \A b \in Client : att[b] # None =>
           att[b] \in Attachment /\ att[b].chan \in Chan /\ chan[att[b].chan].used /\ att[b].chan # k
  BY <1>1 DEF SessionInv, SessionTypeOK, ChannelsSound, Attachment
<1>5. /\ Reaped \in [Client -> Attachment \cup {None}]
      /\ \A b \in Client : Reaped[b] # None => Reaped[b] = att[b]
      /\ \A b \in Client : att[b] # None /\ Reaped[b] = None => ~chan[att[b].chan].open
  BY <1>4 DEF Reaped
<1>6. g \in Role /\ (g = "controller" => \A b \in Client : Reaped[b] = None \/ Reaped[b].role # "controller")
  BY DEF Granted, Role
<1>7. (\A j \in Chan : chan[j].used => j < k) /\ (\A j \in Chan : j < k => chan[j].used)
  <2>1. k \in Nat /\ Chan \subseteq Nat /\ (k > 1 => k - 1 \in Chan)
    BY SessionAssumption DEF Chan
  <2>2. \A i, j \in Chan : chan[i].used /\ j < i => chan[j].used
    BY DEF SessionInv, ChannelsSound
  <2>3. \A j \in Chan : chan[j].used => j < k
    BY <1>1, <2>1, <2>2
  <2>4. ASSUME NEW j \in Chan, j < k PROVE chan[j].used
    <3>1. k > 1 /\ (j = k - 1 \/ j < k - 1)
      BY <2>1, <2>4 DEF Chan
    <3> QED BY <1>1, <2>1, <2>2, <3>1
  <2> QED BY <2>3, <2>4
<1> HIDE DEF g
<1>8. /\ a \in [Client -> Attachment \cup {None}] /\ a[c] # None /\ a[c].chan = k /\ a[c].role = g
      /\ \A b \in Client : b # c => a[b] = Reaped[b]
  <2> DEFINE x == [role |-> g, chan |-> k]
  <2>1. x \in Attachment /\ x.chan = k /\ x.role = g /\ x # None
    BY <1>6, NoSessionAssumption DEF Attachment
  <2> HIDE DEF x
  <2>2. a = [Reaped EXCEPT ![c] = x]
    BY DEF x
  <2> QED BY <1>5, <2>1, <2>2
<1>9. /\ GoodChannel(e) /\ e.used = TRUE /\ e.open = TRUE /\ e.client = c
      /\ e.sent = F /\ e.lag = 0 /\ e.unread # Capacity
      /\ FramesOf(e) = {F[i] : i \in DOMAIN F} /\ Numbers(e) = FramesOf(e)
  BY <1>2, OpenedEffect
<1> HIDE DEF e, F, a, n
<1>10. /\ \A i \in Numbers(e) : i \in Nat /\ i <= seq + 1
       /\ \A f \in logged : f.seq >= F[1] => f.seq \in Numbers(e)
  <2>1. \A i \in DOMAIN F : F[i] \in Nat
    BY <1>2 DEF SeqNo
  <2>2. Numbers(e) = {F[i] : i \in DOMAIN F}
    BY <1>9
  <2> QED BY <1>2, <2>1, <2>2
<1>11. /\ m \in [Chan -> Channel] /\ m[k] = e /\ \A j \in Chan : j # k => m[j] = chan[j]
       /\ \A j \in Chan : GoodChannel(m[j])
  BY <1>0, <1>9 DEF GoodChannel
<1> HIDE DEF m
<1>12. \A j \in Chan : n \notin Numbers(m[j])
  <2>1. n \notin Numbers(e)
    BY <1>0, <1>3, <1>10 DEF SeqNo
  <2>2. \A j \in Chan : n \notin Numbers(chan[j])
    BY <1>0, <1>3 DEF SeqNo
  <2> QED BY <1>11, <2>1, <2>2
<1>13. /\ chan' \in [Chan -> Channel]
       /\ \A j \in Chan : /\ GoodChannel(chan'[j]) /\ Grown(m[j], chan'[j], {n})
                          /\ chan'[j].lag > 0 => m[j].lag > 0 \/ m[j].unread = Capacity
  BY <1>1, <1>3, <1>11, <1>12, SentEffect
<1>14. /\ Grown(e, chan'[k], {n}) /\ chan'[k].used /\ chan'[k].client = c /\ chan'[k].open
       /\ ~(chan'[k].lag > 0)
  BY <1>9, <1>11, <1>13 DEF Grown
<1>15. \A j \in Chan : j # k => Grown(chan[j], chan'[j], {n})
  BY <1>11, <1>13
<1>16. \A i \in Numbers(chan'[k]) : i <= n
  BY <1>0, <1>3, <1>10, <1>14 DEF Grown, SeqNo
<1>17. \A f \in logged : f.seq >= chan'[k].sent[1] => f.seq \in Numbers(chan'[k])
  <2>1. chan'[k].sent[1] = F[1] /\ Numbers(e) \subseteq Numbers(chan'[k])
    BY <1>2, <1>9, <1>14 DEF Grown, Numbers
  <2> QED BY <1>10, <2>1
<1>18. /\ att' \in [Client -> Attachment \cup {None}]
       /\ \A b \in Client : att'[b] # None => att'[b] = a[b]
  BY <1>1, <1>8, RemainingEffect
<1>19. \A b \in Client : a[b] # None /\ att'[b] = None =>
         ~chan'[a[b].chan].open \/ chan'[a[b].chan].lag >= LagLimit
  BY <1>1 DEF Remaining
<1>20. att'[c] = a[c]
  <2>1. chan'[k].lag \in Nat /\ LagLimit \in Nat /\ LagLimit > 0
    BY <1>13, SessionAssumption, ChannelFields
  <2>2. ~(chan'[k].lag >= LagLimit)
    BY <1>14, <2>1
  <2> QED BY <1>8, <1>14, <1>18, <1>19, <2>2
<1>21. \A b \in Client : b # c /\ att'[b] # None => att'[b] = att[b]
  BY <1>5, <1>8, <1>18
<1>22. ASSUME NEW b \in Client, b # c, att'[b] = None, att[b] # None
       PROVE  ~chan'[att[b].chan].open \/ chan'[att[b].chan].lag >= LagLimit
  <2>1. att[b].chan \in Chan /\ att[b].chan # k
    BY <1>4, <1>22
  <2>2. chan'[att[b].chan].open = chan[att[b].chan].open
    BY <1>15, <2>1 DEF Grown
  <2> QED BY <1>5, <1>8, <1>19, <1>22, <2>2
<1>23. ASSUME NEW b \in Client \ {c}, att'[b] # None, att'[b].role = "controller"
       PROVE  att'[c].role = "observer"
  <2>1. Reaped[b] # None /\ Reaped[b].role = "controller"
    BY <1>8, <1>18, <1>23
  <2>2. g = "observer"
    BY <1>6, <2>1 DEF Role
  <2> QED BY <1>8, <1>20, <2>2
<1> QED BY <1>1, <1>7, <1>8, <1>13, <1>14, <1>15, <1>16, <1>17, <1>18, <1>20, <1>21, <1>22, <1>23 DEF n

\* Attaching repeats and loses nothing, on the new attachment and on the others.
LEMMA AttachInv ==
  ASSUME SessionInv, NoSilentGap, NEW c \in Client, NEW k \in Chan, NEW r \in Role, NEW asked,
         Attach(c, k, r, asked)
  PROVE  SessionInv' /\ NoSilentGap'
<1> DEFINE N == {seq + 2}
<1>0. /\ seq' = seq + 2 /\ UNCHANGED <<ring, lastKey, pub, gone, late, ended, logged, archived>>
      /\ chan' \in [Chan -> Channel] /\ att' \in [Client -> Attachment \cup {None}]
      /\ \A j \in Chan : GoodChannel(chan'[j]) /\ (j # k => Grown(chan[j], chan'[j], N))
      /\ \A j \in Chan : chan[j].used => j < k
      /\ \A j \in Chan : j < k => chan[j].used
      /\ chan'[k].used /\ chan'[k].client = c
      /\ \A i \in Numbers(chan'[k]) : i <= seq + 2
      /\ \A f \in logged : f.seq >= chan'[k].sent[1] => f.seq \in Numbers(chan'[k])
      /\ att'[c] # None /\ att'[c].chan = k
      /\ \A b \in Client : b # c /\ att'[b] # None => att'[b] = att[b]
  BY AttachEffect
<1>1. /\ seq \in Nat /\ seq' \in Nat /\ seq <= seq' /\ \A n \in N : n \in Nat /\ n > seq /\ n <= seq'
      /\ \A j \in Chan : \A n \in Numbers(chan[j]) : n \in SeqNo /\ n <= seq
  <2>1. /\ seq \in Nat
        /\ \A j \in Chan : \A n \in Numbers(chan[j]) : n \in SeqNo /\ n <= seq
    BY StateChannels
  <2>2. seq' = seq + 2
    BY <1>0
  <2> QED BY <2>1, <2>2
<1> HIDE DEF N
<1>2. SessionTypeOK'
  BY <1>0, <1>1 DEF SessionInv, SessionTypeOK, SeqNo
<1>3. RingOrdered'
  BY <1>0, <1>1, RingKept, SameFreed
<1>4. Chan \subseteq Nat /\ k \in Nat
  BY SessionAssumption DEF Chan
<1>5. \A j \in Chan : chan[j].used => j # k /\ j <= k /\ GoodChannel(chan'[j]) /\ Evolves(j, N)
  BY <1>0, <1>4 DEF Evolves
<1>7. PublishersSound'
  <2>1. pub' = pub /\ (\A n \in N : n \in Nat /\ n > seq)
        /\ \A j \in Chan : chan[j].used => GoodChannel(chan'[j]) /\ Evolves(j, N)
    BY <1>0, <1>1, <1>5
  <2> QED BY <1>1, <2>1, PublishersKept
<1>8. \A b \in Client : att[b] # None =>
         att[b].chan \in Chan /\ chan[att[b].chan].used /\ chan[att[b].chan].client = b
  BY DEF SessionInv, SessionTypeOK, ChannelsSound, Attachment
<1>9. \A j \in Chan : j # k => chan'[j].used = chan[j].used /\ chan'[j].client = chan[j].client
                               /\ Numbers(chan'[j]) \subseteq Numbers(chan[j]) \cup N
  BY <1>0 DEF Grown
<1>10. ChannelsSound' /\ NoDuplicateFrame'
  <2>1. \A j \in Chan : \A n \in Numbers(chan'[j]) : n <= seq'
    BY <1>0, <1>1, <1>9 DEF SeqNo
  <2>2. ASSUME NEW i \in Chan, chan'[i].used, NEW j \in Chan, j < i PROVE chan'[j].used
    <3>1. CASE i = k
      BY <1>0, <1>4, <1>9, <2>2, <3>1
    <3>2. CASE i # k
      <4>1. chan[i].used /\ i < k
        BY <1>0, <1>9, <2>2, <3>2
      <4>2. j < k /\ j # k
        BY <1>4, <2>2, <4>1
      <4> QED BY <1>0, <1>9, <4>2
    <3> QED BY <3>1, <3>2
  <2>3. ASSUME NEW b \in Client, att'[b] # None
        PROVE  /\ chan'[att'[b].chan].used /\ chan'[att'[b].chan].client = b
               /\ \A j \in Chan : chan'[j].used /\ chan'[j].client = b => j <= att'[b].chan
    <3>1. chan'[att'[b].chan].used /\ chan'[att'[b].chan].client = b
      BY <1>0, <1>5, <1>8, <1>9, <2>3
    <3>2. ASSUME NEW j \in Chan, chan'[j].used, chan'[j].client = b PROVE j <= att'[b].chan
      <4>1. CASE b = c
        BY <1>0, <1>4, <1>5, <1>9, <3>2, <4>1
      <4>2. CASE b # c
        <5>1. att'[b] = att[b] /\ j # k /\ chan[j].used /\ chan[j].client = b
          BY <1>0, <1>9, <2>3, <3>2, <4>2
        <5> QED BY <2>3, <5>1 DEF SessionInv, ChannelsSound
      <4> QED BY <4>1, <4>2
    <3> QED BY <3>1, <3>2
  <2> QED BY <1>0, <1>1, <2>1, <2>2, <2>3, ChannelsAfter
<1>11. NoSilentGap'
  <2> SUFFICES ASSUME NEW b \in Client, att'[b] # None, chan'[att'[b].chan].open
               PROVE  \A f \in logged' :
                        f.seq >= chan'[att'[b].chan].sent[1]
                          => \/ f.seq \in Numbers(chan'[att'[b].chan])
                             \/ \E p \in Producer : pub'[p].seq = f.seq /\ <<b, att'[b].chan>> \in pub'[p].to
    BY GapAfter
  <2>1. CASE b = c
    BY <1>0, <2>1
  <2>2. CASE b # c
    <3>1. att'[b] = att[b] /\ att[b] # None /\ Evolves(att[b].chan, N) /\ chan'[att[b].chan].open
      BY <1>0, <1>5, <1>8, <2>2
    <3>2. \A p \in Producer : pub'[p] = pub[p]
      BY <1>0
    <3>3. logged' = logged
      BY <1>0
    <3> QED BY <3>1, <3>2, <3>3, GapKept
  <2> QED BY <2>1, <2>2
<1> QED BY <1>2, <1>3, <1>7, <1>10, <1>11 DEF SessionInv

-----------------------------------------------------------------------------
(* Publishing.                                                             *)

\* fan_out, one sender: its channel gets a number that is new to it, and a
\* client that is to be evicted was too slow.
LEMMA FanOutEffect ==
  ASSUME SessionInv, NEW p \in Producer, NEW c \in Client, NEW k \in Chan, FanOut(p, c, k)
  PROVE  LET s == pub[p].seq
         IN /\ s \in SeqNo /\ s <= seq /\ pub[p].pc = "fan" /\ <<c, k>> \in pub[p].to
            /\ chan[k].used /\ chan[k].client = c
            /\ chan' \in [Chan -> Channel]
            /\ \A j \in Chan : GoodChannel(chan'[j]) /\ Evolves(j, {s})
            /\ \A j \in Chan : j # k => chan'[j] = chan[j]
            /\ chan'[k].open => s \in Numbers(chan'[k])
            /\ pub' \in [Producer -> Publisher]
            /\ \A q \in Producer : q # p => pub'[q] = pub[q]
            /\ pub'[p].pc = "fan" /\ pub'[p].seq = s /\ pub'[p].spill = pub[p].spill
            /\ pub'[p].to = pub[p].to \ {<<c, k>>}
            /\ \A d \in pub'[p].evict : d \in pub[p].evict \/ (d = c /\ TooSlow(k)')
<1> DEFINE s == pub[p].seq
           ch == IF chan[k].open THEN TrySend(chan[k], s) ELSE chan[k]
           out == ~chan[k].open \/ ch.lag >= LagLimit
<1>0. /\ chan \in [Chan -> Channel] /\ GoodChannel(chan[k]) /\ seq \in Nat
      /\ pub \in [Producer -> Publisher]
  BY StateChannels DEF SessionInv, SessionTypeOK, Publisher
<1>1. /\ pub[p].pc = "fan" /\ <<c, k>> \in pub[p].to
      /\ chan' = [chan EXCEPT ![k] = ch]
      /\ pub' = [pub EXCEPT ![p].to = @ \ {<<c, k>>}, ![p].evict = IF out THEN @ \cup {c} ELSE @]
  BY DEF FanOut
<1>2. /\ s # None /\ s <= seq /\ chan[k].used /\ chan[k].client = c /\ s \notin Numbers(chan[k])
  BY <1>1 DEF SessionInv, PublishersSound, Numbers, FramesOn
<1>3. s \in SeqNo
  BY <1>0, <1>2 DEF Publisher
<1>4. /\ GoodChannel(ch) /\ Grown(chan[k], ch, {s}) /\ (ch.open => s \in Numbers(ch))
      /\ ch.open = chan[k].open
  <2>1. CASE chan[k].open
    <3>1. ch = TrySend(chan[k], s)
      BY <2>1
    <3> HIDE DEF ch, s
    <3> QED BY <1>0, <1>2, <1>3, <3>1, TrySendEffect DEF Grown
  <2>2. CASE ~chan[k].open
    <3>1. ch = chan[k]
      BY <2>2
    <3> HIDE DEF ch, s
    <3> QED BY <1>0, <2>2, <3>1, GrownSame
  <2> QED BY <2>1, <2>2
<1> DEFINE v == IF out THEN pub[p].evict \cup {c} ELSE pub[p].evict
           t == pub[p].to \ {<<c, k>>}
<1>5. v \subseteq Client /\ t \subseteq Client \X Chan /\ \A d \in v : d \in pub[p].evict \/ (d = c /\ out)
  BY <1>0 DEF Publisher
<1>6. pub' = [pub EXCEPT ![p] = [pub[p] EXCEPT !.to = t, !.evict = v]]
  BY <1>0, <1>1
<1>7. out => ~ch.open \/ ch.lag >= LagLimit
  BY <1>4
<1> HIDE DEF ch, s, v, t, out
<1>8. /\ chan' \in [Chan -> Channel]
      /\ \A j \in Chan : GoodChannel(chan'[j]) /\ Evolves(j, {s})
  BY <1>1, <1>4, OneChannel
<1>9. chan'[k] = ch /\ \A j \in Chan : j # k => chan'[j] = chan[j]
  BY <1>0, <1>1
<1>10. out => TooSlow(k)'
  <2>1. /\ ch.lag <= Cardinality(ch.missed) /\ ch.lag \in Nat /\ LagLimit \in Nat
        /\ Cardinality(ch.missed) \in Nat
    BY <1>4, ChannelFields, FS_CardinalityType, SessionAssumption DEF GoodChannel
  <2>2. ch.lag >= LagLimit => Cardinality(ch.missed) >= LagLimit
    BY <2>1
  <2> QED BY <1>7, <1>9, <2>2 DEF TooSlow
<1>11. /\ pub' \in [Producer -> Publisher]
       /\ \A q \in Producer : q # p => pub'[q] = pub[q]
       /\ pub'[p].pc = pub[p].pc /\ pub'[p].seq = pub[p].seq /\ pub'[p].spill = pub[p].spill
       /\ pub'[p].to = t /\ pub'[p].evict = v
  BY <1>0, <1>5, <1>6 DEF Publisher
<1> QED BY <1>1, <1>2, <1>3, <1>4, <1>5, <1>8, <1>9, <1>10, <1>11 DEF s, t

\* The fan-out to one sender repeats and loses nothing.
LEMMA FanOutInv ==
  ASSUME SessionInv, NoSilentGap, NEW p \in Producer, NEW c \in Client, NEW k \in Chan,
         FanOut(p, c, k)
  PROVE  SessionInv' /\ NoSilentGap'
<1> DEFINE s == pub[p].seq
           N == {s}
<1>0. /\ s \in SeqNo /\ s <= seq /\ pub[p].pc = "fan" /\ <<c, k>> \in pub[p].to
      /\ chan[k].used /\ chan[k].client = c
      /\ chan' \in [Chan -> Channel]
      /\ \A j \in Chan : GoodChannel(chan'[j]) /\ Evolves(j, N)
      /\ \A j \in Chan : j # k => chan'[j] = chan[j]
      /\ chan'[k].open => s \in Numbers(chan'[k])
      /\ pub' \in [Producer -> Publisher]
      /\ \A q \in Producer : q # p => pub'[q] = pub[q]
      /\ pub'[p].pc = "fan" /\ pub'[p].seq = s /\ pub'[p].spill = pub[p].spill
      /\ pub'[p].to = pub[p].to \ {<<c, k>>}
      /\ \A d \in pub'[p].evict : d \in pub[p].evict \/ (d = c /\ TooSlow(k)')
  BY FanOutEffect
<1>1. UNCHANGED <<seq, ring, lastKey, att, gone, late, ended, logged, archived>>
  BY DEF FanOut
<1>2. /\ seq \in Nat /\ att \in [Client -> Attachment \cup {None}]
      /\ pub \in [Producer -> Publisher]
  BY StateChannels DEF SessionInv, SessionTypeOK, Publisher
<1>3. \A n \in N : n <= seq
  BY <1>0
<1> HIDE DEF s, N
<1>4. SessionTypeOK'
  BY <1>0, <1>1 DEF SessionInv, SessionTypeOK, Publisher
<1>5. RingOrdered'
  <2>1. RingLeft
    BY <1>0, <1>1 DEF RingLeft, Freed
  <2> QED BY <1>1, <1>2, <2>1, RingKept
<1>6. ChannelsSound' /\ NoDuplicateFrame'
  <2>1. seq' \in Nat /\ seq <= seq' /\ (\A n \in N : n <= seq')
        /\ \A b \in Client : att'[b] # None => att'[b] = att[b]
    BY <1>1, <1>2, <1>3
  <2> QED BY <1>0, <2>1, EvolvedChannels
<1>7. PublishersSound'
  <2>1. \A j \in Chan : /\ chan'[j].used = chan[j].used /\ chan'[j].client = chan[j].client
                        /\ Numbers(chan'[j]) \subseteq Numbers(chan[j]) \cup N
                        /\ TooSlow(j) => TooSlow(j)'
    BY <1>0, StaysSlow DEF Evolves, Grown, Lost
  <2> SUFFICES ASSUME NEW q \in Producer
               PROVE  /\ pub'[q].pc = "fan" => pub'[q].seq # None /\ pub'[q].seq <= seq'
                      /\ pub'[q].pc # "fan" => pub'[q].to = {} /\ pub'[q].evict = {}
                      /\ pub'[q].pc = "idle" => pub'[q].spill = {}
                      /\ \A o \in Producer :
                           pub'[q].pc = "fan" /\ pub'[o].pc = "fan" /\ pub'[q].seq = pub'[o].seq => q = o
                      /\ \A b \in Client, j \in Chan : <<b, j>> \in pub'[q].to =>
                           /\ chan'[j].used /\ chan'[j].client = b
                           /\ pub'[q].seq \notin Numbers(chan'[j])
                      /\ \A b \in pub'[q].evict :
                           \E j \in Chan : chan'[j].used /\ chan'[j].client = b /\ TooSlow(j)'
    BY DEF PublishersSound, Numbers, FramesOn, FramesOf
  <2>2. \A o \in Producer :
          /\ pub'[o].pc = pub[o].pc /\ pub'[o].seq = pub[o].seq /\ pub'[o].spill = pub[o].spill
          /\ pub'[o].to \subseteq pub[o].to
    BY <1>0 DEF s
  <2>3. /\ pub[q].pc = "fan" => pub[q].seq # None /\ pub[q].seq <= seq
        /\ pub[q].pc # "fan" => pub[q].to = {} /\ pub[q].evict = {}
        /\ pub[q].pc = "idle" => pub[q].spill = {}
        /\ \A o \in Producer :
             pub[q].pc = "fan" /\ pub[o].pc = "fan" /\ pub[q].seq = pub[o].seq => q = o
        /\ \A b \in Client, j \in Chan : <<b, j>> \in pub[q].to =>
             /\ chan[j].used /\ chan[j].client = b
             /\ pub[q].seq \notin Numbers(chan[j])
        /\ \A b \in pub[q].evict :
             \E j \in Chan : chan[j].used /\ chan[j].client = b /\ TooSlow(j)
    BY DEF SessionInv, PublishersSound, Numbers, FramesOn
  <2>4. /\ pub'[q].pc = "fan" => pub'[q].seq # None /\ pub'[q].seq <= seq'
        /\ pub'[q].pc # "fan" => pub'[q].to = {} /\ pub'[q].evict = {}
        /\ pub'[q].pc = "idle" => pub'[q].spill = {}
        /\ \A o \in Producer :
             pub'[q].pc = "fan" /\ pub'[o].pc = "fan" /\ pub'[q].seq = pub'[o].seq => q = o
    BY <1>0, <1>1, <2>2, <2>3
  <2>5. ASSUME NEW b \in Client, NEW j \in Chan, <<b, j>> \in pub'[q].to
        PROVE  /\ chan'[j].used /\ chan'[j].client = b
               /\ pub'[q].seq \notin Numbers(chan'[j])
    <3>1. <<b, j>> \in pub[q].to /\ chan[j].used /\ chan[j].client = b /\ pub[q].seq \notin Numbers(chan[j])
          /\ pub[q].pc = "fan"
      BY <2>2, <2>3, <2>5
    <3>2. CASE q = p
      <4>1. j # k
        BY <1>0, <2>5, <3>1, <3>2
      <4> QED BY <1>0, <2>1, <2>2, <3>1, <4>1
    <3>3. CASE q # p
      <4>1. pub[q].seq \notin N
        BY <1>0, <2>3, <3>1, <3>3 DEF N, s
      <4> QED BY <2>1, <2>2, <3>1, <4>1
    <3> QED BY <3>2, <3>3
  <2>6. ASSUME NEW b \in pub'[q].evict
        PROVE  \E j \in Chan : chan'[j].used /\ chan'[j].client = b /\ TooSlow(j)'
    <3>1. b \in pub[q].evict \/ (b = c /\ TooSlow(k)')
      BY <1>0, <2>6
    <3>2. CASE b \in pub[q].evict
      BY <2>1, <2>3, <3>2
    <3>3. CASE b = c /\ TooSlow(k)'
      BY <1>0, <2>1, <3>3
    <3> QED BY <3>1, <3>2, <3>3
  <2> QED BY <2>4, <2>5, <2>6
<1>8. NoSilentGap'
  <2> SUFFICES ASSUME NEW b \in Client, att'[b] # None, chan'[att'[b].chan].open
               PROVE  \A f \in logged' :
                        f.seq >= chan'[att'[b].chan].sent[1]
                          => \/ f.seq \in Numbers(chan'[att'[b].chan])
                             \/ \E q \in Producer : pub'[q].seq = f.seq /\ <<b, att'[b].chan>> \in pub'[q].to
    BY GapAfter
  <2> DEFINE j == att[b].chan
  <2>1. att'[b] = att[b] /\ att[b] # None /\ j \in Chan /\ chan'[j].open /\ Evolves(j, N)
    BY <1>0, <1>1, <1>2 DEF Attachment
  <2>2. \A q \in Producer : <<b, j>> \in pub[q].to =>
            \/ pub'[q].seq = pub[q].seq /\ <<b, j>> \in pub'[q].to
            \/ pub[q].seq \in Numbers(chan'[j])
    <3> HIDE DEF j
    <3> SUFFICES ASSUME NEW q \in Producer, <<b, j>> \in pub[q].to
                 PROVE  \/ pub'[q].seq = pub[q].seq /\ <<b, j>> \in pub'[q].to
                        \/ pub[q].seq \in Numbers(chan'[j])
      OBVIOUS
    <3>1. CASE q # p
      BY <1>0, <3>1
    <3>2. CASE q = p /\ <<b, j>> # <<c, k>>
      BY <1>0, <3>2 DEF s
    <3>3. CASE q = p /\ <<b, j>> = <<c, k>>
      BY <1>0, <2>1, <3>3 DEF s
    <3> QED BY <3>1, <3>2, <3>3
  <2>3. logged' = logged
    BY <1>1
  <2> QED BY <2>1, <2>2, <2>3, GapKept
<1> QED BY <1>4, <1>5, <1>6, <1>7, <1>8 DEF SessionInv

\* A publisher that has no sender left goes on, and attachments may end.
LEMMA PublisherStep ==
  ASSUME SessionInv, NoSilentGap, NEW p \in Producer, NEW x \in Publisher,
         UNCHANGED <<seq, chan, gone, late, ended, logged>>,
         RingLeft, ring' \in Seq(Frame), Len(ring') <= MaxFrames, lastKey' \in SeqNo \cup {None},
         att' \in [Client -> Attachment \cup {None}],
         \A c \in Client : att'[c] # None => att'[c] = att[c],
         archived' \subseteq SeqNo, pub' = [pub EXCEPT ![p] = x],
         pub[p].to = {}, x.to = {}, x.evict = {}, x.pc # "fan", x.pc = "idle" => x.spill = {}
  PROVE  SessionInv' /\ NoSilentGap'
<1>0. /\ seq \in Nat /\ chan \in [Chan -> Channel] /\ \A k \in Chan : GoodChannel(chan[k])
      /\ pub \in [Producer -> Publisher]
  BY StateChannels DEF SessionInv, SessionTypeOK, Publisher
<1>1. /\ pub' \in [Producer -> Publisher] /\ pub'[p] = x
      /\ \A q \in Producer : q # p => pub'[q] = pub[q]
  BY <1>0
<1>2. SessionTypeOK'
  BY <1>1 DEF SessionInv, SessionTypeOK, Publisher
<1>3. RingOrdered'
  BY <1>0, RingKept
<1>4. ChannelsSound' /\ NoDuplicateFrame'
  <2>1. \A k \in Chan : GoodChannel(chan'[k]) /\ Evolves(k, {})
    BY <1>0, GrownSame DEF Evolves
  <2>2. \A n \in {} : n <= seq'
    OBVIOUS
  <2>3. seq' \in Nat /\ seq <= seq' /\ chan' \in [Chan -> Channel]
    BY <1>0
  <2> QED BY <2>1, <2>2, <2>3, EvolvedChannels
<1>5. PublishersSound'
  BY <1>1 DEF SessionInv, PublishersSound, FramesOn, TooSlow
<1>6. NoSilentGap'
  <2> SUFFICES ASSUME NEW b \in Client, att'[b] # None, chan'[att'[b].chan].open
               PROVE  \A f \in logged' :
                        f.seq >= chan'[att'[b].chan].sent[1]
                          => \/ f.seq \in Numbers(chan'[att'[b].chan])
                             \/ \E q \in Producer : pub'[q].seq = f.seq /\ <<b, att'[b].chan>> \in pub'[q].to
    BY GapAfter
  <2>1. att'[b] = att[b] /\ att[b] # None /\ chan'[att[b].chan].open /\ Evolves(att[b].chan, {})
    BY GrownSame DEF Evolves
  <2>2. \A q \in Producer : <<b, att[b].chan>> \in pub[q].to => pub'[q] = pub[q]
    BY <1>1
  <2> QED BY <2>1, <2>2, GapKept
<1> QED BY <1>2, <1>3, <1>4, <1>5, <1>6 DEF SessionInv

\* The end of a fan-out.
LEMMA EvictSlowInv ==
  ASSUME SessionInv, NoSilentGap, NEW p \in Producer, EvictSlow(p)
  PROVE  SessionInv' /\ NoSilentGap'
<1> DEFINE x == [pub[p] EXCEPT !.pc = "spill", !.evict = {}]
<1>0. pub \in [Producer -> Publisher] /\ att \in [Client -> Attachment \cup {None}]
      /\ archived \subseteq SeqNo
  BY DEF SessionInv, SessionTypeOK, Publisher
<1>1. pub' = [pub EXCEPT ![p] = x] /\ pub[p].to = {}
      /\ UNCHANGED <<seq, ring, lastKey, chan, gone, late, ended, logged, archived>>
      /\ att' = [c \in Client |-> IF c \in pub[p].evict THEN None ELSE att[c]]
  BY <1>0 DEF EvictSlow
<1>2. x \in Publisher /\ x.to = {} /\ x.evict = {} /\ x.pc = "spill"
  BY <1>0, <1>1 DEF Publisher
<1> HIDE DEF x
<1>3. att' \in [Client -> Attachment \cup {None}] /\ \A c \in Client : att'[c] # None => att'[c] = att[c]
  BY <1>0, <1>1
<1>4. archived' \subseteq SeqNo /\ UNCHANGED <<seq, chan, gone, late, ended, logged>>
  BY <1>0, <1>1
<1>6. /\ RingLeft /\ ring' \in Seq(Frame) /\ Len(ring') <= MaxFrames /\ lastKey' \in SeqNo \cup {None}
  <2>1. ~Freed /\ ring' = ring /\ lastKey' = lastKey
    BY <1>1 DEF EvictSlow, Freed
  <2> QED BY <2>1 DEF RingLeft, SessionInv, SessionTypeOK
<1>5. x.pc # "fan" /\ (x.pc = "idle" => x.spill = {})
  BY <1>2
<1> QED BY <1>1, <1>2, <1>3, <1>4, <1>5, <1>6, PublisherStep

\* archive_evicted.
LEMMA SpillInv ==
  ASSUME SessionInv, NoSilentGap, NEW p \in Producer, Spill(p)
  PROVE  SessionInv' /\ NoSilentGap'
<1>0. /\ pub \in [Producer -> Publisher] /\ att \in [Client -> Attachment \cup {None}]
      /\ archived \subseteq SeqNo /\ pub[p].spill \subseteq SeqNo
  BY DEF SessionInv, SessionTypeOK, Publisher
<1>1. /\ pub' = [pub EXCEPT ![p] = Idle] /\ pub[p].pc = "spill"
      /\ UNCHANGED <<seq, chan, gone, late, ended, logged>> /\ Leaves(ring, lastKey, att)
      /\ archived' = archived \cup pub[p].spill /\ ~Freed
  BY DEF Spill, Freed
<1>2. pub[p].to = {}
  BY <1>1 DEF SessionInv, PublishersSound
<1>3. /\ Idle \in Publisher /\ Idle.to = {} /\ Idle.evict = {} /\ Idle.pc # "fan"
      /\ (Idle.pc = "idle" => Idle.spill = {})
  BY DEF Idle, Publisher
<1>4. /\ RingLeft /\ lastKey' \in SeqNo \cup {None} /\ ring' \in Seq(Frame) /\ Len(ring') <= MaxFrames
      /\ att' \in [Client -> Attachment \cup {None}]
      /\ \A c \in Client : att'[c] # None => att'[c] = att[c]
  BY <1>0, <1>1, LeavesEffect
<1>5. UNCHANGED <<seq, chan, gone, late, ended, logged>> /\ archived' \subseteq SeqNo
  BY <1>0, <1>1
<1> QED BY <1>1, <1>2, <1>3, <1>4, <1>5, PublisherStep

\* push_entry: d entries, none or the oldest, leave the ring.
LEMMA PushedShape ==
  ASSUME ring \in Seq(Frame), Len(ring) <= MaxFrames, NEW entry \in Frame
  PROVE  \E d \in {0, 1} :
           /\ d = 0 => Evicted = {} /\ Len(ring) < MaxFrames
           /\ d = 1 => ring # <<>> /\ Evicted = {ring[1]}
           /\ d <= Len(ring)
           /\ Pushed(entry) \in Seq(Frame) /\ Len(Pushed(entry)) = Len(ring) - d + 1
           /\ Len(Pushed(entry)) <= MaxFrames
           /\ DOMAIN Pushed(entry) = 1..(Len(ring) - d + 1)
           /\ \A i \in 1..(Len(ring) - d) : Pushed(entry)[i] = ring[i + d]
           /\ Pushed(entry)[Len(ring) - d + 1] = entry
<1>0. Len(ring) \in Nat /\ MaxFrames \in Nat /\ MaxFrames > 0
  BY SessionAssumption
<1>1. CASE Len(ring) >= MaxFrames
  <2>1. Len(ring) > 0 /\ ring # <<>> /\ Evicted = {ring[1]} /\ Pushed(entry) = Append(Tail(ring), entry)
    BY <1>0, <1>1 DEF Evicted, Pushed
  <2>2. Tail(ring) \in Seq(Frame) /\ Len(Tail(ring)) = Len(ring) - 1
        /\ \A i \in 1..(Len(ring) - 1) : Tail(ring)[i] = ring[i + 1]
    BY <1>0, <2>1
  <2> DEFINE t == Tail(ring)
  <2> HIDE DEF t
  <2>3. /\ Pushed(entry) = Append(t, entry) /\ t \in Seq(Frame) /\ Len(t) = Len(ring) - 1
        /\ \A i \in 1..(Len(ring) - 1) : t[i] = ring[i + 1]
    BY <2>1, <2>2 DEF t
  <2>4. /\ Pushed(entry) \in Seq(Frame) /\ Len(Pushed(entry)) = Len(ring)
        /\ DOMAIN Pushed(entry) = 1..Len(ring)
        /\ \A i \in 1..(Len(ring) - 1) : Pushed(entry)[i] = ring[i + 1]
        /\ Pushed(entry)[Len(ring)] = entry
    BY <1>0, <2>1, <2>3
  <2>5. Len(ring) - 1 + 1 = Len(ring) /\ 1 <= Len(ring)
    BY <1>0, <2>1
  <2> WITNESS 1 \in {0, 1}
  <2> QED BY <1>0, <2>1, <2>4, <2>5
<1>2. CASE ~(Len(ring) >= MaxFrames)
  <2>1. Evicted = {} /\ Len(ring) < MaxFrames /\ Pushed(entry) = Append(ring, entry)
    BY <1>0, <1>2 DEF Evicted, Pushed
  <2>2. /\ Pushed(entry) \in Seq(Frame) /\ Len(Pushed(entry)) = Len(ring) + 1
        /\ DOMAIN Pushed(entry) = 1..(Len(ring) + 1)
        /\ \A i \in 1..Len(ring) : Pushed(entry)[i] = ring[i]
        /\ Pushed(entry)[Len(ring) + 1] = entry
    BY <1>0, <2>1
  <2>3. Len(ring) - 0 = Len(ring) /\ (\A i \in 1..Len(ring) : i + 0 = i) /\ Len(ring) + 1 <= MaxFrames
        /\ 0 <= Len(ring)
    BY <1>0, <2>1
  <2> WITNESS 0 \in {0, 1}
  <2> QED BY <1>0, <2>1, <2>2, <2>3
<1> QED BY <1>1, <1>2

\* The locked part of a publish, in terms of what it leaves and adds.
LEMMA PublishEffect ==
  ASSUME SessionInv, NEW p \in Producer, NEW kind \in Kind, Publish(p, kind)
  PROVE  \E entry \in Frame, d \in {0, 1} :
           /\ entry.seq = seq + 1 /\ entry.kind = kind
           /\ seq \in Nat /\ seq' = seq + 1 /\ logged' = logged \cup {entry}
           /\ pub[p].pc = "idle" /\ lastKey' = KeyAfter(entry)
           /\ UNCHANGED <<att, chan, gone, ended, archived>> /\ late' \subseteq Producer
           /\ d = 0 => Evicted = {}
           /\ d = 1 => ring # <<>> /\ Evicted = {ring[1]}
           /\ d <= Len(ring) /\ Len(ring) \in Nat
           /\ ring' \in Seq(Frame) /\ Len(ring') = Len(ring) - d + 1 /\ Len(ring') <= MaxFrames
           /\ DOMAIN ring' = 1..(Len(ring) - d + 1) /\ DOMAIN ring = 1..Len(ring)
           /\ \A i \in 1..(Len(ring) - d) : ring'[i] = ring[i + d]
           /\ ring'[Len(ring) - d + 1] = entry
           /\ pub' \in [Producer -> Publisher] /\ \A q \in Producer : q # p => pub'[q] = pub[q]
           /\ pub'[p].pc = "fan" /\ pub'[p].seq = seq + 1 /\ pub'[p].to = Senders /\ pub'[p].evict = {}
           /\ pub'[p].spill = {e.seq : e \in {f \in Evicted : f.kind # "resize"}}
<1> DEFINE entry == [seq |-> seq + 1, kind |-> kind]
           x == [pc |-> "fan", seq |-> seq + 1, to |-> Senders, evict |-> {},
                 spill |-> {e.seq : e \in {f \in Evicted : f.kind # "resize"}}]
<1>0. /\ seq \in Nat /\ ring \in Seq(Frame) /\ Len(ring) <= MaxFrames /\ Len(ring) \in Nat
      /\ DOMAIN ring = 1..Len(ring) /\ pub \in [Producer -> Publisher] /\ late \subseteq Producer
  BY DEF SessionInv, SessionTypeOK, SeqNo, Publisher
<1>1. entry \in Frame /\ entry.seq = seq + 1 /\ entry.kind = kind
  BY <1>0 DEF Frame, SeqNo
<1>2. /\ seq' = seq + 1 /\ logged' = logged \cup {entry} /\ ring' = Pushed(entry)
      /\ pub[p].pc = "idle" /\ lastKey' = KeyAfter(entry)
      /\ UNCHANGED <<att, chan, gone, ended, archived>> /\ late' = late \ {p}
      /\ pub' = [pub EXCEPT ![p] = x]
  BY DEF Publish
<1>3. PICK d \in {0, 1} :
           /\ d = 0 => Evicted = {} /\ Len(ring) < MaxFrames
           /\ d = 1 => ring # <<>> /\ Evicted = {ring[1]}
           /\ d <= Len(ring)
           /\ Pushed(entry) \in Seq(Frame) /\ Len(Pushed(entry)) = Len(ring) - d + 1
           /\ Len(Pushed(entry)) <= MaxFrames
           /\ DOMAIN Pushed(entry) = 1..(Len(ring) - d + 1)
           /\ \A i \in 1..(Len(ring) - d) : Pushed(entry)[i] = ring[i + d]
           /\ Pushed(entry)[Len(ring) - d + 1] = entry
  <2> HIDE DEF entry
  <2> QED BY <1>0, <1>1, PushedShape
<1>4. Senders \subseteq Client \X Chan
  BY DEF Senders, SessionInv, SessionTypeOK, Attachment
<1>5. {e.seq : e \in {f \in Evicted : f.kind # "resize"}} \subseteq SeqNo
  <2>1. Evicted \subseteq Frame
    BY <1>0, <1>3
  <2> QED BY <2>1 DEF Frame
<1>6. /\ x \in Publisher /\ x.pc = "fan" /\ x.seq = seq + 1 /\ x.to = Senders /\ x.evict = {}
      /\ x.spill = {e.seq : e \in {f \in Evicted : f.kind # "resize"}}
  <2> DEFINE n == seq + 1
             t == Senders
             w == {e.seq : e \in {f \in Evicted : f.kind # "resize"}}
  <2>1. n \in SeqNo /\ t \subseteq Client \X Chan /\ w \subseteq SeqNo
    BY <1>0, <1>4, <1>5 DEF SeqNo
  <2>2. x = [pc |-> "fan", seq |-> n, to |-> t, evict |-> {}, spill |-> w]
    OBVIOUS
  <2> HIDE DEF n, t, w, x
  <2>3. x \in Publisher /\ x.pc = "fan" /\ x.seq = n /\ x.to = t /\ x.evict = {} /\ x.spill = w
    BY <2>1, <2>2 DEF Publisher
  <2> QED BY <2>3 DEF n, t, w
<1> HIDE DEF x, entry
<1>7. /\ pub' \in [Producer -> Publisher] /\ pub'[p] = x
      /\ \A q \in Producer : q # p => pub'[q] = pub[q]
  BY <1>0, <1>2, <1>6
<1> WITNESS entry \in Frame, d \in {0, 1}
<1> QED BY <1>0, <1>1, <1>2, <1>3, <1>6, <1>7

\* The ring after a publish.
LEMMA PublishRing ==
  ASSUME SessionInv, NEW p \in Producer, NEW kind \in Kind, Publish(p, kind)
  PROVE  RingOrdered'
<1>1. PICK entry \in Frame, d \in {0, 1} :
           /\ entry.seq = seq + 1
           /\ seq \in Nat /\ seq' = seq + 1 /\ logged' = logged \cup {entry}
           /\ d <= Len(ring) /\ Len(ring) \in Nat
           /\ Len(ring') = Len(ring) - d + 1
           /\ DOMAIN ring' = 1..(Len(ring) - d + 1) /\ DOMAIN ring = 1..Len(ring)
           /\ \A i \in 1..(Len(ring) - d) : ring'[i] = ring[i + d]
           /\ ring'[Len(ring) - d + 1] = entry
           /\ ring' \in Seq(Frame)
  BY PublishEffect
<1> DEFINE len == Len(ring)
           z == len - d
<1>0. ~Freed
  BY DEF Publish, Freed
<1>2. /\ \A i, j \in 1..len : i < j => ring[i].seq < ring[j].seq
      /\ \A i \in 1..len : ring[i] \in logged
      /\ \A f \in logged : /\ f.seq \in Nat /\ f.seq <= seq
                           /\ ring[1].seq <= f.seq => \E i \in 1..len : ring[i] = f
  BY <1>0, <1>1 DEF SessionInv, SessionTypeOK, RingOrdered, Frame, SeqNo
<1>3. z \in Nat /\ \A i \in 1..z : i + d \in 1..len
  BY <1>1
<1>4. /\ DOMAIN ring' = 1..(z + 1) /\ ring'[z + 1] = entry
      /\ \A i \in 1..z : ring'[i] = ring[i + d]
  BY <1>1
<1> HIDE DEF z, len
<1>5. \A i, j \in DOMAIN ring' : i < j => ring'[i].seq < ring'[j].seq
  <2> SUFFICES ASSUME NEW i \in 1..(z + 1), NEW j \in 1..(z + 1), i < j
               PROVE  ring'[i].seq < ring'[j].seq
    BY <1>4
  <2>1. i \in 1..z /\ ring'[i] = ring[i + d] /\ i + d \in 1..len
    BY <1>3, <1>4
  <2>2. CASE j = z + 1
    BY <1>1, <1>2, <1>4, <2>1, <2>2
  <2>3. CASE j # z + 1
    <3>1. j \in 1..z /\ ring'[j] = ring[j + d] /\ j + d \in 1..len /\ i + d < j + d
      BY <1>3, <1>4, <2>3
    <3> QED BY <1>2, <2>1, <3>1
  <2> QED BY <2>2, <2>3
<1>6. \A i \in DOMAIN ring' : ring'[i] \in logged'
  <2>1. ASSUME NEW i \in 1..(z + 1) PROVE ring'[i] \in logged'
    <3>1. CASE i = z + 1
      BY <1>1, <1>4, <3>1
    <3>2. CASE i # z + 1
      <4>1. i \in 1..z
        BY <1>3, <3>2
      <4> QED BY <1>1, <1>2, <1>3, <1>4, <4>1
    <3> QED BY <3>1, <3>2
  <2> QED BY <1>4, <2>1
<1>7. ring' # <<>>
  BY <1>1, <1>3
<1>8. ASSUME NEW f \in logged', ring'[1].seq <= f.seq PROVE \E i \in DOMAIN ring' : ring'[i] = f
  <2>1. CASE f = entry
    BY <1>3, <1>4, <2>1
  <2>2. CASE f \in logged
    <3>1. z # 0
      <4>1. CASE z = 0
        <5>1. ring'[1] = entry
          BY <1>4, <4>1
        <5> QED BY <1>1, <1>2, <1>8, <2>2, <5>1
      <4> QED BY <4>1
    <3>2. 1 \in 1..z /\ ring'[1] = ring[1 + d] /\ 1 \in 1..len /\ 1 + d \in 1..len
      BY <1>1, <1>3, <1>4, <3>1 DEF len
    <3>3. ring[1] \in logged /\ ring[1 + d] \in logged /\ ring[1].seq <= ring[1 + d].seq
      BY <1>2, <3>2
    <3>4. ring[1].seq <= f.seq
      BY <1>2, <1>8, <2>2, <3>2, <3>3
    <3>5. PICK i \in 1..len : ring[i] = f
      BY <1>2, <2>2, <3>4
    <3>6. ~(i < 1 + d)
      BY <1>2, <1>8, <2>2, <3>2, <3>3, <3>5
    <3>7. i - d \in 1..z /\ (i - d) + d = i
      BY <1>1, <3>5, <3>6 DEF z, len
    <3>8. ring'[i - d] = f
      BY <1>4, <3>5, <3>7
    <3>9. i - d \in 1..(z + 1)
      BY <1>3, <3>7
    <3> QED BY <1>4, <3>8, <3>9
  <2> QED BY <1>1, <2>1, <2>2
<1>9. \A f \in logged' : f.seq <= seq'
  BY <1>1, <1>2
<1> QED BY <1>5, <1>6, <1>7, <1>8, <1>9 DEF RingOrdered

\* A publish repeats and loses nothing: its frame is on its way to everyone who
\* is attached.
LEMMA PublishInv ==
  ASSUME SessionInv, NoSilentGap, NEW p \in Producer, NEW kind \in Kind, Publish(p, kind)
  PROVE  SessionInv' /\ NoSilentGap'
<1>0. PICK entry \in Frame, d \in {0, 1} :
           /\ entry.seq = seq + 1 /\ entry.kind = kind
           /\ seq \in Nat /\ seq' = seq + 1 /\ logged' = logged \cup {entry}
           /\ pub[p].pc = "idle" /\ lastKey' = KeyAfter(entry)
           /\ UNCHANGED <<att, chan, gone, ended, archived>> /\ late' \subseteq Producer
           /\ d = 0 => Evicted = {}
           /\ d = 1 => ring # <<>> /\ Evicted = {ring[1]}
           /\ ring' \in Seq(Frame) /\ Len(ring') <= MaxFrames
           /\ pub' \in [Producer -> Publisher] /\ \A q \in Producer : q # p => pub'[q] = pub[q]
           /\ pub'[p].pc = "fan" /\ pub'[p].seq = seq + 1 /\ pub'[p].to = Senders /\ pub'[p].evict = {}
  BY PublishEffect
<1>1. /\ chan \in [Chan -> Channel] /\ \A k \in Chan : GoodChannel(chan[k])
      /\ \A k \in Chan : \A n \in Nat : n > seq => n \notin Numbers(chan[k])
      /\ pub \in [Producer -> Publisher] /\ att \in [Client -> Attachment \cup {None}]
  BY StateChannels DEF SessionInv, SessionTypeOK, Publisher
<1>2. seq' \in SeqNo /\ seq' \in Nat /\ seq <= seq' /\ seq' > seq /\ seq + 1 = seq'
  BY <1>0 DEF SeqNo
<1>3. SessionTypeOK'
  <2>1. lastKey' \in SeqNo \cup {None}
    BY <1>0, <1>2 DEF KeyAfter, SessionInv, SessionTypeOK
  <2>2. logged' \subseteq Frame
    BY <1>0 DEF SessionInv, SessionTypeOK
  <2> QED BY <1>0, <1>2, <2>1, <2>2 DEF SessionInv, SessionTypeOK, Publisher
<1>4. RingOrdered'
  BY PublishRing
<1>5. ChannelsSound' /\ NoDuplicateFrame'
  <2>1. \A k \in Chan : GoodChannel(chan'[k]) /\ Evolves(k, {})
    BY <1>0, <1>1, GrownSame DEF Evolves
  <2>2. (\A n \in {} : n <= seq') /\ chan' \in [Chan -> Channel]
        /\ \A c \in Client : att'[c] # None => att'[c] = att[c]
    BY <1>0, <1>1
  <2> QED BY <1>2, <2>1, <2>2, EvolvedChannels
<1>6. pub[p].to = {} /\ pub[p].evict = {}
  BY <1>0 DEF SessionInv, PublishersSound
<1>7. \A c \in Client, k \in Chan : <<c, k>> \in Senders =>
         /\ chan[k].used /\ chan[k].client = c /\ seq' \notin Numbers(chan[k])
  <2> SUFFICES ASSUME NEW c \in Client, NEW k \in Chan, <<c, k>> \in Senders
               PROVE  chan[k].used /\ chan[k].client = c /\ seq' \notin Numbers(chan[k])
    OBVIOUS
  <2>1. att[c] # None /\ k = att[c].chan
    BY DEF Senders
  <2> QED BY <1>1, <1>2, <2>1 DEF SessionInv, ChannelsSound
<1>8. PublishersSound'
  <2> SUFFICES ASSUME NEW q \in Producer
               PROVE  /\ pub'[q].pc = "fan" => pub'[q].seq # None /\ pub'[q].seq <= seq'
                      /\ pub'[q].pc # "fan" => pub'[q].to = {} /\ pub'[q].evict = {}
                      /\ pub'[q].pc = "idle" => pub'[q].spill = {}
                      /\ \A o \in Producer :
                           pub'[q].pc = "fan" /\ pub'[o].pc = "fan" /\ pub'[q].seq = pub'[o].seq => q = o
                      /\ \A b \in Client, j \in Chan : <<b, j>> \in pub'[q].to =>
                           /\ chan[j].used /\ chan[j].client = b
                           /\ pub'[q].seq \notin Numbers(chan[j])
                      /\ \A b \in pub'[q].evict :
                           \E j \in Chan : chan[j].used /\ chan[j].client = b /\ TooSlow(j)
    BY <1>0 DEF PublishersSound, Numbers, FramesOn, FramesOf, TooSlow
  <2>1. \A o \in Producer :
          /\ pub[o].pc = "fan" => pub[o].seq # None /\ pub[o].seq \in Nat /\ pub[o].seq <= seq
          /\ pub[o].pc # "fan" => pub[o].to = {} /\ pub[o].evict = {}
          /\ pub[o].pc = "idle" => pub[o].spill = {}
          /\ \A i \in Producer :
               pub[o].pc = "fan" /\ pub[i].pc = "fan" /\ pub[o].seq = pub[i].seq => o = i
          /\ \A b \in Client, j \in Chan : <<b, j>> \in pub[o].to =>
               /\ chan[j].used /\ chan[j].client = b
               /\ pub[o].seq \notin Numbers(chan[j])
          /\ \A b \in pub[o].evict :
               \E j \in Chan : chan[j].used /\ chan[j].client = b /\ TooSlow(j)
    BY <1>1 DEF SessionInv, PublishersSound, Numbers, FramesOn, Publisher, SeqNo
  <2>2. seq' # None
    BY <1>2, NoSessionAssumption
  <2>3. CASE q = p
    <3>1. \A o \in Producer : pub'[o].pc = "fan" /\ seq' = pub'[o].seq => p = o
      BY <1>0, <1>2, <2>1
    <3> QED BY <1>0, <1>2, <1>7, <2>2, <2>3, <3>1
  <2>4. CASE q # p
    <3>1. pub'[q] = pub[q]
      BY <1>0, <2>4
    <3>2. \A o \in Producer : pub[q].pc = "fan" /\ pub'[o].pc = "fan" /\ pub[q].seq = pub'[o].seq => q = o
      BY <1>0, <1>2, <2>1
    <3>3. pub[q].pc = "fan" => pub[q].seq <= seq'
      BY <1>0, <1>2, <2>1
    <3> QED BY <2>1, <3>1, <3>2, <3>3
  <2> QED BY <2>3, <2>4
<1>9. NoSilentGap'
  <2> SUFFICES ASSUME NEW b \in Client, att'[b] # None, chan'[att'[b].chan].open
               PROVE  \A f \in logged' :
                        f.seq >= chan'[att'[b].chan].sent[1]
                          => \/ f.seq \in Numbers(chan'[att'[b].chan])
                             \/ \E q \in Producer : pub'[q].seq = f.seq /\ <<b, att'[b].chan>> \in pub'[q].to
    BY GapAfter
  <2>1. att'[b] = att[b] /\ att[b] # None /\ chan'[att[b].chan].open /\ Evolves(att[b].chan, {})
    BY <1>0, GrownSame DEF Evolves
  <2>2. \A q \in Producer : <<b, att[b].chan>> \in pub[q].to => pub'[q] = pub[q]
    BY <1>0, <1>6
  <2>3. <<b, att[b].chan>> \in Senders
    BY <1>0, <2>1 DEF Senders
  <2>4. \A f \in logged' : \/ f \in logged
                           \/ \E q \in Producer : pub'[q].seq = f.seq /\ <<b, att[b].chan>> \in pub'[q].to
    BY <1>0, <2>3
  <2> QED BY <2>1, <2>2, <2>4, GapKept
<1> QED BY <1>3, <1>4, <1>5, <1>8, <1>9 DEF SessionInv

-----------------------------------------------------------------------------
(* The invariant.                                                          *)

\* A new session.
LEMMA InitInv == SessionInit => SessionInv /\ NoSilentGap
<1> SUFFICES ASSUME SessionInit PROVE SessionInv /\ NoSilentGap
  OBVIOUS
<1>0. /\ seq = 0 /\ ring = <<>> /\ lastKey = None
      /\ att = [c \in Client |-> None]
      /\ chan = [k \in Chan |-> NewChan]
      /\ pub = [p \in Producer |-> Idle]
      /\ gone = FALSE /\ late = {} /\ ended = {} /\ logged = {} /\ archived = {}
  BY DEF SessionInit
<1>1. /\ Idle \in Publisher /\ Idle.to = {} /\ Idle.evict = {} /\ Idle.pc = "idle" /\ Idle.spill = {}
  BY DEF Idle, Publisher
<1>2. SessionTypeOK
  <2>1. ring \in Seq(Frame) /\ Len(ring) <= MaxFrames
    BY <1>0, SessionAssumption
  <2>2. pub \in [Producer -> Publisher] /\ chan \in [Chan -> Channel]
    BY <1>0, <1>1, NewChannel
  <2> QED BY <1>0, <2>1, <2>2 DEF SessionTypeOK, Publisher, SeqNo
<1>3. RingOrdered
  BY <1>0 DEF RingOrdered
<1>4. ChannelsSound /\ NoDuplicateFrame
  <2>1. \A k \in Chan : /\ chan[k].open = FALSE /\ chan[k].used = FALSE /\ chan[k].sent = <<>>
                        /\ chan[k].missed = {} /\ chan[k].lag = 0
    BY <1>0, NewChannel
  <2>2. IsFiniteSet({}) /\ Cardinality({}) = 0
    BY FS_EmptySet
  <2>3. NoDuplicateFrame
    BY <2>1 DEF NoDuplicateFrame
  <2>4. \A k \in Chan : FramesOn(k) \cup chan[k].missed = {}
    BY <2>1 DEF FramesOn, FramesOf
  <2>5. \A k \in Chan : IsFiniteSet(chan[k].missed) /\ chan[k].lag <= Cardinality(chan[k].missed)
    <3> SUFFICES ASSUME NEW k \in Chan
                 PROVE  IsFiniteSet(chan[k].missed) /\ chan[k].lag <= Cardinality(chan[k].missed)
      OBVIOUS
    <3>1. chan[k].missed = {} /\ chan[k].lag = 0
      BY <2>1
    <3>2. IsFiniteSet(chan[k].missed) /\ Cardinality(chan[k].missed) = 0
      BY <2>2, <3>1, Zenon
    <3> QED BY <3>1, <3>2
  <2>6. \A c \in Client : att[c] = None
    BY <1>0
  <2> QED BY <2>1, <2>3, <2>4, <2>5, <2>6 DEF ChannelsSound
<1>5. PublishersSound
  BY <1>0, <1>1 DEF PublishersSound
<1>6. NoSilentGap
  BY <1>0 DEF NoSilentGap
<1> QED BY <1>2, <1>3, <1>4, <1>5, <1>6 DEF SessionInv

\* Every step keeps the invariant.
LEMMA StepInv ==
  ASSUME SessionInv, NoSilentGap, [SessionNext]_sessionVars
  PROVE  SessionInv' /\ NoSilentGap'
<1>1. CASE UNCHANGED sessionVars
  <2>1. UNCHANGED <<seq, ring, lastKey, att, chan, pub, gone, late, ended, logged, archived>>
    BY <1>1 DEF sessionVars
  <2>2. SessionInv'
    BY <2>1 DEF SessionInv, SessionTypeOK, RingOrdered, ChannelsSound, PublishersSound,
                NoDuplicateFrame, FramesOn, FramesOf, TooSlow, Freed
  <2>3. NoSilentGap'
    BY <2>1 DEF NoSilentGap, FramesOn, FramesOf
  <2> QED BY <2>2, <2>3
<1>2. ASSUME NEW c \in Client, NEW k \in Chan, NEW r \in Role, NEW asked \in {None, 0},
             Attach(c, k, r, asked)
      PROVE  SessionInv' /\ NoSilentGap'
  BY <1>2, AttachInv
<1>3. ASSUME NEW c \in Client, Detach(c) \/ Disconnect(c) PROVE SessionInv' /\ NoSilentGap'
  BY <1>3, DetachInv, DisconnectInv
<1>4. ASSUME NEW k \in Chan, Drain(k) \/ RelayEnds(k) PROVE SessionInv' /\ NoSilentGap'
  BY <1>4, DrainInv, RelayEndsInv
<1>5. ASSUME NEW p \in Producer, Producing(p) PROVE SessionInv' /\ NoSilentGap'
  BY <1>5, PublishInv, FanOutInv, EvictSlowInv, SpillInv DEF Producing
<1>6. CASE Close
  BY <1>6, CloseInv
<1> QED BY <1>1, <1>2, <1>3, <1>4, <1>5, <1>6 DEF SessionNext

\* Whatever publishers that have left the session lock still have to do, no
\* client is sent a frame twice on one attachment, and the ring holds, in order
\* and within its bound, all that was published since its oldest entry
\* (publish_output, fan_out, attach, detach, ReplayBuffer).
THEOREM SessionSound == SessionSpec => []SessionInv
<1>1. SessionInv /\ NoSilentGap /\ [SessionNext]_sessionVars => SessionInv' /\ NoSilentGap'
  BY StepInv
<1> QED BY <1>1, InitInv, PTL DEF SessionSpec

\* Every frame published since the first frame of a live attachment was sent on
\* it, is on its way, or was refused by the full channel and counted as lag
\* (attach replays under the lock that publish numbers frames under).
THEOREM NothingSkipped == SessionSpec => []NoSilentGap
<1>1. SessionInv /\ NoSilentGap /\ [SessionNext]_sessionVars => SessionInv' /\ NoSilentGap'
  BY StepInv
<1> QED BY <1>1, InitInv, PTL DEF SessionSpec

-----------------------------------------------------------------------------
(* Attachments.                                                            *)

\* Only attaching gives a client an attachment, or a role.
LEMMA AttachmentsEnd ==
  ASSUME SessionInv, [SessionNext]_sessionVars,
         \A c \in Client, k \in Chan, r \in Role, asked \in {None, 0} : ~Attach(c, k, r, asked)
  PROVE  \A c \in Client : att'[c] # None => att'[c] = att[c]
<1>0. att \in [Client -> Attachment \cup {None}]
  BY DEF SessionInv, SessionTypeOK
<1>1. ASSUME NEW c \in Client, Detach(c) PROVE \A b \in Client : att'[b] # None => att'[b] = att[b]
  BY <1>0, <1>1 DEF Detach, Remaining
<1>2. CASE Close
  BY <1>0, <1>2 DEF Close, Leaves, Remaining
<1>8. ASSUME NEW p \in Producer, Spill(p) PROVE \A b \in Client : att'[b] # None => att'[b] = att[b]
  BY <1>0, <1>8 DEF Spill, Leaves
<1>3. ASSUME NEW p \in Producer, EvictSlow(p) PROVE \A b \in Client : att'[b] # None => att'[b] = att[b]
  BY <1>0, <1>3 DEF EvictSlow
<1>4. ASSUME NEW p \in Producer, Producing(p), ~EvictSlow(p), ~Spill(p) PROVE att' = att
  BY <1>4 DEF Producing, Publish, FanOut
<1>5. ASSUME NEW c \in Client, Disconnect(c) PROVE att' = att
  BY <1>5 DEF Disconnect
<1>6. ASSUME NEW k \in Chan, Drain(k) \/ RelayEnds(k) PROVE att' = att
  BY <1>6 DEF Drain, RelayEnds
<1>7. CASE UNCHANGED sessionVars
  BY <1>7 DEF sessionVars
<1> QED BY <1>1, <1>2, <1>3, <1>4, <1>5, <1>6, <1>7, <1>8 DEF SessionNext

\* At most one attachment is the controller, also while closed attachments wait
\* to be reaped and clients attach anew (grant_role).
THEOREM ControlIsExclusive == SessionSpec => []OneController
<1>1. SessionInit => OneController
  BY DEF SessionInit, OneController
<1>2. ASSUME SessionInv, OneController, [SessionNext]_sessionVars PROVE OneController'
  <2>1. CASE \A c \in Client, k \in Chan, r \in Role, asked \in {None, 0} : ~Attach(c, k, r, asked)
    BY <1>2, <2>1, AttachmentsEnd DEF OneController
  <2>2. ASSUME NEW c \in Client, NEW k \in Chan, NEW r \in Role, NEW asked \in {None, 0},
               Attach(c, k, r, asked)
        PROVE  OneController'
    <3>1. /\ \A b \in Client : b # c /\ att'[b] # None => att'[b] = att[b]
          /\ \A b \in Client \ {c} : att'[b] # None /\ att'[b].role = "controller" =>
               att'[c].role = "observer"
      BY <1>2, <2>2, AttachEffect
    <3> QED BY <1>2, <3>1 DEF OneController
  <2> QED BY <2>1, <2>2
<1> QED BY <1>1, <1>2, SessionSound, PTL DEF SessionSpec

\* A channel that is closed or lags was too slow.
LEMMA LagIsSlow ==
  ASSUME SessionInv', NEW k \in Chan, ~chan'[k].open \/ chan'[k].lag >= LagLimit
  PROVE  TooSlow(k)'
<1>1. /\ chan'[k] \in Channel /\ IsFiniteSet(chan'[k].missed)
      /\ chan'[k].lag <= Cardinality(chan'[k].missed)
  BY DEF SessionInv, SessionTypeOK, ChannelsSound
<1>2. chan'[k].lag \in Nat /\ LagLimit \in Nat /\ Cardinality(chan'[k].missed) \in Nat
  BY <1>1, ChannelFields, FS_CardinalityType, SessionAssumption
<1>3. chan'[k].lag >= LagLimit => Cardinality(chan'[k].missed) >= LagLimit
  BY <1>1, <1>2
<1> QED BY <1>3 DEF TooSlow

\* An attachment ends.
Ends(c) == att[c] # None /\ att'[c] = None

\* What ended it.
Ended(c) == \E k \in Chan : chan[k].client = c /\ k <= att[c].chan /\ TooSlow(k)'

\* A step that is not the client's own detach and does not free the session
\* ends the attachments of closed and of too slow clients only.
LEMMA EndsEnded ==
  ASSUME SessionInv, SessionInv', [SessionNext]_sessionVars, NEW c \in Client, Ends(c),
         ~Detach(c), ~Freed'
  PROVE  Ended(c)
<1>0. /\ att \in [Client -> Attachment \cup {None}] /\ att[c].chan \in Chan
      /\ chan[att[c].chan].used /\ chan[att[c].chan].client = c /\ att[c].chan <= att[c].chan
      /\ \A k \in Chan : chan[k].used /\ chan[k].client = c => k <= att[c].chan
  BY DEF SessionInv, SessionTypeOK, ChannelsSound, Attachment, Ends, Chan
<1>1. ~chan'[att[c].chan].open \/ chan'[att[c].chan].lag >= LagLimit => Ended(c)
  BY <1>0, LagIsSlow DEF Ended
<1>2. ASSUME NEW b \in Client, NEW k \in Chan, NEW r \in Role, NEW asked \in {None, 0},
             Attach(b, k, r, asked)
      PROVE  Ended(c)
  <2>1. /\ att'[b] # None
        /\ c # b /\ att'[c] = None /\ att[c] # None =>
               ~chan'[att[c].chan].open \/ chan'[att[c].chan].lag >= LagLimit
    BY <1>2, AttachEffect
  <2> QED BY <1>1, <2>1 DEF Ends
<1>3. ASSUME NEW b \in Client, Detach(b) PROVE Ended(c)
  <2> DEFINE a == [att EXCEPT ![b] = None]
  <2>1. att' = Remaining(a, chan') /\ b # c
    BY <1>3 DEF Detach
  <2>2. a[c] = att[c]
    BY <1>0, <2>1
  <2> HIDE DEF a
  <2> QED BY <1>1, <2>1, <2>2 DEF Remaining, Ends
<1>4. CASE Close
  <2>1. att' = Remaining(att, chan')
    BY <1>4 DEF Close, Leaves
  <2> QED BY <1>1, <2>1 DEF Remaining, Ends
<1>5. ASSUME NEW p \in Producer, EvictSlow(p) PROVE Ended(c)
  <2>1. c \in pub[p].evict /\ chan' = chan
    BY <1>5 DEF EvictSlow, Ends
  <2>2. PICK k \in Chan : chan[k].used /\ chan[k].client = c /\ TooSlow(k)
    BY <2>1 DEF SessionInv, PublishersSound
  <2> QED BY <1>0, <2>1, <2>2 DEF Ended, TooSlow
<1>6. ASSUME NEW p \in Producer, Producing(p), ~EvictSlow(p) PROVE FALSE
  BY <1>6 DEF Producing, Publish, FanOut, Spill, Leaves, Ends
<1>7. ASSUME NEW b \in Client, Disconnect(b) PROVE FALSE
  BY <1>7 DEF Disconnect, Ends
<1>8. ASSUME NEW k \in Chan, Drain(k) \/ RelayEnds(k) PROVE FALSE
  BY <1>8 DEF Drain, RelayEnds, Ends
<1>9. ~UNCHANGED sessionVars
  BY DEF sessionVars, Ends
<1> QED BY <1>2, <1>3, <1>4, <1>5, <1>6, <1>7, <1>8, <1>9 DEF SessionNext

\* A client that does not leave loses its attachment, while the session lives,
\* only when one of its channels, this one or an earlier one of the same client,
\* was closed or has refused LAG_EVICT_THRESHOLD frames (fan_out, broadcast,
\* reap_closed_attachments).
THEOREM OnlySlowEvicted == SessionSpec => EvictedClientWasSlow
<1>1. SessionInv /\ SessionInv' /\ [SessionNext]_sessionVars =>
        [\A c \in Client :
           att[c] # None /\ att'[c] = None
             => \/ Detach(c) \/ Freed'
                \/ \E k \in Chan : /\ chan[k].client = c /\ k <= att[c].chan
                                   /\ TooSlow(k)']_sessionVars
  BY EndsEnded DEF Ends, Ended
<1> QED BY <1>1, SessionSound, PTL DEF SessionSpec, EvictedClientWasSlow

-----------------------------------------------------------------------------
(* Keyframes and the transcript.                                           *)

\* Only a publish changes the ring, its keyframe pointer and what was published,
\* until they go with the session.
LEMMA RingUntouched ==
  ASSUME SessionInv, [SessionNext]_sessionVars, \A p \in Producer, kind \in Kind : ~Publish(p, kind)
  PROVE  /\ logged' = logged
         /\ \/ UNCHANGED <<ring, lastKey>> /\ (Freed => Freed')
            \/ ring' = <<>> /\ lastKey' = None /\ Freed'
<1>1. CASE UNCHANGED sessionVars
  BY <1>1 DEF sessionVars, Freed
<1>2. ASSUME NEW c \in Client, NEW k \in Chan, NEW r \in Role, NEW asked \in {None, 0},
             Attach(c, k, r, asked)
      PROVE  UNCHANGED <<ring, lastKey, logged, pub, gone, late>>
  BY <1>2 DEF Attach
<1>3. ASSUME NEW c \in Client, Detach(c) \/ Disconnect(c)
      PROVE  UNCHANGED <<ring, lastKey, logged, pub, gone, late>>
  BY <1>3 DEF Detach, Disconnect
<1>4. ASSUME NEW k \in Chan, Drain(k) \/ RelayEnds(k)
      PROVE  UNCHANGED <<ring, lastKey, logged, pub, gone, late>>
  BY <1>4 DEF Drain, RelayEnds
<1>5. ASSUME NEW p \in Producer, Producing(p)
      PROVE  /\ logged' = logged /\ ~Freed
             /\ \/ UNCHANGED <<ring, lastKey>>
                \/ ring' = <<>> /\ lastKey' = None /\ Freed'
  BY <1>5 DEF Producing, FanOut, EvictSlow, Spill, Leaves, Freed
<1>6. CASE Close
  <2>1. logged' = logged /\ ~Freed /\ Leaves(ring, lastKey, Remaining(att, chan'))
    BY <1>6 DEF Close, Freed
  <2> QED BY <2>1 DEF Leaves
<1>7. UNCHANGED <<pub, gone, late>> => Freed' = Freed
  BY DEF Freed
<1> QED BY <1>1, <1>2, <1>3, <1>4, <1>5, <1>6, <1>7 DEF SessionNext

\* The pointer moves to a new keyframe, and falls with the entry it names.
LEMMA KeyframeStep ==
  ASSUME SessionInv, KeyframePointer, NEW p \in Producer, NEW kind \in Kind, Publish(p, kind)
  PROVE  KeyframePointer'
<1>1. PICK entry \in Frame, d \in {0, 1} :
           /\ entry.seq = seq + 1 /\ lastKey' = KeyAfter(entry)
           /\ d = 0 => Evicted = {}
           /\ d = 1 => ring # <<>> /\ Evicted = {ring[1]}
           /\ d <= Len(ring) /\ Len(ring) \in Nat
           /\ DOMAIN ring' = 1..(Len(ring) - d + 1) /\ DOMAIN ring = 1..Len(ring)
           /\ \A i \in 1..(Len(ring) - d) : ring'[i] = ring[i + d]
           /\ ring'[Len(ring) - d + 1] = entry
  BY PublishEffect
<1> DEFINE len == Len(ring)
           z == len - d
           K == {i \in DOMAIN ring : ring[i].kind = "keyframe"}
           L == {i \in DOMAIN ring' : ring'[i].kind = "keyframe"}
<1>2. /\ \A i \in 1..len : ring[i].seq \in SeqNo
      /\ \A i, j \in 1..len : ring[i].seq = ring[j].seq => i = j
  <2>1. \A e \in Frame : e.seq \in SeqNo
    BY DEF Frame
  <2>2. \A i \in 1..len : ring[i].seq \in SeqNo
    BY <1>1, <2>1 DEF SessionInv, SessionTypeOK
  <2>3. \A i, j \in 1..len : i < j => ring[i].seq < ring[j].seq
    BY <1>1 DEF SessionInv, RingOrdered
  <2>4. ASSUME NEW i \in 1..len, NEW j \in 1..len, ring[i].seq = ring[j].seq PROVE i = j
    <3>1. ring[i].seq \in Nat /\ ~(ring[i].seq < ring[j].seq) /\ ~(ring[j].seq < ring[i].seq)
      BY <2>2, <2>4 DEF SeqNo
    <3>2. ~(i < j) /\ ~(j < i)
      BY <2>3, <3>1
    <3> QED BY <3>2
  <2> QED BY <2>2, <2>4
<1>3. IF K = {} THEN lastKey = None ELSE \E i \in K : ring[i].seq = lastKey /\ \A j \in K : j <= i
  BY DEF KeyframePointer
<1>4. /\ z \in Nat /\ (\A i \in 1..z : i + d \in 1..len /\ ring'[i] = ring[i + d])
      /\ DOMAIN ring' = 1..(z + 1) /\ ring'[z + 1] = entry
      /\ (\A i \in 1..len : i > d => i - d \in 1..z /\ (i - d) + d = i)
      /\ K = {i \in 1..len : ring[i].kind = "keyframe"} /\ len \in Nat /\ d \in Nat
  BY <1>1
<1> SUFFICES IF L = {} THEN lastKey' = None
             ELSE \E i \in L : ring'[i].seq = lastKey' /\ \A j \in L : j <= i
  BY DEF KeyframePointer
<1>5. L = {i \in 1..(z + 1) : ring'[i].kind = "keyframe"}
  BY <1>4
<1> HIDE DEF K, L, z, len
<1>6. CASE entry.kind = "keyframe"
  <2>1. lastKey' = entry.seq
    BY <1>1, <1>6 DEF KeyAfter
  <2>2. z + 1 \in L /\ \A j \in L : j <= z + 1
    BY <1>4, <1>5, <1>6
  <2> QED BY <1>4, <2>1, <2>2
<1>7. CASE entry.kind # "keyframe"
  <2>1. \A i \in L : i \in 1..z /\ i + d \in K
    BY <1>4, <1>5, <1>7
  <2>2. \A i \in K : i > d => i - d \in L /\ i - d \in 1..z
    BY <1>4, <1>5
  <2>3. CASE \E e \in Evicted : e.seq = lastKey
    <3>1. lastKey' = None
      BY <1>1, <1>7, <2>3 DEF KeyAfter
    <3>2. d = 1 /\ ring[1].seq = lastKey /\ 1 \in 1..len
      BY <1>1, <1>4, <2>3 DEF len
    <3>3. lastKey # None
      BY <1>2, <3>2, NoSessionAssumption
    <3>4. PICK i \in K : ring[i].seq = lastKey /\ \A j \in K : j <= i
      BY <1>3, <3>3
    <3>5. i = 1
      BY <1>2, <1>4, <3>2, <3>4
    <3>6. L = {}
      <4>1. ASSUME NEW j \in L PROVE FALSE
        <5>1. j \in 1..z /\ j + 1 \in K
          BY <2>1, <3>2, <4>1
        <5>2. j + 1 <= 1
          BY <3>4, <3>5, <5>1
        <5> QED BY <1>4, <5>1, <5>2
      <4> QED BY <4>1
    <3> QED BY <3>1, <3>6
  <2>4. CASE ~\E e \in Evicted : e.seq = lastKey
    <3>1. lastKey' = lastKey
      BY <1>1, <1>7, <2>4 DEF KeyAfter
    <3>2. CASE K = {}
      <4>1. L = {} /\ lastKey = None
        BY <1>3, <2>1, <3>2
      <4> QED BY <3>1, <4>1
    <3>3. CASE K # {}
      <4>1. PICK i \in K : ring[i].seq = lastKey /\ \A j \in K : j <= i
        BY <1>3, <3>3
      <4>2. i \in 1..len /\ (d = 1 => i # 1)
        BY <1>1, <1>4, <2>4, <4>1
      <4>3. i > d
        BY <1>4, <4>2
      <4>4. i - d \in L /\ i - d \in 1..z /\ (i - d) + d = i
        BY <1>4, <2>2, <4>2, <4>3
      <4>5. ring'[i - d].seq = lastKey'
        BY <1>4, <3>1, <4>1, <4>4
      <4>6. ASSUME NEW j \in L PROVE j <= i - d
        <5>1. j \in 1..z /\ j + d <= i
          BY <2>1, <4>1
        <5> QED BY <1>4, <4>2, <5>1
      <4> QED BY <4>4, <4>5, <4>6
    <3> QED BY <3>2, <3>3
  <2> QED BY <2>3, <2>4
<1> QED BY <1>6, <1>7

\* last_keyframe_seq names the newest keyframe of the ring exactly while the
\* ring holds one: a fresh join never starts at an entry that was evicted
\* (push_entry, attach).
THEOREM JoinsAtKeyframe == SessionSpec => []KeyframePointer
<1>1. SessionInit => KeyframePointer
  BY DEF SessionInit, KeyframePointer
<1>2. ASSUME SessionInv, KeyframePointer, [SessionNext]_sessionVars PROVE KeyframePointer'
  <2>1. CASE \A p \in Producer, kind \in Kind : ~Publish(p, kind)
    <3>1. UNCHANGED <<ring, lastKey>> \/ (ring' = <<>> /\ lastKey' = None)
      BY <1>2, <2>1, RingUntouched
    <3>2. ring' = <<>> => DOMAIN ring' = {}
      OBVIOUS
    <3> QED BY <1>2, <3>1, <3>2 DEF KeyframePointer
  <2>2. CASE \E p \in Producer, kind \in Kind : Publish(p, kind)
    BY <1>2, <2>2, KeyframeStep
  <2> QED BY <2>1, <2>2
<1> QED BY <1>1, <1>2, SessionSound, PTL DEF SessionSpec

\* The numbers the archive was handed: written, failed and counted, or on their way.
Handed == archived \cup UNION {pub[p].spill : p \in Producer}

\* They are older than what the ring holds.
HandedBefore == \A n \in Handed : n \in Nat /\ n <= seq /\ \A i \in DOMAIN ring : n < ring[i].seq

\* The rest is in the ring, while the session lives.
RestInRing == ~Freed => \A f \in Unarchived : \E i \in DOMAIN ring : ring[i] = f

\* What of the transcript survives the session: all but the end.
TailOnly ==
  /\ Cardinality(Unarchived) <= MaxFrames
  /\ \A f \in Unarchived, g \in logged :
       f.seq <= g.seq /\ g.kind # "resize" => g \in Unarchived

\* What the archive was not handed.
LEMMA UnarchivedIs == Unarchived = {f \in logged : f.kind # "resize" /\ f.seq \notin Handed}
BY DEF Unarchived, Handed

\* What the archive was not handed is the end of the output while it is in the ring.
LEMMA RingIsTail ==
  ASSUME SessionInv, HandedBefore, RestInRing, ~Freed
  PROVE  TailOnly
<1> DEFINE len == Len(ring)
           R == {ring[i] : i \in 1..len}
<1>0. /\ ring \in Seq(Frame) /\ len \in Nat /\ len <= MaxFrames /\ MaxFrames \in Nat /\ DOMAIN ring = 1..len
      /\ \A f \in logged : f.seq \in SeqNo
      /\ \A i \in 1..len : ring[i] \in logged
      /\ \A i, j \in 1..len : i < j => ring[i].seq < ring[j].seq
  BY SessionAssumption DEF SessionInv, SessionTypeOK, RingOrdered, Frame
<1>1. Unarchived \in SUBSET R
  BY <1>0 DEF RestInRing
<1>2. IsFiniteSet(R) /\ Cardinality(R) <= len
  <2>1. IsFiniteSet(1..len) /\ Cardinality(1..len) = len
    <3> HIDE DEF len
    <3>1. 1 \in Int /\ len \in Int /\ len \in Nat /\ len - 1 + 1 = len /\ (1 > len => len = 0)
      BY <1>0
    <3>2. IsFiniteSet(1..len) /\ Cardinality(1..len) = IF 1 > len THEN 0 ELSE len - 1 + 1
      BY <3>1, FS_Interval
    <3> QED BY <3>1, <3>2
  <2> DEFINE g == [i \in 1..len |-> ring[i]]
  <2>2. R = {g[i] : i \in 1..len}
    OBVIOUS
  <2>3. g \in Surjection(1..len, R)
    BY DEF Surjection
  <2> HIDE DEF g, R
  <2> QED BY <2>1, <2>3, FS_Surjection
<1>3. Cardinality(Unarchived) <= MaxFrames
  <2>1. IsFiniteSet(Unarchived) /\ Cardinality(Unarchived) <= Cardinality(R)
    BY <1>1, <1>2, FS_Subset
  <2>2. Cardinality(Unarchived) \in Nat /\ Cardinality(R) \in Nat
    BY <1>2, <2>1, FS_CardinalityType
  <2> QED BY <1>0, <1>2, <2>1, <2>2
<1>4. ASSUME NEW f \in Unarchived, NEW g \in logged, f.seq <= g.seq, g.kind # "resize"
      PROVE  g \in Unarchived
  <2>1. PICK i \in 1..len : ring[i] = f
    BY <1>0 DEF RestInRing
  <2>2. ring[1].seq <= f.seq /\ ring[1].seq \in Nat /\ f.seq \in Nat /\ g.seq \in Nat
    <3>1. 1 \in 1..len /\ (i = 1 \/ 1 < i)
      BY <1>0, <2>1
    <3>2. ring[1].seq \in Nat /\ f.seq \in Nat /\ g.seq \in Nat
      BY <1>0, <2>1, <3>1 DEF SeqNo
    <3> QED BY <1>0, <2>1, <3>1, <3>2
  <2>3. ring[1].seq <= g.seq
    BY <1>4, <2>2
  <2>4. PICK j \in 1..len : ring[j] = g
    BY <1>0, <2>3 DEF SessionInv, RingOrdered
  <2>5. g.seq \notin Handed
    BY <1>0, <2>2, <2>4 DEF HandedBefore
  <2> QED BY <1>4, <2>5, UnarchivedIs
<1> QED BY <1>3, <1>4 DEF TailOnly

\* Only a publish hands something to the archive.
LEMMA HandedUntouched ==
  ASSUME SessionInv, [SessionNext]_sessionVars, \A p \in Producer, kind \in Kind : ~Publish(p, kind)
  PROVE  Handed' = Handed
<1>0. pub \in [Producer -> Publisher]
  BY DEF SessionInv, SessionTypeOK, Publisher
<1>1. ASSUME UNCHANGED <<pub, archived>> PROVE Handed' = Handed
  BY <1>1 DEF Handed
<1>2. ASSUME NEW p \in Producer, NEW c \in Client, NEW k \in Chan, FanOut(p, c, k) PROVE Handed' = Handed
  <2>1. archived' = archived /\ \A q \in Producer : pub'[q].spill = pub[q].spill
    BY <1>2, FanOutEffect DEF FanOut
  <2> QED BY <2>1 DEF Handed
<1>3. ASSUME NEW p \in Producer, EvictSlow(p) PROVE Handed' = Handed
  <2>1. archived' = archived /\ \A q \in Producer : pub'[q].spill = pub[q].spill
    BY <1>0, <1>3 DEF EvictSlow, Publisher
  <2> QED BY <2>1 DEF Handed
<1>4. ASSUME NEW p \in Producer, Spill(p) PROVE Handed' = Handed
  <2>1. /\ archived' = archived \cup pub[p].spill /\ pub'[p].spill = {}
        /\ \A q \in Producer : q # p => pub'[q] = pub[q]
    BY <1>0, <1>4 DEF Spill, Idle
  <2> QED BY <2>1 DEF Handed
<1>5. ASSUME NEW c \in Client, NEW k \in Chan, NEW r \in Role, NEW asked \in {None, 0},
             Attach(c, k, r, asked)
      PROVE  UNCHANGED <<pub, archived>>
  BY <1>5 DEF Attach
<1>6. ASSUME NEW c \in Client, Detach(c) \/ Disconnect(c) PROVE UNCHANGED <<pub, archived>>
  BY <1>6 DEF Detach, Disconnect
<1>7. ASSUME NEW k \in Chan, Drain(k) \/ RelayEnds(k) PROVE UNCHANGED <<pub, archived>>
  BY <1>7 DEF Drain, RelayEnds
<1>8. Close => UNCHANGED <<pub, archived>>
  BY DEF Close
<1>9. UNCHANGED sessionVars => UNCHANGED <<pub, archived>>
  BY DEF sessionVars
<1> QED BY <1>1, <1>2, <1>3, <1>4, <1>5, <1>6, <1>7, <1>8, <1>9 DEF SessionNext, Producing

\* What leaves the ring is handed to the archive by the publisher that made room.
LEMMA HandedStep ==
  ASSUME SessionInv, HandedBefore, RestInRing, NEW p \in Producer, NEW kind \in Kind, Publish(p, kind)
  PROVE  HandedBefore' /\ RestInRing'
<1>1. PICK entry \in Frame, d \in {0, 1} :
           /\ logged' = logged \cup {entry} /\ pub[p].pc = "idle" /\ archived' = archived
           /\ entry.seq = seq + 1 /\ seq' = seq + 1 /\ seq \in Nat
           /\ d = 0 => Evicted = {}
           /\ d = 1 => ring # <<>> /\ Evicted = {ring[1]}
           /\ d <= Len(ring) /\ Len(ring) \in Nat
           /\ DOMAIN ring' = 1..(Len(ring) - d + 1) /\ DOMAIN ring = 1..Len(ring)
           /\ \A i \in 1..(Len(ring) - d) : ring'[i] = ring[i + d]
           /\ ring'[Len(ring) - d + 1] = entry
           /\ \A q \in Producer : q # p => pub'[q] = pub[q]
           /\ pub'[p].spill = {e.seq : e \in {f \in Evicted : f.kind # "resize"}}
  BY PublishEffect
<1>2. pub[p].spill = {} /\ ~Freed
  BY <1>1 DEF SessionInv, PublishersSound, Publish, Freed
<1> DEFINE len == Len(ring)
           z == len - d
           W == {e.seq : e \in {f \in Evicted : f.kind # "resize"}}
<1>3. /\ z \in Nat /\ DOMAIN ring' = 1..(z + 1) /\ ring'[z + 1] = entry /\ DOMAIN ring = 1..len
      /\ \A i \in 1..z : ring'[i] = ring[i + d] /\ i + d \in 1..len /\ (d = 1 => 1 < i + d)
      /\ \A i \in 1..len : i > d => i - d \in 1..z /\ (i - d) + d = i
      /\ \A i \in 1..len : i > d \/ (d = 1 /\ i = 1)
      /\ d = 1 => 1 \in 1..len
  BY <1>1
<1>4. Handed' = Handed \cup W
  BY <1>1, <1>2 DEF Handed
<1>5. /\ \A f \in logged : f.seq \in Nat /\ f.seq <= seq
      /\ \A i \in 1..len : ring[i] \in logged
      /\ \A i, j \in 1..len : i < j => ring[i].seq < ring[j].seq
  BY <1>3 DEF SessionInv, SessionTypeOK, RingOrdered, Frame, SeqNo
<1> HIDE DEF z, len
<1>6. \A n \in W : d = 1 /\ n = ring[1].seq
  BY <1>1
<1> HIDE DEF W
<1>7. HandedBefore'
  <2> SUFFICES ASSUME NEW n \in Handed'
               PROVE  n \in Nat /\ n <= seq' /\ \A i \in DOMAIN ring' : n < ring'[i].seq
    BY DEF HandedBefore
  <2>1. CASE n \in Handed
    <3>1. n \in Nat /\ n <= seq /\ \A i \in 1..len : n < ring[i].seq
      BY <1>3, <2>1 DEF HandedBefore
    <3>2. ASSUME NEW i \in 1..(z + 1) PROVE n < ring'[i].seq
      <4>1. CASE i = z + 1
        BY <1>1, <1>3, <3>1, <4>1
      <4>2. CASE i \in 1..z
        BY <1>3, <3>1, <4>2
      <4> QED BY <1>3, <4>1, <4>2
    <3> QED BY <1>1, <1>3, <3>1, <3>2
  <2>2. CASE n \in W
    <3>1. d = 1 /\ n = ring[1].seq /\ 1 \in 1..len
      BY <1>3, <1>6, <2>2
    <3>2. n \in Nat /\ n <= seq
      BY <1>5, <3>1
    <3>3. ASSUME NEW i \in 1..(z + 1) PROVE n < ring'[i].seq
      <4>1. CASE i = z + 1
        BY <1>1, <1>3, <3>2, <4>1
      <4>2. CASE i \in 1..z
        BY <1>3, <1>5, <3>1, <4>2
      <4> QED BY <1>3, <4>1, <4>2
    <3> QED BY <1>1, <1>3, <3>2, <3>3
  <2> QED BY <1>4, <2>1, <2>2
<1>8. Unarchived' = {f \in logged' : f.kind # "resize" /\ f.seq \notin Handed'}
  BY DEF Unarchived, Handed
<1>9. ASSUME NEW f \in Unarchived' PROVE \E i \in DOMAIN ring' : ring'[i] = f
  <2>1. f \in logged' /\ f.kind # "resize" /\ f.seq \notin Handed /\ f.seq \notin W
    BY <1>4, <1>8, <1>9
  <2>2. CASE f = entry
    <3>1. z + 1 \in DOMAIN ring'
      BY <1>3
    <3> QED BY <1>3, <2>2, <3>1
  <2>3. CASE f \in logged
    <3>1. f \in Unarchived
      BY <2>1, <2>3, UnarchivedIs
    <3>2. PICK i \in 1..len : ring[i] = f
      BY <1>2, <1>3, <3>1 DEF RestInRing
    <3>3. CASE i > d
      <4>1. i - d \in 1..z /\ ring'[i - d] = f
        BY <1>3, <3>2, <3>3
      <4>2. i - d \in DOMAIN ring'
        BY <1>3, <4>1
      <4> QED BY <4>1, <4>2
    <3>4. CASE d = 1 /\ i = 1
      <4>1. f \in Evicted
        BY <1>1, <3>2, <3>4
      <4> QED BY <2>1, <4>1 DEF W
    <3> QED BY <1>3, <3>3, <3>4
  <2> QED BY <1>1, <2>1, <2>2, <2>3
<1> QED BY <1>7, <1>9 DEF RestInRing

\* Numbers only grow.
LEMMA SeqGrows ==
  ASSUME SessionInv, [SessionNext]_sessionVars
  PROVE  seq \in Nat /\ seq' \in Nat /\ seq <= seq'
<1>1. seq \in Nat
  BY StateChannels
<1>2. seq' \in {seq, seq + 1, seq + 2}
  BY DEF SessionNext, Producing, Attach, Detach, Disconnect, Drain, RelayEnds, Close, Publish, FanOut,
         EvictSlow, Spill, sessionVars
<1> QED BY <1>1, <1>2

\* The transcript of a session has no hole: while the session lives, output is in
\* the ring or was handed to the archive, and what the archive misses once it was
\* closed with its ring unspilled is the end of the output, no longer than the
\* ring, also when it was removed while publishers were still at work
\* (archive_evicted after the session lock, close).
THEOREM TranscriptHasNoHole == SessionSpec => []TranscriptComplete
<1> DEFINE J == HandedBefore /\ RestInRing /\ (Freed => TailOnly)
<1>1. SessionInit => J
  <2> SUFFICES ASSUME SessionInit PROVE J
    OBVIOUS
  <2>1. archived = {} /\ logged = {} /\ gone = FALSE /\ \A p \in Producer : pub[p].spill = {}
    BY DEF SessionInit, Idle
  <2>2. Handed = {} /\ Unarchived = {} /\ ~Freed
    BY <2>1 DEF Handed, Unarchived, Freed
  <2> QED BY <2>2 DEF HandedBefore, RestInRing
<1>2. SessionInv /\ J => TranscriptComplete
  BY RingIsTail DEF TranscriptComplete, RestInRing, TailOnly
<1>3. ASSUME SessionInv, J, [SessionNext]_sessionVars PROVE J'
  <2>1. CASE \E p \in Producer, kind \in Kind : Publish(p, kind)
    <3>1. PICK p \in Producer, kind \in Kind : Publish(p, kind)
      BY <2>1
    <3>2. HandedBefore' /\ RestInRing'
      BY <1>3, <3>1, HandedStep
    <3>3. ~Freed'
      <4>1. pub'[p].pc = "fan"
        BY <1>3, <3>1, PublishEffect
      <4> QED BY <4>1 DEF Freed
    <3> QED BY <3>2, <3>3
  <2>2. CASE \A p \in Producer, kind \in Kind : ~Publish(p, kind)
    <3>1. /\ logged' = logged
          /\ \/ ring' = ring /\ (Freed => Freed')
             \/ ring' = <<>> /\ Freed'
      BY <1>3, <2>2, RingUntouched
    <3>2. Handed' = Handed
      BY <1>3, <2>2, HandedUntouched
    <3>3. Unarchived' = Unarchived
      <4>1. Unarchived' = {f \in logged' : f.kind # "resize" /\ f.seq \notin Handed'}
        BY DEF Unarchived, Handed
      <4> QED BY <3>1, <3>2, <4>1, UnarchivedIs
    <3>4. DOMAIN ring' \subseteq DOMAIN ring /\ \A i \in DOMAIN ring' : ring'[i] = ring[i]
      BY <3>1
    <3>5. seq \in Nat /\ seq' \in Nat /\ seq <= seq'
      BY <1>3, SeqGrows
    <3>6. HandedBefore'
      BY <1>3, <3>2, <3>4, <3>5 DEF HandedBefore
    <3>7. RestInRing'
      BY <1>3, <3>1, <3>3 DEF RestInRing
    <3>8. TailOnly
      BY <1>3, RingIsTail
    <3>9. TailOnly'
      BY <3>1, <3>3, <3>8 DEF TailOnly
    <3> QED BY <3>6, <3>7, <3>9
  <2> QED BY <2>1, <2>2
<1> HIDE DEF J
<1> QED BY <1>1, <1>2, <1>3, SessionSound, PTL DEF SessionSpec

================================================================================
