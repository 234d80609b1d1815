---------------------------- MODULE SessionStream ----------------------------
(***************************************************************************)
(* One terminal session of the session registry                            *)
(* (management/src/session/registry.rs, replay.rs, transcript.rs):         *)
(* producers publish frames, clients attach, fall behind, detach and come  *)
(* back.                                                                   *)
(*                                                                         *)
(* A publisher numbers its frame, puts it into the replay ring and takes a *)
(* snapshot of the senders under the session lock; the fan-out, the        *)
(* eviction of slow clients and the spill to the transcript archive follow *)
(* without it, each send a step of its own.  Every attachment has its own  *)
(* channel, which stays usable for a publisher that holds a snapshot of it *)
(* after the client has attached anew.                                     *)
(*                                                                         *)
(* The session outlives its removal from the registry while a publisher    *)
(* still holds it; with its last holder its ring and its attachments go.   *)
(*                                                                         *)
(* Bytes, encodings, timestamps and the byte cap of the ring are left out: *)
(* the ring is bounded by its number of frames.                            *)
(***************************************************************************)
EXTENDS Naturals, Sequences, FiniteSets

CONSTANTS
  Client,      \* connection ids
  Producer,    \* tasks that publish: agent output, keyframe timer, resize
  None,        \* absent value
  MaxFrames,   \* frames of the replay ring
  Capacity,    \* capacity of an attachment's channel
  LagLimit,    \* LAG_EVICT_THRESHOLD
  MaxAttach,   \* bound on attachments
  Publishes,   \* the kinds of frame a producer publishes
  MaxPublish   \* bound on published frames

ASSUME SessionAssumption ==
  /\ MaxFrames \in Nat \ {0}
  /\ LagLimit \in Nat \ {0}
  /\ Capacity \in Nat /\ Capacity > MaxFrames + 1
  /\ MaxAttach \in Nat /\ MaxPublish \in Nat
  /\ Publishes \in [Producer -> SUBSET {"output", "keyframe", "resize"}]

VARIABLES
  seq,       \* last sequence number given
  ring,      \* the replay ring, oldest first
  lastKey,   \* last_keyframe_seq, or None
  att,       \* the attachment of a client: role and channel, or None
  chan,      \* per channel: its client, receiver alive, frames sent, unread,
             \* lag, missed
  pub,       \* what each producer is doing
  gone,      \* whether the session left the registry
  ended,     \* clients whose connection has ended
  late,      \* producers that looked it up before and have yet to publish
  logged,    \* the frames ever published
  archived   \* sequence numbers of those that were appended to the transcript archive or
             \* counted in its write_errors_total

sessionVars == <<seq, ring, lastKey, att, chan, pub, gone, late, ended, logged, archived>>

Chan == 1..MaxAttach
Kind == {"output", "keyframe", "resize"}
Role == {"controller", "observer"}

\* Sequence numbers, counted from 1.
SeqNo == Nat \ {0}

Frame == [seq : SeqNo, kind : Kind]
Attachment == [role : Role, chan : Chan]

\* A channel: whose it is, whether its receiver is alive, what was sent, how
\* much of that is unread, the lag counted since, and what was refused.
Channel == [used : BOOLEAN, client : Client \cup {None}, open : BOOLEAN,
            sent : Seq(SeqNo), unread : 0..Capacity, lag : Nat, missed : SUBSET SeqNo]

ASSUME NoSessionAssumption == None \notin SeqNo /\ None \notin Attachment

Idle == [pc |-> "idle", seq |-> None, to |-> {}, evict |-> {}, spill |-> {}]

SessionTypeOK ==
  /\ seq \in SeqNo \cup {0}
  /\ ring \in Seq(Frame) /\ Len(ring) <= MaxFrames
  /\ lastKey \in SeqNo \cup {None}
  /\ att \in [Client -> Attachment \cup {None}]
  /\ chan \in [Chan -> Channel]
  /\ pub \in [Producer ->
                [pc : {"idle", "fan", "spill"},
                 seq : SeqNo \cup {None}, to : SUBSET (Client \X Chan),
                 evict : SUBSET Client, spill : SUBSET SeqNo]]
  /\ gone \in BOOLEAN /\ late \subseteq Producer /\ ended \subseteq Client
  /\ logged \subseteq Frame
  /\ archived \subseteq SeqNo

NewChan == [used |-> FALSE, client |-> None, open |-> FALSE, sent |-> <<>>, unread |-> 0,
            lag |-> 0, missed |-> {}]

SessionInit ==
  /\ seq = 0 /\ ring = <<>> /\ lastKey = None
  /\ att = [c \in Client |-> None]
  /\ chan = [k \in Chan |-> NewChan]
  /\ pub = [p \in Producer |-> Idle]
  /\ gone = FALSE /\ late = {} /\ ended = {} /\ logged = {} /\ archived = {}

\* The registry no longer has the session and no publisher holds it, or is yet
\* to publish: the last reference is dropped, and the session with it.
Freed == gone /\ late = {} /\ \A p \in Producer : pub[p].pc = "idle"

\* What is left of the ring r, its keyframe pointer k and the attachments a
\* after a step that may drop the last reference.
Leaves(r, k, a) ==
  /\ ring' = IF Freed' THEN <<>> ELSE r
  /\ lastKey' = IF Freed' THEN None ELSE k
  /\ att' = IF Freed' THEN [c \in Client |-> None] ELSE a

-----------------------------------------------------------------------------
(* ReplayBuffer.                                                           *)

\* push_entry: the oldest entries make room for the new one.
Pushed(entry) ==
  LET kept == IF Len(ring) >= MaxFrames THEN Tail(ring) ELSE ring
  IN Append(kept, entry)

Evicted == IF Len(ring) >= MaxFrames THEN {ring[1]} ELSE {}

\* Mutant: the pointer outlives its entry.
KeyAfterKept(entry) == IF entry.kind = "keyframe" THEN entry.seq ELSE lastKey

\* The keyframe pointer falls with its entry and moves to a new keyframe.
KeyAfter(entry) ==
  IF entry.kind = "keyframe" THEN entry.seq
  ELSE IF \E e \in Evicted : e.seq = lastKey THEN None
  ELSE lastKey

\* The positions of the entries of ring r that frames_from keeps.
Later(r, n) == {i \in DOMAIN r : r[i].seq >= n}

FirstLater(r, n) == CHOOSE i \in Later(r, n) : \A j \in Later(r, n) : i <= j

\* frames_from: entries are in the ring in the order of their numbers (see
\* RingOrdered), so the ones the filter keeps are a suffix.
FramesFrom(r, n) ==
  IF Later(r, n) = {} THEN <<>>
  ELSE [i \in 1..(Len(r) - FirstLater(r, n) + 1) |-> r[FirstLater(r, n) + i - 1].seq]

-----------------------------------------------------------------------------
(* Channels.                                                               *)

\* try_send on a channel: a full one counts lag and drops the frame.
TrySend(ch, s) ==
  IF ch.unread < Capacity
  THEN [ch EXCEPT !.sent = Append(@, s), !.unread = @ + 1, !.lag = 0]
  ELSE [ch EXCEPT !.lag = @ + 1, !.missed = @ \cup {s}]

\* Session::broadcast of frame s to the attachments a over the channels cs:
\* closed channels and the ones at the lag limit lose their attachment.
Sent(a, cs, s) ==
  [k \in Chan |-> IF /\ \E c \in Client : a[c] # None /\ a[c].chan = k
                     /\ cs[k].open
                  THEN TrySend(cs[k], s) ELSE cs[k]]

Remaining(a, cs) ==
  [c \in Client |-> IF a[c] # None /\ (~cs[a[c].chan].open
                                       \/ cs[a[c].chan].lag >= LagLimit)
                    THEN None ELSE a[c]]

\* The relay catches up: it takes what its channel holds.
Drain(k) ==
  /\ chan[k].open /\ chan[k].unread > 0
  /\ chan' = [chan EXCEPT ![k].unread = 0]
  /\ UNCHANGED <<seq, ring, lastKey, att, pub, gone, late, ended, logged, archived>>

\* A channel whose receiver is dropped, and what it held with it.
Dropped(k) == [NewChan EXCEPT !.used = TRUE, !.client = chan[k].client]

\* The connection of a client ends and its relay is aborted; a client id is
\* never used by another connection.
Disconnect(c) ==
  /\ att[c] # None /\ chan[att[c].chan].open
  /\ chan' = [chan EXCEPT ![att[c].chan] = Dropped(att[c].chan)]
  /\ ended' = ended \cup {c}
  /\ UNCHANGED <<seq, ring, lastKey, att, pub, gone, late, logged, archived>>

-----------------------------------------------------------------------------
(* Attaching and detaching.                                                *)

Reaped == [c \in Client |-> IF att[c] # None /\ ~chan[att[c].chan].open
                            THEN None ELSE att[c]]

\* Mutant: every request for control is granted.
GrantedAlways(a, requested) == requested

\* grant_role
Granted(a, requested) ==
  IF requested = "controller" /\ \A c \in Client : a[c] = None \/ a[c].role # "controller"
  THEN "controller" ELSE "observer"

\* Where the replay of a fresh join starts.
ReplayFrom(asked) ==
  IF asked # None THEN asked
  ELSE IF lastKey # None THEN lastKey
  ELSE IF ring # <<>> THEN ring[1].seq ELSE seq + 1

\* SessionRegistry::attach: reap, grant, replay, role frame, insertion and
\* the broadcast of the membership, all under the session lock.
Attach(c, k, requested, asked) ==
  /\ ~gone /\ c \notin ended /\ ~chan[k].used /\ (k > 1 => chan[k - 1].used)
  /\ LET frames == FramesFrom(ring, ReplayFrom(asked)) \o <<seq + 1>>
         a == [Reaped EXCEPT ![c] = [role |-> Granted(Reaped, requested), chan |-> k]]
         cs == Sent(a, [chan EXCEPT ![k] = [NewChan EXCEPT !.used = TRUE, !.open = TRUE,
                                              !.client = c, !.sent = frames, !.unread = Len(frames)]],
                    seq + 2)
     IN chan' = cs /\ att' = Remaining(a, cs)
  /\ seq' = seq + 2
  /\ UNCHANGED <<ring, lastKey, pub, gone, late, ended, logged, archived>>

\* SessionRegistry::detach, of a client that leaves or whose connection ended.
Detach(c) ==
  /\ ~gone /\ att[c] # None
  /\ LET a == [att EXCEPT ![c] = None]
         cs == Sent(a, chan, seq + 1)
     IN chan' = cs /\ att' = Remaining(a, cs)
  /\ seq' = seq + 1
  /\ UNCHANGED <<ring, lastKey, pub, gone, late, ended, logged, archived>>

\* The relay of an attachment that is no more ends: it is aborted after the
\* detach, or finds that its channel has no sender left.
RelayEnds(k) ==
  /\ chan[k].open /\ \A c \in Client : att[c] # None => att[c].chan # k
  /\ chan' = [chan EXCEPT ![k] = Dropped(k)]
  /\ UNCHANGED <<seq, ring, lastKey, att, pub, gone, late, ended, logged, archived>>

\* SessionRegistry::close: the last frame, then remove.  The ring is not
\* spilled: it goes with the session.
Close ==
  /\ ~gone
  /\ chan' = Sent(att, chan, seq + 1)
  /\ seq' = seq + 1 /\ gone' = TRUE
  /\ late' \in SUBSET {p \in Producer : pub[p].pc = "idle"}
  /\ UNCHANGED <<pub, ended, logged, archived>>
  /\ Leaves(ring, lastKey, Remaining(att, chan'))

-----------------------------------------------------------------------------
(* Publishing: publish_output, publish_keyframe, publish_resize.           *)

\* snapshot_senders
Senders == {<<c, att[c].chan>> : c \in {d \in Client : att[d] # None /\ chan[att[d].chan].open}}

\* The locked part of a publish, of a session that is registered or was
\* when the publisher looked it up.
Publish(p, kind) ==
  /\ pub[p].pc = "idle" /\ kind \in Publishes[p]
  /\ ~gone \/ p \in late
  /\ Cardinality(logged) < MaxPublish
  /\ LET entry == [seq |-> seq + 1, kind |-> kind]
     IN /\ ring' = Pushed(entry)
        /\ lastKey' = KeyAfter(entry)
        /\ pub' = [pub EXCEPT ![p] =
                     [pc |-> "fan", seq |-> seq + 1, to |-> Senders, evict |-> {},
                      spill |-> {e.seq : e \in {f \in Evicted : f.kind # "resize"}}]]
        /\ logged' = logged \cup {entry}
  /\ seq' = seq + 1
  /\ late' = late \ {p}
  /\ UNCHANGED <<att, chan, gone, ended, archived>>

\* Mutants: the channel is looked up by the client's id; the fan-out stops
\* at the first sender that is to be evicted; a channel that is full is slow.
FanOutById(p, c, k) ==
  /\ pub[p].pc = "fan" /\ <<c, k>> \in pub[p].to
  /\ LET j == IF att[c] = None THEN k ELSE att[c].chan
     IN chan' = [chan EXCEPT ![j] = IF @.open THEN TrySend(@, pub[p].seq) ELSE @]
  /\ pub' = [pub EXCEPT ![p].to = @ \ {<<c, k>>}]
  /\ UNCHANGED <<seq, ring, lastKey, att, gone, late, ended, logged, archived>>

FanOutStops(p, c, k) ==
  /\ pub[p].pc = "fan" /\ <<c, k>> \in pub[p].to
  /\ LET ch == IF chan[k].open THEN TrySend(chan[k], pub[p].seq) ELSE chan[k]
         out == ~chan[k].open \/ ch.lag >= LagLimit
     IN /\ chan' = [chan EXCEPT ![k] = ch]
        /\ pub' = [pub EXCEPT ![p].to = IF out THEN {} ELSE @ \ {<<c, k>>},
                              ![p].evict = IF out THEN @ \cup {c} ELSE @]
  /\ UNCHANGED <<seq, ring, lastKey, att, gone, late, ended, logged, archived>>

FanOutImpatient(p, c, k) ==
  /\ pub[p].pc = "fan" /\ <<c, k>> \in pub[p].to
  /\ LET ch == IF chan[k].open THEN TrySend(chan[k], pub[p].seq) ELSE chan[k]
         out == ~chan[k].open \/ ch.unread = Capacity
     IN /\ chan' = [chan EXCEPT ![k] = ch]
        /\ pub' = [pub EXCEPT ![p].to = @ \ {<<c, k>>},
                              ![p].evict = IF out THEN @ \cup {c} ELSE @]
  /\ UNCHANGED <<seq, ring, lastKey, att, gone, late, ended, logged, archived>>

\* fan_out, one sender: a closed or too slow one is to be evicted.
FanOut(p, c, k) ==
  /\ pub[p].pc = "fan" /\ <<c, k>> \in pub[p].to
  /\ LET ch == IF chan[k].open THEN TrySend(chan[k], pub[p].seq) ELSE chan[k]
         out == ~chan[k].open \/ ch.lag >= LagLimit
     IN /\ chan' = [chan EXCEPT ![k] = ch]
        /\ pub' = [pub EXCEPT ![p].to = @ \ {<<c, k>>},
                              ![p].evict = IF out THEN @ \cup {c} ELSE @]
  /\ UNCHANGED <<seq, ring, lastKey, att, gone, late, ended, logged, archived>>

\* fan_out, its end: the clients to evict are removed by their id.
EvictSlow(p) ==
  /\ pub[p].pc = "fan" /\ pub[p].to = {}
  /\ att' = [c \in Client |-> IF c \in pub[p].evict THEN None ELSE att[c]]
  /\ pub' = [pub EXCEPT ![p].pc = "spill", ![p].evict = {}]
  /\ UNCHANGED <<seq, ring, lastKey, chan, gone, late, ended, logged, archived>>

\* Mutant: nothing is archived once the session left the registry.
SpillUnlessGone(p) ==
  /\ pub[p].pc = "spill"
  /\ archived' = IF gone THEN archived ELSE archived \cup pub[p].spill
  /\ pub' = [pub EXCEPT ![p] = Idle]
  /\ UNCHANGED <<seq, chan, gone, late, ended, logged>>
  /\ Leaves(ring, lastKey, att)

\* archive_evicted: the entries are appended, or a failed write counted; then
\* the publisher's reference to the session ends.
Spill(p) ==
  /\ pub[p].pc = "spill"
  /\ archived' = archived \cup pub[p].spill
  /\ pub' = [pub EXCEPT ![p] = Idle]
  /\ UNCHANGED <<seq, chan, gone, late, ended, logged>>
  /\ Leaves(ring, lastKey, att)

Producing(p) ==
  \/ \E kind \in Kind : Publish(p, kind)
  \/ \E c \in Client, k \in Chan : FanOut(p, c, k)
  \/ EvictSlow(p)
  \/ Spill(p)

-----------------------------------------------------------------------------

SessionNext ==
  \/ \E c \in Client, k \in Chan, r \in Role, asked \in {None, 0} : Attach(c, k, r, asked)
  \/ \E c \in Client : Detach(c) \/ Disconnect(c)
  \/ \E k \in Chan : Drain(k) \/ RelayEnds(k)
  \/ \E p \in Producer : Producing(p)
  \/ Close

SessionSpec == SessionInit /\ [][SessionNext]_sessionVars

-----------------------------------------------------------------------------
(* Properties.                                                             *)

FramesOf(ch) == {ch.sent[i] : i \in DOMAIN ch.sent}

FramesOn(k) == FramesOf(chan[k])

\* No client receives a frame twice on one attachment: a frame is either in
\* the replay or in the live stream, also when publishing and attaching
\* overlap.
NoDuplicateFrame ==
  \A k \in Chan : \A i, j \in DOMAIN chan[k].sent :
    chan[k].sent[i] = chan[k].sent[j] => i = j

\* The ring is in the order of the numbers given, and holds every frame that
\* was published since its oldest, until the session is freed.
RingOrdered ==
  /\ \A i, j \in DOMAIN ring : i < j => ring[i].seq < ring[j].seq
  /\ \A i \in DOMAIN ring : ring[i] \in logged
  /\ \A f \in logged :
       /\ f.seq <= seq
       /\ ~Freed => ring # <<>>
       /\ ~Freed /\ ring[1].seq <= f.seq => \E i \in DOMAIN ring : ring[i] = f

\* A channel belongs to one attachment, is never opened twice, and channels
\* are taken in turn, a client's latest being its attachment's; lag never
\* exceeds what was refused.
ChannelsSound ==
  /\ \A k \in Chan :
       /\ chan[k].open => chan[k].used /\ chan[k].sent # <<>>
       /\ chan[k].used => \A j \in Chan : j < k => chan[j].used
       /\ \A s \in FramesOn(k) \cup chan[k].missed : s <= seq
       /\ IsFiniteSet(chan[k].missed) /\ chan[k].lag <= Cardinality(chan[k].missed)
  /\ \A c \in Client : att[c] # None =>
       /\ chan[att[c].chan].used /\ chan[att[c].chan].client = c
       /\ \A k \in Chan : chan[k].used /\ chan[k].client = c => k <= att[c].chan

\* The receiver of channel k is gone, or has refused too many frames.
TooSlow(k) == ~chan[k].open \/ Cardinality(chan[k].missed) >= LagLimit

\* Publishers that fan out have numbers of their own, and none has yet sent
\* its frame to whom it is still to be sent; whom they will evict was slow.
PublishersSound ==
  \A p \in Producer :
    /\ pub[p].pc = "fan" => pub[p].seq # None /\ pub[p].seq <= seq
    /\ pub[p].pc # "fan" => pub[p].to = {} /\ pub[p].evict = {}
    /\ pub[p].pc = "idle" => pub[p].spill = {}
    /\ \A q \in Producer :
         pub[p].pc = "fan" /\ pub[q].pc = "fan" /\ pub[p].seq = pub[q].seq => p = q
    /\ \A c \in Client, k \in Chan : <<c, k>> \in pub[p].to =>
         /\ chan[k].used /\ chan[k].client = c
         /\ pub[p].seq \notin FramesOn(k) \cup chan[k].missed
    /\ \A c \in pub[p].evict :
         \E k \in Chan : chan[k].used /\ chan[k].client = c /\ TooSlow(k)

\* The ring stays within its bound and in order, and no client is sent a frame
\* twice, whatever publishers are still fanning out; with the types of the
\* session's state.
SessionInv ==
  /\ SessionTypeOK
  /\ RingOrdered
  /\ ChannelsSound
  /\ PublishersSound
  /\ NoDuplicateFrame

\* Nothing is skipped silently: every frame published since the
\* oldest frame of a live attachment is sent, still on its way, or was
\* refused by the full channel and counted as lag.
NoSilentGap ==
  \A c \in Client :
    att[c] # None /\ chan[att[c].chan].open =>
      LET k == att[c].chan
      IN \A s \in {f.seq : f \in logged} :
           s >= chan[k].sent[1]
             => \/ s \in FramesOn(k) \cup chan[k].missed
                \/ \E p \in Producer : pub[p].seq = s /\ <<c, k>> \in pub[p].to

\* The controller is a singleton lease among the attachments.
OneController ==
  \A c, d \in Client :
    /\ att[c] # None /\ att[c].role = "controller"
    /\ att[d] # None /\ att[d].role = "controller"
    => c = d

\* A fresh join starts at the newest keyframe the ring retains: the pointer
\* names it exactly while there is one.
KeyframePointer ==
  LET keys == {i \in DOMAIN ring : ring[i].kind = "keyframe"}
  IN IF keys = {} THEN lastKey = None
     ELSE \E i \in keys : ring[i].seq = lastKey /\ \A j \in keys : j <= i

\* The output and keyframes that the transcript archive has not been handed.
Unarchived ==
  {f \in logged : /\ f.kind # "resize" /\ f.seq \notin archived
                  /\ \A p \in Producer : f.seq \notin pub[p].spill}

\* The transcript has no hole.  While the session lives, output is in the ring
\* or in the archive (or being written there, or its write failed and was
\* counted); and what is lost for the archive when the session closes with
\* its ring unspilled is the end of the output, of at most a ring's length,
\* also if publishers were still at work when it was removed.
TranscriptComplete ==
  /\ ~Freed => \A f \in Unarchived : \E i \in DOMAIN ring : ring[i] = f
  /\ Cardinality(Unarchived) <= MaxFrames
  /\ \A f \in Unarchived, g \in logged :
       f.seq <= g.seq /\ g.kind # "resize" => g \in Unarchived

\* A client loses its attachment only if it leaves, the session is freed, or
\* this attachment, or an earlier one of the same client, was too slow or
\* closed.  (The earlier one counts, for fan_out evicts by client id after the
\* client may have attached anew.)
EvictedClientWasSlow ==
  [][\A c \in Client :
       att[c] # None /\ att'[c] = None
         => \/ Detach(c) \/ Freed'
            \/ \E k \in Chan : /\ chan[k].client = c /\ k <= att[c].chan
                               /\ TooSlow(k)']_sessionVars

=============================================================================
