-------------------------- MODULE FlowResumeProofs --------------------------
(***************************************************************************)
(* Proofs about FlowResume for every buffer size, number of bytes, budget, *)
(* grace policy and number of transport attempts, in three layers:         *)
(*                                                                         *)
(*  - IInv bounds what is acknowledged and opened: NoLoss,                 *)
(*    OneTargetConnection and, as an action property, GraceNeverExtended.  *)
(*  - Data says what bytes the two halves of a direction hold and that no  *)
(*    frame in flight lies about them.  FlowResume therefore implements    *)
(*    TcpStream in both directions (IsStream).                             *)
(*  - Session says at which stage of a recovery each side is and that the  *)
(*    frames in flight fit it: NoProtocolError and ResumeAgrees.           *)
(***************************************************************************)
EXTENDS FlowResume, SequenceTheorems, TLAPS

-----------------------------------------------------------------------------
(* Sequences *)

LEMMA DropType ==
    ASSUME NEW S, NEW q \in Seq(S), NEW n \in Nat, n <= Len(q)
    PROVE  /\ Drop(q, n) \in Seq(S)
           /\ Len(Drop(q, n)) = Len(q) - n
<1>1. Len(q) \in Nat
  OBVIOUS
<1>2. \A i \in (n + 1)..Len(q) : q[i] \in S
  BY <1>1, ElementOfSeq
<1> QED BY <1>1, <1>2, SubSeqProperties DEF Drop

LEMMA PrefixType ==
    ASSUME NEW S, NEW q \in Seq(S), NEW i \in Nat, NEW n \in Int, n <= Len(q)
    PROVE  SubSeq(q, i + 1, n) \in Seq(S)
<1>1. Len(q) \in Nat
  OBVIOUS
<1>2. \A j \in (i + 1)..n : q[j] \in S
  BY <1>1, ElementOfSeq
<1> QED BY <1>1, <1>2, SubSeqProperties

LEMMA BytesType ==
    ASSUME NEW a \in Nat, NEW n \in Nat
    PROVE  Bytes(a, n) \in Seq(Nat) /\ Len(Bytes(a, n)) = n
BY DEF Bytes

-----------------------------------------------------------------------------
(* The sending and the receiving half of a flow *)

LEMMA SndFields ==
    ASSUME NEW t \in Snd
    PROVE  /\ t.tx \in Seq(Nat) /\ Len(t.tx) \in Nat
           /\ t.tx_base \in Nat /\ t.tx_pos \in Nat /\ t.tx_sent_high \in Nat
           /\ t.tx_final \in Nat
           /\ t.socket_eof \in BOOLEAN /\ t.sent_fin \in BOOLEAN
           /\ t.tx_fin_acked \in BOOLEAN
           /\ m_tx_next(t) \in Nat
BY DEF Snd, m_tx_next

LEMMA RcvFields ==
    ASSUME NEW r \in Rcv
    PROVE  /\ r.rx \in Seq(Nat) /\ Len(r.rx) \in Nat
           /\ r.rx_next \in Nat /\ r.rx_commit \in Nat /\ r.rx_final \in Nat
           /\ r.rx_fin \in BOOLEAN /\ r.rx_fin_applied \in BOOLEAN
           /\ r.ack_dirty \in BOOLEAN
BY DEF Rcv

(* An accepted acknowledgement moves the base to its offset, or not at all *)
(* if it is an old one (m_v2_ack).                                         *)
LEMMA AckType ==
    ASSUME NEW t \in Snd, NEW offset \in Nat, NEW fin \in BOOLEAN,
           AckOk(t, offset, fin)
    PROVE  /\ m_v2_ack(t, offset, fin) \in Snd
           /\ m_v2_ack(t, offset, fin).tx_base =
                IF offset > t.tx_base THEN offset ELSE t.tx_base
<1> DEFINE c == IF offset > t.tx_base THEN offset - t.tx_base ELSE 0
<1>1. c \in Nat /\ c <= Len(t.tx) /\ c <= t.tx_pos
  BY SndFields DEF AckOk, m_tx_next
<1>2. Drop(t.tx, c) \in Seq(Nat)
  BY <1>1, SndFields, DropType
<1>3. m_v2_ack(t, offset, fin) =
        [t EXCEPT !.tx = Drop(t.tx, c), !.tx_base = t.tx_base + c,
                  !.tx_pos = t.tx_pos - c,
                  !.tx_fin_acked = t.tx_fin_acked \/ fin]
  BY DEF m_v2_ack
<1>4. t.tx_base + c \in Nat /\ t.tx_pos - c \in Nat
  BY <1>1, SndFields
<1>5. (t.tx_fin_acked \/ fin) \in BOOLEAN
  OBVIOUS
<1>6. m_v2_ack(t, offset, fin).tx_base = t.tx_base + c
  BY <1>3 DEF Snd
<1>7. m_v2_ack(t, offset, fin) \in Snd
  BY <1>2, <1>3, <1>4, <1>5 DEF Snd
<1> QED BY <1>6, <1>7, SndFields

LEMMA SuspendType ==
    /\ \A t \in Snd : SuspendSnd(t) \in Snd /\ SuspendSnd(t).tx_base = t.tx_base
    /\ \A r \in Rcv : SuspendRcv(r) \in Rcv /\ SuspendRcv(r).rx_commit = r.rx_commit
<1>1. ASSUME NEW t \in Snd
      PROVE  SuspendSnd(t) \in Snd /\ SuspendSnd(t).tx_base = t.tx_base
  BY SndFields DEF SuspendSnd, Snd
<1>2. ASSUME NEW r \in Rcv
      PROVE  SuspendRcv(r) \in Rcv /\ SuspendRcv(r).rx_commit = r.rx_commit
  <2>1. <<>> \in Seq(Nat)
    OBVIOUS
  <2> QED BY <2>1, RcvFields DEF SuspendRcv, Rcv
<1> QED BY <1>1, <1>2

LEMMA ResumeSndType ==
    ASSUME NEW t \in Snd, NEW r \in Rcv, NEW m \in Snapshots, ResumeOk(t, r, m)
    PROVE  /\ ResumeSnd(t, m) \in Snd
           /\ ResumeSnd(t, m).tx_base =
                IF m.delivered > t.tx_base THEN m.delivered ELSE t.tx_base
<1> DEFINE u == Replayable(t)
           a == m_v2_ack(u, m.delivered, m.fin_applied)
<1>1. u \in Snd /\ u.tx_base = t.tx_base
  BY SndFields DEF Replayable, Snd
<1>2. m.delivered \in Nat /\ m.fin_applied \in BOOLEAN
  BY DEF Snapshots
<1>3. AckOk(u, m.delivered, m.fin_applied)
  BY DEF ResumeOk
<1>4. a \in Snd /\ a.tx_base = IF m.delivered > t.tx_base THEN m.delivered
                                                          ELSE t.tx_base
  BY <1>1, <1>2, <1>3, AckType
<1>5. ResumeSnd(t, m) = SuspendSnd(a)
  BY DEF ResumeSnd, SuspendSnd
<1> HIDE DEF a, u
<1> QED BY <1>4, <1>5, SuspendType

LEMMA ResumeRcvType ==
    ASSUME NEW r \in Rcv, NEW m \in Snapshots
    PROVE  /\ ResumeRcv(r, m) \in Rcv
           /\ ResumeRcv(r, m).rx_commit = r.rx_commit
<1> DEFINE fin == r.rx_fin \/ m.eof
           final == IF m.eof THEN m.final ELSE r.rx_final
<1>1. fin \in BOOLEAN
  OBVIOUS
<1>2. final \in Nat
  BY DEF Rcv, Snapshots
<1>3. ResumeRcv(r, m) =
        [r EXCEPT !.rx = <<>>, !.rx_next = r.rx_commit, !.rx_fin = fin,
                  !.rx_final = final, !.ack_dirty = TRUE]
  BY DEF ResumeRcv, Rcv
<1> HIDE DEF fin, final
<1>4. <<>> \in Seq(Nat)
  OBVIOUS
<1> QED BY <1>1, <1>2, <1>3, <1>4, RcvFields DEF Rcv

LEMMA WrittenType ==
    ASSUME NEW r \in Rcv, NEW w \in Nat, w <= Len(r.rx)
    PROVE  /\ Written(r, w) \in Rcv
           /\ Written(r, w).rx_commit = r.rx_commit + w
<1>1. Drop(r.rx, w) \in Seq(Nat)
  BY RcvFields, DropType
<1> DEFINE dirty == r.ack_dirty \/ w > 0
<1>2. dirty \in BOOLEAN
  OBVIOUS
<1>3. r.rx_commit + w \in Nat
  BY RcvFields
<1>4. Written(r, w) = [r EXCEPT !.rx = Drop(r.rx, w),
                                !.rx_commit = r.rx_commit + w,
                                !.ack_dirty = dirty]
  BY DEF Written, Rcv
<1> HIDE DEF dirty
<1> QED BY <1>1, <1>2, <1>3, <1>4 DEF Rcv

LEMMA FinAppliedType ==
    ASSUME NEW r \in Rcv
    PROVE  FinApplied(r) \in Rcv /\ FinApplied(r).rx_commit = r.rx_commit
BY DEF FinApplied, Rcv

LEMMA AckSentType ==
    ASSUME NEW r \in Rcv, NEW ack \in BOOLEAN
    PROVE  AckSent(r, ack) \in Rcv /\ AckSent(r, ack).rx_commit = r.rx_commit
BY DEF AckSent, Rcv

LEMMA SocketReadType ==
    ASSUME NEW t \in Snd, NEW n \in Nat
    PROVE  SocketRead(t, n) \in Snd /\ SocketRead(t, n).tx_base = t.tx_base
<1>1. t.tx \o Bytes(m_tx_next(t), n) \in Seq(Nat)
  BY SndFields, BytesType, ConcatProperties
<1> QED BY <1>1 DEF SocketRead, Snd

LEMMA SocketEofType ==
    ASSUME NEW t \in Snd
    PROVE  SocketEof(t) \in Snd /\ SocketEof(t).tx_base = t.tx_base
BY SndFields DEF SocketEof, Snd

LEMMA DataSentType ==
    ASSUME NEW t \in Snd, NEW d \in Nat, NEW fin \in BOOLEAN
    PROVE  /\ FinSent(DataSent(t, d), fin) \in Snd
           /\ FinSent(DataSent(t, d), fin).tx_base = t.tx_base
<1> DEFINE top == t.tx_base + t.tx_pos + d
           high == IF d > 0 /\ top > t.tx_sent_high THEN top
                                                    ELSE t.tx_sent_high
<1>1. high \in Nat /\ t.tx_pos + d \in Nat
  BY SndFields
<1>2. DataSent(t, d) = [t EXCEPT !.tx_pos = t.tx_pos + d, !.tx_sent_high = high]
  BY DEF DataSent, Snd
<1> HIDE DEF high
<1>3. DataSent(t, d) \in Snd /\ DataSent(t, d).tx_base = t.tx_base
  BY <1>1, <1>2 DEF Snd
<1> QED BY <1>3 DEF FinSent, Snd

LEMMA NewType == NewCtl \in Ctl /\ NewSnd \in Snd /\ NewRcv \in Rcv
BY DEF NewCtl, NewSnd, NewRcv, Ctl, Snd, Rcv, Phases, None

-----------------------------------------------------------------------------
(* Messages *)

(* The messages a side that wrote c bytes to its socket may have in flight: *)
(* it acknowledges no more than that, in an ACK or in a snapshot.           *)
Bounded(c) ==
    {m \in Msg : /\ m.kind = "ack" => m.offset <= c
                 /\ m.kind \in {"resume", "rack"} => m.snap.delivered <= c}

(* The messages that do not open the flow. *)
NotOpen == {m \in Msg : m.kind # "open"}

LEMMA MsgFields ==
    ASSUME NEW m \in Msg
    PROVE  /\ m.kind = "ack" => m.offset \in Nat /\ m.fin \in BOOLEAN
           /\ m.kind = "fin" => m.offset \in Nat
           /\ m.kind = "data" => m.offset \in Nat /\ m.bytes \in Seq(Nat)
           /\ m.kind = "resume" => m.snap \in Snapshots
           /\ m.kind = "rack" => m.snap \in Snapshots /\ m.ok \in BOOLEAN
           /\ m.kind = "oack" => m.ok \in BOOLEAN
BY DEF Msg

LEMMA BoundedGrows ==
    ASSUME NEW a \in Nat, NEW b \in Nat, a <= b,
           NEW q \in Seq(Bounded(a))
    PROVE  q \in Seq(Bounded(b))
<1>1. Bounded(a) \subseteq Bounded(b)
  <2> SUFFICES ASSUME NEW m \in Bounded(a) PROVE m \in Bounded(b)
      OBVIOUS
  <2>1. m \in Msg
    BY DEF Bounded
  <2>2. m.kind \in {"resume", "rack"} => m.snap.delivered \in Nat
    BY <2>1, MsgFields DEF Snapshots
  <2> QED BY <2>1, <2>2, MsgFields DEF Bounded
<1> QED BY <1>1, SeqMonotonic

LEMMA SnapshotType ==
    ASSUME NEW s \in Side, snd[s] \in Snd, rcv[s] \in Rcv
    PROVE  /\ m_resume_snapshot(s) \in Snapshots
           /\ m_resume_snapshot(s).delivered = rcv[s].rx_commit
BY SndFields, RcvFields DEF m_resume_snapshot, Snapshots

LEMMA FramesType ==
    ASSUME NEW t \in Snd, NEW r \in Rcv, NEW ack \in BOOLEAN, NEW fin \in BOOLEAN,
           NEW d \in Nat, d <= Len(t.tx) - t.tx_pos
    PROVE  /\ Frames(t, r, ack, d, fin) \in Seq(Bounded(r.rx_commit))
           /\ Frames(t, r, ack, d, fin) \in Seq(NotOpen)
<1> DEFINE S == Bounded(r.rx_commit) \cap NotOpen
<1>1. AckFrame(r) \in S
  BY RcvFields DEF AckFrame, Bounded, NotOpen, Msg
<1>2. DataFrame(t, d) \in S
  <2>1. SubSeq(t.tx, t.tx_pos + 1, t.tx_pos + d) \in Seq(Nat)
    <3>1. /\ t.tx \in Seq(Nat) /\ t.tx_pos \in Nat /\ Len(t.tx) \in Nat
          /\ t.tx_pos + d \in Int /\ t.tx_pos + d <= Len(t.tx)
      BY SndFields
    <3> QED BY <3>1, PrefixType
  <2>2. t.tx_base + t.tx_pos \in Nat
    BY SndFields
  <2> QED BY <2>1, <2>2 DEF DataFrame, Bounded, NotOpen, Msg
<1>3. FinFrame(t) \in S
  BY SndFields DEF FinFrame, Bounded, NotOpen, Msg
<1> HIDE DEF S
<1> DEFINE a == IF ack THEN <<AckFrame(r)>> ELSE <<>>
           b == IF d > 0 THEN <<DataFrame(t, d)>> ELSE <<>>
           c == IF fin THEN <<FinFrame(t)>> ELSE <<>>
<1>4. a \in Seq(S) /\ b \in Seq(S) /\ c \in Seq(S)
  BY <1>1, <1>2, <1>3
<1> HIDE DEF a, b, c
<1>5. (a \o b) \o c \in Seq(S)
  BY <1>4, ConcatProperties
<1>6. Frames(t, r, ack, d, fin) \in Seq(S)
  BY <1>5 DEF Frames, a, b, c
<1>7. S \subseteq Bounded(r.rx_commit) /\ S \subseteq NotOpen
  BY DEF S
<1> QED BY <1>6, <1>7, SeqMonotonic

LEMMA SentType ==
    ASSUME NEW s \in Side, NEW S, wire[s] \in Seq(S), NEW f \in Seq(S)
    PROVE  Sent(s, f) \in Seq(S)
BY ConcatProperties, EmptySeq DEF Sent

LEMMA ResetType == \A c : [kind |-> "reset"] \in Bounded(c) \cap NotOpen
BY DEF Bounded, NotOpen, Msg

(* What an abort leaves on the wire: a prefix and the reset, or no change. *)
LEMMA ResetWireType ==
    ASSUME NEW s \in Side, NEW S, [kind |-> "reset"] \in S,
           wire \in [Side -> Seq(Msg)], NEW f \in Seq(S), ResetWire(s, f)
    PROVE  /\ DOMAIN wire' = Side
           /\ wire'[s] \in Seq(S)
           /\ wire'[Peer(s)] = wire[Peer(s)]
<1>1. Peer(s) \in Side /\ Peer(s) # s
  BY DEF Side, Peer
<1>2. CASE HasStream(s)
  <2>1. PICK k \in 0..Len(f) :
          wire' = [wire EXCEPT ![s] = Append(SubSeq(f, 1, k), [kind |-> "reset"])]
    BY <1>2 DEF ResetWire
  <2>2. SubSeq(f, 0 + 1, k) \in Seq(S)
    BY PrefixType
  <2>3. Append(SubSeq(f, 1, k), [kind |-> "reset"]) \in Seq(S)
    BY <2>2, AppendProperties
  <2> QED BY <1>1, <2>1, <2>3
<1>3. CASE ~HasStream(s)
  BY <1>1, <1>3 DEF ResetWire
<1> QED BY <1>2, <1>3

(* Only the first frame in flight may open the flow. *)
OneOpen(q) == q \in Seq(Msg) /\ \A i \in 2..Len(q) : q[i] \in NotOpen

LEMMA OneOpenSeq ==
    ASSUME NEW q \in Seq(NotOpen)
    PROVE  OneOpen(q)
<1>1. NotOpen \subseteq Msg
  BY DEF NotOpen
<1>2. q \in Seq(Msg)
  BY <1>1, SeqMonotonic
<1> QED BY <1>2, ElementOfSeq DEF OneOpen

LEMMA OneOpenTail ==
    ASSUME NEW q, OneOpen(q), q # <<>>
    PROVE  Tail(q) \in Seq(NotOpen)
<1>1. /\ Tail(q) \in Seq(Msg)
      /\ Len(Tail(q)) = Len(q) - 1
      /\ \A i \in 1..Len(Tail(q)) : Tail(q)[i] = q[i + 1]
  BY HeadTailProperties DEF OneOpen
<1>2. Len(q) \in Nat /\ Len(Tail(q)) \in Nat
  BY <1>1 DEF OneOpen
<1>3. \A i \in 1..Len(Tail(q)) : Tail(q)[i] \in NotOpen
  BY <1>1, <1>2 DEF OneOpen
<1>4. Tail(q) = [i \in 1..Len(Tail(q)) |-> Tail(q)[i]]
  BY <1>1, LenProperties
<1>5. Tail(q) \in [1..Len(Tail(q)) -> NotOpen]
  BY <1>3, <1>4
<1> QED BY <1>2, <1>5, SeqDef

LEMMA OneOpenAppend ==
    ASSUME NEW q, OneOpen(q), NEW f \in Seq(NotOpen)
    PROVE  OneOpen(q \o f)
<1>1. f \in Seq(Msg)
  BY OneOpenSeq DEF OneOpen
<1>2. q \in Seq(Msg)
  BY DEF OneOpen
<1>3. /\ q \o f \in Seq(Msg)
      /\ Len(q \o f) = Len(q) + Len(f)
      /\ \A i \in 1 .. Len(q) + Len(f) : (q \o f)[i] =
            IF i <= Len(q) THEN q[i] ELSE f[i - Len(q)]
  BY <1>1, <1>2, ConcatProperties
<1>4. Len(q) \in Nat /\ Len(f) \in Nat
  BY <1>1, <1>2
<1>5. ASSUME NEW i \in 2..Len(q \o f)
      PROVE  (q \o f)[i] \in NotOpen
  <2>1. CASE i <= Len(q)
    BY <1>3, <1>4, <2>1 DEF OneOpen
  <2>2. CASE ~(i <= Len(q))
    <3>1. i - Len(q) \in 1..Len(f)
      BY <1>3, <1>4, <2>2
    <3>2. f[i - Len(q)] \in NotOpen
      BY <3>1, ElementOfSeq
    <3> QED BY <1>3, <1>4, <2>2, <3>2
  <2> QED BY <2>1, <2>2
<1> QED BY <1>3, <1>5 DEF OneOpen

LEMMA OneOpenReset ==
    ASSUME NEW s \in Side, NEW f, OneOpen(f), wire \in [Side -> Seq(Msg)],
           ResetWire(s, f)
    PROVE  OneOpen(wire'[s])
<1>1. f \in Seq(Msg) /\ Len(f) \in Nat
  BY DEF OneOpen
<1>2. CASE HasStream(s)
  <2>1. PICK k \in 0..Len(f) :
          wire' = [wire EXCEPT ![s] = Append(SubSeq(f, 1, k), [kind |-> "reset"])]
    BY <1>2 DEF ResetWire
  <2> DEFINE e == [kind |-> "reset"]
             g == SubSeq(f, 1, k)
  <2>2. e \in Msg /\ e \in NotOpen
    BY ResetType DEF NotOpen
  <2>3. \A i \in 1..k : f[i] \in Msg
    BY <1>1, ElementOfSeq
  <2>4. /\ g \in Seq(Msg)
        /\ Len(g) = k
        /\ \A i \in 1..k : g[i] = f[i]
    BY <1>1, <2>3, SubSeqProperties
  <2> HIDE DEF e, g
  <2>5. /\ Append(g, e) \in Seq(Msg)
        /\ Len(Append(g, e)) = k + 1
        /\ \A i \in 1..k : Append(g, e)[i] = g[i]
        /\ Append(g, e)[k + 1] = e
    BY <2>2, <2>4, AppendProperties
  <2>6. ASSUME NEW i \in 2..Len(Append(g, e))
        PROVE  Append(g, e)[i] \in NotOpen
    <3>1. CASE i = k + 1
      BY <2>2, <2>5, <3>1
    <3>2. CASE i <= k
      <4>1. i \in 1..k /\ i \in 2..Len(f)
        BY <1>1, <3>2
      <4>2. Append(g, e)[i] = f[i]
        BY <2>4, <2>5, <4>1
      <4> QED BY <4>1, <4>2 DEF OneOpen
    <3> QED BY <2>5, <3>1, <3>2
  <2>7. OneOpen(Append(g, e))
    BY <2>5, <2>6 DEF OneOpen
  <2>8. wire'[s] = Append(g, e)
    BY <2>1 DEF e, g
  <2> QED BY <2>7, <2>8
<1>3. CASE ~HasStream(s)
  BY <1>3 DEF ResetWire
<1> QED BY <1>2, <1>3

-----------------------------------------------------------------------------
(* The inductive invariant *)

(* Nothing in flight acknowledges a byte its sender has not written to its *)
(* real socket.                                                            *)
WireBounded == \A s \in Side : wire[s] \in Seq(Bounded(rcv[s].rx_commit))

(* The broker has the flow only after it has read the one OPEN, which is   *)
(* the first frame the client sends.                                       *)
OpenFirst ==
    /\ OneOpen(wire["local"])
    /\ ctl["remote"].phase # "none" => wire["local"] \in Seq(NotOpen)
Idle(c) ==
    /\ ~c.pending_open /\ ~c.suspended /\ ~c.resuming /\ ~c.waiting_resume
    /\ c.grace = None
Unopened ==
    /\ \A s \in Side : ctl[s].phase = "none" => Idle(ctl[s])
    /\ ctl["remote"].phase = "none" =>
         rcv["remote"].rx_commit = 0 /\ connects = 0
    /\ ctl["local"].pending_open =>
         ctl["local"].suspended /\ ~ctl["local"].waiting_resume
    /\ ctl["local"].phase = "none" \/ ctl["local"].pending_open =>
         wire["local"] = <<>> /\ ctl["remote"].phase = "none"

IInv ==
    /\ TypeOK
    /\ NoLoss
    /\ WireBounded
    /\ OpenFirst
    /\ Unopened
    /\ OneTargetConnection

LEMMA SideFacts ==
    /\ "local" \in Side /\ "remote" \in Side
    /\ Peer("local") = "remote" /\ Peer("remote") = "local"
    /\ \A s \in Side : Peer(s) \in Side /\ Peer(s) # s /\ Peer(Peer(s)) = s
BY DEF Side, Peer

LEMMA WireType ==
    ASSUME NEW q, NEW c, q \in Seq(Bounded(c))
    PROVE  q \in Seq(Msg)
<1>1. Bounded(c) \subseteq Msg
  BY DEF Bounded
<1> QED BY <1>1, SeqMonotonic

LEMMA DeadType ==
    ASSUME NEW c \in Ctl
    PROVE  /\ Dead(c) \in Ctl
           /\ Dead(c).phase = "dead" /\ ~Dead(c).pending_open
           /\ Dead(c).grace = None
BY DEF Dead, Ctl, Phases, None

LEMMA SuspendCtlType ==
    ASSUME NEW c \in Ctl, NEW d \in Nat \cup {None}
    PROVE  /\ SuspendCtl(c, d) \in Ctl
           /\ SuspendCtl(c, d).phase = "active"
           /\ SuspendCtl(c, d).suspended /\ ~SuspendCtl(c, d).waiting_resume
           /\ SuspendCtl(c, d).pending_open = c.pending_open
           /\ c.grace # None => SuspendCtl(c, d).grace <= c.grace
<1> DEFINE g == IF c.grace = None \/ c.grace > d THEN d ELSE c.grace
<1>1. g \in Nat \cup {None} /\ (c.grace # None => g <= c.grace)
  BY DEF Ctl, None
<1>2. SuspendCtl(c, d) =
        [c EXCEPT !.suspended = TRUE, !.waiting_resume = FALSE,
                  !.resuming = FALSE, !.phase = "active", !.grace = g]
  BY DEF SuspendCtl, Ctl
<1> HIDE DEF g
<1> QED BY ZenonT(60), <1>1, <1>2 DEF Ctl, Phases

LEMMA ReadyCtlType ==
    ASSUME NEW c \in Ctl, NEW s \in Side, c.phase # "none"
    PROVE  /\ ReadyCtl(c, s) \in Ctl
           /\ ReadyCtl(c, s).phase # "none"
           /\ ReadyCtl(c, s).pending_open => c.pending_open /\ ~c.suspended
           /\ ReadyCtl(c, s).grace \in {c.grace, None}
<1>1. CASE ~c.suspended
  BY <1>1 DEF ReadyCtl
<1>2. CASE c.suspended /\ ReadyCtl(c, s) = Dead(c)
  BY <1>2, DeadType
<1>3. CASE c.suspended /\ ReadyCtl(c, s) # Dead(c)
  <2>1. c.grace # 0 /\ (c.pending_open \/ (context /\ ever_ready[s]))
    BY <1>3 DEF ReadyCtl
  <2>2. CASE c.pending_open
    <3>1. ReadyCtl(c, s) = [c EXCEPT !.pending_open = FALSE, !.suspended = FALSE,
                                     !.grace = None, !.phase = "control"]
      BY <1>3, <2>1, <2>2 DEF ReadyCtl
    <3> QED BY <3>1 DEF Ctl, Phases, None
  <2>3. CASE ~c.pending_open
    <3>1. ReadyCtl(c, s) = IF s = "local"
              THEN [c EXCEPT !.waiting_resume = TRUE, !.phase = "control",
                             !.acked = FALSE]
              ELSE c
      BY <1>3, <2>1, <2>3 DEF ReadyCtl
    <3> QED BY ZenonT(60), <2>3, <3>1 DEF Ctl, Phases, None
  <2> QED BY <2>2, <2>3
<1> QED BY <1>1, <1>2, <1>3

-----------------------------------------------------------------------------
(* TypeOK without the wire, whose type follows from WireBounded *)

TypeFlow == ctl \in [Side -> Ctl] /\ snd \in [Side -> Snd] /\ rcv \in [Side -> Rcv]
TypeTransport ==
    /\ att \in [Side -> {"down", "setup", "ready"}]
    /\ ever_ready \in [Side -> BOOLEAN]
    /\ deadline \in [Side -> Nat \cup {None}]
    /\ context \in BOOLEAN
    /\ proof \in BOOLEAN
    /\ attempt \in Nat
TypeRest ==
    /\ sock \in [Side -> Seq(Nat)]
    /\ failed \in [Side -> BOOLEAN]
    /\ retired \in [Side -> BOOLEAN]
    /\ connects \in Nat

LEMMA WireTyped ==
    ASSUME NEW w, NEW r, w = [x \in Side |-> w[x]],
           \A x \in Side : w[x] \in Seq(Bounded(r[x].rx_commit))
    PROVE  w \in [Side -> Seq(Msg)]
<1>1. \A x \in Side : w[x] \in Seq(Msg)
  BY WireType
<1> QED BY <1>1

LEMMA IInvInit == Init => IInv
<1> SUFFICES ASSUME Init PROVE IInv
    OBVIOUS
<1>1. TypeFlow
  BY NewType DEF Init, TypeFlow
<1>2. TypeTransport
  <2>1. att \in [Side -> {"down", "setup", "ready"}] /\ attempt \in Nat
    BY DEF Init
  <2>2. ever_ready \in [Side -> BOOLEAN] /\ context \in BOOLEAN /\ proof \in BOOLEAN
    BY DEF Init
  <2>3. deadline \in [Side -> Nat \cup {None}]
    BY DEF Init, None
  <2> QED BY <2>1, <2>2, <2>3 DEF TypeTransport
<1>3. TypeRest
  <2>1. failed \in [Side -> BOOLEAN] /\ retired \in [Side -> BOOLEAN]
    BY DEF Init
  <2>2. sock \in [Side -> Seq(Nat)] /\ connects \in Nat
    BY DEF Init
  <2> QED BY <2>1, <2>2 DEF TypeRest
<1>4. WireBounded
  BY EmptySeq DEF Init, WireBounded
<1>5. wire \in [Side -> Seq(Msg)]
  BY <1>4, WireTyped DEF Init, WireBounded
<1>6. NoLoss
  BY SideFacts DEF Init, NoLoss, NewSnd, NewRcv
<1>7. OpenFirst
  <2>1. wire["local"] = <<>> /\ <<>> \in Seq(NotOpen)
    BY SideFacts, EmptySeq DEF Init
  <2> QED BY <2>1, OneOpenSeq DEF OpenFirst
<1>8. Unopened /\ OneTargetConnection
  BY SideFacts DEF Init, Unopened, Idle, OneTargetConnection, NewCtl, NewRcv
<1>9. TypeOK
  BY <1>1, <1>2, <1>3, <1>5 DEF TypeOK, TypeFlow, TypeTransport, TypeRest
<1> QED BY <1>4, <1>6, <1>7, <1>8, <1>9 DEF IInv

-----------------------------------------------------------------------------
(* Every step preserves it *)

otherVars == <<sock, transportVars, failed, retired, connects>>

LEMMA OthersKeepType ==
    ASSUME IInv, UNCHANGED otherVars
    PROVE  TypeTransport' /\ TypeRest' /\ connects' = connects
BY DEF IInv, TypeOK, TypeTransport, TypeRest, otherVars, transportVars

(* An abort (m_abort_at): of a socket error, a closed mapping, a setup     *)
(* limit or an expired grace.                                              *)
LEMMA AbortStep ==
    ASSUME IInv, NEW s \in Side, m_abort(s), ctl[s].phase # "none",
           UNCHANGED <<snd, rcv>>, UNCHANGED otherVars
    PROVE  IInv'
<1> USE DEF IInv
<1>0. /\ ctl' = [ctl EXCEPT ![s] = Dead(ctl[s])]
      /\ ResetWire(s, wire[s])
  BY DEF m_abort
<1>a. ctl[s] \in Ctl /\ wire \in [Side -> Seq(Msg)]
  BY DEF TypeOK
<1>1. TypeFlow' /\ ctl'[s].phase = "dead" /\ ~ctl'[s].pending_open
      /\ ctl'[Peer(s)] = ctl[Peer(s)]
  BY <1>0, <1>a, DeadType, SideFacts DEF TypeOK, TypeFlow
<1>2. WireBounded' /\ wire' = [x \in Side |-> wire'[x]]
  <2>1. wire[s] \in Seq(Bounded(rcv[s].rx_commit))
    BY DEF WireBounded
  <2>2. [kind |-> "reset"] \in Bounded(rcv[s].rx_commit)
    BY ResetType
  <2>3. /\ wire'[s] \in Seq(Bounded(rcv[s].rx_commit))
        /\ wire'[Peer(s)] = wire[Peer(s)]
    BY <1>0, <1>a, <2>1, <2>2, ResetWireType
  <2>4. wire' = [x \in Side |-> wire'[x]]
    BY <1>0, <1>a DEF ResetWire
  <2> QED BY <2>3, <2>4 DEF WireBounded, Side, Peer
<1>3. wire' \in [Side -> Seq(Msg)]
  BY <1>2, WireTyped DEF WireBounded
<1>4. OpenFirst'
  <2>1. CASE s = "local"
    <3>1. OneOpen(wire'["local"])
      BY <1>0, <1>a, <2>1, OneOpenReset DEF OpenFirst
    <3>2. ctl'["remote"].phase # "none" => wire'["local"] \in Seq(NotOpen)
      BY <1>0, <1>1, <1>a, <2>1, ResetType, ResetWireType, SideFacts DEF OpenFirst
    <3> QED BY <3>1, <3>2 DEF OpenFirst
  <2>2. CASE s = "remote"
    <3>1. wire'["local"] = wire["local"]
      BY <1>0, <1>a, <2>2, ResetType, ResetWireType, SideFacts DEF NotOpen
    <3> QED BY <2>2, <3>1 DEF OpenFirst
  <2> QED BY <2>1, <2>2 DEF Side
<1>5. Unopened'
  <2>1. CASE s = "local"
    BY <1>1, <2>1, SideFacts, OthersKeepType DEF Unopened, Side
  <2>2. CASE s = "remote"
    BY <1>1, <2>2, SideFacts, OthersKeepType DEF Unopened, Side
  <2> QED BY <2>1, <2>2 DEF Side
<1>6. NoLoss' /\ OneTargetConnection'
  BY OthersKeepType DEF NoLoss, OneTargetConnection
<1>7. TypeOK'
  BY <1>1, <1>3, OthersKeepType DEF TypeOK, TypeFlow, TypeTransport, TypeRest
<1> QED BY <1>2, <1>4, <1>5, <1>6, <1>7

(* The parts every step has to establish. *)
LEMMA Assemble ==
    ASSUME TypeFlow', TypeTransport', TypeRest', NoLoss', WireBounded',
           wire' = [x \in Side |-> wire'[x]], OpenFirst', Unopened',
           OneTargetConnection'
    PROVE  IInv'
<1>1. wire' \in [Side -> Seq(Msg)]
  BY WireTyped DEF WireBounded
<1>2. TypeOK'
  BY <1>1 DEF TypeOK, TypeFlow, TypeTransport, TypeRest
<1> QED BY <1>2 DEF IInv

(* A frame leaves the head of a stream. *)
LEMMA PopFacts ==
    ASSUME IInv, NEW s \in Side, wire[Peer(s)] # <<>>,
           wire' = [wire EXCEPT ![Peer(s)] = Tail(wire[Peer(s)])]
    PROVE  /\ wire' = [x \in Side |-> wire'[x]]
           /\ \A x \in Side : wire'[x] \in Seq(Bounded(rcv[x].rx_commit))
           /\ wire'[s] = wire[s]
           /\ s = "remote" => wire'["local"] \in Seq(NotOpen)
<1>0. wire \in [Side -> Seq(Msg)]
  BY DEF IInv, TypeOK
<1>1. wire' = [x \in Side |-> wire'[x]] /\ wire'[s] = wire[s]
      /\ wire'[Peer(s)] = Tail(wire[Peer(s)])
  BY <1>0, SideFacts
<1>2. wire'[Peer(s)] \in Seq(Bounded(rcv[Peer(s)].rx_commit))
  BY <1>1, SideFacts, HeadTailProperties DEF IInv, WireBounded
<1>3. \A x \in Side : wire'[x] \in Seq(Bounded(rcv[x].rx_commit))
  BY <1>1, <1>2 DEF IInv, WireBounded, Side, Peer
<1>4. s = "remote" => wire'["local"] \in Seq(NotOpen)
  BY <1>1, SideFacts, OneOpenTail DEF IInv, OpenFirst
<1> QED BY <1>1, <1>3, <1>4

LEMMA m_local_flow_Step == IInv /\ m_local_flow => IInv'
<1> SUFFICES ASSUME IInv, m_local_flow PROVE IInv'
    OBVIOUS
<1>a. UNCHANGED otherVars /\ snd' = snd /\ rcv' = rcv
  BY DEF m_local_flow, otherVars
<1>b. /\ Idle(ctl["local"]) /\ wire["local"] = <<>>
      /\ ctl["remote"].phase = "none"
  BY SideFacts DEF IInv, m_local_flow, Unopened
<1>c. ctl \in [Side -> Ctl] /\ wire \in [Side -> Seq(Msg)]
  BY DEF IInv, TypeOK
<1>d. /\ ctl["local"] \in Ctl /\ ~ctl["local"].pending_open
      /\ ~ctl["local"].waiting_resume
  BY <1>b, <1>c, SideFacts DEF Idle
<1>1. NoLoss' /\ OneTargetConnection'
  BY <1>a, OthersKeepType DEF IInv, NoLoss, OneTargetConnection
<1>2. CASE Attached("local")
  <2> DEFINE open == [kind |-> "open"]
             c == [ctl["local"] EXCEPT !.phase = "control"]
  <2>1. ctl' = [ctl EXCEPT !["local"] = c]
    BY <1>2, <1>b, <1>c DEF m_local_flow
  <2>2. wire' = [wire EXCEPT !["local"] = Sent("local", <<open>>)]
    BY <1>2 DEF m_local_flow
  <2>3. /\ c \in Ctl /\ c.phase = "control" /\ ~c.pending_open
    BY <1>d DEF Ctl, Phases
  <2>4. open \in Bounded(rcv["local"].rx_commit) /\ open \in Msg
    BY DEF Bounded, Msg
  <2> HIDE DEF c, open
  <2>5. Sent("local", <<open>>) \in Seq(Bounded(rcv["local"].rx_commit))
    <3>1. <<open>> \in Seq(Bounded(rcv["local"].rx_commit))
      BY <2>4
    <3>2. wire["local"] \in Seq(Bounded(rcv["local"].rx_commit))
      BY SideFacts DEF IInv, WireBounded
    <3> QED BY <3>1, <3>2, SentType, SideFacts
  <2>6. OneOpen(Sent("local", <<open>>))
    BY <1>b, <2>4 DEF Sent, OneOpen
  <2>7. TypeFlow' /\ ctl'["local"] = c /\ ctl'["remote"] = ctl["remote"]
    BY <1>a, <2>1, <2>3, SideFacts DEF IInv, TypeOK, TypeFlow
  <2>8. WireBounded' /\ wire' = [x \in Side |-> wire'[x]]
    BY <1>a, <1>c, <2>2, <2>5, SideFacts DEF IInv, WireBounded, Side
  <2>9. OpenFirst'
    BY <1>b, <1>c, <2>2, <2>6, <2>7, SideFacts DEF OpenFirst
  <2>10. Unopened'
    BY <1>a, <1>b, <2>3, <2>7, OthersKeepType DEF IInv, Unopened, Side
  <2> QED BY <1>1, <1>a, <2>7, <2>8, <2>9, <2>10, OthersKeepType, Assemble
<1>3. CASE ~Attached("local")
  <2>1. PICK g \in 1..MaxGrace :
             ctl' = [ctl EXCEPT !["local"].phase = "active",
                                !["local"].suspended = TRUE,
                                !["local"].pending_open = TRUE,
                                !["local"].grace = g]
    BY <1>3 DEF m_local_flow
  <2> DEFINE c == [ctl["local"] EXCEPT !.phase = "active", !.suspended = TRUE,
                                        !.pending_open = TRUE, !.grace = g]
  <2>2. wire' = wire
    BY <1>3 DEF m_local_flow
  <2>3. ctl' = [ctl EXCEPT !["local"] = c]
    BY <1>b, <1>c, <2>1
  <2>4. /\ c \in Ctl /\ c.phase = "active" /\ c.suspended /\ ~c.waiting_resume
    <3>1. g \in Nat
      BY ConstantsAssumption
    <3> QED BY <1>d, <3>1 DEF Ctl, Phases
  <2> HIDE DEF c
  <2>7. TypeFlow' /\ ctl'["local"] = c /\ ctl'["remote"] = ctl["remote"]
    BY <1>a, <2>3, <2>4, SideFacts DEF IInv, TypeOK, TypeFlow
  <2>8. WireBounded' /\ wire' = [x \in Side |-> wire'[x]]
    BY <1>a, <1>c, <2>2 DEF IInv, WireBounded
  <2>9. OpenFirst'
    BY <2>2, <2>7 DEF IInv, OpenFirst
  <2>10. Unopened'
    BY <1>a, <1>b, <2>2, <2>4, <2>7, OthersKeepType DEF IInv, Unopened, Side
  <2> QED BY <1>1, <1>a, <2>7, <2>8, <2>9, <2>10, OthersKeepType, Assemble
<1> QED BY <1>2, <1>3

LEMMA ReadOpen_Step == IInv /\ ReadOpen => IInv'
<1> SUFFICES ASSUME IInv, ReadOpen PROVE IInv'
    OBVIOUS
<1>a. /\ wire["local"] # <<>> /\ Head(wire["local"]).kind = "open"
      /\ wire' = [wire EXCEPT !["local"] = Tail(wire["local"])]
      /\ connects' = connects + 1
      /\ ctl' = [ctl EXCEPT !["remote"] = [NewCtl EXCEPT !.phase = "connecting"]]
      /\ snd' = [snd EXCEPT !["remote"] = NewSnd]
      /\ rcv' = [rcv EXCEPT !["remote"] = NewRcv]
  BY SideFacts DEF ReadOpen, CanRead, Head1, Pop
<1>b. /\ ctl["remote"].phase = "none"
      /\ rcv["remote"].rx_commit = 0 /\ connects = 0
  <2>1. wire["local"] \notin Seq(NotOpen)
    BY <1>a, HeadTailProperties DEF NotOpen
  <2> QED BY <2>1 DEF IInv, OpenFirst, Unopened
<1>c. /\ ctl \in [Side -> Ctl] /\ snd \in [Side -> Snd] /\ rcv \in [Side -> Rcv]
  BY DEF IInv, TypeOK
<1>1. TypeTransport' /\ TypeRest'
  BY <1>a DEF IInv, TypeOK, TypeTransport, TypeRest, ReadOpen, transportVars
<1>2. /\ TypeFlow'
      /\ ctl'["remote"].phase = "connecting" /\ ctl'["local"] = ctl["local"]
      /\ rcv'["remote"] = NewRcv /\ rcv'["local"] = rcv["local"]
      /\ snd'["remote"] = NewSnd /\ snd'["local"] = snd["local"]
  <2>1. [NewCtl EXCEPT !.phase = "connecting"] \in Ctl
    BY NewType DEF Ctl, Phases
  <2>2. [NewCtl EXCEPT !.phase = "connecting"].phase = "connecting"
    BY DEF NewCtl
  <2> QED BY <1>a, <1>c, <2>1, <2>2, NewType, SideFacts DEF TypeFlow
<1>3. \A x \in Side : rcv'[x].rx_commit = rcv[x].rx_commit
  BY <1>2, <1>b DEF Side, NewRcv
<1>4. NoLoss'
  <2>1. snd'["local"].tx_base <= rcv'["remote"].rx_commit
    BY <1>2, <1>3, SideFacts DEF IInv, NoLoss
  <2>2. snd'["remote"].tx_base <= rcv'["local"].rx_commit
    BY <1>2, <1>c, RcvFields, SideFacts DEF NewSnd
  <2> QED BY <2>1, <2>2, SideFacts DEF NoLoss, Side
<1>5. /\ wire' = [x \in Side |-> wire'[x]]
      /\ \A x \in Side : wire'[x] \in Seq(Bounded(rcv[x].rx_commit))
      /\ wire'["local"] \in Seq(NotOpen)
  BY <1>a, SideFacts, PopFacts
<1>6. WireBounded'
  BY <1>3, <1>5 DEF WireBounded
<1>7. OpenFirst'
  BY <1>5, OneOpenSeq DEF OpenFirst
<1>8. Unopened'
  BY <1>2, <1>a DEF IInv, Unopened, Side
<1>9. OneTargetConnection'
  BY <1>a, <1>b DEF OneTargetConnection
<1> QED BY <1>1, <1>2, <1>4, <1>5, <1>6, <1>7, <1>8, <1>9, Assemble

LEMMA TargetConnected_Step == IInv /\ TargetConnected => IInv'
<1> SUFFICES ASSUME IInv, TargetConnected PROVE IInv'
    OBVIOUS
<1>a. UNCHANGED otherVars /\ snd' = snd /\ rcv' = rcv /\ wire' = wire
  BY DEF TargetConnected, otherVars
<1>b. PICK ok \in BOOLEAN :
        ctl' = [ctl EXCEPT !["remote"].phase = "reply", !["remote"].reject = ~ok]
  BY DEF TargetConnected
<1>c. /\ ctl["remote"] \in Ctl /\ ctl["remote"].phase = "connecting"
  BY SideFacts DEF IInv, TypeOK, TargetConnected
<1> DEFINE rej == ~ok
           c == [ctl["remote"] EXCEPT !.phase = "reply", !.reject = rej]
<1>d. rej \in BOOLEAN
  OBVIOUS
<1>e. ctl' = [ctl EXCEPT !["remote"] = c]
  BY <1>b
<1> HIDE DEF rej
<1>f. c \in Ctl /\ c.phase = "reply"
  BY <1>c, <1>d DEF Ctl, Phases
<1> HIDE DEF c
<1>1. TypeFlow' /\ ctl'["remote"].phase = "reply" /\ ctl'["local"] = ctl["local"]
  BY <1>a, <1>e, <1>f, SideFacts DEF IInv, TypeOK, TypeFlow
<1>2. NoLoss' /\ OneTargetConnection' /\ WireBounded'
      /\ wire' = [x \in Side |-> wire'[x]]
  BY <1>a, OthersKeepType
     DEF IInv, TypeOK, NoLoss, OneTargetConnection, WireBounded
<1>3. OpenFirst'
  BY <1>a, <1>c DEF IInv, OpenFirst
<1>4. Unopened'
  BY <1>1, <1>a, <1>c DEF IInv, Unopened, Side
<1> QED BY <1>1, <1>2, <1>3, <1>4, <1>a, OthersKeepType, Assemble

LEMMA m_reply_flush_Step == IInv /\ m_reply_flush => IInv'
<1> SUFFICES ASSUME IInv, m_reply_flush PROVE IInv'
    OBVIOUS
<1> DEFINE reply == IF ctl["remote"].resuming
                    THEN [kind |-> "rack", ok |-> TRUE,
                          snap |-> m_resume_snapshot("remote")]
                    ELSE [kind |-> "oack", ok |-> ~ctl["remote"].reject]
           out == Sent("remote", <<reply>>)
           S == Bounded(rcv["remote"].rx_commit)
<1>a. UNCHANGED otherVars /\ snd' = snd /\ rcv' = rcv
  BY DEF m_reply_flush, otherVars
<1>b. /\ ctl["remote"] \in Ctl /\ ctl["remote"].phase = "reply"
      /\ snd["remote"] \in Snd /\ rcv["remote"] \in Rcv
      /\ wire \in [Side -> Seq(Msg)] /\ ctl \in [Side -> Ctl]
  BY SideFacts DEF IInv, TypeOK, m_reply_flush
<1>c. reply \in S
  <2>1. CASE ctl["remote"].resuming
    BY <1>b, <2>1, SnapshotType, SideFacts, RcvFields DEF Bounded, Msg
  <2>2. CASE ~ctl["remote"].resuming
    <3>1. (~ctl["remote"].reject) \in BOOLEAN
      OBVIOUS
    <3> QED BY <2>2, <3>1 DEF Bounded, Msg
  <2> QED BY <2>1, <2>2
<1>d. out \in Seq(S) /\ wire["remote"] \in Seq(S)
  <2> HIDE DEF reply
  <2>1. <<reply>> \in Seq(S) /\ wire["remote"] \in Seq(S)
    BY <1>c, SideFacts DEF IInv, WireBounded
  <2> QED BY <2>1, SentType, SideFacts
<1>e. \/ ctl' = [ctl EXCEPT !["remote"] = Dead(ctl["remote"])] /\ ResetWire("remote", out)
      \/ /\ ctl' = [ctl EXCEPT !["remote"].phase = "active", !["remote"].acked = TRUE]
         /\ wire' = [wire EXCEPT !["remote"] = out]
  BY DEF m_reply_flush
<1> HIDE DEF out
<1>1. /\ wire'["remote"] \in Seq(S) /\ wire'["local"] = wire["local"]
      /\ wire' = [x \in Side |-> wire'[x]]
  <2>1. CASE ResetWire("remote", out)
    <3>1. [kind |-> "reset"] \in S
      BY ResetType
    <3>2. wire' = [x \in Side |-> wire'[x]]
      BY <1>b, <2>1 DEF ResetWire
    <3> QED BY <1>b, <1>d, <2>1, <3>1, <3>2, ResetWireType, SideFacts
  <2>2. CASE wire' = [wire EXCEPT !["remote"] = out]
    BY <1>b, <1>d, <2>2, SideFacts
  <2> QED BY <1>e, <2>1, <2>2
<1>2. /\ TypeFlow' /\ ctl'["local"] = ctl["local"]
      /\ ctl'["remote"].phase # "none"
  <2>1. CASE ctl' = [ctl EXCEPT !["remote"] = Dead(ctl["remote"])]
    BY <1>a, <1>b, <2>1, DeadType, SideFacts DEF IInv, TypeOK, TypeFlow
  <2>2. CASE ctl' = [ctl EXCEPT !["remote"].phase = "active", !["remote"].acked = TRUE]
    <3> DEFINE c == [ctl["remote"] EXCEPT !.phase = "active", !.acked = TRUE]
    <3>1. c \in Ctl /\ c.phase = "active"
      BY <1>b DEF Ctl, Phases
    <3>2. ctl' = [ctl EXCEPT !["remote"] = c]
      BY <2>2
    <3> HIDE DEF c
    <3> QED BY <1>a, <1>b, <3>1, <3>2, SideFacts DEF IInv, TypeOK, TypeFlow
  <2> QED BY <1>e, <2>1, <2>2
<1>3. NoLoss' /\ OneTargetConnection' /\ WireBounded'
  BY <1>1, <1>a, OthersKeepType
     DEF IInv, NoLoss, OneTargetConnection, WireBounded, Side
<1>4. OpenFirst'
  BY <1>1, <1>b DEF IInv, OpenFirst
<1>5. Unopened'
  BY <1>1, <1>2, <1>b DEF IInv, Unopened, Side
<1> QED BY <1>1, <1>2, <1>3, <1>4, <1>5, <1>a, OthersKeepType, Assemble

LEMMA ReadOpenAck_Step == IInv /\ ReadOpenAck => IInv'
<1> SUFFICES ASSUME IInv, ReadOpenAck PROVE IInv'
    OBVIOUS
<1>a. UNCHANGED otherVars /\ snd' = snd /\ rcv' = rcv
  BY DEF ReadOpenAck, otherVars
<1>b. /\ ctl["local"] \in Ctl /\ ctl["local"].phase = "control"
      /\ wire["remote"] # <<>> /\ ctl \in [Side -> Ctl]
  BY SideFacts DEF IInv, TypeOK, ReadOpenAck, CanRead
<1>1. CASE m_abort("local")
  BY <1>1, <1>a, <1>b, SideFacts, AbortStep
<1>2. CASE /\ ctl' = [ctl EXCEPT !["local"].phase = "active",
                                 !["local"].acked = TRUE]
           /\ Pop("local")
  <2> DEFINE c == [ctl["local"] EXCEPT !.phase = "active", !.acked = TRUE]
  <2>1. /\ c \in Ctl /\ c.phase = "active"
        /\ c.pending_open = ctl["local"].pending_open
        /\ c.suspended = ctl["local"].suspended
        /\ c.waiting_resume = ctl["local"].waiting_resume
    BY <1>b DEF Ctl, Phases
  <2>2. ctl' = [ctl EXCEPT !["local"] = c]
    BY <1>2
  <2> HIDE DEF c
  <2>3. TypeFlow' /\ ctl'["local"] = c /\ ctl'["remote"] = ctl["remote"]
    BY <1>a, <1>b, <2>1, <2>2, SideFacts DEF IInv, TypeOK, TypeFlow
  <2>4. wire' = [wire EXCEPT ![Peer("local")] = Tail(wire[Peer("local")])]
    BY <1>2 DEF Pop
  <2>5. /\ wire' = [x \in Side |-> wire'[x]] /\ wire'["local"] = wire["local"]
        /\ \A x \in Side : wire'[x] \in Seq(Bounded(rcv[x].rx_commit))
    BY <1>b, <2>4, SideFacts, PopFacts
  <2>6. NoLoss' /\ OneTargetConnection' /\ WireBounded'
    BY <1>a, <2>5, OthersKeepType
       DEF IInv, NoLoss, OneTargetConnection, WireBounded
  <2>7. OpenFirst'
    BY <2>3, <2>5 DEF IInv, OpenFirst
  <2>8. Unopened'
    BY <1>a, <2>1, <2>3, <2>5, OthersKeepType DEF IInv, Unopened, Side
  <2> QED BY <1>a, <2>3, <2>5, <2>6, <2>7, <2>8, OthersKeepType, Assemble
<1> QED BY <1>1, <1>2 DEF ReadOpenAck

LEMMA HeadFacts ==
    ASSUME IInv, NEW s \in Side, wire[Peer(s)] # <<>>
    PROVE  /\ Head1(s) \in Msg
           /\ Head1(s).kind = "ack" => Head1(s).offset <= rcv[Peer(s)].rx_commit
           /\ Head1(s).kind \in {"resume", "rack"} =>
                Head1(s).snap.delivered <= rcv[Peer(s)].rx_commit
<1>1. wire[Peer(s)] \in Seq(Bounded(rcv[Peer(s)].rx_commit))
  BY SideFacts DEF IInv, WireBounded
<1>2. Head1(s) \in Bounded(rcv[Peer(s)].rx_commit)
  BY <1>1, HeadTailProperties DEF Head1
<1> QED BY <1>2 DEF Bounded

(* A new base is within what the other side wrote to its socket. *)
LEMMA NoLossStep ==
    ASSUME IInv, NEW s \in Side, NEW t, NEW r,
           snd' = [snd EXCEPT ![s] = t], rcv' = [rcv EXCEPT ![s] = r],
           t.tx_base <= rcv[Peer(s)].rx_commit,
           r \in Rcv, rcv[s].rx_commit <= r.rx_commit
    PROVE  NoLoss'
<1>1. /\ snd \in [Side -> Snd] /\ rcv \in [Side -> Rcv]
      /\ snd[Peer(s)] \in Snd
  BY SideFacts DEF IInv, TypeOK
<1>2. /\ snd'[s] = t /\ snd'[Peer(s)] = snd[Peer(s)]
      /\ rcv'[s] = r /\ rcv'[Peer(s)] = rcv[Peer(s)]
  BY <1>1, SideFacts
<1>3. snd[Peer(s)].tx_base <= rcv[s].rx_commit
  BY SideFacts DEF IInv, NoLoss
<1>4. snd[Peer(s)].tx_base <= r.rx_commit
  BY <1>1, <1>3, SndFields, RcvFields
<1>5. snd'[s].tx_base <= rcv'[Peer(s)].rx_commit
      /\ snd'[Peer(s)].tx_base <= rcv'[s].rx_commit
  BY <1>2, <1>4
<1> QED BY <1>5, SideFacts DEF NoLoss, Side, Peer

LEMMA ReadResume_Step == IInv /\ ReadResume => IInv'
<1> SUFFICES ASSUME IInv, ReadResume PROVE IInv'
    OBVIOUS
<1> DEFINE m == Head1("remote").snap
<1>a. /\ UNCHANGED otherVars
      /\ wire["local"] # <<>> /\ Head1("remote").kind = "resume"
  BY SideFacts DEF ReadResume, CanRead, otherVars
<1>b. m \in Snapshots /\ m.delivered <= rcv["local"].rx_commit
  BY <1>a, HeadFacts, MsgFields, SideFacts
<1>c. /\ ctl \in [Side -> Ctl] /\ snd \in [Side -> Snd] /\ rcv \in [Side -> Rcv]
      /\ wire \in [Side -> Seq(Msg)]
      /\ ctl["remote"] \in Ctl /\ snd["remote"] \in Snd /\ rcv["remote"] \in Rcv
  BY SideFacts DEF IInv, TypeOK
<1>d. ctl["local"].phase # "none" /\ ~ctl["local"].pending_open
  BY <1>a DEF IInv, Unopened
<1> HIDE DEF m
<1>1. CASE Retained(ctl["remote"]) /\ ResumeOk(snd["remote"], rcv["remote"], m)
  <2> DEFINE c == [ctl["remote"] EXCEPT !.suspended = FALSE, !.resuming = TRUE,
                                        !.acked = FALSE, !.phase = "reply"]
             t == ResumeSnd(snd["remote"], m)
             r == ResumeRcv(rcv["remote"], m)
  <2>1. /\ ctl' = [ctl EXCEPT !["remote"] = c]
        /\ snd' = [snd EXCEPT !["remote"] = t]
        /\ rcv' = [rcv EXCEPT !["remote"] = r]
        /\ wire' = [wire EXCEPT ![Peer("remote")] = Tail(wire[Peer("remote")])]
    BY <1>1 DEF ReadResume, Pop, m
  <2>2. c \in Ctl /\ c.phase = "reply"
    BY <1>c DEF Ctl, Phases
  <2>3. /\ t \in Snd
        /\ t.tx_base = IF m.delivered > snd["remote"].tx_base
                       THEN m.delivered ELSE snd["remote"].tx_base
    BY <1>1, <1>b, <1>c, ResumeSndType
  <2>4. r \in Rcv /\ r.rx_commit = rcv["remote"].rx_commit
    BY <1>b, <1>c, ResumeRcvType
  <2> HIDE DEF c, t, r
  <2>5. t.tx_base <= rcv[Peer("remote")].rx_commit
    BY <1>b, <2>3, SideFacts DEF IInv, NoLoss
  <2>6. rcv["remote"].rx_commit <= r.rx_commit
    BY <1>c, <2>4, RcvFields
  <2>7. NoLoss'
    BY <2>1, <2>4, <2>5, <2>6, NoLossStep, SideFacts
  <2>8. /\ TypeFlow' /\ ctl'["remote"].phase = "reply" /\ ctl'["local"] = ctl["local"]
        /\ \A x \in Side : rcv'[x].rx_commit = rcv[x].rx_commit
    BY <1>c, <2>1, <2>2, <2>3, <2>4, SideFacts DEF TypeFlow, Side
  <2>9. /\ wire' = [x \in Side |-> wire'[x]]
        /\ \A x \in Side : wire'[x] \in Seq(Bounded(rcv[x].rx_commit))
        /\ wire'["local"] \in Seq(NotOpen)
    BY <1>a, <2>1, SideFacts, PopFacts
  <2>10. WireBounded'
    BY <2>8, <2>9 DEF WireBounded
  <2>11. OpenFirst'
    BY <2>9, OneOpenSeq DEF OpenFirst
  <2>12. Unopened' /\ OneTargetConnection'
    BY <1>a, <1>d, <2>8, OthersKeepType
       DEF IInv, Unopened, OneTargetConnection, Side
  <2> QED BY <1>a, <2>7, <2>8, <2>9, <2>10, <2>11, <2>12, OthersKeepType, Assemble
<1>2. CASE ~(Retained(ctl["remote"]) /\ ResumeOk(snd["remote"], rcv["remote"], m))
  <2> DEFINE S == Bounded(rcv["remote"].rx_commit)
             nak == [kind |-> "rack", ok |-> FALSE,
                     snap |-> m_resume_snapshot("remote")]
             reset == [kind |-> "reset"]
             out == Sent("remote", <<nak, reset>>)
             popped == [wire EXCEPT !["local"] = Tail(wire["local"])]
  <2>1. /\ wire' = [wire EXCEPT !["local"] = Tail(wire["local"]), !["remote"] = out]
        /\ UNCHANGED <<ctl, snd, rcv>>
    BY <1>2 DEF ReadResume, m
  <2>2. nak \in S /\ reset \in S
    BY <1>c, SnapshotType, ResetType, SideFacts, RcvFields DEF Bounded, Msg
  <2> HIDE DEF nak, reset
  <2>3. out \in Seq(S)
    <3>1. <<nak, reset>> \in Seq(S) /\ wire["remote"] \in Seq(S)
      BY <2>2, SideFacts DEF IInv, WireBounded
    <3> QED BY <3>1, SentType, SideFacts
  <2> HIDE DEF out
  <2>4. /\ wire'["local"] = Tail(wire["local"]) /\ wire'["remote"] = out
        /\ wire' = [x \in Side |-> wire'[x]]
    BY <1>c, <2>1, SideFacts
  <2>5. wire'["local"] \in Seq(Bounded(rcv["local"].rx_commit))
    BY <1>a, <2>4, SideFacts, HeadTailProperties DEF IInv, WireBounded
  <2>6. wire'["local"] \in Seq(NotOpen)
    BY <1>a, <2>4, OneOpenTail DEF IInv, OpenFirst
  <2>7. WireBounded' /\ OpenFirst'
    BY <2>1, <2>3, <2>4, <2>5, <2>6, OneOpenSeq DEF WireBounded, OpenFirst, Side
  <2>8. NoLoss' /\ TypeFlow' /\ OneTargetConnection'
    BY <1>a, <1>c, <2>1, OthersKeepType
       DEF IInv, NoLoss, TypeFlow, OneTargetConnection
  <2>9. Unopened'
    BY <1>a, <1>d, <2>1, OthersKeepType DEF IInv, Unopened
  <2> QED BY <1>a, <2>4, <2>7, <2>8, <2>9, OthersKeepType, Assemble
<1> QED BY <1>1, <1>2

LEMMA ReadResumeAck_Step == IInv /\ ReadResumeAck => IInv'
<1> SUFFICES ASSUME IInv, ReadResumeAck PROVE IInv'
    OBVIOUS
<1> DEFINE m == Head1("local").snap
<1>a. /\ UNCHANGED otherVars
      /\ wire["remote"] # <<>> /\ Head1("local").kind = "rack"
      /\ ctl["local"].waiting_resume
  BY SideFacts DEF ReadResumeAck, CanRead, otherVars
<1>b. m \in Snapshots /\ m.delivered <= rcv["remote"].rx_commit
  BY <1>a, HeadFacts, MsgFields, SideFacts
<1>c. /\ ctl \in [Side -> Ctl] /\ snd \in [Side -> Snd] /\ rcv \in [Side -> Rcv]
      /\ ctl["local"] \in Ctl /\ snd["local"] \in Snd /\ rcv["local"] \in Rcv
  BY SideFacts DEF IInv, TypeOK
<1>d. ctl["local"].phase # "none" /\ ~ctl["local"].pending_open
  BY <1>a, SideFacts DEF IInv, Unopened, Idle
<1> HIDE DEF m
<1>1. CASE Head1("local").ok /\ ResumeOk(snd["local"], rcv["local"], m)
  <2> DEFINE c == [ctl["local"] EXCEPT !.waiting_resume = FALSE,
                     !.suspended = FALSE, !.grace = None, !.acked = TRUE,
                     !.phase = "active"]
             t == ResumeSnd(snd["local"], m)
             r == ResumeRcv(rcv["local"], m)
  <2>1. /\ ctl' = [ctl EXCEPT !["local"] = c]
        /\ snd' = [snd EXCEPT !["local"] = t]
        /\ rcv' = [rcv EXCEPT !["local"] = r]
        /\ wire' = [wire EXCEPT ![Peer("local")] = Tail(wire[Peer("local")])]
    BY <1>1 DEF ReadResumeAck, Pop, m
  <2>2. c \in Ctl /\ c.phase = "active" /\ ~c.pending_open
    BY <1>c, <1>d DEF Ctl, Phases, None
  <2>3. /\ t \in Snd
        /\ t.tx_base = IF m.delivered > snd["local"].tx_base
                       THEN m.delivered ELSE snd["local"].tx_base
    BY <1>1, <1>b, <1>c, ResumeSndType
  <2>4. r \in Rcv /\ r.rx_commit = rcv["local"].rx_commit
    BY <1>b, <1>c, ResumeRcvType
  <2> HIDE DEF c, t, r
  <2>5. t.tx_base <= rcv[Peer("local")].rx_commit
    BY <1>b, <2>3, SideFacts DEF IInv, NoLoss
  <2>6. rcv["local"].rx_commit <= r.rx_commit
    BY <1>c, <2>4, RcvFields
  <2>7. NoLoss'
    BY <2>1, <2>4, <2>5, <2>6, NoLossStep, SideFacts
  <2>8. /\ TypeFlow' /\ ctl'["local"] = c /\ ctl'["remote"] = ctl["remote"]
        /\ \A x \in Side : rcv'[x].rx_commit = rcv[x].rx_commit
    BY <1>c, <2>1, <2>2, <2>3, <2>4, SideFacts DEF TypeFlow, Side
  <2>9. /\ wire' = [x \in Side |-> wire'[x]]
        /\ \A x \in Side : wire'[x] \in Seq(Bounded(rcv[x].rx_commit))
        /\ wire'["local"] = wire["local"]
    BY <1>a, <2>1, SideFacts, PopFacts
  <2>10. WireBounded'
    BY <2>8, <2>9 DEF WireBounded
  <2>11. OpenFirst'
    BY <2>8, <2>9 DEF IInv, OpenFirst
  <2>12. Unopened' /\ OneTargetConnection'
    BY <1>a, <2>2, <2>8, SideFacts, OthersKeepType
       DEF IInv, Unopened, OneTargetConnection, Side
  <2> QED BY <1>a, <2>7, <2>8, <2>9, <2>10, <2>11, <2>12, OthersKeepType, Assemble
<1>2. CASE ~(Head1("local").ok /\ ResumeOk(snd["local"], rcv["local"], m))
  <2>1. m_abort("local") /\ UNCHANGED <<snd, rcv>>
    BY <1>2 DEF ReadResumeAck, m
  <2> QED BY <1>a, <1>d, <2>1, SideFacts, AbortStep
<1> QED BY <1>1, <1>2

LEMMA ReadReset_Step ==
    ASSUME IInv, NEW s \in Side, ReadReset(s)
    PROVE  IInv'
<1>a. /\ UNCHANGED otherVars /\ snd' = snd /\ rcv' = rcv
      /\ ctl' = [ctl EXCEPT ![s] = Dead(ctl[s])]
      /\ wire' = [wire EXCEPT ![s] = <<>>, ![Peer(s)] = <<>>]
      /\ ctl[s].phase # "none" /\ wire[Peer(s)] # <<>>
  BY DEF ReadReset, HasStream, CanRead, otherVars
<1>b. ctl \in [Side -> Ctl] /\ wire \in [Side -> Seq(Msg)] /\ ctl[s] \in Ctl
  BY DEF IInv, TypeOK
<1>1. /\ TypeFlow' /\ ctl'[s].phase = "dead" /\ ~ctl'[s].pending_open
      /\ ctl'[Peer(s)] = ctl[Peer(s)]
  BY <1>a, <1>b, DeadType, SideFacts DEF IInv, TypeOK, TypeFlow
<1>2. wire' = [x \in Side |-> <<>>]
  BY <1>a, <1>b DEF Side, Peer
<1>3. WireBounded' /\ OpenFirst' /\ wire' = [x \in Side |-> wire'[x]]
  <2>1. <<>> \in Seq(NotOpen) /\ \A c : <<>> \in Seq(Bounded(c))
    BY EmptySeq
  <2> QED BY <1>2, <2>1, OneOpenSeq, SideFacts DEF WireBounded, OpenFirst
<1>4. NoLoss' /\ OneTargetConnection'
  BY <1>a, OthersKeepType DEF IInv, NoLoss, OneTargetConnection
<1>5. Unopened'
  <2>1. CASE s = "local"
    BY <1>1, <1>a, <2>1, SideFacts, OthersKeepType DEF IInv, Unopened, Side
  <2>2. CASE s = "remote"
    BY <1>1, <1>a, <2>2, SideFacts, OthersKeepType DEF IInv, Unopened, Side
  <2> QED BY <2>1, <2>2 DEF Side
<1> QED BY <1>1, <1>3, <1>4, <1>5, <1>a, OthersKeepType, Assemble

LEMMA NewAttempt_Step == IInv /\ NewAttempt => IInv'
<1> SUFFICES ASSUME IInv, NewAttempt PROVE IInv'
    OBVIOUS
<1>a. /\ ctl' = ctl /\ snd' = snd /\ rcv' = rcv /\ connects' = connects
      /\ wire' = [x \in Side |-> <<>>]
  BY DEF NewAttempt
<1>1. TypeTransport'
  <2>1. att' \in [Side -> {"down", "setup", "ready"}] /\ attempt' \in Nat
        /\ deadline' \in [Side -> Nat \cup {None}]
    BY DEF IInv, TypeOK, NewAttempt
  <2>2. ever_ready' \in [Side -> BOOLEAN] /\ context' \in BOOLEAN /\ proof' \in BOOLEAN
    BY DEF IInv, TypeOK, NewAttempt
  <2> QED BY <2>1, <2>2 DEF TypeTransport
<1>2. TypeRest' /\ TypeFlow'
  BY DEF IInv, TypeOK, TypeRest, TypeFlow, NewAttempt
<1>3. WireBounded' /\ OpenFirst' /\ wire' = [x \in Side |-> wire'[x]]
  <2>1. <<>> \in Seq(NotOpen) /\ \A c : <<>> \in Seq(Bounded(c))
    BY EmptySeq
  <2> QED BY <1>a, <2>1, OneOpenSeq, SideFacts DEF WireBounded, OpenFirst
<1>4. NoLoss' /\ OneTargetConnection' /\ Unopened'
  BY <1>a, SideFacts DEF IInv, NoLoss, OneTargetConnection, Unopened
<1> QED BY <1>1, <1>2, <1>3, <1>4, Assemble

LEMMA CountDownType ==
    ASSUME NEW d \in Nat \cup {None}
    PROVE  CountDown(d) \in Nat \cup {None} /\ CountDown(d) <= d
           /\ (d = None => CountDown(d) = None)
BY DEF CountDown, None

LEMMA ClockTick_Step ==
    ASSUME IInv, NEW s \in Side, ClockTick(s)
    PROVE  IInv'
<1>a. /\ snd' = snd /\ rcv' = rcv /\ wire' = wire /\ connects' = connects
      /\ ctl' = [ctl EXCEPT ![s].grace = CountDown(ctl[s].grace)]
      /\ deadline' = [deadline EXCEPT ![s] = CountDown(deadline[s])]
  BY DEF ClockTick
<1> DEFINE g == CountDown(ctl[s].grace)
           c == [ctl[s] EXCEPT !.grace = g]
<1>b. ctl \in [Side -> Ctl] /\ ctl[s] \in Ctl /\ deadline \in [Side -> Nat \cup {None}]
      /\ deadline[s] \in Nat \cup {None} /\ ctl[s].grace \in Nat \cup {None}
  BY DEF IInv, TypeOK, Ctl
<1>c. g \in Nat \cup {None} /\ (ctl[s].grace = None => g = None)
  BY <1>b, CountDownType
<1>d. ctl' = [ctl EXCEPT ![s] = c]
  BY <1>a
<1> HIDE DEF g
<1>e. /\ c \in Ctl /\ c.phase = ctl[s].phase /\ c.pending_open = ctl[s].pending_open
      /\ c.suspended = ctl[s].suspended /\ c.waiting_resume = ctl[s].waiting_resume
  BY <1>b, <1>c DEF Ctl
<1>f. Idle(ctl[s]) => Idle(c)
  BY <1>b, <1>c DEF Idle, Ctl
<1> HIDE DEF c
<1>g. snd' = snd /\ rcv' = rcv
  BY <1>a
<1>1. TypeFlow' /\ ctl'[s] = c /\ ctl'[Peer(s)] = ctl[Peer(s)]
  BY <1>b, <1>d, <1>e, <1>g, SideFacts DEF IInv, TypeOK, TypeFlow
<1>2. TypeTransport'
  <2>1. deadline' \in [Side -> Nat \cup {None}]
    BY <1>a, <1>b, CountDownType
  <2> QED BY <2>1 DEF IInv, TypeOK, TypeTransport, ClockTick
<1>3. TypeRest'
  BY DEF IInv, TypeOK, TypeRest, ClockTick
<1>4. WireBounded' /\ wire' = [x \in Side |-> wire'[x]] /\ NoLoss' /\ OneTargetConnection'
  BY <1>a DEF IInv, TypeOK, WireBounded, NoLoss, OneTargetConnection
<1>5. \A x \in Side : /\ ctl'[x].phase = ctl[x].phase
                      /\ ctl'[x].pending_open = ctl[x].pending_open
                      /\ ctl'[x].suspended = ctl[x].suspended
                      /\ ctl'[x].waiting_resume = ctl[x].waiting_resume
                      /\ (Idle(ctl[x]) => Idle(ctl'[x]))
  BY <1>1, <1>e, <1>f DEF Side, Peer
<1>6. OpenFirst' /\ Unopened'
  BY <1>5, <1>a, SideFacts DEF IInv, OpenFirst, Unopened
<1> QED BY <1>1, <1>2, <1>3, <1>4, <1>6, Assemble

LEMMA TransportFail_Step ==
    ASSUME IInv, NEW s \in Side, TransportFail(s)
    PROVE  IInv'
<1>a. /\ connects' = connects /\ sock' = sock /\ failed' = failed
      /\ retired' = retired /\ ever_ready' = ever_ready
      /\ context' = context /\ proof' = proof /\ attempt' = attempt
      /\ att' = [att EXCEPT ![s] = "down"]
      /\ wire' = [wire EXCEPT ![Peer(s)] = <<>>,
                              ![s] = IF att[Peer(s)] = "down" THEN <<>> ELSE wire[s]]
  BY DEF TransportFail
<1>b. PICK g \in 1..MaxGrace :
         /\ deadline' = [deadline EXCEPT ![s] =
                           IF ever_ready[s] /\ deadline[s] = None THEN g ELSE deadline[s]]
         /\ Suspend(s, IF deadline'[s] = None THEN g ELSE deadline'[s])
  BY DEF TransportFail
<1> DEFINE d == IF deadline'[s] = None THEN g ELSE deadline'[s]
<1>c. /\ ctl \in [Side -> Ctl] /\ snd \in [Side -> Snd] /\ rcv \in [Side -> Rcv]
      /\ wire \in [Side -> Seq(Msg)] /\ ctl[s] \in Ctl /\ snd[s] \in Snd
      /\ rcv[s] \in Rcv /\ deadline \in [Side -> Nat \cup {None}] /\ g \in Nat
  BY ConstantsAssumption DEF IInv, TypeOK
<1>d. deadline' \in [Side -> Nat \cup {None}]
  BY <1>b, <1>c
<1>e. d \in Nat \cup {None} /\ Suspend(s, d)
  BY <1>b, <1>c, <1>d
<1> HIDE DEF d
<1>1. TypeTransport'
  <2>1. att' \in [Side -> {"down", "setup", "ready"}]
    BY <1>a DEF IInv, TypeOK
  <2> QED BY <1>a, <1>d, <2>1 DEF IInv, TypeOK, TypeTransport
<1>2. TypeRest' /\ OneTargetConnection'
  BY <1>a DEF IInv, TypeOK, TypeRest, OneTargetConnection
<1>3. /\ TypeFlow' /\ ctl'[Peer(s)] = ctl[Peer(s)]
      /\ (ctl[s].phase = "none" => ctl'[s] = ctl[s])
      /\ (ctl[s].phase # "none" =>
            /\ ctl'[s].phase # "none"
            /\ ctl'[s].pending_open => /\ ctl[s].pending_open
                                       /\ ctl'[s].suspended
                                       /\ ~ctl'[s].waiting_resume)
      /\ \A x \in Side : rcv'[x].rx_commit = rcv[x].rx_commit
                         /\ snd'[x].tx_base = snd[x].tx_base
  <2>1. CASE Kept(s, d > 0)
    <3>1. /\ ctl' = [ctl EXCEPT ![s] = SuspendCtl(ctl[s], d)]
          /\ snd' = [snd EXCEPT ![s] = SuspendSnd(snd[s])]
          /\ rcv' = [rcv EXCEPT ![s] = SuspendRcv(rcv[s])]
      BY <1>e, <2>1 DEF Suspend
    <3>2. ctl[s].phase # "none"
      BY <2>1 DEF Kept
    <3>3. TypeFlow' /\ ctl'[s] = SuspendCtl(ctl[s], d)
          /\ ctl'[Peer(s)] = ctl[Peer(s)]
      BY <1>c, <1>e, <3>1, SuspendCtlType, SuspendType, SideFacts DEF TypeFlow
    <3>4. \A x \in Side : rcv'[x].rx_commit = rcv[x].rx_commit
                          /\ snd'[x].tx_base = snd[x].tx_base
      BY <1>c, <3>1, SuspendType
    <3> QED BY ZenonT(60), <1>c, <1>e, <3>2, <3>3, <3>4, SuspendCtlType
  <2>2. CASE ~Kept(s, d > 0)
    <3>1. /\ ctl' = [ctl EXCEPT ![s] = IF ctl[s].phase = "none" THEN ctl[s]
                                                               ELSE Dead(ctl[s])]
          /\ snd' = snd /\ rcv' = rcv
      BY <1>e, <2>2 DEF Suspend
    <3> QED BY <1>c, <3>1, DeadType, SideFacts DEF TypeFlow
  <2> QED BY <2>1, <2>2
<1>4. NoLoss'
  BY <1>3, SideFacts DEF IInv, NoLoss
<1>5. /\ wire' = [x \in Side |-> wire'[x]]
      /\ \A x \in Side : wire'[x] \in {<<>>, wire[x]}
  BY <1>a, <1>c DEF Side, Peer
<1>6. WireBounded'
  <2>1. \A c : <<>> \in Seq(Bounded(c))
    BY EmptySeq
  <2> QED BY <1>3, <1>5, <2>1 DEF IInv, WireBounded
<1>7. OpenFirst'
  <2>1. CASE wire'["local"] = <<>>
    BY <2>1, EmptySeq, OneOpenSeq DEF OpenFirst
  <2>2. CASE wire'["local"] = wire["local"]
    BY <1>3, <2>2 DEF IInv, OpenFirst, Side, Peer
  <2> QED BY <1>5, <2>1, <2>2, SideFacts
<1>8. Unopened'
  BY <1>3, <1>5, <1>a, SideFacts DEF IInv, Unopened, Side, Peer
<1> QED BY <1>1, <1>2, <1>3, <1>4, <1>5, <1>6, <1>7, <1>8, Assemble

LEMMA ob_peer_mark_ready_Step ==
    ASSUME IInv, NEW s \in Side, ob_peer_mark_ready(s)
    PROVE  IInv'
<1>a. /\ snd' = snd /\ rcv' = rcv /\ connects' = connects /\ sock' = sock
      /\ failed' = failed /\ retired' = retired /\ context' = context
      /\ attempt' = attempt
      /\ ctl' = [ctl EXCEPT ![s] = ReadyCtl(ctl[s], s)]
      /\ wire' = [wire EXCEPT ![s] = Sent(s, ReadyFrames(ctl[s], s))]
  BY DEF ob_peer_mark_ready
<1>b. /\ ctl \in [Side -> Ctl] /\ wire \in [Side -> Seq(Msg)]
      /\ ctl[s] \in Ctl /\ snd[s] \in Snd /\ rcv[s] \in Rcv
  BY DEF IInv, TypeOK
<1>1. TypeTransport'
  <2>1. att' \in [Side -> {"down", "setup", "ready"}]
    BY DEF IInv, TypeOK, ob_peer_mark_ready
  <2>2. ever_ready' \in [Side -> BOOLEAN]
    BY DEF IInv, TypeOK, ob_peer_mark_ready
  <2>3. proof' \in BOOLEAN /\ context' \in BOOLEAN /\ attempt' \in Nat
    <3>1. (proof \/ s = "remote") \in BOOLEAN
      OBVIOUS
    <3>2. proof' \in BOOLEAN
      BY <3>1 DEF ob_peer_mark_ready
    <3> QED BY <1>a, <3>2 DEF IInv, TypeOK
  <2>4. deadline' \in [Side -> Nat \cup {None}]
    BY DEF IInv, TypeOK, ob_peer_mark_ready, None
  <2> QED BY <2>1, <2>2, <2>3, <2>4 DEF TypeTransport
<1>2. TypeRest' /\ OneTargetConnection' /\ NoLoss'
  BY <1>a DEF IInv, TypeOK, TypeRest, OneTargetConnection, NoLoss
<1>3. /\ TypeFlow' /\ ctl'[Peer(s)] = ctl[Peer(s)]
      /\ ctl[s].phase = "none" => ctl'[s] = ctl[s]
      /\ ctl[s].phase # "none" =>
           /\ ctl'[s].phase # "none"
           /\ ctl'[s].pending_open => ctl[s].pending_open /\ ~ctl[s].suspended
  <2>1. ctl[s].phase = "none" => ReadyCtl(ctl[s], s) = ctl[s]
    BY DEF IInv, Unopened, Idle, ReadyCtl
  <2> QED BY SMTT(60), <1>a, <1>b, <2>1, ReadyCtlType, SideFacts DEF IInv, TypeOK, TypeFlow
<1> DEFINE f == ReadyFrames(ctl[s], s)
           snap == m_resume_snapshot(s)
<1>4. /\ f \in Seq(Bounded(rcv[s].rx_commit))
      /\ ctl[s].phase = "none" => f = <<>>
      /\ ~(ctl[s].suspended /\ ctl[s].pending_open) => f \in Seq(NotOpen)
      /\ f \in Seq(NotOpen) \/ \E m \in Msg : f = <<m>>
  <2>1. CASE f = <<>>
    BY <2>1, EmptySeq
  <2>2. CASE f = <<[kind |-> "open"]>> /\ ctl[s].suspended /\ ctl[s].pending_open
    <3>1. [kind |-> "open"] \in Bounded(rcv[s].rx_commit) /\ [kind |-> "open"] \in Msg
      BY DEF Bounded, Msg
    <3>2. ctl[s].phase # "none"
      BY <2>2 DEF IInv, Unopened, Idle
    <3> HIDE DEF f
    <3> QED BY <2>2, <3>1, <3>2
  <2>3. CASE f = <<[kind |-> "resume", snap |-> snap]>> /\ ctl[s].suspended
    <3> DEFINE m == [kind |-> "resume", snap |-> snap]
    <3>1. m \in Bounded(rcv[s].rx_commit) /\ m \in NotOpen
      BY <1>b, SnapshotType, RcvFields DEF Bounded, Msg, NotOpen
    <3>2. ctl[s].phase # "none"
      BY <2>3 DEF IInv, Unopened, Idle
    <3>3. f = <<m>>
      BY <2>3
    <3> HIDE DEF f, m
    <3> QED BY <3>1, <3>2, <3>3
  <2> QED BY <2>1, <2>2, <2>3 DEF ReadyFrames
<1> HIDE DEF f
<1>5. /\ wire'[s] \in Seq(Bounded(rcv[s].rx_commit))
      /\ wire'[s] = Sent(s, f)
      /\ wire'[Peer(s)] = wire[Peer(s)]
      /\ wire' = [x \in Side |-> wire'[x]]
  <2>1. Sent(s, f) \in Seq(Bounded(rcv[s].rx_commit))
    BY <1>4, SentType DEF IInv, WireBounded
  <2> QED BY <1>a, <1>b, <2>1, SideFacts DEF f
<1>6. WireBounded'
  BY <1>5, <1>a DEF IInv, WireBounded, Side, Peer
<1>7. OpenFirst'
  <2>1. CASE s = "remote"
    BY <1>3, <1>5, <2>1, SideFacts DEF IInv, OpenFirst
  <2>2. CASE s = "local" /\ f \in Seq(NotOpen)
    <3>1. OneOpen(Sent(s, f))
      BY <2>2, OneOpenAppend, OneOpenSeq, EmptySeq DEF IInv, OpenFirst, Sent
    <3>2. wire[s] \in Seq(NotOpen) => Sent(s, f) \in Seq(NotOpen)
      BY <2>2, SentType
    <3> QED BY <1>3, <1>5, <2>2, <3>1, <3>2, SideFacts DEF IInv, OpenFirst
  <2>3. CASE s = "local" /\ f \notin Seq(NotOpen)
    <3>1. wire[s] = <<>> /\ ctl["remote"].phase = "none"
      BY <1>4, <2>3 DEF IInv, Unopened
    <3>2. PICK m \in Msg : f = <<m>>
      BY <1>4, <2>3
    <3>3. OneOpen(Sent(s, f))
      BY <3>1, <3>2 DEF Sent, OneOpen
    <3> QED BY <1>3, <1>5, <2>3, <3>1, <3>3, SideFacts DEF OpenFirst
  <2> QED BY <2>1, <2>2, <2>3 DEF Side
<1>8. Unopened'
  <2>1. CASE s = "remote"
    BY <1>3, <1>5, <1>a, <2>1, SideFacts DEF IInv, Unopened, Side
  <2>2. CASE s = "local" /\ ctl["local"].phase = "none"
    <3>1. wire'["local"] = <<>>
      BY <1>4, <1>5, <2>2 DEF IInv, Unopened, Sent
    <3> QED BY <1>3, <1>a, <2>2, <3>1, SideFacts DEF IInv, Unopened, Side
  <2>3. CASE s = "local" /\ ctl["local"].phase # "none"
    BY <1>3, <1>a, <2>3, SideFacts DEF IInv, Unopened, Side
  <2> QED BY <2>1, <2>2, <2>3 DEF Side
<1> QED BY <1>1, <1>2, <1>3, <1>5, <1>6, <1>7, <1>8, Assemble

LEMMA ReceivedType ==
    ASSUME NEW r \in Rcv, NEW m \in Msg, m.kind \in {"data", "ack", "fin"},
           NEW n \in Nat, m.kind = "data" => n <= Len(m.bytes)
    PROVE  Received(r, m, n) \in Rcv /\ Received(r, m, n).rx_commit = r.rx_commit
<1>1. CASE m.kind = "ack"
  BY <1>1 DEF Received
<1>2. CASE m.kind = "fin"
  <2>1. m.offset \in Nat
    BY <1>2, MsgFields
  <2>2. Received(r, m, n) = [r EXCEPT !.rx_fin = TRUE, !.rx_final = m.offset]
    BY <1>2 DEF Received
  <2> QED BY <2>1, <2>2 DEF Rcv
<1>3. CASE m.kind = "data"
  <2>1. m.bytes \in Seq(Nat) /\ Received(r, m, n) = Take(r, m, n)
    BY <1>3, MsgFields DEF Received
  <2>2. SubSeq(m.bytes, 0 + 1, n) \in Seq(Nat)
    BY <1>3, <2>1, PrefixType
  <2>3. r.rx \o SubSeq(m.bytes, 1, n) \in Seq(Nat)
    BY <2>2, RcvFields, ConcatProperties
  <2>4. [r EXCEPT !.ack_dirty = TRUE] \in Rcv
        /\ [r EXCEPT !.ack_dirty = TRUE].rx_commit = r.rx_commit
    BY DEF Rcv
  <2> DEFINE q == r.rx \o SubSeq(m.bytes, 1, n)
             k == r.rx_next + n
             u == [r EXCEPT !.rx = q, !.rx_next = k]
  <2>5. q \in Seq(Nat) /\ k \in Nat
    BY <2>3, RcvFields
  <2>6. Take(r, m, n) \in {r, u, [r EXCEPT !.ack_dirty = TRUE]}
    BY DEF Take
  <2> HIDE DEF q, k
  <2>7. u \in Rcv /\ u.rx_commit = r.rx_commit
    BY <2>5 DEF Rcv
  <2> HIDE DEF u
  <2> QED BY <2>1, <2>4, <2>6, <2>7
<1> QED BY <1>1, <1>2, <1>3

LEMMA RestType ==
    ASSUME NEW m \in Msg, NEW n \in Nat, NEW c
    PROVE  Rest(m, n) \in Seq(Bounded(c)) /\ Rest(m, n) \in Seq(NotOpen)
<1>1. CASE m.kind = "data" /\ n < Len(m.bytes)
  <2>1. m.offset \in Nat /\ m.bytes \in Seq(Nat) /\ m \in [kind : {"data"}, offset : Nat, bytes : Seq(Nat)]
    BY <1>1, MsgFields DEF Msg
  <2>2. Drop(m.bytes, n) \in Seq(Nat)
    BY <1>1, <2>1, DropType
  <2> DEFINE o == m.offset + n
             b == Drop(m.bytes, n)
             e == [m EXCEPT !.offset = o, !.bytes = b]
  <2>3. o \in Nat /\ b \in Seq(Nat) /\ Rest(m, n) = <<e>>
    BY <1>1, <2>1, <2>2 DEF Rest
  <2> HIDE DEF o, b
  <2>4. e \in [kind : {"data"}, offset : Nat, bytes : Seq(Nat)] /\ e.kind = "data"
    BY <2>1, <2>3
  <2> HIDE DEF e
  <2>5. e \in Bounded(c) /\ e \in NotOpen
    BY <2>4 DEF Bounded, NotOpen, Msg
  <2> QED BY <2>3, <2>5
<1>2. CASE ~(m.kind = "data" /\ n < Len(m.bytes))
  BY <1>2, EmptySeq DEF Rest
<1> QED BY <1>1, <1>2

LEMMA m_v2_read_Step ==
    ASSUME IInv, NEW s \in Side, m_v2_read(s)
    PROVE  IInv'
<1> DEFINE m == Head1(s)
           t == snd[s]
           r == rcv[s]
<1>a. /\ sock' = sock /\ ever_ready' = ever_ready /\ deadline' = deadline
      /\ context' = context /\ proof' = proof /\ attempt' = attempt
      /\ retired' = retired /\ connects' = connects
      /\ wire[Peer(s)] # <<>> /\ m.kind \in {"data", "ack", "fin"}
      /\ ctl[s].phase = "active" /\ ~ctl[s].suspended
  BY DEF m_v2_read, CanRead
<1>b. /\ ctl \in [Side -> Ctl] /\ snd \in [Side -> Snd] /\ rcv \in [Side -> Rcv]
      /\ wire \in [Side -> Seq(Msg)]
      /\ ctl[s] \in Ctl /\ t \in Snd /\ r \in Rcv
      /\ att \in [Side -> {"down", "setup", "ready"}] /\ failed \in [Side -> BOOLEAN]
  BY DEF IInv, TypeOK
<1>c. m \in Msg /\ (m.kind = "ack" => m.offset <= rcv[Peer(s)].rx_commit)
  BY <1>a, HeadFacts
<1>d. ~ctl["local"].pending_open \/ s # "local"
  BY <1>a DEF IInv, Unopened
<1>e. s = "remote" => /\ wire["local"] \in Seq(NotOpen)
                      /\ ctl["local"].phase # "none" /\ ~ctl["local"].pending_open
  BY <1>a DEF IInv, OpenFirst, Unopened
<1>f. PICK n \in 0..(IF m.kind = "data" /\ FrameOk(t, r, m) THEN Takeable(r, m) ELSE 0) :
             IF FrameOk(t, r, m) /\ ~(m.kind = "data" /\ ReplayDiffers(r, m, n))
             THEN /\ snd' = [snd EXCEPT ![s] =
                               IF m.kind = "ack"
                               THEN m_v2_ack(t, m.offset, m.fin) ELSE t]
                  /\ rcv' = [rcv EXCEPT ![s] = Received(r, m, n)]
                  /\ ctl' = [ctl EXCEPT ![s].resuming = FALSE,
                                        ![s].grace =
                                           IF ctl[s].resuming THEN None ELSE ctl[s].grace]
                  /\ wire' = [wire EXCEPT ![Peer(s)] = Rest(m, n) \o Tail(wire[Peer(s)])]
                  /\ UNCHANGED <<att, failed>>
             ELSE /\ failed' = [failed EXCEPT ![s] = TRUE]
                  /\ att' = [att EXCEPT ![s] = "down"]
                  /\ ctl' = [ctl EXCEPT ![s] = Dead(ctl[s])]
                  /\ wire' = [wire EXCEPT ![Peer(s)] = <<>>]
                  /\ UNCHANGED <<snd, rcv>>
  BY <1>b DEF m_v2_read
<1> HIDE DEF m, t, r
<1>1. CASE FrameOk(t, r, m) /\ ~(m.kind = "data" /\ ReplayDiffers(r, m, n))
  <2> DEFINE g == IF ctl[s].resuming THEN None ELSE ctl[s].grace
             c == [ctl[s] EXCEPT !.resuming = FALSE, !.grace = g]
             u == IF m.kind = "ack" THEN m_v2_ack(t, m.offset, m.fin) ELSE t
             v == Received(r, m, n)
             q == Rest(m, n) \o Tail(wire[Peer(s)])
  <2>1. /\ snd' = [snd EXCEPT ![s] = u]
        /\ rcv' = [rcv EXCEPT ![s] = v]
        /\ wire' = [wire EXCEPT ![Peer(s)] = q]
        /\ UNCHANGED <<att, failed>>
    BY <1>1, <1>f
  <2>2. ctl' = [ctl EXCEPT ![s] = c]
    BY <1>1, <1>f, <1>b
  <2>3. g \in Nat \cup {None}
    BY <1>b DEF Ctl
  <2> HIDE DEF g
  <2>4. /\ c \in Ctl /\ c.phase = ctl[s].phase /\ c.pending_open = ctl[s].pending_open
    BY <1>b, <2>3 DEF Ctl
  <2>5. u \in Snd /\ u.tx_base <= rcv[Peer(s)].rx_commit
    <3>1. t.tx_base <= rcv[Peer(s)].rx_commit
      BY DEF IInv, NoLoss, t
    <3>2. CASE m.kind = "ack"
      <4>1. m.offset \in Nat /\ m.fin \in BOOLEAN
        BY <1>c, <3>2, MsgFields
      <4>2. AckOk(t, m.offset, m.fin)
        BY <1>1, <3>2 DEF FrameOk
      <4>3. /\ u \in Snd
            /\ u.tx_base = IF m.offset > t.tx_base THEN m.offset ELSE t.tx_base
        BY <1>b, <3>2, <4>1, <4>2, AckType
      <4> QED BY <1>c, <3>1, <3>2, <4>3
    <3>3. CASE m.kind # "ack"
      BY <1>b, <3>1, <3>3
    <3> QED BY <3>2, <3>3
  <2>6. n \in Nat /\ (m.kind = "data" => n <= Len(m.bytes))
    <3>1. CASE m.kind = "data" /\ FrameOk(t, r, m)
      <4>1. m.offset \in Nat /\ m.bytes \in Seq(Nat) /\ Len(m.bytes) \in Nat
        BY <1>c, <3>1, MsgFields
      <4>2. Takeable(r, m) \in Int /\ Takeable(r, m) <= Len(m.bytes)
        <5>1. /\ StreamBuffer - Len(r.rx) \in Int
              /\ (IF m.offset < r.rx_commit THEN r.rx_commit ELSE r.rx_next)
                   - m.offset \in Int
          BY <1>b, <4>1, RcvFields, ConstantsAssumption
        <5>2. \A a \in Int : /\ Min(Len(m.bytes), a) \in Int
                             /\ Min(Len(m.bytes), a) <= Len(m.bytes)
          BY <4>1 DEF Min
        <5> QED BY <5>1, <5>2 DEF Takeable
      <4> QED BY <3>1, <4>1, <4>2
    <3>2. CASE m.kind # "data"
      BY <3>2
    <3> QED BY <1>1, <3>1, <3>2
  <2>7. v \in Rcv /\ v.rx_commit = r.rx_commit
    <3>1. m.kind \in {"data", "ack", "fin"}
      BY <1>a DEF m
    <3> QED BY <1>b, <1>c, <2>6, <3>1, ReceivedType
  <2>8. q \in Seq(Bounded(rcv[Peer(s)].rx_commit))
    <3>1. wire[Peer(s)] \in Seq(Bounded(rcv[Peer(s)].rx_commit))
      BY SideFacts DEF IInv, WireBounded
    <3>2. Tail(wire[Peer(s)]) \in Seq(Bounded(rcv[Peer(s)].rx_commit))
      BY <1>a, <3>1, HeadTailProperties
    <3> QED BY <1>c, <2>6, <3>2, RestType, ConcatProperties
  <2>9. s = "remote" => q \in Seq(NotOpen)
    <3> SUFFICES ASSUME s = "remote" PROVE q \in Seq(NotOpen)
        OBVIOUS
    <3>1. Tail(wire[Peer(s)]) \in Seq(NotOpen)
      BY <1>a, <1>e, HeadTailProperties, SideFacts
    <3> QED BY <1>c, <2>6, <3>1, RestType, ConcatProperties
  <2> HIDE DEF c, u, v, q
  <2>10. NoLoss'
    <3>1. rcv[s].rx_commit <= v.rx_commit
      BY <1>b, <2>7, RcvFields DEF r
    <3> QED BY <2>1, <2>5, <2>7, <3>1, NoLossStep
  <2>11. TypeFlow' /\ ctl'[s] = c /\ ctl'[Peer(s)] = ctl[Peer(s)]
    BY <1>b, <2>1, <2>2, <2>4, <2>5, <2>7, SideFacts DEF TypeFlow
  <2>12. \A x \in Side : rcv'[x].rx_commit = rcv[x].rx_commit
    BY <1>b, <2>1, <2>7 DEF r
  <2>13. TypeTransport' /\ TypeRest' /\ OneTargetConnection'
    BY <1>a, <2>1 DEF IInv, TypeOK, TypeTransport, TypeRest, OneTargetConnection
  <2>14. /\ wire'[Peer(s)] = q /\ wire'[s] = wire[s]
         /\ wire' = [x \in Side |-> wire'[x]]
    BY <1>b, <2>1, SideFacts
  <2>15. WireBounded'
    BY <2>8, <2>12, <2>14 DEF IInv, WireBounded, Side, Peer
  <2>16. OpenFirst'
    <3>1. CASE s = "local"
      BY <2>11, <2>14, <3>1, SideFacts DEF IInv, OpenFirst
    <3>2. CASE s = "remote"
      BY <2>9, <2>14, <3>2, OneOpenSeq, SideFacts DEF OpenFirst
    <3> QED BY <3>1, <3>2 DEF Side
  <2>17. Unopened'
    <3>1. CASE s = "local"
      BY <1>a, <1>d, <2>4, <2>11, <2>12, <2>14, <3>1, SideFacts DEF IInv, Unopened, Side
    <3>2. CASE s = "remote"
      BY <1>a, <1>e, <2>4, <2>11, <3>2, SideFacts DEF IInv, Unopened, Side
    <3> QED BY <3>1, <3>2 DEF Side
  <2> QED BY <2>10, <2>11, <2>13, <2>14, <2>15, <2>16, <2>17, Assemble
<1>2. CASE ~(FrameOk(t, r, m) /\ ~(m.kind = "data" /\ ReplayDiffers(r, m, n)))
  <2>1. /\ failed' = [failed EXCEPT ![s] = TRUE]
        /\ att' = [att EXCEPT ![s] = "down"]
        /\ ctl' = [ctl EXCEPT ![s] = Dead(ctl[s])]
        /\ wire' = [wire EXCEPT ![Peer(s)] = <<>>]
        /\ snd' = snd /\ rcv' = rcv
    BY <1>2, <1>f
  <2>2. /\ TypeFlow' /\ ctl'[s].phase = "dead" /\ ~ctl'[s].pending_open
        /\ ctl'[Peer(s)] = ctl[Peer(s)]
    BY <1>b, <2>1, DeadType, SideFacts DEF TypeFlow
  <2>3. TypeTransport' /\ TypeRest' /\ OneTargetConnection' /\ NoLoss'
    <3>1. att' \in [Side -> {"down", "setup", "ready"}]
      BY <1>b, <2>1
    <3>2. failed' \in [Side -> BOOLEAN]
      BY <1>b, <2>1
    <3> QED BY <1>a, <2>1, <3>1, <3>2
            DEF IInv, TypeOK, TypeTransport, TypeRest, OneTargetConnection, NoLoss
  <2>4. /\ wire'[Peer(s)] = <<>> /\ wire'[s] = wire[s]
        /\ wire' = [x \in Side |-> wire'[x]]
    BY <1>b, <2>1, SideFacts
  <2>5. <<>> \in Seq(NotOpen) /\ \A c : <<>> \in Seq(Bounded(c))
    BY EmptySeq
  <2>6. WireBounded'
    BY <2>1, <2>4, <2>5 DEF IInv, WireBounded, Side, Peer
  <2>7. OpenFirst'
    <3>1. CASE s = "local"
      BY <2>2, <2>4, <3>1, SideFacts DEF IInv, OpenFirst
    <3>2. CASE s = "remote"
      BY <2>4, <2>5, <3>2, OneOpenSeq, SideFacts DEF OpenFirst
    <3> QED BY <3>1, <3>2 DEF Side
  <2>8. Unopened'
    <3>1. CASE s = "local"
      BY <1>a, <2>1, <2>2, <3>1, SideFacts DEF IInv, Unopened, Side
    <3>2. CASE s = "remote"
      BY <1>a, <1>e, <2>2, <3>2, SideFacts DEF IInv, Unopened, Side
    <3> QED BY <3>1, <3>2 DEF Side
  <2> QED BY <2>2, <2>3, <2>4, <2>6, <2>7, <2>8, Assemble
<1> QED BY <1>1, <1>2

LEMMA m_v2_tick_Step ==
    ASSUME IInv, NEW s \in Side, m_v2_tick(s)
    PROVE  IInv'
<1>a. /\ ctl[s].phase = "active" /\ ~ctl[s].suspended
      /\ UNCHANGED <<transportVars, failed, connects>>
  BY DEF m_v2_tick, Active
<1>b. /\ ctl \in [Side -> Ctl] /\ snd \in [Side -> Snd] /\ rcv \in [Side -> Rcv]
      /\ wire \in [Side -> Seq(Msg)] /\ sock \in [Side -> Seq(Nat)]
      /\ ctl[s] \in Ctl /\ snd[s] \in Snd /\ rcv[s] \in Rcv
      /\ retired \in [Side -> BOOLEAN]
  BY DEF IInv, TypeOK
<1>c. PICK w \in 0..Min(Len(rcv[s].rx), IoBudget),
           n \in 0..IoBudget, d \in 0..IoBudget,
           eof \in BOOLEAN, ack \in BOOLEAN, fin \in BOOLEAN :
        LET r == FinApplied(Written(rcv[s], w))
            t == IF eof THEN SocketEof(snd[s]) ELSE SocketRead(snd[s], n)
            r2 == AckSent(r, ack)
            t2 == FinSent(DataSent(t, d), fin)
            out == Sent(s, Frames(t, r, ack, d, fin))
        IN  /\ SocketInput(s, n, eof)
            /\ d <= Len(t.tx) - t.tx_pos
            /\ MayWrite(t, r, ack, d, fin)
            /\ Len(out) <= WireCap
            /\ sock' = [sock EXCEPT ![s] = sock[s] \o SubSeq(rcv[s].rx, 1, w)]
            /\ rcv' = [rcv EXCEPT ![s] = r2]
            /\ snd' = [snd EXCEPT ![s] = t2]
            /\ IF Finished(t2, r2)
               THEN /\ ctl' = [ctl EXCEPT ![s] = Dead(ctl[s])]
                    /\ retired' = [retired EXCEPT ![s] = TRUE]
                    /\ ResetWire(s, out)
               ELSE /\ wire' = [wire EXCEPT ![s] = out]
                    /\ UNCHANGED <<ctl, retired>>
  BY <1>b DEF m_v2_tick
<1> DEFINE r == FinApplied(Written(rcv[s], w))
           t == IF eof THEN SocketEof(snd[s]) ELSE SocketRead(snd[s], n)
           r2 == AckSent(r, ack)
           t2 == FinSent(DataSent(t, d), fin)
           f == Frames(t, r, ack, d, fin)
           out == Sent(s, f)
<1>d. w \in Nat /\ w <= Len(rcv[s].rx) /\ n \in Nat /\ d \in Nat
  BY <1>b, RcvFields, ConstantsAssumption DEF Min
<1>e. /\ r \in Rcv /\ r2 \in Rcv /\ r.rx_commit = rcv[s].rx_commit + w
      /\ r2.rx_commit = r.rx_commit
  BY <1>b, <1>d, WrittenType, FinAppliedType, AckSentType
<1>f. t \in Snd /\ t.tx_base = snd[s].tx_base
  BY <1>b, <1>d, SocketReadType, SocketEofType
<1>g. /\ d <= Len(t.tx) - t.tx_pos
      /\ sock' = [sock EXCEPT ![s] = sock[s] \o SubSeq(rcv[s].rx, 1, w)]
      /\ rcv' = [rcv EXCEPT ![s] = r2]
      /\ snd' = [snd EXCEPT ![s] = t2]
      /\ \/ /\ ctl' = [ctl EXCEPT ![s] = Dead(ctl[s])]
            /\ retired' = [retired EXCEPT ![s] = TRUE]
            /\ ResetWire(s, out)
         \/ /\ wire' = [wire EXCEPT ![s] = out]
            /\ UNCHANGED <<ctl, retired>>
  BY <1>c
<1> HIDE DEF r, t
<1>h. t2 \in Snd /\ t2.tx_base = snd[s].tx_base
  BY <1>d, <1>f, DataSentType
<1>i. f \in Seq(Bounded(r.rx_commit)) /\ f \in Seq(NotOpen)
  BY <1>d, <1>e, <1>f, <1>g, FramesType
<1>j. r.rx_commit \in Nat /\ rcv[s].rx_commit \in Nat
      /\ rcv[s].rx_commit <= r.rx_commit
  BY <1>b, <1>d, <1>e, RcvFields
<1> HIDE DEF r2, t2, f
<1>k. out \in Seq(Bounded(r.rx_commit))
  <2>1. wire[s] \in Seq(Bounded(r.rx_commit))
    BY <1>j, BoundedGrows DEF IInv, WireBounded
  <2> QED BY <1>i, <2>1, SentType
<1>l. /\ s = "local" => OneOpen(out)
      /\ s = "local" /\ ctl["remote"].phase # "none" => out \in Seq(NotOpen)
  <2>1. s = "local" => OneOpen(out)
    BY <1>i, OneOpenAppend, OneOpenSeq, EmptySeq DEF IInv, OpenFirst, Sent
  <2>2. s = "local" /\ ctl["remote"].phase # "none" => out \in Seq(NotOpen)
    BY <1>i, SentType DEF IInv, OpenFirst
  <2> QED BY <2>1, <2>2
<1> HIDE DEF out
<1>1. /\ wire'[s] \in Seq(Bounded(r.rx_commit))
      /\ wire'[Peer(s)] = wire[Peer(s)]
      /\ wire' = [x \in Side |-> wire'[x]]
      /\ s = "local" => OneOpen(wire'[s])
      /\ s = "local" /\ ctl["remote"].phase # "none" => wire'[s] \in Seq(NotOpen)
  <2>1. CASE ResetWire(s, out)
    <3>1. /\ [kind |-> "reset"] \in Bounded(r.rx_commit)
          /\ [kind |-> "reset"] \in NotOpen
      BY ResetType
    <3>2. wire' = [x \in Side |-> wire'[x]]
      BY <1>b, <2>1 DEF ResetWire
    <3>3. wire'[s] \in Seq(Bounded(r.rx_commit)) /\ wire'[Peer(s)] = wire[Peer(s)]
      BY <1>b, <1>k, <2>1, <3>1, ResetWireType
    <3>4. s = "local" => OneOpen(wire'[s])
      BY <1>b, <1>l, <2>1, OneOpenReset
    <3>5. s = "local" /\ ctl["remote"].phase # "none" => wire'[s] \in Seq(NotOpen)
      BY <1>b, <1>l, <2>1, <3>1, ResetWireType
    <3> QED BY <3>2, <3>3, <3>4, <3>5
  <2>2. CASE wire' = [wire EXCEPT ![s] = out]
    BY <1>b, <1>k, <1>l, <2>2, SideFacts
  <2> QED BY <1>g, <2>1, <2>2
<1>2. /\ ctl' \in [Side -> Ctl] /\ ctl'[Peer(s)] = ctl[Peer(s)]
      /\ ctl'[s].phase # "none"
      /\ ctl'[s].pending_open => ctl[s].pending_open
      /\ retired' \in [Side -> BOOLEAN]
  <2>1. CASE ctl' = [ctl EXCEPT ![s] = Dead(ctl[s])]
             /\ retired' = [retired EXCEPT ![s] = TRUE]
    BY <1>b, <2>1, DeadType, SideFacts
  <2>2. CASE ctl' = ctl /\ retired' = retired
    BY <1>a, <1>b, <2>2
  <2> QED BY <1>g, <2>1, <2>2
<1>3. TypeFlow' /\ rcv'[s] = r2 /\ rcv'[Peer(s)] = rcv[Peer(s)]
  BY <1>2, <1>b, <1>e, <1>g, <1>h, SideFacts DEF TypeFlow
<1>4. TypeTransport'
  BY <1>a DEF IInv, TypeOK, TypeTransport, transportVars
<1>5. TypeRest' /\ OneTargetConnection'
  <2>1. SubSeq(rcv[s].rx, 0 + 1, w) \in Seq(Nat)
    BY SMTT(60), <1>b, <1>d, RcvFields, PrefixType
  <2>2. sock[s] \o SubSeq(rcv[s].rx, 1, w) \in Seq(Nat)
    BY <1>b, <2>1, ConcatProperties
  <2>3. sock' \in [Side -> Seq(Nat)]
    BY <1>b, <1>g, <2>2
  <2> QED BY <1>2, <1>a, <2>3 DEF IInv, TypeOK, TypeRest, OneTargetConnection
<1>6. NoLoss'
  <2>1. t2.tx_base <= rcv[Peer(s)].rx_commit
    BY <1>h DEF IInv, NoLoss
  <2>2. rcv[s].rx_commit <= r2.rx_commit
    BY <1>e, <1>j
  <2> QED BY <1>e, <1>g, <2>1, <2>2, NoLossStep
<1>7. WireBounded'
  BY <1>1, <1>3, <1>e DEF IInv, WireBounded, Side, Peer
<1>8. OpenFirst'
  <2>1. CASE s = "local"
    BY <1>1, <1>2, <2>1, SideFacts DEF OpenFirst
  <2>2. CASE s = "remote"
    BY <1>1, <1>a, <2>2, SideFacts DEF IInv, OpenFirst
  <2> QED BY <2>1, <2>2 DEF Side
<1>9. Unopened'
  <2>1. CASE s = "local"
    <3>1. ~ctl["local"].pending_open
      BY <1>a, <2>1 DEF IInv, Unopened
    <3> QED BY <1>2, <1>3, <1>a, <2>1, <3>1, SideFacts DEF IInv, Unopened, Side
  <2>2. CASE s = "remote"
    <3>1. ctl["local"].phase # "none" /\ ~ctl["local"].pending_open
      BY <1>a, <2>2 DEF IInv, Unopened
    <3> QED BY <1>2, <2>2, <3>1, SideFacts DEF IInv, Unopened, Side
  <2> QED BY <2>1, <2>2 DEF Side
<1> QED BY <1>1, <1>3, <1>4, <1>5, <1>6, <1>7, <1>8, <1>9, Assemble

LEMMA IInvStep == IInv /\ [Next]_vars => IInv'
<1> SUFFICES ASSUME IInv, [Next]_vars PROVE IInv'
    OBVIOUS
<1>1. ASSUME NEW s \in Side, SocketError(s) PROVE IInv'
  BY <1>1, AbortStep DEF SocketError, Active, otherVars
<1>2. CASE ob_remote_map_close
  BY <1>2, AbortStep, SideFacts DEF ob_remote_map_close, otherVars
<1>3. ASSUME NEW s \in Side, SetupTimeout(s) PROVE IInv'
  BY <1>3, AbortStep DEF SetupTimeout, otherVars
<1>4. ASSUME NEW s \in Side, ob_mapping_recovery_tick(s) PROVE IInv'
  <2>1. ctl[s].phase # "none"
    BY <1>4 DEF ob_mapping_recovery_tick, IInv, Unopened, Idle
  <2> QED BY <1>4, <2>1, AbortStep DEF ob_mapping_recovery_tick, otherVars
<1>5. CASE UNCHANGED vars
  BY <1>5 DEF vars, IInv, TypeOK, NoLoss, WireBounded, OpenFirst, Unopened,
              OneTargetConnection
<1> QED
  BY <1>1, <1>2, <1>3, <1>4, <1>5, m_local_flow_Step, ReadOpen_Step,
     TargetConnected_Step, m_reply_flush_Step, ReadOpenAck_Step,
     ReadResume_Step, ReadResumeAck_Step, NewAttempt_Step, m_v2_read_Step,
     m_v2_tick_Step, ReadReset_Step, TransportFail_Step,
     ob_peer_mark_ready_Step, ClockTick_Step DEF Next

-----------------------------------------------------------------------------
(* The theorems *)

LEMMA Invariance == Spec => []IInv
BY IInvInit, IInvStep, PTL DEF Spec

(* Every variable keeps its type. *)
THEOREM TypeCorrect == Spec => []TypeOK
<1>1. IInv => TypeOK
  BY DEF IInv
<1> QED BY Invariance, <1>1, PTL

(* No byte leaves a replay buffer before it is in the other real socket,   *)
(* whatever is lost, replayed or resumed (m_v2_ack, m_resume_apply).       *)
THEOREM NoByteLost == Spec => []NoLoss
<1>1. IInv => NoLoss
  BY DEF IInv
<1> QED BY Invariance, <1>1, PTL

(* A flow is connected to its target at most once, over any number of      *)
(* attempts (m_control_done, m_pending_open).                              *)
THEOREM TargetConnectedOnce == Spec => []OneTargetConnection
<1>1. IInv => OneTargetConnection
  BY DEF IInv
<1> QED BY Invariance, <1>1, PTL

(* What a step may do to a deadline that is set: keep it, remove it or     *)
(* bring it nearer.                                                        *)
Nearer(g, h) == g # None /\ h # None => h <= g

LEMMA NearerKept ==
    ASSUME NEW g \in Nat \cup {None}, NEW h \in {g, None}
    PROVE  Nearer(g, h)
BY DEF Nearer, None

LEMMA GraceStep ==
    ASSUME IInv, Next, NEW x \in Side
    PROVE  Nearer(ctl[x].grace, ctl'[x].grace)
<1>a. /\ ctl \in [Side -> Ctl] /\ ctl[x] \in Ctl
      /\ ctl[x].grace \in Nat \cup {None}
  BY DEF IInv, TypeOK, Ctl
<1>b. ASSUME NEW s \in Side, ctl' = [ctl EXCEPT ![s] = Dead(ctl[s])]
      PROVE  Nearer(ctl[x].grace, ctl'[x].grace)
  BY <1>a, <1>b, DeadType, NearerKept
<1>c. ASSUME ctl' = ctl
      PROVE  Nearer(ctl[x].grace, ctl'[x].grace)
  BY <1>a, <1>c, NearerKept
<1>1. CASE m_local_flow
  <2>1. ctl["local"].grace = None
    BY <1>1, SideFacts DEF m_local_flow, IInv, Unopened, Idle
  <2>2. x # "local" => ctl'[x] = ctl[x]
    BY <1>1, <1>a DEF m_local_flow
  <2>3. CASE x = "local"
    BY <2>1, <2>3 DEF Nearer
  <2>4. CASE x # "local"
    BY <1>a, <2>2, <2>4, NearerKept
  <2> QED BY <2>3, <2>4
<1>2. CASE ReadOpen
  <2>1. ctl'[x].grace \in {ctl[x].grace, None}
    BY <1>2, <1>a, NewType DEF ReadOpen, NewCtl, Ctl
  <2> QED BY <1>a, <2>1, NearerKept
<1>3. CASE TargetConnected
  <2>1. ctl'[x].grace = ctl[x].grace
    BY <1>3, <1>a DEF TargetConnected, Ctl
  <2> QED BY <1>a, <2>1, NearerKept
<1>4. CASE m_reply_flush
  <2>1. \/ ctl' = [ctl EXCEPT !["remote"] = Dead(ctl["remote"])]
        \/ ctl' = [ctl EXCEPT !["remote"].phase = "active", !["remote"].acked = TRUE]
    BY <1>4 DEF m_reply_flush
  <2>2. CASE ctl' = [ctl EXCEPT !["remote"].phase = "active", !["remote"].acked = TRUE]
    <3>1. ctl'[x].grace = ctl[x].grace
      BY <1>a, <2>2 DEF Ctl
    <3> QED BY <1>a, <3>1, NearerKept
  <2> QED BY <1>b, <2>1, <2>2, SideFacts
<1>5. CASE ReadOpenAck
  <2>1. CASE ctl' = [ctl EXCEPT !["local"].phase = "active", !["local"].acked = TRUE]
    <3>1. ctl'[x].grace = ctl[x].grace
      BY <1>a, <2>1 DEF Ctl
    <3> QED BY <1>a, <3>1, NearerKept
  <2> QED BY <1>5, <1>b, <2>1, SideFacts DEF ReadOpenAck, m_abort
<1>6. CASE ReadResume
  <2>1. CASE ctl' = [ctl EXCEPT !["remote"].suspended = FALSE,
                                !["remote"].resuming = TRUE,
                                !["remote"].acked = FALSE,
                                !["remote"].phase = "reply"]
    <3>1. ctl'[x].grace = ctl[x].grace
      BY <1>a, <2>1 DEF Ctl
    <3> QED BY <1>a, <3>1, NearerKept
  <2> QED BY <1>6, <1>c, <2>1 DEF ReadResume
<1>7. CASE ReadResumeAck
  <2>1. CASE ctl' = [ctl EXCEPT !["local"].waiting_resume = FALSE,
                                !["local"].suspended = FALSE,
                                !["local"].grace = None,
                                !["local"].acked = TRUE,
                                !["local"].phase = "active"]
    <3>1. ctl'[x].grace \in {ctl[x].grace, None}
      BY <1>a, <2>1 DEF Ctl
    <3> QED BY <1>a, <3>1, NearerKept
  <2> QED BY <1>7, <1>b, <2>1, SideFacts DEF ReadResumeAck, m_abort
<1>8. CASE NewAttempt
  BY <1>8, <1>c DEF NewAttempt
<1>9. CASE ob_remote_map_close
  BY <1>9, <1>b, SideFacts DEF ob_remote_map_close, m_abort
<1>10. ASSUME NEW s \in Side, m_v2_read(s)
       PROVE  Nearer(ctl[x].grace, ctl'[x].grace)
  <2>1. CASE ctl' = [ctl EXCEPT ![s].resuming = FALSE,
                                ![s].grace = IF ctl[s].resuming THEN None
                                                                ELSE ctl[s].grace]
    <3>1. ctl'[x].grace \in {ctl[x].grace, None}
      BY <1>a, <2>1 DEF Ctl
    <3> QED BY <1>a, <3>1, NearerKept
  <2> QED BY <1>10, <1>a, <1>b, <2>1 DEF m_v2_read
<1>11. ASSUME NEW s \in Side, m_v2_tick(s)
       PROVE  Nearer(ctl[x].grace, ctl'[x].grace)
  BY <1>11, <1>b, <1>c DEF m_v2_tick
<1>12. ASSUME NEW s \in Side,
              \/ ReadReset(s) \/ SocketError(s) \/ SetupTimeout(s)
              \/ ob_mapping_recovery_tick(s)
       PROVE  Nearer(ctl[x].grace, ctl'[x].grace)
  BY <1>12, <1>b DEF ReadReset, SocketError, SetupTimeout,
                     ob_mapping_recovery_tick, m_abort
<1>13. ASSUME NEW s \in Side, TransportFail(s)
       PROVE  Nearer(ctl[x].grace, ctl'[x].grace)
  <2>1. PICK g \in 1..MaxGrace :
           /\ deadline' = [deadline EXCEPT ![s] =
                             IF ever_ready[s] /\ deadline[s] = None THEN g ELSE deadline[s]]
           /\ Suspend(s, IF deadline'[s] = None THEN g ELSE deadline'[s])
    BY <1>13 DEF TransportFail
  <2> DEFINE d == IF deadline'[s] = None THEN g ELSE deadline'[s]
  <2>2. d \in Nat \cup {None} /\ Suspend(s, d)
    BY <2>1, ConstantsAssumption DEF IInv, TypeOK
  <2> HIDE DEF d
  <2>3. CASE ctl' = [ctl EXCEPT ![s] = SuspendCtl(ctl[s], d)]
    <3>1. CASE x = s
      BY <1>a, <2>2, <2>3, <3>1, SuspendCtlType DEF Nearer
    <3>2. CASE x # s
      BY <1>a, <2>3, <3>2, NearerKept
    <3> QED BY <3>1, <3>2
  <2>4. CASE ctl' = [ctl EXCEPT ![s] = IF ctl[s].phase = "none" THEN ctl[s]
                                                               ELSE Dead(ctl[s])]
    BY <1>a, <1>b, <1>c, <2>4
  <2> QED BY <2>2, <2>3, <2>4 DEF Suspend
<1>14. ASSUME NEW s \in Side, ob_peer_mark_ready(s)
       PROVE  Nearer(ctl[x].grace, ctl'[x].grace)
  <2>1. ctl' = [ctl EXCEPT ![s] = ReadyCtl(ctl[s], s)]
    BY <1>14 DEF ob_peer_mark_ready
  <2>2. ctl[s] \in Ctl
    BY <1>a
  <2>3. ReadyCtl(ctl[s], s).grace \in {ctl[s].grace, None}
    <3>1. CASE ctl[s].phase = "none"
      BY <3>1 DEF IInv, Unopened, Idle, ReadyCtl
    <3>2. CASE ctl[s].phase # "none"
      BY <2>2, <3>2, ReadyCtlType
    <3> QED BY <3>1, <3>2
  <2>4. ctl'[x].grace \in {ctl[x].grace, None}
    BY <1>a, <2>1, <2>3
  <2> QED BY <1>a, <2>4, NearerKept
<1>15. ASSUME NEW s \in Side, ClockTick(s)
       PROVE  Nearer(ctl[x].grace, ctl'[x].grace)
  <2>1. ctl'[x].grace \in {ctl[x].grace, CountDown(ctl[x].grace)}
    BY <1>15, <1>a DEF ClockTick, Ctl
  <2>2. CountDown(ctl[x].grace) <= ctl[x].grace
    BY <1>a, CountDownType
  <2> QED BY <1>a, <2>1, <2>2, NearerKept DEF Nearer
<1> QED
  BY <1>1, <1>2, <1>3, <1>4, <1>5, <1>6, <1>7, <1>8, <1>9, <1>10, <1>11,
     <1>12, <1>13, <1>14, <1>15 DEF Next

(* No step postpones the end of the grace of a flow that is not restored,  *)
(* whatever outages, reconnects and policies follow one another            *)
(* (ob_mapping_transport_suspend).                                         *)
THEOREM GraceOnlyShrinks == Spec => GraceNeverExtended
<1> DEFINE Keeps == \A s \in Side :
                      ctl[s].grace # None /\ ctl'[s].grace # None =>
                         ctl'[s].grace <= ctl[s].grace
<1>1. IInv /\ Next => Keeps
  BY GraceStep DEF Nearer
<1> QED BY Invariance, <1>1, PTL DEF Spec, GraceNeverExtended

-----------------------------------------------------------------------------
(* What the two halves of a direction know of the stream *)

(* The bytes of a buffer that starts after the first b bytes. *)
Numbered(q, b) == \A i \in 1..Len(q) : q[i] = b + i

(* The replay buffer holds the stream from tx_base on, and the end of the  *)
(* stream is where the buffer ends.                                        *)
SndOk(t) ==
    /\ Numbered(t.tx, t.tx_base)
    /\ t.tx_pos <= Len(t.tx)
    /\ t.tx_base + t.tx_pos <= t.tx_sent_high
    /\ t.tx_sent_high <= m_tx_next(t)
    /\ t.tx_final = IF t.socket_eof THEN m_tx_next(t) ELSE 0

(* The socket k was given the stream up to rx_commit, the receive buffer   *)
(* holds it from there to rx_next.                                         *)
RcvOk(r, k) ==
    /\ Numbered(r.rx, r.rx_commit)
    /\ r.rx_next = r.rx_commit + Len(r.rx)
    /\ Len(k) = r.rx_commit /\ Numbered(k, 0)
    /\ r.rx_fin_applied => r.rx_fin /\ r.rx_commit = r.rx_final

(* The receiver r of a direction is never ahead of its sender t. *)
Behind(t, r) ==
    /\ r.rx_next <= t.tx_sent_high
    /\ r.rx_fin => t.socket_eof /\ r.rx_final = t.tx_final
    /\ t.tx_fin_acked => r.rx_fin_applied

(* The messages that say nothing about their sender, with the halves t and *)
(* r, that is not true and does not stay true.                             *)
HonestSnap(t, r, m) ==
    /\ m.eof => t.socket_eof /\ m.next = m_tx_next(t)
    /\ m.final = IF m.eof THEN m.next ELSE 0
    /\ m.fin_applied => r.rx_fin_applied /\ m.delivered = r.rx_commit
    /\ m.next <= m_tx_next(t)
Honest(t, r) ==
    {m \in Msg :
       /\ m.kind = "data" => /\ m.offset + Len(m.bytes) <= t.tx_sent_high
                             /\ Numbered(m.bytes, m.offset)
       /\ m.kind = "fin" => t.socket_eof /\ m.offset = t.tx_final
       /\ m.kind = "ack" =>
            (m.fin => r.rx_fin_applied /\ m.offset = r.rx_commit)
       /\ m.kind \in {"resume", "rack"} => HonestSnap(t, r, m.snap)}

Halves == \A s \in Side : /\ SndOk(snd[s])
                          /\ RcvOk(rcv[s], sock[s])
                          /\ Behind(snd[s], rcv[Peer(s)])
Truthful == \A s \in Side : wire[s] \in Seq(Honest(snd[s], rcv[s]))

(* The broker's half flow is fresh until it reads the OPEN, and a flow     *)
(* that ended keeps no recovery state that could bring it back.            *)
Fresh ==
    /\ ctl["remote"].phase = "none" => snd["remote"] = NewSnd /\ rcv["remote"] = NewRcv
    /\ \A s \in Side : ctl[s].phase = "dead" => Idle(ctl[s])

Data == Halves /\ Truthful /\ Fresh

-----------------------------------------------------------------------------
(* Honest messages stay honest while their sender's halves grow *)

(* The halves of a side only grow: offsets go up, an end that was reached  *)
(* stays where it is.                                                      *)
Grown(t, r, t2, r2) ==
    /\ t.tx_sent_high <= t2.tx_sent_high
    /\ m_tx_next(t) <= m_tx_next(t2)
    /\ t.socket_eof => /\ t2.socket_eof /\ t2.tx_final = t.tx_final
                       /\ m_tx_next(t2) = m_tx_next(t)
    /\ r.rx_fin_applied => r2.rx_fin_applied /\ r2.rx_commit = r.rx_commit

LEMMA HonestGrows ==
    ASSUME NEW t \in Snd, NEW r \in Rcv, NEW t2 \in Snd, NEW r2 \in Rcv,
           Grown(t, r, t2, r2), NEW q \in Seq(Honest(t, r))
    PROVE  q \in Seq(Honest(t2, r2))
<1>1. ASSUME NEW m \in Honest(t, r) PROVE m \in Honest(t2, r2)
  <2>0. m \in Msg
    BY DEF Honest
  <2>1. m.kind = "data" => /\ m.offset + Len(m.bytes) <= t2.tx_sent_high
                           /\ Numbered(m.bytes, m.offset)
    <3> SUFFICES ASSUME m.kind = "data"
                 PROVE  /\ m.offset + Len(m.bytes) <= t2.tx_sent_high
                        /\ Numbered(m.bytes, m.offset)
        OBVIOUS
    <3>1. m.offset \in Nat /\ Len(m.bytes) \in Nat
      BY <2>0, MsgFields
    <3>2. m.offset + Len(m.bytes) <= t.tx_sent_high /\ Numbered(m.bytes, m.offset)
      BY DEF Honest
    <3> QED BY <3>1, <3>2, SndFields DEF Grown
  <2>2. /\ m.kind = "fin" => t2.socket_eof /\ m.offset = t2.tx_final
        /\ m.kind = "ack" =>
             (m.fin => r2.rx_fin_applied /\ m.offset = r2.rx_commit)
    BY DEF Honest, Grown
  <2>3. m.kind \in {"resume", "rack"} => HonestSnap(t2, r2, m.snap)
    <3> SUFFICES ASSUME m.kind \in {"resume", "rack"}
                 PROVE  HonestSnap(t2, r2, m.snap)
        OBVIOUS
    <3>1. m.snap \in Snapshots
      BY <2>0, MsgFields
    <3>2. HonestSnap(t, r, m.snap)
      BY DEF Honest
    <3>3. m.snap.next \in Nat
      BY <3>1 DEF Snapshots
    <3> QED BY <3>2, <3>3, SndFields DEF HonestSnap, Grown
  <2> QED BY <2>0, <2>1, <2>2, <2>3 DEF Honest
<1>2. Honest(t, r) \subseteq Honest(t2, r2)
  BY <1>1
<1> QED BY <1>2, SeqMonotonic

LEMMA HonestPlain ==
    ASSUME NEW t, NEW r
    PROVE  /\ [kind |-> "reset"] \in Honest(t, r)
           /\ [kind |-> "open"] \in Honest(t, r)
           /\ \A b \in BOOLEAN : [kind |-> "oack", ok |-> b] \in Honest(t, r)
BY DEF Honest, Msg

LEMMA HonestSnapshot ==
    ASSUME NEW s \in Side, snd[s] \in Snd, rcv[s] \in Rcv, SndOk(snd[s])
    PROVE  /\ [kind |-> "resume", snap |-> m_resume_snapshot(s)]
                \in Honest(snd[s], rcv[s])
           /\ \A b \in BOOLEAN :
                [kind |-> "rack", ok |-> b, snap |-> m_resume_snapshot(s)]
                  \in Honest(snd[s], rcv[s])
<1> DEFINE m == m_resume_snapshot(s)
<1>1. m \in Snapshots
  BY SnapshotType
<1>2. HonestSnap(snd[s], rcv[s], m)
  BY SndFields DEF HonestSnap, m_resume_snapshot, SndOk
<1> HIDE DEF m
<1>3. [kind |-> "resume", snap |-> m] \in Honest(snd[s], rcv[s])
  BY <1>1, <1>2 DEF Honest, Msg
<1>4. ASSUME NEW b \in BOOLEAN
      PROVE  [kind |-> "rack", ok |-> b, snap |-> m] \in Honest(snd[s], rcv[s])
  BY <1>1, <1>2 DEF Honest, Msg
<1> QED BY <1>3, <1>4 DEF m

-----------------------------------------------------------------------------
(* Steps that no application can see *)

(* The two sockets are given nothing, and at most one side gives up.       *)
Unseen ==
    /\ sock' = sock /\ retired' = retired
    /\ \A x \in Side : /\ m_tx_next(snd'[x]) = m_tx_next(snd[x])
                       /\ snd'[x].socket_eof = snd[x].socket_eof
                       /\ rcv'[x].rx_fin_applied = rcv[x].rx_fin_applied
    /\ \E s \in Side :
         /\ (ctl'[Peer(s)].phase = "dead") <=> (ctl[Peer(s)].phase = "dead")
         /\ ctl[s].phase = "dead" => ctl'[s].phase = "dead"

(* Such a step changes ctl of one side, which does not come back to life.  *)
LEMMA FreshStep ==
    ASSUME IInv, Data, NEW s \in Side, NEW c, ctl' = [ctl EXCEPT ![s] = c],
           c.phase = "none" => ctl[s].phase = "none" /\ snd' = snd /\ rcv' = rcv,
           c.phase = "dead" => Idle(c),
           s = "local" => snd'["remote"] = snd["remote"] /\ rcv'["remote"] = rcv["remote"]
    PROVE  Fresh'
<1>1. ctl'[s] = c /\ ctl'[Peer(s)] = ctl[Peer(s)]
  BY SideFacts DEF IInv, TypeOK
<1>2. CASE s = "local"
  BY <1>1, <1>2, SideFacts DEF Data, Fresh, Side
<1>3. CASE s = "remote"
  BY <1>1, <1>3, SideFacts DEF Data, Fresh, Side
<1> QED BY <1>2, <1>3 DEF Side

LEMMA QuietStep ==
    ASSUME IInv, Data, snd' = snd, rcv' = rcv, sock' = sock, retired' = retired,
           NEW s \in Side, NEW c, ctl' = [ctl EXCEPT ![s] = c],
           c.phase = "none" => ctl[s].phase = "none",
           ctl[s].phase = "dead" => c.phase = "dead",
           c.phase = "dead" => Idle(c),
           \A x \in Side : wire'[x] \in Seq(Honest(snd[x], rcv[x]))
    PROVE  Data' /\ Unseen
<1>1. Fresh'
  BY FreshStep
<1>2. Halves' /\ Truthful'
  BY DEF Data, Halves, Truthful
<1>3. ctl'[s] = c /\ ctl'[Peer(s)] = ctl[Peer(s)]
  BY SideFacts DEF IInv, TypeOK
<1>4. Unseen
  BY <1>3 DEF Unseen
<1> QED BY <1>1, <1>2, <1>4 DEF Data

LEMMA DeadIdle ==
    ASSUME NEW c \in Ctl
    PROVE  Idle(Dead(c)) /\ Dead(c).phase = "dead"
BY DEF Idle, Dead, Ctl, None

LEMMA Typed ==
    ASSUME IInv
    PROVE  /\ ctl \in [Side -> Ctl] /\ snd \in [Side -> Snd] /\ rcv \in [Side -> Rcv]
           /\ wire \in [Side -> Seq(Msg)] /\ sock \in [Side -> Seq(Nat)]
           /\ \A x \in Side : /\ ctl[x] \in Ctl /\ snd[x] \in Snd /\ rcv[x] \in Rcv
                              /\ wire[x] \in Seq(Msg) /\ sock[x] \in Seq(Nat)
BY DEF IInv, TypeOK

LEMMA AbortData ==
    ASSUME IInv, Data, NEW s \in Side, m_abort(s),
           UNCHANGED <<snd, rcv>>, UNCHANGED otherVars
    PROVE  Data' /\ Unseen
<1> DEFINE c == Dead(ctl[s])
<1>1. ctl' = [ctl EXCEPT ![s] = c] /\ ResetWire(s, wire[s])
  BY DEF m_abort
<1>2. Idle(c) /\ c.phase = "dead"
  BY Typed, DeadIdle
<1>3. \A x \in Side : wire[x] \in Seq(Honest(snd[x], rcv[x]))
  BY DEF Data, Truthful
<1>4. /\ wire'[s] \in Seq(Honest(snd[s], rcv[s]))
      /\ wire'[Peer(s)] = wire[Peer(s)]
  BY <1>1, <1>3, Typed, HonestPlain, ResetWireType
<1>5. \A x \in Side : wire'[x] \in Seq(Honest(snd[x], rcv[x]))
  BY <1>3, <1>4 DEF Side, Peer
<1> HIDE DEF c
<1>6. snd' = snd /\ rcv' = rcv /\ sock' = sock /\ retired' = retired
  BY DEF otherVars
<1> QED BY <1>1, <1>2, <1>5, <1>6, QuietStep

(* What is left after frames were sent, or read, is honest. *)
LEMMA SentHonest ==
    ASSUME Data, NEW s \in Side, NEW f \in Seq(Honest(snd[s], rcv[s]))
    PROVE  Sent(s, f) \in Seq(Honest(snd[s], rcv[s]))
BY SentType DEF Data, Truthful

LEMMA PopHonest ==
    ASSUME Data, NEW s \in Side, wire[s] # <<>>
    PROVE  /\ Head(wire[s]) \in Honest(snd[s], rcv[s])
           /\ Tail(wire[s]) \in Seq(Honest(snd[s], rcv[s]))
BY HeadTailProperties DEF Data, Truthful

-----------------------------------------------------------------------------
(* Numbered bytes *)

LEMMA NumberedPart ==
    ASSUME NEW q \in Seq(Nat), NEW b \in Nat, Numbered(q, b),
           NEW i \in Nat, NEW j \in Nat, i <= j, j <= Len(q)
    PROVE  /\ SubSeq(q, i + 1, j) \in Seq(Nat)
           /\ Len(SubSeq(q, i + 1, j)) = j - i
           /\ Numbered(SubSeq(q, i + 1, j), b + i)
<1>1. Len(q) \in Nat
  OBVIOUS
<1>2. \A k \in (i + 1)..j : q[k] \in Nat
  BY <1>1, ElementOfSeq
<1> DEFINE u == SubSeq(q, i + 1, j)
<1> DEFINE h == i + 1
<1>h. h \in Int /\ j \in Int /\ \A k \in h..j : q[k] \in Nat
  BY <1>2
<1> HIDE DEF h
<1>g. /\ SubSeq(q, h, j) \in Seq(Nat)
      /\ Len(SubSeq(q, h, j)) = (IF h <= j THEN j - h + 1 ELSE 0)
      /\ \A k \in 1..(j - h + 1) : SubSeq(q, h, j)[k] = q[h + k - 1]
  BY SMTT(60), <1>h, SubSeqProperties
<1>3. /\ u \in Seq(Nat)
      /\ Len(u) = (IF i + 1 <= j THEN j - (i + 1) + 1 ELSE 0)
      /\ \A k \in 1..Len(u) : u[k] = q[i + 1 + k - 1]
  BY <1>1, <1>g DEF h
<1> HIDE DEF u
<1>4. Len(u) = j - i
  BY <1>3
<1>5. \A k \in 1..(j - i) : u[k] = q[i + k] /\ i + k \in 1..Len(q)
  BY <1>1, <1>3, <1>4
<1>6. \A k \in 1..(j - i) : u[k] = (b + i) + k
  BY <1>1, <1>5 DEF Numbered
<1> QED BY <1>3, <1>4, <1>6 DEF Numbered, u

LEMMA NumberedDrop ==
    ASSUME NEW q \in Seq(Nat), NEW b \in Nat, Numbered(q, b),
           NEW n \in Nat, n <= Len(q)
    PROVE  /\ Drop(q, n) \in Seq(Nat)
           /\ Len(Drop(q, n)) = Len(q) - n
           /\ Numbered(Drop(q, n), b + n)
<1>1. Len(q) \in Nat
  OBVIOUS
<1> QED BY <1>1, NumberedPart DEF Drop

LEMMA NumberedJoin ==
    ASSUME NEW q \in Seq(Nat), NEW u \in Seq(Nat), NEW b \in Nat,
           Numbered(q, b), Numbered(u, b + Len(q))
    PROVE  /\ q \o u \in Seq(Nat)
           /\ Len(q \o u) = Len(q) + Len(u)
           /\ Numbered(q \o u, b)
<1>1. /\ q \o u \in Seq(Nat)
      /\ Len(q \o u) = Len(q) + Len(u)
      /\ \A i \in 1 .. Len(q) + Len(u) : (q \o u)[i] =
            IF i <= Len(q) THEN q[i] ELSE u[i - Len(q)]
  BY ConcatProperties
<1>2. Len(q) \in Nat /\ Len(u) \in Nat
  OBVIOUS
<1>3. ASSUME NEW i \in 1..(Len(q) + Len(u)) PROVE (q \o u)[i] = b + i
  <2>1. CASE i <= Len(q)
    BY <1>1, <1>2, <2>1 DEF Numbered
  <2>2. CASE ~(i <= Len(q))
    <3>1. i - Len(q) \in 1..Len(u)
      BY <1>2, <2>2
    <3> QED BY <1>1, <1>2, <2>2, <3>1 DEF Numbered
  <2> QED BY <2>1, <2>2
<1> QED BY <1>1, <1>3 DEF Numbered

LEMMA NumberedEmpty == \A b : Numbered(<<>>, b)
BY DEF Numbered

-----------------------------------------------------------------------------
(* The sending half *)

(* What an accepted acknowledgement does to the sending half (m_v2_ack). *)
LEMMA AckEffect ==
    ASSUME NEW t \in Snd, NEW offset \in Nat, NEW fin \in BOOLEAN,
           AckOk(t, offset, fin), Numbered(t.tx, t.tx_base)
    PROVE  LET a == m_v2_ack(t, offset, fin)
           IN  /\ a \in Snd
               /\ a.tx_base = IF offset > t.tx_base THEN offset ELSE t.tx_base
               /\ a.tx_base + a.tx_pos = t.tx_base + t.tx_pos
               /\ Len(a.tx) - a.tx_pos = Len(t.tx) - t.tx_pos
               /\ m_tx_next(a) = m_tx_next(t)
               /\ Numbered(a.tx, a.tx_base)
               /\ a.tx_sent_high = t.tx_sent_high
               /\ a.socket_eof = t.socket_eof /\ a.tx_final = t.tx_final
               /\ a.tx_fin_acked = (t.tx_fin_acked \/ fin)
<1> DEFINE c == IF offset > t.tx_base THEN offset - t.tx_base ELSE 0
           a == m_v2_ack(t, offset, fin)
           u == Drop(t.tx, c)
           k == t.tx_fin_acked \/ fin
<1>1. c \in Nat /\ c <= Len(t.tx) /\ c <= t.tx_pos
  BY SndFields DEF AckOk, m_tx_next
<1>2. u \in Seq(Nat) /\ Len(u) = Len(t.tx) - c /\ Numbered(u, t.tx_base + c)
  BY <1>1, SndFields, NumberedDrop
<1>3. a = [t EXCEPT !.tx = u, !.tx_base = t.tx_base + c,
                    !.tx_pos = t.tx_pos - c, !.tx_fin_acked = k]
  BY DEF m_v2_ack
<1>4. a \in Snd
  BY AckType
<1>5. t.tx_base + c = IF offset > t.tx_base THEN offset ELSE t.tx_base
  BY SndFields
<1> HIDE DEF u, c, k
<1>6. /\ a.tx = u /\ a.tx_base = t.tx_base + c /\ a.tx_pos = t.tx_pos - c
      /\ a.tx_sent_high = t.tx_sent_high
      /\ a.socket_eof = t.socket_eof /\ a.tx_final = t.tx_final
      /\ a.tx_fin_acked = k
  BY <1>3 DEF Snd
<1> HIDE DEF a
<1>7. /\ a.tx_base + a.tx_pos = t.tx_base + t.tx_pos
      /\ Len(a.tx) - a.tx_pos = Len(t.tx) - t.tx_pos
      /\ m_tx_next(a) = m_tx_next(t)
  BY SMTT(60), <1>1, <1>2, <1>6, SndFields DEF m_tx_next
<1> QED BY <1>2, <1>4, <1>5, <1>6, <1>7 DEF k, a

LEMMA AckKeeps ==
    ASSUME NEW t \in Snd, NEW offset \in Nat, NEW fin \in BOOLEAN,
           AckOk(t, offset, fin), SndOk(t)
    PROVE  SndOk(m_v2_ack(t, offset, fin))
<1> DEFINE a == m_v2_ack(t, offset, fin)
<1>1. Numbered(t.tx, t.tx_base)
  BY DEF SndOk
<1>2. /\ a \in Snd
      /\ a.tx_base + a.tx_pos = t.tx_base + t.tx_pos
      /\ Len(a.tx) - a.tx_pos = Len(t.tx) - t.tx_pos
      /\ m_tx_next(a) = m_tx_next(t)
      /\ Numbered(a.tx, a.tx_base)
      /\ a.tx_sent_high = t.tx_sent_high
      /\ a.socket_eof = t.socket_eof /\ a.tx_final = t.tx_final
  BY <1>1, AckEffect
<1> HIDE DEF a
<1> QED BY SMTT(60), <1>2, SndFields DEF SndOk, a

(* A resume acknowledges what the peer delivered and rewinds the cursor. *)
LEMMA ResumeEffect ==
    ASSUME NEW t \in Snd, NEW r \in Rcv, NEW m \in Snapshots, ResumeOk(t, r, m),
           SndOk(t)
    PROVE  LET a == ResumeSnd(t, m)
           IN  /\ a \in Snd /\ SndOk(a)
               /\ a.tx_base = m.delivered /\ a.tx_pos = 0
               /\ m_tx_next(a) = m_tx_next(t)
               /\ a.tx_sent_high = t.tx_sent_high
               /\ a.socket_eof = t.socket_eof /\ a.tx_final = t.tx_final
               /\ a.tx_fin_acked = (t.tx_fin_acked \/ m.fin_applied)
<1> DEFINE u == Replayable(t)
           b == m_v2_ack(u, m.delivered, m.fin_applied)
           a == ResumeSnd(t, m)
<1>0. m.delivered \in Nat /\ m.fin_applied \in BOOLEAN
  BY DEF Snapshots
<1>1. /\ u \in Snd /\ u.tx = t.tx /\ u.tx_base = t.tx_base
      /\ u.tx_sent_high = t.tx_sent_high /\ u.socket_eof = t.socket_eof
      /\ u.tx_final = t.tx_final /\ u.tx_fin_acked = t.tx_fin_acked
  BY SndFields DEF Replayable, Snd
<1>2. AckOk(u, m.delivered, m.fin_applied) /\ Numbered(u.tx, u.tx_base)
  BY <1>1 DEF ResumeOk, SndOk
<1>3. m_tx_next(u) = m_tx_next(t)
  BY <1>1 DEF m_tx_next
<1> HIDE DEF u
<1>4. /\ b \in Snd
      /\ b.tx_base = IF m.delivered > u.tx_base THEN m.delivered ELSE u.tx_base
      /\ m_tx_next(b) = m_tx_next(u)
      /\ Numbered(b.tx, b.tx_base)
      /\ b.tx_sent_high = u.tx_sent_high
      /\ b.socket_eof = u.socket_eof /\ b.tx_final = u.tx_final
      /\ b.tx_fin_acked = (u.tx_fin_acked \/ m.fin_applied)
  BY <1>0, <1>1, <1>2, AckEffect
<1>5. a = SuspendSnd(b)
  BY DEF ResumeSnd, SuspendSnd, u
<1> HIDE DEF a, b
<1>6. /\ a \in Snd /\ a.tx = b.tx /\ a.tx_base = b.tx_base /\ a.tx_pos = 0
      /\ a.tx_sent_high = b.tx_sent_high /\ a.socket_eof = b.socket_eof
      /\ a.tx_final = b.tx_final /\ a.tx_fin_acked = b.tx_fin_acked
  BY <1>4, <1>5, SndFields DEF SuspendSnd, Snd
<1>7. m_tx_next(a) = m_tx_next(t)
  BY <1>3, <1>4, <1>6 DEF m_tx_next
<1>8. b.tx_base = m.delivered
  BY <1>0, <1>1, <1>4, SndFields DEF ResumeOk
<1>9. m.delivered <= t.tx_sent_high
  BY <1>1, <1>2 DEF AckOk
<1>10. SndOk(a)
  BY <1>0, <1>1, <1>3, <1>4, <1>6, <1>7, <1>8, <1>9, SndFields DEF SndOk
<1> QED BY <1>1, <1>4, <1>6, <1>7, <1>8, <1>10 DEF a

LEMMA SuspendEffect ==
    ASSUME NEW t \in Snd, SndOk(t)
    PROVE  LET a == SuspendSnd(t)
           IN  /\ a \in Snd /\ SndOk(a) /\ a.tx_pos = 0
               /\ m_tx_next(a) = m_tx_next(t)
               /\ a.tx_sent_high = t.tx_sent_high
               /\ a.socket_eof = t.socket_eof /\ a.tx_final = t.tx_final
               /\ a.tx_fin_acked = t.tx_fin_acked
<1> DEFINE a == SuspendSnd(t)
<1>1. /\ a \in Snd /\ a.tx = t.tx /\ a.tx_base = t.tx_base /\ a.tx_pos = 0
      /\ a.tx_sent_high = t.tx_sent_high /\ a.socket_eof = t.socket_eof
      /\ a.tx_final = t.tx_final /\ a.tx_fin_acked = t.tx_fin_acked
  BY SndFields DEF SuspendSnd, Snd
<1> HIDE DEF a
<1>2. m_tx_next(a) = m_tx_next(t)
  BY <1>1 DEF m_tx_next
<1>3. SndOk(a)
  BY <1>1, <1>2, SndFields DEF SndOk
<1> QED BY <1>1, <1>2, <1>3 DEF a

(* The application's bytes, or its end, enter the buffer. *)
Fed(t, n, eof) == IF eof THEN SocketEof(t) ELSE SocketRead(t, n)

LEMMA FedEffect ==
    ASSUME NEW t \in Snd, SndOk(t), NEW n \in Nat, NEW eof \in BOOLEAN,
           t.socket_eof => n = 0 /\ ~eof, eof => n = 0
    PROVE  LET a == Fed(t, n, eof)
           IN  /\ a \in Snd /\ SndOk(a)
               /\ a.tx_base = t.tx_base /\ a.tx_pos = t.tx_pos
               /\ m_tx_next(a) = m_tx_next(t) + n
               /\ a.tx_sent_high = t.tx_sent_high
               /\ a.socket_eof = (t.socket_eof \/ eof)
               /\ t.socket_eof => a.tx_final = t.tx_final
               /\ a.tx_fin_acked = t.tx_fin_acked
<1> DEFINE a == Fed(t, n, eof)
<1>1. CASE eof
  <2>1. a \in Snd /\ a = SocketEof(t)
    BY <1>1, SocketEofType DEF Fed
  <2>2. /\ a.tx = t.tx /\ a.tx_base = t.tx_base /\ a.tx_pos = t.tx_pos
        /\ a.tx_sent_high = t.tx_sent_high /\ a.socket_eof = TRUE
        /\ a.tx_final = m_tx_next(t) /\ a.tx_fin_acked = t.tx_fin_acked
    BY <2>1 DEF SocketEof, Snd
  <2> HIDE DEF a
  <2>3. m_tx_next(a) = m_tx_next(t)
    BY <2>2 DEF m_tx_next
  <2>4. SndOk(a)
    BY <2>2, <2>3 DEF SndOk
  <2>5. m_tx_next(a) = m_tx_next(t) + n
    BY <1>1, <2>3, SndFields
  <2>6. a.socket_eof = (t.socket_eof \/ eof)
    BY <1>1, <2>2
  <2>7. ~t.socket_eof
    BY <1>1
  <2> QED BY <2>1, <2>2, <2>4, <2>5, <2>6, <2>7 DEF a
<1>2. CASE ~eof
  <2> DEFINE u == Bytes(m_tx_next(t), n)
  <2>1. a \in Snd /\ a = [t EXCEPT !.tx = t.tx \o u]
    BY <1>2, SocketReadType DEF Fed, SocketRead
  <2>2. u \in Seq(Nat) /\ Len(u) = n /\ Numbered(u, t.tx_base + Len(t.tx))
    BY SndFields, BytesType DEF Bytes, Numbered, m_tx_next
  <2>3. Numbered(t.tx, t.tx_base)
    BY DEF SndOk
  <2> DEFINE q == t.tx \o u
  <2> HIDE DEF u
  <2>4. q \in Seq(Nat) /\ Len(q) = Len(t.tx) + n /\ Numbered(q, t.tx_base)
    BY <2>2, <2>3, SndFields, NumberedJoin
  <2> HIDE DEF q
  <2>5. /\ a.tx = q /\ a.tx_base = t.tx_base /\ a.tx_pos = t.tx_pos
        /\ a.tx_sent_high = t.tx_sent_high /\ a.socket_eof = t.socket_eof
        /\ a.tx_final = t.tx_final /\ a.tx_fin_acked = t.tx_fin_acked
    BY <2>1 DEF Snd, q
  <2> HIDE DEF a
  <2>6. m_tx_next(a) = m_tx_next(t) + n
    <3>1. t.tx_base \in Nat /\ Len(t.tx) \in Nat
      BY SndFields
    <3> QED BY SMTT(60), <2>4, <2>5, <3>1 DEF m_tx_next
  <2>7. SndOk(a)
    BY SMTT(60), <2>4, <2>5, <2>6, SndFields DEF SndOk
  <2> QED BY <1>2, <2>1, <2>5, <2>6, <2>7, SndFields DEF a
<1> QED BY <1>1, <1>2

(* DATA moves the cursor, and the mark of what was ever sent with it. *)
LEMMA DataSentEffect ==
    ASSUME NEW t \in Snd, SndOk(t), NEW d \in Nat, NEW fin \in BOOLEAN,
           d <= Len(t.tx) - t.tx_pos
    PROVE  LET a == FinSent(DataSent(t, d), fin)
           IN  /\ a \in Snd /\ SndOk(a)
               /\ a.tx = t.tx /\ a.tx_base = t.tx_base /\ a.tx_pos = t.tx_pos + d
               /\ m_tx_next(a) = m_tx_next(t)
               /\ t.tx_sent_high <= a.tx_sent_high
               /\ t.tx_base + t.tx_pos + d <= a.tx_sent_high
               /\ a.socket_eof = t.socket_eof /\ a.tx_final = t.tx_final
               /\ a.tx_fin_acked = t.tx_fin_acked
<1> DEFINE top == t.tx_base + t.tx_pos + d
           high == IF d > 0 /\ top > t.tx_sent_high THEN top
                                                    ELSE t.tx_sent_high
           b == DataSent(t, d)
           a == FinSent(b, fin)
<1>1. /\ high \in Nat /\ t.tx_pos + d \in Nat /\ t.tx_sent_high <= high
      /\ top <= high /\ high <= m_tx_next(t)
  <2>1. /\ t.tx_base \in Nat /\ t.tx_pos \in Nat /\ t.tx_sent_high \in Nat
        /\ Len(t.tx) \in Nat /\ m_tx_next(t) = t.tx_base + Len(t.tx)
    BY SndFields DEF m_tx_next
  <2>2. t.tx_base + t.tx_pos <= t.tx_sent_high /\ t.tx_sent_high <= m_tx_next(t)
    BY DEF SndOk
  <2> QED BY SMTT(60), <2>1, <2>2
<1>2. b = [t EXCEPT !.tx_pos = t.tx_pos + d, !.tx_sent_high = high]
  BY DEF DataSent, Snd
<1>3. a \in Snd
  BY DataSentType
<1> HIDE DEF high, a
<1>4. /\ b.tx = t.tx /\ b.tx_base = t.tx_base /\ b.tx_pos = t.tx_pos + d
      /\ b.tx_sent_high = high /\ b.socket_eof = t.socket_eof
      /\ b.tx_final = t.tx_final /\ b.tx_fin_acked = t.tx_fin_acked
      /\ b \in Snd
  BY <1>1, <1>2 DEF Snd
<1> HIDE DEF b
<1>5. /\ a.tx = b.tx /\ a.tx_base = b.tx_base /\ a.tx_pos = b.tx_pos
      /\ a.tx_sent_high = b.tx_sent_high /\ a.socket_eof = b.socket_eof
      /\ a.tx_final = b.tx_final /\ a.tx_fin_acked = b.tx_fin_acked
  BY <1>4 DEF FinSent, Snd, a
<1>6. m_tx_next(a) = m_tx_next(t)
  BY <1>4, <1>5 DEF m_tx_next
<1>7. SndOk(a)
  BY SMTT(60), <1>1, <1>4, <1>5, <1>6, SndFields DEF SndOk
<1> QED BY <1>1, <1>3, <1>4, <1>5, <1>6, <1>7 DEF a, b

-----------------------------------------------------------------------------
(* The receiving half *)

(* What one tick does to the receiving half and its socket. *)
Ticked(r, w, ack) == AckSent(FinApplied(Written(r, w)), ack)

LEMMA TickedEffect ==
    ASSUME NEW r \in Rcv, NEW k \in Seq(Nat), RcvOk(r, k),
           NEW w \in Nat, w <= Len(r.rx), NEW ack \in BOOLEAN,
           r.rx_fin_applied => w = 0
    PROVE  LET v == Ticked(r, w, ack)
           IN  /\ v \in Rcv
               /\ RcvOk(v, k \o SubSeq(r.rx, 1, w))
               /\ Len(k \o SubSeq(r.rx, 1, w)) = Len(k) + w
               /\ v.rx_next = r.rx_next /\ v.rx_commit = r.rx_commit + w
               /\ v.rx_fin = r.rx_fin /\ v.rx_final = r.rx_final
               /\ w = 0 => v.rx = r.rx
               /\ v.rx_fin_applied =
                    (r.rx_fin_applied \/ (r.rx_fin /\ v.rx_commit = r.rx_final))
<1> DEFINE a == Written(r, w)
           b == FinApplied(a)
           v == Ticked(r, w, ack)
           u == Drop(r.rx, w)
           g == SubSeq(r.rx, 1, w)
           j == k \o g
<1>0. Numbered(r.rx, r.rx_commit) /\ Numbered(k, 0) /\ Len(k) = r.rx_commit
      /\ r.rx_next = r.rx_commit + Len(r.rx)
  BY DEF RcvOk
<1>1. u \in Seq(Nat) /\ Len(u) = Len(r.rx) - w /\ Numbered(u, r.rx_commit + w)
  BY <1>0, RcvFields, NumberedDrop
<1>2. g \in Seq(Nat) /\ Len(g) = w /\ Numbered(g, r.rx_commit)
  <2>1. /\ SubSeq(r.rx, 0 + 1, w) \in Seq(Nat)
        /\ Len(SubSeq(r.rx, 0 + 1, w)) = w - 0
        /\ Numbered(SubSeq(r.rx, 0 + 1, w), r.rx_commit + 0)
    <3>1. r.rx \in Seq(Nat) /\ r.rx_commit \in Nat /\ 0 <= w
      BY RcvFields
    <3> QED BY <1>0, <3>1, NumberedPart
  <2> QED BY <2>1, RcvFields
<1>3. w = 0 => u = r.rx
  BY RcvFields DEF Drop
<1> HIDE DEF u, g
<1>4. j \in Seq(Nat) /\ Len(j) = Len(k) + w /\ Numbered(j, 0)
  <2>1. Len(k) \in Nat
    OBVIOUS
  <2>2. Numbered(g, 0 + Len(k))
    BY <1>0, <1>2, <2>1
  <2> QED BY <1>0, <1>2, <2>2, NumberedJoin
<1>5. v \in Rcv /\ a \in Rcv /\ b \in Rcv
  BY WrittenType, FinAppliedType, AckSentType DEF Ticked
<1>6. /\ a.rx = u /\ a.rx_commit = r.rx_commit + w /\ a.rx_next = r.rx_next
      /\ a.rx_fin = r.rx_fin /\ a.rx_final = r.rx_final
      /\ a.rx_fin_applied = r.rx_fin_applied
  BY DEF Written, Rcv, u
<1> HIDE DEF a, j
<1>7. /\ b.rx = a.rx /\ b.rx_commit = a.rx_commit /\ b.rx_next = a.rx_next
      /\ b.rx_fin = a.rx_fin /\ b.rx_final = a.rx_final
      /\ b.rx_fin_applied =
           (a.rx_fin_applied \/ (a.rx_fin /\ a.rx_commit = a.rx_final))
  BY <1>5 DEF FinApplied, Rcv
<1> HIDE DEF b
<1>8. /\ v.rx = b.rx /\ v.rx_commit = b.rx_commit /\ v.rx_next = b.rx_next
      /\ v.rx_fin = b.rx_fin /\ v.rx_final = b.rx_final
      /\ v.rx_fin_applied = b.rx_fin_applied
  BY <1>5 DEF AckSent, Rcv, Ticked, a, b
<1> HIDE DEF v
<1>9. RcvOk(v, j)
  <2>1. v.rx_fin_applied => v.rx_fin /\ v.rx_commit = v.rx_final
    BY <1>6, <1>7, <1>8, RcvFields DEF RcvOk
  <2>2. v.rx_next = v.rx_commit + Len(v.rx)
    BY <1>0, <1>1, <1>6, <1>7, <1>8, RcvFields
  <2> QED BY <1>0, <1>1, <1>4, <1>6, <1>7, <1>8, <2>1, <2>2 DEF RcvOk
<1> QED BY <1>3, <1>4, <1>5, <1>6, <1>7, <1>8, <1>9 DEF v, j, g

LEMMA ResumeRcvEffect ==
    ASSUME NEW r \in Rcv, NEW k, RcvOk(r, k), NEW m \in Snapshots,
           r.rx_fin_applied /\ m.eof => m.final = r.rx_final
    PROVE  LET v == ResumeRcv(r, m)
           IN  /\ v \in Rcv /\ RcvOk(v, k)
               /\ v.rx = <<>> /\ v.rx_next = r.rx_commit /\ v.rx_commit = r.rx_commit
               /\ v.rx_fin = (r.rx_fin \/ m.eof)
               /\ v.rx_final = IF m.eof THEN m.final ELSE r.rx_final
               /\ v.rx_fin_applied = r.rx_fin_applied
<1> DEFINE v == ResumeRcv(r, m)
<1>1. v \in Rcv
  BY ResumeRcvType
<1>2. /\ v.rx = <<>> /\ v.rx_next = r.rx_commit /\ v.rx_commit = r.rx_commit
      /\ v.rx_fin = (r.rx_fin \/ m.eof)
      /\ v.rx_final = (IF m.eof THEN m.final ELSE r.rx_final)
      /\ v.rx_fin_applied = r.rx_fin_applied
  BY DEF ResumeRcv, Rcv
<1> HIDE DEF v
<1>3. RcvOk(v, k)
  BY <1>2, NumberedEmpty, RcvFields DEF RcvOk
<1> QED BY <1>1, <1>2, <1>3 DEF v

LEMMA SuspendRcvEffect ==
    ASSUME NEW r \in Rcv, NEW k, RcvOk(r, k)
    PROVE  LET v == SuspendRcv(r)
           IN  /\ v \in Rcv /\ RcvOk(v, k)
               /\ v.rx = <<>> /\ v.rx_next = r.rx_commit /\ v.rx_commit = r.rx_commit
               /\ v.rx_fin = r.rx_fin /\ v.rx_final = r.rx_final
               /\ v.rx_fin_applied = r.rx_fin_applied
<1> DEFINE v == SuspendRcv(r)
<1>1. v \in Rcv
  BY SuspendType
<1>2. /\ v.rx = <<>> /\ v.rx_next = r.rx_commit /\ v.rx_commit = r.rx_commit
      /\ v.rx_fin = r.rx_fin /\ v.rx_final = r.rx_final
      /\ v.rx_fin_applied = r.rx_fin_applied
  BY DEF SuspendRcv, Rcv
<1> HIDE DEF v
<1>3. RcvOk(v, k)
  BY <1>2, NumberedEmpty, RcvFields DEF RcvOk
<1> QED BY <1>1, <1>2, <1>3 DEF v

(* A frame, or a part of one, is taken off the stream (m_v2_read). *)
LEMMA ReceivedEffect ==
    ASSUME NEW r \in Rcv, NEW k, RcvOk(r, k), NEW t \in Snd, Behind(t, r),
           NEW x, NEW m \in Honest(t, x), m.kind \in {"data", "ack", "fin"},
           NEW n \in Nat, m.kind = "data" => n <= Len(m.bytes)
    PROVE  LET v == Received(r, m, n)
           IN  /\ v \in Rcv /\ RcvOk(v, k) /\ Behind(t, v)
               /\ v.rx_commit = r.rx_commit
               /\ v.rx_fin_applied = r.rx_fin_applied
               /\ r.rx_next <= v.rx_next
               /\ v.rx_next = IF m.kind = "data" /\ m.offset = r.rx_next
                              THEN r.rx_next + n ELSE r.rx_next
<1> DEFINE v == Received(r, m, n)
<1>0. m \in Msg /\ v \in Rcv
  BY ReceivedType DEF Honest
<1>a. /\ r.rx \in Seq(Nat) /\ Len(r.rx) \in Nat /\ r.rx_commit \in Nat
      /\ r.rx_next \in Nat /\ t.tx_sent_high \in Nat
  BY RcvFields, SndFields
<1>1. CASE m.kind = "ack"
  <2>1. v = r
    BY <1>1 DEF Received
  <2> QED BY <1>1, <1>a, <2>1
<1>2. CASE m.kind = "fin"
  <2>1. v = [r EXCEPT !.rx_fin = TRUE, !.rx_final = m.offset]
    BY <1>2 DEF Received
  <2>2. /\ v.rx = r.rx /\ v.rx_next = r.rx_next /\ v.rx_commit = r.rx_commit
        /\ v.rx_fin = TRUE /\ v.rx_final = m.offset
        /\ v.rx_fin_applied = r.rx_fin_applied
    BY <2>1 DEF Rcv
  <2> HIDE DEF v
  <2>3. t.socket_eof /\ m.offset = t.tx_final
    BY <1>2 DEF Honest
  <2>4. RcvOk(v, k)
    BY <2>2, <2>3 DEF RcvOk, Behind
  <2>5. Behind(t, v)
    BY <2>2, <2>3 DEF Behind
  <2> QED BY <1>0, <1>2, <1>a, <2>2, <2>4, <2>5 DEF v
<1>3. CASE m.kind = "data" /\ n > 0 /\ m.offset = r.rx_next
  <2> DEFINE g == SubSeq(m.bytes, 1, n)
             q == r.rx \o g
  <2>0. /\ m.bytes \in Seq(Nat) /\ m.offset \in Nat /\ Len(m.bytes) \in Nat
        /\ m.offset + Len(m.bytes) <= t.tx_sent_high /\ Numbered(m.bytes, m.offset)
    BY <1>0, <1>3, MsgFields DEF Honest
  <2>1. g \in Seq(Nat) /\ Len(g) = n /\ Numbered(g, r.rx_next)
    <3>1. /\ SubSeq(m.bytes, 0 + 1, n) \in Seq(Nat)
          /\ Len(SubSeq(m.bytes, 0 + 1, n)) = n - 0
          /\ Numbered(SubSeq(m.bytes, 0 + 1, n), m.offset + 0)
      <4>1. 0 <= n /\ n <= Len(m.bytes)
        BY <1>3
      <4> QED BY <2>0, <4>1, NumberedPart
    <3> QED BY <1>3, <2>0, <3>1
  <2>2. v = [r EXCEPT !.rx = q, !.rx_next = r.rx_next + n]
    BY <1>3 DEF Received, Take
  <2> HIDE DEF g
  <2>3. /\ Numbered(r.rx, r.rx_commit) /\ r.rx_next = r.rx_commit + Len(r.rx)
    BY DEF RcvOk
  <2>4. q \in Seq(Nat) /\ Len(q) = Len(r.rx) + n /\ Numbered(q, r.rx_commit)
    BY <1>a, <2>1, <2>3, NumberedJoin
  <2> HIDE DEF q
  <2>5. /\ v.rx = q /\ v.rx_next = r.rx_next + n /\ v.rx_commit = r.rx_commit
        /\ v.rx_fin = r.rx_fin /\ v.rx_final = r.rx_final
        /\ v.rx_fin_applied = r.rx_fin_applied
    BY <2>2 DEF Rcv
  <2> HIDE DEF v
  <2>6. RcvOk(v, k)
    <3>1. v.rx_next = v.rx_commit + Len(v.rx)
      <4>1. Len(v.rx) = Len(r.rx) + n
        BY <2>4, <2>5
      <4> QED BY <1>a, <2>3, <2>5, <4>1
    <3> QED BY <2>4, <2>5, <3>1 DEF RcvOk
  <2>7. Behind(t, v)
    <3>1. v.rx_next <= t.tx_sent_high
      BY <1>3, <1>a, <2>0, <2>5
    <3> QED BY <2>5, <3>1 DEF Behind
  <2> QED BY <1>0, <1>3, <1>a, <2>5, <2>6, <2>7 DEF v
<1>4. CASE m.kind = "data" /\ ~(n > 0 /\ m.offset = r.rx_next)
  <2>1. v = r \/ v = [r EXCEPT !.ack_dirty = TRUE]
    BY <1>4 DEF Received, Take
  <2>2. /\ v.rx = r.rx /\ v.rx_next = r.rx_next /\ v.rx_commit = r.rx_commit
        /\ v.rx_fin = r.rx_fin /\ v.rx_final = r.rx_final
        /\ v.rx_fin_applied = r.rx_fin_applied
    BY <2>1 DEF Rcv
  <2> HIDE DEF v
  <2>3. RcvOk(v, k) /\ Behind(t, v)
    BY <2>2 DEF RcvOk, Behind
  <2> QED BY <1>0, <1>4, <1>a, <2>2, <2>3 DEF v
<1> QED BY <1>1, <1>2, <1>3, <1>4

LEMMA RestHonest ==
    ASSUME NEW t \in Snd, NEW x, NEW m \in Honest(t, x), NEW n \in Nat
    PROVE  Rest(m, n) \in Seq(Honest(t, x))
<1>1. CASE m.kind = "data" /\ n < Len(m.bytes)
  <2> DEFINE o == m.offset + n
             b == Drop(m.bytes, n)
             e == [m EXCEPT !.offset = o, !.bytes = b]
  <2>1. /\ m.offset \in Nat /\ m.bytes \in Seq(Nat) /\ Len(m.bytes) \in Nat
        /\ m \in [kind : {"data"}, offset : Nat, bytes : Seq(Nat)]
        /\ m.offset + Len(m.bytes) <= t.tx_sent_high /\ Numbered(m.bytes, m.offset)
    BY <1>1, MsgFields DEF Honest, Msg
  <2>2. b \in Seq(Nat) /\ Len(b) = Len(m.bytes) - n /\ Numbered(b, o) /\ o \in Nat
    BY <1>1, <2>1, NumberedDrop
  <2>3. Rest(m, n) = <<e>>
    BY <1>1 DEF Rest
  <2> HIDE DEF o, b
  <2>4. /\ e \in [kind : {"data"}, offset : Nat, bytes : Seq(Nat)]
        /\ e.kind = "data" /\ e.offset = o /\ e.bytes = b
    BY <2>1, <2>2
  <2> HIDE DEF e
  <2>5. e.offset + Len(e.bytes) <= t.tx_sent_high /\ Numbered(e.bytes, e.offset)
    <3>1. e.offset = m.offset + n /\ Len(e.bytes) = Len(m.bytes) - n
      BY <2>2, <2>4 DEF o
    <3>2. e.offset + Len(e.bytes) = m.offset + Len(m.bytes)
      BY <1>1, <2>1, <3>1
    <3> QED BY <2>1, <2>2, <2>4, <3>2
  <2>6. e \in Honest(t, x)
    BY <2>4, <2>5 DEF Honest, Msg
  <2> QED BY <2>3, <2>6
<1>2. CASE ~(m.kind = "data" /\ n < Len(m.bytes))
  BY <1>2, EmptySeq DEF Rest
<1> QED BY <1>1, <1>2

(* The frames of m_v2_write are honest about the halves it leaves. *)
LEMMA FramesHonest ==
    ASSUME NEW t \in Snd, SndOk(t), NEW r \in Rcv, NEW d \in Nat,
           d <= Len(t.tx) - t.tx_pos, NEW ack \in BOOLEAN, NEW fin \in BOOLEAN,
           NEW t2 \in Snd, NEW r2 \in Rcv, fin => t.socket_eof,
           t.tx_base + t.tx_pos + d <= t2.tx_sent_high,
           t2.socket_eof = t.socket_eof, t2.tx_final = t.tx_final,
           r2.rx_commit = r.rx_commit, r2.rx_fin_applied = r.rx_fin_applied
    PROVE  Frames(t, r, ack, d, fin) \in Seq(Honest(t2, r2))
<1> DEFINE S == Honest(t2, r2)
<1>1. AckFrame(r) \in S
  BY RcvFields DEF AckFrame, Honest, Msg
<1>2. DataFrame(t, d) \in S
  <2> DEFINE e == DataFrame(t, d)
  <2>1. /\ t.tx \in Seq(Nat) /\ t.tx_pos \in Nat /\ Len(t.tx) \in Nat
        /\ t.tx_base \in Nat /\ t.tx_pos + d \in Nat /\ t.tx_pos + d <= Len(t.tx)
        /\ t.tx_pos <= t.tx_pos + d /\ Numbered(t.tx, t.tx_base)
        /\ t.tx_base + t.tx_pos \in Nat
    <3>1. /\ t.tx \in Seq(Nat) /\ t.tx_pos \in Nat /\ Len(t.tx) \in Nat
          /\ t.tx_base \in Nat
      BY SndFields
    <3>2. Numbered(t.tx, t.tx_base)
      BY DEF SndOk
    <3> QED BY SMTT(60), <3>1, <3>2
  <2> DEFINE b == SubSeq(t.tx, t.tx_pos + 1, t.tx_pos + d)
  <2>2. /\ b \in Seq(Nat) /\ Len(b) = (t.tx_pos + d) - t.tx_pos
        /\ Numbered(b, t.tx_base + t.tx_pos)
    BY ZenonT(60), <2>1, NumberedPart
  <2>3. e = [kind |-> "data", offset |-> t.tx_base + t.tx_pos, bytes |-> b]
    BY DEF DataFrame
  <2> HIDE DEF b
  <2>4. e \in Msg /\ e.kind = "data" /\ e.offset = t.tx_base + t.tx_pos /\ e.bytes = b
    BY <2>1, <2>2, <2>3 DEF Msg
  <2> HIDE DEF e
  <2>5. e.offset + Len(e.bytes) <= t2.tx_sent_high
    BY <2>1, <2>2, <2>4
  <2>6. Numbered(e.bytes, e.offset)
    BY <2>2, <2>4
  <2> QED BY <2>4, <2>5, <2>6 DEF Honest, e
<1>3. fin => FinFrame(t) \in S
  BY SndFields DEF FinFrame, Honest, Msg
<1> HIDE DEF S
<1> DEFINE a == IF ack THEN <<AckFrame(r)>> ELSE <<>>
           b == IF d > 0 THEN <<DataFrame(t, d)>> ELSE <<>>
           c == IF fin THEN <<FinFrame(t)>> ELSE <<>>
<1>4. a \in Seq(S) /\ b \in Seq(S) /\ c \in Seq(S)
  BY <1>1, <1>2, <1>3
<1> HIDE DEF a, b, c
<1>5. (a \o b) \o c \in Seq(S)
  BY <1>4, ConcatProperties
<1> QED BY <1>5 DEF Frames, S, a, b, c

-----------------------------------------------------------------------------
(* Every step preserves the data invariant; only m_v2_tick is seen by an   *)
(* application                                                             *)

LEMMA WireOne ==
    ASSUME IInv, Data, NEW s \in Side, NEW q,
           wire' = [wire EXCEPT ![s] = q], q \in Seq(Honest(snd[s], rcv[s]))
    PROVE  \A x \in Side : wire'[x] \in Seq(Honest(snd[x], rcv[x]))
BY Typed DEF Data, Truthful

LEMMA m_local_flow_Data ==
    ASSUME IInv, Data, m_local_flow
    PROVE  Data' /\ Unseen
<1>a. /\ snd' = snd /\ rcv' = rcv /\ sock' = sock /\ retired' = retired
      /\ ctl["local"].phase = "none" /\ ctl["local"] \in Ctl
  BY Typed, SideFacts DEF m_local_flow
<1>1. CASE Attached("local")
  <2> DEFINE c == [ctl["local"] EXCEPT !.phase = "control"]
             q == Sent("local", <<[kind |-> "open"]>>)
  <2>1. ctl' = [ctl EXCEPT !["local"] = c] /\ c.phase = "control"
    BY <1>1, <1>a, Typed, SideFacts DEF m_local_flow, Ctl
  <2>2. wire' = [wire EXCEPT !["local"] = q]
    BY <1>1 DEF m_local_flow
  <2>3. q \in Seq(Honest(snd["local"], rcv["local"]))
    <3>1. [kind |-> "open"] \in Honest(snd["local"], rcv["local"])
      BY HonestPlain
    <3>2. <<[kind |-> "open"]>> \in Seq(Honest(snd["local"], rcv["local"]))
      BY <3>1
    <3> QED BY <3>2, SentHonest, SideFacts
  <2> HIDE DEF c, q
  <2>4. \A x \in Side : wire'[x] \in Seq(Honest(snd[x], rcv[x]))
    BY <2>2, <2>3, WireOne, SideFacts
  <2> QED BY <1>a, <2>1, <2>4, QuietStep, SideFacts
<1>2. CASE ~Attached("local")
  <2>1. PICK g \in 1..MaxGrace :
             ctl' = [ctl EXCEPT !["local"].phase = "active",
                                !["local"].suspended = TRUE,
                                !["local"].pending_open = TRUE,
                                !["local"].grace = g]
    BY <1>2 DEF m_local_flow
  <2> DEFINE c == [ctl["local"] EXCEPT !.phase = "active", !.suspended = TRUE,
                                        !.pending_open = TRUE, !.grace = g]
  <2>2. wire' = wire
    BY <1>2 DEF m_local_flow
  <2>3. ctl' = [ctl EXCEPT !["local"] = c] /\ c.phase = "active"
    BY <1>a, <2>1, Typed, SideFacts DEF Ctl
  <2> HIDE DEF c
  <2>4. \A x \in Side : wire'[x] \in Seq(Honest(snd[x], rcv[x]))
    BY <2>2 DEF Data, Truthful
  <2> QED BY <1>a, <2>3, <2>4, QuietStep, SideFacts
<1> QED BY <1>1, <1>2

(* The OPEN finds no flow of that id: the one it opens is fresh already. *)
LEMMA OpenOnce ==
    ASSUME IInv, Data, ReadOpen
    PROVE  /\ ctl["remote"].phase = "none"
           /\ snd' = snd /\ rcv' = rcv /\ sock' = sock /\ retired' = retired
<1>1. wire["local"] # <<>> /\ Head(wire["local"]).kind = "open"
  BY SideFacts DEF ReadOpen, CanRead, Head1
<1>2. ~(wire["local"] \in Seq(NotOpen))
  BY <1>1, HeadTailProperties DEF NotOpen
<1>3. ctl["remote"].phase = "none"
  BY <1>2 DEF IInv, OpenFirst
<1>4. snd["remote"] = NewSnd /\ rcv["remote"] = NewRcv
  BY <1>3 DEF Data, Fresh
<1>5. snd' = snd /\ rcv' = rcv
  BY <1>4, Typed, SideFacts DEF ReadOpen
<1> QED BY <1>3, <1>5 DEF ReadOpen

LEMMA ReadOpen_Data ==
    ASSUME IInv, Data, ReadOpen
    PROVE  Data' /\ Unseen
<1> DEFINE c == [NewCtl EXCEPT !.phase = "connecting"]
<1>1. /\ ctl["remote"].phase = "none"
      /\ snd' = snd /\ rcv' = rcv /\ sock' = sock /\ retired' = retired
  BY OpenOnce
<1>2. ctl' = [ctl EXCEPT !["remote"] = c] /\ c.phase = "connecting"
  BY DEF ReadOpen, NewCtl
<1>3. wire["local"] # <<>> /\ wire' = [wire EXCEPT !["local"] = Tail(wire["local"])]
  BY SideFacts DEF ReadOpen, CanRead, Pop
<1> HIDE DEF c
<1>4. \A x \in Side : wire'[x] \in Seq(Honest(snd[x], rcv[x]))
  BY <1>3, PopHonest, WireOne, SideFacts
<1> QED BY <1>1, <1>2, <1>4, QuietStep, SideFacts

LEMMA TargetConnected_Data ==
    ASSUME IInv, Data, TargetConnected
    PROVE  Data' /\ Unseen
<1>1. PICK ok \in BOOLEAN :
         ctl' = [ctl EXCEPT !["remote"].phase = "reply", !["remote"].reject = ~ok]
  BY DEF TargetConnected
<1> DEFINE c == [ctl["remote"] EXCEPT !.phase = "reply", !.reject = ~ok]
<1>2. ctl' = [ctl EXCEPT !["remote"] = c] /\ c.phase = "reply"
  BY <1>1, Typed, SideFacts DEF Ctl
<1>3. /\ snd' = snd /\ rcv' = rcv /\ sock' = sock /\ retired' = retired
      /\ wire' = wire /\ ctl["remote"].phase = "connecting"
  BY DEF TargetConnected
<1> HIDE DEF c
<1>4. \A x \in Side : wire'[x] \in Seq(Honest(snd[x], rcv[x]))
  BY <1>3 DEF Data, Truthful
<1> QED BY <1>2, <1>3, <1>4, QuietStep, SideFacts

LEMMA m_reply_flush_Data ==
    ASSUME IInv, Data, m_reply_flush
    PROVE  Data' /\ Unseen
<1> DEFINE reply == IF ctl["remote"].resuming
                    THEN [kind |-> "rack", ok |-> TRUE,
                          snap |-> m_resume_snapshot("remote")]
                    ELSE [kind |-> "oack", ok |-> ~ctl["remote"].reject]
           q == Sent("remote", <<reply>>)
           S == Honest(snd["remote"], rcv["remote"])
<1>a. /\ snd' = snd /\ rcv' = rcv /\ sock' = sock /\ retired' = retired
      /\ ctl["remote"].phase = "reply" /\ ctl["remote"] \in Ctl
  BY Typed, SideFacts DEF m_reply_flush
<1>1. reply \in S
  <2>1. (~ctl["remote"].reject) \in BOOLEAN
    OBVIOUS
  <2>2. SndOk(snd["remote"])
    BY SideFacts DEF Data, Halves
  <2> QED BY <2>1, <2>2, Typed, HonestPlain, HonestSnapshot, SideFacts
<1> HIDE DEF reply, S
<1>2. q \in Seq(S)
  <2>1. <<reply>> \in Seq(S)
    BY <1>1
  <2> QED BY <2>1, SentHonest, SideFacts DEF S
<1>3. CASE ctl["remote"].reject
  <2>1. ctl' = [ctl EXCEPT !["remote"] = Dead(ctl["remote"])] /\ ResetWire("remote", q)
    BY <1>3 DEF m_reply_flush, reply
  <2>2. Idle(Dead(ctl["remote"])) /\ Dead(ctl["remote"]).phase = "dead"
    BY <1>a, DeadIdle
  <2>3. wire'["remote"] \in Seq(S) /\ wire'["local"] = wire["local"]
    BY ZenonT(60), <1>2, <2>1, Typed, HonestPlain, ResetWireType, SideFacts DEF S
  <2>4. \A x \in Side : wire'[x] \in Seq(Honest(snd[x], rcv[x]))
    BY <2>3 DEF Data, Truthful, S, Side
  <2> QED BY <1>a, <2>1, <2>2, <2>4, QuietStep, SideFacts
<1>4. CASE ~ctl["remote"].reject
  <2> DEFINE c == [ctl["remote"] EXCEPT !.phase = "active", !.acked = TRUE]
  <2>1. /\ ctl' = [ctl EXCEPT !["remote"] = c] /\ c.phase = "active"
        /\ wire' = [wire EXCEPT !["remote"] = q]
    BY <1>4, <1>a, Typed, SideFacts DEF m_reply_flush, reply, Ctl
  <2> HIDE DEF c, q
  <2>2. \A x \in Side : wire'[x] \in Seq(Honest(snd[x], rcv[x]))
    BY <1>2, <2>1, WireOne, SideFacts DEF S
  <2> QED BY <1>a, <2>1, <2>2, QuietStep, SideFacts
<1> QED BY <1>3, <1>4

LEMMA ReadOpenAck_Data ==
    ASSUME IInv, Data, ReadOpenAck
    PROVE  Data' /\ Unseen
<1>a. /\ snd' = snd /\ rcv' = rcv /\ UNCHANGED otherVars
      /\ sock' = sock /\ retired' = retired
      /\ wire["remote"] # <<>> /\ ctl["local"].phase = "control"
  BY SideFacts DEF ReadOpenAck, CanRead, otherVars
<1>1. CASE Head1("local").ok
  <2> DEFINE c == [ctl["local"] EXCEPT !.phase = "active", !.acked = TRUE]
  <2>1. /\ ctl' = [ctl EXCEPT !["local"] = c] /\ c.phase = "active"
        /\ wire' = [wire EXCEPT !["remote"] = Tail(wire["remote"])]
    BY ZenonT(60), <1>1, Typed, SideFacts DEF ReadOpenAck, Pop, Ctl
  <2> HIDE DEF c
  <2>2. \A x \in Side : wire'[x] \in Seq(Honest(snd[x], rcv[x]))
    BY <1>a, <2>1, PopHonest, WireOne, SideFacts
  <2> QED BY <1>a, <2>1, <2>2, QuietStep, SideFacts
<1>2. CASE ~Head1("local").ok
  <2>1. m_abort("local")
    BY <1>2 DEF ReadOpenAck
  <2> QED BY <1>a, <2>1, AbortData, SideFacts
<1> QED BY <1>1, <1>2

LEMMA ReadReset_Data ==
    ASSUME IInv, Data, NEW s \in Side, ReadReset(s)
    PROVE  Data' /\ Unseen
<1>1. /\ snd' = snd /\ rcv' = rcv /\ sock' = sock /\ retired' = retired
      /\ ctl' = [ctl EXCEPT ![s] = Dead(ctl[s])]
      /\ wire' = [wire EXCEPT ![s] = <<>>, ![Peer(s)] = <<>>]
  BY DEF ReadReset
<1>2. Idle(Dead(ctl[s])) /\ Dead(ctl[s]).phase = "dead"
  BY Typed, DeadIdle
<1>3. \A x \in Side : wire'[x] = <<>>
  BY <1>1, Typed, SideFacts DEF Side, Peer
<1>4. \A x \in Side : wire'[x] \in Seq(Honest(snd[x], rcv[x]))
  BY <1>3, EmptySeq
<1> QED BY <1>1, <1>2, <1>4, QuietStep

LEMMA NewAttempt_Data ==
    ASSUME IInv, Data, NewAttempt
    PROVE  Data' /\ Unseen
<1>1. /\ snd' = snd /\ rcv' = rcv /\ sock' = sock /\ retired' = retired
      /\ ctl' = [ctl EXCEPT !["local"] = ctl["local"]]
      /\ \A x \in Side : wire'[x] = <<>>
  BY Typed DEF NewAttempt
<1>2. \A x \in Side : wire'[x] \in Seq(Honest(snd[x], rcv[x]))
  BY <1>1, EmptySeq
<1>3. ctl["local"].phase = "dead" => Idle(ctl["local"])
  BY SideFacts DEF Data, Fresh
<1> QED BY <1>1, <1>2, <1>3, QuietStep, SideFacts

LEMMA ClockTick_Data ==
    ASSUME IInv, Data, NEW s \in Side, ClockTick(s)
    PROVE  Data' /\ Unseen
<1> DEFINE g == CountDown(ctl[s].grace)
           c == [ctl[s] EXCEPT !.grace = g]
<1>1. /\ snd' = snd /\ rcv' = rcv /\ sock' = sock /\ retired' = retired
      /\ wire' = wire /\ ctl' = [ctl EXCEPT ![s] = c]
  BY Typed DEF ClockTick
<1>2. ctl[s].grace = None => g = None
  BY DEF CountDown, None
<1> HIDE DEF g
<1>3. /\ c.phase = ctl[s].phase /\ c.pending_open = ctl[s].pending_open
      /\ c.suspended = ctl[s].suspended /\ c.resuming = ctl[s].resuming
      /\ c.waiting_resume = ctl[s].waiting_resume /\ c.grace = g
  BY Typed DEF Ctl
<1> HIDE DEF c
<1>4. c.phase = "dead" => Idle(c)
  BY <1>2, <1>3 DEF Data, Fresh, Idle
<1>5. \A x \in Side : wire'[x] \in Seq(Honest(snd[x], rcv[x]))
  BY <1>1 DEF Data, Truthful
<1> QED BY <1>1, <1>3, <1>4, <1>5, QuietStep

LEMMA ob_peer_mark_ready_Data ==
    ASSUME IInv, Data, NEW s \in Side, ob_peer_mark_ready(s)
    PROVE  Data' /\ Unseen
<1> DEFINE c == ReadyCtl(ctl[s], s)
           f == ReadyFrames(ctl[s], s)
           S == Honest(snd[s], rcv[s])
<1>1. /\ snd' = snd /\ rcv' = rcv /\ sock' = sock /\ retired' = retired
      /\ ctl' = [ctl EXCEPT ![s] = c]
      /\ wire' = [wire EXCEPT ![s] = Sent(s, f)]
  BY DEF ob_peer_mark_ready
<1>2. f \in Seq(S)
  <2>1. SndOk(snd[s])
    BY DEF Data, Halves
  <2>2. /\ [kind |-> "open"] \in S
        /\ [kind |-> "resume", snap |-> m_resume_snapshot(s)] \in S
    BY <2>1, Typed, HonestPlain, HonestSnapshot
  <2>3. /\ <<[kind |-> "open"]>> \in Seq(S) /\ <<>> \in Seq(S)
        /\ <<[kind |-> "resume", snap |-> m_resume_snapshot(s)]>> \in Seq(S)
    BY <2>2, EmptySeq
  <2> QED BY <2>3 DEF ReadyFrames
<1>3. c.phase = "dead" => Idle(c)
  <2>1. CASE c = ctl[s]
    BY <2>1 DEF Data, Fresh
  <2>2. CASE c = Dead(ctl[s])
    BY <2>2, Typed, DeadIdle
  <2>3. CASE c # ctl[s] /\ c # Dead(ctl[s])
    <3>1. c.phase = "control"
      BY <2>3, Typed DEF ReadyCtl, Ctl
    <3> QED BY <3>1
  <2> QED BY <2>1, <2>2, <2>3
<1>4. ctl[s].phase = "dead" => c.phase = "dead"
  <2>1. ctl[s].phase = "dead" => ~ctl[s].suspended
    BY DEF Data, Fresh, Idle
  <2> QED BY <2>1 DEF ReadyCtl
<1>5. c.phase = "none" => ctl[s].phase = "none"
  BY Typed, ReadyCtlType
<1> HIDE DEF c, f
<1>6. \A x \in Side : wire'[x] \in Seq(Honest(snd[x], rcv[x]))
  BY <1>1, <1>2, SentHonest, WireOne
<1> QED BY <1>1, <1>3, <1>4, <1>5, <1>6, QuietStep

LEMMA HalvesStep ==
    ASSUME IInv, Data, NEW s \in Side, NEW t, NEW r, NEW k,
           snd' = [snd EXCEPT ![s] = t], rcv' = [rcv EXCEPT ![s] = r],
           sock' = [sock EXCEPT ![s] = k],
           SndOk(t), RcvOk(r, k),
           Behind(t, rcv[Peer(s)]), Behind(snd[Peer(s)], r)
    PROVE  Halves'
<1>1. /\ snd'[s] = t /\ rcv'[s] = r /\ sock'[s] = k
      /\ snd'[Peer(s)] = snd[Peer(s)] /\ rcv'[Peer(s)] = rcv[Peer(s)]
      /\ sock'[Peer(s)] = sock[Peer(s)]
  BY Typed, SideFacts
<1>2. SndOk(snd[Peer(s)]) /\ RcvOk(rcv[Peer(s)], sock[Peer(s)])
  BY SideFacts DEF Data, Halves
<1>3. ASSUME NEW x \in Side
      PROVE  SndOk(snd'[x]) /\ RcvOk(rcv'[x], sock'[x]) /\ Behind(snd'[x], rcv'[Peer(x)])
  <2>1. CASE x = s
    BY <1>1, <1>2, <2>1
  <2>2. CASE x = Peer(s)
    BY <1>1, <1>2, <2>2, SideFacts
  <2> QED BY <2>1, <2>2 DEF Side, Peer
<1> QED BY <1>3 DEF Halves

LEMMA TruthfulStep ==
    ASSUME IInv, Data, NEW s \in Side, NEW t, NEW r,
           snd' = [snd EXCEPT ![s] = t], rcv' = [rcv EXCEPT ![s] = r],
           wire'[s] \in Seq(Honest(t, r)),
           wire'[Peer(s)] \in Seq(Honest(snd[Peer(s)], rcv[Peer(s)]))
    PROVE  Truthful'
<1>1. /\ snd'[s] = t /\ rcv'[s] = r
      /\ snd'[Peer(s)] = snd[Peer(s)] /\ rcv'[Peer(s)] = rcv[Peer(s)]
  BY Typed, SideFacts
<1>2. ASSUME NEW x \in Side PROVE wire'[x] \in Seq(Honest(snd'[x], rcv'[x]))
  <2>1. CASE x = s
    BY <1>1, <2>1
  <2>2. CASE x = Peer(s)
    BY <1>1, <2>2
  <2> QED BY <2>1, <2>2 DEF Side, Peer
<1> QED BY <1>2 DEF Truthful

LEMMA BehindGrows ==
    ASSUME NEW t \in Snd, NEW t2 \in Snd, NEW r \in Rcv, NEW x, NEW y,
           Behind(t, r), Grown(t, x, t2, y), t2.tx_fin_acked => r.rx_fin_applied
    PROVE  Behind(t2, r)
BY SndFields, RcvFields DEF Behind, Grown

(* The two sides of a direction, as a step of one of them sees them. *)
LEMMA SideData ==
    ASSUME IInv, Data, NEW s \in Side
    PROVE  /\ SndOk(snd[s]) /\ RcvOk(rcv[s], sock[s])
           /\ Behind(snd[s], rcv[Peer(s)]) /\ Behind(snd[Peer(s)], rcv[s])
           /\ wire[s] \in Seq(Honest(snd[s], rcv[s]))
           /\ snd[s] \in Snd /\ rcv[s] \in Rcv /\ sock[s] \in Seq(Nat)
           /\ SndOk(snd[Peer(s)]) /\ RcvOk(rcv[Peer(s)], sock[Peer(s)])
           /\ wire[Peer(s)] \in Seq(Honest(snd[Peer(s)], rcv[Peer(s)]))
           /\ snd[Peer(s)] \in Snd /\ rcv[Peer(s)] \in Rcv
BY Typed, SideFacts DEF Data, Halves, Truthful

(* Unseen, from what the step does to the one side it changes. *)
LEMMA UnseenOne ==
    ASSUME IInv, NEW s \in Side, NEW c, NEW t, NEW r, ctl' = [ctl EXCEPT ![s] = c],
           snd' = [snd EXCEPT ![s] = t], rcv' = [rcv EXCEPT ![s] = r],
           sock' = sock, retired' = retired,
           m_tx_next(t) = m_tx_next(snd[s]), t.socket_eof = snd[s].socket_eof,
           r.rx_fin_applied = rcv[s].rx_fin_applied,
           ctl[s].phase = "dead" => c.phase = "dead"
    PROVE  Unseen
<1>1. /\ ctl'[s] = c /\ snd'[s] = t /\ rcv'[s] = r
      /\ ctl'[Peer(s)] = ctl[Peer(s)]
      /\ snd'[Peer(s)] = snd[Peer(s)] /\ rcv'[Peer(s)] = rcv[Peer(s)]
  BY Typed, SideFacts
<1>2. ASSUME NEW x \in Side
      PROVE  /\ m_tx_next(snd'[x]) = m_tx_next(snd[x])
             /\ snd'[x].socket_eof = snd[x].socket_eof
             /\ rcv'[x].rx_fin_applied = rcv[x].rx_fin_applied
  <2>1. CASE x = s
    BY <1>1, <2>1
  <2>2. CASE x = Peer(s)
    BY <1>1, <2>2
  <2> QED BY <2>1, <2>2 DEF Side, Peer
<1> QED BY <1>1, <1>2 DEF Unseen

(* What a resume snapshot of an honest peer says is taken over. *)
LEMMA ResumeData ==
    ASSUME IInv, Data, NEW s \in Side, NEW c, NEW m \in Snapshots,
           HonestSnap(snd[Peer(s)], rcv[Peer(s)], m),
           ResumeOk(snd[s], rcv[s], m), ctl[s].phase # "dead",
           ctl' = [ctl EXCEPT ![s] = c], c.phase \notin {"none", "dead"},
           snd' = [snd EXCEPT ![s] = ResumeSnd(snd[s], m)],
           rcv' = [rcv EXCEPT ![s] = ResumeRcv(rcv[s], m)],
           sock' = sock, retired' = retired,
           wire' = [wire EXCEPT ![Peer(s)] = Tail(wire[Peer(s)])],
           wire[Peer(s)] # <<>>
    PROVE  Data' /\ Unseen
<1> DEFINE p == Peer(s)
           t == ResumeSnd(snd[s], m)
           r == ResumeRcv(rcv[s], m)
<1>0. /\ SndOk(snd[s]) /\ RcvOk(rcv[s], sock[s])
      /\ Behind(snd[s], rcv[p]) /\ Behind(snd[p], rcv[s])
      /\ SndOk(snd[p])
      /\ snd[s] \in Snd /\ rcv[s] \in Rcv /\ snd[p] \in Snd /\ rcv[p] \in Rcv
      /\ wire[s] \in Seq(Honest(snd[s], rcv[s]))
  BY SideData
<1>1. /\ t \in Snd /\ SndOk(t)
      /\ m_tx_next(t) = m_tx_next(snd[s])
      /\ t.tx_sent_high = snd[s].tx_sent_high
      /\ t.socket_eof = snd[s].socket_eof /\ t.tx_final = snd[s].tx_final
      /\ t.tx_fin_acked = (snd[s].tx_fin_acked \/ m.fin_applied)
  BY <1>0, ResumeEffect
<1>2. m.eof => snd[p].socket_eof /\ m.final = snd[p].tx_final
  BY <1>0 DEF HonestSnap, SndOk
<1>3. rcv[s].rx_fin_applied /\ m.eof => m.final = rcv[s].rx_final
  BY <1>0, <1>2 DEF Behind, RcvOk
<1>4. /\ r \in Rcv /\ RcvOk(r, sock[s])
      /\ r.rx_next = rcv[s].rx_commit /\ r.rx_commit = rcv[s].rx_commit
      /\ r.rx_fin = (rcv[s].rx_fin \/ m.eof)
      /\ r.rx_final = IF m.eof THEN m.final ELSE rcv[s].rx_final
      /\ r.rx_fin_applied = rcv[s].rx_fin_applied
  BY <1>0, <1>3, ResumeRcvEffect
<1> HIDE DEF t, r
<1>5. Grown(snd[s], rcv[s], t, r)
  BY <1>0, <1>1, <1>4, SndFields DEF Grown
<1>6. Behind(t, rcv[p])
  <2>1. m.fin_applied => rcv[p].rx_fin_applied
    BY DEF HonestSnap
  <2>2. t.tx_fin_acked => rcv[p].rx_fin_applied
    BY <1>0, <1>1, <2>1 DEF Behind
  <2> QED BY <1>0, <1>1, <1>5, <2>2, BehindGrows
<1>7. Behind(snd[p], r)
  <2>1. r.rx_next <= rcv[s].rx_next
    BY SMTT(60), <1>0, <1>4, RcvFields DEF RcvOk
  <2>2. r.rx_next <= snd[p].tx_sent_high
    BY SMTT(60), <1>0, <1>4, <2>1, RcvFields, SndFields DEF Behind
  <2>3. r.rx_fin => snd[p].socket_eof /\ r.rx_final = snd[p].tx_final
    BY <1>0, <1>2, <1>4 DEF Behind
  <2> QED BY <1>0, <1>4, <2>2, <2>3 DEF Behind
<1>8. Halves'
  <2>1. /\ snd' = [snd EXCEPT ![s] = t] /\ rcv' = [rcv EXCEPT ![s] = r]
        /\ sock' = [sock EXCEPT ![s] = sock[s]]
    BY Typed DEF t, r
  <2> QED BY <1>1, <1>4, <1>6, <1>7, <2>1, HalvesStep
<1>9. Truthful'
  <2>1. wire'[s] = wire[s] /\ wire'[p] = Tail(wire[p])
    BY Typed, SideFacts
  <2>2. wire'[s] \in Seq(Honest(t, r))
    BY <1>0, <1>1, <1>4, <1>5, <2>1, HonestGrows
  <2>3. wire'[p] \in Seq(Honest(snd[p], rcv[p]))
    BY <2>1, PopHonest, SideFacts
  <2> QED BY <2>2, <2>3, TruthfulStep DEF t, r
<1>10. Fresh'
  <2>1. s = "local" => snd'["remote"] = snd["remote"] /\ rcv'["remote"] = rcv["remote"]
    BY Typed, SideFacts
  <2> QED BY <2>1, FreshStep
<1>11. Unseen
  BY <1>1, <1>4, UnseenOne DEF t, r
<1> QED BY <1>8, <1>9, <1>10, <1>11 DEF Data

LEMMA SnapHonest ==
    ASSUME IInv, Data, NEW s \in Side, wire[Peer(s)] # <<>>,
           Head1(s).kind \in {"resume", "rack"}
    PROVE  /\ Head1(s).snap \in Snapshots
           /\ HonestSnap(snd[Peer(s)], rcv[Peer(s)], Head1(s).snap)
<1>1. Head1(s) \in Honest(snd[Peer(s)], rcv[Peer(s)])
  BY PopHonest, SideFacts DEF Head1
<1>2. Head1(s) \in Msg
  BY <1>1 DEF Honest
<1> QED BY <1>1, <1>2, MsgFields DEF Honest

LEMMA ReadResume_Data ==
    ASSUME IInv, Data, ReadResume
    PROVE  Data' /\ Unseen
<1> DEFINE m == Head1("remote").snap
<1>a. /\ sock' = sock /\ retired' = retired
      /\ wire["local"] # <<>> /\ Head1("remote").kind = "resume"
  BY SideFacts DEF ReadResume, CanRead
<1>b. m \in Snapshots /\ HonestSnap(snd["local"], rcv["local"], m)
  BY <1>a, SnapHonest, SideFacts
<1> HIDE DEF m
<1>1. CASE Retained(ctl["remote"]) /\ ResumeOk(snd["remote"], rcv["remote"], m)
  <2> DEFINE c == [ctl["remote"] EXCEPT !.suspended = FALSE, !.resuming = TRUE,
                                        !.acked = FALSE, !.phase = "reply"]
  <2>1. /\ ctl' = [ctl EXCEPT !["remote"] = c]
        /\ snd' = [snd EXCEPT !["remote"] = ResumeSnd(snd["remote"], m)]
        /\ rcv' = [rcv EXCEPT !["remote"] = ResumeRcv(rcv["remote"], m)]
        /\ wire' = [wire EXCEPT !["local"] = Tail(wire["local"])]
    BY <1>1, SideFacts DEF ReadResume, Pop, m
  <2>2. c.phase = "reply" /\ ctl["remote"].phase # "dead"
    BY <1>1, Typed, SideFacts DEF Ctl, Retained
  <2> HIDE DEF c
  <2> QED BY <1>1, <1>a, <1>b, <2>1, <2>2, ResumeData, SideFacts
<1>2. CASE ~(Retained(ctl["remote"]) /\ ResumeOk(snd["remote"], rcv["remote"], m))
  <2> DEFINE nak == [kind |-> "rack", ok |-> FALSE,
                     snap |-> m_resume_snapshot("remote")]
             reset == [kind |-> "reset"]
             out == Sent("remote", <<nak, reset>>)
             S == Honest(snd["remote"], rcv["remote"])
  <2>1. /\ wire' = [wire EXCEPT !["local"] = Tail(wire["local"]), !["remote"] = out]
        /\ snd' = snd /\ rcv' = rcv /\ ctl' = ctl
    BY <1>2 DEF ReadResume, m
  <2>2. nak \in S /\ reset \in S
    <3>1. SndOk(snd["remote"])
      BY SideData, SideFacts
    <3> QED BY <3>1, Typed, HonestPlain, HonestSnapshot, SideFacts
  <2> HIDE DEF nak, reset, S
  <2>3. out \in Seq(S)
    <3>1. <<nak, reset>> \in Seq(S)
      BY <2>2
    <3> QED BY <3>1, SentHonest, SideFacts DEF S
  <2> HIDE DEF out
  <2>4. wire'["local"] = Tail(wire["local"]) /\ wire'["remote"] = out
    BY <2>1, Typed, SideFacts
  <2>5. \A x \in Side : wire'[x] \in Seq(Honest(snd[x], rcv[x]))
    BY <1>a, <2>3, <2>4, PopHonest, SideFacts DEF Side, S
  <2>6. /\ ctl' = [ctl EXCEPT !["local"] = ctl["local"]]
        /\ ctl["local"].phase = "dead" => Idle(ctl["local"])
    BY <2>1, Typed, SideFacts DEF Data, Fresh
  <2> QED BY <1>a, <2>1, <2>5, <2>6, QuietStep, SideFacts
<1> QED BY <1>1, <1>2

LEMMA ReadResumeAck_Data ==
    ASSUME IInv, Data, ReadResumeAck
    PROVE  Data' /\ Unseen
<1> DEFINE m == Head1("local").snap
<1>a. /\ sock' = sock /\ retired' = retired /\ UNCHANGED otherVars
      /\ wire["remote"] # <<>> /\ Head1("local").kind = "rack"
      /\ ctl["local"].waiting_resume
  BY SideFacts DEF ReadResumeAck, CanRead, otherVars
<1>b. m \in Snapshots /\ HonestSnap(snd["remote"], rcv["remote"], m)
  BY <1>a, SnapHonest, SideFacts
<1>c. ctl["local"].phase # "dead"
  BY <1>a, SideFacts DEF Data, Fresh, Idle
<1> HIDE DEF m
<1>1. CASE Head1("local").ok /\ ResumeOk(snd["local"], rcv["local"], m)
  <2> DEFINE c == [ctl["local"] EXCEPT !.waiting_resume = FALSE,
                     !.suspended = FALSE, !.grace = None, !.acked = TRUE,
                     !.phase = "active"]
  <2>1. /\ ctl' = [ctl EXCEPT !["local"] = c]
        /\ snd' = [snd EXCEPT !["local"] = ResumeSnd(snd["local"], m)]
        /\ rcv' = [rcv EXCEPT !["local"] = ResumeRcv(rcv["local"], m)]
        /\ wire' = [wire EXCEPT !["remote"] = Tail(wire["remote"])]
    BY <1>1, SideFacts DEF ReadResumeAck, Pop, m
  <2>2. c.phase = "active"
    BY <1>1, Typed, SideFacts DEF Ctl
  <2> HIDE DEF c
  <2> QED BY <1>1, <1>a, <1>b, <1>c, <2>1, <2>2, ResumeData, SideFacts
<1>2. CASE ~(Head1("local").ok /\ ResumeOk(snd["local"], rcv["local"], m))
  <2>1. m_abort("local") /\ UNCHANGED <<snd, rcv>>
    BY <1>2 DEF ReadResumeAck, m
  <2> QED BY <1>a, <2>1, SideFacts, AbortData
<1> QED BY <1>1, <1>2

LEMMA TransportFail_Data ==
    ASSUME IInv, Data, NEW s \in Side, TransportFail(s)
    PROVE  Data' /\ Unseen
<1> DEFINE p == Peer(s)
<1>a. /\ sock' = sock /\ retired' = retired
      /\ wire' = [wire EXCEPT ![p] = <<>>,
                              ![s] = IF att[p] = "down" THEN <<>> ELSE wire[s]]
  BY DEF TransportFail
<1>b. PICK d : Suspend(s, d)
  BY DEF TransportFail
<1>c. wire'[p] = <<>> /\ wire'[s] \in {<<>>, wire[s]}
  BY <1>a, Typed, SideFacts
<1>d. /\ SndOk(snd[s]) /\ RcvOk(rcv[s], sock[s])
      /\ Behind(snd[s], rcv[p]) /\ Behind(snd[p], rcv[s])
      /\ snd[s] \in Snd /\ rcv[s] \in Rcv /\ snd[p] \in Snd /\ rcv[p] \in Rcv
      /\ wire[s] \in Seq(Honest(snd[s], rcv[s]))
  BY SideData
<1>1. CASE Kept(s, d > 0)
  <2> DEFINE c == SuspendCtl(ctl[s], d)
             t == SuspendSnd(snd[s])
             r == SuspendRcv(rcv[s])
  <2>1. /\ ctl' = [ctl EXCEPT ![s] = c] /\ snd' = [snd EXCEPT ![s] = t]
        /\ rcv' = [rcv EXCEPT ![s] = r]
    BY <1>1, <1>b DEF Suspend
  <2>2. c.phase = "active" /\ ctl[s].phase # "dead"
    BY <1>1, Typed DEF SuspendCtl, Ctl, Kept
  <2>3. /\ t \in Snd /\ SndOk(t)
        /\ m_tx_next(t) = m_tx_next(snd[s])
        /\ t.tx_sent_high = snd[s].tx_sent_high
        /\ t.socket_eof = snd[s].socket_eof /\ t.tx_final = snd[s].tx_final
        /\ t.tx_fin_acked = snd[s].tx_fin_acked
    BY <1>d, SuspendEffect
  <2>4. /\ r \in Rcv /\ RcvOk(r, sock[s])
        /\ r.rx_next = rcv[s].rx_commit /\ r.rx_commit = rcv[s].rx_commit
        /\ r.rx_fin = rcv[s].rx_fin /\ r.rx_final = rcv[s].rx_final
        /\ r.rx_fin_applied = rcv[s].rx_fin_applied
    BY <1>d, SuspendRcvEffect
  <2> HIDE DEF c, t, r
  <2>5. Grown(snd[s], rcv[s], t, r)
    BY <1>d, <2>3, <2>4, SndFields DEF Grown
  <2>6. Behind(t, rcv[p])
    BY <1>d, <2>3, <2>5, BehindGrows DEF Behind
  <2>7. Behind(snd[p], r)
    <3>1. r.rx_next <= rcv[s].rx_next
      BY <1>d, <2>4, RcvFields DEF RcvOk
    <3>2. r.rx_next <= snd[p].tx_sent_high
      BY <1>d, <2>4, <3>1, RcvFields, SndFields DEF Behind
    <3> QED BY <1>d, <2>4, <3>2 DEF Behind
  <2>8. Halves'
    <3>1. sock' = [sock EXCEPT ![s] = sock[s]]
      BY <1>a, Typed
    <3> QED BY <2>1, <2>3, <2>4, <2>6, <2>7, <3>1, HalvesStep
  <2>9. Truthful'
    <3>1. wire'[s] \in Seq(Honest(t, r))
      <4>1. wire[s] \in Seq(Honest(t, r))
        BY <1>d, <2>3, <2>4, <2>5, HonestGrows
      <4> QED BY <1>c, <4>1, EmptySeq
    <3>2. wire'[p] \in Seq(Honest(snd[p], rcv[p]))
      BY <1>c, EmptySeq
    <3> QED BY <2>1, <3>1, <3>2, TruthfulStep
  <2>10. Fresh'
    <3>1. s = "local" => snd'["remote"] = snd["remote"] /\ rcv'["remote"] = rcv["remote"]
      BY <2>1, Typed, SideFacts
    <3> QED BY <2>1, <2>2, <3>1, FreshStep
  <2>11. Unseen
    BY <1>a, <2>1, <2>2, <2>3, <2>4, UnseenOne
  <2> QED BY <2>8, <2>9, <2>10, <2>11 DEF Data
<1>2. CASE ~Kept(s, d > 0)
  <2> DEFINE c == IF ctl[s].phase = "none" THEN ctl[s] ELSE Dead(ctl[s])
  <2>1. ctl' = [ctl EXCEPT ![s] = c] /\ snd' = snd /\ rcv' = rcv
    BY <1>2, <1>b DEF Suspend
  <2>2. /\ c.phase = "none" => ctl[s].phase = "none"
        /\ ctl[s].phase = "dead" => c.phase = "dead"
        /\ c.phase = "dead" => Idle(c)
    BY Typed, DeadIdle
  <2> HIDE DEF c
  <2>3. \A x \in Side : wire'[x] \in Seq(Honest(snd[x], rcv[x]))
    <3>1. wire'[s] \in Seq(Honest(snd[s], rcv[s]))
      BY <1>c, <1>d, EmptySeq
    <3>2. wire'[p] \in Seq(Honest(snd[p], rcv[p]))
      BY <1>c, EmptySeq
    <3> QED BY <3>1, <3>2 DEF Side, Peer
  <2> QED BY <1>a, <2>1, <2>2, <2>3, QuietStep
<1> QED BY <1>1, <1>2

(* The outcomes of m_v2_read: a frame, or a part of one, is taken, or the  *)
(* peer fails.                                                             *)
ReadTaken(s, n) ==
    LET m == Head1(s)
    IN  /\ FrameOk(snd[s], rcv[s], m)
        /\ ~(m.kind = "data" /\ ReplayDiffers(rcv[s], m, n))
        /\ m.kind = "data" => n <= Takeable(rcv[s], m) /\ n <= Len(m.bytes)
        /\ snd' = [snd EXCEPT ![s] = IF m.kind = "ack"
                                     THEN m_v2_ack(snd[s], m.offset, m.fin)
                                     ELSE snd[s]]
        /\ rcv' = [rcv EXCEPT ![s] = Received(rcv[s], m, n)]
        /\ ctl' = [ctl EXCEPT ![s] =
                     [ctl[s] EXCEPT !.resuming = FALSE,
                                    !.grace = IF ctl[s].resuming THEN None
                                              ELSE ctl[s].grace]]
        /\ wire' = [wire EXCEPT ![Peer(s)] = Rest(m, n) \o Tail(wire[Peer(s)])]
        /\ att' = att /\ failed' = failed
ReadFailed(s, n) ==
    LET m == Head1(s)
    IN  /\ ~(/\ FrameOk(snd[s], rcv[s], m)
             /\ ~(m.kind = "data" /\ ReplayDiffers(rcv[s], m, n)))
        /\ m.kind = "data" /\ FrameOk(snd[s], rcv[s], m) =>
             n <= Takeable(rcv[s], m) /\ n <= Len(m.bytes)
        /\ failed' = [failed EXCEPT ![s] = TRUE]
        /\ att' = [att EXCEPT ![s] = "down"]
        /\ ctl' = [ctl EXCEPT ![s] = Dead(ctl[s])]
        /\ wire' = [wire EXCEPT ![Peer(s)] = <<>>]
        /\ snd' = snd /\ rcv' = rcv

LEMMA ReadCases ==
    ASSUME IInv, NEW s \in Side, m_v2_read(s)
    PROVE  /\ sock' = sock /\ retired' = retired
           /\ wire[Peer(s)] # <<>> /\ Head1(s).kind \in {"data", "ack", "fin"}
           /\ ctl[s].phase = "active" /\ ~ctl[s].suspended /\ att[s] = "ready"
           /\ \E n \in Nat : ReadTaken(s, n) \/ ReadFailed(s, n)
<1> DEFINE m == Head1(s)
<1>1. /\ sock' = sock /\ retired' = retired
      /\ wire[Peer(s)] # <<>> /\ m.kind \in {"data", "ack", "fin"}
      /\ ctl[s].phase = "active" /\ ~ctl[s].suspended /\ att[s] = "ready"
  BY DEF m_v2_read, CanRead, Attached
<1>2. PICK n \in 0..(IF m.kind = "data" /\ FrameOk(snd[s], rcv[s], m)
                     THEN Takeable(rcv[s], m) ELSE 0) :
             IF FrameOk(snd[s], rcv[s], m)
                  /\ ~(m.kind = "data" /\ ReplayDiffers(rcv[s], m, n))
             THEN /\ snd' = [snd EXCEPT ![s] =
                               IF m.kind = "ack"
                               THEN m_v2_ack(snd[s], m.offset, m.fin) ELSE snd[s]]
                  /\ rcv' = [rcv EXCEPT ![s] = Received(rcv[s], m, n)]
                  /\ ctl' = [ctl EXCEPT ![s].resuming = FALSE,
                                        ![s].grace =
                                           IF ctl[s].resuming THEN None ELSE ctl[s].grace]
                  /\ wire' = [wire EXCEPT ![Peer(s)] = Rest(m, n) \o Tail(wire[Peer(s)])]
                  /\ UNCHANGED <<att, failed>>
             ELSE /\ failed' = [failed EXCEPT ![s] = TRUE]
                  /\ att' = [att EXCEPT ![s] = "down"]
                  /\ ctl' = [ctl EXCEPT ![s] = Dead(ctl[s])]
                  /\ wire' = [wire EXCEPT ![Peer(s)] = <<>>]
                  /\ UNCHANGED <<snd, rcv>>
  BY Typed DEF m_v2_read
<1>3. m \in Msg
  BY <1>1, HeadFacts
<1>4. m.kind = "data" /\ FrameOk(snd[s], rcv[s], m) =>
        /\ Takeable(rcv[s], m) \in Int /\ Takeable(rcv[s], m) <= Len(m.bytes)
        /\ Len(m.bytes) \in Nat
  <2> SUFFICES ASSUME m.kind = "data"
               PROVE  /\ Takeable(rcv[s], m) \in Int
                      /\ Takeable(rcv[s], m) <= Len(m.bytes)
                      /\ Len(m.bytes) \in Nat
      OBVIOUS
  <2>1. m.offset \in Nat /\ m.bytes \in Seq(Nat) /\ Len(m.bytes) \in Nat
    BY <1>3, MsgFields
  <2>2. /\ StreamBuffer - Len(rcv[s].rx) \in Int
        /\ (IF m.offset < rcv[s].rx_commit THEN rcv[s].rx_commit ELSE rcv[s].rx_next)
             - m.offset \in Int
    BY <2>1, Typed, RcvFields, ConstantsAssumption
  <2>3. \A a \in Int : Min(Len(m.bytes), a) \in Int /\ Min(Len(m.bytes), a) <= Len(m.bytes)
    BY <2>1 DEF Min
  <2> QED BY <2>1, <2>2, <2>3 DEF Takeable
<1> HIDE DEF m
<1>5. /\ n \in Nat
      /\ m.kind = "data" /\ FrameOk(snd[s], rcv[s], m) =>
           n <= Takeable(rcv[s], m) /\ n <= Len(m.bytes)
  BY <1>2, <1>4
<1>6. ctl[s] \in Ctl
  BY Typed
<1>7. CASE FrameOk(snd[s], rcv[s], m)
           /\ ~(m.kind = "data" /\ ReplayDiffers(rcv[s], m, n))
  <2>1. ctl' = [ctl EXCEPT ![s] =
                  [ctl[s] EXCEPT !.resuming = FALSE,
                                 !.grace = IF ctl[s].resuming THEN None
                                           ELSE ctl[s].grace]]
    BY <1>2, <1>6, <1>7, Typed
  <2>2. ReadTaken(s, n)
    BY <1>2, <1>5, <1>7, <2>1 DEF ReadTaken, m
  <2> QED BY <1>1, <1>5, <2>2 DEF m
<1>8. CASE ~(FrameOk(snd[s], rcv[s], m)
             /\ ~(m.kind = "data" /\ ReplayDiffers(rcv[s], m, n)))
  <2>1. ReadFailed(s, n)
    BY <1>2, <1>5, <1>8 DEF ReadFailed, m
  <2> QED BY <1>1, <1>5, <2>1 DEF m
<1> QED BY <1>7, <1>8

LEMMA m_v2_read_Data ==
    ASSUME IInv, Data, NEW s \in Side, m_v2_read(s)
    PROVE  Data' /\ Unseen
<1> DEFINE m == Head1(s)
           p == Peer(s)
<1>a. /\ sock' = sock /\ retired' = retired
      /\ wire[p] # <<>> /\ m.kind \in {"data", "ack", "fin"}
      /\ ctl[s].phase = "active"
  BY ReadCases
<1>b. PICK n \in Nat : ReadTaken(s, n) \/ ReadFailed(s, n)
  BY ReadCases
<1>c. m \in Honest(snd[p], rcv[p]) /\ Tail(wire[p]) \in Seq(Honest(snd[p], rcv[p]))
  BY <1>a, PopHonest, SideFacts DEF Head1
<1>d. /\ SndOk(snd[s]) /\ RcvOk(rcv[s], sock[s])
      /\ Behind(snd[s], rcv[p]) /\ Behind(snd[p], rcv[s])
      /\ snd[s] \in Snd /\ rcv[s] \in Rcv /\ snd[p] \in Snd /\ rcv[p] \in Rcv
      /\ wire[s] \in Seq(Honest(snd[s], rcv[s]))
  BY SideData
<1>e. m \in Msg
  BY <1>c DEF Honest
<1> HIDE DEF m
<1>1. CASE ReadTaken(s, n)
  <2> DEFINE g == IF ctl[s].resuming THEN None ELSE ctl[s].grace
             c == [ctl[s] EXCEPT !.resuming = FALSE, !.grace = g]
             t == IF m.kind = "ack" THEN m_v2_ack(snd[s], m.offset, m.fin) ELSE snd[s]
             r == Received(rcv[s], m, n)
             q == Rest(m, n) \o Tail(wire[p])
  <2>1. /\ snd' = [snd EXCEPT ![s] = t] /\ rcv' = [rcv EXCEPT ![s] = r]
        /\ ctl' = [ctl EXCEPT ![s] = c] /\ wire' = [wire EXCEPT ![p] = q]
        /\ FrameOk(snd[s], rcv[s], m)
        /\ m.kind = "data" => n <= Len(m.bytes)
    BY <1>1 DEF ReadTaken, m
  <2>2. c.phase = "active"
    BY <1>a, Typed DEF Ctl
  <2> HIDE DEF c
  <2>3. /\ t \in Snd /\ SndOk(t)
        /\ m_tx_next(t) = m_tx_next(snd[s])
        /\ t.tx_sent_high = snd[s].tx_sent_high
        /\ t.socket_eof = snd[s].socket_eof /\ t.tx_final = snd[s].tx_final
        /\ t.tx_fin_acked => snd[s].tx_fin_acked \/ (m.kind = "ack" /\ m.fin)
    <3>1. CASE m.kind = "ack"
      <4>1. m.offset \in Nat /\ m.fin \in BOOLEAN /\ t = m_v2_ack(snd[s], m.offset, m.fin)
        BY <1>e, <3>1, MsgFields
      <4>2. AckOk(snd[s], m.offset, m.fin) /\ Numbered(snd[s].tx, snd[s].tx_base)
        BY <1>d, <2>1, <3>1 DEF FrameOk, SndOk
      <4>3. SndOk(t)
        BY <1>d, <4>1, <4>2, AckKeeps
      <4> QED BY <1>d, <3>1, <4>1, <4>2, <4>3, AckEffect
    <3>2. CASE m.kind # "ack"
      BY <1>d, <3>2
    <3> QED BY <3>1, <3>2
  <2>4. /\ r \in Rcv /\ RcvOk(r, sock[s]) /\ Behind(snd[p], r)
        /\ r.rx_commit = rcv[s].rx_commit
        /\ r.rx_fin_applied = rcv[s].rx_fin_applied
    <3>1. m.kind \in {"data", "ack", "fin"}
      BY <1>a DEF m
    <3> QED BY <1>c, <1>d, <2>1, <3>1, ReceivedEffect DEF m
  <2> HIDE DEF t, r
  <2>5. Grown(snd[s], rcv[s], t, r)
    BY <1>d, <2>3, <2>4, SndFields DEF Grown
  <2>6. Behind(t, rcv[p])
    <3>1. m.kind = "ack" /\ m.fin => rcv[p].rx_fin_applied
      BY <1>c DEF Honest, m
    <3>2. t.tx_fin_acked => rcv[p].rx_fin_applied
      BY <1>d, <2>3, <3>1 DEF Behind
    <3> QED BY <1>d, <2>3, <2>5, <3>2, BehindGrows
  <2>7. Halves'
    <3>1. sock' = [sock EXCEPT ![s] = sock[s]]
      BY <1>a, Typed
    <3> QED BY <2>1, <2>3, <2>4, <2>6, <3>1, HalvesStep
  <2>8. Truthful'
    <3>1. wire'[s] = wire[s] /\ wire'[p] = q
      BY <2>1, Typed, SideFacts
    <3>2. wire'[s] \in Seq(Honest(t, r))
      BY <1>d, <2>3, <2>4, <2>5, <3>1, HonestGrows
    <3>3. q \in Seq(Honest(snd[p], rcv[p]))
      BY <1>c, <1>d, RestHonest, ConcatProperties DEF m
    <3> QED BY <2>1, <3>1, <3>2, <3>3, TruthfulStep
  <2>9. Fresh'
    <3>1. s = "local" => snd'["remote"] = snd["remote"] /\ rcv'["remote"] = rcv["remote"]
      BY <2>1, Typed, SideFacts
    <3> QED BY <2>1, <2>2, <3>1, FreshStep
  <2>10. Unseen
    BY <1>a, <2>1, <2>2, <2>3, <2>4, UnseenOne
  <2> QED BY <2>7, <2>8, <2>9, <2>10 DEF Data
<1>2. CASE ReadFailed(s, n)
  <2>1. /\ ctl' = [ctl EXCEPT ![s] = Dead(ctl[s])]
        /\ wire' = [wire EXCEPT ![p] = <<>>]
        /\ snd' = snd /\ rcv' = rcv
    BY <1>2 DEF ReadFailed
  <2>2. Idle(Dead(ctl[s])) /\ Dead(ctl[s]).phase = "dead"
    BY Typed, DeadIdle
  <2>3. \A x \in Side : wire'[x] \in Seq(Honest(snd[x], rcv[x]))
    BY <2>1, EmptySeq, WireOne, SideFacts
  <2> QED BY <1>a, <2>1, <2>2, <2>3, QuietStep
<1> QED BY <1>b, <1>1, <1>2

(* One tick (m_v2_tick): w bytes given to the socket, n bytes or the end   *)
(* taken from it, d bytes, an ACK and a FIN handed to QUIC.                *)
Tick(s, w, n, eof, d, ack, fin) ==
    LET r == FinApplied(Written(rcv[s], w))
        t == Fed(snd[s], n, eof)
        t2 == FinSent(DataSent(t, d), fin)
        r2 == Ticked(rcv[s], w, ack)
        out == Sent(s, Frames(t, r, ack, d, fin))
    IN  /\ w <= Len(rcv[s].rx)
        /\ SocketInput(s, n, eof)
        /\ d <= Len(t.tx) - t.tx_pos
        /\ MayWrite(t, r, ack, d, fin)
        /\ sock' = [sock EXCEPT ![s] = sock[s] \o SubSeq(rcv[s].rx, 1, w)]
        /\ rcv' = [rcv EXCEPT ![s] = r2]
        /\ snd' = [snd EXCEPT ![s] = t2]
        /\ \/ /\ Finished(t2, r2)
              /\ ctl' = [ctl EXCEPT ![s] = Dead(ctl[s])]
              /\ retired' = [retired EXCEPT ![s] = TRUE]
              /\ ResetWire(s, out)
           \/ /\ wire' = [wire EXCEPT ![s] = out]
              /\ ctl' = ctl /\ retired' = retired

LEMMA TickCases ==
    ASSUME IInv, NEW s \in Side, m_v2_tick(s)
    PROVE  /\ ctl[s].phase = "active" /\ ~ctl[s].suspended /\ att[s] = "ready"
           /\ att' = att /\ failed' = failed
           /\ \E w \in Nat, n \in Nat, d \in Nat,
                 eof \in BOOLEAN, ack \in BOOLEAN, fin \in BOOLEAN :
                   Tick(s, w, n, eof, d, ack, fin)
<1>1. /\ ctl[s].phase = "active" /\ ~ctl[s].suspended /\ att[s] = "ready"
      /\ att' = att /\ failed' = failed
  BY DEF m_v2_tick, Active, Attached, transportVars
<1>2. PICK w \in 0..Min(Len(rcv[s].rx), IoBudget),
           n \in 0..IoBudget, d \in 0..IoBudget,
           eof \in BOOLEAN, ack \in BOOLEAN, fin \in BOOLEAN :
        LET r == FinApplied(Written(rcv[s], w))
            t == IF eof THEN SocketEof(snd[s]) ELSE SocketRead(snd[s], n)
            r2 == AckSent(r, ack)
            t2 == FinSent(DataSent(t, d), fin)
            out == Sent(s, Frames(t, r, ack, d, fin))
        IN  /\ SocketInput(s, n, eof)
            /\ d <= Len(t.tx) - t.tx_pos
            /\ MayWrite(t, r, ack, d, fin)
            /\ Len(out) <= WireCap
            /\ sock' = [sock EXCEPT ![s] = sock[s] \o SubSeq(rcv[s].rx, 1, w)]
            /\ rcv' = [rcv EXCEPT ![s] = r2]
            /\ snd' = [snd EXCEPT ![s] = t2]
            /\ IF Finished(t2, r2)
               THEN /\ ctl' = [ctl EXCEPT ![s] = Dead(ctl[s])]
                    /\ retired' = [retired EXCEPT ![s] = TRUE]
                    /\ ResetWire(s, out)
               ELSE /\ wire' = [wire EXCEPT ![s] = out]
                    /\ UNCHANGED <<ctl, retired>>
  BY Typed DEF m_v2_tick
<1>3. w \in Nat /\ w <= Len(rcv[s].rx) /\ n \in Nat /\ d \in Nat
  BY Typed, RcvFields, ConstantsAssumption DEF Min
<1>4. Tick(s, w, n, eof, d, ack, fin)
  BY <1>2, <1>3 DEF Tick, Fed, Ticked
<1> QED BY <1>1, <1>3, <1>4

(* What a tick leaves of the two halves of its side. *)
TickEffect(s, w, n, eof, d, t2, r2, k) ==
    /\ t2 \in Snd /\ SndOk(t2)
    /\ t2.tx_base = snd[s].tx_base
    /\ t2.tx_pos = snd[s].tx_pos + d
    /\ m_tx_next(t2) = m_tx_next(snd[s]) + n
    /\ t2.socket_eof = (snd[s].socket_eof \/ eof)
    /\ t2.tx_fin_acked = snd[s].tx_fin_acked
    /\ snd[s].tx_sent_high <= t2.tx_sent_high
    /\ r2 \in Rcv /\ RcvOk(r2, k) /\ Len(k) = Len(sock[s]) + w
    /\ r2.rx_next = rcv[s].rx_next /\ r2.rx_commit = rcv[s].rx_commit + w
    /\ w = 0 => r2.rx = rcv[s].rx
    /\ r2.rx_fin = rcv[s].rx_fin /\ r2.rx_final = rcv[s].rx_final
    /\ r2.rx_fin_applied = (rcv[s].rx_fin_applied
          \/ (rcv[s].rx_fin /\ r2.rx_commit = rcv[s].rx_final))
    /\ Grown(snd[s], rcv[s], t2, r2)
    /\ snd[s].socket_eof => n = 0 /\ ~eof
    /\ eof => n = 0

LEMMA TickFacts ==
    ASSUME IInv, Data, NEW s \in Side, NEW w \in Nat, NEW n \in Nat, NEW d \in Nat,
           NEW eof \in BOOLEAN, NEW ack \in BOOLEAN, NEW fin \in BOOLEAN,
           Tick(s, w, n, eof, d, ack, fin)
    PROVE  LET t2 == FinSent(DataSent(Fed(snd[s], n, eof), d), fin)
               r2 == Ticked(rcv[s], w, ack)
           IN  /\ TickEffect(s, w, n, eof, d, t2, r2,
                             sock[s] \o SubSeq(rcv[s].rx, 1, w))
               /\ Frames(Fed(snd[s], n, eof), FinApplied(Written(rcv[s], w)),
                         ack, d, fin) \in Seq(Honest(t2, r2))
<1> DEFINE p == Peer(s)
           t == Fed(snd[s], n, eof)
           t2 == FinSent(DataSent(t, d), fin)
           r == FinApplied(Written(rcv[s], w))
           r2 == Ticked(rcv[s], w, ack)
           k == sock[s] \o SubSeq(rcv[s].rx, 1, w)
<1>a. /\ SndOk(snd[s]) /\ RcvOk(rcv[s], sock[s]) /\ SndOk(snd[p])
      /\ Behind(snd[s], rcv[p]) /\ Behind(snd[p], rcv[s])
      /\ snd[s] \in Snd /\ rcv[s] \in Rcv /\ snd[p] \in Snd /\ rcv[p] \in Rcv
      /\ sock[s] \in Seq(Nat)
  BY SideData
<1>b. /\ w <= Len(rcv[s].rx) /\ d <= Len(t.tx) - t.tx_pos
      /\ snd[s].socket_eof => n = 0 /\ ~eof
      /\ eof => n = 0
      /\ fin => t.socket_eof
  BY DEF Tick, SocketInput, MayWrite
<1>1. /\ t \in Snd /\ SndOk(t)
      /\ t.tx_base = snd[s].tx_base /\ t.tx_pos = snd[s].tx_pos
      /\ m_tx_next(t) = m_tx_next(snd[s]) + n
      /\ t.tx_sent_high = snd[s].tx_sent_high
      /\ t.socket_eof = (snd[s].socket_eof \/ eof)
      /\ snd[s].socket_eof => t.tx_final = snd[s].tx_final
      /\ t.tx_fin_acked = snd[s].tx_fin_acked
  BY <1>a, <1>b, FedEffect
<1> HIDE DEF t
<1>2. /\ t2 \in Snd /\ SndOk(t2)
      /\ t2.tx_base = t.tx_base /\ t2.tx_pos = t.tx_pos + d
      /\ m_tx_next(t2) = m_tx_next(t)
      /\ t.tx_sent_high <= t2.tx_sent_high
      /\ t.tx_base + t.tx_pos + d <= t2.tx_sent_high
      /\ t2.socket_eof = t.socket_eof /\ t2.tx_final = t.tx_final
      /\ t2.tx_fin_acked = t.tx_fin_acked
  BY <1>1, <1>b, DataSentEffect
<1>3. rcv[s].rx_fin_applied => w = 0
  <2> SUFFICES ASSUME rcv[s].rx_fin_applied PROVE w = 0
      OBVIOUS
  <2>1. /\ rcv[s].rx_fin /\ rcv[s].rx_commit = rcv[s].rx_final
        /\ rcv[s].rx_next = rcv[s].rx_commit + Len(rcv[s].rx)
    BY <1>a DEF RcvOk
  <2>2. /\ rcv[s].rx_next <= snd[p].tx_sent_high
        /\ snd[p].socket_eof /\ rcv[s].rx_final = snd[p].tx_final
    BY <1>a, <2>1 DEF Behind
  <2>3. snd[p].tx_sent_high <= snd[p].tx_final
    BY <1>a, <2>2 DEF SndOk
  <2>4. /\ rcv[s].rx_commit \in Nat /\ Len(rcv[s].rx) \in Nat
        /\ snd[p].tx_sent_high \in Nat /\ snd[p].tx_final \in Nat
    BY <1>a, RcvFields, SndFields
  <2> QED BY SMTT(60), <1>b, <2>1, <2>2, <2>3, <2>4
<1>4. /\ r2 \in Rcv /\ RcvOk(r2, k) /\ Len(k) = Len(sock[s]) + w
      /\ r2.rx_next = rcv[s].rx_next /\ r2.rx_commit = rcv[s].rx_commit + w
      /\ r2.rx_fin = rcv[s].rx_fin /\ r2.rx_final = rcv[s].rx_final
      /\ w = 0 => r2.rx = rcv[s].rx
      /\ r2.rx_fin_applied = (rcv[s].rx_fin_applied
            \/ (rcv[s].rx_fin /\ r2.rx_commit = rcv[s].rx_final))
  <2>1. rcv[s] \in Rcv /\ sock[s] \in Seq(Nat) /\ RcvOk(rcv[s], sock[s])
    BY <1>a
  <2>2. w <= Len(rcv[s].rx)
    BY <1>b
  <2>3. r2 \in Rcv /\ RcvOk(r2, k) /\ Len(k) = Len(sock[s]) + w
    BY <1>3, <2>1, <2>2, TickedEffect
  <2>4. /\ r2.rx_next = rcv[s].rx_next /\ r2.rx_commit = rcv[s].rx_commit + w
        /\ r2.rx_fin = rcv[s].rx_fin /\ r2.rx_final = rcv[s].rx_final
        /\ w = 0 => r2.rx = rcv[s].rx
    BY <1>3, <2>1, <2>2, TickedEffect
  <2>5. r2.rx_fin_applied = (rcv[s].rx_fin_applied
            \/ (rcv[s].rx_fin /\ r2.rx_commit = rcv[s].rx_final))
    BY <1>3, <2>1, <2>2, TickedEffect
  <2> QED BY <2>3, <2>4, <2>5
<1>5. r \in Rcv
  BY <1>a, <1>b, WrittenType, FinAppliedType
<1>6. r2.rx_commit = r.rx_commit /\ r2.rx_fin_applied = r.rx_fin_applied
  <2>1. r2 = AckSent(r, ack)
    BY DEF Ticked
  <2> QED BY <1>5, <2>1 DEF AckSent, Rcv
<1> HIDE DEF t2, r2, r, k
<1>7. Grown(snd[s], rcv[s], t2, r2)
  <2>1. /\ snd[s].tx_sent_high <= t2.tx_sent_high
        /\ m_tx_next(snd[s]) <= m_tx_next(t2)
    BY <1>1, <1>2, <1>a, SndFields
  <2>2. snd[s].socket_eof => /\ t2.socket_eof /\ t2.tx_final = snd[s].tx_final
                             /\ m_tx_next(t2) = m_tx_next(snd[s])
    BY <1>1, <1>2, <1>a, <1>b, SndFields
  <2>3. rcv[s].rx_fin_applied => r2.rx_fin_applied /\ r2.rx_commit = rcv[s].rx_commit
    BY <1>3, <1>4, <1>a, RcvFields
  <2> QED BY <2>1, <2>2, <2>3 DEF Grown
<1>8. Frames(t, r, ack, d, fin) \in Seq(Honest(t2, r2))
  BY <1>1, <1>2, <1>4, <1>5, <1>6, <1>b, FramesHonest
<1>9. /\ t2.tx_base = snd[s].tx_base /\ t2.tx_pos = snd[s].tx_pos + d
      /\ m_tx_next(t2) = m_tx_next(snd[s]) + n
      /\ t2.socket_eof = (snd[s].socket_eof \/ eof)
      /\ t2.tx_fin_acked = snd[s].tx_fin_acked
      /\ snd[s].tx_sent_high <= t2.tx_sent_high
  BY <1>1, <1>2
<1>10. TickEffect(s, w, n, eof, d, t2, r2, k)
  BY <1>2, <1>4, <1>7, <1>9, <1>b DEF TickEffect
<1> QED BY <1>8, <1>10 DEF t, t2, r, r2, k

LEMMA m_v2_tick_Data ==
    ASSUME IInv, Data, NEW s \in Side, m_v2_tick(s)
    PROVE  Data'
<1>1. PICK w \in Nat, n \in Nat, d \in Nat,
           eof \in BOOLEAN, ack \in BOOLEAN, fin \in BOOLEAN :
             Tick(s, w, n, eof, d, ack, fin)
  BY TickCases
<1> DEFINE p == Peer(s)
           t2 == FinSent(DataSent(Fed(snd[s], n, eof), d), fin)
           r2 == Ticked(rcv[s], w, ack)
           k == sock[s] \o SubSeq(rcv[s].rx, 1, w)
           f == Frames(Fed(snd[s], n, eof), FinApplied(Written(rcv[s], w)),
                       ack, d, fin)
           out == Sent(s, f)
<1>a. /\ SndOk(snd[s]) /\ RcvOk(rcv[s], sock[s])
      /\ Behind(snd[s], rcv[p]) /\ Behind(snd[p], rcv[s])
      /\ snd[s] \in Snd /\ rcv[s] \in Rcv /\ snd[p] \in Snd /\ rcv[p] \in Rcv
      /\ wire[s] \in Seq(Honest(snd[s], rcv[s]))
      /\ wire[p] \in Seq(Honest(snd[p], rcv[p]))
  BY SideData
<1>b. ctl[s].phase = "active" /\ ctl[s] \in Ctl
  BY Typed, TickCases
<1>2. TickEffect(s, w, n, eof, d, t2, r2, k) /\ f \in Seq(Honest(t2, r2))
  <2>1. TickEffect(s, w, n, eof, d, t2, r2, k)
    BY <1>1, TickFacts
  <2>2. f \in Seq(Honest(t2, r2))
    BY <1>1, TickFacts
  <2> QED BY <2>1, <2>2
<1>3. /\ sock' = [sock EXCEPT ![s] = k] /\ rcv' = [rcv EXCEPT ![s] = r2]
      /\ snd' = [snd EXCEPT ![s] = t2]
      /\ \/ /\ ctl' = [ctl EXCEPT ![s] = Dead(ctl[s])] /\ ResetWire(s, out)
         \/ /\ ctl' = ctl /\ wire' = [wire EXCEPT ![s] = out]
  BY <1>1 DEF Tick
<1> HIDE DEF t2, r2, k, f
<1>c. /\ t2 \in Snd /\ SndOk(t2) /\ t2.tx_fin_acked = snd[s].tx_fin_acked
      /\ r2 \in Rcv /\ RcvOk(r2, k) /\ Grown(snd[s], rcv[s], t2, r2)
      /\ r2.rx_next = rcv[s].rx_next
      /\ r2.rx_fin = rcv[s].rx_fin /\ r2.rx_final = rcv[s].rx_final
      /\ rcv[s].rx_fin_applied => r2.rx_fin_applied
  BY <1>2 DEF TickEffect
<1>4. Behind(t2, rcv[p])
  BY <1>c, <1>a, BehindGrows DEF Behind
<1>5. Behind(snd[p], r2)
  BY <1>c, <1>a DEF Behind
<1>6. Halves'
  BY <1>c, <1>3, <1>4, <1>5, HalvesStep
<1>7. out \in Seq(Honest(t2, r2))
  <2>1. wire[s] \in Seq(Honest(t2, r2))
    BY <1>c, <1>a, HonestGrows
  <2> QED BY <1>2, <2>1, SentType
<1> HIDE DEF out
<1>8. wire'[s] \in Seq(Honest(t2, r2)) /\ wire'[p] = wire[p]
  <2>1. CASE ResetWire(s, out)
    BY <1>7, <2>1, Typed, HonestPlain, ResetWireType
  <2>2. CASE wire' = [wire EXCEPT ![s] = out]
    BY <1>7, <2>2, Typed, SideFacts
  <2> QED BY <1>3, <2>1, <2>2
<1>9. Truthful'
  BY <1>3, <1>8, <1>a, TruthfulStep
<1>10. Fresh'
  <2>1. s = "local" => snd'["remote"] = snd["remote"] /\ rcv'["remote"] = rcv["remote"]
    BY <1>3, Typed, SideFacts
  <2>2. CASE ctl' = ctl
    <3>1. ctl' = [ctl EXCEPT ![s] = ctl[s]]
      BY <2>2, Typed
    <3> QED BY <1>b, <2>1, <3>1, FreshStep
  <2>3. CASE ctl' = [ctl EXCEPT ![s] = Dead(ctl[s])]
    <3>1. Idle(Dead(ctl[s])) /\ Dead(ctl[s]).phase = "dead"
      BY <1>b, DeadIdle
    <3> QED BY <2>1, <2>3, <3>1, FreshStep
  <2> QED BY <1>3, <2>2, <2>3
<1> QED BY <1>6, <1>9, <1>10 DEF Data

-----------------------------------------------------------------------------
(* The data invariant *)

LEMMA DataInit == Init => Data
<1> SUFFICES ASSUME Init PROVE Data
    OBVIOUS
<1>1. /\ \A s \in Side : /\ snd[s] = NewSnd /\ rcv[s] = NewRcv /\ wire[s] = <<>>
                         /\ sock[s] = <<>> /\ ctl[s] = NewCtl
      /\ \A s \in Side : Peer(s) \in Side
  BY SideFacts DEF Init
<1>2. SndOk(NewSnd)
  BY NumberedEmpty DEF SndOk, NewSnd, m_tx_next
<1>3. RcvOk(NewRcv, <<>>)
  BY NumberedEmpty DEF RcvOk, NewRcv
<1>4. Behind(NewSnd, NewRcv)
  BY DEF Behind, NewSnd, NewRcv
<1>5. Halves
  BY <1>1, <1>2, <1>3, <1>4 DEF Halves
<1>6. Truthful
  BY <1>1, EmptySeq DEF Truthful
<1>7. Fresh
  BY <1>1, SideFacts DEF Fresh, NewCtl
<1> QED BY <1>5, <1>6, <1>7 DEF Data

(* Every step but a tick is one the applications do not see. *)
LEMMA UnseenStep ==
    ASSUME IInv, Data, Next, \A s \in Side : ~m_v2_tick(s)
    PROVE  Data' /\ Unseen
<1>1. ASSUME NEW s \in Side, SocketError(s) PROVE Data' /\ Unseen
  BY <1>1, AbortData DEF SocketError, otherVars, transportVars
<1>2. CASE ob_remote_map_close
  BY <1>2, AbortData, SideFacts DEF ob_remote_map_close, otherVars, transportVars
<1>3. ASSUME NEW s \in Side, SetupTimeout(s) PROVE Data' /\ Unseen
  BY <1>3, AbortData DEF SetupTimeout, otherVars, transportVars
<1>4. ASSUME NEW s \in Side, ob_mapping_recovery_tick(s) PROVE Data' /\ Unseen
  BY <1>4, AbortData DEF ob_mapping_recovery_tick, otherVars, transportVars
<1> QED
  BY <1>1, <1>2, <1>3, <1>4, m_local_flow_Data, ReadOpen_Data,
     TargetConnected_Data, m_reply_flush_Data, ReadOpenAck_Data,
     ReadResume_Data, ReadResumeAck_Data, NewAttempt_Data, m_v2_read_Data,
     ReadReset_Data, TransportFail_Data, ob_peer_mark_ready_Data,
     ClockTick_Data DEF Next

LEMMA DataStep == IInv /\ Data /\ [Next]_vars => Data'
<1> SUFFICES ASSUME IInv, Data, [Next]_vars PROVE Data'
    OBVIOUS
<1>1. CASE UNCHANGED vars
  BY <1>1 DEF vars, Data, Halves, Truthful, Fresh
<1>2. CASE Next
  BY <1>2, UnseenStep, m_v2_tick_Data
<1> QED BY <1>1, <1>2

LEMMA DataInvariance == Spec => [](IInv /\ Data)
BY IInvInit, IInvStep, DataInit, DataStep, PTL DEF Spec


-----------------------------------------------------------------------------
(* Each direction of the flow is a TcpStream *)

(* The stream from side a to the other side: Up and Down are its two       *)
(* instances.                                                              *)
Stream(a) == INSTANCE TcpStream WITH
    taken    <- m_tx_next(snd[a]),
    ended    <- snd[a].socket_eof,
    got      <- sock[Peer(a)],
    closed   <- rcv[Peer(a)].rx_fin_applied,
    writing  <- ctl[a].phase # "dead",
    reading  <- ctl[Peer(a)].phase # "dead",
    finished <- \E s \in Side : retired[s]

LEMMA UnseenStream ==
    ASSUME Unseen, NEW a \in Side
    PROVE  [Stream(a)!Next]_(Stream(a)!stream)
<1> DEFINE p == Peer(a)
           W == ctl[a].phase # "dead"
           R == ctl[p].phase # "dead"
<1>1. /\ UNCHANGED <<m_tx_next(snd[a]), snd[a].socket_eof, sock[p],
                     rcv[p].rx_fin_applied>>
      /\ UNCHANGED (\E s \in Side : retired[s])
  BY SideFacts DEF Unseen
<1>2. \/ UNCHANGED <<W, R>>
      \/ W /\ W' = FALSE /\ UNCHANGED R
      \/ R /\ R' = FALSE /\ UNCHANGED W
  BY SideFacts DEF Unseen, Side
<1>3. CASE UNCHANGED <<W, R>>
  BY <1>1, <1>3 DEF Stream!stream
<1>4. CASE \/ W /\ W' = FALSE /\ UNCHANGED R
           \/ R /\ R' = FALSE /\ UNCHANGED W
  BY <1>1, <1>4 DEF Stream!Next, Stream!Leave
<1> QED BY <1>2, <1>3, <1>4

(* A tick, as the side that ticks sees its two sockets: it takes n bytes   *)
(* or the end, gives the next w bytes, and if it retires the flow both     *)
(* directions are complete.                                                *)
Ticking(s, w, n, eof) ==
    /\ ctl[s].phase # "dead" /\ ctl'[Peer(s)] = ctl[Peer(s)]
    /\ w \in 0..(m_tx_next(snd[Peer(s)]) - Len(sock[s]))
    /\ sock'[s] = sock[s] \o [i \in 1..w |-> Len(sock[s]) + i]
    /\ \/ rcv'[s].rx_fin_applied = rcv[s].rx_fin_applied
       \/ /\ rcv'[s].rx_fin_applied = TRUE /\ snd[Peer(s)].socket_eof
          /\ Len(sock'[s]) = m_tx_next(snd[Peer(s)])
    /\ m_tx_next(snd'[s]) = m_tx_next(snd[s]) + n
    /\ snd'[s].socket_eof = (snd[s].socket_eof \/ eof)
    /\ snd[s].socket_eof => n = 0 /\ ~eof
    /\ eof => n = 0
    /\ snd'[Peer(s)] = snd[Peer(s)] /\ rcv'[Peer(s)] = rcv[Peer(s)]
    /\ sock'[Peer(s)] = sock[Peer(s)]
    /\ \/ /\ ctl'[s].phase = "dead" /\ retired'[s] /\ n = 0 /\ ~eof
          /\ rcv'[s].rx_fin_applied /\ rcv'[Peer(s)].rx_fin_applied
       \/ ctl'[s] = ctl[s] /\ retired' = retired

LEMMA TickTicking ==
    ASSUME IInv, Data, NEW s \in Side, m_v2_tick(s)
    PROVE  \E w \in Nat, n \in Nat, eof \in BOOLEAN : Ticking(s, w, n, eof)
<1>1. PICK w \in Nat, n \in Nat, d \in Nat,
           eof \in BOOLEAN, ack \in BOOLEAN, fin \in BOOLEAN :
             Tick(s, w, n, eof, d, ack, fin)
  BY TickCases
<1> DEFINE p == Peer(s)
           t2 == FinSent(DataSent(Fed(snd[s], n, eof), d), fin)
           r2 == Ticked(rcv[s], w, ack)
           u == SubSeq(rcv[s].rx, 1, w)
           k == sock[s] \o u
<1>a. /\ SndOk(snd[p]) /\ RcvOk(rcv[s], sock[s])
      /\ Behind(snd[s], rcv[p]) /\ Behind(snd[p], rcv[s])
      /\ RcvOk(rcv[p], sock[p])
      /\ snd[s] \in Snd /\ rcv[s] \in Rcv /\ snd[p] \in Snd /\ rcv[p] \in Rcv
  BY SideData, SideFacts DEF Data, Halves
<1>b. /\ ctl[s].phase = "active" /\ ctl[s] \in Ctl /\ sock[s] \in Seq(Nat)
      /\ Dead(ctl[s]).phase = "dead"
      /\ p \in Side /\ p # s
  BY Typed, TickCases, DeadIdle, SideFacts
<1>c. w <= Len(rcv[s].rx)
  BY <1>1 DEF Tick
<1>2. TickEffect(s, w, n, eof, d, t2, r2, k)
  BY <1>1, TickFacts
<1>3. /\ sock' = [sock EXCEPT ![s] = k] /\ rcv' = [rcv EXCEPT ![s] = r2]
      /\ snd' = [snd EXCEPT ![s] = t2]
      /\ \/ /\ ctl' = [ctl EXCEPT ![s] = Dead(ctl[s])]
            /\ retired' = [retired EXCEPT ![s] = TRUE]
            /\ Finished(t2, r2)
         \/ ctl' = ctl /\ retired' = retired
  BY <1>1 DEF Tick
<1>4. u = [i \in 1..w |-> Len(sock[s]) + i]
  <2>1. /\ Numbered(rcv[s].rx, rcv[s].rx_commit) /\ Len(sock[s]) = rcv[s].rx_commit
    BY <1>a DEF RcvOk
  <2>2. /\ SubSeq(rcv[s].rx, 0 + 1, w) \in Seq(Nat)
        /\ Len(SubSeq(rcv[s].rx, 0 + 1, w)) = w - 0
        /\ Numbered(SubSeq(rcv[s].rx, 0 + 1, w), rcv[s].rx_commit + 0)
    <3>1. rcv[s].rx \in Seq(Nat) /\ rcv[s].rx_commit \in Nat /\ 0 \in Nat /\ 0 <= w
      BY <1>a, RcvFields
    <3> QED BY <1>c, <2>1, <3>1, NumberedPart
  <2>3. u \in Seq(Nat) /\ Len(u) = w /\ \A i \in 1..w : u[i] = Len(sock[s]) + i
    BY <1>a, <2>1, <2>2, RcvFields DEF Numbered
  <2> HIDE DEF u
  <2>4. u = [i \in 1..w |-> u[i]]
    BY <2>3, LenProperties
  <2> QED BY <2>3, <2>4
<1> HIDE DEF t2, r2, k, u
<1>5. /\ Len(sock[s]) = rcv[s].rx_commit /\ Len(k) = rcv[s].rx_commit + w
      /\ w \in 0..(m_tx_next(snd[p]) - Len(sock[s]))
  <2>1. /\ rcv[s].rx_next = rcv[s].rx_commit + Len(rcv[s].rx)
        /\ Len(sock[s]) = rcv[s].rx_commit
    BY <1>a DEF RcvOk
  <2>2. rcv[s].rx_next <= snd[p].tx_sent_high /\ snd[p].tx_sent_high <= m_tx_next(snd[p])
    BY <1>a DEF Behind, SndOk
  <2>3. Len(k) = Len(sock[s]) + w
    BY <1>2 DEF TickEffect
  <2>4. /\ rcv[s].rx_next \in Nat /\ rcv[s].rx_commit \in Nat /\ Len(rcv[s].rx) \in Nat
        /\ snd[p].tx_sent_high \in Nat /\ m_tx_next(snd[p]) \in Nat
    BY <1>a, RcvFields, SndFields
  <2>5. w <= m_tx_next(snd[p]) - rcv[s].rx_commit
    BY SMTT(60), <1>c, <2>1, <2>2, <2>4
  <2>6. w \in 0..(m_tx_next(snd[p]) - rcv[s].rx_commit)
    BY <2>4, <2>5
  <2> QED BY <2>1, <2>3, <2>6
<1>6. \/ r2.rx_fin_applied = rcv[s].rx_fin_applied
      \/ /\ r2.rx_fin_applied = TRUE /\ snd[p].socket_eof
         /\ Len(k) = m_tx_next(snd[p])
  <2>1. /\ r2.rx_fin_applied = (rcv[s].rx_fin_applied
              \/ (rcv[s].rx_fin /\ r2.rx_commit = rcv[s].rx_final))
        /\ r2.rx_commit = rcv[s].rx_commit + w
    BY <1>2 DEF TickEffect
  <2>2. rcv[s].rx_fin => /\ snd[p].socket_eof
                         /\ rcv[s].rx_final = m_tx_next(snd[p])
    BY <1>a DEF Behind, SndOk
  <2>3. rcv[s].rx_fin_applied \in BOOLEAN
    BY <1>a, RcvFields
  <2> QED BY <1>5, <2>1, <2>2, <2>3
<1>7. /\ m_tx_next(t2) = m_tx_next(snd[s]) + n
      /\ t2.socket_eof = (snd[s].socket_eof \/ eof)
      /\ snd[s].socket_eof => n = 0 /\ ~eof
      /\ eof => n = 0
      /\ t2.tx_fin_acked = snd[s].tx_fin_acked
  BY <1>2 DEF TickEffect
<1>8. Finished(t2, r2) => /\ r2.rx_fin_applied /\ rcv[p].rx_fin_applied
                          /\ n = 0 /\ ~eof
  <2> SUFFICES ASSUME Finished(t2, r2)
               PROVE  /\ r2.rx_fin_applied /\ rcv[p].rx_fin_applied
                      /\ n = 0 /\ ~eof
      OBVIOUS
  <2>1. r2.rx_fin_applied /\ snd[s].tx_fin_acked
    BY <1>7 DEF Finished
  <2>2. rcv[p].rx_fin_applied /\ rcv[p].rx_fin /\ snd[s].socket_eof
    BY <1>a, <2>1 DEF Behind, RcvOk
  <2> QED BY <1>7, <2>1, <2>2
<1>9. /\ sock'[s] = k /\ rcv'[s] = r2 /\ snd'[s] = t2
      /\ sock'[p] = sock[p] /\ rcv'[p] = rcv[p] /\ snd'[p] = snd[p]
      /\ ctl'[p] = ctl[p]
  BY <1>3, <1>b, Typed
<1>10. \/ /\ ctl'[s].phase = "dead" /\ retired'[s] /\ n = 0 /\ ~eof
          /\ r2.rx_fin_applied /\ rcv[p].rx_fin_applied
       \/ ctl'[s] = ctl[s] /\ retired' = retired
  <2>1. CASE ctl' = ctl /\ retired' = retired
    BY <2>1
  <2>2. CASE /\ ctl' = [ctl EXCEPT ![s] = Dead(ctl[s])]
             /\ retired' = [retired EXCEPT ![s] = TRUE]
             /\ Finished(t2, r2)
    <3>1. ctl'[s].phase = "dead" /\ retired'[s]
      BY <1>b, <2>2, Typed DEF IInv, TypeOK
    <3> QED BY <1>8, <2>2, <3>1
  <2> QED BY <1>3, <2>1, <2>2
<1>11. ctl[s].phase # "dead"
  BY <1>b
<1>12. Ticking(s, w, n, eof)
  BY <1>4, <1>5, <1>6, <1>7, <1>9, <1>10, <1>11 DEF Ticking, k
<1> QED BY <1>12


LEMMA TickStream ==
    ASSUME IInv, Data, NEW s \in Side, m_v2_tick(s), NEW a \in Side
    PROVE  [Stream(a)!Next]_(Stream(a)!stream)
<1>1. PICK w \in Nat, n \in Nat, eof \in BOOLEAN : Ticking(s, w, n, eof)
  BY TickTicking
<1> DEFINE p == Peer(s)
           W == ctl[s].phase # "dead"
           R == ctl[p].phase # "dead"
           F == \E x \in Side : retired[x]
<1>a. /\ p \in Side /\ p # s /\ Peer(p) = s
      /\ snd[s] \in Snd /\ snd[s].socket_eof \in BOOLEAN /\ m_tx_next(snd[s]) \in Nat
  BY Typed, SndFields, SideFacts
<1>2. W /\ UNCHANGED R
  BY <1>1 DEF Ticking
<1>3. \/ UNCHANGED <<W, R, F>>
      \/ /\ W' = FALSE /\ UNCHANGED R /\ F' = TRUE
         /\ rcv'[s].rx_fin_applied /\ rcv'[p].rx_fin_applied /\ n = 0 /\ ~eof
  BY <1>1 DEF Ticking
<1>4. CASE a = s
  <2>1. UNCHANGED <<sock[p], rcv[p].rx_fin_applied>>
    BY <1>1 DEF Ticking
  <2>2. /\ m_tx_next(snd'[s]) = m_tx_next(snd[s]) + n
        /\ snd'[s].socket_eof = (snd[s].socket_eof \/ eof)
        /\ snd[s].socket_eof => n = 0 /\ ~eof
        /\ eof => n = 0
    BY <1>1 DEF Ticking
  <2>3. CASE n = 0 /\ ~eof
    <3>1. UNCHANGED <<m_tx_next(snd[s]), snd[s].socket_eof>>
      BY <1>a, <2>2, <2>3
    <3>2. CASE UNCHANGED <<W, R, F>>
      BY <1>4, <2>1, <3>1, <3>2 DEF Stream!stream
    <3>3. CASE W' = FALSE /\ UNCHANGED R /\ F' = TRUE /\ rcv'[p].rx_fin_applied
      BY <1>2, <1>4, <2>1, <3>1, <3>3 DEF Stream!Next, Stream!Leave
    <3> QED BY <1>3, <3>2, <3>3
  <2>4. CASE ~(n = 0 /\ ~eof)
    <3>1. UNCHANGED <<W, R, F>>
      BY <1>3, <2>4
    <3>2. /\ ~snd[s].socket_eof
          /\ \/ /\ m_tx_next(snd'[s]) > m_tx_next(snd[s])
                /\ snd'[s].socket_eof = snd[s].socket_eof
             \/ /\ snd'[s].socket_eof = TRUE
                /\ m_tx_next(snd'[s]) = m_tx_next(snd[s])
      BY <1>a, <2>2, <2>4
    <3>3. Stream(a)!Take
      BY <1>2, <1>4, <2>1, <3>2 DEF Stream!Take
    <3>4. Stream(a)!Stay
      BY <1>4, <3>1 DEF Stream!Stay
    <3> QED BY <3>3, <3>4 DEF Stream!Next
  <2> QED BY <2>3, <2>4
<1>5. CASE a = p
  <2>1. Stream(a)!Give
    <3>1. /\ UNCHANGED <<m_tx_next(snd[p]), snd[p].socket_eof>>
          /\ ctl[s].phase # "dead"
      BY <1>1 DEF Ticking
    <3>2. /\ w \in 0..(m_tx_next(snd[p]) - Len(sock[s]))
          /\ sock'[s] = sock[s] \o [i \in 1..w |-> Len(sock[s]) + i]
          /\ \/ UNCHANGED rcv[s].rx_fin_applied
             \/ /\ rcv'[s].rx_fin_applied = TRUE /\ snd[p].socket_eof
                /\ Len(sock'[s]) = m_tx_next(snd[p])
      BY <1>1 DEF Ticking
    <3> QED BY <1>5, <1>a, <3>1, <3>2 DEF Stream!Give
  <2>2. CASE UNCHANGED <<W, R, F>>
    <3>1. Stream(a)!Stay
      BY <1>5, <1>a, <2>2 DEF Stream!Stay
    <3> QED BY <2>1, <3>1 DEF Stream!Next
  <2>3. CASE W' = FALSE /\ UNCHANGED R /\ F' = TRUE /\ rcv'[s].rx_fin_applied
    <3>1. Stream(a)!Leave
      BY <1>2, <1>5, <1>a, <2>3 DEF Stream!Leave
    <3> QED BY <2>1, <3>1 DEF Stream!Next
  <2> QED BY <1>3, <2>2, <2>3
<1> QED BY <1>4, <1>5 DEF Side, Peer

LEMMA StreamInit ==
    ASSUME Init, NEW a \in Side
    PROVE  Stream(a)!Start
<1>1. \A s \in Side : /\ snd[s] = NewSnd /\ rcv[s] = NewRcv /\ sock[s] = <<>>
                      /\ ctl[s] = NewCtl /\ ~retired[s]
  BY DEF Init
<1>2. Peer(a) \in Side
  BY SideFacts
<1> QED BY <1>1, <1>2 DEF Stream!Start, NewSnd, NewRcv, NewCtl, m_tx_next

LEMMA StreamStep ==
    ASSUME IInv, Data, [Next]_vars, NEW a \in Side
    PROVE  [Stream(a)!Next]_(Stream(a)!stream)
<1>1. CASE UNCHANGED vars
  BY <1>1 DEF vars, Stream!stream
<1>2. CASE Next
  BY <1>2, UnseenStep, UnseenStream, TickStream
<1> QED BY <1>1, <1>2

(* Seen from the two real sockets, each direction is one byte stream:      *)
(* whatever is lost, replayed, resumed or half closed, no byte is lost     *)
(* before a later one, repeated or invented, the half close comes after    *)
(* the last byte, and a flow that retires has delivered everything         *)
(* (m_v2_read, m_v2_tick, m_resume_apply).                                 *)
THEOREM EndToEndStream == Spec => IsStream
<1>1. ASSUME Init PROVE Up!Start /\ Down!Start
  <2>1. Stream("local")!Start /\ Stream("remote")!Start
    BY <1>1, StreamInit, SideFacts
  <2> QED BY <2>1, SideFacts DEF Stream!Start, Up!Start, Down!Start
<1>2. ASSUME IInv, Data, [Next]_vars
      PROVE  [Up!Next]_(Up!stream)
  <2>1. [Stream("local")!Next]_(Stream("local")!stream)
    BY <1>2, StreamStep, SideFacts
  <2> QED BY <2>1, SideFacts
          DEF Stream!Next, Stream!Leave, Stream!Give, Stream!Take, Stream!Stay,
              Stream!stream, Up!Next, Up!Leave, Up!Give, Up!Take, Up!Stay, Up!stream
<1>3. ASSUME IInv, Data, [Next]_vars
      PROVE  [Down!Next]_(Down!stream)
  <2>1. [Stream("remote")!Next]_(Stream("remote")!stream)
    BY <1>3, StreamStep, SideFacts
  <2> QED BY <2>1, SideFacts
          DEF Stream!Next, Stream!Leave, Stream!Give, Stream!Take, Stream!Stay,
              Stream!stream, Down!Next, Down!Leave, Down!Give, Down!Take,
              Down!Stay, Down!stream
<1> QED BY <1>1, <1>2, <1>3, DataInvariance, PTL DEF Spec, IsStream, Up!Spec, Down!Spec

-----------------------------------------------------------------------------
(* Two correct peers accept each other's frames and snapshots *)

(* A side that uses its stream, or is about to. *)
Alive(c) == c.phase \notin {"none", "dead"} /\ ~c.suspended

(* Where a DATA frame ends, and how far a sender has sent. *)
End(m) == m.offset + Len(m.bytes)
Cursor(t) == t.tx_base + t.tx_pos

(* A receiver that has the stream up to x has it up to y when it has read  *)
(* the first k frames of q.                                                *)
Covered(q, k, x, y) ==
    y <= x \/ \E j \in 1..k : q[j].kind = "data" /\ y <= End(q[j])

(* Nothing is ahead of the sender's cursor c, and no frame leaves a gap. *)
Within(q, c, x) ==
    x <= c /\ \A i \in 1..Len(q) : q[i].kind = "data" => End(q[i]) <= c
Chained(q, x) ==
    \A i \in 1..Len(q) : q[i].kind \in {"data", "fin"} =>
        Covered(q, i - 1, x, q[i].offset)

(* One direction: frames q from the side with c and t to the side with k   *)
(* and r, whose transport attempt is a.                                    *)
Link(q, t, r, c, k, a) ==
    /\ Alive(c) => Within(q, Cursor(t), r.rx_next)
    /\ k.phase # "dead" => Chained(q, r.rx_next)
    /\ Alive(c) /\ k.phase # "dead" /\ a # "down" =>
         Covered(q, Len(q), r.rx_next, Cursor(t))
Links == \A s \in Side : Link(wire[s], snd[s], rcv[Peer(s)], ctl[s],
                              ctl[Peer(s)], att[Peer(s)])

(* How the recovery flags, the phase and the transport of a side fit. *)
Stage(s, c, t, r, a, q) ==
    /\ c.suspended \/ c.phase = "none" => r.rx = <<>>
    /\ c.suspended => c.phase = IF c.waiting_resume THEN "control" ELSE "active"
    /\ c.waiting_resume => c.suspended /\ s = "local" /\ a = "ready"
    /\ Alive(c) => a = "ready"
    /\ c.phase = "connecting" => ~c.resuming
    /\ c.pending_open => c.suspended /\ s = "local"
    /\ c.phase = "none" \/ c.pending_open => t = NewSnd
    /\ a = "setup" => q = <<>>
Quiet ==
    /\ ctl["remote"].phase = "reply" /\ ctl["remote"].resuming =>
         rcv["remote"].rx = <<>>
    /\ att["local"] = "setup" => wire["remote"] = <<>> /\ ~Alive(ctl["remote"])
Stages ==
    /\ \A s \in Side : Stage(s, ctl[s], snd[s], rcv[s], att[s], wire[s])
    /\ Quiet

(* A RESUME in flight is the first frame, shows the client as it is now,   *)
(* and finds both sides silent.                                            *)
First(q) == q # <<>> /\ Head(q).kind = "resume"
LateFree(q) == \A i \in 2..Len(q) : q[i].kind # "resume"
Asking ==
    /\ Head(wire["local"]).snap = m_resume_snapshot("local")
    /\ rcv["local"].rx = <<>> /\ ctl["local"].phase # "none"
    /\ ~Alive(ctl["local"]) /\ ~Alive(ctl["remote"])
    /\ wire["remote"] = <<>>
Asked ==
    /\ LateFree(wire["local"])
    /\ First(wire["local"]) => Asking
    /\ ctl["local"].waiting_resume /\ wire["local"] # <<>> =>
         Len(wire["local"]) = 1 /\ First(wire["local"])

(* A RESUME_ACK in flight to a client that waits for it fits its flow. *)
Fits(m) ==
    /\ m.delivered = rcv["remote"].rx_commit /\ rcv["remote"].rx = <<>>
    /\ m.base <= rcv["local"].rx_commit /\ rcv["local"].rx_commit <= m.next
    /\ rcv["local"].rx_fin => m.eof
Fitting == {m \in Msg : m.kind = "rack" /\ m.ok => Fits(m.snap)}
Answered == ctl["local"].waiting_resume => wire["remote"] \in Seq(Fitting)

Session == Stages /\ Asked /\ Answered /\ Links /\ NoProtocolError

-----------------------------------------------------------------------------
(* Frames and coverage *)

LEMMA Covers ==
    ASSUME NEW q \in Seq(Msg), NEW k \in Int, k <= Len(q),
           NEW x \in Nat, NEW y \in Nat, Covered(q, k, x, y),
           NEW q2, NEW k2 \in Int, NEW x2 \in Nat, x <= x2,
           \A j \in 1..k : q[j].kind = "data" =>
              \/ End(q[j]) <= x2
              \/ \E i \in 1..k2 : q2[i].kind = "data" /\ End(q2[i]) = End(q[j])
    PROVE  Covered(q2, k2, x2, y)
<1>1. CASE y <= x
  BY <1>1 DEF Covered
<1>2. CASE \E j \in 1..k : q[j].kind = "data" /\ y <= End(q[j])
  <2>1. PICK j \in 1..k : q[j].kind = "data" /\ y <= End(q[j])
    BY <1>2
  <2>2. q[j] \in Msg
    <3>1. j \in 1..Len(q)
      OBVIOUS
    <3> QED BY <3>1, ElementOfSeq
  <2>3. End(q[j]) \in Nat
    BY <2>1, <2>2, MsgFields DEF End
  <2>4. CASE End(q[j]) <= x2
    BY <2>1, <2>3, <2>4 DEF Covered
  <2>5. CASE \E i \in 1..k2 : q2[i].kind = "data" /\ End(q2[i]) = End(q[j])
    BY <2>1, <2>5 DEF Covered
  <2> QED BY <2>1, <2>4, <2>5
<1> QED BY <1>1, <1>2 DEF Covered

LEMMA EndType ==
    ASSUME NEW m \in Msg, m.kind = "data"
    PROVE  End(m) \in Nat /\ m.offset \in Nat /\ m.offset <= End(m)
BY MsgFields DEF End

LEMMA OffsetType ==
    ASSUME NEW m \in Msg, m.kind \in {"data", "fin"}
    PROVE  m.offset \in Nat
BY MsgFields

(* One more frame: DATA starts at the cursor c and moves it to c2. *)
LEMMA AppendLinks ==
    ASSUME NEW q \in Seq(Msg), NEW m \in Msg,
           NEW x \in Nat, NEW c \in Nat, NEW c2 \in Nat,
           m.kind = "data" => m.offset = c /\ End(m) = c2,
           m.kind = "fin" => m.offset = c,
           m.kind # "data" => c2 = c
    PROVE  LET q2 == q \o <<m>>
           IN  /\ q2 \in Seq(Msg) /\ c <= c2
               /\ Within(q, c, x) => Within(q2, c2, x)
               /\ m.kind \notin {"data", "fin"} /\ Chained(q, x) => Chained(q2, x)
               /\ Chained(q, x) /\ Covered(q, Len(q), x, c) =>
                    Chained(q2, x) /\ Covered(q2, Len(q2), x, c2)
<1> DEFINE q2 == q \o <<m>>
           l == Len(q)
<1>1. <<m>> \in Seq(Msg) /\ Len(<<m>>) = 1 /\ <<m>>[1] = m
  OBVIOUS
<1>2. /\ q2 \in Seq(Msg) /\ Len(q2) = l + 1
      /\ \A i \in 1..(l + 1) : q2[i] = IF i <= l THEN q[i] ELSE <<m>>[i - l]
  BY <1>1, ConcatProperties
<1>3. l \in Nat
  OBVIOUS
<1>4. q2[l + 1] = m /\ \A i \in 1..l : q2[i] = q[i]
  BY <1>1, <1>2, <1>3
<1>5. c <= c2
  BY EndType
<1> HIDE DEF q2
<1>6. ASSUME Within(q, c, x) PROVE Within(q2, c2, x)
  <2>1. x <= c2
    BY <1>5, <1>6 DEF Within
  <2>2. ASSUME NEW i \in 1..Len(q2), q2[i].kind = "data" PROVE End(q2[i]) <= c2
    <3>1. CASE i = l + 1
      BY <1>4, <2>2, <3>1
    <3>2. CASE i # l + 1
      <4>1. i \in 1..l /\ q2[i] = q[i]
        BY <1>2, <1>3, <1>4, <3>2
      <4>2. q[i] \in Msg
        BY <4>1, ElementOfSeq
      <4> QED BY <1>5, <1>6, <2>2, <4>1, <4>2, EndType DEF Within
    <3> QED BY <3>1, <3>2
  <2> QED BY <2>1, <2>2 DEF Within
<1>7. ASSUME NEW k \in Int, k <= l, NEW y \in Nat, Covered(q, k, x, y)
      PROVE  Covered(q2, k, x, y)
  <2>1. \A j \in 1..k : q2[j] = q[j]
    BY <1>3, <1>4, <1>7
  <2> QED BY <1>7, <2>1 DEF Covered
<1>8. ASSUME Chained(q, x),
             m.kind \in {"data", "fin"} => Covered(q, l, x, c)
      PROVE  Chained(q2, x)
  <2>1. ASSUME NEW i \in 1..Len(q2), q2[i].kind \in {"data", "fin"}
        PROVE  Covered(q2, i - 1, x, q2[i].offset)
    <3>1. CASE i = l + 1
      BY <1>3, <1>4, <1>7, <1>8, <2>1, <3>1
    <3>2. CASE i # l + 1
      <4>1. i \in 1..l /\ q2[i] = q[i] /\ i - 1 \in Int /\ i - 1 <= l
        BY <1>2, <1>3, <1>4, <3>2
      <4>2. q[i] \in Msg
        BY <4>1, ElementOfSeq
      <4>3. q[i].offset \in Nat
        BY <2>1, <4>1, <4>2, OffsetType
      <4>4. Covered(q, i - 1, x, q[i].offset)
        BY <1>8, <2>1, <4>1 DEF Chained
      <4> QED BY <1>7, <4>1, <4>3, <4>4
    <3> QED BY <3>1, <3>2
  <2> QED BY <2>1 DEF Chained
<1>9. ASSUME Covered(q, l, x, c) PROVE Covered(q2, l + 1, x, c2)
  <2>1. CASE m.kind = "data"
    <3>1. q2[l + 1].kind = "data" /\ c2 <= End(q2[l + 1]) /\ l + 1 \in 1..(l + 1)
      BY <1>3, <1>4, <2>1
    <3> QED BY <3>1 DEF Covered
  <2>2. CASE m.kind # "data"
    <3>1. Covered(q2, l, x, c)
      BY <1>3, <1>7, <1>9
    <3>2. \A j \in 1..l : j \in 1..(l + 1)
      BY <1>3
    <3> QED BY <2>2, <3>1, <3>2 DEF Covered
  <2> QED BY <2>1, <2>2
<1> QED BY <1>2, <1>5, <1>6, <1>8, <1>9 DEF q2

(* A frame, or the first n bytes of a DATA frame, is read. *)
LEMMA RestShape ==
    ASSUME NEW q \in Seq(Msg), q # <<>>, NEW n \in Nat,
           Head(q).kind = "data" => n <= Len(Head(q).bytes)
    PROVE  LET m == Head(q)
               q2 == Rest(m, n) \o Tail(q)
           IN  \/ /\ q2 = Tail(q) /\ q2 \in Seq(Msg) /\ Len(q2) = Len(q) - 1
                  /\ \A i \in 1..Len(q2) : q2[i] = q[i + 1]
                  /\ m.kind = "data" => n = Len(m.bytes)
               \/ /\ q2 \in Seq(Msg) /\ Len(q2) = Len(q) /\ m.kind = "data"
                  /\ q2[1].kind = "data" /\ End(q2[1]) = End(m)
                  /\ q2[1].offset = m.offset + n
                  /\ \A i \in 2..Len(q) : q2[i] = q[i]
<1> DEFINE m == Head(q)
           u == Tail(q)
           q2 == Rest(m, n) \o u
<1>1. /\ m \in Msg /\ u \in Seq(Msg) /\ Len(u) = Len(q) - 1
      /\ \A i \in 1..Len(u) : u[i] = q[i + 1]
      /\ Len(q) \in Nat /\ Len(q) > 0
  BY HeadTailProperties, EmptySeq
<1> HIDE DEF m, u
<1>2. CASE ~(m.kind = "data" /\ n < Len(m.bytes))
  <2>1. q2 = u
    BY <1>1, <1>2, ConcatEmptySeq DEF Rest
  <2>2. m.kind = "data" => n = Len(m.bytes)
    BY <1>1, <1>2, MsgFields DEF m
  <2> QED BY <1>1, <2>1, <2>2 DEF m, u
<1>3. CASE m.kind = "data" /\ n < Len(m.bytes)
  <2> DEFINE b == Drop(m.bytes, n)
             o == m.offset + n
             e == [m EXCEPT !.offset = o, !.bytes = b]
  <2>1. m.offset \in Nat /\ m.bytes \in Seq(Nat) /\ Len(m.bytes) \in Nat
    BY <1>1, <1>3, MsgFields
  <2>2. b \in Seq(Nat) /\ Len(b) = Len(m.bytes) - n
    <3>1. n <= Len(m.bytes)
      BY <1>3, <2>1
    <3> QED BY <2>1, <3>1, DropType
  <2>o. o \in Nat
    BY <2>1
  <2> HIDE DEF b, o
  <2>3. m \in [kind : {"data"}, offset : Nat, bytes : Seq(Nat)]
    BY <1>1, <1>3 DEF Msg
  <2>4. /\ e \in [kind : {"data"}, offset : Nat, bytes : Seq(Nat)]
        /\ e.kind = "data" /\ e.offset = o /\ e.bytes = b
    BY <2>o, <2>2, <2>3
  <2>5. e \in Msg
    BY <2>4 DEF Msg
  <2>6. End(e) = End(m)
    BY <2>1, <2>2, <2>4 DEF End, o
  <2>7. q2 = <<e>> \o u
    BY <1>3 DEF Rest, b, o
  <2> HIDE DEF e
  <2>8. <<e>> \in Seq(Msg) /\ Len(<<e>>) = 1 /\ <<e>>[1] = e
    BY <2>5
  <2>9. /\ q2 \in Seq(Msg) /\ Len(q2) = 1 + Len(u)
        /\ \A i \in 1..(1 + Len(u)) :
             q2[i] = IF i <= 1 THEN <<e>>[i] ELSE u[i - 1]
    BY <1>1, <2>7, <2>8, ConcatProperties
  <2> HIDE DEF q2
  <2>10. q2[1] = e /\ Len(q2) = Len(q)
    BY <1>1, <2>8, <2>9
  <2>11. ASSUME NEW i \in 2..Len(q) PROVE q2[i] = q[i]
    <3>1. i \in 1..(1 + Len(u)) /\ ~(i <= 1) /\ i - 1 \in 1..Len(u) /\ (i - 1) + 1 = i
      BY <1>1
    <3> QED BY <1>1, <2>9, <3>1
  <2> QED BY <1>3, <2>4, <2>6, <2>9, <2>10, <2>11 DEF m, u, q2, o
<1> QED BY SMTT(60), <1>2, <1>3

LEMMA ReadLinks ==
    ASSUME NEW q \in Seq(Msg), q # <<>>, NEW n \in Nat,
           NEW x \in Nat, NEW x2 \in Nat, NEW c \in Nat, x <= x2,
           Head(q).kind = "data" => /\ n <= Len(Head(q).bytes)
                                    /\ Head(q).offset + n <= x2
    PROVE  LET q2 == Rest(Head(q), n) \o Tail(q)
           IN  /\ Within(q, c, x) /\ x2 <= c => Within(q2, c, x2)
               /\ Chained(q, x) => Chained(q2, x2)
               /\ Covered(q, Len(q), x, c) => Covered(q2, Len(q2), x2, c)
<1> DEFINE m == Head(q)
           q2 == Rest(m, n) \o Tail(q)
<1>1. /\ m \in Msg /\ m = q[1] /\ Len(q) \in Nat /\ Len(q) > 0
      /\ \A i \in 1..Len(q) : q[i] \in Msg
  BY HeadTailProperties, EmptySeq, ElementOfSeq
<1>2. \/ /\ q2 \in Seq(Msg) /\ Len(q2) = Len(q) - 1
         /\ \A i \in 1..Len(q2) : q2[i] = q[i + 1]
         /\ m.kind = "data" => n = Len(m.bytes)
      \/ /\ q2 \in Seq(Msg) /\ Len(q2) = Len(q) /\ m.kind = "data"
         /\ q2[1].kind = "data" /\ End(q2[1]) = End(m)
         /\ q2[1].offset = m.offset + n
         /\ \A i \in 2..Len(q) : q2[i] = q[i]
  BY RestShape
<1>a. m.kind = "data" => n <= Len(m.bytes) /\ m.offset + n <= x2
  OBVIOUS
<1> HIDE DEF m, q2
<1>3. CASE /\ q2 \in Seq(Msg) /\ Len(q2) = Len(q) - 1
           /\ \A i \in 1..Len(q2) : q2[i] = q[i + 1]
           /\ m.kind = "data" => n = Len(m.bytes)
  <2>1. ASSUME NEW k \in 1..Len(q), NEW y \in Nat, Covered(q, k, x, y)
        PROVE  Covered(q2, k - 1, x2, y)
    <3>1. ASSUME NEW j \in 1..k, q[j].kind = "data"
          PROVE  \/ End(q[j]) <= x2
                 \/ \E i \in 1..(k - 1) : q2[i].kind = "data" /\ End(q2[i]) = End(q[j])
      <4>1. CASE j = 1
        BY <1>1, <1>3, <1>a, <3>1, <4>1 DEF End
      <4>2. CASE j # 1
        <5>1. j - 1 \in 1..(k - 1) /\ j - 1 \in 1..Len(q2) /\ (j - 1) + 1 = j
          BY <1>1, <1>3, <4>2
        <5>2. q2[j - 1] = q[j]
          BY <1>3, <5>1
        <5> QED BY <3>1, <5>1, <5>2
      <4> QED BY <4>1, <4>2
    <3>2. k \in Int /\ k <= Len(q) /\ k - 1 \in Int
      BY <1>1
    <3> QED BY <2>1, <3>1, <3>2, Covers
  <2>2. ASSUME Within(q, c, x), x2 <= c PROVE Within(q2, c, x2)
    <3>1. \A i \in 1..Len(q2) : i + 1 \in 1..Len(q)
      BY <1>1, <1>3
    <3> QED BY <1>3, <2>2, <3>1 DEF Within
  <2>3. ASSUME Chained(q, x) PROVE Chained(q2, x2)
    <3>1. ASSUME NEW i \in 1..Len(q2), q2[i].kind \in {"data", "fin"}
          PROVE  Covered(q2, i - 1, x2, q2[i].offset)
      <4>1. i + 1 \in 1..Len(q) /\ i \in 1..Len(q) /\ (i + 1) - 1 = i
        BY <1>1, <1>3
      <4>2. q2[i] = q[i + 1] /\ q[i + 1] \in Msg
        BY <1>1, <1>3, <4>1
      <4>3. Covered(q, i, x, q[i + 1].offset) /\ q[i + 1].offset \in Nat
        BY <2>3, <3>1, <4>1, <4>2, OffsetType DEF Chained
      <4> QED BY <2>1, <4>1, <4>2, <4>3
    <3> QED BY <3>1 DEF Chained
  <2>4. ASSUME Covered(q, Len(q), x, c) PROVE Covered(q2, Len(q2), x2, c)
    <3>1. Len(q) \in 1..Len(q)
      BY <1>1
    <3> QED BY <1>3, <2>1, <2>4, <3>1
  <2> QED BY <2>2, <2>3, <2>4 DEF m, q2
<1>4. CASE /\ q2 \in Seq(Msg) /\ Len(q2) = Len(q) /\ m.kind = "data"
           /\ q2[1].kind = "data" /\ End(q2[1]) = End(m)
           /\ q2[1].offset = m.offset + n
           /\ \A i \in 2..Len(q) : q2[i] = q[i]
  <2>1. ASSUME NEW k \in Nat, k <= Len(q), NEW y \in Nat, Covered(q, k, x, y)
        PROVE  Covered(q2, k, x2, y)
    <3>1. ASSUME NEW j \in 1..k, q[j].kind = "data"
          PROVE  q2[j].kind = "data" /\ End(q2[j]) = End(q[j])
      <4>1. CASE j = 1
        BY <1>1, <1>4, <4>1
      <4>2. CASE j # 1
        <5>1. j \in 2..Len(q)
          BY <1>1, <2>1, <4>2
        <5> QED BY <1>4, <3>1, <5>1
      <4> QED BY <4>1, <4>2
    <3>2. k \in Int
      OBVIOUS
    <3> QED BY <2>1, <3>1, <3>2, Covers
  <2>2. ASSUME Within(q, c, x), x2 <= c PROVE Within(q2, c, x2)
    <3>1. ASSUME NEW i \in 1..Len(q2), q2[i].kind = "data" PROVE End(q2[i]) <= c
      <4>1. CASE i = 1
        BY <1>1, <1>4, <2>2, <4>1 DEF Within
      <4>2. CASE i # 1
        <5>1. i \in 2..Len(q) /\ i \in 1..Len(q)
          BY <1>1, <1>4, <4>2
        <5> QED BY <1>4, <2>2, <3>1, <5>1 DEF Within
      <4> QED BY <4>1, <4>2
    <3> QED BY <2>2, <3>1 DEF Within
  <2>3. ASSUME Chained(q, x) PROVE Chained(q2, x2)
    <3>1. ASSUME NEW i \in 1..Len(q2), q2[i].kind \in {"data", "fin"}
          PROVE  Covered(q2, i - 1, x2, q2[i].offset)
      <4>1. CASE i = 1
        BY <1>4, <1>a, <4>1 DEF Covered
      <4>2. CASE i # 1
        <5>1. i \in 2..Len(q) /\ i \in 1..Len(q) /\ i - 1 \in Nat /\ i - 1 <= Len(q)
          BY <1>1, <1>4, <4>2
        <5>2. q2[i] = q[i] /\ q[i] \in Msg
          BY <1>1, <1>4, <5>1
        <5>3. Covered(q, i - 1, x, q[i].offset) /\ q[i].offset \in Nat
          BY <2>3, <3>1, <5>1, <5>2, OffsetType DEF Chained
        <5> QED BY <2>1, <5>1, <5>2, <5>3
      <4> QED BY <4>1, <4>2
    <3> QED BY <3>1 DEF Chained
  <2>4. ASSUME Covered(q, Len(q), x, c) PROVE Covered(q2, Len(q2), x2, c)
    BY <1>1, <1>4, <2>1, <2>4
  <2> QED BY <2>2, <2>3, <2>4 DEF m, q2
<1> QED BY <1>2, <1>3, <1>4

(* What an abort leaves is a prefix and the reset. *)
LEMMA ResetChained ==
    ASSUME NEW q \in Seq(Msg), NEW k \in 0..Len(q), NEW x \in Nat, Chained(q, x)
    PROVE  Chained(Append(SubSeq(q, 1, k), [kind |-> "reset"]), x)
<1> DEFINE e == [kind |-> "reset"]
           u == SubSeq(q, 1, k)
           q2 == Append(u, e)
<1>1. Len(q) \in Nat /\ e \in Msg /\ e.kind = "reset"
  BY DEF Msg
<1>2. \A i \in 1..k : q[i] \in Msg
  BY <1>1, ElementOfSeq
<1>3. u \in Seq(Msg) /\ Len(u) = k /\ \A i \in 1..k : u[i] = q[i]
  BY <1>1, <1>2, SubSeqProperties
<1> HIDE DEF u, e
<1>4. /\ Len(q2) = k + 1 /\ q2[k + 1] = e
      /\ \A i \in 1..k : q2[i] = u[i]
  BY <1>1, <1>3, AppendProperties
<1> HIDE DEF q2
<1>5. ASSUME NEW i \in 1..Len(q2), q2[i].kind \in {"data", "fin"}
      PROVE  Covered(q2, i - 1, x, q2[i].offset)
  <2>1. i # k + 1
    BY <1>1, <1>4, <1>5
  <2>2. i \in 1..k /\ i \in 1..Len(q)
    BY <1>1, <1>4, <2>1
  <2>3. q2[i] = q[i] /\ \A j \in 1..(i - 1) : q2[j] = q[j]
    BY <1>3, <1>4, <2>2
  <2>4. Covered(q, i - 1, x, q[i].offset)
    BY <1>5, <2>2, <2>3 DEF Chained
  <2> QED BY <2>3, <2>4 DEF Covered
<1> QED BY <1>5 DEF Chained, q2, u, e

(* What m_v2_write hands to QUIC continues the stream at the cursor. *)
Continued(q, c, q2, c2, x) ==
    /\ q2 \in Seq(Msg) /\ c2 \in Nat
    /\ Within(q, c, x) => Within(q2, c2, x)
    /\ Chained(q, x) /\ Covered(q, Len(q), x, c) =>
         Chained(q2, x) /\ Covered(q2, Len(q2), x, c2)

LEMMA ContinuedOne ==
    ASSUME NEW q \in Seq(Msg), NEW x \in Nat, NEW c \in Nat, NEW c2 \in Nat,
           NEW f, NEW m,
           \/ f = <<>> /\ c2 = c
           \/ /\ f = <<m>> /\ m \in Msg
              /\ m.kind = "data" => m.offset = c /\ End(m) = c2
              /\ m.kind = "fin" => m.offset = c
              /\ m.kind # "data" => c2 = c
    PROVE  Continued(q, c, q \o f, c2, x)
<1>1. CASE f = <<>> /\ c2 = c
  <2>1. q \o f = q
    BY <1>1, ConcatEmptySeq
  <2> QED BY <1>1, <2>1 DEF Continued
<1>2. CASE f = <<m>>
  BY <1>2, AppendLinks DEF Continued
<1> QED BY <1>1, <1>2

LEMMA Joined ==
    ASSUME NEW q \in Seq(Msg), NEW f \in Seq(Msg), NEW g \in Seq(Msg)
    PROVE  q \o (f \o g) = (q \o f) \o g
<1>1. (q \o f) \o g = q \o (f \o g)
  BY ConcatAssociative
<1> QED BY <1>1

LEMMA SendLinks ==
    ASSUME NEW q \in Seq(Msg), NEW t \in Snd, SndOk(t), NEW r \in Rcv,
           NEW ack \in BOOLEAN, NEW fin \in BOOLEAN, NEW d \in Nat,
           d <= Len(t.tx) - t.tx_pos, MayWrite(t, r, ack, d, fin), NEW x \in Nat
    PROVE  Continued(q, Cursor(t), q \o Frames(t, r, ack, d, fin), Cursor(t) + d, x)
<1> DEFINE c == Cursor(t)
           c2 == c + d
           f == IF ack THEN <<AckFrame(r)>> ELSE <<>>
           g == IF d > 0 THEN <<DataFrame(t, d)>> ELSE <<>>
           h == IF fin THEN <<FinFrame(t)>> ELSE <<>>
<1>1. c \in Nat /\ c2 \in Nat
  BY SndFields DEF Cursor
<1>2. AckFrame(r) \in Msg /\ AckFrame(r).kind = "ack"
  BY RcvFields DEF AckFrame, Msg
<1>3. FinFrame(t) \in Msg /\ FinFrame(t).kind = "fin" /\ FinFrame(t).offset = t.tx_final
  BY SndFields DEF FinFrame, Msg
<1>4. /\ DataFrame(t, d) \in Msg /\ DataFrame(t, d).kind = "data"
      /\ DataFrame(t, d).offset = c /\ End(DataFrame(t, d)) = c2
  <2> DEFINE b == SubSeq(t.tx, t.tx_pos + 1, t.tx_pos + d)
  <2>1. b \in Seq(Nat) /\ Len(b) = d
    <3>1. /\ t.tx \in Seq(Nat) /\ t.tx_base \in Nat /\ Numbered(t.tx, t.tx_base)
          /\ t.tx_pos \in Nat /\ t.tx_pos + d \in Nat /\ t.tx_pos <= t.tx_pos + d
          /\ t.tx_pos + d <= Len(t.tx)
      BY SndFields DEF SndOk
    <3>2. b \in Seq(Nat) /\ Len(b) = (t.tx_pos + d) - t.tx_pos
      BY <3>1, NumberedPart
    <3> QED BY <3>1, <3>2
  <2>2. DataFrame(t, d) = [kind |-> "data", offset |-> c, bytes |-> b]
    BY DEF DataFrame, Cursor
  <2> HIDE DEF b, c
  <2> QED BY <1>1, <2>1, <2>2 DEF End, Msg
<1>5. fin => d = 0 /\ t.tx_final = c /\ c2 = c
  BY <1>1, SndFields DEF MayWrite, SndOk, Cursor, m_tx_next
<1>6. ~(d > 0) => c2 = c
  BY <1>1
<1> HIDE DEF c, c2
<1>7. Continued(q, c, q \o f, c, x)
  BY <1>1, <1>2, ContinuedOne
<1> DEFINE qf == q \o f
<1> HIDE DEF f, qf
<1>8. qf \in Seq(Msg)
  BY <1>7 DEF Continued, qf
<1>9. Continued(qf, c, qf \o g, c2, x)
  BY <1>1, <1>4, <1>6, <1>8, ContinuedOne
<1> DEFINE qg == qf \o g
<1> HIDE DEF g, qg
<1>10. qg \in Seq(Msg)
  BY <1>9 DEF Continued, qg
<1>11. Continued(qg, c2, qg \o h, c2, x)
  BY <1>1, <1>3, <1>5, <1>10, ContinuedOne
<1>12. f \in Seq(Msg) /\ g \in Seq(Msg) /\ h \in Seq(Msg)
  BY <1>2, <1>3, <1>4 DEF f, g
<1> HIDE DEF h
<1>13. q \o ((f \o g) \o h) = qg \o h
  <2>1. f \o g \in Seq(Msg)
    BY <1>12, ConcatProperties
  <2>2. q \o ((f \o g) \o h) = (q \o (f \o g)) \o h
    BY SMTT(60), <1>12, <2>1, Joined
  <2>3. q \o (f \o g) = (q \o f) \o g
    BY ZenonT(60), <1>12, Joined
  <2> QED BY <2>2, <2>3 DEF qf, qg
<1>14. Frames(t, r, ack, d, fin) = (f \o g) \o h
  BY DEF Frames, f, g, h
<1>15. Continued(q, c, qg \o h, c2, x)
  BY <1>7, <1>9, <1>11 DEF Continued, qf, qg
<1> QED BY <1>13, <1>14, <1>15 DEF c, c2

-----------------------------------------------------------------------------
(* One direction *)

LEMMA LinkWeaker ==
    ASSUME NEW q, NEW t, NEW t2, NEW r, NEW r2, NEW c, NEW c2, NEW k, NEW k2,
           NEW a, NEW a2, Link(q, t, r, c, k, a),
           Alive(c2) => Alive(c) /\ Cursor(t2) = Cursor(t),
           k2.phase # "dead" => k.phase # "dead",
           a2 # "down" => a # "down",
           r2.rx_next = r.rx_next
    PROVE  Link(q, t2, r2, c2, k2, a2)
BY DEF Link

LEMMA LinkEmpty ==
    ASSUME NEW t \in Snd, NEW r \in Rcv, NEW c, NEW k, NEW a,
           Alive(c) => r.rx_next <= Cursor(t),
           Alive(c) /\ a # "down" => Cursor(t) <= r.rx_next
    PROVE  Link(<<>>, t, r, c, k, a)
BY DEF Link, Within, Chained, Covered

LEMMA LinkQuiet ==
    ASSUME NEW q \in Seq(Msg), NEW m \in Msg, m.kind \notin {"data", "fin"},
           NEW t \in Snd, NEW r \in Rcv, NEW c, NEW k, NEW a, Link(q, t, r, c, k, a)
    PROVE  Link(q \o <<m>>, t, r, c, k, a)
<1>1. Cursor(t) \in Nat /\ r.rx_next \in Nat
  BY SndFields, RcvFields DEF Cursor
<1> DEFINE e == Cursor(t)
           x == r.rx_next
           q2 == q \o <<m>>
<1>2. /\ Within(q, e, x) => Within(q2, e, x)
      /\ Chained(q, x) => Chained(q2, x)
      /\ Chained(q, x) /\ Covered(q, Len(q), x, e) => Covered(q2, Len(q2), x, e)
  BY <1>1, AppendLinks
<1> HIDE DEF e, x, q2
<1> QED BY <1>2 DEF Link, e, x, q2

LEMMA LinkRead ==
    ASSUME NEW q \in Seq(Msg), q # <<>>, NEW n \in Nat,
           NEW t \in Snd, NEW r \in Rcv, NEW r2 \in Rcv, NEW c, NEW k, NEW k2, NEW a,
           Link(q, t, r, c, k, a),
           k2.phase # "dead" => k.phase # "dead",
           r.rx_next <= r2.rx_next, Alive(c) => r2.rx_next <= Cursor(t),
           Head(q).kind = "data" => /\ n <= Len(Head(q).bytes)
                                    /\ Head(q).offset + n <= r2.rx_next
    PROVE  Link(Rest(Head(q), n) \o Tail(q), t, r2, c, k2, a)
<1>1. Cursor(t) \in Nat /\ r.rx_next \in Nat /\ r2.rx_next \in Nat
  BY SndFields, RcvFields DEF Cursor
<1> DEFINE e == Cursor(t)
           x == r.rx_next
           x2 == r2.rx_next
           q2 == Rest(Head(q), n) \o Tail(q)
<1>2. /\ Within(q, e, x) /\ x2 <= e => Within(q2, e, x2)
      /\ Chained(q, x) => Chained(q2, x2)
      /\ Covered(q, Len(q), x, e) => Covered(q2, Len(q2), x2, e)
  BY <1>1, ReadLinks
<1>3. Alive(c) => x2 <= e
  OBVIOUS
<1> HIDE DEF e, x, x2, q2
<1> QED BY <1>2, <1>3 DEF Link, e, x, x2, q2

LEMMA LinkPop ==
    ASSUME NEW q \in Seq(Msg), q # <<>>, Head(q).kind # "data",
           NEW t \in Snd, NEW r \in Rcv, NEW c, NEW k, NEW k2, NEW a,
           Link(q, t, r, c, k, a), k2.phase # "dead" => k.phase # "dead"
    PROVE  Link(Tail(q), t, r, c, k2, a)
<1>1. Tail(q) \in Seq(Msg)
  BY HeadTailProperties
<1>2. Rest(Head(q), 0) \o Tail(q) = Tail(q)
  BY <1>1, ConcatEmptySeq DEF Rest
<1>3. Alive(c) => r.rx_next <= Cursor(t)
  BY DEF Link, Within
<1>4. 0 \in Nat /\ r.rx_next <= r.rx_next
  BY RcvFields
<1>5. Link(Rest(Head(q), 0) \o Tail(q), t, r, c, k2, a)
  BY <1>3, <1>4, LinkRead
<1> QED BY <1>2, <1>5

(* A sender that gives up leaves a prefix and the reset, or no change. *)
LEMMA LinkReset ==
    ASSUME NEW s \in Side, NEW f \in Seq(Msg), wire \in [Side -> Seq(Msg)],
           ResetWire(s, f), NEW r \in Rcv, NEW t, NEW c, NEW k, NEW a, ~Alive(c),
           k.phase # "dead" => Chained(f, r.rx_next)
    PROVE  Link(wire'[s], t, r, c, k, a)
<1>1. r.rx_next \in Nat
  BY RcvFields
<1>2. CASE HasStream(s)
  <2>1. PICK n \in 0..Len(f) :
          wire' = [wire EXCEPT ![s] = Append(SubSeq(f, 1, n), [kind |-> "reset"])]
    BY <1>2 DEF ResetWire
  <2>2. wire'[s] = Append(SubSeq(f, 1, n), [kind |-> "reset"])
    BY <2>1
  <2> QED BY <1>1, <2>2, ResetChained DEF Link
<1>3. CASE ~HasStream(s)
  BY <1>3 DEF ResetWire, Link
<1> QED BY <1>2, <1>3

(* A side that starts has sent nothing. *)
LEMMA LinkStart ==
    ASSUME NEW t \in Snd, NEW r \in Rcv, NEW x, NEW q \in Seq(Honest(t, x)),
           t = NewSnd, Behind(t, r), NEW c, NEW k, NEW a, NEW c0, NEW k0, NEW a0,
           Link(q, t, r, c0, k0, a0), k.phase # "dead" => k0.phase # "dead"
    PROVE  Link(q, t, r, c, k, a)
<1>1. Cursor(t) = 0 /\ t.tx_sent_high = 0
  BY DEF NewSnd, Cursor
<1>2. r.rx_next = 0
  BY <1>1, RcvFields DEF Behind
<1>3. ASSUME NEW i \in 1..Len(q), q[i].kind = "data" PROVE End(q[i]) <= 0
  <2>1. q[i] \in Honest(t, x)
    BY ElementOfSeq
  <2> QED BY <1>1, <1>3, <2>1 DEF Honest, End
<1>4. Within(q, 0, 0)
  BY <1>3 DEF Within
<1>5. Covered(q, Len(q), 0, 0)
  BY DEF Covered
<1> QED BY <1>1, <1>2, <1>4, <1>5 DEF Link

LEMMA LinksStep ==
    ASSUME NEW s \in Side,
           Link(wire'[s], snd'[s], rcv'[Peer(s)], ctl'[s], ctl'[Peer(s)],
                att'[Peer(s)]),
           Link(wire'[Peer(s)], snd'[Peer(s)], rcv'[s], ctl'[Peer(s)], ctl'[s],
                att'[s])
    PROVE  Links'
<1>1. ASSUME NEW x \in Side
      PROVE  Link(wire'[x], snd'[x], rcv'[Peer(x)], ctl'[x], ctl'[Peer(x)],
                  att'[Peer(x)])
  <2>1. CASE x = s
    BY <2>1
  <2>2. CASE x = Peer(s)
    BY <2>2, SideFacts
  <2> QED BY <2>1, <2>2 DEF Side, Peer
<1> QED BY <1>1 DEF Links

LEMMA LinkCut ==
    ASSUME NEW q, NEW t \in Snd, NEW r \in Rcv, NEW c, NEW k, Link(q, t, r, c, k, "down")
    PROVE  Link(<<>>, t, r, c, k, "down")
BY LinkEmpty DEF Link, Within

LEMMA LinkSent ==
    ASSUME IInv, NEW s \in Side, NEW m \in Msg, m.kind \notin {"data", "fin"},
           NEW t \in Snd, NEW r \in Rcv, NEW c, NEW k,
           Link(wire[s], t, r, c, k, att[Peer(s)])
    PROVE  Link(Sent(s, <<m>>), t, r, c, k, att[Peer(s)])
<1>1. CASE att[Peer(s)] = "down"
  BY <1>1, LinkCut DEF Sent
<1>2. CASE att[Peer(s)] # "down"
  BY <1>2, Typed, LinkQuiet DEF Sent
<1> QED BY <1>1, <1>2

-----------------------------------------------------------------------------
(* The RESUME and its answer in flight *)

NoResume == {m \in Msg : m.kind # "resume"}
Shrinks(q, q2) ==
    LateFree(q) => LateFree(q2) /\ (First(q2) => First(q) /\ Head(q2) = Head(q))

LEMMA ShrinksSame ==
    ASSUME NEW q
    PROVE  Shrinks(q, q) /\ Shrinks(q, <<>>)
BY DEF Shrinks, LateFree, First

LEMMA HeadFirst ==
    ASSUME NEW q \in Seq(Msg)
    PROVE  /\ Len(q) \in Nat
           /\ q # <<>> => Len(q) >= 1 /\ Head(q) = q[1] /\ q[1] \in Msg
           /\ q = <<>> => Len(q) = 0
BY HeadTailProperties, EmptySeq, ElementOfSeq

LEMMA ShrinksRest ==
    ASSUME NEW q \in Seq(Msg), q # <<>>, NEW n \in Nat,
           Head(q).kind = "data" => n <= Len(Head(q).bytes)
    PROVE  Shrinks(q, Rest(Head(q), n) \o Tail(q))
<1> DEFINE q2 == Rest(Head(q), n) \o Tail(q)
<1>1. \/ /\ q2 \in Seq(Msg) /\ Len(q2) = Len(q) - 1
         /\ \A i \in 1..Len(q2) : q2[i] = q[i + 1]
      \/ /\ q2 \in Seq(Msg) /\ Len(q2) = Len(q) /\ q2[1].kind = "data"
         /\ \A i \in 2..Len(q) : q2[i] = q[i]
  BY RestShape
<1> HIDE DEF q2
<1>2. ASSUME LateFree(q), NEW i \in 1..Len(q2) PROVE q2[i].kind # "resume"
  <2>1. CASE /\ Len(q2) = Len(q) - 1 /\ \A j \in 1..Len(q2) : q2[j] = q[j + 1]
    <3>1. i + 1 \in 2..Len(q) /\ q2[i] = q[i + 1]
      BY <2>1, HeadFirst
    <3> QED BY <1>2, <3>1 DEF LateFree
  <2>2. CASE /\ Len(q2) = Len(q) /\ q2[1].kind = "data"
             /\ \A j \in 2..Len(q) : q2[j] = q[j]
    <3>1. CASE i = 1
      BY <2>2, <3>1
    <3>2. CASE i # 1
      <4>1. i \in 2..Len(q)
        BY <2>2, <3>2, HeadFirst
      <4> QED BY <1>2, <2>2, <4>1 DEF LateFree
    <3> QED BY <3>1, <3>2
  <2> QED BY <1>1, <2>1, <2>2
<1>3. ASSUME LateFree(q) PROVE LateFree(q2) /\ ~First(q2)
  <2>1. q2 \in Seq(Msg)
    BY <1>1
  <2>2. LateFree(q2)
    <3>1. \A i \in 2..Len(q2) : i \in 1..Len(q2)
      BY <2>1, HeadFirst
    <3> QED BY <1>2, <1>3, <3>1 DEF LateFree
  <2>3. ~First(q2)
    <3>1. q2 # <<>> => 1 \in 1..Len(q2) /\ Head(q2) = q2[1]
      BY <2>1, HeadFirst
    <3> QED BY <1>2, <1>3, <3>1 DEF First
  <2> QED BY <2>2, <2>3
<1> QED BY <1>3 DEF Shrinks, q2

LEMMA ShrinksTail ==
    ASSUME NEW q \in Seq(Msg), q # <<>>
    PROVE  Shrinks(q, Tail(q)) /\ (LateFree(q) => ~First(Tail(q)))
<1>1. Tail(q) \in Seq(Msg) /\ Len(Tail(q)) = Len(q) - 1
      /\ \A i \in 1..Len(Tail(q)) : Tail(q)[i] = q[i + 1]
  BY HeadTailProperties
<1>2. ASSUME LateFree(q), NEW i \in 1..Len(Tail(q)) PROVE Tail(q)[i].kind # "resume"
  <2>1. i + 1 \in 2..Len(q) /\ Tail(q)[i] = q[i + 1]
    BY <1>1, HeadFirst
  <2> QED BY <1>2, <2>1 DEF LateFree
<1> DEFINE q2 == Tail(q)
<1>3. ASSUME LateFree(q) PROVE LateFree(q2) /\ ~First(q2)
  <2>1. /\ \A i \in 2..Len(q2) : i \in 1..Len(q2)
        /\ q2 # <<>> => 1 \in 1..Len(q2) /\ Head(q2) = q2[1]
    BY <1>1, HeadFirst
  <2> QED BY <1>2, <1>3, <2>1 DEF LateFree, First
<1> QED BY <1>3 DEF Shrinks

LEMMA ShrinksAppend ==
    ASSUME NEW q \in Seq(Msg), NEW f \in Seq(NoResume)
    PROVE  Shrinks(q, q \o f)
<1> DEFINE q2 == q \o f
<1>1. f \in Seq(Msg)
  BY SeqMonotonic DEF NoResume
<1>2. /\ q2 \in Seq(Msg) /\ Len(q2) = Len(q) + Len(f)
      /\ \A i \in 1 .. Len(q) + Len(f) : q2[i] =
            IF i <= Len(q) THEN q[i] ELSE f[i - Len(q)]
  BY <1>1, ConcatProperties
<1>3. Len(q) \in Nat /\ Len(f) \in Nat
  BY <1>1
<1> HIDE DEF q2
<1>4. ASSUME NEW i \in 1..Len(q2) PROVE (i <= Len(q) /\ q2[i] = q[i]) \/ q2[i].kind # "resume"
  <2>1. CASE i <= Len(q)
    BY <1>2, <2>1
  <2>2. CASE ~(i <= Len(q))
    <3>1. i - Len(q) \in 1..Len(f)
      BY <1>2, <1>3, <2>2
    <3>2. f[i - Len(q)] \in NoResume
      BY <3>1, ElementOfSeq
    <3>3. q2[i] = f[i - Len(q)]
      BY <1>2, <2>2
    <3> QED BY <3>2, <3>3 DEF NoResume
  <2> QED BY <2>1, <2>2
<1>5. ASSUME LateFree(q) PROVE LateFree(q2)
  <2>1. \A i \in 2..Len(q2) : i \in 1..Len(q2) /\ (i <= Len(q) => i \in 2..Len(q))
    BY <1>2, <1>3
  <2> QED BY <1>4, <1>5, <2>1 DEF LateFree
<1>6. ASSUME First(q2) PROVE First(q) /\ Head(q2) = Head(q)
  <2>1. q2 # <<>> /\ q2[1].kind = "resume" /\ Head(q2) = q2[1] /\ 1 \in 1..Len(q2)
    BY <1>2, <1>6, HeadFirst DEF First
  <2>2. 1 <= Len(q) /\ q2[1] = q[1]
    BY <1>4, <2>1
  <2>3. q # <<>> /\ Head(q) = q[1]
    BY <2>2, HeadFirst
  <2> QED BY <2>1, <2>2, <2>3 DEF First
<1> QED BY <1>5, <1>6 DEF Shrinks, q2

LEMMA ShrinksReset ==
    ASSUME NEW s \in Side, wire \in [Side -> Seq(Msg)], NEW f \in Seq(Msg), ResetWire(s, f)
    PROVE  Shrinks(f, wire'[s])
<1>1. CASE HasStream(s)
  <2>1. PICK k \in 0..Len(f) :
          wire' = [wire EXCEPT ![s] = Append(SubSeq(f, 1, k), [kind |-> "reset"])]
    BY <1>1 DEF ResetWire
  <2> DEFINE e == [kind |-> "reset"]
             u == SubSeq(f, 1, k)
             q == Append(u, e)
  <2>2. wire'[s] = q
    BY <2>1
  <2>3. e \in Msg /\ e.kind = "reset"
    BY DEF Msg
  <2>4. \A i \in 1..k : f[i] \in Msg
    BY HeadFirst, ElementOfSeq
  <2>5. u \in Seq(Msg) /\ Len(u) = k /\ \A i \in 1..k : u[i] = f[i]
    BY <2>4, HeadFirst, SubSeqProperties
  <2> HIDE DEF e, u
  <2>6. /\ q \in Seq(Msg) /\ Len(q) = k + 1 /\ q[k + 1] = e
        /\ \A i \in 1..k : q[i] = u[i]
    BY <2>3, <2>5, AppendProperties
  <2> HIDE DEF q
  <2>7. ASSUME NEW i \in 1..Len(q)
        PROVE  (i <= Len(f) /\ q[i] = f[i]) \/ q[i].kind # "resume"
    <3>1. CASE i = k + 1
      BY <2>3, <2>6, <3>1
    <3>2. CASE i # k + 1
      BY <2>5, <2>6, <3>2, HeadFirst
    <3> QED BY <3>1, <3>2
  <2>8. ASSUME LateFree(f) PROVE LateFree(q)
    <3>1. \A i \in 2..Len(q) : i \in 1..Len(q) /\ (i <= Len(f) => i \in 2..Len(f))
      BY <2>6, HeadFirst
    <3> QED BY <2>7, <2>8, <3>1 DEF LateFree
  <2>9. ASSUME First(q) PROVE First(f) /\ Head(q) = Head(f)
    <3>1. q # <<>> /\ q[1].kind = "resume" /\ Head(q) = q[1] /\ 1 \in 1..Len(q)
      BY <2>6, <2>9, HeadFirst DEF First
    <3>2. 1 <= Len(f) /\ q[1] = f[1]
      BY <2>7, <3>1
    <3>3. f # <<>> /\ Head(f) = f[1]
      BY <3>2, HeadFirst
    <3> QED BY <3>1, <3>2, <3>3 DEF First
  <2> QED BY <2>2, <2>8, <2>9 DEF Shrinks
<1>2. CASE ~HasStream(s)
  <2>1. wire'[s] = f
    BY <1>2 DEF ResetWire
  <2> QED BY <2>1, ShrinksSame
<1> QED BY <1>1, <1>2

LEMMA ShrinksSent ==
    ASSUME IInv, NEW s \in Side, NEW f \in Seq(NoResume)
    PROVE  Shrinks(wire[s], Sent(s, f))
BY Typed, ShrinksSame, ShrinksAppend DEF Sent

LEMMA AskedStep ==
    ASSUME Session, Shrinks(wire["local"], wire'["local"]),
           First(wire'["local"]) /\ First(wire["local"]) /\ Asking =>
              /\ m_resume_snapshot("local")' = m_resume_snapshot("local")
              /\ rcv'["local"].rx = <<>> /\ ctl'["local"].phase # "none"
              /\ ~Alive(ctl'["local"]) /\ ~Alive(ctl'["remote"])
              /\ wire'["remote"] = <<>>,
           ctl'["local"].waiting_resume =>
              /\ ctl["local"].waiting_resume
              /\ wire'["local"] = wire["local"] \/ wire'["local"] = <<>>
    PROVE  Asked'
<1>1. LateFree(wire["local"]) /\ (First(wire["local"]) => Asking)
  BY DEF Session, Asked
<1>2. LateFree(wire'["local"])
  BY <1>1 DEF Shrinks
<1>3. First(wire'["local"]) => Asking'
  BY <1>1 DEF Shrinks, Asking
<1>4. ctl'["local"].waiting_resume /\ wire'["local"] # <<>> =>
         Len(wire'["local"]) = 1 /\ First(wire'["local"])
  BY DEF Session, Asked
<1> QED BY <1>2, <1>3, <1>4 DEF Asked

LEMMA FittingPlain ==
    /\ [kind |-> "reset"] \in Fitting /\ [kind |-> "open"] \in Fitting
    /\ \A b \in BOOLEAN : [kind |-> "oack", ok |-> b] \in Fitting
    /\ \A m \in Snapshots : [kind |-> "rack", ok |-> FALSE, snap |-> m] \in Fitting
BY DEF Fitting, Msg

LEMMA StagesStep ==
    ASSUME NEW s \in Side,
           Stage(s, ctl'[s], snd'[s], rcv'[s], att'[s], wire'[s]),
           Stage(Peer(s), ctl'[Peer(s)], snd'[Peer(s)], rcv'[Peer(s)],
                 att'[Peer(s)], wire'[Peer(s)]),
           Quiet'
    PROVE  Stages'
<1>1. ASSUME NEW x \in Side
      PROVE  Stage(x, ctl'[x], snd'[x], rcv'[x], att'[x], wire'[x])
  <2>1. CASE x = s
    BY <2>1
  <2>2. CASE x = Peer(s)
    BY <2>2
  <2> QED BY <2>1, <2>2 DEF Side, Peer
<1> QED BY <1>1 DEF Stages

-----------------------------------------------------------------------------
(* Every step preserves the session invariant *)

LEMMA SessionSide ==
    ASSUME Session, NEW s \in Side
    PROVE  /\ Stage(s, ctl[s], snd[s], rcv[s], att[s], wire[s])
           /\ Stage(Peer(s), ctl[Peer(s)], snd[Peer(s)], rcv[Peer(s)],
                    att[Peer(s)], wire[Peer(s)])
           /\ Link(wire[s], snd[s], rcv[Peer(s)], ctl[s], ctl[Peer(s)], att[Peer(s)])
           /\ Link(wire[Peer(s)], snd[Peer(s)], rcv[s], ctl[Peer(s)], ctl[s], att[s])
BY SideFacts DEF Session, Stages, Links

LEMMA DeadGone ==
    ASSUME NEW c \in Ctl
    PROVE  /\ ~Alive(Dead(c))
           /\ \A s, t, r, a, q : (a = "setup" => q = <<>>) => Stage(s, Dead(c), t, r, a, q)
<1>1. Idle(Dead(c)) /\ Dead(c).phase = "dead"
  BY DeadIdle
<1> DEFINE e == Dead(c)
<1> HIDE DEF e
<1>2. ~Alive(e)
  BY <1>1 DEF Alive, e
<1>3. \A s, t, r, a, q : (a = "setup" => q = <<>>) => Stage(s, e, t, r, a, q)
  BY <1>1, <1>2 DEF Stage, Idle, e
<1> QED BY <1>2, <1>3 DEF e

(* The broker has no stream while it is not alive. *)
LEMMA SilentRemote ==
    ASSUME Session, ~Alive(ctl["remote"])
    PROVE  ~HasStream("remote")
<1>1. ~ctl["remote"].waiting_resume
  BY SessionSide, SideFacts DEF Stage
<1> QED BY <1>1 DEF HasStream, Alive

LEMMA SessionKept ==
    ASSUME Session, failed' = failed, Stages', Asked', Answered', Links'
    PROVE  Session'
BY DEF Session, NoProtocolError

LEMMA AbortSession ==
    ASSUME IInv, Data, Session, NEW s \in Side, m_abort(s),
           snd' = snd, rcv' = rcv, att' = att, failed' = failed
    PROVE  Session'
<1> DEFINE p == Peer(s)
           c == Dead(ctl[s])
<1>a. /\ ctl' = [ctl EXCEPT ![s] = c] /\ ResetWire(s, wire[s])
      /\ c.phase = "dead" /\ Idle(c) /\ ~Alive(c)
      /\ \A x, t, r, a, q : (a = "setup" => q = <<>>) => Stage(x, c, t, r, a, q)
  BY Typed, DeadIdle, DeadGone DEF m_abort
<1> HIDE DEF c
<1>b. ctl'[s] = c /\ ctl'[p] = ctl[p]
  BY <1>a, Typed, SideFacts
<1>c. /\ wire'[p] = wire[p]
      /\ ~HasStream(s) => wire'[s] = wire[s]
  <2>1. CASE HasStream(s)
    BY <1>a, <2>1, Typed, SideFacts DEF ResetWire
  <2>2. CASE ~HasStream(s)
    BY <1>a, <2>2, Typed, SideFacts DEF ResetWire
  <2> QED BY <2>1, <2>2
<1>d. s = "remote" /\ ~Alive(ctl["remote"]) => wire'["remote"] = wire["remote"]
  BY <1>c, SilentRemote
<1>e. s = "local" => p = "remote"
  BY SideFacts
<1>f. s = "remote" => p = "local"
  BY SideFacts
<1>1. Stages'
  <2>1. att[s] = "setup" => wire'[s] = <<>>
    BY <1>c, SessionSide DEF Stage, HasStream, Attached
  <2>2. Stage(s, ctl'[s], snd'[s], rcv'[s], att'[s], wire'[s])
    BY <1>a, <1>b, <2>1
  <2>3. Stage(p, ctl'[p], snd'[p], rcv'[p], att'[p], wire'[p])
    BY <1>b, <1>c, SessionSide
  <2>4. Quiet'
    <3>1. CASE s = "local"
      BY <1>b, <1>c, <1>e, <3>1 DEF Session, Stages, Quiet
    <3>2. CASE s = "remote"
      BY <1>a, <1>b, <1>d, <3>2 DEF Session, Stages, Quiet
    <3> QED BY <3>1, <3>2 DEF Side
  <2> QED BY <2>2, <2>3, <2>4, StagesStep
<1>2. Asked'
  <2>0. m_resume_snapshot("local")' = m_resume_snapshot("local")
    BY DEF m_resume_snapshot
  <2>1. CASE s = "local"
    <3>1. Shrinks(wire["local"], wire'["local"])
      BY <1>a, <2>1, Typed, ShrinksReset
    <3>2. ~ctl'["local"].waiting_resume
      BY <1>a, <1>b, <2>1 DEF Idle
    <3>3. Asking => /\ rcv'["local"].rx = <<>> /\ ctl'["local"].phase # "none"
                    /\ ~Alive(ctl'["local"]) /\ ~Alive(ctl'["remote"])
                    /\ wire'["remote"] = <<>>
      BY <1>a, <1>b, <1>c, <1>e, <2>1 DEF Asking
    <3> QED BY <2>0, <3>1, <3>2, <3>3, AskedStep
  <2>2. CASE s = "remote"
    <3>1. wire'["local"] = wire["local"] /\ ctl'["local"] = ctl["local"]
      BY <1>b, <1>c, <1>f, <2>2
    <3>2. Asking => /\ rcv'["local"].rx = <<>> /\ ctl'["local"].phase # "none"
                    /\ ~Alive(ctl'["local"]) /\ ~Alive(ctl'["remote"])
                    /\ wire'["remote"] = <<>>
      BY <1>a, <1>b, <1>d, <2>2, <3>1 DEF Asking
    <3>3. Shrinks(wire["local"], wire'["local"])
      BY <3>1, ShrinksSame
    <3> QED BY <2>0, <3>1, <3>2, <3>3, AskedStep
  <2> QED BY <2>1, <2>2 DEF Side
<1>3. Answered'
  <2>1. CASE s = "local"
    BY <1>a, <1>b, <2>1 DEF Answered, Idle
  <2>2. CASE s = "remote"
    <3>1. ctl'["local"] = ctl["local"]
      BY <1>b, <1>f, <2>2
    <3>2. wire["remote"] \in Seq(Fitting) => wire'["remote"] \in Seq(Fitting)
      BY <1>a, <2>2, Typed, FittingPlain, ResetWireType
    <3>3. Fitting' = Fitting
      BY DEF Fitting, Fits
    <3> QED BY <3>1, <3>2, <3>3 DEF Session, Answered
  <2> QED BY <2>1, <2>2 DEF Side
<1>4. Links'
  <2>1. Link(wire'[s], snd'[s], rcv'[p], ctl'[s], ctl'[p], att'[p])
    <3>1. ctl[p].phase # "dead" => Chained(wire[s], rcv[p].rx_next)
      BY SessionSide DEF Link
    <3> QED BY <1>a, <1>b, <3>1, Typed, SideFacts, LinkReset
  <2>2. Link(wire'[p], snd'[p], rcv'[s], ctl'[p], ctl'[s], att'[s])
    BY <1>a, <1>b, <1>c, SessionSide, LinkWeaker
  <2> QED BY <2>1, <2>2, LinksStep
<1> QED BY <1>1, <1>2, <1>3, <1>4, SessionKept

(* A step of ctl alone that keeps a side alive, or not alive. *)
LEMMA CtlSession ==
    ASSUME IInv, Data, Session, NEW s \in Side, NEW c, ctl' = [ctl EXCEPT ![s] = c],
           snd' = snd, rcv' = rcv, att' = att, failed' = failed, wire' = wire,
           Stage(s, c, snd[s], rcv[s], att[s], wire[s]),
           Alive(c) <=> Alive(ctl[s]),
           c.waiting_resume => ctl[s].waiting_resume,
           c.phase # "none", c.phase # "dead" => ctl[s].phase # "dead",
           s = "remote" /\ c.phase = "reply" /\ c.resuming => rcv["remote"].rx = <<>>
    PROVE  Session'
<1> DEFINE p == Peer(s)
<1>b. ctl'[s] = c /\ ctl'[p] = ctl[p]
  BY Typed, SideFacts
<1>1. Stages'
  <2>1. Quiet'
    <3>1. CASE s = "local"
      BY <1>b, <3>1, SideFacts DEF Session, Stages, Quiet
    <3>2. CASE s = "remote"
      BY <1>b, <3>2, SideFacts DEF Session, Stages, Quiet
    <3> QED BY <3>1, <3>2 DEF Side
  <2> QED BY <1>b, <2>1, SessionSide, StagesStep
<1>2. Asked'
  <2>0. m_resume_snapshot("local")' = m_resume_snapshot("local")
    BY DEF m_resume_snapshot
  <2>1. ctl'["local"].waiting_resume => ctl["local"].waiting_resume
    BY <1>b, SideFacts DEF Side
  <2>2. Asking => /\ ctl'["local"].phase # "none"
                  /\ ~Alive(ctl'["local"]) /\ ~Alive(ctl'["remote"])
    BY <1>b, SideFacts DEF Side, Asking
  <2> QED BY <2>0, <2>1, <2>2, ShrinksSame, AskedStep DEF Asking
<1>3. Answered'
  <2>1. ctl'["local"].waiting_resume => ctl["local"].waiting_resume
    BY <1>b, SideFacts DEF Side
  <2>3. Fitting' = Fitting
    BY DEF Fitting, Fits
  <2> QED BY <2>1, <2>3 DEF Session, Answered
<1>4. Links'
  <2>1. Link(wire'[s], snd'[s], rcv'[p], ctl'[s], ctl'[p], att'[p])
    BY <1>b, SessionSide, LinkWeaker
  <2>2. Link(wire'[p], snd'[p], rcv'[s], ctl'[p], ctl'[s], att'[s])
    BY <1>b, SessionSide, LinkWeaker
  <2> QED BY <2>1, <2>2, LinksStep
<1> QED BY <1>1, <1>2, <1>3, <1>4, SessionKept

LEMMA TargetConnected_Session ==
    ASSUME IInv, Data, Session, TargetConnected
    PROVE  Session'
<1>1. PICK ok \in BOOLEAN :
         ctl' = [ctl EXCEPT !["remote"].phase = "reply", !["remote"].reject = ~ok]
  BY DEF TargetConnected
<1> DEFINE c == [ctl["remote"] EXCEPT !.phase = "reply", !.reject = ~ok]
           c0 == ctl["remote"]
<1>2. /\ ctl' = [ctl EXCEPT !["remote"] = c] /\ c.phase = "reply"
      /\ c.suspended = c0.suspended /\ c.waiting_resume = c0.waiting_resume
      /\ c.resuming = c0.resuming /\ c.pending_open = c0.pending_open
  BY <1>1, Typed, SideFacts DEF Ctl
<1>3. /\ snd' = snd /\ rcv' = rcv /\ wire' = wire /\ att' = att /\ failed' = failed
      /\ c0.phase = "connecting"
  BY DEF TargetConnected, transportVars
<1>4. Stage("remote", c0, snd["remote"], rcv["remote"], att["remote"], wire["remote"])
  BY SessionSide, SideFacts
<1> HIDE DEF c
<1>5. ~c.suspended /\ ~c.resuming /\ ~c.pending_open /\ ~c.waiting_resume
  BY <1>2, <1>3, <1>4 DEF Stage
<1>6. Alive(c) /\ Alive(c0)
  BY <1>2, <1>3, <1>5 DEF Alive
<1>7. Stage("remote", c, snd["remote"], rcv["remote"], att["remote"], wire["remote"])
  BY <1>2, <1>4, <1>5, <1>6 DEF Stage
<1> QED BY <1>2, <1>3, <1>5, <1>6, <1>7, CtlSession, SideFacts

LEMMA ClockTick_Session ==
    ASSUME IInv, Data, Session, NEW s \in Side, ClockTick(s)
    PROVE  Session'
<1> DEFINE g == CountDown(ctl[s].grace)
           c == [ctl[s] EXCEPT !.grace = g]
<1>1. /\ snd' = snd /\ rcv' = rcv /\ att' = att /\ failed' = failed
      /\ wire' = wire /\ ctl' = [ctl EXCEPT ![s] = c]
  BY Typed DEF ClockTick
<1> HIDE DEF g
<1>2. /\ c.phase = ctl[s].phase /\ c.pending_open = ctl[s].pending_open
      /\ c.suspended = ctl[s].suspended /\ c.resuming = ctl[s].resuming
      /\ c.waiting_resume = ctl[s].waiting_resume /\ c.grace = g
  BY Typed DEF Ctl
<1> HIDE DEF c
<1>3. Alive(c) <=> Alive(ctl[s])
  BY <1>2 DEF Alive
<1>4. Stage(s, c, snd[s], rcv[s], att[s], wire[s])
  BY <1>2, <1>3, SessionSide DEF Stage
<1>5. s = "remote" /\ c.phase = "reply" /\ c.resuming => rcv["remote"].rx = <<>>
  BY <1>2 DEF Session, Stages, Quiet
<1>6. CASE c.phase # "none"
  BY <1>1, <1>2, <1>3, <1>4, <1>5, <1>6, CtlSession
<1>7. CASE c.phase = "none"
  <2>1. ctl[s].grace = None
    BY <1>2, <1>7 DEF IInv, Unopened, Idle
  <2>2. ctl' = ctl
    <3>1. g = ctl[s].grace
      BY <2>1 DEF g, CountDown, None
    <3>2. c = ctl[s]
      BY <3>1, Typed DEF c, Ctl
    <3> QED BY <1>1, <3>2, Typed
  <2> QED BY <1>1, <2>2 DEF Session, Stages, Quiet, Asked, Asking, m_resume_snapshot,
        Answered, Fitting, Fits, Links, NoProtocolError
<1> QED BY <1>6, <1>7

LEMMA m_local_flow_Session ==
    ASSUME IInv, Data, Session, m_local_flow
    PROVE  Session'
<1>a. /\ snd' = snd /\ rcv' = rcv /\ att' = att /\ failed' = failed
      /\ ctl["local"].phase = "none" /\ ctl["local"] \in Ctl
  BY Typed, SideFacts DEF m_local_flow, transportVars
<1>b. /\ Stage("local", ctl["local"], snd["local"], rcv["local"], att["local"], wire["local"])
      /\ Stage("remote", ctl["remote"], snd["remote"], rcv["remote"], att["remote"],
               wire["remote"])
      /\ Link(wire["local"], snd["local"], rcv["remote"], ctl["local"], ctl["remote"],
              att["remote"])
      /\ Link(wire["remote"], snd["remote"], rcv["local"], ctl["remote"], ctl["local"],
              att["local"])
  BY SessionSide, SideFacts
<1>c. Idle(ctl["local"]) /\ snd["local"] = NewSnd /\ rcv["local"].rx = <<>>
      /\ ~Alive(ctl["local"])
  BY <1>a, <1>b, SideFacts DEF Stage, Alive, IInv, Unopened
<1>1. CASE Attached("local")
  <2> DEFINE c == [ctl["local"] EXCEPT !.phase = "control"]
             e == [kind |-> "open"]
             q == Sent("local", <<e>>)
  <2>1. /\ ctl' = [ctl EXCEPT !["local"] = c] /\ c.phase = "control"
        /\ ~c.suspended /\ ~c.waiting_resume /\ ~c.pending_open
    BY <1>1, <1>a, <1>c, Typed, SideFacts DEF m_local_flow, Ctl, Idle
  <2>2. wire' = [wire EXCEPT !["local"] = q] /\ att["local"] = "ready"
    BY <1>1 DEF m_local_flow, Attached
  <2> HIDE DEF c
  <2>3. e \in Msg /\ e.kind = "open" /\ <<e>> \in Seq(NoResume)
    <3>1. e \in Msg /\ e.kind = "open"
      BY DEF Msg
    <3>2. e \in NoResume
      BY <3>1 DEF NoResume
    <3> HIDE DEF e
    <3> QED BY <3>1, <3>2
  <2> HIDE DEF e
  <2>4. /\ ctl'["local"] = c /\ ctl'["remote"] = ctl["remote"]
        /\ wire'["local"] = q /\ wire'["remote"] = wire["remote"]
    BY <2>1, <2>2, Typed, SideFacts
  <2>5. Stages'
    <3>1. Stage("local", c, snd["local"], rcv["local"], att["local"], q)
      BY <1>b, <2>1, <2>2 DEF Stage
    <3>2. Quiet'
      BY <1>a, <2>2, <2>4 DEF Session, Stages, Quiet
    <3> QED BY <1>a, <1>b, <2>4, <3>1, <3>2, StagesStep, SideFacts
  <2>6. Asked'
    <3>1. Shrinks(wire["local"], wire'["local"])
      BY <2>3, <2>4, ShrinksSent, SideFacts
    <3>2. ~Asking /\ ~ctl'["local"].waiting_resume
      BY <1>a, <2>1, <2>4 DEF Asking
    <3> QED BY <3>1, <3>2, AskedStep
  <2>7. Answered'
    BY <2>1, <2>4 DEF Answered
  <2>8. Links'
    <3>1. /\ snd["local"] \in Snd /\ rcv["remote"] \in Rcv
          /\ wire["local"] \in Seq(Honest(snd["local"], rcv["local"]))
          /\ Behind(snd["local"], rcv["remote"])
      BY SideData, SideFacts
    <3>2. Link(wire["local"], snd["local"], rcv["remote"], c, ctl["remote"], att["remote"])
      BY <1>b, <1>c, <3>1, LinkStart
    <3>3. Link(q, snd["local"], rcv["remote"], c, ctl["remote"], att["remote"])
      BY <2>3, <3>1, <3>2, LinkSent, SideFacts
    <3>4. Link(wire["remote"], snd["remote"], rcv["local"], ctl["remote"], c, att["local"])
      BY <1>a, <1>b, LinkWeaker
    <3> QED BY <1>a, <2>4, <3>3, <3>4, LinksStep, SideFacts
  <2> QED BY <1>a, <2>5, <2>6, <2>7, <2>8, SessionKept
<1>2. CASE ~Attached("local")
  <2>1. PICK g \in 1..MaxGrace :
             ctl' = [ctl EXCEPT !["local"].phase = "active",
                                !["local"].suspended = TRUE,
                                !["local"].pending_open = TRUE,
                                !["local"].grace = g]
    BY <1>2 DEF m_local_flow
  <2> DEFINE c == [ctl["local"] EXCEPT !.phase = "active", !.suspended = TRUE,
                                        !.pending_open = TRUE, !.grace = g]
  <2>2. wire' = wire
    BY <1>2 DEF m_local_flow
  <2>3. /\ ctl' = [ctl EXCEPT !["local"] = c] /\ c.phase = "active"
        /\ c.suspended /\ c.pending_open /\ ~c.waiting_resume
    BY <1>a, <1>c, <2>1, Typed, SideFacts DEF Ctl, Idle
  <2> HIDE DEF c
  <2>4. ~Alive(c)
    BY <2>3 DEF Alive
  <2>5. Stage("local", c, snd["local"], rcv["local"], att["local"], wire["local"])
    BY <1>b, <1>c, <2>3, <2>4 DEF Stage
  <2> QED BY <1>a, <1>c, <2>2, <2>3, <2>4, <2>5, CtlSession, SideFacts
<1> QED BY <1>1, <1>2

LEMMA ReadOpen_Session ==
    ASSUME IInv, Data, Session, ReadOpen
    PROVE  Session'
<1> DEFINE c == [NewCtl EXCEPT !.phase = "connecting"]
           q == Tail(wire["local"])
<1>1. /\ ctl["remote"].phase = "none" /\ snd' = snd /\ rcv' = rcv
      /\ att' = att /\ failed' = failed
  BY OpenOnce DEF ReadOpen, transportVars
<1>2. /\ ctl' = [ctl EXCEPT !["remote"] = c] /\ c.phase = "connecting"
      /\ ~c.suspended /\ ~c.waiting_resume /\ ~c.resuming /\ ~c.pending_open
  BY DEF ReadOpen, NewCtl
<1>3. /\ wire["local"] # <<>> /\ wire' = [wire EXCEPT !["local"] = q]
      /\ Head(wire["local"]).kind = "open" /\ att["remote"] = "ready"
      /\ wire["local"] \in Seq(Msg)
  BY SideFacts, Typed DEF ReadOpen, CanRead, Pop, Head1, Attached
<1> HIDE DEF c
<1>4. /\ ctl'["remote"] = c /\ ctl'["local"] = ctl["local"]
      /\ wire'["local"] = q /\ wire'["remote"] = wire["remote"]
  BY <1>2, <1>3, Typed, SideFacts
<1>5. ~First(wire["local"]) /\ ~ctl["local"].waiting_resume
  BY <1>3 DEF First, Session, Asked
<1>b. /\ Stage("local", ctl["local"], snd["local"], rcv["local"], att["local"], wire["local"])
      /\ Stage("remote", ctl["remote"], snd["remote"], rcv["remote"], att["remote"],
               wire["remote"])
      /\ Link(wire["local"], snd["local"], rcv["remote"], ctl["local"], ctl["remote"],
              att["remote"])
      /\ Link(wire["remote"], snd["remote"], rcv["local"], ctl["remote"], ctl["local"],
              att["local"])
  BY SessionSide, SideFacts
<1>c. att["local"] # "setup"
  BY <1>3, <1>b DEF Stage
<1>6. Stages'
  <2>1. Stage("remote", c, snd["remote"], rcv["remote"], att["remote"], wire["remote"])
    BY <1>2, <1>3, <1>b DEF Stage
  <2>2. Stage("local", ctl["local"], snd["local"], rcv["local"], att["local"], q)
    BY <1>b, <1>c DEF Stage
  <2>3. Quiet'
    BY <1>1, <1>2, <1>4, <1>c DEF Quiet
  <2> QED BY <1>1, <1>4, <2>1, <2>2, <2>3, StagesStep, SideFacts
<1>7. Asked'
  BY <1>3, <1>4, <1>5, ShrinksTail, AskedStep
<1>8. Answered'
  BY <1>4, <1>5 DEF Answered
<1>9. Links'
  <2>1. /\ snd["remote"] \in Snd /\ rcv["local"] \in Rcv
        /\ snd["local"] \in Snd /\ rcv["remote"] \in Rcv
        /\ wire["remote"] \in Seq(Honest(snd["remote"], rcv["remote"]))
        /\ Behind(snd["remote"], rcv["local"])
    BY SideData, SideFacts
  <2>2. snd["remote"] = NewSnd
    BY <1>1 DEF Data, Fresh
  <2>3. Link(wire["remote"], snd["remote"], rcv["local"], c, ctl["local"], att["local"])
    BY <1>b, <2>1, <2>2, LinkStart
  <2>4. Link(q, snd["local"], rcv["remote"], ctl["local"], c, att["remote"])
    BY <1>1, <1>3, <1>b, <2>1, LinkPop
  <2> QED BY <1>1, <1>4, <2>3, <2>4, LinksStep, SideFacts
<1> QED BY <1>1, <1>6, <1>7, <1>8, <1>9, SessionKept

LEMMA BothSides ==
    ASSUME Session
    PROVE  /\ Stage("local", ctl["local"], snd["local"], rcv["local"], att["local"],
                    wire["local"])
           /\ Stage("remote", ctl["remote"], snd["remote"], rcv["remote"], att["remote"],
                    wire["remote"])
           /\ Link(wire["local"], snd["local"], rcv["remote"], ctl["local"],
                   ctl["remote"], att["remote"])
           /\ Link(wire["remote"], snd["remote"], rcv["local"], ctl["remote"],
                   ctl["local"], att["local"])
BY SessionSide, SideFacts

(* A broker that uses its stream has nothing to be asked, and the client  *)
(* has left the setup of the attempt.                                      *)
LEMMA AliveRemote ==
    ASSUME Session, Alive(ctl["remote"])
    PROVE  /\ ~Asking /\ ~First(wire["local"]) /\ att["local"] # "setup"
           /\ ctl["local"].waiting_resume => wire["local"] = <<>>
BY DEF Session, Asked, Asking, Stages, Quiet

LEMMA SnapshotFits ==
    ASSUME IInv, Data, rcv["remote"].rx = <<>>
    PROVE  Fits(m_resume_snapshot("remote"))
<1>1. /\ SndOk(snd["remote"]) /\ Behind(snd["remote"], rcv["local"])
      /\ RcvOk(rcv["local"], sock["local"])
      /\ snd["remote"] \in Snd /\ rcv["local"] \in Rcv
  BY SideData, SideFacts
<1>2. snd["remote"].tx_base <= rcv["local"].rx_commit
  BY SideFacts DEF IInv, NoLoss
<1>3. rcv["local"].rx_commit <= m_tx_next(snd["remote"])
  BY SMTT(60), <1>1, SndFields, RcvFields DEF SndOk, Behind, RcvOk
<1>4. rcv["local"].rx_fin => snd["remote"].socket_eof
  BY <1>1 DEF Behind
<1> QED BY <1>2, <1>3, <1>4 DEF Fits, m_resume_snapshot

LEMMA m_reply_flush_Session ==
    ASSUME IInv, Data, Session, m_reply_flush
    PROVE  Session'
<1> DEFINE c0 == ctl["remote"]
           e == IF c0.resuming
                THEN [kind |-> "rack", ok |-> TRUE,
                      snap |-> m_resume_snapshot("remote")]
                ELSE [kind |-> "oack", ok |-> ~c0.reject]
           out == Sent("remote", <<e>>)
           c == IF c0.reject THEN Dead(c0)
                ELSE [c0 EXCEPT !.phase = "active", !.acked = TRUE]
<1>a. /\ snd' = snd /\ rcv' = rcv /\ att' = att /\ failed' = failed
      /\ c0.phase = "reply" /\ c0 \in Ctl /\ att["remote"] = "ready"
  BY Typed, SideFacts DEF m_reply_flush, transportVars, Attached
<1>b. /\ ctl' = [ctl EXCEPT !["remote"] = c]
      /\ \/ ResetWire("remote", out) /\ c0.reject
         \/ wire' = [wire EXCEPT !["remote"] = out] /\ ~c0.reject
  <2>1. CASE c0.reject
    BY <2>1 DEF m_reply_flush
  <2>2. CASE ~c0.reject
    BY <2>2, Typed, SideFacts DEF m_reply_flush
  <2> QED BY <2>1, <2>2
<1>c. ~c0.suspended /\ ~c0.waiting_resume /\ ~c0.pending_open /\ Alive(c0)
  BY <1>a, BothSides DEF Stage, Alive
<1>d. /\ c.phase \in {"active", "dead"} /\ ~c.suspended /\ ~c.waiting_resume
      /\ ~c.pending_open /\ (c.phase = "dead" <=> c0.reject)
  BY <1>a, <1>c, DeadIdle DEF Ctl, Idle
<1>e. e \in Msg /\ e.kind \in {"rack", "oack"} /\ e \in Fitting
  <2>1. CASE c0.resuming
    <3> DEFINE m == m_resume_snapshot("remote")
    <3>1. m \in Snapshots
      BY Typed, SideFacts, SnapshotType
    <3>2. Fits(m)
      BY <1>a, <2>1, SnapshotFits DEF Session, Stages, Quiet
    <3> HIDE DEF m
    <3>3. e = [kind |-> "rack", ok |-> TRUE, snap |-> m]
      BY <2>1 DEF m
    <3> HIDE DEF e
    <3> QED BY <3>1, <3>2, <3>3 DEF Msg, Fitting
  <2>2. CASE ~c0.resuming
    BY <1>a, <2>2 DEF Msg, Fitting, Ctl
  <2> QED BY <2>1, <2>2
<1> HIDE DEF e, c
<1>f. out \in Seq(Msg)
  <2>1. <<e>> \in Seq(Msg) /\ wire["remote"] \in Seq(Msg)
    BY <1>e, Typed, SideFacts
  <2> QED BY <2>1, SideFacts, SentType
<1>g. /\ ctl'["remote"] = c /\ ctl'["local"] = ctl["local"]
      /\ wire'["local"] = wire["local"]
  <2>1. ctl'["remote"] = c /\ ctl'["local"] = ctl["local"]
    BY <1>b, Typed, SideFacts
  <2>2. CASE ResetWire("remote", out)
    BY ZenonT(60), <1>f, <2>1, <2>2, Typed, SideFacts, ResetWireType DEF Msg
  <2>3. CASE wire' = [wire EXCEPT !["remote"] = out]
    BY <2>1, <2>3, Typed, SideFacts
  <2> QED BY <1>b, <2>2, <2>3
<1>1. Stages'
  <2>1. Stage("remote", c, snd["remote"], rcv["remote"], att["remote"], wire'["remote"])
    BY <1>a, <1>d DEF Stage
  <2>2. Quiet'
    BY <1>a, <1>c, <1>d, <1>g, AliveRemote DEF Quiet
  <2> QED BY <1>a, <1>g, <2>1, <2>2, BothSides, StagesStep, SideFacts
<1>2. Asked'
  BY <1>c, <1>g, AliveRemote, ShrinksSame, AskedStep
<1>3. Answered'
  <2>1. Fitting' = Fitting
    BY <1>a DEF Fitting, Fits
  <2>2. ASSUME ctl["local"].waiting_resume PROVE wire'["remote"] \in Seq(Fitting)
    <3>1. wire["remote"] \in Seq(Fitting) /\ <<e>> \in Seq(Fitting)
      BY <1>e, <2>2 DEF Session, Answered
    <3>2. out \in Seq(Fitting)
      BY <3>1, SentType, SideFacts
    <3>3. CASE ResetWire("remote", out)
      BY <3>2, <3>3, Typed, SideFacts, ResetWireType, FittingPlain
    <3>4. CASE wire' = [wire EXCEPT !["remote"] = out]
      BY <3>2, <3>4, Typed, SideFacts
    <3> QED BY <1>b, <3>3, <3>4
  <2> QED BY <1>g, <2>1, <2>2 DEF Answered
<1>4. Links'
  <2>0. snd["remote"] \in Snd /\ rcv["local"] \in Rcv
    BY Typed, SideFacts
  <2>1. Link(out, snd["remote"], rcv["local"], c0, ctl["local"], att["local"])
    BY <1>e, <2>0, BothSides, LinkSent, SideFacts
  <2>2. Link(wire'["remote"], snd["remote"], rcv["local"], c, ctl["local"], att["local"])
    <3>1. CASE ResetWire("remote", out) /\ c0.reject
      <4>1. ~Alive(c)
        BY <1>d, <3>1 DEF Alive
      <4>2. ctl["local"].phase # "dead" => Chained(out, rcv["local"].rx_next)
        BY <2>1 DEF Link
      <4> QED BY <1>f, <2>0, <3>1, <4>1, <4>2, Typed, SideFacts, LinkReset
    <3>2. CASE wire' = [wire EXCEPT !["remote"] = out]
      <4>1. wire'["remote"] = out
        BY <3>2, Typed, SideFacts
      <4> QED BY <1>c, <2>1, <4>1, LinkWeaker
    <3> QED BY <1>b, <3>1, <3>2
  <2>3. Link(wire["local"], snd["local"], rcv["remote"], ctl["local"], c, att["remote"])
    BY <1>a, BothSides, LinkWeaker
  <2> QED BY <1>a, <1>g, <2>2, <2>3, LinksStep, SideFacts
<1> QED BY <1>1, <1>2, <1>3, <1>4, <1>a, SessionKept

LEMMA ReadOpenAck_Session ==
    ASSUME IInv, Data, Session, ReadOpenAck
    PROVE  Session'
<1> DEFINE c0 == ctl["local"]
           q == Tail(wire["remote"])
<1>a. /\ snd' = snd /\ rcv' = rcv /\ att' = att /\ failed' = failed
      /\ c0.phase = "control" /\ c0 \in Ctl /\ ~c0.waiting_resume
      /\ att["local"] = "ready"
      /\ wire["remote"] # <<>> /\ Head(wire["remote"]).kind = "oack"
  BY Typed, SideFacts DEF ReadOpenAck, transportVars, Attached, CanRead, Head1
<1>1. CASE m_abort("local")
  BY <1>a, <1>1, AbortSession, SideFacts
<1>2. CASE ~m_abort("local")
  <2> DEFINE c == [c0 EXCEPT !.phase = "active", !.acked = TRUE]
  <2>1. ctl' = [ctl EXCEPT !["local"] = c] /\ wire' = [wire EXCEPT !["remote"] = q]
    BY <1>2, Typed, SideFacts DEF ReadOpenAck, Pop
  <2>2. ~c0.suspended /\ Alive(c0) /\ ~c0.pending_open
    BY <1>a, BothSides DEF Stage, Alive
  <2>3. /\ c.phase = "active" /\ ~c.suspended /\ ~c.waiting_resume /\ ~c.pending_open
    BY <1>a, <2>2 DEF Ctl
  <2> HIDE DEF c
  <2>4. /\ ctl'["local"] = c /\ ctl'["remote"] = ctl["remote"]
        /\ wire'["remote"] = q /\ wire'["local"] = wire["local"]
    BY <2>1, Typed, SideFacts
  <2>5. Stages'
    <3>1. Stage("local", c, snd["local"], rcv["local"], att["local"], wire["local"])
      BY <1>a, <2>3 DEF Stage
    <3>2. att["remote"] # "setup"
      BY <1>a, BothSides DEF Stage
    <3>3. Stage("remote", ctl["remote"], snd["remote"], rcv["remote"], att["remote"], q)
      BY <3>2, BothSides DEF Stage
    <3>4. Quiet'
      BY <1>a, <2>4 DEF Session, Stages, Quiet
    <3> QED BY <1>a, <2>4, <3>1, <3>3, <3>4, StagesStep, SideFacts
  <2>6. Asked'
    <3>1. ~Asking
      BY <2>2 DEF Asking
    <3> QED BY <2>3, <2>4, <3>1, ShrinksSame, AskedStep
  <2>7. Answered'
    BY <2>3, <2>4 DEF Answered
  <2>8. Links'
    <3>0. /\ snd["remote"] \in Snd /\ rcv["local"] \in Rcv
          /\ snd["local"] \in Snd /\ wire["remote"] \in Seq(Msg)
      BY Typed, SideFacts
    <3>1. Link(q, snd["remote"], rcv["local"], ctl["remote"], c, att["local"])
      BY <1>a, <3>0, BothSides, LinkPop
    <3>2. Link(wire["local"], snd["local"], rcv["remote"], c, ctl["remote"], att["remote"])
      BY <2>2, BothSides, LinkWeaker
    <3> QED BY <1>a, <2>4, <3>1, <3>2, LinksStep, SideFacts
  <2> QED BY <1>a, <2>5, <2>6, <2>7, <2>8, SessionKept
<1> QED BY <1>1, <1>2

LEMMA NewAttempt_Session ==
    ASSUME IInv, Data, Session, NewAttempt
    PROVE  Session'
<1>a. /\ ctl' = ctl /\ snd' = snd /\ rcv' = rcv /\ failed' = failed
      /\ att["local"] = "down" /\ att["remote"] = "down"
      /\ att'["local"] = "setup" /\ att'["remote"] = "setup"
      /\ wire'["local"] = <<>> /\ wire'["remote"] = <<>>
  BY SideFacts DEF NewAttempt
<1>b. /\ ~Alive(ctl["local"]) /\ ~Alive(ctl["remote"])
      /\ ~ctl["local"].waiting_resume /\ ~ctl["remote"].waiting_resume
  BY <1>a, BothSides DEF Stage
<1>1. Stages'
  <2>1. /\ Stage("local", ctl["local"], snd["local"], rcv["local"], "setup", <<>>)
        /\ Stage("remote", ctl["remote"], snd["remote"], rcv["remote"], "setup", <<>>)
    BY <1>b, BothSides DEF Stage
  <2>2. Quiet'
    BY <1>a, <1>b DEF Session, Stages, Quiet
  <2> QED BY <1>a, <2>1, <2>2, StagesStep, SideFacts
<1>2. Asked'
  <2>1. Shrinks(wire["local"], wire'["local"]) /\ ~First(wire'["local"])
    BY <1>a, ShrinksSame DEF First
  <2> QED BY <1>a, <1>b, <2>1, AskedStep
<1>3. Answered'
  BY <1>a, <1>b DEF Answered
<1>4. Links'
  <2>1. /\ snd["remote"] \in Snd /\ rcv["local"] \in Rcv
        /\ snd["local"] \in Snd /\ rcv["remote"] \in Rcv
    BY Typed, SideFacts
  <2>2. /\ Link(<<>>, snd["local"], rcv["remote"], ctl["local"], ctl["remote"], "setup")
        /\ Link(<<>>, snd["remote"], rcv["local"], ctl["remote"], ctl["local"], "setup")
    BY <1>b, <2>1, LinkEmpty
  <2> QED BY <1>a, <2>2, LinksStep, SideFacts
<1> QED BY <1>1, <1>2, <1>3, <1>4, <1>a, SessionKept

LEMMA ReadReset_Session ==
    ASSUME IInv, Data, Session, NEW s \in Side, ReadReset(s)
    PROVE  Session'
<1> DEFINE p == Peer(s)
           c == Dead(ctl[s])
<1>a. /\ snd' = snd /\ rcv' = rcv /\ att' = att /\ failed' = failed
      /\ ctl' = [ctl EXCEPT ![s] = c]
      /\ wire' = [wire EXCEPT ![s] = <<>>, ![p] = <<>>]
      /\ att[s] = "ready"
  BY DEF ReadReset, transportVars, CanRead, Attached
<1>b. /\ c.phase = "dead" /\ Idle(c) /\ ~Alive(c)
      /\ \A x, t, r, a, q : (a = "setup" => q = <<>>) => Stage(x, c, t, r, a, q)
  BY Typed, DeadIdle, DeadGone
<1> HIDE DEF c
<1>c. /\ ctl'[s] = c /\ ctl'[p] = ctl[p] /\ wire'[s] = <<>> /\ wire'[p] = <<>>
  BY <1>a, Typed, SideFacts
<1>d. wire'["local"] = <<>> /\ wire'["remote"] = <<>>
  BY <1>c, SideFacts DEF Side
<1>e. /\ ctl'["local"].waiting_resume => ctl["local"].waiting_resume
      /\ ctl'["remote"].phase = "reply" => ctl'["remote"] = ctl["remote"]
      /\ Alive(ctl'["remote"]) => Alive(ctl["remote"])
  BY <1>b, <1>c, SideFacts DEF Side, Idle
<1>1. Stages'
  <2>1. Stage(p, ctl[p], snd[p], rcv[p], att[p], <<>>)
    BY SessionSide DEF Stage
  <2>2. Quiet'
    BY <1>a, <1>d, <1>e DEF Session, Stages, Quiet
  <2>3. Stage(s, c, snd[s], rcv[s], att[s], <<>>)
    BY <1>b
  <2> QED BY <1>a, <1>c, <2>1, <2>2, <2>3, StagesStep
<1>2. Asked'
  <2>1. Shrinks(wire["local"], wire'["local"]) /\ ~First(wire'["local"])
    BY <1>d, ShrinksSame DEF First
  <2> QED BY <1>d, <1>e, <2>1, AskedStep
<1>3. Answered'
  <2>1. <<>> \in Seq(Fitting')
    OBVIOUS
  <2> QED BY <1>d, <2>1 DEF Answered
<1>4. Links'
  <2>1. snd[s] \in Snd /\ rcv[p] \in Rcv
    BY Typed, SideFacts
  <2>2. Link(<<>>, snd[s], rcv[p], c, ctl[p], att[p])
    BY <1>b, <2>1, LinkEmpty
  <2>3. Alive(ctl[p]) => rcv[s].rx_next <= Cursor(snd[p])
    BY SessionSide DEF Link, Within
  <2>4. Link(<<>>, snd[p], rcv[s], ctl[p], c, att[s])
    BY <1>b, <2>3 DEF Link, Within
  <2> QED BY <1>a, <1>c, <2>2, <2>4, LinksStep
<1> QED BY <1>1, <1>2, <1>3, <1>4, <1>a, SessionKept

(* What the broker knows when a RESUME is the next frame. *)
LEMMA ResumeFacts ==
    ASSUME IInv, Data, Session, CanRead("remote", {"resume"})
    PROVE  LET q == wire["local"]
           IN  /\ Asking /\ Head1("remote") = Head(q) /\ q # <<>> /\ q \in Seq(Msg)
               /\ Head(q).kind = "resume"
               /\ att["remote"] = "ready" /\ att["local"] # "setup"
               /\ LateFree(q) /\ ~First(Tail(q)) /\ Shrinks(q, Tail(q))
               /\ ctl["local"].waiting_resume => Tail(q) = <<>>
<1> DEFINE q == wire["local"]
<1>1. /\ q # <<>> /\ Head1("remote") = Head(q) /\ Head(q).kind = "resume"
      /\ att["remote"] = "ready" /\ q \in Seq(Msg)
  BY Typed, SideFacts DEF CanRead, Head1, Attached
<1>2. First(q)
  BY <1>1 DEF First
<1>3. Asking /\ LateFree(q)
  BY <1>2 DEF Session, Asked
<1>4. att["local"] # "setup"
  BY <1>1, BothSides DEF Stage
<1>5. ASSUME ctl["local"].waiting_resume PROVE Tail(q) = <<>>
  <2>1. Len(q) = 1
    BY <1>1, <1>5 DEF Session, Asked
  <2>2. Tail(q) \in Seq(Msg) /\ Len(Tail(q)) = 0
    BY <1>1, <2>1, HeadTailProperties
  <2> QED BY <2>2, EmptySeq
<1> QED BY <1>1, <1>3, <1>4, <1>5, ShrinksTail

LEMMA ReadResume_Session ==
    ASSUME IInv, Data, Session, ReadResume
    PROVE  Session'
<1> DEFINE c0 == ctl["remote"]
           q == wire["local"]
           m == Head1("remote").snap
           ok == Retained(c0) /\ ResumeOk(snd["remote"], rcv["remote"], m)
<1>a. /\ att' = att /\ failed' = failed /\ CanRead("remote", {"resume"})
  BY DEF ReadResume, transportVars
<1>b. /\ Asking /\ q # <<>> /\ q \in Seq(Msg) /\ Head(q).kind = "resume"
      /\ m = Head(q).snap
      /\ att["remote"] = "ready" /\ att["local"] # "setup"
      /\ ~First(Tail(q)) /\ Shrinks(q, Tail(q))
      /\ ctl["local"].waiting_resume => Tail(q) = <<>>
  BY <1>a, ResumeFacts
<1>c. /\ m = m_resume_snapshot("local") /\ rcv["local"].rx = <<>>
      /\ ~Alive(ctl["local"]) /\ ~Alive(c0) /\ wire["remote"] = <<>>
  BY <1>b DEF Asking
<1>d. /\ m \in Snapshots /\ m.delivered = rcv["local"].rx_commit
  BY <1>c, Typed, SideFacts, SnapshotType
<1>e. /\ snd["remote"] \in Snd /\ rcv["local"] \in Rcv
      /\ snd["local"] \in Snd /\ rcv["remote"] \in Rcv
      /\ c0 \in Ctl /\ SndOk(snd["remote"])
      /\ RcvOk(rcv["local"], sock["local"]) /\ RcvOk(rcv["remote"], sock["remote"])
  BY Typed, SideFacts, SideData
<1>1. CASE ok
  <2> DEFINE c == [c0 EXCEPT !.suspended = FALSE, !.resuming = TRUE,
                             !.acked = FALSE, !.phase = "reply"]
             t == ResumeSnd(snd["remote"], m)
             r == ResumeRcv(rcv["remote"], m)
  <2>1. /\ ctl' = [ctl EXCEPT !["remote"] = c]
        /\ snd' = [snd EXCEPT !["remote"] = t] /\ rcv' = [rcv EXCEPT !["remote"] = r]
        /\ wire' = [wire EXCEPT !["local"] = Tail(q)]
    BY <1>1, Typed, SideFacts DEF ReadResume, Pop
  <2>2. /\ c0.suspended /\ c0.phase = "active" /\ ~c0.pending_open
        /\ ~c0.waiting_resume /\ rcv["remote"].rx = <<>>
    BY <1>1, BothSides DEF Retained, Stage
  <2>3. /\ c.phase = "reply" /\ ~c.suspended /\ ~c.pending_open
        /\ ~c.waiting_resume
    BY <1>e, <2>2 DEF Ctl
  <2>4. t \in Snd /\ t.tx_base = m.delivered /\ t.tx_pos = 0
    BY <1>1, <1>d, <1>e, ResumeEffect
  <2>5. r.rx = <<>> /\ r.rx_next = rcv["remote"].rx_commit
    BY <1>e DEF ResumeRcv, Rcv
  <2> HIDE DEF c, t, r, m
  <2>6. /\ ctl'["remote"] = c /\ ctl'["local"] = ctl["local"]
        /\ wire'["local"] = Tail(q) /\ wire'["remote"] = wire["remote"]
        /\ snd'["remote"] = t /\ snd'["local"] = snd["local"]
        /\ rcv'["remote"] = r /\ rcv'["local"] = rcv["local"]
    BY <2>1, Typed, SideFacts
  <2>7. Stages'
    <3>1. Stage("remote", c, t, r, att["remote"], wire["remote"])
      BY <1>b, <2>3 DEF Stage
    <3>2. Stage("local", ctl["local"], snd["local"], rcv["local"], att["local"], Tail(q))
      BY <1>b, BothSides DEF Stage
    <3>3. Quiet'
      BY <1>a, <1>b, <2>5, <2>6 DEF Quiet
    <3> QED BY <1>a, <2>6, <3>1, <3>2, <3>3, StagesStep, SideFacts
  <2>8. Asked'
    BY <1>b, <2>6, AskedStep
  <2>9. Answered'
    <3>1. <<>> \in Seq(Fitting')
      OBVIOUS
    <3> QED BY <1>c, <2>6, <3>1 DEF Answered
  <2>10. Links'
    <3>1. /\ Cursor(t) = rcv["local"].rx_commit
          /\ rcv["local"].rx_next = rcv["local"].rx_commit
          /\ rcv["remote"].rx_next = rcv["remote"].rx_commit
      BY <1>c, <1>d, <1>e, <2>2, <2>4, RcvFields DEF Cursor, RcvOk
    <3>2. Link(<<>>, t, rcv["local"], c, ctl["local"], att["local"])
      BY <1>e, <2>4, <3>1, LinkEmpty, RcvFields
    <3>3. Link(Tail(q), snd["local"], rcv["remote"], ctl["local"], c, att["remote"])
      BY <1>b, <1>e, <2>2, BothSides, LinkPop
    <3>4. Link(Tail(q), snd["local"], r, ctl["local"], c, att["remote"])
      BY <2>5, <3>1, <3>3, LinkWeaker
    <3> QED BY <1>a, <1>c, <2>6, <3>2, <3>4, LinksStep, SideFacts
  <2> QED BY <1>a, <2>7, <2>8, <2>9, <2>10, SessionKept
<1>2. CASE ~ok
  <2> DEFINE a == [kind |-> "rack", ok |-> FALSE, snap |-> m_resume_snapshot("remote")]
             b == [kind |-> "reset"]
             out == Sent("remote", <<a, b>>)
  <2>1. /\ ctl' = ctl /\ snd' = snd /\ rcv' = rcv
        /\ wire' = [wire EXCEPT !["local"] = Tail(q), !["remote"] = out]
    BY <1>2 DEF ReadResume
  <2>2. /\ wire'["local"] = Tail(q) /\ wire'["remote"] = out
    BY <2>1, Typed, SideFacts
  <2>3. a \in Fitting /\ b \in Fitting /\ a.kind = "rack" /\ b.kind = "reset"
    BY FittingPlain, Typed, SideFacts, SnapshotType
  <2> HIDE DEF a, b
  <2>4. <<a, b>> \in Seq(Fitting) /\ Len(<<a, b>>) = 2
        /\ \A i \in 1..2 : <<a, b>>[i].kind \notin {"data", "fin"}
    BY <2>3
  <2>5. out = <<>> \/ out = <<a, b>>
    <3>1. <<>> \o <<a, b>> = <<a, b>>
      BY <2>4, ConcatEmptySeq
    <3> QED BY <1>c, <3>1 DEF Sent
  <2> HIDE DEF out
  <2>6. Stages'
    <3>1. Stage("remote", ctl["remote"], snd["remote"], rcv["remote"], att["remote"], out)
      BY <1>b, BothSides DEF Stage
    <3>2. Stage("local", ctl["local"], snd["local"], rcv["local"], att["local"], Tail(q))
      BY <1>b, BothSides DEF Stage
    <3>3. Quiet'
      BY <1>a, <1>b, <2>1 DEF Session, Stages, Quiet
    <3> QED BY <1>a, <2>1, <2>2, <3>1, <3>2, <3>3, StagesStep, SideFacts
  <2>7. Asked'
    BY <1>b, <2>1, <2>2, AskedStep
  <2>8. Answered'
    <3>1. Fitting' = Fitting
      BY <2>1 DEF Fitting, Fits
    <3>2. out \in Seq(Fitting)
      <4>1. <<>> \in Seq(Fitting)
        OBVIOUS
      <4> QED BY <2>4, <2>5, <4>1
    <3> QED BY <2>2, <3>1, <3>2 DEF Answered
  <2>9. Links'
    <3>1. Chained(out, rcv["local"].rx_next)
      BY <2>4, <2>5 DEF Chained
    <3>2. Link(out, snd["remote"], rcv["local"], c0, ctl["local"], att["local"])
      BY <1>c, <3>1 DEF Link
    <3>3. Link(Tail(q), snd["local"], rcv["remote"], ctl["local"], c0, att["remote"])
      BY <1>b, <1>e, BothSides, LinkPop
    <3> QED BY <1>a, <2>1, <2>2, <3>2, <3>3, LinksStep, SideFacts
  <2> QED BY <1>a, <2>6, <2>7, <2>8, <2>9, SessionKept
<1> QED BY <1>1, <1>2

(* What the client knows when a RESUME_ACK that it waits for is the next.  *)
LEMMA ResumeAckFacts ==
    ASSUME IInv, Data, Session, CanRead("local", {"rack"}),
           ctl["local"].waiting_resume
    PROVE  /\ wire["local"] = <<>>
           /\ wire["remote"] # <<>> /\ Head1("local") = Head(wire["remote"])
           /\ Head(wire["remote"]).kind = "rack"
           /\ att["local"] = "ready" /\ att["remote"] # "setup"
           /\ Head1("local").ok => Fits(Head1("local").snap)
<1> DEFINE q == wire["remote"]
<1>1. /\ q # <<>> /\ Head1("local") = Head(q) /\ Head(q).kind = "rack"
      /\ att["local"] = "ready"
  BY Typed, SideFacts DEF CanRead, Head1, Attached
<1>2. wire["local"] = <<>>
  BY <1>1 DEF Session, Asked, Asking
<1>3. att["remote"] # "setup"
  BY <1>1, BothSides DEF Stage
<1>4. Head(q) \in Fitting
  <2>1. q \in Seq(Fitting)
    BY DEF Session, Answered
  <2> QED BY <1>1, <2>1, HeadTailProperties
<1> QED BY <1>1, <1>2, <1>3, <1>4 DEF Fitting

LEMMA ReadResumeAck_Session ==
    ASSUME IInv, Data, Session, ReadResumeAck
    PROVE  Session'
<1> DEFINE c0 == ctl["local"]
           q == wire["remote"]
           m == Head1("local").snap
           ok == Head1("local").ok /\ ResumeOk(snd["local"], rcv["local"], m)
<1>a. /\ att' = att /\ failed' = failed /\ CanRead("local", {"rack"})
      /\ c0.waiting_resume
  BY DEF ReadResumeAck, transportVars
<1>b. /\ wire["local"] = <<>> /\ q # <<>> /\ q \in Seq(Msg) /\ Head(q).kind = "rack"
      /\ m = Head(q).snap
      /\ att["local"] = "ready" /\ att["remote"] # "setup"
      /\ Head1("local").ok => Fits(m)
  BY <1>a, ResumeAckFacts, Typed, SideFacts
<1>d. m \in Snapshots
  BY <1>b, SnapHonest, SideFacts DEF Head1
<1>e. /\ snd["remote"] \in Snd /\ rcv["local"] \in Rcv
      /\ snd["local"] \in Snd /\ rcv["remote"] \in Rcv
      /\ c0 \in Ctl /\ SndOk(snd["local"])
      /\ RcvOk(rcv["local"], sock["local"]) /\ RcvOk(rcv["remote"], sock["remote"])
  BY Typed, SideFacts, SideData
<1>1. CASE ok
  <2> DEFINE c == [c0 EXCEPT !.waiting_resume = FALSE, !.suspended = FALSE,
                             !.grace = None, !.acked = TRUE, !.phase = "active"]
             t == ResumeSnd(snd["local"], m)
             r == ResumeRcv(rcv["local"], m)
  <2>1. /\ ctl' = [ctl EXCEPT !["local"] = c]
        /\ snd' = [snd EXCEPT !["local"] = t] /\ rcv' = [rcv EXCEPT !["local"] = r]
        /\ wire' = [wire EXCEPT !["remote"] = Tail(q)]
    BY <1>1, Typed, SideFacts DEF ReadResumeAck, Pop
  <2>2. /\ c0.suspended /\ c0.phase = "control" /\ ~c0.pending_open
        /\ rcv["local"].rx = <<>>
    BY <1>a, BothSides DEF Stage, IInv, Unopened
  <2>3. /\ c.phase = "active" /\ ~c.suspended /\ ~c.pending_open
        /\ ~c.waiting_resume
    BY <1>e, <2>2 DEF Ctl
  <2>4. t \in Snd /\ t.tx_base = m.delivered /\ t.tx_pos = 0
    BY <1>1, <1>d, <1>e, ResumeEffect
  <2>5. r.rx = <<>> /\ r.rx_next = rcv["local"].rx_commit
    BY <1>e DEF ResumeRcv, Rcv
  <2> HIDE DEF c, t, r, m
  <2>6. /\ ctl'["local"] = c /\ ctl'["remote"] = ctl["remote"]
        /\ wire'["remote"] = Tail(q) /\ wire'["local"] = <<>>
        /\ snd'["local"] = t /\ snd'["remote"] = snd["remote"]
        /\ rcv'["local"] = r /\ rcv'["remote"] = rcv["remote"]
    BY <1>b, <2>1, Typed, SideFacts
  <2>7. Stages'
    <3>1. Stage("local", c, t, r, att["local"], <<>>)
      BY <1>b, <2>3 DEF Stage
    <3>2. Stage("remote", ctl["remote"], snd["remote"], rcv["remote"], att["remote"],
                Tail(q))
      BY <1>b, BothSides DEF Stage
    <3>3. Quiet'
      BY <1>a, <1>b, <2>6 DEF Session, Stages, Quiet
    <3> QED BY <1>a, <2>6, <3>1, <3>2, <3>3, StagesStep, SideFacts
  <2>8. Asked'
    <3>1. Shrinks(wire["local"], wire'["local"]) /\ ~First(wire'["local"])
      BY <2>6, ShrinksSame DEF First
    <3> QED BY <2>3, <2>6, <3>1, AskedStep
  <2>9. Answered'
    BY <2>3, <2>6 DEF Answered
  <2>10. Links'
    <3>1. /\ Cursor(t) = rcv["remote"].rx_next
          /\ rcv["local"].rx_next = rcv["local"].rx_commit
      BY <1>1, <1>b, <1>d, <1>e, <2>2, <2>4, RcvFields DEF Cursor, RcvOk, Fits
    <3>2. Link(<<>>, t, rcv["remote"], c, ctl["remote"], att["remote"])
      BY <1>e, <2>4, <3>1, LinkEmpty, RcvFields
    <3>3. Link(Tail(q), snd["remote"], rcv["local"], ctl["remote"], c, att["local"])
      BY <1>b, <1>e, <2>2, BothSides, LinkPop
    <3>4. Link(Tail(q), snd["remote"], r, ctl["remote"], c, att["local"])
      BY <2>5, <3>1, <3>3, LinkWeaker
    <3> QED BY <1>a, <2>6, <3>2, <3>4, LinksStep, SideFacts
  <2> QED BY <1>a, <2>7, <2>8, <2>9, <2>10, SessionKept
<1>2. CASE ~ok
  BY <1>2, <1>a, AbortSession, SideFacts DEF ReadResumeAck
<1> QED BY <1>1, <1>2

(* What the failure of the transport leaves of a side. *)
Detached(s, c, t, r) ==
    /\ ctl'[s] = c /\ snd'[s] = t /\ rcv'[s] = r /\ t \in Snd /\ r \in Rcv
    /\ ~Alive(c) /\ ~c.waiting_resume /\ c.phase # "reply"
    /\ c.phase = "none" => ctl[s].phase = "none"
    /\ c.phase # "dead" => ctl[s].phase # "dead"
    /\ t.tx_base = snd[s].tx_base /\ m_tx_next(t) = m_tx_next(snd[s])
    /\ t.socket_eof = snd[s].socket_eof /\ t.tx_final = snd[s].tx_final
    /\ r.rx_commit = rcv[s].rx_commit /\ r.rx_next <= rcv[s].rx_next
    /\ r.rx_fin = rcv[s].rx_fin /\ r.rx_fin_applied = rcv[s].rx_fin_applied
    /\ rcv[s].rx = <<>> => r.rx = <<>>
    /\ \A q : Stage(s, c, t, r, "down", q)

LEMMA FailFacts ==
    ASSUME IInv, Data, Session, NEW s \in Side, TransportFail(s)
    PROVE  /\ Detached(s, ctl'[s], snd'[s], rcv'[s])
           /\ ctl'[Peer(s)] = ctl[Peer(s)] /\ snd'[Peer(s)] = snd[Peer(s)]
           /\ rcv'[Peer(s)] = rcv[Peer(s)]
<1> DEFINE p == Peer(s)
<1>b. PICK d : Suspend(s, d)
  BY DEF TransportFail
<1>d. /\ SndOk(snd[s]) /\ RcvOk(rcv[s], sock[s]) /\ ctl[s] \in Ctl
      /\ snd[s] \in Snd /\ rcv[s] \in Rcv
  BY SideData, Typed
<1>e. Stage(s, ctl[s], snd[s], rcv[s], att[s], wire[s])
  BY SessionSide
<1>1. CASE Kept(s, d > 0)
  <2> DEFINE c == SuspendCtl(ctl[s], d)
             t == SuspendSnd(snd[s])
             r == SuspendRcv(rcv[s])
  <2>1. /\ ctl' = [ctl EXCEPT ![s] = c] /\ snd' = [snd EXCEPT ![s] = t]
        /\ rcv' = [rcv EXCEPT ![s] = r]
    BY <1>1, <1>b DEF Suspend
  <2>2. /\ c.phase = "active" /\ c.suspended /\ ~c.waiting_resume
        /\ c.pending_open = ctl[s].pending_open /\ ctl[s].phase # "dead"
    BY <1>1, <1>d DEF SuspendCtl, Ctl, Kept
  <2>3. /\ t \in Snd /\ m_tx_next(t) = m_tx_next(snd[s]) /\ t.tx_base = snd[s].tx_base
        /\ t.socket_eof = snd[s].socket_eof /\ t.tx_final = snd[s].tx_final
    BY <1>d, SuspendEffect, SuspendType
  <2>4. /\ r \in Rcv /\ r.rx = <<>>
        /\ r.rx_next = rcv[s].rx_commit /\ r.rx_commit = rcv[s].rx_commit
        /\ r.rx_fin = rcv[s].rx_fin /\ r.rx_fin_applied = rcv[s].rx_fin_applied
    BY <1>d, SuspendRcvEffect
  <2>5. snd[s] = NewSnd => t = NewSnd
    <3>1. /\ NewSnd \in Snd /\ NewSnd.tx_pos = 0
          /\ NewSnd.sent_fin = FALSE /\ NewSnd.tx_fin_acked = FALSE
      BY NewType DEF NewSnd
    <3>2. SuspendSnd(NewSnd) = NewSnd
      BY <3>1 DEF SuspendSnd, Snd
    <3> QED BY <3>2
  <2> HIDE DEF c, t, r
  <2>6. r.rx_next <= rcv[s].rx_next
    BY <1>d, <2>4, RcvFields DEF RcvOk
  <2>7. ~Alive(c)
    BY <2>2 DEF Alive
  <2>8. \A q : Stage(s, c, t, r, "down", q)
    BY <1>e, <2>2, <2>4, <2>5, <2>7 DEF Stage
  <2>9. /\ ctl'[s] = c /\ snd'[s] = t /\ rcv'[s] = r
        /\ ctl'[p] = ctl[p] /\ snd'[p] = snd[p] /\ rcv'[p] = rcv[p]
    BY <2>1, Typed, SideFacts
  <2>10. Detached(s, c, t, r)
    BY <2>2, <2>3, <2>4, <2>6, <2>7, <2>8, <2>9 DEF Detached
  <2> QED BY <2>9, <2>10
<1>2. CASE ~Kept(s, d > 0)
  <2> DEFINE c == IF ctl[s].phase = "none" THEN ctl[s] ELSE Dead(ctl[s])
  <2>1. ctl' = [ctl EXCEPT ![s] = c] /\ snd' = snd /\ rcv' = rcv
    BY <1>2, <1>b DEF Suspend
  <2>2. /\ Idle(c) /\ c.phase \in {"none", "dead"}
        /\ c.phase = "none" => c = ctl[s]
        /\ c.phase # "dead" => ctl[s].phase # "dead"
    BY Typed, DeadIdle DEF IInv, Unopened
  <2>3. \A q : Stage(s, c, snd[s], rcv[s], "down", q)
    <3>1. CASE ctl[s].phase = "none"
      BY <1>e, <2>2, <3>1 DEF Stage, Alive, Idle
    <3>2. CASE ctl[s].phase # "none"
      BY <1>d, <3>2, DeadGone
    <3> QED BY <3>1, <3>2
  <2> HIDE DEF c
  <2>4. ~Alive(c) /\ ~c.waiting_resume
    BY <2>2 DEF Alive, Idle
  <2>5. /\ ctl'[s] = c /\ ctl'[p] = ctl[p]
    BY <2>1, Typed, SideFacts
  <2>6. Detached(s, c, snd[s], rcv[s])
    BY <1>d, <2>1, <2>2, <2>3, <2>4, <2>5, RcvFields DEF Detached
  <2> QED BY <2>1, <2>5, <2>6
<1> QED BY <1>1, <1>2

LEMMA TransportFail_Session ==
    ASSUME IInv, Data, Session, NEW s \in Side, TransportFail(s)
    PROVE  Session'
<1> DEFINE p == Peer(s)
           c == ctl'[s]
           t == snd'[s]
           r == rcv'[s]
<1>a. /\ failed' = failed
      /\ att' = [att EXCEPT ![s] = "down"]
      /\ wire' = [wire EXCEPT ![p] = <<>>,
                              ![s] = IF att[p] = "down" THEN <<>> ELSE wire[s]]
  BY DEF TransportFail
<1>b. /\ Detached(s, c, t, r) /\ ctl'[p] = ctl[p] /\ snd'[p] = snd[p]
      /\ rcv'[p] = rcv[p]
  BY FailFacts
<1>c. /\ wire'[p] = <<>> /\ wire'[s] \in {<<>>, wire[s]}
      /\ att'[s] = "down" /\ att'[p] = att[p]
  BY <1>a, Typed, SideFacts DEF IInv, TypeOK
<1>d. /\ snd[s] \in Snd /\ rcv[s] \in Rcv /\ snd[p] \in Snd /\ rcv[p] \in Rcv
      /\ wire[s] \in Seq(Msg)
  BY Typed, SideFacts
<1>1. Stages'
  <2>1. Stage(s, c, t, r, "down", wire'[s])
    BY <1>b DEF Detached
  <2>2. Stage(p, ctl[p], snd[p], rcv[p], att[p], <<>>)
    BY SessionSide DEF Stage
  <2>3. Quiet'
    <3>1. CASE s = "local"
      BY <1>b, <1>c, <3>1, SideFacts DEF Session, Stages, Quiet
    <3>2. CASE s = "remote"
      BY <1>b, <1>c, <3>2, SideFacts DEF Session, Stages, Quiet, Detached
    <3> QED BY <3>1, <3>2 DEF Side
  <2> QED BY <1>b, <1>c, <2>1, <2>2, <2>3, StagesStep
<1>2. Asked'
  <2>1. CASE s = "local"
    <3>1. Shrinks(wire["local"], wire'["local"])
      BY <1>c, <2>1, ShrinksSame
    <3>2. ~ctl'["local"].waiting_resume
      BY <1>b, <2>1 DEF Detached
    <3>3. Asking => /\ m_resume_snapshot("local")' = m_resume_snapshot("local")
                    /\ rcv'["local"].rx = <<>> /\ ctl'["local"].phase # "none"
                    /\ ~Alive(ctl'["local"]) /\ ~Alive(ctl'["remote"])
                    /\ wire'["remote"] = <<>>
      BY <1>b, <1>c, <2>1, SideFacts DEF Detached, Asking, m_resume_snapshot
    <3> QED BY <3>1, <3>2, <3>3, AskedStep
  <2>2. CASE s = "remote"
    <3>1. wire'["local"] = <<>> /\ ctl'["local"] = ctl["local"]
      BY <1>b, <1>c, <2>2, SideFacts
    <3>2. Shrinks(wire["local"], wire'["local"]) /\ ~First(wire'["local"])
      BY <3>1, ShrinksSame DEF First
    <3> QED BY <3>1, <3>2, AskedStep
  <2> QED BY <2>1, <2>2 DEF Side
<1>3. Answered'
  <2>1. CASE s = "local"
    BY <1>b, <2>1 DEF Detached, Answered
  <2>2. CASE s = "remote"
    <3>1. /\ ctl'["local"] = ctl["local"] /\ rcv'["local"] = rcv["local"]
          /\ rcv'["remote"].rx_commit = rcv["remote"].rx_commit
          /\ rcv["remote"].rx = <<>> => rcv'["remote"].rx = <<>>
      BY <1>b, <2>2, SideFacts DEF Detached
    <3>2. Fitting \subseteq Fitting'
      BY <3>1 DEF Fitting, Fits
    <3>3. ASSUME ctl["local"].waiting_resume PROVE wire'["remote"] \in Seq(Fitting')
      <4>1. wire["remote"] \in Seq(Fitting')
        BY <3>2, <3>3, SeqMonotonic DEF Session, Answered
      <4>2. <<>> \in Seq(Fitting')
        OBVIOUS
      <4> QED BY <1>c, <2>2, <4>1, <4>2
    <3> QED BY <3>1, <3>3 DEF Answered
  <2> QED BY <2>1, <2>2 DEF Side
<1>4. Links'
  <2>0. /\ ~Alive(c) /\ t \in Snd /\ r \in Rcv /\ r.rx_next <= rcv[s].rx_next
        /\ c.phase # "dead" => ctl[s].phase # "dead"
    BY <1>b DEF Detached
  <2> HIDE DEF c, t, r
  <2>1. Link(wire'[s], t, rcv[p], c, ctl[p], att[p])
    <3>1. Link(wire[s], t, rcv[p], c, ctl[p], att[p])
      BY <2>0, SessionSide, LinkWeaker
    <3>2. Link(<<>>, t, rcv[p], c, ctl[p], att[p])
      BY <1>d, <2>0, LinkEmpty
    <3> QED BY <1>c, <3>1, <3>2
  <2>2. Link(<<>>, snd[p], r, ctl[p], c, "down")
    <3>1. Alive(ctl[p]) => rcv[s].rx_next <= Cursor(snd[p])
      BY SessionSide DEF Link, Within
    <3>2. Cursor(snd[p]) \in Nat /\ rcv[s].rx_next \in Nat /\ r.rx_next \in Nat
      BY <1>d, <2>0, SndFields, RcvFields DEF Cursor
    <3>3. Alive(ctl[p]) => r.rx_next <= Cursor(snd[p])
      BY <2>0, <3>1, <3>2
    <3> QED BY <1>d, <2>0, <3>3, LinkEmpty
  <2> QED BY <1>b, <1>c, <2>1, <2>2, LinksStep DEF c, t, r
<1> QED BY <1>1, <1>2, <1>3, <1>4, <1>a, SessionKept

(* The three outcomes of ob_mapping_transport_ready for one flow. *)
LEMMA ReadyCases ==
    ASSUME NEW s \in Side, NEW c0 \in Ctl
    PROVE  LET c == ReadyCtl(c0, s)
               f == ReadyFrames(c0, s)
           IN  \/ /\ f = <<>> /\ (s = "local" /\ c = c0 => ~c0.suspended)
                  /\ c = c0 \/ c = Dead(c0)
               \/ /\ f = <<[kind |-> "open"]>> /\ c0.suspended /\ c0.pending_open
                  /\ c.phase = "control" /\ ~c.suspended /\ ~c.pending_open
                  /\ c.waiting_resume = c0.waiting_resume
               \/ /\ f = <<[kind |-> "resume", snap |-> m_resume_snapshot(s)]>>
                  /\ c0.suspended /\ ~c0.pending_open /\ s = "local"
                  /\ c.phase = "control" /\ c.suspended /\ ~c.pending_open
                  /\ c.waiting_resume
<1>1. CASE ~c0.suspended
  BY <1>1 DEF ReadyCtl, ReadyFrames
<1>2. CASE c0.suspended /\ (c0.grace = 0 \/ ~(c0.pending_open \/ (context /\ ever_ready[s])))
  <2>1. ReadyCtl(c0, s) = Dead(c0) /\ ReadyFrames(c0, s) = <<>>
    BY <1>2 DEF ReadyCtl, ReadyFrames
  <2>2. ~Dead(c0).suspended
    BY DeadIdle DEF Idle
  <2> QED BY <1>2, <2>1, <2>2
<1>3. CASE c0.suspended /\ c0.grace # 0 /\ c0.pending_open
  <2>1. ReadyCtl(c0, s) = [c0 EXCEPT !.pending_open = FALSE, !.suspended = FALSE,
                                     !.grace = None, !.phase = "control"]
    BY <1>3 DEF ReadyCtl
  <2>2. ReadyFrames(c0, s) = <<[kind |-> "open"]>>
    BY <1>3 DEF ReadyFrames
  <2> QED BY <1>3, <2>1, <2>2 DEF Ctl
<1>4. CASE c0.suspended /\ c0.grace # 0 /\ ~c0.pending_open /\ context /\ ever_ready[s]
  <2>1. ReadyCtl(c0, s) = IF s = "local"
              THEN [c0 EXCEPT !.waiting_resume = TRUE, !.phase = "control",
                              !.acked = FALSE]
              ELSE c0
    BY <1>4 DEF ReadyCtl
  <2>2. ReadyFrames(c0, s) = IF s = "local"
              THEN <<[kind |-> "resume", snap |-> m_resume_snapshot(s)]>> ELSE <<>>
    BY <1>4 DEF ReadyFrames
  <2> QED BY <1>4, <2>1, <2>2 DEF Ctl
<1> QED BY <1>1, <1>2, <1>3, <1>4

LEMMA RemoteReady_Session ==
    ASSUME IInv, Data, Session, ob_peer_mark_ready("remote")
    PROVE  Session'
<1> DEFINE c0 == ctl["remote"]
           c == ReadyCtl(c0, "remote")
           f == ReadyFrames(c0, "remote")
<1>a. /\ snd' = snd /\ rcv' = rcv /\ failed' = failed
      /\ att["remote"] = "setup" /\ att' = [att EXCEPT !["remote"] = "ready"]
      /\ ctl' = [ctl EXCEPT !["remote"] = c]
      /\ wire' = [wire EXCEPT !["remote"] = Sent("remote", f)]
      /\ c0 \in Ctl
  BY Typed, SideFacts DEF ob_peer_mark_ready
<1>b. wire["remote"] = <<>> /\ ~Alive(c0) /\ ~c0.pending_open /\ ~c0.waiting_resume
  BY <1>a, BothSides, SideFacts DEF Stage
<1>c. f = <<>> /\ (c = c0 \/ c = Dead(c0))
  BY <1>a, <1>b, ReadyCases, SideFacts
<1>d. ~Alive(c) /\ (c.phase = "reply" => c = c0) /\ (c.phase # "dead" => c = c0)
  BY <1>a, <1>b, <1>c, DeadGone, DeadIdle
<1>e. Sent("remote", f) = <<>>
  <2>1. <<>> \o <<>> = <<>>
    BY ConcatEmptySeq
  <2> QED BY <1>b, <1>c, <2>1 DEF Sent
<1>g. Stage("remote", c, snd["remote"], rcv["remote"], "ready", <<>>)
  <2>1. CASE c = c0
    BY <1>b, <2>1, BothSides DEF Stage
  <2>2. CASE c = Dead(c0)
    BY <1>a, <2>2, DeadGone
  <2> QED BY <1>c, <2>1, <2>2
<1> HIDE DEF c, f
<1>f. /\ ctl'["remote"] = c /\ ctl'["local"] = ctl["local"]
      /\ wire'["remote"] = <<>> /\ wire'["local"] = wire["local"]
      /\ att'["remote"] = "ready" /\ att'["local"] = att["local"]
  BY <1>a, <1>e, Typed, SideFacts DEF IInv, TypeOK
<1>1. Stages'
  <2>1. Quiet'
    BY <1>a, <1>d, <1>f DEF Session, Stages, Quiet
  <2> QED BY <1>a, <1>f, <1>g, <2>1, BothSides, StagesStep, SideFacts
<1>2. Asked'
  <2>1. Asking => /\ m_resume_snapshot("local")' = m_resume_snapshot("local")
                  /\ rcv'["local"].rx = <<>> /\ ctl'["local"].phase # "none"
                  /\ ~Alive(ctl'["local"]) /\ ~Alive(ctl'["remote"])
    BY <1>a, <1>d, <1>f DEF Asking, m_resume_snapshot
  <2> QED BY <1>f, <2>1, ShrinksSame, AskedStep
<1>3. Answered'
  <2>1. <<>> \in Seq(Fitting')
    OBVIOUS
  <2> QED BY <1>f, <2>1 DEF Answered
<1>4. Links'
  <2>0. /\ snd["remote"] \in Snd /\ rcv["local"] \in Rcv
    BY Typed, SideFacts
  <2>1. Link(<<>>, snd["remote"], rcv["local"], c, ctl["local"], att["local"])
    BY <1>d, <2>0, LinkEmpty
  <2>2. Link(wire["local"], snd["local"], rcv["remote"], ctl["local"], c, "ready")
    <3>1. c.phase # "dead" => c0.phase # "dead"
      BY <1>d
    <3>2. Link(wire["local"], snd["local"], rcv["remote"], ctl["local"], c0, "setup")
      BY <1>a, BothSides
    <3> QED BY <3>1, <3>2, LinkWeaker
  <2> QED BY <1>a, <1>f, <2>1, <2>2, LinksStep, SideFacts
<1> QED BY <1>1, <1>2, <1>3, <1>4, <1>a, SessionKept

LEMMA LocalReady_Session ==
    ASSUME IInv, Data, Session, ob_peer_mark_ready("local")
    PROVE  Session'
<1> DEFINE c0 == ctl["local"]
           c == ReadyCtl(c0, "local")
           f == ReadyFrames(c0, "local")
           q == Sent("local", f)
<1>a. /\ snd' = snd /\ rcv' = rcv /\ failed' = failed
      /\ att["local"] = "setup" /\ att' = [att EXCEPT !["local"] = "ready"]
      /\ ctl' = [ctl EXCEPT !["local"] = c]
      /\ wire' = [wire EXCEPT !["local"] = q]
      /\ c0 \in Ctl
  BY Typed, SideFacts DEF ob_peer_mark_ready
<1>b. /\ wire["local"] = <<>> /\ ~Alive(c0) /\ ~c0.waiting_resume
      /\ Stage("local", c0, snd["local"], rcv["local"], "setup", <<>>)
  BY <1>a, BothSides DEF Stage
<1>c. wire["remote"] = <<>> /\ ~Alive(ctl["remote"])
  BY <1>a DEF Session, Stages, Quiet
<1>d. \/ /\ f = <<>> /\ (c = c0 => ~c0.suspended) /\ (c = c0 \/ c = Dead(c0))
      \/ /\ f = <<[kind |-> "open"]>> /\ c0.suspended /\ c0.pending_open
         /\ c.phase = "control" /\ ~c.suspended /\ ~c.pending_open
         /\ ~c.waiting_resume
      \/ /\ f = <<[kind |-> "resume", snap |-> m_resume_snapshot("local")]>>
         /\ c0.suspended /\ ~c0.pending_open
         /\ c.phase = "control" /\ c.suspended /\ ~c.pending_open
         /\ c.waiting_resume
  BY <1>a, <1>b, ReadyCases, SideFacts
<1>e. Dead(c0).phase = "dead" /\ ~Dead(c0).waiting_resume /\ ~Alive(Dead(c0))
  BY <1>a, DeadIdle, DeadGone DEF Idle
<1>f. f = <<>> => q = <<>>
  <2>1. <<>> \o <<>> = <<>>
    BY ConcatEmptySeq
  <2> QED BY <1>b, <2>1 DEF Sent
<1>g. q = <<>> \/ q = f
  <2>1. <<>> \o f = f
    BY <1>d, ConcatEmptySeq
  <2> QED BY <1>b, <2>1 DEF Sent
<1>h. Stage("local", c, snd["local"], rcv["local"], "ready", q)
  <2>1. CASE c = c0
    BY <1>b, <2>1 DEF Stage
  <2>2. CASE c = Dead(c0)
    BY <1>a, <2>2, DeadGone
  <2>3. CASE c.phase = "control" /\ ~c.suspended /\ ~c.pending_open /\ ~c.waiting_resume
    BY <2>3 DEF Stage
  <2>4. CASE /\ c0.suspended /\ c.phase = "control" /\ c.suspended /\ ~c.pending_open
             /\ c.waiting_resume
    BY <1>b, <2>4 DEF Stage, Alive
  <2> QED BY <1>d, <2>1, <2>2, <2>3, <2>4
<1>i. /\ c.phase # "dead" => c0.phase # "dead"
  BY <1>b, <1>d, <1>e DEF Stage
<1> DEFINE e == [kind |-> "resume", snap |-> m_resume_snapshot("local")]
           o == [kind |-> "open"]
<1>m. e \in Msg /\ e.kind = "resume" /\ e.snap = m_resume_snapshot("local")
      /\ o \in Msg /\ o.kind = "open"
  BY Typed, SideFacts, SnapshotType DEF Msg
<1> HIDE DEF c, f, q, e, o
<1>n. /\ ctl'["local"] = c /\ ctl'["remote"] = ctl["remote"]
      /\ wire'["local"] = q /\ wire'["remote"] = <<>>
      /\ att'["local"] = "ready" /\ att'["remote"] = att["remote"]
  BY <1>a, <1>c, Typed, SideFacts DEF IInv, TypeOK
<1>1. Stages'
  <2>1. Quiet'
    BY <1>a, <1>n DEF Session, Stages, Quiet
  <2>2. Stage("remote", ctl["remote"], snd["remote"], rcv["remote"], att["remote"], <<>>)
    BY <1>c, BothSides
  <2> QED BY <1>a, <1>h, <1>n, <2>1, <2>2, StagesStep, SideFacts
<1>2. Asked'
  <2>1. CASE f = <<>>
    <3>1. ~c.waiting_resume
      BY <1>b, <1>d, <1>e, <2>1
    <3>2. Shrinks(wire["local"], wire'["local"]) /\ ~First(wire'["local"])
      BY <1>f, <1>n, <2>1, ShrinksSame DEF First
    <3> QED BY <1>n, <3>1, <3>2, AskedStep
  <2>2. CASE f = <<o>> /\ ~c.waiting_resume
    <3>1. <<o>> \in Seq(NoResume)
      BY <1>m DEF NoResume
    <3>2. Shrinks(wire["local"], wire'["local"])
      BY <1>n, <2>2, <3>1, ShrinksSent, SideFacts DEF q
    <3>3. ~First(wire["local"])
      BY <1>b DEF First
    <3> QED BY <1>n, <2>2, <3>2, <3>3, AskedStep
  <2>3. CASE f = <<e>> /\ c.phase = "control" /\ c.suspended
    <3>1. q = <<>> \/ (Len(q) = 1 /\ Head(q) = e /\ q # <<>>)
      BY <1>g, <2>3
    <3>2. LateFree(q) /\ (q # <<>> => Len(q) = 1 /\ First(q) /\ Head(q) = e)
      BY <1>m, <3>1 DEF LateFree, First
    <3>3. rcv["local"].rx = <<>>
      BY <1>h, <2>3 DEF Stage
    <3>4. m_resume_snapshot("local")' = m_resume_snapshot("local")
      BY <1>a DEF m_resume_snapshot
    <3>5. ~Alive(c)
      BY <2>3 DEF Alive
    <3>6. q # <<>> => Asking'
      BY <1>a, <1>c, <1>m, <1>n, <2>3, <3>2, <3>3, <3>4, <3>5 DEF Asking
    <3> QED BY <1>n, <3>2, <3>6 DEF Asked, First
  <2> QED BY <1>d, <2>1, <2>2, <2>3 DEF e, o
<1>3. Answered'
  <2>1. <<>> \in Seq(Fitting')
    OBVIOUS
  <2> QED BY <1>n, <2>1 DEF Answered
<1>4. Links'
  <2>0. /\ snd["remote"] \in Snd /\ rcv["local"] \in Rcv
        /\ snd["local"] \in Snd /\ rcv["remote"] \in Rcv
        /\ wire["local"] \in Seq(Honest(snd["local"], rcv["local"]))
        /\ Behind(snd["local"], rcv["remote"])
    BY SideData, SideFacts
  <2>1. Link(q, snd["local"], rcv["remote"], c, ctl["remote"], att["remote"])
    <3>1. CASE f = <<>>
      <4>1. ~Alive(c)
        BY <1>b, <1>d, <1>e, <3>1
      <4> QED BY <1>f, <2>0, <3>1, <4>1, LinkEmpty
    <3>2. CASE f = <<o>> /\ c0.suspended /\ c0.pending_open
      <4>1. snd["local"] = NewSnd
        BY <1>b, <3>2 DEF Stage
      <4>2. Link(wire["local"], snd["local"], rcv["remote"], c, ctl["remote"],
                 att["remote"])
        BY <2>0, <4>1, BothSides, LinkStart
      <4> QED BY <1>m, <2>0, <3>2, <4>2, LinkSent, SideFacts DEF q
    <3>3. CASE f = <<e>> /\ c.suspended
      <4>1. ~Alive(c)
        BY <3>3 DEF Alive
      <4>2. Link(wire["local"], snd["local"], rcv["remote"], c, ctl["remote"],
                 att["remote"])
        BY <4>1, BothSides, LinkWeaker
      <4> QED BY <1>m, <2>0, <3>3, <4>2, LinkSent, SideFacts DEF q
    <3> QED BY <1>d, <3>1, <3>2, <3>3 DEF e, o
  <2>2. Link(<<>>, snd["remote"], rcv["local"], ctl["remote"], c, "ready")
    BY <1>c, <2>0, LinkEmpty
  <2> QED BY <1>a, <1>n, <2>1, <2>2, LinksStep, SideFacts
<1> QED BY <1>1, <1>2, <1>3, <1>4, <1>a, SessionKept

-----------------------------------------------------------------------------
(* No frame of a correct peer is refused *)

LEMMA NumberedSame ==
    ASSUME NEW b \in Nat, NEW q \in Seq(Nat), NEW u \in Seq(Nat), Len(q) = Len(u),
           Numbered(q, b), Numbered(u, b)
    PROVE  q = u
<1>1. \A i \in 1..Len(q) : q[i] = u[i]
  BY DEF Numbered
<1> QED BY <1>1, SeqEqual

LEMMA ReplayAgrees ==
    ASSUME NEW r \in Rcv, NEW k, RcvOk(r, k), NEW m \in Msg, m.kind = "data",
           Numbered(m.bytes, m.offset), NEW n \in Nat, n <= Len(m.bytes),
           n <= Takeable(r, m)
    PROVE  ~ReplayDiffers(r, m, n)
<1> SUFFICES ASSUME r.rx_commit <= m.offset, m.offset < r.rx_next
             PROVE  SubSeq(m.bytes, 1, n) =
                      SubSeq(r.rx, m.offset - r.rx_commit + 1,
                             m.offset - r.rx_commit + n)
  BY DEF ReplayDiffers
<1>1. /\ m.offset \in Nat /\ m.bytes \in Seq(Nat) /\ Len(m.bytes) \in Nat
      /\ r.rx \in Seq(Nat) /\ Len(r.rx) \in Nat
      /\ r.rx_commit \in Nat /\ r.rx_next \in Nat
  BY MsgFields, RcvFields
<1> DEFINE a == m.offset - r.rx_commit
<1>2. a \in Nat /\ a + n \in Nat /\ a <= a + n /\ r.rx_commit + a = m.offset
  BY <1>1
<1>3. a + n <= Len(r.rx)
  <2>1. n <= r.rx_next - m.offset
    BY <1>1 DEF Takeable, Min
  <2> QED BY <1>1, <2>1 DEF RcvOk
<1>4. /\ SubSeq(m.bytes, 1, n) \in Seq(Nat) /\ Len(SubSeq(m.bytes, 1, n)) = n
      /\ Numbered(SubSeq(m.bytes, 1, n), m.offset)
  <2>1. 0 \in Nat /\ 0 <= n /\ 0 + 1 = 1 /\ n - 0 = n /\ m.offset + 0 = m.offset
    BY <1>1
  <2>2. /\ SubSeq(m.bytes, 0 + 1, n) \in Seq(Nat)
        /\ Len(SubSeq(m.bytes, 0 + 1, n)) = n - 0
        /\ Numbered(SubSeq(m.bytes, 0 + 1, n), m.offset + 0)
    BY <1>1, <2>1, NumberedPart
  <2> QED BY <2>1, <2>2
<1> HIDE DEF a
<1>5. /\ SubSeq(r.rx, a + 1, a + n) \in Seq(Nat)
      /\ Len(SubSeq(r.rx, a + 1, a + n)) = (a + n) - a
      /\ Numbered(SubSeq(r.rx, a + 1, a + n), r.rx_commit + a)
  BY <1>1, <1>2, <1>3, NumberedPart DEF RcvOk
<1>6. (a + n) - a = n
  BY <1>2
<1>7. SubSeq(m.bytes, 1, n) = SubSeq(r.rx, a + 1, a + n)
  <2> DEFINE x == SubSeq(m.bytes, 1, n)
             y == SubSeq(r.rx, a + 1, a + n)
  <2>1. /\ x \in Seq(Nat) /\ y \in Seq(Nat) /\ Len(x) = Len(y)
        /\ Numbered(x, m.offset) /\ Numbered(y, m.offset) /\ m.offset \in Nat
    BY <1>1, <1>2, <1>4, <1>5, <1>6
  <2> HIDE DEF x, y
  <2>2. x = y
    BY <2>1, NumberedSame
  <2> QED BY <2>2 DEF x, y
<1> QED BY <1>7 DEF a

(* What a correct peer sends to a side that uses its stream. *)
LEMMA FrameAccepted ==
    ASSUME IInv, Data, Session, NEW s \in Side, Alive(ctl[s]), wire[Peer(s)] # <<>>,
           Head1(s).kind \in {"data", "ack", "fin"}
    PROVE  FrameOk(snd[s], rcv[s], Head1(s))
<1> DEFINE p == Peer(s)
           q == wire[p]
           m == Head1(s)
           t == snd[s]
           r == rcv[s]
<1>1. /\ SndOk(t) /\ RcvOk(r, sock[s]) /\ SndOk(snd[p]) /\ RcvOk(rcv[p], sock[p])
      /\ Behind(t, rcv[p]) /\ Behind(snd[p], r)
      /\ t \in Snd /\ r \in Rcv /\ snd[p] \in Snd /\ rcv[p] \in Rcv
  BY SideData
<1>2. m \in Honest(snd[p], rcv[p]) /\ m = q[1] /\ m \in Msg
  BY PopHonest, SideFacts, Typed, HeadFirst DEF Head1, Honest
<1>3. m.kind = "ack" => m.offset <= rcv[p].rx_commit
  BY HeadFacts
<1>4. m.kind \in {"data", "fin"} => m.offset <= r.rx_next
  <2>1. Chained(q, r.rx_next)
    BY SessionSide DEF Link, Alive
  <2>2. 1 \in 1..Len(q) /\ 1..(1 - 1) = {}
    BY Typed, SideFacts, HeadFirst
  <2> QED BY <1>2, <2>1, <2>2 DEF Chained, Covered
<1>5. rcv[p].rx_next <= Cursor(t)
  BY SessionSide DEF Link, Within
<1>6. /\ m.kind = "ack" => m.offset \in Nat /\ m.fin \in BOOLEAN
      /\ m.kind = "fin" => m.offset \in Nat
      /\ m.kind = "data" => m.offset \in Nat /\ m.bytes \in Seq(Nat)
  BY <1>2, MsgFields
<1>7. CASE m.kind = "ack"
  <2>1. m.fin => rcv[p].rx_fin_applied /\ m.offset = rcv[p].rx_commit
    BY <1>2, <1>7 DEF Honest
  <2>2. m.fin => t.socket_eof /\ m.offset = t.tx_final
    BY <1>1, <2>1 DEF RcvOk, Behind
  <2>3. m.offset <= Cursor(t)
    <3>1. /\ rcv[p].rx_commit \in Nat /\ rcv[p].rx_next \in Nat
          /\ rcv[p].rx_commit <= rcv[p].rx_next
      BY SMTT(60), <1>1, RcvFields DEF RcvOk
    <3>2. Cursor(t) \in Nat /\ m.offset \in Nat
      BY <1>1, <1>6, <1>7, SndFields DEF Cursor
    <3> QED BY <1>3, <1>5, <1>7, <3>1, <3>2
  <2>4. AckOk(t, m.offset, m.fin)
    <3>1. /\ t.tx_base \in Nat /\ t.tx_pos \in Nat /\ t.tx_sent_high \in Nat
          /\ m_tx_next(t) \in Nat /\ m.offset \in Nat
          /\ t.tx_base + t.tx_pos <= t.tx_sent_high /\ t.tx_sent_high <= m_tx_next(t)
      BY <1>1, <1>6, <1>7, SndFields DEF SndOk
    <3>2. m.offset <= t.tx_base + t.tx_pos
      BY <2>3 DEF Cursor
    <3>3. /\ m.offset <= t.tx_sent_high /\ m.offset <= m_tx_next(t)
          /\ m.offset - t.tx_base <= t.tx_pos
      BY <3>1, <3>2
    <3> QED BY <2>2, <3>3 DEF AckOk
  <2> QED BY <1>7, <2>4 DEF FrameOk
<1>8. CASE m.kind = "fin"
  <2>1. snd[p].socket_eof /\ m.offset = snd[p].tx_final
    BY <1>2, <1>8 DEF Honest
  <2>2. m.offset = r.rx_next
    BY SMTT(60), <1>1, <1>4, <1>6, <1>8, <2>1, RcvFields, SndFields DEF SndOk, Behind
  <2>3. r.rx_fin => m.offset = r.rx_final
    BY <1>1, <2>1 DEF Behind
  <2> QED BY <1>8, <2>2, <2>3 DEF FrameOk
<1>9. CASE m.kind = "data"
  <2>1. m.offset + Len(m.bytes) <= snd[p].tx_sent_high
    BY <1>2, <1>9 DEF Honest
  <2>2. r.rx_fin => m.offset + Len(m.bytes) <= r.rx_final
    <3>1. r.rx_fin => r.rx_final = m_tx_next(snd[p])
      BY <1>1 DEF SndOk, Behind
    <3>2. Len(m.bytes) \in Nat
      BY <1>6, <1>9
    <3> QED BY <1>1, <1>6, <1>9, <2>1, <3>1, <3>2, SndFields DEF SndOk
  <2> QED BY <1>4, <1>9, <2>2 DEF FrameOk
<1> QED BY <1>7, <1>8, <1>9

LEMMA ReadAccepted ==
    ASSUME IInv, Data, Session, NEW s \in Side, m_v2_read(s)
    PROVE  \E n \in Nat : ReadTaken(s, n)
<1>1. /\ wire[Peer(s)] # <<>> /\ Head1(s).kind \in {"data", "ack", "fin"}
      /\ Alive(ctl[s])
  BY ReadCases DEF Alive
<1>2. PICK n \in Nat : ReadTaken(s, n) \/ ReadFailed(s, n)
  BY ReadCases
<1>3. FrameOk(snd[s], rcv[s], Head1(s))
  BY <1>1, FrameAccepted
<1>4. ASSUME ReadFailed(s, n) PROVE FALSE
  <2> DEFINE m == Head1(s)
             r == rcv[s]
  <2>1. /\ m.kind = "data" /\ ReplayDiffers(r, m, n)
        /\ n <= Takeable(r, m) /\ n <= Len(m.bytes)
    BY <1>3, <1>4 DEF ReadFailed
  <2>2. m \in Honest(snd[Peer(s)], rcv[Peer(s)])
    BY <1>1, PopHonest, SideFacts DEF Head1
  <2>3. m \in Msg /\ Numbered(m.bytes, m.offset)
    BY <2>1, <2>2 DEF Honest
  <2>4. r \in Rcv /\ RcvOk(r, sock[s])
    BY SideData
  <2> QED BY <2>1, <2>3, <2>4, ReplayAgrees
<1> QED BY <1>2, <1>4

LEMMA m_v2_read_Session ==
    ASSUME IInv, Data, Session, NEW s \in Side, m_v2_read(s)
    PROVE  Session'
<1> DEFINE p == Peer(s)
           q == wire[p]
           m == Head1(s)
           c0 == ctl[s]
<1>a. /\ q # <<>> /\ m.kind \in {"data", "ack", "fin"} /\ m = Head(q)
      /\ c0.phase = "active" /\ ~c0.suspended /\ att[s] = "ready" /\ Alive(c0)
  BY ReadCases DEF Alive, Head1
<1>b. PICK n \in Nat : ReadTaken(s, n)
  BY ReadAccepted
<1> DEFINE g == IF c0.resuming THEN None ELSE c0.grace
           c == [c0 EXCEPT !.resuming = FALSE, !.grace = g]
           t == IF m.kind = "ack" THEN m_v2_ack(snd[s], m.offset, m.fin) ELSE snd[s]
           r == Received(rcv[s], m, n)
           q2 == Rest(m, n) \o Tail(q)
<1>c. /\ FrameOk(snd[s], rcv[s], m)
      /\ m.kind = "data" => n <= Takeable(rcv[s], m) /\ n <= Len(m.bytes)
      /\ snd' = [snd EXCEPT ![s] = t] /\ rcv' = [rcv EXCEPT ![s] = r]
      /\ ctl' = [ctl EXCEPT ![s] = c] /\ wire' = [wire EXCEPT ![p] = q2]
      /\ att' = att /\ failed' = failed
  BY <1>b DEF ReadTaken
<1>d. /\ SndOk(snd[s]) /\ RcvOk(rcv[s], sock[s]) /\ Behind(snd[p], rcv[s])
      /\ snd[s] \in Snd /\ rcv[s] \in Rcv /\ snd[p] \in Snd /\ rcv[p] \in Rcv
      /\ q \in Seq(Msg) /\ c0 \in Ctl
  BY SideData, Typed, SideFacts
<1>e. m \in Honest(snd[p], rcv[p]) /\ m \in Msg /\ m = q[1] /\ Len(q) >= 1
  BY <1>a, <1>d, PopHonest, SideFacts, HeadFirst
<1>f. Cursor(t) = Cursor(snd[s])
  <2>1. CASE m.kind = "ack"
    <3>1. /\ AckOk(snd[s], m.offset, m.fin) /\ m.offset \in Nat /\ m.fin \in BOOLEAN
          /\ Numbered(snd[s].tx, snd[s].tx_base)
      BY <1>c, <1>d, <1>e, <2>1, MsgFields DEF FrameOk, SndOk
    <3> QED BY <1>d, <2>1, <3>1, AckEffect DEF Cursor
  <2>2. CASE m.kind # "ack"
    BY <2>2
  <2> QED BY <2>1, <2>2
<1>g. /\ r \in Rcv /\ rcv[s].rx_next <= r.rx_next
      /\ r.rx_next = IF m.kind = "data" /\ m.offset = rcv[s].rx_next
                     THEN rcv[s].rx_next + n ELSE rcv[s].rx_next
  BY <1>a, <1>c, <1>d, <1>e, ReceivedEffect
<1>h. m.kind = "data" => m.offset + n <= r.rx_next
  <2> SUFFICES ASSUME m.kind = "data" PROVE m.offset + n <= r.rx_next
    OBVIOUS
  <2>1. /\ m.offset \in Nat /\ m.bytes \in Seq(Nat) /\ Len(m.bytes) \in Nat
        /\ m.offset <= rcv[s].rx_next
    BY <1>c, <1>e, MsgFields DEF FrameOk
  <2>2. /\ rcv[s].rx_next \in Nat /\ rcv[s].rx_commit \in Nat /\ Len(rcv[s].rx) \in Nat
        /\ rcv[s].rx_commit <= rcv[s].rx_next
    BY <1>d, RcvFields DEF RcvOk
  <2>3. CASE m.offset = rcv[s].rx_next
    BY <1>g, <2>1, <2>2, <2>3
  <2>4. CASE m.offset # rcv[s].rx_next
    <3>1. n <= rcv[s].rx_next - m.offset
      BY SMTT(60), <1>c, <2>1, <2>2, <2>4 DEF Takeable, Min
    <3> QED BY <1>g, <2>1, <2>2, <2>4, <3>1
  <2> QED BY <2>3, <2>4
<1>i. Alive(ctl[p]) => r.rx_next <= Cursor(snd[p])
  <2> SUFFICES ASSUME Alive(ctl[p]) PROVE r.rx_next <= Cursor(snd[p])
    OBVIOUS
  <2>1. Within(q, Cursor(snd[p]), rcv[s].rx_next)
    BY SessionSide DEF Link
  <2>2. Cursor(snd[p]) \in Nat /\ rcv[s].rx_next \in Nat
    BY <1>d, SndFields, RcvFields DEF Cursor
  <2>3. m.kind = "data" => End(m) <= Cursor(snd[p]) /\ m.offset \in Nat
                           /\ Len(m.bytes) \in Nat
    <3>1. 1 \in 1..Len(q)
      BY <1>d, <1>e
    <3> QED BY <1>e, <2>1, <3>1, MsgFields DEF Within
  <2>4. CASE m.kind = "data" /\ m.offset = rcv[s].rx_next
    BY <1>c, <1>g, <2>2, <2>3, <2>4 DEF End
  <2>5. CASE ~(m.kind = "data" /\ m.offset = rcv[s].rx_next)
    BY <1>g, <2>1, <2>5 DEF Within
  <2> QED BY <2>4, <2>5
<1>j. ~c0.pending_open /\ ~c0.waiting_resume
  BY <1>a, SessionSide DEF Stage
<1> HIDE DEF g
<1>k. /\ c.phase = "active" /\ ~c.suspended /\ ~c.pending_open /\ ~c.waiting_resume
  BY <1>a, <1>d, <1>j DEF Ctl
<1>l. Shrinks(q, q2)
  BY <1>a, <1>c, <1>d, ShrinksRest
<1>m. Link(q2, snd[p], r, ctl[p], c, att[s])
  <2>1. Link(q, snd[p], rcv[s], ctl[p], c0, att[s])
    BY SessionSide
  <2>2. c.phase # "dead" => c0.phase # "dead"
    BY <1>a
  <2> HIDE DEF c, r
  <2> QED BY <1>a, <1>c, <1>d, <1>g, <1>h, <1>i, <2>1, <2>2, LinkRead
<1> HIDE DEF c, t, r, q2
<1>n. /\ ctl'[s] = c /\ ctl'[p] = ctl[p] /\ snd'[s] = t /\ snd'[p] = snd[p]
      /\ rcv'[s] = r /\ rcv'[p] = rcv[p] /\ wire'[p] = q2 /\ wire'[s] = wire[s]
  BY <1>c, Typed, SideFacts
<1>o. /\ s = "local" => ~Asking
      /\ s = "remote" => ~Asking /\ ~ctl["local"].waiting_resume
  <2>1. s = "local" => ~Asking
    BY <1>a DEF Asking
  <2>2. s = "remote" => ~Asking /\ ~ctl["local"].waiting_resume
    BY <1>a, AliveRemote, SideFacts
  <2> QED BY <2>1, <2>2
<1>p. ~ctl'["local"].waiting_resume
  BY <1>k, <1>n, <1>o, SideFacts DEF Side
<1>1. Stages'
  <2>1. Stage(s, c, t, r, att[s], wire[s])
    BY <1>a, <1>k DEF Stage
  <2>2. att[p] # "setup"
    BY <1>a, SessionSide DEF Stage
  <2>3. Stage(p, ctl[p], snd[p], rcv[p], att[p], q2)
    BY <2>2, SessionSide DEF Stage
  <2>4. Quiet'
    <3>1. CASE s = "local"
      BY <1>a, <1>c, <1>n, <3>1, SideFacts DEF Session, Stages, Quiet
    <3>2. CASE s = "remote"
      BY <1>c, <1>k, <1>n, <2>2, <3>2, SideFacts DEF Quiet
    <3> QED BY <3>1, <3>2 DEF Side
  <2> QED BY <1>c, <1>n, <2>1, <2>3, <2>4, StagesStep
<1>2. Asked'
  <2>1. Shrinks(wire["local"], wire'["local"])
    BY <1>l, <1>n, ShrinksSame, SideFacts DEF Side
  <2>2. ~Asking
    BY <1>o DEF Side
  <2> QED BY <1>p, <2>1, <2>2, AskedStep
<1>3. Answered'
  BY <1>p DEF Answered
<1>4. Links'
  <2>1. Link(wire[s], t, rcv[p], c, ctl[p], att[p])
    BY <1>a, <1>f, SessionSide, LinkWeaker
  <2> QED BY <1>c, <1>m, <1>n, <2>1, LinksStep
<1> QED BY <1>1, <1>2, <1>3, <1>4, <1>c, SessionKept

Plain == {m \in Msg : m.kind \in {"ack", "data", "fin"}}

LEMMA FramesPlain ==
    ASSUME NEW t \in Snd, SndOk(t), NEW r \in Rcv, NEW ack \in BOOLEAN,
           NEW fin \in BOOLEAN, NEW d \in Nat, d <= Len(t.tx) - t.tx_pos
    PROVE  Frames(t, r, ack, d, fin) \in Seq(Plain)
<1> DEFINE f == IF ack THEN <<AckFrame(r)>> ELSE <<>>
           g == IF d > 0 THEN <<DataFrame(t, d)>> ELSE <<>>
           h == IF fin THEN <<FinFrame(t)>> ELSE <<>>
<1>1. AckFrame(r) \in Plain
  BY RcvFields DEF AckFrame, Msg, Plain
<1>2. FinFrame(t) \in Plain
  BY SndFields DEF FinFrame, Msg, Plain
<1>3. DataFrame(t, d) \in Plain
  <2> DEFINE b == SubSeq(t.tx, t.tx_pos + 1, t.tx_pos + d)
             o == t.tx_base + t.tx_pos
  <2>1. /\ t.tx \in Seq(Nat) /\ t.tx_base \in Nat /\ Numbered(t.tx, t.tx_base)
        /\ t.tx_pos \in Nat /\ t.tx_pos + d \in Nat /\ t.tx_pos <= t.tx_pos + d
        /\ t.tx_pos + d <= Len(t.tx) /\ o \in Nat
    BY SMTT(60), SndFields DEF SndOk
  <2>2. b \in Seq(Nat)
    BY <2>1, NumberedPart
  <2>3. DataFrame(t, d) = [kind |-> "data", offset |-> o, bytes |-> b]
    BY DEF DataFrame
  <2> HIDE DEF b, o
  <2> QED BY <2>1, <2>2, <2>3 DEF Msg, Plain
<1>4. f \in Seq(Plain)
  BY <1>1
<1>5. g \in Seq(Plain)
  BY <1>3
<1>6. h \in Seq(Plain)
  BY <1>2
<1> HIDE DEF f, g, h
<1>7. f \o g \in Seq(Plain)
  BY <1>4, <1>5, ConcatProperties
<1>8. (f \o g) \o h \in Seq(Plain)
  BY <1>6, <1>7, ConcatProperties
<1> QED BY <1>8 DEF Frames, f, g, h

LEMMA ShrinksTwice ==
    ASSUME NEW q, NEW q2, NEW q3, Shrinks(q, q2), Shrinks(q2, q3)
    PROVE  Shrinks(q, q3)
BY DEF Shrinks

(* The direction a tick writes to. *)
LEMMA TickLink ==
    ASSUME IInv, Data, Session, NEW s \in Side, Alive(ctl[s]),
           NEW t \in Snd, SndOk(t), NEW r \in Rcv, NEW t2 \in Snd,
           NEW ack \in BOOLEAN, NEW fin \in BOOLEAN, NEW d \in Nat,
           d <= Len(t.tx) - t.tx_pos, MayWrite(t, r, ack, d, fin),
           Cursor(t) = Cursor(snd[s]), Cursor(t2) = Cursor(t) + d
    PROVE  Link(Sent(s, Frames(t, r, ack, d, fin)), t2, rcv[Peer(s)], ctl[s],
                ctl[Peer(s)], att[Peer(s)])
<1> DEFINE p == Peer(s)
           q == wire[s]
           f == Frames(t, r, ack, d, fin)
           x == rcv[p].rx_next
           e == Cursor(t)
           k == ctl[p]
<1>1. /\ q \in Seq(Msg) /\ rcv[p] \in Rcv /\ x \in Nat /\ e \in Nat
      /\ Cursor(t2) = e + d
  <2>1. q \in Seq(Msg) /\ rcv[p] \in Rcv /\ x \in Nat
    BY Typed, SideFacts, RcvFields
  <2>2. e \in Nat
    BY SndFields DEF Cursor
  <2> QED BY <2>1, <2>2
<1>2. /\ Within(q, e, x)
      /\ k.phase # "dead" => Chained(q, x)
      /\ k.phase # "dead" /\ att[p] # "down" => Covered(q, Len(q), x, e)
  BY SessionSide DEF Link
<1>3. CASE att[p] = "down"
  <2>1. x <= Cursor(t2)
    BY <1>1, <1>2 DEF Within
  <2>2. Link(<<>>, t2, rcv[p], ctl[s], k, "down")
    BY <1>1, <2>1, LinkEmpty
  <2> QED BY <1>3, <2>2 DEF Sent
<1>4. CASE att[p] # "down"
  <2>1. Continued(q, e, q \o f, e + d, x)
    BY <1>1, SendLinks
  <2> DEFINE q2 == q \o f
  <2>2. Sent(s, f) = q2
    BY <1>4 DEF Sent
  <2> HIDE DEF q2, e
  <2>3. /\ Within(q2, e + d, x)
        /\ k.phase # "dead" => Chained(q2, x) /\ Covered(q2, Len(q2), x, e + d)
    BY <1>2, <1>4, <2>1 DEF Continued, q2
  <2>4. Link(q2, t2, rcv[p], ctl[s], k, att[p])
    BY <1>1, <2>3 DEF Link
  <2> QED BY <2>2, <2>4
<1> QED BY <1>3, <1>4

LEMMA m_v2_tick_Session ==
    ASSUME IInv, Data, Session, NEW s \in Side, m_v2_tick(s)
    PROVE  Session'
<1> DEFINE p == Peer(s)
           c0 == ctl[s]
<1>a. /\ c0.phase = "active" /\ ~c0.suspended /\ att[s] = "ready" /\ Alive(c0)
      /\ att' = att /\ failed' = failed
  BY TickCases DEF Alive
<1>b. PICK w \in Nat, n \in Nat, d \in Nat,
           eof \in BOOLEAN, ack \in BOOLEAN, fin \in BOOLEAN :
              Tick(s, w, n, eof, d, ack, fin)
  BY TickCases
<1> DEFINE r == FinApplied(Written(rcv[s], w))
           t == Fed(snd[s], n, eof)
           t2 == FinSent(DataSent(t, d), fin)
           r2 == Ticked(rcv[s], w, ack)
           f == Frames(t, r, ack, d, fin)
           out == Sent(s, f)
           c == ctl'[s]
<1>c. /\ w <= Len(rcv[s].rx) /\ SocketInput(s, n, eof)
      /\ d <= Len(t.tx) - t.tx_pos /\ MayWrite(t, r, ack, d, fin)
      /\ rcv' = [rcv EXCEPT ![s] = r2] /\ snd' = [snd EXCEPT ![s] = t2]
      /\ \/ /\ ctl' = [ctl EXCEPT ![s] = Dead(c0)] /\ ResetWire(s, out)
         \/ wire' = [wire EXCEPT ![s] = out] /\ ctl' = ctl
  BY <1>b DEF Tick
<1>d. /\ SndOk(snd[s]) /\ snd[s] \in Snd /\ rcv[s] \in Rcv /\ rcv[p] \in Rcv
      /\ snd[p] \in Snd /\ c0 \in Ctl /\ wire[s] \in Seq(Msg)
  BY SideData, Typed
<1>e. TickEffect(s, w, n, eof, d, t2, r2, sock[s] \o SubSeq(rcv[s].rx, 1, w))
  BY <1>b, TickFacts
<1>f. /\ t2 \in Snd /\ t2.tx_base = snd[s].tx_base /\ t2.tx_pos = snd[s].tx_pos + d
      /\ r2 \in Rcv /\ r2.rx_next = rcv[s].rx_next
      /\ r2.rx_commit = rcv[s].rx_commit + w /\ (w = 0 => r2.rx = rcv[s].rx)
  BY <1>e DEF TickEffect
<1>g. t \in Snd /\ SndOk(t) /\ t.tx_base = snd[s].tx_base /\ t.tx_pos = snd[s].tx_pos
  BY <1>c, <1>d, FedEffect DEF SocketInput
<1>h. r \in Rcv
  BY <1>c, <1>d, WrittenType, FinAppliedType
<1>i. f \in Seq(Plain)
  BY <1>c, <1>g, <1>h, FramesPlain
<1>j. Cursor(t) = Cursor(snd[s]) /\ Cursor(t2) = Cursor(t) + d
  BY SMTT(60), <1>d, <1>f, <1>g, SndFields DEF Cursor
<1>k. Link(out, t2, rcv[p], c0, ctl[p], att[p])
  BY <1>a, <1>c, <1>f, <1>g, <1>h, <1>j, TickLink
<1> HIDE DEF f, t, t2, r, r2
<1>l. f \in Seq(NoResume) /\ f \in Seq(Msg) /\ f \in Seq(Fitting)
  BY <1>i, SeqMonotonic DEF Plain, NoResume, Fitting
<1>m. out \in Seq(Msg) /\ (wire[s] \in Seq(Fitting) => out \in Seq(Fitting))
  BY <1>d, <1>l, SentType
<1> HIDE DEF out
<1>n. /\ ctl'[p] = ctl[p] /\ wire'[p] = wire[p]
      /\ \/ c = Dead(c0) /\ ResetWire(s, out)
         \/ c = c0 /\ wire'[s] = out
  <2>1. CASE ctl' = [ctl EXCEPT ![s] = Dead(c0)] /\ ResetWire(s, out)
    BY <1>m, <2>1, Typed, SideFacts, ResetWireType DEF Msg
  <2>2. CASE wire' = [wire EXCEPT ![s] = out] /\ ctl' = ctl
    BY <2>2, Typed, SideFacts
  <2> QED BY <1>c, <2>1, <2>2
<1>o. /\ snd'[s] = t2 /\ snd'[p] = snd[p] /\ rcv'[s] = r2 /\ rcv'[p] = rcv[p]
  BY <1>c, Typed, SideFacts
<1>p. /\ ~c0.pending_open /\ ~c0.waiting_resume
  BY <1>a, SessionSide DEF Stage
<1>q. /\ Dead(c0).phase = "dead" /\ Idle(Dead(c0)) /\ ~Alive(Dead(c0))
      /\ \A x, y, z, a, q : (a = "setup" => q = <<>>) => Stage(x, Dead(c0), y, z, a, q)
  BY <1>d, DeadIdle, DeadGone
<1>r. ~c.waiting_resume /\ c.phase # "reply" /\ (c.phase # "dead" => c = c0)
  BY <1>a, <1>n, <1>p, <1>q DEF Idle
<1>s. Shrinks(wire[s], wire'[s]) /\ (wire[s] \in Seq(Fitting) => wire'[s] \in Seq(Fitting))
  <2>1. Shrinks(wire[s], out)
    BY <1>l, ShrinksSent DEF out
  <2>2. CASE ResetWire(s, out)
    <3>1. Shrinks(out, wire'[s])
      BY <1>m, <2>2, Typed, ShrinksReset
    <3>2. wire[s] \in Seq(Fitting) => wire'[s] \in Seq(Fitting)
      BY <1>m, <2>2, Typed, ResetWireType, FittingPlain
    <3> QED BY <2>1, <3>1, <3>2, ShrinksTwice
  <2>3. CASE wire'[s] = out
    BY <1>m, <2>1, <2>3
  <2> QED BY <1>n, <2>2, <2>3
<1>t. ~Asking /\ (s = "remote" => att["local"] # "setup")
  <2>1. s = "local" => ~Asking
    BY <1>a DEF Asking
  <2>2. s = "remote" => ~Asking /\ att["local"] # "setup"
    BY <1>a, AliveRemote
  <2> QED BY <2>1, <2>2 DEF Side
<1>1. Stages'
  <2>1. Stage(s, c, t2, r2, att[s], wire'[s])
    <3>1. CASE c = c0
      BY <1>a, <1>p, <3>1 DEF Stage
    <3>2. CASE c = Dead(c0)
      BY <1>a, <1>q, <3>2
    <3> QED BY <1>n, <3>1, <3>2
  <2>2. Stage(p, ctl[p], snd[p], rcv[p], att[p], wire[p])
    BY SessionSide
  <2>3. Quiet'
    <3>1. CASE s = "local"
      BY <1>a, <1>n, <1>o, <3>1, SideFacts DEF Session, Stages, Quiet
    <3>2. CASE s = "remote"
      BY <1>a, <1>r, <1>t, <3>2, SideFacts DEF Quiet
    <3> QED BY <3>1, <3>2 DEF Side
  <2> QED BY <1>a, <1>n, <1>o, <2>1, <2>2, <2>3, StagesStep
<1>2. Asked'
  <2>1. CASE s = "local"
    BY <1>r, <1>s, <1>t, <2>1, AskedStep
  <2>2. CASE s = "remote"
    <3>1. wire'["local"] = wire["local"] /\ ctl'["local"] = ctl["local"]
      BY <1>n, <2>2, SideFacts
    <3> QED BY <1>t, <3>1, ShrinksSame, AskedStep
  <2> QED BY <2>1, <2>2 DEF Side
<1>3. Answered'
  <2>1. CASE s = "local"
    BY <1>r, <2>1 DEF Answered
  <2>2. CASE s = "remote"
    <3>1. ctl'["local"] = ctl["local"] /\ rcv'["local"] = rcv["local"]
      BY <1>n, <1>o, <2>2, SideFacts
    <3>2. Fitting \subseteq Fitting'
      <4>1. CASE w = 0
        <5>1. /\ rcv'["remote"].rx = rcv["remote"].rx
              /\ rcv'["remote"].rx_commit = rcv["remote"].rx_commit
          BY <1>d, <1>f, <1>o, <2>2, <4>1, RcvFields
        <5> QED BY <3>1, <5>1 DEF Fitting, Fits
      <4>2. CASE w # 0
        <5>1. rcv["remote"].rx # <<>>
          BY <1>c, <2>2, <4>2
        <5> QED BY <5>1 DEF Fitting, Fits
      <4> QED BY <4>1, <4>2
    <3>3. ASSUME ctl["local"].waiting_resume PROVE wire'["remote"] \in Seq(Fitting')
      <4>1. wire'["remote"] \in Seq(Fitting)
        BY <1>s, <2>2, <3>3 DEF Session, Answered
      <4> QED BY <3>2, <4>1, SeqMonotonic
    <3> QED BY <3>1, <3>3 DEF Answered
  <2> QED BY <2>1, <2>2 DEF Side
<1>4. Links'
  <2>1. Link(wire'[s], t2, rcv[p], c, ctl[p], att[p])
    <3>1. CASE c = Dead(c0) /\ ResetWire(s, out)
      <4>1. ctl[p].phase # "dead" => Chained(out, rcv[p].rx_next)
        BY <1>k DEF Link
      <4> QED BY <1>d, <1>m, <1>q, <3>1, <4>1, Typed, LinkReset
    <3>2. CASE c = c0 /\ wire'[s] = out
      BY <1>k, <3>2
    <3> QED BY <1>n, <3>1, <3>2
  <2>2. Link(wire[p], snd[p], r2, ctl[p], c, att[s])
    BY <1>a, <1>f, <1>r, SessionSide, LinkWeaker
  <2> QED BY <1>a, <1>n, <1>o, <2>1, <2>2, LinksStep
<1> QED BY <1>1, <1>2, <1>3, <1>4, <1>a, SessionKept

-----------------------------------------------------------------------------
(* The session invariant holds in every behaviour *)

LEMMA SessionInit == Init => Session
<1> SUFFICES ASSUME Init PROVE Session
  OBVIOUS
<1>1. \A s \in Side : /\ ctl[s] = NewCtl /\ snd[s] = NewSnd /\ rcv[s] = NewRcv
                      /\ wire[s] = <<>> /\ att[s] = "down" /\ ~failed[s]
  BY DEF Init
<1>2. /\ NewCtl.phase = "none" /\ ~NewCtl.suspended /\ ~NewCtl.waiting_resume
      /\ ~NewCtl.pending_open /\ ~Alive(NewCtl) /\ NewRcv.rx = <<>>
  BY DEF NewCtl, NewRcv, Alive
<1>3. Stages
  <2>1. \A s \in Side : Stage(s, NewCtl, NewSnd, NewRcv, "down", <<>>)
    BY <1>2 DEF Stage
  <2>2. Quiet
    BY <1>1, <1>2, SideFacts DEF Quiet
  <2> QED BY <1>1, <2>1, <2>2 DEF Stages
<1>4. Asked
  <2>1. wire["local"] = <<>>
    BY <1>1, SideFacts
  <2> QED BY <2>1 DEF Asked, LateFree, First
<1>5. Answered
  <2>1. ~ctl["local"].waiting_resume
    BY <1>1, <1>2, SideFacts
  <2> QED BY <2>1 DEF Answered
<1>6. Links
  <2>1. Link(<<>>, NewSnd, NewRcv, NewCtl, NewCtl, "down")
    BY <1>2, NewType, LinkEmpty
  <2> QED BY <1>1, <2>1, SideFacts DEF Links
<1> QED BY <1>1, <1>3, <1>4, <1>5, <1>6 DEF Session, NoProtocolError

LEMMA SessionStep == IInv /\ Data /\ Session /\ [Next]_vars => Session'
<1> SUFFICES ASSUME IInv, Data, Session, [Next]_vars PROVE Session'
  OBVIOUS
<1>1. ASSUME NEW s \in Side, SocketError(s) \/ SetupTimeout(s)
                             \/ ob_mapping_recovery_tick(s)
      PROVE  Session'
  BY <1>1, AbortSession DEF SocketError, SetupTimeout, ob_mapping_recovery_tick,
     transportVars
<1>2. CASE ob_remote_map_close
  BY <1>2, AbortSession, SideFacts DEF ob_remote_map_close, transportVars
<1>3. ASSUME NEW s \in Side, ob_peer_mark_ready(s) PROVE Session'
  BY <1>3, RemoteReady_Session, LocalReady_Session DEF Side
<1>4. CASE UNCHANGED vars
  BY <1>4 DEF vars, Session, Stages, Quiet, Asked, Asking, m_resume_snapshot,
     Answered, Fitting, Fits, Links, NoProtocolError
<1> QED BY <1>1, <1>2, <1>3, <1>4, m_local_flow_Session, ReadOpen_Session,
           TargetConnected_Session, m_reply_flush_Session, ReadOpenAck_Session,
           ReadResume_Session, ReadResumeAck_Session, NewAttempt_Session,
           m_v2_read_Session, m_v2_tick_Session, ReadReset_Session,
           TransportFail_Session, ClockTick_Session DEF Next

LEMMA SessionInvariance == Spec => [](IInv /\ Data /\ Session)
<1>1. Init => IInv /\ Data /\ Session
  BY IInvInit, DataInit, SessionInit
<1>2. (IInv /\ Data /\ Session) /\ [Next]_vars => (IInv /\ Data /\ Session)'
  BY IInvStep, DataStep, SessionStep
<1> QED BY <1>1, <1>2, PTL DEF Spec

(* Two correct peers never end each other with a protocol error: for every *)
(* size of the buffers, every number of bytes and every interleaving of    *)
(* failures, replays, ACKs and FINs, m_v2_header and the replay comparison *)
(* accept each frame the other side sent.                                  *)
THEOREM NeverRefused == Spec => []NoProtocolError
<1>1. Session => NoProtocolError
  BY DEF Session
<1> QED BY <1>1, SessionInvariance, PTL

LEMMA SessionAgrees ==
    ASSUME IInv, Data, Session
    PROVE  ResumeAgrees
<1>a. /\ SndOk(snd["remote"]) /\ SndOk(snd["local"])
      /\ RcvOk(rcv["local"], sock["local"]) /\ RcvOk(rcv["remote"], sock["remote"])
      /\ Behind(snd["local"], rcv["remote"]) /\ Behind(snd["remote"], rcv["local"])
      /\ snd["local"] \in Snd /\ snd["remote"] \in Snd
      /\ rcv["local"] \in Rcv /\ rcv["remote"] \in Rcv
      /\ snd["local"].tx_base <= rcv["remote"].rx_commit
      /\ snd["remote"].tx_base <= rcv["local"].rx_commit
  BY SideData, SideFacts DEF IInv, NoLoss
<1>b. ASSUME NEW t \in Snd, NEW r \in Rcv, NEW t2 \in Snd, NEW r2 \in Rcv,
             NEW m \in Snapshots, NEW k, NEW k2,
             SndOk(t), SndOk(t2), RcvOk(r, k), RcvOk(r2, k2),
             Behind(t, r2), Behind(t2, r), HonestSnap(t2, r2, m),
             m.base <= r.rx_commit, r.rx_commit <= m.next,
             t.tx_base <= r2.rx_commit, m.delivered = r2.rx_commit,
             r.rx_fin => m.eof
      PROVE  ResumeOk(t, r, m)
  <2>1. /\ m.base \in Nat /\ m.next \in Nat /\ m.delivered \in Nat /\ m.final \in Nat
        /\ m.eof \in BOOLEAN /\ m.fin_applied \in BOOLEAN
    BY DEF Snapshots
  <2>2. m.base <= m.next
    BY <1>b, <2>1, RcvFields
  <2>3. m.delivered <= t.tx_sent_high /\ t.tx_sent_high <= m_tx_next(t)
    <3>1. /\ r2.rx_commit \in Nat /\ r2.rx_next \in Nat /\ t.tx_sent_high \in Nat
          /\ r2.rx_commit <= r2.rx_next
      BY <1>b, RcvFields, SndFields DEF RcvOk
    <3> QED BY <1>b, <3>1 DEF Behind, SndOk
  <2>4. t.tx_base <= m.delivered /\ m.delivered <= m_tx_next(t)
    BY <1>b, <2>1, <2>3, SndFields
  <2>5. m.final = IF m.eof THEN m.next ELSE 0
    BY <1>b DEF HonestSnap
  <2>6. m.fin_applied => t.socket_eof /\ m.delivered = t.tx_final
    BY <1>b DEF HonestSnap, RcvOk, Behind
  <2>7. r.rx_fin => m.eof /\ m.final = r.rx_final
    BY <1>b, <2>5 DEF HonestSnap, Behind, SndOk
  <2>8. AckOk(Replayable(t), m.delivered, m.fin_applied)
    <3> DEFINE u == Replayable(t)
    <3>1. /\ u.tx = t.tx /\ u.tx_base = t.tx_base /\ u.tx_pos = Len(t.tx)
          /\ u.tx_sent_high = t.tx_sent_high /\ u.socket_eof = t.socket_eof
          /\ u.tx_final = t.tx_final
      BY DEF Replayable, Snd
    <3> HIDE DEF u
    <3>2. m_tx_next(u) = m_tx_next(t)
      BY <3>1 DEF m_tx_next
    <3>3. m.delivered - t.tx_base <= Len(t.tx)
      BY <2>1, <2>4, SndFields DEF m_tx_next
    <3>4. AckOk(u, m.delivered, m.fin_applied)
      BY <2>3, <2>4, <2>6, <3>1, <3>2, <3>3 DEF AckOk
    <3> QED BY <3>4 DEF u
  <2> QED BY <1>b, <2>2, <2>4, <2>5, <2>6, <2>7, <2>8 DEF ResumeOk
<1>1. ASSUME CanRead("remote", {"resume"})
      PROVE  ResumeOk(snd["remote"], rcv["remote"], Head1("remote").snap)
  <2> DEFINE m == m_resume_snapshot("local")
  <2>1. Head1("remote").snap = m
    BY <1>1, ResumeFacts DEF Asking
  <2>2. m \in Snapshots /\ HonestSnap(snd["local"], rcv["local"], m)
    BY <1>1, <2>1, SnapHonest, SideFacts DEF CanRead
  <2>3. /\ m.base = snd["local"].tx_base /\ m.next = m_tx_next(snd["local"])
        /\ m.delivered = rcv["local"].rx_commit /\ m.eof = snd["local"].socket_eof
    BY DEF m_resume_snapshot
  <2> HIDE DEF m
  <2>4. rcv["remote"].rx_commit <= m.next
    <3> DEFINE r == rcv["remote"]
               t == snd["local"]
    <3>1. /\ r.rx_commit \in Nat /\ r.rx_next \in Nat /\ t.tx_sent_high \in Nat
          /\ m_tx_next(t) \in Nat /\ r.rx_commit <= r.rx_next
      <4>1. t.tx_sent_high \in Nat /\ m_tx_next(t) \in Nat
        BY <1>a, SndFields
      <4>2. r.rx_commit \in Nat /\ r.rx_next \in Nat /\ Len(r.rx) \in Nat
        BY <1>a, RcvFields
      <4>3. r.rx_next = r.rx_commit + Len(r.rx)
        BY <1>a DEF RcvOk
      <4> QED BY <4>1, <4>2, <4>3
    <3>2. r.rx_next <= t.tx_sent_high /\ t.tx_sent_high <= m_tx_next(t)
      BY <1>a DEF Behind, SndOk
    <3> QED BY <2>3, <3>1, <3>2
  <2>5. rcv["remote"].rx_fin => m.eof
    BY <1>a, <2>3 DEF Behind
  <2> QED BY <1>a, <1>b, <2>1, <2>2, <2>3, <2>4, <2>5
<1>2. ASSUME CanRead("local", {"rack"}), ctl["local"].waiting_resume,
             Head1("local").ok
      PROVE  ResumeOk(snd["local"], rcv["local"], Head1("local").snap)
  <2> DEFINE m == Head1("local").snap
  <2>1. Fits(m)
    BY <1>2, ResumeAckFacts
  <2>2. m \in Snapshots /\ HonestSnap(snd["remote"], rcv["remote"], m)
    BY <1>2, SnapHonest, SideFacts DEF CanRead
  <2> HIDE DEF m
  <2>3. ResumeOk(snd["local"], rcv["local"], m)
    BY <1>a, <1>b, <2>1, <2>2 DEF Fits
  <2> QED BY <2>3 DEF m
<1> QED BY <1>1, <1>2 DEF ResumeAgrees

(* The validation of m_resume_apply never refuses the snapshot of a        *)
(* correct peer, on either side and for every value of the constants: a    *)
(* flow both sides still retain is always resumable.                       *)
THEOREM AlwaysResumable == Spec => []ResumeAgrees
<1>1. IInv /\ Data /\ Session => ResumeAgrees
  BY SessionAgrees
<1> QED BY <1>1, SessionInvariance, PTL
=============================================================================
