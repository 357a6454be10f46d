----------------------------- MODULE FlowResume -----------------------------
(***************************************************************************)
(* One mapped TCP flow of wire version 2 and the recovery of its transport *)
(* (sdk/c/remote/peer/mapping_v2.inc, mapping_recovery.inc, mapping.c).    *)
(*                                                                         *)
(* The "local" side is the client: it accepted the application's socket    *)
(* and opens the flow.  The "remote" side is the broker: it connects to    *)
(* the target.  Each side owns a struct ob_flow, kept here as three        *)
(* records: ctl (phase, recovery flags, grace), snd (the tx_* fields) and  *)
(* rcv (the rx_* fields).  wire[s] is the QUIC stream from s to the other  *)
(* side: FIFO and reliable while both sides are attached, gone with the    *)
(* transport.  The k-th byte an application writes is the number k, so     *)
(* that sock[s], what side s wrote to its real socket, can be compared     *)
(* with what the other application sent.                                   *)
(*                                                                         *)
(* Both deadlines are counted down in ticks: None stands for the C value   *)
(* 0 (no deadline) and 0 for a deadline that has passed.                   *)
(***************************************************************************)
EXTENDS Integers, Sequences

CONSTANTS
    MaxBytes,      \* bound: how many bytes each side's application writes
    StreamBuffer,  \* OB_STREAM_BUFFER, the replay and the receive buffer
    IoBudget,      \* M_IO_BUDGET, the most bytes one tick moves
    WireCap,       \* bound: frames QUIC flow control lets a stream hold
    MaxGrace,      \* bound: the longest flow_grace_ms policy, in ticks
    MaxAttempts    \* bound: transport attempts; the last one does not fail

Side == {"local", "remote"}
Peer(s) == IF s = "local" THEN "remote" ELSE "local"

ASSUME ConstantsAssumption ==
    /\ MaxBytes \in [Side -> Nat]
    /\ StreamBuffer \in Nat \ {0}
    /\ IoBudget \in Nat \ {0}
    /\ WireCap \in Nat \ {0}
    /\ MaxGrace \in Nat \ {0}
    /\ MaxAttempts \in Nat

None == -1

VARIABLES
    ctl,        \* phase, recovery flags and grace deadline of each flow
    snd,        \* replay buffer and tx_* offsets
    rcv,        \* receive buffer and rx_* offsets
    wire,       \* frames in flight from each side
    sock,       \* bytes each side wrote to its real socket
    att,        \* the transport attempt as each side sees it
    ever_ready, \* the side has completed an authenticated transport
    deadline,   \* recovery_deadline_us of each logical peer
    context,    \* the resume proofs of the current attempt match
    proof,      \* the broker's proof reply of this attempt is on its way
    attempt,    \* number of transport attempts so far
    failed,     \* ob_peer_fail_locked: the whole peer ended with an error
    retired,    \* the flow ended through the orderly end of m_v2_tick
    connects    \* connect() calls made for this flow's target

vars == <<ctl, snd, rcv, wire, sock, att, ever_ready, deadline, context,
          proof, attempt, failed, retired, connects>>
transportVars == <<att, ever_ready, deadline, context, proof, attempt>>

Min(a, b) == IF a <= b THEN a ELSE b
Bytes(from, n) == [i \in 1..n |-> from + i]
Drop(q, n) == SubSeq(q, n + 1, Len(q))

-----------------------------------------------------------------------------
(* Types *)

Phases == {"none", "control", "connecting", "reply", "active", "dead"}

Ctl == [phase : Phases, suspended : BOOLEAN, pending_open : BOOLEAN,
        waiting_resume : BOOLEAN, resuming : BOOLEAN, acked : BOOLEAN,
        reject : BOOLEAN, grace : Nat \cup {None}]
Snd == [tx : Seq(Nat), tx_base : Nat, tx_pos : Nat, tx_sent_high : Nat,
        socket_eof : BOOLEAN, tx_final : Nat, sent_fin : BOOLEAN,
        tx_fin_acked : BOOLEAN]
Rcv == [rx : Seq(Nat), rx_next : Nat, rx_commit : Nat, rx_fin : BOOLEAN,
        rx_final : Nat, rx_fin_applied : BOOLEAN, ack_dirty : BOOLEAN]

Snapshots == [eof : BOOLEAN, fin_applied : BOOLEAN, delivered : Nat,
              base : Nat, next : Nat, final : Nat]
Msg == [kind : {"open", "reset"}]
       \cup [kind : {"oack"}, ok : BOOLEAN]
       \cup [kind : {"resume"}, snap : Snapshots]
       \cup [kind : {"rack"}, ok : BOOLEAN, snap : Snapshots]
       \cup [kind : {"data"}, offset : Nat, bytes : Seq(Nat)]
       \cup [kind : {"ack"}, offset : Nat, fin : BOOLEAN]
       \cup [kind : {"fin"}, offset : Nat]

(* Every variable has its type. *)
TypeOK ==
    /\ ctl \in [Side -> Ctl]
    /\ snd \in [Side -> Snd]
    /\ rcv \in [Side -> Rcv]
    /\ wire \in [Side -> Seq(Msg)]
    /\ sock \in [Side -> Seq(Nat)]
    /\ att \in [Side -> {"down", "setup", "ready"}]
    /\ ever_ready \in [Side -> BOOLEAN]
    /\ deadline \in [Side -> Nat \cup {None}]
    /\ context \in BOOLEAN
    /\ proof \in BOOLEAN
    /\ attempt \in Nat
    /\ failed \in [Side -> BOOLEAN]
    /\ retired \in [Side -> BOOLEAN]
    /\ connects \in Nat

-----------------------------------------------------------------------------
(* The replay buffer and the resume snapshot (mapping_v2.inc) *)

m_tx_next(t) == t.tx_base + Len(t.tx)

AckOk(t, offset, fin) ==
    /\ offset <= m_tx_next(t)
    /\ offset <= t.tx_sent_high
    /\ fin => t.socket_eof /\ offset = t.tx_final
    /\ offset > t.tx_base => offset - t.tx_base <= t.tx_pos

m_v2_ack(t, offset, fin) ==
    LET consumed == IF offset > t.tx_base THEN offset - t.tx_base ELSE 0
    IN  [t EXCEPT !.tx = Drop(@, consumed),
                  !.tx_base = @ + consumed,
                  !.tx_pos = @ - consumed,
                  !.tx_fin_acked = @ \/ fin]

m_resume_snapshot(s) ==
    [eof |-> snd[s].socket_eof, fin_applied |-> rcv[s].rx_fin_applied,
     delivered |-> rcv[s].rx_commit, base |-> snd[s].tx_base,
     next |-> m_tx_next(snd[s]), final |-> snd[s].tx_final]

Replayable(t) == [t EXCEPT !.tx_pos = Len(t.tx)]

ResumeOk(t, r, m) ==
    /\ m.base <= m.next /\ m.base <= r.rx_commit /\ r.rx_commit <= m.next
    /\ t.tx_base <= m.delivered /\ m.delivered <= m_tx_next(t)
    /\ m.final = IF m.eof THEN m.next ELSE 0
    /\ m.fin_applied => t.socket_eof /\ m.delivered = t.tx_final
    /\ r.rx_fin => m.eof /\ m.final = r.rx_final
    /\ AckOk(Replayable(t), m.delivered, m.fin_applied)

(* Mutant: the replay cursor is left where Replayable put it. *)
ResumeSndNoRewind(t, m) ==
    LET a == m_v2_ack(Replayable(t), m.delivered, m.fin_applied)
    IN  [a EXCEPT !.sent_fin = a.tx_fin_acked]
ResumeSnd(t, m) ==
    LET a == m_v2_ack(Replayable(t), m.delivered, m.fin_applied)
    IN  [a EXCEPT !.tx_pos = 0, !.sent_fin = a.tx_fin_acked]

(* Mutant: nothing makes the resumed side send a first frame. *)
ResumeRcvSilent(r, m) ==
    [r EXCEPT !.rx = <<>>, !.rx_next = r.rx_commit,
              !.rx_fin = @ \/ m.eof,
              !.rx_final = IF m.eof THEN m.final ELSE @]
ResumeRcv(r, m) ==
    [r EXCEPT !.rx = <<>>, !.rx_next = r.rx_commit,
              !.rx_fin = @ \/ m.eof,
              !.rx_final = IF m.eof THEN m.final ELSE @,
              !.ack_dirty = TRUE]

-----------------------------------------------------------------------------
(* Streams, aborts and failures *)

Attached(s) == att[s] = "ready"
HasStream(s) ==
    /\ Attached(s)
    /\ ctl[s].phase \notin {"none", "dead"}
    /\ ctl[s].suspended => ctl[s].waiting_resume
Active(s) ==
    /\ Attached(s)
    /\ ctl[s].phase = "active" /\ ctl[s].acked /\ ~ctl[s].suspended

(* Frames handed to QUIC; nobody can read them once the peer detached. *)
Sent(s, frames) ==
    IF att[Peer(s)] = "down" THEN <<>> ELSE wire[s] \o frames

(* m_abort: the flow ends and xqc_stream_close resets its stream, which   *)
(* may overtake any suffix of the frames still in flight.                 *)
Dead(c) == [c EXCEPT !.phase = "dead", !.suspended = FALSE,
                     !.waiting_resume = FALSE, !.resuming = FALSE,
                     !.pending_open = FALSE, !.grace = None]
ResetWire(s, frames) ==
    IF HasStream(s)
    THEN \E k \in 0..Len(frames) :
           wire' = [wire EXCEPT ![s] = Append(SubSeq(frames, 1, k),
                                              [kind |-> "reset"])]
    ELSE wire' = [wire EXCEPT ![s] = frames]
m_abort(s) ==
    /\ ctl' = [ctl EXCEPT ![s] = Dead(@)]
    /\ ResetWire(s, wire[s])

Head1(s) == Head(wire[Peer(s)])
Pop(s) == wire' = [wire EXCEPT ![Peer(s)] = Tail(@)]
CanRead(s, kinds) ==
    /\ Attached(s)
    /\ wire[Peer(s)] # <<>>
    /\ Head1(s).kind \in kinds

-----------------------------------------------------------------------------
(* Opening the flow *)

NewCtl == [phase |-> "none", suspended |-> FALSE, pending_open |-> FALSE,
           waiting_resume |-> FALSE, resuming |-> FALSE, acked |-> FALSE,
           reject |-> FALSE, grace |-> None]
NewSnd == [tx |-> <<>>, tx_base |-> 0, tx_pos |-> 0, tx_sent_high |-> 0,
           socket_eof |-> FALSE, tx_final |-> 0, sent_fin |-> FALSE,
           tx_fin_acked |-> FALSE]
NewRcv == [rx |-> <<>>, rx_next |-> 0, rx_commit |-> 0, rx_fin |-> FALSE,
           rx_final |-> 0, rx_fin_applied |-> FALSE, ack_dirty |-> FALSE]

(* m_local_flow: a connection accepted while no transport is ready waits  *)
(* as a pending open, with the connect timeout as its deadline.           *)
m_local_flow ==
    /\ ctl["local"].phase = "none"
    /\ ~failed["local"]
    /\ IF Attached("local")
       THEN /\ ctl' = [ctl EXCEPT !["local"].phase = "control"]
            /\ wire' = [wire EXCEPT !["local"] =
                          Sent("local", <<[kind |-> "open"]>>)]
       ELSE /\ \E g \in 1..MaxGrace :
                 ctl' = [ctl EXCEPT !["local"].phase = "active",
                                    !["local"].suspended = TRUE,
                                    !["local"].pending_open = TRUE,
                                    !["local"].grace = g]
            /\ UNCHANGED wire
    /\ UNCHANGED <<snd, rcv, sock, transportVars, failed, retired, connects>>

(* m_control_done on an OPEN: resolve and connect to the target.  A flow  *)
(* id that no longer exists is taken for a new flow.                      *)
ReadOpen ==
    /\ CanRead("remote", {"open"})
    /\ ctl["remote"].phase \in {"none", "dead"}
    /\ ctl' = [ctl EXCEPT !["remote"] = [NewCtl EXCEPT !.phase = "connecting"]]
    /\ snd' = [snd EXCEPT !["remote"] = NewSnd]
    /\ rcv' = [rcv EXCEPT !["remote"] = NewRcv]
    /\ connects' = connects + 1
    /\ Pop("remote")
    /\ UNCHANGED <<sock, transportVars, failed, retired>>

(* m_resolve_tick and the M_CONNECTING poll end in m_ack. *)
TargetConnected ==
    /\ Attached("remote")
    /\ ctl["remote"].phase = "connecting"
    /\ \E ok \in BOOLEAN :
         ctl' = [ctl EXCEPT !["remote"].phase = "reply",
                            !["remote"].reject = ~ok]
    /\ UNCHANGED <<snd, rcv, wire, sock, transportVars, failed, retired,
                   connects>>

(* m_reply_flush of an ACK or a RESUME_ACK; a refusal closes the flow. *)
m_reply_flush ==
    LET reply == IF ctl["remote"].resuming
                 THEN [kind |-> "rack", ok |-> TRUE,
                       snap |-> m_resume_snapshot("remote")]
                 ELSE [kind |-> "oack", ok |-> ~ctl["remote"].reject]
        out == Sent("remote", <<reply>>)
    IN  /\ Attached("remote")
        /\ ctl["remote"].phase = "reply"
        /\ Len(wire["remote"]) < WireCap
        /\ IF ctl["remote"].reject
           THEN /\ ctl' = [ctl EXCEPT !["remote"] = Dead(@)]
                /\ ResetWire("remote", out)
           ELSE /\ ctl' = [ctl EXCEPT !["remote"].phase = "active",
                                      !["remote"].acked = TRUE]
                /\ wire' = [wire EXCEPT !["remote"] = out]
        /\ UNCHANGED <<snd, rcv, sock, transportVars, failed, retired,
                       connects>>

(* m_control_done on the ACK of an OPEN. *)
ReadOpenAck ==
    /\ CanRead("local", {"oack"})
    /\ ctl["local"].phase = "control" /\ ~ctl["local"].waiting_resume
    /\ IF Head1("local").ok
       THEN /\ ctl' = [ctl EXCEPT !["local"].phase = "active",
                                  !["local"].acked = TRUE]
            /\ Pop("local")
       ELSE m_abort("local")
    /\ UNCHANGED <<snd, rcv, sock, transportVars, failed, retired, connects>>

-----------------------------------------------------------------------------
(* Resuming the flow on a fresh transport *)

(* m_v2_control_done on the broker: a RESUME rebinds the retained flow, or *)
(* the parsing placeholder answers with an error and closes.               *)
Retained(c) == c.suspended /\ c.phase = "active" /\ c.grace > 0
ReadResume ==
    LET m == Head1("remote").snap
        ok == /\ Retained(ctl["remote"])
              /\ ResumeOk(snd["remote"], rcv["remote"], m)
        refusal == <<[kind |-> "rack", ok |-> FALSE,
                      snap |-> m_resume_snapshot("remote")],
                     [kind |-> "reset"]>>
    IN  /\ CanRead("remote", {"resume"})
        /\ IF ok
           THEN /\ ctl' = [ctl EXCEPT !["remote"].suspended = FALSE,
                                      !["remote"].resuming = TRUE,
                                      !["remote"].acked = FALSE,
                                      !["remote"].phase = "reply"]
                /\ snd' = [snd EXCEPT !["remote"] = ResumeSnd(@, m)]
                /\ rcv' = [rcv EXCEPT !["remote"] = ResumeRcv(@, m)]
                /\ Pop("remote")
           ELSE /\ wire' = [wire EXCEPT !["local"] = Tail(@),
                                        !["remote"] = Sent("remote", refusal)]
                /\ UNCHANGED <<ctl, snd, rcv>>
        /\ UNCHANGED <<sock, transportVars, failed, retired, connects>>

(* m_v2_control_done on the client: the RESUME_ACK restores the flow. *)
ReadResumeAck ==
    LET m == Head1("local")
    IN  /\ CanRead("local", {"rack"})
        /\ ctl["local"].waiting_resume
        /\ IF m.ok /\ ResumeOk(snd["local"], rcv["local"], m.snap)
           THEN /\ ctl' = [ctl EXCEPT !["local"].waiting_resume = FALSE,
                                      !["local"].suspended = FALSE,
                                      !["local"].grace = None,
                                      !["local"].acked = TRUE,
                                      !["local"].phase = "active"]
                /\ snd' = [snd EXCEPT !["local"] = ResumeSnd(@, m.snap)]
                /\ rcv' = [rcv EXCEPT !["local"] = ResumeRcv(@, m.snap)]
                /\ Pop("local")
           ELSE m_abort("local") /\ UNCHANGED <<snd, rcv>>
        /\ UNCHANGED <<sock, transportVars, failed, retired, connects>>

-----------------------------------------------------------------------------
(* Ordinary delivery *)

(* m_v2_header: the checks on a frame before any byte of it is taken. *)
FrameOk(t, r, m) ==
    CASE m.kind = "ack"  -> AckOk(t, m.offset, m.fin)
      [] m.kind = "fin"  -> /\ m.offset = r.rx_next
                            /\ r.rx_fin => m.offset = r.rx_final
      [] m.kind = "data" -> /\ m.offset <= r.rx_next
                            /\ r.rx_fin => m.offset + Len(m.bytes) <= r.rx_final

(* m_v2_read of DATA: how many bytes the next xqc_stream_recv may take,   *)
(* fresh ones into the buffer or replayed ones to be compared.            *)
Takeable(r, m) ==
    IF m.offset = r.rx_next THEN Min(Len(m.bytes), StreamBuffer - Len(r.rx))
    ELSE Min(Len(m.bytes),
             (IF m.offset < r.rx_commit THEN r.rx_commit ELSE r.rx_next)
                - m.offset)
ReplayDiffers(r, m, n) ==
    /\ r.rx_commit <= m.offset /\ m.offset < r.rx_next
    /\ SubSeq(m.bytes, 1, n) #
         SubSeq(r.rx, m.offset - r.rx_commit + 1, m.offset - r.rx_commit + n)
Take(r, m, n) ==
    IF n = 0 THEN r
    ELSE IF m.offset = r.rx_next
    THEN [r EXCEPT !.rx = @ \o SubSeq(m.bytes, 1, n), !.rx_next = @ + n]
    ELSE [r EXCEPT !.ack_dirty = TRUE]

(* The frame left at the head of the stream after n bytes were taken. *)
Rest(m, n) ==
    IF m.kind = "data" /\ n < Len(m.bytes)
    THEN <<[m EXCEPT !.offset = @ + n, !.bytes = Drop(@, n)]>>
    ELSE <<>>

Received(r, m, n) ==
    CASE m.kind = "data" -> Take(r, m, n)
      [] m.kind = "fin"  -> [r EXCEPT !.rx_fin = TRUE, !.rx_final = m.offset]
      [] OTHER           -> r

(* m_v2_read: one frame, or a part of one DATA frame, leaves the stream.  *)
(* A frame that fails its check ends the whole peer (m_fail EPROTOCOL).   *)
m_v2_read(s) ==
    LET m == Head1(s)
        t == snd[s]
        r == rcv[s]
    IN  /\ CanRead(s, {"data", "ack", "fin"})
        /\ ctl[s].phase = "active" /\ ~ctl[s].suspended
        /\ \E n \in 0..(IF m.kind = "data" /\ FrameOk(t, r, m)
                        THEN Takeable(r, m) ELSE 0) :
             IF FrameOk(t, r, m) /\ ~(m.kind = "data" /\ ReplayDiffers(r, m, n))
             THEN /\ snd' = [snd EXCEPT ![s] =
                               IF m.kind = "ack"
                               THEN m_v2_ack(@, m.offset, m.fin) ELSE @]
                  /\ rcv' = [rcv EXCEPT ![s] = Received(@, m, n)]
                  /\ ctl' = [ctl EXCEPT ![s].resuming = FALSE,
                                        ![s].grace =
                                           IF ctl[s].resuming THEN None ELSE @]
                  /\ wire' = [wire EXCEPT ![Peer(s)] = Rest(m, n) \o Tail(@)]
                  /\ UNCHANGED <<att, failed>>
             ELSE /\ failed' = [failed EXCEPT ![s] = TRUE]
                  /\ att' = [att EXCEPT ![s] = "down"]
                  /\ ctl' = [ctl EXCEPT ![s] = Dead(@)]
                  /\ wire' = [wire EXCEPT ![Peer(s)] = <<>>]
                  /\ UNCHANGED <<snd, rcv>>
        /\ UNCHANGED <<sock, ever_ready, deadline, context, proof, attempt,
                       retired, connects>>

(* m_reset / m_close / a failed xqc_stream_recv: the other side closed. *)
ReadReset(s) ==
    /\ CanRead(s, {"reset"})
    /\ HasStream(s)
    /\ ctl' = [ctl EXCEPT ![s] = Dead(@)]
    /\ wire' = [wire EXCEPT ![s] = <<>>, ![Peer(s)] = <<>>]
    /\ UNCHANGED <<snd, rcv, sock, transportVars, failed, retired, connects>>

(* m_v2_tick, in the order of the code: write w received bytes to the     *)
(* socket, apply a complete FIN, read n bytes or the end from the socket, *)
(* let m_v2_write hand frames to QUIC, and retire a finished flow.        *)
(* Mutant: no ACK is scheduled. *)
WrittenNoAck(r, w) ==
    [r EXCEPT !.rx = Drop(@, w), !.rx_commit = @ + w]
Written(r, w) ==
    [r EXCEPT !.rx = Drop(@, w), !.rx_commit = @ + w,
              !.ack_dirty = @ \/ w > 0]
(* Mutant: the half close is not reported. *)
FinAppliedSilent(r) ==
    IF r.rx_fin /\ r.rx_commit = r.rx_final /\ ~r.rx_fin_applied
    THEN [r EXCEPT !.rx_fin_applied = TRUE]
    ELSE r
FinApplied(r) ==
    IF r.rx_fin /\ r.rx_commit = r.rx_final /\ ~r.rx_fin_applied
    THEN [r EXCEPT !.rx_fin_applied = TRUE, !.ack_dirty = TRUE]
    ELSE r
SocketRead(t, n) == [t EXCEPT !.tx = @ \o Bytes(m_tx_next(t), n)]
SocketEof(t) == [t EXCEPT !.socket_eof = TRUE, !.tx_final = m_tx_next(t)]

(* Mutant: bytes still in the receive buffer are acknowledged. *)
AckFrameReceived(r) == [kind |-> "ack", offset |-> r.rx_next,
                        fin |-> r.rx_fin_applied]
AckFrame(r) == [kind |-> "ack", offset |-> r.rx_commit,
                fin |-> r.rx_fin_applied]
DataFrame(t, n) == [kind |-> "data", offset |-> t.tx_base + t.tx_pos,
                    bytes |-> SubSeq(t.tx, t.tx_pos + 1, t.tx_pos + n)]
FinFrame(t) == [kind |-> "fin", offset |-> t.tx_final]

(* m_v2_write: an ACK if one is due and then DATA, or DATA, or FIN.  QUIC *)
(* may stop accepting at any point (-XQC_EAGAIN); a partly sent DATA      *)
(* frame counts as a shorter one.  ack and d say how far it got.          *)
AckSent(r, ack) == IF ack THEN [r EXCEPT !.ack_dirty = FALSE] ELSE r
(* Mutant: the highest offset ever sent is not recorded. *)
DataSentNoHigh(t, d) == [t EXCEPT !.tx_pos = @ + d]
DataSent(t, d) ==
    LET top == t.tx_base + t.tx_pos + d
    IN  [t EXCEPT !.tx_pos = @ + d,
                  !.tx_sent_high = IF d > 0 /\ top > @ THEN top ELSE @]
FinSent(t, fin) == IF fin THEN [t EXCEPT !.sent_fin = TRUE] ELSE t
Frames(t, r, ack, d, fin) ==
    (IF ack THEN <<AckFrame(r)>> ELSE <<>>)
      \o (IF d > 0 THEN <<DataFrame(t, d)>> ELSE <<>>)
      \o (IF fin THEN <<FinFrame(t)>> ELSE <<>>)
MayWrite(t, r, ack, d, fin) ==
    /\ ack => r.ack_dirty
    /\ d > 0 => (r.ack_dirty => ack)
    /\ fin => ~r.ack_dirty /\ t.tx_pos = Len(t.tx) /\ t.socket_eof /\ ~t.sent_fin

(* Mutant: a flow retires before its own FIN is acknowledged. *)
FinishedUnacked(t, r) ==
    /\ t.socket_eof /\ r.rx_fin_applied
    /\ t.tx = <<>> /\ ~r.ack_dirty
Finished(t, r) ==
    /\ t.socket_eof /\ r.rx_fin_applied /\ t.tx_fin_acked
    /\ t.tx = <<>> /\ ~r.ack_dirty

(* What the socket offers this tick: n bytes, its end, or nothing. *)
SocketInput(s, n, eof) ==
    /\ snd[s].socket_eof => n = 0 /\ ~eof
    /\ eof => n = 0 /\ Len(snd[s].tx) < StreamBuffer
    /\ n <= StreamBuffer - Len(snd[s].tx)
    /\ m_tx_next(snd[s]) + n <= MaxBytes[s]

m_v2_tick(s) ==
    /\ Active(s)
    /\ \E w \in 0..Min(Len(rcv[s].rx), IoBudget),
          n \in 0..IoBudget, d \in 0..IoBudget,
          eof \in BOOLEAN, ack \in BOOLEAN, fin \in BOOLEAN :
        LET r == FinApplied(Written(rcv[s], w))
            t == IF eof THEN SocketEof(snd[s]) ELSE SocketRead(snd[s], n)
            r2 == AckSent(r, ack)
            t2 == FinSent(DataSent(t, d), fin)
            out == Sent(s, Frames(t, r, ack, d, fin))
        IN  /\ SocketInput(s, n, eof)
            /\ d <= Len(t.tx) - t.tx_pos
            /\ MayWrite(t, r, ack, d, fin)
            /\ Len(out) <= WireCap
            /\ sock' = [sock EXCEPT ![s] = @ \o SubSeq(rcv[s].rx, 1, w)]
            /\ rcv' = [rcv EXCEPT ![s] = r2]
            /\ snd' = [snd EXCEPT ![s] = t2]
            /\ IF Finished(t2, r2)
               THEN /\ ctl' = [ctl EXCEPT ![s] = Dead(@)]
                    /\ retired' = [retired EXCEPT ![s] = TRUE]
                    /\ ResetWire(s, out)
               ELSE /\ wire' = [wire EXCEPT ![s] = out]
                    /\ UNCHANGED <<ctl, retired>>
    /\ UNCHANGED <<transportVars, failed, connects>>

(* A socket error in m_v2_tick, or ob_remote_map_close on the client. *)
SocketError(s) ==
    /\ Active(s)
    /\ m_abort(s)
    /\ UNCHANGED <<snd, rcv, sock, transportVars, failed, retired, connects>>
ob_remote_map_close ==
    /\ ctl["local"].phase \notin {"none", "dead"}
    /\ m_abort("local")
    /\ UNCHANGED <<snd, rcv, sock, transportVars, failed, retired, connects>>

-----------------------------------------------------------------------------
(* Transport attempts and the grace deadline *)

(* ob_mapping_transport_suspend *)
Kept(s, preserve) ==
    LET c == ctl[s]
    IN  /\ c.phase \notin {"none", "dead"} /\ ~c.reject
        /\ \/ c.pending_open
           \/ /\ preserve
              /\ \/ s = "local"
                 \/ c.acked \/ c.phase = "reply" \/ c.suspended \/ c.resuming
(* Mutant: no grace is started. *)
SuspendCtlForever(c, d) ==
    [c EXCEPT !.suspended = TRUE, !.waiting_resume = FALSE,
              !.resuming = FALSE, !.phase = "active"]
SuspendCtl(c, d) ==
    [c EXCEPT !.suspended = TRUE, !.waiting_resume = FALSE,
              !.resuming = FALSE, !.phase = "active",
              !.grace = IF @ = None \/ @ > d THEN d ELSE @]
SuspendSnd(t) == [t EXCEPT !.tx_pos = 0, !.sent_fin = t.tx_fin_acked]
SuspendRcv(r) == [r EXCEPT !.rx = <<>>, !.rx_next = r.rx_commit]
Suspend(s, d) ==
    IF Kept(s, d > 0)
    THEN /\ ctl' = [ctl EXCEPT ![s] = SuspendCtl(@, d)]
         /\ snd' = [snd EXCEPT ![s] = SuspendSnd(@)]
         /\ rcv' = [rcv EXCEPT ![s] = SuspendRcv(@)]
    ELSE /\ ctl' = [ctl EXCEPT ![s] =
                      IF @.phase = "none" THEN @ ELSE Dead(@)]
         /\ UNCHANGED <<snd, rcv>>

(* ob_peer_transport_fail_locked, then transport_detach by the engine     *)
(* owner: the grace policy g in force starts the deadline once per        *)
(* outage.  The failing side stops reading; frames it sent may still      *)
(* arrive at a peer that has not noticed.                                 *)
TransportFail(s) ==
    /\ att[s] # "down"
    /\ attempt < MaxAttempts
    /\ \E g \in 1..MaxGrace :
         /\ deadline' = [deadline EXCEPT ![s] =
                           IF ever_ready[s] /\ @ = None THEN g ELSE @]
         /\ Suspend(s, IF deadline'[s] = None THEN g ELSE deadline'[s])
    /\ att' = [att EXCEPT ![s] = "down"]
    /\ wire' = [wire EXCEPT ![Peer(s)] = <<>>,
                            ![s] = IF att[Peer(s)] = "down" THEN <<>> ELSE @]
    /\ UNCHANGED <<sock, ever_ready, context, proof, attempt, failed, retired,
                   connects>>

(* The coordinators of both sides start one authenticated attempt.        *)
(* Whether the resume proofs match is decided outside this module.        *)
NewAttempt ==
    /\ \A s \in Side : att[s] = "down" /\ ~failed[s]
    /\ attempt < MaxAttempts
    /\ attempt' = attempt + 1
    /\ att' = [s \in Side |-> "setup"]
    /\ context' \in BOOLEAN
    /\ proof' = FALSE
    /\ wire' = [s \in Side |-> <<>>]
    /\ UNCHANGED <<ctl, snd, rcv, sock, ever_ready, deadline, failed, retired,
                   connects>>

(* ob_peer_mark_ready and ob_mapping_transport_ready.  The broker is      *)
(* ready once its proof reply is flushed, the client when it reads it.    *)
(* Mutant: the pending open stays pending after its OPEN was sent. *)
ReadyCtlReopens(c, s) ==
    CASE ~c.suspended -> c
      [] c.suspended /\ (c.grace = 0 \/ ~(c.pending_open \/ (context /\ ever_ready[s])))
           -> Dead(c)
      [] c.suspended /\ c.grace # 0 /\ c.pending_open
           -> [c EXCEPT !.suspended = FALSE, !.grace = None,
                        !.phase = "control"]
      [] OTHER
           -> IF s = "local"
              THEN [c EXCEPT !.waiting_resume = TRUE, !.phase = "control",
                             !.acked = FALSE]
              ELSE c
ReadyCtl(c, s) ==
    CASE ~c.suspended -> c
      [] c.suspended /\ (c.grace = 0 \/ ~(c.pending_open \/ (context /\ ever_ready[s])))
           -> Dead(c)
      [] c.suspended /\ c.grace # 0 /\ c.pending_open
           -> [c EXCEPT !.pending_open = FALSE, !.suspended = FALSE,
                        !.grace = None, !.phase = "control"]
      [] OTHER
           -> IF s = "local"
              THEN [c EXCEPT !.waiting_resume = TRUE, !.phase = "control",
                             !.acked = FALSE]
              ELSE c
ReadyFrames(c, s) ==
    IF ~c.suspended \/ c.grace = 0 THEN <<>>
    ELSE IF c.pending_open THEN <<[kind |-> "open"]>>
    ELSE IF context /\ ever_ready[s] /\ s = "local"
    THEN <<[kind |-> "resume", snap |-> m_resume_snapshot(s)]>>
    ELSE <<>>
ob_peer_mark_ready(s) ==
    /\ att[s] = "setup"
    /\ s = "local" => proof
    /\ att' = [att EXCEPT ![s] = "ready"]
    /\ proof' = (proof \/ s = "remote")
    /\ ctl' = [ctl EXCEPT ![s] = ReadyCtl(@, s)]
    /\ wire' = [wire EXCEPT ![s] = Sent(s, ReadyFrames(ctl[s], s))]
    /\ ever_ready' = [ever_ready EXCEPT ![s] = TRUE]
    /\ deadline' = [deadline EXCEPT ![s] = None]
    /\ UNCHANGED <<snd, rcv, sock, context, attempt, failed, retired,
                   connects>>

(* The M_SETUP_US limit of ob_mapping_tick on a handshake that hangs: a   *)
(* flow being opened is dropped, a RESUME that is not answered fails the  *)
(* whole transport attempt (TransportFail).                               *)
SetupTimeout(s) ==
    /\ Attached(s)
    /\ ctl[s].phase \in {"control", "connecting", "reply"}
    /\ ~ctl[s].waiting_resume
    /\ m_abort(s)
    /\ UNCHANGED <<snd, rcv, sock, transportVars, failed, retired, connects>>

(* ob_mapping_recovery_tick: a flow past its grace deadline ends. *)
ob_mapping_recovery_tick(s) ==
    /\ ctl[s].suspended \/ ctl[s].resuming
    /\ ctl[s].grace = 0
    /\ m_abort(s)
    /\ UNCHANGED <<snd, rcv, sock, transportVars, failed, retired, connects>>

(* One tick of the clock of one side. *)
CountDown(d) == IF d > 0 THEN d - 1 ELSE d
ClockTick(s) ==
    /\ ctl[s].grace > 0 \/ deadline[s] > 0
    /\ ctl' = [ctl EXCEPT ![s].grace = CountDown(@)]
    /\ deadline' = [deadline EXCEPT ![s] = CountDown(@)]
    /\ UNCHANGED <<snd, rcv, wire, sock, att, ever_ready, context, proof,
                   attempt, failed, retired, connects>>

-----------------------------------------------------------------------------

Init ==
    /\ ctl = [s \in Side |-> NewCtl]
    /\ snd = [s \in Side |-> NewSnd]
    /\ rcv = [s \in Side |-> NewRcv]
    /\ wire = [s \in Side |-> <<>>]
    /\ sock = [s \in Side |-> <<>>]
    /\ att = [s \in Side |-> "down"]
    /\ ever_ready = [s \in Side |-> FALSE]
    /\ deadline = [s \in Side |-> None]
    /\ context = FALSE
    /\ proof = FALSE
    /\ attempt = 0
    /\ failed = [s \in Side |-> FALSE]
    /\ retired = [s \in Side |-> FALSE]
    /\ connects = 0

Next ==
    \/ m_local_flow
    \/ ReadOpen
    \/ TargetConnected
    \/ m_reply_flush
    \/ ReadOpenAck
    \/ ReadResume
    \/ ReadResumeAck
    \/ ob_remote_map_close
    \/ NewAttempt
    \/ \E s \in Side :
         \/ m_v2_read(s)
         \/ m_v2_tick(s)
         \/ ReadReset(s)
         \/ SocketError(s)
         \/ TransportFail(s)
         \/ ob_peer_mark_ready(s)
         \/ SetupTimeout(s)
         \/ ob_mapping_recovery_tick(s)
         \/ ClockTick(s)

Spec == Init /\ [][Next]_vars

(* Fairness: the engine owner of each side runs its loop (ticks, reads,   *)
(* flushes, expiry), QUIC delivers while both sides are attached, the     *)
(* applications drain their sockets, and a side whose peer is gone        *)
(* notices (the QUIC idle timeout).  Nothing is assumed of what the       *)
(* applications send, nor of transport failures.                          *)
TickNoInput(s) ==
    /\ m_v2_tick(s)
    /\ m_tx_next(snd'[s]) = m_tx_next(snd[s])
    /\ snd'[s].socket_eof = snd[s].socket_eof
PeerLost(s) == att[Peer(s)] = "down" /\ TransportFail(s)
Fairness ==
    /\ WF_vars(ReadOpen) /\ WF_vars(TargetConnected)
    /\ WF_vars(m_reply_flush) /\ WF_vars(ReadOpenAck)
    /\ WF_vars(ReadResume) /\ WF_vars(ReadResumeAck)
    /\ WF_vars(NewAttempt)
    /\ \A s \in Side :
         /\ WF_vars(m_v2_read(s)) /\ WF_vars(TickNoInput(s))
         /\ WF_vars(ReadReset(s)) /\ WF_vars(PeerLost(s))
         /\ WF_vars(ob_peer_mark_ready(s))
         /\ WF_vars(ob_mapping_recovery_tick(s))
LiveSpec == Spec /\ Fairness
ClocksRun == \A s \in Side : WF_vars(ClockTick(s))

-----------------------------------------------------------------------------
(* Properties *)

(* A sender gives up a byte of its replay buffer only after the other      *)
(* side wrote it to its real socket, whatever ACKs and resume snapshots    *)
(* crossed transport failures (m_v2_ack, m_resume_apply).                  *)
NoLoss == \A s \in Side : snd[s].tx_base <= rcv[Peer(s)].rx_commit

(* Two correct peers never end each other with a protocol error: no        *)
(* interleaving of failures, replays, ACKs and FINs makes m_v2_header or   *)
(* the replay comparison refuse a frame.                                   *)
NoProtocolError == \A s \in Side : ~failed[s]

(* The validation of m_resume_apply never refuses the snapshot of a        *)
(* correct peer: a flow both sides still retain is always resumable.       *)
ResumeAgrees ==
    /\ CanRead("remote", {"resume"}) /\ Retained(ctl["remote"]) =>
          ResumeOk(snd["remote"], rcv["remote"], Head1("remote").snap)
    /\ CanRead("local", {"rack"}) /\ ctl["local"].waiting_resume
         /\ Head1("local").ok =>
            ResumeOk(snd["local"], rcv["local"], Head1("local").snap)

(* Each direction implements TcpStream: seen from the two real sockets,    *)
(* outages, replays, resumes and half closes are one byte stream.  No byte *)
(* is lost before a later one, repeated or invented, a half close comes    *)
(* after the last byte, and a flow that retires (end of m_v2_tick) has     *)
(* lost nothing, although its reset may overtake its last ACK.             *)
Up == INSTANCE TcpStream WITH
    taken    <- m_tx_next(snd["local"]),
    ended    <- snd["local"].socket_eof,
    got      <- sock["remote"],
    closed   <- rcv["remote"].rx_fin_applied,
    writing  <- ctl["local"].phase # "dead",
    reading  <- ctl["remote"].phase # "dead",
    finished <- \E s \in Side : retired[s]
Down == INSTANCE TcpStream WITH
    taken    <- m_tx_next(snd["remote"]),
    ended    <- snd["remote"].socket_eof,
    got      <- sock["local"],
    closed   <- rcv["local"].rx_fin_applied,
    writing  <- ctl["remote"].phase # "dead",
    reading  <- ctl["local"].phase # "dead",
    finished <- \E s \in Side : retired[s]
IsStream == Up!Spec /\ Down!Spec

(* A flow is connected to its target at most once: neither a pending open  *)
(* nor a RESUME replays it into a second target connection.                *)
OneTargetConnection == connects <= 1

(* No step extends the grace deadline of a flow that is not restored:      *)
(* repeated outages, reconnects and longer policies only shorten it        *)
(* (ob_mapping_transport_suspend).                                         *)
GraceNeverExtended ==
    [][\A s \in Side :
         ctl[s].grace # None /\ ctl'[s].grace # None =>
            ctl'[s].grace <= ctl[s].grace]_vars

(* After the broker accepted a RESUME, the client's first frame confirms   *)
(* it: the flow does not stay provisional with its deadline running,       *)
(* although neither application may have anything to send.                 *)
ResumeConfirmed == ctl["remote"].resuming ~> ~ctl["remote"].resuming

(* Every byte taken from a socket is eventually acknowledged from the      *)
(* other real socket, unless the flow ends; for that the grace deadlines   *)
(* must pass, as for the next two.                                         *)
EventuallyDelivered ==
    ClocksRun => \A s \in Side :
        (snd[s].tx # <<>>) ~> (snd[s].tx = <<>> \/ ctl[s].phase = "dead")

(* A suspended flow is restored or ends: nothing is retained for ever.     *)
Settles ==
    ClocksRun => \A s \in Side :
        ctl[s].suspended ~> (~ctl[s].suspended)

(* Once both applications ended their streams, both flow contexts go.      *)
BothEnd ==
    ClocksRun =>
        ((\A s \in Side : snd[s].socket_eof)
            ~> (\A s \in Side : ctl[s].phase = "dead"))
=============================================================================
