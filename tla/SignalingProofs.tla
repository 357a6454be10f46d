-------------------------- MODULE SignalingProofs --------------------------
(***************************************************************************)
(* Type correctness and NoSpuriousEnd of Signaling, for every window, any  *)
(* number of exchanges and of sockets, with and without TURN on each side. *)
(***************************************************************************)
EXTENDS Signaling, SequenceTheorems, TLAPS

-----------------------------------------------------------------------------
(* Where a worker is in its script *)

(* The position of the last signal each side sends. *)
LastSend(s) == IF Relay[s] THEN 2 * Exchanges + 4 ELSE 2 * Exchanges + 3

(* The cursors of a worker count the signals its script has sent and       *)
(* received so far.                                                        *)
Placed(s, e) ==
    \/ e.pc = 1 /\ e.tx = 0 /\ e.rx = 0
    \/ e.rx < Exchanges /\ e.pc = 2 * e.rx + 2 /\ e.tx = e.rx
    \/ e.rx < Exchanges /\ e.pc = 2 * e.rx + 3 /\ e.tx = e.rx + 1
    \/ /\ e.pc \in (2 * Exchanges + 2)..LastSend(s)
       /\ e.tx = Exchanges /\ e.rx = Exchanges
    \/ e.pc = LastSend(s) + 1 /\ e.tx = Exchanges + 1 /\ e.rx = Exchanges
    \/ e.pc = LastSend(s) + 2 /\ e.tx = Exchanges + 1 /\ e.rx = Exchanges + 1

(* How far the worker has read the messages of its peer. *)
Base(e) == e.rx + Len(e.inbox)

(* A worker holds the next signals in order and nothing that is not        *)
(* stored; it waits for an answer only on a socket.  own and other are the *)
(* messages stored of the side and of its peer.                            *)
EpOk(s, e, own, other, l) ==
    /\ Placed(s, e)
    /\ \A j \in 1..Len(e.inbox) : e.inbox[j] = e.rx + j
    /\ Base(e) <= other /\ e.tx <= own
    /\ e.conn = 0 => e.inbox = <<>> /\ e.rpc = "none"
    /\ e.rpc = "sent" => OpOf(s, e) \in Rpcs
    /\ e.end # "protocol"
    /\ e.end = "refused" => ~l

-----------------------------------------------------------------------------
(* What is under way on a socket *)

(* The last message the writer has put on the network. *)
Written(k) == IF k.writing = 0 THEN k.sent ELSE k.writing

(* No socket, left or not, holds a send that would leave a gap or an ACK   *)
(* for what was not written.                                               *)
InOk(k, own) ==
    \A a \in 1..Len(k.in) :
        /\ k.in[a].kind = "send" => /\ k.in[a].n <= own + 1
                                    /\ k.in[a].n <= Exchanges + 1
        /\ k.in[a].kind = "ack" => k.in[a].n <= Written(k)

(* The messages of a queue follow one another from b on. *)
IsMessage(m) == m.kind = "message"
Chain(out, b) ==
    \A i \in 1..Len(out) : IsMessage(out[i]) =>
        /\ out[i].n > b
        /\ \/ out[i].n = b + 1
           \/ \E j \in 1..(i - 1) : IsMessage(out[j]) /\ out[j].n = out[i].n - 1
        /\ \A j \in 1..(i - 1) : IsMessage(out[j]) => out[j].n < out[i].n

(* They are stored, no result is a refusal and the socket ends only        *)
(* because the session has.                                                *)
OutOk(out, other, l) ==
    \A i \in 1..Len(out) :
        /\ IsMessage(out[i]) => out[i].n <= other
        /\ IsResult(out[i]) => out[i].n = 200
        /\ out[i].kind = "revoked" => ~l

(* A socket in use goes on where its worker has read, up to queued. *)
Pushed(k, b, other) ==
    /\ Written(k) = b
    /\ b <= k.queued /\ k.queued <= other
    /\ \A i \in 1..Len(k.out) : IsMessage(k.out[i]) => k.out[i].n <= k.queued
    /\ k.queued = b \/ \E i \in 1..Len(k.out) :
                          IsMessage(k.out[i]) /\ k.out[i].n = k.queued

(* At most one request of the worker, or its answer, is on the socket, and *)
(* it is the one it waits for; an answered send is stored.                 *)
IsRequest(m) == m.kind \in Rpcs
RpcOk(s, e, k, own) ==
    /\ \A a \in 1..Len(k.in) : IsRequest(k.in[a]) =>
          /\ e.rpc = "sent" /\ k.in[a].kind = OpOf(s, e) /\ k.in[a].n = e.tx + 1
          /\ \A b \in 1..Len(k.in) : IsRequest(k.in[b]) => a = b
          /\ \A i \in 1..Len(k.out) : ~IsResult(k.out[i])
    /\ \A i \in 1..Len(k.out) : IsResult(k.out[i]) =>
          /\ e.rpc = "sent" /\ (OpOf(s, e) = "send" => e.tx < own)
          /\ \A j \in 1..Len(k.out) : IsResult(k.out[j]) => i = j

CurOk(s, e, k, own, other, l) ==
    /\ Chain(k.out, Base(e))
    /\ OutOk(k.out, other, l)
    /\ RpcOk(s, e, k, own)
    /\ k.pc # "off" => Pushed(k, Base(e), other)

(* One side: its worker e and its sockets q. *)
SideOk(s, e, q, own, other, l) ==
    /\ own <= Exchanges + 1
    /\ EpOk(s, e, own, other, l)
    /\ \A i \in 1..Len(q) : InOk(q[i], own)
    /\ e.conn # 0 => /\ e.conn \in 1..Len(q)
                     /\ CurOk(s, e, q[e.conn], own, other, l)

Order == \A s \in Side :
           SideOk(s, ep[s], sock[s], mail[s], mail[Peer(s)], live)
IInv == TypeOK /\ Order

-----------------------------------------------------------------------------
(* The script *)

Ops == {"caps", "send", "recv", "approve", "approved", "turn"}

LEMMA ExchangeIs ==
    ASSUME NEW n \in Nat
    PROVE  /\ Exchange(n) \in Seq(Ops) /\ Len(Exchange(n)) = 2 * n
           /\ \A r \in 0..(n - 1) : /\ Exchange(n)[2 * r + 1] = "send"
                                    /\ Exchange(n)[2 * r + 2] = "recv"
<1>1. 2 * n \in Nat
  OBVIOUS
<1>2. /\ DOMAIN Exchange(n) = 1..(2 * n)
      /\ Exchange(n) \in [1..(2 * n) -> Ops]
  BY DEF Exchange, Ops
<1>3. Exchange(n) \in Seq(Ops) /\ Len(Exchange(n)) = 2 * n
  BY <1>1, <1>2
<1>4. ASSUME NEW r \in 0..(n - 1)
      PROVE  Exchange(n)[2 * r + 1] = "send" /\ Exchange(n)[2 * r + 2] = "recv"
  <2>1. 2 * r + 1 \in 1..(2 * n) /\ 2 * r + 2 \in 1..(2 * n)
    OBVIOUS
  <2>2. (2 * r + 1) % 2 = 1 /\ (2 * r + 2) % 2 = 0
    OBVIOUS
  <2> QED BY <2>1, <2>2 DEF Exchange
<1> QED BY <1>3, <1>4

LEMMA Joined ==
    \A p, q \in Seq(Ops) :
        /\ p \o q \in Seq(Ops) /\ Len(p \o q) = Len(p) + Len(q)
        /\ \A i \in 1..Len(p) : (p \o q)[i] = p[i]
        /\ \A i \in 1..Len(q) : (p \o q)[Len(p) + i] = q[i]
<1>1. \A p, q \in Seq(Ops) : Len(p) \in Nat /\ Len(q) \in Nat
  OBVIOUS
<1> QED BY <1>1, ConcatProperties

(* What the script asks for at each position. *)
LEMMA ScriptIs ==
    ASSUME NEW s \in Side
    PROVE  /\ Len(Script(s)) = LastSend(s) + 1
           /\ Script(s)[1] = "caps"
           /\ \A r \in 0..(Exchanges - 1) : /\ Script(s)[2 * r + 2] = "send"
                                            /\ Script(s)[2 * r + 3] = "recv"
           /\ Script(s)[2 * Exchanges + 2] \in {"approve", "approved"}
           /\ Relay[s] => Script(s)[2 * Exchanges + 3] = "turn"
           /\ Script(s)[LastSend(s)] = "send"
           /\ Script(s)[LastSend(s) + 1] = "recv"
           /\ LastSend(s) \in Nat
<1> DEFINE a == <<"caps">> \o Exchange(Exchanges)
           b == a \o Approval(s)
           c == b \o Turn(s)
<1>0. Exchanges \in Nat /\ Relay[s] \in BOOLEAN
  BY ConstantsAssumption
<1>1. /\ a \in Seq(Ops) /\ Len(a) = 2 * Exchanges + 1
      /\ a[1] = "caps"
      /\ \A r \in 0..(Exchanges - 1) : a[2 * r + 2] = "send" /\ a[2 * r + 3] = "recv"
  <2>1. <<"caps">> \in Seq(Ops) /\ Len(<<"caps">>) = 1 /\ <<"caps">>[1] = "caps"
    BY DEF Ops
  <2>2. /\ a \in Seq(Ops) /\ Len(a) = 1 + 2 * Exchanges
        /\ \A i \in 1..(1 + 2 * Exchanges) :
             a[i] = IF i <= 1 THEN <<"caps">>[i] ELSE Exchange(Exchanges)[i - 1]
    <3>1. Exchange(Exchanges) \in Seq(Ops) /\ Len(Exchange(Exchanges)) = 2 * Exchanges
      BY <1>0, ExchangeIs
    <3>2. /\ a \in Seq(Ops) /\ Len(a) = Len(<<"caps">>) + Len(Exchange(Exchanges))
          /\ \A i \in 1..Len(<<"caps">>) : a[i] = <<"caps">>[i]
          /\ \A i \in 1..Len(Exchange(Exchanges)) :
               a[Len(<<"caps">>) + i] = Exchange(Exchanges)[i]
      BY <2>1, <3>1, Joined
    <3> HIDE DEF a
    <3>3. ASSUME NEW i \in 1..(1 + 2 * Exchanges), i > 1
          PROVE  a[i] = Exchange(Exchanges)[i - 1]
      <4>1. i - 1 \in 1..Len(Exchange(Exchanges)) /\ 1 + (i - 1) = i
        BY <1>0, <3>1, <3>3
      <4> QED BY <2>1, <3>2, <4>1
    <3> QED BY <1>0, <2>1, <3>1, <3>2, <3>3
  <2>3. ASSUME NEW r \in 0..(Exchanges - 1)
        PROVE  a[2 * r + 2] = "send" /\ a[2 * r + 3] = "recv"
    <3>1. /\ a[2 * r + 2] = Exchange(Exchanges)[2 * r + 1]
          /\ a[2 * r + 3] = Exchange(Exchanges)[2 * r + 2]
      BY <1>0, <2>2
    <3> QED BY <1>0, <3>1, ExchangeIs
  <2> QED BY <1>0, <2>1, <2>2, <2>3
<1>2. /\ b \in Seq(Ops) /\ Len(b) = 2 * Exchanges + 2
      /\ \A i \in 1..(2 * Exchanges + 1) : b[i] = a[i]
      /\ b[2 * Exchanges + 2] \in {"approve", "approved"}
  <2>1. /\ Approval(s) \in Seq(Ops) /\ Len(Approval(s)) = 1
        /\ Approval(s)[1] \in {"approve", "approved"}
    <3>1. CASE s = "broker"
      BY <3>1 DEF Approval, Ops
    <3>2. CASE s # "broker"
      BY <3>2 DEF Approval, Ops
    <3> QED BY <3>1, <3>2
  <2> HIDE DEF a
  <2>2. /\ b \in Seq(Ops) /\ Len(b) = Len(a) + Len(Approval(s))
        /\ \A i \in 1..Len(a) : b[i] = a[i]
        /\ \A i \in 1..Len(Approval(s)) : b[Len(a) + i] = Approval(s)[i]
    <3>1. a \in Seq(Ops) /\ Approval(s) \in Seq(Ops)
      BY <1>1, <2>1
    <3> QED BY <3>1, Joined, Zenon
  <2>3. 1 \in 1..1
    OBVIOUS
  <2> QED BY <1>0, <1>1, <2>1, <2>2, <2>3
<1>3. /\ c \in Seq(Ops) /\ Len(c) = LastSend(s) - 1
      /\ \A i \in 1..(2 * Exchanges + 2) : c[i] = b[i]
      /\ Relay[s] => c[2 * Exchanges + 3] = "turn"
  <2> HIDE DEF b
  <2>1. CASE Relay[s]
    <3>1. /\ Turn(s) \in Seq(Ops) /\ Len(Turn(s)) = 1 /\ Turn(s)[1] = "turn"
      BY <2>1 DEF Turn, Ops
    <3>2. /\ c \in Seq(Ops) /\ Len(c) = Len(b) + Len(Turn(s))
          /\ \A i \in 1..Len(b) : c[i] = b[i]
          /\ \A i \in 1..Len(Turn(s)) : c[Len(b) + i] = Turn(s)[i]
      <4>1. b \in Seq(Ops) /\ Turn(s) \in Seq(Ops)
        BY <1>2, <3>1
      <4> QED BY <4>1, Joined, Zenon
    <3>3. 1 \in 1..1
      OBVIOUS
    <3> QED BY <1>0, <1>2, <2>1, <3>1, <3>2, <3>3 DEF LastSend
  <2>2. CASE ~Relay[s]
    <3>1. Turn(s) = <<>>
      BY <2>2 DEF Turn
    <3>2. c = b
      BY <1>2, <3>1, ConcatEmptySeq
    <3> HIDE DEF c
    <3> QED BY <1>0, <1>2, <2>2, <3>2 DEF LastSend
  <2> QED BY <1>0, <2>1, <2>2
<1>4. /\ Len(Script(s)) = LastSend(s) + 1
      /\ \A i \in 1..(LastSend(s) - 1) : Script(s)[i] = c[i]
      /\ Script(s)[LastSend(s)] = "send"
      /\ Script(s)[LastSend(s) + 1] = "recv"
  <2>1. LastSend(s) \in Nat /\ LastSend(s) >= 3
    BY <1>0 DEF LastSend
  <2>2. /\ Exchange(1) \in Seq(Ops) /\ Len(Exchange(1)) = 2
        /\ Exchange(1)[1] = "send" /\ Exchange(1)[2] = "recv"
    <3>1. 0 \in 0..(1 - 1)
      OBVIOUS
    <3>2. /\ Exchange(1) \in Seq(Ops) /\ Len(Exchange(1)) = 2 * 1
          /\ Exchange(1)[2 * 0 + 1] = "send" /\ Exchange(1)[2 * 0 + 2] = "recv"
      BY <3>1, ExchangeIs
    <3> QED BY <3>2
  <2>3. Script(s) = c \o Exchange(1)
    BY DEF Script
  <2> HIDE DEF c
  <2>4. /\ Len(Script(s)) = Len(c) + Len(Exchange(1))
        /\ \A i \in 1..Len(c) : Script(s)[i] = c[i]
        /\ \A i \in 1..Len(Exchange(1)) : Script(s)[Len(c) + i] = Exchange(1)[i]
    <3>1. c \in Seq(Ops) /\ Exchange(1) \in Seq(Ops)
      BY <1>3, <2>2
    <3>2. /\ Len(c \o Exchange(1)) = Len(c) + Len(Exchange(1))
          /\ \A i \in 1..Len(c) : (c \o Exchange(1))[i] = c[i]
          /\ \A i \in 1..Len(Exchange(1)) :
               (c \o Exchange(1))[Len(c) + i] = Exchange(1)[i]
      BY <3>1, Joined, Zenon
    <3> QED BY <2>3, <3>2, Zenon
  <2>5. 1 \in 1..2 /\ 2 \in 1..2
    OBVIOUS
  <2>6. Len(c) + 1 = LastSend(s) /\ Len(c) + 2 = LastSend(s) + 1
    BY <1>3, <2>1
  <2>7. /\ Script(s)[Len(c) + 1] = Exchange(1)[1]
        /\ Script(s)[Len(c) + 2] = Exchange(1)[2]
    BY <2>2, <2>4, <2>5
  <2> QED BY <1>3, <2>1, <2>2, <2>4, <2>6, <2>7
<1>5. LastSend(s) \in Nat /\ LastSend(s) - 1 >= 2 * Exchanges + 2
      /\ (Relay[s] => LastSend(s) - 1 = 2 * Exchanges + 3)
  BY <1>0 DEF LastSend
<1> HIDE DEF a, b, c
<1>6. \A i \in 1..(2 * Exchanges + 1) : Script(s)[i] = a[i]
  BY <1>0, <1>2, <1>3, <1>4, <1>5
<1>7. \A r \in 0..(Exchanges - 1) : Script(s)[2 * r + 2] = "send" /\ Script(s)[2 * r + 3] = "recv"
  BY <1>0, <1>1, <1>6
<1>8. Script(s)[2 * Exchanges + 2] = b[2 * Exchanges + 2]
  BY <1>0, <1>3, <1>4, <1>5
<1>9. Relay[s] => Script(s)[2 * Exchanges + 3] = c[2 * Exchanges + 3]
  BY <1>0, <1>4, <1>5
<1> QED BY <1>0, <1>1, <1>2, <1>3, <1>4, <1>5, <1>6, <1>7, <1>8, <1>9

LEMMA EpFields ==
    ASSUME NEW e \in Endpoint
    PROVE  /\ e.pc \in Nat /\ e.conn \in Nat /\ e.tx \in Nat /\ e.rx \in Nat
           /\ e.inbox \in Seq(Nat) /\ Len(e.inbox) \in Nat
           /\ e.rpc \in {"none", "sent"} /\ e.lease \in BOOLEAN
           /\ e.approved \in 0..1 /\ e.end \in {"no", "refused", "protocol", "lost"}
           /\ Base(e) \in Nat
BY DEF Endpoint, Base

(* A send takes a worker from a send to the receive that follows, ...      *)
LEMMA AtSend ==
    ASSUME NEW s \in Side, NEW e \in Endpoint, Placed(s, e),
           OpOf(s, e) = "send"
    PROVE  /\ e.tx <= Exchanges
           /\ \A f : /\ f.pc = e.pc + 1 /\ f.tx = e.tx + 1 /\ f.rx = e.rx
                     => Placed(s, f)
<1>0. Exchanges \in Nat /\ Relay[s] \in BOOLEAN /\ LastSend(s) \in Nat
  BY ConstantsAssumption, ScriptIs
<1>1. e.pc \in Nat /\ e.tx \in Nat /\ e.rx \in Nat
  BY EpFields
<1>2. e.pc <= LastSend(s) + 1 /\ Script(s)[e.pc] = "send"
  BY <1>0, <1>1, ScriptIs DEF OpOf
<1>3. e.pc # 1 /\ e.pc # 2 * Exchanges + 2 /\ e.pc # LastSend(s) + 1
  BY <1>2, ScriptIs
<1>4. Relay[s] => e.pc # 2 * Exchanges + 3
  BY <1>2, ScriptIs
<1>5. e.rx < Exchanges => e.pc # 2 * e.rx + 3
  <2>1. e.rx < Exchanges => e.rx \in 0..(Exchanges - 1)
    BY <1>0, <1>1
  <2> QED BY <1>2, <2>1, ScriptIs
<1>6. \/ e.rx < Exchanges /\ e.pc = 2 * e.rx + 2 /\ e.tx = e.rx
      \/ e.pc = LastSend(s) /\ e.tx = Exchanges /\ e.rx = Exchanges
  BY <1>0, <1>1, <1>2, <1>3, <1>4, <1>5 DEF Placed, LastSend
<1> QED BY <1>0, <1>1, <1>6 DEF Placed

(* ... a receive from there to the next position, ...                      *)
LEMMA AtRecv ==
    ASSUME NEW s \in Side, NEW e \in Endpoint, Placed(s, e),
           OpOf(s, e) = "recv"
    PROVE  \A f : /\ f.pc = e.pc + 1 /\ f.tx = e.tx /\ f.rx = e.rx + 1
                  => Placed(s, f)
<1>0. Exchanges \in Nat /\ Relay[s] \in BOOLEAN /\ LastSend(s) \in Nat
  BY ConstantsAssumption, ScriptIs
<1>1. e.pc \in Nat /\ e.tx \in Nat /\ e.rx \in Nat
  BY EpFields
<1>2. e.pc <= LastSend(s) + 1 /\ Script(s)[e.pc] = "recv"
  BY <1>0, <1>1, ScriptIs DEF OpOf
<1>3. e.pc # 1 /\ e.pc # 2 * Exchanges + 2 /\ e.pc # LastSend(s)
  BY <1>2, ScriptIs
<1>4. Relay[s] => e.pc # 2 * Exchanges + 3
  BY <1>2, ScriptIs
<1>5. e.rx < Exchanges => e.pc # 2 * e.rx + 2
  <2>1. e.rx < Exchanges => e.rx \in 0..(Exchanges - 1)
    BY <1>0, <1>1
  <2> QED BY <1>2, <2>1, ScriptIs
<1>6. \/ e.rx < Exchanges /\ e.pc = 2 * e.rx + 3 /\ e.tx = e.rx + 1
      \/ e.pc = LastSend(s) + 1 /\ e.tx = Exchanges + 1 /\ e.rx = Exchanges
  <2>1. e.pc \notin (2 * Exchanges + 2)..LastSend(s)
    BY <1>0, <1>1, <1>3, <1>4 DEF LastSend
  <2>2. e.pc # LastSend(s) + 2
    BY <1>0, <1>1, <1>2
  <2> QED BY <1>3, <1>5, <2>1, <2>2 DEF Placed
<1>7. 2 * Exchanges + 2 \in (2 * Exchanges + 2)..LastSend(s)
  BY <1>0 DEF LastSend
<1>8. e.rx + 1 < Exchanges \/ e.rx + 1 = Exchanges \/ e.rx + 1 = Exchanges + 1
  BY <1>0, <1>1, <1>6
<1> QED BY <1>0, <1>1, <1>6, <1>7, <1>8 DEF Placed

(* ... anything else leaves the cursors alone, ...                         *)
LEMMA AtOther ==
    ASSUME NEW s \in Side, NEW e \in Endpoint, Placed(s, e),
           OpOf(s, e) \notin {"send", "recv", "done"}
    PROVE  \A f : /\ f.pc = e.pc + 1 /\ f.tx = e.tx /\ f.rx = e.rx
                  => Placed(s, f)
<1>0. Exchanges \in Nat /\ Relay[s] \in BOOLEAN /\ LastSend(s) \in Nat
  BY ConstantsAssumption, ScriptIs
<1>1. e.pc \in Nat /\ e.tx \in Nat /\ e.rx \in Nat
  BY EpFields
<1>2. e.pc <= LastSend(s) + 1 /\ Script(s)[e.pc] \notin {"send", "recv"}
  BY <1>0, <1>1, ScriptIs DEF OpOf
<1>3. e.pc # LastSend(s) /\ e.pc # LastSend(s) + 1
  BY <1>2, ScriptIs
<1>5. e.rx < Exchanges => e.pc # 2 * e.rx + 2 /\ e.pc # 2 * e.rx + 3
  <2>1. e.rx < Exchanges => e.rx \in 0..(Exchanges - 1)
    BY <1>0, <1>1
  <2> QED BY <1>2, <2>1, ScriptIs
<1>6. \/ e.pc = 1 /\ e.tx = 0 /\ e.rx = 0
      \/ /\ e.pc \in (2 * Exchanges + 2)..(LastSend(s) - 1)
         /\ e.tx = Exchanges /\ e.rx = Exchanges
  BY <1>0, <1>1, <1>2, <1>3, <1>5 DEF Placed
<1>7. Exchanges = 0 => 2 \in (2 * Exchanges + 2)..LastSend(s)
  BY <1>0 DEF LastSend
<1> QED BY <1>0, <1>1, <1>6, <1>7 DEF Placed

(* ... and at the end every signal has been received.                      *)
LEMMA AtDone ==
    ASSUME NEW s \in Side, NEW e \in Endpoint, Placed(s, e),
           OpOf(s, e) = "done"
    PROVE  e.rx = Exchanges + 1
<1>0. Exchanges \in Nat /\ Relay[s] \in BOOLEAN /\ LastSend(s) \in Nat
  BY ConstantsAssumption, ScriptIs
<1>1. e.pc \in Nat /\ e.tx \in Nat /\ e.rx \in Nat
  BY EpFields
<1>2. ASSUME e.pc <= LastSend(s) + 1 PROVE FALSE
  <2>1. Script(s)[e.pc] = "done"
    BY <1>2, ScriptIs DEF OpOf
  <2>2. e.pc # 1 /\ e.pc # 2 * Exchanges + 2 /\ e.pc # LastSend(s) + 1
        /\ e.pc # LastSend(s)
    BY <2>1, ScriptIs
  <2>3. Relay[s] => e.pc # 2 * Exchanges + 3
    BY <2>1, ScriptIs
  <2>4. e.rx < Exchanges => e.pc # 2 * e.rx + 2 /\ e.pc # 2 * e.rx + 3
    <3>1. e.rx < Exchanges => e.rx \in 0..(Exchanges - 1)
      BY <1>0, <1>1
    <3> QED BY <2>1, <3>1, ScriptIs
  <2> QED BY <1>0, <1>1, <1>2, <2>2, <2>3, <2>4 DEF Placed, LastSend
<1> QED BY <1>0, <1>1, <1>2 DEF Placed, LastSend

-----------------------------------------------------------------------------
(* Types *)

LEMMA SideFacts ==
    /\ \A s \in Side : Peer(s) \in Side /\ Peer(s) # s /\ Peer(Peer(s)) = s
    /\ \A s, t \in Side : t = s \/ t = Peer(s)
    /\ Side # {}
BY DEF Side, Peer

LEMMA SockFields ==
    ASSUME NEW k \in Socket
    PROVE  /\ k.pc \in {"catchup", "select", "off"} /\ k.wake \in BOOLEAN
           /\ k.acked \in Nat /\ k.queued \in Nat /\ k.sent \in Nat
           /\ k.writing \in Nat /\ k.snap \in {None, 0, 1}
           /\ k.in \in Seq(Input) /\ Len(k.in) \in Nat
           /\ k.out \in Seq(Msg) /\ Len(k.out) \in Nat
           /\ Written(k) \in Nat
BY DEF Socket, Written

LEMMA MsgFields ==
    ASSUME NEW m \in Msg
    PROVE  /\ m.kind \in {"message", "caps", "result", "revoked"}
           /\ m.n \in Nat
           /\ m.kind = "caps" => m.n \in 0..1
BY DEF Msg

LEMMA InputFields ==
    ASSUME NEW m \in Input
    PROVE  m.kind \in {"ack", "send", "approve", "turn"} /\ m.n \in Nat
BY DEF Input, Rpcs

LEMMA NewSocketType ==
    ASSUME NEW n \in Nat
    PROVE  /\ NewSocket(n) \in Socket
           /\ NewSocket(n).pc = "catchup" /\ NewSocket(n).queued = n
           /\ Written(NewSocket(n)) = n
           /\ NewSocket(n).in = <<>> /\ NewSocket(n).out = <<>>
BY DEF NewSocket, Socket, Written, Input, Msg

LEMMA OffType ==
    ASSUME NEW out \in Seq(Msg)
    PROVE  /\ Off(out) \in Socket /\ Off(out).pc = "off"
           /\ Off(out).in = <<>> /\ Off(out).out = out
BY NewSocketType DEF Off, NewSocket, Socket, Input

(* Sockets that differ only in what the server has told their owner. *)
Alike(k, h) ==
    /\ k.pc = h.pc /\ k.queued = h.queued
    /\ k.sent = h.sent /\ k.writing = h.writing
    /\ k.in = h.in /\ k.out = h.out

LEMMA WakeType ==
    ASSUME NEW k \in Socket
    PROVE  Wake(k) \in Socket /\ Alike(k, Wake(k))
BY DEF Wake, Socket, Alike

LEMMA UnreadType ==
    ASSUME NEW k \in Socket
    PROVE  /\ Unread(k) \in Socket
           /\ Unread(k).in = k.in /\ Written(Unread(k)) = Written(k)
<1>0. <<>> \in Seq(Msg)
  OBVIOUS
<1>1. Unread(k) \in Socket
  BY <1>0 DEF Unread, Socket
<1>2. /\ Unread(k).in = k.in /\ Unread(k).sent = k.sent
      /\ Unread(k).writing = k.writing
  BY DEF Unread, Socket
<1> QED BY <1>1, <1>2 DEF Written

-----------------------------------------------------------------------------
(* A side whose sockets or whose mailbox changed *)

LEMMA AlikeOk ==
    ASSUME NEW k \in Socket, NEW h \in Socket, Alike(k, h),
           NEW s \in Side, NEW e, NEW own, NEW other, NEW l
    PROVE  /\ InOk(k, own) => InOk(h, own)
           /\ CurOk(s, e, k, own, other, l) => CurOk(s, e, h, own, other, l)
<1>1. Written(h) = Written(k)
  BY DEF Alike, Written
<1>2. InOk(k, own) => InOk(h, own)
  BY <1>1 DEF Alike, InOk
<1>3. RpcOk(s, e, k, own) => RpcOk(s, e, h, own)
  BY DEF RpcOk, Alike
<1>4. k.pc # "off" /\ Pushed(k, Base(e), other) =>
        h.pc # "off" /\ Pushed(h, Base(e), other)
  BY <1>1 DEF Pushed, Alike
<1> QED BY <1>2, <1>3, <1>4 DEF CurOk, Alike

(* Another value of one socket. *)
LEMMA OneSocket ==
    ASSUME NEW s \in Side, NEW e \in Endpoint, NEW q \in Seq(Socket),
           NEW own, NEW other, NEW l,
           SideOk(s, e, q, own, other, l),
           NEW i \in 1..Len(q), NEW k \in Socket, InOk(k, own),
           e.conn = i => CurOk(s, e, k, own, other, l)
    PROVE  /\ [q EXCEPT ![i] = k] \in Seq(Socket)
           /\ SideOk(s, e, [q EXCEPT ![i] = k], own, other, l)
<1> DEFINE r == [q EXCEPT ![i] = k]
<1>1. r \in Seq(Socket) /\ Len(r) = Len(q)
  BY ExceptSeq
<1>2. r[i] = k /\ \A j \in 1..Len(q) : j # i => r[j] = q[j]
  BY ExceptSeq
<1> HIDE DEF r
<1>3. \A j \in 1..Len(r) : InOk(r[j], own)
  BY <1>1, <1>2 DEF SideOk
<1>4. e.conn # 0 => CurOk(s, e, r[e.conn], own, other, l)
  BY <1>2 DEF SideOk
<1> QED BY <1>1, <1>3, <1>4 DEF SideOk, r

(* Sockets that are alike. *)
LEMMA SocketsAlike ==
    ASSUME NEW s \in Side, NEW e \in Endpoint,
           NEW q \in Seq(Socket), NEW r \in Seq(Socket),
           Len(r) = Len(q), \A i \in 1..Len(q) : Alike(q[i], r[i]),
           NEW own, NEW other, NEW l,
           SideOk(s, e, q, own, other, l)
    PROVE  SideOk(s, e, r, own, other, l)
<1>0. \A i \in 1..Len(q) : q[i] \in Socket /\ r[i] \in Socket
  BY ElementOfSeq
<1>1. \A i \in 1..Len(r) : InOk(r[i], own)
  BY <1>0, AlikeOk DEF SideOk
<1>2. e.conn # 0 => CurOk(s, e, r[e.conn], own, other, l)
  BY <1>0, AlikeOk DEF SideOk
<1> QED BY <1>1, <1>2 DEF SideOk

(* More is stored, or the session has ended. *)
LEMMA Later ==
    ASSUME NEW s \in Side, NEW e \in Endpoint, NEW q \in Seq(Socket),
           NEW own \in Nat, NEW other \in Nat, NEW l \in BOOLEAN,
           NEW own2 \in Nat, NEW other2 \in Nat, NEW l2 \in BOOLEAN,
           own <= own2, own2 <= Exchanges + 1, other <= other2, l2 => l,
           SideOk(s, e, q, own, other, l)
    PROVE  SideOk(s, e, q, own2, other2, l2)
<1>0. Exchanges \in Nat
  BY ConstantsAssumption
<1>1. EpOk(s, e, own2, other2, l2)
  BY EpFields DEF SideOk, EpOk
<1>2. ASSUME NEW i \in 1..Len(q) PROVE InOk(q[i], own2)
  <2>1. q[i] \in Socket /\ InOk(q[i], own)
    BY ElementOfSeq DEF SideOk
  <2>2. \A a \in 1..Len(q[i].in) : q[i].in[a] \in Input
    BY <2>1, SockFields, ElementOfSeq
  <2>3. \A a \in 1..Len(q[i].in) : q[i].in[a].n \in Nat
    BY <2>2, InputFields
  <2> QED BY <2>1, <2>3 DEF InOk
<1>3. ASSUME e.conn # 0 PROVE CurOk(s, e, q[e.conn], own2, other2, l2)
  <2> DEFINE k == q[e.conn]
  <2>1. k \in Socket /\ CurOk(s, e, k, own, other, l)
    BY <1>3, ElementOfSeq DEF SideOk
  <2> HIDE DEF k
  <2>2. \A i \in 1..Len(k.out) : k.out[i] \in Msg
    BY <2>1, SockFields, ElementOfSeq
  <2>3. \A i \in 1..Len(k.out) : k.out[i].n \in Nat
    BY <2>2, MsgFields
  <2>4. OutOk(k.out, other2, l2)
    BY <2>1, <2>3 DEF CurOk, OutOk
  <2>5. RpcOk(s, e, k, own2)
    BY <2>1, EpFields DEF CurOk, RpcOk
  <2>6. k.pc # "off" => Pushed(k, Base(e), other2)
    BY <2>1, SockFields, EpFields DEF CurOk, Pushed
  <2> QED BY <2>1, <2>4, <2>5, <2>6 DEF CurOk, k
<1> QED BY <1>1, <1>2, <1>3 DEF SideOk

-----------------------------------------------------------------------------
(* What the owner loop and the writer do to a socket *)

(* The owner takes an input: what it leaves is as before, without the      *)
(* request it took.                                                        *)
LEMMA TailIn ==
    ASSUME NEW k \in Socket, k.in # <<>>,
           NEW h \in Socket, h = [k EXCEPT !.in = Tail(@)]
    PROVE  /\ h.pc = k.pc /\ h.queued = k.queued /\ h.acked = k.acked
           /\ h.sent = k.sent /\ h.writing = k.writing /\ h.out = k.out
           /\ h.snap = k.snap /\ h.wake = k.wake
           /\ Head(k.in) = k.in[1] /\ Head(k.in) \in Input
           /\ \A a \in 1..Len(h.in) : /\ a + 1 \in 1..Len(k.in)
                                      /\ h.in[a] = k.in[a + 1]
<1>1. k.in \in Seq(Input)
  BY SockFields
<1>2. h.in = Tail(k.in)
  BY DEF Socket
<1>3. /\ Head(k.in) = k.in[1] /\ Head(k.in) \in Input
      /\ Len(Tail(k.in)) = Len(k.in) - 1 /\ Len(k.in) \in Nat
      /\ \A a \in 1..Len(Tail(k.in)) : Tail(k.in)[a] = k.in[a + 1]
  BY <1>1, HeadTailProperties
<1>4. /\ h.pc = k.pc /\ h.queued = k.queued /\ h.acked = k.acked
      /\ h.sent = k.sent /\ h.writing = k.writing /\ h.out = k.out
      /\ h.snap = k.snap /\ h.wake = k.wake
  BY DEF Socket
<1> QED BY <1>2, <1>3, <1>4

LEMMA TailInType ==
    ASSUME NEW k \in Socket, k.in # <<>>
    PROVE  [k EXCEPT !.in = Tail(@)] \in Socket
<1>1. Tail(k.in) \in Seq(Input)
  BY SockFields, HeadTailProperties
<1> QED BY <1>1 DEF Socket

LEMMA TakeIn ==
    ASSUME NEW k \in Socket, k.in # <<>>, NEW own, InOk(k, own),
           NEW h \in Socket, h = [k EXCEPT !.in = Tail(@)]
    PROVE  /\ InOk(h, own)
           /\ \A s \in Side : \A e : RpcOk(s, e, k, own) => RpcOk(s, e, h, own)
<1>1. \A a \in 1..Len(h.in) : a + 1 \in 1..Len(k.in) /\ h.in[a] = k.in[a + 1]
  BY TailIn
<1>2. Written(h) = Written(k) /\ h.out = k.out
  BY TailIn DEF Written
<1>3. InOk(h, own)
  BY <1>1, <1>2 DEF InOk
<1>4. ASSUME NEW s \in Side, NEW e, RpcOk(s, e, k, own)
      PROVE  RpcOk(s, e, h, own)
  <2>1. ASSUME NEW a \in 1..Len(h.in), IsRequest(h.in[a])
        PROVE  /\ e.rpc = "sent" /\ h.in[a].kind = OpOf(s, e)
               /\ h.in[a].n = e.tx + 1
               /\ \A b \in 1..Len(h.in) : IsRequest(h.in[b]) => a = b
               /\ \A i \in 1..Len(h.out) : ~IsResult(h.out[i])
    <3>1. a + 1 \in 1..Len(k.in) /\ IsRequest(k.in[a + 1])
      BY <1>1, <2>1
    <3>2. ASSUME NEW b \in 1..Len(h.in), IsRequest(h.in[b]) PROVE a = b
      <4>1. b + 1 \in 1..Len(k.in) /\ IsRequest(k.in[b + 1])
        BY <1>1, <3>2
      <4>2. a + 1 = b + 1
        BY <1>4, <3>1, <4>1 DEF RpcOk
      <4> QED BY <4>2
    <3> QED BY <1>1, <1>2, <1>4, <3>1, <3>2 DEF RpcOk
  <2> QED BY <1>2, <1>4, <2>1 DEF RpcOk
<1> QED BY <1>3, <1>4

LEMMA JoinedMsg ==
    \A p, q \in Seq(Msg) :
        /\ p \o q \in Seq(Msg) /\ Len(p \o q) = Len(p) + Len(q)
        /\ \A i \in 1..Len(p) : (p \o q)[i] = p[i]
        /\ \A i \in 1..Len(q) : (p \o q)[Len(p) + i] = q[i]
<1>1. \A p, q \in Seq(Msg) : Len(p) \in Nat /\ Len(q) \in Nat
  OBVIOUS
<1> QED BY <1>1, ConcatProperties

(* catchup appends the snapshot, if it changed, and the messages after     *)
(* queued, none beyond what is stored.                                     *)
LEMMA CatchupIs ==
    ASSUME NEW k \in Socket, NEW stored \in Nat, approved \in 0..1,
           NEW h, h = Catchup(k, stored)
    PROVE  /\ h \in Socket
           /\ h.pc = "select" /\ h.sent = k.sent /\ h.writing = k.writing
           /\ h.in = k.in
           /\ k.queued <= h.queued
           /\ h.queued <= stored \/ h.queued = k.queued
           /\ Len(k.out) <= Len(h.out)
           /\ \A i \in 1..Len(k.out) : h.out[i] = k.out[i]
           /\ \A i \in (Len(k.out) + 1)..Len(h.out) :
                \/ h.out[i].kind = "caps"
                \/ /\ IsMessage(h.out[i])
                   /\ h.out[i].n \in (k.queued + 1)..h.queued
                   /\ h.out[i].n = k.queued + 1 \/
                      (i - 1 > Len(k.out) /\ IsMessage(h.out[i - 1])
                         /\ h.out[i - 1].n = h.out[i].n - 1)
                   /\ \A j \in (Len(k.out) + 1)..(i - 1) :
                        IsMessage(h.out[j]) => h.out[j].n < h.out[i].n
           /\ h.queued = k.queued \/ /\ Len(h.out) > Len(k.out)
                                     /\ IsMessage(h.out[Len(h.out)])
                                     /\ h.out[Len(h.out)].n = h.queued
<1> DEFINE top == IF Reach(k, stored) > k.queued THEN Reach(k, stored) ELSE k.queued
           news == [j \in 1..(top - k.queued) |->
                      [kind |-> "message", n |-> k.queued + j]]
           L == Len(k.out)
           sn == Snapshot(k)
           out == k.out \o sn \o news
<1>0. /\ k.queued \in Nat /\ k.acked \in Nat /\ k.out \in Seq(Msg) /\ L \in Nat
      /\ Window \in Nat
  BY SockFields, ConstantsAssumption
<1>1. /\ top \in Nat /\ k.queued <= top
      /\ top <= stored \/ top = k.queued
  <2>1. Reach(k, stored) \in Nat /\ Reach(k, stored) <= stored
    BY <1>0 DEF Reach
  <2> QED BY <1>0, <2>1
<1> HIDE DEF top
<1>2. /\ news \in Seq(Msg) /\ Len(news) = top - k.queued
      /\ \A j \in 1..Len(news) : news[j] = [kind |-> "message", n |-> k.queued + j]
  <2>1. top - k.queued \in Nat
    BY <1>0, <1>1
  <2>2. \A j \in 1..(top - k.queued) :
          [kind |-> "message", n |-> k.queued + j] \in Msg
    BY <1>0, <2>1 DEF Msg
  <2>3. news \in [1..(top - k.queued) -> Msg]
    BY <2>2
  <2>4. news \in Seq(Msg) /\ Len(news) = top - k.queued
    <3>1. DOMAIN news = 1..(top - k.queued)
      OBVIOUS
    <3> HIDE DEF news
    <3> QED BY <2>1, <2>3, <3>1
  <2> QED BY <2>1, <2>4
<1>3. /\ sn \in Seq(Msg) /\ Len(sn) \in 0..1
      /\ \A j \in 1..Len(sn) : sn[j].kind = "caps"
  <2>1. CASE k.snap = approved
    <3>1. sn = <<>>
      BY <2>1 DEF Snapshot
    <3> QED BY <3>1
  <2>2. CASE k.snap # approved
    <3>1. sn = <<[kind |-> "caps", n |-> approved]>>
      BY <2>2 DEF Snapshot
    <3>2. [kind |-> "caps", n |-> approved] \in Msg
      BY DEF Msg
    <3> HIDE DEF sn
    <3> QED BY <3>1, <3>2
  <2> QED BY <2>1, <2>2
<1> HIDE DEF news, sn
<1> DEFINE mid == k.out \o sn
<1>4. /\ mid \in Seq(Msg) /\ Len(mid) = L + Len(sn)
      /\ \A i \in 1..L : mid[i] = k.out[i]
      /\ \A i \in 1..Len(sn) : mid[L + i] = sn[i]
  BY <1>0, <1>3, JoinedMsg, Zenon
<1>5. /\ out \in Seq(Msg) /\ Len(out) = Len(mid) + Len(news)
      /\ \A i \in 1..Len(mid) : out[i] = mid[i]
      /\ \A i \in 1..Len(news) : out[Len(mid) + i] = news[i]
  <2>1. out = mid \o news
    OBVIOUS
  <2> HIDE DEF mid, out
  <2>2. /\ mid \o news \in Seq(Msg) /\ Len(mid \o news) = Len(mid) + Len(news)
        /\ \A i \in 1..Len(mid) : (mid \o news)[i] = mid[i]
        /\ \A i \in 1..Len(news) : (mid \o news)[Len(mid) + i] = news[i]
    BY <1>2, <1>4, JoinedMsg, Zenon
  <2> QED BY <2>1, <2>2
<1>6. /\ h = [k EXCEPT !.pc = "select", !.snap = approved, !.queued = top,
                       !.out = out]
      /\ out \in Seq(Msg)
  <2>1. out \in Seq(Msg)
    BY <1>5
  <2>2. h = [k EXCEPT !.pc = "select", !.snap = approved, !.queued = top,
                      !.out = out]
    BY DEF Catchup, top, news, sn
  <2> QED BY <2>1, <2>2
<1> HIDE DEF out, mid
<1>7. /\ h \in Socket
      /\ h.pc = "select" /\ h.sent = k.sent /\ h.writing = k.writing
      /\ h.in = k.in /\ h.queued = top /\ h.out = out
  <2>1. approved \in {None, 0, 1}
    OBVIOUS
  <2> QED BY ZenonT(60), <1>1, <1>6, <2>1 DEF Socket
<1>8. /\ Len(mid) \in Nat /\ Len(sn) \in Nat /\ Len(news) \in Nat
      /\ Len(out) \in Nat /\ L <= Len(mid)
  BY SMTT(60), <1>0, <1>1, <1>2, <1>3, <1>4, <1>5
<1>9. \A i \in 1..L : out[i] = k.out[i]
  BY SMTT(60), <1>0, <1>4, <1>5, <1>8
<1>10. \A i \in (L + 1)..Len(mid) : out[i].kind = "caps"
  <2> SUFFICES ASSUME NEW i \in (L + 1)..Len(mid) PROVE out[i].kind = "caps"
    OBVIOUS
  <2>1. i - L \in 1..Len(sn) /\ L + (i - L) = i /\ i \in 1..Len(mid)
    BY <1>0, <1>4, <1>8
  <2> QED BY ZenonT(60), <1>3, <1>4, <1>5, <2>1
<1>11. \A i \in (Len(mid) + 1)..Len(out) :
          IsMessage(out[i]) /\ out[i].n = k.queued + (i - Len(mid))
  <2> SUFFICES ASSUME NEW i \in (Len(mid) + 1)..Len(out)
               PROVE  IsMessage(out[i]) /\ out[i].n = k.queued + (i - Len(mid))
    OBVIOUS
  <2>1. i - Len(mid) \in 1..Len(news) /\ Len(mid) + (i - Len(mid)) = i
    BY <1>5, <1>8
  <2>2. out[i] = [kind |-> "message", n |-> k.queued + (i - Len(mid))]
    BY <1>2, <1>5, <2>1
  <2> QED BY <2>2 DEF IsMessage
<1>12. ASSUME NEW i \in (L + 1)..Len(out)
       PROVE  \/ out[i].kind = "caps"
              \/ /\ IsMessage(out[i])
                 /\ out[i].n \in (k.queued + 1)..top
                 /\ out[i].n = k.queued + 1 \/
                    (i - 1 > L /\ IsMessage(out[i - 1])
                       /\ out[i - 1].n = out[i].n - 1)
                 /\ \A j \in (L + 1)..(i - 1) :
                      IsMessage(out[j]) => out[j].n < out[i].n
  <2>1. CASE i <= Len(mid)
    BY SMTT(60), <1>0, <1>8, <1>10, <2>1
  <2>2. CASE i > Len(mid)
    <3>1. i \in (Len(mid) + 1)..Len(out) /\ IsMessage(out[i])
          /\ out[i].n = k.queued + (i - Len(mid))
      BY SMTT(60), <1>0, <1>5, <1>8, <1>11, <2>2
    <3>0. i \in Nat /\ i - Len(mid) \in 1..(top - k.queued)
      BY SMTT(60), <1>0, <1>1, <1>2, <1>5, <1>8, <3>1
    <3>2. out[i].n \in (k.queued + 1)..top
      <4> DEFINE d == i - Len(mid)
      <4>1. d \in 1..(top - k.queued) /\ out[i].n = k.queued + d
        BY <3>0, <3>1
      <4> HIDE DEF d
      <4> QED BY SMTT(60), <1>0, <1>1, <4>1
    <3>3. i - 1 > Len(mid) => /\ i - 1 > L /\ IsMessage(out[i - 1])
                              /\ out[i - 1].n = k.queued + (i - 1 - Len(mid))
      <4> SUFFICES ASSUME i - 1 > Len(mid)
                   PROVE  /\ i - 1 > L /\ IsMessage(out[i - 1])
                          /\ out[i - 1].n = k.queued + (i - 1 - Len(mid))
        OBVIOUS
      <4>1. i - 1 \in (Len(mid) + 1)..Len(out) /\ i - 1 > L
        BY SMTT(60), <1>0, <1>8, <3>0, <3>1
      <4> QED BY <1>11, <4>1
    <3>4. i - 1 <= Len(mid) => out[i].n = k.queued + 1
      BY <1>0, <1>8, <2>2, <3>1
    <3>5. ASSUME NEW j \in (L + 1)..(i - 1), IsMessage(out[j])
          PROVE  out[j].n < out[i].n
      <4>1. j > Len(mid)
        BY SMTT(60), <1>0, <1>8, <1>10, <3>5 DEF IsMessage
      <4>2. out[j].n = k.queued + (j - Len(mid))
        <5>1. j \in (Len(mid) + 1)..Len(out)
          BY SMTT(60), <1>0, <1>8, <3>0, <3>1, <4>1
        <5> QED BY <1>11, <5>1
      <4> QED BY SMTT(60), <1>0, <1>8, <3>1, <4>2
    <3>6. out[i - 1].n = k.queued + (i - 1 - Len(mid)) => out[i - 1].n = out[i].n - 1
      BY SMTT(60), <1>0, <1>8, <3>0, <3>1
    <3> QED BY <1>0, <1>8, <3>0, <3>1, <3>2, <3>3, <3>4, <3>5, <3>6
  <2> QED BY <1>0, <1>5, <1>8, <2>1, <2>2
<1>13. top = k.queued \/ /\ Len(out) > L
                         /\ IsMessage(out[Len(out)]) /\ out[Len(out)].n = top
  <2>1. CASE top = k.queued
    BY <2>1
  <2>2. CASE top # k.queued
    <3>1. Len(out) \in (Len(mid) + 1)..Len(out) /\ Len(out) - Len(mid) = top - k.queued
      BY SMTT(60), <1>0, <1>1, <1>2, <1>5, <1>8, <2>2
    <3>2. IsMessage(out[Len(out)]) /\ out[Len(out)].n = k.queued + (top - k.queued)
      BY <1>11, <3>1
    <3> QED BY SMTT(60), <1>0, <1>1, <1>8, <3>1, <3>2
  <2> QED BY <2>1, <2>2
<1>14. L <= Len(out)
  BY <1>0, <1>5, <1>8
<1> QED BY <1>1, <1>7, <1>9, <1>12, <1>13, <1>14

LEMMA CatchupOk ==
    ASSUME NEW s \in Side, NEW e \in Endpoint, NEW k \in Socket,
           NEW own \in Nat, NEW other \in Nat, NEW l, approved \in 0..1,
           k.pc # "off", CurOk(s, e, k, own, other, l)
    PROVE  CurOk(s, e, Catchup(k, other), own, other, l)
<1> DEFINE h == Catchup(k, other)
           L == Len(k.out)
           b == Base(e)
<1>1. /\ h \in Socket
      /\ h.pc = "select" /\ h.sent = k.sent /\ h.writing = k.writing
      /\ h.in = k.in
      /\ k.queued <= h.queued
      /\ h.queued <= other \/ h.queued = k.queued
      /\ Len(k.out) <= Len(h.out)
      /\ \A i \in 1..Len(k.out) : h.out[i] = k.out[i]
  BY CatchupIs
<1>2. \A i \in (Len(k.out) + 1)..Len(h.out) :
        \/ h.out[i].kind = "caps"
        \/ /\ IsMessage(h.out[i])
           /\ h.out[i].n \in (k.queued + 1)..h.queued
           /\ h.out[i].n = k.queued + 1 \/
              (i - 1 > Len(k.out) /\ IsMessage(h.out[i - 1])
                 /\ h.out[i - 1].n = h.out[i].n - 1)
           /\ \A j \in (Len(k.out) + 1)..(i - 1) :
                IsMessage(h.out[j]) => h.out[j].n < h.out[i].n
  BY CatchupIs, Zenon
<1>3. h.queued = k.queued \/ /\ Len(h.out) > Len(k.out)
                             /\ IsMessage(h.out[Len(h.out)])
                             /\ h.out[Len(h.out)].n = h.queued
  BY CatchupIs, Zenon
<1>4. /\ b \in Nat /\ L \in Nat /\ k.queued \in Nat
      /\ h.queued \in Nat /\ Len(h.out) \in Nat
  BY <1>1, EpFields, SockFields
<1> HIDE DEF h
<1>5. /\ Chain(k.out, b) /\ OutOk(k.out, other, l) /\ RpcOk(s, e, k, own)
      /\ Pushed(k, b, other)
  BY DEF CurOk
<1>6. /\ b <= k.queued /\ k.queued <= other /\ Written(k) = b
      /\ \A i \in 1..L : IsMessage(k.out[i]) => k.out[i].n <= k.queued
  BY <1>5 DEF Pushed
<1>7. \A i \in 1..L : k.out[i].n \in Nat
  <2>1. k.out \in Seq(Msg)
    BY SockFields
  <2>2. \A i \in 1..L : k.out[i] \in Msg
    BY <2>1, ElementOfSeq
  <2> QED BY <2>2, MsgFields
<1>8. ASSUME NEW i \in 1..Len(h.out), IsMessage(h.out[i]), i > L
      PROVE  /\ h.out[i].n \in (k.queued + 1)..h.queued
             /\ h.out[i].n = k.queued + 1 \/
                (i - 1 > L /\ IsMessage(h.out[i - 1])
                   /\ h.out[i - 1].n = h.out[i].n - 1)
             /\ \A j \in (L + 1)..(i - 1) :
                  IsMessage(h.out[j]) => h.out[j].n < h.out[i].n
  <2>1. i \in (L + 1)..Len(h.out)
    BY <1>4, <1>8
  <2>2. h.out[i].kind # "caps"
    BY <1>8 DEF IsMessage
  <2> QED BY <1>2, <2>1, <2>2, Zenon
<1>9. Chain(h.out, b)
  <2> SUFFICES ASSUME NEW i \in 1..Len(h.out), IsMessage(h.out[i])
               PROVE  /\ h.out[i].n > b
                      /\ \/ h.out[i].n = b + 1
                         \/ \E j \in 1..(i - 1) : /\ IsMessage(h.out[j])
                                                  /\ h.out[j].n = h.out[i].n - 1
                      /\ \A j \in 1..(i - 1) :
                           IsMessage(h.out[j]) => h.out[j].n < h.out[i].n
    BY DEF Chain
  <2>1. CASE i <= L
    <3>1. i \in 1..L /\ h.out[i] = k.out[i]
      BY <1>1, <1>4, <2>1
    <3>2. \A j \in 1..(i - 1) : h.out[j] = k.out[j]
      BY <1>1, <1>4, <2>1
    <3> QED BY <1>5, <3>1, <3>2 DEF Chain
  <2>2. CASE i > L
    <3>1. h.out[i].n \in Nat /\ h.out[i].n >= k.queued + 1
      BY SMTT(60), <1>4, <1>8, <2>2
    <3>2. h.out[i].n > b
      BY <1>4, <1>6, <3>1
    <3>3. \/ h.out[i].n = b + 1
          \/ \E j \in 1..(i - 1) : /\ IsMessage(h.out[j])
                                   /\ h.out[j].n = h.out[i].n - 1
      <4>1. CASE h.out[i].n = k.queued + 1
        <5>1. CASE k.queued = b
          BY <4>1, <5>1
        <5>2. CASE k.queued # b
          <6>1. PICK j \in 1..L : IsMessage(k.out[j]) /\ k.out[j].n = k.queued
            BY <1>5, <5>2 DEF Pushed
          <6>2. j \in 1..(i - 1) /\ h.out[j] = k.out[j]
            BY <1>1, <1>4, <2>2
          <6>3. h.out[j].n = h.out[i].n - 1
            BY <1>4, <4>1, <6>1, <6>2
          <6> QED BY <6>1, <6>2, <6>3
        <5> QED BY <5>1, <5>2
      <4>2. CASE h.out[i].n # k.queued + 1
        <5>1. i - 1 > L /\ IsMessage(h.out[i - 1]) /\ h.out[i - 1].n = h.out[i].n - 1
          BY <1>8, <2>2, <4>2
        <5>2. i - 1 \in 1..(i - 1)
          BY <1>4, <5>1
        <5> QED BY <5>1, <5>2
      <4> QED BY <4>1, <4>2
    <3>4. ASSUME NEW j \in 1..(i - 1), IsMessage(h.out[j])
          PROVE  h.out[j].n < h.out[i].n
      <4>1. CASE j <= L
        <5>1. j \in 1..L /\ h.out[j] = k.out[j]
          BY <1>1, <1>4, <4>1
        <5>2. k.out[j].n <= k.queued /\ k.out[j].n \in Nat
          BY <1>6, <1>7, <3>4, <5>1
        <5>3. \A x, y, z \in Nat : x <= z /\ y >= z + 1 => x < y
          OBVIOUS
        <5>4. k.out[j].n < h.out[i].n
          BY <1>4, <3>1, <5>2, <5>3, Zenon
        <5> QED BY <5>1, <5>4, Zenon
      <4>2. CASE j > L
        <5>1. j \in (L + 1)..(i - 1)
          BY <1>4, <4>2
        <5> QED BY <1>8, <2>2, <3>4, <5>1
      <4> QED BY <1>4, <4>1, <4>2
    <3> QED BY <3>2, <3>3, <3>4
  <2> QED BY <1>4, <2>1, <2>2
<1>10. OutOk(h.out, other, l)
  <2> SUFFICES ASSUME NEW i \in 1..Len(h.out)
               PROVE  /\ IsMessage(h.out[i]) => h.out[i].n <= other
                      /\ IsResult(h.out[i]) => h.out[i].n = 200
                      /\ h.out[i].kind = "revoked" => ~l
    BY DEF OutOk
  <2>1. CASE i <= L
    <3>1. i \in 1..L /\ h.out[i] = k.out[i]
      BY <1>1, <1>4, <2>1
    <3> QED BY <1>5, <3>1 DEF OutOk
  <2>2. CASE i > L
    <3>1. i \in (L + 1)..Len(h.out)
      BY <1>4, <2>2
    <3>2. h.out[i].kind \in {"caps", "message"}
      BY <1>2, <3>1 DEF IsMessage
    <3>3. h.queued <= other
      BY <1>1, <1>4, <1>6
    <3>4. IsMessage(h.out[i]) => h.out[i].n <= other
      BY SMTT(60), <1>4, <1>8, <2>2, <3>3
    <3> QED BY <3>2, <3>4 DEF IsResult
  <2> QED BY <1>4, <2>1, <2>2
<1>11. RpcOk(s, e, h, own)
  <2>1. \A i \in 1..Len(h.out) :
          IsResult(h.out[i]) => i \in 1..L /\ h.out[i] = k.out[i]
    <3> SUFFICES ASSUME NEW i \in 1..Len(h.out), IsResult(h.out[i])
                 PROVE  i \in 1..L /\ h.out[i] = k.out[i]
      OBVIOUS
    <3>1. CASE i <= L
      BY <1>1, <1>4, <3>1
    <3>2. CASE i > L
      <4>1. i \in (L + 1)..Len(h.out)
        BY <1>4, <3>2
      <4>2. h.out[i].kind \in {"caps", "message"}
        BY <1>2, <4>1 DEF IsMessage
      <4> QED BY <4>2 DEF IsResult
    <3> QED BY <1>4, <3>1, <3>2
  <2> QED BY <1>1, <1>5, <2>1 DEF RpcOk
<1>12. Pushed(h, b, other)
  <2>1. Written(h) = b
    BY <1>1, <1>6 DEF Written
  <2>2. b <= h.queued /\ h.queued <= other
    BY <1>1, <1>4, <1>6
  <2>3. \A i \in 1..Len(h.out) : IsMessage(h.out[i]) => h.out[i].n <= h.queued
    <3> SUFFICES ASSUME NEW i \in 1..Len(h.out), IsMessage(h.out[i])
                 PROVE  h.out[i].n <= h.queued
      OBVIOUS
    <3>1. CASE i <= L
      <4>1. i \in 1..L /\ h.out[i] = k.out[i]
        BY <1>1, <1>4, <3>1
      <4> QED BY SMTT(60), <1>1, <1>4, <1>6, <1>7, <4>1
    <3>2. CASE i > L
      BY <1>4, <1>8, <3>2
    <3> QED BY <1>4, <3>1, <3>2
  <2>4. h.queued = b \/ \E i \in 1..Len(h.out) :
                           IsMessage(h.out[i]) /\ h.out[i].n = h.queued
    <3>1. CASE h.queued = k.queued
      <4>1. CASE k.queued = b
        BY <3>1, <4>1
      <4>2. CASE k.queued # b
        <5>1. PICK j \in 1..L : IsMessage(k.out[j]) /\ k.out[j].n = k.queued
          BY <1>5, <4>2 DEF Pushed
        <5>2. j \in 1..Len(h.out) /\ h.out[j] = k.out[j]
          BY <1>1, <1>4
        <5> QED BY <3>1, <5>1, <5>2
      <4> QED BY <4>1, <4>2
    <3>2. CASE h.queued # k.queued
      <4>1. Len(h.out) \in 1..Len(h.out)
        BY <1>3, <1>4, <3>2
      <4> QED BY <1>3, <3>2, <4>1
    <3> QED BY <3>1, <3>2
  <2> QED BY <2>1, <2>2, <2>3, <2>4 DEF Pushed
<1> QED BY <1>9, <1>10, <1>11, <1>12 DEF CurOk, h

(* revoked keeps the first w frames, a result among the others and the     *)
(* reason.                                                                 *)
LEMMA RevokedIs ==
    ASSUME NEW k \in Socket, NEW w \in 0..Len(k.out),
           NEW h, h = Revoked(k, 404, w)
    PROVE  /\ h \in Socket /\ h.pc = "off" /\ h.in = <<>>
           /\ w <= Len(h.out) /\ Len(h.out) \in Nat
           /\ \A i \in 1..w : h.out[i] = k.out[i]
           /\ \A i \in (w + 1)..Len(h.out) :
                \/ h.out[i].kind = "revoked"
                \/ /\ i = w + 1
                   /\ \E j \in (w + 1)..Len(k.out) :
                        IsResult(k.out[j]) /\ h.out[i] = k.out[j]
<1> DEFINE p == SubSeq(k.out, 1, w)
           t == SubSeq(k.out, w + 1, Len(k.out))
           r == Results(t)
           f == [kind |-> "revoked", n |-> 404]
           out == Append(p \o r, f)
<1>0. k.out \in Seq(Msg) /\ Len(k.out) \in Nat /\ w \in Nat /\ w <= Len(k.out)
  BY SockFields
<1>1. \A i \in 1..Len(k.out) : k.out[i] \in Msg
  BY <1>0, ElementOfSeq
<1>2. p \in Seq(Msg) /\ Len(p) = w /\ \A i \in 1..w : p[i] = k.out[i]
  <2>1. \A i \in 1..w : k.out[i] \in Msg
    BY <1>0, <1>1
  <2> QED BY <1>0, <2>1, SubSeqProperties
<1>3. /\ t \in Seq(Msg) /\ Len(t) = Len(k.out) - w
      /\ \A i \in 1..Len(t) : t[i] = k.out[w + i]
  <2>1. \A i \in (w + 1)..Len(k.out) : k.out[i] \in Msg
    BY <1>0, <1>1
  <2>2. t \in Seq(Msg) /\ Len(t) = Len(k.out) - w
    BY <1>0, <2>1, SubSeqProperties
  <2>3. \A i \in 1..(Len(k.out) - w) : t[i] = k.out[w + i]
    BY <1>0, <2>1, SubSeqProperties
  <2> QED BY <2>2, <2>3
<1> HIDE DEF p, t
<1>4. /\ r \in Seq(Msg) /\ Len(r) \in 0..1
      /\ \A i \in 1..Len(r) :
           i = 1 /\ \E j \in (w + 1)..Len(k.out) : IsResult(k.out[j]) /\ r[i] = k.out[j]
  <2> DEFINE at == {j \in DOMAIN t : IsResult(t[j])}
  <2>1. CASE at = {}
    <3>1. r = <<>>
      BY <2>1 DEF Results
    <3> QED BY <3>1
  <2>2. CASE at # {}
    <3> DEFINE c == CHOOSE j \in at : TRUE
    <3>1. c \in at
      BY <2>2
    <3>2. c \in 1..Len(t) /\ IsResult(t[c])
      BY <1>3, <3>1
    <3>3. r = <<t[c]>>
      BY <2>2 DEF Results
    <3> HIDE DEF c, r, at
    <3>4. w + c \in (w + 1)..Len(k.out) /\ t[c] = k.out[w + c]
      BY <1>0, <1>3, <3>2
    <3>5. t[c] \in Msg
      BY <1>0, <1>1, <3>4
    <3>6. Len(r) = 1 /\ r[1] = t[c] /\ r \in Seq(Msg)
      BY <3>3, <3>5
    <3> QED BY <3>2, <3>4, <3>6
  <2> QED BY <2>1, <2>2
<1> HIDE DEF r
<1>5. /\ p \o r \in Seq(Msg) /\ Len(p \o r) = w + Len(r)
      /\ \A i \in 1..w : (p \o r)[i] = p[i]
      /\ \A i \in 1..Len(r) : (p \o r)[w + i] = r[i]
  BY <1>2, <1>4, JoinedMsg
<1>6. f \in Msg
  BY DEF Msg
<1>7. /\ out \in Seq(Msg) /\ Len(out) = w + Len(r) + 1
      /\ out[w + Len(r) + 1] = f
      /\ \A i \in 1..(w + Len(r)) : out[i] = (p \o r)[i]
  BY SMTT(60), <1>0, <1>4, <1>5, <1>6, AppendProperties
<1>8. h = Off(out)
  BY DEF Revoked, p, t, r
<1> HIDE DEF out, f
<1>9. h \in Socket /\ h.pc = "off" /\ h.in = <<>> /\ h.out = out
  BY <1>7, <1>8, OffType
<1>10. Len(out) \in Nat /\ w <= Len(out) /\ Len(r) \in Nat
  BY <1>0, <1>4, <1>7
<1>11. \A i \in 1..w : out[i] = k.out[i]
  BY SMTT(60), <1>0, <1>2, <1>5, <1>7, <1>10
<1>12. ASSUME NEW i \in (w + 1)..Len(out)
       PROVE  \/ out[i].kind = "revoked"
              \/ /\ i = w + 1
                 /\ \E j \in (w + 1)..Len(k.out) :
                      IsResult(k.out[j]) /\ out[i] = k.out[j]
  <2>1. CASE i = w + Len(r) + 1
    BY <1>7, <2>1 DEF f
  <2>2. CASE i # w + Len(r) + 1
    <3>1. Len(r) = 1 /\ i = w + 1 /\ 1 \in 1..Len(r)
      BY SMTT(60), <1>0, <1>4, <1>7, <1>10, <2>2
    <3>2. out[i] = r[1]
      BY SMTT(60), <1>0, <1>5, <1>7, <1>10, <3>1
    <3> QED BY <1>4, <3>1, <3>2
  <2> QED BY <2>1, <2>2
<1> QED BY <1>9, <1>10, <1>11, <1>12

LEMMA RevokedOk ==
    ASSUME NEW s \in Side, NEW e \in Endpoint, NEW k \in Socket,
           NEW own \in Nat, NEW other \in Nat, NEW l, ~l,
           NEW w \in 0..Len(k.out), CurOk(s, e, k, own, other, l),
           NEW h, h = Revoked(k, 404, w)
    PROVE  CurOk(s, e, h, own, other, l)
<1> DEFINE b == Base(e)
<1>1. /\ h.pc = "off" /\ h.in = <<>>
      /\ w <= Len(h.out) /\ Len(h.out) \in Nat
      /\ \A i \in 1..w : h.out[i] = k.out[i]
      /\ \A i \in (w + 1)..Len(h.out) :
           \/ h.out[i].kind = "revoked"
           \/ /\ i = w + 1
              /\ \E j \in (w + 1)..Len(k.out) :
                   IsResult(k.out[j]) /\ h.out[i] = k.out[j]
  BY RevokedIs
<1>0. Len(k.out) \in Nat /\ w \in Nat /\ w <= Len(k.out)
  BY SockFields
<1>2. Chain(k.out, b) /\ OutOk(k.out, other, l) /\ RpcOk(s, e, k, own)
  BY DEF CurOk
<1>3. ASSUME NEW i \in 1..Len(h.out), ~(i <= w)
      PROVE  /\ ~IsMessage(h.out[i])
             /\ IsResult(h.out[i]) =>
                  /\ i = w + 1
                  /\ \E j \in (w + 1)..Len(k.out) :
                       IsResult(k.out[j]) /\ h.out[i] = k.out[j]
  <2>1. i \in (w + 1)..Len(h.out)
    BY <1>0, <1>1, <1>3
  <2>2. \/ h.out[i].kind = "revoked"
        \/ /\ i = w + 1
           /\ \E j \in (w + 1)..Len(k.out) :
                IsResult(k.out[j]) /\ h.out[i] = k.out[j]
    BY <1>1, <2>1
  <2> QED BY SMTT(60), <2>2 DEF IsMessage, IsResult
<1>4. \A i \in 1..Len(h.out) : i <= w => i \in 1..w /\ i \in 1..Len(k.out)
                                          /\ h.out[i] = k.out[i]
  BY <1>0, <1>1
<1>5. Chain(h.out, b)
  <2> SUFFICES ASSUME NEW i \in 1..Len(h.out), IsMessage(h.out[i])
               PROVE  /\ h.out[i].n > b
                      /\ \/ h.out[i].n = b + 1
                         \/ \E j \in 1..(i - 1) : /\ IsMessage(h.out[j])
                                                  /\ h.out[j].n = h.out[i].n - 1
                      /\ \A j \in 1..(i - 1) :
                           IsMessage(h.out[j]) => h.out[j].n < h.out[i].n
    BY DEF Chain
  <2>1. i <= w /\ i \in 1..Len(k.out) /\ h.out[i] = k.out[i]
    BY <1>3, <1>4
  <2>2. \A j \in 1..(i - 1) : h.out[j] = k.out[j]
    BY <1>0, <1>1, <2>1
  <2>3. /\ k.out[i].n > b
        /\ \/ k.out[i].n = b + 1
           \/ \E j \in 1..(i - 1) : IsMessage(k.out[j]) /\ k.out[j].n = k.out[i].n - 1
        /\ \A j \in 1..(i - 1) : IsMessage(k.out[j]) => k.out[j].n < k.out[i].n
    BY <1>2, <2>1 DEF Chain
  <2>4. h.out[i].n > b
    BY <2>1, <2>3
  <2>5. \/ h.out[i].n = b + 1
        \/ \E j \in 1..(i - 1) : IsMessage(h.out[j]) /\ h.out[j].n = h.out[i].n - 1
    BY SMTT(60), <2>1, <2>2, <2>3
  <2>6. \A j \in 1..(i - 1) : IsMessage(h.out[j]) => h.out[j].n < h.out[i].n
    BY ZenonT(60), <2>1, <2>2, <2>3
  <2> QED BY <2>4, <2>5, <2>6
<1>6. OutOk(h.out, other, l)
  <2> SUFFICES ASSUME NEW i \in 1..Len(h.out)
               PROVE  /\ IsMessage(h.out[i]) => h.out[i].n <= other
                      /\ IsResult(h.out[i]) => h.out[i].n = 200
                      /\ h.out[i].kind = "revoked" => ~l
    BY DEF OutOk
  <2>1. CASE i <= w
    BY SMTT(60), <1>2, <1>4, <2>1 DEF OutOk
  <2>2. CASE ~(i <= w)
    <3>1. IsResult(h.out[i]) => h.out[i].n = 200
      <4> SUFFICES ASSUME IsResult(h.out[i]) PROVE h.out[i].n = 200
        OBVIOUS
      <4>1. PICK j \in (w + 1)..Len(k.out) : IsResult(k.out[j]) /\ h.out[i] = k.out[j]
        BY <1>3, <2>2
      <4>2. j \in 1..Len(k.out)
        BY <1>0
      <4> QED BY <1>2, <4>1, <4>2 DEF OutOk
    <3> QED BY <1>3, <2>2, <3>1
  <2> QED BY <2>1, <2>2
<1>7. RpcOk(s, e, h, own)
  <2>1. Len(h.in) = 0
    BY <1>1
  <2>2. ASSUME NEW i \in 1..Len(h.out), IsResult(h.out[i])
        PROVE  \E a \in 1..Len(k.out) :
                 /\ IsResult(k.out[a])
                 /\ i <= w => a = i
                 /\ ~(i <= w) => ~(a <= w) /\ i = w + 1
    <3>1. CASE i <= w
      <4>1. i \in 1..Len(k.out) /\ IsResult(k.out[i])
        BY <1>4, <2>2, <3>1
      <4> QED BY <3>1, <4>1
    <3>2. CASE ~(i <= w)
      <4>1. PICK j \in (w + 1)..Len(k.out) : IsResult(k.out[j])
        BY <1>3, <2>2, <3>2
      <4>2. j \in 1..Len(k.out) /\ ~(j <= w) /\ i = w + 1
        BY <1>0, <1>3, <2>2, <3>2
      <4> QED BY <3>2, <4>1, <4>2
    <3> QED BY <3>1, <3>2
  <2>3. ASSUME NEW i \in 1..Len(h.out), IsResult(h.out[i])
        PROVE  /\ e.rpc = "sent" /\ (OpOf(s, e) = "send" => e.tx < own)
               /\ \A j \in 1..Len(h.out) : IsResult(h.out[j]) => i = j
    <3>1. PICK a \in 1..Len(k.out) : /\ IsResult(k.out[a])
                                     /\ i <= w => a = i
                                     /\ ~(i <= w) => ~(a <= w) /\ i = w + 1
      BY <2>2, <2>3
    <3>2. ASSUME NEW j \in 1..Len(h.out), IsResult(h.out[j]) PROVE i = j
      <4>1. PICK c \in 1..Len(k.out) : /\ IsResult(k.out[c])
                                       /\ j <= w => c = j
                                       /\ ~(j <= w) => ~(c <= w) /\ j = w + 1
        BY <2>2, <3>2
      <4>2. a = c
        BY <1>2, <3>1, <4>1 DEF RpcOk
      <4> QED BY <3>1, <4>1, <4>2
    <3> QED BY <1>2, <3>1, <3>2 DEF RpcOk
  <2> QED BY <2>1, <2>3 DEF RpcOk
<1> QED BY <1>1, <1>5, <1>6, <1>7 DEF CurOk

(* The owner answers the request it has just taken. *)
LEMMA AnswerOk ==
    ASSUME NEW s \in Side, NEW e \in Endpoint, NEW k \in Socket,
           NEW own \in Nat, NEW own2 \in Nat, own <= own2,
           NEW other \in Nat, NEW l, k.pc # "off", k.in # <<>>,
           IsRequest(Head(k.in)), CurOk(s, e, k, own, other, l),
           Head(k.in).kind = "send" => Head(k.in).n <= own2,
           NEW h \in Socket, h = [k EXCEPT !.in = Tail(@)],
           NEW r \in Socket,
           r = [h EXCEPT !.out = Append(@, [kind |-> "result", n |-> 200])]
    PROVE  CurOk(s, e, r, own2, other, l)
<1> DEFINE L == Len(k.out)
           m == Head(k.in)
           f == [kind |-> "result", n |-> 200]
<1>0. L \in Nat /\ k.out \in Seq(Msg) /\ f \in Msg
  BY SockFields DEF Msg
<1>1. /\ h.pc = k.pc /\ h.queued = k.queued /\ h.sent = k.sent
      /\ h.writing = k.writing /\ h.out = k.out
      /\ m = k.in[1] /\ m \in Input
      /\ \A a \in 1..Len(h.in) : /\ a + 1 \in 1..Len(k.in)
                                 /\ h.in[a] = k.in[a + 1]
  BY TailIn
<1>2. /\ r.pc = k.pc /\ r.queued = k.queued /\ Written(r) = Written(k)
      /\ r.in = h.in /\ r.out = Append(k.out, f)
  <2>1. /\ r.pc = h.pc /\ r.queued = h.queued /\ r.sent = h.sent
        /\ r.writing = h.writing /\ r.in = h.in /\ r.out = Append(h.out, f)
    BY DEF Socket
  <2> QED BY <1>1, <2>1 DEF Written
<1>3. /\ Len(r.out) = L + 1 /\ r.out[L + 1] = f
      /\ \A i \in 1..L : r.out[i] = k.out[i]
  BY <1>0, <1>2, AppendProperties
<1>4. f.kind = "result" /\ f.n = 200
  OBVIOUS
<1> HIDE DEF f
<1>5. 1 \in 1..Len(k.in) /\ IsRequest(k.in[1])
  <2>1. k.in \in Seq(Input)
    BY SockFields
  <2>2. Len(k.in) \in Nat /\ Len(k.in) # 0
    BY <2>1, EmptySeq
  <2> QED BY <1>1, <2>2
<1>6. Chain(k.out, Base(e)) /\ OutOk(k.out, other, l) /\ RpcOk(s, e, k, own)
      /\ Pushed(k, Base(e), other)
  BY DEF CurOk
<1>7. /\ e.rpc = "sent" /\ m.kind = OpOf(s, e) /\ m.n = e.tx + 1
      /\ \A b \in 1..Len(k.in) : IsRequest(k.in[b]) => 1 = b
      /\ \A i \in 1..L : ~IsResult(k.out[i])
  BY <1>1, <1>5, <1>6 DEF RpcOk
<1>8. ~IsMessage(r.out[L + 1])
  BY <1>3, <1>4 DEF IsMessage
<1>9. Chain(r.out, Base(e))
  <2> SUFFICES ASSUME NEW i \in 1..Len(r.out), IsMessage(r.out[i])
               PROVE  /\ r.out[i].n > Base(e)
                      /\ \/ r.out[i].n = Base(e) + 1
                         \/ \E j \in 1..(i - 1) : /\ IsMessage(r.out[j])
                                                  /\ r.out[j].n = r.out[i].n - 1
                      /\ \A j \in 1..(i - 1) :
                           IsMessage(r.out[j]) => r.out[j].n < r.out[i].n
    BY DEF Chain
  <2>1. i \in 1..L /\ r.out[i] = k.out[i]
    BY <1>0, <1>3, <1>8
  <2>2. \A j \in 1..(i - 1) : r.out[j] = k.out[j]
    BY <1>0, <1>3, <2>1
  <2> QED BY <1>6, <2>1, <2>2 DEF Chain
<1>10. OutOk(r.out, other, l)
  BY <1>0, <1>3, <1>4, <1>6 DEF OutOk, IsMessage
<1>11. \A a \in 1..Len(r.in) : ~IsRequest(r.in[a])
  <2> SUFFICES ASSUME NEW a \in 1..Len(r.in), IsRequest(r.in[a]) PROVE FALSE
    OBVIOUS
  <2>1. a + 1 \in 1..Len(k.in) /\ IsRequest(k.in[a + 1]) /\ a \in Nat
    <3>1. Len(r.in) \in Nat
      BY SockFields
    <3>2. a \in 1..Len(h.in) /\ r.in[a] = h.in[a]
      BY <1>2
    <3>3. a + 1 \in 1..Len(k.in) /\ h.in[a] = k.in[a + 1]
      BY <1>1, <3>2
    <3> QED BY <3>1, <3>2, <3>3
  <2>2. 1 = a + 1
    BY <1>7, <2>1
  <2> QED BY <2>1, <2>2
<1>12. \A i \in 1..Len(r.out) : IsResult(r.out[i]) => i = L + 1
  BY <1>0, <1>3, <1>7
<1>13. OpOf(s, e) = "send" => e.tx < own2
  BY <1>7, EpFields
<1>14. RpcOk(s, e, r, own2)
  BY <1>7, <1>11, <1>12, <1>13 DEF RpcOk
<1>15. Pushed(r, Base(e), other)
  <2>1. \A i \in 1..Len(r.out) : IsMessage(r.out[i]) =>
          i \in 1..L /\ r.out[i] = k.out[i]
    BY <1>0, <1>3, <1>8
  <2>2. \A i \in 1..Len(r.out) : IsMessage(r.out[i]) => r.out[i].n <= r.queued
    BY <1>2, <1>6, <2>1 DEF Pushed
  <2>3. k.queued = Base(e) \/ \E i \in 1..Len(r.out) :
           IsMessage(r.out[i]) /\ r.out[i].n = k.queued
    <3>1. CASE k.queued = Base(e)
      BY <3>1
    <3>2. CASE k.queued # Base(e)
      <4>1. PICK i \in 1..L : IsMessage(k.out[i]) /\ k.out[i].n = k.queued
        BY <1>6, <3>2 DEF Pushed
      <4>2. i \in 1..Len(r.out) /\ r.out[i] = k.out[i]
        BY <1>0, <1>3
      <4> QED BY <4>1, <4>2
    <3> QED BY <3>1, <3>2
  <2> QED BY <1>2, <1>6, <2>2, <2>3 DEF Pushed
<1> QED BY <1>9, <1>10, <1>14, <1>15 DEF CurOk

(* A frame leaves the queue: the next message is the one after Base. *)
LEMMA TakenIs ==
    ASSUME NEW k \in Socket, k.out # <<>>, NEW h, h = Taken(k)
    PROVE  /\ h \in Socket /\ h.pc = k.pc /\ h.in = k.in
           /\ h.queued = k.queued /\ h.sent = k.sent
           /\ Head(k.out) = k.out[1] /\ Head(k.out) \in Msg
           /\ 1 \in 1..Len(k.out)
           /\ h.writing = IF Head(k.out).kind = "message" /\ k.pc # "off"
                          THEN Head(k.out).n ELSE k.writing
           /\ Len(h.out) = Len(k.out) - 1
           /\ \A i \in 1..Len(h.out) : /\ i + 1 \in 1..Len(k.out)
                                       /\ h.out[i] = k.out[i + 1]
<1>1. k.out \in Seq(Msg)
  BY SockFields
<1>2. /\ Head(k.out) = k.out[1] /\ Head(k.out) \in Msg
      /\ Tail(k.out) \in Seq(Msg)
      /\ Len(Tail(k.out)) = Len(k.out) - 1 /\ Len(k.out) \in Nat
      /\ \A a \in 1..Len(Tail(k.out)) : Tail(k.out)[a] = k.out[a + 1]
  BY <1>1, HeadTailProperties
<1>3. Len(k.out) # 0
  BY <1>1, EmptySeq
<1> DEFINE v == IF Head(k.out).kind = "message" /\ k.pc # "off"
                THEN Head(k.out).n ELSE k.writing
<1>4. v \in Nat
  BY <1>2, MsgFields, SockFields
<1>5. h = [k EXCEPT !.out = Tail(k.out), !.writing = v]
  BY DEF Taken
<1> HIDE DEF v
<1>6. /\ h \in Socket /\ h.pc = k.pc /\ h.in = k.in
      /\ h.queued = k.queued /\ h.sent = k.sent
      /\ h.writing = v /\ h.out = Tail(k.out)
  BY <1>2, <1>4, <1>5 DEF Socket
<1> QED BY <1>2, <1>3, <1>6 DEF v

-----------------------------------------------------------------------------
(* Steps of the server *)

LEMMA Typed ==
    ASSUME IInv, NEW s \in Side
    PROVE  /\ ep[s] \in Endpoint /\ sock[s] \in Seq(Socket)
           /\ mail[s] \in Nat /\ mail[Peer(s)] \in Nat
           /\ live \in BOOLEAN /\ approved \in 0..1
           /\ SideOk(s, ep[s], sock[s], mail[s], mail[Peer(s)], live)
           /\ DOMAIN sock[s] = 1..Len(sock[s]) /\ Len(sock[s]) \in Nat
           /\ \A i \in DOMAIN sock[s] : sock[s][i] \in Socket
                                        /\ InOk(sock[s][i], mail[s])
<1>1. ep[s] \in Endpoint /\ sock[s] \in Seq(Socket)
      /\ mail[s] \in Nat /\ mail[Peer(s)] \in Nat
      /\ live \in BOOLEAN /\ approved \in 0..1
  BY SideFacts DEF IInv, TypeOK
<1>2. SideOk(s, ep[s], sock[s], mail[s], mail[Peer(s)], live)
  BY DEF IInv, Order
<1>3. DOMAIN sock[s] = 1..Len(sock[s]) /\ Len(sock[s]) \in Nat
  BY <1>1
<1>4. \A i \in 1..Len(sock[s]) : sock[s][i] \in Socket
  BY <1>1, ElementOfSeq
<1> QED BY <1>1, <1>2, <1>3, <1>4 DEF SideOk

(* A step of one side that leaves the database alone. *)
LEMMA OneSide ==
    ASSUME IInv, NEW s \in Side, NEW e \in Endpoint, NEW q \in Seq(Socket),
           ep' = [ep EXCEPT ![s] = e], sock' = [sock EXCEPT ![s] = q],
           UNCHANGED Database,
           SideOk(s, e, q, mail[s], mail[Peer(s)], live)
    PROVE  IInv'
<1>1. mail' = mail /\ live' = live /\ approved' = approved
  BY DEF Database
<1>2. ep \in [Side -> Endpoint] /\ sock \in [Side -> Seq(Socket)]
  BY DEF IInv, TypeOK
<1>3. ep' \in [Side -> Endpoint] /\ sock' \in [Side -> Seq(Socket)]
  BY <1>2
<1>4. ASSUME NEW x \in Side
      PROVE  SideOk(x, ep'[x], sock'[x], mail[x], mail[Peer(x)], live)
  <2>1. CASE x = s
    BY <1>2, <2>1
  <2>2. CASE x # s
    <3>1. ep'[x] = ep[x] /\ sock'[x] = sock[x]
      BY <1>2, <2>2
    <3> QED BY <3>1, Typed
  <2> QED BY <2>1, <2>2
<1>5. TypeOK'
  BY <1>1, <1>3 DEF IInv, TypeOK
<1> QED BY <1>1, <1>4, <1>5 DEF IInv, Order

(* A step of one socket of the server. *)
LEMMA BecomesOk ==
    ASSUME IInv, NEW s \in Side, NEW i \in DOMAIN sock[s], NEW k \in Socket,
           InOk(k, mail[s]),
           ep[s].conn = i =>
              CurOk(s, ep[s], k, mail[s], mail[Peer(s)], live),
           Becomes(s, i, k), UNCHANGED <<Database, ep>>
    PROVE  IInv'
<1> DEFINE h == Seen(s, i, k)
           q == [sock[s] EXCEPT ![i] = h]
<1>1. /\ ep[s] \in Endpoint /\ sock[s] \in Seq(Socket)
      /\ DOMAIN sock[s] = 1..Len(sock[s])
      /\ SideOk(s, ep[s], sock[s], mail[s], mail[Peer(s)], live)
  BY Typed
<1>2. /\ h \in Socket /\ InOk(h, mail[s])
      /\ ep[s].conn = i => CurOk(s, ep[s], h, mail[s], mail[Peer(s)], live)
  <2>1. CASE ep[s].conn = i
    <3>1. h = k
      BY <2>1 DEF Seen
    <3> QED BY <3>1
  <2>2. CASE ep[s].conn # i
    <3>1. h = Unread(k)
      BY <2>2 DEF Seen
    <3>2. InOk(Unread(k), mail[s])
      BY UnreadType DEF InOk
    <3> QED BY <2>2, <3>1, <3>2, UnreadType
  <2> QED BY <2>1, <2>2
<1>3. sock' = [sock EXCEPT ![s] = q]
  BY DEF Becomes
<1>4. ep' = [ep EXCEPT ![s] = ep[s]]
  BY DEF IInv, TypeOK
<1> HIDE DEF h
<1>5. q \in Seq(Socket) /\ SideOk(s, ep[s], q, mail[s], mail[Peer(s)], live)
  BY <1>1, <1>2, OneSocket
<1> HIDE DEF q
<1> QED BY <1>1, <1>3, <1>4, <1>5, OneSide

LEMMA RevokesOk ==
    ASSUME IInv, NEW s \in Side, NEW i \in DOMAIN sock[s], NEW k \in Socket,
           ~live,
           ep[s].conn = i =>
              CurOk(s, ep[s], k, mail[s], mail[Peer(s)], live),
           Revokes(s, i, k, 404), UNCHANGED <<Database, ep>>
    PROVE  IInv'
<1>1. PICK w \in 0..Len(k.out) : Becomes(s, i, Revoked(k, 404, w))
  BY DEF Revokes
<1> DEFINE h == Revoked(k, 404, w)
<1>2. h \in Socket /\ h.in = <<>>
  BY RevokedIs
<1>3. ep[s].conn = i => CurOk(s, ep[s], h, mail[s], mail[Peer(s)], live)
  <2>1. ep[s] \in Endpoint /\ mail[s] \in Nat /\ mail[Peer(s)] \in Nat
    BY Typed
  <2> HIDE DEF h
  <2>2. h = Revoked(k, 404, w)
    BY DEF h
  <2> QED BY <2>1, <2>2, RevokedOk
<1>4. Becomes(s, i, h)
  BY <1>1
<1> HIDE DEF h
<1>5. InOk(h, mail[s])
  BY <1>2 DEF InOk
<1> QED BY <1>2, <1>3, <1>4, <1>5, BecomesOk

LEMMA OwnerCatchup_Ok ==
    ASSUME IInv, NEW s \in Side, NEW i, OwnerCatchup(s, i)
    PROVE  IInv'
<1> DEFINE k == sock[s][i]
           h == [k EXCEPT !.wake = @ /\ k.pc = "catchup"]
<1>1. i \in DOMAIN sock[s] /\ k.pc # "off"
  BY DEF OwnerCatchup, Owner
<1>2. /\ ep[s] \in Endpoint /\ k \in Socket /\ InOk(k, mail[s])
      /\ mail[s] \in Nat /\ mail[Peer(s)] \in Nat /\ approved \in 0..1
      /\ SideOk(s, ep[s], sock[s], mail[s], mail[Peer(s)], live)
  BY <1>1, Typed
<1>3. UNCHANGED <<Database, ep>>
  BY DEF OwnerCatchup
<1>4. IF live THEN Becomes(s, i, Catchup(h, mail[Peer(s)]))
      ELSE Revokes(s, i, h, 404)
  BY DEF OwnerCatchup
<1>5. ep[s].conn = i => CurOk(s, ep[s], k, mail[s], mail[Peer(s)], live)
  <2>1. i # 0
    BY <1>1, Typed
  <2> QED BY <1>2, <2>1 DEF SideOk
<1>6. h \in Socket /\ Alike(k, h)
  <2> HIDE DEF k
  <2> QED BY <1>2 DEF Socket, Alike
<1> HIDE DEF k, h
<1>7. /\ h.pc # "off" /\ InOk(h, mail[s])
      /\ ep[s].conn = i => CurOk(s, ep[s], h, mail[s], mail[Peer(s)], live)
  BY <1>1, <1>2, <1>5, <1>6, AlikeOk DEF Alike
<1>8. CASE live
  <2> DEFINE g == Catchup(h, mail[Peer(s)])
  <2>1. g \in Socket /\ g.in = h.in /\ g.sent = h.sent /\ g.writing = h.writing
    BY <1>2, <1>6, CatchupIs
  <2>2. ep[s].conn = i => CurOk(s, ep[s], g, mail[s], mail[Peer(s)], live)
    BY <1>2, <1>6, <1>7, CatchupOk
  <2>3. Becomes(s, i, g)
    BY <1>4, <1>8
  <2> HIDE DEF g
  <2>4. InOk(g, mail[s])
    BY <1>7, <2>1 DEF InOk, Written
  <2> QED BY <1>1, <1>3, <2>1, <2>2, <2>3, <2>4, BecomesOk
<1>9. CASE ~live
  BY <1>1, <1>3, <1>4, <1>6, <1>7, <1>9, RevokesOk
<1> QED BY <1>8, <1>9

(* The socket an owner works on. *)
LEMMA OwnerFacts ==
    ASSUME IInv, NEW s \in Side, NEW i \in DOMAIN sock[s], NEW k, k = sock[s][i]
    PROVE  /\ ep[s] \in Endpoint /\ k \in Socket /\ InOk(k, mail[s])
           /\ mail[s] \in Nat /\ mail[Peer(s)] \in Nat /\ approved \in 0..1
           /\ live \in BOOLEAN
           /\ ep[s].conn = i => CurOk(s, ep[s], k, mail[s], mail[Peer(s)], live)
<1>1. /\ ep[s] \in Endpoint /\ k \in Socket /\ InOk(k, mail[s])
      /\ mail[s] \in Nat /\ mail[Peer(s)] \in Nat /\ approved \in 0..1
      /\ live \in BOOLEAN
      /\ SideOk(s, ep[s], sock[s], mail[s], mail[Peer(s)], live)
  BY Typed
<1>2. i # 0
  BY Typed
<1> QED BY <1>1, <1>2 DEF SideOk

LEMMA OwnerTick_Ok ==
    ASSUME IInv, NEW s \in Side, NEW i, OwnerTick(s, i)
    PROVE  IInv'
<1>1. /\ i \in DOMAIN sock[s] /\ ~live
      /\ Revokes(s, i, sock[s][i], 404) /\ UNCHANGED <<Database, ep>>
  BY DEF OwnerTick, Owner, Stale
<1>2. sock[s][i] \in Socket /\ (ep[s].conn = i =>
         CurOk(s, ep[s], sock[s][i], mail[s], mail[Peer(s)], live))
  BY <1>1, OwnerFacts
<1> QED BY <1>1, <1>2, RevokesOk

LEMMA OwnerAck_Ok ==
    ASSUME IInv, NEW s \in Side, NEW i, OwnerAck(s, i)
    PROVE  IInv'
<1> DEFINE k == sock[s][i]
           m == Head(k.in)
           h == [k EXCEPT !.in = Tail(@)]
           a == Advanced(h, m.n)
           g == Catchup(a, mail[Peer(s)])
<1>1. /\ i \in DOMAIN sock[s] /\ k.pc # "off" /\ k.in # <<>> /\ m.kind = "ack"
      /\ UNCHANGED <<Database, ep>>
  BY DEF OwnerAck, Owner
<1>2. \/ ~live /\ Revokes(s, i, h, 404)
      \/ live /\ LockFree(h) /\ m.n > h.sent
      \/ live /\ LockFree(h) /\ m.n <= h.sent /\ Becomes(s, i, g)
  BY DEF OwnerAck
<1>3. /\ ep[s] \in Endpoint /\ k \in Socket /\ InOk(k, mail[s])
      /\ mail[s] \in Nat /\ mail[Peer(s)] \in Nat /\ approved \in 0..1
      /\ live \in BOOLEAN
      /\ ep[s].conn = i => CurOk(s, ep[s], k, mail[s], mail[Peer(s)], live)
  BY <1>1, OwnerFacts
<1>4. h = [k EXCEPT !.in = Tail(@)]
  OBVIOUS
<1>5. h \in Socket
  BY <1>1, <1>3, TailInType
<1> HIDE DEF k, h
<1>6. /\ h.pc = k.pc /\ h.queued = k.queued
      /\ h.sent = k.sent /\ h.writing = k.writing /\ h.out = k.out
      /\ m = k.in[1] /\ m \in Input
  BY <1>1, <1>3, <1>4, <1>5, TailIn
<1>7. /\ InOk(h, mail[s])
      /\ \A x \in Side : \A e : RpcOk(x, e, k, mail[s]) => RpcOk(x, e, h, mail[s])
  BY <1>1, <1>3, <1>4, <1>5, TakeIn
<1>8. ep[s].conn = i => CurOk(s, ep[s], h, mail[s], mail[Peer(s)], live)
  <2>1. k.pc # "off" /\ Pushed(k, Base(ep[s]), mail[Peer(s)]) =>
          Pushed(h, Base(ep[s]), mail[Peer(s)])
    BY <1>6 DEF Pushed, Written
  <2> QED BY <1>1, <1>3, <1>6, <1>7, <2>1 DEF CurOk
<1>9. CASE ~live
  BY <1>1, <1>2, <1>5, <1>8, <1>9, RevokesOk
<1>10. CASE live
  <2>1. m.n <= Written(k)
    <3>1. 1 \in 1..Len(k.in)
      <4>1. k.in \in Seq(Input)
        BY <1>3, SockFields
      <4> QED BY <1>1, <4>1, EmptySeq
    <3> QED BY <1>1, <1>3, <1>6, <3>1 DEF InOk
  <2>2. m.n <= h.sent /\ Becomes(s, i, g)
    <3>1. LockFree(h)
      BY <1>2, <1>10
    <3>2. Written(k) = h.sent
      BY <1>6, <3>1 DEF Written, LockFree
    <3>3. m.n \in Nat /\ h.sent \in Nat
      BY <1>5, <1>6, InputFields, SockFields
    <3>4. ~(m.n > h.sent)
      BY <2>1, <3>2, <3>3
    <3> QED BY <1>2, <1>10, <3>4
  <2>3. a \in Socket /\ Alike(h, a)
    <3>1. m.n \in Nat
      BY <1>6, InputFields
    <3> QED BY <1>5, <3>1 DEF Advanced, Socket, Alike
  <2> HIDE DEF a
  <2>4. /\ a.pc # "off" /\ InOk(a, mail[s])
        /\ ep[s].conn = i => CurOk(s, ep[s], a, mail[s], mail[Peer(s)], live)
    BY <1>1, <1>5, <1>6, <1>7, <1>8, <2>3, AlikeOk DEF Alike
  <2>5. g \in Socket /\ g.in = a.in /\ g.sent = a.sent /\ g.writing = a.writing
    BY <1>3, <2>3, CatchupIs
  <2>6. ep[s].conn = i => CurOk(s, ep[s], g, mail[s], mail[Peer(s)], live)
    BY <1>3, <2>3, <2>4, CatchupOk
  <2> HIDE DEF g
  <2>7. InOk(g, mail[s])
    BY <2>4, <2>5 DEF InOk, Written
  <2> QED BY <1>1, <2>2, <2>5, <2>6, <2>7, BecomesOk
<1> QED BY <1>9, <1>10

LEMMA WriterDone_Ok ==
    ASSUME IInv, NEW s \in Side, NEW i, WriterDone(s, i)
    PROVE  IInv'
<1> DEFINE k == sock[s][i]
           h == [k EXCEPT !.sent = k.writing, !.writing = 0]
<1>1. /\ i \in DOMAIN sock[s] /\ k.writing # 0 /\ Becomes(s, i, h)
      /\ UNCHANGED <<Database, ep>>
  BY DEF WriterDone
<1>2. /\ ep[s] \in Endpoint /\ k \in Socket /\ InOk(k, mail[s])
      /\ ep[s].conn = i => CurOk(s, ep[s], k, mail[s], mail[Peer(s)], live)
  BY <1>1, OwnerFacts
<1>3. h = [k EXCEPT !.sent = k.writing, !.writing = 0]
  OBVIOUS
<1> HIDE DEF k, h
<1>4. /\ h \in Socket /\ h.pc = k.pc /\ h.queued = k.queued
      /\ h.in = k.in /\ h.out = k.out /\ h.sent = k.writing /\ h.writing = 0
  BY <1>2, <1>3 DEF Socket
<1>5. Written(h) = Written(k)
  BY <1>1, <1>4 DEF Written
<1>6. InOk(h, mail[s])
  BY <1>2, <1>4, <1>5 DEF InOk
<1>7. ep[s].conn = i => CurOk(s, ep[s], h, mail[s], mail[Peer(s)], live)
  <2>1. RpcOk(s, ep[s], k, mail[s]) => RpcOk(s, ep[s], h, mail[s])
    BY <1>4 DEF RpcOk
  <2>2. Pushed(k, Base(ep[s]), mail[Peer(s)]) =>
          Pushed(h, Base(ep[s]), mail[Peer(s)])
    BY <1>4, <1>5 DEF Pushed
  <2> QED BY <1>2, <1>4, <2>1, <2>2 DEF CurOk
<1> QED BY <1>1, <1>4, <1>6, <1>7, BecomesOk

LEMMA SocketStops_Ok ==
    ASSUME IInv, NEW s \in Side, NEW i, SocketStops(s, i)
    PROVE  IInv'
<1> DEFINE h == Off(<<>>)
<1>1. /\ i \in DOMAIN sock[s] /\ Becomes(s, i, h) /\ UNCHANGED <<Database, ep>>
  BY DEF SocketStops, Owner
<1>2. h \in Socket /\ h.pc = "off" /\ h.in = <<>> /\ h.out = <<>>
  <2>1. <<>> \in Seq(Msg)
    OBVIOUS
  <2> QED BY <2>1, OffType
<1> HIDE DEF h
<1>3. Len(h.in) = 0 /\ Len(h.out) = 0
  BY <1>2
<1>4. InOk(h, mail[s])
  BY <1>3 DEF InOk
<1>5. CurOk(s, ep[s], h, mail[s], mail[Peer(s)], live)
  BY <1>2, <1>3 DEF CurOk, Chain, OutOk, RpcOk
<1> QED BY <1>1, <1>2, <1>4, <1>5, BecomesOk

LEMMA WokenIs ==
    ASSUME NEW q \in [Side -> Seq(Socket)], NEW x \in Side
    PROVE  /\ Woken(q)[x] \in Seq(Socket) /\ Len(Woken(q)[x]) = Len(q[x])
           /\ \A i \in 1..Len(q[x]) : Alike(q[x][i], Woken(q)[x][i])
           /\ Woken(q) \in [Side -> Seq(Socket)]
<1>1. ASSUME NEW y \in Side
      PROVE  /\ Woken(q)[y] \in Seq(Socket) /\ Len(Woken(q)[y]) = Len(q[y])
             /\ \A i \in 1..Len(q[y]) : Alike(q[y][i], Woken(q)[y][i])
  <2> DEFINE r == [i \in DOMAIN q[y] |->
                     IF ep[y].conn = i THEN Wake(q[y][i]) ELSE q[y][i]]
  <2>1. Woken(q)[y] = r
    BY DEF Woken
  <2>2. /\ q[y] \in Seq(Socket) /\ DOMAIN q[y] = 1..Len(q[y])
        /\ Len(q[y]) \in Nat
    OBVIOUS
  <2>3. \A i \in 1..Len(q[y]) : q[y][i] \in Socket
    BY <2>2, ElementOfSeq
  <2>4. \A i \in 1..Len(q[y]) : r[i] \in Socket /\ Alike(q[y][i], r[i])
    <3> SUFFICES ASSUME NEW i \in 1..Len(q[y])
                 PROVE  r[i] \in Socket /\ Alike(q[y][i], r[i])
      OBVIOUS
    <3>1. r[i] = IF ep[y].conn = i THEN Wake(q[y][i]) ELSE q[y][i]
      BY <2>2
    <3>2. Alike(q[y][i], q[y][i])
      BY DEF Alike
    <3> HIDE DEF r
    <3> QED BY <2>3, <3>1, <3>2, WakeType
  <2>5. DOMAIN r = 1..Len(q[y])
    BY <2>2
  <2>6. r = [i \in 1..Len(q[y]) |-> r[i]]
    BY <2>2
  <2> HIDE DEF r
  <2>7. r \in [1..Len(q[y]) -> Socket]
    BY <2>4, <2>6
  <2>8. r \in Seq(Socket) /\ Len(r) = Len(q[y])
    BY SMTT(60), <2>2, <2>5, <2>7
  <2> QED BY <2>1, <2>4, <2>8
<1>2. Woken(q) \in [Side -> Seq(Socket)]
  <2>1. Woken(q) = [y \in Side |-> Woken(q)[y]]
    BY DEF Woken
  <2> QED BY <1>1, <2>1
<1> QED BY <1>1, <1>2

LEMMA OwnerRpc_Ok ==
    ASSUME IInv, NEW s \in Side, NEW i, OwnerRpc(s, i)
    PROVE  IInv'
<1> DEFINE k == sock[s][i]
           m == Head(k.in)
           h == [k EXCEPT !.in = Tail(@)]
           status == IF m.kind = "send" THEN SendStatus(s, m.n) ELSE 200
           new == status = 200 /\ (m.kind = "send" => m.n > mail[s])
           r == [h EXCEPT !.out = Append(@, [kind |-> "result", n |-> status])]
           v == Seen(s, i, r)
           q == [sock EXCEPT ![s][i] = v]
           p == Peer(s)
<1>1. /\ i \in DOMAIN sock[s] /\ k.pc # "off" /\ k.in # <<>> /\ IsRequest(m)
      /\ live' = live /\ ep' = ep
  BY DEF OwnerRpc, Owner, IsRequest
<1>2. ~live => Revokes(s, i, h, 404) /\ UNCHANGED <<Database, ep>>
  BY DEF OwnerRpc, Database
<1>3. live => /\ mail' = IF new /\ m.kind = "send"
                         THEN [mail EXCEPT ![s] = m.n] ELSE mail
              /\ approved' = IF m.kind = "approve" THEN 1 ELSE approved
              /\ sock' = IF new THEN Notified(q, m.kind) ELSE q
  BY DEF OwnerRpc
<1>4. /\ ep[s] \in Endpoint /\ k \in Socket /\ InOk(k, mail[s])
      /\ mail[s] \in Nat /\ mail[p] \in Nat /\ approved \in 0..1
      /\ live \in BOOLEAN
      /\ ep[s].conn = i => CurOk(s, ep[s], k, mail[s], mail[p], live)
  BY <1>1, OwnerFacts
<1>5. /\ h = [k EXCEPT !.in = Tail(@)]
      /\ r = [h EXCEPT !.out = Append(@, [kind |-> "result", n |-> status])]
  OBVIOUS
<1>6. h \in Socket
  BY <1>1, <1>4, TailInType
<1>q. q = [sock EXCEPT ![s] = [sock[s] EXCEPT ![i] = v]]
  OBVIOUS
<1> HIDE DEF k, h, r, v, q, p
<1>7. /\ h.pc = k.pc /\ h.queued = k.queued
      /\ h.sent = k.sent /\ h.writing = k.writing /\ h.out = k.out
      /\ m = k.in[1] /\ m \in Input
  BY <1>1, <1>4, <1>5, <1>6, TailIn
<1>8. /\ InOk(h, mail[s])
      /\ \A x \in Side : \A e : RpcOk(x, e, k, mail[s]) => RpcOk(x, e, h, mail[s])
  BY <1>1, <1>4, <1>5, <1>6, TakeIn
<1>9. ep[s].conn = i => CurOk(s, ep[s], h, mail[s], mail[p], live)
  <2>1. k.pc # "off" /\ Pushed(k, Base(ep[s]), mail[p]) =>
          Pushed(h, Base(ep[s]), mail[p])
    BY <1>7 DEF Pushed, Written
  <2> QED BY <1>1, <1>4, <1>7, <1>8, <2>1 DEF CurOk
<1>10. CASE ~live
  BY <1>1, <1>2, <1>6, <1>9, <1>10, RevokesOk DEF p
<1>11. CASE live
  <2>0. Exchanges \in Nat
    BY ConstantsAssumption
  <2>1. m.n \in Nat /\ m.kind \in {"ack", "send", "approve", "turn"}
    BY <1>7, InputFields
  <2>2. m.kind = "send" => m.n <= mail[s] + 1 /\ m.n <= Exchanges + 1
    <3>1. 1 \in 1..Len(k.in)
      <4>1. k.in \in Seq(Input)
        BY <1>4, SockFields
      <4> QED BY <1>1, <4>1, EmptySeq
    <3> QED BY <1>4, <1>7, <3>1 DEF InOk
  <2>3. status = 200
    BY <2>2 DEF SendStatus
  <2> DEFINE own == mail'[s]
  <2>4. /\ mail' \in [Side -> Nat] /\ mail'[p] = mail[p]
        /\ mail[s] <= own /\ own <= Exchanges + 1 /\ own \in Nat
        /\ m.kind = "send" => m.n <= own
    <3>1. mail \in [Side -> Nat] /\ mail[s] <= Exchanges + 1
      BY Typed DEF IInv, TypeOK, SideOk
    <3>2. p \in Side /\ p # s
      BY SideFacts DEF p
    <3>3. CASE new /\ m.kind = "send"
      <4>1. mail' = [mail EXCEPT ![s] = m.n]
        BY <1>3, <1>11, <3>3
      <4>2. mail'[s] = m.n /\ mail'[p] = mail[p] /\ mail' \in [Side -> Nat]
        BY <2>1, <3>1, <3>2, <4>1
      <4>3. m.n > mail[s]
        BY <3>3
      <4> QED BY <1>4, <2>1, <2>2, <3>3, <4>2, <4>3
    <3>4. CASE ~(new /\ m.kind = "send")
      <4>1. mail' = mail
        BY <1>3, <1>11, <3>4
      <4>2. m.kind = "send" => m.n <= mail[s]
        BY <1>4, <2>1, <2>3, <3>4
      <4> QED BY <1>4, <3>1, <4>1, <4>2
    <3> QED BY <3>3, <3>4
  <2> HIDE DEF own
  <2>5. r = [h EXCEPT !.out = Append(@, [kind |-> "result", n |-> 200])]
    BY <1>5, <2>3
  <2> HIDE DEF m, status
  <2>6. r \in Socket /\ r.in = h.in /\ Written(r) = Written(h)
    <3>1. [kind |-> "result", n |-> 200] \in Msg /\ h.out \in Seq(Msg)
      BY <1>6, SockFields DEF Msg
    <3>2. Append(h.out, [kind |-> "result", n |-> 200]) \in Seq(Msg)
      BY <3>1, AppendProperties
    <3>3. /\ r \in Socket /\ r.in = h.in /\ r.sent = h.sent
          /\ r.writing = h.writing
      BY ZenonT(60), <1>6, <2>5, <3>2 DEF Socket
    <3> QED BY <3>3 DEF Written
  <2>7. InOk(r, own)
    <3>1. \A a \in 1..Len(h.in) : h.in[a].n \in Nat
      <4>1. \A a \in 1..Len(h.in) : h.in[a] \in Input
        BY <1>6, SockFields, ElementOfSeq
      <4> QED BY <4>1, InputFields
    <3> QED BY SMTT(60), <1>4, <1>8, <2>4, <2>6, <3>1 DEF InOk
  <2>8. ep[s].conn = i => CurOk(s, ep[s], r, own, mail[p], live)
    BY ZenonT(60), <1>1, <1>4, <1>5, <1>6, <1>9, <2>4, <2>5, <2>6, AnswerOk
       DEF m
  <2>9. /\ v \in Socket /\ InOk(v, own)
        /\ ep[s].conn = i => CurOk(s, ep[s], v, own, mail[p], live)
    <3>1. CASE ep[s].conn = i
      BY <2>6, <2>7, <2>8, <3>1 DEF Seen, v
    <3>2. CASE ep[s].conn # i
      <4>1. v = Unread(r)
        BY <3>2 DEF Seen, v
      <4>2. InOk(Unread(r), own)
        BY <2>6, <2>7, UnreadType DEF InOk
      <4> QED BY <2>6, <3>2, <4>1, <4>2, UnreadType
    <3> QED BY <3>1, <3>2
  <2>10. q \in [Side -> Seq(Socket)] /\ \A x \in Side :
            SideOk(x, ep[x], q[x], mail'[x], mail'[Peer(x)], live)
    <3>1. /\ sock[s] \in Seq(Socket) /\ DOMAIN sock[s] = 1..Len(sock[s])
          /\ SideOk(s, ep[s], sock[s], mail[s], mail[p], live)
      BY Typed DEF p
    <3>2. SideOk(s, ep[s], sock[s], own, mail[p], live)
      BY <1>4, <2>4, <3>1, Later
    <3> DEFINE u == [sock[s] EXCEPT ![i] = v]
    <3>3. u \in Seq(Socket) /\ SideOk(s, ep[s], u, own, mail[p], live)
      BY <1>1, <1>4, <2>9, <3>1, <3>2, OneSocket
    <3>4. q = [sock EXCEPT ![s] = u]
      BY <1>q
    <3> HIDE DEF u
    <3>5. sock \in [Side -> Seq(Socket)]
      BY DEF IInv, TypeOK
    <3>6. q \in [Side -> Seq(Socket)]
      BY <3>3, <3>4, <3>5
    <3>7. ASSUME NEW x \in Side
          PROVE  SideOk(x, ep[x], q[x], mail'[x], mail'[Peer(x)], live)
      <4>1. CASE x = s
        BY <2>4, <3>3, <3>4, <3>5, <4>1 DEF own, p
      <4>2. CASE x # s
        <5>1. x = p /\ Peer(x) = s /\ q[x] = sock[x]
          BY <3>4, <3>5, <4>2, SideFacts DEF p
        <5>2. /\ ep[x] \in Endpoint /\ sock[x] \in Seq(Socket)
              /\ SideOk(x, ep[x], sock[x], mail[x], mail[s], live)
              /\ mail[x] <= Exchanges + 1
          BY <5>1, Typed DEF SideOk
        <5>3. mail'[x] = mail[x] /\ mail[x] \in Nat
          BY <1>4, <2>4, <5>1
        <5>4. SideOk(x, ep[x], sock[x], mail[x], own, live)
          BY SMTT(60), <1>4, <2>4, <5>2, <5>3, Later
        <5> QED BY <5>1, <5>3, <5>4 DEF own
      <4> QED BY <4>1, <4>2
    <3> QED BY <3>6, <3>7
  <2>11. sock' = q \/ sock' = Woken(q)
    BY <1>3, <1>11 DEF Notified
  <2>12. sock' \in [Side -> Seq(Socket)] /\ \A x \in Side :
            SideOk(x, ep[x], sock'[x], mail'[x], mail'[Peer(x)], live)
    <3>1. CASE sock' = q
      BY <2>10, <3>1
    <3>2. CASE sock' = Woken(q)
      <4>1. sock' \in [Side -> Seq(Socket)]
        BY <1>1, <2>10, <3>2, WokenIs
      <4>2. ASSUME NEW x \in Side
            PROVE  SideOk(x, ep[x], sock'[x], mail'[x], mail'[Peer(x)], live)
        <5>1. /\ sock'[x] \in Seq(Socket) /\ Len(sock'[x]) = Len(q[x])
              /\ \A j \in 1..Len(q[x]) : Alike(q[x][j], sock'[x][j])
          BY <2>10, <3>2, WokenIs
        <5>2. ep[x] \in Endpoint /\ q[x] \in Seq(Socket)
          BY <2>10, Typed
        <5> QED BY <2>10, <5>1, <5>2, SocketsAlike
      <4> QED BY <4>1, <4>2
    <3> QED BY <2>11, <3>1, <3>2
  <2>13. approved' \in 0..1
    BY <1>3, <1>4, <1>11
  <2>14. TypeOK'
    BY <1>1, <2>4, <2>12, <2>13 DEF IInv, TypeOK
  <2> QED BY <1>1, <2>12, <2>14 DEF IInv, Order
<1> QED BY <1>10, <1>11

LEMMA Revoke_Ok ==
    ASSUME IInv, Revoke \/ Expire
    PROVE  IInv'
<1>1. /\ live' = FALSE /\ ep' = ep /\ mail' = mail /\ approved' = approved
      /\ sock' = sock \/ sock' = Woken(sock)
  BY DEF Revoke, Expire
<1>2. sock \in [Side -> Seq(Socket)]
  BY DEF IInv, TypeOK
<1>3. ASSUME NEW x \in Side
      PROVE  SideOk(x, ep[x], sock[x], mail[x], mail[Peer(x)], FALSE)
  <2>1. /\ ep[x] \in Endpoint /\ sock[x] \in Seq(Socket)
        /\ mail[x] \in Nat /\ mail[Peer(x)] \in Nat /\ live \in BOOLEAN
        /\ SideOk(x, ep[x], sock[x], mail[x], mail[Peer(x)], live)
        /\ mail[x] <= Exchanges + 1
    BY Typed DEF SideOk
  <2>2. FALSE \in BOOLEAN /\ (FALSE => live)
    OBVIOUS
  <2>3. mail[x] <= mail[x] /\ mail[Peer(x)] <= mail[Peer(x)]
    BY <2>1
  <2> QED BY <2>1, <2>2, <2>3, Later, Zenon
<1>4. sock' \in [Side -> Seq(Socket)] /\ \A x \in Side :
         SideOk(x, ep[x], sock'[x], mail[x], mail[Peer(x)], FALSE)
  <2>1. CASE sock' = sock
    BY <1>2, <1>3, <2>1
  <2>2. CASE sock' = Woken(sock)
    <3>1. sock' \in [Side -> Seq(Socket)]
      BY <1>2, <2>2, WokenIs, SideFacts
    <3>2. ASSUME NEW x \in Side
          PROVE  SideOk(x, ep[x], sock'[x], mail[x], mail[Peer(x)], FALSE)
      <4>1. /\ sock'[x] \in Seq(Socket) /\ Len(sock'[x]) = Len(sock[x])
            /\ \A j \in 1..Len(sock[x]) : Alike(sock[x][j], sock'[x][j])
        BY <1>2, <2>2, WokenIs
      <4>2. ep[x] \in Endpoint /\ sock[x] \in Seq(Socket)
        BY Typed
      <4> QED BY <1>3, <4>1, <4>2, SocketsAlike
    <3> QED BY <3>1, <3>2
  <2> QED BY <1>1, <2>1, <2>2
<1>5. TypeOK'
  BY <1>1, <1>4 DEF IInv, TypeOK
<1> QED BY <1>1, <1>4, <1>5 DEF IInv, Order

-----------------------------------------------------------------------------
(* Steps of a setup worker *)

LEMMA SettledIs ==
    ASSUME NEW s \in Side, NEW e \in Endpoint, Placed(s, e),
           NEW f, f = Settled(s, e)
    PROVE  /\ f \in Endpoint /\ Placed(s, f)
           /\ f.conn = e.conn /\ f.tx = e.tx /\ f.rx = e.rx
           /\ f.inbox = e.inbox /\ f.rpc = e.rpc /\ f.end = e.end
           /\ OpOf(s, e) \in Rpcs => OpOf(s, f) = OpOf(s, e)
<1> DEFINE moves == \/ OpOf(s, e) = "caps" /\ e.lease
                    \/ OpOf(s, e) = "approved" /\ e.lease /\ e.approved = 1
<1>1. f = [e EXCEPT !.pc = IF moves THEN e.pc + 1 ELSE e.pc]
  BY DEF Settled
<1>2. CASE moves
  <2>1. OpOf(s, e) \in {"caps", "approved"}
    BY <1>2
  <2> HIDE DEF moves
  <2>2. f = [e EXCEPT !.pc = e.pc + 1]
    BY <1>1, <1>2
  <2>3. /\ f \in Endpoint /\ f.pc = e.pc + 1
        /\ f.conn = e.conn /\ f.tx = e.tx /\ f.rx = e.rx
        /\ f.inbox = e.inbox /\ f.rpc = e.rpc /\ f.end = e.end
    BY SMTT(60), <2>2 DEF Endpoint
  <2>4. Placed(s, f)
    BY <2>1, <2>3, AtOther
  <2> QED BY <2>1, <2>3, <2>4 DEF Rpcs
<1>3. CASE ~moves
  <2>1. f = e
    BY <1>1, <1>3 DEF Endpoint
  <2> QED BY <2>1
<1> QED BY <1>2, <1>3

LEMMA FreshIs ==
    ASSUME NEW why \in {"no", "refused", "protocol", "lost"}
    PROVE  /\ Ended(why) \in Endpoint /\ Ended(why).pc = 1
           /\ Ended(why).conn = 0 /\ Ended(why).tx = 0 /\ Ended(why).rx = 0
           /\ Ended(why).inbox = <<>> /\ Ended(why).rpc = "none"
           /\ Ended(why).end = why
<1>1. <<>> \in Seq(Nat) /\ 0 \in 0..1 /\ FALSE \in BOOLEAN
  OBVIOUS
<1>2. Fresh \in Endpoint
  BY <1>1 DEF Fresh, Endpoint
<1>3. Ended(why) \in Endpoint
  BY <1>2 DEF Ended, Endpoint
<1>4. /\ Ended(why).pc = 1
      /\ Ended(why).conn = 0 /\ Ended(why).tx = 0 /\ Ended(why).rx = 0
      /\ Ended(why).inbox = <<>> /\ Ended(why).rpc = "none"
      /\ Ended(why).end = why
  BY DEF Ended, Fresh
<1> QED BY <1>3, <1>4

(* The attempt ends because the session has. *)
LEMMA RefusedOk ==
    ASSUME NEW s \in Side, NEW e \in Endpoint, NEW q \in Seq(Socket),
           NEW own \in Nat, NEW other \in Nat, NEW l, ~l,
           SideOk(s, e, q, own, other, l)
    PROVE  SideOk(s, Ended("refused"), q, own, other, l)
<1> DEFINE f == Ended("refused")
<1>1. /\ f.pc = 1 /\ f.conn = 0 /\ f.tx = 0 /\ f.rx = 0
      /\ f.inbox = <<>> /\ f.rpc = "none" /\ f.end = "refused"
  BY FreshIs
<1> HIDE DEF f
<1>2. Len(f.inbox) = 0 /\ Base(f) = 0
  BY <1>1 DEF Base
<1>3. EpOk(s, f, own, other, l)
  BY <1>1, <1>2 DEF EpOk, Placed
<1> QED BY <1>1, <1>3 DEF SideOk, f

LEMMA Connect_Ok ==
    ASSUME IInv, NEW s \in Side, Connect(s)
    PROVE  IInv'
<1> DEFINE e == ep[s]
           q == sock[s]
           p == Peer(s)
<1>1. /\ e \in Endpoint /\ q \in Seq(Socket) /\ mail[s] \in Nat /\ mail[p] \in Nat
      /\ SideOk(s, e, q, mail[s], mail[p], live) /\ Len(q) \in Nat
  BY Typed
<1>2. e.conn = 0 /\ UNCHANGED Database
  BY DEF Connect, Up
<1>3. CASE /\ live /\ e.rx <= mail[p]
           /\ sock' = [sock EXCEPT ![s] = Append(@, NewSocket(e.rx))]
           /\ Leaves(s, [e EXCEPT !.conn = Len(q) + 1])
  <2> DEFINE f == [e EXCEPT !.conn = Len(q) + 1]
             k == NewSocket(e.rx)
             r == Append(q, k)
  <2>1. ep' = [ep EXCEPT ![s] = f] /\ sock' = [sock EXCEPT ![s] = r]
    BY <1>3 DEF Leaves
  <2> HIDE DEF e, q
  <2>2. /\ f \in Endpoint /\ f.pc = e.pc /\ f.conn = Len(q) + 1
        /\ f.tx = e.tx /\ f.rx = e.rx
        /\ f.inbox = e.inbox /\ f.rpc = e.rpc /\ f.end = e.end
    <3>1. \A n \in Nat : LET g == [e EXCEPT !.conn = n]
                        IN  /\ g \in Endpoint /\ g.pc = e.pc /\ g.conn = n
                            /\ g.tx = e.tx /\ g.rx = e.rx /\ g.inbox = e.inbox
                            /\ g.rpc = e.rpc /\ g.end = e.end
      <4>1. e \in Endpoint
        BY <1>1
      <4> QED BY <4>1 DEF Endpoint
    <3>2. Len(q) + 1 \in Nat
      BY <1>1
    <3> QED BY <3>1, <3>2
  <2>3. /\ k \in Socket /\ k.pc = "catchup" /\ k.queued = e.rx
        /\ Written(k) = e.rx /\ k.in = <<>> /\ k.out = <<>>
    BY <1>1, EpFields, NewSocketType
  <2> HIDE DEF f, k
  <2>4. /\ r \in Seq(Socket) /\ Len(r) = Len(q) + 1 /\ r[Len(q) + 1] = k
        /\ \A i \in 1..Len(q) : r[i] = q[i]
    BY <1>1, <2>3, AppendProperties
  <2> HIDE DEF r
  <2>5. e.inbox = <<>> /\ e.rpc = "none" /\ EpOk(s, e, mail[s], mail[p], live)
    BY <1>1, <1>2 DEF SideOk, EpOk
  <2>6. Base(f) = e.rx /\ Base(f) = Base(e) /\ e.rx \in Nat
    BY <1>1, <2>2, <2>5, EpFields DEF Base
  <2>7. EpOk(s, f, mail[s], mail[p], live)
    BY <1>1, <2>2, <2>5, <2>6 DEF EpOk, Placed
  <2>8. CurOk(s, f, k, mail[s], mail[p], live)
    <3>1. Len(k.in) = 0 /\ Len(k.out) = 0
      BY <2>3
    <3>2. Pushed(k, Base(f), mail[p])
      BY <1>3, <2>3, <2>6, <3>1 DEF Pushed
    <3> QED BY <3>1, <3>2 DEF CurOk, Chain, OutOk, RpcOk
  <2>9. InOk(k, mail[s])
    BY <2>3 DEF InOk
  <2>10. \A i \in 1..Len(r) : InOk(r[i], mail[s])
    BY <1>1, <2>4, <2>9 DEF SideOk
  <2>11. f.conn \in 1..Len(r) /\ r[f.conn] = k
    BY <1>1, <2>2, <2>4
  <2>12. SideOk(s, f, r, mail[s], mail[p], live)
    BY <1>1, <2>7, <2>8, <2>10, <2>11 DEF SideOk
  <2> QED BY <1>2, <2>1, <2>2, <2>4, <2>12, OneSide DEF p
<1>4. CASE ~live /\ Leaves(s, Ended("refused")) /\ UNCHANGED sock
  <2> DEFINE f == Ended("refused")
  <2>1. ep' = [ep EXCEPT ![s] = f] /\ sock' = [sock EXCEPT ![s] = q]
    BY <1>4 DEF Leaves, IInv, TypeOK
  <2>2. f \in Endpoint
    BY FreshIs
  <2>3. SideOk(s, f, q, mail[s], mail[p], live)
    BY <1>1, <1>4, RefusedOk
  <2> HIDE DEF f
  <2> QED BY <1>1, <1>2, <2>1, <2>2, <2>3, OneSide
<1> QED BY <1>3, <1>4 DEF Connect

(* A frame handed to the socket in use. *)
LEMMA FeedIs ==
    ASSUME NEW k \in Socket, NEW f \in Input,
           NEW h, h = [k EXCEPT !.in = Append(@, f)]
    PROVE  /\ h \in Socket
           /\ h.pc = k.pc /\ h.queued = k.queued /\ h.out = k.out
           /\ Written(h) = Written(k)
           /\ Len(h.in) = Len(k.in) + 1 /\ h.in[Len(k.in) + 1] = f
           /\ \A a \in 1..Len(k.in) : h.in[a] = k.in[a]
           /\ Len(k.in) \in Nat
<1>1. k.in \in Seq(Input) /\ Len(k.in) \in Nat
  BY SockFields
<1>2. /\ Append(k.in, f) \in Seq(Input) /\ Len(Append(k.in, f)) = Len(k.in) + 1
      /\ Append(k.in, f)[Len(k.in) + 1] = f
      /\ \A a \in 1..Len(k.in) : Append(k.in, f)[a] = k.in[a]
  BY <1>1, AppendProperties
<1>3. /\ h \in Socket
      /\ h.pc = k.pc /\ h.queued = k.queued /\ h.out = k.out
      /\ h.in = Append(k.in, f) /\ h.sent = k.sent /\ h.writing = k.writing
  BY <1>2 DEF Socket
<1> QED BY <1>1, <1>2, <1>3 DEF Written

LEMMA BeginRpc_Ok ==
    ASSUME IInv, NEW s \in Side, BeginRpc(s)
    PROVE  IInv'
<1> DEFINE e == ep[s]
           q == sock[s]
           p == Peer(s)
           i == ep[s].conn
           k == sock[s][i]
           m == [kind |-> OpOf(s, e), n |-> e.tx + 1]
           f == [e EXCEPT !.rpc = "sent"]
           h == [k EXCEPT !.in = Append(@, m)]
<1>1. /\ e \in Endpoint /\ q \in Seq(Socket) /\ mail[s] \in Nat /\ mail[p] \in Nat
      /\ SideOk(s, e, q, mail[s], mail[p], live)
  BY Typed
<1>2. /\ i # 0 /\ OpOf(s, e) \in Rpcs /\ e.rpc = "none" /\ UNCHANGED Database
      /\ ep' = [ep EXCEPT ![s] = f]
  BY DEF BeginRpc, Up, Op, Leaves
<1>3. IF k.pc = "off" THEN sock' = sock
      ELSE sock' = [sock EXCEPT ![s] = [q EXCEPT ![i] = h]]
  BY DEF BeginRpc, Feed, Conn, Op
<1>4. sock = [sock EXCEPT ![s] = q]
  BY DEF IInv, TypeOK
<1>5. i \in 1..Len(q) /\ i = e.conn /\ CurOk(s, e, k, mail[s], mail[p], live)
  BY <1>1, <1>2 DEF SideOk
<1>6. k = q[i] /\ k \in Socket /\ InOk(k, mail[s])
  BY <1>1, <1>5, ElementOfSeq DEF SideOk
<1>7. h = [k EXCEPT !.in = Append(@, m)]
  OBVIOUS
<1> HIDE DEF e, q, i, k, h, p
<1>8. /\ f \in Endpoint /\ f.pc = e.pc /\ f.conn = e.conn
      /\ f.tx = e.tx /\ f.rx = e.rx
      /\ f.inbox = e.inbox /\ f.rpc = "sent" /\ f.end = e.end
  BY <1>1 DEF Endpoint
<1> HIDE DEF f
<1>9. Base(f) = Base(e) /\ OpOf(s, f) = OpOf(s, e)
  BY <1>8 DEF Base, OpOf
<1>10. EpOk(s, f, mail[s], mail[p], live)
  BY <1>1, <1>2, <1>5, <1>8, <1>9 DEF SideOk, EpOk, Placed
<1>11. /\ \A a \in 1..Len(k.in) : ~IsRequest(k.in[a])
       /\ \A j \in 1..Len(k.out) : ~IsResult(k.out[j])
  BY <1>2, <1>5 DEF CurOk, RpcOk
<1>12. SideOk(s, f, q, mail[s], mail[p], live)
  <2>1. RpcOk(s, f, k, mail[s])
    BY <1>11 DEF RpcOk
  <2>2. CurOk(s, f, k, mail[s], mail[p], live)
    BY <1>5, <1>9, <2>1 DEF CurOk
  <2> QED BY <1>1, <1>5, <1>6, <1>8, <1>10, <2>2 DEF SideOk
<1>13. CASE k.pc = "off"
  BY <1>1, <1>2, <1>3, <1>4, <1>8, <1>12, <1>13, OneSide DEF p
<1>14. CASE k.pc # "off"
  <2>1. m \in Input /\ m.kind = OpOf(s, e) /\ m.n = e.tx + 1 /\ m.kind # "ack"
    BY <1>1, <1>2, EpFields DEF Input, Rpcs
  <2> HIDE DEF m
  <2>2. /\ h \in Socket
        /\ h.pc = k.pc /\ h.queued = k.queued /\ h.out = k.out
        /\ Written(h) = Written(k)
        /\ Len(h.in) = Len(k.in) + 1 /\ h.in[Len(k.in) + 1] = m
        /\ \A a \in 1..Len(k.in) : h.in[a] = k.in[a]
        /\ Len(k.in) \in Nat
    BY <1>6, <1>7, <2>1, FeedIs
  <2>3. m.kind = "send" => m.n <= mail[s] + 1 /\ m.n <= Exchanges + 1
    <3>1. Placed(s, e) /\ e.tx <= mail[s] /\ e.tx \in Nat /\ Exchanges \in Nat
      BY <1>1, EpFields, ConstantsAssumption DEF SideOk, EpOk
    <3>2. OpOf(s, e) = "send" => e.tx <= Exchanges
      BY <1>1, <3>1, AtSend
    <3> QED BY <1>1, <2>1, <3>1, <3>2
  <2>4. \A a \in 1..Len(h.in) : a \in 1..Len(k.in) \/ a = Len(k.in) + 1
    BY <2>2
  <2>5. InOk(h, mail[s])
    BY ZenonT(60), <1>6, <2>1, <2>2, <2>3, <2>4 DEF InOk
  <2>6. \A a \in 1..Len(h.in) : IsRequest(h.in[a]) => a = Len(k.in) + 1
    BY <1>11, <2>2, <2>4
  <2>7. RpcOk(s, f, h, mail[s])
    BY <1>8, <1>9, <1>11, <2>1, <2>2, <2>6 DEF RpcOk
  <2>8. Pushed(h, Base(f), mail[p])
    BY <1>5, <1>9, <1>14, <2>2 DEF CurOk, Pushed
  <2>9. CurOk(s, f, h, mail[s], mail[p], live)
    BY <1>5, <1>9, <2>2, <2>7, <2>8 DEF CurOk
  <2> DEFINE r == [q EXCEPT ![i] = h]
  <2>10. r \in Seq(Socket) /\ SideOk(s, f, r, mail[s], mail[p], live)
    BY <1>1, <1>5, <1>8, <1>12, <2>2, <2>5, <2>9, OneSocket
  <2>11. sock' = [sock EXCEPT ![s] = r]
    BY <1>3, <1>14
  <2> HIDE DEF r
  <2> QED BY <1>2, <1>8, <2>10, <2>11, OneSide DEF p
<1> QED BY <1>13, <1>14

(* The queue without its first frame. *)
LEMMA TakenOk ==
    ASSUME NEW k \in Socket, k.out # <<>>,
           NEW b \in Nat, NEW other \in Nat, NEW l,
           Chain(k.out, b), OutOk(k.out, other, l),
           k.pc # "off" => Pushed(k, b, other),
           IsMessage(Head(k.out)) => k.writing = 0,
           NEW h, h = Taken(k),
           NEW c, c = IF IsMessage(Head(k.out)) THEN b + 1 ELSE b
    PROVE  /\ Chain(h.out, c) /\ OutOk(h.out, other, l)
           /\ k.pc # "off" => Pushed(h, c, other)
           /\ IsMessage(Head(k.out)) => Head(k.out).n = b + 1 /\ b + 1 <= other
           /\ Written(h) >= Written(k)
<1> DEFINE m == Head(k.out)
<1>1. /\ h \in Socket /\ h.pc = k.pc /\ h.in = k.in
      /\ h.queued = k.queued /\ h.sent = k.sent
      /\ m = k.out[1] /\ m \in Msg /\ 1 \in 1..Len(k.out)
      /\ h.writing = IF m.kind = "message" /\ k.pc # "off"
                     THEN m.n ELSE k.writing
      /\ Len(h.out) = Len(k.out) - 1
      /\ \A i \in 1..Len(h.out) : /\ i + 1 \in 1..Len(k.out)
                                  /\ h.out[i] = k.out[i + 1]
  BY TakenIs
<1>0. Len(k.out) \in Nat /\ Len(h.out) \in Nat /\ k.queued \in Nat /\ k.sent \in Nat
      /\ k.writing \in Nat
  BY <1>1, SockFields
<1>2. \A i \in 1..Len(k.out) : k.out[i].n \in Nat
  <2>1. \A i \in 1..Len(k.out) : k.out[i] \in Msg
    BY SockFields, ElementOfSeq
  <2> QED BY <2>1, MsgFields
<1>3. IsMessage(m) => m.n = b + 1 /\ b + 1 <= other
  <2> SUFFICES ASSUME IsMessage(m) PROVE m.n = b + 1 /\ b + 1 <= other
    OBVIOUS
  <2>1. \/ k.out[1].n = b + 1
        \/ \E j \in 1..(1 - 1) : IsMessage(k.out[j]) /\ k.out[j].n = k.out[1].n - 1
    BY <1>1 DEF Chain
  <2>2. m.n = b + 1
    BY <1>1, <2>1
  <2>3. m.n <= other
    BY <1>1 DEF OutOk
  <2> QED BY <2>2, <2>3
<1> HIDE DEF m
<1>4. c \in Nat /\ b <= c
  OBVIOUS
<1>5. Chain(h.out, c)
  <2> SUFFICES ASSUME NEW i \in 1..Len(h.out), IsMessage(h.out[i])
               PROVE  /\ h.out[i].n > c
                      /\ \/ h.out[i].n = c + 1
                         \/ \E j \in 1..(i - 1) : /\ IsMessage(h.out[j])
                                                  /\ h.out[j].n = h.out[i].n - 1
                      /\ \A j \in 1..(i - 1) :
                           IsMessage(h.out[j]) => h.out[j].n < h.out[i].n
    BY DEF Chain
  <2>0. i \in Nat /\ i + 1 \in 1..Len(k.out) /\ h.out[i] = k.out[i + 1] /\ (i + 1) - 1 = i
    BY <1>0, <1>1
  <2>1. /\ h.out[i].n > b
        /\ \/ h.out[i].n = b + 1
           \/ \E j \in 1..i : IsMessage(k.out[j]) /\ k.out[j].n = h.out[i].n - 1
        /\ \A j \in 1..i : IsMessage(k.out[j]) => k.out[j].n < h.out[i].n
    BY <2>0 DEF Chain
  <2>2. h.out[i].n \in Nat
    BY <1>2, <2>0
  <2>3. \A j \in 1..i : j = 1 \/ (j - 1 \in 1..(i - 1) /\ h.out[j - 1] = k.out[j])
    <3> SUFFICES ASSUME NEW j \in 1..i, j # 1
                 PROVE  j - 1 \in 1..(i - 1) /\ h.out[j - 1] = k.out[j]
      OBVIOUS
    <3>1. j - 1 \in 1..Len(h.out) /\ (j - 1) + 1 = j /\ j - 1 \in 1..(i - 1)
      BY <1>0, <2>0
    <3> QED BY <1>1, <3>1
  <2>4. 1 \in 1..i
    BY <2>0
  <2>5. h.out[i].n > c
    <3>1. CASE IsMessage(m)
      <4>1. k.out[1].n < h.out[i].n /\ k.out[1].n = b + 1
        BY <1>1, <1>3, <2>1, <2>4, <3>1
      <4> QED BY <2>2, <3>1, <4>1 DEF m
    <3>2. CASE ~IsMessage(m)
      BY <2>1, <3>2 DEF m
    <3> QED BY <3>1, <3>2
  <2>6. \/ h.out[i].n = c + 1
        \/ \E j \in 1..(i - 1) : IsMessage(h.out[j]) /\ h.out[j].n = h.out[i].n - 1
    <3>1. CASE h.out[i].n = b + 1
      <4>1. c = b
        BY <1>4, <2>2, <2>5, <3>1
      <4> QED BY <3>1, <4>1
    <3>2. CASE h.out[i].n # b + 1
      <4>1. PICK j \in 1..i : IsMessage(k.out[j]) /\ k.out[j].n = h.out[i].n - 1
        BY <2>1, <3>2
      <4>2. CASE j = 1
        <5>1. IsMessage(m) /\ m.n = h.out[i].n - 1
          BY <1>1, <4>1, <4>2
        <5>2. c = b + 1 /\ m.n = b + 1
          BY <1>3, <5>1 DEF m
        <5> QED BY <2>2, <5>1, <5>2
      <4>3. CASE j # 1
        <5>1. j - 1 \in 1..(i - 1) /\ h.out[j - 1] = k.out[j]
          BY <2>3, <4>3
        <5> QED BY <4>1, <5>1
      <4> QED BY <4>2, <4>3
    <3> QED BY <3>1, <3>2
  <2>7. ASSUME NEW j \in 1..(i - 1), IsMessage(h.out[j])
        PROVE  h.out[j].n < h.out[i].n
    <3>0. j \in 1..Len(h.out) /\ j + 1 \in 1..i
      <4>1. i <= Len(h.out) /\ j \in Nat /\ j >= 1 /\ j <= i - 1
        BY <1>0, <2>0
      <4>2. \A x, y, z \in Nat : x >= 1 /\ x <= y - 1 /\ y <= z
                                => x \in 1..z /\ x + 1 \in 1..y
        OBVIOUS
      <4> QED BY <1>0, <2>0, <4>1, <4>2
    <3>1. j + 1 \in 1..i /\ h.out[j] = k.out[j + 1]
      BY <1>1, <3>0
    <3> QED BY <2>1, <2>7, <3>1
  <2> QED BY <2>5, <2>6, <2>7
<1>6. OutOk(h.out, other, l)
  BY SMTT(60), <1>1 DEF OutOk
<1>7. ASSUME k.pc # "off" PROVE Pushed(h, c, other)
  <2>0. Pushed(k, b, other)
    BY <1>7
  <2>1. Written(h) = c
    <3>1. CASE IsMessage(m)
      <4>1. h.writing = m.n /\ m.n = b + 1 /\ c = b + 1
        BY <1>1, <1>3, <1>7, <3>1 DEF IsMessage, m
      <4> QED BY <4>1 DEF Written
    <3>2. CASE ~IsMessage(m)
      <4>1. h.writing = k.writing /\ c = b
        BY <1>1, <3>2 DEF IsMessage, m
      <4> QED BY <1>1, <2>0, <4>1 DEF Written, Pushed
    <3> QED BY <3>1, <3>2
  <2>2. \A i \in 1..Len(h.out) : IsMessage(h.out[i]) => h.out[i].n <= h.queued
    BY <1>1, <2>0 DEF Pushed
  <2>3. h.queued = c \/ \E i \in 1..Len(h.out) :
                          IsMessage(h.out[i]) /\ h.out[i].n = h.queued
    <3>1. CASE k.queued = c
      BY <1>1, <3>1
    <3>2. CASE k.queued # c
      <4>1. k.queued # b
        <5>1. CASE IsMessage(m)
          <6>1. m.n <= k.queued /\ m.n = b + 1
            BY <1>1, <1>3, <2>0, <5>1 DEF Pushed
          <6> QED BY <1>0, <6>1
        <5>2. CASE ~IsMessage(m)
          BY <3>2, <5>2 DEF m
        <5> QED BY <5>1, <5>2
      <4>2. PICK j \in 1..Len(k.out) : IsMessage(k.out[j]) /\ k.out[j].n = k.queued
        BY <2>0, <4>1 DEF Pushed
      <4>3. j # 1
        <5> SUFFICES ASSUME j = 1 PROVE FALSE
          OBVIOUS
        <5>1. IsMessage(m) /\ m.n = k.queued
          BY <1>1, <4>2
        <5> QED BY <1>3, <3>2, <5>1 DEF m
      <4>4. j - 1 \in 1..Len(h.out) /\ (j - 1) + 1 = j
        BY <1>0, <1>1, <4>3
      <4> QED BY <1>1, <4>2, <4>4
    <3> QED BY <3>1, <3>2
  <2>4. c <= h.queued /\ h.queued <= other
    <3>1. b <= k.queued /\ k.queued <= other
      BY <2>0 DEF Pushed
    <3>2. IsMessage(m) => b + 1 <= k.queued
      BY <1>1, <1>3, <2>0 DEF Pushed
    <3> QED BY <1>1, <3>1, <3>2 DEF m
  <2> QED BY <2>1, <2>2, <2>3, <2>4 DEF Pushed
<1>8. k.pc # "off" \/ ~IsMessage(m) => Written(h) >= Written(k)
  <2>1. CASE IsMessage(m) /\ k.pc # "off"
    <3>1. Written(h) = b + 1 /\ Written(k) = b
      BY <1>7, <2>1 DEF Pushed, m
    <3> QED BY <3>1
  <2>2. CASE ~IsMessage(m)
    <3>1. h.writing = k.writing
      BY <1>1, <2>2 DEF IsMessage
    <3> QED BY <1>0, <1>1, <3>1 DEF Written
  <2> QED BY <2>1, <2>2
<1>9. k.pc = "off" => Written(h) = Written(k)
  BY <1>1 DEF Written
<1>10. Written(h) >= Written(k)
  BY <1>1, <1>8, <1>9, SockFields
<1> QED BY <1>3, <1>5, <1>6, <1>7, <1>10 DEF m

LEMMA Pump_Ok ==
    ASSUME IInv, NEW s \in Side, Pump(s)
    PROVE  IInv'
<1> DEFINE e == ep[s]
           q == sock[s]
           p == Peer(s)
           i == ep[s].conn
           k == sock[s][i]
           m == Head(k.out)
           h == Taken(k)
           r == [q EXCEPT ![i] = h]
           b == Base(e)
           caps == [e EXCEPT !.lease = TRUE, !.approved = m.n]
           more == [e EXCEPT !.inbox = Append(@, m.n)]
           done == [e EXCEPT !.rpc = "none", !.pc = @ + 1,
                             !.tx = IF OpOf(s, e) = "send" THEN @ + 1 ELSE @]
<1>1. /\ e \in Endpoint /\ q \in Seq(Socket) /\ mail[s] \in Nat /\ mail[p] \in Nat
      /\ SideOk(s, e, q, mail[s], mail[p], live)
  BY Typed
<1>2. /\ e.end = "no" /\ i # 0 /\ k.out # <<>> /\ UNCHANGED Database
      /\ m.kind = "message" => k.writing = 0
  BY ZenonT(60) DEF Pump, Up, Running, Conn
<1>3. sock' = [sock EXCEPT ![s] = r]
  BY ZenonT(60) DEF Pump, Becomes, Seen, Conn
<1>4. /\ m.kind = "revoked" => ep' = [ep EXCEPT ![s] = Ended("refused")]
      /\ m.kind = "caps" => ep' = [ep EXCEPT ![s] = Settled(s, caps)]
      /\ m.kind = "message" => ep' = [ep EXCEPT ![s] = more]
      /\ m.kind = "result" /\ m.n = 200 => ep' = [ep EXCEPT ![s] = Settled(s, done)]
  BY DEF Pump, Leaves, Conn, Op
<1>5. i \in 1..Len(q) /\ i = e.conn /\ CurOk(s, e, k, mail[s], mail[p], live)
  BY <1>1, <1>2 DEF SideOk
<1>6. k = q[i] /\ k \in Socket /\ InOk(k, mail[s])
  BY <1>1, <1>5, ElementOfSeq DEF SideOk
<1>7. h = Taken(k)
  OBVIOUS
<1> HIDE DEF e, q, i, k, h, p
<1>8. /\ h \in Socket /\ h.pc = k.pc /\ h.in = k.in
      /\ m = k.out[1] /\ m \in Msg /\ 1 \in 1..Len(k.out)
      /\ Len(h.out) = Len(k.out) - 1
      /\ \A j \in 1..Len(h.out) : /\ j + 1 \in 1..Len(k.out)
                                  /\ h.out[j] = k.out[j + 1]
  <2>1. k \in Socket /\ k.out # <<>> /\ h = Taken(k)
    BY <1>2, <1>6, <1>7
  <2>2. h \in Socket
    BY <2>1, TakenIs
  <2>3. h.pc = k.pc /\ h.in = k.in
    BY <2>1, TakenIs
  <2>4. m = k.out[1] /\ m \in Msg /\ 1 \in 1..Len(k.out)
    BY <2>1, TakenIs
  <2>5. Len(h.out) = Len(k.out) - 1
    BY <2>1, TakenIs
  <2>6. \A j \in 1..Len(h.out) : /\ j + 1 \in 1..Len(k.out)
                                  /\ h.out[j] = k.out[j + 1]
    BY <2>1, TakenIs
  <2> QED BY <2>2, <2>3, <2>4, <2>5, <2>6
<1>9. m.kind \in {"message", "caps", "result", "revoked"} /\ m.n \in Nat
      /\ (m.kind = "caps" => m.n \in 0..1)
  BY <1>8, MsgFields
<1> DEFINE c == IF IsMessage(m) THEN b + 1 ELSE b
<1>10. /\ Chain(h.out, c) /\ OutOk(h.out, mail[p], live)
       /\ k.pc # "off" => Pushed(h, c, mail[p])
       /\ IsMessage(m) => m.n = b + 1 /\ b + 1 <= mail[p]
       /\ Written(h) >= Written(k)
  <2>1. b \in Nat
    BY <1>1, EpFields
  <2>2. /\ Chain(k.out, b) /\ OutOk(k.out, mail[p], live)
        /\ k.pc # "off" => Pushed(k, b, mail[p])
    BY <1>5 DEF CurOk
  <2>3. IsMessage(Head(k.out)) => k.writing = 0
    BY <1>2 DEF IsMessage
  <2>4. c = IF IsMessage(Head(k.out)) THEN b + 1 ELSE b
    OBVIOUS
  <2> HIDE DEF b, c
  <2>5. /\ k \in Socket /\ k.out # <<>> /\ b \in Nat /\ mail[p] \in Nat
        /\ Chain(k.out, b) /\ OutOk(k.out, mail[p], live)
        /\ k.pc # "off" => Pushed(k, b, mail[p])
        /\ IsMessage(Head(k.out)) => k.writing = 0
        /\ h = Taken(k) /\ c = IF IsMessage(Head(k.out)) THEN b + 1 ELSE b
    BY <1>1, <1>2, <1>6, <1>7, <2>1, <2>2, <2>3, <2>4
  <2>6. Chain(h.out, c) /\ OutOk(h.out, mail[p], live)
    BY <2>5, TakenOk
  <2>7. k.pc # "off" => Pushed(h, c, mail[p])
    BY <2>5, TakenOk
  <2>8. IsMessage(m) => m.n = b + 1 /\ b + 1 <= mail[p]
    BY <2>5, TakenOk
  <2>9. Written(h) >= Written(k)
    BY <2>5, TakenOk
  <2> QED BY <2>6, <2>7, <2>8, <2>9
<1>11. InOk(h, mail[s])
  <2>1. \A a \in 1..Len(k.in) : k.in[a] \in Input
    BY <1>6, SockFields, ElementOfSeq
  <2>2. \A a \in 1..Len(k.in) : k.in[a].n \in Nat
    BY <2>1, InputFields
  <2>3. Written(h) \in Nat /\ Written(k) \in Nat
    BY <1>6, <1>8, SockFields
  <2> QED BY <1>6, <1>8, <1>10, <2>2, <2>3 DEF InOk
<1>12. EpOk(s, e, mail[s], mail[p], live)
  BY <1>1 DEF SideOk
<1>13. RpcOk(s, e, k, mail[s])
  BY <1>5 DEF CurOk
<1> HIDE DEF m
(* A new value f of the worker that leaves its socket in use. *)
<1>14. ASSUME NEW f \in Endpoint, ep' = [ep EXCEPT ![s] = f],
              f.conn = i, Base(f) = c, EpOk(s, f, mail[s], mail[p], live),
              RpcOk(s, f, h, mail[s])
       PROVE  IInv'
  <2>1. CurOk(s, f, h, mail[s], mail[p], live)
    BY <1>8, <1>10, <1>14 DEF CurOk
  <2>2. r \in Seq(Socket) /\ Len(r) = Len(q) /\ r[i] = h
        /\ \A j \in 1..Len(q) : j # i => r[j] = q[j]
    BY <1>1, <1>5, <1>8, ExceptSeq
  <2> HIDE DEF r
  <2>3. \A j \in 1..Len(r) : InOk(r[j], mail[s])
    BY <1>1, <1>11, <2>2 DEF SideOk
  <2>4. SideOk(s, f, r, mail[s], mail[p], live)
    BY <1>1, <1>5, <1>14, <2>1, <2>2, <2>3 DEF SideOk
  <2> QED BY <1>2, <1>3, <1>14, <2>2, <2>4, OneSide DEF p
<1>15. ASSUME ~IsResult(m)
       PROVE  \A f : f.rpc = e.rpc /\ f.tx = e.tx
                       /\ (e.rpc = "sent" => OpOf(s, f) = OpOf(s, e))
                       => RpcOk(s, f, h, mail[s])
  <2> SUFFICES ASSUME NEW f, f.rpc = e.rpc, f.tx = e.tx,
                      e.rpc = "sent" => OpOf(s, f) = OpOf(s, e)
               PROVE  RpcOk(s, f, h, mail[s])
    OBVIOUS
  <2>1. Len(h.out) \in Nat
    BY <1>8, SockFields
  <2>2. ASSUME NEW a \in 1..Len(h.in), IsRequest(h.in[a])
        PROVE  /\ f.rpc = "sent" /\ h.in[a].kind = OpOf(s, f) /\ h.in[a].n = f.tx + 1
               /\ \A x \in 1..Len(h.in) : IsRequest(h.in[x]) => a = x
               /\ \A j \in 1..Len(h.out) : ~IsResult(h.out[j])
    BY <1>8, <1>13, <2>2 DEF RpcOk
  <2>3. ASSUME NEW j \in 1..Len(h.out), IsResult(h.out[j])
        PROVE  /\ f.rpc = "sent" /\ (OpOf(s, f) = "send" => f.tx < mail[s])
               /\ \A x \in 1..Len(h.out) : IsResult(h.out[x]) => j = x
    <3>1. j + 1 \in 1..Len(k.out) /\ IsResult(k.out[j + 1])
      BY <1>8, <2>3
    <3>2. ASSUME NEW x \in 1..Len(h.out), IsResult(h.out[x]) PROVE j = x
      <4>1. x + 1 \in 1..Len(k.out) /\ IsResult(k.out[x + 1])
        BY <1>8, <3>2
      <4>2. j + 1 = x + 1
        BY <1>13, <3>1, <4>1 DEF RpcOk
      <4> QED BY <2>1, <4>2
    <3> QED BY <1>13, <3>1, <3>2 DEF RpcOk
  <2> QED BY <2>2, <2>3 DEF RpcOk
<1>16. CASE m.kind = "revoked"
  <2>1. ~live
    BY <1>5, <1>8, <1>16 DEF CurOk, OutOk
  <2> DEFINE f == Ended("refused")
  <2>2. f \in Endpoint /\ ep' = [ep EXCEPT ![s] = f]
    BY <1>4, <1>16, FreshIs
  <2>3. SideOk(s, f, q, mail[s], mail[p], live) /\ f.conn = 0
    BY <1>1, <2>1, RefusedOk, FreshIs
  <2> HIDE DEF f
  <2>4. f.conn # i
    BY <1>2, <2>3 DEF i
  <2>5. r \in Seq(Socket) /\ SideOk(s, f, r, mail[s], mail[p], live)
    BY <1>1, <1>5, <1>8, <1>11, <2>2, <2>3, <2>4, OneSocket
  <2> HIDE DEF r
  <2> QED BY <1>2, <1>3, <2>2, <2>5, OneSide DEF p
<1>17. CASE m.kind = "caps"
  <2>1. /\ caps \in Endpoint /\ caps.pc = e.pc /\ caps.conn = e.conn
        /\ caps.tx = e.tx /\ caps.rx = e.rx /\ caps.inbox = e.inbox
        /\ caps.rpc = e.rpc /\ caps.end = e.end
    BY <1>1, <1>9, <1>17 DEF Endpoint
  <2> HIDE DEF caps
  <2>2. Placed(s, caps) /\ OpOf(s, caps) = OpOf(s, e)
    BY <1>12, <2>1 DEF EpOk, Placed, OpOf
  <2> DEFINE f == Settled(s, caps)
  <2>3. /\ f \in Endpoint /\ Placed(s, f)
        /\ f.conn = caps.conn /\ f.tx = caps.tx /\ f.rx = caps.rx
        /\ f.inbox = caps.inbox /\ f.rpc = caps.rpc /\ f.end = caps.end
        /\ OpOf(s, caps) \in Rpcs => OpOf(s, f) = OpOf(s, caps)
    BY <2>1, <2>2, SettledIs
  <2>4. ep' = [ep EXCEPT ![s] = f]
    BY <1>4, <1>17
  <2> HIDE DEF f
  <2>5. e.rpc = "sent" => OpOf(s, e) \in Rpcs /\ OpOf(s, f) = OpOf(s, e)
    BY <1>12, <2>2, <2>3 DEF EpOk
  <2>6. Base(f) = b /\ c = b
    BY <1>17, <2>1, <2>3 DEF Base, IsMessage
  <2>7. EpOk(s, f, mail[s], mail[p], live)
    BY <1>12, <2>1, <2>3, <2>5, <2>6 DEF EpOk
  <2>8. RpcOk(s, f, h, mail[s])
    BY <1>15, <1>17, <2>1, <2>3, <2>5 DEF IsResult
  <2>9. f.conn = i
    BY <1>5, <2>1, <2>3
  <2> HIDE DEF c
  <2> QED BY <1>14, <2>3, <2>4, <2>6, <2>7, <2>8, <2>9
<1>18. CASE m.kind = "message"
  <2> DEFINE f == more
             L == Len(e.inbox)
  <2>0. e.inbox \in Seq(Nat) /\ L \in Nat /\ e.rx \in Nat
    BY <1>1, EpFields
  <2>1. /\ Append(e.inbox, m.n) \in Seq(Nat)
        /\ Len(Append(e.inbox, m.n)) = L + 1
        /\ Append(e.inbox, m.n)[L + 1] = m.n
        /\ \A j \in 1..L : Append(e.inbox, m.n)[j] = e.inbox[j]
    BY <1>9, <2>0, AppendProperties
  <2>2. /\ f \in Endpoint /\ f.pc = e.pc /\ f.conn = e.conn
        /\ f.tx = e.tx /\ f.rx = e.rx /\ f.inbox = Append(e.inbox, m.n)
        /\ f.rpc = e.rpc /\ f.end = e.end
    BY <1>1, <2>1 DEF Endpoint
  <2>3. ep' = [ep EXCEPT ![s] = f]
    BY <1>4, <1>18
  <2> HIDE DEF f
  <2>4. OpOf(s, f) = OpOf(s, e)
    BY <2>2 DEF OpOf
  <2>5. IsMessage(m) /\ c = b + 1 /\ b = e.rx + L
    BY <1>18 DEF IsMessage, Base
  <2>6. Base(f) = c
    BY SMTT(60), <2>0, <2>1, <2>2, <2>5 DEF Base
  <2>7. m.n = e.rx + (L + 1) /\ c <= mail[p]
    <3> HIDE DEF b, c
    <3>1. m.n = b + 1 /\ b + 1 <= mail[p]
      BY <1>10, <2>5
    <3> QED BY <2>0, <2>5, <3>1
  <2>8. \A j \in 1..Len(f.inbox) : f.inbox[j] = f.rx + j
    <3> SUFFICES ASSUME NEW j \in 1..(L + 1)
                 PROVE  Append(e.inbox, m.n)[j] = e.rx + j
      BY <2>1, <2>2
    <3>1. CASE j = L + 1
      BY <2>1, <2>7, <3>1
    <3>2. CASE j # L + 1
      <4>1. j \in 1..L
        BY <2>0, <3>2
      <4> QED BY <1>12, <2>1, <4>1 DEF EpOk
    <3> QED BY <3>1, <3>2
  <2>9. Placed(s, f)
    BY <1>12, <2>2 DEF EpOk, Placed
  <2>10. EpOk(s, f, mail[s], mail[p], live)
    <3>1. f.conn # 0
      BY <1>2, <1>5, <2>2 DEF i
    <3> QED BY <1>12, <2>2, <2>4, <2>6, <2>7, <2>8, <2>9, <3>1 DEF EpOk
  <2>11. RpcOk(s, f, h, mail[s])
    BY <1>15, <1>18, <2>2, <2>4 DEF IsResult
  <2>12. f.conn = i
    BY <1>5, <2>2
  <2> HIDE DEF c
  <2> QED BY <1>14, <2>2, <2>3, <2>6, <2>10, <2>11, <2>12
<1>19. CASE m.kind = "result"
  <2>1. IsResult(k.out[1]) /\ m.n = 200
    BY <1>5, <1>8, <1>19 DEF CurOk, OutOk, IsResult
  <2>2. /\ e.rpc = "sent" /\ (OpOf(s, e) = "send" => e.tx < mail[s])
        /\ \A j \in 1..Len(k.out) : IsResult(k.out[j]) => 1 = j
    BY <1>8, <1>13, <2>1 DEF RpcOk
  <2>3. \A a \in 1..Len(k.in) : ~IsRequest(k.in[a])
    BY <1>8, <1>13, <2>1 DEF RpcOk
  <2>4. \A j \in 1..Len(h.out) : ~IsResult(h.out[j])
    <3> SUFFICES ASSUME NEW j \in 1..Len(h.out), IsResult(h.out[j]) PROVE FALSE
      OBVIOUS
    <3>1. j + 1 \in 1..Len(k.out) /\ IsResult(k.out[j + 1]) /\ j \in Nat /\ j >= 1
      BY <1>8, SockFields
    <3>2. 1 = j + 1
      BY <2>2, <3>1
    <3> QED BY <3>1, <3>2
  <2>5. OpOf(s, e) \in Rpcs /\ Placed(s, e) /\ e.tx \in Nat /\ e.tx <= mail[s]
    BY <1>1, <1>12, <2>2, EpFields DEF EpOk
  <2> DEFINE x == IF OpOf(s, e) = "send" THEN e.tx + 1 ELSE e.tx
  <2>6. x \in Nat /\ x <= mail[s]
    BY <1>1, <2>2, <2>5
  <2>7. done = [e EXCEPT !.rpc = "none", !.pc = e.pc + 1, !.tx = x]
    OBVIOUS
  <2> HIDE DEF x, done
  <2>8. /\ done \in Endpoint /\ done.pc = e.pc + 1 /\ done.conn = e.conn
        /\ done.tx = x /\ done.rx = e.rx /\ done.inbox = e.inbox
        /\ done.rpc = "none" /\ done.end = e.end
    <3>1. e.pc + 1 \in Nat
      BY <1>1, EpFields
    <3>2. done \in Endpoint
      BY <1>1, <2>6, <2>7, <3>1 DEF Endpoint
    <3> QED BY <1>1, <2>7, <3>2 DEF Endpoint
  <2>9. Placed(s, done)
    <3>1. CASE OpOf(s, e) = "send"
      BY <1>1, <2>5, <2>8, <3>1, AtSend DEF x
    <3>2. CASE OpOf(s, e) # "send"
      <4>1. OpOf(s, e) \notin {"send", "recv", "done"}
        BY <2>5, <3>2 DEF Rpcs
      <4> QED BY <1>1, <2>5, <2>8, <3>2, <4>1, AtOther DEF x
    <3> QED BY <3>1, <3>2
  <2> DEFINE f == Settled(s, done)
  <2>10. /\ f \in Endpoint /\ Placed(s, f)
         /\ f.conn = done.conn /\ f.tx = done.tx /\ f.rx = done.rx
         /\ f.inbox = done.inbox /\ f.rpc = done.rpc /\ f.end = done.end
    BY <2>8, <2>9, SettledIs
  <2>11. ep' = [ep EXCEPT ![s] = f]
    BY <1>4, <1>19, <2>1
  <2> HIDE DEF f
  <2>12. Base(f) = b /\ c = b
    BY <1>19, <2>8, <2>10 DEF Base, IsMessage
  <2>13. EpOk(s, f, mail[s], mail[p], live)
    BY <1>12, <2>6, <2>8, <2>10, <2>12 DEF EpOk
  <2>14. RpcOk(s, f, h, mail[s])
    BY <1>8, <2>3, <2>4 DEF RpcOk
  <2>15. f.conn = i
    BY <1>5, <2>8, <2>10
  <2> HIDE DEF c
  <2> QED BY <1>14, <2>10, <2>11, <2>12, <2>13, <2>14, <2>15
<1> QED BY SMTT(60), <1>9, <1>16, <1>17, <1>18, <1>19

LEMMA Receive_Ok ==
    ASSUME IInv, NEW s \in Side, Receive(s)
    PROVE  IInv'
<1> DEFINE e == ep[s]
           q == sock[s]
           p == Peer(s)
           i == ep[s].conn
           k == sock[s][i]
           m == Head(e.inbox)
           d == [e EXCEPT !.inbox = Tail(@)]
           g == [d EXCEPT !.rx = m, !.pc = @ + 1]
           f == Settled(s, g)
           a == [kind |-> "ack", n |-> m]
           h == [k EXCEPT !.in = Append(@, a)]
<1>1. /\ e \in Endpoint /\ q \in Seq(Socket) /\ mail[s] \in Nat /\ mail[p] \in Nat
      /\ SideOk(s, e, q, mail[s], mail[p], live)
  BY Typed
<1>2. /\ OpOf(s, e) \in {"recv", "done"} /\ e.inbox # <<>> /\ UNCHANGED Database
  BY DEF Receive, Op
<1>3. OpOf(s, e) = "recv" /\ m = d.rx + 1 =>
         /\ ep' = [ep EXCEPT ![s] = f]
         /\ IF k.pc # "off" THEN sock' = [sock EXCEPT ![s] = [q EXCEPT ![i] = h]]
                            ELSE sock' = sock
  BY DEF Receive, Op, Leaves, Feed, Conn
<1>4. sock = [sock EXCEPT ![s] = q]
  BY DEF IInv, TypeOK
<1>5. EpOk(s, e, mail[s], mail[p], live)
  BY <1>1 DEF SideOk
<1>6. i # 0 /\ i = e.conn
  BY <1>2, <1>5 DEF EpOk
<1>7. i \in 1..Len(q) /\ CurOk(s, e, k, mail[s], mail[p], live)
  BY <1>1, <1>6 DEF SideOk
<1>8. k = q[i] /\ k \in Socket /\ InOk(k, mail[s])
  BY <1>1, <1>7, ElementOfSeq DEF SideOk
<1>9. h = [k EXCEPT !.in = Append(@, a)]
  OBVIOUS
<1>10. mail[p] <= Exchanges + 1 /\ Exchanges \in Nat
  <2>1. p \in Side
    BY SideFacts
  <2>2. SideOk(p, ep[p], sock[p], mail[p], mail[Peer(p)], live)
    BY <2>1, Typed
  <2> QED BY <2>2, ConstantsAssumption DEF SideOk
<1> HIDE DEF e, q, i, k, h, p
<1>11. /\ e.inbox \in Seq(Nat) /\ Len(e.inbox) \in Nat /\ Len(e.inbox) # 0
       /\ e.rx \in Nat /\ e.pc \in Nat
  <2>1. e.inbox \in Seq(Nat) /\ e.rx \in Nat /\ e.pc \in Nat
    BY <1>1, EpFields
  <2> QED BY <1>2, <2>1, EmptySeq
<1>12. /\ m = e.inbox[1] /\ m \in Nat
       /\ Tail(e.inbox) \in Seq(Nat) /\ Len(Tail(e.inbox)) = Len(e.inbox) - 1
       /\ \A j \in 1..Len(Tail(e.inbox)) : Tail(e.inbox)[j] = e.inbox[j + 1]
  BY <1>2, <1>11, HeadTailProperties
<1>13. m = e.rx + 1
  <2>1. 1 \in 1..Len(e.inbox)
    BY <1>11
  <2> QED BY <1>5, <1>12, <2>1 DEF EpOk
<1>14. OpOf(s, e) = "recv"
  <2> SUFFICES ASSUME OpOf(s, e) = "done" PROVE FALSE
    BY <1>2
  <2>1. e.rx = Exchanges + 1
    BY <1>1, <1>5, AtDone DEF EpOk
  <2>2. e.rx + Len(e.inbox) <= mail[p]
    BY <1>5 DEF EpOk, Base
  <2>3. mail[p] \in Nat /\ mail[p] <= Exchanges + 1 /\ Exchanges \in Nat
    BY <1>1, <1>10
  <2>4. \A x, y, n, w \in Nat : x = w + 1 /\ x + y <= n /\ n <= w + 1 => y = 0
    OBVIOUS
  <2> QED BY <1>11, <2>1, <2>2, <2>3, <2>4
<1>15. /\ d \in Endpoint /\ d.pc = e.pc /\ d.conn = e.conn /\ d.tx = e.tx
       /\ d.rx = e.rx /\ d.inbox = Tail(e.inbox) /\ d.rpc = e.rpc /\ d.end = e.end
  BY <1>1, <1>12 DEF Endpoint
<1> HIDE DEF d, m
<1>16. /\ g \in Endpoint /\ g.pc = e.pc + 1 /\ g.conn = e.conn /\ g.tx = e.tx
       /\ g.rx = e.rx + 1 /\ g.inbox = Tail(e.inbox)
       /\ g.rpc = e.rpc /\ g.end = e.end
  <2>1. d.pc + 1 \in Nat
    BY <1>11, <1>15
  <2>2. g \in Endpoint
    BY <1>12, <1>15, <2>1 DEF Endpoint
  <2> QED BY <1>13, <1>15, <2>2 DEF Endpoint
<1> HIDE DEF g
<1>17. Placed(s, g)
  BY <1>1, <1>5, <1>14, <1>16, AtRecv DEF EpOk
<1>18. /\ f \in Endpoint /\ Placed(s, f)
       /\ f.conn = e.conn /\ f.tx = e.tx /\ f.rx = e.rx + 1
       /\ f.inbox = Tail(e.inbox) /\ f.rpc = e.rpc /\ f.end = e.end
  BY <1>16, <1>17, SettledIs
<1> HIDE DEF f
<1>19. Base(f) = Base(e)
  BY <1>11, <1>12, <1>18 DEF Base
<1>20. e.rpc = "none"
  <2>1. e.rpc # "sent"
    BY <1>5, <1>14 DEF EpOk, Rpcs
  <2> QED BY <1>1, <2>1, EpFields
<1>21. \A j \in 1..Len(f.inbox) : f.inbox[j] = f.rx + j
  <2> SUFFICES ASSUME NEW j \in 1..(Len(e.inbox) - 1)
               PROVE  f.inbox[j] = e.rx + 1 + j
    BY <1>12, <1>18
  <2>1. j + 1 \in 1..Len(e.inbox) /\ j \in Nat
    BY <1>11
  <2>2. f.inbox[j] = e.inbox[j + 1]
    BY <1>12, <1>18
  <2>3. e.inbox[j + 1] = e.rx + (j + 1)
    BY <1>5, <2>1 DEF EpOk
  <2>4. \A x, y \in Nat : x + (y + 1) = x + 1 + y
    OBVIOUS
  <2>5. e.rx + (j + 1) = e.rx + 1 + j
    BY <1>11, <2>1, <2>4
  <2> QED BY <2>2, <2>3, <2>5
<1>22. EpOk(s, f, mail[s], mail[p], live)
  BY <1>5, <1>6, <1>18, <1>19, <1>20, <1>21 DEF EpOk
<1>23. /\ \A x \in 1..Len(k.in) : ~IsRequest(k.in[x])
       /\ \A j \in 1..Len(k.out) : ~IsResult(k.out[j])
  BY <1>7, <1>20 DEF CurOk, RpcOk
<1>24. SideOk(s, f, q, mail[s], mail[p], live)
  <2>1. RpcOk(s, f, k, mail[s])
    BY <1>23 DEF RpcOk
  <2>2. CurOk(s, f, k, mail[s], mail[p], live)
    BY <1>7, <1>19, <2>1 DEF CurOk
  <2> QED BY <1>1, <1>6, <1>7, <1>8, <1>18, <1>22, <2>2 DEF SideOk
<1>25. /\ ep' = [ep EXCEPT ![s] = f]
       /\ IF k.pc # "off" THEN sock' = [sock EXCEPT ![s] = [q EXCEPT ![i] = h]]
                          ELSE sock' = sock
  BY <1>3, <1>13, <1>14, <1>15
<1>26. CASE k.pc = "off"
  BY <1>1, <1>2, <1>4, <1>18, <1>24, <1>25, <1>26, OneSide DEF p
<1>27. CASE k.pc # "off"
  <2>1. a \in Input /\ a.kind = "ack" /\ a.n = m
    BY <1>12 DEF Input
  <2> HIDE DEF a
  <2>2. k \in Socket /\ a \in Input /\ h = [k EXCEPT !.in = Append(@, a)]
    BY <1>8, <1>9, <2>1
  <2>3. h \in Socket /\ h.pc = k.pc /\ h.queued = k.queued /\ h.out = k.out
        /\ Written(h) = Written(k)
    BY <2>2, FeedIs
  <2>4. /\ Len(h.in) = Len(k.in) + 1 /\ h.in[Len(k.in) + 1] = a
        /\ \A x \in 1..Len(k.in) : h.in[x] = k.in[x]
        /\ Len(k.in) \in Nat
    BY <2>2, FeedIs
  <2>5. \A x \in 1..Len(h.in) : x \in 1..Len(k.in) \/ x = Len(k.in) + 1
    BY <2>4
  <2>6. m <= Written(h)
    <3>1. Written(k) = e.rx + Len(e.inbox)
      BY <1>7, <1>27 DEF CurOk, Pushed, Base
    <3> QED BY <1>11, <1>13, <2>3, <3>1
  <2>7. InOk(h, mail[s])
    BY <1>8, <2>1, <2>3, <2>4, <2>5, <2>6 DEF InOk
  <2>8. ~IsRequest(a)
    BY <2>1 DEF IsRequest, Rpcs
  <2>9. RpcOk(s, f, h, mail[s])
    BY <1>23, <2>3, <2>4, <2>5, <2>8 DEF RpcOk
  <2>10. Pushed(h, Base(f), mail[p])
    BY <1>7, <1>19, <1>27, <2>3 DEF CurOk, Pushed
  <2>11. CurOk(s, f, h, mail[s], mail[p], live)
    BY <1>7, <1>19, <2>3, <2>9, <2>10 DEF CurOk
  <2> DEFINE r == [q EXCEPT ![i] = h]
  <2>12. r \in Seq(Socket) /\ SideOk(s, f, r, mail[s], mail[p], live)
    BY <1>1, <1>7, <1>18, <1>24, <2>3, <2>7, <2>11, OneSocket
  <2>13. sock' = [sock EXCEPT ![s] = r]
    BY <1>25, <1>27
  <2> HIDE DEF r
  <2> QED BY <1>2, <1>18, <1>25, <2>12, <2>13, OneSide DEF p
<1> QED BY <1>26, <1>27

LEMMA SocketLost_Ok ==
    ASSUME IInv, NEW s \in Side, SocketLost(s)
    PROVE  IInv'
<1> DEFINE e == ep[s]
           q == sock[s]
           p == Peer(s)
           i == ep[s].conn
           k == sock[s][i]
           f == Disconnected(e, OpOf(s, e))
           h == Unread(k)
           r == [q EXCEPT ![i] = h]
<1>1. /\ e \in Endpoint /\ q \in Seq(Socket) /\ mail[s] \in Nat /\ mail[p] \in Nat
      /\ SideOk(s, e, q, mail[s], mail[p], live)
  BY Typed
<1>2. /\ i # 0 /\ UNCHANGED Database
      /\ ep' = [ep EXCEPT ![s] = f] /\ sock' = [sock EXCEPT ![s] = r]
  BY DEF SocketLost, Up, Leaves, Op
<1>3. i \in 1..Len(q)
  BY <1>1, <1>2 DEF SideOk
<1>4. k = q[i] /\ k \in Socket /\ InOk(k, mail[s])
  BY <1>1, <1>3, ElementOfSeq DEF SideOk
<1>5. EpOk(s, e, mail[s], mail[p], live)
  BY <1>1 DEF SideOk
<1> HIDE DEF e, q, i, k, p
<1>6. h \in Socket /\ InOk(h, mail[s])
  BY <1>4, UnreadType DEF InOk
<1>7. /\ f \in Endpoint /\ f.pc = e.pc /\ f.conn = 0 /\ f.tx = e.tx
      /\ f.rx = e.rx /\ f.inbox = <<>> /\ f.rpc = "none"
      /\ f.end = e.end \/ f.end = "lost"
  <2>1. <<>> \in Seq(Nat)
    OBVIOUS
  <2> DEFINE w == IF OpOf(s, e) = "turn" /\ e.rpc = "sent" THEN "lost" ELSE e.end
  <2>2. f = [e EXCEPT !.conn = 0, !.inbox = <<>>, !.rpc = "none", !.end = w]
    BY DEF Disconnected
  <2>3. w \in {"no", "refused", "protocol", "lost"} /\ (w = e.end \/ w = "lost")
    BY <1>1, EpFields
  <2> HIDE DEF w, f
  <2>4. f \in Endpoint
    BY <1>1, <2>1, <2>2, <2>3 DEF Endpoint
  <2>5. /\ f.pc = e.pc /\ f.conn = 0 /\ f.tx = e.tx
        /\ f.rx = e.rx /\ f.inbox = <<>> /\ f.rpc = "none" /\ f.end = w
    BY <1>1, <2>2 DEF Endpoint
  <2> QED BY <2>3, <2>4, <2>5
<1> HIDE DEF f, h
<1>8. Len(f.inbox) = 0 /\ Base(f) <= mail[p]
  <2>1. Len(f.inbox) = 0 /\ e.rx \in Nat /\ Len(e.inbox) \in Nat
    BY <1>1, <1>7, EpFields
  <2>2. Base(f) = e.rx
    BY <1>7, <2>1 DEF Base
  <2>3. e.rx + Len(e.inbox) <= mail[p]
    BY <1>5 DEF EpOk, Base
  <2> QED BY <1>1, <2>1, <2>2, <2>3
<1>9. EpOk(s, f, mail[s], mail[p], live)
  BY <1>5, <1>7, <1>8 DEF EpOk, Placed
<1>10. SideOk(s, f, q, mail[s], mail[p], live)
  BY <1>1, <1>7, <1>9 DEF SideOk
<1>11. f.conn # i
  BY <1>2, <1>7 DEF i
<1>12. r \in Seq(Socket) /\ SideOk(s, f, r, mail[s], mail[p], live)
  BY <1>1, <1>3, <1>6, <1>7, <1>10, <1>11, OneSocket
<1> HIDE DEF r
<1> QED BY <1>2, <1>7, <1>12, OneSide DEF p

-----------------------------------------------------------------------------
(* The theorems *)

LEMMA InitOk ==
    ASSUME Init
    PROVE  IInv
<1>1. Fresh = Ended("no")
  BY DEF Fresh, Ended
<1>2. /\ Fresh \in Endpoint /\ Fresh.pc = 1 /\ Fresh.conn = 0 /\ Fresh.tx = 0
      /\ Fresh.rx = 0 /\ Fresh.inbox = <<>> /\ Fresh.rpc = "none"
      /\ Fresh.end = "no"
  BY <1>1, FreshIs
<1>3. Len(Fresh.inbox) = 0 /\ Base(Fresh) = 0
  BY <1>2 DEF Base
<1>4. ASSUME NEW s \in Side PROVE SideOk(s, Fresh, <<>>, 0, 0, TRUE)
  <2>1. EpOk(s, Fresh, 0, 0, TRUE)
    BY <1>2, <1>3 DEF EpOk, Placed
  <2>2. Exchanges \in Nat
    BY ConstantsAssumption
  <2>3. 1..Len(<<>>) = {}
    OBVIOUS
  <2>4. \A i \in 1..Len(<<>>) : InOk(<<>>[i], 0)
    BY <2>3
  <2>5. 0 <= Exchanges + 1
    BY <2>2
  <2> QED BY <1>2, <2>1, <2>4, <2>5, Zenon DEF SideOk
<1>5. Order
  <2> SUFFICES ASSUME NEW s \in Side
               PROVE  SideOk(s, ep[s], sock[s], mail[s], mail[Peer(s)], live)
    BY DEF Order
  <2>1. /\ ep[s] = Fresh /\ sock[s] = <<>> /\ mail[s] = 0 /\ mail[Peer(s)] = 0
        /\ live = TRUE
    BY SideFacts DEF Init
  <2> QED BY <1>4, <2>1
<1>6. <<>> \in Seq(Socket)
  OBVIOUS
<1>7. TypeOK
  BY <1>2, <1>6 DEF Init, TypeOK
<1> QED BY <1>5, <1>7 DEF IInv

LEMMA StepOk ==
    ASSUME IInv, [Next]_vars
    PROVE  IInv'
<1>1. CASE Revoke \/ Expire
  BY <1>1, Revoke_Ok
<1>2. ASSUME NEW s \in Side, Worker(s) \/ SocketLost(s)
      PROVE  IInv'
  BY <1>2, Connect_Ok, Pump_Ok, BeginRpc_Ok, Receive_Ok, SocketLost_Ok DEF Worker
<1>3. ASSUME NEW s \in Side, NEW i,
             Server(s, i) \/ WriterDone(s, i) \/ SocketStops(s, i)
      PROVE  IInv'
  BY <1>3, OwnerCatchup_Ok, OwnerTick_Ok, OwnerAck_Ok, OwnerRpc_Ok,
     WriterDone_Ok, SocketStops_Ok DEF Server
<1>4. CASE UNCHANGED vars
  BY <1>4 DEF vars, IInv, TypeOK, Order
<1> QED BY <1>1, <1>2, <1>3, <1>4 DEF Next

LEMMA Invariance == Spec => []IInv
<1>1. Init => IInv
  BY InitOk
<1>2. IInv /\ [Next]_vars => IInv'
  BY StepOk
<1> QED BY <1>1, <1>2, PTL DEF Spec

(* Every variable of the handshake keeps its type, for any window, number  *)
(* of exchanges and number of sockets.                                     *)
THEOREM TypeCorrect == Spec => []TypeOK
<1>1. IInv => TypeOK
  BY DEF IInv
<1> QED BY <1>1, Invariance, PTL

(* Whichever sockets are lost, resumed and outlived, the server turns no   *)
(* honest worker away while its session is live (409 of sendMessage, 400   *)
(* of a false ACK), and no worker meets a signal that is not the next one  *)
(* (receive_signal, ob_decode_signal).                                     *)
THEOREM NobodyTurnedAway == Spec => []NoSpuriousEnd
<1>1. IInv => NoSpuriousEnd
  BY DEF IInv, Order, SideOk, EpOk, NoSpuriousEnd
<1> QED BY <1>1, Invariance, PTL
=============================================================================
