-------------------------------- MODULE Ikcp --------------------------------
(***************************************************************************)
(* The session of a KCP socket (externals/kcp/ikcp.c, driven by ijkcp.c):  *)
(* two ikcpcb with the same conv and a network between them that loses,    *)
(* repeats and reorders.                                                   *)
(*                                                                         *)
(* ikcp_flush packs what it sends into datagrams of at most mtu bytes and  *)
(* ikcp_input takes them apart again.  Here every segment travels alone:   *)
(* the segments of one datagram are those that arrive one after the other. *)
(* The packets of one flush arrive in any order, before the node flushes   *)
(* again, but for those that the network holds back for as long as it      *)
(* likes (delayed): MaxFaults bounds them.                                 *)
(*                                                                         *)
(* Time is left out.  Whether a timer has expired (resendts, ts_probe) is  *)
(* a choice of each flush.  The retransmission that acks of later segments *)
(* provoke (fastack) comes under that choice, too, and the congestion      *)
(* window is any number: its computation only decides how many segments a  *)
(* flush may start, and leaves at least one when the first flush is over.  *)
(*                                                                         *)
(* Messages are not empty: uvKcpRecvCb never takes one that is, and those  *)
(* behind it stay where they are.                                          *)
(*                                                                         *)
(* Sequence numbers are kept in full.  The code has them modulo 2^32 and   *)
(* can only compare them by their signed difference, Diff.                 *)
(***************************************************************************)
EXTENDS Integers, Sequences, FiniteSets, SequencesExt

CONSTANTS
    Nodes,      \* the two ends
    Modulus,    \* 2^32
    SndWnd,     \* kcp->snd_wnd
    RcvWnd,     \* IKCP_WND_RCV, which is kcp->rcv_wnd
    Start,      \* the segments each node has sent, and received, before
    Plans,      \* bound: the messages the programs may send from then on, each
                \* the number of its fragments
    MaxFaults   \* bound on what the network loses, repeats and holds back

\* Half of the numbers are more than both windows together.
ASSUME IkcpAssumption ==
    /\ IsFiniteSet(Nodes) /\ Cardinality(Nodes) = 2
    /\ SndWnd \in Nat \ {0} /\ RcvWnd \in Nat \ {0}
    /\ Modulus \in Nat /\ Modulus % 2 = 0 /\ Modulus > 2 * (SndWnd + RcvWnd)
    /\ \A plan \in Plans : plan \in [Nodes -> Seq(Nat \ {0})]
    /\ Start \in Nat /\ MaxFaults \in Nat

VARIABLES
    snd_queue,  \* segments that wait for the window
    snd_buf,    \* segments that wait for their ack
    snd_nxt, snd_una,
    rmt_wnd,    \* what the peer has said of its window
    probing,    \* probe_wait is not 0
    rcv_buf,    \* segments that came before their turn
    rcv_queue,  \* segments in order, for ikcp_recv
    rcv_nxt,
    acklist,    \* numbers to acknowledge
    tell,       \* probe has IKCP_ASK_TELL
    due,        \* a datagram has come and ikcp_recv was not called for it yet
    net,        \* the packets under way
    delayed,    \* the packets that others may overtake
    sent,       \* history: the number of fragments of each message sent
    got,        \* history: the messages received
    faults

sndVars == <<snd_queue, snd_buf, snd_nxt, snd_una, rmt_wnd, probing>>
rcvVars == <<rcv_buf, rcv_queue, rcv_nxt, acklist, tell, due>>
netVars == <<net, delayed, faults>>
vars == <<sndVars, rcvVars, netVars, sent, got>>

Peer(n) == CHOOSE p \in Nodes : p # n

\* _itimediff
Diff(a, b) ==
    LET d == (a - b) % Modulus IN IF 2 * d < Modulus THEN d ELSE d - Modulus

\* ikcp_create, and a session whose first Start segments have all been received
Init ==
    /\ snd_queue = [n \in Nodes |-> <<>>]
    /\ snd_buf = [n \in Nodes |-> {}]
    /\ snd_nxt = [n \in Nodes |-> Start]
    /\ snd_una = [n \in Nodes |-> Start]
    /\ rmt_wnd = [n \in Nodes |-> RcvWnd]
    /\ probing = [n \in Nodes |-> FALSE]
    /\ rcv_buf = [n \in Nodes |-> {}]
    /\ rcv_queue = [n \in Nodes |-> <<>>]
    /\ rcv_nxt = [n \in Nodes |-> Start]
    /\ acklist = [n \in Nodes |-> {}]
    /\ tell = [n \in Nodes |-> FALSE]
    /\ due = [n \in Nodes |-> FALSE]
    /\ net = {}
    /\ delayed = {}
    /\ sent = [n \in Nodes |-> <<>>]
    /\ got = [n \in Nodes |-> <<>>]
    /\ faults = 0

-----------------------------------------------------------------------------
(* The calls of the program.                                               *)

\* The segments of message m: frg counts down to 0.
Pieces(m, c) == [i \in 1..c |-> [msg |-> m, frg |-> c - i]]

\* A message that cannot fit the receiver's window is refused.
Fits(c) == c < RcvWnd

\* ikcp_send.
Send(n, c) ==
    /\ Fits(c)
    /\ \E plan \in Plans : \A e \in Nodes :
         IsPrefix(IF e = n THEN Append(sent[n], c) ELSE sent[e], plan[e])
    /\ sent' = [sent EXCEPT ![n] = Append(@, c)]
    /\ snd_queue' = [snd_queue EXCEPT ![n] = @ \o Pieces(Len(sent[n]) + 1, c)]
    /\ UNCHANGED <<snd_buf, snd_nxt, snd_una, rmt_wnd, probing, rcvVars, netVars, got>>

\* Mutant: a gap of one is not seen.
TurnLater(buf, sn) == {s \in buf : Diff(s.sn, sn) \in 0..1}

\* The segment whose turn it is
Turn(buf, sn) == {s \in buf : Diff(s.sn, sn) = 0}

\* Mutant: the queue takes all there is.
RunUnlimited(buf, queue, nxt) ==
    {i \in 1..Cardinality(buf) : \A j \in 1..i : Turn(buf, nxt + j - 1) # {}}

\* How far the segments in buf continue the queue, as long as it has room
Run(buf, queue, nxt) ==
    {i \in 1..(RcvWnd - Len(queue)) : \A j \in 1..i : Turn(buf, nxt + j - 1) # {}}

\* The loop at the end of ikcp_parse_data and of ikcp_recv: rcv_buf -> rcv_queue.
Move(n, buf, queue) ==
    LET nxt == rcv_nxt[n]
        k == Cardinality(Run(buf, queue, nxt))
        moved == [i \in 1..k |-> CHOOSE s \in Turn(buf, nxt + i - 1) : TRUE]
    IN  /\ rcv_buf' = [rcv_buf EXCEPT ![n] = buf \ {moved[i] : i \in 1..k}]
        /\ rcv_queue' = [rcv_queue EXCEPT ![n] = queue \o [i \in 1..k |->
                            [msg |-> moved[i].msg, frg |-> moved[i].frg]]]
        /\ rcv_nxt' = [rcv_nxt EXCEPT ![n] = nxt + k]

\* ikcp_peeksize: the message at the head is complete.
Complete(queue) == queue # <<>> /\ Len(queue) >= queue[1].frg + 1

\* The number of segments up to the last fragment.
Size(queue) ==
    CHOOSE k \in DOMAIN queue : queue[k].frg = 0 /\ \A i \in 1..(k - 1) : queue[i].frg # 0

\* The queue was full and is no more.
Recovers(queue, left) == Len(queue) >= RcvWnd /\ Len(left) < RcvWnd

\* ikcp_recv, which uvKcpRecvCb calls at most once, at the end of a datagram.
\* recv() itself does not look at the queue.
Recv(n) ==
    /\ due[n]
    /\ due' = [due EXCEPT ![n] = FALSE]
    /\ Complete(rcv_queue[n])
    /\ LET queue == rcv_queue[n]
           k == Size(queue)
       IN  /\ got' = [got EXCEPT ![n] = Append(@, SubSeq(queue, 1, k))]
           /\ Move(n, rcv_buf[n], SubSeq(queue, k + 1, Len(queue)))
           /\ tell' = [tell EXCEPT ![n] = @ \/ Recovers(queue, rcv_queue'[n])]
    /\ UNCHANGED <<sndVars, acklist, netVars, sent>>

-----------------------------------------------------------------------------
(* ikcp_flush, called by ikcp_update from the idle handle of the KCP.      *)

\* ikcp_wnd_unused.
Unused(n) == IF Len(rcv_queue[n]) < RcvWnd THEN RcvWnd - Len(rcv_queue[n]) ELSE 0

\* ikcp_encode_seg.
Packet(n, cmd, s) ==
    [to |-> Peer(n), cmd |-> cmd, sn |-> s.sn, msg |-> s.msg, frg |-> s.frg,
     una |-> rcv_nxt[n], wnd |-> Unused(n)]

Control(n, cmd, sn) == Packet(n, cmd, [sn |-> sn, msg |-> 0, frg |-> 0])

\* The segments of snd_queue that the window allows.
Window(n, cwnd) ==
    {i \in DOMAIN snd_queue[n] :
        \A j \in 1..i : Diff(snd_nxt[n] + j - 1, snd_una[n] + cwnd) < 0}

Least(a, b) == IF a < b THEN a ELSE b

\* The remote window is 0 and the timer of the probe has expired.
Asks(n, expired) == rmt_wnd[n] = 0 /\ probing[n] /\ expired

\* cwnd is the congestion window and late the segments that are retransmitted.
Flush(n, cwnd, late, expired) ==
    LET w == Least(cwnd, Least(SndWnd, rmt_wnd[n]))
        k == Cardinality(Window(n, w))
        new == {[sn |-> snd_nxt[n] + i - 1, msg |-> snd_queue[n][i].msg,
                 frg |-> snd_queue[n][i].frg] : i \in 1..k}
        out == {Control(n, "ack", sn) : sn \in acklist[n]}
               \union (IF Asks(n, expired) THEN {Control(n, "wask", 0)} ELSE {})
               \union (IF tell[n] THEN {Control(n, "wins", 0)} ELSE {})
               \union {Packet(n, "push", s) : s \in new \union late}
    IN  /\ \A p \in net : p.to = n
        /\ late \subseteq snd_buf[n]
        /\ net' = net \union out
        /\ acklist' = [acklist EXCEPT ![n] = {}]
        /\ tell' = [tell EXCEPT ![n] = FALSE]
        /\ probing' = [probing EXCEPT ![n] = rmt_wnd[n] = 0]
        /\ snd_queue' = [snd_queue EXCEPT ![n] = SubSeq(@, k + 1, Len(@))]
        /\ snd_buf' = [snd_buf EXCEPT ![n] = @ \union new]
        /\ snd_nxt' = [snd_nxt EXCEPT ![n] = @ + k]
        /\ UNCHANGED <<snd_una, rmt_wnd, rcv_buf, rcv_queue, rcv_nxt, due, delayed, faults, sent, got>>

-----------------------------------------------------------------------------
(* ikcp_input.                                                             *)

\* ikcp_shrink_buf.
Oldest(buf, nxt) ==
    IF buf = {} THEN nxt
    ELSE (CHOOSE s \in buf : \A t \in buf : Diff(s.sn, t.sn) <= 0).sn

\* Mutant: numbers are compared as they are.
ParseUnaPlain(buf, una) == {s \in buf : una % Modulus <= s.sn % Modulus}

\* ikcp_parse_una.
ParseUna(buf, una) == {s \in buf : Diff(una, s.sn) <= 0}

\* ikcp_parse_ack.
ParseAck(buf, una, nxt, sn) ==
    IF Diff(sn, una) < 0 \/ Diff(sn, nxt) >= 0 THEN buf
    ELSE {s \in buf : Diff(s.sn, sn) # 0}

Acknowledge(p) ==
    LET n == p.to
        buf == ParseUna(snd_buf[n], p.una)
        left == IF p.cmd = "ack"
                THEN ParseAck(buf, Oldest(buf, snd_nxt[n]), snd_nxt[n], p.sn) ELSE buf
    IN  /\ snd_buf' = [snd_buf EXCEPT ![n] = left]
        /\ snd_una' = [snd_una EXCEPT ![n] = Oldest(left, snd_nxt[n])]
        /\ rmt_wnd' = [rmt_wnd EXCEPT ![n] = p.wnd]

\* The segment is not beyond the window: it is acknowledged, old or new.
Ackable(n, sn) == Diff(sn, rcv_nxt[n] + RcvWnd) < 0

\* The segment has not been moved to the queue.
IsNew(n, sn) == Ackable(n, sn) /\ Diff(sn, rcv_nxt[n]) >= 0

\* ikcp_parse_data.
ParseData(p) ==
    LET n == p.to
        buf == rcv_buf[n]
        seg == [sn |-> p.sn, msg |-> p.msg, frg |-> p.frg]
    IN  IF p.cmd = "push" /\ IsNew(n, p.sn)
        THEN Move(n, IF \E s \in buf : Diff(s.sn, p.sn) = 0 THEN buf ELSE buf \union {seg},
                  rcv_queue[n])
        ELSE UNCHANGED <<rcv_buf, rcv_queue, rcv_nxt>>

\* Mutant: a question for the window is not answered.
AnswersNot(p) == FALSE

\* IKCP_CMD_WASK.
Answers(p) == p.cmd = "wask"

\* The network keeps no packet whose numbers are half a cycle old.
Fresh(p) ==
    /\ 2 * (snd_nxt[p.to] - p.una) < Modulus
    /\ p.cmd = "ack" => 2 * (snd_nxt[p.to] - p.sn) < Modulus
    /\ p.cmd = "push" => 2 * (rcv_nxt[p.to] + RcvWnd - p.sn) < Modulus

\* uvKcpRecvCb: a packet arrives.
Input(p) ==
    /\ p \in net \union delayed
    /\ Fresh(p)
    /\ net' = net \ {p}
    /\ delayed' = delayed \ {p}
    /\ Acknowledge(p)
    /\ ParseData(p)
    /\ acklist' = [acklist EXCEPT ![p.to] =
                     IF p.cmd = "push" /\ Ackable(p.to, p.sn) THEN @ \union {p.sn} ELSE @]
    /\ tell' = [tell EXCEPT ![p.to] = @ \/ Answers(p)]
    /\ due' = [due EXCEPT ![p.to] = TRUE]
    /\ UNCHANGED <<snd_queue, snd_nxt, probing, sent, got, faults>>

\* The network holds a packet back, or one more copy of it.
Delay(p, copy) ==
    /\ p \in net
    /\ faults < MaxFaults
    /\ faults' = faults + 1
    /\ net' = IF copy THEN net ELSE net \ {p}
    /\ delayed' = delayed \union {p}
    /\ UNCHANGED <<sndVars, rcvVars, sent, got>>

\* The network loses a packet, or forgets an old one.
Lose(p) ==
    /\ p \in net \union delayed
    /\ faults' = IF Fresh(p) THEN faults + 1 ELSE faults
    /\ faults' <= MaxFaults
    /\ net' = net \ {p}
    /\ delayed' = delayed \ {p}
    /\ UNCHANGED <<sndVars, rcvVars, sent, got>>

Next ==
    \/ \E n \in Nodes :
         \/ \E c \in UNION {{plan[n][i] : i \in DOMAIN plan[n]} : plan \in Plans} : Send(n, c)
         \/ Recv(n)
         \/ \E cwnd \in 0..SndWnd, late \in SUBSET snd_buf[n], expired \in BOOLEAN :
              Flush(n, cwnd, late, expired)
    \/ \E p \in net \union delayed :
         Input(p) \/ Lose(p) \/ \E copy \in BOOLEAN : Delay(p, copy)

Spec == Init /\ [][Next]_vars

\* The idle handle goes on calling ikcp_update, and every timer expires in the
\* end; the program always has a recv() pending, without which no datagram is read,
\* so that a packet that is not lost arrives and ikcp_recv is called after it.
FairSpec ==
    /\ Spec
    /\ \A n \in Nodes :
         /\ WF_vars(\E cwnd \in 1..SndWnd : Flush(n, cwnd, snd_buf[n], TRUE))
         /\ WF_vars(Recv(n))
         /\ WF_vars(\E p \in net : p.to = n /\ Input(p))

-----------------------------------------------------------------------------
(* Properties.                                                             *)

Payload == [msg : Nat, frg : Nat]
Segment == [sn : Nat, msg : Nat, frg : Nat]

TypeOK ==
    /\ snd_queue \in [Nodes -> Seq(Payload)] /\ rcv_queue \in [Nodes -> Seq(Payload)]
    /\ \A n \in Nodes : snd_buf[n] \subseteq Segment /\ rcv_buf[n] \subseteq Segment
    /\ {snd_nxt, snd_una, rcv_nxt} \subseteq [Nodes -> Nat]
    /\ rmt_wnd \in [Nodes -> 0..RcvWnd]
    /\ {probing, tell, due} \subseteq [Nodes -> BOOLEAN]
    /\ \A n \in Nodes : acklist[n] \subseteq Nat
    /\ net \union delayed \subseteq [to : Nodes, cmd : {"push", "ack", "wask", "wins"}, sn : Nat, msg : Nat,
                               frg : Nat, una : Nat, wnd : 0..RcvWnd]
    /\ sent \in [Nodes -> Seq(Nat)]
    /\ got \in [Nodes -> Seq(Seq(Payload))]
    /\ faults \in 0..MaxFaults

\* The messages that ikcp_recv returns are those that ikcp_send was given, whole,
\* once each and in the same order, whatever the network does.
DeliveredInOrder ==
    \A n \in Nodes :
        LET s == sent[Peer(n)]
        IN  Len(got[n]) <= Len(s) /\ \A m \in DOMAIN got[n] : got[n][m] = Pieces(m, s[m])

\* A segment is forgotten by the sender only when the receiver has it: an ack, of
\* the segment or of all before una, is never believed too early.
AckedIsReceived ==
    \A n \in Nodes : \A sn \in Start..(snd_nxt[n] - 1) :
        \/ \E s \in snd_buf[n] : s.sn = sn
        \/ sn < rcv_nxt[Peer(n)]
        \/ \E s \in rcv_buf[Peer(n)] : s.sn = sn

\* Neither end stores more than its window, although the peer's idea of it may be
\* old.
WindowKept ==
    \A n \in Nodes :
        /\ Len(rcv_queue[n]) <= RcvWnd
        /\ Cardinality(rcv_buf[n]) <= RcvWnd
        /\ snd_nxt[n] - snd_una[n] <= SndWnd

\* Types, and the windows.
Inv == TypeOK /\ WindowKept

\* Between two programs that always have a recv() pending, every segment reaches
\* the other end and is acknowledged, also when the receiver's window was closed
\* and the packet that said it is open again was lost.  It is not said that the
\* program gets every message: a datagram makes it get one, and a second message
\* that the last datagram completed stays in rcv_queue.
Arrives == []<>(\A n \in Nodes : snd_queue[n] = <<>> /\ snd_buf[n] = {})
=============================================================================
