-------------------------------- MODULE Tcp --------------------------------
(***************************************************************************)
(* The TCP server of lib-network as the HTTP daemon uses it: the control   *)
(* blocks, the retransmission queues and the transmit queues of the        *)
(* connections, and the pool of memory blocks that they share.             *)
(*                                                                         *)
(* Lengths are counted in segments: a unit of data has one sequence        *)
(* number, as SYN and FIN have, and both sides start at 0.  What the peer  *)
(* has sent can arrive at any time, again and out of order, or never, and  *)
(* so can what is sent to it.  A segment that the receive window does not  *)
(* take, or whose control block is free again, changes nothing: it is      *)
(* answered with an acknowledgement or a reset.                            *)
(***************************************************************************)
EXTENDS Integers, Sequences, FiniteSets

CONSTANTS
  TCP_MAX_TCBS_ALLOWED,
  kBlocks,           \* of network::memory::Allocator
  kTcpUnackMax,      \* entries of a retransmission queue
  kTcpRtxMaxRetry,
  kAdvertisedRxWnd,  \* the receive window, in segments of the peer
  Windows,           \* bound: the windows that peers announce
  MaxUnits,          \* bound: units of data that a peer sends before its FIN
  MaxContent,        \* bound: units of the content of an HTTP reply
  MaxSend            \* bound: sequence numbers that a connection sends

ASSUME TcpAssumption ==
  /\ TCP_MAX_TCBS_ALLOWED \in Nat \ {0} /\ kBlocks \in Nat \ {0}
  /\ kTcpUnackMax \in Nat \ {0} /\ kTcpRtxMaxRetry \in Nat
  /\ kAdvertisedRxWnd \in Nat \ {0}
  /\ Windows \subseteq Nat /\ MaxUnits \in Nat /\ MaxContent \in Nat
  /\ MaxSend \in Nat \ {0, 1} \* a SYN and a FIN

VARIABLES
  tcb,    \* s_tcbs, each with what its peer sends
  free,   \* free_mask_ of the pool
  halted  \* ghost: GetFront has followed a null pointer; what comes then is undefined

vars == <<tcb, free, halted>>

Tcbs    == 1 .. TCP_MAX_TCBS_ALLOWED
Blocks  == 0 .. kBlocks - 1
NoBlock == kBlocks \* UINT16_MAX
States  == {"closed", "synReceived", "established", "closeWait", "lastAck"}
Closed  == [state |-> "closed"]

RtxSeg  == [seq : 0 .. MaxSend, block : Blocks \cup {NoBlock}, retries : 0 .. kTcpRtxMaxRetry]
TcbType ==
  [state : States \ {"closed"}, una : 0 .. MaxSend, nxt : 0 .. MaxSend,
   rcv : 1 .. MaxUnits + 2, wnd : Nat,
   rtx : Seq(RtxSeg), queue : Seq(Blocks),
   full : BOOLEAN,                  \* full_ of the transmit queue
   units : 0 .. MaxUnits,           \* the data of the peer, before its FIN
   given : Seq(1 .. MaxUnits)]      \* ghost: the units given to the application

InUse(i) == tcb[i].state # "closed"
Min2(a, b) == IF a < b THEN a ELSE b
Max2(a, b) == IF a < b THEN b ELSE a

-----------------------------------------------------------------------------
(* The pool, and the queues that hold its blocks. *)

\* Allocate, n times: the free blocks with the lowest numbers, then none.
Below(pool, b)   == Cardinality({c \in pool : c < b})
Lowest(pool, j)  == CHOOSE b \in pool : Below(pool, b) = j - 1
Allocated(pool, n) ==
  [j \in 1 .. n |-> IF j <= Cardinality(pool) THEN Lowest(pool, j) ELSE NoBlock]

Elements(seq) == {seq[j] : j \in 1 .. Len(seq)}
BlocksOf(rtx) == {rtx[j].block : j \in 1 .. Len(rtx)} \ {NoBlock}

\* SendSegment tracks a segment that consumes sequence numbers while there is
\* room; the payload of data is copied into a block.
Tracked(t, blocks) ==
  [t EXCEPT !.rtx = @ \o [j \in 1 .. Len(blocks) |->
                            [seq |-> t.nxt + j - 1, block |-> blocks[j], retries |-> 0]],
            !.nxt = @ + Len(blocks)]

Room(t) == kTcpUnackMax - Len(t.rtx)

\* n calls of SendData: data beyond the room of the retransmission queue is
\* sent and not kept.
DataBlocks(t, pool, n) == Allocated(pool, Min2(n, Room(t)))

SendData(t, blocks, n) ==
  [Tracked(t, blocks) EXCEPT !.nxt = t.nxt + n, !.wnd = t.wnd - n]

\* A segment with SYN or FIN and no data.
SendControlUntracked(t) == [t EXCEPT !.nxt = @ + 1] \* mutant: nothing resends it

SendControl(t) ==
  IF Room(t) > 0 THEN Tracked(t, <<NoBlock>>) ELSE [t EXCEPT !.nxt = @ + 1]

\* RtxOnAck takes the entries up to the acknowledgement from the front.
AckedEntries(t, ack) ==
  CHOOSE n \in 0 .. Len(t.rtx) : /\ \A j \in 1 .. n : t.rtx[j].seq < ack
                                 /\ n < Len(t.rtx) => t.rtx[n + 1].seq >= ack

RtxOnAckKeepsEntry(t, ack) == [t EXCEPT !.una = ack] \* mutant: freed but not removed

RtxOnAck(t, ack) ==
  [t EXCEPT !.una = ack, !.rtx = SubSeq(@, AckedEntries(t, ack) + 1, Len(@))]

FreedBy(t, ack) == BlocksOf(SubSeq(t.rtx, 1, AckedEntries(t, ack)))

-----------------------------------------------------------------------------
Init ==
  /\ tcb = [i \in Tcbs |-> Closed]
  /\ free = Blocks
  /\ halted = FALSE

Works == ~ halted

Put(i, t, pool) == tcb' = [tcb EXCEPT ![i] = t] /\ free' = pool /\ UNCHANGED halted

Halt == halted' = TRUE /\ UNCHANGED <<tcb, free>>

\* FreeTcb: the retransmission queue goes back to the pool, the blocks of the
\* transmit queue are forgotten.
FreeTcb(i, t, pool) == Put(i, Closed, pool \cup BlocksOf(t.rtx))

\* Send: n units go out at once when all fit into the window, or else as many as
\* the pool has room for are queued; while something is queued they are refused.
SendsNow(t, n) == n <= t.wnd
Refused(t)     == t.queue # <<>> \/ t.full

\* The connection and the pool after a call of Send.
AfterSend(t, pool, n) ==
  IF n = 0 \/ (~ SendsNow(t, n) /\ Refused(t)) THEN [tcb |-> t, pool |-> pool]
  ELSE IF SendsNow(t, n)
    THEN LET blocks == DataBlocks(t, pool, n)
         IN [tcb |-> SendData(t, blocks, n), pool |-> pool \ Elements(blocks)]
    ELSE LET nodes == Allocated(pool, Min2(n, Cardinality(pool)))
         IN [tcb  |-> [t EXCEPT !.queue = nodes, !.full = Len(nodes) < n],
             pool |-> pool \ Elements(nodes)]

-----------------------------------------------------------------------------
(* Run: one turn of its loop over the control blocks. *)

CloseDue(t) == IF t.state = "closeWait"
                 THEN [SendControl(t) EXCEPT !.state = "lastAck"] ELSE t

\* The queue is sent as far as the window allows, also behind the FIN.  A node is
\* freed after its data has been copied to another block.
FlushFront(c) ==
  LET blocks == DataBlocks(c.tcb, c.pool, 1)
  IN [tcb  |-> [SendData(c.tcb, blocks, 1) EXCEPT !.queue = Tail(@), !.full = FALSE],
      pool |-> (c.pool \ Elements(blocks)) \cup {Head(c.tcb.queue)}]

\* The connection and the pool after n nodes.
Flushes(t, pool) ==
  LET f[n \in 0 .. Len(t.queue)] ==
        IF n = 0 THEN [tcb |-> t, pool |-> pool] ELSE FlushFront(f[n - 1])
  IN f

Flush(t, pool) == Flushes(t, pool)[Min2(t.wnd, Len(t.queue))]

\* The oldest segment is sent again, for the last time when it drops the connection.
RetransmitForever(i, t, pool) == Put(i, [t EXCEPT !.rtx[1].retries = @ + 1], pool) \* mutant

Retransmit(i, t, pool) ==
  IF t.rtx[1].retries = kTcpRtxMaxRetry
    THEN FreeTcb(i, t, pool)
    ELSE Put(i, [t EXCEPT !.rtx[1].retries = @ + 1], pool)

\* due: the retransmission timer has expired; it runs while something is tracked.
Run(i, due) ==
  /\ Works /\ InUse(i)
  /\ due => tcb[i].rtx # <<>>
  /\ LET c == CloseDue(tcb[i])
         f == Flush(c, free)
     IN IF c.full /\ c.queue = <<>> THEN Halt
        ELSE IF due THEN Retransmit(i, f.tcb, f.pool)
        ELSE Put(i, f.tcb, f.pool)

-----------------------------------------------------------------------------
(* Input: a segment arrives. *)

\* A SYN for the port of the listener takes the first free control block; when
\* there is none it is reset.
InputSyn ==
  /\ Works
  /\ \E i \in Tcbs :
       /\ ~ InUse(i) /\ \A j \in Tcbs : j < i => InUse(j)
       /\ \E units \in 0 .. MaxUnits :
            Put(i, SendControl([state |-> "synReceived", una |-> 0, nxt |-> 0, rcv |-> 1,
                                wnd |-> 0, rtx |-> <<>>, queue |-> <<>>, full |-> FALSE,
                                units |-> units, given |-> <<>>]), free)

\* A reset frees the control block, in the window or not, in every state.
InputReset(i) == Works /\ InUse(i) /\ FreeTcb(i, tcb[i], free)

\* What can arrive from the peer of t: data, with the FIN when it is the last, a
\* FIN alone or an acknowledgement, new or old.  An acknowledgement of less than
\* una changes nothing, and the number of a segment without text and FIN matters
\* to the window only.
Segments(t) ==
  {s \in [seq : t.rcv .. t.units + 2, len : 0 .. 1, fin : BOOLEAN, ack : Max2(1, t.una) .. t.nxt,
          wnd : Windows] :
     /\ s.len = 1 => s.seq <= t.units
     /\ s.fin => s.seq + s.len = t.units + 1
     /\ s.len = 0 /\ ~ s.fin => s.seq = t.rcv}

Acceptable(t, seg) == seg.seq \in t.rcv .. t.rcv + kAdvertisedRxWnd - 1

\* SYN-RECEIVED: only the acknowledgement counts, text and FIN are left to the
\* next transmission.
Handshake(i, seg) ==
  LET t == tcb[i]
  IN /\ t.state = "synReceived"
     /\ seg.ack \in t.una .. t.nxt
     /\ Put(i, [RtxOnAck(t, seg.ack) EXCEPT !.state = "established", !.wnd = seg.wnd],
            free \cup FreedBy(t, seg.ack))

\* LAST-ACK: nothing is taken from the retransmission queue.
LastAck(i, seg) ==
  LET t == tcb[i]
  IN /\ t.state = "lastAck"
     /\ IF seg.ack = t.nxt THEN FreeTcb(i, t, free)
        ELSE Put(i, IF seg.fin THEN [t EXCEPT !.rcv = @ + 1] ELSE t, free)

\* ESTABLISHED and CLOSE-WAIT: newer is whether WL1 and WL2 let the segment
\* update the window.
Acked(t, pool, seg, newer) ==
  LET w == IF newer /\ seg.ack >= t.una THEN [t EXCEPT !.wnd = seg.wnd] ELSE t
  IN IF seg.ack \in t.una + 1 .. t.nxt
       THEN [tcb |-> RtxOnAck(w, seg.ack), pool |-> pool \cup FreedBy(w, seg.ack)]
       ELSE [tcb |-> w, pool |-> pool]

\* The FIN moves rcv by one and closes the connection, also when data before it
\* is missing.
FinSeen(t, seg) ==
  IF ~ seg.fin THEN t
  ELSE [t EXCEPT !.rcv = @ + 1, !.state = IF @ = "established" THEN "closeWait" ELSE @]

\* HandleRequest answers with a header of one unit and then the content, and does
\* not look at what Send returns.
Reply(i, t, pool, seg) ==
  \E n \in 0 .. MaxContent :
    LET header == AfterSend(t, pool, 1)
        both   == AfterSend(header.tcb, header.pool, n)
    IN /\ t.nxt + Len(t.queue) + n + 2 <= MaxSend
       /\ Put(i, FinSeen(both.tcb, seg), both.pool)

\* Text at rcv goes to the application, which waits for more, answers or aborts.
TextIsNextAlways(t, seg) == TRUE \* mutant: text is taken as it comes
TextIsNext(t, seg) == seg.seq = t.rcv

Text(i, t, pool, seg) ==
  IF ~ TextIsNext(t, seg) THEN Put(i, t, pool)
  ELSE LET g == [t EXCEPT !.rcv = @ + 1, !.given = Append(@, seg.seq)]
       IN \/ Put(i, FinSeen(g, seg), pool)
          \/ Reply(i, g, pool, seg)
          \/ FreeTcb(i, g, pool)

Data(i, seg) ==
  /\ tcb[i].state \in {"established", "closeWait"}
  /\ \E newer \in BOOLEAN :
       LET a == Acked(tcb[i], free, seg, newer)
       IN IF a.tcb.state = "established" /\ seg.len = 1
            THEN Text(i, a.tcb, a.pool, seg)
            ELSE Put(i, FinSeen(a.tcb, seg), a.pool)

Input(i) ==
  /\ Works /\ InUse(i)
  /\ \E seg \in Segments(tcb[i]) :
       /\ Acceptable(tcb[i], seg)
       /\ Handshake(i, seg) \/ LastAck(i, seg) \/ Data(i, seg)

-----------------------------------------------------------------------------
Next ==
  \/ InputSyn
  \/ \E i \in Tcbs : \/ InputReset(i) \/ Input(i)
                     \/ \E due \in BOOLEAN : Run(i, due)

\* The superloop calls Run again and again, and time passes: a retransmission
\* timer that runs expires.  Nothing is assumed about the peers.
Fairness == \A i \in Tcbs : WF_vars(Run(i, FALSE)) /\ WF_vars(Run(i, TRUE))

Spec     == Init /\ [][Next]_vars
FairSpec == Spec /\ Fairness

-----------------------------------------------------------------------------
(* Properties. *)

\* Type invariant: sequence numbers stay within the bound and the queues hold
\* entries of their arrays (Tcb, RtxQueue, Queue).
TypeOK ==
  /\ \A i \in Tcbs : InUse(i) => /\ tcb[i] \in TcbType
                                 /\ Len(tcb[i].rtx) <= kTcpUnackMax
                                 /\ tcb[i].una <= tcb[i].nxt
  /\ free \subseteq Blocks
  /\ halted \in BOOLEAN

\* The application gets what the peer sent, once and in order, however segments
\* are lost, repeated and reordered (the text part of Input).
InOrder ==
  \A i \in Tcbs : InUse(i) => tcb[i].given = [k \in 1 .. Len(tcb[i].given) |-> k]

\* A block of the pool has one owner: an entry of one retransmission queue, a
\* node of one transmit queue or the pool itself (Allocate and Free along
\* acknowledgements, drops, flushes and closes).
Holds(i, queue, k, b) ==
  /\ InUse(i)
  /\ \/ queue = "rtx" /\ k <= Len(tcb[i].rtx) /\ tcb[i].rtx[k].block = b
     \/ queue = "queue" /\ k <= Len(tcb[i].queue) /\ tcb[i].queue[k] = b

Owners(b) == {o \in Tcbs \X {"rtx", "queue"} \X (1 .. kBlocks + kTcpUnackMax) :
                Holds(o[1], o[2], o[3], b)}

OwnedOnce ==
  \A b \in Blocks : Cardinality(Owners(b)) + (IF b \in free THEN 1 ELSE 0) <= 1

\* A connection that is half open or half closed does not keep its control block
\* for ever, even when its peer has gone: the retransmissions of SYN and FIN end
\* it (Run).  There are only TCP_MAX_TCBS_ALLOWED of them.
HalfConnectionsEnd ==
  \A i \in Tcbs :
    tcb[i].state \in {"synReceived", "closeWait", "lastAck"}
      ~> tcb[i].state \in {"established", "closed"} \/ ~ Works

\* "assert(front_ != nullptr)": Run looks at the front of a transmit queue only
\* when there is one.
FrontExists == ~ halted
=============================================================================
