----------------------------- MODULE TcpProofs ------------------------------
(***************************************************************************)
(* For every number of connections, size of the pool, of the queues and of *)
(* the windows, and whatever peers and network do: the application reads   *)
(* in order, and a block of the pool has one owner.                        *)
(*                                                                         *)
(* Each operation of a connection is shown to leave the connection sound   *)
(* (Conn), and to take the blocks it then holds from those that it had or  *)
(* that were free (Moved), so that the others keep theirs.                 *)
(***************************************************************************)
EXTENDS Tcp, TLAPS, WellFoundedInduction, FiniteSetTheorems, SequenceTheorems

\* What a connection has still to send takes one sequence number for its FIN.
FinLeft(t) == IF t.state = "lastAck" THEN 0 ELSE 1

Conn(t) ==
  /\ t \in TcbType
  /\ Len(t.rtx) <= kTcpUnackMax
  /\ t.una <= t.nxt
  /\ t.nxt + Len(t.queue) + FinLeft(t) <= MaxSend
  /\ t.rcv <= t.units + 2
  /\ t.state \in {"synReceived", "established"} => t.rcv = Len(t.given) + 1
  /\ \A k \in 1 .. Len(t.given) : t.given[k] = k

BlocksIn(t) == BlocksOf(t.rtx) \cup Elements(t.queue)

\* No block twice in the queues of a connection.
Single(t) ==
  /\ \A j, k \in 1 .. Len(t.rtx) :
       t.rtx[j].block = t.rtx[k].block /\ t.rtx[j].block # NoBlock => j = k
  /\ \A j, k \in 1 .. Len(t.queue) : t.queue[j] = t.queue[k] => j = k
  /\ BlocksOf(t.rtx) \cap Elements(t.queue) = {}

Clean(t, pool) == Single(t) /\ pool \subseteq Blocks /\ pool \cap BlocksIn(t) = {}

\* Blocks only move between the connection and the pool.
Moved(t, pool, u, after) ==
  Clean(u, after) /\ BlocksIn(u) \cup after \subseteq BlocksIn(t) \cup pool

Have(i) == IF InUse(i) THEN BlocksIn(tcb[i]) ELSE {}

IInv ==
  /\ tcb = [i \in Tcbs |-> tcb[i]]
  /\ \A i \in Tcbs : InUse(i) => Conn(tcb[i]) /\ Clean(tcb[i], free)
  /\ \A i, j \in Tcbs : i # j => Have(i) \cap Have(j) = {}
  /\ free \subseteq Blocks
  /\ halted \in BOOLEAN

-----------------------------------------------------------------------------
(* The pool. *)

\* A set of naturals that is not empty has a least element.
LEMMA Least ==
  ASSUME NEW S \in SUBSET Nat, S # {} PROVE \E m \in S : \A k \in S : m <= k
<1>1. \E m \in S : \A k \in S : ~ (<<k, m>> \in OpToRel(<, Nat))
  BY NatLessThanWellFounded, WFMin
<1>2. PICK m \in S : \A k \in S : ~ (<<k, m>> \in OpToRel(<, Nat))
  BY <1>1
<1>3. ASSUME NEW k \in S PROVE m <= k
  <2>1. ~ (k < m)
    BY <1>2 DEF OpToRel
  <2>2. QED  BY <2>1
<1>4. QED  BY <1>3

LEMMA Pool ==
  ASSUME NEW pool \in SUBSET Blocks
  PROVE  IsFiniteSet(pool) /\ Cardinality(pool) \in Nat /\ kBlocks \in Nat /\ pool \subseteq Nat
<1>1. kBlocks \in Nat
  BY TcpAssumption
<1>2. IsFiniteSet(Blocks)
  BY <1>1, FS_Interval DEF Blocks
<1>3. IsFiniteSet(pool) /\ Cardinality(pool) \in Nat
  BY <1>2, FS_Subset, FS_CardinalityType
<1>4. pool \subseteq Nat
  BY <1>1 DEF Blocks
<1>5. QED  BY <1>1, <1>3, <1>4

\* In a pool of j blocks or more there is a j-th lowest one.
LEMMA LowestExists ==
  ASSUME NEW pool \in SUBSET Blocks, NEW j \in 1 .. Cardinality(pool)
  PROVE  Lowest(pool, j) \in pool /\ Below(pool, Lowest(pool, j)) = j - 1
<1> DEFINE Part(x) == {c \in pool : c < x}
           S == {x \in 0 .. kBlocks : Cardinality(Part(x)) >= j}
<1>1. \A x : IsFiniteSet(Part(x)) /\ Cardinality(Part(x)) \in Nat
  BY Pool, FS_Subset, FS_CardinalityType
<1>2. Part(kBlocks) = pool /\ Part(0) = {}
  <2>1. kBlocks \in Nat /\ \A c \in pool : c \in Nat /\ c < kBlocks
    BY Pool DEF Blocks
  <2>2. \A c \in pool : ~ (c < 0)
    BY <2>1
  <2>3. QED  BY <2>1, <2>2
<1>3. kBlocks \in S /\ S \subseteq Nat
  BY <1>2, Pool
<1>4. PICK m \in S : \A k \in S : m <= k
  BY <1>3, Least
<1>5. m # 0 /\ m - 1 \in 0 .. kBlocks
  BY <1>2, <1>4, FS_EmptySet, Pool
<1>6. Cardinality(Part(m - 1)) < j /\ Cardinality(Part(m)) >= j
  BY <1>1, <1>4, <1>5
<1>7. m - 1 \in pool
  <2>1. SUFFICES ASSUME m - 1 \notin pool PROVE Part(m) = Part(m - 1)
    BY <1>6, <1>1
  <2>2. \A c \in pool : c < m <=> c < m - 1
    BY <1>5, <2>1, Pool
  <2>3. QED  BY <2>2
<1>8. Part(m) = Part(m - 1) \cup {m - 1} /\ m - 1 \notin Part(m - 1)
  BY <1>5, <1>7, Pool
<1>9. Cardinality(Part(m)) = Cardinality(Part(m - 1)) + 1
  BY <1>1, <1>8, FS_AddElement
<1>10. Below(pool, m - 1) = j - 1
  <2>1. Below(pool, m - 1) = Cardinality(Part(m - 1))
    BY DEF Below
  <2>2. Cardinality(Part(m - 1)) \in Nat
    BY <1>1
  <2> HIDE DEF Part
  <2>3. QED  BY <1>6, <1>9, <2>1, <2>2
<1>11. QED  BY <1>7, <1>10 DEF Lowest

LEMMA AllocatedSound ==
  ASSUME NEW pool \in SUBSET Blocks, NEW n \in Nat
  PROVE  LET a == Allocated(pool, n) IN
         /\ a \in Seq(Blocks \cup {NoBlock}) /\ Len(a) = n
         /\ \A j \in 1 .. n : a[j] \in pool \cup {NoBlock}
         /\ \A j \in 1 .. n : j <= Cardinality(pool) => a[j] \in pool
         /\ \A j, k \in 1 .. n : a[j] = a[k] /\ a[j] # NoBlock => j = k
<1> DEFINE a == Allocated(pool, n)
<1>1. a = [j \in 1 .. n |-> IF j <= Cardinality(pool) THEN Lowest(pool, j) ELSE NoBlock]
  BY DEF Allocated
<1>2. \A j \in 1 .. n : j <= Cardinality(pool) =>
        a[j] = Lowest(pool, j) /\ a[j] \in pool /\ Below(pool, a[j]) = j - 1
  BY <1>1, LowestExists, Pool
<1>3. \A j \in 1 .. n : ~ (j <= Cardinality(pool)) => a[j] = NoBlock
  BY <1>1
<1>4. a \in [1 .. n -> Blocks \cup {NoBlock}]
  BY <1>1, <1>2, <1>3
<1> HIDE DEF a
<1>5. a \in Seq(Blocks \cup {NoBlock}) /\ Len(a) = n
  BY <1>4
<1>6. \A j, k \in 1 .. n : a[j] = a[k] /\ a[j] # NoBlock => j = k
  BY <1>2, <1>3
<1>7. QED  BY <1>2, <1>3, <1>5, <1>6 DEF a

LEMMA NoBlockIsNone == NoBlock \notin Blocks
BY TcpAssumption DEF NoBlock, Blocks

-----------------------------------------------------------------------------
(* The queues of a connection. *)

LEMMA ConnTypes ==
  ASSUME NEW t, Conn(t)
  PROVE  /\ t \in TcbType /\ t.rtx \in Seq(RtxSeg) /\ t.queue \in Seq(Blocks)
         /\ Len(t.rtx) \in Nat /\ Len(t.rtx) <= kTcpUnackMax /\ Len(t.queue) \in Nat
         /\ t.nxt \in Nat /\ t.una \in Nat /\ t.wnd \in Nat /\ t.una <= t.nxt
         /\ kTcpUnackMax \in Nat /\ MaxSend \in Nat
         /\ t.nxt + Len(t.queue) + FinLeft(t) <= MaxSend /\ FinLeft(t) \in {0, 1}
         /\ t.state \in States \ {"closed"}
BY TcpAssumption DEF Conn, TcbType, FinLeft

\* Blocks of the pool are put at the end of the retransmission queue.
LEMMA Attach ==
  ASSUME NEW t, NEW u, NEW pool, NEW blocks,
         t.rtx \in Seq(RtxSeg), Clean(t, pool),
         blocks \in Seq(Blocks \cup {NoBlock}),
         \A j \in 1 .. Len(blocks) : blocks[j] \in pool \cup {NoBlock},
         \A j, k \in 1 .. Len(blocks) : blocks[j] = blocks[k] /\ blocks[j] # NoBlock => j = k,
         u.queue = t.queue, Len(u.rtx) = Len(t.rtx) + Len(blocks),
         \A j \in 1 .. Len(t.rtx) : u.rtx[j].block = t.rtx[j].block,
         \A j \in 1 .. Len(blocks) : u.rtx[Len(t.rtx) + j].block = blocks[j]
  PROVE  Moved(t, pool, u, pool \ Elements(blocks))
<1> DEFINE m == Len(t.rtx)
           n == Len(blocks)
<1>1. m \in Nat /\ n \in Nat
  OBVIOUS
<1>2. \A j \in 1 .. m + n : j \in 1 .. m \/ (j - m \in 1 .. n /\ j = m + (j - m))
  BY <1>1
<1> HIDE DEF m, n
<1>3. \A j \in 1 .. m + n : \/ j \in 1 .. m /\ u.rtx[j].block = t.rtx[j].block
                            \/ j - m \in 1 .. n /\ u.rtx[j].block = blocks[j - m]
  BY <1>2 DEF m, n
<1>4. \A j \in 1 .. m : t.rtx[j].block # NoBlock => t.rtx[j].block \in BlocksIn(t)
  BY DEF BlocksIn, BlocksOf, m
<1>5. \A j \in 1 .. n : blocks[j] # NoBlock =>
        blocks[j] \in pool /\ blocks[j] \in Elements(blocks) /\ blocks[j] \notin BlocksIn(t)
  BY DEF Clean, Elements, n
<1>6. \A j, k \in 1 .. m + n : u.rtx[j].block = u.rtx[k].block /\ u.rtx[j].block # NoBlock => j = k
  <2> SUFFICES ASSUME NEW j \in 1 .. m + n, NEW k \in 1 .. m + n,
                      u.rtx[j].block = u.rtx[k].block, u.rtx[j].block # NoBlock
               PROVE  j = k
    OBVIOUS
  <2>1. CASE j \in 1 .. m /\ k \in 1 .. m
    BY <2>1 DEF Clean, Single, m
  <2>2. CASE j - m \in 1 .. n /\ k - m \in 1 .. n
    <3>1. u.rtx[j].block = blocks[j - m] /\ u.rtx[k].block = blocks[k - m]
      BY <1>1, <1>3, <2>2
    <3>2. j - m = k - m
      BY <2>2, <3>1 DEF n
    <3>3. QED  BY <1>1, <3>2
  <2>3. CASE j \in 1 .. m /\ u.rtx[j].block = t.rtx[j].block
             /\ k - m \in 1 .. n /\ u.rtx[k].block = blocks[k - m]
    BY <1>4, <1>5, <2>3
  <2>4. CASE k \in 1 .. m /\ u.rtx[k].block = t.rtx[k].block
             /\ j - m \in 1 .. n /\ u.rtx[j].block = blocks[j - m]
    BY <1>4, <1>5, <2>4
  <2>5. QED  BY <1>3, <2>1, <2>2, <2>3, <2>4
<1>7. BlocksOf(u.rtx) \subseteq BlocksOf(t.rtx) \cup (Elements(blocks) \ {NoBlock})
  <2>1. Len(u.rtx) = m + n
    BY DEF m, n
  <2>2. ASSUME NEW j \in 1 .. m + n, u.rtx[j].block # NoBlock
        PROVE  u.rtx[j].block \in BlocksOf(t.rtx) \cup (Elements(blocks) \ {NoBlock})
    <3>1. CASE j \in 1 .. m /\ u.rtx[j].block = t.rtx[j].block
      BY <2>2, <3>1 DEF BlocksOf, m
    <3>2. CASE j - m \in 1 .. n /\ u.rtx[j].block = blocks[j - m]
      BY <2>2, <3>2 DEF Elements, n
    <3>3. QED  BY <1>3, <3>1, <3>2
  <2>3. ASSUME NEW b \in BlocksOf(u.rtx)
        PROVE  b \in BlocksOf(t.rtx) \cup (Elements(blocks) \ {NoBlock})
    <3>1. PICK j \in 1 .. m + n : b = u.rtx[j].block /\ b # NoBlock
      BY <2>1 DEF BlocksOf
    <3>2. QED  BY <2>2, <3>1
  <2>4. QED  BY <2>3
<1>8. Elements(blocks) \ {NoBlock} \subseteq pool \ BlocksIn(t)
  BY <1>5 DEF Elements, n
<1>9. Single(u)
  BY <1>6, <1>7, <1>8 DEF Single, Clean, BlocksIn, m, n
<1>10. QED  BY <1>7, <1>8, <1>9 DEF Moved, Clean, BlocksIn

LEMMA SendDataSound ==
  ASSUME NEW t, NEW pool, NEW n \in Nat, Conn(t), Clean(t, pool),
         n <= t.wnd, t.nxt + n <= MaxSend
  PROVE  LET blocks == DataBlocks(t, pool, n)
             u      == SendData(t, blocks, n)
         IN /\ u = [t EXCEPT !.rtx = u.rtx, !.nxt = t.nxt + n, !.wnd = t.wnd - n]
            /\ u.rtx \in Seq(RtxSeg) /\ Len(u.rtx) <= kTcpUnackMax
            /\ Moved(t, pool, u, pool \ Elements(blocks))
<1> DEFINE blocks == DataBlocks(t, pool, n)
           u      == SendData(t, blocks, n)
           more   == [j \in 1 .. Len(blocks) |-> [seq |-> t.nxt + j - 1, block |-> blocks[j], retries |-> 0]]
           k      == Min2(n, Room(t))
<1>1. k \in Nat /\ k <= n /\ Len(t.rtx) + k <= kTcpUnackMax
  BY ConnTypes DEF Min2, Room
<1>2. /\ blocks \in Seq(Blocks \cup {NoBlock}) /\ Len(blocks) = k
      /\ \A j \in 1 .. Len(blocks) : blocks[j] \in pool \cup {NoBlock}
      /\ \A j, l \in 1 .. Len(blocks) : blocks[j] = blocks[l] /\ blocks[j] # NoBlock => j = l
  <2>1. pool \in SUBSET Blocks
    BY DEF Clean
  <2>2. blocks = Allocated(pool, k)
    BY DEF DataBlocks
  <2> HIDE DEF blocks, k
  <2>3. QED  BY <1>1, <2>1, <2>2, AllocatedSound
<1> HIDE DEF blocks, k
<1>3. more \in Seq(RtxSeg) /\ Len(more) = k
  <2>1. \A j \in 1 .. k : [seq |-> t.nxt + j - 1, block |-> blocks[j], retries |-> 0] \in RtxSeg
    <3>1. \A j \in 1 .. k : t.nxt + j - 1 \in 0 .. MaxSend
      BY <1>1, ConnTypes
    <3>2. \A j \in 1 .. k : blocks[j] \in Blocks \cup {NoBlock}
      BY <1>2
    <3>3. 0 \in 0 .. kTcpRtxMaxRetry
      BY TcpAssumption
    <3>4. QED  BY <3>1, <3>2, <3>3 DEF RtxSeg
  <2>2. more \in [1 .. k -> RtxSeg]
    BY <1>2, <2>1
  <2> HIDE DEF more
  <2>3. QED  BY <1>1, <2>2
<1>4. u = [t EXCEPT !.rtx = t.rtx \o more, !.nxt = t.nxt + n, !.wnd = t.wnd - n]
  BY ConnTypes DEF SendData, Tracked, TcbType
<1>5. \A j \in 1 .. k : more[j].block = blocks[j]
  BY <1>2
<1> HIDE DEF u, more
<1>6. u.rtx = t.rtx \o more /\ u.queue = t.queue
  BY <1>4, ConnTypes DEF TcbType
<1>7. /\ u.rtx \in Seq(RtxSeg) /\ Len(u.rtx) = Len(t.rtx) + k
      /\ \A j \in 1 .. Len(t.rtx) : u.rtx[j] = t.rtx[j]
      /\ \A j \in 1 .. k : u.rtx[Len(t.rtx) + j] = more[j]
  <2>1. t.rtx \in Seq(RtxSeg) /\ Len(t.rtx) \in Nat
    BY ConnTypes
  <2>2. /\ t.rtx \o more \in Seq(RtxSeg) /\ Len(t.rtx \o more) = Len(t.rtx) + k
        /\ \A j \in 1 .. Len(t.rtx) + k :
             (t.rtx \o more)[j] = IF j <= Len(t.rtx) THEN t.rtx[j] ELSE more[j - Len(t.rtx)]
    BY <1>3, <2>1, ConcatProperties
  <2>3. \A j \in 1 .. k : /\ Len(t.rtx) + j \in 1 .. Len(t.rtx) + k
                          /\ ~ (Len(t.rtx) + j <= Len(t.rtx)) /\ Len(t.rtx) + j - Len(t.rtx) = j
    BY <1>1, <2>1
  <2>4. \A j \in 1 .. Len(t.rtx) : j \in 1 .. Len(t.rtx) + k /\ j <= Len(t.rtx)
    BY <1>1, <2>1
  <2>5. QED  BY <1>6, <2>2, <2>3, <2>4
<1>8. Moved(t, pool, u, pool \ Elements(blocks))
  BY <1>2, <1>5, <1>6, <1>7, ConnTypes, Attach
<1>9. QED  BY <1>1, <1>4, <1>6, <1>7, <1>8 DEF u, blocks

LEMMA SendControlSound ==
  ASSUME NEW t, NEW pool, Conn(t), Clean(t, pool), t.nxt + 1 <= MaxSend
  PROVE  LET u == SendControl(t)
         IN /\ u = [t EXCEPT !.rtx = u.rtx, !.nxt = t.nxt + 1]
            /\ u.rtx \in Seq(RtxSeg) /\ Len(u.rtx) <= kTcpUnackMax
            /\ Moved(t, pool, u, pool)
<1> DEFINE u     == SendControl(t)
           entry == [seq |-> t.nxt, block |-> NoBlock, retries |-> 0]
           more  == [j \in 1 .. 1 |-> [seq |-> t.nxt + j - 1, block |-> (<<NoBlock>>)[j], retries |-> 0]]
<1>1. CASE Room(t) > 0
  <2>1. more = <<entry>>
    <3>1. more = [j \in 1 .. 1 |-> entry]
      BY ConnTypes
    <3>2. QED  BY <3>1
  <2>2. u = [t EXCEPT !.rtx = t.rtx \o more, !.nxt = t.nxt + 1]
    BY <1>1, ConnTypes DEF SendControl, Tracked, TcbType
  <2> HIDE DEF more, u
  <2>3. entry \in RtxSeg /\ t.rtx \in Seq(RtxSeg) /\ Len(t.rtx) + 1 <= kTcpUnackMax
    <3>1. t.nxt \in 0 .. MaxSend /\ 0 \in 0 .. kTcpRtxMaxRetry
      BY ConnTypes, TcpAssumption
    <3>2. entry \in RtxSeg
      BY <3>1 DEF RtxSeg
    <3>3. QED  BY <1>1, <3>2, ConnTypes DEF Room
  <2>4. u.rtx = Append(t.rtx, entry) /\ u.queue = t.queue
    BY <2>1, <2>2, <2>3, ConnTypes, AppendIsConcat DEF TcbType
  <2>5. /\ u.rtx \in Seq(RtxSeg) /\ Len(u.rtx) = Len(t.rtx) + 1
        /\ \A j \in 1 .. Len(t.rtx) : u.rtx[j] = t.rtx[j]
        /\ u.rtx[Len(t.rtx) + 1] = entry
    BY <2>3, <2>4, AppendProperties
  <2>6. <<NoBlock>> \in Seq(Blocks \cup {NoBlock}) /\ Len(<<NoBlock>>) = 1
        /\ (<<NoBlock>>)[1] = NoBlock /\ Elements(<<NoBlock>>) = {NoBlock}
    BY DEF Elements
  <2>7. pool \ {NoBlock} = pool
    BY NoBlockIsNone DEF Clean
  <2>8. Moved(t, pool, u, pool)
    <3>1. \A j \in 1 .. Len(<<NoBlock>>) : u.rtx[Len(t.rtx) + j].block = (<<NoBlock>>)[j]
      BY <2>5, <2>6
    <3>2. \A j \in 1 .. Len(<<NoBlock>>) : (<<NoBlock>>)[j] = NoBlock /\ j = 1
      BY <2>6
    <3>3. Moved(t, pool, u, pool \ Elements(<<NoBlock>>))
      BY <2>3, <2>4, <2>5, <2>6, <3>1, <3>2, Attach
    <3>4. QED  BY <2>6, <2>7, <3>3
  <2>9. u = [t EXCEPT !.rtx = u.rtx, !.nxt = t.nxt + 1]
    BY <2>1, <2>2, <2>4, ConnTypes DEF TcbType
  <2>10. QED  BY <2>3, <2>5, <2>8, <2>9 DEF u
<1>2. CASE ~ (Room(t) > 0)
  <2>1. u = [t EXCEPT !.nxt = t.nxt + 1]
    BY <1>2 DEF SendControl
  <2> HIDE DEF u
  <2>2. u.rtx = t.rtx /\ u.queue = t.queue /\ u = [t EXCEPT !.rtx = u.rtx, !.nxt = t.nxt + 1]
    <3>1. u.rtx = t.rtx /\ u.queue = t.queue
      BY <2>1, ConnTypes DEF TcbType
    <3>2. t = [t EXCEPT !.rtx = t.rtx]
      BY ConnTypes DEF TcbType
    <3>3. [t EXCEPT !.rtx = t.rtx, !.nxt = t.nxt + 1] = [t EXCEPT !.nxt = t.nxt + 1]
      BY ConnTypes DEF TcbType
    <3>4. QED  BY <2>1, <3>1, <3>3
  <2>3. Moved(t, pool, u, pool)
    BY <2>2 DEF Moved, Clean, Single, BlocksIn
  <2>4. QED  BY <2>2, <2>3, ConnTypes DEF u
<1>3. QED  BY <1>1, <1>2

\* Acknowledged entries are a first part of the queue.
LEMMA AckedSound ==
  ASSUME NEW t, NEW ack \in Nat, Conn(t) PROVE AckedEntries(t, ack) \in 0 .. Len(t.rtx)
<1> DEFINE n == Len(t.rtx)
           S == {m \in 0 .. n : m < n => t.rtx[m + 1].seq >= ack}
<1>1. n \in Nat /\ \A j \in 1 .. n : t.rtx[j].seq \in Nat
  <2>1. n \in Nat /\ \A j \in 1 .. n : t.rtx[j] \in RtxSeg
    BY ConnTypes, ElementOfSeq
  <2>2. QED  BY <2>1, TcpAssumption DEF RtxSeg
<1> HIDE DEF n
<1>2. n \in S /\ S \subseteq Nat
  BY <1>1
<1>3. PICK m \in S : \A k \in S : m <= k
  BY <1>2, Least
<1>4. ASSUME NEW j \in 1 .. m PROVE t.rtx[j].seq < ack
  <2>1. j - 1 \in 0 .. n /\ j - 1 < n /\ j - 1 \notin S /\ j - 1 + 1 = j /\ j \in 1 .. n
    BY <1>1, <1>3
  <2>2. ~ (t.rtx[j].seq >= ack)
    BY <2>1
  <2>3. QED  BY <1>1, <2>1, <2>2
<1>5. QED  BY <1>1, <1>3, <1>4 DEF AckedEntries, n

LEMMA RtxOnAckSound ==
  ASSUME NEW t, NEW pool, NEW ack \in Nat, Conn(t), Clean(t, pool)
  PROVE  LET u == RtxOnAck(t, ack)
         IN /\ u = [t EXCEPT !.una = ack, !.rtx = u.rtx]
            /\ u.rtx \in Seq(RtxSeg) /\ Len(u.rtx) <= kTcpUnackMax
            /\ Moved(t, pool, u, pool \cup FreedBy(t, ack))
<1> DEFINE u == RtxOnAck(t, ack)
           n == AckedEntries(t, ack)
           m == Len(t.rtx)
           s == SubSeq(t.rtx, 1, n)
<1>1. n \in 0 .. m /\ m \in Nat /\ t.rtx \in Seq(RtxSeg)
  BY AckedSound, ConnTypes
<1>2. u = [t EXCEPT !.una = ack, !.rtx = SubSeq(t.rtx, n + 1, m)]
  BY ConnTypes DEF RtxOnAck, TcbType
<1> HIDE DEF u, n, m, s
<1>3. u.rtx = SubSeq(t.rtx, n + 1, m) /\ u.queue = t.queue /\ u = [t EXCEPT !.una = ack, !.rtx = u.rtx]
  <2>1. u.rtx = SubSeq(t.rtx, n + 1, m)
    <3> DEFINE rest == SubSeq(t.rtx, n + 1, m)
    <3>1. u = [t EXCEPT !.una = ack, !.rtx = rest] /\ t \in TcbType
      BY <1>2, ConnTypes
    <3> HIDE DEF rest
    <3>2. u.rtx = rest
      BY <3>1 DEF TcbType
    <3>3. QED  BY <3>2 DEF rest
  <2>2. u.queue = t.queue
    BY <1>2, ConnTypes DEF TcbType
  <2>3. QED  BY <1>2, <2>1, <2>2
<1>4. \A i \in 1 .. m : t.rtx[i] \in RtxSeg
  BY <1>1 DEF m
<1>5. /\ u.rtx \in Seq(RtxSeg) /\ Len(u.rtx) = m - n
      /\ \A j \in 1 .. m - n : u.rtx[j] = t.rtx[n + j] /\ n + j \in 1 .. m
  <2>1. \A i \in n + 1 .. m : t.rtx[i] \in RtxSeg
    BY <1>1, <1>4
  <2>2. n + 1 \in Int /\ m \in Int
    BY <1>1
  <2>3. /\ u.rtx \in Seq(RtxSeg) /\ Len(u.rtx) = IF n + 1 <= m THEN m - (n + 1) + 1 ELSE 0
        /\ \A j \in 1 .. m - (n + 1) + 1 : u.rtx[j] = t.rtx[n + 1 + j - 1]
    BY <1>3, <2>1, <2>2, SubSeqProperties
  <2>4. \A j \in 1 .. m - n : j \in 1 .. m - (n + 1) + 1 /\ n + 1 + j - 1 = n + j /\ n + j \in 1 .. m
    BY <1>1
  <2>5. (IF n + 1 <= m THEN m - (n + 1) + 1 ELSE 0) = m - n
    BY <1>1
  <2>6. QED  BY <2>3, <2>4, <2>5
<1>6. Len(s) = n /\ \A j \in 1 .. n : s[j] = t.rtx[j] /\ j \in 1 .. m
  BY <1>1, <1>4, SubSeqProperties DEF s
<1>7. FreedBy(t, ack) = BlocksOf(s)
  BY DEF FreedBy, s, n
<1>8. BlocksOf(u.rtx) \subseteq BlocksOf(t.rtx) /\ BlocksOf(s) \subseteq BlocksOf(t.rtx)
  <2>1. \A b \in BlocksOf(u.rtx) : \E j \in 1 .. m - n : b = u.rtx[j].block /\ b # NoBlock
    BY <1>5 DEF BlocksOf
  <2>2. \A b \in BlocksOf(s) : \E j \in 1 .. n : b = s[j].block /\ b # NoBlock
    BY <1>6 DEF BlocksOf
  <2>3. \A j \in 1 .. m : t.rtx[j].block # NoBlock => t.rtx[j].block \in BlocksOf(t.rtx)
    BY DEF BlocksOf, m
  <2>4. QED  BY <1>5, <1>6, <2>1, <2>2, <2>3
<1>9. BlocksOf(u.rtx) \cap BlocksOf(s) = {}
  <2>1. SUFFICES ASSUME NEW b, b \in BlocksOf(u.rtx), b \in BlocksOf(s) PROVE FALSE
    OBVIOUS
  <2>2. PICK j \in 1 .. m - n : b = u.rtx[j].block /\ b # NoBlock
    BY <1>5, <2>1 DEF BlocksOf
  <2>3. PICK k \in 1 .. n : b = s[k].block
    BY <1>6, <2>1 DEF BlocksOf
  <2>4. t.rtx[n + j].block = t.rtx[k].block /\ n + j \in 1 .. m /\ k \in 1 .. m
    BY <1>5, <1>6, <2>2, <2>3
  <2>5. n + j = k
    BY <1>5, <2>2, <2>4 DEF Clean, Single, m
  <2>6. QED  BY <1>1, <2>5
<1>10. BlocksOf(t.rtx) \subseteq Blocks
  BY <1>4 DEF BlocksOf, RtxSeg, m
<1>11. Single(u)
  <2>1. ASSUME NEW j \in 1 .. m - n, NEW k \in 1 .. m - n,
               u.rtx[j].block = u.rtx[k].block, u.rtx[j].block # NoBlock
        PROVE  j = k
    <3>1. n + j = n + k
      BY <1>5, <2>1 DEF Clean, Single, m
    <3>2. QED  BY <1>1, <3>1
  <2>2. QED  BY <1>3, <1>5, <1>8, <2>1 DEF Single, Clean
<1>12. Moved(t, pool, u, pool \cup BlocksOf(s))
  BY <1>3, <1>8, <1>9, <1>10, <1>11 DEF Moved, Clean, BlocksIn, Single
<1>13. Len(u.rtx) <= kTcpUnackMax
  BY <1>1, <1>5, ConnTypes DEF m
<1>14. QED  BY <1>3, <1>5, <1>7, <1>12, <1>13 DEF u

-----------------------------------------------------------------------------
(* Sending. *)

\* What sending leaves alone.
Kept(t, u) ==
  u.state = t.state /\ u.rcv = t.rcv /\ u.given = t.given /\ u.units = t.units /\ u.una = t.una

LEMMA MovedTrans ==
  ASSUME NEW t, NEW pool, NEW u, NEW between, NEW v, NEW after,
         Moved(t, pool, u, between), Moved(u, between, v, after)
  PROVE  Moved(t, pool, v, after)
BY DEF Moved

LEMMA NothingMoved ==
  ASSUME NEW t, NEW pool, Clean(t, pool) PROVE Moved(t, pool, t, pool)
BY DEF Moved

\* Free blocks become the nodes of an empty transmit queue.
LEMMA QueuedSound ==
  ASSUME NEW t, NEW pool, NEW n \in Nat, Conn(t), Clean(t, pool), t.queue = <<>>,
         t.nxt + n + FinLeft(t) <= MaxSend
  PROVE  LET nodes == Allocated(pool, Min2(n, Cardinality(pool)))
             u     == [t EXCEPT !.queue = nodes, !.full = Len(nodes) < n]
         IN /\ Conn(u) /\ Kept(t, u) /\ u.nxt + Len(u.queue) <= t.nxt + n
            /\ Moved(t, pool, u, pool \ Elements(nodes))
<1> DEFINE k == Min2(n, Cardinality(pool))
           nodes == Allocated(pool, k)
           more == Len(nodes) < n
           u == [t EXCEPT !.queue = nodes, !.full = more]
<1>1. pool \in SUBSET Blocks
  BY DEF Clean
<1>2. k \in Nat /\ k <= n /\ k <= Cardinality(pool)
  BY <1>1, Pool DEF Min2
<1> HIDE DEF k
<1>3. /\ nodes \in Seq(Blocks \cup {NoBlock}) /\ Len(nodes) = k
      /\ \A j \in 1 .. k : nodes[j] \in pool
      /\ \A i, j \in 1 .. k : nodes[i] = nodes[j] /\ nodes[i] # NoBlock => i = j
  <2>1. \A j \in 1 .. k : j <= Cardinality(pool)
    BY <1>1, <1>2, Pool
  <2>2. QED  BY <1>1, <1>2, <2>1, AllocatedSound
<1> HIDE DEF nodes
<1>4. nodes \in Seq(Blocks)
  <2>1. nodes \in [1 .. k -> Blocks]
    BY <1>1, <1>3
  <2>2. QED  BY <1>2, <2>1
<1>5. more \in BOOLEAN
  BY <1>2, <1>3
<1> HIDE DEF more
<1>6. /\ u \in TcbType /\ u.queue = nodes /\ u.rtx = t.rtx /\ u.nxt = t.nxt /\ u.una = t.una
      /\ Kept(t, u)
  <2>1. t \in TcbType
    BY ConnTypes
  <2>2. u \in TcbType
    BY <1>4, <1>5, <2>1 DEF TcbType
  <2>3. u.queue = nodes /\ u.rtx = t.rtx /\ u.nxt = t.nxt /\ u.una = t.una
    BY <2>1 DEF TcbType
  <2>4. Kept(t, u)
    BY <2>1 DEF TcbType, Kept
  <2>5. QED  BY <2>2, <2>3, <2>4
<1> HIDE DEF u
<1>7. FinLeft(u) = FinLeft(t) /\ FinLeft(t) \in {0, 1}
  BY <1>6 DEF FinLeft, Kept
<1>8. u.nxt + Len(u.queue) <= t.nxt + n /\ u.nxt + Len(u.queue) + FinLeft(u) <= MaxSend
  BY <1>2, <1>3, <1>6, <1>7, ConnTypes
<1>9. Conn(u)
  BY <1>6, <1>8 DEF Conn, Kept
<1>10. Elements(nodes) \subseteq pool
  BY <1>3 DEF Elements
<1>11. Single(u)
  <2>1. \A i, j \in 1 .. k : nodes[i] = nodes[j] => i = j
    BY <1>1, <1>3, NoBlockIsNone
  <2>2. BlocksOf(t.rtx) \cap Elements(nodes) = {}
    BY <1>10 DEF Clean, BlocksIn
  <2>3. QED  BY <1>3, <1>6, <2>1, <2>2 DEF Single, Clean
<1>12. Moved(t, pool, u, pool \ Elements(nodes))
  BY <1>1, <1>6, <1>10, <1>11 DEF Moved, Clean, BlocksIn
<1>13. QED  BY <1>6, <1>8, <1>9, <1>12 DEF u, nodes, more, k

LEMMA AfterSendSound ==
  ASSUME NEW t, NEW pool, NEW n \in Nat, Conn(t), Clean(t, pool),
         t.nxt + Len(t.queue) + n + FinLeft(t) <= MaxSend
  PROVE  LET c == AfterSend(t, pool, n)
         IN /\ Conn(c.tcb) /\ Kept(t, c.tcb) /\ Moved(t, pool, c.tcb, c.pool)
            /\ c.tcb.nxt + Len(c.tcb.queue) <= t.nxt + Len(t.queue) + n
<1> DEFINE c == AfterSend(t, pool, n)
<1>1. CASE n = 0 \/ (~ SendsNow(t, n) /\ Refused(t))
  <2>1. c = [tcb |-> t, pool |-> pool]
    BY <1>1 DEF AfterSend
  <2> HIDE DEF c
  <2>2. c.tcb = t /\ c.pool = pool
    BY <2>1
  <2>3. QED  BY <2>2, NothingMoved, ConnTypes DEF Kept, c
<1>2. CASE n # 0 /\ SendsNow(t, n)
  <2> DEFINE blocks == DataBlocks(t, pool, n)
             u      == SendData(t, blocks, n)
  <2>1. c = [tcb |-> u, pool |-> pool \ Elements(blocks)]
    BY <1>2 DEF AfterSend
  <2>2. n <= t.wnd /\ t.nxt + n <= MaxSend
    BY <1>2, ConnTypes DEF SendsNow
  <2>3. /\ u = [t EXCEPT !.rtx = u.rtx, !.nxt = t.nxt + n, !.wnd = t.wnd - n]
        /\ u.rtx \in Seq(RtxSeg) /\ Len(u.rtx) <= kTcpUnackMax
        /\ Moved(t, pool, u, pool \ Elements(blocks))
    BY <2>2, SendDataSound
  <2> HIDE DEF c, u, blocks
  <2>4. c.tcb = u /\ c.pool = pool \ Elements(blocks)
    BY <2>1
  <2>5. t.nxt + n \in 0 .. MaxSend /\ t.wnd - n \in Nat
    BY <2>2, ConnTypes
  <2>6. /\ u \in TcbType /\ u.queue = t.queue /\ u.nxt = t.nxt + n /\ u.una = t.una
        /\ Kept(t, u)
    <3> DEFINE more == u.rtx
    <3>1. t \in TcbType /\ more \in Seq(RtxSeg)
      BY <2>3, ConnTypes
    <3>2. u = [t EXCEPT !.rtx = more, !.nxt = t.nxt + n, !.wnd = t.wnd - n]
      BY <2>3
    <3> HIDE DEF more
    <3>3. u \in TcbType
      BY <2>5, <3>1, <3>2 DEF TcbType
    <3>4. u.queue = t.queue /\ u.nxt = t.nxt + n /\ u.una = t.una
      BY <3>1, <3>2 DEF TcbType
    <3>5. Kept(t, u)
      BY <3>1, <3>2 DEF TcbType, Kept
    <3>6. QED  BY <3>3, <3>4, <3>5
  <2>7. FinLeft(u) = FinLeft(t)
    BY <2>6 DEF FinLeft, Kept
  <2>8. /\ u.nxt + Len(u.queue) + FinLeft(u) <= MaxSend /\ u.una <= u.nxt
        /\ u.nxt + Len(u.queue) <= t.nxt + Len(t.queue) + n
    BY <2>6, <2>7, ConnTypes
  <2>9. Conn(u)
    BY <2>3, <2>6, <2>8 DEF Conn, Kept
  <2>10. QED  BY <2>3, <2>4, <2>6, <2>8, <2>9 DEF c
<1>3. CASE n # 0 /\ ~ SendsNow(t, n) /\ ~ Refused(t)
  <2>1. t.queue = <<>> /\ Len(t.queue) = 0 /\ t.nxt + n + FinLeft(t) <= MaxSend
    BY <1>3, ConnTypes DEF Refused
  <2> DEFINE nodes == Allocated(pool, Min2(n, Cardinality(pool)))
             u     == [t EXCEPT !.queue = nodes, !.full = Len(nodes) < n]
  <2>2. c = [tcb |-> u, pool |-> pool \ Elements(nodes)]
    BY <1>3 DEF AfterSend
  <2>3. /\ Conn(u) /\ Kept(t, u) /\ u.nxt + Len(u.queue) <= t.nxt + n
        /\ Moved(t, pool, u, pool \ Elements(nodes))
    BY <2>1, QueuedSound
  <2> HIDE DEF c, u, nodes
  <2>4. c.tcb = u /\ c.pool = pool \ Elements(nodes)
    BY <2>2
  <2>5. t.nxt + Len(t.queue) + n = t.nxt + n
    BY <2>1, ConnTypes
  <2>6. QED  BY <2>3, <2>4, <2>5 DEF c
<1>4. QED  BY <1>1, <1>2, <1>3

\* The node at the front of the transmit queue goes back to the pool.
LEMMA PopNode ==
  ASSUME NEW t, NEW pool, NEW u, Clean(t, pool), t.queue \in Seq(Blocks), t.queue # <<>>,
         u.rtx = t.rtx, u.queue = Tail(t.queue)
  PROVE  Moved(t, pool, u, pool \cup {Head(t.queue)})
<1> DEFINE n == Len(t.queue)
<1>1. n \in Nat \ {0} /\ Head(t.queue) = t.queue[1]
  OBVIOUS
<1>2. Len(u.queue) = n - 1 /\ \A j \in 1 .. n - 1 : u.queue[j] = t.queue[j + 1]
  BY HeadTailProperties
<1> HIDE DEF n
<1>3. \A j \in 1 .. n - 1 : j + 1 \in 1 .. n /\ j + 1 # 1
  BY <1>1
<1>4. 1 \in 1 .. n
  BY <1>1
<1>5. \A j, k \in 1 .. n : t.queue[j] = t.queue[k] => j = k
  BY DEF Clean, Single, n
<1>6. Elements(u.queue) \subseteq Elements(t.queue)
  BY <1>2, <1>3 DEF Elements, n
<1>7. t.queue[1] \notin Elements(u.queue)
  <2>1. SUFFICES ASSUME NEW j \in 1 .. n - 1, t.queue[1] = u.queue[j] PROVE FALSE
    BY <1>2 DEF Elements
  <2>2. t.queue[1] = t.queue[j + 1]
    BY <1>2, <2>1
  <2>3. QED  BY <1>3, <1>4, <1>5, <2>2
<1>8. t.queue[1] \in Elements(t.queue) /\ t.queue[1] \in Blocks
  BY <1>4, ElementOfSeq DEF Elements, n
<1>9. \A j, k \in 1 .. n - 1 : u.queue[j] = u.queue[k] => j = k
  <2> SUFFICES ASSUME NEW j \in 1 .. n - 1, NEW k \in 1 .. n - 1, u.queue[j] = u.queue[k]
               PROVE  j = k
    OBVIOUS
  <2>1. j + 1 = k + 1
    BY <1>2, <1>3, <1>5
  <2>2. QED  BY <1>1, <2>1
<1>10. Single(u)
  BY <1>2, <1>6, <1>9 DEF Single, Clean
<1>11. t.queue[1] \notin BlocksIn(u)
  BY <1>7, <1>8 DEF BlocksIn, Clean, Single
<1>12. QED  BY <1>1, <1>6, <1>8, <1>10, <1>11 DEF Moved, Clean, BlocksIn

\* What n turns of the flush leave: c is the connection and the pool after them.
Flushed(t, pool, c, n) ==
  /\ Conn(c.tcb) /\ Kept(t, c.tcb) /\ Moved(t, pool, c.tcb, c.pool)
  /\ c.tcb.wnd = t.wnd - n /\ Len(c.tcb.queue) = Len(t.queue) - n

LEMMA FlushFrontSound ==
  ASSUME NEW t, NEW pool, NEW c, NEW n \in Nat, Conn(t), Flushed(t, pool, c, n),
         n < t.wnd, n < Len(t.queue)
  PROVE  Flushed(t, pool, FlushFront(c), n + 1)
<1> DEFINE v == c.tcb
           blocks == DataBlocks(v, c.pool, 1)
           s == SendData(v, blocks, 1)
           rest == Tail(v.queue)
           u == [s EXCEPT !.queue = Tail(s.queue), !.full = FALSE]
           rtx == s.rtx
           between == c.pool \ Elements(blocks)
           d == FlushFront(c)
<1>1. /\ Conn(v) /\ Clean(v, c.pool) /\ v \in TcbType /\ v.queue \in Seq(Blocks)
      /\ v.wnd >= 1 /\ Len(v.queue) \in Nat \ {0}
      /\ v.wnd = t.wnd - n /\ Len(v.queue) = Len(t.queue) - n
  BY ConnTypes DEF Flushed, Moved
<1> HIDE DEF v
<1>0. /\ v.nxt \in Nat /\ v.una \in Nat /\ v.wnd \in Nat /\ t.wnd \in Nat /\ Len(t.queue) \in Nat
      /\ MaxSend \in Nat /\ FinLeft(v) \in {0, 1} /\ v.una <= v.nxt
      /\ v.nxt + Len(v.queue) + FinLeft(v) <= MaxSend
  BY <1>1, ConnTypes
<1>2. v.nxt + 1 <= MaxSend /\ v.nxt + 1 \in 0 .. MaxSend /\ v.wnd - 1 \in Nat
  BY <1>0, <1>1
<1>3. d = [tcb |-> u, pool |-> between \cup {Head(v.queue)}]
  BY DEF FlushFront, v
<1> HIDE DEF d
<1>4. /\ s = [v EXCEPT !.rtx = rtx, !.nxt = v.nxt + 1, !.wnd = v.wnd - 1]
      /\ rtx \in Seq(RtxSeg) /\ Len(rtx) <= kTcpUnackMax
      /\ Moved(v, c.pool, s, between)
  BY <1>1, <1>2, SendDataSound
<1>5. v.queue # <<>> /\ rest \in Seq(Blocks) /\ Len(rest) = Len(v.queue) - 1
  BY <1>1, HeadTailProperties
<1> HIDE DEF rtx, blocks, between, s, rest
<1>6. s.queue = v.queue /\ s.rtx = rtx
  BY <1>1, <1>4 DEF TcbType
<1>7. u = [s EXCEPT !.queue = rest, !.full = FALSE]
  BY <1>6 DEF rest
<1> HIDE DEF u
<1>8. u = [v EXCEPT !.rtx = rtx, !.nxt = v.nxt + 1, !.wnd = v.wnd - 1, !.queue = rest, !.full = FALSE]
  BY <1>1, <1>4, <1>7 DEF TcbType
<1>9. u \in TcbType
  BY <1>1, <1>2, <1>4, <1>5, <1>8 DEF TcbType
<1>10. u.rtx = s.rtx /\ u.queue = Tail(s.queue) /\ u.queue = rest
  BY <1>1, <1>6, <1>8 DEF TcbType, rest
<1>11. u.nxt = v.nxt + 1 /\ u.wnd = v.wnd - 1 /\ Kept(v, u)
  BY <1>1, <1>8 DEF TcbType, Kept
<1>12. Moved(s, between, u, between \cup {Head(v.queue)})
  <2>1. Clean(s, between)
    BY <1>4 DEF Moved
  <2>2. QED  BY <1>1, <1>5, <1>6, <1>10, <2>1, PopNode
<1>13. Moved(v, c.pool, u, between \cup {Head(v.queue)})
  BY <1>4, <1>12, MovedTrans
<1>14. FinLeft(u) = FinLeft(v)
  BY <1>11 DEF FinLeft, Kept
<1>15. u.nxt + Len(u.queue) + FinLeft(u) <= MaxSend /\ u.una <= u.nxt
  <2> DEFINE l == Len(v.queue)
             k == Len(u.queue)
  <2>1. l \in Nat \ {0} /\ k = l - 1
    BY <1>1, <1>5, <1>10
  <2>2. u.nxt = v.nxt + 1 /\ FinLeft(u) = FinLeft(v) /\ u.una = v.una
    BY <1>11, <1>14 DEF Kept
  <2>3. v.nxt + l + FinLeft(v) <= MaxSend
    BY <1>0
  <2> HIDE DEF l, k
  <2>4. u.nxt + k + FinLeft(u) <= MaxSend /\ u.una <= u.nxt
    BY <1>0, <2>1, <2>2, <2>3
  <2>5. QED  BY <2>4 DEF k
<1>16. Conn(u)
  BY <1>1, <1>4, <1>6, <1>9, <1>10, <1>11, <1>15 DEF Conn, Kept
<1>17. d.tcb = u /\ d.pool = between \cup {Head(v.queue)}
  BY <1>3
<1>18. u.wnd = t.wnd - (n + 1) /\ Len(u.queue) = Len(t.queue) - (n + 1)
  <2> DEFINE l == Len(t.queue)
             k == Len(u.queue)
  <2>1. l \in Nat /\ k = l - n - 1
    BY <1>0, <1>1, <1>5, <1>10
  <2> HIDE DEF l, k
  <2>2. u.wnd = t.wnd - (n + 1) /\ k = l - (n + 1)
    BY <1>0, <1>1, <1>11, <2>1
  <2>3. QED  BY <2>2 DEF l, k
<1>19. Kept(t, u) /\ Moved(t, pool, u, between \cup {Head(v.queue)})
  BY <1>11, <1>13, MovedTrans DEF Flushed, Kept, v
<1>20. Flushed(t, pool, d, n + 1)
  BY <1>16, <1>17, <1>18, <1>19 DEF Flushed
<1>21. QED  BY <1>20 DEF d

\* The recursive function of Flushes exists: its first values can always be
\* continued by one more.
LEMMA FlushesEquations ==
  ASSUME NEW t, NEW pool, Len(t.queue) \in Nat
  PROVE  /\ Flushes(t, pool)[0] = [tcb |-> t, pool |-> pool]
         /\ \A n \in 1 .. Len(t.queue) : Flushes(t, pool)[n] = FlushFront(Flushes(t, pool)[n - 1])
<1> DEFINE start == [tcb |-> t, pool |-> pool]
           m == Len(t.queue)
           Values(f, k) == /\ f = [n \in 0 .. k |-> f[n]]
                           /\ f[0] = start
                           /\ \A n \in 1 .. k : f[n] = FlushFront(f[n - 1])
           None == {k \in 0 .. m : \A f : ~ Values(f, k)}
           Equation(f) == f = [n \in 0 .. m |-> IF n = 0 THEN start ELSE FlushFront(f[n - 1])]
<1> HIDE DEF start, m
<1>0. m \in Nat
  BY DEF m
<1>1. None = {}
  <2>1. SUFFICES ASSUME None # {} PROVE FALSE
    OBVIOUS
  <2>2. None \in SUBSET Nat
    BY <1>0
  <2>3. PICK k \in None : \A l \in None : k <= l
    BY <2>1, <2>2, Least
  <2>4. k \in Nat /\ k <= m
    BY <1>0
  <2>5. CASE k = 0
    <3>1. Values([n \in 0 .. 0 |-> start], 0)
      OBVIOUS
    <3>2. QED  BY <2>5, <3>1
  <2>6. CASE k > 0
    <3>1. k - 1 \in 0 .. m /\ k - 1 \notin None
      BY <1>0, <2>3, <2>4, <2>6
    <3>2. PICK f : Values(f, k - 1)
      BY <3>1
    <3> DEFINE g == [n \in 0 .. k |-> IF n = k THEN FlushFront(f[k - 1]) ELSE f[n]]
    <3>3. g = [n \in 0 .. k |-> g[n]] /\ g[k] = FlushFront(f[k - 1]) /\ \A n \in 0 .. k - 1 : g[n] = f[n]
      BY <2>4, <2>6
    <3> HIDE DEF g
    <3>4. \A n \in 1 .. k : n = k \/ n \in 1 .. k - 1
      BY <2>4
    <3>5. \A n \in 1 .. k : n - 1 \in 0 .. k - 1
      BY <2>4
    <3>6. \A n \in 1 .. k - 1 : n \in 0 .. k - 1
      BY <2>4
    <3>7. 0 \in 0 .. k - 1 /\ k - 1 \in 0 .. k - 1
      BY <2>4, <2>6
    <3>8. \A n \in 1 .. k : g[n] = FlushFront(g[n - 1])
      BY <3>2, <3>3, <3>4, <3>5, <3>6
    <3>9. Values(g, k)
      BY <3>2, <3>3, <3>7, <3>8
    <3>10. QED  BY <3>9
  <2>7. QED  BY <2>4, <2>5, <2>6
<1>2. PICK f : Values(f, m)
  BY <1>0, <1>1
<1>3. Equation(f)
  <2> DEFINE g == [n \in 0 .. m |-> IF n = 0 THEN start ELSE FlushFront(f[n - 1])]
  <2>1. \A n \in 0 .. m : n = 0 \/ n \in 1 .. m
    BY <1>0
  <2>2. \A n \in 0 .. m : f[n] = IF n = 0 THEN start ELSE FlushFront(f[n - 1])
    BY <1>2, <2>1
  <2>3. QED  BY <1>2, <2>2
<1>4. Flushes(t, pool) = CHOOSE h : Equation(h)
  BY DEF Flushes, start, m
<1> DEFINE h == Flushes(t, pool)
<1>5. Equation(h)
  BY <1>3, <1>4
<1> HIDE DEF h
<1>6. h[0] = start /\ \A n \in 1 .. m : h[n] = FlushFront(h[n - 1])
  BY <1>0, <1>5
<1>7. QED  BY <1>6 DEF h, start, m

LEMMA FlushSound ==
  ASSUME NEW t, NEW pool, Conn(t), Clean(t, pool)
  PROVE  LET c == Flush(t, pool)
         IN Conn(c.tcb) /\ Kept(t, c.tcb) /\ Moved(t, pool, c.tcb, c.pool)
<1> DEFINE f == Flushes(t, pool)
           n == Min2(t.wnd, Len(t.queue))
           Bad == {k \in 0 .. n : ~ Flushed(t, pool, f[k], k)}
<1>1. Len(t.queue) \in Nat /\ t.wnd \in Nat
  BY ConnTypes
<1>2. n \in Nat /\ n <= t.wnd /\ n <= Len(t.queue)
  BY <1>1 DEF Min2
<1>3. /\ f[0] = [tcb |-> t, pool |-> pool]
      /\ \A k \in 1 .. Len(t.queue) : f[k] = FlushFront(f[k - 1])
  BY <1>1, FlushesEquations
<1> HIDE DEF f, n
<1>4. Bad = {}
  <2>1. SUFFICES ASSUME Bad # {} PROVE FALSE
    OBVIOUS
  <2>2. Bad \in SUBSET Nat
    BY <1>2
  <2>3. PICK k \in Bad : \A l \in Bad : k <= l
    BY <2>1, <2>2, Least
  <2>4. CASE k = 0
    <3>1. f[0].tcb = t /\ f[0].pool = pool
      BY <1>3
    <3>2. Flushed(t, pool, f[0], 0)
      BY <1>1, <3>1, NothingMoved DEF Flushed, Kept
    <3>3. QED  BY <2>3, <2>4, <3>2
  <2>5. CASE k # 0
    <3>1. /\ k - 1 \in 0 .. n /\ k - 1 \notin Bad /\ k - 1 \in Nat /\ k = (k - 1) + 1
          /\ k - 1 < t.wnd /\ k - 1 < Len(t.queue) /\ k \in 1 .. Len(t.queue)
      BY <1>1, <1>2, <2>3, <2>5
    <3>2. Flushed(t, pool, f[k - 1], k - 1)
      BY <3>1
    <3>3. Flushed(t, pool, FlushFront(f[k - 1]), (k - 1) + 1)
      BY <3>1, <3>2, FlushFrontSound
    <3>4. QED  BY <1>3, <2>3, <3>1, <3>3
  <2>6. QED  BY <2>4, <2>5
<1>5. Flushed(t, pool, f[n], n)
  BY <1>2, <1>4
<1>6. QED  BY <1>5 DEF Flushed, Flush, f, n

-----------------------------------------------------------------------------
(* The steps. *)

\* A control block gets what the operations make of it and the pool.
LEMMA PutSound ==
  ASSUME IInv, NEW i \in Tcbs, NEW u, NEW after \in SUBSET Blocks, Put(i, u, after),
         after \subseteq Have(i) \cup free,
         u # Closed => Conn(u) /\ Clean(u, after) /\ BlocksIn(u) \subseteq Have(i) \cup free
  PROVE  IInv'
<1>1. /\ tcb' = [tcb EXCEPT ![i] = u] /\ free' = after /\ halted' = halted
      /\ tcb = [j \in Tcbs |-> tcb[j]]
  BY DEF Put, IInv
<1>2. tcb' = [j \in Tcbs |-> tcb'[j]] /\ tcb'[i] = u /\ \A j \in Tcbs \ {i} : tcb'[j] = tcb[j]
  BY <1>1
<1>3. \A j \in Tcbs \ {i} : Have(j)' = Have(j) /\ (InUse(j)' <=> InUse(j))
  BY <1>2 DEF Have, InUse
<1>4. u = Closed => ~ InUse(i)' /\ Have(i)' = {}
  BY <1>2 DEF Closed, InUse, Have
<1>5. u # Closed => InUse(i)' /\ Have(i)' = BlocksIn(u)
  BY <1>2, ConnTypes DEF InUse, Have
<1>6. Have(i)' \subseteq Have(i) \cup free /\ free' \subseteq Have(i) \cup free
  BY <1>1, <1>4, <1>5
<1>7. ASSUME NEW j \in Tcbs, InUse(j)' PROVE Conn(tcb'[j]) /\ Clean(tcb'[j], free')
  <2>1. CASE j = i
    BY <1>1, <1>2, <1>4, <1>7, <2>1
  <2>2. CASE j # i
    <3>1. InUse(j) /\ tcb'[j] = tcb[j] /\ Have(j) = BlocksIn(tcb[j])
      BY <1>2, <1>3, <1>7, <2>2 DEF Have
    <3>2. Conn(tcb[j]) /\ Clean(tcb[j], free) /\ Have(i) \cap Have(j) = {}
      BY <2>2, <3>1 DEF IInv
    <3>3. Clean(tcb[j], after)
      BY <3>1, <3>2 DEF Clean
    <3>4. QED  BY <1>1, <3>1, <3>2, <3>3
  <2>3. QED  BY <2>1, <2>2
<1>8. \A j \in Tcbs : free \cap Have(j) = {}
  BY DEF IInv, Have, Clean
<1>9. ASSUME NEW j \in Tcbs, NEW k \in Tcbs, j # k PROVE Have(j)' \cap Have(k)' = {}
  <2>1. \A l \in Tcbs \ {i} : Have(i)' \cap Have(l)' = {}
    BY <1>3, <1>6, <1>8 DEF IInv
  <2>2. CASE j # i /\ k # i
    BY <1>3, <1>9, <2>2 DEF IInv
  <2>3. QED  BY <1>9, <2>1, <2>2
<1>10. QED  BY <1>1, <1>2, <1>7, <1>9 DEF IInv

\* A connection in use that an operation has moved to u.
LEMMA MovedPut ==
  ASSUME IInv, NEW i \in Tcbs, InUse(i), NEW u, NEW after, Moved(tcb[i], free, u, after), Conn(u),
         Put(i, u, after)
  PROVE  IInv'
<1>1. Have(i) = BlocksIn(tcb[i]) /\ u # Closed
  BY ConnTypes DEF Have, Closed
<1>2. QED  BY <1>1, PutSound DEF Moved, Clean

LEMMA MovedFree ==
  ASSUME IInv, NEW i \in Tcbs, InUse(i), NEW u, NEW after, Moved(tcb[i], free, u, after), Conn(u),
         FreeTcb(i, u, after)
  PROVE  IInv'
<1>1. Have(i) = BlocksIn(tcb[i])
  BY DEF Have
<1>2. BlocksOf(u.rtx) \subseteq BlocksIn(u) /\ BlocksOf(u.rtx) \subseteq Blocks
  <2>1. \A j \in 1 .. Len(u.rtx) : u.rtx[j] \in RtxSeg
    BY ConnTypes, ElementOfSeq
  <2>2. QED  BY <2>1 DEF BlocksIn, BlocksOf, RtxSeg
<1>3. QED  BY <1>1, <1>2, PutSound DEF Moved, Clean, FreeTcb

\* What a step does besides sending leaves the queues alone.
LEMMA SameQueues ==
  ASSUME NEW t, NEW pool, NEW u, NEW after, NEW v, Moved(t, pool, u, after),
         v.rtx = u.rtx, v.queue = u.queue
  PROVE  Moved(t, pool, v, after)
BY DEF Moved, Clean, Single, BlocksIn

LEMMA CloseDueSound ==
  ASSUME NEW t, NEW pool, Conn(t), Clean(t, pool)
  PROVE  Conn(CloseDue(t)) /\ Moved(t, pool, CloseDue(t), pool)
<1>1. CASE t.state # "closeWait"
  BY <1>1, NothingMoved DEF CloseDue
<1>2. CASE t.state = "closeWait"
  <2> DEFINE s == SendControl(t)
             rtx == s.rtx
             u == CloseDue(t)
  <2>1. t.nxt + 1 <= MaxSend /\ t \in TcbType /\ t.nxt + 1 \in 0 .. MaxSend
    BY <1>2, ConnTypes DEF FinLeft
  <2>2. /\ s = [t EXCEPT !.rtx = rtx, !.nxt = t.nxt + 1]
        /\ rtx \in Seq(RtxSeg) /\ Len(rtx) <= kTcpUnackMax
        /\ Moved(t, pool, s, pool)
    BY <2>1, SendControlSound
  <2>3. u = [s EXCEPT !.state = "lastAck"]
    BY <1>2 DEF CloseDue
  <2> HIDE DEF u, rtx, s
  <2>4. u = [t EXCEPT !.rtx = rtx, !.nxt = t.nxt + 1, !.state = "lastAck"]
    BY <2>1, <2>2, <2>3 DEF TcbType
  <2>5. u \in TcbType
    BY <2>1, <2>2, <2>4 DEF TcbType, States
  <2>6. /\ u.state = "lastAck" /\ u.rtx = rtx /\ u.nxt = t.nxt + 1 /\ u.queue = t.queue
        /\ u.una = t.una /\ u.rcv = t.rcv /\ u.units = t.units /\ u.given = t.given
    BY <2>1, <2>4 DEF TcbType
  <2>7. s.rtx = rtx /\ s.queue = t.queue
    BY <2>1, <2>2 DEF TcbType
  <2>8. u.nxt + Len(u.queue) + FinLeft(u) <= MaxSend /\ u.una <= u.nxt
    <3>1. FinLeft(u) = 0 /\ FinLeft(t) = 1
      BY <1>2, <2>6 DEF FinLeft
    <3>2. QED  BY <2>6, <3>1, ConnTypes
  <2>9. Conn(u)
    BY <2>2, <2>5, <2>6, <2>8 DEF Conn
  <2>10. Moved(t, pool, u, pool)
    BY <2>2, <2>6, <2>7, SameQueues
  <2>11. QED  BY <2>9, <2>10 DEF u
<1>3. QED  BY <1>1, <1>2

LEMMA RetransmitSound ==
  ASSUME IInv, NEW i \in Tcbs, InUse(i), NEW t, NEW pool, Conn(t), Moved(tcb[i], free, t, pool),
         Retransmit(i, t, pool)
  PROVE  IInv'
<1>1. CASE t.rtx[1].retries = kTcpRtxMaxRetry
  BY <1>1, MovedFree DEF Retransmit
<1>2. CASE t.rtx[1].retries # kTcpRtxMaxRetry
  <2> DEFINE u == [t EXCEPT !.rtx[1].retries = @ + 1]
             entry == [t.rtx[1] EXCEPT !.retries = @ + 1]
             rtx == [t.rtx EXCEPT ![1] = entry]
  <2>1. t \in TcbType /\ t.rtx \in Seq(RtxSeg) /\ Len(t.rtx) \in Nat
    BY ConnTypes
  <2>2. u = [t EXCEPT !.rtx = rtx]
    BY <2>1 DEF TcbType
  <2>3. \A j \in 1 .. Len(t.rtx) : t.rtx[j] \in RtxSeg
    BY <2>1
  <2>4. 1 \in 1 .. Len(t.rtx) => entry \in RtxSeg /\ entry.block = t.rtx[1].block
    <3> SUFFICES ASSUME 1 \in 1 .. Len(t.rtx)
                 PROVE  entry \in RtxSeg /\ entry.block = t.rtx[1].block
      OBVIOUS
    <3> DEFINE first == t.rtx[1]
    <3>1. first \in RtxSeg /\ first.retries # kTcpRtxMaxRetry
      BY <1>2, <2>3
    <3> HIDE DEF first
    <3>2. first.retries + 1 \in 0 .. kTcpRtxMaxRetry
      BY <3>1, TcpAssumption DEF RtxSeg
    <3>3. [first EXCEPT !.retries = @ + 1] \in RtxSeg
          /\ [first EXCEPT !.retries = @ + 1].block = first.block
      BY <3>1, <3>2 DEF RtxSeg
    <3>4. QED  BY <3>3 DEF first
  <2> HIDE DEF entry
  <2>5. rtx \in [1 .. Len(t.rtx) -> RtxSeg]
    <3>1. DOMAIN t.rtx = 1 .. Len(t.rtx)
      BY <2>1
    <3>2. rtx = [j \in 1 .. Len(t.rtx) |-> IF j = 1 THEN entry ELSE t.rtx[j]]
      BY <3>1
    <3>3. \A j \in 1 .. Len(t.rtx) : (IF j = 1 THEN entry ELSE t.rtx[j]) \in RtxSeg
      BY <2>3, <2>4
    <3>4. QED  BY <3>2, <3>3
  <2>6. \A j \in 1 .. Len(t.rtx) : rtx[j].block = t.rtx[j].block
    BY <2>1, <2>4
  <2> HIDE DEF rtx, u
  <2>7. rtx \in Seq(RtxSeg) /\ Len(rtx) = Len(t.rtx)
    BY <2>1, <2>5
  <2>8. /\ u \in TcbType /\ u.rtx = rtx /\ u.queue = t.queue
        /\ u.state = t.state /\ u.rcv = t.rcv /\ u.given = t.given /\ u.units = t.units
        /\ u.una = t.una /\ u.nxt = t.nxt
    BY <2>1, <2>2, <2>7 DEF TcbType
  <2>9. Conn(u)
    BY <2>7, <2>8 DEF Conn, FinLeft
  <2>10. BlocksOf(u.rtx) = BlocksOf(t.rtx)
    BY <2>6, <2>7, <2>8 DEF BlocksOf
  <2>11. Moved(tcb[i], free, u, pool)
    BY <2>6, <2>7, <2>8, <2>10 DEF Moved, Clean, Single, BlocksIn
  <2>12. Put(i, u, pool)
    BY <1>2 DEF Retransmit, u
  <2>13. QED  BY <2>9, <2>11, <2>12, MovedPut
<1>3. QED  BY <1>1, <1>2

LEMMA RunSound ==
  ASSUME IInv, NEW i \in Tcbs, NEW due \in BOOLEAN, Run(i, due) PROVE IInv'
<1> DEFINE c == CloseDue(tcb[i])
           f == Flush(c, free)
<1>1. InUse(i) /\ Conn(tcb[i]) /\ Clean(tcb[i], free)
  BY DEF Run, IInv
<1>2. Conn(c) /\ Moved(tcb[i], free, c, free) /\ Clean(c, free)
  BY <1>1, CloseDueSound DEF Moved
<1>3. Halt \/ Retransmit(i, f.tcb, f.pool) \/ Put(i, f.tcb, f.pool)
  BY DEF Run
<1> HIDE DEF c
<1>4. Conn(f.tcb) /\ Moved(c, free, f.tcb, f.pool)
  BY <1>2, FlushSound
<1> HIDE DEF f
<1>5. Moved(tcb[i], free, f.tcb, f.pool)
  BY <1>2, <1>4, MovedTrans
<1>6. CASE Halt
  BY <1>6 DEF Halt, IInv, Have, InUse
<1>7. QED  BY <1>1, <1>3, <1>4, <1>5, <1>6, RetransmitSound, MovedPut

LEMMA SegmentFacts ==
  ASSUME NEW t, Conn(t), NEW seg \in Segments(t), Acceptable(t, seg)
  PROVE  /\ seg.len \in {0, 1} /\ seg.fin \in BOOLEAN /\ seg.ack \in Nat /\ seg.wnd \in Nat
         /\ t.una <= seg.ack /\ seg.ack <= t.nxt /\ t.rcv <= seg.seq
         /\ seg.fin => seg.seq + seg.len = t.units + 1 /\ t.rcv <= t.units + 1
         /\ seg.len = 1 => seg.seq <= t.units
<1>1. /\ t.rcv \in Nat /\ t.rcv >= 1 /\ t.units \in 0 .. MaxUnits /\ MaxUnits \in Nat
      /\ t.una \in Nat /\ t.nxt \in Nat
  BY ConnTypes, TcpAssumption DEF TcbType
<1>2. /\ seg \in [seq : t.rcv .. t.units + 2, len : 0 .. 1, fin : BOOLEAN,
                  ack : Max2(1, t.una) .. t.nxt, wnd : Windows]
      /\ seg.len = 1 => seg.seq <= t.units
      /\ seg.fin => seg.seq + seg.len = t.units + 1
  BY DEF Segments
<1>3. Max2(1, t.una) \in Nat /\ t.una <= Max2(1, t.una)
  BY <1>1 DEF Max2
<1>4. /\ seg.seq \in t.rcv .. t.units + 2 /\ seg.len \in 0 .. 1 /\ seg.fin \in BOOLEAN
      /\ seg.ack \in Max2(1, t.una) .. t.nxt /\ seg.wnd \in Windows
  BY <1>2
<1>5. seg.wnd \in Nat
  BY <1>4, TcpAssumption
<1>6. QED  BY <1>1, <1>2, <1>3, <1>4, <1>5

LEMMA FinSeenSound ==
  ASSUME NEW t, NEW seg, Conn(t), seg.fin \in BOOLEAN, seg.fin => t.rcv <= t.units + 1,
         t.state # "synReceived"
  PROVE  LET u == FinSeen(t, seg) IN Conn(u) /\ u.rtx = t.rtx /\ u.queue = t.queue
<1>1. CASE ~ seg.fin
  BY <1>1 DEF FinSeen
<1>2. CASE seg.fin
  <2> DEFINE u == FinSeen(t, seg)
             new == IF t.state = "established" THEN "closeWait" ELSE t.state
  <2>1. /\ t \in TcbType /\ t.rcv \in Nat /\ t.units \in 0 .. MaxUnits /\ MaxUnits \in Nat
        /\ t.rcv + 1 \in 1 .. MaxUnits + 2 /\ t.rcv + 1 <= t.units + 2
    BY <1>2, ConnTypes, TcpAssumption DEF TcbType
  <2>2. u = [t EXCEPT !.rcv = t.rcv + 1, !.state = new]
    BY <1>2, <2>1 DEF FinSeen, TcbType
  <2>3. new \in States \ {"closed"} /\ new \notin {"synReceived", "established"}
        /\ (new = "lastAck" <=> t.state = "lastAck")
    BY <2>1 DEF TcbType, States
  <2> HIDE DEF u, new
  <2>4. /\ u \in TcbType /\ u.state = new /\ u.rcv = t.rcv + 1 /\ u.rtx = t.rtx
        /\ u.queue = t.queue /\ u.una = t.una /\ u.nxt = t.nxt /\ u.given = t.given
        /\ u.units = t.units
    BY <2>1, <2>2, <2>3 DEF TcbType
  <2>5. FinLeft(u) = FinLeft(t)
    BY <2>3, <2>4 DEF FinLeft
  <2>6. u.nxt + Len(u.queue) + FinLeft(u) <= MaxSend
    BY <2>4, <2>5, ConnTypes
  <2>7. Conn(u)
    BY <2>1, <2>3, <2>4, <2>6 DEF Conn
  <2>8. QED  BY <2>4, <2>7 DEF u
<1>3. QED  BY <1>1, <1>2

\* An acknowledgement is taken: nothing else of the connection changes.
LEMMA AckTaken ==
  ASSUME NEW t, NEW pool, NEW ack \in Nat, Conn(t), Clean(t, pool), ack <= t.nxt
  PROVE  LET a == RtxOnAck(t, ack)
         IN /\ Conn(a) /\ Moved(t, pool, a, pool \cup FreedBy(t, ack))
            /\ a.state = t.state /\ a.rcv = t.rcv /\ a.units = t.units
<1> DEFINE a == RtxOnAck(t, ack)
           rtx == a.rtx
           after == pool \cup FreedBy(t, ack)
<1>1. /\ a = [t EXCEPT !.una = ack, !.rtx = rtx]
      /\ rtx \in Seq(RtxSeg) /\ Len(rtx) <= kTcpUnackMax
      /\ Moved(t, pool, a, after)
  BY RtxOnAckSound
<1>2. t \in TcbType /\ ack \in 0 .. MaxSend
  <2>1. t.nxt <= MaxSend
    BY DEF Conn, TcbType
  <2>2. QED  BY <2>1, ConnTypes
<1> HIDE DEF a, rtx, after
<1>3. /\ a \in TcbType /\ a.rtx = rtx /\ a.queue = t.queue /\ a.una = ack /\ a.nxt = t.nxt
      /\ a.rcv = t.rcv /\ a.units = t.units /\ a.given = t.given /\ a.state = t.state
  BY <1>1, <1>2 DEF TcbType
<1>4. FinLeft(a) = FinLeft(t)
  BY <1>3 DEF FinLeft
<1>5. Conn(a)
  BY <1>1, <1>3, <1>4 DEF Conn
<1>6. QED  BY <1>1, <1>3, <1>5 DEF a, after

\* The window, and the state at the end of the handshake.
LEMMA WindowTaken ==
  ASSUME NEW t, NEW wnd \in Nat, Conn(t)
  PROVE  LET w == [t EXCEPT !.wnd = wnd]
         IN /\ Conn(w) /\ w.rtx = t.rtx /\ w.queue = t.queue /\ w.state = t.state
            /\ w.rcv = t.rcv /\ w.units = t.units /\ w.nxt = t.nxt
<1> DEFINE w == [t EXCEPT !.wnd = wnd]
<1>1. t \in TcbType /\ t.state \in States \ {"closed"}
  BY ConnTypes DEF States
<1>2. /\ w \in TcbType /\ w.rtx = t.rtx /\ w.queue = t.queue /\ w.state = t.state /\ w.una = t.una
      /\ w.rcv = t.rcv /\ w.units = t.units /\ w.nxt = t.nxt /\ w.given = t.given
  BY <1>1 DEF TcbType
<1> HIDE DEF w
<1>3. Conn(w)
  BY <1>2 DEF Conn, FinLeft
<1>4. QED  BY <1>2, <1>3 DEF w

LEMMA Established ==
  ASSUME NEW t, NEW wnd \in Nat, Conn(t), t.state = "synReceived"
  PROVE  LET w == [t EXCEPT !.state = "established", !.wnd = wnd]
         IN /\ Conn(w) /\ w.rtx = t.rtx /\ w.queue = t.queue /\ w.state = "established"
            /\ w.rcv = t.rcv /\ w.units = t.units /\ w.nxt = t.nxt
<1> DEFINE w == [t EXCEPT !.state = "established", !.wnd = wnd]
<1>1. t \in TcbType /\ "established" \in States \ {"closed"}
  BY ConnTypes DEF States
<1>2. /\ w \in TcbType /\ w.rtx = t.rtx /\ w.queue = t.queue /\ w.state = "established" /\ w.una = t.una
      /\ w.rcv = t.rcv /\ w.units = t.units /\ w.nxt = t.nxt /\ w.given = t.given
  BY <1>1 DEF TcbType
<1> HIDE DEF w
<1>3. Conn(w)
  BY <1>2 DEF Conn, FinLeft
<1>4. QED  BY <1>2, <1>3 DEF w

LEMMA DataAcked ==
  ASSUME NEW t, NEW pool, Conn(t), Clean(t, pool), NEW seg, NEW newer \in BOOLEAN,
         seg.ack \in Nat, seg.wnd \in Nat
  PROVE  LET a == Acked(t, pool, seg, newer)
         IN /\ Conn(a.tcb) /\ Moved(t, pool, a.tcb, a.pool)
            /\ a.tcb.state = t.state /\ a.tcb.rcv = t.rcv /\ a.tcb.units = t.units
<1> DEFINE w == IF newer /\ seg.ack >= t.una THEN [t EXCEPT !.wnd = seg.wnd] ELSE t
           a == Acked(t, pool, seg, newer)
<1>1. /\ Conn(w) /\ w.rtx = t.rtx /\ w.queue = t.queue /\ w.state = t.state
      /\ w.rcv = t.rcv /\ w.units = t.units /\ w.nxt = t.nxt
  BY WindowTaken
<1>2. a = IF seg.ack \in t.una + 1 .. t.nxt
            THEN [tcb |-> RtxOnAck(w, seg.ack), pool |-> pool \cup FreedBy(w, seg.ack)]
            ELSE [tcb |-> w, pool |-> pool]
  BY DEF Acked
<1> HIDE DEF w, a
<1>3. Moved(t, pool, w, pool)
  BY <1>1, NothingMoved, SameQueues
<1>4. CASE seg.ack \in t.una + 1 .. t.nxt
  <2> DEFINE u == RtxOnAck(w, seg.ack)
  <2>1. a.tcb = u /\ a.pool = pool \cup FreedBy(w, seg.ack)
    BY <1>2, <1>4
  <2>2. seg.ack <= w.nxt /\ Clean(w, pool)
    BY <1>1, <1>3, <1>4 DEF Moved
  <2>3. /\ Conn(u) /\ Moved(w, pool, u, pool \cup FreedBy(w, seg.ack))
        /\ u.state = w.state /\ u.rcv = w.rcv /\ u.units = w.units
    BY <1>1, <2>2, AckTaken
  <2> HIDE DEF u
  <2>4. QED  BY <1>1, <1>3, <2>1, <2>3, MovedTrans DEF a
<1>5. CASE ~ (seg.ack \in t.una + 1 .. t.nxt)
  <2>1. a.tcb = w /\ a.pool = pool
    BY <1>2, <1>5
  <2>2. QED  BY <1>1, <1>3, <2>1 DEF a
<1>6. QED  BY <1>4, <1>5

\* Text at rcv is given to the application.
LEMMA GivenSound ==
  ASSUME NEW t, NEW seq, Conn(t), t.state = "established", seq = t.rcv, seq <= t.units
  PROVE  LET g == [t EXCEPT !.rcv = @ + 1, !.given = Append(@, seq)]
         IN /\ Conn(g) /\ g.rtx = t.rtx /\ g.queue = t.queue /\ g.state = t.state
            /\ g.rcv = t.rcv + 1 /\ g.units = t.units /\ g.nxt = t.nxt
<1> DEFINE more == Append(t.given, seq)
           g == [t EXCEPT !.rcv = @ + 1, !.given = Append(@, seq)]
<1>1. /\ t \in TcbType /\ t.rcv \in 1 .. MaxUnits + 2 /\ t.units \in 0 .. MaxUnits
      /\ MaxUnits \in Nat /\ t.given \in Seq(1 .. MaxUnits) /\ t.rcv = Len(t.given) + 1
      /\ Len(t.given) \in Nat /\ \A k \in 1 .. Len(t.given) : t.given[k] = k
  BY TcpAssumption DEF Conn, TcbType
<1>2. seq \in 1 .. MaxUnits /\ t.rcv + 1 \in 1 .. MaxUnits + 2 /\ t.rcv + 1 <= t.units + 2
  BY <1>1
<1>3. more \in Seq(1 .. MaxUnits) /\ Len(more) = Len(t.given) + 1
      /\ more[Len(t.given) + 1] = seq /\ \A k \in 1 .. Len(t.given) : more[k] = t.given[k]
  BY <1>1, <1>2, AppendProperties
<1>4. \A k \in 1 .. Len(more) : more[k] = k
  <2>1. \A k \in 1 .. Len(t.given) + 1 : k \in 1 .. Len(t.given) \/ k = Len(t.given) + 1
    BY <1>1
  <2>2. QED  BY <1>1, <1>3, <2>1
<1>5. g = [t EXCEPT !.rcv = t.rcv + 1, !.given = more]
  BY <1>1 DEF TcbType
<1> HIDE DEF g, more
<1>6. /\ g \in TcbType /\ g.rtx = t.rtx /\ g.queue = t.queue /\ g.state = t.state /\ g.una = t.una
      /\ g.rcv = t.rcv + 1 /\ g.units = t.units /\ g.nxt = t.nxt /\ g.given = more
  BY <1>1, <1>2, <1>3, <1>5 DEF TcbType
<1>7. g.rcv = Len(g.given) + 1
  BY <1>1, <1>3, <1>6
<1>8. Conn(g)
  BY <1>2, <1>4, <1>6, <1>7 DEF Conn, FinLeft
<1>9. QED  BY <1>6, <1>8 DEF g

LEMMA ReplySound ==
  ASSUME IInv, NEW i \in Tcbs, InUse(i), NEW t, NEW pool, NEW seg,
         Conn(t), Moved(tcb[i], free, t, pool), t.state # "synReceived",
         seg.fin \in BOOLEAN, seg.fin => t.rcv <= t.units + 1, Reply(i, t, pool, seg)
  PROVE  IInv'
<1>1. PICK n \in 0 .. MaxContent :
        LET header == AfterSend(t, pool, 1)
            both   == AfterSend(header.tcb, header.pool, n)
        IN /\ t.nxt + Len(t.queue) + n + 2 <= MaxSend
           /\ Put(i, FinSeen(both.tcb, seg), both.pool)
  BY DEF Reply
<1> DEFINE header == AfterSend(t, pool, 1)
           both   == AfterSend(header.tcb, header.pool, n)
<1>2. n \in Nat /\ 1 \in Nat
  BY TcpAssumption
<1>3. /\ t.nxt \in Nat /\ Len(t.queue) \in Nat /\ MaxSend \in Nat /\ FinLeft(t) \in {0, 1}
      /\ t.nxt + Len(t.queue) + n + 2 <= MaxSend /\ Put(i, FinSeen(both.tcb, seg), both.pool)
      /\ t.nxt + Len(t.queue) + 1 + FinLeft(t) <= MaxSend /\ Clean(t, pool)
  <2>1. t.nxt \in Nat /\ Len(t.queue) \in Nat /\ MaxSend \in Nat /\ FinLeft(t) \in {0, 1}
    BY ConnTypes
  <2>2. t.nxt + Len(t.queue) + n + 2 <= MaxSend /\ Put(i, FinSeen(both.tcb, seg), both.pool)
    BY <1>1
  <2>3. t.nxt + Len(t.queue) + 1 + FinLeft(t) <= MaxSend
    BY <1>2, <2>1, <2>2
  <2>4. QED  BY <2>1, <2>2, <2>3 DEF Moved
<1>4. /\ Conn(header.tcb) /\ Kept(t, header.tcb) /\ Moved(t, pool, header.tcb, header.pool)
      /\ header.tcb.nxt + Len(header.tcb.queue) <= t.nxt + Len(t.queue) + 1
  BY <1>2, <1>3, AfterSendSound
<1> HIDE DEF header
<1>5. header.tcb.nxt + Len(header.tcb.queue) + n + FinLeft(header.tcb) <= MaxSend
      /\ Clean(header.tcb, header.pool)
  <2> DEFINE a == header.tcb.nxt
             b == Len(header.tcb.queue)
             c == t.nxt
             d == Len(t.queue)
  <2>1. a \in Nat /\ b \in Nat /\ FinLeft(header.tcb) \in {0, 1}
    BY <1>4, ConnTypes
  <2>2. a + b <= c + d + 1 /\ c + d + n + 2 <= MaxSend /\ c \in Nat /\ d \in Nat
    BY <1>3, <1>4
  <2> HIDE DEF a, b, c, d
  <2>3. a + b + n + FinLeft(header.tcb) <= MaxSend
    BY <1>2, <1>3, <2>1, <2>2
  <2>4. QED  BY <1>4, <2>3 DEF a, b, Moved
<1>6. Conn(both.tcb) /\ Kept(header.tcb, both.tcb) /\ Moved(header.tcb, header.pool, both.tcb, both.pool)
  BY <1>2, <1>4, <1>5, AfterSendSound
<1> HIDE DEF both
<1>7. Moved(tcb[i], free, both.tcb, both.pool)
  BY <1>4, <1>6, MovedTrans
<1>8. Conn(FinSeen(both.tcb, seg)) /\ Moved(tcb[i], free, FinSeen(both.tcb, seg), both.pool)
  <2>1. both.tcb.state # "synReceived" /\ (seg.fin => both.tcb.rcv <= both.tcb.units + 1)
    BY <1>4, <1>6 DEF Kept
  <2>2. QED  BY <1>6, <1>7, <2>1, FinSeenSound, SameQueues
<1>9. QED  BY <1>3, <1>8, MovedPut

LEMMA TextSound ==
  ASSUME IInv, NEW i \in Tcbs, InUse(i), NEW t, NEW pool, NEW seg,
         Conn(t), Moved(tcb[i], free, t, pool), t.state = "established",
         seg.fin \in BOOLEAN, seg.seq <= t.units, seg.fin => seg.seq + 1 = t.units + 1,
         Text(i, t, pool, seg)
  PROVE  IInv'
<1>1. CASE ~ TextIsNext(t, seg)
  BY <1>1, MovedPut DEF Text
<1>2. CASE TextIsNext(t, seg)
  <2> DEFINE g == [t EXCEPT !.rcv = @ + 1, !.given = Append(@, seg.seq)]
  <2>1. Put(i, FinSeen(g, seg), pool) \/ Reply(i, g, pool, seg) \/ FreeTcb(i, g, pool)
    BY <1>2 DEF Text
  <2>2. /\ Conn(g) /\ g.rtx = t.rtx /\ g.queue = t.queue /\ g.state = t.state
        /\ g.rcv = t.rcv + 1 /\ g.units = t.units
    BY <1>2, GivenSound DEF TextIsNext
  <2> HIDE DEF g
  <2>3. g.state # "synReceived" /\ (seg.fin => g.rcv <= g.units + 1) /\ Moved(tcb[i], free, g, pool)
    <3>1. t.rcv \in Nat /\ t.units \in Nat /\ (seg.fin => t.rcv + 1 = t.units + 1)
      BY <1>2, TcpAssumption DEF TextIsNext, Conn, TcbType
    <3>2. QED  BY <2>2, <3>1, SameQueues
  <2>4. CASE Put(i, FinSeen(g, seg), pool)
    <3>1. Conn(FinSeen(g, seg)) /\ Moved(tcb[i], free, FinSeen(g, seg), pool)
      BY <2>2, <2>3, FinSeenSound, SameQueues
    <3>2. QED  BY <2>4, <3>1, MovedPut
  <2>5. CASE Reply(i, g, pool, seg)
    BY <2>2, <2>3, <2>5, ReplySound
  <2>6. CASE FreeTcb(i, g, pool)
    BY <2>2, <2>3, <2>6, MovedFree
  <2>7. QED  BY <2>1, <2>4, <2>5, <2>6
<1>3. QED  BY <1>1, <1>2

LEMMA HandshakeSound ==
  ASSUME IInv, NEW i \in Tcbs, InUse(i), NEW seg, seg.ack \in Nat, seg.wnd \in Nat,
         Handshake(i, seg)
  PROVE  IInv'
<1> DEFINE t == tcb[i]
           a == RtxOnAck(t, seg.ack)
           after == free \cup FreedBy(t, seg.ack)
           u == [a EXCEPT !.state = "established", !.wnd = seg.wnd]
<1>1. Conn(t) /\ Clean(t, free)
  BY DEF IInv
<1>2. t.state = "synReceived" /\ seg.ack <= t.nxt /\ Put(i, u, after)
  BY <1>1, ConnTypes DEF Handshake
<1>3. Conn(a) /\ Moved(t, free, a, after) /\ a.state = "synReceived"
  BY <1>1, <1>2, AckTaken
<1> HIDE DEF a, after
<1>4. Conn(u) /\ u.rtx = a.rtx /\ u.queue = a.queue
  BY <1>3, Established
<1>5. Moved(t, free, u, after)
  BY <1>3, <1>4, SameQueues
<1>6. QED  BY <1>2, <1>4, <1>5, MovedPut

LEMMA LastAckSound ==
  ASSUME IInv, NEW i \in Tcbs, InUse(i), NEW seg, seg.fin \in BOOLEAN,
         seg.fin => tcb[i].rcv <= tcb[i].units + 1, LastAck(i, seg)
  PROVE  IInv'
<1> DEFINE t == tcb[i]
           u == [t EXCEPT !.rcv = @ + 1]
<1>1. Conn(t) /\ Moved(t, free, t, free) /\ t.state = "lastAck"
  BY NothingMoved DEF IInv, LastAck
<1>2. FreeTcb(i, t, free) \/ (seg.fin /\ Put(i, u, free)) \/ Put(i, t, free)
  BY DEF LastAck
<1>3. CASE seg.fin /\ Put(i, u, free)
  <2>1. FinSeen(t, seg) = u
    <3>1. t \in TcbType
      BY <1>1, ConnTypes
    <3>2. QED  BY <1>1, <1>3, <3>1 DEF FinSeen, TcbType
  <2> HIDE DEF t, u
  <2>2. Conn(u) /\ u.rtx = t.rtx /\ u.queue = t.queue
    BY <1>1, <2>1, FinSeenSound DEF t
  <2>3. Moved(t, free, u, free)
    BY <1>1, <2>2, SameQueues
  <2>4. QED  BY <1>3, <2>2, <2>3, MovedPut DEF t
<1>4. QED  BY <1>1, <1>2, <1>3, MovedPut, MovedFree

LEMMA DataSound ==
  ASSUME IInv, NEW i \in Tcbs, InUse(i), NEW seg \in Segments(tcb[i]), Acceptable(tcb[i], seg),
         Data(i, seg)
  PROVE  IInv'
<1> DEFINE t == tcb[i]
<1>1. Conn(t) /\ Clean(t, free) /\ t.state \in {"established", "closeWait"}
  BY DEF IInv, Data
<1>2. /\ seg.len \in {0, 1} /\ seg.fin \in BOOLEAN /\ seg.ack \in Nat /\ seg.wnd \in Nat
      /\ seg.fin => seg.seq + seg.len = t.units + 1 /\ t.rcv <= t.units + 1
      /\ seg.len = 1 => seg.seq <= t.units
  BY <1>1, SegmentFacts
<1>3. PICK newer \in BOOLEAN :
        LET a == Acked(t, free, seg, newer)
        IN IF a.tcb.state = "established" /\ seg.len = 1
             THEN Text(i, a.tcb, a.pool, seg)
             ELSE Put(i, FinSeen(a.tcb, seg), a.pool)
  BY DEF Data
<1> DEFINE a == Acked(t, free, seg, newer)
<1>4. /\ Conn(a.tcb) /\ Moved(t, free, a.tcb, a.pool)
      /\ a.tcb.state = t.state /\ a.tcb.rcv = t.rcv /\ a.tcb.units = t.units
  BY <1>1, <1>2, DataAcked
<1>5. CASE a.tcb.state = "established" /\ seg.len = 1
  <2>1. Text(i, a.tcb, a.pool, seg)
    BY <1>3, <1>5
  <2> HIDE DEF a
  <2>2. QED  BY <1>2, <1>4, <1>5, <2>1, TextSound
<1>6. CASE ~ (a.tcb.state = "established" /\ seg.len = 1)
  <2>1. Put(i, FinSeen(a.tcb, seg), a.pool)
    BY <1>3, <1>6
  <2> HIDE DEF a
  <2>2. Conn(FinSeen(a.tcb, seg)) /\ Moved(t, free, FinSeen(a.tcb, seg), a.pool)
    BY <1>1, <1>2, <1>4, FinSeenSound, SameQueues
  <2>3. QED  BY <2>1, <2>2, MovedPut
<1>7. QED  BY <1>5, <1>6

LEMMA InputSound ==
  ASSUME IInv, NEW i \in Tcbs, Input(i) PROVE IInv'
<1>1. InUse(i) /\ Conn(tcb[i])
  BY DEF Input, IInv
<1>2. PICK seg \in Segments(tcb[i]) :
        Acceptable(tcb[i], seg) /\ (Handshake(i, seg) \/ LastAck(i, seg) \/ Data(i, seg))
  BY DEF Input
<1>3. /\ seg.fin \in BOOLEAN /\ seg.ack \in Nat /\ seg.wnd \in Nat
      /\ seg.fin => tcb[i].rcv <= tcb[i].units + 1
  BY <1>1, <1>2, SegmentFacts
<1>4. QED  BY <1>1, <1>2, <1>3, HandshakeSound, LastAckSound, DataSound

LEMMA InputResetSound ==
  ASSUME IInv, NEW i \in Tcbs, InputReset(i) PROVE IInv'
BY NothingMoved, MovedFree DEF InputReset, IInv

LEMMA InputSynSound ==
  ASSUME IInv, InputSyn PROVE IInv'
<1>1. PICK i \in Tcbs : ~ InUse(i) /\ \E units \in 0 .. MaxUnits :
            Put(i, SendControl([state |-> "synReceived", una |-> 0, nxt |-> 0, rcv |-> 1,
                                wnd |-> 0, rtx |-> <<>>, queue |-> <<>>, full |-> FALSE,
                                units |-> units, given |-> <<>>]), free)
  BY DEF InputSyn
<1>2. PICK units \in 0 .. MaxUnits :
            Put(i, SendControl([state |-> "synReceived", una |-> 0, nxt |-> 0, rcv |-> 1,
                                wnd |-> 0, rtx |-> <<>>, queue |-> <<>>, full |-> FALSE,
                                units |-> units, given |-> <<>>]), free)
  BY <1>1
<1> DEFINE t == [state |-> "synReceived", una |-> 0, nxt |-> 0, rcv |-> 1, wnd |-> 0,
                 rtx |-> <<>>, queue |-> <<>>, full |-> FALSE, units |-> units, given |-> <<>>]
           u == SendControl(t)
           rtx == u.rtx
<1>3. /\ t \in TcbType /\ Len(t.rtx) = 0 /\ Len(t.queue) = 0 /\ t.una = 0 /\ t.nxt = 0
      /\ t.rcv = 1 /\ t.units = units /\ Len(t.given) = 0 /\ t.state = "synReceived"
  <2>1. 0 \in 0 .. MaxSend /\ 1 \in 1 .. MaxUnits + 2 /\ 0 \in Nat /\ "synReceived" \in States \ {"closed"}
    BY TcpAssumption DEF States
  <2>2. t \in TcbType
    BY <2>1 DEF TcbType
  <2>3. QED  BY <2>2
<1>4. Conn(t) /\ t.nxt + 1 <= MaxSend
  <2>1. FinLeft(t) = 1
    BY <1>3 DEF FinLeft
  <2>2. 0 <= kTcpUnackMax /\ 0 + 0 + 1 <= MaxSend /\ 1 <= units + 2 /\ 0 + 1 <= MaxSend
    BY TcpAssumption
  <2> HIDE DEF t
  <2>3. \A k \in 1 .. Len(t.given) : t.given[k] = k
    BY <1>3
  <2>4. QED  BY <1>3, <2>1, <2>2, <2>3 DEF Conn
<1>5. BlocksIn(t) = {} /\ Clean(t, free)
  <2> HIDE DEF t
  <2>1. BlocksIn(t) = {} /\ Single(t)
    BY <1>3 DEF BlocksIn, BlocksOf, Elements, Single
  <2>2. QED  BY <2>1 DEF Clean, IInv
<1> HIDE DEF t
<1>6. /\ u = [t EXCEPT !.rtx = rtx, !.nxt = t.nxt + 1]
      /\ rtx \in Seq(RtxSeg) /\ Len(rtx) <= kTcpUnackMax
      /\ Moved(t, free, u, free)
  BY <1>4, <1>5, SendControlSound
<1> HIDE DEF u, rtx
<1>7. 1 \in 0 .. MaxSend
  BY TcpAssumption
<1>8. /\ u \in TcbType /\ u.rtx = rtx /\ u.queue = t.queue /\ u.una = 0 /\ u.nxt = 1
      /\ u.rcv = 1 /\ u.units = units /\ u.given = t.given /\ u.state = "synReceived"
  <2>1. u = [t EXCEPT !.rtx = rtx, !.nxt = 1]
    BY <1>3, <1>6
  <2>2. u \in TcbType
    BY <1>3, <1>6, <1>7, <2>1 DEF TcbType
  <2>3. QED  BY <1>3, <2>1, <2>2 DEF TcbType
<1>9. Conn(u)
  <2>1. FinLeft(u) = 1
    BY <1>8 DEF FinLeft
  <2>2. 1 + 0 + 1 <= MaxSend /\ 1 <= units + 2 /\ 0 <= 1 /\ 1 = 0 + 1
    BY TcpAssumption
  <2>3. \A k \in 1 .. Len(u.given) : u.given[k] = k
    BY <1>3, <1>8
  <2>4. QED  BY <1>3, <1>6, <1>8, <2>1, <2>2, <2>3 DEF Conn
<1>10. Have(i) = {}
  BY <1>1 DEF Have
<1>11. Put(i, u, free) /\ free \in SUBSET Blocks
  BY <1>2 DEF IInv, u, t
<1>12. QED  BY <1>1, <1>5, <1>6, <1>9, <1>10, <1>11, PutSound DEF Moved

-----------------------------------------------------------------------------
(* The invariant. *)

LEMMA InitSound == ASSUME Init PROVE IInv
BY DEF Init, IInv, InUse, Have, Closed

LEMMA StepSound == ASSUME IInv, [Next]_vars PROVE IInv'
<1>1. CASE UNCHANGED vars
  BY <1>1 DEF vars, IInv, InUse, Have
<1>2. CASE Next
  BY <1>2, InputSynSound, InputResetSound, InputSound, RunSound DEF Next
<1>3. QED  BY <1>1, <1>2

LEMMA Always == Spec => []IInv
<1>1. Init => IInv
  BY InitSound
<1>2. IInv /\ [Next]_vars => IInv'
  BY StepSound
<1>3. QED  BY <1>1, <1>2, PTL DEF Spec

\* The queues and sequence numbers of a connection stay within their arrays and
\* bounds (TypeOK; Tcb, RtxQueue and Queue of tcp.cpp).
THEOREM TypeCorrect == Spec => []TypeOK
<1>1. IInv => TypeOK
  BY DEF IInv, TypeOK, Conn
<1>2. QED  BY <1>1, Always, PTL

\* The application gets what the peer sent, once and in order, whatever is lost,
\* repeated or reordered (InOrder; the text part of Input).
THEOREM ReadsInOrder == Spec => []InOrder
<1>1. ASSUME IInv, NEW i \in Tcbs, InUse(i)
      PROVE  tcb[i].given = [k \in 1 .. Len(tcb[i].given) |-> k]
  <2> DEFINE g == tcb[i].given
  <2>1. g \in Seq(1 .. MaxUnits) /\ \A k \in 1 .. Len(g) : g[k] = k
    BY <1>1 DEF IInv, Conn, TcbType
  <2> HIDE DEF g
  <2>2. g = [k \in 1 .. Len(g) |-> g[k]]
    BY <2>1
  <2>3. QED  BY <2>1, <2>2 DEF g
<1>2. IInv => InOrder
  BY <1>1 DEF InOrder
<1>3. QED  BY <1>2, Always, PTL

\* Two places that hold a block are one place.
LEMMA OneOwner ==
  ASSUME IInv, NEW b \in Blocks, NEW i \in Tcbs, NEW j \in Tcbs,
         NEW q \in {"rtx", "queue"}, NEW r \in {"rtx", "queue"}, NEW k \in Nat \ {0},
         NEW l \in Nat \ {0}, Holds(i, q, k, b), Holds(j, r, l, b)
  PROVE  i = j /\ q = r /\ k = l /\ b \notin free
<1>1. ASSUME NEW h \in Tcbs, NEW p, NEW m \in Nat \ {0}, Holds(h, p, m, b)
      PROVE  /\ InUse(h) /\ Conn(tcb[h]) /\ Clean(tcb[h], free) /\ b \in Have(h)
             /\ p = "rtx" => m \in 1 .. Len(tcb[h].rtx) /\ tcb[h].rtx[m].block = b
                             /\ b \in BlocksOf(tcb[h].rtx)
             /\ p = "queue" => m \in 1 .. Len(tcb[h].queue) /\ tcb[h].queue[m] = b
                               /\ b \in Elements(tcb[h].queue)
  <2>1. InUse(h) /\ Conn(tcb[h]) /\ Clean(tcb[h], free) /\ b # NoBlock
    BY <1>1, NoBlockIsNone DEF Holds, IInv
  <2>2. Len(tcb[h].rtx) \in Nat /\ Len(tcb[h].queue) \in Nat
    BY <2>1, ConnTypes
  <2>3. CASE p = "rtx" /\ m <= Len(tcb[h].rtx) /\ tcb[h].rtx[m].block = b
    BY <2>1, <2>2, <2>3 DEF BlocksOf, BlocksIn, Have
  <2>4. CASE p = "queue" /\ m <= Len(tcb[h].queue) /\ tcb[h].queue[m] = b
    BY <2>1, <2>2, <2>4 DEF Elements, BlocksIn, Have
  <2>5. QED  BY <1>1, <2>3, <2>4 DEF Holds
<1>2. i = j /\ b \notin free
  BY <1>1 DEF IInv, Clean, Have
<1>3. q = r
  <2>1. Single(tcb[i])
    BY <1>1 DEF Clean
  <2>2. BlocksOf(tcb[i].rtx) \cap Elements(tcb[i].queue) = {}
    BY <2>1 DEF Single
  <2>3. ~ (q = "rtx" /\ r = "queue")
    BY <1>1, <1>2, <2>2
  <2>4. ~ (q = "queue" /\ r = "rtx")
    BY <1>1, <1>2, <2>2
  <2>5. QED  BY <2>3, <2>4
<1>4. k = l
  BY <1>1, <1>2, <1>3, NoBlockIsNone DEF Clean, Single
<1>5. QED  BY <1>2, <1>3, <1>4

\* A block of the pool is never given twice (OwnedOnce; Allocate and Free along
\* acknowledgements, drops, flushes and closes).
THEOREM BlocksOwnedOnce == Spec => []OwnedOnce
<1>1. ASSUME IInv, NEW b \in Blocks
      PROVE  Cardinality(Owners(b)) + (IF b \in free THEN 1 ELSE 0) <= 1
  <2>1. ASSUME NEW o \in Owners(b), NEW p \in Owners(b) PROVE o = p /\ b \notin free
    <3>1. /\ o = <<o[1], o[2], o[3]>> /\ o[1] \in Tcbs /\ o[2] \in {"rtx", "queue"}
          /\ o[3] \in Nat \ {0} /\ Holds(o[1], o[2], o[3], b)
      BY DEF Owners
    <3>2. /\ p = <<p[1], p[2], p[3]>> /\ p[1] \in Tcbs /\ p[2] \in {"rtx", "queue"}
          /\ p[3] \in Nat \ {0} /\ Holds(p[1], p[2], p[3], b)
      BY DEF Owners
    <3>3. o[1] = p[1] /\ o[2] = p[2] /\ o[3] = p[3] /\ b \notin free
      BY <1>1, <3>1, <3>2, OneOwner
    <3>4. QED  BY <3>1, <3>2, <3>3
  <2>2. CASE Owners(b) = {}
    BY <2>2, FS_EmptySet
  <2>3. CASE Owners(b) # {}
    <3>1. PICK o \in Owners(b) : TRUE
      BY <2>3
    <3>2. Owners(b) = {o} /\ b \notin free
      BY <2>1, <3>1
    <3>3. Cardinality(Owners(b)) = 1
      BY <3>2, FS_Singleton
    <3>4. QED  BY <3>2, <3>3
  <2>4. QED  BY <2>2, <2>3
<1>2. IInv => OwnedOnce
  BY <1>1 DEF OwnedOnce
<1>3. QED  BY <1>2, Always, PTL
=============================================================================
