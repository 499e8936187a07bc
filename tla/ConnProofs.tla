----------------------------- MODULE ConnProofs -----------------------------
(***************************************************************************)
(* Proofs about Conn: for any number of goroutines, messages of any size   *)
(* and any traffic of the server, commands are never mixed or sent twice,  *)
(* what is on its way stays on its way, lines are returned whole and in    *)
(* order, and every PING is answered.                                      *)
(***************************************************************************)
EXTENDS Conn, FiniteSetTheorems, SequenceTheorems, TLAPS

Wire == Msgs \X (1..Size)

\* A goroutine is past the mutex exactly while it holds it, and sends its own
\* message only after the rest of the last one; that message is its own, and no
\* unit of it is on its way.
TxInv ==
  \A p \in Procs :
    /\ tx[p] \in {"flush", "send"} <=> writeMutex = p
    /\ tx[p] = "send" => residual = <<>>
    /\ tx[p] # "idle" => /\ txMsg[p] \in 1..Len(owner)
                         /\ owner[txMsg[p]] = p
                         /\ \A i \in 1..Blocks : Block(i) # txMsg[p]

\* What is on its way was passed to WriteMsg.
BlocksInv == \A i \in 1..Blocks : Block(i) \in 1..Len(owner)

\* Nobody reads from the connection before the source is empty, no line returned
\* ends after what was consumed, and a line whose beginning is gone is torn.
RxInv ==
  /\ got \in Seq(Nat \X Nat)
  /\ Len(got) >= Prepended - msgs
  /\ doneMsgs => msgs = 0
  /\ msgs > 0 => Len(got) = Prepended - msgs /\ consumed = 0
  /\ \A r \in Readers : rx[r] \in {"rlock", "reading", "ping", "pong"} => msgs = 0
  /\ \A i \in FromConn : got[i][2] <= consumed
  /\ WholeLine \/ Line \in torn

\* The PINGs returned, and those that were not begun.
Returned(g) == {i \in DOMAIN g : g[i][1] > 0 /\ g[i][1] % Size = 1 % Size
                                   /\ Incoming[g[i][2] \div Size] = "PING"}
Ahead(n) == {k \in DOMAIN Incoming : Incoming[k] = "PING" /\ k > n \div Size}
WrittenBy(procs, o) == {i \in DOMAIN o : o[i] \in procs}
AtPing(pcs) == {r \in Readers : pcs[r] = "ping"}

\* There is room for the PONGs.
RoomInv ==
  /\ Cardinality(WrittenBy(Writers, owner)) + Pings <= MaxMsgs
  /\ Cardinality(Returned(got)) + Cardinality(Ahead(consumed)) <= Pings

\* Only a message that was passed to WriteMsg has failed.
PongInv == PongsGoOut /\ \A m \in Msgs : outcome[m] = "error" => m <= Len(owner)

\* The types of what writing and reading change.
WriteTypes ==
  /\ writeMutex \in Procs \cup {Nobody}
  /\ residual \in Seq(Wire) /\ Len(residual) < Size
  /\ wire \in Seq(Wire)
  /\ tx \in [Procs -> {"idle", "lock", "flush", "send"}]
  /\ txMsg \in [Procs -> 0..MaxMsgs]
  /\ owner \in Seq(Procs) /\ Len(owner) <= MaxMsgs
  /\ outcome \in [Msgs -> {"none", "ok", "error"}]
ReadTypes ==
  /\ readMutex \in Readers \cup {Nobody}
  /\ pMutex \in Readers \cup {Nobody}
  /\ rx \in [Readers -> {"idle", "plock", "prepended", "rlock", "reading", "ping", "pong"}]
  /\ msgs \in 0..Prepended
  /\ doneMsgs \in BOOLEAN
  /\ torn \subseteq DOMAIN Incoming
  /\ arrived \in 0..Total /\ consumed \in 0..arrived
NetTypes == teardown \in BOOLEAN /\ net \in {"open", "broken", "closed"}

\* The type invariant, part by part.
LEMMA TypesAre == TypeOK <=> WriteTypes /\ ReadTypes /\ NetTypes
BY Zenon DEF TypeOK, WriteTypes, ReadTypes, NetTypes, Wire

\* The inductive invariant: the side that writes, the side that reads, and what
\* connects them.
WriteInv == WriteTypes /\ Framed /\ AcceptedOnce /\ TxInv /\ BlocksInv
ReadInv == ReadTypes /\ PrependedFirst /\ LinesWhole /\ RxInv
PingInv == EachAnswered /\ RoomInv
ConnInv == WriteInv /\ ReadInv /\ PingInv /\ PongInv /\ NetTypes

-----------------------------------------------------------------------------
(* Arithmetic, sequences and counting.                                     *)

\* The constants are numbers.
LEMMA Constants ==
  /\ Size \in Nat /\ Size >= 1 /\ MaxMsgs \in Nat /\ Prepended \in Nat
  /\ Len(Incoming) \in Nat /\ DOMAIN Incoming = 1..Len(Incoming)
  /\ Total \in Nat
<1>1. Len(Incoming) \in Nat /\ DOMAIN Incoming = 1..Len(Incoming)
  BY IncomingAssumption
<1>2. QED
  BY <1>1, SizeAssumption DEF Total

\* What division by the size of a message yields.
LEMMA Divided ==
  ASSUME NEW a \in Nat
  PROVE  /\ a \div Size \in Nat /\ a % Size \in 0..Size - 1
         /\ a = (a \div Size) * Size + (a % Size)
BY SizeAssumption

\* Of two messages the units of the one come before those of the other.
LEMMA Ordered ==
  ASSUME NEW i \in Nat, NEW j \in Nat, i < j
  PROVE  i * Size \in Nat /\ j * Size \in Nat /\ i * Size + Size <= j * Size
<1>1. j * Size = i * Size + (j - i) * Size /\ (j - i) * Size >= Size
  BY SizeAssumption
<1>2. QED
  BY <1>1, SizeAssumption

\* The unit r of the message after q others belongs to that message.
LEMMA Quotient ==
  ASSUME NEW q \in Nat, NEW r \in 0..Size - 1
  PROVE  /\ q * Size \in Nat
         /\ (q * Size + r) \div Size = q
         /\ (q * Size + r) % Size = r
<1> DEFINE a == q * Size + r
           d == a \div Size
           m == a % Size
<1>1. q * Size \in Nat /\ a \in Nat
  BY SizeAssumption
<1>2. d \in Nat /\ m \in 0..Size - 1 /\ a = d * Size + m
  BY <1>1, Divided
<1> HIDE DEF d, m
<1>3. ~(d < q)
  BY <1>1, <1>2, Ordered, SizeAssumption
<1>4. ~(q < d)
  BY <1>1, <1>2, Ordered, SizeAssumption
<1>5. d = q /\ m = r
  BY <1>1, <1>2, <1>3, <1>4, SizeAssumption
<1>6. QED
  BY <1>1, <1>5 DEF d, m

\* Messages end where the next one begins.
LEMMA Multiple ==
  ASSUME NEW k \in Nat
  PROVE  /\ k * Size \in Nat
         /\ (k * Size) % Size = 0
         /\ (k * Size) \div Size = k
         /\ (k + 1) * Size = k * Size + Size
<1>1. k * Size + 0 = k * Size /\ (k + 1) * Size = k * Size + Size
  BY SizeAssumption
<1>2. QED
  BY <1>1, Quotient, SizeAssumption

\* The same where nothing was written or read.
LEMMA Zero == 0 * Size = 0 /\ 0 \div Size = 0 /\ 0 % Size = 0
<1>1. 0 * Size = 0
  BY SizeAssumption
<1>2. (0 * Size) \div Size = 0 /\ (0 * Size) % Size = 0
  BY Multiple
<1>3. QED
  BY <1>1, <1>2

\* The i-th of n messages lies within them.
LEMMA Within ==
  ASSUME NEW n \in Nat, NEW i \in 1..n
  PROVE  /\ i * Size \in 1..n * Size
         /\ (i - 1) * Size \in Nat
         /\ i * Size = (i - 1) * Size + Size
BY SizeAssumption

\* Sequences can be put together in either order.
LEMMA Regroup ==
  ASSUME NEW S, NEW s \in Seq(S), NEW t \in Seq(S), NEW u \in Seq(S)
  PROVE  (s \o t) \o u = s \o (t \o u)
BY ConcatAssociative

\* A sequence cut in two.
LEMMA CutInTwo ==
  ASSUME NEW S, NEW t \in Seq(S), NEW n \in 0..Len(t)
  PROVE  /\ SubSeq(t, 1, n) \in Seq(S) /\ SubSeq(t, n + 1, Len(t)) \in Seq(S)
         /\ Len(SubSeq(t, n + 1, Len(t))) = Len(t) - n
         /\ SubSeq(t, 1, n) \o SubSeq(t, n + 1, Len(t)) = t
<1>1. Len(t) \in Nat /\ SubSeq(t, 1, Len(t)) = t
  BY SubSeqFull, LenProperties
<1>2. SubSeq(t, 1, n) \o SubSeq(t, n + 1, Len(t)) = t
  <2>1. 1 \in 1..Len(t) + 1 /\ n \in (1 - 1)..Len(t) /\ Len(t) \in n..Len(t)
    BY <1>1
  <2>2. SubSeq(t, 1, n) \o SubSeq(t, n + 1, Len(t)) = SubSeq(t, 1, Len(t))
    BY <2>1, ConcatAdjacentSubSeq, Zenon
  <2>3. QED
    BY <1>1, <2>2, Zenon
<1>3. SubSeq(t, 1, n) \in Seq(S) /\ SubSeq(t, n + 1, Len(t)) \in Seq(S)
  <2>1. \A i \in 1..n : t[i] \in S
    BY <1>1
  <2>2. \A i \in n + 1..Len(t) : t[i] \in S
    BY <1>1
  <2>3. 1 \in Int /\ n \in Int /\ n + 1 \in Int /\ Len(t) \in Int
    BY <1>1
  <2>4. QED
    BY <2>1, <2>2, <2>3, SubSeqProperties, Zenon
<1>4. Len(SubSeq(t, n + 1, Len(t))) = Len(t) - n
  OBVIOUS
<1>5. QED
  BY <1>2, <1>3, <1>4, Zenon

\* Two sequences, one after the other.
LEMMA Joined ==
  ASSUME NEW S, NEW s \in Seq(S), NEW u \in Seq(S)
  PROVE  /\ s \o u \in Seq(S) /\ Len(s \o u) = Len(s) + Len(u)
         /\ \A k \in 1..Len(s) : (s \o u)[k] = s[k]
         /\ \A j \in 1..Len(u) : (s \o u)[Len(s) + j] = u[j]
         /\ \A lo, hi \in 1..Len(s) : SubSeq(s \o u, lo, hi) = SubSeq(s, lo, hi)
         /\ SubSeq(s \o u, Len(s) + 1, Len(s) + Len(u)) = u
         /\ IsPrefix(s, s \o u)
<1> DEFINE t == s \o u
<1>1. t \in Seq(S) /\ Len(t) = Len(s) + Len(u)
  BY ConcatProperties
<1>2. \A k \in 1..Len(s) : t[k] = s[k]
  OBVIOUS
<1>3. \A j \in 1..Len(u) : t[Len(s) + j] = u[j]
  OBVIOUS
<1>4. Len(s) \in Nat /\ Len(u) \in Nat
  OBVIOUS
<1> HIDE DEF t
<1>5. \A lo, hi \in 1..Len(s) : SubSeq(t, lo, hi) = SubSeq(s, lo, hi)
  BY <1>1, <1>2, <1>4
<1>6. SubSeq(t, Len(s) + 1, Len(s) + Len(u)) = u
  <2>1. Len(SubSeq(t, Len(s) + 1, Len(s) + Len(u))) = Len(u)
    BY <1>1, <1>4
  <2>2. \A i \in 1..Len(u) : SubSeq(t, Len(s) + 1, Len(s) + Len(u))[i] = u[i]
    BY <1>1, <1>4, <1>3
  <2>3. SubSeq(t, Len(s) + 1, Len(s) + Len(u)) \in Seq(S)
    BY <1>1, <1>4
  <2>4. QED
    BY <2>1, <2>2, <2>3, SeqEqual
<1>7. IsPrefix(s, t)
  <2>1. Len(s) <= Len(t) /\ SubSeq(t, 1, Len(s)) \in Seq(S) /\ SubSeq(s, 1, Len(s)) \in Seq(S)
    BY <1>1, <1>4
  <2>2. Len(SubSeq(t, 1, Len(s))) = Len(s) /\ Len(SubSeq(s, 1, Len(s))) = Len(s)
    BY <1>1, <1>4
  <2>3. \A i \in 1..Len(s) : SubSeq(t, 1, Len(s))[i] = SubSeq(s, 1, Len(s))[i]
    BY <1>1, <1>2, <1>4
  <2>4. SubSeq(s, 1, Len(s)) = SubSeq(t, 1, Len(s))
    BY <2>1, <2>2, <2>3, SeqEqual
  <2>5. QED
    BY <2>1, <2>4 DEF IsPrefix
<1>8. QED
  BY <1>1, <1>2, <1>3, <1>5, <1>6, <1>7, Zenon DEF t

\* A sequence of units of whole messages, and its messages.
BlockOf(s, i) == s[i * Size][1]
Whole(s, n) ==
  /\ Len(s) = n * Size
  /\ \A i \in 1..n : SubSeq(s, (i - 1) * Size + 1, i * Size) = Units(BlockOf(s, i))

\* Whole messages stay whole when one is put after them.
LEMMA WholeGrows ==
  ASSUME NEW s \in Seq(Wire), NEW n \in Nat, Whole(s, n), NEW m \in Msgs
  PROVE  /\ Whole(s \o Units(m), n + 1)
         /\ \A i \in 1..n : BlockOf(s \o Units(m), i) = BlockOf(s, i)
         /\ BlockOf(s \o Units(m), n + 1) = m
         /\ IsPrefix(s, s \o Units(m))
<1> DEFINE u == Units(m)
           t == s \o u
<1>1. u \in Seq(Wire) /\ Len(u) = Size /\ u[Size] = <<m, Size>>
  BY Constants DEF Units, Wire
<1>2. /\ Len(s) = n * Size /\ n * Size \in Nat
      /\ n * Size + Size = (n + 1) * Size /\ n + 1 \in Nat
  BY Multiple DEF Whole
<1> HIDE DEF u
<1>3. /\ t \in Seq(Wire) /\ Len(t) = Len(s) + Len(u)
      /\ \A k \in 1..Len(s) : t[k] = s[k]
      /\ \A j \in 1..Len(u) : t[Len(s) + j] = u[j]
      /\ \A lo, hi \in 1..Len(s) : SubSeq(t, lo, hi) = SubSeq(s, lo, hi)
      /\ SubSeq(t, Len(s) + 1, Len(s) + Len(u)) = u
      /\ IsPrefix(s, t)
  BY <1>1, Joined, Zenon
<1> HIDE DEF t
<1>4. /\ Len(t) = (n + 1) * Size
      /\ \A k \in 1..n * Size : t[k] = s[k]
      /\ \A lo, hi \in 1..n * Size : SubSeq(t, lo, hi) = SubSeq(s, lo, hi)
      /\ SubSeq(t, n * Size + 1, (n + 1) * Size) = u
      /\ t[(n + 1) * Size] = u[Size]
  <2>1. Size \in 1..Len(u) /\ Len(s) + Len(u) = (n + 1) * Size
    BY <1>1, <1>2, Constants
  <2>2. QED
    BY <1>1, <1>2, <1>3, <2>1, Zenon
<1>5. \A i \in 1..n : BlockOf(t, i) = BlockOf(s, i)
  BY <1>4, Within, Zenon DEF BlockOf
<1>6. BlockOf(t, n + 1) = m
  BY <1>1, <1>4, Constants DEF BlockOf
<1>7. ASSUME NEW i \in 1..n + 1
      PROVE  SubSeq(t, (i - 1) * Size + 1, i * Size) = Units(BlockOf(t, i))
  <2>1. CASE i \in 1..n
    <3>1. i * Size \in 1..n * Size /\ (i - 1) * Size + 1 \in 1..n * Size
      <4>1. i * Size \in 1..n * Size /\ (i - 1) * Size \in Nat /\ i * Size = (i - 1) * Size + Size
        BY <2>1, Within
      <4>2. QED
        BY <1>2, <4>1, Constants
    <3>2. SubSeq(s, (i - 1) * Size + 1, i * Size) = Units(BlockOf(s, i))
      BY <2>1 DEF Whole
    <3>3. QED
      BY <1>4, <1>5, <2>1, <3>1, <3>2, Zenon
  <2>2. CASE i = n + 1
    <3>1. (n + 1) - 1 = n
      OBVIOUS
    <3>2. SubSeq(t, (i - 1) * Size + 1, i * Size) = u
      BY <1>4, <2>2, <3>1, Zenon
    <3>3. QED
      BY <1>6, <2>2, <3>2, Zenon DEF u
  <2>3. i \in 1..n \/ i = n + 1
    OBVIOUS
  <2>4. QED
    BY <2>1, <2>2, <2>3
<1>8. QED
  BY <1>3, <1>4, <1>5, <1>6, <1>7 DEF Whole, t, u

\* What is on its way is a sequence of units, so many whole messages.
LEMMA StreamTyped ==
  ASSUME WriteTypes
  PROVE  /\ Stream \in Seq(Wire) /\ Len(Stream) \in Nat
         /\ Framed => /\ Blocks \in Nat /\ Len(Stream) = Blocks * Size
                      /\ \A i \in 1..Blocks : Block(i) \in Msgs
<1>1. Stream \in Seq(Wire) /\ Len(Stream) \in Nat
  BY DEF WriteTypes, Stream
<1> SUFFICES ASSUME Framed
             PROVE  /\ Blocks \in Nat /\ Len(Stream) = Blocks * Size
                    /\ \A i \in 1..Blocks : Block(i) \in Msgs
  BY <1>1
<1> DEFINE l == Len(Stream)
<1>2. l \div Size \in Nat /\ l = (l \div Size) * Size
  <2>1. l % Size = 0
    BY DEF Framed
  <2> HIDE DEF l
  <2>2. l \in Nat
    BY <1>1 DEF l
  <2>3. (l \div Size) * Size \in Nat
    BY <2>2, Divided, Multiple
  <2>4. QED
    BY <2>1, <2>2, <2>3, Divided
<1>3. ASSUME NEW i \in 1..Blocks
      PROVE  Block(i) \in Msgs
  <2>1. i * Size \in 1..Len(Stream)
    BY <1>2, Within DEF Blocks
  <2>2. Stream[i * Size] \in Wire
    BY <1>1, <2>1
  <2>3. QED
    BY <2>2 DEF Block, Wire
<1>4. QED
  BY <1>2, <1>3 DEF Blocks

\* A message that follows what is on its way leaves it as it was.
LEMMA StreamGrows ==
  ASSUME WriteTypes, Framed, NEW m \in Msgs, Stream' = Stream \o Units(m)
  PROVE  /\ Framed'
         /\ Blocks' = Blocks + 1
         /\ \A i \in 1..Blocks + 1 : Block(i)' = IF i = Blocks + 1 THEN m ELSE Block(i)
         /\ IsPrefix(Stream, Stream')
<1>1. Stream \in Seq(Wire) /\ Blocks \in Nat /\ Whole(Stream, Blocks)
  BY StreamTyped, Zenon DEF Whole, Framed, BlockOf, Block
<1>2. /\ Whole(Stream', Blocks + 1)
      /\ \A i \in 1..Blocks : BlockOf(Stream', i) = BlockOf(Stream, i)
      /\ BlockOf(Stream', Blocks + 1) = m
      /\ IsPrefix(Stream, Stream')
  BY <1>1, WholeGrows, Zenon
<1>3. Blocks' = Blocks + 1 /\ (Len(Stream) % Size)' = 0
  <2>1. Blocks + 1 \in Nat /\ Len(Stream') = (Blocks + 1) * Size
    BY <1>1, <1>2 DEF Whole
  <2>2. QED
    BY <2>1, Multiple, Zenon DEF Blocks
<1>4. Framed'
  BY <1>2, <1>3, Zenon DEF Framed, Whole, BlockOf, Block
<1>5. ASSUME NEW i \in 1..Blocks + 1
      PROVE  Block(i)' = IF i = Blocks + 1 THEN m ELSE Block(i)
  <2>1. i \in 1..Blocks \/ i = Blocks + 1
    BY <1>1
  <2>2. Block(i)' = BlockOf(Stream', i) /\ Block(i) = BlockOf(Stream, i)
    BY DEF Block, BlockOf
  <2>3. QED
    BY <1>1, <1>2, <2>1, <2>2
<1>6. QED
  BY <1>2, <1>3, <1>4, <1>5, Zenon

\* What concerns the stream stays while the stream does.
LEMMA StreamStays ==
  ASSUME WriteTypes, Stream' = Stream
  PROVE  /\ Framed => Framed'
         /\ Blocks' = Blocks
         /\ \A i \in 1..Blocks : Block(i)' = Block(i)
         /\ IsPrefix(Stream, Stream')
<1>1. Len(Stream) \in Nat
  BY DEF WriteTypes, Stream
<1>2. QED
  BY <1>1 DEF Framed, Blocks, Block, IsPrefix

-----------------------------------------------------------------------------
(* The side that writes.                                                   *)

\* With no new message on its way, the invariant is about who writes.
LEMMA StaysKeeps ==
  ASSUME WriteInv, WriteTypes', Stream' = Stream,
         Len(owner) <= Len(owner'), \A m \in 1..Len(owner) : owner'[m] = owner[m],
         \A p \in Procs :
           /\ tx'[p] \in {"flush", "send"} <=> writeMutex' = p
           /\ tx'[p] = "send" => residual' = <<>>
           /\ tx'[p] # "idle" => \/ tx[p] # "idle" /\ txMsg'[p] = txMsg[p]
                                 \/ /\ txMsg'[p] = Len(owner) + 1
                                    /\ txMsg'[p] \in 1..Len(owner')
                                    /\ owner'[txMsg'[p]] = p,
         \A m \in Msgs : outcome'[m] = "ok" => outcome[m] = "ok"
  PROVE  WriteInv' /\ IsPrefix(Stream, Stream')
<1>1. /\ Framed' /\ Blocks' = Blocks /\ Blocks \in Nat
      /\ \A i \in 1..Blocks : Block(i)' = Block(i)
      /\ IsPrefix(Stream, Stream')
  BY StreamStays, StreamTyped DEF WriteInv
<1>2. AcceptedOnce'
  BY <1>1 DEF WriteInv, AcceptedOnce
<1>3. Len(owner) \in Nat /\ Len(owner') \in Nat
  BY DEF WriteInv, WriteTypes
<1>4. BlocksInv'
  <2>1. ASSUME NEW i \in 1..Blocks
        PROVE  Block(i) \in 1..Len(owner')
    BY <1>3 DEF WriteInv, BlocksInv
  <2>2. QED
    BY <1>1, <2>1 DEF BlocksInv
<1>5. TxInv'
  <2>1. ASSUME NEW p \in Procs, tx'[p] # "idle"
        PROVE  /\ txMsg'[p] \in 1..Len(owner')
               /\ owner'[txMsg'[p]] = p
               /\ \A i \in 1..Blocks : Block(i) # txMsg'[p]
    <3>1. CASE tx[p] # "idle" /\ txMsg'[p] = txMsg[p]
      <4>1. /\ txMsg[p] \in 1..Len(owner) /\ owner[txMsg[p]] = p
            /\ \A i \in 1..Blocks : Block(i) # txMsg[p]
        BY <3>1 DEF WriteInv, TxInv
      <4>2. QED
        BY <1>3, <3>1, <4>1
    <3>2. CASE /\ txMsg'[p] = Len(owner) + 1 /\ txMsg'[p] \in 1..Len(owner')
               /\ owner'[txMsg'[p]] = p
      <4>1. \A i \in 1..Blocks : Block(i) \in 1..Len(owner)
        BY DEF WriteInv, BlocksInv
      <4>2. QED
        BY <1>3, <3>2, <4>1
    <3>3. QED
      BY <2>1, <3>1, <3>2
  <2>2. ASSUME NEW p \in Procs, tx'[p] # "idle", NEW i \in 1..Blocks'
        PROVE  Block(i)' # txMsg'[p]
    BY <1>1, <2>1, <2>2
  <2>3. QED
    BY <2>1, <2>2 DEF TxInv
<1>6. QED
  BY <1>1, <1>2, <1>4, <1>5 DEF WriteInv

\* A message passed to WriteMsg is new.
LEMMA WriteMsgStep ==
  ASSUME WriteInv, NEW p \in Procs, WriteMsg(p), Len(owner) < MaxMsgs
  PROVE  WriteInv' /\ IsPrefix(Stream, Stream')
<1>1. /\ owner' \in Seq(Procs) /\ Len(owner) \in Nat /\ Len(owner') = Len(owner) + 1
      /\ \A m \in 1..Len(owner) : owner'[m] = owner[m]
      /\ owner'[Len(owner) + 1] = p
  BY DEF WriteMsg, WriteInv, WriteTypes
<1>2. /\ tx[p] = "idle" /\ txMsg' = [txMsg EXCEPT ![p] = Len(owner) + 1]
      /\ tx' = tx \/ tx' = [tx EXCEPT ![p] = "lock"]
      /\ outcome' = outcome \/ outcome' = [outcome EXCEPT ![Len(owner) + 1] = "error"]
      /\ UNCHANGED <<writeMutex, residual, wire>>
  BY <1>1 DEF WriteMsg
<1>3. WriteTypes'
  <2>1. Len(owner) + 1 \in Msgs /\ Len(owner) + 1 \in 0..MaxMsgs
    BY <1>1, Constants DEF Msgs
  <2>2. tx' \in [Procs -> {"idle", "lock", "flush", "send"}]
    BY <1>2 DEF WriteInv, WriteTypes
  <2>3. txMsg' \in [Procs -> 0..MaxMsgs]
    BY <1>2, <2>1 DEF WriteInv, WriteTypes
  <2>4. outcome' \in [Msgs -> {"none", "ok", "error"}]
    BY <1>2, <2>1 DEF WriteInv, WriteTypes
  <2>5. owner' \in Seq(Procs) /\ Len(owner') <= MaxMsgs
    BY <1>1, Constants
  <2>6. QED
    BY <1>2, <2>2, <2>3, <2>4, <2>5 DEF WriteInv, WriteTypes
<1>4. Stream' = Stream
  BY <1>2 DEF Stream
<1>5. \A m \in Msgs : outcome'[m] = "ok" => outcome[m] = "ok"
  BY <1>2 DEF WriteInv, WriteTypes
<1>6. ASSUME NEW q \in Procs
      PROVE  /\ tx'[q] \in {"flush", "send"} <=> writeMutex' = q
             /\ tx'[q] = "send" => residual' = <<>>
             /\ tx'[q] # "idle" => \/ tx[q] # "idle" /\ txMsg'[q] = txMsg[q]
                                   \/ /\ txMsg'[q] = Len(owner) + 1
                                      /\ txMsg'[q] \in 1..Len(owner')
                                      /\ owner'[txMsg'[q]] = q
  <2>1. tx'[q] \in {"flush", "send"} <=> tx[q] \in {"flush", "send"}
    BY <1>2 DEF WriteInv, WriteTypes
  <2>2. tx'[q] = "send" => tx[q] = "send"
    BY <1>2 DEF WriteInv, WriteTypes
  <2>3. q # p => txMsg'[q] = txMsg[q] /\ tx'[q] = tx[q]
    BY <1>2 DEF WriteInv, WriteTypes
  <2>4. q = p => txMsg'[q] = Len(owner) + 1
    BY <1>2 DEF WriteInv, WriteTypes
  <2>5. QED
    BY <1>1, <1>2, <2>1, <2>2, <2>3, <2>4 DEF WriteInv, TxInv
<1>7. QED
  BY <1>1, <1>3, <1>4, <1>5, <1>6, StaysKeeps

\* txMsg returns: its caller is out of it, without the mutex.
LEMMA Returns ==
  ASSUME WriteInv, NEW p \in Procs, NEW result \in {"ok", "error"}, Return(p, result),
         tx[p] # "idle", tx[p] \in {"flush", "send"} \/ writeMutex = Nobody
  PROVE  /\ tx' \in [Procs -> {"idle", "lock", "flush", "send"}]
         /\ writeMutex' = Nobody
         /\ outcome' \in [Msgs -> {"none", "ok", "error"}]
         /\ \A q \in Procs : tx'[q] = IF q = p THEN "idle" ELSE tx[q]
         /\ \A q \in Procs \ {p} : tx[q] \notin {"flush", "send"}
         /\ txMsg[p] \in Msgs
         /\ \A m \in Msgs : outcome'[m] = IF m = txMsg[p] THEN result ELSE outcome[m]
<1>1. /\ tx \in [Procs -> {"idle", "lock", "flush", "send"}]
      /\ outcome \in [Msgs -> {"none", "ok", "error"}]
      /\ owner \in Seq(Procs) /\ Len(owner) <= MaxMsgs
  BY DEF WriteInv, WriteTypes
<1>2. txMsg[p] \in Msgs
  <2>1. txMsg[p] \in 1..Len(owner)
    BY DEF WriteInv, TxInv
  <2>2. QED
    BY <1>1, <2>1, Constants DEF Msgs
<1>3. writeMutex \in {p, Nobody} /\ writeMutex' = Nobody
  <2>1. tx[p] \in {"flush", "send"} => writeMutex = p
    BY DEF WriteInv, TxInv
  <2>2. QED
    BY <2>1 DEF Return, Unlock
<1>4. \A q \in Procs \ {p} : tx[q] \notin {"flush", "send"}
  BY <1>3, ProcsAssumption DEF WriteInv, TxInv
<1>5. QED
  BY <1>1, <1>2, <1>3, <1>4 DEF Return

\* The mutex is had, or the deadline has passed.
LEMMA TxLockStep ==
  ASSUME WriteInv, NEW p \in Procs, TxLock(p)
  PROVE  WriteInv' /\ IsPrefix(Stream, Stream')
<1>1. /\ tx[p] = "lock" /\ writeMutex = Nobody
      /\ UNCHANGED <<residual, wire, txMsg, owner>>
  BY DEF TxLock
<1>2. Stream' = Stream /\ Len(owner) \in Nat
  BY <1>1 DEF Stream, WriteInv, WriteTypes
<1>3. \A q \in Procs : tx[q] \notin {"flush", "send"}
  BY <1>1, ProcsAssumption DEF WriteInv, TxInv
<1>4. CASE Return(p, "error")
  <2>1. /\ tx' \in [Procs -> {"idle", "lock", "flush", "send"}]
        /\ writeMutex' = Nobody
        /\ outcome' \in [Msgs -> {"none", "ok", "error"}]
        /\ \A q \in Procs : tx'[q] = IF q = p THEN "idle" ELSE tx[q]
        /\ \A m \in Msgs : outcome'[m] = IF m = txMsg[p] THEN "error" ELSE outcome[m]
    BY <1>1, <1>4, Returns
  <2>2. WriteTypes'
    BY <1>1, <2>1 DEF WriteInv, WriteTypes
  <2>3. \A q \in Procs :
          /\ tx'[q] \in {"flush", "send"} <=> writeMutex' = q
          /\ tx'[q] = "send" => residual' = <<>>
          /\ tx'[q] # "idle" => tx[q] # "idle" /\ txMsg'[q] = txMsg[q]
    BY <1>1, <1>3, <2>1, ProcsAssumption
  <2>4. \A m \in Msgs : outcome'[m] = "ok" => outcome[m] = "ok"
    BY <2>1
  <2>5. QED
    BY <1>1, <1>2, <2>2, <2>3, <2>4, StaysKeeps
<1>5. CASE writeMutex' = p /\ tx' = [tx EXCEPT ![p] = FlushFirst] /\ UNCHANGED outcome
  <2>1. /\ FlushFirst \in {"flush", "send"}
        /\ FlushFirst = "send" => residual = <<>>
    BY DEF FlushFirst
  <2>2. /\ tx' \in [Procs -> {"idle", "lock", "flush", "send"}]
        /\ \A q \in Procs : tx'[q] = IF q = p THEN FlushFirst ELSE tx[q]
    BY <1>5, <2>1 DEF WriteInv, WriteTypes
  <2>3. WriteTypes'
    BY <1>1, <1>5, <2>2 DEF WriteInv, WriteTypes
  <2>4. \A q \in Procs :
          /\ tx'[q] \in {"flush", "send"} <=> writeMutex' = q
          /\ tx'[q] = "send" => residual' = <<>>
          /\ tx'[q] # "idle" => tx[q] # "idle" /\ txMsg'[q] = txMsg[q]
    BY <1>1, <1>3, <1>5, <2>1, <2>2
  <2>5. QED
    BY <1>1, <1>2, <1>5, <2>3, <2>4, StaysKeeps
<1>6. QED
  BY <1>4, <1>5 DEF TxLock

\* The rest of an earlier message moves from what is left to what was taken.
LEMMA TxFlushStep ==
  ASSUME WriteInv, NEW p \in Procs, TxFlush(p)
  PROVE  WriteInv' /\ IsPrefix(Stream, Stream')
<1>1. PICK n \in 0..Len(residual), err \in BOOLEAN :
        /\ Takes(p, residual, n, err)
        /\ residual' = RestOf(residual, n)
        /\ IF err
           THEN Return(p, "error")
           ELSE tx' = [tx EXCEPT ![p] = "send"] /\ UNCHANGED <<writeMutex, outcome>>
  BY DEF TxFlush
<1>2. tx[p] = "flush" /\ UNCHANGED <<txMsg, owner>> /\ Len(owner) \in Nat
  BY DEF TxFlush, WriteInv, WriteTypes
<1>3. residual \in Seq(Wire) /\ wire \in Seq(Wire) /\ Len(residual) \in Nat /\ Len(residual) < Size
  BY DEF WriteInv, WriteTypes
<1>4. /\ wire' = wire \o SubSeq(residual, 1, n)
      /\ residual' = SubSeq(residual, n + 1, Len(residual))
      /\ n < Len(residual) => err
  BY <1>1 DEF Takes, RestOf
<1>5. /\ Stream' = Stream
      /\ wire' \in Seq(Wire) /\ residual' \in Seq(Wire)
      /\ Len(residual') = Len(residual) - n
  <2> DEFINE a == SubSeq(residual, 1, n)
             b == SubSeq(residual, n + 1, Len(residual))
  <2>1. /\ a \in Seq(Wire) /\ b \in Seq(Wire) /\ a \o b = residual
        /\ Len(b) = Len(residual) - n
    BY <1>3, CutInTwo, Zenon
  <2>2. wire' = wire \o a /\ residual' = b
    BY <1>4
  <2> HIDE DEF a, b
  <2>3. (wire \o a) \o b = wire \o (a \o b)
    <3>1. a \in Seq(Wire) /\ b \in Seq(Wire)
      BY <2>1
    <3>2. wire \in Seq(Wire)
      BY <1>3
    <3>3. QED
      BY <3>1, <3>2, Regroup
  <2>4. wire \o a \in Seq(Wire)
    BY <1>3, <2>1, ConcatProperties
  <2>5. QED
    BY <2>1, <2>2, <2>3, <2>4, Zenon DEF Stream
<1>6. Len(residual') \in Nat /\ Len(residual') < Size
  BY <1>3, <1>5, Constants
<1>7. CASE err
  <2>1. /\ tx' \in [Procs -> {"idle", "lock", "flush", "send"}]
        /\ writeMutex' = Nobody
        /\ outcome' \in [Msgs -> {"none", "ok", "error"}]
        /\ \A q \in Procs : tx'[q] = IF q = p THEN "idle" ELSE tx[q]
        /\ \A q \in Procs \ {p} : tx[q] \notin {"flush", "send"}
        /\ \A m \in Msgs : outcome'[m] = IF m = txMsg[p] THEN "error" ELSE outcome[m]
    BY <1>1, <1>2, <1>7, Returns
  <2>2. WriteTypes'
    BY <1>2, <1>5, <1>6, <2>1 DEF WriteInv, WriteTypes
  <2>3. \A q \in Procs :
          /\ tx'[q] \in {"flush", "send"} <=> writeMutex' = q
          /\ tx'[q] = "send" => residual' = <<>>
          /\ tx'[q] # "idle" => tx[q] # "idle" /\ txMsg'[q] = txMsg[q]
    BY <1>2, <2>1, ProcsAssumption
  <2>4. \A m \in Msgs : outcome'[m] = "ok" => outcome[m] = "ok"
    BY <2>1
  <2>5. QED
    BY <1>2, <1>5, <2>2, <2>3, <2>4, StaysKeeps
<1>8. CASE ~err
  <2>1. residual' = <<>>
    BY <1>3, <1>4, <1>5, <1>8
  <2>2. /\ tx' \in [Procs -> {"idle", "lock", "flush", "send"}]
        /\ \A q \in Procs : tx'[q] = IF q = p THEN "send" ELSE tx[q]
        /\ UNCHANGED <<writeMutex, outcome>>
    BY <1>1, <1>8 DEF WriteInv, WriteTypes
  <2>3. WriteTypes'
    BY <1>2, <1>5, <1>6, <2>2 DEF WriteInv, WriteTypes
  <2>4. \A q \in Procs :
          /\ tx'[q] \in {"flush", "send"} <=> writeMutex' = q
          /\ tx'[q] = "send" => residual' = <<>>
          /\ tx'[q] # "idle" => tx[q] # "idle" /\ txMsg'[q] = txMsg[q]
    BY <1>2, <2>1, <2>2 DEF WriteInv, TxInv
  <2>5. QED
    BY <1>2, <1>5, <2>2, <2>3, <2>4, StaysKeeps
<1>9. QED
  BY <1>7, <1>8

\* What a transport call leaves of a message is kept; with the part taken it is
\* the whole message.
LEMMA Sent ==
  ASSUME WriteInv, NEW p \in Procs, tx[p] = "send", txMsg[p] \in Msgs,
         NEW n \in 0..Size, NEW err \in BOOLEAN, Takes(p, Units(txMsg[p]), n, err),
         residual' = IF n > 0 THEN RestOf(Units(txMsg[p]), n) ELSE residual
  PROVE  /\ wire' \in Seq(Wire) /\ residual' \in Seq(Wire) /\ Len(residual') < Size
         /\ n > 0 => Stream' = Stream \o Units(txMsg[p])
         /\ n = 0 => Stream' = Stream /\ err
<1> DEFINE u == Units(txMsg[p])
           a == SubSeq(u, 1, n)
           b == SubSeq(u, n + 1, Len(u))
<1>1. residual = <<>> /\ wire \in Seq(Wire)
  BY DEF WriteInv, TxInv, WriteTypes
<1>2. u \in Seq(Wire) /\ Len(u) = Size
  BY Constants DEF Units, Wire
<1> HIDE DEF u
<1>3. a \in Seq(Wire) /\ b \in Seq(Wire) /\ Len(b) = Size - n /\ a \o b = u
  BY <1>2, CutInTwo, Zenon
<1>4. wire' = wire \o a /\ (n < Size => err) /\ residual' = IF n > 0 THEN b ELSE residual
  BY <1>2 DEF Takes, RestOf, u
<1>5. Stream = wire
  BY <1>1, ConcatEmptySeq DEF Stream
<1>6. CASE n > 0
  <2> HIDE DEF a, b
  <2>1. (wire \o a) \o b = wire \o (a \o b)
    <3>1. a \in Seq(Wire) /\ b \in Seq(Wire)
      BY <1>3
    <3>2. QED
      BY <1>1, <3>1, ConcatAssociative
  <2>2. wire \o a \in Seq(Wire)
    BY <1>1, <1>3, ConcatProperties
  <2>3. Len(b) < Size /\ n # 0
    BY <1>3, <1>6, Constants
  <2>4. residual' = b
    BY <1>4, <1>6
  <2>5. Stream' = Stream \o u
    BY <1>3, <1>4, <1>5, <2>1, <2>4, Zenon DEF Stream
  <2>6. QED
    BY <1>3, <1>4, <2>2, <2>3, <2>4, <2>5, Zenon DEF u
<1>7. CASE n = 0
  <2>1. a = <<>>
    BY <1>7, SubSeqEmpty
  <2>2. wire' = wire /\ residual' = residual
    BY <1>1, <1>4, <1>7, <2>1, ConcatEmptySeq
  <2>3. QED
    BY <1>1, <1>4, <1>7, <2>2, Constants DEF Stream
<1>8. QED
  BY <1>6, <1>7

\* A message is on its way from its first unit on.
LEMMA TxSendStep ==
  ASSUME WriteInv, NEW p \in Procs, TxSend(p)
  PROVE  WriteInv' /\ IsPrefix(Stream, Stream')
<1>1. PICK n \in 0..Size, err \in BOOLEAN :
        /\ Takes(p, Units(txMsg[p]), n, err)
        /\ residual' = IF n > 0 THEN RestOf(Units(txMsg[p]), n) ELSE residual
        /\ Return(p, IF err /\ n \in {0, Size} THEN "error" ELSE "ok")
  BY DEF TxSend
<1> DEFINE result == IF err /\ n \in {0, Size} THEN "error" ELSE "ok"
           m == txMsg[p]
<1>2. tx[p] = "send" /\ UNCHANGED <<txMsg, owner>> /\ Len(owner) \in Nat
  BY DEF TxSend, WriteInv, WriteTypes
<1>3. /\ tx' \in [Procs -> {"idle", "lock", "flush", "send"}]
      /\ writeMutex' = Nobody
      /\ outcome' \in [Msgs -> {"none", "ok", "error"}]
      /\ \A q \in Procs : tx'[q] = IF q = p THEN "idle" ELSE tx[q]
      /\ \A q \in Procs \ {p} : tx[q] \notin {"flush", "send"}
      /\ m \in Msgs
      /\ \A k \in Msgs : outcome'[k] = IF k = m THEN result ELSE outcome[k]
  BY <1>1, <1>2, Returns
<1>4. /\ wire' \in Seq(Wire) /\ residual' \in Seq(Wire) /\ Len(residual') < Size
      /\ n > 0 => Stream' = Stream \o Units(m)
      /\ n = 0 => Stream' = Stream /\ err
  BY <1>1, <1>2, <1>3, Sent
<1>5. WriteTypes'
  BY <1>2, <1>3, <1>4 DEF WriteInv, WriteTypes
<1>6. \A q \in Procs :
        /\ tx'[q] \in {"flush", "send"} <=> writeMutex' = q
        /\ tx'[q] = "send" => residual' = <<>>
        /\ tx'[q] # "idle" => q # p /\ tx[q] # "idle" /\ txMsg'[q] = txMsg[q]
  BY <1>2, <1>3, ProcsAssumption
<1>7. CASE n = 0
  <2>1. \A k \in Msgs : outcome'[k] = "ok" => outcome[k] = "ok"
    BY <1>3, <1>4, <1>7
  <2>2. QED
    BY <1>2, <1>4, <1>5, <1>6, <1>7, <2>1, StaysKeeps
<1>8. CASE n > 0
  <2>1. /\ Framed' /\ Blocks \in Nat /\ Blocks' = Blocks + 1
        /\ \A i \in 1..Blocks + 1 : Block(i)' = IF i = Blocks + 1 THEN m ELSE Block(i)
        /\ IsPrefix(Stream, Stream')
    BY <1>3, <1>4, <1>8, StreamGrows, StreamTyped DEF WriteInv
  <2>2. /\ m \in 1..Len(owner) /\ owner[m] = p
        /\ \A i \in 1..Blocks : Block(i) # m
    BY <1>2 DEF WriteInv, TxInv
  <2>3. AcceptedOnce'
    <3>1. ASSUME NEW k \in Msgs, outcome'[k] = "ok"
          PROVE  \E i \in 1..Blocks + 1 : Block(i)' = k
      <4>1. CASE k = m
        BY <2>1, <4>1
      <4>2. CASE k # m
        <5>1. PICK i \in 1..Blocks : Block(i) = k
          BY <1>3, <3>1, <4>2 DEF WriteInv, AcceptedOnce
        <5>2. QED
          BY <2>1, <5>1
      <4>3. QED
        BY <4>1, <4>2
    <3>2. ASSUME NEW i \in 1..Blocks + 1, NEW j \in 1..Blocks + 1, Block(i)' = Block(j)'
          PROVE  i = j
      BY <2>1, <2>2, <3>2 DEF WriteInv, AcceptedOnce
    <3>3. QED
      BY <2>1, <3>1, <3>2 DEF AcceptedOnce
  <2>4. BlocksInv'
    <3>1. \A i \in 1..Blocks + 1 : Block(i)' \in 1..Len(owner)
      BY <2>1, <2>2 DEF WriteInv, BlocksInv
    <3>2. QED
      BY <1>2, <2>1, <3>1 DEF BlocksInv
  <2>5. TxInv'
    <3>1. ASSUME NEW q \in Procs, tx'[q] # "idle"
          PROVE  /\ txMsg'[q] \in 1..Len(owner') /\ owner'[txMsg'[q]] = q
                 /\ \A i \in 1..Blocks + 1 : Block(i)' # txMsg'[q]
      <4>1. /\ txMsg[q] \in 1..Len(owner) /\ owner[txMsg[q]] = q
            /\ \A i \in 1..Blocks : Block(i) # txMsg[q]
        BY <1>6, <3>1 DEF WriteInv, TxInv
      <4>2. q # p /\ txMsg'[q] = txMsg[q] /\ owner' = owner
        BY <1>2, <1>6, <3>1
      <4>3. QED
        BY <2>1, <2>2, <4>1, <4>2
    <3>2. QED
      BY <1>6, <2>1, <3>1 DEF TxInv
  <2>6. QED
    BY <1>5, <2>1, <2>3, <2>4, <2>5 DEF WriteInv
<1>9. QED
  BY <1>7, <1>8

-----------------------------------------------------------------------------
(* The side that reads.                                                    *)

\* Steps that return nothing and take nothing out of the buffered reader.
LEMMA QuietStep ==
  ASSUME ReadInv, ReadTypes', UNCHANGED <<msgs, doneMsgs, consumed, got, torn>>,
         \A r \in Readers :
           rx'[r] \in {"rlock", "reading", "ping", "pong"} =>
             rx[r] \in {"rlock", "reading", "ping", "pong"} \/ msgs = 0
  PROVE  ReadInv'
<1>1. RxInv'
  BY DEF ReadInv, RxInv, FromConn, WholeLine, Line
<1>2. PrependedFirst' /\ LinesWhole'
  BY DEF ReadInv, ReadTypes, PrependedFirst, LinesWhole, FromConn
<1>3. QED
  BY <1>1, <1>2 DEF ReadInv

\* The steps of a reader between its calls of the source and the connection.
LEMMA ReadCallStep ==
  ASSUME ReadInv, NEW r \in Readers,
         ReadMsg(r) \/ PLock(r) \/ RLock(r) \/ PongDone(r)
  PROVE  ReadInv'
<1>1. UNCHANGED <<msgs, doneMsgs, consumed, got, torn, arrived>>
  <2>1. ReadMsg(r) => UNCHANGED <<msgs, doneMsgs, consumed, got, torn, arrived>>
    BY DEF ReadMsg, netVars
  <2>2. PLock(r) => UNCHANGED <<msgs, doneMsgs, consumed, got, torn, arrived>>
    BY DEF PLock, netVars
  <2>3. RLock(r) => UNCHANGED <<msgs, doneMsgs, consumed, got, torn, arrived>>
    BY DEF RLock, netVars
  <2>4. PongDone(r) => UNCHANGED <<msgs, doneMsgs, consumed, got, torn, arrived>>
    BY DEF PongDone, netVars
  <2>5. QED
    BY <2>1, <2>2, <2>3, <2>4, Zenon
<1>2. PICK pc \in {"idle", "plock", "prepended", "rlock", "reading"} :
        /\ rx' = [rx EXCEPT ![r] = pc]
        /\ pc = "rlock" => doneMsgs
        /\ pc = "reading" => rx[r] = "rlock"
  BY DEF ReadMsg, PLock, RLock, PongDone, RxGoto, RxReturn
<1>3. readMutex' \in Readers \cup {Nobody} /\ pMutex' \in Readers \cup {Nobody}
  BY DEF ReadMsg, PLock, RLock, PongDone, RxReturn, ReadInv, ReadTypes
<1>4. ReadTypes'
  BY <1>1, <1>2, <1>3 DEF ReadInv, ReadTypes
<1>5. ASSUME NEW q \in Readers, rx'[q] \in {"rlock", "reading", "ping", "pong"}
      PROVE  rx[q] \in {"rlock", "reading", "ping", "pong"} \/ msgs = 0
  BY <1>2, <1>5 DEF ReadInv, ReadTypes, RxInv
<1>6. QED
  BY <1>1, <1>4, <1>5, QuietStep

\* A PING's PONG is written by the reader that returns it.
LEMMA WriteMsgReads ==
  ASSUME ReadInv, NEW p \in Procs, WriteMsg(p)
  PROVE  ReadInv'
<1>1. /\ UNCHANGED <<msgs, doneMsgs, consumed, got, arrived, readMutex, pMutex, torn>>
      /\ rx' = rx \/ (p \in Readers /\ rx[p] = "ping" /\ rx' = [rx EXCEPT ![p] = "pong"])
  BY DEF WriteMsg, netVars
<1>2. ReadTypes'
  BY <1>1 DEF ReadInv, ReadTypes
<1>3. ASSUME NEW q \in Readers, rx'[q] \in {"rlock", "reading", "ping", "pong"}
      PROVE  rx[q] \in {"rlock", "reading", "ping", "pong"}
  BY <1>1, <1>3 DEF ReadInv, ReadTypes
<1>4. QED
  BY <1>1, <1>2, <1>3, QuietStep

\* The source's messages come first.
LEMMA TakePrependedStep ==
  ASSUME ReadInv, NEW r \in Readers, TakePrepended(r)
  PROVE  ReadInv'
<1>1. /\ UNCHANGED <<readMutex, consumed, torn, arrived>>
      /\ msgs \in 0..Prepended /\ Prepended \in Nat
      /\ rx \in [Readers -> {"idle", "plock", "prepended", "rlock", "reading", "ping", "pong"}]
      /\ got \in Seq(Nat \X Nat) /\ Len(got) \in Nat /\ DOMAIN got = 1..Len(got)
  BY Constants DEF TakePrepended, netVars, ReadInv, ReadTypes, RxInv
<1>2. CASE msgs = 0
  <2>1. /\ doneMsgs' = TRUE /\ rx' = [rx EXCEPT ![r] = "rlock"]
        /\ UNCHANGED <<msgs, got, pMutex>>
    BY <1>2 DEF TakePrepended, SourceEmpty, RxGoto
  <2>2. ReadTypes'
    BY <1>1, <2>1 DEF ReadInv, ReadTypes
  <2>3. RxInv'
    BY <1>1, <1>2, <2>1 DEF ReadInv, RxInv, FromConn, WholeLine, Line
  <2>4. PrependedFirst' /\ LinesWhole'
    BY <1>1, <2>1 DEF ReadInv, PrependedFirst, LinesWhole, FromConn
  <2>5. QED
    BY <2>2, <2>3, <2>4 DEF ReadInv
<1>3. CASE msgs > 0
  <2>1. /\ msgs' = msgs - 1 /\ rx' = [rx EXCEPT ![r] = "idle"]
        /\ got' = Append(got, <<0, Prepended - msgs>>)
        /\ pMutex' = IF pMutex = r THEN Nobody ELSE pMutex
        /\ UNCHANGED doneMsgs
    BY <1>1, <1>3 DEF TakePrepended, SourceEmpty, RxReturn, RxGoto
  <2>2. ReadTypes'
    BY <1>1, <1>3, <2>1 DEF ReadInv, ReadTypes
  <2>3. Len(got) = Prepended - msgs /\ consumed = 0 /\ ~doneMsgs
        /\ \A q \in Readers : rx[q] \notin {"rlock", "reading", "ping", "pong"}
    BY <1>1, <1>3 DEF ReadInv, RxInv
  <2>4. /\ got' \in Seq(Nat \X Nat) /\ Len(got') = Len(got) + 1
        /\ DOMAIN got' = 1..Len(got) + 1
        /\ \A i \in 1..Len(got) : got'[i] = got[i]
        /\ got'[Len(got) + 1] = <<0, Len(got)>>
    BY <1>1, <2>1, <2>3
  <2>conn. FromConn' = FromConn /\ \A i \in FromConn : got'[i] = got[i]
    <3>1. DOMAIN got' = DOMAIN got \cup {Len(got) + 1}
      BY <1>1, <2>4
    <3>2. ~(got'[Len(got) + 1][1] > 0)
      BY <2>4
    <3>3. QED
      BY <1>1, <2>4, <3>1, <3>2 DEF FromConn
  <2>5. RxInv'
    <3>1. \A i \in FromConn' : got'[i][2] <= consumed'
      BY <1>1, <2>conn, Zenon DEF ReadInv, RxInv
    <3>2. WholeLine' \/ Line' \in torn'
      BY <1>1 DEF ReadInv, RxInv, WholeLine, Line
    <3>3. \A q \in Readers : rx'[q] \notin {"rlock", "reading", "ping", "pong"}
      BY <1>1, <2>1, <2>3
    <3>4. Len(got') = Prepended - msgs'
      BY <1>1, <2>1, <2>3, <2>4
    <3>5. ~doneMsgs' /\ consumed' = 0
      BY <1>1, <2>1, <2>3
    <3>6. Len(got') >= Prepended - msgs'
      BY <1>1, <2>1, <3>4
    <3>7. QED
      BY <2>4, <3>1, <3>2, <3>3, <3>4, <3>5, <3>6 DEF RxInv
  <2>6. PrependedFirst'
    <3>1. \A i \in 1..Len(got) : got'[i] = <<0, i - 1>>
      <4>1. PrependedFirst
        BY DEF ReadInv
      <4>2. \A i \in 1..Len(got) : i <= Prepended
        BY <1>1, <2>3
      <4>3. \A i \in 1..Len(got) : got[i] = <<0, i - 1>>
        BY <1>1, <4>1, <4>2, Zenon DEF PrependedFirst
      <4>4. QED
        BY <2>4, <4>3, Zenon
    <3>2. /\ Len(got) + 1 <= Prepended /\ (Len(got) + 1) - 1 = Len(got)
          /\ \A i \in 1..Len(got) + 1 : i \in 1..Len(got) \/ i = Len(got) + 1
      BY <1>1, <1>3, <2>3
    <3>3. \A i \in 1..Len(got) + 1 : i <= Prepended
      BY <1>1, <3>2
    <3>4. \A i \in 1..Len(got) + 1 : got'[i] = <<0, i - 1>>
      BY <2>4, <3>1, <3>2, Zenon
    <3>5. QED
      BY <2>4, <3>3, <3>4, Zenon DEF PrependedFirst
  <2>7. LinesWhole'
    BY <1>1, <2>conn, Zenon DEF ReadInv, LinesWhole
  <2>8. QED
    BY <2>2, <2>5, <2>6, <2>7 DEF ReadInv
<1>4. QED
  BY <1>1, <1>2, <1>3
\* The line that goes on after what was consumed, and where it started.
LineStart == (Line - 1) * Size
LEMMA LineEndIs ==
  ASSUME consumed \in Nat
  PROVE  /\ Line \in Nat \ {0} /\ Line = consumed \div Size + 1
         /\ LineStart \in Nat /\ LineEnd \in Nat /\ LineStart + Size = LineEnd
         /\ LineStart <= consumed /\ consumed < LineEnd
         /\ WholeLine <=> consumed = LineStart
<1> DEFINE q == consumed \div Size
           m == consumed % Size
<1>1. q \in Nat /\ m \in 0..Size - 1 /\ consumed = q * Size + m
  BY Divided
<1>2. Line = q + 1 /\ (WholeLine <=> m = 0)
  BY DEF Line, WholeLine
<1> HIDE DEF q, m
<1>3. q * Size \in Nat /\ (q + 1) * Size = q * Size + Size
  BY <1>1, Multiple
<1>4. Line - 1 = q
  BY <1>1, <1>2
<1>5. LineStart = q * Size /\ LineEnd = (q + 1) * Size
  BY <1>2, <1>4, Zenon DEF LineStart, LineEnd
<1>6. LineStart + Size = LineEnd /\ LineStart \in Nat /\ LineEnd \in Nat
  BY <1>3, <1>5, Constants
<1>7. consumed = LineStart + m
  BY <1>1, <1>5, Zenon
<1>8. LineStart <= consumed /\ consumed < LineEnd /\ (m = 0 <=> consumed = LineStart)
  BY <1>1, <1>6, <1>7, Constants
<1>9. Line \in Nat \ {0} /\ Line = consumed \div Size + 1
  BY <1>1, <1>2 DEF q
<1>10. QED
  BY <1>2, <1>6, <1>8, <1>9, Zenon

\* It ends with its last unit.
LEMMA LineEnds ==
  ASSUME consumed \in Nat
  PROVE  LineEnd = Line * Size /\ LineEnd \div Size = Line /\ LineEnd % Size = 0
<1>1. Line \in Nat
  BY LineEndIs
<1>2. QED
  BY <1>1, Multiple, Zenon DEF LineEnd

\* A line some of which has arrived is one of the server's.
LEMMA LineExists ==
  ASSUME consumed \in Nat, LineStart < Total
  PROVE  Line \in DOMAIN Incoming
<1>1. PICK q \in Nat : Line = q + 1 /\ q = Line - 1
  BY LineEndIs
<1>2. q * Size < Len(Incoming) * Size
  <2>1. LineStart = q * Size /\ Total = Len(Incoming) * Size
    BY <1>1, Constants DEF LineStart, Total
  <2>2. QED
    BY <2>1, Zenon
<1>3. q * Size \in Nat /\ Len(Incoming) * Size \in Nat
  BY Multiple, Constants
<1> DEFINE n == Len(Incoming)
<1>4. n \in Nat /\ DOMAIN Incoming = 1..n
  BY Constants
<1>5. n # q
  BY <1>2, <1>3
<1>6. ~(n < q)
  BY <1>2, <1>3, Ordered, Constants
<1> HIDE DEF n
<1>7. q < n
  BY <1>4, <1>5, <1>6
<1>8. QED
  BY <1>1, <1>4, <1>7

\* Lines are taken out of the reader in order.
LEMMA ReadLineStep ==
  ASSUME ReadInv, NEW r \in Readers, ReadLine(r)
  PROVE  ReadInv'
<1>1. /\ rx[r] = "reading" /\ LineEnd <= arrived /\ consumed' = LineEnd
      /\ \/ got' = Append(got, <<consumed + 1, LineEnd>>)
         \/ (WholeLine => Incoming[Line] = "BAD") /\ got' = got
      /\ readMutex' = Nobody
      /\ UNCHANGED <<msgs, doneMsgs, torn, arrived>>
  BY DEF ReadLine, MayParse, netVars
<1>2. /\ msgs = 0 /\ Len(got) \in Nat /\ Len(got) >= Prepended /\ DOMAIN got = 1..Len(got)
      /\ got \in Seq(Nat \X Nat)
  BY <1>1, Constants DEF ReadInv, RxInv
<1>3. consumed \in Nat /\ arrived \in 0..Total /\ Total \in Nat
  BY Constants DEF ReadInv, ReadTypes
<1>4. LineEnd \in Nat /\ consumed < LineEnd
  BY <1>3, LineEndIs
<1>5. PICK pc \in {"ping", "idle"} : rx' = [rx EXCEPT ![r] = pc]
  BY DEF ReadLine, RxReturn, RxGoto
<1>6. pMutex' = pMutex \/ pMutex' = Nobody
  BY DEF ReadLine, RxReturn
<1>7. ReadTypes'
  <2>1. rx' \in [Readers -> {"idle", "plock", "prepended", "rlock", "reading", "ping", "pong"}]
    BY <1>5 DEF ReadInv, ReadTypes
  <2>2. arrived' \in 0..Total /\ consumed' \in 0..arrived'
    BY <1>1, <1>3, <1>4
  <2>3. QED
    BY <1>1, <1>6, <2>1, <2>2 DEF ReadInv, ReadTypes
<1>8. /\ got' \in Seq(Nat \X Nat) /\ Len(got') \in Nat /\ DOMAIN got' = 1..Len(got')
      /\ Len(got') \in {Len(got), Len(got) + 1}
      /\ \A i \in 1..Len(got) : got'[i] = got[i]
      /\ \/ Len(got') = Len(got) /\ (WholeLine => Incoming[Line] = "BAD")
         \/ Len(got') = Len(got) + 1 /\ got'[Len(got) + 1] = <<consumed + 1, LineEnd>>
  <2> DEFINE x == <<consumed + 1, LineEnd>>
             bad == WholeLine => Incoming[Line] = "BAD"
  <2>1. x \in Nat \X Nat
    BY <1>3, <1>4
  <2>2. got' = Append(got, x) \/ (bad /\ got' = got)
    BY <1>1
  <2> HIDE DEF x, bad
  <2>3. CASE got' = Append(got, x)
    <3>1. /\ got' \in Seq(Nat \X Nat) /\ Len(got') = Len(got) + 1
          /\ \A i \in 1..Len(got) : got'[i] = got[i]
          /\ got'[Len(got) + 1] = x
      BY <1>2, <2>1, <2>3
    <3>2. Len(got') \in Nat /\ DOMAIN got' = 1..Len(got')
      BY <3>1
    <3>3. QED
      BY <3>1, <3>2, Zenon DEF x
  <2>4. CASE bad /\ got' = got
    BY <1>2, <2>4, Zenon DEF bad
  <2>5. QED
    BY <2>2, <2>3, <2>4, Zenon
<1>lens. /\ Len(got) \in Nat /\ Len(got) >= Prepended
       /\ Len(got') \in {Len(got), Len(got) + 1}
  BY <1>2, <1>8
<1>9. \A i \in 1..Len(got) : IF i <= Prepended THEN got[i] = <<0, i - 1>> ELSE got[i][1] > 0
  BY <1>2, Zenon DEF ReadInv, PrependedFirst
<1>10. PrependedFirst'
  <2>1. ASSUME NEW i \in 1..Len(got)
        PROVE  IF i <= Prepended THEN got'[i] = <<0, i - 1>> ELSE got'[i][1] > 0
    BY <1>8, <1>9, Zenon
  <2>2. ASSUME Len(got') = Len(got) + 1, got'[Len(got) + 1] = <<consumed + 1, LineEnd>>
        PROVE  ~(Len(got) + 1 <= Prepended) /\ got'[Len(got) + 1][1] > 0
    BY <1>2, <1>3, <2>2, Constants
  <2>3. \A i \in 1..Len(got') :
          i \in 1..Len(got) \/ (i = Len(got) + 1 /\ Len(got') = Len(got) + 1)
    BY <1>lens
  <2>4. \A i \in 1..Len(got') : IF i <= Prepended THEN got'[i] = <<0, i - 1>> ELSE got'[i][1] > 0
    <3>1. TAKE i \in 1..Len(got')
    <3>2. CASE i \in 1..Len(got)
      BY <2>1, <3>2
    <3>3. CASE i = Len(got) + 1 /\ Len(got') = Len(got) + 1
      <4>1. got'[Len(got) + 1] = <<consumed + 1, LineEnd>>
        <5>1. Len(got') # Len(got)
          BY <1>lens, <3>3
        <5>2. QED
          BY <1>8, <5>1, Zenon
      <4>2. QED
        BY <2>2, <3>3, <4>1
    <3>4. QED
      BY <2>3, <3>2, <3>3, Zenon
  <2>5. QED
    BY <1>8, <2>4, Zenon DEF PrependedFirst
\* What was returned stays; what is new ends with the line.
<1> DEFINE last == Len(got) + 1
<1>new. \/ Len(got') = Len(got) /\ (WholeLine => Incoming[Line] = "BAD")
        \/ Len(got') = Len(got) + 1 /\ got'[Len(got) + 1] = <<consumed + 1, LineEnd>>
  BY <1>8, Zenon
<1>11. /\ FromConn \subseteq FromConn' /\ FromConn' \subseteq FromConn \cup {last}
       /\ last \notin FromConn
       /\ \A i \in FromConn : i \in 1..Len(got) /\ got'[i] = got[i]
       /\ last \in FromConn' => got'[last] = <<consumed + 1, LineEnd>>
       /\ last \in FromConn' \/ (WholeLine => Incoming[Line] = "BAD")
  <2>1. CASE Len(got') = Len(got) /\ (WholeLine => Incoming[Line] = "BAD")
    <3>1. DOMAIN got' = DOMAIN got /\ last \notin DOMAIN got
      <4>1. DOMAIN got' = 1..Len(got') /\ Len(got') = Len(got)
        BY <1>8, <2>1, Zenon
      <4>2. QED
        BY <1>2, <4>1
    <3>2. \A i \in DOMAIN got : got'[i] = got[i]
      BY <1>2, <1>8, Zenon
    <3>3. FromConn' = FromConn /\ FromConn \subseteq 1..Len(got)
      BY <1>2, <3>1, <3>2 DEF FromConn
    <3>4. last \notin FromConn
      BY <3>1 DEF FromConn
    <3> HIDE DEF last
    <3>5. QED
      BY <1>2, <2>1, <3>2, <3>3, <3>4, Zenon
  <2>2. CASE Len(got') = Len(got) + 1 /\ got'[Len(got) + 1] = <<consumed + 1, LineEnd>>
    <3>1. DOMAIN got' = DOMAIN got \cup {last} /\ last \notin DOMAIN got
      BY <1>2, <1>8, <2>2
    <3>2. got'[last][1] > 0
      BY <1>3, <2>2
    <3>3. QED
      BY <1>2, <1>8, <2>2, <3>1, <3>2 DEF FromConn
  <2>3. QED
    BY <1>new, <2>1, <2>2, Zenon
<1> HIDE DEF last
<1>12. /\ \A i \in FromConn : got[i][2] <= consumed /\ got[i][2] \in Nat
       /\ WholeLine \/ Line \in torn
  BY <1>2 DEF ReadInv, RxInv, FromConn
<1>13. LinesWhole'
  <2>1. ASSUME NEW i \in FromConn', NEW j \in FromConn', i < j
        PROVE  got'[i][2] < got'[j][1]
    <3>1. i \in FromConn
      BY <1>2, <1>11, <2>1 DEF last, FromConn
    <3>2. CASE j \in FromConn
      BY <1>11, <2>1, <3>1, <3>2 DEF ReadInv, LinesWhole
    <3>3. CASE j = last
      BY <1>3, <1>11, <1>12, <2>1, <3>1, <3>3
    <3>4. QED
      BY <1>11, <3>2, <3>3
  <2>2. ASSUME NEW i \in FromConn'
        PROVE  \E n \in DOMAIN Incoming :
                 \/ got'[i] = Span(n)
                 \/ n \in torn' /\ got'[i][2] = n * Size /\ got'[i][1] > (n - 1) * Size + 1
    <3>1. CASE i \in FromConn
      BY <1>1, <1>11, <3>1 DEF ReadInv, LinesWhole
    <3>2. CASE i = last
      <4>1. Line \in DOMAIN Incoming
        <5>1. LineStart < Total
          BY <1>1, <1>3, LineEndIs, Constants
        <5>2. QED
          BY <1>3, <5>1, LineExists
      <4>2. got'[i] = <<consumed + 1, LineEnd>>
        BY <1>11, <2>2, <3>2
      <4>3. CASE WholeLine
        <5>1. consumed = (Line - 1) * Size /\ LineEnd = Line * Size
          BY <1>3, <4>3, LineEndIs, LineEnds DEF LineStart
        <5>2. got'[i] = Span(Line)
          BY <4>2, <5>1, Zenon DEF Span
        <5>3. QED
          BY <4>1, <5>2
      <4>4. CASE ~WholeLine
        <5>1. consumed + 1 > (Line - 1) * Size + 1
          <6>1. consumed + 1 > LineStart + 1
            BY <1>3, <4>4, LineEndIs
          <6>2. QED
            BY <6>1, Zenon DEF LineStart
        <5>2. Line \in torn'
          BY <1>1, <1>12, <4>4
        <5>3. got'[i][2] = Line * Size /\ got'[i][1] > (Line - 1) * Size + 1
          <6>1. LineEnd = Line * Size
            BY <1>3, LineEnds
          <6>2. got'[i][1] = consumed + 1 /\ got'[i][2] = LineEnd
            BY <4>2
          <6>3. QED
            BY <5>1, <6>1, <6>2, Zenon
        <5>4. QED
          BY <4>1, <5>2, <5>3
      <4>5. QED
        BY <4>3, <4>4
    <3>3. QED
      BY <1>11, <3>1, <3>2
  <2>3. ASSUME NEW n \in 1..consumed' \div Size
        PROVE  n \in torn' \/ Incoming[n] = "BAD" \/ \E i \in FromConn' : got'[i] = Span(n)
    <3>1. n \in Nat /\ (n \in 1..consumed \div Size \/ n = Line)
      <4>1. consumed' \div Size = Line
        BY <1>1, <1>3, LineEnds
      <4>2. Line \in Nat \ {0} /\ consumed \div Size = Line - 1
        BY <1>3, LineEndIs, Divided
      <4> DEFINE a == consumed' \div Size
                 b == consumed \div Size
      <4>3. a = Line /\ b = Line - 1 /\ n \in 1..a
        BY <2>3, <4>1, <4>2
      <4> HIDE DEF a, b
      <4>4. n \in Nat /\ (n \in 1..b \/ n = Line)
        BY <4>2, <4>3
      <4>5. QED
        BY <4>4 DEF b
    <3>2. CASE n \in 1..consumed \div Size
      <4>1. n \in torn \/ Incoming[n] = "BAD" \/ \E i \in FromConn : got[i] = Span(n)
        BY <3>2 DEF ReadInv, LinesWhole
      <4>2. QED
        BY <1>1, <1>11, <4>1
    <3>3. CASE n = Line /\ WholeLine /\ last \in FromConn'
      <4>1. consumed = (Line - 1) * Size /\ LineEnd = Line * Size
        BY <1>3, <3>3, LineEndIs, LineEnds DEF LineStart
      <4>2. got'[last] = Span(n)
        BY <1>11, <3>3, <4>1, Zenon DEF Span
      <4>3. QED
        BY <3>3, <4>2
    <3>4. CASE n = Line /\ WholeLine /\ last \notin FromConn'
      BY <1>11, <3>4
    <3>5. CASE n = Line /\ ~WholeLine
      BY <1>1, <1>12, <3>5
    <3>6. QED
      BY <3>1, <3>2, <3>3, <3>4, <3>5
  <2>4. QED
    BY <2>1, <2>2, <2>3 DEF LinesWhole
<1>14. RxInv'
  <2>1. Len(got') >= Prepended - msgs' /\ msgs' = 0
    <3>1. msgs' = 0
      BY <1>1, <1>2
    <3>2. QED
      BY <1>lens, <3>1, Constants
  <2>2. WholeLine'
    BY <1>1, <1>3, LineEnds DEF WholeLine
  <2>3. ~(msgs' > 0)
    BY <2>1
  <2>4. ASSUME NEW i \in FromConn' PROVE got'[i][2] <= consumed'
    BY <1>1, <1>3, <1>4, <1>11, <1>12
  <2>5. QED
    BY <1>8, <2>1, <2>2, <2>3, <2>4, Zenon DEF RxInv
<1>15. QED
  BY <1>7, <1>10, <1>13, <1>14 DEF ReadInv

\* A read that fails takes a part of a line with it.
LEMMA ReadFailsStep ==
  ASSUME ReadInv, NEW r \in Readers, ReadFails(r)
  PROVE  ReadInv'
<1>1. /\ rx[r] = "reading" /\ consumed' \in consumed..arrived /\ consumed' < LineEnd
      /\ torn' = IF consumed' % Size = 0 THEN torn ELSE torn \cup {Line}
      /\ readMutex' = Nobody
      /\ rx' = [rx EXCEPT ![r] = "idle"]
      /\ pMutex' = pMutex \/ pMutex' = Nobody
      /\ UNCHANGED <<msgs, doneMsgs, got, arrived>>
  BY DEF ReadFails, MidLine, RxReturn, RxGoto, netVars
<1>2. msgs = 0 /\ got \in Seq(Nat \X Nat) /\ Len(got) >= Prepended - msgs
  BY <1>1 DEF ReadInv, RxInv
<1>3. /\ consumed \in Nat /\ consumed' \in Nat /\ consumed <= consumed'
      /\ arrived \in 0..Total /\ Total \in Nat /\ consumed' <= Total
  BY <1>1, Constants DEF ReadInv, ReadTypes
<1>4. /\ consumed' \div Size = consumed \div Size
      /\ consumed' % Size = consumed' - LineStart
  <2>1. PICK q \in Nat : q = Line - 1 /\ q = consumed \div Size
    <3>1. Line - 1 \in Nat /\ Line - 1 = consumed \div Size
      <4> DEFINE d == consumed \div Size
      <4>1. d \in Nat /\ Line = d + 1
        BY <1>3, LineEndIs, Divided
      <4> HIDE DEF d
      <4>2. Line - 1 = d
        BY <4>1
      <4>3. QED
        BY <4>1, <4>2 DEF d
    <3>2. QED
      BY <3>1, Zenon
  <2>2. LineStart = q * Size
    BY <2>1 DEF LineStart
  <2>3. PICK m \in 0..Size - 1 : consumed' = LineStart + m /\ m = consumed' - LineStart
    BY <1>1, <1>3, LineEndIs, Constants
  <2>4. consumed' = q * Size + m
    BY <2>2, <2>3, Zenon
  <2>5. consumed' \div Size = q /\ consumed' % Size = m
    BY <2>4, Quotient
  <2>6. QED
    BY <2>1, <2>3, <2>5
<1>5. Line' = Line
  BY <1>4 DEF Line
<1>6. torn \subseteq torn' /\ (WholeLine' \/ Line' \in torn')
  BY <1>1, <1>5 DEF WholeLine
<1>7. ReadTypes'
  <2>1. rx' \in [Readers -> {"idle", "plock", "prepended", "rlock", "reading", "ping", "pong"}]
    BY <1>1 DEF ReadInv, ReadTypes
  <2>2. arrived' \in 0..Total /\ consumed' \in 0..arrived'
    BY <1>1, Constants DEF ReadInv, ReadTypes
  <2>3. torn' \subseteq DOMAIN Incoming
    <3>1. CASE consumed' % Size = 0
      BY <1>1, <3>1 DEF ReadInv, ReadTypes
    <3>2. CASE consumed' % Size # 0
      <4>1. LineStart < Total
        <5>1. consumed' # LineStart
          BY <1>3, <1>4, <3>2, LineEndIs
        <5>2. QED
          BY <1>3, <5>1, LineEndIs
      <4>2. QED
        BY <1>1, <1>3, <4>1, LineExists DEF ReadInv, ReadTypes
    <3>3. QED
      BY <3>1, <3>2
  <2>4. QED
    BY <1>1, <2>1, <2>2, <2>3 DEF ReadInv, ReadTypes
<1>8. FromConn' = FromConn
  BY <1>1 DEF FromConn
<1>9. RxInv'
  <2>1. ASSUME NEW i \in FromConn PROVE got[i][2] <= consumed'
    BY <1>2, <1>3, <2>1 DEF ReadInv, RxInv, FromConn
  <2>2. QED
    BY <1>1, <1>2, <1>6, <1>8, <2>1 DEF RxInv
<1>10. PrependedFirst'
  BY <1>1 DEF ReadInv, PrependedFirst
<1>11. LinesWhole'
  BY <1>1, <1>4, <1>6, <1>8 DEF ReadInv, LinesWhole
<1>12. QED
  BY <1>7, <1>9, <1>10, <1>11 DEF ReadInv
-----------------------------------------------------------------------------
(* PINGs and their PONGs.                                                  *)

\* What counts the PINGs is finite.
LEMMA Counted ==
  ASSUME WriteInv, ReadInv
  PROVE  /\ IsFiniteSet(Returned(got)) /\ IsFiniteSet(Ahead(consumed))
         /\ IsFiniteSet(WrittenBy(Writers, owner)) /\ IsFiniteSet(WrittenBy(Readers, owner))
         /\ IsFiniteSet(AtPing(rx))
         /\ Cardinality(Returned(got)) \in Nat /\ Cardinality(Ahead(consumed)) \in Nat
         /\ Cardinality(WrittenBy(Writers, owner)) \in Nat
         /\ Cardinality(WrittenBy(Readers, owner)) \in Nat
         /\ Cardinality(AtPing(rx)) \in Nat
         /\ Pings \in Nat
<1>1. /\ Len(got) \in Nat /\ DOMAIN got = 1..Len(got)
      /\ Len(owner) \in Nat /\ DOMAIN owner = 1..Len(owner)
  BY DEF WriteInv, WriteTypes, ReadInv, RxInv
<1>2. /\ IsFiniteSet(1..Len(got)) /\ IsFiniteSet(1..Len(owner))
      /\ IsFiniteSet(1..Len(Incoming)) /\ IsFiniteSet(Readers)
  BY <1>1, Constants, FS_Interval, ProcsAssumption
<1>3. /\ Returned(got) \in SUBSET (1..Len(got))
      /\ Ahead(consumed) \in SUBSET (1..Len(Incoming))
      /\ WrittenBy(Writers, owner) \in SUBSET (1..Len(owner))
      /\ WrittenBy(Readers, owner) \in SUBSET (1..Len(owner))
      /\ AtPing(rx) \in SUBSET Readers
      /\ {i \in DOMAIN Incoming : Incoming[i] = "PING"} \in SUBSET (1..Len(Incoming))
  BY <1>1, Constants DEF Returned, Ahead, WrittenBy, AtPing
<1>4. /\ IsFiniteSet(Returned(got)) /\ IsFiniteSet(Ahead(consumed))
      /\ IsFiniteSet(WrittenBy(Writers, owner)) /\ IsFiniteSet(WrittenBy(Readers, owner))
      /\ IsFiniteSet(AtPing(rx))
      /\ IsFiniteSet({i \in DOMAIN Incoming : Incoming[i] = "PING"})
  BY <1>2, <1>3, FS_Subset
<1>5. QED
  BY <1>4, FS_CardinalityType DEF Pings

\* Steps that return no PING, write no PONG and skip lines at most.
LEMMA PingsStay ==
  ASSUME WriteInv, ReadInv, PingInv, owner' = owner,
         Returned(got') = Returned(got), AtPing(rx') = AtPing(rx),
         consumed' \in Nat, consumed <= consumed'
  PROVE  PingInv'
<1>1. Ahead(consumed') \in SUBSET Ahead(consumed)
  <2>1. consumed \div Size <= consumed' \div Size
    <3> DEFINE q == consumed \div Size
               m == consumed % Size
               q2 == consumed' \div Size
               m2 == consumed' % Size
    <3>1. consumed \in Nat
      BY Constants DEF ReadInv, ReadTypes
    <3>2. /\ q \in Nat /\ m \in 0..Size - 1 /\ consumed = q * Size + m
          /\ q2 \in Nat /\ m2 \in 0..Size - 1 /\ consumed' = q2 * Size + m2
      BY <3>1, Divided
    <3> HIDE DEF q, m, q2, m2
    <3>3. ~(q2 < q)
      BY <3>1, <3>2, Ordered, SizeAssumption
    <3>4. q <= q2
      BY <3>2, <3>3
    <3>5. QED
      BY <3>4 DEF q, q2
  <2>2. consumed \div Size \in Nat /\ consumed' \div Size \in Nat
    <3>1. consumed \in Nat
      BY Constants DEF ReadInv, ReadTypes
    <3>2. QED
      BY <3>1, Divided
  <2> DEFINE a == consumed \div Size
             b == consumed' \div Size
  <2>3. a \in Nat /\ b \in Nat /\ a <= b
    BY <2>1, <2>2
  <2> HIDE DEF a, b
  <2>4. \A k \in 1..Len(Incoming) : k > b => k > a
    BY <2>3, Constants
  <2>5. QED
    BY <2>4, Constants DEF Ahead, a, b
<1>2. /\ Cardinality(Ahead(consumed')) <= Cardinality(Ahead(consumed))
      /\ Cardinality(Ahead(consumed')) \in Nat
  BY <1>1, Counted, FS_Subset, FS_CardinalityType
<1>3. EachAnswered'
  BY Zenon DEF PingInv, EachAnswered, Returned, WrittenBy, AtPing
<1>4. RoomInv'
  <2>1. Cardinality(Returned(got')) + Cardinality(Ahead(consumed')) <= Pings
    BY <1>2, Counted DEF PingInv, RoomInv
  <2>2. QED
    BY <2>1 DEF PingInv, RoomInv
<1>5. QED
  BY <1>3, <1>4 DEF PingInv

\* One more message is one more of those its writer has written.
LEMMA Written ==
  ASSUME WriteInv, NEW p \in Procs, owner' = Append(owner, p), NEW procs
  PROVE  WrittenBy(procs, owner') =
           IF p \in procs THEN WrittenBy(procs, owner) \cup {Len(owner) + 1}
                          ELSE WrittenBy(procs, owner)
<1>1. /\ Len(owner) \in Nat /\ DOMAIN owner = 1..Len(owner)
      /\ DOMAIN owner' = 1..Len(owner) + 1
      /\ \A m \in 1..Len(owner) : owner'[m] = owner[m]
      /\ owner'[Len(owner) + 1] = p
  BY DEF WriteInv, WriteTypes
<1>2. QED
  BY <1>1 DEF WrittenBy

\* Every message was passed to WriteMsg by a writer or is a PONG.
LEMMA AllWritten ==
  ASSUME WriteInv, ReadInv
  PROVE  Len(owner) = Cardinality(WrittenBy(Writers, owner))
                        + Cardinality(WrittenBy(Readers, owner))
<1>1. Len(owner) \in Nat /\ DOMAIN owner = 1..Len(owner) /\ owner \in Seq(Procs)
  BY DEF WriteInv, WriteTypes
<1>2. /\ WrittenBy(Writers, owner) \cup WrittenBy(Readers, owner) = 1..Len(owner)
      /\ WrittenBy(Writers, owner) \cap WrittenBy(Readers, owner) = {}
  BY <1>1, ProcsAssumption DEF WrittenBy, Procs
<1>3. Cardinality(1..Len(owner)) = Len(owner)
  <2>1. Cardinality(1..Len(owner)) = IF 1 > Len(owner) THEN 0 ELSE Len(owner) - 1 + 1
    BY <1>1, FS_Interval
  <2>2. QED
    BY <1>1, <2>1
<1>4. Cardinality(1..Len(owner)) = Cardinality(WrittenBy(Writers, owner))
                                     + Cardinality(WrittenBy(Readers, owner))
                                     - Cardinality({})
  BY <1>2, Counted, FS_Union
<1>5. QED
  BY <1>3, <1>4, FS_EmptySet, Counted

\* A PONG is one PING answered, and there is room for it; so is there for the
\* message of a writer.
LEMMA WriteMsgAnswers ==
  ASSUME WriteInv, ReadInv, PingInv, NEW p \in Procs, WriteMsg(p)
  PROVE  PingInv' /\ Len(owner) < MaxMsgs
<1>1. /\ owner' = Append(owner, p) /\ UNCHANGED <<got, consumed>>
      /\ IF p \in Readers THEN rx[p] = "ping" ELSE Len(owner) + Pings < MaxMsgs
      /\ rx' = IF p \in Readers THEN [rx EXCEPT ![p] = "pong"] ELSE rx
  BY DEF WriteMsg
<1>2. /\ Len(owner) \in Nat /\ DOMAIN owner = 1..Len(owner)
      /\ rx \in [Readers -> {"idle", "plock", "prepended", "rlock", "reading", "ping", "pong"}]
  BY DEF WriteInv, WriteTypes, ReadInv, ReadTypes
<1> DEFINE w == Cardinality(WrittenBy(Writers, owner))
           o == Cardinality(WrittenBy(Readers, owner))
           c == Cardinality(Returned(got))
           h == Cardinality(Ahead(consumed))
           a == Cardinality(AtPing(rx))
<1>3. /\ w \in Nat /\ o \in Nat /\ c \in Nat /\ h \in Nat /\ a \in Nat /\ Pings \in Nat
      /\ Len(owner) = w + o
      /\ MaxMsgs \in Nat
  BY Counted, AllWritten, Constants
<1>4. c = o + a /\ w + Pings <= MaxMsgs /\ c + h <= Pings
  BY Zenon DEF PingInv, RoomInv, EachAnswered, Returned, WrittenBy, AtPing
<1> DEFINE w2 == Cardinality(WrittenBy(Writers, owner'))
           o2 == Cardinality(WrittenBy(Readers, owner'))
           a2 == Cardinality(AtPing(rx'))
<1>5. Len(owner) + 1 \notin WrittenBy(Writers, owner)
      /\ Len(owner) + 1 \notin WrittenBy(Readers, owner)
  BY <1>2 DEF WrittenBy
<1>6. CASE p \in Readers
  <2>1. p \notin Writers
    BY <1>6, ProcsAssumption
  <2>2. w2 = w
    BY <1>1, <2>1, Written
  <2>3. o2 = o + 1
    <3>1. WrittenBy(Readers, owner') = WrittenBy(Readers, owner) \cup {Len(owner) + 1}
      BY <1>1, <1>6, Written
    <3>2. QED
      BY <1>5, <3>1, Counted, FS_AddElement
  <2>4. p \in AtPing(rx) /\ AtPing(rx') = AtPing(rx) \ {p}
    BY <1>1, <1>2, <1>6 DEF AtPing
  <2>5. a2 = a - 1 /\ a > 0
    <3>1. a2 = a - 1
      BY <2>4, Counted, FS_RemoveElement
    <3>2. a # 0
      BY <2>4, Counted, FS_EmptySet
    <3>3. QED
      BY <1>3, <3>1, <3>2
  <2> HIDE DEF w, o, c, h, a, w2, o2, a2
  <2>6. c = o2 + a2 /\ w2 + Pings <= MaxMsgs /\ Len(owner) < MaxMsgs
    BY <1>3, <1>4, <2>2, <2>3, <2>5
  <2>7. EachAnswered'
    BY <1>1, <2>6, Zenon DEF EachAnswered, Returned, WrittenBy, AtPing, c, o2, a2
  <2>8. RoomInv'
    BY <1>1, <1>4, <2>6, Zenon DEF RoomInv, w2, c, h
  <2>9. QED
    BY <2>6, <2>7, <2>8 DEF PingInv
<1>7. CASE p \notin Readers
  <2>1. p \in Writers
    BY <1>7 DEF Procs
  <2>2. WrittenBy(Readers, owner') = WrittenBy(Readers, owner)
    BY <1>1, <1>7, Written
  <2>3. w2 = w + 1
    <3>1. WrittenBy(Writers, owner') = WrittenBy(Writers, owner) \cup {Len(owner) + 1}
      BY <1>1, <2>1, Written
    <3>2. QED
      BY <1>5, <3>1, Counted, FS_AddElement
  <2> HIDE DEF w, o, c, h, a, w2, o2, a2
  <2>4. w2 + Pings <= MaxMsgs /\ Len(owner) < MaxMsgs
    BY <1>1, <1>3, <1>7, <2>3
  <2>5. EachAnswered'
    <3>1. rx' = rx /\ got' = got
      BY <1>1, <1>7
    <3>2. c = o2 + a
      BY <1>4, <2>2, Zenon DEF o, o2
    <3>3. QED
      BY <3>1, <3>2, Zenon DEF EachAnswered, Returned, WrittenBy, AtPing, c, o2, a
  <2>6. RoomInv'
    BY <1>1, <1>4, <2>4, Zenon DEF RoomInv, w2, c, h
  <2>7. QED
    BY <2>4, <2>5, <2>6 DEF PingInv
<1>8. QED
  BY <1>6, <1>7
\* Counting from one, a line starts where the units before it are whole lines.
LEMMA StartsLine ==
  ASSUME NEW n \in Nat
  PROVE  (n + 1) % Size = 1 % Size <=> n % Size = 0
<1> DEFINE q == n \div Size
           m == n % Size
<1>1. q \in Nat /\ m \in 0..Size - 1 /\ n = q * Size + m
  BY Divided
<1> HIDE DEF q, m
<1>2. q * Size \in Nat /\ 0 * Size = 0 /\ (q + 1) * Size = q * Size + Size
  BY <1>1, Multiple, Constants
<1>3. CASE Size = 1
  <2>1. m = 0 /\ n + 1 = (q + 1) * Size
    BY <1>1, <1>2, <1>3
  <2>2. (n + 1) % Size = 0
    BY <1>1, <2>1, Multiple
  <2>3. (1 * Size) % Size = 0 /\ 1 * Size = 1
    BY <1>3, Multiple
  <2>4. QED
    BY <2>1, <2>2, <2>3 DEF m
<1>4. CASE Size > 1
  <2>1. 1 % Size = 1
    <3>1. (0 * Size + 1) % Size = 1
      BY <1>4, Quotient, Constants
    <3>2. QED
      BY <1>2, <3>1
  <2>2. CASE m = Size - 1
    <3>1. n + 1 = (q + 1) * Size
      BY <1>1, <1>2, <2>2, Constants
    <3>2. (n + 1) % Size = 0
      BY <1>1, <3>1, Multiple
    <3>3. m # 0
      BY <1>4, <2>2, Constants
    <3>4. QED
      BY <2>1, <3>2, <3>3 DEF m
  <2>3. CASE m < Size - 1
    <3>1. m + 1 \in 0..Size - 1 /\ n + 1 = q * Size + (m + 1)
      BY <1>1, <1>2, <2>3, Constants
    <3>2. (n + 1) % Size = m + 1
      BY <1>1, <3>1, Quotient
    <3>3. m + 1 = 1 <=> m = 0
      BY <1>1, Constants
    <3>4. QED
      BY <2>1, <3>2, <3>3 DEF m
  <2>4. QED
    BY <1>1, <2>2, <2>3, Constants
<1>5. QED
  BY <1>3, <1>4, Constants

\* What is returned last is a PING or is none; what was returned before stays.
PingSpan(x) == x[1] > 0 /\ x[1] % Size = 1 % Size /\ Incoming[x[2] \div Size] = "PING"

\* What the line returned last makes of the PINGs returned.
LEMMA ReturnedGrows ==
  ASSUME ReadInv, NEW x \in Nat \X Nat, got' = Append(got, x)
  PROVE  /\ Returned(got') = IF PingSpan(x) THEN Returned(got) \cup {Len(got) + 1}
                                            ELSE Returned(got)
         /\ Len(got) + 1 \notin Returned(got)
<1>1. /\ Len(got) \in Nat /\ DOMAIN got = 1..Len(got)
      /\ DOMAIN got' = 1..Len(got) + 1
      /\ \A m \in 1..Len(got) : got'[m] = got[m]
      /\ got'[Len(got) + 1] = x
  BY DEF ReadInv, RxInv
<1>2. /\ Returned(got) = {i \in DOMAIN got : PingSpan(got[i])}
      /\ Returned(got') = {i \in DOMAIN got' : PingSpan(got'[i])}
  BY DEF Returned, PingSpan
<1>3. QED
  BY <1>1, <1>2

\* A line is a PING returned only if it is one and whole; it is then ahead no
\* longer.
LEMMA ReadLineAnswers ==
  ASSUME WriteInv, ReadInv, PingInv, NEW r \in Readers, ReadLine(r)
  PROVE  PingInv'
<1> DEFINE x == <<consumed + 1, LineEnd>>
           k == consumed \div Size + 1
<1>1. /\ rx[r] = "reading" /\ LineEnd <= arrived /\ consumed' = LineEnd
      /\ got' = Append(got, x) \/ (~IsPing /\ got' = got)
      /\ rx' = [rx EXCEPT ![r] = IF IsPing THEN "ping" ELSE "idle"]
      /\ UNCHANGED <<owner, arrived>>
  BY DEF ReadLine, MayParse, IsPing, RxReturn, RxGoto, txVars, netVars
<1>2. /\ consumed \in Nat /\ arrived \in 0..Total
      /\ rx \in [Readers -> {"idle", "plock", "prepended", "rlock", "reading", "ping", "pong"}]
  BY Constants DEF ReadInv, ReadTypes
<1>3. /\ consumed \div Size \in Nat /\ LineEnd \in Nat /\ consumed < LineEnd
      /\ LineEnd = k * Size /\ LineEnd \div Size = k /\ k \in Nat /\ Line = k
  <2>1. Line = k /\ k \in Nat /\ consumed \div Size \in Nat
    BY <1>2, LineEndIs, Divided
  <2>2. LineEnd \in Nat /\ consumed < LineEnd
    BY <1>2, LineEndIs
  <2> HIDE DEF k
  <2>3. LineEnd = k * Size /\ LineEnd \div Size = k
    BY <1>2, <2>1, LineEnds
  <2>4. QED
    BY <2>1, <2>2, <2>3
<1>4. x \in Nat \X Nat
  BY <1>2, <1>3
<1>5. PingSpan(x) <=> IsPing
  <2>1. x[1] > 0 /\ x[1] = consumed + 1 /\ x[2] = LineEnd
    BY <1>2
  <2>2. x[1] % Size = 1 % Size <=> WholeLine
    BY <1>2, <2>1, StartsLine DEF WholeLine
  <2> HIDE DEF x, k
  <2>3. Incoming[x[2] \div Size] = Incoming[Line]
    BY <1>3, <2>1, Zenon
  <2>4. QED
    BY <2>1, <2>2, <2>3, Zenon DEF PingSpan, IsPing
<1> HIDE DEF x
<1>6. CASE ~IsPing
  <2>1. Returned(got') = Returned(got)
    BY <1>1, <1>4, <1>5, <1>6, ReturnedGrows
  <2>2. AtPing(rx') = AtPing(rx)
    BY <1>1, <1>2, <1>6 DEF AtPing
  <2>3. QED
    BY <1>1, <1>2, <1>3, <2>1, <2>2, PingsStay
<1>7. CASE IsPing
  <2>1. /\ Returned(got') = Returned(got) \cup {Len(got) + 1}
        /\ Len(got) + 1 \notin Returned(got)
    <3>1. got' = Append(got, x)
      BY <1>1, <1>7 DEF IsPing
    <3>2. QED
      BY <1>4, <1>5, <1>7, <3>1, ReturnedGrows
  <2>2. AtPing(rx') = AtPing(rx) \cup {r} /\ r \notin AtPing(rx)
    BY <1>1, <1>2, <1>7 DEF AtPing
  <2>3. k \in Ahead(consumed) /\ Ahead(consumed') = Ahead(consumed) \ {k}
    <3>1. Incoming[k] = "PING"
      BY <1>3, <1>7 DEF IsPing
    <3>2. k \in 1..Len(Incoming)
      <4>1. k <= Len(Incoming)
        <5>1. k * Size <= Total /\ Total = Len(Incoming) * Size
          BY <1>1, <1>2, <1>3, Constants DEF Total
        <5>2. ~(Len(Incoming) < k)
          BY <1>3, <5>1, Ordered, Constants
        <5>3. QED
          BY <1>3, <5>2, Constants
      <4>2. QED
        BY <1>3, <4>1, Constants
    <3>3. consumed' \div Size = k
      BY <1>1, <1>3
    <3> DEFINE q == consumed \div Size
    <3>4. q \in Nat /\ k = q + 1
      BY <1>3
    <3>5. /\ Ahead(consumed) = {j \in 1..Len(Incoming) : Incoming[j] = "PING" /\ j > q}
          /\ Ahead(consumed') = {j \in 1..Len(Incoming) : Incoming[j] = "PING" /\ j > k}
      BY <3>3, Constants DEF Ahead
    <3> HIDE DEF q, k
    <3>6. QED
      BY <3>1, <3>2, <3>4, <3>5, Constants
  <2> DEFINE w == Cardinality(WrittenBy(Writers, owner))
             o == Cardinality(WrittenBy(Readers, owner))
             c == Cardinality(Returned(got))
             h == Cardinality(Ahead(consumed))
             a == Cardinality(AtPing(rx))
             c2 == Cardinality(Returned(got'))
             h2 == Cardinality(Ahead(consumed'))
             a2 == Cardinality(AtPing(rx'))
  <2>4. o \in Nat /\ c \in Nat /\ h \in Nat /\ a \in Nat /\ Pings \in Nat
    BY Counted
  <2>5. c = o + a /\ w + Pings <= MaxMsgs /\ c + h <= Pings
    BY Zenon DEF PingInv, RoomInv, EachAnswered, Returned, WrittenBy, AtPing
  <2>6. c2 = c + 1 /\ a2 = a + 1
    BY <2>1, <2>2, Counted, FS_AddElement
  <2>7. h2 = h - 1
    <3> HIDE DEF k
    <3>1. IsFiniteSet(Ahead(consumed))
      BY Counted
    <3>2. Cardinality(Ahead(consumed) \ {k}) = h - 1
      BY <2>3, <3>1, FS_RemoveElement
    <3>3. QED
      BY <2>3, <3>2, Zenon
  <2> HIDE DEF w, o, c, h, a, c2, h2, a2
  <2>8. c2 = o + a2 /\ c2 + h2 <= Pings
    BY <2>4, <2>5, <2>6, <2>7
  <2>9. EachAnswered'
    BY <1>1, <2>8, Zenon DEF EachAnswered, Returned, WrittenBy, AtPing, c2, o, a2
  <2>10. RoomInv'
    BY <1>1, <2>5, <2>8, Zenon DEF RoomInv, w, c2, h2
  <2>11. QED
    BY <2>9, <2>10 DEF PingInv
<1>8. QED
  BY <1>6, <1>7

\* No other step of a reader has to do with PINGs.
LEMMA OtherReads ==
  ASSUME WriteInv, ReadInv, PingInv, NEW r \in Readers,
         \/ ReadMsg(r) \/ PLock(r) \/ TakePrepended(r) \/ RLock(r) \/ PongDone(r)
         \/ ReadFails(r)
  PROVE  PingInv'
<1>1. rx \in [Readers -> {"idle", "plock", "prepended", "rlock", "reading", "ping", "pong"}]
      /\ consumed \in Nat
  BY Constants DEF ReadInv, ReadTypes
<1>2. owner' = owner
  BY DEF ReadMsg, PLock, TakePrepended, RLock, PongDone, ReadFails, txVars
<1>3. rx[r] # "ping" /\ \E pc \in {"idle", "plock", "prepended", "rlock", "reading"} :
                           rx' = [rx EXCEPT ![r] = pc]
  BY DEF ReadMsg, PLock, TakePrepended, RLock, PongDone, ReadFails, RxReturn, RxGoto
<1>4. AtPing(rx') = AtPing(rx)
  BY <1>1, <1>3 DEF AtPing
<1>5. consumed' \in Nat /\ consumed <= consumed'
  <2>1. ReadFails(r) => consumed' \in consumed..arrived
    BY DEF ReadFails, MidLine
  <2>2. ~ReadFails(r) => consumed' = consumed
    BY DEF ReadMsg, PLock, TakePrepended, RLock, PongDone
  <2>3. arrived \in Nat
    BY Constants DEF ReadInv, ReadTypes
  <2>4. QED
    BY <1>1, <2>1, <2>2, <2>3
<1>6. Returned(got') = Returned(got)
  <2>1. CASE got' = got
    BY <2>1
  <2>2. CASE got' # got
    <3>1. TakePrepended(r) /\ got' = Append(got, <<0, Prepended - msgs>>)
      BY <2>2 DEF ReadMsg, PLock, TakePrepended, RLock, PongDone, ReadFails
    <3>2. <<0, Prepended - msgs>> \in Nat \X Nat
      BY Constants DEF ReadInv, ReadTypes
    <3>3. ~PingSpan(<<0, Prepended - msgs>>)
      BY DEF PingSpan
    <3>4. QED
      BY <3>1, <3>2, <3>3, ReturnedGrows
  <2>3. QED
    BY <2>1, <2>2
<1>7. QED
  BY <1>2, <1>4, <1>5, <1>6, PingsStay

\* txMsg reports a failure to the goroutine whose message it is.
LEMMA ReturnPongs ==
  ASSUME WriteInv, PongInv, NEW p \in Procs, tx[p] # "idle", NEW result, Return(p, result),
         result = "error" /\ p \in Readers => net # "open", UNCHANGED <<owner, netVars>>
  PROVE  PongInv'
<1>1. /\ outcome' = [outcome EXCEPT ![txMsg[p]] = result]
      /\ UNCHANGED <<teardown, net>>
  BY DEF Return, netVars
<1>2. /\ Len(owner) \in Nat /\ DOMAIN owner = 1..Len(owner)
      /\ outcome \in [Msgs -> {"none", "ok", "error"}]
      /\ txMsg[p] \in 1..Len(owner) /\ owner[txMsg[p]] = p
  BY DEF WriteInv, WriteTypes, TxInv
<1>3. \A m \in Msgs : outcome'[m] = IF m = txMsg[p] THEN result ELSE outcome[m]
  BY <1>1, <1>2
<1>4. Len(owner) <= MaxMsgs /\ MaxMsgs \in Nat
  BY Constants DEF WriteInv, WriteTypes
<1>5. DOMAIN owner \subseteq Msgs
  BY <1>2, <1>4 DEF Msgs
<1>6. QED
  BY <1>1, <1>2, <1>3, <1>5 DEF PongInv, PongsGoOut

\* A connection that is closed or has failed stays so.
LEMMA DeadStays ==
  ASSUME PongInv, UNCHANGED <<owner, outcome>>,
         teardown => teardown', net # "open" => net' # "open"
  PROVE  PongInv'
BY DEF PongInv, PongsGoOut

\* A PONG is written without a deadline.
LEMMA WritePongs ==
  ASSUME WriteInv, PongInv, NEW p \in Procs, WriteMsg(p) \/ TxStep(p),
         WriteMsg(p) => Len(owner) < MaxMsgs
  PROVE  PongInv'
<1>1. p \in Readers => ~HasDeadline(p)
  BY ProcsAssumption DEF HasDeadline
<1>2. CASE WriteMsg(p)
  <2>1. /\ owner' = Append(owner, p) /\ UNCHANGED <<teardown, net>>
        /\ \/ outcome' = outcome
           \/ teardown /\ outcome' = [outcome EXCEPT ![Len(owner')] = "error"]
    BY <1>2 DEF WriteMsg, netVars
  <2>2. /\ Len(owner) \in Nat /\ Len(owner') = Len(owner) + 1
        /\ DOMAIN owner' = 1..Len(owner) + 1 /\ DOMAIN owner = 1..Len(owner)
        /\ \A m \in 1..Len(owner) : owner'[m] = owner[m]
        /\ outcome \in [Msgs -> {"none", "ok", "error"}]
    BY <2>1 DEF WriteInv, WriteTypes
  <2>3. \A m \in Msgs : outcome'[m] = outcome[m] \/ (m = Len(owner) + 1 /\ teardown)
    BY <2>1, <2>2
  <2>4. \A m \in Msgs : outcome'[m] = "error" => m <= Len(owner')
    BY <2>2, <2>3 DEF PongInv, Msgs
  <2>5. ASSUME NEW m \in DOMAIN owner', owner'[m] \in Readers, outcome'[m] = "error", ~teardown
        PROVE  net # "open"
    <3>1. outcome' = outcome
      BY <2>1, <2>5
    <3>2. outcome[Len(owner) + 1] # "error"
      BY <1>2, <2>2, Constants DEF PongInv, Msgs
    <3>3. CASE m = Len(owner) + 1
      BY <2>5, <3>1, <3>2, <3>3
    <3>4. CASE m \in 1..Len(owner)
      BY <2>2, <2>5, <3>1, <3>4 DEF PongInv, PongsGoOut
    <3>5. QED
      BY <2>2, <2>5, <3>3, <3>4
  <2>6. QED
    BY <2>1, <2>4, <2>5 DEF PongInv, PongsGoOut
<1>3. CASE TxStep(p)
  <2>1. tx[p] # "idle" /\ UNCHANGED <<owner, netVars>>
    BY <1>3 DEF TxStep, TxLock, TxFlush, TxSend
  <2>2. \/ outcome' = outcome
        \/ Return(p, "ok")
        \/ Return(p, "error") /\ (HasDeadline(p) \/ net # "open")
    <3>1. TxLock(p) => outcome' = outcome \/ (Return(p, "error") /\ HasDeadline(p))
      BY DEF TxLock
    <3>2. TxFlush(p) => outcome' = outcome \/ (Return(p, "error") /\ MayFail(p))
      BY DEF TxFlush, Takes
    <3>3. TxSend(p) => Return(p, "ok") \/ (Return(p, "error") /\ MayFail(p))
      BY DEF TxSend, Takes
    <3>4. QED
      BY <1>3, <3>1, <3>2, <3>3 DEF TxStep, MayFail
  <2>3. CASE outcome' = outcome
    BY <2>1, <2>3, DeadStays DEF netVars
  <2>4. CASE Return(p, "ok")
    BY <2>1, <2>4, ReturnPongs
  <2>5. CASE Return(p, "error") /\ (HasDeadline(p) \/ net # "open")
    BY <1>1, <2>1, <2>5, ReturnPongs
  <2>6. QED
    BY <2>2, <2>3, <2>4, <2>5
<1>4. QED
  BY <1>2, <1>3

-----------------------------------------------------------------------------
(* Every step.                                                             *)

\* Reading leaves what is written alone; writing, but for the reader's mark that
\* its PONG is on its way, what is read.
LEMMA WriteStays ==
  ASSUME WriteInv, UNCHANGED txVars
  PROVE  WriteInv' /\ IsPrefix(Stream, Stream')
<1>1. UNCHANGED <<writeMutex, residual, wire, tx, txMsg, owner, outcome>>
  BY DEF txVars
<1>2. Stream' = Stream /\ WriteTypes'
  BY <1>1 DEF Stream, WriteInv, WriteTypes
<1>3. Len(owner) \in Nat
  BY DEF WriteInv, WriteTypes
<1>4. \A p \in Procs :
        /\ tx'[p] \in {"flush", "send"} <=> writeMutex' = p
        /\ tx'[p] = "send" => residual' = <<>>
  BY <1>1 DEF WriteInv, TxInv
<1>5. QED
  BY <1>1, <1>2, <1>3, <1>4, StaysKeeps

\* The side that reads, while the other one acts or lines arrive.
LEMMA ReadStays ==
  ASSUME WriteInv, ReadInv, PingInv, UNCHANGED <<rxVars, owner>>,
         arrived' \in arrived..Total
  PROVE  ReadInv' /\ PingInv'
<1>1. UNCHANGED <<readMutex, pMutex, rx, msgs, doneMsgs, consumed, got, torn>>
  BY DEF rxVars
<1>2. ReadTypes'
  <2>1. consumed' \in 0..arrived' /\ arrived' \in 0..Total
    BY <1>1, Constants DEF ReadInv, ReadTypes
  <2>2. QED
    BY <1>1, <2>1 DEF ReadInv, ReadTypes
<1>3. ReadInv'
  BY <1>1, <1>2, QuietStep
<1>4. consumed \in Nat
  BY Constants DEF ReadInv, ReadTypes
<1>5. PingInv'
  BY <1>1, <1>4, PingsStay
<1>6. QED
  BY <1>3, <1>5

\* A step of a goroutine.
LEMMA ProcStep ==
  ASSUME ConnInv, NEW p \in Procs, WriteMsg(p) \/ TxStep(p)
  PROVE  ConnInv' /\ IsPrefix(Stream, Stream')
<1>1. WriteInv /\ ReadInv /\ PingInv /\ PongInv /\ NetTypes
  BY DEF ConnInv
<1>2. CASE WriteMsg(p)
  <2>1. PingInv' /\ Len(owner) < MaxMsgs
    BY <1>1, <1>2, WriteMsgAnswers
  <2>2. ReadInv'
    BY <1>1, <1>2, WriteMsgReads
  <2>3. WriteInv' /\ IsPrefix(Stream, Stream')
    BY <1>1, <1>2, <2>1, WriteMsgStep
  <2>4. NetTypes'
    BY <1>1, <1>2 DEF WriteMsg, netVars, NetTypes
  <2>5. PongInv'
    BY <1>1, <1>2, <2>1, WritePongs
  <2>6. QED
    BY <2>1, <2>2, <2>3, <2>4, <2>5 DEF ConnInv
<1>3. CASE TxStep(p)
  <2>1. WriteInv' /\ IsPrefix(Stream, Stream')
    BY <1>1, <1>3, TxLockStep, TxFlushStep, TxSendStep DEF TxStep
  <2>2. UNCHANGED rxVars /\ UNCHANGED owner /\ UNCHANGED netVars
    BY <1>3 DEF TxStep, TxLock, TxFlush, TxSend
  <2>3. arrived' \in arrived..Total
    BY <1>1, <2>2, Constants DEF netVars, ReadInv, ReadTypes
  <2>4. ReadInv' /\ PingInv'
    BY <1>1, <2>2, <2>3, ReadStays
  <2>5. NetTypes'
    BY <1>1, <2>2 DEF netVars, NetTypes
  <2>6. ~WriteMsg(p) \/ Len(owner) < MaxMsgs
    BY <1>1, WriteMsgAnswers
  <2>7. PongInv'
    BY <1>1, <1>3, <2>6, WritePongs
  <2>8. QED
    BY <2>1, <2>4, <2>5, <2>7 DEF ConnInv
<1>4. QED
  BY <1>2, <1>3

\* A step of a reader.
LEMMA ReaderStep ==
  ASSUME ConnInv, NEW r \in Readers, ReadMsg(r) \/ RxStep(r)
  PROVE  ConnInv' /\ IsPrefix(Stream, Stream')
<1>1. WriteInv /\ ReadInv /\ PingInv /\ PongInv /\ NetTypes
  BY DEF ConnInv
<1>2. UNCHANGED txVars /\ UNCHANGED netVars
  BY DEF ReadMsg, RxStep, PLock, TakePrepended, RLock, ReadLine, PongDone, ReadFails
<1>3. WriteInv' /\ IsPrefix(Stream, Stream')
  BY <1>1, <1>2, WriteStays
<1>4. ReadInv' /\ PingInv'
  <2>1. CASE ReadLine(r)
    BY <1>1, <2>1, ReadLineStep, ReadLineAnswers
  <2>2. CASE ReadMsg(r) \/ PLock(r) \/ RLock(r) \/ PongDone(r)
    BY <1>1, <2>2, ReadCallStep, OtherReads
  <2>3. CASE TakePrepended(r)
    BY <1>1, <2>3, TakePrependedStep, OtherReads
  <2>4. CASE ReadFails(r)
    BY <1>1, <2>4, ReadFailsStep, OtherReads
  <2>5. QED
    BY <2>1, <2>2, <2>3, <2>4 DEF RxStep
<1>5. NetTypes' /\ PongInv'
  BY <1>1, <1>2, DeadStays DEF txVars, netVars, NetTypes
<1>6. QED
  BY <1>3, <1>4, <1>5 DEF ConnInv

\* Every step keeps the invariant, and what is on its way stays on its way.
LEMMA InvStep ==
  ASSUME ConnInv, [Next]_vars
  PROVE  ConnInv' /\ IsPrefix(Stream, Stream')
<1>1. WriteInv /\ ReadInv /\ PingInv /\ PongInv /\ NetTypes
  BY DEF ConnInv
<1>2. ASSUME UNCHANGED txVars, UNCHANGED rxVars, arrived' \in arrived..Total, NetTypes',
             teardown => teardown', net # "open" => net' # "open"
      PROVE  ConnInv' /\ IsPrefix(Stream, Stream')
  <2>1. WriteInv' /\ IsPrefix(Stream, Stream')
    BY <1>1, <1>2, WriteStays
  <2>2. owner' = owner
    BY <1>2 DEF txVars
  <2>3. ReadInv' /\ PingInv'
    BY <1>1, <1>2, <2>2, ReadStays
  <2>4. PongInv'
    BY <1>1, <1>2, DeadStays DEF txVars
  <2>5. QED
    BY <1>2, <2>1, <2>3, <2>4 DEF ConnInv
<1>3. arrived \in 0..Total /\ Total \in Nat
  BY <1>1, Constants DEF ReadInv, ReadTypes
<1>4. CASE CloseFlag \/ CloseTransport \/ NetFails \/ Arrive
  <2>1. UNCHANGED txVars /\ UNCHANGED rxVars
    BY <1>4 DEF CloseFlag, CloseTransport, NetFails, Arrive
  <2>2. arrived' \in arrived..Total
    BY <1>3, <1>4 DEF CloseFlag, CloseTransport, NetFails, Arrive
  <2>3. NetTypes'
    BY <1>1, <1>4 DEF CloseFlag, CloseTransport, NetFails, Arrive, NetTypes
  <2>4. (teardown => teardown') /\ (net # "open" => net' # "open")
    BY <1>4 DEF CloseFlag, CloseTransport, NetFails, Arrive
  <2>5. QED
    BY <1>2, <2>1, <2>2, <2>3, <2>4
<1>5. CASE UNCHANGED vars
  <2>1. UNCHANGED txVars /\ UNCHANGED rxVars /\ UNCHANGED netVars
    BY <1>5 DEF vars
  <2>2. /\ arrived' \in arrived..Total /\ NetTypes'
        /\ teardown' = teardown /\ net' = net
    BY <1>1, <1>3, <2>1 DEF netVars, NetTypes
  <2>3. QED
    BY <1>2, <2>1, <2>2
<1>6. CASE \E p \in Procs : WriteMsg(p) \/ TxStep(p)
  BY <1>6, ProcStep
<1>7. CASE \E r \in Readers : ReadMsg(r) \/ RxStep(r)
  BY <1>7, ReaderStep
<1>8. QED
  BY <1>4, <1>5, <1>6, <1>7 DEF Next

\* A connection begins with nothing written and nothing read.
LEMMA InitInv == Init => ConnInv
<1> SUFFICES ASSUME Init PROVE ConnInv
  OBVIOUS
<1>1. WriteTypes
  BY Constants DEF Init, WriteTypes
<1>2. Stream = <<>> /\ Blocks = 0
  <2>1. Stream = <<>>
    BY DEF Init, Stream
  <2>2. QED
    BY <2>1, Zero DEF Blocks
<1>3. Framed
  BY <1>2, Zero DEF Framed
<1>4. AcceptedOnce /\ BlocksInv
  BY <1>2 DEF Init, AcceptedOnce, BlocksInv
<1>5. TxInv
  BY <1>2, ProcsAssumption DEF Init, TxInv
<1>6. ReadTypes
  <2>1. torn \subseteq DOMAIN Incoming /\ doneMsgs \in BOOLEAN
    BY DEF Init
  <2>2. arrived \in 0..Total /\ consumed \in 0..arrived /\ msgs \in 0..Prepended
    BY Constants DEF Init
  <2>3. QED
    BY <2>1, <2>2 DEF Init, ReadTypes
<1>7. RxInv
  <2>1. WholeLine /\ FromConn = {}
    BY Zero DEF Init, WholeLine, FromConn
  <2>2. QED
    BY <2>1, Constants DEF Init, RxInv
<1>8. PrependedFirst /\ LinesWhole
  <2>1. consumed \div Size = 0 /\ FromConn = {}
    BY Zero DEF Init, FromConn
  <2>2. QED
    BY <2>1 DEF Init, PrependedFirst, LinesWhole
<1>9. Returned(got) = {} /\ AtPing(rx) = {}
      /\ WrittenBy(Readers, owner) = {} /\ WrittenBy(Writers, owner) = {}
  BY DEF Init, Returned, AtPing, WrittenBy
<1>10. Ahead(consumed) = {i \in DOMAIN Incoming : Incoming[i] = "PING"}
  <2>1. consumed \div Size = 0
    BY Zero DEF Init
  <2>2. QED
    BY <2>1, Constants DEF Ahead
<1>11. EachAnswered
  <2>1. Cardinality(Returned(got)) = Cardinality(WrittenBy(Readers, owner)) + Cardinality(AtPing(rx))
    BY <1>9, FS_EmptySet
  <2>2. QED
    BY <2>1, Zenon DEF EachAnswered, Returned, AtPing, WrittenBy
<1>12. RoomInv
  <2>1. Cardinality({}) = 0 /\ Pings \in Nat /\ MaxMsgs \in Nat
    BY <1>1, <1>3, <1>4, <1>5, <1>6, <1>7, <1>8, Counted, FS_EmptySet, Constants
       DEF WriteInv, ReadInv
  <2>2. QED
    BY <1>9, <1>10, <2>1, IncomingAssumption DEF RoomInv, Pings
<1>13. NetTypes
  BY DEF Init, NetTypes
<1>14. PongInv
  BY DEF Init, PongInv, PongsGoOut
<1>15. QED
  BY <1>1, <1>3, <1>4, <1>5, <1>6, <1>7, <1>8, <1>11, <1>12, <1>13, <1>14
     DEF ConnInv, WriteInv, ReadInv, PingInv

-----------------------------------------------------------------------------
(* What holds of every connection.                                         *)

\* The invariant: who holds the mutexes, what is on its way, what was returned
\* and what was answered fit together, whatever the goroutines, the transport
\* and the server do.
THEOREM Invariance == Spec => []ConnInv
<1>1. Init => ConnInv
  BY InitInv
<1>2. ConnInv /\ [Next]_vars => ConnInv'
  BY InvStep
<1>3. QED
  BY <1>1, <1>2, PTL DEF Spec

\* Every variable keeps its type; no more messages are written than there is
\* room for, though nothing keeps a reader from answering.
THEOREM TypeCorrect == Spec => []TypeOK
<1>1. ConnInv => TypeOK
  BY TypesAre, Zenon DEF ConnInv, WriteInv, ReadInv
<1>2. QED
  BY <1>1, Invariance, PTL

\* Commands are whole on the wire, whatever part of each write the transport
\* takes and however the goroutines interleave (txMsg and the residual).
THEOREM CommandsWhole == Spec => []Framed
<1>1. ConnInv => Framed
  BY DEF ConnInv, WriteInv
<1>2. QED
  BY <1>1, Invariance, PTL

\* A command reported as written is on its way once, one reported as failed at
\* most once.
THEOREM SentOnce == Spec => []AcceptedOnce
<1>1. ConnInv => AcceptedOnce
  BY DEF ConnInv, WriteInv
<1>2. QED
  BY <1>1, Invariance, PTL

\* What is on its way stays on its way, ahead of what follows.
THEOREM StreamKept == Spec => NothingTakenBack
<1>1. ConnInv /\ [Next]_vars => [IsPrefix(Stream, Stream')]_vars
  BY InvStep
<1>2. QED
  BY <1>1, Invariance, PTL DEF Spec, NothingTakenBack

\* No reader gets a line before the source's own messages have all been had, in
\* order (prependSource).
THEOREM SourceFirst == Spec => []PrependedFirst
<1>1. ConnInv => PrependedFirst
  BY DEF ConnInv, ReadInv
<1>2. QED
  BY <1>1, Invariance, PTL

\* Lines are returned once and in order, and only one in whose middle a read failed
\* is not whole (rxMsg).
THEOREM LinesInOrder == Spec => []LinesWhole
<1>1. ConnInv => LinesWhole
  BY DEF ConnInv, ReadInv
<1>2. QED
  BY <1>1, Invariance, PTL

\* Every PING returned has its PONG, which no deadline stops, and nothing else has
\* one.
THEOREM PingsGetPongs == Spec => []PingsAnswered
<1>1. ConnInv => PingsAnswered
  BY DEF ConnInv, PingInv, PongInv, PingsAnswered
<1>2. QED
  BY <1>1, Invariance, PTL
=============================================================================
