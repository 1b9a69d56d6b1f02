--------------------------- MODULE HfiRingProofs ----------------------------
(***************************************************************************)
(* The rings of HfiRing deliver what was written, for rings of any size, any *)
(* packets and any bound on a batch.                                       *)
(***************************************************************************)
EXTENDS HfiRing, SequenceTheorems, TLAPS

\* Copying a packet that fits keeps the words that are in the ring, and places the packet
\* behind them (hfi_write_cmd, both branches of the wrap).
LEMMA CopyHolds ==
    ASSUME NEW N \in Nat \ {0}, NEW mem, NEW wr, NEW rd, NEW q, NEW p \in Seq(HfiWords),
           HfiHolds(mem, wr, rd, q, N), HfiFits(wr, rd, N, Len(p))
    PROVE  /\ HfiHolds(HfiCopy(mem, wr, p, N), wr, rd, q, N)
           /\ \A i \in 1..Len(p) : HfiCopy(mem, wr, p, N)[HfiPos(wr, i - 1, N)] = p[i]
<1> DEFINE new == HfiCopy(mem, wr, p, N)
<1>1. /\ wr \in Int /\ rd \in Int /\ Len(p) \in Nat /\ Len(q) \in Nat
      /\ 0 <= wr /\ wr < N /\ 0 <= rd /\ rd < N
  BY DEF HfiHolds
<1>2. Len(q) = (IF wr >= rd THEN wr - rd ELSE N - (rd - wr)) /\ Len(q) + Len(p) < N
  BY <1>1 DEF HfiHolds, HfiFits, HfiUsed
<1>3. new \in HfiRings(N)
  <2>1. \A i \in 1..Len(p) : p[i] \in HfiWords
    OBVIOUS
  <2>2. \A k \in 0..(N - 1) : mem[k] \in HfiWords
    BY DEF HfiHolds, HfiRings
  <2>3. ASSUME NEW k \in 0..(N - 1) PROVE new[k] \in HfiWords
    <3>1. CASE k >= wr /\ k < wr + Len(p)
      BY <1>1, <2>1, <3>1 DEF HfiCopy
    <3>2. CASE ~(k >= wr /\ k < wr + Len(p)) /\ k < wr /\ k + N < wr + Len(p)
      BY <1>1, <2>1, <3>2 DEF HfiCopy
    <3>3. CASE ~(k >= wr /\ k < wr + Len(p)) /\ ~(k < wr /\ k + N < wr + Len(p))
      BY <2>2, <3>3 DEF HfiCopy
    <3> QED
      BY <3>1, <3>2, <3>3
  <2> QED
    BY <2>3, Zenon DEF HfiCopy, HfiRings
<1>4. ASSUME NEW i \in 1..Len(q) PROVE new[HfiPos(rd, i - 1, N)] = q[i]
  <2>1. HfiPos(rd, i - 1, N) \in 0..(N - 1)
    BY <1>1, <1>2 DEF HfiPos
  <2>2. new[HfiPos(rd, i - 1, N)] = mem[HfiPos(rd, i - 1, N)]
    <3> DEFINE k == HfiPos(rd, i - 1, N)
    <3>1. ~(k >= wr /\ k < wr + Len(p)) /\ ~(k < wr /\ k + N < wr + Len(p))
      BY <1>1, <1>2 DEF HfiPos
    <3> QED
      BY <2>1, <3>1 DEF HfiCopy
  <2> QED
    BY <2>2 DEF HfiHolds
<1>5. ASSUME NEW i \in 1..Len(p) PROVE new[HfiPos(wr, i - 1, N)] = p[i]
  <2>1. HfiPos(wr, i - 1, N) \in 0..(N - 1)
    BY <1>1, <1>2 DEF HfiPos
  <2>2. CASE wr + (i - 1) < N
    BY <1>1, <1>2, <2>1, <2>2 DEF HfiPos, HfiCopy
  <2>3. CASE ~(wr + (i - 1) < N)
    BY <1>1, <1>2, <2>1, <2>3 DEF HfiPos, HfiCopy
  <2> QED
    BY <2>2, <2>3
<1> QED
  BY <1>3, <1>4, <1>5 DEF HfiHolds

\* Moving the write index over a packet behind the words of the ring adds it to them.
LEMMA PublishHolds ==
    ASSUME NEW N \in Nat \ {0}, NEW mem, NEW wr, NEW rd, NEW q, NEW p \in Seq(HfiWords),
           HfiHolds(mem, wr, rd, q, N), HfiFits(wr, rd, N, Len(p)),
           \A i \in 1..Len(p) : mem[HfiPos(wr, i - 1, N)] = p[i]
    PROVE  HfiHolds(mem, HfiPos(wr, Len(p), N), rd, q \o p, N)
<1>1. /\ wr \in Int /\ rd \in Int /\ Len(p) \in Nat /\ Len(q) \in Nat
      /\ 0 <= wr /\ wr < N /\ 0 <= rd /\ rd < N /\ q \in Seq(HfiWords)
  BY DEF HfiHolds
<1>2. Len(q) = (IF wr >= rd THEN wr - rd ELSE N - (rd - wr)) /\ Len(q) + Len(p) < N
  BY <1>1 DEF HfiHolds, HfiFits, HfiUsed
<1>3. HfiPos(wr, Len(p), N) \in 0..(N - 1)
  BY <1>1, <1>2 DEF HfiPos
<1>4. /\ q \o p \in Seq(HfiWords) /\ Len(q \o p) = Len(q) + Len(p)
      /\ \A i \in 1..Len(q) : (q \o p)[i] = q[i]
      /\ \A i \in (Len(q) + 1)..(Len(q) + Len(p)) : (q \o p)[i] = p[i - Len(q)]
  BY <1>1, ConcatProperties
<1>5. Len(q \o p) = HfiUsed(HfiPos(wr, Len(p), N), rd, N)
  BY <1>1, <1>2, <1>4 DEF HfiUsed, HfiPos
<1>6. ASSUME NEW i \in 1..Len(q \o p) PROVE mem[HfiPos(rd, i - 1, N)] = (q \o p)[i]
  <2>1. CASE i <= Len(q)
    BY <1>1, <1>4, <2>1 DEF HfiHolds
  <2>2. CASE i > Len(q)
    <3>1. i - Len(q) \in 1..Len(p) /\ (q \o p)[i] = p[i - Len(q)]
      BY <1>1, <1>4, <2>2
    <3>2. HfiPos(wr, (i - Len(q)) - 1, N) = HfiPos(rd, i - 1, N)
      BY SMTT(60), <1>1, <1>2, <2>2, <3>1 DEF HfiPos
    <3> QED
      BY <3>1, <3>2
  <2> QED
    BY <1>1, <1>4, <2>1, <2>2
<1> QED
  BY <1>3, <1>4, <1>5, <1>6 DEF HfiHolds

\* Reading n words of a ring yields the first n words of what it holds, and the rest stays.
LEMMA TakeHolds ==
    ASSUME NEW N \in Nat \ {0}, NEW mem, NEW wr, NEW rd, NEW q,
           HfiHolds(mem, wr, rd, q, N), NEW n \in 1..HfiUsed(wr, rd, N)
    PROVE  /\ HfiTake(mem, rd, n, N) = SubSeq(q, 1, n)
           /\ HfiHolds(mem, wr, HfiPos(rd, n, N), SubSeq(q, n + 1, Len(q)), N)
<1>1. /\ wr \in Int /\ rd \in Int /\ Len(q) \in Nat /\ n \in Nat
      /\ 0 <= wr /\ wr < N /\ 0 <= rd /\ rd < N /\ q \in Seq(HfiWords)
  BY DEF HfiHolds, HfiUsed
<1>2. Len(q) = (IF wr >= rd THEN wr - rd ELSE N - (rd - wr)) /\ 1 <= n /\ n <= Len(q)
  BY <1>1 DEF HfiHolds, HfiUsed
<1>3. HfiTake(mem, rd, n, N) = SubSeq(q, 1, n)
  <2>1. SubSeq(q, 1, n) = [i \in 1..n |-> q[i]]
    BY <1>1, <1>2 DEF SubSeq
  <2>2. \A i \in 1..n : mem[HfiPos(rd, i - 1, N)] = q[i]
    BY SMTT(60), <1>1, <1>2 DEF HfiHolds
  <2> QED
    BY <2>1, <2>2 DEF HfiTake
<1> DEFINE r == SubSeq(q, n + 1, Len(q))
<1>4. /\ r \in Seq(HfiWords) /\ Len(r) = Len(q) - n
      /\ \A i \in 1..(Len(q) - n) : r[i] = q[n + i]
  <2>1. r = [i \in 1..(Len(q) - n) |-> q[i + (n + 1) - 1]]
    BY <1>1, <1>2 DEF SubSeq
  <2>2. \A i \in 1..(Len(q) - n) : i + (n + 1) - 1 = n + i /\ q[n + i] \in HfiWords
    BY <1>1, <1>2
  <2> QED
    BY <1>1, <1>2, <2>1, <2>2
<1>5. HfiPos(rd, n, N) \in 0..(N - 1)
  BY <1>1, <1>2 DEF HfiPos
<1>6. Len(r) = HfiUsed(wr, HfiPos(rd, n, N), N)
  BY <1>1, <1>2, <1>4 DEF HfiUsed, HfiPos
<1>7. ASSUME NEW i \in 1..Len(r) PROVE mem[HfiPos(HfiPos(rd, n, N), i - 1, N)] = r[i]
  <2>1. n + i \in 1..Len(q) /\ r[i] = q[n + i]
    BY <1>1, <1>2, <1>4
  <2>2. HfiPos(HfiPos(rd, n, N), i - 1, N) = HfiPos(rd, (n + i) - 1, N)
    BY <1>1, <1>2, <2>1 DEF HfiPos
  <2> QED
    BY SMTT(60), <2>1, <2>2 DEF HfiHolds
<1> QED
  BY Zenon, <1>3, <1>4, <1>5, <1>6, <1>7 DEF HfiHolds

\* A ring whose indices are equal holds nothing.
LEMMA EmptyHolds ==
    ASSUME NEW N \in Nat \ {0}, NEW mem \in HfiRings(N), NEW i \in 0..(N - 1)
    PROVE  HfiHolds(mem, i, i, <<>>, N)
  BY DEF HfiHolds, HfiUsed, HfiRings

\* Every step keeps the invariant, and leaves the words last read equal to those written.
LEMMA HfiStep == HfiInv /\ HfiIntact /\ [HfiNext]_hfiVars => HfiInv' /\ HfiIntact'
<1> SUFFICES ASSUME HfiInv, HfiIntact, [HfiNext]_hfiVars PROVE HfiInv' /\ HfiIntact'
  OBVIOUS
<1> USE HfiAssumption
<1>1. CASE HfiOpen
  <2>1. HfiHolds(hfiCmd, 0, 0, <<>>, HfiN) /\ HfiHolds(hfiMsg, 0, 0, <<>>, HfiM)
    BY EmptyHolds DEF HfiInv, HfiHolds
  <2>2. hfiPend' = <<>>
    BY <1>1 DEF HfiOpen, HfiReset, HfiInv
  <2> QED
    BY <1>1, <2>1, <2>2 DEF HfiOpen, HfiReset, HfiInv, HfiIntact, HfiPending
<1>2. CASE HfiClose
  BY Zenon, <1>2 DEF HfiClose, HfiInv, HfiIntact, HfiPending
<1>3. ASSUME NEW p \in HfiPkts, HfiWrite(p) PROVE HfiInv' /\ HfiIntact'
  <2>1. p \in Seq(HfiWords) /\ HfiFits(hfiCmdWr, hfiCmdRd, HfiN, Len(p))
    BY <1>3 DEF HfiWrite
  <2>2. /\ HfiHolds(hfiCmd', hfiCmdWr, hfiCmdRd, hfiCmdQ, HfiN)
        /\ \A i \in 1..Len(p) : hfiCmd'[HfiPos(hfiCmdWr, i - 1, HfiN)] = p[i]
    BY <1>3, <2>1, CopyHolds DEF HfiWrite, HfiInv
  <2> QED
    BY <1>3, <2>1, <2>2 DEF HfiWrite, HfiInv, HfiIntact, HfiPending
<1>4. CASE HfiPublish
  <2>1. HfiHolds(hfiCmd, HfiPos(hfiCmdWr, Len(hfiPend), HfiN), hfiCmdRd, hfiCmdQ \o hfiPend, HfiN)
    BY <1>4, PublishHolds DEF HfiPublish, HfiInv, HfiPending
  <2> QED
    BY <1>4, <2>1 DEF HfiPublish, HfiInv, HfiIntact, HfiPending
<1>5. ASSUME NEW n \in 1..HfiN, HfiFwRead(n) PROVE HfiInv' /\ HfiIntact'
  <2>1. /\ hfiGot' = hfiWant'
        /\ HfiHolds(hfiCmd, hfiCmdWr, hfiCmdRd', hfiCmdQ', HfiN)
    BY <1>5, TakeHolds DEF HfiFwRead, HfiInv
  <2>2. hfiPend # <<>> => HfiFits(hfiCmdWr, hfiCmdRd', HfiN, Len(hfiPend))
    <3>1. HfiUsed(hfiCmdWr, hfiCmdRd', HfiN) <= HfiUsed(hfiCmdWr, hfiCmdRd, HfiN)
      BY <1>5 DEF HfiFwRead, HfiInv, HfiHolds, HfiUsed, HfiPos
    <3>2. /\ HfiUsed(hfiCmdWr, hfiCmdRd', HfiN) \in Int /\ HfiUsed(hfiCmdWr, hfiCmdRd, HfiN) \in Int
          /\ Len(hfiPend) \in Nat
      BY SMTT(60), <2>1 DEF HfiInv, HfiHolds, HfiUsed, HfiPending
    <3> QED
      BY <3>1, <3>2 DEF HfiInv, HfiPending, HfiFits
  <2> QED
    BY <1>5, <2>1, <2>2 DEF HfiFwRead, HfiInv, HfiIntact, HfiPending
<1>6. ASSUME NEW p \in HfiPkts, HfiFwWrite(p) PROVE HfiInv' /\ HfiIntact'
  <2>1. p \in Seq(HfiWords) /\ HfiFits(hfiMsgWr, hfiMsgRd, HfiM, Len(p))
    BY <1>6 DEF HfiFwWrite
  <2>2. /\ HfiHolds(hfiMsg', hfiMsgWr, hfiMsgRd, hfiMsgQ, HfiM)
        /\ \A i \in 1..Len(p) : hfiMsg'[HfiPos(hfiMsgWr, i - 1, HfiM)] = p[i]
    BY <1>6, <2>1, CopyHolds DEF HfiFwWrite, HfiInv
  <2>3. HfiHolds(hfiMsg', hfiMsgWr', hfiMsgRd, hfiMsgQ', HfiM)
    BY SMTT(60), <1>6, <2>1, <2>2, PublishHolds DEF HfiFwWrite
  <2> QED
    BY <1>6, <2>3 DEF HfiFwWrite, HfiInv, HfiIntact, HfiPending
<1>7. CASE HfiRead
  <2> DEFINE n == HfiUsed(hfiMsgWr, hfiMsgRd, HfiM)
  <2>1. n \in Nat /\ n = Len(hfiMsgQ) /\ n \in 1..n
    BY <1>7 DEF HfiRead, HfiInv, HfiHolds, HfiUsed
  <2>2. HfiHolds(hfiMsg, hfiMsgWr, hfiMsgWr, <<>>, HfiM)
    BY EmptyHolds DEF HfiInv, HfiHolds
  <2>3. HfiPos(hfiMsgRd, n, HfiM) = hfiMsgWr
    BY <1>7 DEF HfiRead, HfiInv, HfiHolds, HfiUsed, HfiPos
  <2>4. HfiTake(hfiMsg, hfiMsgRd, n, HfiM) = SubSeq(hfiMsgQ, 1, n)
    BY <2>1, TakeHolds DEF HfiInv
  <2>5. SubSeq(hfiMsgQ, 1, n) = hfiMsgQ
    BY <2>1 DEF HfiInv, HfiHolds
  <2>6. hfiMsgRd' = hfiMsgWr /\ hfiMsgQ' = <<>> /\ hfiGot' = hfiWant'
    BY Zenon, <1>7, <2>3, <2>4, <2>5 DEF HfiRead, HfiIntact
  <2> QED
    BY <1>7, <2>2, <2>6 DEF HfiRead, HfiInv, HfiIntact, HfiPending
<1>8. CASE UNCHANGED hfiVars
  BY <1>8 DEF hfiVars, HfiInv, HfiIntact, HfiPending
<1> QED
  BY <1>1, <1>2, <1>3, <1>4, <1>5, <1>6, <1>7, <1>8 DEF HfiNext

\* Whatever the sizes of the queues and of the packets, the rings hold the words that
\* hfi_write_cmd and the firmware wrote and nobody has read, and hfi_read_message and the
\* firmware read exactly those, in order.
THEOREM HfiDelivers == HfiSpec => []HfiSafe
<1>1. HfiInit => HfiInv /\ HfiIntact
  <2> SUFFICES ASSUME HfiInit PROVE HfiInv /\ HfiIntact
    OBVIOUS
  <2>1. HfiHolds(hfiCmd, 0, 0, <<>>, HfiN) /\ HfiHolds(hfiMsg, 0, 0, <<>>, HfiM)
    <3>1. 0 \in 0..(HfiN - 1) /\ 0 \in 0..(HfiM - 1)
      BY HfiAssumption
    <3> QED
      BY HfiAssumption, <3>1, EmptyHolds DEF HfiInit
  <2>2. HfiPending
    BY DEF HfiInit, HfiPending
  <2> QED
    BY Zenon, <2>1, <2>2 DEF HfiInit, HfiInv, HfiIntact
<1>2. HfiInv /\ HfiIntact <=> HfiSafe
  BY DEF HfiSafe
<1> QED
  BY <1>1, <1>2, HfiStep, PTL DEF HfiSpec
=============================================================================
