-------------------------------- MODULE HfiRing --------------------------------
(***************************************************************************)
(* The queues between the host and the ICP firmware: rings of words in shared   *)
(* memory.  The host writes commands and reads messages under a mutex each; the  *)
(* firmware (external) reads commands and writes messages with the same          *)
(* convention: a ring whose indices are equal is empty, and a writer leaves at     *)
(* least one word free.                                                          *)
(***************************************************************************)
EXTENDS Integers, Sequences

CONSTANTS HfiN,       \* words of the command queue
          HfiM,       \* words of the message queue
          HfiBound,   \* the longest batch of messages the host reads
          HfiWords,   \* values of a word
          HfiPkts     \* packets

ASSUME HfiAssumption == /\ HfiN \in Nat \ {0} /\ HfiM \in Nat \ {0} /\ HfiBound \in Nat
                        /\ HfiPkts \subseteq Seq(HfiWords) \ {<<>>}

VARIABLES hfiUp,                    \* g_hfi exists and is HFI_READY
          hfiCmd, hfiCmdWr, hfiCmdRd,  \* the command queue and its indices
          hfiPend,                  \* packet copied into it and not yet published
          hfiMsg, hfiMsgWr, hfiMsgRd,  \* the message queue and its indices
          hfiCmdQ, hfiMsgQ,         \* history: words published and not read
          hfiGot, hfiWant           \* the words last read, and those that were written

hfiVars == <<hfiUp, hfiCmd, hfiCmdWr, hfiCmdRd, hfiPend, hfiMsg, hfiMsgWr, hfiMsgRd,
             hfiCmdQ, hfiMsgQ, hfiGot, hfiWant>>

HfiRings(N) == [0..(N - 1) -> HfiWords]

\* Index i moved on by k words.
HfiPos(i, k, N) == IF i + k < N THEN i + k ELSE i + k - N

\* Words between the indices.
HfiUsed(wr, rd, N) == IF wr >= rd THEN wr - rd ELSE N - (rd - wr)

\* Mutant: a packet may fill the ring, which then looks empty.
HfiFitsFull(wr, rd, N, n) == N - HfiUsed(wr, rd, N) >= n

HfiFits(wr, rd, N, n) == N - HfiUsed(wr, rd, N) > n

\* A packet copied in at wr, the part past the end of the ring at its start.
HfiCopy(mem, wr, p, N) ==
    [k \in 0..(N - 1) |-> IF k >= wr /\ k < wr + Len(p) THEN p[k - wr + 1]
                          ELSE IF k < wr /\ k + N < wr + Len(p) THEN p[k + N - wr + 1]
                          ELSE mem[k]]

\* n words copied out from rd on.
HfiTake(mem, rd, n, N) == [i \in 1..n |-> mem[HfiPos(rd, i - 1, N)]]

HfiInit ==
    /\ hfiUp = FALSE /\ hfiPend = <<>> /\ hfiCmdQ = <<>> /\ hfiMsgQ = <<>>
    /\ hfiCmdWr = 0 /\ hfiCmdRd = 0 /\ hfiMsgWr = 0 /\ hfiMsgRd = 0
    /\ hfiCmd \in HfiRings(HfiN) /\ hfiMsg \in HfiRings(HfiM)
    /\ hfiGot = <<>> /\ hfiWant = <<>>

HfiReset == /\ hfiCmdWr' = 0 /\ hfiCmdRd' = 0 /\ hfiMsgWr' = 0 /\ hfiMsgRd' = 0
            /\ hfiCmdQ' = <<>> /\ hfiMsgQ' = <<>>

\* cam_hfi_init resets the indices; when the firmware does not answer the driver is left
\* without g_hfi.
HfiOpen ==
    /\ ~hfiUp /\ hfiUp' \in BOOLEAN /\ HfiReset
    /\ UNCHANGED <<hfiCmd, hfiMsg, hfiPend, hfiGot, hfiWant>>

HfiClose ==
    /\ hfiUp /\ hfiPend = <<>> /\ hfiUp' = FALSE
    /\ UNCHANGED <<hfiCmd, hfiCmdWr, hfiCmdRd, hfiPend, hfiMsg, hfiMsgWr, hfiMsgRd,
                   hfiCmdQ, hfiMsgQ, hfiGot, hfiWant>>

\* hfi_write_cmd up to the first barrier: a packet that fits is copied in.
HfiWrite(p) ==
    /\ hfiUp /\ hfiPend = <<>> /\ HfiFits(hfiCmdWr, hfiCmdRd, HfiN, Len(p))
    /\ hfiCmd' = HfiCopy(hfiCmd, hfiCmdWr, p, HfiN)
    /\ hfiPend' = p
    /\ UNCHANGED <<hfiUp, hfiCmdWr, hfiCmdRd, hfiMsg, hfiMsgWr, hfiMsgRd, hfiCmdQ, hfiMsgQ,
                   hfiGot, hfiWant>>

\* The rest of it: the write index is moved and the firmware interrupted.
HfiPublish ==
    /\ hfiPend # <<>> /\ hfiPend' = <<>>
    /\ hfiCmdWr' = HfiPos(hfiCmdWr, Len(hfiPend), HfiN)
    /\ hfiCmdQ' = hfiCmdQ \o hfiPend
    /\ UNCHANGED <<hfiUp, hfiCmd, hfiCmdRd, hfiMsg, hfiMsgWr, hfiMsgRd, hfiMsgQ, hfiGot, hfiWant>>

\* The firmware reads n words of the command queue.
HfiFwRead(n) ==
    /\ hfiUp /\ n \in 1..HfiUsed(hfiCmdWr, hfiCmdRd, HfiN)
    /\ hfiGot' = HfiTake(hfiCmd, hfiCmdRd, n, HfiN)
    /\ hfiWant' = SubSeq(hfiCmdQ, 1, n)
    /\ hfiCmdRd' = HfiPos(hfiCmdRd, n, HfiN)
    /\ hfiCmdQ' = SubSeq(hfiCmdQ, n + 1, Len(hfiCmdQ))
    /\ UNCHANGED <<hfiUp, hfiCmd, hfiCmdWr, hfiPend, hfiMsg, hfiMsgWr, hfiMsgRd, hfiMsgQ>>

\* The firmware writes a message.
HfiFwWrite(p) ==
    /\ hfiUp /\ HfiFits(hfiMsgWr, hfiMsgRd, HfiM, Len(p))
    /\ hfiMsg' = HfiCopy(hfiMsg, hfiMsgWr, p, HfiM)
    /\ hfiMsgWr' = HfiPos(hfiMsgWr, Len(p), HfiM)
    /\ hfiMsgQ' = hfiMsgQ \o p
    /\ UNCHANGED <<hfiUp, hfiCmd, hfiCmdWr, hfiCmdRd, hfiPend, hfiMsgRd, hfiCmdQ, hfiGot, hfiWant>>

\* hfi_read_message: everything between the indices is read as one batch, and thrown away
\* when it is longer than the caller's buffer.
HfiRead ==
    /\ hfiUp /\ hfiMsgRd # hfiMsgWr
    /\ LET n == HfiUsed(hfiMsgWr, hfiMsgRd, HfiM) IN
       IF n > HfiBound
       THEN hfiMsgRd' = hfiMsgWr /\ UNCHANGED <<hfiGot, hfiWant>>
       ELSE /\ hfiGot' = HfiTake(hfiMsg, hfiMsgRd, n, HfiM)
            /\ hfiWant' = hfiMsgQ
            /\ hfiMsgRd' = HfiPos(hfiMsgRd, n, HfiM)
    /\ hfiMsgQ' = <<>>
    /\ UNCHANGED <<hfiUp, hfiCmd, hfiCmdWr, hfiCmdRd, hfiPend, hfiMsg, hfiMsgWr, hfiCmdQ>>

HfiNext == \/ HfiOpen \/ HfiClose \/ HfiPublish \/ HfiRead
           \/ \E p \in HfiPkts : HfiWrite(p) \/ HfiFwWrite(p)
           \/ \E n \in 1..HfiN : HfiFwRead(n)

HfiSpec == HfiInit /\ [][HfiNext]_hfiVars

-----------------------------------------------------------------------------
(* Properties *)

\* The words a reader copies out of a ring are the words that were written, in order: no
\* word is overwritten before it is read and none is read before it is published, whatever
\* the sizes, also where a packet wraps around.
HfiIntact == hfiGot = hfiWant

\* A ring holds the words published and not read; a reader never takes a full ring for an
\* empty one.
HfiHolds(mem, wr, rd, q, N) ==
    /\ mem \in HfiRings(N) /\ wr \in 0..(N - 1) /\ rd \in 0..(N - 1)
    /\ q \in Seq(HfiWords) /\ Len(q) = HfiUsed(wr, rd, N)
    /\ \A i \in 1..Len(q) : mem[HfiPos(rd, i - 1, N)] = q[i]

\* A packet being written is complete in the free part of the command queue.
HfiPending ==
    /\ hfiPend \in Seq(HfiWords)
    /\ hfiPend # <<>> => HfiFits(hfiCmdWr, hfiCmdRd, HfiN, Len(hfiPend))
    /\ \A i \in 1..Len(hfiPend) : hfiCmd[HfiPos(hfiCmdWr, i - 1, HfiN)] = hfiPend[i]

\* The inductive invariant.
HfiInv == /\ hfiUp \in BOOLEAN
          /\ hfiPend # <<>> => hfiUp
          /\ HfiHolds(hfiCmd, hfiCmdWr, hfiCmdRd, hfiCmdQ, HfiN)
          /\ HfiHolds(hfiMsg, hfiMsgWr, hfiMsgRd, hfiMsgQ, HfiM)
          /\ HfiPending

\* The rings hold what was written and not read, and a reader gets exactly that.
HfiSafe ==
    /\ HfiInv /\ HfiIntact
=============================================================================
