--------------------------- MODULE CpasCoreProofs ---------------------------
(***************************************************************************)
(* The started count and the power of the platform services, for any number *)
(* of clients, levels, bandwidths, works and failures.                     *)
(***************************************************************************)
EXTENDS CpasCore, FiniteSetTheorems, TLAPS

CpaTable ==
    [CpaClients -> [reg : BOOLEAN, on : BOOLEAN, ahb : CpaLevels \cup {CpaSuspend},
                    axi : CpaBws \cup {0}]]
CpaOnSet(cl) == {c \in CpaClients : cl[c].on}

(* What the started count rests on: no client is started while the last stop  *)
(* waits.                                                                     *)
CpaCore ==
    /\ cpaCl \in CpaTable
    /\ cpaPow \in [soc : BOOLEAN, irq : BOOLEAN]
    /\ cpaOn = Cardinality(CpaOnSet(cpaCl))
    /\ cpaStop \in CpaClients \cup {0}
    /\ cpaStop # 0 => cpaOn = 0
    /\ cpaOn > 0 => cpaPow.soc
    /\ ~cpaDirty /\ cpaPow.soc => cpaOn > 0 \/ cpaStop # 0

(* An AHB vote changes a client's level and no started flag.                  *)
LEMMA CpaAhbKeeps ==
    ASSUME NEW v, v.cl \in CpaTable, NEW c \in CpaClients, NEW w,
           NEW l \in CpaLevels \cup {CpaSuspend}
    PROVE  LET u == CpaAhbVote(v, c, l, w)
           IN u.cl \in CpaTable /\ CpaOnSet(u.cl) = CpaOnSet(v.cl)
<1> DEFINE cl == [v.cl EXCEPT ![c].ahb = l]
<1>1. cl \in CpaTable /\ \A k \in CpaClients : cl[k].on = v.cl[k].on
  BY DEF CpaTable
<1>2. CpaOnSet(cl) = CpaOnSet(v.cl)
  BY <1>1 DEF CpaOnSet
<1>3. CpaAhbVote(v, c, l, w).cl \in {v.cl, cl}
  BY DEF CpaAhbVote, CpaVoted
<1> QED
  BY <1>1, <1>2, <1>3

(* An AXI vote changes a client's bandwidth and no started flag.              *)
LEMMA CpaAxiKeeps ==
    ASSUME NEW v, v.cl \in CpaTable, NEW c \in CpaClients, NEW w,
           NEW b \in CpaBws \cup {0}
    PROVE  LET u == CpaAxiVote(v, c, b, w)
           IN u.cl \in CpaTable /\ CpaOnSet(u.cl) = CpaOnSet(v.cl)
<1> DEFINE cl == [v.cl EXCEPT ![c].axi = b]
<1>1. cl \in CpaTable /\ \A k \in CpaClients : cl[k].on = v.cl[k].on
  BY DEF CpaTable
<1>2. CpaOnSet(cl) = CpaOnSet(v.cl)
  BY <1>1 DEF CpaOnSet
<1>3. CpaAxiVote(v, c, b, w).cl \in {v.cl, cl}
  BY DEF CpaAxiVote, CpaVoted
<1> QED
  BY <1>1, <1>2, <1>3

(* Both votes in a row, from any table.                                       *)
LEMMA CpaBothKeep ==
    ASSUME NEW cl \in CpaTable, NEW c \in CpaClients, NEW w,
           NEW l \in CpaLevels \cup {CpaSuspend}, NEW b \in CpaBws \cup {0}
    PROVE  LET u == CpaAxiVote(CpaAhbVote(CpaTry(cl), c, l, w), c, b, w)
           IN u.cl \in CpaTable /\ CpaOnSet(u.cl) = CpaOnSet(cl)
<1> DEFINE t == CpaTry(cl)
           a == CpaAhbVote(t, c, l, w)
<1>1. t.cl = cl
  BY DEF CpaTry, CpaVoted
<1> HIDE DEF t
<1>2. a.cl \in CpaTable /\ CpaOnSet(a.cl) = CpaOnSet(cl)
  BY <1>1, CpaAhbKeeps
<1> HIDE DEF a
<1>3. CpaAxiVote(a, c, b, w).cl \in CpaTable
      /\ CpaOnSet(CpaAxiVote(a, c, b, w).cl) = CpaOnSet(a.cl)
  BY <1>2, CpaAxiKeeps
<1> QED
  BY <1>2, <1>3 DEF a, t

(* The set of started clients is finite, so that its size is a number.        *)
LEMMA CpaOnFinite ==
    ASSUME NEW cl
    PROVE  IsFiniteSet(CpaOnSet(cl)) /\ Cardinality(CpaOnSet(cl)) \in Nat
  BY CpaClientsAssumption, FS_Subset, FS_CardinalityType DEF CpaOnSet

(* Starting a client that is not started adds one, stopping takes one away.   *)
LEMMA CpaOnAdds ==
    ASSUME NEW cl \in CpaTable, NEW c \in CpaClients, ~cl[c].on
    PROVE  LET new == [cl EXCEPT ![c].on = TRUE]
           IN new \in CpaTable
              /\ Cardinality(CpaOnSet(new)) = Cardinality(CpaOnSet(cl)) + 1
<1> DEFINE new == [cl EXCEPT ![c].on = TRUE]
<1>1. new \in CpaTable /\ new[c].on /\ \A k \in CpaClients \ {c} : new[k].on = cl[k].on
  BY Zenon DEF CpaTable
<1>2. CpaOnSet(new) = CpaOnSet(cl) \cup {c} /\ c \notin CpaOnSet(cl)
  BY <1>1 DEF CpaOnSet
<1> QED
  BY Zenon, <1>1, <1>2, CpaOnFinite, FS_AddElement

LEMMA CpaOnRemoves ==
    ASSUME NEW cl \in CpaTable, NEW c \in CpaClients, cl[c].on
    PROVE  LET new == [cl EXCEPT ![c].on = FALSE]
           IN new \in CpaTable
              /\ Cardinality(CpaOnSet(new)) = Cardinality(CpaOnSet(cl)) - 1
<1> DEFINE new == [cl EXCEPT ![c].on = FALSE]
<1>1. new \in CpaTable /\ ~new[c].on /\ \A k \in CpaClients \ {c} : new[k].on = cl[k].on
  BY Zenon DEF CpaTable
<1>2. CpaOnSet(new) = CpaOnSet(cl) \ {c} /\ c \in CpaOnSet(cl)
  BY <1>1 DEF CpaOnSet
<1> QED
  BY ZenonT(60), <1>1, <1>2, CpaOnFinite, FS_RemoveElement

(* Initially nothing is started.                                              *)
LEMMA CpaInitCore == CpaInit => CpaCore
<1> SUFFICES ASSUME CpaInit PROVE CpaCore
  OBVIOUS
<1>1. cpaCl \in CpaTable /\ CpaOnSet(cpaCl) = {}
  BY DEF CpaInit, CpaNew, CpaTable, CpaOnSet
<1> QED
  BY <1>1, FS_EmptySet DEF CpaInit, CpaCore

(* Every step keeps the count and the power in agreement.                     *)
LEMMA CpaStepCore == CpaCore /\ [CpaNext]_cpaVars => CpaCore'
<1> SUFFICES ASSUME CpaCore, [CpaNext]_cpaVars PROVE CpaCore'
  OBVIOUS
<1> USE CpaClientsAssumption
<1>0. cpaOn \in Nat
  BY CpaOnFinite DEF CpaCore
<1>1. ASSUME NEW c \in CpaClients, CpaRegister(c) PROVE CpaCore'
  <2>1. cpaCl' \in CpaTable /\ CpaOnSet(cpaCl') = CpaOnSet(cpaCl)
    BY ZenonT(60), <1>1 DEF CpaRegister, CpaCore, CpaTable, CpaOnSet
  <2> QED
    BY <1>1, <2>1 DEF CpaRegister, CpaCore, cpaIrqVars
<1>2. ASSUME NEW c \in CpaClients, CpaUnregister(c) PROVE CpaCore'
  <2>1. cpaCl' \in CpaTable /\ CpaOnSet(cpaCl') = CpaOnSet(cpaCl)
    BY <1>2 DEF CpaUnregister, CpaCore, CpaTable, CpaOnSet, CpaNew
  <2> QED
    BY <1>2, <2>1 DEF CpaUnregister, CpaCore, cpaIrqVars
<1>3. ASSUME NEW c \in CpaClients, NEW l \in CpaLevels, NEW b \in CpaBws, CpaStart(c, l, b)
      PROVE  CpaCore'
  <2> PICK w \in {"ok", "ahb", "clk", "axi", "enable"} :
         LET v == CpaAxiVote(CpaAhbVote(CpaTry(cpaCl), c, l, w), c, b, w)
             first == cpaOn = 0
             bad == v.rc # 0 \/ (first /\ w = "enable")
         IN /\ cpaDirty' = (cpaDirty \/ bad)
            /\ cpaCl' = IF bad THEN v.cl ELSE [v.cl EXCEPT ![c].on = TRUE]
            /\ cpaOn' = IF bad THEN cpaOn ELSE cpaOn + 1
            /\ cpaPow' = IF bad THEN cpaPow ELSE [soc |-> TRUE, irq |-> TRUE]
    BY Zenon, <1>3 DEF CpaStart
  <2> DEFINE v == CpaAxiVote(CpaAhbVote(CpaTry(cpaCl), c, l, w), c, b, w)
             bad == v.rc # 0 \/ (cpaOn = 0 /\ w = "enable")
  <2>1. v.cl \in CpaTable /\ CpaOnSet(v.cl) = CpaOnSet(cpaCl)
    BY CpaBothKeep DEF CpaCore
  <2>2. ~v.cl[c].on
    <3>1. c \notin CpaOnSet(cpaCl)
      BY <1>3 DEF CpaStart, CpaOnSet
    <3> QED
      BY <2>1, <3>1 DEF CpaOnSet
  <2>3. cpaStop' = 0 /\ cpaStop = 0
    BY <1>3 DEF CpaStart
  <2> HIDE DEF v
  <2>4. CASE bad
    BY <2>1, <2>3, <2>4, <1>0 DEF CpaCore, v
  <2>5. CASE ~bad
    <3>1. cpaCl' = [v.cl EXCEPT ![c].on = TRUE] /\ cpaOn' = cpaOn + 1 /\ cpaPow' = [soc |-> TRUE, irq |-> TRUE]
      BY <2>5 DEF v
    <3>2. cpaCl' \in CpaTable /\ Cardinality(CpaOnSet(cpaCl')) = Cardinality(CpaOnSet(v.cl)) + 1
      BY <3>1, <2>1, <2>2, CpaOnAdds
    <3> QED
      BY <3>1, <3>2, <2>1, <2>3, <1>0 DEF CpaCore
  <2> QED
    BY <2>4, <2>5
<1>4. ASSUME NEW c \in CpaClients, NEW l \in CpaLevels, CpaUpdateAhb(c, l) PROVE CpaCore'
  <2> PICK w : LET v == CpaAhbVote(CpaTry(cpaCl), c, l, w)
               IN cpaCl' = v.cl /\ cpaDirty' = (cpaDirty \/ v.rc # 0)
    BY <1>4 DEF CpaUpdateAhb
  <2>1. CpaTry(cpaCl).cl = cpaCl
    BY DEF CpaTry, CpaVoted
  <2>2. cpaCl' \in CpaTable /\ CpaOnSet(cpaCl') = CpaOnSet(cpaCl)
    BY <2>1, CpaAhbKeeps DEF CpaCore
  <2> QED
    BY <1>4, <2>2 DEF CpaUpdateAhb, CpaCore, cpaIrqVars
<1>5. ASSUME NEW c \in CpaClients, NEW b \in CpaBws, CpaUpdateAxi(c, b) PROVE CpaCore'
  <2> PICK w : LET v == CpaAxiVote(CpaTry(cpaCl), c, b, w)
               IN cpaCl' = v.cl /\ cpaDirty' = (cpaDirty \/ v.rc # 0)
    BY <1>5 DEF CpaUpdateAxi
  <2>1. CpaTry(cpaCl).cl = cpaCl
    BY DEF CpaTry, CpaVoted
  <2>2. cpaCl' \in CpaTable /\ CpaOnSet(cpaCl') = CpaOnSet(cpaCl)
    BY <2>1, CpaAxiKeeps DEF CpaCore
  <2> QED
    BY <1>5, <2>2 DEF CpaUpdateAxi, CpaCore, cpaIrqVars
<1>6. ASSUME NEW c \in CpaClients, CpaStopOne(c) PROVE CpaCore'
  <2> DEFINE cl == [cpaCl EXCEPT ![c].on = FALSE]
  <2>1. cl \in CpaTable /\ Cardinality(CpaOnSet(cl)) = Cardinality(CpaOnSet(cpaCl)) - 1
    BY <1>6, CpaOnRemoves DEF CpaStopOne, CpaCore
  <2> HIDE DEF cl
  <2>2. PICK w : CpaUnvote(cl, c, w)
    BY <1>6 DEF CpaStopOne, cl
  <2>3. cpaCl' \in CpaTable /\ CpaOnSet(cpaCl') = CpaOnSet(cl)
    BY <2>1, <2>2, CpaBothKeep DEF CpaUnvote
  <2>4. cpaDirty => cpaDirty'
    BY Zenon, <2>2 DEF CpaUnvote
  <2> QED
    BY <1>0, <1>6, <2>1, <2>3, <2>4 DEF CpaStopOne, CpaCore, cpaIrqVars
<1>7. ASSUME NEW c \in CpaClients, CpaStopLast(c) PROVE CpaCore'
  <2>1. cpaCl' \in CpaTable /\ Cardinality(CpaOnSet(cpaCl')) = Cardinality(CpaOnSet(cpaCl)) - 1
    BY Zenon, <1>7, CpaOnRemoves DEF CpaStopLast, CpaCore
  <2>2. cpaPow' \in [soc : BOOLEAN, irq : BOOLEAN]
    BY Zenon, <1>7 DEF CpaStopLast, CpaCore
  <2>3. cpaOn = 1 /\ cpaOn' = 0 /\ cpaStop' \in CpaClients \cup {0}
    BY <1>7 DEF CpaStopLast, CpaCore
  <2>4. cpaDirty' = TRUE \/ cpaStop' # 0
    BY <1>7 DEF CpaStopLast
  <2> QED
    BY <2>1, <2>2, <2>3, <2>4 DEF CpaCore
<1>8. CASE CpaStopEnd
  <2>1. PICK w : IF w = "disable"
            THEN cpaDirty' = TRUE /\ UNCHANGED <<cpaPow, cpaCl, cpaBus>>
            ELSE /\ cpaPow' = [cpaPow EXCEPT !.soc = FALSE]
                 /\ CpaUnvote(cpaCl, cpaStop, w)
    BY <1>8 DEF CpaStopEnd
  <2>2. cpaStop \in CpaClients /\ cpaStop' = 0 /\ cpaOn = 0 /\ cpaOn' = 0
    BY <1>8 DEF CpaStopEnd, CpaCore
  <2>3. CASE w = "disable"
    BY Zenon, <2>1, <2>2, <2>3 DEF CpaCore
  <2>4. CASE w # "disable"
    <3>1. cpaCl' \in CpaTable /\ CpaOnSet(cpaCl') = CpaOnSet(cpaCl)
      BY <2>1, <2>2, <2>4, CpaBothKeep DEF CpaUnvote, CpaCore
    <3>2. cpaPow' \in [soc : BOOLEAN, irq : BOOLEAN] /\ ~cpaPow'.soc
      BY Zenon, <2>1, <2>4 DEF CpaCore
    <3>3. cpaOn' = Cardinality(CpaOnSet(cpaCl'))
      BY Zenon, <2>2, <3>1 DEF CpaCore
    <3> QED
      BY <2>2, <3>1, <3>2, <3>3 DEF CpaCore
  <2> QED
    BY <2>3, <2>4
<1>9. CASE CpaIrqHandler
  BY <1>9 DEF CpaIrqHandler, CpaCore
<1>10. CASE CpaWorkBegin
  BY <1>10 DEF CpaWorkBegin, CpaCore
<1>11. CASE CpaWorkRun
  BY <1>11 DEF CpaWorkRun, CpaCore
<1>12. CASE UNCHANGED cpaVars
  BY <1>12 DEF cpaVars, CpaCore
<1> QED
  BY <1>1, <1>2, <1>3, <1>4, <1>5, <1>6, <1>7, <1>8, <1>9, <1>10, <1>11, <1>12 DEF CpaNext

(* For every number of clients and whatever calls fail, streamon_clients is   *)
(* the number of started clients and the block is on while one is started     *)
(* (cam_cpas_hw_start, cam_cpas_hw_stop).                                     *)
THEOREM CpaPoweredHolds == CpaSpec => []CpaPowered
<1>1. CpaCore => CpaPowered
  BY DEF CpaCore, CpaPowered, CpaOnSet
<1> QED
  BY <1>1, CpaInitCore, CpaStepCore, PTL DEF CpaSpec
=============================================================================
