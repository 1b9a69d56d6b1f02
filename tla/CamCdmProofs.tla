---------------------------- MODULE CamCdmProofs ----------------------------
(***************************************************************************)
(* The reference count of a CDM client, for any drivers and slots.         *)
(***************************************************************************)
EXTENDS CamCdm, TLAPS

CdcPcs == {"out", "acquire", "held", "on", "off", "submit"}

CdcTypes ==
  /\ cdcSlot \in [CdcSlots -> [own : CdcOwners \cup {CdcNone}, ref : Nat, on : BOOLEAN]]
  /\ cdcCall \in [CdcOwners -> [pc : CdcPcs, slot : CdcSlots \cup {CdcNone}]]
  /\ \A o \in CdcOwners : ~CdcAt(o, "out") => cdcCall[o].slot \in CdcSlots

(* CdcRefs is inductive once the slot of an acquired client is a slot: that *)
(* each slot names its one owner keeps the calls of others away from it.    *)
CdcIInv == CdcTypes /\ CdcRefs

LEMMA CdcInitInv == CdcInit => CdcIInv
  BY DEF CdcInit, CdcIInv, CdcTypes, CdcRefs, CdcNull, CdcOut, CdcAt, CdcPcs, CdcNone

(* A step that changes only the call and the slot of one owner, and leaves  *)
(* them in step, keeps the invariant.                                       *)
LEMMA CdcLocal ==
  ASSUME CdcIInv, NEW o \in CdcOwners, NEW c, NEW k,
         c \in [own : CdcOwners \cup {CdcNone}, ref : Nat, on : BOOLEAN],
         k \in [pc : CdcPcs \ {"out"}, slot : CdcSlots],
         c.own = o,
         c.ref = (IF k.pc = "acquire" THEN 0 ELSE IF k.pc \in {"on", "off", "submit"} THEN 2 ELSE 1),
         CdcAt(o, "out") => cdcSlot[k.slot] = CdcNull,
         ~CdcAt(o, "out") => k.slot = cdcCall[o].slot,
         cdcSlot' = [cdcSlot EXCEPT ![k.slot] = c],
         cdcCall' = [cdcCall EXCEPT ![o] = k]
  PROVE  CdcIInv'
<1>1. CdcTypes'
  BY DEF CdcIInv, CdcTypes, CdcAt, CdcPcs
<1>2. ASSUME NEW p \in CdcOwners, ~CdcAt(p, "out")'
      PROVE  LET d == cdcSlot'[cdcCall'[p].slot]
             IN  /\ d.own = p
                 /\ d.ref = (IF CdcAt(p, "acquire")' THEN 0 ELSE IF CdcBusy(p)' THEN 2 ELSE 1)
  <2>1. CASE p = o
    BY <2>1 DEF CdcIInv, CdcTypes, CdcAt, CdcBusy, CdcPcs
  <2>2. CASE p # o
    <3>1. cdcCall'[p] = cdcCall[p] /\ ~CdcAt(p, "out")
      BY <2>2, <1>2 DEF CdcIInv, CdcTypes, CdcAt
    <3>2. cdcSlot[cdcCall[p].slot].own = p
      BY <3>1 DEF CdcIInv, CdcRefs
    <3>3. cdcSlot[k.slot].own # p
      BY <2>2, CdcOwnerAssumption DEF CdcIInv, CdcRefs, CdcNull, CdcNone
    <3>4. cdcSlot'[cdcCall'[p].slot] = cdcSlot[cdcCall[p].slot]
      BY <3>1, <3>2, <3>3 DEF CdcIInv, CdcTypes
    <3> QED
      BY <3>1, <3>4 DEF CdcIInv, CdcRefs, CdcAt, CdcBusy
  <2> QED
    BY <2>1, <2>2
<1> QED
  BY <1>1, <1>2 DEF CdcIInv, CdcRefs

LEMMA CdcStepInv == CdcIInv /\ [CdcNext]_cdcVars => CdcIInv'
<1> SUFFICES ASSUME CdcIInv, [CdcNext]_cdcVars PROVE CdcIInv'
  OBVIOUS
<1>0. CASE UNCHANGED <<cdcSlot, cdcCall>>
  BY <1>0 DEF CdcIInv, CdcTypes, CdcRefs, CdcAt, CdcBusy
<1>1. ASSUME NEW o \in CdcOwners, NEW s \in CdcSlots, CdcAcquire(o, s) PROVE CdcIInv'
  <2> DEFINE c == [own |-> o, ref |-> 0, on |-> FALSE]
             k == [pc |-> "acquire", slot |-> s]
  <2>1. c.own = o /\ c.ref = 0 /\ k.pc = "acquire" /\ k.slot = s
    OBVIOUS
  <2>2. cdcSlot[s] = CdcNull /\ CdcAt(o, "out") /\ cdcSlot' = [cdcSlot EXCEPT ![k.slot] = c]
        /\ cdcCall' = [cdcCall EXCEPT ![o] = k]
    BY <1>1 DEF CdcAcquire
  <2>3. c \in [own : CdcOwners \cup {CdcNone}, ref : Nat, on : BOOLEAN]
    OBVIOUS
  <2>4. k \in [pc : CdcPcs \ {"out"}, slot : CdcSlots]
    BY DEF CdcPcs
  <2> HIDE DEF c, k
  <2> QED
    BY Zenon, <2>1, <2>2, <2>3, <2>4, CdcLocal
<1>2. ASSUME NEW o \in CdcOwners, ~CdcAt(o, "out"), NEW c, NEW pc \in CdcPcs \ {"out"},
             c \in [own : CdcOwners \cup {CdcNone}, ref : Nat, on : BOOLEAN], c.own = o,
             c.ref = (IF pc = "acquire" THEN 0 ELSE IF pc \in {"on", "off", "submit"} THEN 2 ELSE 1),
             cdcSlot' = [cdcSlot EXCEPT ![cdcCall[o].slot] = c],
             cdcCall' = [cdcCall EXCEPT ![o].pc = pc]
      PROVE  CdcIInv'
  <2> DEFINE k == [cdcCall[o] EXCEPT !.pc = pc]
  <2>1. k \in [pc : CdcPcs \ {"out"}, slot : CdcSlots] /\ k.pc = pc /\ k.slot = cdcCall[o].slot
    BY <1>2 DEF CdcIInv, CdcTypes
  <2>2. cdcCall' = [cdcCall EXCEPT ![o] = k]
    BY <1>2
  <2> HIDE DEF k
  <2> QED
    BY ZenonT(60), <1>2, <2>1, <2>2, CdcLocal
<1>3. ASSUME NEW o \in CdcOwners, ~CdcAt(o, "out")
      PROVE  LET c == cdcSlot[cdcCall[o].slot]
             IN  /\ c \in [own : CdcOwners \cup {CdcNone}, ref : Nat, on : BOOLEAN]
                 /\ c.own = o
                 /\ c.ref = (IF CdcAt(o, "acquire") THEN 0 ELSE IF CdcBusy(o) THEN 2 ELSE 1)
  BY <1>3 DEF CdcIInv, CdcTypes, CdcRefs
<1>4. ASSUME NEW o \in CdcOwners, CdcAcquireEnd(o) PROVE CdcIInv'
  <2> DEFINE c == CdcGet(cdcSlot[cdcCall[o].slot])
  <2>1. CdcAt(o, "acquire") /\ ~CdcAt(o, "out")
    BY <1>4 DEF CdcAcquireEnd, CdcAt
  <2>2. c \in [own : CdcOwners \cup {CdcNone}, ref : Nat, on : BOOLEAN] /\ c.own = o /\ c.ref = 1
    BY <2>1, <1>3 DEF CdcGet
  <2>3. cdcSlot' = [cdcSlot EXCEPT ![cdcCall[o].slot] = c] /\ cdcCall' = [cdcCall EXCEPT ![o].pc = "held"]
    BY <1>4 DEF CdcAcquireEnd, CdcGo
  <2> HIDE DEF c
  <2> QED
    BY Zenon, <2>1, <2>2, <2>3, <1>2 DEF CdcPcs
<1>5. ASSUME NEW o \in CdcOwners, NEW pc \in {"on", "off", "submit"}, CdcEnter(o, pc) PROVE CdcIInv'
  <2> DEFINE c == CdcGet(cdcSlot[cdcCall[o].slot])
  <2>1. CdcAt(o, "held") /\ ~CdcAt(o, "out") /\ ~CdcBusy(o) /\ ~CdcAt(o, "acquire")
    BY <1>5 DEF CdcEnter, CdcAt, CdcBusy
  <2>2. c \in [own : CdcOwners \cup {CdcNone}, ref : Nat, on : BOOLEAN] /\ c.own = o /\ c.ref = 2
    BY <2>1, <1>3 DEF CdcGet
  <2>3. cdcSlot' = [cdcSlot EXCEPT ![cdcCall[o].slot] = c] /\ cdcCall' = [cdcCall EXCEPT ![o].pc = pc]
    BY <1>5 DEF CdcEnter, CdcGo
  <2> HIDE DEF c
  <2> QED
    BY Zenon, <2>1, <2>2, <2>3, <1>2 DEF CdcPcs
<1>6. ASSUME NEW o \in CdcOwners, NEW on \in BOOLEAN, CdcBusy(o), CdcLeave(o, on) PROVE CdcIInv'
  <2> DEFINE s == cdcCall[o].slot
             d == [cdcSlot[s] EXCEPT !.on = on]
             c == CdcPut(d)
  <2>1. ~CdcAt(o, "out") /\ ~CdcAt(o, "acquire")
    BY <1>6 DEF CdcBusy, CdcAt
  <2>2. s \in CdcSlots /\ cdcSlot[s] \in [own : CdcOwners \cup {CdcNone}, ref : Nat, on : BOOLEAN]
        /\ cdcSlot[s].own = o /\ cdcSlot[s].ref = 2
    BY <2>1, <1>3, <1>6 DEF CdcIInv, CdcTypes
  <2>3. c \in [own : CdcOwners \cup {CdcNone}, ref : Nat, on : BOOLEAN] /\ c.own = o /\ c.ref = 1
    <3>1. d \in [own : CdcOwners \cup {CdcNone}, ref : Nat, on : BOOLEAN] /\ d.own = o /\ d.ref = 2
      BY <2>2
    <3> HIDE DEF d
    <3> QED
      BY <3>1 DEF CdcPut
  <2>4. cdcSlot' = [cdcSlot EXCEPT ![s] = c]
    BY <1>6 DEF CdcLeave
  <2>5. cdcCall' = [cdcCall EXCEPT ![o].pc = "held"]
    BY <1>6 DEF CdcLeave, CdcGo
  <2> HIDE DEF c, d
  <2> QED
    BY Zenon, <2>1, <2>3, <2>4, <2>5, <1>2 DEF CdcPcs
<1>7. ASSUME NEW o \in CdcOwners, NEW on \in BOOLEAN, CdcRefused(o, on) PROVE CdcIInv'
  <2>1. ~CdcAt(o, "out")
    BY <1>7 DEF CdcRefused, CdcAt
  <2>2. cdcSlot[cdcCall[o].slot].ref \in Nat /\ cdcCall[o].slot \in CdcSlots
    BY <2>1 DEF CdcIInv, CdcTypes
  <2> DEFINE c == cdcSlot[cdcCall[o].slot]
  <2>a. CdcPut(CdcGet(c)) = c
    <3>1. c \in [own : CdcOwners \cup {CdcNone}, ref : Nat, on : BOOLEAN]
      BY <2>1, <1>3
    <3> HIDE DEF c
    <3>2. CdcGet(c) = [own |-> c.own, ref |-> c.ref + 1, on |-> c.on]
      BY <3>1 DEF CdcGet
    <3>3. CdcPut(CdcGet(c)) = [own |-> c.own, ref |-> c.ref, on |-> c.on]
      BY <3>1, <3>2 DEF CdcPut
    <3> QED
      BY <3>1, <3>3
  <2>3. cdcSlot' = cdcSlot /\ cdcCall' = cdcCall
    <3>1. cdcSlot' = [cdcSlot EXCEPT ![cdcCall[o].slot] = CdcPut(CdcGet(c))] /\ cdcCall' = cdcCall
      BY <1>7 DEF CdcRefused
    <3> QED
      BY <3>1, <2>a, <2>2 DEF CdcIInv, CdcTypes
  <2> QED
    BY <2>3, <1>0
<1>8. ASSUME NEW o \in CdcOwners, CdcRelease(o) PROVE CdcIInv'
  <2> DEFINE s == cdcCall[o].slot
  <2>1. CdcAt(o, "held") /\ ~CdcAt(o, "out") /\ ~CdcBusy(o) /\ ~CdcAt(o, "acquire")
    BY <1>8 DEF CdcRelease, CdcAt, CdcBusy
  <2>2. s \in CdcSlots /\ cdcSlot[s].own = o /\ cdcSlot[s].ref = 1
    BY <2>1, <1>3 DEF CdcIInv, CdcTypes
  <2>3. CdcFree(o)[s].ref = 0
    BY <2>2 DEF CdcFree, CdcPut, CdcIInv, CdcTypes
  <2>4. cdcSlot' = [cdcSlot EXCEPT ![s] = CdcNull] /\ cdcCall' = [cdcCall EXCEPT ![o] = CdcOut]
    BY <1>8, <2>3 DEF CdcRelease
  <2>5. CdcTypes'
    BY <2>4, <2>2 DEF CdcIInv, CdcTypes, CdcNull, CdcOut, CdcNone, CdcPcs, CdcAt
  <2>6. ASSUME NEW p \in CdcOwners, ~CdcAt(p, "out")'
        PROVE  p # o /\ cdcCall'[p] = cdcCall[p] /\ cdcSlot'[cdcCall[p].slot] = cdcSlot[cdcCall[p].slot]
    <3>1. p # o /\ cdcCall'[p] = cdcCall[p] /\ ~CdcAt(p, "out")
      BY <2>4, <2>6 DEF CdcIInv, CdcTypes, CdcAt, CdcOut
    <3>2. cdcSlot[cdcCall[p].slot].own = p /\ cdcCall[p].slot \in CdcSlots
      BY <3>1 DEF CdcIInv, CdcRefs, CdcTypes
    <3> QED
      BY <3>1, <3>2, <2>2, <2>4 DEF CdcIInv, CdcTypes
  <2>7. CdcRefs'
    BY <2>6 DEF CdcIInv, CdcRefs, CdcAt, CdcBusy
  <2> QED
    BY <2>5, <2>7 DEF CdcIInv
<1>9. ASSUME NEW o \in CdcOwners, NEW f, CdcOn(o, f) PROVE CdcIInv'
  <2>1. CdcBusy(o) /\ CdcLeave(o, CdcUpOk(f))
    BY <1>9 DEF CdcOn, CdcAt, CdcBusy
  <2>2. CdcUpOk(f) \in BOOLEAN
    BY DEF CdcUpOk
  <2> QED
    BY <2>1, <2>2, <1>6
<1>10. ASSUME NEW o \in CdcOwners, NEW f, CdcOff(o, f) PROVE CdcIInv'
  <2>1. CdcBusy(o) /\ CdcLeave(o, cdcHw.open = 0 \/ f = "deinit")
    BY <1>10 DEF CdcOff, CdcAt, CdcBusy
  <2> QED
    BY Zenon, <2>1, <1>6
<1>11. ASSUME NEW o \in CdcOwners, CdcSubmit(o) PROVE CdcIInv'
  <2>1. CdcBusy(o) /\ CdcLeave(o, cdcSlot[cdcCall[o].slot].on)
    BY <1>11 DEF CdcSubmit, CdcAt, CdcBusy
  <2>2. cdcSlot[cdcCall[o].slot].on \in BOOLEAN
    BY <1>3, <2>1 DEF CdcBusy, CdcAt
  <2> QED
    BY <2>1, <2>2, <1>6
<1>12. ASSUME NEW n \in cdcNode, CdcNotify(n) PROVE CdcIInv'
  BY <1>12, <1>0 DEF CdcNotify
<1> QED
  BY <1>0, <1>1, <1>4, <1>5, <1>7, <1>8, <1>9, <1>10, <1>11, <1>12 DEF CdcNext, cdcVars

(* For every set of drivers and slots the count of a client is one, and one *)
(* more while its driver is inside cam_cdm_stream_on, stream_off or         *)
(* submit_bls, so cam_cdm_release is never refused by a stray reference.    *)
THEOREM CdcRefsHold == CdcSpec => []CdcRefs
<1>1. CdcIInv => CdcRefs
  BY DEF CdcIInv
<1> QED
  BY <1>1, CdcInitInv, CdcStepInv, PTL DEF CdcSpec
=============================================================================
