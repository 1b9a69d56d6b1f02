---------------------------- MODULE CrmTearProofs ---------------------------
(***************************************************************************)
(* The order in which a link is taken apart is safe, for any set of        *)
(* devices, any size of the task pool and any number of links, packets,    *)
(* frames, link_control calls and watchdog expirations.                    *)
(***************************************************************************)
EXTENDS CrmTear, WellFoundedInduction, TLAPS

-----------------------------------------------------------------------------
(* The invariant. *)

CrtKinds == {"trig", "add", "freeze"}
CrtRuns == [k : CrtKinds \cup {"none"}, todo : SUBSET CrtDevs, ops : CrtDevs \cup {0}]
CrtLinks ==
    [st : {"avail", "idle", "ready"}, hdl : Nat, wq : BOOLEAN, job : BOOLEAN, q : Seq(CrtKinds),
     run : CrtRuns, dog : {"none", "armed", "fired"}, conn : SUBSET CrtDevs,
     lock : {"free", "io"}]
CrtDevRecs == [mtx : {"free", "cfg"}, link : Nat, str : BOOLEAN]

CrtIos ==
    [pc : {"idle", "dev", "ready", "ctl", "cut", "lock", "drain"}, todo : SUBSET CrtDevs]
CrtGs == [gen : Nat, evts : Nat, ctl : Nat, fires : Nat, bad : SUBSET {"tasklet", "cfg", "timer"}, after : BOOLEAN]

CrtTypeOK ==
    /\ crtLink \in CrtLinks
    /\ crtIo \in CrtIos
    /\ crtDev \in [CrtDevs -> CrtDevRecs]
    /\ crtNote \in [pc : {"idle", "check", "task"}]
    /\ crtCfg \in [CrtDevs -> {"idle", "lock"}]
    /\ crtG \in CrtGs

\* the work queue is there exactly while the link has a handle and is not being made
CrtQueue ==
    /\ crtLink.hdl = 0 => crtIo.pc = "idle" /\ ~crtLink.wq
    /\ crtIo.pc \in {"dev", "ready"} => ~crtLink.wq
    /\ crtLink.hdl # 0 /\ crtIo.pc \notin {"dev", "ready"} => crtLink.wq
    /\ crtLink.q # <<>> \/ crtLink.run # CrtNoTask => crtLink.wq
    /\ crtLink.dog # "none" => crtLink.wq

\* a device that streams, or announces a packet, is connected, and so is the one whose tasklet runs
CrtKnown ==
    /\ \A d \in CrtDevs : /\ crtDev[d].link # 0 => d \in crtLink.conn
                          /\ crtDev[d].str => crtDev[d].link # 0
                          /\ crtCfg[d] = "lock" => crtDev[d].mtx = "cfg" /\ crtDev[d].link # 0
    /\ crtNote.pc # "idle" => crtDev[CrtIsp].str

\* how far the link is taken apart
CrtCut ==
    /\ crtLink.hdl = 0 => crtLink.conn = {}
    /\ crtIo.pc = "cut" => crtLink.conn \subseteq crtIo.todo
    /\ crtIo.pc \in {"lock", "drain"} => crtLink.conn = {}
    /\ crtIo.pc = "drain" => crtLink.dog = "none"

CrtInv == CrtTypeOK /\ CrtQueue /\ CrtKnown /\ CrtCut /\ CrtAlive /\ CrtQuiet

-----------------------------------------------------------------------------
(* Lemmas. *)

\* A nonempty set of devices has a first one, so the walk over them ends nowhere else.
LEMMA CrtMinIn ==
    ASSUME NEW S \in SUBSET CrtDevs, S # {}
    PROVE  CrtMin(S) \in S
<1>1. S \subseteq Nat
  BY CrtAssumption
<1>2. PICK x \in S : \A y \in S : ~(<<y, x>> \in OpToRel(<, Nat))
  BY <1>1, NatLessThanWellFounded, WFMin, Zenon
<1>3. \A y \in S : ~(y < x)
  BY Zenon, <1>1, <1>2 DEF OpToRel
<1>4. \A y \in S : x <= y
  BY <1>1, <1>3
<1>5. QED
  BY <1>4 DEF CrtMin

\* An enqueue leaves the rest of the link alone, and adds a task only to a live queue.
LEMMA CrtEnqLink ==
    ASSUME NEW L \in CrtLinks, NEW k \in CrtKinds
    PROVE  /\ CrtEnq(L, k) \in CrtLinks
           /\ CrtEnq(L, k) = [L EXCEPT !.q = CrtEnq(L, k).q]
           /\ CrtEnq(L, k).q # <<>> => L.q # <<>> \/ L.wq
<1>1. CASE L.wq /\ L.job /\ CrtBusy < CrtPool
  <2>1. CrtEnq(L, k) = [L EXCEPT !.q = Append(L.q, k)]
    BY <1>1 DEF CrtEnq
  <2>2. Append(L.q, k) \in Seq(CrtKinds)
    BY DEF CrtLinks
  <2>3. QED
    BY Zenon, <1>1, <2>1, <2>2 DEF CrtLinks
<1>2. CASE ~(L.wq /\ L.job /\ CrtBusy < CrtPool)
  <2>1. CrtEnq(L, k) = L
    BY <1>2 DEF CrtEnq
  <2>2. L = [L EXCEPT !.q = L.q]
    BY DEF CrtLinks
  <2>3. QED
    BY <2>1, <2>2
<1>3. QED
  BY <1>1, <1>2

\* cam_req_mgr_link on a free link: nothing of an earlier link is left.
LEMMA CrtLinkBeginKeeps ==
    ASSUME CrtInv, CrtLinkBegin
    PROVE  CrtInv'
<1>1. CrtTypeOK'
  <2>1. crtLink' \in CrtLinks
    <3>1. crtG.gen + 1 \in Nat
      BY DEF CrtInv, CrtTypeOK, CrtGs
    <3>2. QED
      BY Zenon, <3>1 DEF CrtLinkBegin, CrtInv, CrtTypeOK, CrtLinks
  <2>2. crtIo' \in CrtIos
    BY CrtAssumption DEF CrtLinkBegin, CrtInv, CrtTypeOK, CrtIos, CrtLinks
  <2>3. crtG' \in CrtGs
    BY CrtAssumption DEF CrtLinkBegin, CrtInv, CrtTypeOK, CrtGs
  <2>4. QED
    BY <2>1, <2>2, <2>3 DEF CrtLinkBegin, CrtInv, CrtTypeOK
<1>2. CrtQueue'
  BY DEF CrtLinkBegin, CrtInv, CrtTypeOK, CrtLinks, CrtIos, CrtGs, CrtQueue, CrtCut
<1>3. CrtKnown'
  BY CrtAssumption DEF CrtLinkBegin, CrtInv, CrtTypeOK, CrtLinks, CrtDevRecs, CrtKnown, CrtCut
<1>4. CrtCut'
  BY DEF CrtLinkBegin, CrtInv, CrtTypeOK, CrtLinks, CrtIos, CrtQueue, CrtCut
<1>5. CrtAlive' /\ CrtQuiet'
  BY DEF CrtLinkBegin, CrtInv, CrtTypeOK, CrtGs, CrtAlive, CrtQuiet
<1>6. QED
  BY <1>1, <1>2, <1>3, <1>4, <1>5 DEF CrtInv

\* __cam_req_mgr_unlink begins: all connected devices are to be visited.
LEMMA CrtUnlinkKeeps ==
    ASSUME CrtInv, CrtUnlink
    PROVE  CrtInv'
<1>1. CrtTypeOK'
  <2>1. crtLink' \in CrtLinks
    BY Zenon, CrtAssumption DEF CrtUnlink, CrtInv, CrtTypeOK, CrtLinks, CrtIos, CrtGs
  <2>2. crtIo' \in CrtIos
    BY CrtAssumption DEF CrtUnlink, CrtInv, CrtTypeOK, CrtIos, CrtLinks
  <2>3. QED
    BY <2>1, <2>2 DEF CrtUnlink, CrtInv, CrtTypeOK
<1>2. CrtQueue'
  BY DEF CrtUnlink, CrtInv, CrtTypeOK, CrtLinks, CrtIos, CrtGs, CrtQueue, CrtCut
<1>3. CrtKnown'
  BY CrtAssumption DEF CrtUnlink, CrtInv, CrtTypeOK, CrtLinks, CrtDevRecs, CrtKnown, CrtCut
<1>4. CrtCut'
  BY DEF CrtUnlink, CrtInv, CrtTypeOK, CrtLinks, CrtIos, CrtQueue, CrtCut
<1>5. CrtAlive' /\ CrtQuiet'
  BY DEF CrtUnlink, CrtInv, CrtTypeOK, CrtGs, CrtAlive, CrtQuiet
<1>6. QED
  BY <1>1, <1>2, <1>3, <1>4, <1>5 DEF CrtInv

\* crm_timer_exit and the first half of cam_req_mgr_workq_destroy.
LEMMA CrtTimerKeeps ==
    ASSUME CrtInv, CrtTimer
    PROVE  CrtInv'
<1>1. CrtTypeOK'
  <2>1. crtLink' \in CrtLinks
    BY Zenon, CrtAssumption DEF CrtTimer, CrtInv, CrtTypeOK, CrtLinks, CrtIos, CrtGs
  <2>2. crtIo' \in CrtIos
    BY CrtAssumption DEF CrtTimer, CrtInv, CrtTypeOK, CrtIos, CrtLinks
  <2>3. QED
    BY <2>1, <2>2 DEF CrtTimer, CrtInv, CrtTypeOK
<1>2. CrtQueue'
  BY DEF CrtTimer, CrtInv, CrtTypeOK, CrtLinks, CrtIos, CrtGs, CrtQueue, CrtCut
<1>3. CrtKnown'
  BY CrtAssumption DEF CrtTimer, CrtInv, CrtTypeOK, CrtLinks, CrtDevRecs, CrtKnown, CrtCut
<1>4. CrtCut'
  BY DEF CrtTimer, CrtInv, CrtTypeOK, CrtLinks, CrtIos, CrtQueue, CrtCut
<1>5. CrtAlive' /\ CrtQuiet'
  BY DEF CrtTimer, CrtInv, CrtTypeOK, CrtGs, CrtAlive, CrtQuiet
<1>6. QED
  BY <1>1, <1>2, <1>3, <1>4, <1>5 DEF CrtInv

\* The queue is freed when it is empty and no device is connected.
LEMMA CrtDrainKeeps ==
    ASSUME CrtInv, CrtDrain
    PROVE  CrtInv'
<1>1. CrtTypeOK'
  <2>1. crtLink' \in CrtLinks
    BY Zenon, CrtAssumption DEF CrtDrain, CrtInv, CrtTypeOK, CrtLinks, CrtIos, CrtGs
  <2>2. crtIo' \in CrtIos
    BY CrtAssumption DEF CrtDrain, CrtInv, CrtTypeOK, CrtIos, CrtLinks
  <2>3. QED
    BY <2>1, <2>2 DEF CrtDrain, CrtInv, CrtTypeOK
<1>2. CrtQueue'
  BY DEF CrtDrain, CrtInv, CrtTypeOK, CrtLinks, CrtIos, CrtGs, CrtQueue, CrtCut
<1>3. CrtKnown'
  BY CrtAssumption DEF CrtDrain, CrtInv, CrtTypeOK, CrtLinks, CrtDevRecs, CrtKnown, CrtCut
<1>4. CrtCut'
  BY DEF CrtDrain, CrtInv, CrtTypeOK, CrtLinks, CrtIos, CrtQueue, CrtCut
<1>5. CrtAlive' /\ CrtQuiet'
  BY DEF CrtDrain, CrtInv, CrtTypeOK, CrtGs, CrtAlive, CrtQuiet
<1>6. QED
  BY <1>1, <1>2, <1>3, <1>4, <1>5 DEF CrtInv

\* A frame is reported by a device that streams.
LEMMA CrtNotifyKeeps ==
    ASSUME CrtInv, CrtNotify
    PROVE  CrtInv'
<1>1. CrtTypeOK'
  <2>1. crtNote' \in [pc : {"idle", "check", "task"}]
    BY CrtAssumption DEF CrtNotify, CrtInv, CrtTypeOK
  <2>2. crtG' \in CrtGs
    BY CrtAssumption DEF CrtNotify, CrtInv, CrtTypeOK, CrtGs
  <2>3. QED
    BY <2>1, <2>2 DEF CrtNotify, CrtInv, CrtTypeOK
<1>2. CrtQueue'
  BY DEF CrtNotify, CrtInv, CrtTypeOK, CrtLinks, CrtIos, CrtGs, CrtQueue, CrtCut
<1>3. CrtKnown'
  BY CrtAssumption DEF CrtNotify, CrtInv, CrtTypeOK, CrtLinks, CrtDevRecs, CrtKnown, CrtCut
<1>4. CrtCut'
  BY DEF CrtNotify, CrtInv, CrtTypeOK, CrtLinks, CrtIos, CrtQueue, CrtCut
<1>5. CrtAlive' /\ CrtQuiet'
  BY DEF CrtNotify, CrtInv, CrtTypeOK, CrtGs, CrtAlive, CrtQuiet
<1>6. QED
  BY <1>1, <1>2, <1>3, <1>4, <1>5 DEF CrtInv

\* A device is connected under its mutex.
LEMMA CrtLinkDevKeeps ==
    ASSUME CrtInv, CrtLinkDev
    PROVE  CrtInv'
<1>1. CrtMin(crtIo.todo) \in CrtDevs /\ CrtMin(crtIo.todo) \in crtIo.todo
  BY CrtMinIn DEF CrtLinkDev, CrtInv, CrtTypeOK, CrtIos
<1>2. CrtTypeOK'
  <2>1. crtLink' \in CrtLinks
    BY Zenon, <1>1 DEF CrtLinkDev, CrtInv, CrtTypeOK, CrtLinks
  <2>2. crtIo' \in CrtIos
    BY <1>1 DEF CrtLinkDev, CrtInv, CrtTypeOK, CrtIos
  <2>3. crtDev' \in [CrtDevs -> CrtDevRecs]
    <3>1. crtLink.hdl \in Nat
      BY DEF CrtInv, CrtTypeOK, CrtLinks
    <3>2. QED
      BY <1>1, <3>1 DEF CrtLinkDev, CrtInv, CrtTypeOK, CrtDevRecs
  <2>4. QED
    BY <2>1, <2>2, <2>3 DEF CrtLinkDev, CrtInv, CrtTypeOK
<1>3. CrtQueue'
  BY <1>1 DEF CrtLinkDev, CrtInv, CrtTypeOK, CrtLinks, CrtIos, CrtQueue, CrtCut
<1>4. CrtKnown'
  BY <1>1, CrtAssumption DEF CrtLinkDev, CrtInv, CrtTypeOK, CrtLinks, CrtDevRecs, CrtKnown, CrtCut
<1>5. CrtCut'
  BY <1>1 DEF CrtLinkDev, CrtInv, CrtTypeOK, CrtLinks, CrtIos, CrtQueue, CrtCut
<1>6. CrtAlive' /\ CrtQuiet'
  BY <1>1 DEF CrtLinkDev, CrtInv, CrtTypeOK, CrtGs, CrtAlive, CrtQuiet, CrtQueue, CrtKnown
<1>7. QED
  BY <1>2, <1>3, <1>4, <1>5, <1>6 DEF CrtInv

\* The link becomes ready, then gets its work queue.
LEMMA CrtLinkReadyKeeps ==
    ASSUME CrtInv, CrtLinkReady
    PROVE  CrtInv'
<1>1. CASE crtLink.st = "idle"
  <2>1. /\ crtIo.pc = "ready" /\ crtLink' = [crtLink EXCEPT !.st = "ready"]
        /\ UNCHANGED <<crtIo, crtDev, crtNote, crtCfg, crtG>>
    BY <1>1 DEF CrtLinkReady
  <2>2. CrtTypeOK'
    BY <2>1 DEF CrtInv, CrtTypeOK, CrtLinks
  <2>3. CrtQueue' /\ CrtCut'
    BY <2>1 DEF CrtInv, CrtTypeOK, CrtLinks, CrtQueue, CrtCut
  <2>4. CrtKnown'
    BY <2>1 DEF CrtInv, CrtTypeOK, CrtLinks, CrtKnown
  <2>5. QED
    BY <2>1, <2>2, <2>3, <2>4 DEF CrtInv, CrtAlive, CrtQuiet
<1>2. CASE crtLink.st # "idle"
  <2>1. /\ crtIo.pc = "ready"
        /\ crtLink' = [crtLink EXCEPT !.wq = TRUE, !.job = TRUE, !.lock = "free"]
        /\ crtIo' = [crtIo EXCEPT !.pc = "idle"]
        /\ UNCHANGED <<crtDev, crtNote, crtCfg, crtG>>
    BY <1>2 DEF CrtLinkReady
  <2>2. CrtTypeOK'
    <3>1. crtLink' \in CrtLinks
      BY Zenon, <2>1 DEF CrtInv, CrtTypeOK, CrtLinks
    <3>2. crtIo' \in CrtIos
      BY <2>1 DEF CrtInv, CrtTypeOK, CrtIos
    <3>3. QED
      BY <2>1, <3>1, <3>2 DEF CrtInv, CrtTypeOK
  <2>3. CrtQueue' /\ CrtCut'
    BY <2>1 DEF CrtInv, CrtTypeOK, CrtLinks, CrtIos, CrtQueue, CrtCut
  <2>4. CrtKnown'
    BY <2>1 DEF CrtInv, CrtTypeOK, CrtLinks, CrtKnown
  <2>5. QED
    BY <2>1, <2>2, <2>3, <2>4 DEF CrtInv, CrtAlive, CrtQuiet
<1>3. QED
  BY <1>1, <1>2

\* link_control makes the watchdog only for a link that has its work queue.
LEMMA CrtControlKeeps ==
    ASSUME CrtInv, NEW on \in BOOLEAN, CrtControl(on)
    PROVE  CrtInv'
<1>1. CrtTypeOK'
  <2>1. crtLink' \in CrtLinks
    BY Zenon DEF CrtControl, CrtInv, CrtTypeOK, CrtLinks
  <2>2. crtIo' \in CrtIos
    BY DEF CrtControl, CrtInv, CrtTypeOK, CrtIos, CrtLinks
  <2>3. crtG' \in CrtGs
    BY DEF CrtControl, CrtInv, CrtTypeOK, CrtGs
  <2>4. QED
    BY <2>1, <2>2, <2>3 DEF CrtControl, CrtInv, CrtTypeOK
<1>2. CrtQueue'
  BY DEF CrtControl, CrtInv, CrtTypeOK, CrtLinks, CrtIos, CrtQueue, CrtCut
<1>3. CrtKnown'
  BY CrtAssumption DEF CrtControl, CrtInv, CrtTypeOK, CrtLinks, CrtDevRecs, CrtKnown, CrtCut
<1>4. CrtCut'
  BY DEF CrtControl, CrtInv, CrtTypeOK, CrtLinks, CrtIos, CrtQueue, CrtCut
<1>5. CrtAlive' /\ CrtQuiet'
  BY DEF CrtControl, CrtInv, CrtTypeOK, CrtGs, CrtAlive, CrtQuiet, CrtQueue, CrtKnown
<1>6. QED
  BY <1>1, <1>2, <1>3, <1>4, <1>5 DEF CrtInv

\* link_control visits the devices and returns.
LEMMA CrtControlDevKeeps ==
    ASSUME CrtInv, CrtControlDev
    PROVE  CrtInv'
<1>1. CrtTypeOK'
  <2>1. crtLink' \in CrtLinks
    BY DEF CrtControlDev, CrtInv, CrtTypeOK, CrtLinks
  <2>2. crtIo' \in CrtIos
    BY DEF CrtControlDev, CrtInv, CrtTypeOK, CrtIos
  <2>3. QED
    BY <2>1, <2>2 DEF CrtControlDev, CrtInv, CrtTypeOK
<1>2. CrtQueue'
  BY DEF CrtControlDev, CrtInv, CrtTypeOK, CrtLinks, CrtIos, CrtQueue, CrtCut
<1>3. CrtKnown'
  BY ZenonT(60), CrtAssumption DEF CrtControlDev, CrtInv, CrtTypeOK, CrtLinks, CrtDevRecs, CrtKnown, CrtCut
<1>4. CrtCut'
  BY DEF CrtControlDev, CrtInv, CrtTypeOK, CrtLinks, CrtIos, CrtQueue, CrtCut
<1>5. CrtAlive' /\ CrtQuiet'
  BY DEF CrtControlDev, CrtInv, CrtTypeOK, CrtGs, CrtAlive, CrtQuiet, CrtQueue, CrtKnown
<1>6. QED
  BY <1>1, <1>2, <1>3, <1>4, <1>5 DEF CrtInv

\* A device is cut off under its mutex, so it announces no packet; the Isp waits for its tasklet.
LEMMA CrtDisconnectKeeps ==
    ASSUME CrtInv, CrtDisconnect
    PROVE  CrtInv'
<1>1. crtIo.todo # {} => CrtMin(crtIo.todo) \in CrtDevs /\ CrtMin(crtIo.todo) \in crtIo.todo
  BY CrtMinIn DEF CrtInv, CrtTypeOK, CrtIos
<1>2. CrtTypeOK'
  <2>1. crtLink' \in CrtLinks
    BY <1>1 DEF CrtDisconnect, CrtInv, CrtTypeOK, CrtLinks
  <2>2. crtIo' \in CrtIos
    BY <1>1 DEF CrtDisconnect, CrtInv, CrtTypeOK, CrtIos
  <2>3. crtDev' \in [CrtDevs -> CrtDevRecs]
    BY <1>1 DEF CrtDisconnect, CrtInv, CrtTypeOK, CrtDevRecs
  <2>4. QED
    BY <2>1, <2>2, <2>3 DEF CrtDisconnect, CrtInv, CrtTypeOK
<1>3. CrtQueue'
  BY <1>1 DEF CrtDisconnect, CrtInv, CrtTypeOK, CrtLinks, CrtIos, CrtQueue, CrtCut
<1>4. CrtKnown'
  BY SMTT(60), <1>1, CrtAssumption DEF CrtDisconnect, CrtInv, CrtTypeOK, CrtLinks, CrtDevRecs, CrtKnown, CrtCut
<1>5. CrtCut'
  BY <1>1 DEF CrtDisconnect, CrtInv, CrtTypeOK, CrtLinks, CrtIos, CrtQueue, CrtCut
<1>6. CrtAlive' /\ CrtQuiet'
  BY <1>1 DEF CrtDisconnect, CrtInv, CrtTypeOK, CrtGs, CrtAlive, CrtQuiet, CrtQueue, CrtKnown
<1>7. QED
  BY <1>2, <1>3, <1>4, <1>5, <1>6 DEF CrtInv

\* The Isp starts, or stops once its tasklet is idle.
LEMMA CrtStreamKeeps ==
    ASSUME CrtInv, NEW on \in BOOLEAN, CrtStream(on)
    PROVE  CrtInv'
<1>1. CrtTypeOK'
  <2>1. crtDev' \in [CrtDevs -> CrtDevRecs]
    BY ZenonT(60) DEF CrtStream, CrtInv, CrtTypeOK, CrtDevRecs
  <2>2. QED
    BY <2>1 DEF CrtStream, CrtInv, CrtTypeOK
<1>2. CrtQueue'
  BY DEF CrtStream, CrtInv, CrtTypeOK, CrtLinks, CrtIos, CrtQueue, CrtCut
<1>3. CrtKnown'
  BY CrtAssumption DEF CrtStream, CrtInv, CrtTypeOK, CrtLinks, CrtDevRecs, CrtKnown, CrtCut
<1>4. CrtCut'
  BY DEF CrtStream, CrtInv, CrtTypeOK, CrtLinks, CrtIos, CrtQueue, CrtCut
<1>5. CrtAlive' /\ CrtQuiet'
  BY DEF CrtStream, CrtInv, CrtTypeOK, CrtGs, CrtAlive, CrtQuiet, CrtQueue, CrtKnown
<1>6. QED
  BY <1>1, <1>2, <1>3, <1>4, <1>5 DEF CrtInv

\* The tasklet sets the watchdog again, but never makes one.
LEMMA CrtCheckKeeps ==
    ASSUME CrtInv, CrtCheck
    PROVE  CrtInv'
<1>1. CrtTypeOK'
  <2>1. crtLink' \in CrtLinks
    BY SMTT(60) DEF CrtCheck, CrtInv, CrtTypeOK, CrtLinks
  <2>2. crtNote' \in [pc : {"idle", "check", "task"}]
    BY DEF CrtCheck, CrtInv, CrtTypeOK
  <2>3. QED
    BY <2>1, <2>2 DEF CrtCheck, CrtInv, CrtTypeOK
<1>2. CrtQueue'
  BY DEF CrtCheck, CrtInv, CrtTypeOK, CrtLinks, CrtIos, CrtQueue, CrtCut
<1>3. CrtKnown'
  BY ZenonT(60), CrtAssumption DEF CrtCheck, CrtInv, CrtTypeOK, CrtLinks, CrtDevRecs, CrtKnown, CrtCut
<1>4. CrtCut'
  BY DEF CrtCheck, CrtInv, CrtTypeOK, CrtLinks, CrtIos, CrtQueue, CrtCut
<1>5. CrtAlive' /\ CrtQuiet'
  BY DEF CrtCheck, CrtInv, CrtTypeOK, CrtGs, CrtAlive, CrtQuiet, CrtQueue, CrtKnown
<1>6. QED
  BY <1>1, <1>2, <1>3, <1>4, <1>5 DEF CrtInv

\* A submission holds the mutex of a connected device.
LEMMA CrtSubmitKeeps ==
    ASSUME CrtInv, NEW d \in CrtDevs, CrtSubmit(d)
    PROVE  CrtInv'
<1>1. CrtTypeOK'
  <2>1. crtDev' \in [CrtDevs -> CrtDevRecs]
    BY DEF CrtSubmit, CrtInv, CrtTypeOK, CrtDevRecs
  <2>2. crtCfg' \in [CrtDevs -> {"idle", "lock"}]
    BY DEF CrtSubmit, CrtInv, CrtTypeOK
  <2>3. crtG' \in CrtGs
    BY DEF CrtSubmit, CrtInv, CrtTypeOK, CrtGs
  <2>4. QED
    BY <2>1, <2>2, <2>3 DEF CrtSubmit, CrtInv, CrtTypeOK
<1>2. CrtQueue'
  BY DEF CrtSubmit, CrtInv, CrtTypeOK, CrtLinks, CrtIos, CrtQueue, CrtCut
<1>3. CrtKnown'
  BY CrtAssumption DEF CrtSubmit, CrtInv, CrtTypeOK, CrtLinks, CrtDevRecs, CrtKnown, CrtCut
<1>4. CrtCut'
  BY DEF CrtSubmit, CrtInv, CrtTypeOK, CrtLinks, CrtIos, CrtQueue, CrtCut
<1>5. CrtAlive' /\ CrtQuiet'
  BY DEF CrtSubmit, CrtInv, CrtTypeOK, CrtGs, CrtAlive, CrtQuiet, CrtQueue, CrtKnown
<1>6. QED
  BY <1>1, <1>2, <1>3, <1>4, <1>5 DEF CrtInv

\* The worker takes a task from the queue.
LEMMA CrtRunKeeps ==
    ASSUME CrtInv, CrtRun
    PROVE  CrtInv'
<1>1. CrtTypeOK'
  <2>1. crtLink' \in CrtLinks
    <3>1. crtLink \in CrtLinks /\ crtLink.q \in Seq(CrtKinds) /\ crtLink.q # <<>>
      BY DEF CrtRun, CrtInv, CrtTypeOK, CrtLinks
    <3>2. Head(crtLink.q) \in CrtKinds /\ Tail(crtLink.q) \in Seq(CrtKinds)
      BY <3>1
    <3>3. [k |-> Head(crtLink.q), ops |-> 0,
           todo |-> IF Head(crtLink.q) = "add" THEN {} ELSE CrtDevs] \in CrtRuns
      BY <3>2 DEF CrtRuns
    <3>4. QED
      BY Zenon, <3>1, <3>2, <3>3 DEF CrtRun, CrtLinks
  <2>2. QED
    BY <2>1 DEF CrtRun, CrtInv, CrtTypeOK
<1>2. CrtQueue'
  BY DEF CrtRun, CrtInv, CrtTypeOK, CrtLinks, CrtIos, CrtQueue, CrtCut, CrtRuns, CrtNoTask
<1>3. CrtKnown'
  BY CrtAssumption DEF CrtRun, CrtInv, CrtTypeOK, CrtLinks, CrtDevRecs, CrtKnown, CrtCut, CrtRuns, CrtNoTask
<1>4. CrtCut'
  BY DEF CrtRun, CrtInv, CrtTypeOK, CrtLinks, CrtIos, CrtQueue, CrtCut, CrtRuns, CrtNoTask
<1>5. CrtAlive' /\ CrtQuiet'
  BY DEF CrtRun, CrtInv, CrtTypeOK, CrtGs, CrtAlive, CrtQuiet, CrtQueue, CrtKnown, CrtRuns, CrtNoTask
<1>6. QED
  BY <1>1, <1>2, <1>3, <1>4, <1>5 DEF CrtInv

\* The worker reads the ops of the next device.
LEMMA CrtRunOpsKeeps ==
    ASSUME CrtInv, CrtRunOps
    PROVE  CrtInv'
<1>1. CrtMin(crtLink.run.todo) \in CrtDevs
  BY CrtMinIn DEF CrtRunOps, CrtInv, CrtTypeOK, CrtLinks, CrtRuns
<1>2. CrtTypeOK'
  <2>1. crtLink' \in CrtLinks
    BY Zenon, <1>1 DEF CrtRunOps, CrtInv, CrtTypeOK, CrtLinks, CrtRuns, CrtNoTask
  <2>2. QED
    BY <2>1 DEF CrtRunOps, CrtInv, CrtTypeOK
<1>3. CrtQueue'
  BY <1>1 DEF CrtRunOps, CrtInv, CrtTypeOK, CrtLinks, CrtIos, CrtQueue, CrtCut, CrtRuns, CrtNoTask
<1>4. CrtKnown'
  BY <1>1, CrtAssumption DEF CrtRunOps, CrtInv, CrtTypeOK, CrtLinks, CrtDevRecs, CrtKnown, CrtCut, CrtRuns, CrtNoTask
<1>5. CrtCut'
  BY <1>1 DEF CrtRunOps, CrtInv, CrtTypeOK, CrtLinks, CrtIos, CrtQueue, CrtCut, CrtRuns, CrtNoTask
<1>6. CrtAlive' /\ CrtQuiet'
  BY <1>1 DEF CrtRunOps, CrtInv, CrtTypeOK, CrtGs, CrtAlive, CrtQuiet, CrtQueue, CrtKnown, CrtRuns, CrtNoTask
<1>7. QED
  BY <1>2, <1>3, <1>4, <1>5, <1>6 DEF CrtInv

\* The worker calls the device.
LEMMA CrtRunDevKeeps ==
    ASSUME CrtInv, CrtRunDev
    PROVE  CrtInv'
<1>1. CrtTypeOK'
  <2>1. crtLink' \in CrtLinks
    BY Zenon DEF CrtRunDev, CrtInv, CrtTypeOK, CrtLinks, CrtRuns, CrtNoTask
  <2>2. QED
    BY <2>1 DEF CrtRunDev, CrtInv, CrtTypeOK
<1>2. CrtQueue'
  BY DEF CrtRunDev, CrtInv, CrtTypeOK, CrtLinks, CrtIos, CrtQueue, CrtCut, CrtRuns, CrtNoTask
<1>3. CrtKnown'
  BY CrtAssumption DEF CrtRunDev, CrtInv, CrtTypeOK, CrtLinks, CrtDevRecs, CrtKnown, CrtCut, CrtRuns, CrtNoTask
<1>4. CrtCut'
  BY DEF CrtRunDev, CrtInv, CrtTypeOK, CrtLinks, CrtIos, CrtQueue, CrtCut, CrtRuns, CrtNoTask
<1>5. CrtAlive' /\ CrtQuiet'
  BY DEF CrtRunDev, CrtInv, CrtTypeOK, CrtGs, CrtAlive, CrtQuiet, CrtQueue, CrtKnown, CrtRuns, CrtNoTask
<1>6. QED
  BY <1>1, <1>2, <1>3, <1>4, <1>5 DEF CrtInv

\* The worker ends a task: the queue, and so the link, is still there.
LEMMA CrtRunEndKeeps ==
    ASSUME CrtInv, CrtRunEnd
    PROVE  CrtInv'
<1>1. CrtTypeOK'
  <2>1. crtLink' \in CrtLinks
    <3>1. CrtNoTask \in CrtRuns
      BY DEF CrtNoTask, CrtRuns
    <3>2. QED
      BY <3>1 DEF CrtRunEnd, CrtInv, CrtTypeOK, CrtLinks
  <2>2. crtG' \in CrtGs
    BY Zenon DEF CrtRunEnd, CrtInv, CrtTypeOK, CrtGs, CrtRuns, CrtNoTask
  <2>3. QED
    BY <2>1, <2>2 DEF CrtRunEnd, CrtInv, CrtTypeOK
<1>2. CrtQueue'
  BY DEF CrtRunEnd, CrtInv, CrtTypeOK, CrtLinks, CrtIos, CrtQueue, CrtCut, CrtRuns, CrtNoTask
<1>3. CrtKnown'
  BY CrtAssumption DEF CrtRunEnd, CrtInv, CrtTypeOK, CrtLinks, CrtDevRecs, CrtKnown, CrtCut, CrtRuns, CrtNoTask
<1>4. CrtCut'
  BY DEF CrtRunEnd, CrtInv, CrtTypeOK, CrtLinks, CrtIos, CrtQueue, CrtCut, CrtRuns, CrtNoTask
<1>5. CrtAlive' /\ CrtQuiet'
  BY DEF CrtRunEnd, CrtInv, CrtTypeOK, CrtGs, CrtAlive, CrtQuiet, CrtQueue, CrtKnown, CrtRuns, CrtNoTask
<1>6. QED
  BY <1>1, <1>2, <1>3, <1>4, <1>5 DEF CrtInv

\* The tasklet enqueues only while its device streams: the queue is there, or the link is still
\* being made and has none to use.
LEMMA CrtTaskKeeps ==
    ASSUME CrtInv, CrtTask
    PROVE  CrtInv'
<1>1. /\ crtLink' \in CrtLinks /\ crtLink' = [crtLink EXCEPT !.q = crtLink'.q]
      /\ crtLink'.q # <<>> => crtLink.q # <<>> \/ crtLink.wq
  BY Zenon, CrtEnqLink DEF CrtTask, CrtInv, CrtTypeOK, CrtKinds
<1>2. crtLink.wq \/ crtIo.pc \in {"dev", "ready"}
  BY Zenon, CrtAssumption DEF CrtTask, CrtInv, CrtTypeOK, CrtDevRecs, CrtQueue, CrtKnown, CrtCut
<1>3. crtG' = crtG
  BY <1>2 DEF CrtTask, CrtUses, CrtInv, CrtTypeOK, CrtGs
<1>4. CrtTypeOK'
  BY <1>1, <1>3 DEF CrtTask, CrtInv, CrtTypeOK
<1>5. CrtQueue' /\ CrtCut'
  BY <1>1 DEF CrtTask, CrtInv, CrtTypeOK, CrtLinks, CrtQueue, CrtCut
<1>6. CrtKnown'
  BY <1>1 DEF CrtTask, CrtInv, CrtTypeOK, CrtLinks, CrtKnown
<1>7. QED
  BY <1>3, <1>4, <1>5, <1>6 DEF CrtInv, CrtAlive, CrtQuiet

\* A packet is announced by a device that is still connected.
LEMMA CrtAddReqKeeps ==
    ASSUME CrtInv, NEW d \in CrtDevs, CrtAddReq(d)
    PROVE  CrtInv'
<1>1. /\ crtLink' \in CrtLinks /\ crtLink' = [crtLink EXCEPT !.q = crtLink'.q]
      /\ crtLink'.q # <<>> => crtLink.q # <<>> \/ crtLink.wq
  <2>1. crtLink = [crtLink EXCEPT !.q = crtLink.q]
    BY DEF CrtInv, CrtTypeOK, CrtLinks
  <2>2. QED
    BY Zenon, <2>1, CrtEnqLink DEF CrtAddReq, CrtInv, CrtTypeOK, CrtKinds
<1>2. crtLink.wq \/ crtIo.pc \in {"dev", "ready"}
  BY DEF CrtAddReq, CrtInv, CrtTypeOK, CrtDevRecs, CrtQueue, CrtKnown, CrtCut
<1>3. crtG' = crtG
  BY <1>2 DEF CrtAddReq, CrtUses, CrtInv, CrtTypeOK, CrtGs
<1>4. CrtTypeOK'
  <2>1. crtDev' \in [CrtDevs -> CrtDevRecs]
    BY DEF CrtAddReq, CrtInv, CrtTypeOK, CrtDevRecs
  <2>2. crtCfg' \in [CrtDevs -> {"idle", "lock"}]
    BY DEF CrtAddReq, CrtInv, CrtTypeOK
  <2>3. QED
    BY <1>1, <1>3, <2>1, <2>2 DEF CrtAddReq, CrtInv, CrtTypeOK
<1>5. CrtQueue' /\ CrtCut'
  BY <1>1 DEF CrtAddReq, CrtInv, CrtTypeOK, CrtLinks, CrtQueue, CrtCut
<1>6. CrtKnown'
  BY <1>1 DEF CrtAddReq, CrtInv, CrtTypeOK, CrtLinks, CrtDevRecs, CrtKnown
<1>7. QED
  BY <1>3, <1>4, <1>5, <1>6 DEF CrtInv, CrtAlive, CrtQuiet

\* The watchdog fires only while the work queue is there.
LEMMA CrtFireKeeps ==
    ASSUME CrtInv, CrtFire
    PROVE  CrtInv'
<1> DEFINE L == [crtLink EXCEPT !.dog = "fired"]
<1>1. L \in CrtLinks /\ crtLink.wq
  BY DEF CrtFire, CrtInv, CrtTypeOK, CrtLinks, CrtQueue
<1>2. /\ crtLink' \in CrtLinks /\ crtLink' = [L EXCEPT !.q = crtLink'.q]
      /\ crtLink'.q # <<>> => L.q # <<>> \/ L.wq
  BY Zenon, <1>1, CrtEnqLink DEF CrtFire, CrtKinds
<1>3. crtG' \in CrtGs /\ crtG'.bad = crtG.bad /\ crtG'.after = crtG.after
  <2>1. CrtUses("timer") = crtG.bad
    BY <1>1 DEF CrtUses
  <2>2. QED
    <3>1. crtG \in CrtGs /\ crtG.fires + 1 \in Nat /\ crtG.bad \in SUBSET {"tasklet", "cfg", "timer"}
      BY DEF CrtInv, CrtTypeOK, CrtGs
    <3>2. crtG' = [crtG EXCEPT !.fires = crtG.fires + 1, !.bad = crtG.bad]
      BY Zenon, <2>1 DEF CrtFire
    <3>3. QED
      BY Zenon, <3>1, <3>2 DEF CrtGs
<1>4. CrtTypeOK'
  BY <1>2, <1>3 DEF CrtFire, CrtInv, CrtTypeOK
<1>5. CrtQueue' /\ CrtCut'
  BY ZenonT(60), <1>1, <1>2 DEF CrtFire, CrtInv, CrtTypeOK, CrtLinks, CrtQueue, CrtCut
<1>6. CrtKnown'
  BY ZenonT(60), <1>2 DEF CrtFire, CrtInv, CrtTypeOK, CrtLinks, CrtKnown
<1>7. QED
  BY <1>3, <1>4, <1>5, <1>6 DEF CrtInv, CrtAlive, CrtQuiet

-----------------------------------------------------------------------------
(* The theorem. *)

\* A link that was never made satisfies the invariant.
LEMMA CrtInitHolds == CrtInit => CrtInv
<1> SUFFICES ASSUME CrtInit PROVE CrtInv
  OBVIOUS
<1>1. CrtNoTask \in CrtRuns
  BY DEF CrtNoTask, CrtRuns
<1>2. crtLink \in CrtLinks
  BY <1>1 DEF CrtInit, CrtLinks
<1>3. CrtTypeOK
  BY <1>2 DEF CrtInit, CrtTypeOK, CrtIos, CrtDevRecs, CrtGs
<1>4. QED
  BY <1>3, CrtAssumption DEF CrtInit, CrtInv, CrtQueue, CrtKnown, CrtCut, CrtAlive, CrtQuiet

\* Every step of every thread keeps the invariant.
LEMMA CrtNextKeeps == CrtInv /\ [CrtNext]_crtVars => CrtInv'
<1> SUFFICES ASSUME CrtInv, [CrtNext]_crtVars PROVE CrtInv'
  OBVIOUS
<1>1. CASE CrtIoStep
  BY <1>1, CrtLinkDevKeeps, CrtLinkReadyKeeps, CrtControlDevKeeps, CrtDisconnectKeeps,
     CrtTimerKeeps, CrtDrainKeeps DEF CrtIoStep
<1>2. CASE CrtNoteStep
  BY <1>2, CrtCheckKeeps, CrtTaskKeeps DEF CrtNoteStep
<1>3. CASE CrtWorkStep
  BY <1>3, CrtRunKeeps, CrtRunOpsKeeps, CrtRunDevKeeps, CrtRunEndKeeps DEF CrtWorkStep
<1>4. CASE CrtLinkBegin \/ CrtUnlink \/ CrtNotify \/ CrtFire
  BY <1>4, CrtLinkBeginKeeps, CrtUnlinkKeeps, CrtNotifyKeeps, CrtFireKeeps
<1>5. ASSUME NEW on \in BOOLEAN, CrtControl(on) \/ CrtStream(on) PROVE CrtInv'
  BY <1>5, CrtControlKeeps, CrtStreamKeeps
<1>6. ASSUME NEW d \in CrtDevs, CrtSubmit(d) \/ CrtAddReq(d) PROVE CrtInv'
  BY <1>6, CrtSubmitKeeps, CrtAddReqKeeps
<1>7. CASE UNCHANGED crtVars
  BY <1>7 DEF crtVars, CrtInv, CrtTypeOK, CrtQueue, CrtKnown, CrtCut, CrtAlive, CrtQuiet
<1>8. QED
  BY <1>1, <1>2, <1>3, <1>4, <1>5, <1>6, <1>7 DEF CrtNext

\* The order in which __cam_req_mgr_unlink takes a link apart (state, devices, watchdog, work
\* queue, handle) is safe beside the worker, the watchdog, the tasklet and the submissions: none
\* of them uses a destroyed work queue, no message follows the unlink, and no device and no
\* watchdog is left behind.
THEOREM CrtSafety == CrtSpec => []CrtSafe
<1>1. CrtInv => CrtSafe
  BY CrtAssumption DEF CrtInv, CrtTypeOK, CrtLinks, CrtDevRecs, CrtQueue, CrtKnown, CrtCut, CrtSafe, CrtApart
<1>2. QED
  BY <1>1, CrtInitHolds, CrtNextKeeps, PTL DEF CrtSpec

=============================================================================
