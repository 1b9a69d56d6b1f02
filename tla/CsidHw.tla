------------------------------- MODULE CsidHw -------------------------------
(***************************************************************************)
(* One CSID (the CSI decoder in front of an IFE) shared by several         *)
(* contexts: cam_ife_csid_core.c, driven in the order in which             *)
(* cam_ife_hw_mgr.c calls it.  A context reserves a CID (shared with every *)
(* context of the same virtual channel and data type) and a path, powers   *)
(* and programs both, streams, stops, and gives them back.  The interrupt  *)
(* handler runs between any two of these calls.                            *)
(***************************************************************************)
EXTENDS Integers, FiniteSets, FiniteSetsExt

CONSTANTS CsdCtxs,     \* contexts of the hardware manager
          CsdDual,     \* contexts with the dual usage type
          CsdCids,     \* cid_res[], numbered from 1
          CsdKeys,     \* (vc, dt) pairs
          CsdDrops,    \* values of the init frame drop blob
          CsdMaxErr,   \* CAM_IFE_CSID_MAX_IRQ_ERROR_COUNT
          CsdMaxWork,  \* tasks of the CSID work queue
          CsdSofs,     \* bound: SOFs counted on a path
          CsdAcqs,     \* bound: CID reservations of a behaviour
          CsdFaults    \* bound: failing calls and hardware errors

VARIABLES csdHw,    \* counts, power and the receiver
          csdCid,   \* cid_res[]: state, key and users
          csdPath,  \* ipp_res and one rdi_res
          csdCtx,   \* where each context of the manager stands
          csdWork,  \* fatal-error work waiting to run
          csdG      \* history: budget, and the exceptions the code makes

csdVars == <<csdHw, csdCid, csdPath, csdCtx, csdWork, csdG>>

CsdPaths == {"pix", "rdi"}

\* cam_isp_resource_state
CsdAvail == 0
CsdRsvd == 1
CsdInitHw == 2
CsdStream == 3

CsdInit ==
    /\ csdHw = [open |-> 0, pow |-> FALSE, en |-> FALSE, cfg |-> 0, rsv |-> 0,
                rx |-> FALSE, drop |-> 0, fatal |-> FALSE, err |-> 0]
    /\ csdCid = [i \in CsdCids |-> [st |-> CsdAvail, key |-> 0, cnt |-> 0]]
    /\ csdPath = [p \in CsdPaths |-> [st |-> CsdAvail, run |-> FALSE, irq |-> FALSE,
                                      sof |-> 0, drop |-> 0]]
    /\ csdCtx = [c \in CsdCtxs |-> [pc |-> "free", cid |-> 0, path |-> "pix",
                                    copen |-> FALSE, popen |-> FALSE]]
    /\ csdWork = 0
    /\ csdG = [left |-> CsdFaults, acqs |-> CsdAcqs, leak |-> [i \in CsdCids |-> 0],
               halt |-> FALSE, failed |-> FALSE, lost |-> FALSE, reports |-> 0,
               stray |-> [p \in CsdPaths |-> FALSE]]

CsdAt(c, pc) == csdCtx[c].pc = pc
CsdGo(c, pc) == [csdCtx EXCEPT ![c].pc = pc]
CsdSpend(g, n) == [g EXCEPT !.left = @ - n]
CsdCost(b) == IF b THEN 1 ELSE 0

-----------------------------------------------------------------------------
(* Power *)

\* The first user of the CSID powers it up, the others are only counted.
CsdEnableHw(h) == [h EXCEPT !.open = @ + 1, !.pow = TRUE]

\* The last user resets the block and powers it down.
CsdDisableHw(h) ==
    IF h.open = 0 THEN h
    ELSE IF h.open > 1 THEN [h EXCEPT !.open = @ - 1]
    ELSE [h EXCEPT !.open = 0, !.pow = FALSE, !.en = FALSE, !.rx = FALSE,
                   !.err = 0, !.fatal = FALSE]

\* What a power-down does to the paths' registers and SOF counts.
CsdDown(h, paths) ==
    IF csdHw.pow /\ ~h.pow
    THEN [p \in CsdPaths |-> [paths[p] EXCEPT !.run = FALSE, !.irq = FALSE, !.sof = 0]]
    ELSE paths

\* History of a change of the hardware: a power-down forgets the reports of
\* the cycle; a failed initialisation is remembered until the block is idle.
CsdHistory(h, ctxs, failed, g) ==
    LET down == csdHw.pow /\ ~h.pow
        idle == h.open = 0 /\ h.cfg = 0 /\ 
                \A c \in CsdCtxs : ctxs[c].pc \in {"free", "cid", "acq", "relc"} IN
    [g EXCEPT !.reports = IF down THEN 0 ELSE @,
              !.lost = @ /\ ~down,
              !.halt = @ /\ ~down /\ ~h.rx /\ h.cfg > 0,
              !.failed = failed \/ (@ /\ ~idle)]

-----------------------------------------------------------------------------
(* Reserving *)

\* cam_ife_csid_cid_get: share the CID of the same key, or take a free one.
CsdSame(k) == {i \in CsdCids : csdCid[i].st >= CsdRsvd /\ csdCid[i].key = k}
CsdFree == {i \in CsdCids : csdCid[i].st = CsdAvail}
CsdFirst(S) == CHOOSE i \in S : \A j \in S : i <= j
CsdCidGet(k) == IF CsdSame(k) # {} THEN CsdFirst(CsdSame(k)) ELSE CsdFirst(CsdFree)

\* CID reservation: refused unless the path it is meant for is free.
CsdCidReserve(c, k, p) ==
    /\ CsdAt(c, "free") /\ csdG.acqs > 0
    /\ csdPath[p].st = CsdAvail
    /\ CsdSame(k) \cup CsdFree # {}
    /\ LET i == CsdCidGet(k)
           shared == CsdSame(k) # {} IN
       /\ csdCid' = [csdCid EXCEPT ![i] =
                        IF shared THEN [@ EXCEPT !.cnt = @ + 1]
                        ELSE [st |-> CsdRsvd, key |-> k, cnt |-> 1]]
       /\ csdCtx' = [csdCtx EXCEPT ![c] = [@ EXCEPT !.pc = "cid", !.cid = i, !.path = p]]
    /\ csdHw' = [csdHw EXCEPT !.rsv = @ + 1]
    /\ csdG' = [csdG EXCEPT !.acqs = @ - 1]
    /\ UNCHANGED <<csdPath, csdWork>>

\* Path reservation; another context may have taken the path meanwhile.
CsdPathReserve(c) ==
    /\ CsdAt(c, "cid")
    /\ LET p == csdCtx[c].path
           ok == csdPath[p].st = CsdAvail IN
       /\ csdPath' = IF ok THEN [csdPath EXCEPT ![p].st = CsdRsvd] ELSE csdPath
       /\ csdCtx' = CsdGo(c, IF ok THEN "acq" ELSE "relc")
    /\ UNCHANGED <<csdHw, csdCid, csdWork, csdG>>

\* Releasing the path; the frame drop is forgotten with the last path.
CsdReleasePath(c) ==
    /\ CsdAt(c, "acq")
    /\ LET p == csdCtx[c].path
           ok == csdPath[p].st \in CsdRsvd .. CsdInitHw
           paths == IF ok THEN [csdPath EXCEPT ![p].st = CsdAvail] ELSE csdPath IN
       /\ csdPath' = paths
       /\ csdHw' = [csdHw EXCEPT !.drop = IF ok /\ \A q \in CsdPaths : paths[q].st = CsdAvail
                                           THEN 0 ELSE @]
    /\ csdCtx' = CsdGo(c, "relc")
    /\ UNCHANGED <<csdCid, csdWork, csdG>>

\* The reservation a release gives back.
CsdRsvBack(ok, n) == CsdCost(ok /\ csdHw.rsv > 0)

\* Releasing the CID: nothing happens, and no error, while it is streaming.
CsdReleaseCid(c) ==
    /\ CsdAt(c, "relc")
    /\ LET i == csdCtx[c].cid
           ok == csdCid[i].st \in CsdRsvd .. CsdInitHw
           n == csdCid[i].cnt - CsdCost(csdCid[i].cnt > 0) IN
       /\ csdCid' = IF ok THEN [csdCid EXCEPT ![i].cnt = n,
                                              ![i].st = IF n = 0 THEN CsdAvail ELSE @,
                                              ![i].key = IF n = 0 THEN 0 ELSE @]
                    ELSE csdCid
       /\ csdHw' = [csdHw EXCEPT !.rsv = @ - CsdRsvBack(ok, n)]
       /\ csdG' = [csdG EXCEPT !.leak[i] = @ + CsdCost(~ok)]
    /\ csdCtx' = [csdCtx EXCEPT ![c].pc = "free", ![c].cid = 0,
                                ![c].path = "pix"]
    /\ UNCHANGED <<csdPath, csdWork>>

-----------------------------------------------------------------------------
(* init_hw: power, then program one resource.  A configuration that failed *)
(* is overwritten by the verdict of the soft reset when the device was not *)
(* yet enabled; device_enabled is set whatever the outcome.                *)

\* The CID: only the first programs the receiver (PPI failing: bad).
CsdEnableCsi2(h) == [h EXCEPT !.cfg = @ + 1, !.rx = @ \/ h.cfg = 0]

\* The last user turns the receiver off.
CsdDisableCsi2(h) ==
    LET n == h.cfg - CsdCost(h.cfg > 0) IN [h EXCEPT !.cfg = n, !.rx = @ /\ n > 0]

\* Programming a path; a format it cannot decode leaves it RESERVED.
CsdInitConfigPxlPath(st, bad) == IF bad THEN st ELSE CsdInitHw
CsdInitConfigRdiPath(st, bad) == IF bad THEN st ELSE CsdInitHw

\* Giving a path's programming up: an RDI path that is not initialised is
\* refused and keeps its state.
CsdDeinitPxlPath(st) == CsdRsvd
CsdDeinitRdiPath(st) == IF st = CsdInitHw THEN CsdRsvd ELSE st

\* What init_hw reports when its resource's programming gave `bad`.
CsdVerdict(bad, resetBad) == IF ~csdHw.en THEN resetBad ELSE bad

\* The hardware after init_hw: powered down again if the verdict is bad.
CsdSettle(h, fails) == [(IF fails THEN CsdDisableHw(h) ELSE h) EXCEPT !.en = TRUE]

\* Powering up fails: nothing is counted, the resource keeps its state.
CsdInitFails(c) ==
    /\ csdCtx[c].pc \in {"acq", "cin"}
    /\ csdHw.open = 0 /\ csdG.left > 0
    /\ csdCtx' = CsdGo(c, "dc")
    /\ csdG' = [CsdSpend(csdG, 1) EXCEPT !.failed = TRUE]
    /\ UNCHANGED <<csdHw, csdCid, csdPath, csdWork>>

CsdInitCid(c, bad, resetBad) ==
    /\ CsdAt(c, "acq")
    /\ bad => csdHw.cfg = 0
    /\ resetBad => ~csdHw.en
    /\ csdG.left >= CsdCost(bad) + CsdCost(resetBad)
    /\ LET i == csdCtx[c].cid
           fails == CsdVerdict(bad, resetBad)
           up == CsdEnableCsi2(CsdEnableHw(csdHw))
           h == CsdSettle(up, fails) IN
       /\ csdHw' = h
       /\ csdCid' = [csdCid EXCEPT ![i].st = CsdStream]
       /\ csdPath' = CsdDown(h, csdPath)
       /\ csdCtx' = [csdCtx EXCEPT ![c] = [@ EXCEPT !.pc = IF fails THEN "dc" ELSE "cin",
                                                    !.copen = ~fails]]
       /\ csdG' = CsdHistory(h, csdCtx', fails, CsdSpend(csdG, CsdCost(bad) + CsdCost(resetBad)))
    /\ UNCHANGED csdWork

CsdInitPath(c, bad, resetBad) ==
    /\ CsdAt(c, "cin")
    /\ csdPath[csdCtx[c].path].st = CsdRsvd
    /\ resetBad => ~csdHw.en
    /\ csdG.left >= CsdCost(bad) + CsdCost(resetBad)
    /\ LET p == csdCtx[c].path
           fails == CsdVerdict(bad, resetBad)
           h == CsdSettle(CsdEnableHw(csdHw), fails) IN
       /\ csdHw' = h
       /\ csdPath' = CsdDown(h, [csdPath EXCEPT ![p].st =
              IF p = "pix" THEN CsdInitConfigPxlPath(@, bad) ELSE CsdInitConfigRdiPath(@, bad)])
       /\ csdCtx' = [csdCtx EXCEPT ![c] = [@ EXCEPT !.pc = IF fails THEN "dc" ELSE "rdy",
                                                    !.popen = ~fails]]
       /\ csdG' = CsdHistory(h, csdCtx', fails, CsdSpend(csdG, CsdCost(bad) + CsdCost(resetBad)))
    /\ UNCHANGED <<csdCid, csdWork>>

\* deinit_hw of a CID: skipped in RESERVED; the last user turns the receiver
\* off, the others leave the CID's state as it is.
CsdDeinitCid(c) ==
    /\ csdCtx[c].pc \in {"dc", "halted"}
    /\ LET i == csdCtx[c].cid
           h == CsdDisableHw(CsdDisableCsi2(csdHw)) IN
       IF csdCid[i].st = CsdRsvd
       THEN /\ csdCtx' = CsdGo(c, "dp")
            /\ UNCHANGED <<csdHw, csdCid, csdPath, csdG>>
       ELSE /\ csdHw' = h
            /\ csdCid' = [csdCid EXCEPT ![i].st = IF h.cfg = 0 THEN CsdRsvd ELSE @]
            /\ csdPath' = CsdDown(h, csdPath)
            /\ csdCtx' = [csdCtx EXCEPT ![c] = [@ EXCEPT !.pc = "dp",
                                                         !.copen = FALSE]]
            /\ csdG' = CsdHistory(h, csdCtx', FALSE, csdG)
    /\ UNCHANGED csdWork

CsdBack(c) == [csdCtx EXCEPT ![c] = [@ EXCEPT !.pc = "acq",
                                              !.copen = FALSE, !.popen = FALSE]]

\* deinit_hw of a path: skipped in RESERVED, otherwise the power is given up.
CsdDeinitPath(c) ==
    /\ CsdAt(c, "dp")
    /\ LET p == csdCtx[c].path
           st == csdPath[p].st
           h == CsdDisableHw(csdHw) IN
       IF st = CsdRsvd
       THEN /\ csdCtx' = CsdBack(c)
            /\ csdG' = CsdHistory(csdHw, csdCtx', FALSE, csdG)
            /\ UNCHANGED <<csdHw, csdPath>>
       ELSE /\ csdHw' = h
            /\ csdPath' = CsdDown(h, [csdPath EXCEPT ![p].st =
                                        IF p = "pix" THEN CsdDeinitPxlPath(@) ELSE CsdDeinitRdiPath(@)])
            /\ csdCtx' = CsdBack(c)
            /\ csdG' = CsdHistory(h, csdCtx', FALSE, csdG)
    /\ UNCHANGED <<csdCid, csdWork>>

-----------------------------------------------------------------------------
(* Streaming *)

\* Some path is running: its status register reads 0.
CsdActive == \E q \in CsdPaths : csdPath[q].run

\* Frames a path lets pass before it resumes.
CsdDropOf(p) == IF p = "pix" THEN csdHw.drop ELSE csdPath[p].drop

\* A path that starts: resumed at once, or at the SOF the frame drop names.
CsdStarted(p, n, d) ==
    LET wait == n > 0 /\ ~CsdActive IN
    /\ csdPath' = [csdPath EXCEPT ![p] = [st |-> CsdStream, run |-> csdHw.pow /\ ~wait,
                                          irq |-> csdHw.pow /\ wait, sof |-> 0, drop |-> d]]
    /\ csdG' = [csdG EXCEPT !.stray[p] = FALSE]

CsdMayStart(c, p) ==
    /\ csdCtx[c].pc \in {"rdy", "halted"} /\ csdCtx[c].path = p
    /\ csdPath[p].st = CsdInitHw

CsdEnablePxlPath(c) ==
    /\ CsdMayStart(c, "pix")
    /\ CsdStarted("pix", csdHw.drop, 0)
    /\ csdCtx' = CsdGo(c, "up")
    /\ UNCHANGED <<csdHw, csdCid, csdWork>>

\* An RDI path keeps a frame drop of its own, set only for the dual usage
\* type and never cleared.
CsdEnableRdiPath(c) ==
    /\ CsdMayStart(c, "rdi")
    /\ LET d == IF c \in CsdDual THEN csdHw.drop + 1 ELSE csdPath["rdi"].drop IN
       CsdStarted("rdi", d, d)
    /\ csdCtx' = CsdGo(c, "up")
    /\ UNCHANGED <<csdHw, csdCid, csdWork>>

\* Masking a path's interrupts, and what polling its status finds.
CsdDisablePath(r) == [r EXCEPT !.irq = FALSE, !.sof = 0]
CsdPollStopStatus(r, timeout) == [r EXCEPT !.run = @ /\ timeout]

\* Stopping a path: its interrupts are masked, it is halted and its status is
\* polled; it is INIT_HW afterwards even when the poll timed out.
CsdStopPath(c, timeout) ==
    /\ CsdAt(c, "up")
    /\ csdG.left >= CsdCost(timeout)
    /\ timeout => csdPath[csdCtx[c].path].run
    /\ LET p == csdCtx[c].path IN
       csdPath' = [csdPath EXCEPT ![p] = [CsdPollStopStatus(CsdDisablePath(@), timeout)
                                          EXCEPT !.st = CsdInitHw]]
    /\ csdCtx' = CsdGo(c, "stc")
    /\ csdG' = CsdSpend(csdG, CsdCost(timeout))
    /\ UNCHANGED <<csdHw, csdCid, csdWork>>

\* Stopping the CID: INIT_HW, whoever else is using it.
CsdStopCid(c) ==
    /\ CsdAt(c, "stc")
    /\ csdCid' = [csdCid EXCEPT ![csdCtx[c].cid].st = CsdInitHw]
    /\ csdCtx' = CsdGo(c, "halted")
    /\ UNCHANGED <<csdHw, csdPath, csdWork, csdG>>

\* The init frame drop blob of any context that holds a path.
CsdSetDrop(c, d) ==
    /\ csdCtx[c].pc \in {"acq", "up"}
    /\ d # csdHw.drop
    /\ csdHw' = [csdHw EXCEPT !.drop = d]
    /\ csdG' = [csdG EXCEPT !.stray["pix"] = @ \/ (csdPath["pix"].st = CsdStream /\ ~csdPath["pix"].run)]
    /\ UNCHANGED <<csdCid, csdPath, csdCtx, csdWork>>

-----------------------------------------------------------------------------
(* The interrupt handler and its work *)

\* Whether a fatal error finds a task to queue.
CsdDispatchIrq(overflow) == csdWork < CsdMaxWork

\* A receiver error: an overflow is fatal, the others after too many; a fatal
\* one halts the receiver and queues work, if the queue has a task.
CsdIrqRx(overflow) ==
    /\ csdHw.pow /\ csdHw.rx /\ csdHw.en
    /\ csdG.left > 0
    /\ LET err == csdHw.err + CsdCost(~overflow)
           fatal == overflow \/ err > CsdMaxErr
           room == CsdDispatchIrq(overflow) IN
       /\ csdHw' = [csdHw EXCEPT !.err = IF fatal /\ ~overflow THEN 0 ELSE err,
                                 !.rx = ~fatal]
       /\ csdWork' = csdWork + CsdCost(fatal /\ room)
       /\ csdG' = [CsdSpend(csdG, CsdCost(fatal)) EXCEPT !.halt = fatal,
                                                      !.lost = @ \/ (fatal /\ csdWork = CsdMaxWork)]
    /\ UNCHANGED <<csdCid, csdPath, csdCtx>>

\* Mutant: one frame later.
CsdSofResumesLate(n, d) == n > d

\* SOF on a path that waits for its frame drop.
CsdSofResumes(n, d) == n = d
CsdSof(p) ==
    /\ csdHw.pow /\ csdHw.rx
    /\ csdPath[p].irq
    /\ csdPath[p].sof < CsdSofs
    /\ LET n == csdPath[p].sof + 1
           counts == csdPath[p].st = CsdStream /\ CsdDropOf(p) > 0
           resume == counts /\ CsdSofResumes(n, CsdDropOf(p)) IN
       csdPath' = [csdPath EXCEPT ![p].sof = IF resume THEN 0 ELSE IF counts THEN n ELSE @,
                                  ![p].run = @ \/ resume,
                                  ![p].irq = @ /\ ~resume]
    /\ UNCHANGED <<csdHw, csdCid, csdCtx, csdWork, csdG>>
CsdIrqIpp == CsdSof("pix")
CsdIrqRdi == CsdSof("rdi")

\* A path's FIFO overflows: it is halted at once, and stays so.
CsdIrqOverflow(p) ==
    /\ csdHw.pow /\ csdHw.rx /\ csdG.left > 0
    /\ csdPath[p].run
    /\ csdPath' = [csdPath EXCEPT ![p].run = FALSE]
    /\ csdG' = [CsdSpend(csdG, 1) EXCEPT !.stray[p] = TRUE]
    /\ UNCHANGED <<csdHw, csdCid, csdCtx, csdWork>>

\* The queued work: reports the fatal error once per power cycle.
CsdFatalWork ==
    /\ csdWork > 0
    /\ csdWork' = csdWork - 1
    /\ csdHw' = [csdHw EXCEPT !.fatal = TRUE]
    /\ csdG' = [csdG EXCEPT !.reports = @ + CsdCost(~csdHw.fatal)]
    /\ UNCHANGED <<csdCid, csdPath, csdCtx>>

CsdNext ==
    \/ \E c \in CsdCtxs :
        \/ \E k \in CsdKeys, p \in CsdPaths : CsdCidReserve(c, k, p)
        \/ CsdPathReserve(c) \/ CsdReleasePath(c) \/ CsdReleaseCid(c)
        \/ CsdInitFails(c)
        \/ \E b, r \in BOOLEAN : CsdInitCid(c, b, r) \/ CsdInitPath(c, b, r)
        \/ CsdDeinitCid(c) \/ CsdDeinitPath(c)
        \/ CsdEnablePxlPath(c) \/ CsdEnableRdiPath(c) \/ CsdStopCid(c)
        \/ \E t \in BOOLEAN : CsdStopPath(c, t)
        \/ \E d \in CsdDrops : CsdSetDrop(c, d)
    \/ \E o \in BOOLEAN : CsdIrqRx(o)
    \/ CsdIrqIpp \/ CsdIrqRdi
    \/ \E p \in CsdPaths : CsdIrqOverflow(p)
    \/ CsdFatalWork

CsdSpec == CsdInit /\ [][CsdNext]_csdVars

-----------------------------------------------------------------------------
(* Properties *)

CsdHolders(i) == Cardinality({c \in CsdCtxs : csdCtx[c].cid = i})

\* cam_ife_csid_reserve / cam_ife_csid_release: a CID counts exactly the
\* contexts that hold it and the releases that were ignored because the CID
\* was streaming; csi2_reserve_cnt is the sum, and a CID nobody counts is free.
CsdCidUsers ==
    /\ \A i \in CsdCids : /\ csdCid[i].cnt = CsdHolders(i) + csdG.leak[i]
                          /\ csdCid[i].st = CsdAvail <=> csdCid[i].cnt = 0
    /\ csdHw.rsv = Cardinality({c \in CsdCtxs : csdCtx[c].cid # 0})
                   + MapThenSumSet(LAMBDA i : csdG.leak[i], CsdCids)

\* cam_ife_csid_enable_hw / disable_hw: open_count is the number of
\* initialised resources, unless an initialisation failed since the block was
\* last idle; the block is powered exactly while it is not 0.
CsdOpen ==
    /\ ~csdG.failed => csdHw.open = Cardinality({c \in CsdCtxs : csdCtx[c].copen})
                                     + Cardinality({c \in CsdCtxs : csdCtx[c].popen})
    /\ csdHw.pow <=> csdHw.open > 0

\* cam_ife_csid_enable_csi2 / disable_csi2: while a streaming path is fed,
\* the block is powered and the receiver is on, unless a fatal error halted it
\* or an initialisation of some context failed since the block was last idle
\* (its clean-up gives up power and receiver that are not its own).
CsdFed ==
    \A c \in CsdCtxs :
        (CsdAt(c, "up") /\ csdPath[csdCtx[c].path].st = CsdStream)
            => ((csdHw.pow /\ (csdHw.rx \/ csdG.halt)) \/ csdG.failed)

\* cam_ife_csid_path_reserve: a path belongs to one context, the one that
\* reserved it, until that context releases it.
CsdOnePath ==
    \A p \in CsdPaths :
        Cardinality({c \in CsdCtxs : csdCtx[c].path = p
                                     /\ csdCtx[c].pc \notin {"free", "cid", "relc"}})
            = CsdCost(csdPath[p].st # CsdAvail)

\* cam_ife_csid_irq, cam_csid_event_dispatch_process: a receiver halted by a
\* fatal error has been reported in this power cycle, or its work is queued;
\* and no power cycle is reported twice.
CsdHeard ==
    /\ csdG.halt => (csdHw.fatal \/ csdWork > 0 \/ csdG.lost)
    /\ csdG.reports <= 1

\* cam_ife_csid_irq with init_frame_drop: a started path that does not run yet
\* still hears SOFs and has not missed the one that resumes it, unless another
\* packet changed the frame drop after the start or an overflow halted it.
CsdResumes ==
    \A p \in CsdPaths :
        (csdPath[p].st = CsdStream /\ ~csdPath[p].run /\ csdHw.pow /\ ~csdG.stray[p]
         /\ \E c \in CsdCtxs : csdCtx[c].path = p /\ CsdAt(c, "up"))
            => (csdPath[p].irq /\ csdPath[p].sof < CsdDropOf(p))

\* Users of a CID, of the receiver and of the paths are counted, and an armed path is
\* fed, heard and resumed.
CsdSafe ==
    /\ CsdCidUsers /\ CsdOpen /\ CsdFed /\ CsdOnePath /\ CsdHeard /\ CsdResumes
=============================================================================
