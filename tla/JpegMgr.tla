-------------------------------- MODULE JpegMgr --------------------------------
(***************************************************************************)
(* The JPEG hardware manager: requests of several contexts share a queue, an  *)
(* encoder and a DMA engine.  One worker starts the head of the queue, another *)
(* handles interrupts, ioctls acquire, submit, flush and release.              *)
(* A step is a region under hw_mgr_mutex, or what lies between two of them.     *)
(***************************************************************************)
EXTENDS Naturals, Sequences, FiniteSets

CONSTANTS JpgNCtx,    \* contexts of the manager (CAM_JPEG_CTX_MAX)
          JpgNReq,    \* request objects (CAM_JPEG_HW_CFG_Q_MAX)
          JpgTasks,   \* tasks of the frame work queue (CAM_JPEG_WORKQ_NUM_TASK)
          JpgMaxId,   \* bound: requests submitted in a behaviour
          JpgFaults   \* bound: faults in a behaviour

ASSUME JpgAssumption == {JpgNCtx, JpgNReq, JpgTasks, JpgMaxId, JpgFaults} \subseteq Nat

JpgCtxs == 1..JpgNCtx
JpgReqs == 1..JpgNReq
JpgIds == 1..JpgMaxId
JpgDevs == {"enc", "dma"}

VARIABLES jpg,       \* free and hw_config_req lists, tasks of the two work queues
          jpgReq,    \* struct cam_jpeg_hw_cfg_req: request id, context, device
          jpgCtx,    \* struct cam_jpeg_hw_ctx_data: in_use, device, CDM reference held
          jpgDev,    \* the device: in_use, request, core state, power count, irq callback
          jpgCdm,    \* CDM handle of each device: references, streaming
          jpgWork,   \* what the frame worker and the interrupt worker hold
          jpgRep,    \* what became of each request id
          jpgGhost   \* history: objects lost, requests stranded, disturbances; faults left

jpgVars == <<jpg, jpgReq, jpgCtx, jpgDev, jpgCdm, jpgWork, jpgRep, jpgGhost>>

JpgIdle == [pc |-> "idle", p |-> 0, c |-> 0]

JpgNoCtx == [inUse |-> FALSE, d |-> "enc"]
JpgNoReq == [id |-> 0, c |-> 1, d |-> "enc"]

\* The fields of a free object are dead (config_hw sets them all), unless the frame
\* worker still holds it.
JpgClear(P) == [p \in JpgReqs |->
    IF p \in P /\ jpgWork.cmd.p # p THEN JpgNoReq ELSE jpgReq[p]]

JpgInit ==
    /\ jpg = [free |-> [p \in JpgReqs |-> p], cfg |-> <<>>, cmdq |-> 0, irqq |-> <<>>]
    /\ jpgReq = [p \in JpgReqs |-> JpgNoReq]
    /\ jpgCtx = [c \in JpgCtxs |-> JpgNoCtx]
    /\ jpgDev = [d \in JpgDevs |->
                   [inUse |-> FALSE, req |-> 0, core |-> "NOT_READY", ref |-> 0, cb |-> 0]]
    /\ jpgCdm = [d \in JpgDevs |-> [ref |-> 0, on |-> FALSE]]
    /\ jpgWork = [cmd |-> JpgIdle, irq |-> JpgIdle]
    /\ jpgRep = [id \in JpgIds |-> "none"]
    /\ jpgGhost = [lost |-> {}, strand |-> FALSE, stuck |-> FALSE, disturbed |-> FALSE,
                   faults |-> JpgFaults]

JpgFault == /\ jpgGhost.faults > 0
            /\ jpgGhost' = [jpgGhost EXCEPT !.faults = @ - 1]

-----------------------------------------------------------------------------
(* ioctls *)

\* The first context that is not in use; the first acquire of a device also acquires
\* and starts its CDM, and a later failure undoes what was done.
JpgAcquire(c, d) ==
    /\ ~jpgCtx[c].inUse /\ \A b \in JpgCtxs : b < c => jpgCtx[b].inUse
    /\ \/ /\ jpgCtx' = [jpgCtx EXCEPT ![c] = [inUse |-> TRUE, d |-> d]]
          /\ jpgCdm' = [jpgCdm EXCEPT ![d] = [ref |-> @.ref + 1, on |-> TRUE]]
          /\ UNCHANGED jpgGhost
       \/ \* no CDM, no stream, or no copy back
          /\ JpgFault
          /\ UNCHANGED jpgCtx
          /\ jpgCdm' = [jpgCdm EXCEPT ![d].on = @ /\ jpgCdm[d].ref > 0]
    /\ UNCHANGED <<jpg, jpgReq, jpgDev, jpgWork, jpgRep>>

\* The last release of a device stops and releases its CDM.  The queue and the devices are
\* not looked at: what the context leaves there is orphaned.
JpgRelease(c) ==
    LET d == jpgCtx[c].d
        left == {id \in JpgIds : /\ jpgRep[id] \in {"queued", "early"}
                                 /\ \E p \in JpgReqs : jpgReq[p].id = id /\ jpgReq[p].c = c}
    IN  /\ jpgCtx[c].inUse /\ jpgCdm[d].ref > 0
        /\ jpgCtx' = [jpgCtx EXCEPT ![c] = JpgNoCtx]
        /\ jpgCdm' = [jpgCdm EXCEPT ![d] = [ref |-> @.ref - 1, on |-> @.ref > 1]]
        /\ jpgRep' = [id \in JpgIds |-> IF id \in left THEN "orphan" ELSE jpgRep[id]]
        /\ jpgGhost' = [jpgGhost EXCEPT !.stuck = @ \/ left # {}, !.disturbed = @ \/ left # {}]
        /\ UNCHANGED <<jpg, jpgReq, jpgDev, jpgWork>>

\* A request joins the queue with one task to start it; without a task it is refused.
JpgConfig(c, id) ==
    LET p == Head(jpg.free)
    IN  /\ jpgCtx[c].inUse /\ jpg.free # <<>>
        /\ jpgRep[id] = "none" /\ \A i \in JpgIds : i < id => jpgRep[i] # "none"
        /\ IF jpg.cmdq < JpgTasks
           THEN /\ jpgReq' = [jpgReq EXCEPT ![p] = [id |-> id, c |-> c, d |-> jpgCtx[c].d]]
                /\ jpg' = [jpg EXCEPT !.free = Tail(@), !.cfg = Append(@, p), !.cmdq = @ + 1]
                /\ jpgRep' = [jpgRep EXCEPT ![id] = "queued"]
                /\ jpgGhost' = [jpgGhost EXCEPT !.strand = FALSE]
           ELSE /\ jpg' = [jpg EXCEPT !.free = Append(Tail(@), p)]
                /\ jpgRep' = [jpgRep EXCEPT ![id] = "refused"]
                /\ jpgReq' = [jpgReq EXCEPT ![p].d =
                                 IF jpgWork.cmd.p = p THEN jpgCtx[c].d ELSE @]
                /\ UNCHANGED jpgGhost
        /\ UNCHANGED <<jpgCtx, jpgDev, jpgCdm, jpgWork>>

\* The device loses its callback, is stopped (the interrupt of the stop, or the timeout,
\* leaves the core not ready) and powered down.
JpgStopDeinit(dev) ==
    [dev EXCEPT !.cb = 0, !.inUse = FALSE, !.req = 0, !.core = "NOT_READY",
                !.ref = IF @ = 0 THEN 0 ELSE @ - 1]

JpgSeqSet(s) == {s[i] : i \in 1..Len(s)}

\* Flush the requests P of context c: the one on the device if it is among them, and
\* those in the queue.  No task is queued for what waits behind them.
JpgFlush(c, P) ==
    LET d == jpgCtx[c].d
        run == jpgDev[d].req
        onDev == jpgDev[d].inUse /\ run # 0 /\ run \in P /\ jpgReq[run].c = c
        Mine(p) == jpgReq[p].c = c /\ p \in P
        Other(p) == ~Mine(p)
        gone == (IF onDev THEN {run} ELSE {}) \cup {p \in JpgSeqSet(jpg.cfg) : Mine(p)}
    IN  /\ jpgCtx[c].inUse
        /\ jpgDev' = IF onDev THEN [jpgDev EXCEPT ![d] = JpgStopDeinit(@)] ELSE jpgDev
        /\ jpg' = [jpg EXCEPT
              !.free = @ \o (IF onDev THEN <<run>> ELSE <<>>) \o SelectSeq(jpg.cfg, Mine),
              !.cfg = SelectSeq(@, Other)]
        /\ jpgRep' = [id \in JpgIds |->
              IF \E p \in gone : jpgReq[p].id = id THEN "flushed" ELSE jpgRep[id]]
        /\ jpgGhost' = [jpgGhost EXCEPT !.disturbed = TRUE, !.strand = @ \/ gone # {}]
        /\ jpgReq' = JpgClear(gone)
        /\ UNCHANGED <<jpgCtx, jpgCdm, jpgWork>>

JpgHwFlush(c) == JpgFlush(c, JpgReqs)

JpgFlushReq(c, id) ==
    /\ jpgRep[id] # "none"
    /\ JpgFlush(c, {p \in JpgReqs : jpgReq[p].id = id})

JpgHwStop(c) == JpgFlush(c, JpgReqs)

-----------------------------------------------------------------------------
(* The frame worker: cam_jpeg_mgr_process_cmd *)

JpgTaskDone == jpg' = [jpg EXCEPT !.cmdq = @ - 1]

\* Nothing to start: the queue is empty or the device of its head is busy.
JpgCmdNothing ==
    /\ jpgWork.cmd.pc = "idle" /\ jpg.cmdq > 0
    /\ jpg.cfg # <<>> => jpgDev[jpgReq[Head(jpg.cfg)].d].inUse
    /\ JpgTaskDone
    /\ UNCHANGED <<jpgReq, jpgCtx, jpgDev, jpgCdm, jpgWork, jpgRep, jpgGhost>>

\* The head of the queue gets its device.  Outcomes: started; the context is gone; the
\* device does not power up and stays taken; a later step fails, as it always does for
\* the DMA engine, which has no reset: the request will be reported complete.
JpgCmdStart ==
    LET p == Head(jpg.cfg)
        d == jpgReq[p].d
        c == jpgReq[p].c
        taken == [jpgDev[d] EXCEPT !.inUse = TRUE, !.req = p]
        up == [taken EXCEPT !.ref = @ + 1, !.cb = c]
        rest == [jpg EXCEPT !.cfg = Tail(@)]
        Hold(pc) == [jpgWork EXCEPT !.cmd = [pc |-> pc, p |-> p, c |-> c]]
    IN  /\ jpgWork.cmd.pc = "idle" /\ jpg.cmdq > 0
        /\ jpg.cfg # <<>> /\ ~jpgDev[d].inUse
        /\ \/ /\ ~jpgCtx[c].inUse
              /\ jpgDev' = [jpgDev EXCEPT ![d] = taken]
              /\ jpg' = rest /\ jpgWork' = Hold("unuse")
              /\ UNCHANGED jpgGhost
           \/ /\ jpgCtx[c].inUse /\ jpgDev[d].ref = 0   \* only the first user powers up
              /\ jpgGhost.faults > 0
              /\ jpgDev' = [jpgDev EXCEPT ![d] = taken]
              /\ jpg' = [rest EXCEPT !.cmdq = @ - 1]
              /\ jpgGhost' = [jpgGhost EXCEPT !.faults = @ - 1, !.stuck = TRUE]
              /\ UNCHANGED jpgWork
           \/ /\ jpgCtx[c].inUse /\ d = "enc"
              /\ jpgDev' = [jpgDev EXCEPT ![d] = [up EXCEPT !.core = "READY"]]
              /\ jpg' = [rest EXCEPT !.cmdq = @ - 1]
              /\ UNCHANGED <<jpgGhost, jpgWork>>
           \/ /\ jpgCtx[c].inUse
              /\ d = "enc" => jpgGhost.faults > 0
              /\ jpgDev' = [jpgDev EXCEPT ![d] = up]
              /\ jpg' = rest /\ jpgWork' = Hold("callcb")
              /\ jpgGhost' = [jpgGhost EXCEPT !.disturbed = @ \/ d = "enc",
                                              !.faults = IF d = "enc" THEN @ - 1 ELSE @]
        /\ UNCHANGED <<jpgReq, jpgCtx, jpgCdm, jpgRep>>

\* The completion event of object p reaches context c.
JpgReport(rep, c, p) ==
    [rep EXCEPT ![jpgReq[p].id] = CASE jpgReq[p].c # c -> "stolen"
                                    [] @ = "queued" -> "done"
                                    [] @ = "done" -> "again"
                                    [] OTHER -> @]

JpgCmdCallcb ==
    /\ jpgWork.cmd.pc = "callcb"
    /\ jpgRep' = JpgReport(jpgRep, jpgWork.cmd.c, jpgWork.cmd.p)
    /\ jpgWork' = [jpgWork EXCEPT !.cmd.pc = "unuse"]
    /\ UNCHANGED <<jpg, jpgReq, jpgCtx, jpgDev, jpgCdm, jpgGhost>>

\* The device of the object is given up; what was on it belongs to no list.
JpgCmdUnuse ==
    LET p == jpgWork.cmd.p
        d == jpgReq[p].d
    IN  /\ jpgWork.cmd.pc = "unuse"
        /\ jpgDev' = [jpgDev EXCEPT ![d].inUse = FALSE, ![d].req = 0]
        /\ jpgWork' = [jpgWork EXCEPT !.cmd = JpgIdle]
        /\ jpgGhost' = [jpgGhost EXCEPT !.lost = @ \cup ({jpgDev[d].req} \ {0}),
                                        !.strand = TRUE]
        /\ JpgTaskDone
        /\ UNCHANGED <<jpgReq, jpgCtx, jpgCdm, jpgRep>>

-----------------------------------------------------------------------------
(* Interrupts *)

\* Mutant: the interrupt queues no task.
JpgHwIrqLost(err) ==
    LET dev == jpgDev["enc"]
    IN  /\ dev.ref > 0
        /\ IF err THEN dev.cb # 0 /\ jpgGhost.faults > 0
                  ELSE dev.core = "READY"
        /\ jpgGhost' = IF err THEN [jpgGhost EXCEPT !.disturbed = TRUE, !.faults = @ - 1]
                       ELSE jpgGhost
        /\ jpgDev' = [jpgDev EXCEPT !["enc"].core = "NOT_READY"]
        /\ UNCHANGED <<jpg, jpgReq, jpgCtx, jpgCdm, jpgWork, jpgRep>>

\* The encoder finishes (done), or reports an error, which it may do more than once.
JpgHwIrq(err) ==
    LET dev == jpgDev["enc"]
    IN  /\ dev.ref > 0
        /\ IF err THEN dev.cb # 0 /\ jpgGhost.faults > 0
                  ELSE dev.core = "READY"
        /\ jpgGhost' = IF err THEN [jpgGhost EXCEPT !.disturbed = TRUE, !.faults = @ - 1]
                       ELSE jpgGhost
        /\ jpg' = IF dev.cb = 0 THEN jpg
                  ELSE [jpg EXCEPT !.irqq = Append(@, [c |-> dev.cb, for |-> dev.req])]
        /\ jpgDev' = [jpgDev EXCEPT !["enc"].core = "NOT_READY"]
        /\ UNCHANGED <<jpgReq, jpgCtx, jpgCdm, jpgWork, jpgRep>>

\* cam_jpeg_mgr_process_irq: the request now on the device of the interrupt's context is
\* taken off it, and the device powered down.
JpgProcessIrq ==
    LET t == Head(jpg.irqq)
        d == jpgCtx[t.c].d
        dev == jpgDev[d]
    IN  /\ jpgWork.irq.pc = "idle" /\ jpg.irqq # <<>>
        /\ jpg' = [jpg EXCEPT !.irqq = Tail(@)]
        /\ IF jpgCtx[t.c].inUse /\ dev.inUse /\ dev.req # 0
           THEN /\ jpgDev' = [jpgDev EXCEPT ![d] = [@ EXCEPT
                                  !.cb = 0, !.inUse = FALSE, !.req = 0,
                                  !.ref = IF @ = 0 THEN 0 ELSE @ - 1]]
                /\ jpgWork' = [jpgWork EXCEPT !.irq = [pc |-> "task", p |-> dev.req, c |-> t.c]]
                /\ jpgRep' = IF t.for = dev.req \/ jpgRep[jpgReq[dev.req].id] # "queued" THEN jpgRep
                             ELSE [jpgRep EXCEPT ![jpgReq[dev.req].id] = "early"]
           ELSE UNCHANGED <<jpgDev, jpgWork, jpgRep>>
        /\ UNCHANGED <<jpgReq, jpgCtx, jpgCdm, jpgGhost>>

\* Mutant: no task is queued for the next request.
JpgIrqTaskNone ==
    /\ jpgWork.irq.pc = "task"
    /\ jpgWork' = [jpgWork EXCEPT !.irq.pc = "event"]
    /\ UNCHANGED <<jpg, jpgReq, jpgCtx, jpgDev, jpgCdm, jpgRep, jpgGhost>>

\* A task to start the next request.  Without one, or without the buffer the result
\* goes to, the handler returns and the object is lost.
JpgIrqTask ==
    /\ jpgWork.irq.pc = "task"
    /\ \/ /\ jpg.cmdq < JpgTasks
          /\ jpg' = [jpg EXCEPT !.cmdq = @ + 1]
          /\ jpgWork' = [jpgWork EXCEPT !.irq.pc = "event"]
          /\ jpgGhost' = [jpgGhost EXCEPT !.strand = FALSE]
       \/ /\ jpg.cmdq < JpgTasks /\ jpgGhost.faults > 0
          /\ jpg' = [jpg EXCEPT !.cmdq = @ + 1]
          /\ jpgWork' = [jpgWork EXCEPT !.irq = JpgIdle]
          /\ jpgGhost' = [jpgGhost EXCEPT !.strand = FALSE, !.faults = @ - 1,
                                          !.lost = @ \cup {jpgWork.irq.p}]
       \/ /\ jpg.cmdq = JpgTasks
          /\ jpgWork' = [jpgWork EXCEPT !.irq = JpgIdle]
          /\ jpgGhost' = [jpgGhost EXCEPT !.lost = @ \cup {jpgWork.irq.p}]
          /\ UNCHANGED jpg
    /\ UNCHANGED <<jpgReq, jpgCtx, jpgDev, jpgCdm, jpgRep>>

JpgIrqEvent ==
    LET p == jpgWork.irq.p
    IN  /\ jpgWork.irq.pc = "event"
        /\ jpgRep' = JpgReport(jpgRep, jpgWork.irq.c, p)
        /\ jpg' = [jpg EXCEPT !.free = Append(@, p)]
        /\ jpgWork' = [jpgWork EXCEPT !.irq = JpgIdle]
        /\ jpgReq' = JpgClear({p})
        /\ UNCHANGED <<jpgCtx, jpgDev, jpgCdm, jpgGhost>>

-----------------------------------------------------------------------------
JpgIoctl ==
    \E c \in JpgCtxs :
        \/ \E d \in JpgDevs : JpgAcquire(c, d)
        \/ JpgRelease(c) \/ JpgHwFlush(c) \/ JpgHwStop(c)
        \/ \E id \in JpgIds : JpgConfig(c, id) \/ JpgFlushReq(c, id)

JpgCmdStep == JpgCmdNothing \/ JpgCmdStart \/ JpgCmdCallcb \/ JpgCmdUnuse
JpgIrqStep == JpgProcessIrq \/ JpgIrqTask \/ JpgIrqEvent

JpgNext == JpgIoctl \/ JpgCmdStep \/ JpgIrqStep \/ \E err \in BOOLEAN : JpgHwIrq(err)

JpgSpec == JpgInit /\ [][JpgNext]_jpgVars

\* The two work queues run, and the encoder finishes what it was started on.
JpgFair == WF_jpgVars(JpgCmdStep) /\ WF_jpgVars(JpgIrqStep) /\ WF_jpgVars(JpgHwIrq(FALSE))
JpgFairSpec == JpgSpec /\ JpgFair

-----------------------------------------------------------------------------
\* Types of the manager's state.
JpgTypeOK ==
    /\ JpgSeqSet(jpg.free) \cup JpgSeqSet(jpg.cfg) \subseteq JpgReqs
    /\ jpg.cmdq \in 0..JpgTasks
    /\ \A d \in JpgDevs : /\ jpgDev[d].req \in 0..JpgNReq /\ jpgDev[d].ref \in Nat
                          /\ jpgDev[d].core \in {"NOT_READY", "READY"}
                          /\ jpgCdm[d].ref \in 0..JpgNCtx
    /\ \A id \in JpgIds : jpgRep[id] \in
         {"none", "refused", "queued", "flushed", "done", "early", "stolen", "again",
          "orphan"}

JpgTimesIn(s, p) == Cardinality({i \in 1..Len(s) : s[i] = p})

\* A request object is in one place: free, queued, on one device or held by the
\* interrupt worker.  Only the error paths lose one, and what is lost is nowhere.
JpgOneHome ==
    \A p \in JpgReqs :
        LET n == JpgTimesIn(jpg.free, p) + JpgTimesIn(jpg.cfg, p)
                   + Cardinality({d \in JpgDevs : jpgDev[d].req = p})
                   + (IF jpgWork.irq.p = p THEN 1 ELSE 0)
        IN  n = (IF p \in jpgGhost.lost THEN 0 ELSE 1)

\* Without a flush, an orphan, a failed start or an error interrupt, each completion is reported
\* once, for the request the encoder finished and to the context that submitted it
\* (cam_jpeg_mgr_process_irq finds the request by the device alone).
JpgExact ==
    ~jpgGhost.disturbed => \A id \in JpgIds : jpgRep[id] \notin {"early", "stolen", "again"}

\* While a request waits there is something that will start it: a task, a worker on its
\* way to queue one, or a device whose interrupt will; unless the last thing that freed
\* a device was a flush or a failed start, which queue no task.
JpgNoIdle ==
    jpg.cfg # <<>> =>
        \/ jpg.cmdq > 0 \/ jpgWork.irq.pc = "task" \/ jpgGhost.strand \/ jpgGhost.lost # {}
        \/ \E d \in JpgDevs : jpgDev[d].inUse

\* The encoder is powered while it runs, whatever flushes and stale interrupts do to
\* the count of init and deinit calls.
JpgPowered ==
    \A d \in JpgDevs : jpgDev[d].inUse /\ jpgDev[d].cb # 0 => jpgDev[d].ref > 0

\* The CDM of a device streams exactly while a context of that device is acquired.
JpgCdmOn ==
    \A d \in JpgDevs :
        /\ jpgCdm[d].ref = Cardinality({c \in JpgCtxs : jpgCtx[c].inUse /\ jpgCtx[c].d = d})
        /\ jpgCdm[d].on <=> jpgCdm[d].ref > 0

\* A queued request is completed or flushed, or stays behind a device that did not power
\* up or has an orphan, a flush, a lost completion or a failed start.
JpgServed ==
    \A id \in JpgIds : jpgRep[id] = "queued" ~>
        \/ jpgRep[id] # "queued" \/ jpgGhost.strand \/ jpgGhost.stuck \/ jpgGhost.lost # {}

\* Requests, devices and power of the manager agree whatever fails or is flushed.
JpgSafe ==
    /\ JpgTypeOK /\ JpgOneHome /\ JpgExact /\ JpgNoIdle /\ JpgPowered /\ JpgCdmOn
=============================================================================
