------------------------------- MODULE CrmTear -------------------------------
(***************************************************************************)
(* A link of the request manager being made, controlled and taken apart    *)
(* while it is in use (drivers/cam_req_mgr/cam_req_mgr_core.c): the ioctl  *)
(* thread under crm_lock, the work queue, the watchdog timer, the tasklet  *)
(* of the Isp that reports frames, and a thread per device that submits a  *)
(* packet under the device's mutex (cam_context.c) and from there takes    *)
(* link->lock.                                                             *)
(* A device is disconnected under its mutex, and the Isp first stops its   *)
(* hardware, which waits for the tasklet (cam_tasklet_stop).               *)
(* The application does not run link_control while it submits packets to   *)
(* devices of the link: link_control takes link->lock and then the mutex   *)
(* of each device, a submission takes them the other way round.            *)
(***************************************************************************)
EXTENDS Integers, Sequences

CONSTANTS CrtDevs, CrtIsp,   \* the devices of the link and the one that sends triggers
          CrtPool,     \* CRM_WORKQ_NUM_TASKS
          CrtGens,     \* bound: how often the link is made
          CrtEvts,     \* bounds: frames reported, packets submitted,
          CrtCtl,      \* link_control calls
          CrtFires     \* and expirations of the watchdog

\* Devices are numbered from 1: 0 stands for none.
ASSUME CrtAssumption == CrtDevs \subseteq Nat \ {0} /\ CrtIsp \in CrtDevs

VARIABLES crtLink,     \* the link
          crtIo,       \* the ioctl under crm_lock: where it is, and devices it has to visit
          crtDev,      \* crtDev[d]: mutex holder, the link it knows, whether it streams
          crtNote,     \* the tasklet in cam_req_mgr_cb_notify_trigger
          crtCfg,      \* crtCfg[d]: the submission to d in cam_req_mgr_cb_add_req
          crtG         \* budgets and history

crtVars == <<crtLink, crtIo, crtDev, crtNote, crtCfg, crtG>>

\* run is the task the worker is at: its kind, the devices left, the device whose ops it has read
CrtNoTask == [k |-> "none", todo |-> {}, ops |-> 0]

CrtInit ==
    /\ crtLink = [st |-> "avail", hdl |-> 0, wq |-> FALSE, job |-> FALSE, q |-> <<>>,
                  run |-> CrtNoTask, dog |-> "none", conn |-> {}, lock |-> "free"]
    /\ crtIo = [pc |-> "idle", todo |-> {}]
    /\ crtDev = [d \in CrtDevs |-> [mtx |-> "free", link |-> 0, str |-> FALSE]]
    /\ crtNote = [pc |-> "idle"]
    /\ crtCfg = [d \in CrtDevs |-> "idle"]
    /\ crtG = [gen |-> 0, evts |-> 0, ctl |-> 0, fires |-> 0,
               bad |-> {},       \* uses of what has been freed
               after |-> FALSE]  \* a message about a link whose unlink has returned

CrtMin(S) == CHOOSE x \in S : \A y \in S : x <= y

\* what the task pool of CrtPool holds back
CrtBusy == Len(crtLink.q) + (IF crtLink.run = CrtNoTask THEN 0 ELSE 1)

\* cam_req_mgr_workq_get_task and cam_req_mgr_workq_enqueue_task: a task of kind k, or none when
\* the queue is not there, the pool is empty or the job is gone
CrtEnq(L, k) ==
    IF L.wq /\ L.job /\ CrtBusy < CrtPool THEN [L EXCEPT !.q = Append(@, k)] ELSE L

\* a use of the work queue by who; freed when the link was torn down under its feet
CrtUses(who) ==
    IF crtLink.wq \/ crtIo.pc \in {"dev", "ready"} THEN crtG.bad ELSE crtG.bad \cup {who}

----------------------------------------------------------------------------
\* cam_req_mgr_link: handle and slot; link->lock is taken before the devices are set up
CrtLinkBegin ==
    /\ crtIo.pc = "idle" /\ crtLink.hdl = 0 /\ crtLink.lock = "free" /\ crtG.gen < CrtGens
    /\ crtLink' = [crtLink EXCEPT !.lock = "io", !.hdl = crtG.gen + 1, !.st = "idle"]
    /\ crtIo' = [pc |-> "dev", todo |-> CrtDevs]
    /\ crtG' = [crtG EXCEPT !.gen = @ + 1]
    /\ UNCHANGED <<crtDev, crtNote, crtCfg>>

\* __cam_req_mgr_setup_link_info: link_setup of the next device, under its mutex
CrtLinkDev ==
    LET d == CrtMin(crtIo.todo)
    IN /\ crtIo.pc = "dev" /\ crtIo.todo # {} /\ crtDev[d].mtx = "free"
       /\ crtDev' = [crtDev EXCEPT ![d].link = crtLink.hdl]
       /\ crtLink' = [crtLink EXCEPT !.conn = @ \cup {d}]
       /\ crtIo' = [pc |-> IF crtIo.todo = {d} THEN "ready" ELSE "dev", todo |-> crtIo.todo \ {d}]
       /\ UNCHANGED <<crtNote, crtCfg, crtG>>

\* READY, then the work queue and its payload
CrtLinkReady ==
    /\ crtIo.pc = "ready"
    /\ IF crtLink.st = "idle"
       THEN crtLink' = [crtLink EXCEPT !.st = "ready"] /\ UNCHANGED crtIo
       ELSE /\ crtLink' = [crtLink EXCEPT !.wq = TRUE, !.job = TRUE, !.lock = "free"]
            /\ crtIo' = [crtIo EXCEPT !.pc = "idle"]
    /\ UNCHANGED <<crtDev, crtNote, crtCfg, crtG>>

\* cam_req_mgr_link_control: the watchdog made or deleted under link->lock, then PAUSE or RESUME
\* to every device, under its mutex
CrtControl(on) ==
    /\ crtIo.pc = "idle" /\ crtLink.hdl # 0 /\ crtLink.lock = "free" /\ crtG.ctl < CrtCtl
    /\ \A d \in CrtDevs : crtCfg[d] = "idle"
    /\ crtLink' = [crtLink EXCEPT !.lock = "io", !.dog = IF ~on THEN "none"
                                                        ELSE IF @ = "none" THEN "armed" ELSE @]
    /\ crtIo' = [pc |-> "ctl", todo |-> crtLink.conn]
    /\ crtG' = [crtG EXCEPT !.ctl = @ + 1]
    /\ UNCHANGED <<crtDev, crtNote, crtCfg>>

CrtControlDev ==
    /\ crtIo.pc = "ctl"
    /\ IF crtIo.todo = {}
       THEN /\ crtIo' = [crtIo EXCEPT !.pc = "idle"]
            /\ crtLink' = [crtLink EXCEPT !.lock = "free"]
       ELSE LET d == CrtMin(crtIo.todo)
            IN /\ crtDev[d].mtx = "free"
               /\ crtIo' = [crtIo EXCEPT !.todo = @ \ {d}] /\ UNCHANGED crtLink
    /\ UNCHANGED <<crtDev, crtNote, crtCfg, crtG>>

\* __cam_req_mgr_unlink: the state first, so that notices are refused from here on
CrtUnlink ==
    /\ crtIo.pc = "idle" /\ crtLink.hdl # 0
    /\ crtLink' = [crtLink EXCEPT !.st = "idle"]
    /\ crtIo' = [pc |-> "cut", todo |-> crtLink.conn]
    /\ UNCHANGED <<crtDev, crtNote, crtCfg, crtG>>

\* Mutant: link->lock is taken before the devices are cut off
CrtDisconnectMutant ==
    /\ crtIo.pc = "cut"
    /\ IF crtIo.todo = {} THEN crtIo' = [crtIo EXCEPT !.pc = "lock"] /\ UNCHANGED <<crtDev, crtLink>>
       ELSE LET d == CrtMin(crtIo.todo)
            IN /\ crtDev[d].mtx = "free" /\ crtLink.lock \in {"free", "io"}
               /\ d = CrtIsp => crtNote.pc = "idle"
               /\ crtDev' = [crtDev EXCEPT ![d].link = 0, ![d].str = FALSE]
               /\ crtLink' = [crtLink EXCEPT !.conn = @ \ {d}, !.lock = "io"]
               /\ crtIo' = [crtIo EXCEPT !.todo = @ \ {d}]
    /\ UNCHANGED <<crtNote, crtCfg, crtG>>

\* __cam_req_mgr_disconnect_link: link_setup of each device under its mutex; the Isp waits for its
\* tasklet.  dev->ops becomes NULL without the lock the tasks hold
CrtDisconnect ==
    /\ crtIo.pc = "cut"
    /\ IF crtIo.todo = {} THEN crtIo' = [crtIo EXCEPT !.pc = "lock"] /\ UNCHANGED <<crtDev, crtLink>>
       ELSE LET d == CrtMin(crtIo.todo)
            IN /\ crtDev[d].mtx = "free"
               /\ d = CrtIsp => crtNote.pc = "idle"
               /\ crtDev' = [crtDev EXCEPT ![d].link = 0, ![d].str = FALSE]
               /\ crtLink' = [crtLink EXCEPT !.conn = @ \ {d}]
               /\ crtIo' = [crtIo EXCEPT !.todo = @ \ {d}]
    /\ UNCHANGED <<crtNote, crtCfg, crtG>>

\* link->lock, crm_timer_exit, and cam_req_mgr_workq_destroy up to destroy_workqueue
CrtTimer ==
    /\ crtIo.pc = "lock" /\ crtLink.lock \in {"free", "io"}
    /\ crtLink' = [crtLink EXCEPT !.lock = "io", !.dog = "none", !.job = FALSE]
    /\ crtIo' = [crtIo EXCEPT !.pc = "drain"]
    /\ UNCHANGED <<crtDev, crtNote, crtCfg, crtG>>

\* Mutant: the work queue is freed with tasks still queued
CrtDrainMutant ==
    /\ crtIo.pc = "drain"
    /\ crtLink' = [crtLink EXCEPT !.wq = FALSE, !.hdl = 0, !.lock = "free"]
    /\ crtIo' = [crtIo EXCEPT !.pc = "idle"]
    /\ UNCHANGED <<crtDev, crtNote, crtCfg, crtG>>

\* destroy_workqueue has run what was queued; tables, handle, slot
CrtDrain ==
    /\ crtIo.pc = "drain" /\ crtLink.q = <<>> /\ crtLink.run = CrtNoTask
    /\ crtLink' = [crtLink EXCEPT !.wq = FALSE, !.hdl = 0, !.lock = "free"]
    /\ crtIo' = [crtIo EXCEPT !.pc = "idle"]
    /\ UNCHANGED <<crtDev, crtNote, crtCfg, crtG>>

----------------------------------------------------------------------------
\* the Isp starts or stops to stream, under its mutex; a stop waits for the tasklet
CrtStream(on) ==
    /\ crtDev[CrtIsp].mtx = "free" /\ crtDev[CrtIsp].link # 0 /\ crtDev[CrtIsp].str # on
    /\ ~on => crtNote.pc = "idle"
    /\ crtDev' = [crtDev EXCEPT ![CrtIsp].str = on]
    /\ UNCHANGED <<crtLink, crtIo, crtNote, crtCfg, crtG>>

\* cam_req_mgr_cb_notify_trigger: the link of the handle
CrtNotify ==
    /\ crtNote.pc = "idle" /\ crtDev[CrtIsp].str /\ crtG.evts < CrtEvts
    /\ crtLink.hdl = crtDev[CrtIsp].link
    /\ crtNote' = [pc |-> "check"]
    /\ crtG' = [crtG EXCEPT !.evts = @ + 1]
    /\ UNCHANGED <<crtLink, crtIo, crtDev, crtCfg>>

\* the state is READY and the watchdog is set again, under link_state_spin_lock
CrtCheck ==
    /\ crtNote.pc = "check"
    /\ IF crtLink.st = "ready"
       THEN /\ crtNote' = [crtNote EXCEPT !.pc = "task"]
            /\ crtLink' = [crtLink EXCEPT !.dog = IF @ = "none" THEN @ ELSE "armed"]
       ELSE crtNote' = [pc |-> "idle"] /\ UNCHANGED crtLink
    /\ UNCHANGED <<crtIo, crtDev, crtCfg, crtG>>

\* a task for the trigger, after the spin lock is dropped
CrtTask ==
    /\ crtNote.pc = "task"
    /\ crtLink' = CrtEnq(crtLink, "trig")
    /\ crtNote' = [pc |-> "idle"]
    /\ crtG' = [crtG EXCEPT !.bad = CrtUses("tasklet")]
    /\ UNCHANGED <<crtIo, crtDev, crtCfg>>

\* a packet for d: its mutex is taken, and kept until the packet is announced
CrtSubmit(d) ==
    /\ crtCfg[d] = "idle" /\ crtDev[d].mtx = "free" /\ crtDev[d].link # 0 /\ crtG.evts < CrtEvts
    /\ crtIo.pc # "ctl"
    /\ crtDev' = [crtDev EXCEPT ![d].mtx = "cfg"]
    /\ crtCfg' = [crtCfg EXCEPT ![d] = "lock"]
    /\ crtG' = [crtG EXCEPT !.evts = @ + 1]
    /\ UNCHANGED <<crtLink, crtIo, crtNote>>

\* cam_req_mgr_cb_add_req: link->lock, the state, a task
CrtAddReq(d) ==
    /\ crtCfg[d] = "lock" /\ crtLink.lock = "free"
    /\ crtLink' = IF crtLink.st = "ready" THEN CrtEnq(crtLink, "add") ELSE crtLink
    /\ crtG' = IF crtLink.st = "ready" THEN [crtG EXCEPT !.bad = CrtUses("cfg")] ELSE crtG
    /\ crtCfg' = [crtCfg EXCEPT ![d] = "idle"]
    /\ crtDev' = [crtDev EXCEPT ![d].mtx = "free"]
    /\ UNCHANGED <<crtIo, crtNote>>

\* __cam_req_mgr_sof_freeze: the timer fires once, until it is set again
CrtFire ==
    /\ crtLink.dog = "armed" /\ crtG.fires < CrtFires
    /\ crtLink' = CrtEnq([crtLink EXCEPT !.dog = "fired"], "freeze")
    /\ crtG' = [crtG EXCEPT !.fires = @ + 1, !.bad = CrtUses("timer")]
    /\ UNCHANGED <<crtIo, crtDev, crtNote, crtCfg>>

----------------------------------------------------------------------------
\* cam_req_mgr_process_workq takes the next task; add_req touches no device
CrtRun ==
    /\ crtLink.q # <<>> /\ crtLink.run = CrtNoTask
    /\ crtLink' = [crtLink EXCEPT !.q = Tail(@),
                                  !.run = [k |-> Head(crtLink.q), ops |-> 0,
                                           todo |-> IF Head(crtLink.q) = "add" THEN {} ELSE CrtDevs]]
    /\ UNCHANGED <<crtIo, crtDev, crtNote, crtCfg, crtG>>

\* __cam_req_mgr_send_req, __cam_req_mgr_notify_sof_freeze: dev->ops is read ...
CrtRunOps ==
    LET d == CrtMin(crtLink.run.todo)
    IN /\ crtLink.run.todo # {} /\ crtLink.run.ops = 0
       /\ crtLink' = IF d \in crtLink.conn THEN [crtLink EXCEPT !.run.ops = d]
                     ELSE [crtLink EXCEPT !.run.todo = @ \ {d}]
       /\ UNCHANGED <<crtIo, crtDev, crtNote, crtCfg, crtG>>

\* ... and the device called, under its mutex
CrtRunDev ==
    LET d == crtLink.run.ops
    IN /\ d # 0 /\ crtDev[d].mtx = "free"
       /\ crtLink' = [crtLink EXCEPT !.run.ops = 0, !.run.todo = @ \ {d}]
       /\ UNCHANGED <<crtIo, crtDev, crtNote, crtCfg, crtG>>

\* the task is done; a freeze ends with a message to the application
CrtRunEnd ==
    /\ crtLink.run # CrtNoTask /\ crtLink.run.todo = {}
    /\ crtLink' = [crtLink EXCEPT !.run = CrtNoTask]
    /\ crtG' = [crtG EXCEPT !.after = @ \/ (crtLink.run.k = "freeze" /\ crtLink.hdl = 0)]
    /\ UNCHANGED <<crtIo, crtDev, crtNote, crtCfg>>

----------------------------------------------------------------------------
CrtIoStep == CrtLinkDev \/ CrtLinkReady \/ CrtControlDev \/ CrtDisconnect \/ CrtTimer \/ CrtDrain
CrtNoteStep == CrtCheck \/ CrtTask
CrtWorkStep == CrtRun \/ CrtRunOps \/ CrtRunDev \/ CrtRunEnd

CrtNext ==
    \/ CrtIoStep \/ CrtNoteStep \/ CrtWorkStep
    \/ CrtLinkBegin \/ CrtUnlink \/ \E on \in BOOLEAN : CrtControl(on) \/ CrtStream(on)
    \/ CrtNotify \/ CrtFire
    \/ \E d \in CrtDevs : CrtSubmit(d) \/ CrtAddReq(d)

\* A thread that can go on goes on: tasks, tasklet, and the threads inside an ioctl.
CrtFair ==
    /\ WF_crtVars(CrtIoStep) /\ WF_crtVars(CrtNoteStep) /\ WF_crtVars(CrtWorkStep)
    /\ \A d \in CrtDevs : WF_crtVars(CrtAddReq(d))

CrtSpec == CrtInit /\ [][CrtNext]_crtVars /\ CrtFair

----------------------------------------------------------------------------
\* The tasklet, a submission or the watchdog never uses a work queue that has been destroyed.
CrtAlive == crtG.bad = {}

\* When unlink has returned the application is sent no message about the link.
CrtQuiet == ~crtG.after

\* A link whose unlink has returned is taken apart: no watchdog can fire, and no device knows the
\* link or is still announcing a packet to it.
CrtApart ==
    crtLink.hdl = 0 => /\ crtLink.dog = "none"
                       /\ \A d \in CrtDevs : crtDev[d].link = 0 /\ crtCfg[d] = "idle"

\* Every link, unlink and link_control returns: the worker, the devices' mutexes and link->lock
\* never wait for each other.
CrtEnds == crtIo.pc # "idle" ~> crtIo.pc = "idle"

\* The order in which __cam_req_mgr_unlink takes a link apart is safe beside the
\* worker, the watchdog, the tasklet and the packets of its devices.
CrtSafe ==
    /\ CrtAlive /\ CrtQuiet /\ CrtApart
=============================================================================
