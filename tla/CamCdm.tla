------------------------------- MODULE CamCdm -------------------------------
(***************************************************************************)
(* Submission of buffer lists to a hardware CDM (cam_cdm_hw_core.c). A     *)
(* request writes its buffer lists (BLs) to the FIFO of the hardware and,  *)
(* if it wants a callback, one more that raises an interrupt carrying its  *)
(* tag. cam_hw_cdm_submit_bl holds hw_mutex from its first to its last BL, *)
(* so one request is written at a time; the work items that interrupts     *)
(* queue run in parallel and in any order (unbound workqueue).             *)
(***************************************************************************)
EXTENDS Integers, Sequences, FiniteSets

CONSTANTS CdfSize,     \* entries of the FIFO (CAM_CDM_HWFIFO_SIZE)
          CdfCounts,   \* numbers of BLs of a request
          CdfReqs,     \* requests submitted
          CdfItems,    \* work items queued at a time
          CdfFaults    \* error interrupts and timeouts

VARIABLES cdf,      \* bl_tag, error, bl_done, bl_complete, bl_request_list
          cdfSub,   \* the submission that holds hw_mutex
          cdfHw,    \* FIFO, interrupt status and IRQ_USR_DATA (external)
          cdfWorks, \* queued work items, oldest first
          cdfGhost  \* budget and history

cdfVars == <<cdf, cdfSub, cdfHw, cdfWorks, cdfGhost>>

CdfNoSub == [pc |-> "idle", n |-> 0, i |-> 0, write |-> 0]

CdfInit ==
  /\ cdf = [tag |-> 0, error |-> 0, waits |-> FALSE, ready |-> FALSE, list |-> <<>>]
  /\ cdfSub = CdfNoSub
  /\ cdfHw = [fifo |-> <<>>, gen |-> FALSE, done |-> FALSE, usr |-> 0]
  /\ cdfWorks = <<>>
  /\ cdfGhost = [left |-> CdfFaults, reqs |-> 0, ran |-> {}, told |-> {}, owed |-> {},
                 over |-> FALSE, part |-> FALSE, passed |-> FALSE, twice |-> FALSE]

CdfMay(bad) == bad => cdfGhost.left > 0
CdfSpent(g, bad) == [g EXCEPT !.left = IF bad THEN @ - 1 ELSE @]

-----------------------------------------------------------------------------
(* The hardware runs the head of the FIFO.                                  *)
CdfRun ==
  LET e == Head(cdfHw.fifo)
  IN  /\ cdfHw.fifo # <<>>
      /\ cdfHw' = [cdfHw EXCEPT !.fifo = Tail(@), !.gen = @ \/ e.gen, !.done = @ \/ cdf.waits,
                                !.usr = IF e.gen THEN e.tag ELSE @]
      /\ cdfGhost' = [cdfGhost EXCEPT !.ran = IF e.gen THEN @ \cup {e.req} ELSE @]
      /\ UNCHANGED <<cdf, cdfSub, cdfWorks>>

(* cam_hw_cdm_irq: status and user data go into a work item.                *)
CdfIrq ==
  /\ cdfHw.gen \/ cdfHw.done
  /\ Len(cdfWorks) < CdfItems
  /\ cdfWorks' = Append(cdfWorks, [gen |-> cdfHw.gen, done |-> cdfHw.done, err |-> "none",
                                   tag |-> IF cdfHw.gen THEN cdfHw.usr ELSE 0])
  /\ cdfHw' = [cdfHw EXCEPT !.gen = FALSE, !.done = FALSE]
  /\ UNCHANGED <<cdf, cdfSub, cdfGhost>>

CdfErrorIrq(e) ==
  /\ Len(cdfWorks) < CdfItems
  /\ CdfMay(TRUE) /\ cdfGhost' = CdfSpent(cdfGhost, TRUE)
  /\ cdfWorks' = Append(cdfWorks, [gen |-> FALSE, done |-> FALSE, err |-> e, tag |-> 0])
  /\ UNCHANGED <<cdf, cdfSub, cdfHw>>

-----------------------------------------------------------------------------
CdfUnlocked == cdfSub.pc = "idle"

CdfWith(list, tag) == {k \in DOMAIN list : list[k].tag = tag}

\* Mutant: the whole list is taken.
CdfUptoAll(list, tag) == Len(list)

(* The nodes the work takes off the list: all up to the first with its tag, *)
(* or the whole list if there is none.                                      *)
CdfUpto(list, tag) ==
  IF CdfWith(list, tag) = {} THEN Len(list)
  ELSE CHOOSE k \in CdfWith(list, tag) : \A j \in CdfWith(list, tag) : k <= j

CdfRest(x) == SubSeq(cdfWorks, 1, x - 1) \o SubSeq(cdfWorks, x + 1, Len(cdfWorks))

(* cam_hw_cdm_work: callbacks under hw_mutex first, then the completion.    *)
CdfWork(x) ==
  LET w == cdfWorks[x]
      k == IF w.gen THEN CdfUpto(cdf.list, w.tag) ELSE 0
  IN  /\ w.err = "none" /\ (w.gen => CdfUnlocked)
      /\ cdf' = [cdf EXCEPT !.list = SubSeq(@, k + 1, Len(@)), !.ready = @ \/ (w.done /\ cdf.waits)]
      /\ cdfGhost' = [cdfGhost EXCEPT
           !.told = @ \cup {cdf.list[j].req : j \in 1..k},
           !.passed = @ \/ (w.gen /\ \E y \in 1..x - 1 : cdfWorks[y].gen)]
      /\ cdfWorks' = CdfRest(x)
      /\ UNCHANGED <<cdfSub, cdfHw>>

(* An invalid command stops all submissions until the next init; a bus      *)
(* error only while the registers are dumped.                               *)
CdfErrorWork(x) ==
  /\ cdfWorks[x].err \in {"inv", "ahb"}
  /\ cdf' = [cdf EXCEPT !.error = @ + 1]
  /\ cdfWorks' = IF cdfWorks[x].err = "inv" THEN CdfRest(x) ELSE [cdfWorks EXCEPT ![x].err = "dump"]
  /\ UNCHANGED <<cdfSub, cdfHw, cdfGhost>>

CdfErrorEnd(x) ==
  /\ cdfWorks[x].err = "dump" /\ CdfUnlocked
  /\ cdf' = [cdf EXCEPT !.error = @ - 1]
  /\ cdfWorks' = CdfRest(x)
  /\ UNCHANGED <<cdfSub, cdfHw, cdfGhost>>

-----------------------------------------------------------------------------
(* cam_hw_cdm_submit_bl. *)
CdfSubmit(n) ==
  /\ CdfUnlocked /\ cdfGhost.reqs < CdfReqs /\ cdf.error = 0
  /\ cdfSub' = [pc |-> "loop", n |-> n, i |-> 0, write |-> 0]
  /\ cdfGhost' = [cdfGhost EXCEPT !.reqs = @ + 1]
  /\ UNCHANGED <<cdf, cdfHw, cdfWorks>>

(* One entry is kept for the callback.                                      *)
CdfUsable == CdfSize - Len(cdfHw.fifo) - 1

(* cam_hw_cdm_wait_for_bl_fifo with room for at least one more BL: how many *)
(* follow the next one without another look. bl_count is unsigned, so a     *)
(* full FIFO (usable -1) compares as room for all.                          *)
CdfGrant(left) ==
  IF left < CdfUsable \/ CdfUsable < 0 THEN left ELSE left - CdfUsable

CdfFail == cdfSub' = CdfNoSub

(* The tag restarts in time for the tag of the callback that may follow.    *)
CdfTag(t) == IF t >= CdfSize - 1 THEN 0 ELSE t

(* One BL, and behind the last one the BL that raises the interrupt.        *)
CdfWrite(write) ==
  LET t   == CdfTag(cdf.tag)
      r   == cdfGhost.reqs
      end == cdfSub.i + 1 = cdfSub.n
      bl  == [req |-> r, gen |-> FALSE, tag |-> t]
      irq == [req |-> r, gen |-> TRUE, tag |-> t + 1]
  IN  /\ cdf' = [cdf EXCEPT !.tag = IF end THEN t + 2 ELSE t + 1,
                            !.list = IF end THEN Append(@, [tag |-> t + 1, req |-> r]) ELSE @]
      /\ cdfHw' = [cdfHw EXCEPT !.fifo = IF end THEN @ \o <<bl, irq>> ELSE Append(@, bl)]
      /\ cdfSub' = IF end THEN CdfNoSub
                   ELSE [cdfSub EXCEPT !.pc = "loop", !.i = @ + 1, !.write = write]
      /\ cdfGhost' = [cdfGhost EXCEPT
           !.twice = @ \/ (end /\ CdfWith(cdf.list, t + 1) # {}),
           !.over = @ \/ Len(cdfHw'.fifo) > CdfSize,
           !.owed = IF end THEN @ \cup {r} ELSE @,
           !.part = @ \/ (cdfSub.write = 0 /\ cdfSub.n - cdfSub.i > CdfUsable)]
      /\ UNCHANGED cdfWorks

CdfLoop ==
  /\ cdfSub.pc = "loop"
  /\ IF cdf.error # 0 \/ (cdfSub.write = 0 /\ CdfUsable < -1)
     THEN CdfFail /\ UNCHANGED <<cdf, cdfHw, cdfWorks, cdfGhost>>
     ELSE IF cdfSub.write = 0 /\ CdfUsable = 0
     THEN /\ cdf' = [cdf EXCEPT !.waits = TRUE]
          /\ cdfSub' = [cdfSub EXCEPT !.pc = "wait"]
          /\ UNCHANGED <<cdfHw, cdfWorks, cdfGhost>>
     ELSE CdfWrite(IF cdfSub.write = 0 THEN CdfGrant(cdfSub.n - cdfSub.i) ELSE cdfSub.write - 1)

(* The wait for bl_complete ends, or runs out; the work that would end it   *)
(* may itself be waiting for hw_mutex, if its interrupt also carries a tag. *)
CdfWake ==
  /\ cdfSub.pc = "wait" /\ cdf.ready
  /\ cdf' = [cdf EXCEPT !.waits = FALSE, !.ready = FALSE]
  /\ cdfSub' = [cdfSub EXCEPT !.pc = "loop"]
  /\ UNCHANGED <<cdfHw, cdfWorks, cdfGhost>>

CdfSilent == ~cdf.ready /\ cdfHw.fifo = <<>> /\ ~cdfHw.gen /\ ~cdfHw.done
             /\ \A x \in DOMAIN cdfWorks : cdfWorks[x].done => cdfWorks[x].gen

CdfTimeout ==
  /\ cdfSub.pc = "wait" /\ ~cdf.ready
  /\ CdfMay(~CdfSilent) /\ cdfGhost' = CdfSpent(cdfGhost, ~CdfSilent)
  /\ cdf' = [cdf EXCEPT !.waits = FALSE]
  /\ CdfFail
  /\ UNCHANGED <<cdfHw, cdfWorks>>

CdfWorkStep == \E x \in DOMAIN cdfWorks : CdfWork(x) \/ CdfErrorWork(x) \/ CdfErrorEnd(x)

CdfNext ==
  \/ \E n \in CdfCounts : CdfSubmit(n)
  \/ CdfLoop \/ CdfWake \/ CdfTimeout
  \/ CdfRun \/ CdfIrq \/ CdfWorkStep
  \/ \E e \in {"inv", "ahb"} : CdfErrorIrq(e)

CdfSpec == CdfInit /\ [][CdfNext]_cdfVars

-----------------------------------------------------------------------------
(* cam_hw_cdm_submit_gen_irq writes its command into the slot of its tag,   *)
(* in memory for CdfSize slots: the tag stays inside at every wrap, whatever *)
(* the sizes of the requests that brought it there.                         *)
CdfSlots == \A k \in DOMAIN cdf.list : cdf.list[k].tag < CdfSize

(* The FIFO overflows only when a request found room for some and not all   *)
(* of its BLs: the count it then writes without looking again is what does  *)
(* not fit, not what fits.                                                  *)
CdfFits == cdfGhost.over => cdfGhost.part

(* A client is told that its BLs were executed only after they were, unless *)
(* a work item overtook an older one: the older then finds no node of its   *)
(* tag, or a later request under the same tag, and answers too many.        *)
CdfHonest == cdfGhost.told \subseteq cdfGhost.ran \/ cdfGhost.passed

(* Nothing is forgotten: when hardware, interrupts and work items are       *)
(* through, every accepted request with a callback has had it, also those   *)
(* whose interrupts were merged into one. Only if the tags go round while a *)
(* callback waits is one tag on the list twice, and a merged interrupt then *)
(* answers only up to the first.                                            *)
CdfAnswered ==
  cdfHw.fifo = <<>> /\ ~cdfHw.gen /\ cdfWorks = <<>> /\ CdfUnlocked
    => cdfGhost.owed \subseteq cdfGhost.told \/ cdfGhost.twice

-----------------------------------------------------------------------------
(***************************************************************************)
(* The clients of a hardware CDM: acquire, stream on, submit, stream off   *)
(* and release (cam_cdm_intf.c, cam_cdm_core_common.c), the power of the   *)
(* hardware they share, and the callbacks that may outlive them. An owner  *)
(* makes one call at a time; calls of different owners interleave where    *)
(* hw_mutex is not held.                                                   *)
(***************************************************************************)

CONSTANTS CdcOwners,  \* drivers that use the CDM
          CdcSlots,   \* client slots (CAM_PER_CDM_MAX_REGISTERED_CLIENTS)
          CdcFaults,  \* failing hardware calls
          CdcNodes    \* callbacks pending at a time

VARIABLES cdcSlot,   \* core->clients: NULL or refcount, stream_on and owner
          cdcCall,   \* where an owner is, and the slot its handle names
          cdcHw,     \* open_count and what stream on turned on
          cdcMgr,    \* cdm_mgr.refcount
          cdcNode,   \* callbacks pending: the slot in the handle, who asked
          cdcGhost   \* budget and history

cdcVars == <<cdcSlot, cdcCall, cdcHw, cdcMgr, cdcNode, cdcGhost>>

ASSUME CdcOwnerAssumption == 0 \notin CdcOwners

CdcNone == 0
CdcNull == [own |-> CdcNone, ref |-> 0, on |-> FALSE]
CdcOut == [pc |-> "out", slot |-> CdcNone]

CdcInit ==
  /\ cdcSlot = [s \in CdcSlots |-> CdcNull]
  /\ cdcCall = [o \in CdcOwners |-> CdcOut]
  /\ cdcHw = [open |-> 0, soc |-> FALSE, cpas |-> FALSE, mem |-> FALSE]
  /\ cdcMgr = 0
  /\ cdcNode = {}
  /\ cdcGhost = [left |-> CdcFaults, stuck |-> FALSE, outlived |-> FALSE, wrong |-> FALSE]

CdcFault(bad) ==
  /\ (bad => cdcGhost.left > 0)
  /\ cdcGhost' = [cdcGhost EXCEPT !.left = IF bad THEN @ - 1 ELSE @]

CdcAt(o, pc) == cdcCall[o].pc = pc
CdcGo(o, pc) == cdcCall' = [cdcCall EXCEPT ![o].pc = pc]

-----------------------------------------------------------------------------
CdcGet(c) == [c EXCEPT !.ref = @ + 1]

(* Acquire: the slot is taken under hw_mutex, and filled in without it.     *)
CdcAcquire(o, s) ==
  /\ CdcAt(o, "out") /\ cdcSlot[s] = CdcNull
  /\ cdcSlot' = [cdcSlot EXCEPT ![s] = [own |-> o, ref |-> 0, on |-> FALSE]]
  /\ cdcCall' = [cdcCall EXCEPT ![o] = [pc |-> "acquire", slot |-> s]]
  /\ cdcMgr' = cdcMgr + 1
  /\ UNCHANGED <<cdcHw, cdcNode, cdcGhost>>

CdcAcquireEnd(o) ==
  /\ CdcAt(o, "acquire")
  /\ cdcSlot' = [cdcSlot EXCEPT ![cdcCall[o].slot] = CdcGet(@)]
  /\ CdcGo(o, "held")
  /\ UNCHANGED <<cdcHw, cdcMgr, cdcNode, cdcGhost>>

(* Every call on a handle takes a reference on the client and the manager. *)
CdcPut(c) == [c EXCEPT !.ref = IF @ > 0 THEN @ - 1 ELSE @]

CdcEnter(o, pc) ==
  /\ CdcAt(o, "held")
  /\ LET c == cdcSlot[cdcCall[o].slot]
     IN  IF pc = "on" THEN ~c.on ELSE c.on
  /\ cdcSlot' = [cdcSlot EXCEPT ![cdcCall[o].slot] = CdcGet(@)]
  /\ cdcMgr' = cdcMgr + 1
  /\ CdcGo(o, pc)
  /\ UNCHANGED <<cdcHw, cdcNode, cdcGhost>>

CdcLeave(o, on) ==
  LET s == cdcCall[o].slot
  IN  /\ cdcSlot' = [cdcSlot EXCEPT ![s] = CdcPut([@ EXCEPT !.on = on])]
      /\ cdcMgr' = cdcMgr - 1
      /\ CdcGo(o, "held")

(* A call the state of the client refuses gives its references back.        *)
CdcRefused(o, on) ==
  /\ CdcAt(o, "held") /\ cdcSlot[cdcCall[o].slot].on = on
  /\ cdcSlot' = [cdcSlot EXCEPT ![cdcCall[o].slot] = CdcPut(CdcGet(@))]
  /\ UNCHANGED <<cdcCall, cdcHw, cdcMgr, cdcNode, cdcGhost>>

-----------------------------------------------------------------------------
CdcOffHw == [open |-> 0, soc |-> FALSE, cpas |-> FALSE, mem |-> FALSE]

(* What stream on leaves of the hardware when the step f fails; cpas_start  *)
(* fails if the last stream off left the CPAS client started.               *)
CdcUpOk(f) == cdcHw.open > 0 \/ (f = "ok" /\ ~cdcHw.cpas)

CdcUp(f) ==
  IF cdcHw.open > 0 THEN [cdcHw EXCEPT !.open = @ + 1]
  ELSE CASE f = "ok" /\ ~cdcHw.cpas -> [open |-> 1, soc |-> TRUE, cpas |-> TRUE, mem |-> TRUE]
         [] f = "soc" -> cdcHw
         [] OTHER -> [cdcHw EXCEPT !.soc = FALSE]

CdcOn(o, f) ==
  /\ CdcAt(o, "on")
  /\ (cdcHw.open > 0 => f = "ok")
  /\ cdcHw' = CdcUp(f)
  /\ CdcLeave(o, CdcUpOk(f))
  /\ CdcFault(f # "ok")
  /\ UNCHANGED cdcNode

(* The last stream off turns the hardware off; if that fails the client     *)
(* stays streamed on with open_count already taken back.                    *)
CdcDown(f) ==
  CASE cdcHw.open > 1 \/ cdcHw.open = 0 -> [cdcHw EXCEPT !.open = IF @ = 0 THEN 0 ELSE @ - 1]
    [] cdcHw.open = 1 /\ f = "deinit" -> [cdcHw EXCEPT !.open = 0, !.mem = FALSE]
    [] OTHER -> [CdcOffHw EXCEPT !.cpas = f = "cpas"]

CdcOff(o, f) ==
  /\ CdcAt(o, "off")
  /\ (cdcHw.open # 1 => f = "ok")
  /\ cdcHw' = CdcDown(f)
  /\ CdcLeave(o, cdcHw.open = 0 \/ f = "deinit")
  /\ (f # "ok" => cdcGhost.left > 0)
  /\ cdcGhost' = [cdcGhost EXCEPT !.left = IF f # "ok" THEN @ - 1 ELSE @,
                                  !.stuck = @ \/ f # "ok"]
  /\ UNCHANGED cdcNode

-----------------------------------------------------------------------------
(* Submit, seen from the client: a callback is pending afterwards.          *)
CdcSubmit(o) ==
  /\ CdcAt(o, "submit")
  /\ cdcNode' = cdcNode \cup {[slot |-> cdcCall[o].slot, own |-> o]}
  /\ CdcLeave(o, cdcSlot[cdcCall[o].slot].on)
  /\ UNCHANGED <<cdcHw, cdcGhost>>

(* cam_cdm_notify_clients under hw_mutex: the handle is a slot number, so   *)
(* it is taken for that of whoever has the slot now.                        *)
CdcNotify(n) ==
  /\ n \in cdcNode
  /\ cdcNode' = cdcNode \ {n}
  /\ cdcGhost' = [cdcGhost EXCEPT !.wrong = @ \/ cdcSlot[n.slot].own \notin {CdcNone, n.own}]
  /\ UNCHANGED <<cdcSlot, cdcCall, cdcHw, cdcMgr>>

(* Release, all under hw_mutex. An owner streams off first; if that left    *)
(* the client streamed on it releases all the same.                         *)
CdcFree(o) == [cdcSlot EXCEPT ![cdcCall[o].slot] = CdcPut(@)]

CdcRelease(o) ==
  LET s == cdcCall[o].slot
      p == CdcFree(o)
  IN  /\ CdcAt(o, "held") /\ (cdcSlot[s].on => cdcGhost.stuck)
      /\ IF p[s].ref # 0
         THEN cdcSlot' = p /\ UNCHANGED <<cdcCall, cdcMgr, cdcGhost>>
         ELSE /\ cdcSlot' = [cdcSlot EXCEPT ![s] = CdcNull]
              /\ cdcCall' = [cdcCall EXCEPT ![o] = CdcOut]
              /\ cdcMgr' = cdcMgr - 1
              /\ cdcGhost' = [cdcGhost EXCEPT !.outlived = @ \/ \E n \in cdcNode : n.own = o /\ n.slot = s]
      /\ UNCHANGED <<cdcHw, cdcNode>>

CdcNext ==
  \/ \E o \in CdcOwners :
       \/ \E s \in CdcSlots : CdcAcquire(o, s)
       \/ CdcAcquireEnd(o) \/ CdcSubmit(o) \/ CdcRelease(o)
       \/ \E pc \in {"on", "off"} : CdcEnter(o, pc)
       \/ Cardinality(cdcNode) < CdcNodes /\ CdcEnter(o, "submit")
       \/ \E on \in BOOLEAN : CdcRefused(o, on)
       \/ \E f \in {"ok", "soc", "cpas", "init", "mem"} : CdcOn(o, f)
       \/ \E f \in {"ok", "deinit", "cpas"} : CdcOff(o, f)
  \/ \E n \in cdcNode : CdcNotify(n)

CdcSpec == CdcInit /\ [][CdcNext]_cdcVars

-----------------------------------------------------------------------------
CdcBusy(o) == cdcCall[o].pc \in {"on", "off", "submit"}

(* An acquired client has one reference, one more while its owner is in a   *)
(* call: whatever the path out of the call, release finds the count it      *)
(* needs, and a slot belongs to the owner whose handle names it.            *)
CdcRefs ==
  \A o \in CdcOwners : ~CdcAt(o, "out") =>
    LET c == cdcSlot[cdcCall[o].slot]
    IN  /\ c.own = o
        /\ c.ref = (IF CdcAt(o, "acquire") THEN 0 ELSE IF CdcBusy(o) THEN 2 ELSE 1)

(* The manager counts acquired clients and calls in flight, so it can be    *)
(* removed when no client is left.                                          *)
CdcMgrCount ==
  cdcMgr = Cardinality({o \in CdcOwners : ~CdcAt(o, "out")})
         + Cardinality({o \in CdcOwners : CdcBusy(o)})

(* open_count is the number of clients that are streamed on: the hardware   *)
(* is on while there is one, and off, with its votes and its memory given   *)
(* back, when there is none, on every path a failing step of stream on can  *)
(* take. A stream off that fails is excepted.                               *)
CdcPower ==
  ~cdcGhost.stuck =>
    /\ cdcHw.open = Cardinality({s \in CdcSlots : cdcSlot[s].on})
    /\ \A x \in {cdcHw.soc, cdcHw.cpas, cdcHw.mem} : x = (cdcHw.open > 0)

(* A callback reaches a driver that did not ask for it only if its client   *)
(* was released while the callback was pending and the slot, which is the   *)
(* whole handle, was given to another.                                      *)
CdcMine == cdcGhost.wrong => cdcGhost.outlived

\* The FIFO of the core never takes more than it holds and answers each submission
\* truthfully; the clients and the power of the core are counted exactly.
CdmSafe ==
    /\ CdfSlots /\ CdfFits /\ CdfHonest /\ CdfAnswered /\ CdcRefs /\ CdcMgrCount
    /\ CdcPower /\ CdcMine
=============================================================================
