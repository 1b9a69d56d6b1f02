------------------------------ MODULE MemTable ------------------------------
(* The buffer table of cam_mem_mgr.c: buffers allocated or imported by the    *)
(* user (alloc_and_map, map, release), buffers of kernel clients              *)
(* (request_mem, release_mem), the secure heap (reserve_memory_region,        *)
(* free_memory_region), and the cleanup on the last close.                    *)
(*                                                                            *)
(* A call is a sequence of steps of its thread: taking a slot holds the table *)
(* lock, each SMMU call the bank's, filling the slot its own lock, tearing    *)
(* down the table lock; release looks at the slot before it takes any lock.   *)
(* The SMMU is external here; CamSmmu shows what a map and an unmap do to a  *)
(* buffer: a user map takes a reference, a kernel map or the heap takes over  *)
(* the caller's, even when it fails.                                          *)
EXTENDS Integers, FiniteSets, Sequences

CONSTANTS
    MmtThreads,    \* callers
    MmtBufs,       \* dma buffers
    MmtFds,        \* file descriptors
    MmtSlots,      \* CAM_MEM_BUFQ_MAX - 1
    MmtHdls,       \* the lists of context banks a call may name
    MmtOps,        \* bound on allocations
    MmtFaults      \* bound on failing calls

VARIABLES
    mmtSlot,       \* tbl.bufq[]
    mmtBit,        \* tbl.bitmap
    mmtMap,        \* mappings in the context banks
    mmtRef,        \* references to each buffer, beside the one of its fd
    mmtFd,         \* the buffer behind each open fd, 0 when closed
    mmtCall,       \* each thread's call
    mmtHeld,       \* history: handles given out and not released
    mmtLeak,       \* history: mappings an error path left behind
    mmtOver,       \* history: buffers put once too often
    mmtAba,        \* history: a late release met a slot taken anew
    mmtOpn,        \* allocations so far
    mmtSpent

mmtVars == <<mmtSlot, mmtBit, mmtMap, mmtRef, mmtFd, mmtCall, mmtHeld, mmtLeak,
             mmtOver, mmtAba, mmtOpn, mmtSpent>>

MmtIdle == [pc |-> "idle", op |-> "none", b |-> 0, fd |-> 0, hs |-> <<>>, s |-> 0, i |-> 0]
MmtEmpty == [act |-> FALSE, b |-> 0, fd |-> 0, hs |-> <<>>, own |-> "none"]
MmtKfd == -1                                  \* ion_fd of a kernel allocation

MmtInit ==
    /\ mmtSlot = [s \in 1 .. MmtSlots |-> MmtEmpty] /\ mmtBit = {} /\ mmtMap = {}
    /\ mmtRef = [b \in MmtBufs |-> 0] /\ mmtFd = [f \in MmtFds |-> 0]
    /\ mmtCall = [t \in MmtThreads |-> MmtIdle] /\ mmtHeld = {} /\ mmtLeak = {}
    /\ mmtOver = {} /\ mmtAba = FALSE /\ mmtOpn = 0 /\ mmtSpent = 0

MmtFail(w) ==
    /\ w => mmtSpent < MmtFaults
    /\ mmtSpent' = IF w THEN mmtSpent + 1 ELSE mmtSpent

MmtFresh(b) ==
    /\ mmtRef[b] = 0 /\ b \notin mmtOver
    /\ \A f \in MmtFds : mmtFd[f] # b
    /\ \A t \in MmtThreads : mmtCall[t].b # b
MmtPut(b, n) == [mmtRef EXCEPT ![b] = @ - n]

(* A buffer put more often than it was got is gone; its count stops at 0.     *)
MmtPutOver(b) == mmtRef' = [mmtRef EXCEPT ![b] = 0] /\ mmtOver' = mmtOver \cup {b}

MmtMapOf(bank, c) == [bank |-> bank, own |-> c.op, fd |-> c.fd, b |-> c.b]
MmtBusy(t, pc) == mmtCall[t].pc = pc /\ ~mmtAba

(* cam_mem_mgr_alloc_and_map up to the slot: ion_alloc, an fd for the user,   *)
(* and the table's own reference.                                             *)
MmtAlloc(t, b, f, hs) ==
    /\ MmtBusy(t, "idle") /\ mmtOpn < MmtOps /\ MmtFresh(b) /\ mmtFd[f] = 0
    /\ mmtOpn' = mmtOpn + 1
    /\ mmtFd' = [mmtFd EXCEPT ![f] = b] /\ mmtRef' = [mmtRef EXCEPT ![b] = 1]
    /\ mmtCall' = [mmtCall EXCEPT ![t] =
          [MmtIdle EXCEPT !.pc = "slot", !.op = "user", !.b = b, !.fd = f, !.hs = hs]]
    /\ UNCHANGED <<mmtSlot, mmtBit, mmtMap, mmtHeld, mmtLeak, mmtOver, mmtAba, mmtSpent>>

(* cam_mem_mgr_map: the buffer of an open fd; the banks come before the slot. *)
MmtImport(t, f, hs) ==
    /\ MmtBusy(t, "idle") /\ mmtOpn < MmtOps /\ mmtFd[f] # 0 /\ mmtFd[f] \notin mmtOver
    /\ mmtOpn' = mmtOpn + 1
    /\ mmtRef' = [mmtRef EXCEPT ![mmtFd[f]] = @ + 1]
    /\ mmtCall' = [mmtCall EXCEPT ![t] =
          [MmtIdle EXCEPT !.pc = IF hs = <<>> THEN "slot" ELSE "map", !.op = "import",
                          !.b = mmtFd[f], !.fd = f, !.hs = hs, !.i = 1]]
    /\ UNCHANGED <<mmtSlot, mmtBit, mmtMap, mmtFd, mmtHeld, mmtLeak, mmtOver, mmtAba,
                   mmtSpent>>

(* cam_mem_mgr_request_mem and cam_mem_mgr_reserve_memory_region up to the    *)
(* slot.  When the map fails it has put the buffer; smmu_fail puts it again.  *)
MmtRequest(t, b, own) ==
    /\ MmtBusy(t, "idle") /\ mmtOpn < MmtOps /\ MmtFresh(b)
    /\ mmtOpn' = mmtOpn + 1
    /\ own = "heap" => \A m \in mmtMap : m.own # "heap"
    /\ \E w \in BOOLEAN :
         /\ MmtFail(w)
         /\ IF w THEN /\ MmtPutOver(b)
                      /\ UNCHANGED <<mmtMap, mmtCall>>
            ELSE LET c == [MmtIdle EXCEPT !.pc = "slot", !.op = own, !.b = b,
                                          !.fd = MmtKfd, !.hs = <<1>>, !.i = 2]
                 IN /\ mmtRef' = [mmtRef EXCEPT ![b] = 1]
                    /\ mmtMap' = mmtMap \cup {MmtMapOf(1, c)}
                    /\ mmtCall' = [mmtCall EXCEPT ![t] = c]
                    /\ UNCHANGED mmtOver
    /\ UNCHANGED <<mmtSlot, mmtBit, mmtFd, mmtHeld, mmtLeak, mmtAba>>

(* No free slot.  alloc_and_map puts its buffer, map its own and leaves the   *)
(* mappings, the kernel calls unmap (which puts) and put once more.           *)
MmtNoSlot(t, c) ==
    LET mine == {m \in mmtMap : m.fd = c.fd /\ m.b = c.b /\ m.own = c.op}
    IN /\ CASE c.op = "user" ->
                 mmtRef' = MmtPut(c.b, 1) /\ UNCHANGED <<mmtMap, mmtLeak, mmtOver>>
            [] c.op = "import" ->
                 /\ mmtRef' = MmtPut(c.b, 1) /\ mmtLeak' = mmtLeak \cup mine
                 /\ UNCHANGED <<mmtMap, mmtOver>>
            [] OTHER ->
                 MmtPutOver(c.b) /\ mmtMap' = mmtMap \ mine /\ UNCHANGED mmtLeak
       /\ mmtCall' = [mmtCall EXCEPT ![t] = MmtIdle]
       /\ UNCHANGED <<mmtSlot, mmtBit>>

(* Mutant: a slot counts as free while its buffer is not filled in.           *)
MmtGetSlotByFlag(t) ==
    /\ MmtBusy(t, "slot")
    /\ LET c == mmtCall[t]
           free == {s \in 1 .. MmtSlots : mmtSlot[s].b = 0}
       IN IF free = {} THEN MmtNoSlot(t, c)
          ELSE LET s == CHOOSE s \in free : \A x \in free : s <= x
               IN /\ mmtBit' = mmtBit \cup {s}
                  /\ mmtSlot' = [mmtSlot EXCEPT ![s].act = TRUE]
                  /\ mmtCall' = [mmtCall EXCEPT ![t] =
                        [c EXCEPT !.s = s, !.i = IF c.i = 0 THEN 1 ELSE c.i,
                                  !.pc = IF c.op = "user" /\ c.hs # <<>> THEN "map" ELSE "fill"]]
                  /\ UNCHANGED <<mmtMap, mmtRef, mmtLeak, mmtOver>>
    /\ UNCHANGED <<mmtFd, mmtHeld, mmtAba, mmtOpn, mmtSpent>>

(* cam_mem_get_slot: the first clear bit; active before it is filled.         *)
MmtGetSlot(t) ==
    /\ MmtBusy(t, "slot")
    /\ LET c == mmtCall[t]
           free == (1 .. MmtSlots) \ mmtBit
       IN IF free = {} THEN MmtNoSlot(t, c)
          ELSE LET s == CHOOSE s \in free : \A x \in free : s <= x
               IN /\ mmtBit' = mmtBit \cup {s}
                  /\ mmtSlot' = [mmtSlot EXCEPT ![s].act = TRUE]
                  /\ mmtCall' = [mmtCall EXCEPT ![t] =
                        [c EXCEPT !.s = s, !.i = IF c.i = 0 THEN 1 ELSE c.i,
                                  !.pc = IF c.op = "user" /\ c.hs # <<>> THEN "map" ELSE "fill"]]
                  /\ UNCHANGED <<mmtMap, mmtRef, mmtLeak, mmtOver>>
    /\ UNCHANGED <<mmtFd, mmtHeld, mmtAba, mmtOpn, mmtSpent>>

(* The failure of one bank in cam_mem_util_map_hw_va: the loop                *)
(* `for (--i; i > 0; i--)` undoes the banks mapped before, but for the first; *)
(* then the slot, if there is one, and the buffer go back.                    *)
MmtMapFailed(t, c) ==
    LET done == {m \in mmtMap : \E k \in 1 .. c.i - 1 : m = MmtMapOf(c.hs[k], c)}
        undone == {m \in done : m.bank # c.hs[1]}
    IN /\ mmtMap' = mmtMap \ undone
       /\ mmtLeak' = mmtLeak \cup (done \ undone)
       /\ mmtRef' = MmtPut(c.b, 1 + Cardinality(undone))
       /\ IF c.s = 0 THEN UNCHANGED <<mmtSlot, mmtBit>>
          ELSE mmtSlot' = [mmtSlot EXCEPT ![c.s].act = FALSE] /\ mmtBit' = mmtBit \ {c.s}
       /\ mmtCall' = [mmtCall EXCEPT ![t] = MmtIdle]

(* One turn of cam_mem_util_map_hw_va: an fd the bank already knows fails.    *)
MmtMapBank(t) ==
    /\ MmtBusy(t, "map")
    /\ LET c == mmtCall[t]
           known == \E m \in mmtMap : m.bank = c.hs[c.i] /\ m.fd = c.fd
           last == c.i = Len(c.hs)
       IN \E w \in BOOLEAN :
            /\ (~known \/ ~w) /\ MmtFail(w)
            /\ IF known \/ w THEN MmtMapFailed(t, c)
               ELSE /\ mmtMap' = mmtMap \cup {MmtMapOf(c.hs[c.i], c)}
                    /\ mmtRef' = [mmtRef EXCEPT ![c.b] = @ + 1]
                    /\ mmtCall' = [mmtCall EXCEPT ![t] =
                          [c EXCEPT !.i = @ + 1,
                                    !.pc = IF ~last THEN "map"
                                           ELSE IF c.s = 0 THEN "slot" ELSE "fill"]]
                    /\ UNCHANGED <<mmtSlot, mmtBit, mmtLeak>>
    /\ UNCHANGED <<mmtFd, mmtHeld, mmtOver, mmtAba, mmtOpn>>

(* The slot is filled.  In alloc_and_map the CPU mapping may fail here: slot  *)
(* and buffer go back, the banks' mappings do not.                            *)
MmtFill(t) ==
    /\ MmtBusy(t, "fill")
    /\ LET c == mmtCall[t]
           mine == {m \in mmtMap : m.fd = c.fd /\ m.b = c.b /\ m.own = c.op}
       IN \E w \in BOOLEAN :
            /\ (w => c.op = "user") /\ MmtFail(w)
            /\ IF w
               THEN /\ mmtSlot' = [mmtSlot EXCEPT ![c.s] = [MmtEmpty EXCEPT !.fd = c.fd]]
                    /\ mmtBit' = mmtBit \ {c.s} /\ mmtRef' = MmtPut(c.b, 1)
                    /\ mmtLeak' = mmtLeak \cup mine /\ UNCHANGED mmtHeld
               ELSE /\ mmtSlot' = [mmtSlot EXCEPT ![c.s] =
                          [act |-> @.act, b |-> c.b, fd |-> c.fd, hs |-> c.hs, own |-> c.op]]
                    /\ mmtHeld' = mmtHeld \cup {<<c.s, c.fd>>}
                    /\ UNCHANGED <<mmtBit, mmtRef, mmtLeak>>
    /\ mmtCall' = [mmtCall EXCEPT ![t] = MmtIdle]
    /\ UNCHANGED <<mmtMap, mmtFd, mmtOver, mmtAba, mmtOpn>>

(* cam_mem_mgr_release and cam_mem_mgr_release_mem up to the table lock: the  *)
(* slot is active and carries the handle.  A kernel client releases once;     *)
(* two user threads may release one handle.                                   *)
MmtRelease(t, h) ==
    /\ MmtBusy(t, "idle")
    /\ mmtSlot[h[1]].act /\ mmtSlot[h[1]].fd = h[2]
    /\ h[2] = MmtKfd =>
         \A u \in MmtThreads : mmtCall[u].pc = "down" => mmtCall[u].s # h[1]
    /\ mmtCall' = [mmtCall EXCEPT ![t] =
          [MmtIdle EXCEPT !.pc = "down", !.s = h[1], !.fd = h[2], !.b = mmtSlot[h[1]].b]]
    /\ UNCHANGED <<mmtSlot, mmtBit, mmtMap, mmtRef, mmtFd, mmtHeld, mmtLeak, mmtOver,
                   mmtAba, mmtOpn, mmtSpent>>

(* cam_mem_util_unmap_hw_va: the mappings of the slot's banks, found by fd    *)
(* for a user buffer; stops at the first bank that does not know it.          *)
MmtFound(sl, k) == {m \in mmtMap : m.bank = sl.hs[k] /\ m.fd = sl.fd
                                   /\ (sl.fd = MmtKfd => m.b = sl.b /\ m.own = sl.own)}
MmtUnmapped(sl) ==
    UNION {MmtFound(sl, k) : k \in {k \in 1 .. Len(sl.hs) :
                                       \A j \in 1 .. k : MmtFound(sl, j) # {}}}

(* The references cam_mem_util_unmap drops: one for each mapping, and the     *)
(* table's own for a user buffer.  For the heap the release of the mapping    *)
(* drops the only one, and dma_buf, kept because flags are 0, is put again.   *)
MmtTakeDown(s) ==
    LET sl == mmtSlot[s]
        gone == MmtUnmapped(sl)
    IN /\ mmtMap' = mmtMap \ gone
       /\ IF sl.own = "heap" THEN MmtPutOver(sl.b)
          ELSE /\ mmtRef' = [b \in MmtBufs |->
                     mmtRef[b] - Cardinality({m \in gone : m.b = b})
                               - (IF b = sl.b /\ sl.own \in {"user", "import"} THEN 1 ELSE 0)]
               /\ UNCHANGED mmtOver
       /\ mmtSlot' = [mmtSlot EXCEPT ![s] = MmtEmpty]
       /\ mmtBit' = mmtBit \ {s}

(* cam_mem_util_unmap under the table lock.  A slot that is no longer active  *)
(* is left alone; one that was taken anew meanwhile is torn down all the same *)
(* (mmtAba; the model stops there).                                           *)
MmtUnmap(t) ==
    /\ MmtBusy(t, "down")
    /\ LET c == mmtCall[t]
           same == mmtSlot[c.s].b = c.b /\ mmtSlot[c.s].fd = c.fd
       IN CASE mmtSlot[c.s].act /\ same ->
                 /\ MmtTakeDown(c.s) /\ mmtHeld' = mmtHeld \ {<<c.s, c.fd>>}
                 /\ UNCHANGED mmtAba
            [] mmtSlot[c.s].act /\ ~same ->
                 mmtAba' = TRUE
                 /\ UNCHANGED <<mmtSlot, mmtBit, mmtMap, mmtRef, mmtHeld, mmtOver>>
            [] OTHER ->
                 UNCHANGED <<mmtSlot, mmtBit, mmtMap, mmtRef, mmtHeld, mmtOver, mmtAba>>
    /\ mmtCall' = [mmtCall EXCEPT ![t] = MmtIdle]
    /\ UNCHANGED <<mmtFd, mmtLeak, mmtOpn, mmtSpent>>

(* The user closes an fd; the buffer lives on its references.                 *)
MmtClose(f) ==
    /\ mmtFd[f] # 0 /\ ~mmtAba
    /\ mmtFd' = [mmtFd EXCEPT ![f] = 0]
    /\ UNCHANGED <<mmtSlot, mmtBit, mmtMap, mmtRef, mmtCall, mmtHeld, mmtLeak, mmtOver,
                   mmtAba, mmtOpn, mmtSpent>>

(* cam_mem_mgr_deinit on the last close, and the init of the next open: every *)
(* active slot is unmapped and its buffer put.  No call is under way then,    *)
(* and the subdevices, shut down before, have released the kernel's buffers.  *)
MmtCleanup ==
    /\ ~mmtAba /\ \A t \in MmtThreads : mmtCall[t].pc = "idle"
    /\ \A s \in 1 .. MmtSlots : mmtSlot[s].act => mmtSlot[s].own \in {"user", "import"}
    /\ LET act == {s \in 1 .. MmtSlots : mmtSlot[s].act}
           gone == UNION {MmtUnmapped(mmtSlot[s]) : s \in act}
       IN /\ mmtMap' = mmtMap \ gone
          /\ mmtRef' = [b \in MmtBufs |-> mmtRef[b]
                          - Cardinality({m \in gone : m.b = b})
                          - Cardinality({s \in act : mmtSlot[s].b = b})]
    /\ mmtSlot' = [s \in 1 .. MmtSlots |-> MmtEmpty] /\ mmtBit' = {} /\ mmtHeld' = {}
    /\ UNCHANGED <<mmtFd, mmtCall, mmtLeak, mmtOver, mmtAba, mmtOpn, mmtSpent>>

MmtNext ==
    \/ \E t \in MmtThreads :
         \/ \E b \in MmtBufs, f \in MmtFds, hs \in MmtHdls : MmtAlloc(t, b, f, hs)
         \/ \E f \in MmtFds, hs \in MmtHdls : MmtImport(t, f, hs)
         \/ \E b \in MmtBufs, own \in {"kernel", "heap"} : MmtRequest(t, b, own)
         \/ MmtGetSlot(t) \/ MmtMapBank(t) \/ MmtFill(t)
         \/ \E h \in mmtHeld : MmtRelease(t, h)
         \/ MmtUnmap(t)
    \/ \E f \in MmtFds : MmtClose(f)
    \/ MmtCleanup

MmtSpec == MmtInit /\ [][MmtNext]_mmtVars

MmtUserSlot(s, b) == mmtSlot[s].b = b /\ mmtSlot[s].own \in {"user", "import"}
MmtUserCall(t, b) == mmtCall[t].b = b /\ mmtCall[t].op \in {"user", "import"}

(* The references to a buffer are those of the table, of the banks' mappings  *)
(* and of the calls under way: no order of allocations, imports, releases (of *)
(* one handle by two threads too), closed fds and failures leaks or drops     *)
(* one.  Except for buffers put twice: a kernel or heap allocation that fails *)
(* in or after its map, and every free of the heap.                           *)
MmtRefs ==
    \A b \in MmtBufs \ mmtOver :
        mmtRef[b] = Cardinality({s \in 1 .. MmtSlots : MmtUserSlot(s, b)})
                  + Cardinality({m \in mmtMap : m.b = b})
                  + Cardinality({t \in MmtThreads : MmtUserCall(t, b)})

(* A slot's bit is set exactly while it is active, and then either one call   *)
(* is filling it or it holds a buffer: two calls never share a slot.          *)
MmtOneOwner ==
    /\ mmtBit = {s \in 1 .. MmtSlots : mmtSlot[s].act}
    /\ \A s \in mmtBit :
         Cardinality({t \in MmtThreads : mmtCall[t].s = s /\ mmtCall[t].pc \in {"map", "fill"}})
           = (IF mmtSlot[s].b = 0 THEN 1 ELSE 0)

(* Every mapping in a bank belongs to a slot that names the bank, or to a     *)
(* call still under way, or was left behind on one of the error paths that    *)
(* undo too little; a cleanup leaves only those.                              *)
MmtOwned ==
    \A m \in mmtMap \ mmtLeak :
        \/ \E s \in mmtBit : /\ mmtSlot[s].b = m.b /\ mmtSlot[s].fd = m.fd
                             /\ \E k \in 1 .. Len(mmtSlot[s].hs) : mmtSlot[s].hs[k] = m.bank
        \/ \E t \in MmtThreads : mmtCall[t].b = m.b /\ mmtCall[t].fd = m.fd

(* A handle given out resolves until it is released: its slot is active and   *)
(* carries it, and each of its banks knows its fd as this buffer, also when   *)
(* the user has closed the fd and got the number again for another buffer.    *)
MmtResolves ==
    \A h \in mmtHeld :
        LET sl == mmtSlot[h[1]]
        IN /\ sl.act /\ sl.fd = h[2]
           /\ \A k \in 1 .. Len(sl.hs) : \E m \in MmtFound(sl, k) : m.b = sl.b

\* A slot of the buffer table has one owner, its mappings are counted, and a handle
\* resolves to its own buffer.
MmtSafe ==
    /\ MmtRefs /\ MmtOneOwner /\ MmtOwned /\ MmtResolves
==============================================================================
