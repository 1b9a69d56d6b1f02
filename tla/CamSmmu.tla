------------------------------ MODULE CamSmmu -------------------------------
(* One non-secure context bank of the camera SMMU driver, cam_smmu_api.c: its *)
(* handle, its attach state, the two lists of mapped buffers, the pool of the *)
(* shared region, the bitmap of the scratch region, and the three regions     *)
(* that hold one allocation each (firmware, qdss, secure heap).               *)
(*                                                                            *)
(* Every operation holds the bank's mutex from its checks to its last         *)
(* assignment, so each is one action; an action chooses where the calls into  *)
(* dma-buf, the IOMMU and the allocator fail.  A call with a handle that is   *)
(* not the bank's answers -EINVAL and changes nothing; it is no step.         *)
EXTENDS Integers, FiniteSets, Sequences

CONSTANTS
    SmmBufs,      \* dma buffers
    SmmPages,     \* pages of each buffer, a function of SmmBufs
    SmmPoolN,     \* granules of the shared region
    SmmRegionN,   \* pages of the scratch region
    SmmWord,      \* bits of a long
    SmmOpen,      \* bound on mappings at a time
    SmmOnce,      \* the regions of one allocation looked at: "fw", "qdss"
    SmmFaults     \* bound on failing calls

VARIABLES
    smmLive,      \* handle /= HANDLE_INIT
    smmAtt,       \* state = CAM_SMMU_ATTACH
    smmMaps,      \* smmu_buf_list and smmu_buf_kernel_list
    smmPool,      \* granules shared_mem_pool has handed out
    smmBits,      \* scratch_map.bitmap
    smmRef,       \* references to each buffer the bank holds
    smmDma,       \* attachments of each buffer to the bank's device
    smmReg,       \* is_fw_allocated, is_qdss_allocated, is_secheap_allocated
    smmHw,        \* address ranges the IOMMU translates
    smmLost,      \* history: ranges no list or flag accounts for
    smmSpent      \* failing calls so far

smmVars == <<smmLive, smmAtt, smmMaps, smmPool, smmBits, smmRef, smmDma,
             smmReg, smmHw, smmLost, smmSpent>>

SmmScratchBits == ((SmmRegionN + SmmWord - 1) \div SmmWord) * SmmWord
SmmSpan(base, n) == base .. base + n - 1

(* The bits of a scratch allocation: its pages and one guard page.            *)
SmmGuarded(base, n) == SmmSpan(base, n + 1)

SmmFail(where) ==
    /\ where # "ok" => smmSpent < SmmFaults
    /\ smmSpent' = IF where = "ok" THEN smmSpent ELSE smmSpent + 1

(* gen_pool_alloc: first fit.  No address is 0.                               *)
SmmFits(n) == {a \in 1 .. SmmPoolN : SmmSpan(a, n) \subseteq (1 .. SmmPoolN) \ smmPool}
SmmFirst(S) == CHOOSE a \in S : \A b \in S : a <= b

(* cam_smmu_alloc_scratch_va: bitmap_find_next_zero_area over all the bits of *)
(* the bitmap, which init_scratch_map rounds up to whole longs; aligned to    *)
(* the size when that is more than a page.                                    *)
SmmScratchFits(n) ==
    {a \in 0 .. SmmScratchBits - 1 :
        a % n = 0 /\ SmmGuarded(a, n) \subseteq (0 .. SmmScratchBits - 1) \ smmBits}

SmmInit ==
    /\ smmLive = FALSE /\ smmAtt = TRUE /\ smmMaps = {} /\ smmPool = {}
    /\ smmBits = {} /\ smmRef = [b \in SmmBufs |-> 0]
    /\ smmDma = [b \in SmmBufs |-> 0] /\ smmReg = {} /\ smmHw = {}
    /\ smmLost = [pool |-> {}, scratch |-> {}] /\ smmSpent = 0

(* cam_smmu_get_handle on a bank without one.                                 *)
SmmGetHandle ==
    /\ ~smmLive /\ smmLive' = TRUE
    /\ UNCHANGED <<smmAtt, smmMaps, smmPool, smmBits, smmRef, smmDma, smmReg,
                   smmHw, smmLost, smmSpent>>

(* cam_smmu_ops.  A mapping is never looked at.                               *)
SmmOps ==
    /\ smmLive
    /\ \E w \in {"ok", "attach"} :
         /\ SmmFail(w)
         /\ smmAtt' = (~smmAtt /\ w = "ok")
         /\ w # "ok" => ~smmAtt
    /\ UNCHANGED <<smmLive, smmMaps, smmPool, smmBits, smmRef, smmDma, smmReg, smmHw,
                   smmLost>>

(* cam_smmu_map_buffer_validate once the table is mapped.  iommu_map_sg       *)
(* answers a size: 0 is its failure, which `size < 0` never sees; the check   *)
(* of the mapped length catches it, and then frees 0 bytes of the pool.       *)
SmmMapShared(m, w) ==
    IF SmmFits(m.len) = {}
    THEN w = "ok" /\ UNCHANGED <<smmMaps, smmPool, smmRef, smmDma, smmHw, smmLost>>
    ELSE LET base == SmmFirst(SmmFits(m.len))
             range == SmmSpan(base, m.len)
         IN CASE w = "ok" ->
                   /\ smmMaps' = smmMaps \cup {[m EXCEPT !.base = base]}
                   /\ smmPool' = smmPool \cup range
                   /\ smmRef' = [smmRef EXCEPT ![m.buf] = @ + 1]
                   /\ smmDma' = [smmDma EXCEPT ![m.buf] = @ + 1]
                   /\ smmHw' = smmHw \cup {<<"shared", a>> : a \in range}
                   /\ UNCHANGED smmLost
              [] w = "sg" ->
                   /\ smmPool' = smmPool \cup range
                   /\ smmLost' = [smmLost EXCEPT !.pool = @ \cup range]
                   /\ UNCHANGED <<smmMaps, smmRef, smmDma, smmHw>>
              [] w \in {"attach", "alloc"} ->
                   UNCHANGED <<smmMaps, smmPool, smmRef, smmDma, smmHw, smmLost>>

SmmMapIo(m, w) ==
    /\ w # "sg"
    /\ smmMaps' = IF w = "ok" THEN smmMaps \cup {m} ELSE smmMaps
    /\ smmRef' = [smmRef EXCEPT ![m.buf] = IF w = "ok" THEN @ + 1 ELSE @]
    /\ smmDma' = [smmDma EXCEPT ![m.buf] = IF w = "ok" THEN @ + 1 ELSE @]
    /\ UNCHANGED <<smmPool, smmHw, smmLost>>

(* cam_smmu_map_user_iova and cam_smmu_map_kernel_iova.  A user mapping takes *)
(* a reference of its own (dma_buf_get); a kernel mapping takes over the      *)
(* caller's.  Either is put back on every error path.                         *)
SmmMap(list, b, reg) ==
    /\ smmLive /\ smmAtt /\ Cardinality(smmMaps) < SmmOpen
    /\ ~\E m \in smmMaps : m.list = list /\ m.buf = b
    /\ \E w \in {"ok", "attach", "sg", "alloc"} :
         LET m == [list |-> list, buf |-> b, reg |-> reg, base |-> 0, len |-> SmmPages[b]]
         IN /\ SmmFail(w)
            /\ IF reg = "shared" THEN SmmMapShared(m, w) ELSE SmmMapIo(m, w)
    /\ UNCHANGED <<smmLive, smmAtt, smmBits, smmReg>>

(* cam_smmu_unmap_buf_and_remove_from_list over a set of mappings: one for    *)
(* unmap_user_iova and unmap_kernel_iova, all of them for destroy_handle.     *)
(* cam_smmu_free_iova refuses when the bank has no handle.                    *)
SmmBufMaps(M) == {m \in M : m.reg # "scratch"}
SmmPoolOf(M) == UNION {SmmSpan(m.base, m.len) : m \in {x \in M : x.reg = "shared"}}
SmmScratchOf(M) == UNION {SmmGuarded(m.base, m.len) : m \in {x \in M : x.reg = "scratch"}}
SmmHwOf(M) ==
    {<<"shared", a>> : a \in SmmPoolOf(M)}
    \cup {<<"scratch", a>> :
            a \in UNION {SmmSpan(m.base, m.len) : m \in {x \in M : x.reg = "scratch"}}}
SmmCountOf(M, b) == Cardinality({m \in SmmBufMaps(M) : m.buf = b})

SmmRemove(M) ==
    /\ smmMaps' = smmMaps \ M
    /\ smmPool' = smmPool \ SmmPoolOf(M)
    /\ smmBits' = smmBits \ SmmScratchOf(M)
    /\ smmHw' = smmHw \ SmmHwOf(M)
    /\ smmRef' = [b \in SmmBufs |-> smmRef[b] - SmmCountOf(M, b)]
    /\ smmDma' = [b \in SmmBufs |-> smmDma[b] - SmmCountOf(M, b)]

SmmUnmap(m) ==
    /\ smmLive /\ m.reg # "scratch"
    /\ SmmRemove({m})
    /\ UNCHANGED <<smmLive, smmAtt, smmReg, smmLost, smmSpent>>

(* cam_smmu_get_scratch_iova.  The bits stay set when the mapping fails after *)
(* alloc_scratch_va.  (When it is map_sg that fails, rc is still 0.)          *)
SmmScratchGet(n) ==
    /\ smmLive /\ smmAtt /\ Cardinality(smmMaps) < SmmOpen /\ SmmScratchFits(n) # {}
    /\ LET base == SmmFirst(SmmScratchFits(n))
           m == [list |-> "user", buf |-> 0, reg |-> "scratch", base |-> base, len |-> n]
       IN /\ smmBits' = smmBits \cup SmmGuarded(base, n)
          /\ \E w \in {"ok", "sg", "alloc"} :
               /\ SmmFail(w)
               /\ smmMaps' = IF w = "ok" THEN smmMaps \cup {m} ELSE smmMaps
               /\ smmHw' = IF w = "ok" THEN smmHw \cup SmmHwOf({m}) ELSE smmHw
               /\ smmLost' = IF w = "ok" THEN smmLost
                             ELSE [smmLost EXCEPT !.scratch = @ \cup SmmGuarded(base, n)]
    /\ UNCHANGED <<smmLive, smmAtt, smmPool, smmRef, smmDma, smmReg>>

SmmScratchPut(m) ==
    /\ smmLive /\ m.reg = "scratch"
    /\ SmmRemove({m})
    /\ UNCHANGED <<smmLive, smmAtt, smmReg, smmLost, smmSpent>>

(* cam_smmu_alloc_firmware, cam_smmu_alloc_qdss: no check of the handle.  A   *)
(* failing reservation or mapping is undone.                                  *)
SmmRegionAlloc(r) ==
    /\ r \notin smmReg
    /\ \E w \in {"ok", "map"} :
         /\ SmmFail(w)
         /\ smmReg' = IF w = "ok" THEN smmReg \cup {r} ELSE smmReg
         /\ smmHw' = IF w = "ok" THEN smmHw \cup {<<r, 0>>} ELSE smmHw
    /\ UNCHANGED <<smmLive, smmAtt, smmMaps, smmPool, smmBits, smmRef, smmDma, smmLost>>

SmmRegionFree(r) ==
    /\ r \in smmReg
    /\ smmReg' = smmReg \ {r} /\ smmHw' = smmHw \ {<<r, 0>>}
    /\ UNCHANGED <<smmLive, smmAtt, smmMaps, smmPool, smmBits, smmRef, smmDma, smmLost,
                   smmSpent>>

(* cam_smmu_reserve_sec_heap, cam_smmu_release_sec_heap: the caller's         *)
(* reference is put on every error path, and by the release.  The heap's      *)
(* buffer is remembered as a mapping of the region.                           *)
SmmHeapReserve(b) ==
    /\ "heap" \notin smmReg
    /\ \E w \in {"ok", "attach", "sg"} :
         /\ SmmFail(w)
         /\ IF w = "ok"
            THEN /\ smmReg' = smmReg \cup {"heap"} /\ smmHw' = smmHw \cup {<<"heap", b>>}
                 /\ smmRef' = [smmRef EXCEPT ![b] = @ + 1]
                 /\ smmDma' = [smmDma EXCEPT ![b] = @ + 1]
            ELSE UNCHANGED <<smmReg, smmHw, smmRef, smmDma>>
    /\ UNCHANGED <<smmLive, smmAtt, smmMaps, smmPool, smmBits, smmLost>>

SmmHeapRelease ==
    /\ "heap" \in smmReg
    /\ \E b \in SmmBufs :
         /\ <<"heap", b>> \in smmHw
         /\ smmReg' = smmReg \ {"heap"} /\ smmHw' = smmHw \ {<<"heap", b>>}
         /\ smmRef' = [smmRef EXCEPT ![b] = @ - 1]
         /\ smmDma' = [smmDma EXCEPT ![b] = @ - 1]
    /\ UNCHANGED <<smmLive, smmAtt, smmMaps, smmPool, smmBits, smmLost, smmSpent>>

(* Mutant: the handle is cleared first, so cam_smmu_free_iova refuses.        *)
SmmDestroyEarly ==
    /\ smmLive /\ smmLive' = FALSE
    /\ smmMaps' = {} /\ smmBits' = smmBits \ SmmScratchOf(smmMaps)
    /\ smmHw' = smmHw \ SmmHwOf(smmMaps)
    /\ smmRef' = [b \in SmmBufs |-> smmRef[b] - SmmCountOf(smmMaps, b)]
    /\ smmDma' = [b \in SmmBufs |-> smmDma[b] - SmmCountOf(smmMaps, b)]
    /\ UNCHANGED <<smmAtt, smmPool, smmReg, smmLost, smmSpent>>

(* cam_smmu_destroy_handle: both lists are cleaned while the bank still has   *)
(* its handle, then the handle goes.  The attach state and the three regions  *)
(* stay as they are.                                                          *)
SmmDestroy ==
    /\ smmLive /\ SmmRemove(smmMaps) /\ smmLive' = FALSE
    /\ UNCHANGED <<smmAtt, smmReg, smmLost, smmSpent>>

SmmNext ==
    \/ SmmGetHandle \/ SmmOps \/ SmmDestroy
    \/ \E l \in {"user", "kernel"}, b \in SmmBufs, r \in {"io", "shared"} : SmmMap(l, b, r)
    \/ \E m \in smmMaps : SmmUnmap(m) \/ SmmScratchPut(m)
    \/ \E n \in {1, 2} : SmmScratchGet(n)
    \/ \E r \in SmmOnce : SmmRegionAlloc(r) \/ SmmRegionFree(r)
    \/ \E b \in SmmBufs : SmmHeapReserve(b)
    \/ SmmHeapRelease

SmmSpec == SmmInit /\ [][SmmNext]_smmVars

(* Every reference and every attachment the bank holds on a buffer belongs to *)
(* one entry of its lists or to the secure heap, on every error path of map   *)
(* and after destroy_handle: map_kernel_iova and reserve_sec_heap consume the *)
(* caller's reference whether or not they succeed.                            *)
SmmRefs ==
    \A b \in SmmBufs :
        /\ smmRef[b] = SmmCountOf(smmMaps, b) + (IF <<"heap", b>> \in smmHw THEN 1 ELSE 0)
        /\ smmDma[b] = smmRef[b]

(* The shared pool and the scratch bitmap hold exactly what the lists own,    *)
(* and the ranges lost where map_sg answers 0 in the shared region or a       *)
(* scratch mapping fails after its address was taken; nothing else leaks.     *)
SmmRanges ==
    /\ smmPool = SmmPoolOf(smmMaps) \cup smmLost.pool
    /\ smmBits = SmmScratchOf(smmMaps) \cup smmLost.scratch

(* No two mappings share an address, and between two scratch mappings there   *)
(* is always a page nobody maps (the guard of cam_smmu_alloc_scratch_va), so  *)
(* that freeing one never frees part of another.                              *)
SmmApart ==
    \A m, k \in smmMaps :
        (m # k /\ m.reg = k.reg) =>
            CASE m.reg = "shared" ->
                   SmmSpan(m.base, m.len) \cap SmmSpan(k.base, k.len) = {}
              [] m.reg = "scratch" ->
                   SmmGuarded(m.base, m.len) \cap SmmGuarded(k.base, k.len) = {}
              [] OTHER -> m.buf = k.buf => m.list # k.list

(* The IOMMU translates the ranges of the shared and scratch mappings and of  *)
(* the regions whose flag is set, and nothing else: no error path, unmap or   *)
(* destroy_handle leaves a translation behind, or removes a live one.         *)
SmmTranslated ==
    /\ smmHw = SmmHwOf(smmMaps) \cup {<<r, 0>> : r \in smmReg \ {"heap"}}
                \cup (smmHw \cap {<<"heap", b>> : b \in SmmBufs})
    /\ Cardinality(smmHw \cap {<<"heap", b>> : b \in SmmBufs})
         = (IF "heap" \in smmReg THEN 1 ELSE 0)

(* A bank without a handle has no mapping: nothing a client mapped outlives   *)
(* destroy_handle to be found by the client that gets the next handle.        *)
SmmNoneLeft == ~smmLive => smmMaps = {}

-----------------------------------------------------------------------------
(* The clients of a context bank in cam_smmu_api.c: the table of page fault   *)
(* handlers of the bank, the work that calls them, and the bank for secure    *)
(* buffers, whose one handle and whose mappings several drivers share.        *)
(*                                                                            *)
(* Registration holds the bank's mutex.  The fault path does not: it walks    *)
(* the handlers while clients come and go, one slot a step.                   *)

CONSTANTS
    SmcToks,     \* clients, by the token they register with
    SmcCbMax,    \* CAM_SMMU_CB_MAX
    SmcPfMax,    \* g_num_pf_handled
    SmcFds,      \* secure buffers
    SmcUses,     \* bound on a client's maps of one secure buffer
    SmcFaults    \* bound on failing calls

VARIABLES
    smcLive,     \* the bank has a handle
    smcTok,      \* token[] and handler[], 0 where NULL
    smcCnt,      \* cb_count
    smcIn,       \* history: clients that registered and did not leave since
    smcStale,    \* history: a handle was destroyed with handlers in the table
    smcPf,       \* pf_count
    smcWork,     \* the fault work: slot to look at next, 0 when idle
    smcTold,     \* history: clients this fault was told to, and how often
    smcStay,     \* history: clients registered since this fault came
    smcSec,      \* the secure bank: secure_count
    smcMap,      \* ref_count of each secure mapping, 0 when there is none
    smcOwe,      \* history: secure maps the clients have not undone
    smcRef,      \* buffer references and attachments the secure bank holds
    smcSpent

smcFaultVars == <<smcLive, smcTok, smcCnt, smcIn, smcStale, smcPf, smcWork, smcTold,
                  smcStay>>
smcSecVars == <<smcSec, smcMap, smcOwe, smcRef, smcSpent>>
smcVars == <<smcLive, smcTok, smcCnt, smcIn, smcStale, smcPf, smcWork, smcTold,
             smcStay, smcSec, smcMap, smcOwe, smcRef, smcSpent>>

SmcInit ==
    /\ smcLive = FALSE /\ smcTok = [i \in 1 .. SmcCbMax |-> 0] /\ smcCnt = 0
    /\ smcIn = {} /\ smcStale = FALSE /\ smcPf = 0 /\ smcWork = 0
    /\ smcTold = [t \in SmcToks |-> 0] /\ smcStay = {}
    /\ smcSec = 0 /\ smcMap = [f \in SmcFds |-> 0] /\ smcOwe = [f \in SmcFds |-> 0]
    /\ smcRef = [f \in SmcFds |-> [buf |-> 0, att |-> 0]] /\ smcSpent = 0

(* cam_smmu_create_add_handle_in_table, the part the clients see.             *)
SmcCreate ==
    /\ ~smcLive /\ smcLive' = TRUE /\ smcCnt' = 0
    /\ UNCHANGED <<smcTok, smcIn, smcStale, smcPf, smcWork, smcTold, smcStay>>
    /\ UNCHANGED smcSecVars

(* cam_smmu_set_client_page_fault_handler with a handler: the count first,    *)
(* then the first empty slot among the first cb_count.                        *)
SmcSet(t) ==
    /\ smcLive /\ t \notin smcIn /\ smcCnt < SmcCbMax
    /\ smcCnt' = smcCnt + 1 /\ smcIn' = smcIn \cup {t}
    /\ LET free == {i \in 1 .. smcCnt + 1 : smcTok[i] = 0}
       IN smcTok' = IF free = {} THEN smcTok
                    ELSE [smcTok EXCEPT ![CHOOSE i \in free : \A j \in free : i <= j] = t]
    /\ UNCHANGED <<smcLive, smcStale, smcPf, smcWork, smcTold, smcStay>>
    /\ UNCHANGED smcSecVars

(* cam_smmu_unset_client_page_fault_handler, and set with no handler.         *)
SmcUnset(t) ==
    /\ smcLive /\ \E i \in 1 .. SmcCbMax : smcTok[i] = t
    /\ LET i == CHOOSE i \in 1 .. SmcCbMax :
                    smcTok[i] = t /\ \A j \in 1 .. i - 1 : smcTok[j] # t
       IN smcTok' = [smcTok EXCEPT ![i] = 0]
    /\ smcCnt' = smcCnt - 1
    /\ smcIn' = smcIn \ {t} /\ smcStay' = smcStay \ {t}
    /\ UNCHANGED <<smcLive, smcStale, smcPf, smcWork, smcTold>>
    /\ UNCHANGED smcSecVars

(* cam_smmu_destroy_handle, the part the clients see: the count is cleared,   *)
(* the table is not.  A client that unsets later has a handle that no longer  *)
(* matches.                                                                   *)
SmcDestroy ==
    /\ smcLive /\ smcLive' = FALSE /\ smcCnt' = 0
    /\ smcStale' = (smcStale \/ \E i \in 1 .. SmcCbMax : smcTok[i] # 0)
    /\ smcIn' = {} /\ smcStay' = {}
    /\ UNCHANGED <<smcTok, smcPf, smcWork, smcTold>>
    /\ UNCHANGED smcSecVars

(* cam_smmu_iommu_fault_handler: the first faults queue a payload and run the *)
(* work themselves; later ones are dropped.  pf_count stops at its bound.     *)
SmcFault ==
    /\ smcWork = 0 /\ smcPf < SmcPfMax
    /\ smcPf' = smcPf + 1 /\ smcWork' = 1
    /\ smcTold' = [t \in SmcToks |-> 0] /\ smcStay' = smcIn
    /\ UNCHANGED <<smcLive, smcTok, smcCnt, smcIn, smcStale>>
    /\ UNCHANGED smcSecVars

(* cam_smmu_page_fault_work: one slot; the handler found there is called.     *)
SmcFaultWork ==
    /\ smcWork > 0
    /\ smcTold' = IF smcTok[smcWork] = 0 THEN smcTold
                  ELSE [smcTold EXCEPT ![smcTok[smcWork]] = @ + 1]
    /\ smcWork' = IF smcWork = SmcCbMax THEN 0 ELSE smcWork + 1
    /\ UNCHANGED <<smcLive, smcTok, smcCnt, smcIn, smcStale, smcPf, smcStay>>
    /\ UNCHANGED smcSecVars

(* cam_smmu_get_handle on the secure bank: the first call makes the handle,   *)
(* every call counts.                                                         *)
SmcSecGet ==
    /\ smcSec < Cardinality(SmcToks) /\ smcSec' = smcSec + 1
    /\ UNCHANGED smcFaultVars /\ UNCHANGED <<smcMap, smcOwe, smcRef, smcSpent>>

(* cam_smmu_destroy_handle on the secure bank.  It is modelled only with an   *)
(* empty list: the list's entries are of another type than the ones           *)
(* cam_smmu_clean_user_buffer_list goes through.                              *)
SmcSecDestroy ==
    /\ smcSec > 0 /\ \A f \in SmcFds : smcMap[f] = 0
    /\ smcSec' = smcSec - 1
    /\ UNCHANGED smcFaultVars /\ UNCHANGED <<smcMap, smcOwe, smcRef, smcSpent>>

(* cam_smmu_map_stage2_iova: a buffer in the list only gains a reference      *)
(* count; otherwise reference, attachment and list entry, undone on an error. *)
SmcSecMap(f) ==
    /\ smcSec > 0 /\ smcOwe[f] < SmcUses
    /\ \/ /\ smcOwe' = [smcOwe EXCEPT ![f] = @ + 1]
          /\ smcMap' = [smcMap EXCEPT ![f] = @ + 1]
          /\ smcRef' = IF smcMap[f] > 0 THEN smcRef
                       ELSE [smcRef EXCEPT ![f] = [buf |-> @.buf + 1, att |-> 1]]
          /\ UNCHANGED smcSpent
       \/ /\ smcMap[f] = 0 /\ smcSpent < SmcFaults
          /\ smcSpent' = smcSpent + 1 /\ UNCHANGED <<smcOwe, smcMap, smcRef>>
    /\ UNCHANGED smcFaultVars /\ UNCHANGED smcSec

(* cam_smmu_unmap_stage2_iova: at zero the buffer is put and the entry freed. *)
(* The attachment made by the map is never detached: `att` stays.             *)
SmcSecUnmap(f) ==
    /\ smcSec > 0 /\ smcMap[f] > 0 /\ smcOwe[f] > 0
    /\ smcOwe' = [smcOwe EXCEPT ![f] = @ - 1]
    /\ smcMap' = [smcMap EXCEPT ![f] = @ - 1]
    /\ smcRef' = IF smcMap[f] > 1 THEN smcRef
                 ELSE [smcRef EXCEPT ![f].buf = @ - 1]
    /\ UNCHANGED smcFaultVars /\ UNCHANGED <<smcSec, smcSpent>>

SmcNext ==
    \/ SmcCreate \/ SmcDestroy \/ SmcFault \/ SmcFaultWork
    \/ SmcSecGet \/ SmcSecDestroy
    \/ \E t \in SmcToks : SmcSet(t) \/ SmcUnset(t)
    \/ \E f \in SmcFds : SmcSecMap(f) \/ SmcSecUnmap(f)

SmcSpec == SmcInit /\ [][SmcNext]_smcVars

(* Until a handle is destroyed with handlers still in the table, cb_count is  *)
(* the number of handlers and every client that registered is in the table    *)
(* once, holes and all: the search of the first cb_count slots finds room.    *)
SmcSeated ==
    smcStale \/
    (/\ smcLive => smcCnt = Cardinality({i \in 1 .. SmcCbMax : smcTok[i] # 0})
     /\ \A t \in smcIn : Cardinality({i \in 1 .. SmcCbMax : smcTok[i] = t}) = 1)

(* A client registered from the fault until the work is through is told of it *)
(* exactly once, whatever other clients register or leave meanwhile.          *)
SmcHeard ==
    (smcWork = 0 /\ smcPf > 0 /\ ~smcStale) => \A t \in smcStay : smcTold[t] = 1

(* A secure buffer stays mapped until every map of it was undone, and no      *)
(* longer, and the bank holds one reference to it meanwhile: the reference    *)
(* count of the mapping is what its users owe.                                *)
SmcShared ==
    \A f \in SmcFds :
        /\ smcMap[f] = smcOwe[f]
        /\ smcRef[f].buf = IF smcOwe[f] > 0 THEN 1 ELSE 0

\* Mappings, their reference counts and address ranges agree, and context banks keep
\* their handlers and shared maps apart.
SmmSafe ==
    /\ SmmRefs /\ SmmRanges /\ SmmApart /\ SmmTranslated /\ SmmNoneLeft /\ SmcSeated
    /\ SmcHeard /\ SmcShared
=============================================================================
