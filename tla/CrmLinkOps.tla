----------------------------- MODULE CrmLinkOps -----------------------------
(***************************************************************************)
(* The request tables of one link of the request manager (CRM) and the     *)
(* functions of drivers/cam_req_mgr/cam_req_mgr_core.c that read and       *)
(* update them, as operators from a link record to a link record.          *)
(*                                                                         *)
(* A link has an input queue in_q, a ring of slots that userspace fills    *)
(* with request ids, and one table per pipeline delay (pd) of its devices, *)
(* a ring of the same size whose slots say which devices have the packet   *)
(* of the request.  At a frame the slot rd of the input queue goes to the  *)
(* devices of the largest delay, and a device of a smaller delay gets the  *)
(* request that many slots back, so that the settings of one request meet  *)
(* on one frame.                                                           *)
(*                                                                         *)
(* The fields of a link record L:                                          *)
(*   slot[i]     in_q->slot[i]: req (req_id), skip (skip_idx), status,     *)
(*               recover                                                   *)
(*   rd, wr, last   rd_idx, wr_idx, last_applied_idx                       *)
(*   skip[p]     skip_traverse of the table of delay p                     *)
(*   tslot[p][i] its slot i: state, map (req_ready_map), delay             *)
(*               (inject_delay), dev (dev_hdl), next (skip_next_frame),    *)
(*               applied (is_applied)                                      *)
(*   data[p]     req.apply_data[p]: req, idx                               *)
(*   mask        trigger_mask                                              *)
(*   flush       last_flush_id                                             *)
(*   state       link->state, "READY" or "ERR"                             *)
(* The link has no sync_link.  open_req_cnt is left out: it is only logged. *)
(***************************************************************************)
EXTENDS Integers, Sequences, FiniteSets, FiniteSetsExt

CONSTANTS NumSlots,     \* MAX_REQ_SLOTS
          l_dev,        \* the devices of the link, in the order of link->l_dev
          Pd,           \* dev_info.p_delay of a device
          Trigger,      \* dev_info.trigger of a device, a set of "SOF", "EOF"
          NoDev         \* dev_hdl 0

Devs == {l_dev[k] : k \in DOMAIN l_dev}
Idx == 0 .. NumSlots - 1
Pds == {Pd[d] : d \in Devs}
max_delay == Max(Pds)
subscribe_event == UNION {Trigger[d] : d \in Devs}
dev_mask(p) == {d \in Devs : Pd[d] = p}

\* A ring no smaller than the pipeline it serves: the slot reset after an apply
\* is max_delay + 1 back.
ASSUME RingFits == NumSlots \in Nat /\ NumSlots > max_delay + 1

\* __cam_req_mgr_inc_idx, __cam_req_mgr_dec_idx
inc_idx(i, step) == (i + step) % NumSlots
dec_idx(i, step) == IF i - step < 0 THEN NumSlots + (i - step) ELSE i - step

\* The tables are sorted by falling delay and pd_delta is the difference to the
\* next one, so the walk that starts at slot i in the first table reaches the
\* table of delay p at this slot.
tbl_idx(i, p) == dec_idx(i, max_delay - p)

EmptySlot == [req |-> -1, skip |-> 0, status |-> "NO_REQ", recover |-> FALSE]
EmptyTblSlot == [state |-> "EMPTY", map |-> {}, delay |-> 0, dev |-> NoDev,
                 next |-> FALSE, applied |-> FALSE]

\* __cam_req_mgr_tbl_set_all_skip_cnt
set_all_skip_cnt == [p \in Pds |-> max_delay - p]

\* cam_req_mgr_core_link_reset, __cam_req_mgr_setup_in_q and the end of
\* __cam_req_mgr_setup_link_info.  in_q comes zeroed from kzalloc, so
\* last_applied_idx is 0.
NewLink ==
    [slot |-> [i \in Idx |-> EmptySlot], rd |-> 0, wr |-> 0, last |-> 0,
     skip |-> set_all_skip_cnt,
     tslot |-> [p \in Pds |-> [i \in Idx |-> EmptyTblSlot]],
     data |-> [p \in Pds |-> [req |-> 0, idx |-> 0]],
     mask |-> {}, flush |-> 0, state |-> "READY"]

-----------------------------------------------------------------------------
(* Queries *)

\* __cam_req_mgr_find_slot_for_req: the search runs backwards from rd; -1 when
\* no slot holds the request.
find_slot_for_req(L, r) ==
    LET found == {k \in Idx : L.slot[dec_idx(L.rd, k)].req = r}
    IN  IF found = {} THEN -1 ELSE dec_idx(L.rd, Min(found))

\* One table in __cam_req_mgr_traverse.
tbl_ready(L, p, i) ==
    \/ L.tslot[p][tbl_idx(i, p)].state = "READY"
    \/ L.slot[tbl_idx(i, p)].skip = 1
    \/ L.skip[p] > 0

\* __cam_req_mgr_traverse and __cam_req_mgr_check_link_is_ready with
\* validate_only: the recursion fails at the first table that is not ready, and
\* the updates come on its way back, so they are made in all tables or in none.
link_is_ready(L, i) == \A p \in Pds : tbl_ready(L, p, i)

\* Mutant: the comparison is the wrong way round.
higher_pd_devices == \E d \in Devs : Pd[d] > max_delay

\* __cam_req_mgr_check_for_lower_pd_devices
lower_pd_devices == \E d \in Devs : Pd[d] < max_delay

-----------------------------------------------------------------------------
(* Updates *)

\* __cam_req_mgr_inject_delay: every table counts down; the frame is skipped
\* when one of them had a delay left.
delay_injected(L, i) == \E p \in Pds : L.tslot[p][tbl_idx(i, p)].delay > 0
inject_delay(L, i) ==
    [L EXCEPT !.tslot = [p \in Pds |->
        [L.tslot[p] EXCEPT ![tbl_idx(i, p)].delay = IF @ > 0 THEN @ - 1 ELSE @]]]

\* __cam_req_mgr_check_link_is_ready, validate_only = false: apply_data is
\* cleared first, and filled when the walk succeeds.
check_link_is_ready(L, i) ==
    IF ~link_is_ready(L, i)
    THEN [L EXCEPT !.data = [p \in Pds |-> [req |-> 0, idx |-> 0]]]
    ELSE [L EXCEPT
            !.data = [p \in Pds |->
                [req |-> IF L.skip[p] > 0 THEN -1 ELSE L.slot[tbl_idx(i, p)].req,
                 idx |-> tbl_idx(i, p)]],
            !.skip = [p \in Pds |-> IF L.skip[p] > 0 THEN L.skip[p] - 1 ELSE 0]]

\* __cam_req_mgr_in_q_skip_idx
in_q_skip_idx(L, i) ==
    [L EXCEPT !.slot[i] = [@ EXCEPT !.req = -1, !.skip = 1, !.status = "REQ_ADDED"]]

\* __cam_req_mgr_reset_req_slot: not when userspace has filled the slot again,
\* and not the last applied one, which a bubble may ask for.
reset_req_slot(L, i) ==
    IF L.slot[i].status = "REQ_ADDED" \/ L.last = i
    THEN L
    ELSE [L EXCEPT
            !.slot[i] = EmptySlot,
            !.tslot = [p \in Pds |->
                [L.tslot[p] EXCEPT ![i] = [@ EXCEPT !.map = {}, !.state = "EMPTY"]]]]

\* __cam_req_mgr_check_next_req_slot, when the next slot is free and a device of
\* a smaller delay still has requests to get: the slot is filled with a skip.
next_req_slot_missing(L) == L.slot[inc_idx(L.rd, 1)].status = "NO_REQ"

skip_next_req_slot(L) ==
    IF next_req_slot_missing(L)
    THEN [in_q_skip_idx(L, inc_idx(L.rd, 1)) EXCEPT !.wr = inc_idx(L.wr, 1)]
    ELSE L

-----------------------------------------------------------------------------
(* Applying a request.  fail is the set of devices whose apply_req call would *)
(* return an error.  The result carries the new link, the devices that took a *)
(* request, and rc: "ok", "fail", "again" (-EAGAIN after a device was served  *)
(* alone), "wait" (not all tables are ready) or "idle" (nothing to do).       *)

Result(L, sent, rc) == [link |-> L, sent |-> sent, rc |-> rc]

\* dev->pd_tbl->slot[apply_data[pd].idx]
dev_slot(L, d) == L.tslot[Pd[d]][L.data[Pd[d]].idx]
set_dev_slots(L, D, upd(_)) ==
    [L EXCEPT !.tslot = [p \in Pds |-> [i \in Idx |->
        IF \E d \in D : Pd[d] = p /\ L.data[p].idx = i
        THEN upd(L.tslot[p][i]) ELSE L.tslot[p][i]]]]

\* The first loop of __cam_req_mgr_send_req: the first device that asked for
\* the next frame to be dropped gets its request alone.
skip_next_devs(L, trigger) ==
    {k \in DOMAIN l_dev :
        /\ dev_slot(L, l_dev[k]).next
        /\ dev_slot(L, l_dev[k]).dev = l_dev[k]
        /\ trigger \in Trigger[l_dev[k]]}

send_skip_next(L, trigger, fail) ==
    LET d == l_dev[Min(skip_next_devs(L, trigger))]
        taken(ts) == [ts EXCEPT !.next = FALSE, !.applied = TRUE]
    IN  IF d \in fail
        THEN Result(L, {}, "fail")
        ELSE Result(set_dev_slots(L, {d}, taken), {d}, "again")

\* The second loop: the devices of this trigger that have a request, in order,
\* up to the first that fails.  A device served by the first loop is passed over
\* once.  (The devices up to the failed one are then told CRM_KMD_ERR_BUBBLE,
\* which changes nothing in the link.)
send_all(L, trigger, fail) ==
    LET addressed == {k \in DOMAIN l_dev :
                        L.data[Pd[l_dev[k]]].req >= 0 /\ trigger \in Trigger[l_dev[k]]}
        served(k) == dev_slot(L, l_dev[k]).dev = l_dev[k] /\ dev_slot(L, l_dev[k]).applied
        failed == {k \in addressed : l_dev[k] \in fail /\ ~served(k)}
        reached == {k \in addressed : \A j \in failed : k < j}
        sent == {l_dev[k] : k \in {j \in reached : ~served(j)}}
        unmark(ts) == [ts EXCEPT !.applied = FALSE]
        L1 == set_dev_slots(L, {l_dev[k] : k \in {j \in reached : served(j)}}, unmark)
    IN  Result(L1, sent, IF failed = {} THEN "ok" ELSE "fail")

send_req(L, trigger, fail) ==
    IF skip_next_devs(L, trigger) # {}
    THEN send_skip_next(L, trigger, fail)
    ELSE send_all(L, trigger, fail)

\* Mutants: one trigger ends the request; the slot is reset one frame early.
any_trigger(L) == L.mask # {}
reset_idx_early(i) == dec_idx(i, max_delay)

apply_failed(rc) == rc # "ok"
recovery_done(L) == [L EXCEPT !.state = "READY"]
all_triggers(L) == L.mask = subscribe_event
reset_idx(i) == dec_idx(i, max_delay + 1)

finish_req(L, trigger, res) ==
    LET i == L.rd
        L1 == recovery_done([res.link EXCEPT !.mask = @ \cup {trigger}])
        L2 == [L1 EXCEPT !.slot[i].status = "REQ_APPLIED", !.mask = {},
                         !.last = IF L1.slot[i].req > 0 THEN i ELSE @]
    IN  [res EXCEPT !.link =
            IF apply_failed(res.rc)
            THEN [@ EXCEPT !.slot[i].status = "REQ_PENDING"]
            ELSE IF all_triggers(L1) THEN reset_req_slot(L2, reset_idx(i)) ELSE L1]

\* __cam_req_mgr_process_req
process_req(L, trigger, fail) ==
    LET i == L.rd
        idle == Result(L, {}, "idle")
        pending(M) == Result([M EXCEPT !.slot[i].status = "REQ_PENDING"], {}, "wait")
        L1 == inject_delay(L, i)
        L2 == check_link_is_ready(L1, i)
    IN  CASE L.slot[i].status = "NO_REQ" -> idle
          [] L.slot[i].status # "NO_REQ" /\ trigger = "EOF" ->
                IF "SOF" \in L.mask
                THEN finish_req(L, trigger, send_req(L, trigger, fail))
                ELSE idle
          [] L.slot[i].status # "NO_REQ" /\ trigger = "SOF" ->
                IF L.mask # {} THEN idle
                ELSE IF delay_injected(L, i) THEN pending(L1)
                ELSE IF ~link_is_ready(L1, i) THEN pending(L2)
                ELSE finish_req(L2, trigger, send_req(L2, trigger, fail))

-----------------------------------------------------------------------------
(* The handlers, each under link->req.lock from its first read to its last    *)
(* write.                                                                     *)

\* cam_req_mgr_process_sched_req; a slot in use is overwritten with a warning.
process_sched_req(L, r, bubble_enable) ==
    [L EXCEPT
        !.slot[L.wr] = [req |-> r, skip |-> 0, status |-> "REQ_ADDED",
                        recover |-> bubble_enable],
        !.wr = inc_idx(@, 1)]

\* The table slot has heard from all its devices.
tbl_complete(p, map) == map = dev_mask(p)

\* cam_req_mgr_process_add_req.  before is skip_before_applying: how many frames
\* to hold the request (delay) and whether SKIP_NEXT_FRAME is set (next).
process_add_req(L, d, r, before) ==
    LET i == find_slot_for_req(L, r)
        s == L.tslot[Pd[d]][i]
        s1 == IF before.delay > s.delay
              THEN [s EXCEPT !.delay = before.delay, !.dev = d,
                             !.next = s.next \/ before.next]
              ELSE s
        map == s.map \cup {d}
    IN  IF i = -1 THEN L
        ELSE [L EXCEPT !.tslot[Pd[d]][i] =
                [s1 EXCEPT !.applied = FALSE, !.map = map,
                           !.state = IF tbl_complete(Pd[d], map) THEN "READY" ELSE "PENDING"]]

\* cam_req_mgr_process_error for CRM_KMD_ERR_BUBBLE: back to the request.
recoverable(L, r) ==
    LET i == find_slot_for_req(L, r)
    IN  i # -1 /\ L.slot[i].recover /\ L.slot[i].status \in {"REQ_PENDING", "REQ_APPLIED"}

\* Mutant: skip_traverse is not set again.
process_error_keep_skip(L, r) ==
    LET i == find_slot_for_req(L, r)
    IN  IF recoverable(L, r)
        THEN [L EXCEPT !.rd = i, !.slot[i].status = "REQ_ADDED", !.state = "ERR"]
        ELSE L

process_error(L, r) ==
    LET i == find_slot_for_req(L, r)
    IN  IF recoverable(L, r)
        THEN [L EXCEPT !.skip = set_all_skip_cnt, !.rd = i,
                       !.slot[i].status = "REQ_ADDED", !.state = "ERR"]
        ELSE L

\* cam_req_mgr_process_flush_req, CAM_REQ_MGR_FLUSH_TYPE_ALL
process_flush_all(L, r) ==
    [L EXCEPT
        !.flush = r,
        !.slot = [i \in Idx |->
            [L.slot[i] EXCEPT !.req = -1, !.skip = 1, !.status = "NO_REQ"]],
        !.wr = 0, !.rd = 0]

\* cam_req_mgr_process_flush_req, CAM_REQ_MGR_FLUSH_TYPE_CANCEL_REQ: a request
\* that was tried or applied is refused.
cancel_refused(L, r) ==
    LET i == find_slot_for_req(L, r)
    IN  i # -1 /\ L.slot[i].status \in {"REQ_PENDING", "REQ_APPLIED"}

\* Mutant: the slot at rd_idx is skipped.
process_flush_cancel_rd(L, r) ==
    LET i == find_slot_for_req(L, r)
    IN  IF i = -1 \/ cancel_refused(L, r) THEN L ELSE in_q_skip_idx(L, L.rd)

process_flush_cancel(L, r) ==
    LET i == find_slot_for_req(L, r)
    IN  IF i = -1 \/ cancel_refused(L, r) THEN L ELSE in_q_skip_idx(L, i)

\* cam_req_mgr_process_trigger.  r is the request whose buffers the device has
\* completed last.
retire_done(L, trigger, r) ==
    LET i == find_slot_for_req(L, r)
        L1 == [L EXCEPT !.last = IF i = @ THEN -1 ELSE @,
                        !.rd = IF i = @ THEN inc_idx(@, 1) ELSE @]
    IN  IF trigger = "SOF" /\ i # -1 THEN reset_req_slot(L1, i) ELSE L

process_trigger(L, trigger, r, fail) ==
    LET L1 == retire_done(L, trigger, r)
        L2 == [skip_next_req_slot(L1) EXCEPT !.rd = inc_idx(L1.rd, 1)]
    IN  IF L1.slot[L1.rd].status # "REQ_APPLIED"
        THEN process_req(L1, trigger, fail)
        ELSE IF next_req_slot_missing(L1) /\ ~lower_pd_devices
        THEN Result(L1, {}, "idle")
        ELSE process_req(L2, trigger, fail)
=============================================================================
