------------------------------ MODULE CrmLink -------------------------------
(***************************************************************************)
(* One link of the request manager at work                                 *)
(* (drivers/cam_req_mgr/cam_req_mgr_core.c): userspace schedules requests  *)
(* and flushes them, devices announce packets, frames and bubbles, and the *)
(* link's work queue runs the handlers of CrmLinkOps.                      *)
(*                                                                         *)
(* The work queue of a link is created with CAM_WORKQ_FLAG_SERIAL and used *)
(* at one priority, so it is a FIFO (module CrmWorkq); a handler holds     *)
(* link->req.lock throughout and is one step.  An ioctl holds crm_lock.    *)
(*                                                                         *)
(* The devices are external.  One of them, Isp, sends the triggers, and is *)
(* modelled after cam_isp_context.c: it takes only the oldest request on   *)
(* its pending list; a SOF names the request whose buffers it completed    *)
(* last; and the request it took last may turn into a bubble, after which  *)
(* it refuses requests until the bubbled frame is over and the request is  *)
(* back on the pending list.                                               *)
(***************************************************************************)
EXTENDS CrmLinkOps

CONSTANTS MaxReq,       \* bound: requests are 1 .. MaxReq
          MaxOpen,      \* bound: requests scheduled and not completed
          MaxTasks,     \* bound: CRM_WORKQ_NUM_TASKS
          MaxSince,     \* bound: SOFs in which the Isp ends its latest request
          MaxTriggers,  \* bound: triggers pending in the work queue
          Budgets,      \* bounds on faults and flushes, one record per mix of them
          Recover,      \* the requests scheduled with bubble_enable
          Before,       \* Before[d]: skip_before_applying of the device d
          Isp           \* the device that sends the triggers

Reqs == 1 .. MaxReq

\* CAM_REQ_MGR_FLUSH_TYPE_*
FlushTypes == {"ALL", "CANCEL_REQ"}

ASSUME LinkConstants ==
    /\ Isp \in Devs /\ Recover \subseteq Reqs
    /\ Budgets \subseteq [fails : Nat, bubbles : Nat, lost : Nat, flushes : [FlushTypes -> Nat]]

VARIABLES link,         \* the link record
          tasks,        \* the pending tasks of the work queue
          next,         \* the next request id of userspace
          packets,      \* <<device, request>>: the device has the packet
          pending,      \* the pending list of the Isp
          inflight,     \* requests the Isp works on
          last_applied_req_id,   \* the last request the Isp took or dropped
          done,         \* last_bufdone_req_id of the Isp, 0 at first
          since,        \* SOFs since the Isp took its latest request or met a bubble
          process_bubble,   \* the frame of a bubble is not over
          bubbled,      \* the request the Isp wants to be given again, or 0
          trigger,      \* the next trigger of the Isp
          flusher,      \* the flush ioctl: the task it waits for, or Nobody
          comp,         \* workq_comp is complete
          fails,        \* how many apply_req calls may still fail
          bubbles,      \* how many bubbles may still come
          lost,         \* how many notices may still find the task pool empty
          flushes,      \* how many flush ioctls of each type may still come
          latest,       \* latest[d]: the request d accepted last
          gone,         \* requests flushed or cancelled
          blind         \* a device was sent a request before it had the packet

hw == <<pending, last_applied_req_id, inflight, done, since, process_bubble, bubbled, trigger>>
user == <<next, packets>>
flushing == <<flusher, comp, flushes>>
ghosts == <<latest, gone, blind>>
faults == <<fails, bubbles, lost>>
vars == <<link, tasks, hw, user, flushing, faults, ghosts>>

Nobody == [type |-> "none"]

Init ==
    /\ link = NewLink
    /\ tasks = <<>>
    /\ next = 1 /\ packets = {}
    /\ pending = {} /\ last_applied_req_id = 0
    /\ inflight = {} /\ done = 0 /\ since = 0 /\ trigger = "SOF"
    /\ process_bubble = FALSE /\ bubbled = 0
    /\ flusher = Nobody /\ comp = FALSE
    /\ \E b \in Budgets : /\ fails = b.fails /\ bubbles = b.bubbles
                          /\ lost = b.lost /\ flushes = b.flushes
    /\ latest = [d \in Devs |-> 0] /\ gone = {}
    /\ blind = FALSE

\* cam_req_mgr_workq_get_task and cam_req_mgr_workq_enqueue_task, when the pool
\* has a task left.
HasTask == Len(tasks) < MaxTasks
Enqueue(t) == HasTask /\ tasks' = Append(tasks, t)

\* A notice of the hardware, lost when there is none.
Notify(t) ==
    \/ Enqueue(t) /\ UNCHANGED lost
    \/ ~HasTask /\ lost > 0 /\ lost' = lost - 1 /\ UNCHANGED tasks

-----------------------------------------------------------------------------
(* Userspace *)

\* cam_req_mgr_schedule_request: a request up to the last flushed one is refused.
ScheduleRequest ==
    /\ flusher = Nobody
    /\ next \in Reqs /\ next - done <= MaxOpen
    /\ next' = next + 1
    /\ IF next <= link.flush
       THEN gone' = gone \cup {next} /\ UNCHANGED link
       ELSE /\ link' = process_sched_req([link EXCEPT !.flush = 0], next, next \in Recover)
            /\ UNCHANGED gone
    /\ UNCHANGED <<tasks, hw, packets, flushing, faults, latest, blind>>

\* cam_req_mgr_flush_requests: up to the wait, and its two ends.  A full pool
\* is refused and changes nothing.
FlushRequests(type, r) ==
    /\ flusher = Nobody /\ flushes[type] > 0
    /\ flushes' = [flushes EXCEPT ![type] = @ - 1]
    /\ flusher' = [type |-> type, req |-> r, id |-> flushes[type]]
    /\ comp' = FALSE
    /\ Enqueue(flusher')
    /\ UNCHANGED <<link, hw, user, faults, ghosts>>

FlushReturns ==
    /\ flusher # Nobody /\ comp
    /\ flusher' = Nobody /\ comp' = FALSE
    /\ UNCHANGED <<link, tasks, hw, user, flushes, faults, ghosts>>

FlushTimesOut ==
    /\ flusher # Nobody /\ ~comp
    /\ flusher' = Nobody
    /\ UNCHANGED <<link, tasks, hw, user, comp, flushes, faults, ghosts>>

\* The packet of the next request goes to a device, which announces it:
\* cam_req_mgr_cb_add_req.  A request that is not in in_q is refused.
Submit(d, r) ==
    /\ r < next /\ <<d, r>> \notin packets /\ r \notin gone
    /\ \A q \in 1 .. r - 1 : <<d, q>> \in packets \/ q \in gone
    /\ find_slot_for_req(link, r) # -1
    /\ packets' = packets \cup {<<d, r>>}
    /\ pending' = IF d = Isp THEN pending \cup {r} ELSE pending
    /\ Enqueue([type |-> "add", dev |-> d, req |-> r])
    /\ UNCHANGED <<link, last_applied_req_id, inflight, done, since, process_bubble, bubbled,
                   trigger, next, flushing, faults, ghosts>>

-----------------------------------------------------------------------------
(* The Isp *)

ispLists == <<pending, last_applied_req_id>>

\* The bubbled frame is not over.
Bubbling == bubbled \notin pending \cup {0}

\* The Isp works on a frame, which it ends in a few more frames.
busy == inflight # {} \/ Bubbling

\* A frame starts or ends: cam_req_mgr_cb_notify_trigger.
Frame ==
    /\ busy => since < MaxSince
    /\ Cardinality({k \in DOMAIN tasks : tasks[k].type = "trigger"}) < MaxTriggers
    /\ Notify([type |-> "trigger", trigger |-> trigger, req |-> done])
    /\ trigger' = IF trigger = "SOF" /\ "EOF" \in subscribe_event THEN "EOF" ELSE "SOF"
    /\ since' = IF busy /\ trigger = "SOF" THEN since + 1 ELSE since
    /\ UNCHANGED <<link, ispLists, inflight, done, process_bubble, bubbled, user, flushing,
                   fails, bubbles, ghosts>>

BufDone ==
    /\ inflight # {}
    /\ done' = Min(inflight)
    /\ inflight' = inflight \ {Min(inflight)}
    /\ since' = IF inflight' = {} /\ ~Bubbling THEN 0 ELSE since
    /\ UNCHANGED <<link, tasks, ispLists, process_bubble, bubbled, trigger, user, flushing,
                   faults, ghosts>>

\* A bubble in the latest request, found at the epoch of the frame it was taken
\* in or of the next: cam_req_mgr_cb_notify_err, which refuses the report when
\* the link is not READY.
Bubble(r) ==
    /\ inflight # {} /\ r = Max(inflight) /\ r \in Recover
    /\ bubbles > 0 /\ bubbled = 0 /\ since <= 1
    /\ bubbles' = bubbles - 1
    /\ inflight' = inflight \ {r}
    /\ process_bubble' = TRUE /\ bubbled' = r /\ since' = 0
    /\ IF link.state = "READY"
       THEN Notify([type |-> "bubble", req |-> r])
       ELSE UNCHANGED <<tasks, lost>>
    /\ UNCHANGED <<link, ispLists, done, trigger, user, flushing, fails, ghosts>>

\* The bubbled frame ends after the ones before it, a SOF later: the request is
\* back at the head of the pending list.
BubbleOver ==
    /\ Bubbling /\ inflight = {} /\ since >= 1
    /\ pending' = pending \cup {bubbled}
    /\ process_bubble' = FALSE
    /\ since' = 0
    /\ UNCHANGED <<link, tasks, last_applied_req_id, inflight, done, bubbled, trigger, user,
                   flushing, faults, ghosts>>

\* Userspace flushes the devices after the link.
FlushDevices ==
    /\ flusher = Nobody
    /\ \E p \in packets : p[2] \in gone
    /\ packets' = {p \in packets : p[2] \notin gone}
    /\ pending' = pending \ gone
    /\ inflight' = inflight \ gone
    /\ process_bubble' = FALSE
    /\ bubbled' = IF bubbled \in gone THEN 0 ELSE bubbled
    /\ UNCHANGED <<link, tasks, last_applied_req_id, done, since, trigger, next, flushing,
                   faults, ghosts>>

-----------------------------------------------------------------------------
(* The work queue *)

\* What the Isp does with a request (__cam_isp_ctx_apply_req_in_activated_state).
IspTakes(r) == ~process_bubble /\ pending # {} /\ r = Min(pending)
IspDrops(r) ==
    /\ ~process_bubble /\ pending # {} /\ r # Min(pending)
    /\ last_applied_req_id + 1 # Min(pending)
IspRefuses(r) == ~IspTakes(r) /\ ~IspDrops(r)

\* The request a device is sent, once the slot is found ready.
asked(L, d) == L.data[Pd[d]].req

\* The handler of a trigger, with the devices in failing out of order.
RunTrigger(t, failing) ==
    LET fine == process_trigger(link, t.trigger, t.req, {})
        due == asked(fine.link, Isp)
        res == process_trigger(link, t.trigger, t.req,
                               failing \cup IF IspRefuses(due) THEN {Isp} ELSE {})
        sent == {d \in res.sent : asked(res.link, d) > 0}
    IN  /\ failing # {} => fails > 0
        /\ fails' = fails - Cardinality(failing)
        /\ link' = res.link
        /\ latest' = [d \in Devs |-> IF d \in sent THEN asked(res.link, d) ELSE latest[d]]
        /\ blind' = (blind \/ \E d \in fine.sent : asked(fine.link, d) > 0
                                                   /\ <<d, asked(fine.link, d)>> \notin packets)
        /\ last_applied_req_id' = IF Isp \in sent THEN due ELSE last_applied_req_id
        /\ IF Isp \in sent /\ IspTakes(due)
           THEN /\ pending' = pending \ {due} /\ inflight' = inflight \cup {due}
                /\ since' = 0 /\ bubbled' = 0
           ELSE UNCHANGED <<pending, inflight, since, bubbled>>
        /\ UNCHANGED <<done, process_bubble, trigger, user, flushing, bubbles, lost, gone>>

RunAdd(t) ==
    /\ link' = process_add_req(link, t.dev, t.req, Before[t.dev])
    /\ UNCHANGED <<hw, user, flushing, faults, ghosts>>

\* The devices go back to the bubbled request.
RunBubble(t) ==
    /\ link' = process_error(link, t.req)
    /\ latest' = [d \in Devs |->
                    IF recoverable(link, t.req) /\ latest[d] >= t.req
                    THEN t.req - 1 ELSE latest[d]]
    /\ UNCHANGED <<hw, user, flushing, faults, gone, blind>>

RunFlushAll(t) ==
    /\ link' = process_flush_all(link, t.req)
    /\ comp' = TRUE
    /\ gone' = gone \cup {r \in Reqs : r < next /\ r > done}
    /\ UNCHANGED <<hw, user, flusher, flushes, faults, latest, blind>>

\* The devices flush the request too, unless it is refused.
RunFlushCancel(t) ==
    /\ link' = process_flush_cancel(link, t.req)
    /\ IF cancel_refused(link, t.req)
       THEN UNCHANGED <<comp, gone, packets, pending, process_bubble>>
       ELSE /\ comp' = TRUE
            /\ gone' = gone \cup {t.req}
            /\ packets' = {p \in packets : p[2] # t.req}
            /\ pending' = pending \ {t.req}
            /\ process_bubble' = FALSE
    /\ UNCHANGED <<last_applied_req_id, inflight, done, since, bubbled, trigger, next, flusher,
                   flushes, faults, latest, blind>>

RunTask ==
    /\ tasks # <<>>
    /\ tasks' = Tail(tasks)
    /\ LET t == Head(tasks)
       IN  \/ t.type = "trigger" /\ \E failing \in {{}} \cup {{d} : d \in Devs} :
                                        RunTrigger(t, failing)
           \/ t.type = "add" /\ RunAdd(t)
           \/ t.type = "bubble" /\ RunBubble(t)
           \/ t.type = "ALL" /\ RunFlushAll(t)
           \/ t.type = "CANCEL_REQ" /\ RunFlushCancel(t)

Next ==
    \/ ScheduleRequest
    \/ \E r \in {next - 1, next} : FlushRequests("ALL", r)
    \/ \E r \in 1 .. next - 1 : FlushRequests("CANCEL_REQ", r)
    \/ FlushReturns
    \/ FlushTimesOut
    \/ \E d \in Devs, r \in Reqs : Submit(d, r)
    \/ Frame
    \/ BufDone
    \/ \E r \in Reqs : Bubble(r)
    \/ BubbleOver
    \/ FlushDevices
    \/ RunTask

Spec == Init /\ [][Next]_vars

\* The work queue runs what is queued, frames keep coming, the Isp ends what it
\* was given, and userspace submits the packets of what it schedules.  The first
\* conjunct is weak fairness of RunTask, which is enabled when a task is queued.
LiveSpec ==
    /\ Spec
    /\ []<>(tasks = <<>>) \/ []<><<tasks' = Tail(tasks)>>_tasks
    /\ WF_vars(Frame) /\ WF_vars(BufDone) /\ WF_vars(BubbleOver)
    /\ WF_vars(\E d \in Devs, r \in Reqs : Submit(d, r))

-----------------------------------------------------------------------------
(* Properties *)

\* The ring indexes, slots and tables stay in their ranges, and the work queue in
\* its pool.
TypeOK ==
    /\ link.slot \in [Idx -> [req : Reqs \cup {-1}, skip : {0, 1}, recover : BOOLEAN,
                              status : {"NO_REQ", "REQ_ADDED", "REQ_PENDING", "REQ_APPLIED"}]]
    /\ link.rd \in Idx /\ link.wr \in Idx /\ link.last \in Idx \cup {-1}
    /\ \A p \in Pds :
        /\ link.skip[p] \in 0 .. max_delay - p
        /\ link.data[p] \in [req : Reqs \cup {-1, 0}, idx : Idx]
        /\ \A i \in Idx : /\ link.tslot[p][i].state \in {"EMPTY", "PENDING", "READY"}
                          /\ link.tslot[p][i].map \subseteq dev_mask(p)
    /\ link.mask \subseteq subscribe_event /\ link.state \in {"READY", "ERR"}
    /\ Len(tasks) <= MaxTasks
    /\ latest \in [Devs -> Reqs \cup {0}]

\* The requests a device has yet to get.
NextFor(d) == {r \in Reqs : r > latest[d] /\ r \notin gone}

\* Every device gets the requests in order and none is left out: a device moves on
\* to the oldest request it has not got, unless a flush took that away, and goes
\* back only when process_error accepts a bubble.  __cam_req_mgr_traverse picks
\* the slot of each delay and process_error brings them all back.
AppliedInOrder ==
    \A d \in Devs : latest'[d] > latest[d] =>
        /\ latest'[d] \in NextFor(d)
        /\ \A r \in NextFor(d) : latest'[d] <= r

\* The settings of one request meet on one frame: when a device gets a request, no
\* device of its delay or of a larger one still lacks an earlier request, whatever
\* trigger it is served at and whichever device failed (__cam_req_mgr_send_req).
ServedTogether ==
    \A d, e \in Devs :
        latest'[d] > latest[d] /\ Pd[e] >= Pd[d]
            => \A r \in NextFor(e) : r >= latest'[d]

\* The Isp takes what it accepts: it never ignores a request of the link ("ignore
\* remain mismatching apply req_id", __cam_isp_ctx_apply_req_in_activated_state),
\* which the link would count as applied.
NoneIgnored ==
    last_applied_req_id' # last_applied_req_id => last_applied_req_id' \in inflight'

\* "If ready means all devices linked to the pd table have this request id packet
\* ready" (__cam_req_mgr_traverse): a device is sent a request only when it has
\* the packet of it.
PacketsPresent == ~blind

\* The slot that __cam_req_mgr_check_next_req_slot fills with a skip is the one
\* userspace would fill next ("CHECK here wr %d, rd %d").
SkipAtWr ==
    link.slot[link.rd].status = "REQ_APPLIED" /\ next_req_slot_missing(link)
        => link.wr = inc_idx(link.rd, 1)

\* cam_req_mgr_process_sched_req never takes the slot of a request that a device
\* has yet to get ("in_q overwrite").
OverwrittenServed ==
    next' # next /\ link' # link /\ link.slot[link.wr].req > 0 =>
        \A d \in Devs : latest[d] >= link.slot[link.wr].req

\* A bubble finds its request: the slot of the request is kept, as tried or
\* applied, until cam_req_mgr_process_error handles the report ("it is required to
\* retain last applied index to help recover").
BubbleRecoverable ==
    \A k \in DOMAIN tasks :
        tasks[k].type = "bubble" /\ tasks[k].req \notin gone
            => recoverable(link, tasks[k].req)

\* While the Isp waits for a request to be given again, the link knows: the report
\* is queued, or the link has gone back.  cam_req_mgr_cb_notify_err refuses
\* reports in the state ERR.
BubbleHeard ==
    bubbled \in Reqs \ gone =>
        \/ latest[Isp] < bubbled
        \/ \E k \in DOMAIN tasks : tasks[k] = [type |-> "bubble", req |-> bubbled]

\* workq_comp is to "block user thread for workq to finish": a caller that flushes
\* everything and is blocked in cam_req_mgr_flush_requests has its task in the queue,
\* or has been woken, also after an earlier call timed out.
FlushAllAnswered ==
    flusher.type = "ALL" => comp \/ \E k \in DOMAIN tasks : tasks[k] = flusher

\* Every request userspace schedules is completed by the Isp or flushed: no bubble,
\* skip or idle frame leaves the link stuck (process_trigger, process_error).
AllCompleted == \A r \in Reqs : next > r ~> done >= r \/ r \in gone

\* The slots and indices of the input queue stay in step through idle frames, skips
\* and bubbles, and no bubble is lost.
LinkSafe ==
    /\ TypeOK /\ SkipAtWr /\ BubbleRecoverable /\ BubbleHeard

\* Every device gets every request once and in order, going back only for a bubble;
\* no slot is taken too early and the Isp ignores nothing.
ServedInOrder ==
    [][AppliedInOrder /\ OverwrittenServed /\ NoneIgnored]_vars

\* A flush of everything, or of one request, at any moment keeps order and slots, and
\* the caller that flushes everything is woken.
FlushSafe ==
    [][FlushAllAnswered' /\ AppliedInOrder /\ OverwrittenServed]_vars

\* The settings of one request meet on one frame, and each device has its packet by
\* then, whichever device fails.
FrameWhole == [][PacketsPresent' /\ ServedTogether]_vars
=============================================================================
