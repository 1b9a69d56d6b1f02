------------------------------- MODULE AisIsp -------------------------------
(***************************************************************************)
(* One RDI output path of the automotive VFE driver (ais_vfe_core.c): the   *)
(* user's buffers travel from buffer_q to the write master's address FIFO   *)
(* (buffer_hw_q) and back in FRAME_DONE messages.  The interrupt handler    *)
(* only reads registers and queues work; the workqueue thread matches done  *)
(* buffers with start-of-frame records by hardware timestamp.  Frame n      *)
(* starts at time n.  The worker takes no mutex: avfW holds the work item   *)
(* whose path-state check has been made and whose effects are still to come,*)
(* so that a stop can fall in between.                                      *)
(***************************************************************************)
EXTENDS Integers, Sequences, FiniteSets

CONSTANTS
    AvfIds,      \* buffers of the user, positive numbers (0 is no address)
    AvfBufs,     \* AIS_VFE_MAX_BUF: buffer descriptors of the path
    AvfSofs,     \* AIS_VFE_MAX_SOF_INFO: start-of-frame records of the path
    AvfFifo,     \* depth of the write master's address FIFO
    AvfTasks,    \* AIS_VFE_WORKQ_NUM_TASK: work items of the queue
    AvfFrames,   \* bound: frames the sensor sends
    AvfStarts,   \* bound: starts of the path
    AvfFaults    \* bound: hardware errors, unanswered resets, register races

VARIABLES
    avfP,        \* struct ais_vfe_rdi_output
    avfHw,       \* the write master, the CSID's timestamps and pending interrupts
    avfTask,     \* the workqueue
    avfW,        \* the work item being executed
    avfStop,     \* an ais_vfe_stop that waits: its completion
    avfG         \* the user's side and the history the properties name

avfVars == <<avfP, avfHw, avfTask, avfW, avfStop, avfG>>

AvfNoTask == [kind |-> "none", go |-> FALSE]

\* ais_clear_rdi_path: all descriptors and records free, counters zero
AvfClear(p) == [p EXCEPT !.cnt = 0, !.free = AvfBufs, !.q = <<>>, !.hwq = <<>>,
                         !.sofFree = AvfSofs, !.sofq = <<>>, !.last = 0]

AvfPath0 == [state |-> "init", cnt |-> 0, free |-> AvfBufs, q |-> <<>>,
             hwq |-> <<>>, sofFree |-> AvfSofs, sofq |-> <<>>, last |-> 0]

\* a reserved path of a powered core
AvfInit ==
    /\ avfP = AvfPath0
    /\ avfHw = [on |-> FALSE, fifo |-> <<>>, wr |-> 0, n |-> 0, cur |-> 0, prev |-> 0,
                addr |-> 0, sof |-> 0, done |-> FALSE, err |-> "no", rst |-> FALSE,
                ask |-> FALSE]
    /\ avfTask = <<>>
    /\ avfW = AvfNoTask
    /\ avfStop = [wait |-> FALSE, cmpl |-> FALSE]
    /\ avfG = [user |-> AvfIds, filled |-> [b \in AvfIds |-> 0], out |-> <<>>, id |-> 0,
               starts |-> 0, faults |-> 0, slip |-> FALSE, lost |-> FALSE, late |-> FALSE,
               strag |-> FALSE, leak |-> 0]

\* nothing reported by this step; what a buffer of the user holds is the user's affair
AvfQuiet == [avfG EXCEPT !.out = <<>>,
                 !.filled = [b \in AvfIds |-> IF b \in avfG.user THEN 0 ELSE @[b]]]
AvfMayFault == avfG.faults < AvfFaults

\* What can spoil the hardware's and the driver's common view of the buffers: a
\* stop that ended before its reset was done, or a bottom half that was past its state check when
\* the stop came and touched the hardware after the reset.
AvfSpoilt == avfG.late \/ avfG.strag

\* ais_vfe_q_bufs_to_hw: fill the address FIFO from buffer_q, each buffer with
\* the start-of-frame time the CSID shows.  When slip, the next frame started
\* between the reading of that time and the write of the first address.
AvfQBufs(p, hw, slip) ==
    LET room == AvfFifo - Len(hw.fifo)
        k == IF Len(p.q) < room THEN Len(p.q) ELSE room
        Entry(i) == [b |-> p.q[i], ts |-> IF slip /\ i = 1 THEN hw.prev ELSE hw.cur]
    IN [p |-> [p EXCEPT !.q = SubSeq(@, k + 1, Len(@)),
                        !.hwq = @ \o [i \in 1..k |-> Entry(i)]],
        hw |-> [hw EXCEPT !.fifo = @ \o SubSeq(p.q, 1, k)],
        n |-> k]

-----------------------------------------------------------------------------
\* Commands, under hw_mutex.

\* ais_vfe_cmd_enq_buf: before the path streams the buffer goes to the FIFO at once.
\* The user's buffers are alike, so the lowest one stands for any.
AvfEnq(b) ==
    /\ ~avfStop.wait
    /\ b \in avfG.user /\ \A c \in avfG.user : b <= c
    /\ avfP.free > 0
    /\ LET p == [avfP EXCEPT !.free = @ - 1, !.q = Append(@, b)]
           r == AvfQBufs(p, avfHw, FALSE)
       IN IF avfP.state = "init"
          THEN avfP' = r.p /\ avfHw' = r.hw
          ELSE avfP' = p /\ UNCHANGED avfHw
    /\ avfG' = [AvfQuiet EXCEPT !.user = @ \ {b}, !.filled[b] = 0]
    /\ UNCHANGED <<avfTask, avfW, avfStop>>

\* ais_vfe_start, and the CSID path started after it (bound: not after a spoilt stop)
AvfStart ==
    /\ ~avfStop.wait
    /\ avfP.state = "init"
    /\ avfG.starts < AvfStarts /\ ~AvfSpoilt
    /\ avfP' = [avfP EXCEPT !.state = "stream"]
    /\ avfHw' = [avfHw EXCEPT !.on = TRUE]
    /\ avfG' = [AvfQuiet EXCEPT !.starts = @ + 1]
    /\ UNCHANGED <<avfTask, avfW, avfStop>>

\* ais_vfe_stop, up to its wait: the CSID has been halted before (its timestamp
\* registers keep their values), the path's done interrupt is masked, the reset of
\* the write master is requested
AvfStopBegin ==
    /\ ~avfStop.wait
    /\ avfP.state \in {"stream", "error"}
    /\ avfP' = [avfP EXCEPT !.state = "init"]
    /\ avfHw' = [avfHw EXCEPT !.on = FALSE, !.done = FALSE, !.ask = TRUE]
    /\ avfStop' = [wait |-> TRUE, cmpl |-> FALSE]
    /\ avfG' = AvfQuiet
    /\ UNCHANGED <<avfTask, avfW>>

\* ais_vfe_stop after its wait: answered, or 100 ms later all the same.  The answer
\* may be to an earlier reset (handle_error's), the own one still to come.
AvfStopEnd ==
    /\ avfStop.wait
    /\ avfStop.cmpl \/ AvfMayFault
    /\ avfP' = AvfClear(avfP)
    /\ avfStop' = [wait |-> FALSE, cmpl |-> FALSE]
    /\ avfG' = [AvfQuiet EXCEPT !.user = AvfIds, !.id = 0, !.leak = 0,
                    !.lost = FALSE, !.slip = FALSE,
                    !.faults = IF avfStop.cmpl THEN @ ELSE @ + 1,
                    !.late = @ \/ ~avfStop.cmpl \/ avfHw.ask]
    /\ UNCHANGED <<avfHw, avfTask, avfW>>

-----------------------------------------------------------------------------
\* The hardware.

\* a frame starts: the write master takes the next address, if it has one
AvfFrameStart ==
    /\ avfHw.on /\ avfHw.wr = 0 /\ avfHw.n < AvfFrames
    /\ avfHw' = [avfHw EXCEPT !.n = @ + 1, !.prev = avfHw.cur, !.cur = avfHw.n + 1,
                     !.sof = @ + 1,
                     !.wr = IF avfHw.fifo = <<>> THEN 0 ELSE Head(avfHw.fifo),
                     !.fifo = IF avfHw.fifo = <<>> THEN @ ELSE Tail(@)]
    /\ avfG' = AvfQuiet
    /\ UNCHANGED <<avfP, avfTask, avfW, avfStop>>

\* the frame is in memory; status0 of the client shows its address
AvfFrameEnd ==
    /\ avfHw.on /\ avfHw.wr # 0
    /\ avfHw' = [avfHw EXCEPT !.wr = 0, !.addr = avfHw.wr, !.done = (avfP.state = "stream")]
    /\ avfG' = [AvfQuiet EXCEPT !.filled[avfHw.wr] = avfHw.n]
    /\ UNCHANGED <<avfP, avfTask, avfW, avfStop>>

\* an overflow of the path, or a violation the bus reports
AvfFault ==
    /\ avfHw.on /\ avfHw.err = "no" /\ AvfMayFault /\ avfP.state = "stream"
    /\ \E e \in {"overflow", "bus"} : avfHw' = [avfHw EXCEPT !.err = e]
    /\ avfG' = [AvfQuiet EXCEPT !.faults = @ + 1]
    /\ UNCHANGED <<avfP, avfTask, avfW, avfStop>>

\* the write master's reset: it forgets its addresses and raises bit 0
AvfHwReset ==
    /\ avfHw.ask
    /\ avfHw' = [avfHw EXCEPT !.ask = FALSE, !.rst = TRUE, !.fifo = <<>>, !.wr = 0]
    /\ avfG' = AvfQuiet
    /\ UNCHANGED <<avfP, avfTask, avfW, avfStop>>

-----------------------------------------------------------------------------
\* Interrupt and work.

\* ais_vfe_dispatch_irq: without a free work item the event is gone
AvfDispatch(q, t, want) == IF want /\ Len(q) < AvfTasks THEN Append(q, t) ELSE q

\* ais_vfe_irq with ais_vfe_irq_fill_bus_wr_status: start of frame first, then
\* the bus status with the last written address, then the overflow
AvfIrq ==
    LET sof == [kind |-> "sof", cur |-> avfHw.cur, prev |-> avfHw.prev, n |-> avfHw.sof]
        bus == [kind |-> "bus", done |-> avfHw.done, addr |-> avfHw.addr,
                err |-> avfHw.err = "bus", rst |-> avfHw.rst]
        q1 == AvfDispatch(avfTask, sof, avfHw.sof > 0)
        q2 == AvfDispatch(q1, bus, bus.done \/ bus.err \/ bus.rst)
    IN /\ avfHw.sof > 0 \/ bus.done \/ bus.rst \/ avfHw.err # "no"
       /\ avfTask' = AvfDispatch(q2, [kind |-> "err"], avfHw.err = "overflow")
       /\ avfHw' = [avfHw EXCEPT !.sof = 0, !.done = FALSE, !.err = "no", !.rst = FALSE]
       /\ avfG' = [AvfQuiet EXCEPT !.lost = @ \/ (avfHw.sof > 0 /\ q1 = avfTask)]
       /\ UNCHANGED <<avfP, avfW, avfStop>>

\* ais_vfe_process_irq_bh begins: the handlers look at the path's state
AvfTake ==
    /\ avfW = AvfNoTask /\ avfTask # <<>>
    /\ avfW' = [t \in DOMAIN Head(avfTask) \cup {"go"} |->
                    IF t = "go" THEN avfP.state = "stream" ELSE Head(avfTask)[t]]
    /\ avfTask' = Tail(avfTask)
    /\ avfG' = AvfQuiet
    /\ UNCHANGED <<avfP, avfHw, avfStop>>

\* ais_vfe_get_num_missed_sof for frames one tick apart (64-bit times: no rollover)
AvfMissed(cur, prev, last) == IF prev > last /\ cur > prev THEN prev - last ELSE 0

\* ais_vfe_handle_sof_rdi: a record for every frame since the last interrupt as
\* long as records are free (ais_vfe_q_sof), or, when the hardware has no buffer,
\* no record at all
AvfSofRdi(p, cur, prev) ==
    LET first == p.cnt = 0 /\ prev # 0
        miss == IF p.cnt = 0 THEN 0 ELSE AvfMissed(cur, prev, p.last)
        times == IF first THEN <<prev, cur>>
                 ELSE [i \in 1..(miss + 1) |-> IF i > miss THEN cur ELSE prev - (miss - i)]
        room == IF Len(times) < p.sofFree THEN Len(times) ELSE p.sofFree
    IN IF p.hwq = <<>>
       THEN [p EXCEPT !.cnt = @ + 1, !.last = cur, !.sofq = <<>>, !.sofFree = @ + Len(p.sofq)]
       ELSE [p EXCEPT !.cnt = @ + Len(times), !.last = cur, !.sofFree = @ - room,
                      !.sofq = @ \o [i \in 1..room |-> [ts |-> times[i], id |-> p.cnt + i]]]

\* frames left without a record: none was free, or the stream began with more than
\* the one unseen frame the code makes up for
AvfShort(p, t) ==
    LET r == AvfSofRdi(p, t.cur, t.prev)
    IN \/ p.hwq # <<>> /\ r.cnt - p.cnt > Len(r.sofq) - Len(p.sofq)
       \/ p.cnt = 0 /\ t.n > 2

\* Mutant: the loop does not end at the last written address
AvfDonePopAll(p, addr) ==
    [p |-> [p EXCEPT !.hwq = <<>>, !.free = @ + Len(p.hwq), !.sofq = <<>>,
                     !.sofFree = @ + Len(p.sofq)],
     out |-> [i \in 1..Len(p.hwq) |->
                 IF i > Len(p.sofq) THEN [b |-> p.hwq[i].b, id |-> 0, ts |-> 0]
                 ELSE [b |-> p.hwq[i].b, id |-> p.sofq[i].id, ts |-> p.sofq[i].ts]]]

\* ais_vfe_bus_handle_client_frame_done, its loops: buffers leave buffer_hw_q up to
\* the one with the last written address; each is reported with the first record
\* of a frame later than the time the buffer was given to the hardware, the
\* records before that one are dropped.  With no buffer left no record is kept.
AvfDone(p, addr) ==
    LET at == {i \in 1..Len(p.hwq) : p.hwq[i].b = addr}
        k == IF at = {} THEN Len(p.hwq) ELSE CHOOSE i \in at : \A j \in at : i <= j
        S == Len(p.sofq)
        Fit(i, j) == {x \in (j + 1)..S : p.sofq[x].ts > p.hwq[i].ts}
        rec[i \in 0..k] ==
            IF i = 0 THEN 0
            ELSE IF Fit(i, rec[i - 1]) = {} THEN S + 1
            ELSE CHOOSE x \in Fit(i, rec[i - 1]) : \A y \in Fit(i, rec[i - 1]) : x <= y
        used == IF rec[k] > S THEN S ELSE rec[k]
        rest == IF k = Len(p.hwq) THEN <<>> ELSE SubSeq(p.sofq, used + 1, S)
        Msg(i) == IF rec[i] > S THEN [b |-> p.hwq[i].b, id |-> 0, ts |-> 0]
                  ELSE [b |-> p.hwq[i].b, id |-> p.sofq[rec[i]].id, ts |-> p.sofq[rec[i]].ts]
    IN [p |-> [p EXCEPT !.hwq = SubSeq(@, k + 1, Len(@)), !.free = @ + k,
                        !.sofq = rest, !.sofFree = @ + S - Len(rest)],
        out |-> [i \in 1..k |-> Msg(i)]]

\* ais_vfe_handle_error: output off, write master reset, the user told
AvfError(p, hw, go) ==
    IF go THEN [p |-> [p EXCEPT !.state = "error"],
                hw |-> [hw EXCEPT !.on = FALSE, !.done = FALSE, !.ask = TRUE]]
    ELSE [p |-> p, hw |-> hw]

AvfMaxId(out, id) ==
    LET ids == {out[i].id : i \in 1..Len(out)} \cup {id}
    IN CHOOSE x \in ids : \A y \in ids : y <= x

\* a refill that reaches the hardware after the reset a stop waits for
AvfStraggle(n) == n > 0 /\ avfStop.wait /\ ~avfHw.ask

\* ais_vfe_handle_sof, after its state check
AvfWorkSof ==
    /\ avfW.kind = "sof"
    /\ \E slip \in BOOLEAN :
        LET p == AvfSofRdi(avfP, avfW.cur, avfW.prev)
            r == AvfQBufs(p, avfHw, slip)
        IN /\ slip => AvfMayFault /\ avfHw.on /\ r.n > 0 /\ avfHw.prev < avfHw.cur
           /\ IF avfW.go
              THEN /\ avfP' = r.p /\ avfHw' = r.hw
                   /\ avfG' = [AvfQuiet EXCEPT !.slip = @ \/ slip,
                                  !.faults = IF slip THEN @ + 1 ELSE @,
                                  !.lost = @ \/ AvfShort(avfP, avfW),
                                  !.strag = @ \/ AvfStraggle(r.n)]
              ELSE ~slip /\ UNCHANGED <<avfP, avfHw>> /\ avfG' = AvfQuiet
    /\ avfW' = AvfNoTask
    /\ UNCHANGED <<avfTask, avfStop>>

\* ais_vfe_handle_bus_wr_irq: done buffers, bus error, reset answered
AvfWorkBus ==
    /\ avfW.kind = "bus"
    /\ LET busy == avfW.go /\ avfW.done /\ avfW.addr # 0
           d == IF busy THEN AvfDone(avfP, avfW.addr) ELSE [p |-> avfP, out |-> <<>>]
           r == IF busy THEN AvfQBufs(d.p, avfHw, FALSE)
                ELSE [p |-> avfP, hw |-> avfHw, n |-> 0]
           e == AvfError(r.p, r.hw, avfW.go /\ avfW.err)
       IN /\ avfP' = e.p /\ avfHw' = e.hw
          /\ avfG' = [AvfQuiet EXCEPT !.out = d.out, !.id = AvfMaxId(d.out, @),
                         !.user = @ \cup {d.out[i].b : i \in 1..Len(d.out)},
                         !.strag = @ \/ AvfStraggle(r.n) \/ (avfW.go /\ avfW.err /\ avfP.state # "stream")]
    /\ avfStop' = [avfStop EXCEPT !.cmpl = @ \/ (avfW.rst /\ avfStop.wait)]
    /\ avfW' = AvfNoTask
    /\ UNCHANGED avfTask

\* the same with an enqueue in between: the done descriptor is put back without
\* buffer_lock, and when it meets the removal of the list's only element it is lost
AvfWorkBusRace(b) ==
    /\ avfW.kind = "bus" /\ avfW.go /\ avfW.done /\ ~avfW.err /\ ~avfW.rst
    /\ ~avfStop.wait /\ avfP.state = "stream"
    /\ avfP.free = 1 /\ avfP.hwq # <<>> /\ AvfMayFault
    /\ b \in avfG.user /\ \A c \in avfG.user : b <= c
    /\ LET d == AvfDone(avfP, avfW.addr)
           r == AvfQBufs(d.p, avfHw, FALSE)
       IN /\ avfP' = [r.p EXCEPT !.free = @ - 2, !.q = Append(@, b)]
          /\ avfHw' = r.hw
          /\ avfG' = [AvfQuiet EXCEPT !.out = d.out, !.id = AvfMaxId(d.out, @),
                         !.user = (@ \ {b}) \cup {d.out[i].b : i \in 1..Len(d.out)},
                         !.filled[b] = 0, !.faults = @ + 1, !.leak = @ + 1]
    /\ avfW' = AvfNoTask
    /\ UNCHANGED <<avfTask, avfStop>>

\* ais_vfe_handle_error from an overflow
AvfWorkErr ==
    /\ avfW.kind = "err"
    /\ LET e == AvfError(avfP, avfHw, avfW.go)
       IN avfP' = e.p /\ avfHw' = e.hw
    /\ avfG' = [AvfQuiet EXCEPT !.strag = @ \/ (avfW.go /\ avfP.state # "stream")]
    /\ avfW' = AvfNoTask
    /\ UNCHANGED <<avfTask, avfStop>>

AvfNext ==
    \/ \E b \in AvfIds : AvfEnq(b) \/ AvfWorkBusRace(b)
    \/ AvfStart \/ AvfStopBegin \/ AvfStopEnd
    \/ AvfFrameStart \/ AvfFrameEnd \/ AvfFault \/ AvfHwReset
    \/ AvfIrq \/ AvfTake \/ AvfWorkSof \/ AvfWorkBus \/ AvfWorkErr

AvfSpec == AvfInit /\ [][AvfNext]_avfVars

-----------------------------------------------------------------------------
\* A FRAME_DONE message is only sent for a buffer the hardware has filled since it
\* was enqueued, whatever interrupts were merged or dropped
\* (ais_vfe_bus_handle_client_frame_done pops up to the last address).
AvfFilled ==
    AvfSpoilt \/ \A i \in 1..Len(avfG.out) : avfG.filled[avfG.out[i].b] # 0

\* The time a FRAME_DONE message names is the time of the very frame that is in the
\* buffer, also when interrupts were merged and buffers ran out in between, as long
\* as no start-of-frame event was dropped and no frame started inside a refill.
AvfRight ==
    \/ AvfSpoilt \/ avfG.lost \/ avfG.slip
    \/ \A i \in 1..Len(avfG.out) :
          LET m == avfG.out[i] IN m.ts = avfG.filled[m.b]

\* Every address the write master holds belongs to a buffer the driver has not given
\* back, in the order of buffer_hw_q: the hardware never writes into a user's buffer.
AvfKept ==
    \/ AvfSpoilt
    \/ LET held == (IF avfHw.wr = 0 THEN <<>> ELSE <<avfHw.wr>>) \o avfHw.fifo
           n == Len(avfP.hwq)
       IN /\ Len(held) <= n
          /\ \A i \in 1..Len(held) : held[i] = avfP.hwq[n - Len(held) + i].b

\* Frame numbers of FRAME_DONE messages only grow within a stream: no frame is
\* reported twice, within one bottom half or across them (a message without a
\* record has number 0), whatever was lost or came late.
AvfNewer ==
    LET out == avfG'.out IN
    \A i \in 1..Len(out) : out[i].id # 0 =>
       /\ out[i].id > avfG.id
       /\ \A j \in 1..(i - 1) : out[j].id < out[i].id

\* No descriptor and no record gets lost, whatever path it takes through the queues;
\* the only leak is the unlocked put that meets an enqueue.
AvfConserved ==
    /\ avfP.free + Len(avfP.q) + Len(avfP.hwq) + avfG.leak = AvfBufs
    /\ avfP.sofFree + Len(avfP.sofq) = AvfSofs

\* ais_vfe_stop's wait is a barrier: when it ends by the answer, no bottom half of the
\* stopped stream is still to act on the path's queues.
AvfBarrier ==
    avfStop.wait /\ avfStop.cmpl /\ ~avfStop'.wait => ~avfW.go \/ avfW = AvfNoTask

-----------------------------------------------------------------------------
(***************************************************************************)
(* The automotive IFE device (ais_ife_dev.c) and the two halves it drives:  *)
(* the CSID (ais_ife_csid_core.c) with its receiver and RDI paths, and the  *)
(* VFE (ais_vfe_core.c) with its outputs.  Commands are serialised by the   *)
(* device mutex and are one step each; the CSID interrupt, its work items   *)
(* and the VFE's error work run between them.                               *)
(***************************************************************************)

CONSTANTS
    AdvPaths,    \* RDI paths
    AdvDrop,     \* init_frame_drop of a path: frames the CSID swallows at first
    AdvMaxErr,   \* AIS_IFE_CSID_MAX_IRQ_ERROR_COUNT
    AdvTasks,    \* AIS_CSID_WORKQ_NUM_TASK
    AdvOpens,    \* bound: opens of the device node
    AdvCmds,     \* bound: reserve commands
    AdvErrs,     \* bound: error interrupts
    AdvFaults    \* bound: commands of the hardware that fail

VARIABLES
    advFh,       \* open_cnt of the device
    advC,        \* struct ais_ife_csid_hw and the receiver and path registers
    advV,        \* struct ais_vfe_hw_core_info
    advTask,     \* work items of the CSID
    advG         \* bounds, and the history the properties name

advVars == <<advFh, advC, advV, advTask, advG>>

AdvAll(x) == [p \in AdvPaths |-> x]

\* the CSID as ais_ife_csid_hw_probe_init leaves it
AdvCsid0 == [open |-> 0, pwr |-> FALSE, rx |-> 0, rxOn |-> FALSE, dev |-> FALSE, err |-> 0,
             fatal |-> FALSE, halt |-> FALSE, st |-> AdvAll("avail"), run |-> AdvAll(FALSE),
             drop |-> AdvAll(0), sofs |-> AdvAll(0), fix |-> FALSE, ipp |-> FALSE]

AdvInit ==
    /\ advFh = 0
    /\ advC = AdvCsid0
    /\ advV = [open |-> 0, pwr |-> FALSE, st |-> AdvAll("avail")]
    /\ advTask = <<>>
    /\ advG = [opens |-> 0, cmds |-> 0, errs |-> 0, faults |-> 0, ses |-> 0, told |-> FALSE,
               over |-> FALSE, stale |-> 0, oldFix |-> FALSE, ovf |-> {}, loose |-> {}, mute |-> FALSE,
               last |-> <<"none", 0>>]

AdvReserved(c) == {p \in AdvPaths : c.st[p] # "avail"}
AdvMayFail == advG.faults < AdvFaults

-----------------------------------------------------------------------------
\* CSID operations, on the CSID's record.

\* ais_ife_csid_global_reset: registers and paths as after power on; the count of
\* receiver users, csi2_cfg_cnt, and ipp_fix_cfg are not among what it resets
AdvGlobalReset(c) ==
    [c EXCEPT !.rxOn = FALSE, !.ipp = FALSE, !.halt = FALSE, !.err = 0, !.st = AdvAll("avail"),
              !.run = AdvAll(FALSE), !.sofs = AdvAll(0)]

\* ais_ife_csid_enable_hw
AdvEnable(c, ok) ==
    IF c.open > 0 THEN [c |-> [c EXCEPT !.open = @ + 1], ok |-> TRUE]
    ELSE IF ok THEN [c |-> [AdvGlobalReset(c) EXCEPT !.open = 1, !.pwr = TRUE], ok |-> TRUE]
    ELSE [c |-> AdvGlobalReset(c), ok |-> FALSE]

\* ais_ife_csid_disable_hw: the last user's disable resets and powers down
AdvDisable(c) ==
    IF c.open = 0 THEN c
    ELSE IF c.open > 1 THEN [c EXCEPT !.open = @ - 1]
    ELSE [AdvGlobalReset(c) EXCEPT !.open = 0, !.pwr = FALSE, !.dev = FALSE, !.fatal = FALSE]

\* ais_ife_csid_enable_csi2: only the first user programs the receiver
AdvEnableCsi2(c) == [c EXCEPT !.rx = @ + 1, !.rxOn = @ \/ c.rx = 0]

\* ais_ife_csid_disable_csi2
AdvDisableCsi2(c) ==
    LET n == IF c.rx = 0 THEN 0 ELSE c.rx - 1
    IN [c EXCEPT !.rx = n, !.rxOn = @ /\ n > 0]

\* ais_ife_csid_config_rdi_path: the path halted and programmed; the second path of a
\* virtual channel and format (all paths here share them) has the pixel path programmed
\* with the format too, unless ipp_fix_cfg says it is
AdvConfigPath(c, p) ==
    LET pair == ~c.fix /\ \E q \in AdvPaths \ {p} : c.st[q] # "avail"
    IN [c EXCEPT !.st[p] = "init", !.drop[p] = AdvDrop, !.run[p] = FALSE,
                 !.fix = @ \/ pair, !.ipp = @ \/ pair]

\* ais_ife_csid_deinit_rdi_path
AdvDeinitPath(c, p) ==
    LET mates == {q \in AdvPaths \ {p} : c.st[q] # "avail"}
    IN [c EXCEPT !.st[p] = "avail", !.fix = @ /\ Cardinality(mates) > 1]

\* ais_ife_csid_enable_rdi_path: let frames through at once or after the first ones
AdvEnablePath(c, p) ==
    [c EXCEPT !.st[p] = "stream", !.sofs[p] = 0, !.run[p] = @ \/ c.drop[p] = 0]

\* ais_ife_csid_disable_rdi_path
AdvDisablePath(c, p) ==
    IF c.st[p] = "stream" THEN [c EXCEPT !.st[p] = "init", !.run[p] = FALSE] ELSE c

\* ais_ife_csid_reserve
AdvCsidReserve(c, p, ok) ==
    IF c.st[p] # "avail" THEN [c |-> c, ok |-> FALSE]
    ELSE LET d == AdvEnableCsi2(c)
         IN IF ~ok /\ ~c.dev THEN [c |-> AdvDisableCsi2(d), ok |-> FALSE]
            ELSE [c |-> AdvConfigPath([d EXCEPT !.dev = TRUE], p), ok |-> TRUE]

\* ais_ife_csid_release
AdvCsidRelease(c, p) ==
    IF c.st[p] = "avail" THEN c ELSE AdvDisableCsi2(AdvDeinitPath(c, p))

-----------------------------------------------------------------------------
\* VFE operations.

\* ais_vfe_reset: every path available
AdvVfeReset(v) == [v EXCEPT !.st = AdvAll("avail")]

\* ais_vfe_init_hw
AdvVfeInit(v, ok) ==
    IF v.open > 0 THEN [v |-> [v EXCEPT !.open = @ + 1], ok |-> TRUE]
    ELSE IF ok THEN [v |-> [AdvVfeReset(v) EXCEPT !.open = 1, !.pwr = TRUE], ok |-> TRUE]
    ELSE [v |-> AdvVfeReset(v), ok |-> FALSE]

\* ais_vfe_deinit_hw
AdvVfeDeinit(v) ==
    IF v.open = 0 THEN v
    ELSE IF v.open > 1 THEN [v EXCEPT !.open = @ - 1]
    ELSE [AdvVfeReset(v) EXCEPT !.open = 0, !.pwr = FALSE]

-----------------------------------------------------------------------------
\* Commands of the device node.

\* what history keeps of a command that took the CSID from c to d: a power down ends the
\* session of the error messages; a forced one, or one that came too early, leaves
\* csi2_cfg_cnt and ipp_fix_cfg as they were
AdvAfter(g, c, d, cmd) ==
    LET torn == g.over \/ cmd[1] \in {"force", "stray"}
    IN IF c.pwr /\ ~d.pwr
       THEN [g EXCEPT !.ses = @ + 1, !.told = FALSE, !.ovf = {}, !.loose = {}, !.mute = FALSE,
                      !.stale = IF torn THEN d.rx ELSE @,
                      !.oldFix = IF torn THEN d.fix ELSE @, !.last = cmd]
       ELSE [g EXCEPT !.last = cmd]

\* ais_ife_subdev_open
AdvOpen ==
    /\ advG.opens < AdvOpens
    /\ advFh' = advFh + 1
    /\ advG' = [advG EXCEPT !.opens = @ + 1, !.last = <<"none", 0>>]
    /\ UNCHANGED <<advC, advV, advTask>>

\* ais_ife_csid_force_reset and ais_vfe_force_reset
AdvForce(cmd) ==
    LET c == AdvDisable([advC EXCEPT !.open = IF @ > 0 THEN 1 ELSE 0])
    IN /\ advC' = c
       /\ advV' = AdvVfeDeinit([advV EXCEPT !.open = IF @ > 0 THEN 1 ELSE 0])
       /\ advG' = [AdvAfter(advG, advC, c, cmd) EXCEPT !.over = FALSE]

\* ais_ife_subdev_close: the last one resets both halves
AdvClose ==
    /\ advFh > 0
    /\ advFh' = advFh - 1
    /\ IF advFh = 1 THEN AdvForce(<<"force", 0>>)
       ELSE advG' = [advG EXCEPT !.last = <<"none", 0>>] /\ UNCHANGED <<advC, advV>>
    /\ UNCHANGED advTask

\* ais_ife_driver_cmd, AIS_IFE_RESET
AdvReset ==
    /\ advFh > 0 /\ advC.open > 0
    /\ AdvForce(<<"force", 0>>)
    /\ UNCHANGED <<advFh, advTask>>

\* ais_ife_cmd_reserve: four steps, undone in reverse order when one fails
AdvReserve(p) ==
    /\ advFh > 0 /\ advG.cmds < AdvCmds
    /\ \E bad \in {"no", "csid", "vfe", "retain"} :
        LET c1 == AdvEnable(advC, bad # "csid")
            v1 == AdvVfeInit(advV, bad # "vfe")
            c2 == AdvCsidReserve(c1.c, p, bad # "retain")
            v2 == [v1.v EXCEPT !.st[p] = "init"]
            okAll == c1.ok /\ v1.ok /\ c2.ok /\ v1.v.st[p] = "avail"
            c == IF ~c1.ok THEN c1.c
                 ELSE IF ~v1.ok THEN AdvDisable(c1.c)
                 ELSE IF ~c2.ok THEN AdvDisable(c2.c)
                 ELSE IF okAll THEN c2.c ELSE AdvDisable(AdvCsidRelease(c2.c, p))
            v == IF ~c1.ok THEN advV
                 ELSE IF ~v1.ok THEN v1.v
                 ELSE IF okAll THEN v2 ELSE AdvVfeDeinit(v1.v)
        IN /\ bad # "no" => AdvMayFail /\ ~okAll
           /\ advC' = c /\ advV' = v
           /\ advG' = [AdvAfter(advG, advC, c, <<"reserve", p>>) EXCEPT !.cmds = @ + 1,
                          !.loose = IF okAll THEN @ \ {p} ELSE @,
                          !.faults = IF bad = "no" THEN @ ELSE @ + 1]
    /\ UNCHANGED <<advFh, advTask>>

\* ais_ife_cmd_release: all four steps are taken whatever the first ones say, so a
\* release of a path that is not reserved drops another path's references
AdvRelease(p) ==
    LET c == AdvDisable(AdvCsidRelease(advC, p))
        v == AdvVfeDeinit([advV EXCEPT !.st[p] = "avail"])
        stray == advC.st[p] = "avail"
        g == AdvAfter(advG, advC, c, <<IF stray THEN "stray" ELSE "release", p>>)
    IN /\ advFh > 0 /\ advC.open > 0
       /\ advC' = c /\ advV' = v
       /\ advG' = [g EXCEPT !.over = c.pwr /\ (@ \/ stray), !.oldFix = @ /\ c.fix,
                      !.loose = IF c.pwr /\ advC.run[p] THEN @ \cup {p} ELSE @]
       /\ UNCHANGED <<advFh, advTask>>

\* AIS_IFE_START and AIS_IFE_RESUME: ais_vfe_start, ais_ife_csid_start
AdvStart(p) ==
    /\ advV.st[p] = "init"
    /\ advV' = [advV EXCEPT !.st[p] = "stream"]
    /\ advC' = AdvEnablePath(advC, p)
    /\ advG' = [advG EXCEPT !.last = <<"start", p>>, !.ovf = @ \ {p}]
    /\ UNCHANGED <<advFh, advTask>>

\* AIS_IFE_STOP and AIS_IFE_PAUSE: ais_ife_csid_stop, ais_vfe_stop
AdvStop(p) ==
    /\ advC.st[p] = "stream" \/ advV.st[p] \in {"stream", "error"}
    /\ advC' = AdvDisablePath(advC, p)
    /\ advV' = IF advV.st[p] \in {"stream", "error"}
               THEN [advV EXCEPT !.st[p] = "init"] ELSE advV
    /\ advG' = [advG EXCEPT !.last = <<"stop", p>>]
    /\ UNCHANGED <<advFh, advTask>>

-----------------------------------------------------------------------------
\* Interrupts and work.

AdvQuiet == [advG EXCEPT !.last = <<"none", 0>>]

\* ais_ife_csid_irq, a fatal error: ais_ife_csid_halt_csi2 and a work item, if any is free
AdvHalt(c, g) ==
    /\ advC' = [c EXCEPT !.rxOn = FALSE, !.halt = TRUE]
    /\ advTask' = IF Len(advTask) < AdvTasks THEN Append(advTask, advG.ses) ELSE advTask
    /\ advG' = [g EXCEPT !.mute = @ \/ Len(advTask) >= AdvTasks]

\* ais_ife_csid_irq: a receiver error, fatal at once or by number
AdvRxError(fatal) ==
    /\ advC.rxOn /\ advC.dev /\ advG.errs < AdvErrs
    /\ LET g == [AdvQuiet EXCEPT !.errs = @ + 1]
           n == advC.err + 1
       IN IF fatal THEN AdvHalt(advC, g)
          ELSE IF n > AdvMaxErr THEN AdvHalt([advC EXCEPT !.err = 0], g)
          ELSE advC' = [advC EXCEPT !.err = n] /\ advG' = g /\ UNCHANGED advTask
    /\ UNCHANGED <<advFh, advV>>

\* ais_csid_event_dispatch_process: one message until the next power down; a message
\* of a session that is over silences the present one
AdvWork ==
    /\ advTask # <<>>
    /\ advTask' = Tail(advTask)
    /\ advC' = [advC EXCEPT !.fatal = TRUE]
    /\ LET now == Head(advTask) = advG.ses
       IN advG' = [AdvQuiet EXCEPT !.told = @ \/ (now /\ ~advC.fatal),
                                   !.mute = @ \/ ~now]
    /\ UNCHANGED <<advFh, advV>>

\* ais_ife_csid_irq: start of frame while the first frames are swallowed
AdvSof(p) ==
    /\ advC.st[p] = "stream" /\ advC.drop[p] > 0 /\ advC.rxOn
    /\ LET n == advC.sofs[p] + 1
       IN advC' = IF n = advC.drop[p]
                  THEN [advC EXCEPT !.sofs[p] = n, !.drop[p] = 0, !.run[p] = TRUE]
                  ELSE [advC EXCEPT !.sofs[p] = n]
    /\ advG' = AdvQuiet
    /\ UNCHANGED <<advFh, advV, advTask>>

\* ais_ife_csid_irq: the FIFO of a path overflowed, the path is halted and only logged
AdvOverflow(p) ==
    /\ advC.st[p] = "stream" /\ advC.run[p] /\ advG.errs < AdvErrs
    /\ advC' = [advC EXCEPT !.run[p] = FALSE]
    /\ advG' = [AdvQuiet EXCEPT !.errs = @ + 1, !.ovf = @ \cup {p}]
    /\ UNCHANGED <<advFh, advV, advTask>>

\* ais_vfe_handle_error
AdvVfeError(p) ==
    /\ advV.st[p] = "stream" /\ advG.errs < AdvErrs
    /\ advV' = [advV EXCEPT !.st[p] = "error"]
    /\ advG' = [AdvQuiet EXCEPT !.errs = @ + 1]
    /\ UNCHANGED <<advFh, advC, advTask>>

AdvNext ==
    \/ AdvOpen \/ AdvClose \/ AdvReset \/ AdvWork
    \/ \E f \in BOOLEAN : AdvRxError(f)
    \/ \E p \in AdvPaths :
          AdvReserve(p) \/ AdvRelease(p) \/ AdvStart(p) \/ AdvStop(p)
          \/ AdvSof(p) \/ AdvOverflow(p) \/ AdvVfeError(p)

AdvSpec == AdvInit /\ [][AdvNext]_advVars

-----------------------------------------------------------------------------
\* The two halves agree about every path after every command, also after a failed
\* reserve, a forced reset or an error of the VFE: one is available exactly when the
\* other is, and a path streams in the CSID exactly when the VFE streams or has failed.
AdvLockstep ==
    \A p \in AdvPaths :
        /\ (advC.st[p] = "avail") = (advV.st[p] = "avail")
        /\ (advC.st[p] = "stream") = (advV.st[p] \in {"stream", "error"})

\* The open counts of both halves are the number of reserved paths and power follows
\* them, through every failing reserve; only a release of a path that was not reserved
\* (ais_ife_cmd_release drops the references all the same) breaks this.
AdvCounts ==
    /\ advC.pwr = (advC.open > 0) /\ advV.pwr = (advV.open > 0)
    /\ advC.open = advV.open
    /\ advG.over \/ advC.open = Cardinality(AdvReserved(advC))

\* While a path is reserved the CSI-2 receiver is programmed, unless a fatal error has
\* halted it, or csi2_cfg_cnt was left over from before a forced reset: then
\* ais_ife_csid_enable_csi2 takes the receiver for programmed and never programs it.
AdvReceiver ==
    /\ AdvReserved(advC) # {} => advC.rxOn \/ advC.halt \/ advG.stale > 0
    /\ advG.over \/ advC.rx = Cardinality(AdvReserved(advC)) + advG.stale

\* While two paths of one virtual channel are reserved the pixel path has their format,
\* unless ipp_fix_cfg was left over from before a forced reset.
AdvPixel == Cardinality(AdvReserved(advC)) > 1 => advC.ipp \/ advG.oldFix

\* A receiver that a fatal error has halted has been reported to the user once the work
\* is done, unless the work item was lost, or the message of the session before came
\* late and left fatal_err_detected set (ais_csid_event_dispatch_process).
AdvTold == advC.halt /\ advTask = <<>> => advG.told \/ advG.mute

\* In the CSID a path lets frames through exactly when it streams and has swallowed its
\* first frames; an overflow halts it behind the user's back, a release without a stop
\* leaves it running.
AdvRunning ==
    \A p \in AdvPaths :
        \/ p \in advG.ovf \cup advG.loose
        \/ advC.run[p] = (advC.st[p] = "stream" /\ advC.drop[p] = 0)

\* A path leaves the streaming state only by a command for it, a reset or the last
\* close, or by an error of its own: no other path's command takes it down, as long as
\* no reference was dropped for a path that was not reserved.
AdvOwn ==
    \A p \in AdvPaths :
       advC.st[p] = "stream" /\ advC'.st[p] # "stream" =>
          \/ advG'.last[1] = "force" \/ advG'.last[1] = "stray" \/ advG.over
          \/ advG'.last[2] = p

\* A path reports each buffer once, filled, with the right frame, and loses no
\* descriptor; the halves of the device change in lock step, and no path stops
\* another.
AisCorrect ==
    [][/\ (AvfFilled /\ AvfRight /\ AvfKept /\ AvfConserved)' /\ [AvfNewer /\ AvfBarrier]_avfVars
       /\ (AdvLockstep /\ AdvCounts /\ AdvReceiver /\ AdvPixel /\ AdvTold /\ AdvRunning)'
       /\ [AdvOwn]_advVars]_<<avfVars, advVars>>
=============================================================================
