------------------------------- MODULE CamCci -------------------------------
(***************************************************************************)
(* One master of the camera control interface (cam_cci_core.c,             *)
(* cam_cci_soc.c) shared by several clients: who may use its two queues,   *)
(* at which bus frequency, and who powers it. A transaction takes, in the  *)
(* order of the code, the master's mutex, its share of the frequency       *)
(* (master_sem or freq_ref_cnt) and the mutex of a queue; reads and writes *)
(* take them in different orders. What a transfer does comes second.     *)
(***************************************************************************)
EXTENDS Integers, FiniteSets, Sequences

CONSTANTS CciClients,   \* threads
          CciFreqs,     \* valid frequency modes, none of them 0
          CciOps,       \* transactions of a client
          CciFaults     \* failing calls

ASSUME CciAssumption == 0 \notin CciFreqs /\ CciOps \in Nat

VARIABLES
  cciDev,     \* cci_state, ref_count, i2c_freq_mode, is_first_req
  cciSem,     \* master_sem
  cciRef,     \* freq_ref_cnt
  cciMutex,   \* holder of the master's mutex
  cciMq,      \* holders of mutex_q[0], mutex_q[1]
  cciThr,     \* what each thread does
  cciGhost    \* budgets; a transaction shares a frequency nobody holds

cciVars == <<cciDev, cciSem, cciRef, cciMutex, cciMq, cciThr, cciGhost>>

CciNone == "none"
CciIdle == [pc |-> "idle", op |-> "none", f |-> 0, q |-> 0]

CciInit ==
  /\ cciDev = [st |-> "off", ref |-> 0, freq |-> 0, first |-> TRUE, clk |-> FALSE]
  /\ cciSem = 1 /\ cciRef = 0
  /\ cciMutex = CciNone
  /\ cciMq = [q \in {0, 1} |-> CciNone]
  /\ cciThr = [t \in CciClients |-> [on |-> FALSE, ops |-> CciOps, do |-> CciIdle]]
  /\ cciGhost = [faults |-> CciFaults, bare |-> FALSE]

CciDo(t) == cciThr[t].do
CciAt(t, pc) == cciThr[t].do.pc = pc
CciGoto(t, pc) == [cciThr EXCEPT ![t].do.pc = pc]
CciFault(f) == f => cciGhost.faults > 0
CciSpent(f) == [cciGhost EXCEPT !.faults = IF f THEN @ - 1 ELSE @]

(* The transactions that have their share of the frequency *)
CciInside == {t \in CciClients : cciThr[t].do.pc \in {"readq", "xfer", "end"}}

-----------------------------------------------------------------------------
(* MSM_CCI_INIT, under init_mutex; the first one powers the interface, and  *)
(* a failing enable or a reset without an answer takes its count back.      *)
CciPowerUp(t, f) ==
  /\ CciAt(t, "idle") /\ ~cciThr[t].on /\ CciFault(f) /\ (f => cciDev.ref = 0)
  /\ cciDev' = IF f THEN cciDev
               ELSE IF cciDev.ref > 0 THEN [cciDev EXCEPT !.ref = @ + 1]
               ELSE [cciDev EXCEPT !.ref = 1, !.st = "on", !.freq = 0, !.clk = TRUE]
  /\ cciThr' = [cciThr EXCEPT ![t].on = ~f]
  /\ cciGhost' = CciSpent(f)
  /\ UNCHANGED <<cciSem, cciRef, cciMutex, cciMq>>

CciLastUser == cciDev.ref = 1

(* MSM_CCI_RELEASE; the frequency is forgotten, is_first_req is not set     *)
(* again.                                                                   *)
CciPowerDown(t) ==
  /\ CciAt(t, "idle") /\ cciThr[t].on
  /\ cciThr' = [cciThr EXCEPT ![t].on = FALSE]
  /\ cciDev' = IF cciDev.ref = 0 \/ cciDev.st # "on" THEN cciDev
               ELSE IF ~CciLastUser THEN [cciDev EXCEPT !.ref = @ - 1]
               ELSE [cciDev EXCEPT !.ref = @ - 1, !.st = "off", !.freq = 0, !.clk = FALSE]
  /\ UNCHANGED <<cciSem, cciRef, cciMutex, cciMq, cciGhost>>

-----------------------------------------------------------------------------
(* A client asks for a read, a write on whichever queue is free, or a write *)
(* on one queue (a synchronised block, or the worker of asynchronous ones). *)
(* Frequency 0 is an invalid one.                                           *)
CciBegin(t, op, f) ==
  /\ CciAt(t, "idle") /\ cciThr[t].on /\ cciThr[t].ops > 0 /\ cciDev.st = "on"
  /\ cciThr' = [cciThr EXCEPT
                 ![t].ops = @ - 1,
                 ![t].do = [pc |-> CASE op = "read" -> "mutex" [] op = "any" -> "try" [] OTHER -> "lock",
                            op |-> op, f |-> f, q |-> IF op \in {"read", "sync"} THEN 1 ELSE 0]]
  /\ UNCHANGED <<cciDev, cciSem, cciRef, cciMutex, cciMq, cciGhost>>

(* mutex_trylock of one queue after the other, then a lock of the first *)
CciTry(t) ==
  /\ CciAt(t, "try")
  /\ LET q == CciDo(t).q
     IN  IF cciMq[q] = CciNone
           THEN /\ cciMq' = [cciMq EXCEPT ![q] = t]
                /\ cciThr' = CciGoto(t, "mutex")
           ELSE /\ cciThr' = IF q = 0 THEN [cciThr EXCEPT ![t].do.q = 1]
                             ELSE [cciThr EXCEPT ![t].do.q = 0, ![t].do.pc = "lock"]
                /\ UNCHANGED cciMq
  /\ UNCHANGED <<cciDev, cciSem, cciRef, cciMutex, cciGhost>>

CciLock(t) ==
  /\ CciAt(t, "lock") /\ cciMq[CciDo(t).q] = CciNone
  /\ cciMq' = [cciMq EXCEPT ![CciDo(t).q] = t]
  /\ cciThr' = CciGoto(t, "mutex")
  /\ UNCHANGED <<cciDev, cciSem, cciRef, cciMutex, cciGhost>>

CciMutex(t) ==
  /\ CciAt(t, "mutex") /\ cciMutex = CciNone
  /\ cciMutex' = t
  /\ cciThr' = CciGoto(t, "freq")
  /\ UNCHANGED <<cciDev, cciSem, cciRef, cciMq, cciGhost>>

(* Whether the transaction needs the master for itself *)
CciExclusive(t) == cciDev.first \/ CciDo(t).f # cciDev.freq

CciMutexFreed(t) == CciNone

(* With the mutex held: down(master_sem) or a share of the frequency, then  *)
(* cam_cci_set_clk_param, which refuses an invalid frequency.               *)
CciFreq(t) ==
  /\ CciAt(t, "freq")
  /\ (CciExclusive(t) => cciSem > 0)
  /\ cciSem' = IF CciExclusive(t) THEN cciSem - 1 ELSE cciSem
  /\ cciRef' = IF CciExclusive(t) THEN cciRef ELSE cciRef + 1
  /\ cciDev' = [cciDev EXCEPT !.first = FALSE,
                              !.freq = IF CciDo(t).f = 0 THEN @ ELSE CciDo(t).f]
  /\ cciMutex' = CciMutexFreed(t)
  /\ cciThr' = CciGoto(t, IF CciDo(t).f = 0 THEN "end"
                          ELSE IF CciDo(t).op = "read" THEN "readq" ELSE "xfer")
  /\ cciGhost' = [cciGhost EXCEPT !.bare = @ \/ (~CciExclusive(t) /\ cciSem > 0)]
  /\ UNCHANGED cciMq

CciReadQ(t) ==
  /\ CciAt(t, "readq") /\ cciMq[1] = CciNone
  /\ cciMq' = [cciMq EXCEPT ![1] = t]
  /\ cciThr' = CciGoto(t, "xfer")
  /\ UNCHANGED <<cciDev, cciSem, cciRef, cciMutex, cciGhost>>

(* The transfer, of any outcome; a read gives its queue back here. *)
CciXfer(t) ==
  /\ CciAt(t, "xfer")
  /\ cciMq' = IF CciDo(t).op = "read" THEN [cciMq EXCEPT ![1] = CciNone] ELSE cciMq
  /\ cciThr' = CciGoto(t, "end")
  /\ UNCHANGED <<cciDev, cciSem, cciRef, cciMutex, cciGhost>>

CciSemUp == IF cciRef = 0 THEN cciSem + 1 ELSE cciSem

(* The share is given back; a write gives its queue back after it. *)
CciEnd(t) ==
  /\ CciAt(t, "end")
  /\ cciSem' = CciSemUp
  /\ cciRef' = IF cciRef = 0 THEN 0 ELSE cciRef - 1
  /\ cciMq' = IF CciDo(t).op = "read" THEN cciMq ELSE [cciMq EXCEPT ![CciDo(t).q] = CciNone]
  /\ cciThr' = [cciThr EXCEPT ![t].do = CciIdle]
  /\ cciGhost' = [cciGhost EXCEPT !.bare = @ /\ CciInside # {t}]
  /\ UNCHANGED <<cciDev, cciMutex>>

-----------------------------------------------------------------------------
CciNext ==
  \E t \in CciClients :
    \/ \E f \in BOOLEAN : CciPowerUp(t, f)
    \/ CciPowerDown(t)
    \/ \E op \in {"read", "any", "async", "sync"}, f \in CciFreqs \cup {0} : CciBegin(t, op, f)
    \/ CciTry(t) \/ CciLock(t) \/ CciMutex(t) \/ CciFreq(t) \/ CciReadQ(t)
    \/ CciXfer(t) \/ CciEnd(t)

CciSpec == CciInit /\ [][CciNext]_cciVars

-----------------------------------------------------------------------------
(* What is taken of the frequency is what the transactions inside hold: the *)
(* semaphore is down or a share is counted for each, whoever leaves first,  *)
(* so that with none inside it is free again.                               *)
CciBalance == (1 - cciSem) + cciRef = Cardinality(CciInside) /\ cciSem \in {0, 1}

(* Everyone inside runs at the frequency it asked for, in all cases but     *)
(* one: a request for the frequency last used takes a share although        *)
(* master_sem is free (only the very first request and changes take it), so *)
(* the next change does not wait for it.                                    *)
CciOneFreq ==
  ~cciGhost.bare => \A t \in CciInside : CciDo(t).f \in {0, cciDev.freq}

(* A read that has its share waits for queue 1, which a write has that is   *)
(* not inside yet, and whoever holds the mutex (that write or another)      *)
(* waits for the share: the two orders cross, and none goes on.             *)
CciKnot ==
  \E r, w, h \in CciClients :
    /\ CciAt(r, "readq") /\ cciMq[1] = w /\ CciDo(w).pc \in {"mutex", "freq"}
    /\ cciMutex = h /\ CciExclusive(h) /\ cciSem = 0

(* Unless reads and writes have crossed, someone can always go on.          *)
CciNoWedge ==
  (\E t \in CciClients : ~CciAt(t, "idle")) /\ ~CciKnot =>
    \E t \in CciClients :
      \/ CciDo(t).pc \in {"try", "xfer", "end"}
      \/ CciAt(t, "lock") /\ cciMq[CciDo(t).q] = CciNone
      \/ CciAt(t, "mutex") /\ cciMutex = CciNone
      \/ CciAt(t, "freq") /\ (CciExclusive(t) => cciSem > 0)
      \/ CciAt(t, "readq") /\ cciMq[1] = CciNone

(* The interface is powered while a client has it initialised.              *)
CciPowered == (\E t \in CciClients : cciThr[t].on) => cciDev.clk

-----------------------------------------------------------------------------
(***************************************************************************)
(* One queue of the camera control interface (cam_cci_core.c) with the     *)
(* interrupt handler (cam_cci_irq): writes that feed the hardware queue    *)
(* faster than the bus empties it, reads, timeouts, errors on the bus, and *)
(* the completions between handler and caller. Transactions are one at a   *)
(* time (mutex_q); the handler and the hardware run beside them. The       *)
(* hardware is external: it consumes the queue in order, and a report      *)
(* command in it raises an interrupt.                                      *)
(***************************************************************************)

CONSTANTS CcqMax,        \* max_queue_size
          CcqCmds,       \* register writes of a transaction
          CcqOps,        \* transactions
          CcqTimeouts,   \* waits that run out
          CcqErrors      \* errors on the bus

ASSUME CcqAssumption == CcqMax \in Nat /\ CcqMax > 5

VARIABLES
  ccqTx,     \* the transaction: id, where it is, commands to load, kind
  ccqDrv,    \* q_free, done_pending, completions, status, reset_pending
  ccqHw,     \* the queue, running, read buffer, raised interrupts
  ccqGhost   \* budgets, what went wrong before, how the last one ended

ccqVars == <<ccqTx, ccqDrv, ccqHw, ccqGhost>>

CcqInit ==
  /\ ccqTx = [id |-> 0, pc |-> "idle", todo |-> 0, seq |-> FALSE]
  /\ ccqDrv = [free |-> 0, done |-> 0, report |-> 0, rd |-> 0, reset |-> 0,
               bad |-> FALSE, pending |-> FALSE]
  /\ ccqHw = [q |-> <<>>, run |-> FALSE, buf |-> <<>>, irq |-> {}]
  /\ ccqGhost = [timeouts |-> CcqTimeouts, errors |-> CcqErrors,
                 upset |-> FALSE,   \* a wait ran out or the bus failed
                 delay |-> FALSE,   \* some command had a delay
                 got |-> 0]         \* whose data the last read returned

CcqCur == Len(ccqHw.q)
CcqLoaded(items) == ccqHw.q \o items
CcqItem(kind) == <<kind, ccqTx.id>>
CcqReport == <<"report", 0>>

-----------------------------------------------------------------------------
(* The hardware takes the next item; a register write or a read may fail on *)
(* the bus.                                                                 *)
CcqConsume(f) ==
  /\ ccqHw.run /\ ccqHw.q # <<>>
  /\ LET x == Head(ccqHw.q)
     IN  /\ (f => ccqGhost.errors > 0 /\ x[1] \in {"write", "read"})
         /\ ccqHw' = [ccqHw EXCEPT
              !.q = Tail(@),
              !.run = ~f /\ Len(ccqHw.q) > 1,
              !.buf = IF x[1] = "read" /\ ~f THEN Append(@, x[2]) ELSE @,
              !.irq = @ \cup (IF f THEN {"error"}
                              ELSE IF x[1] = "report" THEN {"report"}
                              ELSE IF x[1] = "read" THEN {"rd"} ELSE {})]
  /\ ccqGhost' = IF f THEN [ccqGhost EXCEPT !.errors = @ - 1, !.upset = TRUE] ELSE ccqGhost
  /\ UNCHANGED <<ccqTx, ccqDrv>>

(* A reset requested of the hardware empties queue and read buffer. *)
CcqResetHw(h) == [h EXCEPT !.q = <<>>, !.run = FALSE, !.buf = <<>>, !.irq = {"reset"}]

(* The handler's part for a report, under lock_q *)
CcqReported(d) ==
  [d EXCEPT !.free = 0, !.bad = FALSE, !.report = @ + d.done, !.done = 0]

(* cam_cci_irq: reset done, read done, report, halted, error, in this order *)
CcqIrq ==
  /\ ccqHw.irq # {}
  /\ LET on(i) == i \in ccqHw.irq
         d1 == IF on("reset") /\ ccqDrv.pending
                 THEN [ccqDrv EXCEPT !.pending = FALSE, !.reset = @ + 1, !.bad = FALSE]
                 ELSE ccqDrv
         d2 == IF on("rd") THEN [d1 EXCEPT !.bad = FALSE, !.rd = @ + 1] ELSE d1
         d3 == IF on("report") THEN CcqReported(d2) ELSE d2
         d4 == IF on("halt") THEN [d3 EXCEPT !.pending = TRUE] ELSE d3
         d5 == IF on("error") THEN [d4 EXCEPT !.bad = TRUE, !.rd = @ + 1] ELSE d4
         h == [ccqHw EXCEPT !.irq = IF on("error") THEN {"halt"} ELSE {}]
     IN  /\ ccqDrv' = d5
         /\ ccqHw' = IF on("halt") THEN CcqResetHw(h) ELSE h
  /\ UNCHANGED <<ccqTx, ccqGhost>>

-----------------------------------------------------------------------------
(* cam_cci_load_report_cmd and the start of the queue *)
CcqKick(waits) ==
  /\ ccqHw' = [ccqHw EXCEPT !.q = Append(@, CcqReport), !.run = TRUE]
  /\ ccqDrv' = [ccqDrv EXCEPT !.free = 1, !.done = IF waits THEN 1 ELSE @]

CcqTo(pc) == ccqTx' = [ccqTx EXCEPT !.pc = pc]

(* A read or a write begins: cam_cci_validate_queue runs what an earlier    *)
(* one left in the queue. A read forgets a reset reported before, though    *)
(* not a finished read.                                                     *)
CcqBegin(kind, n, seq) ==
  /\ ccqTx.pc = "idle" /\ ccqTx.id < CcqOps
  /\ LET d == IF kind = "read" THEN [ccqDrv EXCEPT !.reset = 0] ELSE ccqDrv
     IN  IF CcqCur > 0
           THEN /\ ccqTx' = [id |-> ccqTx.id + 1, pc |-> kind \o "check", todo |-> n, seq |-> seq]
                /\ ccqHw' = [ccqHw EXCEPT !.q = Append(@, CcqReport), !.run = TRUE]
                /\ ccqDrv' = [d EXCEPT !.free = 1, !.done = 1]
           ELSE /\ ccqTx' = [id |-> ccqTx.id + 1, pc |-> kind, todo |-> n, seq |-> seq]
                /\ ccqDrv' = d
                /\ UNCHANGED ccqHw
  /\ ccqGhost' = [ccqGhost EXCEPT !.got = 0]

(* cam_cci_data_queue: the parameters, then one command after the other *)
CcqParam ==
  /\ ccqTx.pc = "write"
  /\ ccqHw' = [ccqHw EXCEPT !.q = CcqLoaded(<<CcqItem("param")>>)]
  /\ ccqDrv' = [ccqDrv EXCEPT !.free = 0]
  /\ CcqTo("loop") /\ UNCHANGED ccqGhost

CcqLimit == IF ccqTx.seq THEN CcqMax ELSE CcqMax \div 2

(* No room for a command and a report *)
CcqFull == CcqCur + 2 > CcqMax

(* The queue is full: wait for the report that is under way, or load one *)
CcqWaitFull ==
  /\ ccqTx.pc = "loop" /\ ccqTx.todo > 0 /\ CcqCur + 2 > CcqLimit /\ CcqFull
  /\ IF ccqDrv.free = 1
       THEN ccqDrv' = [ccqDrv EXCEPT !.done = 1] /\ UNCHANGED ccqHw
       ELSE CcqKick(TRUE)
  /\ CcqTo("fullwait") /\ UNCHANGED ccqGhost

(* Load a command and its delay; past half the queue, start it first. *)
CcqLoad(delay) ==
  /\ ccqTx.pc = "loop" /\ ccqTx.todo > 0 /\ ~(CcqCur + 2 > CcqLimit /\ CcqFull)
  /\ LET half == CcqCur + 2 > CcqLimit /\ ccqDrv.free = 0
     IN  /\ ccqHw' = [ccqHw EXCEPT
              !.q = @ \o (IF half THEN <<CcqReport>> ELSE <<>>) \o <<CcqItem("write")>>
                      \o (IF delay THEN <<CcqItem("delay")>> ELSE <<>>),
              !.run = @ \/ half]
         /\ ccqDrv' = IF half THEN [ccqDrv EXCEPT !.free = 1] ELSE ccqDrv
  /\ ccqTx' = [ccqTx EXCEPT !.todo = @ - 1]
  /\ ccqGhost' = [ccqGhost EXCEPT !.delay = @ \/ delay]

(* Mutant: the last report is the one under way. *)
CcqEndPcEarly == "lastwait"

CcqEndPc == IF ccqDrv.free = 1 THEN "endwait" ELSE "lastwait"

(* cam_cci_transfer_end: a report under way is waited for, then another one *)
(* follows what was loaded behind it.                                       *)
CcqEnd ==
  /\ ccqTx.pc = "loop" /\ ccqTx.todo = 0
  /\ IF ccqDrv.free = 1
       THEN ccqDrv' = [ccqDrv EXCEPT !.done = 1] /\ UNCHANGED ccqHw
       ELSE CcqKick(TRUE)
  /\ CcqTo(CcqEndPc) /\ UNCHANGED ccqGhost

CcqEndAgain ==
  /\ ccqTx.pc = "again"
  /\ CcqKick(TRUE) /\ CcqTo("lastwait") /\ UNCHANGED ccqGhost

CcqReadPc == "readwait"

(* cam_cci_read: the command, started at once *)
CcqRead ==
  /\ ccqTx.pc = "read"
  /\ ccqHw' = [ccqHw EXCEPT !.q = CcqLoaded(<<CcqItem("param"), CcqItem("read")>>),
                            !.run = TRUE]
  /\ CcqTo(CcqReadPc) /\ UNCHANGED <<ccqDrv, ccqGhost>>

-----------------------------------------------------------------------------
CcqWaits == {"writecheck", "readcheck", "fullwait", "endwait", "lastwait"}

CcqAfter(pc) ==
  CASE pc = "writecheck" -> "write"
    [] pc = "readcheck" -> "read"
    [] pc = "fullwait" -> "loop"
    [] pc = "endwait" -> "again"
    [] pc = "lastwait" -> "ok"

(* cam_cci_wait, answered: an error the handler has left is returned. *)
CcqAnswered ==
  /\ ccqTx.pc \in CcqWaits /\ ccqDrv.report > 0
  /\ ccqDrv' = [ccqDrv EXCEPT !.report = @ - 1]
  /\ CcqTo(IF ccqDrv.bad THEN "fail" ELSE CcqAfter(ccqTx.pc))
  /\ UNCHANGED <<ccqHw, ccqGhost>>

(* rd_done; with an error left, the reset is waited for too. *)
CcqReadDone ==
  /\ ccqTx.pc = "readwait" /\ ccqDrv.rd > 0
  /\ ccqDrv' = [ccqDrv EXCEPT !.rd = @ - 1]
  /\ CcqTo(IF ccqDrv.bad THEN "readreset" ELSE "collect")
  /\ UNCHANGED <<ccqHw, ccqGhost>>

CcqReadReset ==
  /\ ccqTx.pc = "readreset" /\ ccqDrv.reset > 0
  /\ ccqDrv' = [ccqDrv EXCEPT !.reset = @ - 1]
  /\ CcqTo("collect") /\ UNCHANGED <<ccqHw, ccqGhost>>

(* A wait runs out: cam_cci_flush_queue halts and waits for the reset, then *)
(* resets itself and waits again. A read whose reset does not come goes on. *)
CcqTimeout ==
  /\ ccqGhost.timeouts > 0
  /\ ccqGhost' = [ccqGhost EXCEPT !.timeouts = @ - 1, !.upset = TRUE]
  /\ \/ /\ \/ ccqTx.pc \in CcqWaits /\ ccqDrv.report = 0
           \/ ccqTx.pc = "readwait" /\ ccqDrv.rd = 0
        /\ ccqHw' = [ccqHw EXCEPT !.irq = @ \cup {"halt"}, !.run = FALSE]
        /\ CcqTo("flush") /\ UNCHANGED ccqDrv
     \/ /\ ccqTx.pc = "flush" /\ ccqDrv.reset = 0
        /\ ccqDrv' = [ccqDrv EXCEPT !.pending = TRUE]
        /\ ccqHw' = CcqResetHw(ccqHw)
        /\ CcqTo("flush2")
     \/ /\ ccqTx.pc = "flush2" /\ ccqDrv.reset = 0
        /\ CcqTo("fail") /\ UNCHANGED <<ccqDrv, ccqHw>>
     \/ /\ ccqTx.pc = "readreset" /\ ccqDrv.reset = 0
        /\ CcqTo("collect") /\ UNCHANGED <<ccqDrv, ccqHw>>

CcqFlushed ==
  /\ ccqTx.pc \in {"flush", "flush2"} /\ ccqDrv.reset > 0
  /\ ccqDrv' = [ccqDrv EXCEPT !.reset = @ - 1]
  /\ CcqTo("fail") /\ UNCHANGED <<ccqHw, ccqGhost>>

(* The buffer holds as many words as were asked for. *)
CcqExpected(b) == Len(b) = 1

(* The data, or an error that leaves the buffer as it is *)
CcqCollect ==
  /\ ccqTx.pc = "collect"
  /\ IF CcqExpected(ccqHw.buf)
       THEN /\ ccqHw' = [ccqHw EXCEPT !.buf = Tail(@)]
            /\ ccqGhost' = [ccqGhost EXCEPT !.got = Head(ccqHw.buf)]
            /\ CcqTo("ok")
       ELSE CcqTo("fail") /\ UNCHANGED <<ccqHw, ccqGhost>>
  /\ UNCHANGED ccqDrv

(* The caller has its answer. *)
CcqReturn ==
  /\ ccqTx.pc \in {"ok", "fail"}
  /\ CcqTo("idle") /\ UNCHANGED <<ccqDrv, ccqHw, ccqGhost>>

-----------------------------------------------------------------------------
CcqNext ==
  \/ \E f \in BOOLEAN : CcqConsume(f) \/ CcqLoad(f)
  \/ \E n \in 1..CcqCmds, seq \in BOOLEAN : CcqBegin("write", n, seq)
  \/ CcqBegin("read", 0, FALSE)
  \/ CcqIrq \/ CcqParam \/ CcqWaitFull \/ CcqEnd \/ CcqEndAgain \/ CcqRead
  \/ CcqAnswered \/ CcqReadDone \/ CcqReadReset \/ CcqTimeout \/ CcqFlushed
  \/ CcqCollect \/ CcqReturn

CcqSpec == CcqInit /\ [][CcqNext]_ccqVars

-----------------------------------------------------------------------------
(* A write that reports success has had every command of it on the bus.     *)
(* After a timeout or a bus error this no longer holds: done_pending and    *)
(* the completions are not reset, and a report of the past answers the      *)
(* next wait.                                                               *)
CcqWritten ==
  ccqTx.pc = "ok" /\ ~ccqGhost.upset =>
    \A i \in 1..CcqCur : ccqHw.q[i] # <<"write", ccqTx.id>>

(* A read that reports success returns its own data, with the same          *)
(* exception: a failed write completes rd_done, which the next read takes   *)
(* for its own, and the one after it may then find that read's data.        *)
CcqOwnData ==
  ccqTx.pc = "ok" /\ ~ccqGhost.upset => ccqGhost.got \in {0, ccqTx.id}

(* The queue is never loaded beyond its size, whatever the hardware has     *)
(* consumed and however late its report is handled, except by the one word  *)
(* of a delay, for which the loop keeps no room. After a failure a reset of *)
(* the past ends the flush early, and the next one begins on a full queue.  *)
CcqFits ==
  ~ccqGhost.upset => CcqCur <= CcqMax + IF ccqGhost.delay THEN 1 ELSE 0

(* No report is waited for or left when a transaction has ended and nothing *)
(* failed, so the next wait is not answered by it.                          *)
CcqNoLeftover ==
  ccqTx.pc = "idle" /\ ~ccqGhost.upset => ccqDrv.report = 0 /\ ccqDrv.done = 0

\* Clients of both masters share clock and semaphore without a leak or a wedge, and
\* what a client queued is written, or reported, as its own.
CciSafe ==
    /\ CciBalance /\ CciOneFreq /\ CciNoWedge /\ CciPowered /\ CcqWritten
    /\ CcqOwnData /\ CcqFits /\ CcqNoLeftover
=============================================================================
