------------------------------ MODULE V4l2Loop ------------------------------
(***************************************************************************)
(* The loopback video device (v4l2loopback.c): a proxy process opens it for *)
(* writing and serves the camera; an application opens it for reading.      *)
(* Control calls of the application (open, stream on and off, export of     *)
(* buffers, parameters) are turned into an event to the proxy and wait on a *)
(* completion with a timeout.  Buffers go round between two lists, one per   *)
(* direction, with a state per buffer that says whose turn it is.           *)
(* The proxy is not part of the source: it handles its events in order and  *)
(* answers those that are waited for, as late as it likes.                  *)
(***************************************************************************)
EXTENDS Integers, Sequences, FiniteSets

CONSTANTS VlbReaders,    \* application processes
          VlbN,          \* buffers
          VlbCalls,      \* bound: control calls
          VlbFrames,     \* bound: frames
          VlbProxies,    \* bound: times a proxy opens the device
          VlbMishaps     \* bound: calls that time out, refusals of the proxy, failed
                         \* allocations, proxies that leave under an application

VARIABLES vlbDev,   \* struct v4l2_loopback_device
          vlbBuf,   \* buffers[] (state, frame) and the two lists
          vlbThr,   \* per application: its control call, "shut" when not open
          vlbMid,   \* q, p: buffers of a QBUF of the application / proxy between
                    \* set_bufstate and list_add_tail, 0 if none
          vlbEv,    \* events queued to the proxy
          vlbPrx,   \* the proxy: open, running, buffers it holds
          vlbG      \* budgets and history
vlbVars == <<vlbDev, vlbBuf, vlbThr, vlbMid, vlbEv, vlbPrx, vlbG>>

VlbIds == 1..VlbN
\* the completion each kind of call waits on
VlbComp == [open |-> "ctrl", on |-> "ctrl", off |-> "ctrl", alloc |-> "alloc",
            set |-> "spar", get |-> "gpar"]
VlbKinds == DOMAIN VlbComp
VlbNoAns == [id |-> 0, ok |-> TRUE]
VlbRest == [pc |-> "idle", id |-> 0]

VlbInit ==
    /\ vlbDev = [state |-> "output", used |-> VlbN, dma |-> FALSE, param |-> 0,
                 done |-> [c \in {"ctrl", "alloc", "spar", "gpar"} |-> 0],
                 ret |-> [c \in {"ctrl", "alloc", "spar", "gpar"} |-> VlbNoAns]]
    /\ vlbBuf = [st |-> [b \in VlbIds |-> "user"], fr |-> [b \in VlbIds |-> 0],
                 out |-> <<>>, cap |-> <<>>]
    /\ vlbThr = [r \in VlbReaders |-> [pc |-> "shut", id |-> 0]]
    /\ vlbMid = [q |-> 0, p |-> 0]
    /\ vlbEv = <<>>
    /\ vlbPrx = [open |-> FALSE, run |-> FALSE, held |-> {}, read |-> 0]
    /\ vlbG = [calls |-> VlbCalls, frames |-> 0,
               proxies |-> VlbProxies, mishaps |-> VlbMishaps, last |-> 0,
               live |-> FALSE, behind |-> {}, odd |-> FALSE, two |-> FALSE,
               cross |-> FALSE, gone |-> FALSE, late |-> FALSE]

VlbOpen == {r \in VlbReaders : vlbThr[r].pc \notin {"shut", "open"}}
\* another application is in the middle of a control call
VlbInCall(r) == \E q \in VlbReaders \ {r} : vlbThr[q].pc \notin {"shut", "idle"}

----------------------------------------------------------------------------
(* What several handlers share.                                             *)

\* send_v4l2_event: only a proxy that is there hears it
VlbSend(k, id) == IF vlbPrx.open THEN Append(vlbEv, [k |-> k, id |-> id]) ELSE vlbEv

\* the steps set_bufstate allows
VlbMoves == {<<"proxy", "done">>, <<"done", "user">>, <<"ready", "proxy">>, <<"user", "ready">>}
VlbMayMove(b, s) == <<vlbBuf.st[b], s>> \in VlbMoves

\* set_allbufs_state: the buffers in use
VlbAllTo(st, s) == [b \in VlbIds |-> IF b <= vlbDev.used THEN s ELSE st[b]]

\* free_buffers: every dma buffer is put
VlbFree(dev) == [dev EXCEPT !.dma = FALSE]

\* init_buffers: every buffer is the application's; the lists are not touched
VlbFresh(buf) == [buf EXCEPT !.st = [b \in VlbIds |-> "user"], !.fr = [b \in VlbIds |-> 0]]
VlbBusy == vlbMid.q # 0 \/ vlbMid.p # 0 \/ vlbBuf.out # <<>> \/ vlbBuf.cap # <<>>

\* a control call: one of the budget, its number identifies it
VlbCallId == VlbCalls - vlbG.calls + 1
VlbBegin(r, k, g) ==
    /\ vlbG.calls > 0
    /\ vlbThr' = [vlbThr EXCEPT ![r] = [pc |-> k, id |-> VlbCallId]]
    /\ vlbG' = [g EXCEPT !.calls = @ - 1,
                         !.two = @ \/ VlbInCall(r)]

\* wait_for_completion returned: the result is not looked at again
VlbConsume(dev, c) ==
    [dev EXCEPT !.done[c] = @ - 1, !.ret[c] = IF dev.done[c] = 1 THEN VlbNoAns ELSE @]
\* ... and whose answer it was
VlbTaken(r, c, g) ==
    [g EXCEPT !.odd = @ \/ ( /\ vlbDev.ret[c].id # vlbThr[r].id
                             /\ c \notin g.behind
                             /\ ~g.two )]

----------------------------------------------------------------------------
(* Opening and closing.                                                     *)

VlbProxyOpen ==
    /\ vlbG.proxies > 0
    /\ ~vlbPrx.open
    /\ vlbDev.state = "output"
    /\ vlbDev' = [vlbDev EXCEPT !.state = "capture"]
    /\ vlbPrx' = [open |-> TRUE, run |-> FALSE, held |-> {}, read |-> 0]
    /\ vlbG' = [vlbG EXCEPT !.proxies = @ - 1]
    /\ UNCHANGED <<vlbBuf, vlbThr, vlbMid, vlbEv>>

\* the proxy goes, with or without an application on the device; its
\* unanswered events go with it
VlbUsed == \E r \in VlbReaders : vlbThr[r].pc # "shut"
VlbProxyClose ==
    /\ vlbPrx.open /\ vlbMid.p = 0
    /\ vlbDev' = [vlbDev EXCEPT !.state = "output"]
    /\ vlbPrx' = [vlbPrx EXCEPT !.open = FALSE, !.run = FALSE, !.held = {}]
    /\ vlbEv' = <<>>
    /\ VlbUsed => vlbG.mishaps > 0
    /\ vlbG' = [vlbG EXCEPT !.gone = @ \/ VlbUsed,
                            !.mishaps = IF VlbUsed THEN @ - 1 ELSE @]
    /\ UNCHANGED <<vlbBuf, vlbThr, vlbMid>>

\* v4l2_loopback_open of an application: the state is looked at here ...
VlbAppOpen(r) ==
    /\ vlbThr[r].pc = "shut"
    /\ \A q \in VlbReaders : q < r => vlbThr[q].pc # "shut"   \* they are alike
    /\ vlbDev.state = "capture"
    /\ VlbBegin(r, "open", vlbG)
    /\ vlbEv' = VlbSend("open", VlbCallId)
    /\ UNCHANGED <<vlbDev, vlbBuf, vlbMid, vlbPrx>>

\* ... and set here, when the proxy has answered; the opener may not fit in memory
VlbAppOpened(r, nomem) ==
    LET ok == vlbDev.ret["ctrl"].ok IN
    /\ vlbThr[r].pc = "open"
    /\ vlbDev.done["ctrl"] > 0
    /\ nomem => ok /\ vlbG.mishaps > 0
    /\ vlbDev' = [VlbConsume(vlbDev, "ctrl") EXCEPT !.state = IF ok THEN "opened" ELSE @]
    /\ vlbThr' = [vlbThr EXCEPT ![r] =
                    [pc |-> IF ok /\ ~nomem THEN "idle" ELSE "shut", id |-> 0]]
    /\ vlbG' = [VlbTaken(r, "ctrl", vlbG) EXCEPT !.mishaps = IF nomem THEN @ - 1 ELSE @,
                                                 !.late = @ \/ (ok /\ ~vlbPrx.open)]
    /\ UNCHANGED <<vlbBuf, vlbMid, vlbEv, vlbPrx>>

\* v4l2_loopback_close of an application: nothing is undone unless the state
\* still says that one is there
VlbReinit == [c \in DOMAIN vlbDev.done |-> IF c = "alloc" THEN vlbDev.done[c] ELSE 0]
VlbOwed(c) == \E i \in DOMAIN vlbEv : /\ vlbEv[i].k \in VlbKinds
                                      /\ VlbComp[vlbEv[i].k] = c
VlbAppClose(r) ==
    /\ vlbThr[r].pc = "idle" /\ vlbMid.q = 0
    /\ vlbThr' = [vlbThr EXCEPT ![r].pc = "shut"]
    /\ IF vlbDev.state = "opened"
       THEN /\ vlbEv' = VlbSend("close", 0)
            /\ vlbDev' = [VlbFree(vlbDev) EXCEPT !.state = "capture", !.done = VlbReinit]
            /\ vlbBuf' = [vlbBuf EXCEPT !.out = <<>>, !.cap = <<>>]
            /\ vlbG' = [vlbG EXCEPT !.live = FALSE, !.two = @ \/ VlbInCall(r),
                  !.behind = {c \in @ : c = "alloc" \/ VlbOwed(c)}]
       ELSE /\ vlbG' = [vlbG EXCEPT !.live = FALSE]
            /\ UNCHANGED <<vlbEv, vlbDev, vlbBuf>>
    /\ UNCHANGED <<vlbMid, vlbPrx>>

----------------------------------------------------------------------------
(* Control calls of an open application.                                    *)

\* vidioc_reqbufs: with a count the buffers are made new, with 0 they are freed
VlbReqBufs(r, n) ==
    /\ vlbThr[r].pc = "idle"
    /\ VlbBegin(r, "idle", [vlbG EXCEPT !.cross = @ \/ (n > 0 /\ VlbBusy),
                                        !.live = @ /\ n = 0])
    /\ IF n = 0
       THEN /\ vlbDev' = [VlbFree(vlbDev) EXCEPT !.used = 0]
            /\ vlbEv' = VlbSend("alloc0", 0)
            /\ UNCHANGED vlbBuf
       ELSE /\ vlbDev' = [vlbDev EXCEPT !.used = n]
            /\ vlbBuf' = VlbFresh(vlbBuf)
            /\ UNCHANGED vlbEv
    /\ UNCHANGED <<vlbMid, vlbPrx>>

\* vidioc_expbuf: the first export asks the proxy for the buffers
VlbExport(r) ==
    /\ vlbThr[r].pc = "idle"
    /\ vlbDev.used > 0 /\ ~vlbDev.dma
    /\ VlbBegin(r, "alloc", vlbG)
    /\ vlbEv' = VlbSend("alloc", VlbCallId)
    /\ UNCHANGED <<vlbDev, vlbBuf, vlbMid, vlbPrx>>
VlbExported(r) ==
    LET ok == vlbDev.ret["alloc"].ok IN
    /\ vlbThr[r].pc = "alloc"
    /\ vlbDev.done["alloc"] > 0
    /\ vlbDev' = VlbConsume(vlbDev, "alloc")
    /\ vlbBuf' = IF ok THEN VlbFresh(vlbBuf) ELSE vlbBuf
    /\ vlbThr' = [vlbThr EXCEPT ![r] = VlbRest]
    /\ vlbG' = [VlbTaken(r, "alloc", vlbG) EXCEPT !.cross = @ \/ (ok /\ VlbBusy),
                                                  !.live = @ /\ ~ok]
    /\ UNCHANGED <<vlbMid, vlbEv, vlbPrx>>

\* vidioc_streamon: every buffer goes to the proxy; then, under other locks,
\* the lists are emptied and the proxy is told
VlbStreamOn(r) ==
    /\ vlbThr[r].pc = "idle"
    /\ vlbDev.used > 0
    /\ VlbBegin(r, "clear", [vlbG EXCEPT !.live = FALSE,
            !.cross = (vlbPrx.run \/ vlbMid.p # 0 \/ vlbMid.q # 0) \/ (@ /\ VlbBusy)])
    /\ vlbBuf' = [vlbBuf EXCEPT !.st = VlbAllTo(@, "proxy")]
    /\ UNCHANGED <<vlbDev, vlbMid, vlbEv, vlbPrx>>
VlbStreamOnClear(r) ==
    /\ vlbThr[r].pc = "clear"
    /\ vlbThr' = [vlbThr EXCEPT ![r].pc = "on"]
    /\ vlbBuf' = [vlbBuf EXCEPT !.out = <<>>, !.cap = <<>>]
    /\ vlbEv' = VlbSend("on", vlbThr[r].id)
    /\ vlbG' = [vlbG EXCEPT !.live = TRUE,
                            !.cross = @ \/ vlbPrx.run \/ vlbMid.p # 0 \/ vlbMid.q # 0]
    /\ UNCHANGED <<vlbDev, vlbMid, vlbPrx>>

\* vidioc_streamoff: from here on no buffer moves
VlbStreamOff(r) ==
    /\ vlbThr[r].pc = "idle"
    /\ VlbBegin(r, "off", vlbG)
    /\ vlbBuf' = [vlbBuf EXCEPT !.st = VlbAllTo(@, "pending")]
    /\ vlbEv' = VlbSend("off", VlbCallId)
    /\ UNCHANGED <<vlbDev, vlbMid, vlbPrx>>

\* the answer to a start or a stop
VlbStreamed(r) ==
    /\ vlbThr[r].pc \in {"on", "off"}
    /\ vlbDev.done["ctrl"] > 0
    /\ vlbDev' = VlbConsume(vlbDev, "ctrl")
    /\ vlbBuf' = IF vlbThr[r].pc = "on" THEN vlbBuf
                 ELSE [vlbBuf EXCEPT !.out = <<>>, !.cap = <<>>]
    /\ vlbThr' = [vlbThr EXCEPT ![r] = VlbRest]
    /\ vlbG' = [VlbTaken(r, "ctrl", vlbG) EXCEPT !.live = @ /\ vlbThr[r].pc = "on"]
    /\ UNCHANGED <<vlbMid, vlbEv, vlbPrx>>

\* process_capture_cmd: a parameter is left in the one buffer of the device
VlbParam(r, k) ==
    /\ k \in {"set", "get"}
    /\ vlbThr[r].pc = "idle"
    /\ VlbBegin(r, k, vlbG)
    /\ vlbDev' = [vlbDev EXCEPT !.param = VlbCallId]
    /\ vlbEv' = VlbSend(k, VlbCallId)
    /\ UNCHANGED <<vlbBuf, vlbMid, vlbPrx>>
VlbParamDone(r) ==
    LET c == VlbComp[vlbThr[r].pc] IN
    /\ vlbThr[r].pc \in {"set", "get"}
    /\ vlbDev.done[c] > 0
    /\ vlbDev' = [VlbConsume(vlbDev, c) EXCEPT !.param = IF vlbEv = <<>> THEN 0 ELSE @]
    /\ vlbThr' = [vlbThr EXCEPT ![r] = VlbRest]
    /\ vlbG' = VlbTaken(r, c, vlbG)
    /\ UNCHANGED <<vlbBuf, vlbMid, vlbEv, vlbPrx>>

\* no answer in time
VlbTimeout(r) ==
    /\ vlbG.mishaps > 0
    /\ vlbThr[r].pc \in VlbKinds
    /\ vlbDev.done[VlbComp[vlbThr[r].pc]] = 0
    /\ vlbThr' = [vlbThr EXCEPT ![r] = [VlbRest EXCEPT !.pc = IF vlbThr[r].pc = "open"
                                                                THEN "shut" ELSE "idle"]]
    /\ vlbG' = [vlbG EXCEPT !.mishaps = @ - 1,
                            !.behind = @ \union {VlbComp[vlbThr[r].pc]}]
    /\ UNCHANGED <<vlbDev, vlbBuf, vlbMid, vlbEv, vlbPrx>>

----------------------------------------------------------------------------
(* Buffers.                                                                 *)

\* vidioc_qbuf of the application (from any of its threads), in two steps
VlbQueue(b) ==
    /\ VlbOpen # {} /\ vlbMid.q = 0
    /\ vlbG.live                            \* streamon would take it back
    /\ b <= vlbDev.used
    /\ VlbMayMove(b, "ready")
    /\ vlbBuf' = [vlbBuf EXCEPT !.st[b] = "ready"]
    /\ vlbMid' = [vlbMid EXCEPT !.q = b]
    /\ UNCHANGED <<vlbDev, vlbThr, vlbEv, vlbPrx, vlbG>>
VlbQueued ==
    /\ vlbMid.q # 0
    /\ vlbBuf' = [vlbBuf EXCEPT !.out = Append(@, vlbMid.q)]
    /\ vlbMid' = [vlbMid EXCEPT !.q = 0]
    /\ UNCHANGED <<vlbDev, vlbThr, vlbEv, vlbPrx, vlbG>>

\* vidioc_dqbuf of the application
VlbDequeue ==
    /\ VlbOpen # {} /\ vlbMid.q = 0
    /\ vlbBuf.cap # <<>>
    /\ VlbMayMove(Head(vlbBuf.cap), "user")
    /\ vlbBuf' = [vlbBuf EXCEPT !.st[Head(vlbBuf.cap)] = "user",
                                !.fr[Head(vlbBuf.cap)] = 0, !.cap = Tail(@)]
    /\ vlbG' = [vlbG EXCEPT !.last = vlbBuf.fr[Head(vlbBuf.cap)]]
    /\ UNCHANGED <<vlbDev, vlbThr, vlbMid, vlbEv, vlbPrx>>

\* vidioc_qbuf of the proxy with the next frame, in two steps
VlbFill(b) ==
    /\ vlbPrx.run /\ vlbMid.p = 0
    /\ b \in vlbPrx.held /\ b <= vlbDev.used
    /\ \A a \in vlbPrx.held : b <= a        \* the proxy fills its buffers in turn
    /\ vlbG.frames < VlbFrames
    /\ vlbG' = [vlbG EXCEPT !.frames = @ + 1]
    /\ vlbPrx' = [vlbPrx EXCEPT !.held = @ \ {b}]
    /\ IF VlbMayMove(b, "done")
       THEN /\ vlbBuf' = [vlbBuf EXCEPT !.st[b] = "done", !.fr[b] = vlbG.frames + 1]
            /\ vlbMid' = [vlbMid EXCEPT !.p = b]
       ELSE UNCHANGED <<vlbBuf, vlbMid>>
    /\ UNCHANGED <<vlbDev, vlbThr, vlbEv>>

\* Mutant: the frame is put first.
VlbFilledMutant ==
    /\ vlbMid.p # 0
    /\ vlbBuf' = [vlbBuf EXCEPT !.cap = <<vlbMid.p>> \o @]
    /\ vlbMid' = [vlbMid EXCEPT !.p = 0]
    /\ UNCHANGED <<vlbDev, vlbThr, vlbEv, vlbPrx, vlbG>>

VlbFilled ==
    /\ vlbMid.p # 0
    /\ vlbBuf' = [vlbBuf EXCEPT !.cap = Append(@, vlbMid.p)]
    /\ vlbMid' = [vlbMid EXCEPT !.p = 0]
    /\ UNCHANGED <<vlbDev, vlbThr, vlbEv, vlbPrx, vlbG>>

\* vidioc_dqbuf of the proxy
VlbTake ==
    /\ vlbPrx.run /\ vlbMid.p = 0
    /\ vlbBuf.out # <<>>
    /\ VlbMayMove(Head(vlbBuf.out), "proxy")
    /\ vlbBuf' = [vlbBuf EXCEPT !.st[Head(vlbBuf.out)] = "proxy", !.out = Tail(@)]
    /\ vlbPrx' = [vlbPrx EXCEPT !.held = @ \union {Head(vlbBuf.out)}]
    /\ UNCHANGED <<vlbDev, vlbThr, vlbMid, vlbEv, vlbG>>

----------------------------------------------------------------------------
(* The proxy's side of the control calls (process_output_cmd).              *)

\* OPEN_RET, START_RET, STOP_RET, SET_BUFS, SET_PARAM_RET, SET_PARAM2
VlbAnswer(ok) ==
    LET e == Head(vlbEv) IN
    /\ vlbEv # <<>> /\ vlbPrx.open
    /\ e.k \in VlbKinds
    /\ e.k = "set" => vlbPrx.read # 0
    /\ e.k = "off" => vlbMid.p = 0
    /\ ~ok => vlbG.mishaps > 0 /\ e.k \in {"open", "on", "alloc"}
    /\ vlbEv' = Tail(vlbEv)
    /\ vlbDev' = [vlbDev EXCEPT !.done[VlbComp[e.k]] = @ + 1,
                                !.ret[VlbComp[e.k]] = [id |-> e.id, ok |-> ok],
                                !.dma = @ \/ (e.k = "alloc" /\ ok),
                                !.param = IF e.k = "get" THEN e.id ELSE @]
    /\ vlbPrx' = [vlbPrx EXCEPT !.run = IF e.k = "on" THEN @ \/ ok ELSE @ /\ e.k # "off",
                                !.held = IF e.k = "on" /\ ok THEN 1..vlbDev.used
                                         ELSE IF e.k = "off" THEN {} ELSE @,
                                !.read = 0]
    /\ vlbG' = [vlbG EXCEPT !.mishaps = IF ok THEN @ ELSE @ - 1]
    /\ UNCHANGED <<vlbBuf, vlbThr, vlbMid>>

\* OUTPUT_PRIV_GET_PARAM: the payload of a SET_PARAM event is fetched
VlbFetch ==
    /\ vlbEv # <<>> /\ vlbPrx.open
    /\ Head(vlbEv).k = "set" /\ vlbPrx.read = 0
    /\ vlbPrx' = [vlbPrx EXCEPT !.read = vlbDev.param]
    /\ vlbG' = [vlbG EXCEPT !.odd = @ \/ ( /\ vlbDev.param # Head(vlbEv).id
                                           /\ vlbG.behind = {} /\ ~vlbG.two )]
    /\ UNCHANGED <<vlbDev, vlbBuf, vlbThr, vlbMid, vlbEv>>

\* events nobody waits for
VlbHear ==
    /\ vlbEv # <<>> /\ vlbPrx.open
    /\ Head(vlbEv).k \in {"close", "alloc0"}
    /\ Head(vlbEv).k = "close" => vlbMid.p = 0
    /\ vlbEv' = Tail(vlbEv)
    /\ vlbPrx' = IF Head(vlbEv).k = "close"
                 THEN [vlbPrx EXCEPT !.run = FALSE, !.held = {}] ELSE vlbPrx
    /\ UNCHANGED <<vlbDev, vlbBuf, vlbThr, vlbMid, vlbG>>

VlbStep ==
    \/ VlbProxyOpen \/ VlbProxyClose
    \/ \E r \in VlbReaders :
          \/ VlbAppOpen(r)
          \/ \E nomem \in BOOLEAN : VlbAppOpened(r, nomem)
          \/ VlbAppClose(r)
          \/ \E n \in {0, VlbN} : VlbReqBufs(r, n)
          \/ VlbExport(r) \/ VlbExported(r)
          \/ VlbStreamOn(r) \/ VlbStreamOnClear(r) \/ VlbStreamOff(r) \/ VlbStreamed(r)
          \/ \E k \in {"set", "get"} : VlbParam(r, k)
          \/ VlbParamDone(r)
          \/ VlbTimeout(r)
    \/ \E b \in VlbIds : VlbQueue(b) \/ VlbFill(b)
    \/ VlbQueued \/ VlbDequeue \/ VlbFilled \/ VlbTake
    \/ \E ok \in BOOLEAN : VlbAnswer(ok)
    \/ VlbFetch \/ VlbHear

\* bound: not explored further once two applications have it open
VlbNext == Cardinality(VlbOpen) <= 1 /\ VlbStep

VlbSpec == VlbInit /\ [][VlbNext]_vlbVars

----------------------------------------------------------------------------
(* Properties.                                                              *)

\* A call that waits on a completion returns with the proxy's answer to that very
\* call, and the proxy fetches the parameter of the very call it was told of,
\* unless a call timed out and its answer is still to come or was not yet swept up
\* by the reinit_completion of a close, or two applications wait at once.
VlbOwnAnswer == ~vlbG.odd

\* One application at a time has the device open, unless a second one came to
\* open it while the first was waiting for the proxy's answer, or the proxy went
\* away under an application (v4l2_loopback_open checks dev->state before the wait
\* and sets it after).
VlbOneReader == Cardinality(VlbOpen) <= 1 \/ vlbG.two \/ vlbG.gone

\* While the application streams, every buffer is where its state says: once in
\* the output list when ready, once in the capture list when done, else in none;
\* unless a restart overtook a proxy that was still filling buffers, or a request
\* for buffers came while some were in the lists.
VlbPlace ==
    LET times(s, b) == Cardinality({i \in DOMAIN s : s[i] = b}) IN
    (vlbG.live /\ ~vlbG.cross /\ ~vlbG.two /\ ~vlbG.gone) =>
      \A b \in 1..vlbDev.used :
        \/ vlbBuf.st[b] = "pending"
        \/ /\ times(vlbBuf.out, b) =
                IF vlbBuf.st[b] = "ready" /\ vlbMid.q # b THEN 1 ELSE 0
           /\ times(vlbBuf.cap, b) =
                IF vlbBuf.st[b] = "done" /\ vlbMid.p # b THEN 1 ELSE 0

\* The application receives the frames in the order in which the proxy queued
\* them, none twice, whatever restarts, timeouts and proxies come between.
VlbInOrder == vlbG'.last # vlbG.last => vlbG'.last > vlbG.last

\* When no application has the device open and no answer is still to come, the
\* driver holds no dma buffer of the proxy (free_buffers on close).
VlbFreed ==
    (/\ \A r \in VlbReaders : vlbThr[r].pc = "shut"
     /\ "alloc" \notin vlbG.behind /\ ~vlbG.two /\ ~vlbG.gone)
    => ~vlbDev.dma

\* A proxy can open the device exactly when none has it open: the state says
\* "ready for output" just then, unless an application's open was answered but
\* finished only after the proxy had gone (the open then overwrites the state).
VlbProxyTurn == vlbG.late \/ (vlbDev.state = "output" <=> ~vlbPrx.open)

\* A caller gets the answer to its own call, a buffer is in one place, frames arrive
\* in order, and closing gives everything back.
VlbCorrect ==
    [][/\ (VlbOwnAnswer /\ VlbOneReader /\ VlbPlace /\ VlbFreed /\ VlbProxyTurn)'
       /\ VlbInOrder]_vlbVars
=============================================================================
