------------------------------- MODULE VfeHw --------------------------------
(***************************************************************************)
(* The top of one VFE core (cam_vfe_top_ver2 and its muxes): reserving,     *)
(* starting and stopping the input muxes for the contexts that share the    *)
(* core, the clock and the bandwidth the muxes ask for, and the shared      *)
(* configuration register core_cfg.                                         *)
(*                                                                         *)
(* A context opens the core, starts its muxes in the order of its source    *)
(* list and stops them all.  A bandwidth vote is one number (the code       *)
(* compares three alike).                                                   *)
(***************************************************************************)
EXTENDS Naturals, FiniteSets, SequencesExt, FiniteSetsExt

CONSTANTS VftCtxs,      \* contexts on the core
          VftMuxes,     \* the muxes of each, in start order
          VftTwo,       \* TRUE with two CPAS handles (TITAN_175_V120)
          VftRates,     \* clock rates asked for
          VftBws,       \* bandwidths asked for
          VftTop,       \* the clock rate and the vote at power up
          VftRing,      \* length of last_vote (18 in the code)
          VftOpens,     \* bound: power ups
          VftCmds,      \* bound: clock, bandwidth and control commands
          VftFaults     \* bound: failures

VARIABLES vftMux,       \* [st, clk, bw, inc]
          vftHw,        \* the core and its votes
          vftCtx,       \* [pc, n]: n muxes started
          vftG          \* history and bounds

vftVars == <<vftMux, vftHw, vftCtx, vftG>>

VftAll == UNION {{VftMuxes[c][i] : i \in 1..Len(VftMuxes[c])} : c \in VftCtxs}
VftOf(c) == {VftMuxes[c][i] : i \in 1..Len(VftMuxes[c])}
VftHdls == IF VftTwo THEN {0, 1} ELSE {0}

\* cpashdl_type of a mux
VftHdl(x) == IF VftTwo /\ x # "camif" THEN 1 ELSE 0
VftBlank == [st |-> "available", clk |-> 0, bw |-> 0, inc |-> FALSE]

-----------------------------------------------------------------------------
(* The clock. *)

VftMost(mux) == Max({mux[x].clk : x \in VftAll})

\* cam_vfe_top_set_hw_clk_rate: the highest request, unless it is the rate last
\* set.
VftSetRate(mux, hw, fails) ==
  IF VftMost(mux) = hw.rate \/ fails THEN hw
  ELSE [hw EXCEPT !.rate = VftMost(mux), !.real = VftMost(mux)]

VftRateFails(mux, hw) == {FALSE} \union
  (IF vftG.faults < VftFaults /\ VftMost(mux) # hw.rate THEN {TRUE} ELSE {})

-----------------------------------------------------------------------------
(* The bandwidth. *)

VftSum(mux, h) ==
  MapThenSumSet(LAMBDA x : mux[x].bw, {x \in VftAll : mux[x].inc /\ VftHdl(x) = h})

\* Mutant: a lower sum is voted at once.
VftVoteMutant(ring, sum, startStop) == IF startStop THEN 0 ELSE sum

\* The vote placed: nothing at a start or a control command, else the highest of
\* the last ones
VftVote(ring, sum, startStop) ==
  IF startStop THEN 0 ELSE Max({ring[i] : i \in 0..(VftRing - 1)})

\* The sum goes into last_vote.
VftRecord(hw, h, sum) ==
  [hw EXCEPT !.ring[h][hw.ctr[h]] = sum, !.ctr[h] = (@ + 1) % VftRing]

\* cam_vfe_top_set_axi_bw_vote for one handle.  ret: the function returns here;
\* bad: its result so far
VftHandle(mux, hw, h, startStop, fails, bad) ==
  LET sum == VftSum(mux, h)
      w == VftRecord(hw, h, sum)
      v == VftVote(w.ring[h], sum, startStop)
      done == [w EXCEPT !.applied = v, !.axi[h] = v]
  IN  IF hw.applied = sum THEN [hw |-> w, ret |-> TRUE, bad |-> FALSE]
      ELSE IF ~startStop /\ v = hw.applied THEN [hw |-> w, ret |-> FALSE, bad |-> bad]
      ELSE [hw |-> IF fails THEN w ELSE done, ret |-> startStop, bad |-> fails]

\* cam_vfe_top_set_axi_bw_vote: applied_axi_vote is one for both handles, and
\* what returns for the first handle skips the second.
VftSetBw(mux, hw, startStop, fails) ==
  LET a == VftHandle(mux, hw, 0, startStop, fails, FALSE)
  IN  IF ~VftTwo \/ a.ret THEN a ELSE VftHandle(mux, a.hw, 1, startStop, fails, a.bad)

\* Whether CPAS refuses the votes of a call
VftBwFails == {FALSE} \union (IF vftG.faults < VftFaults THEN {TRUE} ELSE {})

\* History: the handles whose vote fell below the sum by a zero vote (cut) or a
\* failure (refused), until they cover it again
VftNote(g, mux, hw, startStop, fails) ==
  LET low == {h \in VftHdls : hw.axi[h] < VftSum(mux, h)}
  IN  [g EXCEPT !.cut = IF startStop THEN {h \in low : hw.axi[h] = 0} ELSE @ \cap low,
                !.refused = (@ \cap low) \union (IF fails THEN low ELSE {}),
                !.faults = @ + (IF fails THEN 1 ELSE 0)]

-----------------------------------------------------------------------------
(* Muxes. *)

\* What the start of a mux leaves in core_cfg.  The CAMIF writes the register,
VftCamifStart(cfg) == {"pix"}

\* the lite path adds its bit to what it reads,
VftLiteStart(cfg) == cfg \union {"pd"}

\* an RDI does not touch it.
VftRdiStart(cfg) == cfg

VftMuxStart(x, cfg) ==
  CASE x = "camif" -> VftCamifStart(cfg) [] x = "lite" -> VftLiteStart(cfg)
    [] OTHER -> VftRdiStart(cfg)

\* cam_vfe_top_stop: the requests of a stopped mux go.
VftStopped(m) ==
  [m EXCEPT !.st = IF @ = "streaming" THEN "reserved" ELSE @,
            !.clk = 0, !.bw = 0, !.inc = FALSE]

-----------------------------------------------------------------------------
(* Contexts. *)

VftIn(c, pcs) == vftCtx[c].pc \in pcs

\* cam_vfe_top_reserve for each mux of the context
VftReserve(c) ==
  /\ VftIn(c, {"idle"}) /\ \A x \in VftOf(c) : vftMux[x].st = "available"
  /\ vftMux' = [x \in VftAll |-> IF x \in VftOf(c) THEN [vftMux[x] EXCEPT !.st = "reserved"] ELSE vftMux[x]]
  /\ vftCtx' = [vftCtx EXCEPT ![c].pc = "acq"]
  /\ UNCHANGED <<vftHw, vftG>>

\* cam_vfe_top_release
VftRelease(c) ==
  /\ VftIn(c, {"acq"})
  /\ vftMux' = [x \in VftAll |-> IF x \in VftOf(c) THEN [vftMux[x] EXCEPT !.st = "available"] ELSE vftMux[x]]
  /\ vftCtx' = [vftCtx EXCEPT ![c].pc = "idle"]
  /\ UNCHANGED <<vftHw, vftG>>

\* cam_vfe_enable_soc_resources, the reset and cam_vfe_top_init_hw: the applied
\* vote is not set back.
VftPowered(hw) ==
  [hw EXCEPT !.up = TRUE, !.real = VftTop, !.rate = 0, !.cfg = {},
             !.axi = [h \in VftHdls |-> VftTop]]

\* cam_vfe_init_hw
VftOpen(c) ==
  /\ VftIn(c, {"acq"})
  /\ \/ /\ vftHw.open = 0 /\ vftG.opens < VftOpens
        /\ vftHw' = [VftPowered(vftHw) EXCEPT !.open = 1]
        /\ vftG' = [vftG EXCEPT !.opens = @ + 1, !.cut = {}, !.refused = {}, !.slow = FALSE]
     \/ /\ vftHw.open > 0
        /\ vftHw' = [vftHw EXCEPT !.open = @ + 1]
        /\ UNCHANGED vftG
  /\ vftCtx' = [vftCtx EXCEPT ![c].pc = "open"]
  /\ UNCHANGED vftMux

\* cam_vfe_deinit_hw, after a stop or because the first configuration failed; in
\* the second case the requests stay (left).
VftClose(c) ==
  /\ VftIn(c, {"open"})
  /\ vftHw' = IF vftHw.open > 1 THEN [vftHw EXCEPT !.open = @ - 1]
              ELSE [vftHw EXCEPT !.open = 0, !.up = FALSE, !.real = 0, !.cfg = {},
                                 !.axi = [h \in VftHdls |-> 0]]
  /\ vftCtx' = [vftCtx EXCEPT ![c].pc = "acq"]
  /\ vftG' = [vftG EXCEPT !.left = IF \E x \in VftOf(c) : vftMux[x].clk > 0 \/ vftMux[x].inc
                                  THEN @ \union {c} ELSE @]
  /\ UNCHANGED vftMux

\* cam_vfe_top_clock_update
VftClock(c, x, r) ==
  /\ VftIn(c, {"open", "on"}) /\ x \in VftOf(c) /\ vftG.cmds < VftCmds
  /\ LET mux == [vftMux EXCEPT ![x].clk = r] IN
       \E f \in VftRateFails(mux, vftHw) :
         /\ vftMux' = mux
         /\ vftHw' = VftSetRate(mux, vftHw, f)
         /\ vftG' = [vftG EXCEPT !.cmds = @ + 1, !.faults = @ + (IF f THEN 1 ELSE 0),
                                 !.slow = f]
  /\ UNCHANGED vftCtx

\* cam_vfe_top_bw_update
VftBwUpdate(c, x, b) ==
  /\ VftIn(c, {"open", "on"}) /\ x \in VftOf(c) /\ vftG.cmds < VftCmds
  /\ LET mux == [vftMux EXCEPT ![x].bw = b, ![x].inc = TRUE] IN
       \E f \in VftBwFails :
         /\ f => VftSetBw(mux, vftHw, FALSE, f) # VftSetBw(mux, vftHw, FALSE, FALSE)
         /\ vftMux' = mux
         /\ vftHw' = VftSetBw(mux, vftHw, FALSE, f).hw
         /\ vftG' = VftNote([vftG EXCEPT !.cmds = @ + 1], mux, vftHw', FALSE, f)
  /\ UNCHANGED vftCtx

\* cam_ife_mgr_bw_control: cam_vfe_top_bw_control for each mux of a context
VftControl(c, inc, mux, hw, f) ==
  FoldLeft(LAMBDA a, x : LET m == [a.mux EXCEPT ![x].inc = inc]
                         IN  [mux |-> m, hw |-> VftSetBw(m, a.hw, TRUE, f).hw],
           [mux |-> mux, hw |-> hw], VftMuxes[c])

\* A context is paused or resumed.
VftBwControl(c, inc) ==
  /\ VftIn(c, {"on"}) /\ vftG.cmds < VftCmds
  /\ \E f \in VftBwFails :
       LET r == VftControl(c, inc, vftMux, vftHw, f) IN
         /\ f => r # VftControl(c, inc, vftMux, vftHw, FALSE)
         /\ vftMux' = r.mux
         /\ vftHw' = r.hw
         /\ vftG' = VftNote([vftG EXCEPT !.cmds = @ + 1], r.mux, r.hw, TRUE, f)
  /\ UNCHANGED vftCtx

\* cam_vfe_top_start for the next mux of the context: clock, bandwidth, mux; the
\* first failure ends it and the manager stops the context.
VftStart(c) ==
  /\ VftIn(c, {"open", "on"}) /\ vftCtx[c].n < Len(VftMuxes[c])
  /\ LET x == VftMuxes[c][vftCtx[c].n + 1] IN
     \/ \E f \in VftBwFails :
          LET r == VftSetBw(vftMux, VftSetRate(vftMux, vftHw, FALSE), TRUE, f)
              hw == r.hw
              ok == ~r.bad
          IN  /\ f => r.bad
              /\ vftHw' = IF ok THEN [hw EXCEPT !.cfg = VftMuxStart(x, @)] ELSE hw
              /\ vftMux' = IF ok THEN [vftMux EXCEPT ![x].st = "streaming"] ELSE vftMux
              /\ vftCtx' = [vftCtx EXCEPT ![c] = [pc |-> IF ok THEN "on" ELSE "failed", n |-> @.n + 1]]
              /\ vftG' = VftNote([vftG EXCEPT !.slow = FALSE], vftMux, hw, TRUE, f)
     \/ /\ TRUE \in VftRateFails(vftMux, vftHw)
        /\ vftCtx' = [vftCtx EXCEPT ![c].pc = "failed"]
        /\ vftG' = [vftG EXCEPT !.faults = @ + 1]
        /\ UNCHANGED <<vftMux, vftHw>>

\* The manager stops every mux of the context, whether started or not, and then
\* excludes them from the votes.
VftStop(c) ==
  /\ VftIn(c, {"on", "failed"})
  /\ \E f \in VftBwFails :
       LET mux == [x \in VftAll |-> IF x \in VftOf(c) THEN VftStopped(vftMux[x]) ELSE vftMux[x]]
           r == VftControl(c, FALSE, mux, vftHw, f)
       IN  /\ f => r # VftControl(c, FALSE, mux, vftHw, FALSE)
           /\ vftMux' = r.mux
           /\ vftHw' = r.hw
           /\ vftG' = VftNote([vftG EXCEPT !.left = @ \ {c}], r.mux, r.hw, TRUE, f)
  /\ vftCtx' = [vftCtx EXCEPT ![c] = [pc |-> "open", n |-> 0]]

-----------------------------------------------------------------------------
\* cam_vfe_top_ver2_init
VftInit ==
  /\ vftMux = [x \in VftAll |-> VftBlank]
  /\ vftHw = [open |-> 0, up |-> FALSE, rate |-> 0, real |-> 0, cfg |-> {}, applied |-> 0,
              axi |-> [h \in VftHdls |-> 0], ctr |-> [h \in VftHdls |-> 0],
              ring |-> [h \in VftHdls |-> [i \in 0..(VftRing - 1) |-> 0]]]
  /\ vftCtx = [c \in VftCtxs |-> [pc |-> "idle", n |-> 0]]
  /\ vftG = [opens |-> 0, cmds |-> 0, faults |-> 0, cut |-> {}, refused |-> {}, slow |-> FALSE,
             left |-> {}]

VftNext ==
  \E c \in VftCtxs :
    \/ VftReserve(c) \/ VftRelease(c) \/ VftOpen(c) \/ VftClose(c) \/ VftStart(c) \/ VftStop(c)
    \/ \E x \in VftOf(c) :
         \/ \E r \in VftRates : VftClock(c, x, r)
         \/ \E b \in VftBws : VftBwUpdate(c, x, b)
    \/ \E i \in BOOLEAN : VftBwControl(c, i)

VftSpec == VftInit /\ [][VftNext]_vftVars

-----------------------------------------------------------------------------
\* The core's clock serves every streaming mux and the cached rate is the real
\* one, over power cycles and stops that lower the requests without a new rate
\* (cam_vfe_top_set_hw_clk_rate), unless the last rate was refused.
VftClk ==
  vftHw.up =>
    /\ vftHw.rate # 0 => vftHw.real = vftHw.rate
    /\ \A x \in VftAll : vftMux[x].st = "streaming" => vftHw.real >= vftMux[x].clk \/ vftG.slow

\* The vote at CPAS covers what the included muxes ask for, although the applied
\* vote survives a power cycle and equal sums are not voted again; a
\* start or a bandwidth control that finds the sum different votes zero
\* (cam_vfe_top_set_axi_bw_vote), and a refused vote leaves the old one.
VftCovers ==
  vftHw.up => \A h \in VftHdls :
    vftHw.axi[h] >= VftSum(vftMux, h) \/ h \in vftG.cut \union vftG.refused

\* A mux of a context that closed the core asks for nothing: no request outlives
\* its context in the sums of the others (cam_vfe_top_stop), unless the first
\* configuration failed after it had asked.
VftNoGhost ==
  \A c \in VftCtxs : VftIn(c, {"idle", "acq"}) /\ c \notin vftG.left =>
    \A x \in VftOf(c) : vftMux[x].clk = 0 /\ vftMux[x].bw = 0 /\ ~vftMux[x].inc

\* core_cfg holds the bits of every streaming mux (camif_resource_start writes
\* it, camif_lite_resource_start reads it first).
VftCfg ==
  /\ "camif" \in VftAll /\ vftMux["camif"].st = "streaming" => "pix" \in vftHw.cfg
  /\ "lite" \in VftAll /\ vftMux["lite"].st = "streaming" => "pd" \in vftHw.cfg

\* A bandwidth update lowers the vote only when every sum of last_vote is lower.
VftDelayed ==
  vftHw.up /\ vftCtx' = vftCtx /\ (\A x \in VftAll : vftMux'[x].inc = vftMux[x].inc) =>
    \A h \in VftHdls : vftHw'.axi[h] < vftHw.axi[h] =>
      h \in vftG'.cut \/ \A i \in 0..(VftRing - 1) : vftHw'.ring[h][i] <= vftHw'.axi[h]

-----------------------------------------------------------------------------
(***************************************************************************)
(* The write bus of one VFE core (cam_vfe_bus_ver2): its outputs, their     *)
(* write masters (WMs), the composite groups that make one done interrupt   *)
(* of several write masters, the secure mode the outputs share, and the     *)
(* payloads that carry a done interrupt to the tasklet.                     *)
(*                                                                         *)
(* A context acquires outputs, opens the core, starts and stops them and    *)
(* releases them.  A bottom half is one step: free_payload_list is a FIFO   *)
(* of 256, so that a payload put back is not refilled before it ends.       *)
(***************************************************************************)

CONSTANTS VfbCtxs,      \* contexts on the core
          VfbAsks,      \* [VfbCtxs -> set of out ports asked for]
          VfbWms,       \* write masters
          VfbSingle,    \* the composite groups: a sequence of the single ones
          VfbDual,      \* and one of the dual ones
          VfbPool,      \* payloads
          VfbAcqs,      \* bound: acquires
          VfbIrqs,      \* bound: interrupts
          VfbStarts,    \* bound: starts of a context
          VfbFaults     \* bound: failed subscriptions

VARIABLES vfbOut,       \* [st, ctx, wms, grp, cap, sec] of an output
          vfbWm,        \* [st, irq, sub, ctx] of a write master
          vfbGrp,       \* composite groups
          vfbFree,      \* free_comp_grp and free_dual_comp_grp
          vfbBus,       \* secure count and mode, payloads, error interrupt
          vfbCtx,       \* [pc, q]: phase and tasklet queue
          vfbG          \* history and bounds

vfbVars == <<vfbOut, vfbWm, vfbGrp, vfbFree, vfbBus, vfbCtx, vfbG>>

VfbOuts == {a.out : a \in UNION {VfbAsks[c] : c \in VfbCtxs}}
VfbGrps == ToSet(VfbSingle) \union ToSet(VfbDual)
VfbErr == <<"err">>
VfbWmBit(w) == <<"wm", w>>
VfbGrpBit(g) == <<"grp", g>>

\* Outputs of a context, in the order the manager looks at them, and those whose
\* comp_grp is g
VfbMine(c) == {o \in VfbOuts : vfbOut[o].ctx = c}
VfbOrder(c) == SetToSortSeq(VfbMine(c), <)
VfbHolds(g) == {o \in VfbOuts : vfbOut[o].grp = g /\ vfbOut[o].st # "available"}

VfbIdle == [st |-> "available", ctx |-> 0, wms |-> <<>>, grp |-> 0, cap |-> FALSE, sec |-> 0]

VfbUsed(grp) == {g \in VfbGrps : grp[g].cnt > 0}

\* A group whose done interrupt this core takes
VfbListens(grp, g) == g \in ToSet(VfbSingle) \/ grp[g].master

-----------------------------------------------------------------------------
(* Composite groups. *)

\* cam_vfe_bus_match_comp_grp
VfbMatch(grp, a, c) ==
  IF a.grp = 0 THEN {} ELSE {g \in VfbUsed(grp) : grp[g].loc = a.grp /\ grp[g].uid = c}

\* One more output of a group
VfbJoined(r, c) == [r EXCEPT !.ctx = c, !.cnt = @ + 1]

\* A group off its free list
VfbTaken(r, a, c) ==
  [r EXCEPT !.st = "reserved", !.mask = {}, !.loc = a.grp, !.uid = c, !.master = a.master,
            !.ctx = c, !.cnt = @ + 1]

\* cam_vfe_bus_acquire_comp_grp.  g = 0: it fails
VfbAcquireGrp(grp, free, a, c) ==
  LET kind == IF a.dual THEN "dual" ELSE "single"
      old == VfbMatch(grp, a, c)
  IN  IF old = {}
      THEN IF free[kind] = <<>> THEN [g |-> 0, grp |-> grp, free |-> free]
           ELSE LET g == Head(free[kind])
                IN  [g |-> g, grp |-> [grp EXCEPT ![g] = VfbTaken(@, a, c)],
                     free |-> [free EXCEPT ![kind] = Tail(@)]]
      ELSE LET g == CHOOSE x \in old : TRUE
           IN  IF grp[g].st = "streaming" THEN [g |-> 0, grp |-> grp, free |-> free]
               ELSE [g |-> g, grp |-> [grp EXCEPT ![g] = VfbJoined(@, c)], free |-> free]

\* cam_vfe_bus_release_comp_grp: nothing for a group that is free or streams or
\* is not on used_comp_grp.
VfbReleaseGrp(grp, free, g) ==
  IF g = 0 \/ grp[g].st # "reserved" \/ grp[g].cnt = 0 THEN [grp |-> grp, free |-> free]
  ELSE IF grp[g].cnt > 1 THEN [grp |-> [grp EXCEPT ![g].cnt = @ - 1], free |-> free]
  ELSE [grp |-> [grp EXCEPT ![g] = [@ EXCEPT !.cnt = 0, !.mask = {}, !.uid = 0, !.loc = 0, !.st = "available"]],
        free |-> [free EXCEPT ![IF g \in ToSet(VfbDual) THEN "dual" ELSE "single"] = Append(@, g)]]

\* cam_vfe_bus_start_comp_grp
VfbStartGrp(r, listens, fails) ==
  LET w == [r EXCEPT !.hw = r.mask]
  IN  IF r.st = "streaming" \/ (fails /\ listens) THEN w
      ELSE [w EXCEPT !.st = "streaming", !.sub = listens]

\* cam_vfe_bus_stop_comp_grp
VfbStopGrp(r, listens) ==
  [r EXCEPT !.st = "reserved", !.sub = IF listens THEN FALSE ELSE @]

-----------------------------------------------------------------------------
(* Write masters. *)

\* cam_vfe_bus_acquire_wm: the write master is reserved before its format is
\* looked at.
VfbReserveWm(w, irq, c) == [w EXCEPT !.st = "reserved", !.irq = irq, !.ctx = c]

\* cam_vfe_bus_release_wm
VfbReleaseWm(w) == [w EXCEPT !.st = "available", !.irq = FALSE]

\* cam_vfe_bus_start_wm
VfbStartWm(w, fails) ==
  IF w.irq /\ fails THEN w ELSE [w EXCEPT !.st = "streaming", !.sub = w.irq]

\* cam_vfe_bus_stop_wm
VfbStopWm(w) == [w EXCEPT !.st = "reserved", !.sub = IF w.irq THEN FALSE ELSE @]

-----------------------------------------------------------------------------
(* Outputs. *)

VfbIn(c, pcs) == vfbCtx[c].pc \in pcs

VfbQuiet(g) == [g EXCEPT !.told = [x |-> <<>>, got |-> <<>>, put |-> TRUE]]

\* Whether an output that can be secure is refused its mode
VfbRefuses(bus, a) == a.cap /\ bus.num > 0 /\ a.sec # bus.mode

\* The secure part of cam_vfe_bus_acquire_vfe_out, not undone when what follows
\* fails
VfbSecure(bus, a) ==
  IF ~a.cap THEN bus ELSE [bus EXCEPT !.num = @ + 1, !.mode = IF bus.num = 0 THEN a.sec ELSE @]

\* The first write master of the port that cannot be had; 0: none
VfbStuckAt(a) ==
  LET bad == {i \in 1..Len(a.wms) : vfbWm[a.wms[i]].st # "available" \/ ~a.ok}
  IN  IF bad = {} THEN 0 ELSE Min(bad)

\* cam_vfe_bus_acquire_vfe_out
VfbAcquire(c, a) ==
  LET needs == Len(a.wms) > 1 \/ a.dual \/ a.grp # 0
      bus == VfbSecure(vfbBus, a)
      r == IF needs THEN VfbAcquireGrp(vfbGrp, vfbFree, a, c)
           ELSE [g |-> vfbOut[a.out].grp, grp |-> vfbGrp, free |-> vfbFree]
      k == VfbStuckAt(a)
      n == IF k = 0 THEN Len(a.wms) ELSE k - 1
      got == {a.wms[i] : i \in 1..n}
      masked == IF r.g = 0 THEN r.grp ELSE [r.grp EXCEPT ![r.g].mask = @ \union got]
      back == VfbReleaseGrp(masked, r.free, r.g)
      g1 == VfbQuiet([vfbG EXCEPT !.acqs = @ + 1, !.stale = @ \/ (~needs /\ r.g # 0)])
  IN  /\ VfbIn(c, {"acq"}) /\ vfbG.acqs < VfbAcqs
      /\ vfbOut[a.out].st = "available" /\ ~VfbRefuses(vfbBus, a)
      /\ vfbBus' = [bus EXCEPT !.owner = c]
      /\ IF needs /\ r.g = 0
         THEN /\ vfbG' = [g1 EXCEPT !.leak = @ + (IF a.cap THEN 1 ELSE 0)]
              /\ vfbCtx' = [vfbCtx EXCEPT ![c].pc = "undo"]
              /\ UNCHANGED <<vfbOut, vfbWm, vfbGrp, vfbFree>>
         ELSE IF k = 0
         THEN /\ vfbOut' = [vfbOut EXCEPT ![a.out] = [st |-> "reserved", ctx |-> c, wms |-> a.wms,
                                                     grp |-> r.g, cap |-> a.cap, sec |-> a.sec]]
              /\ vfbWm' = [w \in VfbWms |-> IF w \in got THEN VfbReserveWm(vfbWm[w], ~needs, c) ELSE vfbWm[w]]
              /\ vfbGrp' = masked /\ vfbFree' = r.free
              /\ vfbG' = g1
              /\ UNCHANGED vfbCtx
         ELSE /\ vfbOut' = [vfbOut EXCEPT ![a.out].grp = r.g]
              /\ vfbWm' = [vfbWm EXCEPT ![a.wms[k]] = IF @.st = "available" THEN VfbReserveWm(@, ~needs, c) ELSE @]
              /\ vfbGrp' = back.grp /\ vfbFree' = back.free
              /\ vfbG' = [g1 EXCEPT !.leak = @ + (IF a.cap THEN 1 ELSE 0),
                                    !.stuck = @ \union (IF vfbWm[a.wms[k]].st = "available" THEN {a.wms[k]} ELSE {})]
              /\ vfbCtx' = [vfbCtx EXCEPT ![c].pc = "undo"]

\* The secure part of cam_vfe_bus_release_vfe_out
VfbUnsecure(bus, o) ==
  IF ~vfbOut[o].cap \/ vfbOut[o].sec # bus.mode THEN bus
  ELSE [bus EXCEPT !.num = @ - 1, !.mode = IF bus.num = 1 THEN 0 ELSE @]

\* cam_vfe_bus_release_vfe_out
VfbReleaseOut(s, o) ==
  LET back == VfbReleaseGrp(s.grp, s.free, vfbOut[o].grp)
  IN  [wm |-> [w \in VfbWms |-> IF w \in ToSet(vfbOut[o].wms) THEN VfbReleaseWm(s.wm[w]) ELSE s.wm[w]],
       grp |-> back.grp, free |-> back.free, bus |-> VfbUnsecure(s.bus, o)]

\* cam_ife_hw_mgr_release_hw_for_ctx: every output of the context
VfbRelease(c) ==
  LET s == FoldLeft(VfbReleaseOut, [wm |-> vfbWm, grp |-> vfbGrp, free |-> vfbFree, bus |-> vfbBus], VfbOrder(c))
  IN  /\ VfbIn(c, {"acq", "undo"}) /\ (VfbMine(c) = {} => VfbIn(c, {"undo"}))
      /\ vfbWm' = s.wm /\ vfbGrp' = s.grp /\ vfbFree' = s.free /\ vfbBus' = s.bus
      /\ vfbOut' = [o \in VfbOuts |-> IF o \in VfbMine(c) THEN VfbIdle ELSE vfbOut[o]]
      /\ vfbCtx' = [vfbCtx EXCEPT ![c].pc = "acq"]
      /\ vfbG' = VfbQuiet(vfbG)

\* cam_vfe_bus_start_vfe_out: the result is that of the last call.
VfbStart(o, fails) ==
  LET g == vfbOut[o].grp
      heard == IF g # 0 THEN VfbListens(vfbGrp, g) /\ vfbGrp[g].st # "streaming"
               ELSE vfbWm[vfbOut[o].wms[1]].irq
  IN  /\ vfbOut[o].st = "reserved" /\ VfbIn(vfbOut[o].ctx, {"start"})
      /\ fails => heard /\ vfbG.faults < VfbFaults
      /\ vfbWm' = [w \in VfbWms |-> IF w \in ToSet(vfbOut[o].wms)
                                    THEN VfbStartWm(vfbWm[w], fails /\ g = 0) ELSE vfbWm[w]]
      /\ vfbGrp' = IF g = 0 THEN vfbGrp
                   ELSE [vfbGrp EXCEPT ![g] = VfbStartGrp(@, VfbListens(vfbGrp, g), fails)]
      /\ vfbOut' = [vfbOut EXCEPT ![o].st = "streaming"]
      /\ vfbCtx' = IF fails THEN [vfbCtx EXCEPT ![vfbOut[o].ctx].pc = "stop"] ELSE vfbCtx
      /\ vfbG' = VfbQuiet([vfbG EXCEPT !.faults = @ + (IF fails THEN 1 ELSE 0)])
      /\ UNCHANGED <<vfbFree, vfbBus>>

\* cam_vfe_bus_stop_vfe_out
VfbStop(o) ==
  LET g == vfbOut[o].grp
  IN  /\ vfbOut[o].st = "streaming" /\ VfbIn(vfbOut[o].ctx, {"stop"})
      /\ vfbGrp' = IF g = 0 THEN vfbGrp
                   ELSE [vfbGrp EXCEPT ![g] = VfbStopGrp(@, VfbListens(vfbGrp, g))]
      /\ vfbWm' = [w \in VfbWms |-> IF w \in ToSet(vfbOut[o].wms) THEN VfbStopWm(vfbWm[w]) ELSE vfbWm[w]]
      /\ vfbOut' = [vfbOut EXCEPT ![o].st = "reserved"]
      /\ vfbG' = VfbQuiet(vfbG)
      /\ UNCHANGED <<vfbFree, vfbBus, vfbCtx>>

-----------------------------------------------------------------------------
(* Contexts. *)

\* cam_vfe_bus_init_hw with the first context: the error interrupt goes to the
\* tasklet of the context that last acquired.
VfbOpen(c) ==
  /\ VfbIn(c, {"acq"}) /\ VfbMine(c) # {} /\ vfbG.starts < VfbStarts
  /\ vfbCtx' = [vfbCtx EXCEPT ![c].pc = "start"]
  /\ vfbBus' = IF \E d \in VfbCtxs : ~VfbIn(d, {"acq", "undo"}) THEN vfbBus
               ELSE [vfbBus EXCEPT !.err = vfbBus.owner]
  /\ vfbG' = VfbQuiet([vfbG EXCEPT !.starts = @ + 1])
  /\ UNCHANGED <<vfbOut, vfbWm, vfbGrp, vfbFree>>

\* A stop of the context begins.
VfbHalt(c) ==
  /\ VfbIn(c, {"start"})
  /\ vfbCtx' = [vfbCtx EXCEPT ![c].pc = "stop"]
  /\ vfbG' = VfbQuiet(vfbG)
  /\ UNCHANGED <<vfbOut, vfbWm, vfbGrp, vfbFree, vfbBus>>

\* cam_vfe_bus_deinit_hw
VfbDeinit(bus) == [bus EXCEPT !.err = 0, !.free = VfbPool, !.lost = 0]

\* The tasklet of a stopped context drops what is queued, and the last context
\* takes the power.
VfbClose(c) ==
  /\ VfbIn(c, {"stop"}) /\ \A o \in VfbMine(c) : vfbOut[o].st = "reserved"
  /\ vfbCtx' = [vfbCtx EXCEPT ![c] = [pc |-> "acq", q |-> <<>>]]
  /\ LET bus == [vfbBus EXCEPT !.lost = @ + Len(vfbCtx[c].q)]
     IN  vfbBus' = IF \A d \in VfbCtxs \ {c} : VfbIn(d, {"acq", "undo"}) THEN VfbDeinit(bus) ELSE bus
  /\ vfbG' = VfbQuiet(vfbG)
  /\ UNCHANGED <<vfbOut, vfbWm, vfbGrp, vfbFree>>

-----------------------------------------------------------------------------
(* Interrupts. *)

\* cam_vfe_bus_get_evt_payload and the enqueueing of the bottom half: nothing
\* when the tasklet is not active, nothing without a payload
VfbTake(c, x, bus) ==
  /\ vfbG.irqs < VfbIrqs /\ bus.free > 0 /\ VfbIn(c, {"start", "stop"})
  /\ vfbBus' = [bus EXCEPT !.free = @ - 1]
  /\ vfbCtx' = [vfbCtx EXCEPT ![c].q = Append(@, x)]
  /\ vfbG' = VfbQuiet([vfbG EXCEPT !.irqs = @ + 1])
  /\ UNCHANGED <<vfbOut, vfbWm, vfbGrp, vfbFree>>

\* cam_vfe_bus_handle_wm_done_top_half
VfbWmDone(w) == vfbWm[w].sub /\ VfbTake(vfbWm[w].ctx, VfbWmBit(w), vfbBus)

\* cam_vfe_bus_handle_comp_done_top_half
VfbGrpDone(g) == vfbGrp[g].sub /\ VfbTake(vfbGrp[g].ctx, VfbGrpBit(g), vfbBus)

\* cam_vfe_bus_error_irq_top_half: the interrupt is disabled.
VfbError == vfbBus.err # 0 /\ VfbTake(vfbBus.err, VfbErr, [vfbBus EXCEPT !.err = 0])

\* cam_vfe_bus_handle_comp_done_bottom_half
VfbCount(r, at) ==
  IF at + 1 = r.cnt THEN [hit |-> TRUE, clear |-> TRUE, trig |-> 0]
  ELSE [hit |-> TRUE, clear |-> FALSE, trig |-> at + 1]

\* One output looks at the payload (s: bit still set, trig counts, outputs told)
VfbLook(s, o, x) ==
  LET g == vfbOut[o].grp
      r == IF ~s.on THEN [hit |-> FALSE, clear |-> FALSE, trig |-> 0]
           ELSE IF g # 0 /\ x = VfbGrpBit(g) THEN VfbCount(vfbGrp[g], s.trig)
           ELSE [hit |-> g = 0 /\ x = VfbWmBit(vfbOut[o].wms[1]), clear |-> g = 0 /\ x = VfbWmBit(vfbOut[o].wms[1]), trig |-> s.trig]
  IN  IF ~r.hit THEN s
      ELSE [on |-> ~r.clear, trig |-> r.trig, got |-> Append(s.got, o)]

\* cam_vfe_bus_put_evt_payload: not while a bit is left
VfbPut(bus, on) == IF on THEN [bus EXCEPT !.lost = @ + 1] ELSE [bus EXCEPT !.free = @ + 1]

\* cam_ife_mgr_do_tasklet_buf_done and cam_vfe_bus_err_bottom_half
VfbTasklet(c) ==
  LET x == Head(vfbCtx[c].q)
      s == FoldLeft(LAMBDA a, o : VfbLook(a, o, x),
                    [on |-> TRUE, trig |-> IF x[1] = "grp" THEN vfbGrp[x[2]].trig ELSE 0, got |-> <<>>],
                    IF x = VfbErr THEN <<>> ELSE VfbOrder(c))
  IN  /\ vfbCtx[c].q # <<>>
      /\ vfbCtx' = [vfbCtx EXCEPT ![c].q = Tail(@)]
      /\ vfbBus' = VfbPut(vfbBus, s.on)
      /\ vfbGrp' = IF x[1] = "grp" THEN [vfbGrp EXCEPT ![x[2]].trig = s.trig] ELSE vfbGrp
      /\ vfbG' = [vfbG EXCEPT !.told = [x |-> x, got |-> s.got, put |-> ~s.on]]
      /\ UNCHANGED <<vfbOut, vfbWm, vfbFree>>

-----------------------------------------------------------------------------

VfbInit ==
  /\ vfbOut = [o \in VfbOuts |-> VfbIdle]
  /\ vfbWm = [w \in VfbWms |-> [st |-> "available", irq |-> FALSE, sub |-> FALSE, ctx |-> 0]]
  /\ vfbGrp = [g \in VfbGrps |-> [st |-> "available", loc |-> 0, uid |-> 0, cnt |-> 0, mask |-> {}, hw |-> {},
                                  trig |-> 0, sub |-> FALSE, ctx |-> 0, master |-> FALSE]]
  /\ vfbFree = [single |-> VfbSingle, dual |-> VfbDual]
  /\ vfbBus = [num |-> 0, mode |-> 0, free |-> VfbPool, lost |-> 0, err |-> 0, owner |-> 0]
  /\ vfbCtx = [c \in VfbCtxs |-> [pc |-> "acq", q |-> <<>>]]
  /\ vfbG = [acqs |-> 0, irqs |-> 0, starts |-> 0, faults |-> 0, leak |-> 0, stuck |-> {}, stale |-> FALSE, told |-> [x |-> <<>>, got |-> <<>>, put |-> TRUE]]

VfbNext ==
  \/ \E c \in VfbCtxs : \/ \E a \in VfbAsks[c] : VfbAcquire(c, a)
                        \/ VfbRelease(c) \/ VfbOpen(c) \/ VfbHalt(c) \/ VfbClose(c) \/ VfbTasklet(c)
  \/ \E o \in VfbOuts : VfbStop(o) \/ \E f \in BOOLEAN : VfbStart(o, f)
  \/ \E w \in VfbWms : VfbWmDone(w)
  \/ \E g \in VfbGrps : VfbGrpDone(g)
  \/ VfbError

VfbSpec == VfbInit /\ [][VfbNext]_vfbVars

-----------------------------------------------------------------------------
(* Properties. *)

VfbHeld == {o \in VfbOuts : vfbOut[o].st # "available"}

\* A composite group counts the outputs that hold it, is off its free list just
\* while it counts any, and composes the write masters of those outputs
\* (acquire_comp_grp, release_comp_grp, add_wm_to_comp_grp), as long as no output
\* was asked for with the group pointer a failed acquire had left it (stale).
VfbGroups ==
  ~vfbG.stale =>
    \A g \in VfbGrps :
      LET wms == UNION {ToSet(vfbOut[o].wms) : o \in VfbHolds(g)}
      IN  /\ vfbGrp[g].cnt = Cardinality(VfbHolds(g))
          /\ (g \in ToSet(vfbFree.single) \union ToSet(vfbFree.dual)) <=> vfbGrp[g].cnt = 0
          /\ vfbGrp[g].mask = wms

\* A write master is taken just while an output holds it, except the one whose
\* format was refused (acquire_wm): that one stays reserved.
VfbMasters ==
  LET held == VfbHeld
  IN  \A w \in VfbWms :
        LET users == {o \in held : w \in ToSet(vfbOut[o].wms)}
        IN  /\ vfbWm[w].st # "available" <=> (w \in vfbG.stuck \/ users # {})
            /\ Cardinality(users) <= 1

\* num_sec_out counts the outputs held that can be secure, and those of failed
\* acquires (leak); all that are held have the mode of the bus.
VfbOneMode ==
  LET caps == {o \in VfbHeld : vfbOut[o].cap}
  IN  /\ vfbBus.num = Cardinality(caps) + vfbG.leak
      /\ \A o \in caps : vfbOut[o].sec = vfbBus.mode

\* Of a context that is started, with all outputs streaming, each output is heard
\* of: its group (of a master, or not dual) or its own write master has its done
\* interrupt, and the hardware composes all its write masters (start_comp_grp,
\* start_wm).  Of a context that is not started none is.
VfbHeard ==
  ~vfbG.stale =>
    \A o \in VfbHeld :
      LET g == vfbOut[o].grp
          c == vfbOut[o].ctx
      IN  /\ (VfbIn(c, {"start"}) /\ \A p \in VfbMine(c) : vfbOut[p].st = "streaming") =>
               IF g = 0 THEN vfbWm[vfbOut[o].wms[1]].sub
               ELSE vfbGrp[g].sub = VfbListens(vfbGrp, g) /\ ToSet(vfbOut[o].wms) \subseteq vfbGrp[g].hw
          /\ VfbIn(c, {"acq", "undo"}) =>
               (g # 0 => ~vfbGrp[g].sub) /\ \A i \in 1..Len(vfbOut[o].wms) : ~vfbWm[vfbOut[o].wms[i]].sub

\* A done interrupt that reaches the tasklet is reported once for each output it
\* is about, and its payload goes back (handle_comp_done_bottom_half counts the
\* outputs of the group; handle_wm_done_bottom_half).
VfbToldOnce ==
  (~vfbG.stale /\ vfbG.told.x # <<>> /\ vfbG.told.x # VfbErr) =>
    LET x == vfbG.told.x
    IN  /\ vfbG.told.put /\ IsInjective(vfbG.told.got)
        /\ ToSet(vfbG.told.got) =
             {o \in VfbHeld : IF x[1] = "grp" THEN vfbOut[o].grp = x[2]
                              ELSE vfbOut[o].grp = 0 /\ vfbOut[o].wms = <<x[2]>>}

\* A payload is on the free list, with a queued bottom half, or lost; with no
\* context on the core all are on the list (put_evt_payload, deinit_hw).
VfbPayloads ==
  /\ vfbBus.free + vfbBus.lost + MapThenSumSet(LAMBDA c : Len(vfbCtx[c].q), VfbCtxs) = VfbPool
  /\ (\A c \in VfbCtxs : VfbIn(c, {"acq", "undo"})) => vfbBus.free = VfbPool

\* Clock and bandwidth votes cover the streaming muxes and fall only when they may;
\* groups, write masters, secure mode and payloads of the bus are those of its users.
VfeCorrect ==
    [][/\ (VftClk /\ VftCovers /\ VftNoGhost /\ VftCfg)' /\ [VftDelayed]_vftVars
       /\ (VfbGroups /\ VfbMasters /\ VfbOneMode)'
       /\ (VfbHeard /\ VfbToldOnce /\ VfbPayloads)']_<<vftVars, vfbVars>>
=============================================================================
