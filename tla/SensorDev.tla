------------------------------ MODULE SensorDev ------------------------------
(***************************************************************************)
(* The camera sensor device (cam_sensor_core.c): its life from probe to    *)
(* close, its power, and the ring of per-frame register settings that user *)
(* space fills and the request manager applies.                            *)
(*                                                                         *)
(* Every entry point takes cam_sensor_mutex, so each is one action. User   *)
(* space keeps to the interface it probed with: the camera one (acquire,   *)
(* configure, start, link) or the automotive one (power up, power down).   *)
(* The request manager is external: it applies the requests it was told of *)
(* in order, repeats one of the last two after a bubble, and forgets the   *)
(* waiting ones on a flush.                                                *)
(***************************************************************************)
EXTENDS Integers, FiniteSets, Sequences, TLC

CONSTANTS SnsRing,     \* MAX_PER_FRAME_ARRAY
          SnsBatch,    \* BATCH_SIZE_MAX
          SnsWord,     \* 2^64, the modulus of the unsigned difference
          SnsMaxReq,   \* requests
          SnsFaults,   \* failing calls
          SnsOpens     \* probes

ASSUME SnsAssumption ==
  /\ SnsRing \in Nat \ {0, 1} /\ SnsBatch \in Nat \ {0} /\ SnsWord > 2 * SnsRing

VARIABLES
  snsDev,    \* sensor_state, is_probe_succeed, handles, power, settings
  snsSlot,   \* per_frame: valid, request_id
  snsCrm,    \* the request manager: pending, last two applied
  snsGhost   \* budgets and what has happened, see SnsInit

snsVars == <<snsDev, snsSlot, snsCrm, snsGhost>>

SnsReqs == 1..SnsMaxReq
SnsEmpty == [valid |-> FALSE, req |-> 0]
SnsNoCrm == [next |-> 1, pend |-> {}, upd |-> {}, last |-> 0, prev |-> 0]
SnsOff == [st |-> "INIT", probed |-> FALSE, mode |-> "none", hdl |-> FALSE,
           link |-> FALSE, pw |-> FALSE, son |-> FALSE]

SnsInit ==
  /\ snsDev = SnsOff
  /\ snsSlot = [i \in 0..SnsRing - 1 |-> SnsEmpty]
  /\ snsCrm = SnsNoCrm
  /\ snsGhost = [faults |-> SnsFaults, opens |-> SnsOpens,
                 leak |-> FALSE,   \* power left on by a failing power up
                 full |-> {},      \* requests that met an occupied slot
                 gap |-> 0]        \* applies until the last two are settings again

SnsFault(f) == f => snsGhost.faults > 0
SnsSpent(f) == IF f THEN snsGhost.faults - 1 ELSE snsGhost.faults
SnsIn(S) == snsDev.st \in S

(* delete_request on every valid slot; request_id is not read while a slot  *)
(* is not valid.                                                            *)
SnsDropped == [i \in DOMAIN snsSlot |-> SnsEmpty]

-----------------------------------------------------------------------------
(* CAM_SENSOR_PROBE_CMD: power up, read the identifier, power down. How it  *)
(* ends: "ok"; "off", a failure with the power off; "io", the bus fails     *)
(* after the power came up, which nothing switches off.                     *)
SnsProbe(end) ==
  /\ snsGhost.opens > 0 /\ ~snsDev.probed
  /\ SnsFault(end # "ok")
  /\ snsDev' = IF end = "ok" THEN [snsDev EXCEPT !.probed = TRUE, !.mode = "cam",
                                                 !.st = "INIT"]
               ELSE [snsDev EXCEPT !.pw = @ \/ end = "io"]
  /\ snsGhost' = [snsGhost EXCEPT !.opens = @ - 1, !.faults = SnsSpent(end # "ok"),
                                  !.leak = @ \/ end = "io"]
  /\ UNCHANGED <<snsSlot, snsCrm>>

(* AIS_SENSOR_PROBE_CMD touches no hardware. *)
SnsAisProbe ==
  /\ snsGhost.opens > 0 /\ ~snsDev.probed
  /\ snsDev' = [snsDev EXCEPT !.probed = TRUE, !.mode = "ais", !.st = "INIT"]
  /\ snsGhost' = [snsGhost EXCEPT !.opens = @ - 1]
  /\ UNCHANGED <<snsSlot, snsCrm>>

(* AIS_SENSOR_POWER_UP and AIS_SENSOR_POWER_DOWN *)
SnsAisPowerUp(end) ==
  /\ snsDev.mode = "ais" /\ SnsIn({"INIT"}) /\ SnsFault(end # "ok")
  /\ snsDev' = [snsDev EXCEPT !.st = IF end = "ok" THEN "ACQUIRE" ELSE @,
                              !.pw = @ \/ end \in {"ok", "io"}]
  /\ snsGhost' = [snsGhost EXCEPT !.faults = SnsSpent(end # "ok"),
                                  !.leak = @ \/ end = "io"]
  /\ UNCHANGED <<snsSlot, snsCrm>>

SnsAisPowerDown ==
  /\ snsDev.mode = "ais" /\ ~SnsIn({"START"})
  /\ snsDev' = [snsDev EXCEPT !.st = "INIT", !.pw = FALSE]
  /\ snsGhost' = [snsGhost EXCEPT !.leak = FALSE]
  /\ UNCHANGED <<snsSlot, snsCrm>>

(* CAM_ACQUIRE_DEV: the device handle is made first and kept when the       *)
(* power up fails.                                                          *)
SnsAcquire(end) ==
  /\ snsDev.mode = "cam" /\ snsDev.probed /\ SnsIn({"INIT"}) /\ ~snsDev.hdl
  /\ SnsFault(end # "ok")
  /\ snsDev' = [snsDev EXCEPT !.hdl = TRUE,
                              !.pw = @ \/ end \in {"ok", "io"},
                              !.st = IF end = "ok" THEN "ACQUIRE" ELSE @]
  /\ snsGhost' = [snsGhost EXCEPT !.faults = SnsSpent(end # "ok"),
                                  !.leak = @ \/ end = "io"]
  /\ UNCHANGED <<snsSlot, snsCrm>>

SnsReleasedDev ==
  [snsDev EXCEPT !.st = "INIT", !.pw = FALSE, !.hdl = FALSE, !.son = FALSE]

(* CAM_RELEASE_DEV, refused while linked or streaming. *)
SnsRelease ==
  /\ snsDev.mode = "cam" /\ ~SnsIn({"INIT", "START"}) /\ ~snsDev.link
  /\ snsDev' = SnsReleasedDev
  /\ snsSlot' = SnsDropped
  /\ snsCrm' = SnsNoCrm
  /\ snsGhost' = [snsGhost EXCEPT !.leak = FALSE, !.full = {}, !.gap = 0]

(* What cam_sensor_shutdown leaves; power is cut unless the state is INIT. *)
SnsClosed == [SnsOff EXCEPT !.pw = SnsIn({"INIT"}) /\ snsDev.pw]

(* The subdevice is closed (cam_sensor_shutdown); destroying the handle     *)
(* keeps the request manager from calling again.                            *)
SnsClose ==
  /\ snsDev.probed
  /\ snsDev' = SnsClosed
  /\ snsSlot' = SnsDropped
  /\ snsCrm' = SnsNoCrm
  /\ snsGhost' = [snsGhost EXCEPT !.leak = SnsIn({"INIT"}) /\ @, !.full = {},
                                  !.gap = 0]

(* cam_sensor_establish_link *)
SnsLink(on) ==
  /\ snsDev.hdl /\ ~SnsIn({"INIT"}) /\ snsDev.link # on
  /\ snsDev' = [snsDev EXCEPT !.link = on]
  /\ snsCrm' = [snsCrm EXCEPT !.pend = {}, !.upd = {}, !.last = 0, !.prev = 0]
  /\ UNCHANGED <<snsSlot, snsGhost>>

-----------------------------------------------------------------------------
(* CAM_START_DEV; a failing write leaves the state. *)
SnsStart(f) ==
  /\ snsDev.mode = "cam" /\ SnsIn({"ACQUIRE", "CONFIG"})
  /\ SnsFault(f) /\ (f => snsDev.son)
  /\ snsDev' = [snsDev EXCEPT !.st = IF f THEN @ ELSE "START"]
  /\ snsGhost' = [snsGhost EXCEPT !.faults = SnsSpent(f)]
  /\ UNCHANGED <<snsSlot, snsCrm>>

(* CAM_STOP_DEV: a failing write is only reported, all settings go. *)
SnsStop ==
  /\ SnsIn({"START"})
  /\ snsDev' = [snsDev EXCEPT !.st = "ACQUIRE"]
  /\ snsSlot' = SnsDropped
  /\ snsCrm' = [snsCrm EXCEPT !.pend = {}, !.upd = {}, !.last = 0, !.prev = 0]
  /\ UNCHANGED snsGhost

(* CAM_CONFIG_DEV with settings for now: the initial ones or those of the   *)
(* mode, which make the state CONFIG, are written; those of stream on are   *)
(* kept, the first only (those of stream off decide nothing).               *)
SnsConfig(op, f) ==
  /\ snsDev.mode = "cam" /\ ~SnsIn({"INIT"})
  /\ SnsFault(f)
  /\ snsDev' = IF f THEN snsDev
               ELSE CASE op = "config" -> [snsDev EXCEPT !.st = "CONFIG"]
                      [] op = "son" -> [snsDev EXCEPT !.son = TRUE]
                      [] OTHER -> snsDev
  /\ snsGhost' = [snsGhost EXCEPT !.faults = SnsSpent(f)]
  /\ UNCHANGED <<snsSlot, snsCrm>>

(* cam_sensor_update_req_mgr *)
SnsTold(r, upd) ==
  IF snsDev.link
    THEN [snsCrm EXCEPT !.next = r + 1, !.pend = @ \cup {r},
                        !.upd = IF upd THEN @ \cup {r} ELSE @]
    ELSE [snsCrm EXCEPT !.next = r + 1]

SnsTaken(i) == snsSlot[i].valid

(* CAM_CONFIG_DEV with the settings of a frame (SENSOR_UPDATE). The request *)
(* manager is told even when the slot is occupied and the packet dropped.   *)
SnsUpdate(r, f) ==
  LET i == r % SnsRing
      taken == SnsTaken(i)
  IN  /\ SnsIn({"CONFIG", "START"}) /\ r = snsCrm.next
      /\ SnsFault(f) /\ (f => ~taken)
      /\ snsSlot' = [snsSlot EXCEPT ![i] =
                      IF taken \/ f THEN @ ELSE [valid |-> TRUE, req |-> r]]
      /\ snsCrm' = IF f THEN snsCrm ELSE SnsTold(r, TRUE)
      /\ snsGhost' = [snsGhost EXCEPT !.faults = SnsSpent(f),
                                      !.full = IF taken THEN @ \cup {r} ELSE @]
      /\ UNCHANGED snsDev

(* A frame without settings (SENSOR_NOP). *)
SnsNop(r) ==
  /\ SnsIn({"CONFIG", "START"}) /\ r = snsCrm.next
  /\ snsCrm' = SnsTold(r, FALSE)
  /\ UNCHANGED <<snsDev, snsSlot, snsGhost>>

-----------------------------------------------------------------------------
(* cam_sensor_apply_settings for a frame. The ring is searched in index     *)
(* order for the highest request up to r; each new highest makes the one    *)
(* before it the bound below which settings are deleted.                    *)
SnsScan(r) ==
  LET s[i \in 0..SnsRing] ==
        IF i = 0 THEN [top |-> 0, del |-> 0]
        ELSE LET b == s[i - 1]
                 x == snsSlot[i - 1]
             IN  IF x.valid /\ x.req <= r /\ x.req > b.top
                   THEN [top |-> x.req, del |-> b.top]
                   ELSE b
  IN  s[SnsRing]

(* "(top - req) >= BATCH_SIZE_MAX || (top - req) <= -BATCH_SIZE_MAX" on the *)
(* indices, in unsigned arithmetic.                                         *)
SnsFar(top, r) ==
  LET diff == ((top % SnsRing) - (r % SnsRing)) % SnsWord
  IN  diff >= SnsBatch \/ diff <= SnsWord - SnsBatch

(* Mutant: the request applied is the bound. *)
SnsDelTop(r) == r

SnsDel(r) ==
  LET s == SnsScan(r)
  IN  IF s.top < r /\ SnsFar(s.top, r) THEN r ELSE s.del

SnsApply(r, f) ==
  LET own == snsSlot[r % SnsRing].valid /\ snsSlot[r % SnsRing].req = r
      again == r \in {snsCrm.last, snsCrm.prev}
  IN  /\ snsDev.link /\ r # 0
      /\ \/ again
         \/ r \in snsCrm.pend /\ \A q \in snsCrm.pend : q >= r
      /\ SnsFault(f) /\ (f => own)
      /\ snsSlot' = IF f THEN snsSlot
                    ELSE [i \in DOMAIN snsSlot |->
                           IF snsSlot[i].valid /\ snsSlot[i].req < SnsDel(r)
                             THEN SnsEmpty ELSE snsSlot[i]]
      /\ snsCrm' = IF f \/ again THEN snsCrm
                   ELSE [snsCrm EXCEPT
                          !.pend = @ \ {r}, !.upd = @ \ {r},
                          !.last = IF r \in snsCrm.upd THEN r ELSE @,
                          !.prev = IF r \in snsCrm.upd THEN snsCrm.last ELSE @]
      /\ snsGhost' = [snsGhost EXCEPT
                        !.faults = SnsSpent(f),
                        !.gap = IF f THEN @
                                ELSE IF ~own THEN 2
                                ELSE IF again \/ @ = 0 THEN @ ELSE @ - 1]
      /\ UNCHANGED snsDev

(* cam_sensor_flush_request: "state != START || state != CONFIG" is true of *)
(* every state, so the device keeps everything; the request manager does    *)
(* not.                                                                     *)
SnsFlush ==
  /\ snsDev.link /\ snsCrm.pend # {}
  /\ snsCrm' = [snsCrm EXCEPT !.pend = {}, !.upd = {}]
  /\ snsGhost' = [snsGhost EXCEPT !.gap = 2]
  /\ UNCHANGED <<snsDev, snsSlot>>

-----------------------------------------------------------------------------
SnsNext ==
  \/ \E end \in {"ok", "off", "io"} :
       SnsProbe(end) \/ SnsAisPowerUp(end) \/ SnsAcquire(end)
  \/ SnsAisProbe \/ SnsAisPowerDown \/ SnsRelease \/ SnsClose
  \/ SnsStop \/ SnsFlush
  \/ \E on \in BOOLEAN : SnsLink(on)
  \/ \E f \in BOOLEAN :
       \/ SnsStart(f)
       \/ \E op \in {"init", "config", "son"} : SnsConfig(op, f)
       \/ \E r \in SnsReqs : SnsUpdate(r, f) \/ SnsApply(r, f)
  \/ \E r \in SnsReqs : SnsNop(r)

SnsSpec == SnsInit /\ [][SnsNext]_snsVars

-----------------------------------------------------------------------------
(* The sensor is powered exactly while it is acquired, whatever fails on    *)
(* the way, except after the bus failed once the power was up.              *)
SnsPower == ~snsGhost.leak => (snsDev.pw <=> ~SnsIn({"INIT"}))

(* A request the request manager waits to apply has its own settings in its *)
(* slot, unless the slot was occupied when they came.                       *)
SnsKept ==
  \A r \in (snsCrm.pend \cap snsCrm.upd) \ snsGhost.full :
    snsSlot[r % SnsRing].valid /\ snsSlot[r % SnsRing].req = r

(* The settings of the last request applied, and of the one before it, stay *)
(* for a bubble that repeats them. A request without settings breaks this:  *)
(* the unsigned comparison of SnsFar then deletes all that are older. So    *)
(* does a flush, whose requests stay in the ring.                           *)
SnsRepeat ==
  \A r \in (CASE snsGhost.gap = 0 -> {snsCrm.last, snsCrm.prev}
             [] snsGhost.gap = 1 -> {snsCrm.last}
             [] OTHER -> {}) \ (snsGhost.full \cup {0}) :
    snsSlot[r % SnsRing].valid /\ snsSlot[r % SnsRing].req = r

\* Power follows the state, and the settings of a request are kept until it was
\* applied and used only for it.
SnsSafe ==
    /\ SnsPower /\ SnsKept /\ SnsRepeat

-----------------------------------------------------------------------------
(***************************************************************************)
(* The power sequences of sensor-side devices (cam_sensor_core_power_up    *)
(* and cam_sensor_util_power_down of cam_sensor_util.c) and the resources  *)
(* several of them share through cam_res_mgr.c: a gpio with a list of      *)
(* users and a power count, the shared pin control state and the shared    *)
(* clock's count.                                                          *)
(*                                                                         *)
(* Every device has its own mutex, so the sequences of two devices         *)
(* interleave; the resource manager locks each list operation on its own.  *)
(* A search of the gpio list and the use of what it found are two steps,   *)
(* and power_on_count is read and written outside the lock.                *)
(* A device's sequence is the master clock, a supply whose enable line is  *)
(* the shared gpio, and a supply of its own.                               *)
(***************************************************************************)

CONSTANTS SpwNDev,      \* devices
          SpwGpioDevs,  \* those whose table holds the shared gpio
          SpwClkDevs,   \* those with use_shared_clk
          SpwFaults,    \* failures of a call, together
          SpwUps        \* power-up calls, together

ASSUME SpwAssumption ==
  /\ SpwNDev \in Nat \ {0} /\ SpwFaults \in Nat /\ SpwUps \in Nat
  /\ SpwGpioDevs \subseteq 1..SpwNDev /\ SpwClkDevs \subseteq 1..SpwNDev

VARIABLES
  spwDev,    \* each device: pc, k, the steps done, and what its call does
  spwPin,    \* pstatus: "PUT", "GOT", "ACTIVE" or "SUSPEND"
  spwClk,    \* shared_clk_ref_count
  spwGpio,   \* the gpio: req, its gpio_res (there, devs, cnt), level
  spwGhost   \* budgets and what has happened, see SpwInit

spwVars == <<spwDev, spwPin, spwClk, spwGpio, spwGhost>>

SpwDevs == 1..SpwNDev
SpwSeq == <<"mclk", "line", "supply">>

SpwNoRes == [there |-> FALSE, devs |-> {}, cnt |-> 0]

SpwInit ==
  /\ spwDev = [d \in SpwDevs |->
                [pc |-> "off", k |-> 0, on |-> {}, seen |-> FALSE, tmp |-> 0,
                 rc |-> TRUE, nogpio |-> FALSE]]
  /\ spwPin = "PUT"
  /\ spwClk = 0
  /\ spwGpio = [req |-> FALSE, level |-> FALSE] @@ SpwNoRes
  /\ spwGhost = [faults |-> SpwFaults, ups |-> SpwUps,
                 left |-> FALSE,     \* a failed call left something on
                 race |-> FALSE,     \* a search, a count or the pin control was stale
                 kept |-> FALSE,     \* two devices held it for each other
                 bogus |-> FALSE]    \* a device was told it is on and is not

SpwAt(d, pc) == spwDev[d].pc = pc
SpwGoto(d, pc) == spwDev' = [spwDev EXCEPT ![d].pc = pc]
SpwGpioUser(d) == d \in SpwGpioDevs

(* Another device has found the pin control there and is in no list yet. *)
SpwJoining(d) ==
  \E e \in SpwDevs \ {d} : spwDev[e].pc \in {"find", "request", "select"}

-----------------------------------------------------------------------------
(* cam_res_mgr_shared_pinctrl_check_hold: two users of the shared gpio, the *)
(* caller being taken for one of them, or more than one clock user.         *)
SpwHold == Cardinality(spwGpio.devs) >= 2 \/ spwClk > 1

-----------------------------------------------------------------------------
(* Power up. *)

(* cam_res_mgr_shared_clk_config(true) *)
SpwUp(d) ==
  /\ SpwAt(d, "off") /\ spwGhost.ups > 0
  /\ spwClk' = IF d \in SpwClkDevs THEN spwClk + 1 ELSE spwClk
  /\ spwDev' = [spwDev EXCEPT ![d] = [@ EXCEPT !.pc = "init", !.rc = TRUE,
                                               !.nogpio = FALSE]]
  /\ spwGhost' = [spwGhost EXCEPT !.ups = @ - 1]
  /\ UNCHANGED <<spwPin, spwGpio>>

(* cam_res_mgr_shared_pinctrl_init *)
SpwPinInit(d) ==
  /\ SpwAt(d, "init")
  /\ spwPin' = IF spwPin = "PUT" THEN "GOT" ELSE spwPin
  /\ SpwGoto(d, IF SpwGpioUser(d) THEN "find" ELSE "select")
  /\ UNCHANGED <<spwClk, spwGpio, spwGhost>>

(* cam_res_mgr_gpio_request: the search of gpio_res_list ... *)
SpwGpioFind(d) ==
  /\ SpwAt(d, "find")
  /\ spwDev' = [spwDev EXCEPT ![d] = [@ EXCEPT !.pc = "request",
                                               !.seen = spwGpio.there]]
  /\ UNCHANGED <<spwPin, spwClk, spwGpio, spwGhost>>

(* ... and the request: a gpio not found is asked of gpiolib, which grants  *)
(* it once. A failure is kept and the sequence goes on.                     *)
SpwGpioRequest(d) ==
  /\ SpwAt(d, "request")
  /\ LET fails == ~spwDev[d].seen /\ spwGpio.req
     IN  /\ spwDev' = [spwDev EXCEPT ![d] = [@ EXCEPT !.pc = "select",
                                                      !.nogpio = fails]]
         /\ spwGpio' = IF fails THEN spwGpio
                       ELSE IF ~spwDev[d].seen
                         THEN [spwGpio EXCEPT !.req = TRUE, !.there = TRUE,
                                              !.devs = {d}, !.cnt = 0]
                       ELSE IF spwGpio.there
                         THEN [spwGpio EXCEPT !.devs = @ \cup {d}]
                       ELSE spwGpio
         /\ spwGhost' = [spwGhost EXCEPT
                          !.race = @ \/ spwDev[d].seen # spwGpio.there]
  /\ UNCHANGED <<spwPin, spwClk>>

(* cam_res_mgr_shared_pinctrl_select_state(true) *)
SpwSelect(d) ==
  /\ SpwAt(d, "select")
  /\ spwPin' = IF spwPin = "PUT" THEN "PUT" ELSE "ACTIVE"
  /\ spwDev' = [spwDev EXCEPT ![d] = [@ EXCEPT !.pc = "step", !.k = 1]]
  /\ UNCHANGED <<spwClk, spwGpio, spwGhost>>

(* One entry of the power setting succeeds. The gpio entry of a user of the *)
(* shared gpio takes the two steps below.                                   *)
SpwStep(d) ==
  LET k == spwDev[d].k
  IN  /\ SpwAt(d, "step") /\ k <= Len(SpwSeq)
      /\ SpwSeq[k] = "line" => ~SpwGpioUser(d)
      /\ spwDev' = [spwDev EXCEPT ![d] = [@ EXCEPT !.k = k + 1,
                                                   !.on = @ \cup {SpwSeq[k]}]]
      /\ UNCHANGED <<spwPin, spwClk, spwGpio, spwGhost>>

(* The gpio was not granted: the call returns without undoing anything. *)
SpwNoGpio(d) ==
  LET k == spwDev[d].k
  IN  /\ SpwAt(d, "step") /\ k <= Len(SpwSeq) /\ SpwSeq[k] = "line"
      /\ spwDev[d].nogpio
      /\ SpwGoto(d, "off")
      /\ spwGhost' = [spwGhost EXCEPT !.left = TRUE]
      /\ UNCHANGED <<spwPin, spwClk, spwGpio>>

(* An entry fails: the clocks or the supply with an error, of which earlier *)
(* clocks of the loop stay enabled; or an entry names a clock that does not *)
(* exist, for which rc is still 0. The entries before it are undone.        *)
SpwStepFails(d, bad) ==
  LET k == spwDev[d].k
  IN  /\ SpwAt(d, "step") /\ k <= Len(SpwSeq) /\ SpwSeq[k] # "line"
      /\ spwGhost.faults > 0
      /\ bad => SpwSeq[k] = "mclk"
      /\ spwDev' = [spwDev EXCEPT ![d] = [@ EXCEPT !.pc = "undo", !.k = k - 1,
                                                   !.rc = bad]]
      /\ spwGhost' = [spwGhost EXCEPT
                       !.faults = @ - 1,
                       !.left = @ \/ (SpwSeq[k] = "mclk" /\ ~bad),
                       !.bogus = @ \/ bad]
      /\ UNCHANGED <<spwPin, spwClk, spwGpio>>

(* cam_res_mgr_shared_pinctrl_post_init, then the call returns 0. *)
SpwPostInit(d) ==
  /\ SpwAt(d, "step") /\ spwDev[d].k > Len(SpwSeq)
  /\ spwPin' = IF ~spwGpio.there /\ spwClk < 1 THEN "PUT" ELSE spwPin
  /\ SpwGoto(d, "on")
  /\ spwGhost' = [spwGhost EXCEPT !.race = @ \/ (spwPin' # spwPin /\ SpwJoining(d))]
  /\ UNCHANGED <<spwClk, spwGpio>>

-----------------------------------------------------------------------------
(* cam_res_mgr_gpio_set_value on the shared gpio: the list is searched, the *)
(* count read; then the count is written and the line driven.               *)
SpwSetting(d) ==
  /\ SpwGpioUser(d) /\ spwDev[d].k \in 1..Len(SpwSeq)
  /\ SpwSeq[spwDev[d].k] = "line"
  /\ SpwAt(d, "step") => ~spwDev[d].nogpio

SpwSetRead(d) ==
  /\ \/ SpwAt(d, "step") \/ SpwAt(d, "undo")
  /\ SpwSetting(d)
  /\ spwDev' = [spwDev EXCEPT ![d] =
                 [@ EXCEPT !.pc = IF @ = "step" THEN "high" ELSE "low",
                           !.seen = spwGpio.there, !.tmp = spwGpio.cnt]]
  /\ UNCHANGED <<spwPin, spwClk, spwGpio, spwGhost>>

(* Whether the new count drives the line. *)
SpwCounted(n, high) == IF high THEN n < 2 ELSE n < 1

SpwSetWrite(d) ==
  /\ \/ SpwAt(d, "high") \/ SpwAt(d, "low")
  /\ LET high == SpwAt(d, "high")
         n == IF high THEN spwDev[d].tmp + 1 ELSE spwDev[d].tmp - 1
     IN  /\ spwGpio' =
              IF ~spwDev[d].seen THEN [spwGpio EXCEPT !.level = high]
              ELSE [spwGpio EXCEPT !.cnt = n,
                                   !.level = IF SpwCounted(n, high) THEN high
                                                                    ELSE @]
         /\ spwDev' = [spwDev EXCEPT ![d] =
              IF high THEN [@ EXCEPT !.pc = "step", !.k = @ + 1,
                                     !.on = @ \cup {"line"}]
                      ELSE [@ EXCEPT !.pc = "undo", !.k = @ - 1,
                                     !.on = @ \ {"line"}]]
         /\ spwGhost' = [spwGhost EXCEPT
              !.race = @ \/ spwDev[d].seen # spwGpio.there
                         \/ spwDev[d].tmp # spwGpio.cnt]
  /\ UNCHANGED <<spwPin, spwClk>>

-----------------------------------------------------------------------------
(* cam_sensor_util_power_down, and the end of a failed power up. *)
SpwDown(d) ==
  /\ SpwAt(d, "on")
  /\ spwDev' = [spwDev EXCEPT ![d] = [@ EXCEPT !.pc = "undo", !.rc = FALSE,
                                               !.k = Len(SpwSeq)]]
  /\ UNCHANGED <<spwPin, spwClk, spwGpio, spwGhost>>

SpwUndo(d) ==
  LET k == spwDev[d].k
  IN  /\ SpwAt(d, "undo") /\ k > 0 /\ ~SpwSetting(d)
      /\ spwDev' = [spwDev EXCEPT ![d] = [@ EXCEPT !.k = k - 1,
                                                   !.on = @ \ {SpwSeq[k]}]]
      /\ UNCHANGED <<spwPin, spwClk, spwGpio, spwGhost>>

(* cam_res_mgr_shared_clk_config(false) comes first, *)
SpwClkPut(d) ==
  /\ SpwAt(d, "undo") /\ spwDev[d].k = 0
  /\ spwClk' = IF d \in SpwClkDevs THEN spwClk - 1 ELSE spwClk
  /\ SpwGoto(d, "suspend")
  /\ UNCHANGED <<spwPin, spwGpio, spwGhost>>

(* then cam_res_mgr_shared_pinctrl_select_state(false) *)
SpwSuspend(d) ==
  /\ SpwAt(d, "suspend")
  /\ spwPin' = IF spwPin # "PUT" /\ ~SpwHold THEN "SUSPEND" ELSE spwPin
  /\ SpwGoto(d, "put")
  /\ UNCHANGED <<spwClk, spwGpio, spwGhost>>

(* and cam_res_mgr_shared_pinctrl_put, *)
SpwPut(d) ==
  /\ SpwAt(d, "put")
  /\ spwPin' = IF SpwHold THEN spwPin ELSE "PUT"
  /\ SpwGoto(d, "free")
  /\ spwGhost' = [spwGhost EXCEPT 
       !.race = @ \/ (~SpwHold /\ SpwJoining(d)),
       !.kept = SpwHold /\ (@ \/ \E e \in SpwDevs \ {d} : SpwAt(e, "free"))]
  /\ UNCHANGED <<spwClk, spwGpio>>

(* and last the gpio, freed with its entry by the last user               *)
(* (cam_res_mgr_gpio_free). A power up that was undone with rc 0 is        *)
(* taken for a success.                                                    *)
SpwFreed(d) ==
  IF ~spwGpio.there THEN [spwGpio EXCEPT !.req = FALSE]
  ELSE IF Cardinality(spwGpio.devs) = 1
    THEN [req |-> FALSE, level |-> spwGpio.level] @@ SpwNoRes
  ELSE IF d \in spwGpio.devs THEN [spwGpio EXCEPT !.devs = @ \ {d}]
  ELSE [spwGpio EXCEPT !.req = FALSE]

SpwFree(d) ==
  /\ SpwAt(d, "free")
  /\ spwGpio' = IF SpwGpioUser(d) THEN SpwFreed(d) ELSE spwGpio
  /\ SpwGoto(d, IF spwDev[d].rc THEN "on" ELSE "off")
  /\ UNCHANGED <<spwPin, spwClk, spwGhost>>

-----------------------------------------------------------------------------
SpwNext ==
  \E d \in SpwDevs :
    \/ SpwUp(d) \/ SpwPinInit(d) \/ SpwGpioFind(d) \/ SpwGpioRequest(d)
    \/ SpwSelect(d) \/ SpwStep(d) \/ SpwNoGpio(d) \/ SpwPostInit(d)
    \/ \E bad \in BOOLEAN : SpwStepFails(d, bad)
    \/ SpwSetRead(d) \/ SpwSetWrite(d)
    \/ SpwDown(d) \/ SpwUndo(d) \/ SpwClkPut(d) \/ SpwSuspend(d) \/ SpwPut(d)
    \/ SpwFree(d)

SpwSpec == SpwInit /\ [][SpwNext]_spwVars

SpwClean == ~spwGhost.left /\ ~spwGhost.race /\ ~spwGhost.bogus

-----------------------------------------------------------------------------
(* A device whose power up returned 0 has its clock, its supplies and, when *)
(* it uses the shared gpio, a granted line that is high, whatever the other *)
(* devices do meanwhile.                                                    *)
SpwPowered ==
  SpwClean => \A d \in SpwDevs : SpwAt(d, "on") =>
    /\ spwDev[d].on = {SpwSeq[k] : k \in 1..Len(SpwSeq)}
    /\ SpwGpioUser(d) => spwGpio.req /\ spwGpio.level

(* "need hold to suspend the pinctrl if the gpios in this pinctrl also held *)
(* by other pinctrl" (cam_res_mgr_api.h): the shared pin control stays      *)
(* active while a device that uses the shared gpio is on.                   *)
SpwPinHeld ==
  SpwClean => \A d \in SpwGpioDevs : SpwAt(d, "on") => spwPin = "ACTIVE"

(* When every device is off again nothing shared is left: the pin control   *)
(* is put, the clock unused, the gpio free, low and without an entry. Two   *)
(* devices that power down side by side each hold the pin control for the   *)
(* other, which then stays active.                                          *)
SpwAllOff ==
  SpwClean /\ (\A d \in SpwDevs : SpwAt(d, "off")) =>
    /\ (spwPin = "PUT" \/ spwGhost.kept) /\ spwClk = 0
    /\ spwGpio = [req |-> FALSE, level |-> FALSE] @@ SpwNoRes

\* A device that came up is powered, shared lines stay up for all their users, and
\* the last one takes them down.
SpwSafe ==
    /\ SpwPowered /\ SpwPinHeld /\ SpwAllOff
=============================================================================
