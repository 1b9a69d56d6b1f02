------------------------------ MODULE FlashDev -------------------------------
(***************************************************************************)
(* The flash device (cam_flash_core.c, cam_flash_dev.c), driven through    *)
(* the power management chip (pmic) or over I2C: its supply, its light and *)
(* the ring of settings by request. Every entry point holds flash_mutex,   *)
(* so each is one action. The request manager is external: it applies what *)
(* it was told of in order, repeats the last one, cancels or flushes.      *)
(***************************************************************************)
EXTENDS Integers, FiniteSets

CONSTANTS FlsRing,     \* MAX_PER_FRAME_ARRAY
          FlsBatch,    \* BATCH_SIZE_MAX
          FlsWord,     \* 2^64, the modulus of the unsigned difference
          FlsMaxReq,   \* requests of a session
          FlsFaults,   \* failing calls
          FlsOpens,    \* acquires
          FlsInits     \* initialisation packets of a session

ASSUME FlsAssumption ==
  /\ FlsRing \in Nat \ {0, 1} /\ FlsBatch \in Nat \ {0} /\ FlsWord > 2 * FlsRing

VARIABLES
  flsDev,    \* kind, flash_state, handles, is_regulator_enabled, light, ...
  flsSlot,   \* per_frame: valid, request_id, opcode
  flsCrm,    \* the request manager: next, pending, of them with settings, last
  flsGhost   \* budgets and what has happened

flsVars == <<flsDev, flsSlot, flsCrm, flsGhost>>

FlsReqs == 1..FlsMaxReq
FlsNoCrm == [next |-> 1, pend |-> {}, set |-> {}, last |-> 0]

FlsInit ==
  /\ flsDev \in [pmic : BOOLEAN, st : {"INIT"}, hdl : {FALSE}, link : {FALSE},
                 reg : {FALSE},    \* is_regulator_enabled
                 supply : {0},     \* how often the supply is switched on
                 lit : {FALSE}, flushed : {0}]
  /\ flsSlot = [i \in 0..FlsRing - 1 |-> [valid |-> FALSE, req |-> 0, op |-> "none"]]
  /\ flsCrm = FlsNoCrm
  /\ flsGhost = [faults |-> FlsFaults, opens |-> FlsOpens, inits |-> 0,
                 lost |-> FALSE,   \* is_regulator_enabled forgotten while on
                 out |-> FALSE,    \* lit from outside, or left lit
                 full |-> {}]      \* requests lost to an occupied slot

FlsFault(f) == f => flsGhost.faults > 0
FlsSpent(f) == IF f THEN flsGhost.faults - 1 ELSE flsGhost.faults
FlsIn(S) == flsDev.st \in S

(* FLUSH_ALL. The opcode of a slot stays, which matters only when it is the *)
(* no-operation, the one an invalid slot is asked for.                      *)
FlsEmptied(x) ==
  [valid |-> FALSE, req |-> 0, op |-> IF x.op = "nop" THEN "nop" ELSE "none"]

FlsAllGone == [i \in DOMAIN flsSlot |-> FlsEmptied(flsSlot[i])]

(* FLUSH_REQ: pmic clears the slot of r whoever has it, I2C the valid slot  *)
(* with that request.                                                       *)
FlsGone(r) ==
  [i \in DOMAIN flsSlot |->
    IF i = r % FlsRing /\ (flsDev.pmic \/ (flsSlot[i].valid /\ flsSlot[i].req = r))
      THEN FlsEmptied(flsSlot[i])
      ELSE flsSlot[i]]

(* power_ops(false): pmic only in START. *)
FlsSupplyOff ==
  IF flsDev.reg /\ (~flsDev.pmic \/ FlsIn({"START"}))
    THEN [flsDev EXCEPT !.reg = FALSE, !.supply = @ - 1] ELSE flsDev

-----------------------------------------------------------------------------
(* CAM_ACQUIRE_DEV: the handle stays when copying it to user space fails. *)
FlsAcquire(f) ==
  /\ FlsIn({"INIT"}) /\ ~flsDev.hdl /\ flsGhost.opens > 0 /\ FlsFault(f)
  /\ flsDev' = [flsDev EXCEPT !.hdl = TRUE, !.st = IF f THEN @ ELSE "ACQUIRE"]
  /\ flsGhost' = [flsGhost EXCEPT !.opens = @ - 1, !.faults = FlsSpent(f),
                                  !.inits = FlsInits]
  /\ UNCHANGED <<flsSlot, flsCrm>>

(* CAM_RELEASE_DEV, in any state unless linked; a wrong one is only         *)
(* reported.                                                                *)
FlsRelease ==
  /\ flsDev.hdl /\ ~flsDev.link
  /\ flsDev' = [FlsSupplyOff EXCEPT !.st = "INIT", !.hdl = FALSE, !.flushed = 0]
  /\ flsSlot' = IF FlsIn({"CONFIG", "START"}) THEN FlsAllGone ELSE flsSlot
  /\ flsCrm' = FlsNoCrm
  /\ flsGhost' = [flsGhost EXCEPT !.out = @ \/ flsDev.lit, !.full = {}]

(* The subdevice is closed (cam_flash_shutdown). *)
FlsClose ==
  /\ ~FlsIn({"INIT"})
  /\ flsDev' = [(IF FlsIn({"CONFIG", "START"}) THEN FlsSupplyOff ELSE flsDev) EXCEPT
                 !.st = "INIT", !.hdl = FALSE, !.link = FALSE, !.flushed = 0]
  /\ flsSlot' = IF FlsIn({"CONFIG", "START"}) THEN FlsAllGone ELSE flsSlot
  /\ flsCrm' = FlsNoCrm
  /\ flsGhost' = [flsGhost EXCEPT !.out = @ \/ flsDev.lit, !.full = {}]

(* cam_flash_establish_link *)
FlsLink(on) ==
  /\ flsDev.hdl /\ ~FlsIn({"INIT"}) /\ flsDev.link # on
  /\ flsDev' = [flsDev EXCEPT !.link = on]
  /\ flsCrm' = [flsCrm EXCEPT !.pend = {}, !.set = {}, !.last = 0]
  /\ UNCHANGED <<flsSlot, flsGhost>>

(* CAM_START_DEV *)
FlsStart ==
  /\ FlsIn({"ACQUIRE", "CONFIG"})
  /\ flsDev' = [flsDev EXCEPT !.st = "START"]
  /\ UNCHANGED <<flsSlot, flsCrm, flsGhost>>

(* cam_flash_off; over I2C there is no trigger to switch. *)
FlsOffLight == FALSE

(* CAM_STOP_DEV *)
FlsStop ==
  /\ FlsIn({"START"})
  /\ flsDev' = [flsDev EXCEPT !.st = "ACQUIRE", !.lit = FlsOffLight, !.flushed = 0]
  /\ flsSlot' = FlsAllGone
  /\ flsCrm' = [flsCrm EXCEPT !.pend = {}, !.set = {}, !.last = 0]
  /\ UNCHANGED flsGhost

-----------------------------------------------------------------------------
(* CAM_FLASH_PACKET_OPCODE_INIT, which carries request 0. pmic forgets what *)
(* is_regulator_enabled said and switches on; I2C switches on once, and     *)
(* stays on when the settings written next fail ("write").                  *)
FlsInitInfo(end) ==
  /\ flsDev.hdl /\ flsGhost.inits > 0 /\ FlsFault(end # "ok")
  /\ (end = "write" => ~flsDev.pmic)
  /\ flsDev' = LET on == flsDev.pmic \/ ~flsDev.reg
                   d == [flsDev EXCEPT !.reg = @ /\ ~flsDev.pmic]
               IN  CASE end = "off" -> d
                     [] OTHER -> [d EXCEPT
                          !.reg = TRUE, !.supply = IF on THEN @ + 1 ELSE @,
                          !.flushed = IF flsDev.pmic THEN 0 ELSE @,
                          !.st = IF end = "ok" THEN "CONFIG" ELSE @]
  /\ flsGhost' = [flsGhost EXCEPT !.inits = @ - 1, !.faults = FlsSpent(end # "ok"),
                                  !.lost = @ \/ (flsDev.pmic /\ flsDev.reg)]
  /\ UNCHANGED <<flsSlot, flsCrm>>

(* CAMERA_SENSOR_FLASH_CMD_TYPE_INIT_FIRE, the answer of which is dropped:  *)
(* in START it fires nothing and the state is CONFIG all the same.          *)
FlsInitFire(on) ==
  /\ flsDev.pmic /\ flsDev.hdl
  /\ flsDev' = [flsDev EXCEPT !.st = "CONFIG",
                              !.lit = IF on THEN @ \/ ~FlsIn({"START"}) ELSE FALSE]
  /\ UNCHANGED <<flsSlot, flsCrm, flsGhost>>

(* CAMERA_SENSOR_FLASH_CMD_TYPE_WIDGET in any state; off makes it START, as *)
(* the last pulse of CAMERA_SENSOR_FLASH_CMD_TYPE_RER does.                 *)
FlsWidget(on) ==
  /\ flsDev.pmic /\ flsDev.hdl
  /\ flsDev' = [flsDev EXCEPT !.lit = on, !.st = IF on THEN @ ELSE "START"]
  /\ flsGhost' = [flsGhost EXCEPT !.out = @ \/ (on /\ FlsIn({"INIT", "ACQUIRE"}))]
  /\ UNCHANGED <<flsSlot, flsCrm>>

(* A packet for a request at or below last_flush_req is refused; the first  *)
(* above it ends that. User space keeps within the ring.                    *)
FlsOpen(r) ==
  /\ r = flsCrm.next /\ (r > flsDev.flushed \/ flsDev.flushed = 0)
  /\ \A q \in flsCrm.pend : r < q + FlsRing

FlsTold(r, set) ==
  IF flsDev.link
    THEN [flsCrm EXCEPT !.next = r + 1, !.pend = @ \cup {r},
                        !.set = IF set THEN @ \cup {r} ELSE @]
    ELSE [flsCrm EXCEPT !.next = r + 1]

(* I2C gives up an occupied slot, its request and the new one. *)
FlsTaken(i) == ~flsDev.pmic /\ flsSlot[i].valid

(* CAM_FLASH_PACKET_OPCODE_SET_OPS; pmic ignores it before CONFIG. A        *)
(* failing parse leaves the slot valid and the request manager untold.      *)
FlsSetOps(r, op, f) ==
  LET i == r % FlsRing
      early == flsDev.pmic /\ FlsIn({"INIT", "ACQUIRE"})
  IN  /\ flsDev.hdl /\ FlsOpen(r) /\ FlsFault(f)
      /\ (f => ~early /\ ~FlsTaken(i))
      /\ (~flsDev.pmic => op = "on")
      /\ flsDev' = [flsDev EXCEPT !.flushed = 0]
      /\ flsSlot' = [flsSlot EXCEPT ![i] =
                      IF FlsTaken(i) THEN FlsEmptied(@)
                      ELSE IF early THEN FlsEmptied(@)
                      ELSE [valid |-> TRUE, req |-> r, op |-> IF f THEN @.op ELSE op]]
      /\ flsCrm' = IF early \/ f THEN [flsCrm EXCEPT !.next = r + 1]
                   ELSE FlsTold(r, TRUE)
      /\ flsGhost' = [flsGhost EXCEPT
                       !.faults = FlsSpent(f),
                       !.full = IF FlsTaken(i) THEN @ \cup {r, flsSlot[i].req} ELSE @]

(* CAM_PKT_NOP_OPCODE; I2C leaves the slot alone once configured. *)
FlsNop(r) ==
  LET early == FlsIn({"INIT", "ACQUIRE"})
  IN  /\ flsDev.hdl /\ FlsOpen(r)
      /\ flsDev' = [flsDev EXCEPT !.flushed = 0]
      /\ flsSlot' = [flsSlot EXCEPT ![r % FlsRing] =
                      IF early THEN FlsEmptied(@)
                      ELSE IF flsDev.pmic
                        THEN [valid |-> FALSE, req |-> 0, op |-> "nop"]
                      ELSE @]
      /\ flsCrm' = IF early THEN [flsCrm EXCEPT !.next = r + 1] ELSE FlsTold(r, FALSE)
      /\ UNCHANGED flsGhost

-----------------------------------------------------------------------------
(* The search for what to delete, in index order; only pmic looks again at  *)
(* requests below the highest found so far.                                 *)
FlsScan(r) ==
  LET s[i \in 0..FlsRing] ==
        IF i = 0 THEN [top |-> 0, del |-> 0]
        ELSE LET b == s[i - 1]
                 x == flsSlot[i - 1]
             IN  IF ~x.valid \/ x.req > r THEN b
                 ELSE IF x.req > b.top THEN [top |-> x.req, del |-> b.top]
                 ELSE IF flsDev.pmic /\ x.req < b.top /\ x.req > b.del
                   THEN [b EXCEPT !.del = x.req]
                 ELSE b
  IN  s[FlsRing]

(* The indices' distance, in unsigned arithmetic *)
FlsFar(top, r) ==
  LET diff == ((top % FlsRing) - (r % FlsRing)) % FlsWord
  IN  diff >= FlsBatch \/ diff <= FlsWord - FlsBatch

FlsDel(r) ==
  LET s == FlsScan(r)
  IN  IF s.top < r /\ FlsFar(s.top, r) THEN r ELSE s.del

(* cam_flash_apply_request. pmic fires only in START, and answers an error  *)
(* for a slot with something else than its settings or a no-operation.      *)
FlsApply(r, f) ==
  LET x == flsSlot[r % FlsRing]
      own == x.valid /\ x.req = r
      wrong == flsDev.pmic /\ ~own /\ x.op # "nop"
  IN  /\ flsDev.link /\ r # 0
      /\ \/ r = flsCrm.last
         \/ r \in flsCrm.pend /\ \A q \in flsCrm.pend : q >= r
      /\ FlsFault(f) /\ (f => own /\ ~flsDev.pmic)
      /\ flsDev' = IF own /\ flsDev.pmic
                     THEN IF x.op = "off"
                            THEN [flsDev EXCEPT !.lit = FALSE, !.st = "START"]
                            ELSE [flsDev EXCEPT !.lit = @ \/ FlsIn({"START"})]
                     ELSE flsDev
      /\ flsSlot' = IF f \/ wrong \/ FlsDel(r) = 0 THEN flsSlot ELSE FlsGone(FlsDel(r))
      /\ flsCrm' = IF f THEN flsCrm
                   ELSE [flsCrm EXCEPT !.pend = @ \ {r}, !.set = @ \ {r},
                                       !.last = IF own THEN r ELSE @]
      /\ flsGhost' = [flsGhost EXCEPT !.faults = FlsSpent(f)]

(* cam_flash_flush_request, of everything or of one request *)
FlsFlushAll ==
  /\ flsDev.link /\ ~FlsIn({"INIT"}) /\ flsCrm.pend # {}
  /\ flsDev' = [flsDev EXCEPT !.flushed = flsCrm.next - 1]
  /\ flsSlot' = FlsAllGone
  /\ flsCrm' = [flsCrm EXCEPT !.pend = {}, !.set = {}, !.last = 0]
  /\ UNCHANGED flsGhost

FlsCancel(r) ==
  /\ flsDev.link /\ ~FlsIn({"INIT"}) /\ r \in flsCrm.pend
  /\ flsSlot' = FlsGone(r)
  /\ flsCrm' = [flsCrm EXCEPT !.pend = @ \ {r}, !.set = @ \ {r}]
  /\ UNCHANGED <<flsDev, flsGhost>>

-----------------------------------------------------------------------------
FlsNext ==
  \/ FlsRelease \/ FlsClose \/ FlsStart \/ FlsStop \/ FlsFlushAll
  \/ \E f \in BOOLEAN :
       \/ FlsAcquire(f) \/ FlsLink(f) \/ FlsInitFire(f) \/ FlsWidget(f)
       \/ \E r \in FlsReqs :
            \/ FlsApply(r, f)
            \/ \E op \in {"on", "off"} : FlsSetOps(r, op, f)
  \/ \E end \in {"ok", "off", "write"} : FlsInitInfo(end)
  \/ \E r \in FlsReqs : FlsNop(r) \/ FlsCancel(r)

FlsSpec == FlsInit /\ [][FlsNext]_flsVars

-----------------------------------------------------------------------------
(* is_regulator_enabled says whether the supply is on, and it is on once.   *)
(* An initialisation packet over pmic clears the flag first, so a second    *)
(* one, or one after a session that did not end in START, breaks this.      *)
FlsSupply ==
  ~flsGhost.lost => flsDev.supply = (IF flsDev.reg THEN 1 ELSE 0)

(* The light is off unless the device is configured or started, except when *)
(* a widget lit it before, or a release or close came without a stop.       *)
FlsDark ==
  ~flsGhost.out => (flsDev.lit => FlsIn({"CONFIG", "START"}))

(* A request that waits to be applied has its settings in its slot, unless  *)
(* the slot was occupied: over I2C the search of FlsScan misses a request   *)
(* each time the ring wraps, and the packet that meets it is lost.          *)
FlsKept ==
  \A r \in flsCrm.set \ flsGhost.full :
    flsSlot[r % FlsRing].valid /\ flsSlot[r % FlsRing].req = r

\* Supply, light and kept settings follow the state of the flash.
FlsSafe ==
    /\ FlsSupply /\ FlsDark /\ FlsKept
=============================================================================
