----------------------------- MODULE SensorAux ------------------------------
(***************************************************************************)
(* The lens actuator device (cam_actuator_core.c): acquire, power, the     *)
(* ring of lens moves by request, apply, cancel, flush, stop, release and  *)
(* close. Every entry point holds actuator_mutex, so each is one action.   *)
(* The request manager is external: it applies what it was told of in      *)
(* order, or cancels or flushes it.                                        *)
(***************************************************************************)
EXTENDS Integers, FiniteSets, Sequences, SequencesExt

CONSTANTS ActRing,     \* MAX_PER_FRAME_ARRAY
          ActDelay,    \* MAX_SYSTEM_PIPELINE_DELAY
          ActMaxReq,   \* requests of a session
          ActFaults,   \* failing calls
          ActOpens     \* acquires

ASSUME ActAssumption == ActDelay \in 1..ActRing - 1

VARIABLES
  actDev,    \* cam_act_state, handles, power, last_flush_req
  actSlot,   \* per_frame: valid, request_id, the packets in its list
  actCrm,    \* the request manager: next, pending, never applied
  actGhost   \* budgets, and the power's exceptions

actVars == <<actDev, actSlot, actCrm, actGhost>>

ActReqs == 1..ActMaxReq
ActNoCrm == [next |-> 1, pend |-> {}, move |-> {}, skip |-> {}]

ActInit ==
  /\ actDev = [st |-> "INIT", hdl |-> FALSE, link |-> FALSE, pw |-> FALSE,
               flushed |-> 0]
  /\ actSlot = [i \in 0..ActRing - 1 |-> [valid |-> FALSE, req |-> 0, list |-> {}]]
  /\ actCrm = ActNoCrm
  /\ actGhost = [faults |-> ActFaults, opens |-> ActOpens,
                 leak |-> FALSE,   \* the bus failed once the power was up
                 cut |-> FALSE]    \* a refused release cut the power

ActFault(f) == f => actGhost.faults > 0
ActSpent(f) == IF f THEN actGhost.faults - 1 ELSE actGhost.faults
ActIn(S) == actDev.st \in S

(* delete_request: the list is emptied, request_id stays. *)
ActDeleted(S) == [i \in DOMAIN actSlot |->
                   IF i \in S /\ actSlot[i].valid
                     THEN [actSlot[i] EXCEPT !.valid = FALSE, !.list = {}]
                     ELSE actSlot[i]]

(* What the next session finds: 0 marks a packet of an earlier one. *)
ActCarried == [i \in DOMAIN actSlot |->
                [actSlot[i] EXCEPT !.list = IF @ = {} THEN {} ELSE {0}]]

-----------------------------------------------------------------------------
(* CAM_ACQUIRE_DEV: the handle stays when copying it to user space fails. *)
ActAcquire(f) ==
  /\ ~actDev.hdl /\ actGhost.opens > 0 /\ ActFault(f)
  /\ actDev' = [actDev EXCEPT !.hdl = TRUE, !.st = IF f THEN @ ELSE "ACQUIRE"]
  /\ actGhost' = [actGhost EXCEPT !.opens = @ - 1, !.faults = ActSpent(f)]
  /\ UNCHANGED <<actSlot, actCrm>>

(* CAM_RELEASE_DEV of a linked device: the power goes before the check. *)
ActReleaseRefused ==
  /\ ~ActIn({"START"}) /\ actDev.hdl /\ actDev.link
  /\ actDev' = IF ActIn({"CONFIG"}) THEN [actDev EXCEPT !.pw = FALSE] ELSE actDev
  /\ actGhost' = [actGhost EXCEPT !.cut = @ \/ ActIn({"CONFIG"})]
  /\ UNCHANGED <<actSlot, actCrm>>

ActReleasePower == IF ActIn({"CONFIG"}) THEN FALSE ELSE actDev.pw

ActRelease ==
  /\ ~ActIn({"START"}) /\ actDev.hdl /\ ~actDev.link
  /\ actDev' = [actDev EXCEPT !.st = "INIT", !.hdl = FALSE, !.flushed = 0,
                              !.pw = ActReleasePower]
  /\ actSlot' = ActCarried
  /\ actCrm' = ActNoCrm
  /\ actGhost' = [actGhost EXCEPT !.leak = @ /\ ~ActIn({"CONFIG"}), !.cut = FALSE]

(* The subdevice is closed (cam_actuator_shutdown); last_flush_req and the  *)
(* ring stay.                                                               *)
ActClose ==
  /\ ~ActIn({"INIT"})
  /\ actDev' = [actDev EXCEPT !.st = "INIT", !.hdl = FALSE, !.link = FALSE,
                              !.pw = @ /\ ActIn({"ACQUIRE"})]
  /\ actSlot' = ActCarried
  /\ actCrm' = ActNoCrm
  /\ actGhost' = [actGhost EXCEPT !.leak = @ /\ ActIn({"ACQUIRE"}), !.cut = FALSE]

(* cam_actuator_establish_link *)
ActLink(on) ==
  /\ actDev.hdl /\ ~ActIn({"INIT"}) /\ actDev.link # on
  /\ actDev' = [actDev EXCEPT !.link = on]
  /\ actCrm' = [actCrm EXCEPT !.skip = @ \cup actCrm.pend, !.pend = {}]
  /\ UNCHANGED <<actSlot, actGhost>>

(* CAM_START_DEV, CAM_STOP_DEV *)
ActStart ==
  /\ ActIn({"CONFIG"})
  /\ actDev' = [actDev EXCEPT !.st = "START", !.flushed = 0]
  /\ UNCHANGED <<actSlot, actCrm, actGhost>>

ActStop ==
  /\ ActIn({"START"})
  /\ actDev' = [actDev EXCEPT !.st = "CONFIG", !.flushed = 0]
  /\ actSlot' = ActDeleted(DOMAIN actSlot)
  /\ actCrm' = [actCrm EXCEPT !.skip = @ \cup actCrm.pend, !.pend = {}]
  /\ UNCHANGED actGhost

(* cam_actuator_power_up: "io", the bus fails once the supplies are on. *)
ActUp(pw, end) == pw \/ end \in {"ok", "io"}

(* CAM_CONFIG_DEV with CAM_ACTUATOR_PACKET_OPCODE_INIT (it carries request  *)
(* 0) powers the actuator up the first time.                                *)
ActConfig(end) ==
  /\ ActIn({"ACQUIRE"}) /\ ActFault(end # "ok")
  /\ actDev' = [actDev EXCEPT !.st = IF end = "ok" THEN "CONFIG" ELSE @,
                              !.pw = ActUp(@, end)]
  /\ actGhost' = [actGhost EXCEPT !.faults = ActSpent(end # "ok"),
                                  !.leak = IF end = "ok" THEN FALSE
                                           ELSE @ \/ end = "io"]
  /\ UNCHANGED <<actSlot, actCrm>>

-----------------------------------------------------------------------------
(* A packet for a request at or below last_flush_req is refused; the first  *)
(* above it ends that.                                                      *)
ActOpen(r) == r > actDev.flushed \/ actDev.flushed = 0

ActTold(r, move) ==
  [actCrm EXCEPT !.next = r + 1,
                 !.pend = IF actDev.link THEN @ \cup {r} ELSE @,
                 !.move = IF move THEN @ \cup {r} ELSE @,
                 !.skip = IF actDev.link THEN @ ELSE @ \cup {r}]

ActIndex(r) == r % ActRing

(* CAM_ACTUATOR_PACKET_MANUAL_MOVE_LENS: parsing appends to the slot's list *)
(* and a failing parse leaves its part. User space is never so far ahead    *)
(* that the ring wraps before the old slot was deleted.                     *)
ActMove(r, f) ==
  /\ ActIn({"CONFIG", "START"}) /\ r = actCrm.next /\ ActOpen(r)
  /\ \A q \in actCrm.pend : r < q + ActRing - ActDelay
  /\ ActFault(f)
  /\ actDev' = [actDev EXCEPT !.flushed = 0]
  /\ actSlot' = [actSlot EXCEPT ![ActIndex(r)] =
                  [valid |-> TRUE, req |-> r, list |-> @.list \cup {r}]]
  /\ actCrm' = IF f THEN [actCrm EXCEPT !.next = r + 1, !.skip = @ \cup {r}]
                    ELSE ActTold(r, TRUE)
  /\ actGhost' = [actGhost EXCEPT !.faults = ActSpent(f)]

(* CAM_PKT_NOP_OPCODE, and CAM_ACTUATOR_PACKET_AUTO_MOVE_LENS, which is     *)
(* written at once and needs no slot.                                       *)
ActNop(r) ==
  /\ ActIn({"CONFIG", "START"}) /\ r = actCrm.next /\ ActOpen(r)
  /\ \A q \in actCrm.pend : r < q + ActRing - ActDelay
  /\ actDev' = [actDev EXCEPT !.flushed = 0]
  /\ actCrm' = ActTold(r, FALSE)
  /\ UNCHANGED <<actSlot, actGhost>>

(* A refused packet; user space goes on with the next request. *)
ActRefused(r) ==
  /\ ActIn({"CONFIG", "START"}) /\ r = actCrm.next /\ ~ActOpen(r)
  /\ actCrm' = [actCrm EXCEPT !.next = r + 1, !.skip = @ \cup {r}]
  /\ UNCHANGED <<actDev, actSlot, actGhost>>

(* The slot deleted when r is applied; ActRing when there is none. *)
ActOld(r) ==
  LET i == (r + ActRing - ActDelay) % ActRing
  IN  IF r > actSlot[i].req THEN i ELSE ActRing

(* cam_actuator_apply_request; when the write fails nothing is deleted. *)
ActApply(r, f) ==
  LET i == ActIndex(r)
  IN  /\ actDev.link /\ r \in actCrm.pend /\ \A q \in actCrm.pend : q >= r
      /\ ActFault(f) /\ (f => actSlot[i].valid /\ actSlot[i].req = r)
      /\ actSlot' = IF f \/ ActOld(r) = ActRing THEN actSlot
                    ELSE [actSlot EXCEPT ![ActOld(r)] =
                           [valid |-> FALSE, req |-> 0, list |-> {}]]
      /\ actCrm' = [actCrm EXCEPT !.pend = @ \ {r},
                                  !.skip = IF f THEN @ \cup {r} ELSE @]
      /\ actGhost' = [actGhost EXCEPT !.faults = ActSpent(f)]
      /\ UNCHANGED actDev

(* cam_actuator_flush_request, of everything or of one request. *)
ActFlushAll ==
  /\ actDev.link /\ actCrm.pend # {}
  /\ actDev' = [actDev EXCEPT !.flushed = actCrm.next - 1]
  /\ actSlot' = ActDeleted(DOMAIN actSlot)
  /\ actCrm' = [actCrm EXCEPT !.skip = @ \cup actCrm.pend, !.pend = {}]
  /\ UNCHANGED actGhost

ActCancel(r) ==
  /\ actDev.link /\ r \in actCrm.pend
  /\ actSlot' = ActDeleted({i \in DOMAIN actSlot : actSlot[i].req = r})
  /\ actCrm' = [actCrm EXCEPT !.skip = @ \cup {r}, !.pend = @ \ {r}]
  /\ UNCHANGED <<actDev, actGhost>>

-----------------------------------------------------------------------------
ActNext ==
  \/ \E f \in BOOLEAN : ActAcquire(f)
  \/ ActReleaseRefused \/ ActRelease \/ ActClose \/ ActStart \/ ActStop
  \/ ActFlushAll
  \/ \E on \in BOOLEAN : ActLink(on)
  \/ \E end \in {"ok", "off", "io"} : ActConfig(end)
  \/ \E r \in ActReqs :
       \/ ActNop(r) \/ ActRefused(r) \/ ActCancel(r)
       \/ \E f \in BOOLEAN : ActMove(r, f) \/ ActApply(r, f)

ActSpec == ActInit /\ [][ActNext]_actVars

-----------------------------------------------------------------------------
(* The actuator is powered exactly while it is configured, except after the *)
(* bus failed once the power was up, and after a release that was refused   *)
(* for the link had cut the power first.                                    *)
ActPower ==
  ~actGhost.leak /\ ~actGhost.cut => (actDev.pw <=> ActIn({"CONFIG", "START"}))

(* The move of a request that waits to be applied is in its slot: deleting  *)
(* by the fixed distance never meets a request that is still to come.       *)
ActPending ==
  \A r \in actCrm.pend \cap actCrm.move :
    /\ actSlot[r % ActRing].valid /\ actSlot[r % ActRing].req = r
    /\ r \in actSlot[r % ActRing].list

(* An apply writes the moves of its own request only, except for those that *)
(* the apply due to delete them never came for (cancelled, refused or       *)
(* failed), and those of an earlier session (0), which release and close    *)
(* leave in the ring.                                                       *)
ActPure ==
  \A r \in actCrm.pend \cap actCrm.move :
    \A q \in actSlot[r % ActRing].list :
      q \in {0, r} \/ q + ActDelay \in actCrm.skip

-----------------------------------------------------------------------------
(***************************************************************************)
(* The optical image stabilisation device (cam_ois_core.c). Every entry    *)
(* point holds ois_mutex, so each is one action. Settings are kept as the  *)
(* number of the packet they came in; power is the use count of the        *)
(* supplies, which a second power up raises again.                         *)
(***************************************************************************)

CONSTANTS OisCalib,    \* is_ois_calib: packets carry calibration settings
          OisPackets,  \* packets
          OisFaults,   \* failing calls
          OisOpens     \* acquires

ASSUME OisAssumption == OisCalib \in BOOLEAN /\ OisPackets \in Nat

VARIABLES
  oisDev,    \* cam_ois_state, the device handle, use count of the supplies
  oisSet,    \* i2c_init_data, i2c_calib_data, i2c_mode_data: packets held
  oisGhost   \* budgets and what has happened

oisVars == <<oisDev, oisSet, oisGhost>>

OisNone == [init |-> {}, calib |-> {}, mode |-> {}]

OisInit ==
  /\ oisDev = [st |-> "INIT", hdl |-> FALSE, pw |-> 0]
  /\ oisSet = OisNone
  /\ oisGhost = [faults |-> OisFaults, opens |-> OisOpens, pkt |-> 0,
                 odd |-> FALSE,      \* a path that leaves the power behind
                 failed |-> FALSE,   \* a packet failed since the release
                 mixed |-> FALSE]    \* settings of an older packet written

OisFault(f) == f => oisGhost.faults > 0
OisSpent(f) == IF f THEN oisGhost.faults - 1 ELSE oisGhost.faults
OisIn(S) == oisDev.st \in S

OisDownOne == IF oisDev.pw > 0 THEN oisDev.pw - 1 ELSE 0

-----------------------------------------------------------------------------
(* CAM_ACQUIRE_DEV: the handle stays when copying it to user space fails. *)
OisAcquire(f) ==
  /\ ~oisDev.hdl /\ oisGhost.opens > 0 /\ OisFault(f)
  /\ oisDev' = [oisDev EXCEPT !.hdl = TRUE, !.st = IF f THEN @ ELSE "ACQUIRE"]
  /\ oisGhost' = [oisGhost EXCEPT !.opens = @ - 1, !.faults = OisSpent(f),
                                  !.odd = @ \/ OisIn({"CONFIG", "START"})]
  /\ UNCHANGED oisSet

(* CAM_START_DEV; CAM_STOP_DEV complains in any other state than START, and *)
(* sets CONFIG all the same.                                                *)
OisStart ==
  /\ OisIn({"CONFIG"})
  /\ oisDev' = [oisDev EXCEPT !.st = "START"]
  /\ UNCHANGED <<oisSet, oisGhost>>

OisStop ==
  /\ oisDev' = [oisDev EXCEPT !.st = "CONFIG"]
  /\ oisGhost' = [oisGhost EXCEPT !.odd = @ \/ OisIn({"INIT", "ACQUIRE"})]
  /\ UNCHANGED oisSet

(* delete_request on whatever is valid *)
OisCleared == OisNone

(* CAM_RELEASE_DEV; without a handle only the power is cut. *)
OisRelease ==
  /\ ~OisIn({"START"})
  /\ oisDev' = [oisDev EXCEPT !.pw = IF OisIn({"CONFIG"}) THEN OisDownOne ELSE @,
                              !.hdl = FALSE,
                              !.st = IF oisDev.hdl THEN "INIT" ELSE @]
  /\ oisSet' = IF oisDev.hdl THEN OisCleared ELSE oisSet
  /\ oisGhost' = [oisGhost EXCEPT !.failed = @ /\ ~oisDev.hdl,
                                  !.odd = IF oisDev.hdl THEN @ /\ oisDev'.pw > 0
                                          ELSE @ \/ OisIn({"CONFIG"})]

(* The subdevice is closed (cam_ois_shutdown). *)
OisClose ==
  /\ ~OisIn({"INIT"})
  /\ oisDev' = [st |-> "INIT", hdl |-> FALSE,
                pw |-> IF OisIn({"CONFIG", "START"}) THEN OisDownOne ELSE oisDev.pw]
  /\ oisSet' = OisCleared
  /\ oisGhost' = [oisGhost EXCEPT !.failed = FALSE, !.odd = @ /\ oisDev'.pw > 0]

-----------------------------------------------------------------------------
(* Where an initialisation packet's buffers go: the first to i2c_init_data  *)
(* unless that is still valid, the next, or the first then, to              *)
(* i2c_calib_data, when there is calibration and that is not valid.         *)
OisStored(p) ==
  LET fresh == oisSet.init = {}
      room == OisCalib /\ oisSet.calib = {}
  IN  [oisSet EXCEPT !.init = IF fresh THEN {p} ELSE @,
                     !.calib = IF room THEN {p} ELSE @]

(* pwr_dwn: whatever failed, the power goes and the state stays. *)
OisFailPower(up) == IF up > 0 THEN up - 1 ELSE 0

(* cam_ois_power_up: "io", the bus fails once the supplies are on. *)
OisUp(pw, end) == IF end = "off" THEN pw ELSE pw + 1

(* cam_ois_apply_settings: what is written that is not of this packet *)
OisOlder(set, p) == (set.init \cup set.calib) \ {p}

(* CAM_OIS_PACKET_OPCODE_INIT in any state. It ends: "ok"; "parse", a bad   *)
(* buffer after the settings, before the power up; "off" and "io", a        *)
(* failing power up, the second with the power left on; "write", a failing  *)
(* firmware or settings write.                                              *)
OisPacket(end) ==
  LET p == oisGhost.pkt + 1
      set == OisStored(p)
      ups == ~OisIn({"CONFIG"})
      up == IF ups THEN OisUp(oisDev.pw, end) ELSE oisDev.pw
      old == OisOlder(set, p)
  IN  /\ oisGhost.pkt < OisPackets /\ OisFault(end # "ok")
      /\ (end \in {"off", "io"} => ups)
      /\ oisDev' = CASE end = "ok" -> [oisDev EXCEPT !.st = "CONFIG", !.pw = up]
                     [] end = "parse" ->
                          [oisDev EXCEPT !.pw = OisFailPower(oisDev.pw)]
                     [] end \in {"off", "io"} -> [oisDev EXCEPT !.pw = up]
                     [] end = "write" -> [oisDev EXCEPT !.st = "CONFIG",
                                                        !.pw = OisFailPower(up)]
      /\ oisSet' = IF end = "ok" THEN [OisNone EXCEPT !.mode = oisSet.mode] ELSE set
      /\ oisGhost' = [oisGhost EXCEPT
                       !.pkt = p, !.faults = OisSpent(end # "ok"),
                       !.odd = @ \/ end \in {"parse", "io", "write"}
                                 \/ (ups /\ oisDev.pw > 0),
                       !.failed = @ \/ end # "ok",
                       !.mixed = @ \/ (end = "ok" /\ old # {} /\ ~oisGhost.failed)]

OisModeDone(p) == {}

(* CAM_OIS_PACKET_OPCODE_OIS_CONTROL: parsed onto what a failed one left,   *)
(* written, deleted.                                                        *)
OisControl(f) ==
  LET p == oisGhost.pkt + 1
  IN  /\ oisGhost.pkt < OisPackets /\ OisFault(f)
      /\ OisIn({"CONFIG", "START"})
      /\ oisSet' = [oisSet EXCEPT !.mode = IF f THEN @ \cup {p} ELSE OisModeDone(p)]
      /\ oisGhost' = [oisGhost EXCEPT
                       !.pkt = p, !.faults = OisSpent(f),
                       !.failed = @ \/ f,
                       !.mixed = @ \/ (~f /\ oisSet.mode # {} /\ ~oisGhost.failed)]
      /\ UNCHANGED oisDev

-----------------------------------------------------------------------------
OisNext ==
  \/ OisStart \/ OisStop \/ OisRelease \/ OisClose
  \/ \E f \in BOOLEAN : OisAcquire(f) \/ OisControl(f)
  \/ \E end \in {"ok", "parse", "off", "io", "write"} : OisPacket(end)

OisSpec == OisInit /\ [][OisNext]_oisVars

-----------------------------------------------------------------------------
(* The stabiliser is powered, once, exactly while it is configured or       *)
(* started, unless it went one of the ways that leave state and power       *)
(* apart: a stop that was not started, a packet that failed, or came while  *)
(* started, a packet before the acquire, a release without a handle.        *)
OisPower ==
  ~oisGhost.odd => oisDev.pw = (IF OisIn({"CONFIG", "START"}) THEN 1 ELSE 0)

(* What is written belongs to one packet, unless one failed since the       *)
(* release: a failed packet's settings stay and take the place of those of  *)
(* the packet that repeats it.                                              *)
OisOnePacket == ~oisGhost.mixed

-----------------------------------------------------------------------------
(***************************************************************************)
(* The EEPROM device (cam_eeprom_core.c): a configuration packet describes *)
(* memory to read; the handler parses it into cal_data, powers the device, *)
(* reads, copies the data to user space's buffer and powers down. All of   *)
(* it holds eeprom_mutex, so each entry point is one action. An amount of  *)
(* data stands for the data; user space's buffer fits its packet exactly.  *)
(***************************************************************************)

CONSTANTS EepKernelProbe,  \* the memory map comes from the device tree
          EepReads,        \* read commands a packet may carry, as sequences
          EepFaults,       \* failing calls
          EepPackets       \* packets

ASSUME EepAssumption == EepKernelProbe \in BOOLEAN /\ EepPackets \in Nat

VARIABLES
  eepDev,    \* cam_eeprom_state, the device handle, power
  eepCal,    \* cal_data: bytes counted (num_data), maps allocated
  eepGhost   \* budgets, the last packet's answer and what has happened

eepVars == <<eepDev, eepCal, eepGhost>>

EepInit ==
  /\ eepDev = [st |-> "INIT", hdl |-> FALSE, pw |-> 0]
  /\ eepCal = [num |-> 0, maps |-> 0]
  /\ eepGhost = [faults |-> EepFaults, left |-> EepPackets,
                 answer |-> "none",    \* what the last packet got
                 bad |-> FALSE,        \* a packet was given up while parsing
                 io |-> FALSE,         \* the bus failed once power was up
                 buf |-> FALSE]        \* user space's buffer was not usable

EepFault(f) == f => eepGhost.faults > 0
EepSpent(f) == IF f THEN eepGhost.faults - 1 ELSE eepGhost.faults

-----------------------------------------------------------------------------
(* CAM_ACQUIRE_DEV: the handle stays when copying it to user space fails. *)
EepAcquire(f) ==
  /\ ~eepDev.hdl /\ EepFault(f)
  /\ eepDev' = [eepDev EXCEPT !.hdl = TRUE, !.st = IF f THEN @ ELSE "ACQUIRE"]
  /\ eepGhost' = [eepGhost EXCEPT !.faults = EepSpent(f)]
  /\ UNCHANGED eepCal

(* CAM_RELEASE_DEV *)
EepRelease ==
  /\ eepDev.st = "ACQUIRE" /\ eepDev.hdl
  /\ eepDev' = [eepDev EXCEPT !.hdl = FALSE, !.st = "INIT"]
  /\ UNCHANGED <<eepCal, eepGhost>>

(* The subdevice is closed (cam_eeprom_shutdown): no handler leaves the     *)
(* state CONFIG behind, so there is no power to cut.                        *)
EepClose ==
  /\ eepDev.st = "ACQUIRE"
  /\ eepDev' = [eepDev EXCEPT !.hdl = FALSE, !.st = "INIT"]
  /\ UNCHANGED <<eepCal, eepGhost>>

-----------------------------------------------------------------------------
(* cam_eeprom_parse_memory_map: num_data grows with each read command. *)
EepTotal(reads) == FoldSeq(LAMBDA x, y : x + y, 0, reads)

(* cam_eeprom_init_pkt_parser given up after n commands: the map it         *)
(* allocated and what it counted stay.                                      *)
EepGivenUp(reads, n) == [num |-> eepCal.num + EepTotal(SubSeq(reads, 1, n)),
                         maps |-> eepCal.maps + 1]

(* cam_eeprom_power_up: "io", the bus fails once the supplies are on. *)
EepUp(pw, end) == IF end \in {"parse", "mem", "off"} THEN pw ELSE pw + 1

(* cam_eeprom_get_cal_data: nothing is copied unless the buffer holds all   *)
(* that was counted.                                                        *)
EepFits(room, num) == num <= room

(* Both buffers are freed and the counts cleared. *)
EepFreed == [num |-> 0, maps |-> 0]

EepDown(pw) == pw - 1

(* CAM_CONFIG_DEV, in any state. How it ends: "ok"; "parse", after the      *)
(* first n commands were counted, which frees nothing; "mem", no memory for *)
(* the data; "off" and "io", a failing power up, the second with the power  *)
(* left on; "read"; "buf", user space's buffer cannot be mapped. The answer *)
(* of the copy is overwritten by that of the power down, unless the map     *)
(* comes from the device tree.                                              *)
EepPacket(reads, end, n) ==
  LET num == eepCal.num + EepTotal(reads)
      copied == end = "ok" /\ EepFits(EepTotal(reads), num)
      pw == eepDev.pw
  IN  /\ eepGhost.left > 0 /\ EepFault(end # "ok")
      /\ (n # 0 => end = "parse") /\ n <= Len(reads)
      /\ (EepKernelProbe => n = 0)
      /\ eepCal' = IF end = "parse"
                     THEN IF EepKernelProbe THEN eepCal ELSE EepGivenUp(reads, n)
                     ELSE [EepFreed EXCEPT !.maps = @ + eepCal.maps]
      /\ eepDev' = [eepDev EXCEPT
                     !.pw = IF end \in {"ok", "read", "buf"}
                              THEN EepDown(EepUp(pw, end)) ELSE EepUp(pw, end),
                     !.st = IF end = "parse" THEN @ ELSE "ACQUIRE"]
      /\ eepGhost' = [eepGhost EXCEPT
                       !.left = @ - 1, !.faults = EepSpent(end # "ok"),
                       !.answer = IF copied THEN "data"
                                  ELSE IF end \in {"ok", "buf"} /\ ~EepKernelProbe
                                    THEN "empty"
                                  ELSE "error",
                       !.bad = IF end = "parse" THEN ~EepKernelProbe
                               ELSE FALSE,
                       !.io = @ \/ end = "io",
                       !.buf = end = "buf" \/ (end = "ok" /\ eepGhost.bad)]

-----------------------------------------------------------------------------
EepNext ==
  \/ EepRelease \/ EepClose
  \/ \E f \in BOOLEAN : EepAcquire(f)
  \/ \E reads \in EepReads,
        end \in {"ok", "parse", "mem", "off", "io", "read", "buf"} :
       \E n \in 0..Len(reads) : EepPacket(reads, end, n)

EepSpec == EepInit /\ [][EepNext]_eepVars

-----------------------------------------------------------------------------
(* A packet that is answered with success got its data, unless user space's *)
(* buffer was not usable, or the packet before it was given up in parsing:  *)
(* what that one counted is added to this one's, and no longer fits.        *)
EepAnswered == eepGhost.answer = "empty" => eepGhost.buf

(* Between packets nothing is counted, unless the last was given up while   *)
(* it was parsed.                                                           *)
EepIdle == ~eepGhost.bad => eepCal.num = 0

(* The device has power only inside a packet, except after the bus failed   *)
(* once the power was up.                                                   *)
EepDark == ~eepGhost.io => eepDev.pw = 0

\* Actuator, OIS and EEPROM: power follows the state, settings and data belong to one
\* packet.
AuxSafe ==
    /\ ActPower /\ ActPending /\ ActPure /\ OisPower /\ OisOnePacket /\ EepAnswered
    /\ EepIdle /\ EepDark
=============================================================================
