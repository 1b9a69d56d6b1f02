------------------------------ MODULE CsiphyDev ------------------------------
(***************************************************************************)
(* The receiver of the camera's serial lanes (cam_csiphy_core.c), shared   *)
(* by a sensor of its own (device 0) and a combo sensor (device 1): the    *)
(* counts of acquires, configurations and starts, the clocks, the lanes    *)
(* and their protection. Every entry point holds the device's mutex. A     *)
(* user starts a device once at a time and stops what it started.          *)
(***************************************************************************)
EXTENDS Integers, FiniteSets, FiniteSetsExt

CONSTANTS CsiRates,    \* data rates a sensor may ask for
          CsiClocks,   \* rates of the clock levels
          CsiFaults,   \* failing calls
          CsiSteps     \* acquires

ASSUME CsiAssumption ==
  /\ CsiRates \subseteq Nat /\ CsiRates # {} /\ CsiClocks \subseteq Nat /\ CsiClocks # {}

VARIABLES
  csiDev,    \* the driver's state
  csiHw,     \* the hardware: on, bandwidth voted, clock, lanes, protected lanes
  csiGhost   \* budgets, what the users have done

csiVars == <<csiDev, csiHw, csiGhost>>

CsiIds == {0, 1}

CsiInit ==
  /\ csiDev = [st |-> "INIT", hdl |-> {}, acq |-> 0, combo |-> FALSE, ref |-> 0,
               starts |-> 0, cfg |-> 0, lanes |-> {},
               rate |-> [d \in CsiIds |-> 0], sec |-> {}]
  /\ csiHw = [on |-> FALSE, cpas |-> FALSE, clk |-> 0, lanes |-> {}, prot |-> {}]
  /\ csiGhost = [faults |-> CsiFaults, opens |-> CsiSteps,
                 conf |-> {},      \* devices with a configuration
                 run |-> {},       \* devices started and not stopped
                 late |-> {},      \* configured after the other one started
                 odd |-> FALSE,    \* ref_count or state part from the hardware
                 drift |-> FALSE]  \* config_count is not the configured devices

CsiFault(f) == f => csiGhost.faults > 0
CsiSpent(f) == IF f THEN csiGhost.faults - 1 ELSE csiGhost.faults

(* cam_csiphy_get_instance_offset: a combo device alone is at 1 because the *)
(* search runs off the one entry acquire_count allows.                      *)
CsiOffset(d) ==
  LET at == {i \in 0..csiDev.acq - 1 : i = d /\ d \in csiDev.hdl}
  IN  IF at = {} THEN csiDev.acq ELSE Min(at)

-----------------------------------------------------------------------------
(* CAM_ACQUIRE_DEV: a handle that could not be copied out is never heard of. *)
CsiAcquire(d, f) ==
  /\ csiDev.st # "START" /\ csiDev.acq < 2 /\ d \notin csiDev.hdl
  /\ (d = 1 => ~csiDev.combo)
  /\ (d = 0 => csiDev.combo \/ csiDev.acq # 1)
  /\ csiGhost.opens > 0 /\ CsiFault(f)
  /\ csiDev' = IF f THEN csiDev
               ELSE [csiDev EXCEPT !.hdl = @ \cup {d}, !.acq = @ + 1, !.st = "ACQUIRE",
                                   !.combo = @ \/ d = 1]
  /\ csiGhost' = [csiGhost EXCEPT !.opens = @ - 1, !.faults = CsiSpent(f)]
  /\ UNCHANGED csiHw

(* cam_cmd_buf_parser and cam_csiphy_update_secure_info, which does nothing *)
(* with both devices acquired.                                              *)
CsiConfig(d, rate, sec) ==
  /\ d \in csiDev.hdl /\ d \notin csiGhost.conf
  /\ csiDev' = [csiDev EXCEPT
                 !.cfg = @ + 1, !.lanes = @ \cup {d}, !.rate[d] = rate,
                 !.sec = IF sec /\ csiDev.acq < 2 /\ CsiOffset(d) < 2
                           THEN @ \cup {CsiOffset(d)} ELSE @]
  /\ csiGhost' = [csiGhost EXCEPT !.conf = @ \cup {d},
                                  !.late = IF csiDev.st = "START" THEN @ \cup {d} ELSE @]
  /\ UNCHANGED csiHw

(* cam_csiphy_external_cmd replaces the lanes, for whoever has some. *)
CsiExternal(d, rate) ==
  /\ d \in csiDev.hdl
  /\ csiDev' = [csiDev EXCEPT !.lanes = {d}, !.rate[0] = rate]
  /\ csiGhost' = [csiGhost EXCEPT !.drift = TRUE, !.late = csiGhost.conf \cup {d}]
  /\ UNCHANGED csiHw

-----------------------------------------------------------------------------
(* get_clk_voting_dynamic: the lowest level above the data rate. *)
CsiVote ==
  LET need == Max({csiDev.rate[0]} \cup IF csiDev.combo THEN {csiDev.rate[1]} ELSE {})
      ok == {c \in CsiClocks : c > need}
  IN  IF ok = {} THEN Max(CsiClocks) ELSE Min(ok)

(* cam_csiphy_enable_hw, when ref_count was 0 and the calls succeed. *)
CsiEnabled == [csiHw EXCEPT !.on = TRUE, !.clk = CsiVote]

(* cam_csiphy_config_dev *)
CsiProgrammed(h) == [h EXCEPT !.cpas = TRUE, !.lanes = csiDev.lanes]

(* CAM_START_DEV. A failing enable keeps its reference; the first start     *)
(* alone protects its lanes. With ref_count set nothing is switched on.     *)
CsiStart(d, end) ==
  /\ d \in csiDev.hdl /\ d \notin csiGhost.run /\ CsiFault(end # "ok")
  /\ IF csiDev.st = "START"
       THEN /\ end = "ok"
            /\ csiDev' = [csiDev EXCEPT !.starts = @ + 1]
            /\ csiGhost' = [csiGhost EXCEPT !.run = @ \cup {d}]
            /\ UNCHANGED csiHw
     ELSE IF CsiOffset(d) >= 2
       THEN end = "ok" /\ UNCHANGED csiVars
     ELSE LET first == csiDev.ref = 0
              h == IF first THEN CsiEnabled ELSE csiHw
          IN  /\ (end = "enable" => first)
              /\ csiDev' = CASE end = "ok" -> [csiDev EXCEPT !.ref = @ + 1, !.starts = @ + 1,
                                                            !.st = "START"]
                             [] end = "enable" -> [csiDev EXCEPT !.ref = 1]
                             [] OTHER -> csiDev
              /\ csiHw' = IF end = "ok"
                            THEN LET p == CsiProgrammed(h)
                                 IN  [p EXCEPT !.prot = @ \cup (csiDev.sec \cap {CsiOffset(d)})]
                            ELSE csiHw
              /\ csiGhost' = [csiGhost EXCEPT
                               !.faults = CsiSpent(end # "ok"),
                               !.run = IF end = "ok" THEN @ \cup {d} ELSE @,
                               !.odd = @ \/ end = "enable"]

CsiLastStop == csiDev.starts = 1

(* cam_csiphy_disable_hw: the last reference switches off. *)
CsiDisabled(h) == IF csiDev.ref = 1 THEN [h EXCEPT !.on = FALSE, !.clk = 0, !.lanes = {}] ELSE h

(* CAM_STOP_DEV *)
CsiStop(d) ==
  /\ d \in csiDev.hdl /\ d \in csiGhost.run
  /\ IF csiDev.st # "START" \/ csiDev.starts = 0 \/ CsiOffset(d) >= 2
       THEN UNCHANGED <<csiDev, csiHw>>
       ELSE LET o == CsiOffset(d)
                h == [csiHw EXCEPT !.prot = @ \ {o}]
            IN  IF ~CsiLastStop
                  THEN /\ csiDev' = [csiDev EXCEPT !.starts = @ - 1, !.sec = @ \ {o}]
                       /\ csiHw' = h
                  ELSE /\ csiDev' = [csiDev EXCEPT !.starts = @ - 1, !.sec = @ \ {o},
                                       !.ref = IF @ = 0 THEN 0 ELSE @ - 1,
                                       !.st = "ACQUIRE"]
                       /\ csiHw' = [CsiDisabled(h) EXCEPT !.cpas = FALSE]
  /\ csiGhost' = [csiGhost EXCEPT !.run = @ \ {d},
                                  !.late = IF csiDev'.st = "START" THEN @ ELSE {}]

(* What is left of the lanes when config_count reaches 0. *)
CsiLanesLeft == IF csiDev.cfg = 1 THEN {} ELSE csiDev.lanes

(* CAM_RELEASE_DEV, in any state. *)
CsiRelease(d) ==
  /\ d \in csiDev.hdl /\ csiDev.acq > 0
  /\ csiDev' = [csiDev EXCEPT !.hdl = @ \ {d}, !.acq = @ - 1, !.cfg = @ - 1,
                              !.combo = @ /\ d # 1,
                              !.st = IF csiDev.acq = 1 THEN "INIT" ELSE @,
                              !.lanes = CsiLanesLeft]
  /\ csiGhost' = [csiGhost EXCEPT !.conf = @ \ {d}, !.late = @ \ {d},
                                  !.run = @ \ {d},
                                  !.odd = @ \/ d \in csiGhost.run,
                                  !.drift = @ \/ d \notin csiGhost.conf]
  /\ UNCHANGED csiHw

(* cam_csiphy_shutdown, which leaves config_count as it is. *)
CsiClose ==
  /\ csiDev.st # "INIT"
  /\ LET live == csiDev.st = "START"
     IN  /\ csiDev' = [csiDev EXCEPT
                        !.st = "INIT", !.hdl = {}, !.acq = 0, !.combo = FALSE,
                        !.ref = 0, !.starts = 0, !.lanes = {},
                        !.sec = IF live THEN @ \ (0..csiDev.acq - 1) ELSE @]
         /\ csiHw' = IF live
                       THEN [csiHw EXCEPT !.on = FALSE, !.cpas = FALSE, !.clk = 0, !.lanes = {},
                              !.prot = @ \ (csiDev.sec \cap (0..csiDev.acq - 1))]
                       ELSE csiHw
  /\ csiGhost' = [csiGhost EXCEPT !.conf = {}, !.run = {}, !.late = {},
                                  !.odd = @ /\ (csiHw'.on \/ csiHw'.cpas),
                                  !.drift = @ \/ csiDev.cfg # 0]

CsiNext ==
  \/ CsiClose
  \/ \E d \in CsiIds :
       \/ \E f \in BOOLEAN : CsiAcquire(d, f)
       \/ \E rate \in CsiRates :
            CsiExternal(d, rate) \/ \E sec \in BOOLEAN : CsiConfig(d, rate, sec)
       \/ \E end \in {"ok", "enable", "cpas"} : CsiStart(d, end)
       \/ CsiStop(d) \/ CsiRelease(d)

CsiSpec == CsiInit /\ [][CsiNext]_csiVars

-----------------------------------------------------------------------------
(* The receiver is on, and its bandwidth voted for, exactly while a device  *)
(* that was started is not stopped; one stopping sensor does not take it    *)
(* from the other. Broken by an enable that failed and by a release without *)
(* a stop, which the code does not refuse.                                  *)
CsiPower ==
  ~csiGhost.odd =>
    /\ csiHw.on = (csiGhost.run # {}) /\ csiHw.cpas = csiHw.on
    /\ csiDev.starts = Cardinality(csiGhost.run)
    /\ csiDev.ref = IF csiHw.on THEN 1 ELSE 0

(* A running device has its lanes programmed and a clock above its data     *)
(* rate, or the highest, unless it was configured only after the other one  *)
(* had started: the second start programs nothing. A device released        *)
(* without a configuration takes the lanes of the other with it.            *)
CsiProg ==
  ~csiGhost.odd /\ ~csiGhost.drift =>
    \A d \in (csiGhost.run \cap csiGhost.conf) \ csiGhost.late :
      /\ d \in csiHw.lanes
      /\ csiHw.clk > csiDev.rate[d] \/ csiHw.clk = Max(CsiClocks)

(* No lanes outlive the devices, as long as every device is configured once *)
(* between acquire and release and none is closed: config_count is not      *)
(* reset by a close and counts down at every release.                       *)
CsiClean == ~csiGhost.drift => (csiDev.acq = 0 => csiDev.lanes = {})

\* Power, lanes and programming of the PHY follow its users.
CsiSafe ==
    /\ CsiPower /\ CsiProg /\ CsiClean
=============================================================================
