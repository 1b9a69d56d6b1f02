----------------------------- MODULE MCDevices ------------------------------
(***************************************************************************)
(* Instances for TLC of the sensor module's devices, of the services they   *)
(* and the engines share (CCI, SMMU, buffer table, CPAS), of the loopback   *)
(* device and of the automotive IFE.  A behaviour is about one of them; the *)
(* others keep their initial state.                                         *)
(***************************************************************************)
EXTENDS SensorDev, SensorAux, FlashDev, CsiphyDev, CamCci, CamSmmu,
        MemTable, CpasCore, V4l2Loop, AisIsp

VARIABLE part    \* the component this behaviour is about

MCReads == {<<1>>, <<1, 1>>}
MCPages == [b \in SmmBufs |-> IF b = 1 THEN 1 ELSE 2]
MCHdls == {<<>>, <<2>>, <<1, 2>>}

\* The devices of the sensor module: power and shared lines follow what each of them is
\* doing, whatever another does or fails to do, and settings reach the frame they are for.
SensorsSafe == SpwSafe /\ SnsSafe /\ AuxSafe /\ FlsSafe /\ CsiSafe

DevVars == <<part, spwVars, snsVars, actVars, oisVars, eepVars, flsVars, csiVars, cciVars,
           ccqVars, smmVars, smcVars, mmtVars, cpaVars, vlbVars, avfVars, advVars>>

DevInit ==
    /\ part \in {"spw", "sns", "act", "ois", "eep", "fls", "csi", "ccib", "cciq", "smm", "smc", "mmt", "cpa", "vlb", "avf", "adv"}
    /\ SpwInit
    /\ SnsInit
    /\ ActInit
    /\ OisInit
    /\ EepInit
    /\ FlsInit /\ (part # "fls" => flsDev.pmic)
    /\ CsiInit
    /\ CciInit
    /\ CcqInit
    /\ SmmInit
    /\ SmcInit
    /\ MmtInit
    /\ CpaInit
    /\ VlbInit
    /\ AvfInit
    /\ AdvInit

DevSpw ==
    /\ part = "spw" /\ SpwNext
    /\ UNCHANGED <<part, snsVars, actVars, oisVars, eepVars, flsVars, csiVars, cciVars,
                   ccqVars, smmVars, smcVars, mmtVars, cpaVars, vlbVars, avfVars,
                   advVars>>

DevSns ==
    /\ part = "sns" /\ SnsNext
    /\ UNCHANGED <<part, spwVars, actVars, oisVars, eepVars, flsVars, csiVars, cciVars,
                   ccqVars, smmVars, smcVars, mmtVars, cpaVars, vlbVars, avfVars,
                   advVars>>

DevAct ==
    /\ part = "act" /\ ActNext
    /\ UNCHANGED <<part, spwVars, snsVars, oisVars, eepVars, flsVars, csiVars, cciVars,
                   ccqVars, smmVars, smcVars, mmtVars, cpaVars, vlbVars, avfVars,
                   advVars>>

DevOis ==
    /\ part = "ois" /\ OisNext
    /\ UNCHANGED <<part, spwVars, snsVars, actVars, eepVars, flsVars, csiVars, cciVars,
                   ccqVars, smmVars, smcVars, mmtVars, cpaVars, vlbVars, avfVars,
                   advVars>>

DevEep ==
    /\ part = "eep" /\ EepNext
    /\ UNCHANGED <<part, spwVars, snsVars, actVars, oisVars, flsVars, csiVars, cciVars,
                   ccqVars, smmVars, smcVars, mmtVars, cpaVars, vlbVars, avfVars,
                   advVars>>

DevFls ==
    /\ part = "fls" /\ FlsNext
    /\ UNCHANGED <<part, spwVars, snsVars, actVars, oisVars, eepVars, csiVars, cciVars,
                   ccqVars, smmVars, smcVars, mmtVars, cpaVars, vlbVars, avfVars,
                   advVars>>

DevCsi ==
    /\ part = "csi" /\ CsiNext
    /\ UNCHANGED <<part, spwVars, snsVars, actVars, oisVars, eepVars, flsVars, cciVars,
                   ccqVars, smmVars, smcVars, mmtVars, cpaVars, vlbVars, avfVars,
                   advVars>>

DevCcib ==
    /\ part = "ccib" /\ CciNext
    /\ UNCHANGED <<part, spwVars, snsVars, actVars, oisVars, eepVars, flsVars, csiVars,
                   ccqVars, smmVars, smcVars, mmtVars, cpaVars, vlbVars, avfVars,
                   advVars>>

DevCciq ==
    /\ part = "cciq" /\ CcqNext
    /\ UNCHANGED <<part, spwVars, snsVars, actVars, oisVars, eepVars, flsVars, csiVars,
                   cciVars, smmVars, smcVars, mmtVars, cpaVars, vlbVars, avfVars,
                   advVars>>

DevSmm ==
    /\ part = "smm" /\ SmmNext
    /\ UNCHANGED <<part, spwVars, snsVars, actVars, oisVars, eepVars, flsVars, csiVars,
                   cciVars, ccqVars, smcVars, mmtVars, cpaVars, vlbVars, avfVars,
                   advVars>>

DevSmc ==
    /\ part = "smc" /\ SmcNext
    /\ UNCHANGED <<part, spwVars, snsVars, actVars, oisVars, eepVars, flsVars, csiVars,
                   cciVars, ccqVars, smmVars, mmtVars, cpaVars, vlbVars, avfVars,
                   advVars>>

DevMmt ==
    /\ part = "mmt" /\ MmtNext
    /\ UNCHANGED <<part, spwVars, snsVars, actVars, oisVars, eepVars, flsVars, csiVars,
                   cciVars, ccqVars, smmVars, smcVars, cpaVars, vlbVars, avfVars,
                   advVars>>

DevCpa ==
    /\ part = "cpa" /\ CpaNext
    /\ UNCHANGED <<part, spwVars, snsVars, actVars, oisVars, eepVars, flsVars, csiVars,
                   cciVars, ccqVars, smmVars, smcVars, mmtVars, vlbVars, avfVars,
                   advVars>>

DevVlb ==
    /\ part = "vlb" /\ VlbNext
    /\ UNCHANGED <<part, spwVars, snsVars, actVars, oisVars, eepVars, flsVars, csiVars,
                   cciVars, ccqVars, smmVars, smcVars, mmtVars, cpaVars, avfVars,
                   advVars>>

DevAvf ==
    /\ part = "avf" /\ AvfNext
    /\ UNCHANGED <<part, spwVars, snsVars, actVars, oisVars, eepVars, flsVars, csiVars,
                   cciVars, ccqVars, smmVars, smcVars, mmtVars, cpaVars, vlbVars,
                   advVars>>

DevAdv ==
    /\ part = "adv" /\ AdvNext
    /\ UNCHANGED <<part, spwVars, snsVars, actVars, oisVars, eepVars, flsVars, csiVars,
                   cciVars, ccqVars, smmVars, smcVars, mmtVars, cpaVars, vlbVars,
                   avfVars>>

DevNext ==
    \/ DevSpw
    \/ DevSns
    \/ DevAct
    \/ DevOis
    \/ DevEep
    \/ DevFls
    \/ DevCsi
    \/ DevCcib
    \/ DevCciq
    \/ DevSmm
    \/ DevSmc
    \/ DevMmt
    \/ DevCpa
    \/ DevVlb
    \/ DevAvf
    \/ DevAdv

DevSpec == DevInit /\ [][DevNext]_DevVars

=============================================================================
