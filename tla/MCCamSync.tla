---------------------------- MODULE MCCamSync ----------------------------
(* Small instances of the fence table.                                      *)
EXTENDS CamSync, TLC

Sym == Permutations(Objs) \cup Permutations(Threads) \cup Permutations(Cbs)
       \cup Permutations(Pls)
==========================================================================
