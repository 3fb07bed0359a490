---------------------------- MODULE Controllers ----------------------------
(***************************************************************************)
(* The two controllers, over one description of the log and its clerks.    *)
(* kind says which of the two a behaviour is about; the other one stays in *)
(* its initial state.                                                      *)
(***************************************************************************)
EXTENDS Ctrler, RingCtrler

vars == <<commandVars, ctrlerVars, ringVars>>

Init == CommandsInit /\ CtrlerInit /\ RingInit

Next ==
    \/ kind = "shards" /\ CtrlerNext /\ UNCHANGED ringVars
    \/ kind = "ring" /\ RingNext /\ UNCHANGED ctrlerVars

Spec == Init /\ [][Next]_vars
=============================================================================
