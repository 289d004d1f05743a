---------------------------- MODULE MCProvision ----------------------------
(* Two profiles: the second keeps the master data and one of the images.   *)
EXTENDS Provision

TwoImages == {"card", "pack"}
TwoProfiles == <<[card |-> 1, pack |-> 2, master |-> 3],
                 [card |-> 1, pack |-> 4, master |-> 3]>>
=============================================================================
