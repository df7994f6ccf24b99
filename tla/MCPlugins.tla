------------------------------ MODULE MCPlugins --------------------------------
(***************************************************************************)
(* Three samples of every plugin, with numbers of two digits; and the      *)
(* samplers that work in many steps, for the plugins that have them.       *)
(***************************************************************************)
EXTENDS Plugins, Collectors

VARIABLE collector     \* whose steps are followed: "none" for those of Plugins

MCAmounts == {1, Base}

CollectorOf(p) ==
  CASE p = "Kvm"   -> {"domains"}
    [] p = "zCEC"  -> {"hypfs"}
    [] p = "zECKD" -> {"sysfs"}
    [] OTHER       -> {}

MCInit ==
  /\ Init
  /\ collector \in {"none"} \cup CollectorOf(plugin)
  /\ DL!Init
  /\ SN!Init
  /\ source = IF collector = "sysfs" THEN "sysfs" ELSE "hypfs"

MCNext ==
  /\ UNCHANGED collector
  /\ \/ collector = "none" /\ Next /\ UNCHANGED <<now, domainVars, fileVars>>
     \/ collector = "domains" /\ DL!Next /\ UNCHANGED <<vars, fileVars>>
     \/ collector \in {"hypfs", "sysfs"} /\ SN!Next /\ UNCHANGED <<vars, domainVars>>

MCSpec == MCInit /\ [][MCNext]_<<vars, collector, now, domainVars, fileVars>>

=============================================================================
