---- MODULE MCExperiments ----
(* By hand: tlc -config MCExperiments.cfg MCExperiments *)
EXTENDS Experiments

MCDefinition ==
  [id \in Ids |->
    CASE id = "spin" -> [host |-> TRUE, conflictsWith |-> {"pin"}, minSamples |-> 1]
      [] id = "pin" -> [host |-> FALSE, conflictsWith |-> {}, minSamples |-> 2]
      [] OTHER -> [host |-> FALSE, conflictsWith |-> {}, minSamples |-> 1]]
====
