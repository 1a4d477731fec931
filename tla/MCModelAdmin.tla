---------------------------- MODULE MCModelAdmin ----------------------------
(***************************************************************************)
(* A small instance of ModelAdmin: a model of the configuration file with  *)
(* an alias and a deployment, another one without, and a third name that   *)
(* is first an alias and may become a model's.                             *)
(***************************************************************************)
EXTENDS ModelAdmin, TLC

CONSTANTS r1, r2  \* requests, model values

MCYaml ==
    [x \in Names |->
        CASE x = "x" -> [aliases |-> {"z"}, deps |-> [d \in Deps |-> 1]]
          [] x = "y" -> [aliases |-> {}, deps |-> [d \in Deps |-> 0]]
          [] OTHER -> Absent]
MCAliases == {{}, {"z"}}

Symmetry == Permutations(Requests)
=============================================================================
