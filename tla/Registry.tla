------------------------------ MODULE Registry ------------------------------
(***************************************************************************)
(* The in-memory model registry of one instance: what its operations do to *)
(* a registry R, a record of                                               *)
(*   models   canonical name -> entry, or Absent                           *)
(*   aliases  alias -> canonical name, or None.                            *)
(* Each operation holds the registry's lock for its whole length, so each  *)
(* is one function of R. The sorted list is the domain of R.models.        *)
(***************************************************************************)
CONSTANTS Names, None, Absent

Has(R, x) == R.models[x] # Absent

(* The name wins over an alias that is spelled the same. *)
Resolve(R, x) == IF Has(R, x) THEN x ELSE R.aliases[x]

OldAliases(R, x) == IF Has(R, x) THEN R.models[x].aliases ELSE {}

\* Mutant: the entry is replaced and its old aliases stay.
AddModelKeepingAliases(R, x, entry) ==
    [models  |-> [R.models EXCEPT ![x] = entry],
     aliases |-> [a \in Names |-> IF a \in entry.aliases THEN x ELSE R.aliases[a]]]

(* The old entry's aliases go before the new ones are set, whoever they *)
(* lead to by now.                                                      *)
AddModel(R, x, entry) ==
    [models  |-> [R.models EXCEPT ![x] = entry],
     aliases |-> [a \in Names |-> IF a \in entry.aliases THEN x
                                  ELSE IF a \in OldAliases(R, x) THEN None ELSE R.aliases[a]]]

RemoveModel(R, x) ==
    [models  |-> [R.models EXCEPT ![x] = Absent],
     aliases |-> [a \in Names |-> IF a \in OldAliases(R, x) THEN None ELSE R.aliases[a]]]

StripAllFallbacks(R) ==
    [R EXCEPT !.models = [x \in Names |-> IF Has(R, x) THEN [R.models[x] EXCEPT !.fallback = None]
                                                       ELSE Absent]]

(* Resolve follows an alias without looking whether the model is there. *)
AliasesLead(R) ==
    \A a \in Names : R.aliases[a] # None =>
        Has(R, R.aliases[a]) /\ a \in R.models[R.aliases[a]].aliases
=============================================================================
