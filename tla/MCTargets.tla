------------------------------ MODULE MCTargets ------------------------------
(* Targets for TLC: a site, one in a directory below it for another        *)
(* environment, and one apart from them.                                   *)
EXTENDS Targets, TLC

CONSTANTS h1, h2, site, below, apart

HomesDef == {h1, h2}
MaxMishapsDef == (h1 :> 2) @@ (h2 :> 0)

WithinDef == {<<place, place>> : place \in {site, below, apart}} \cup {<<below, site>>}

outer == [place |-> site, type |-> "config", env |-> "prod"]
inner == [place |-> below, type |-> "static", env |-> "test"]
aside == [place |-> apart, type |-> "static", env |-> "prod"]
NamesDef == {outer, inner, aside}

(* The outer site is explicit and nothing else is served; or all of them   *)
(* are left to requests, in both environments, up to two at a time.        *)
explicit == [envs |-> {"prod"}, static |-> {outer}, templates |-> {}, limit |-> 2]
open == [envs |-> {"prod", "test"}, static |-> {}, templates |-> {"config", "static"}, limit |-> 2]
ConfigsDef == (h1 :> {explicit, open}) @@ (h2 :> {open})

(* Processes are interchangeable.                                          *)
Symmetry == Permutations(Procs)
=============================================================================
