---------------------------- MODULE MCDeployment ----------------------------
(* Small instances of Deployment for TLC. *)
EXTENDS Deployment, TLC

CONSTANTS a, b

Symmetry == Permutations(Handlers) \cup Permutations(Names)

(* A release, and the same with its first file edited.                      *)
SomeReleases == {<<a, b>>, <<b, b>>}

(* Nothing set; or a Postgres address and automatic upgrades.               *)
SomeEnvironments ==
  {[driver |-> Unset, url |-> FALSE, migrate |-> Unset], [driver |-> Unset, url |-> TRUE, migrate |-> "on"]}

(* SQLite by default, Postgres, and Postgres without its address.          *)
SomeInputs ==
  {[driver |-> Unset, url |-> TRUE, migrate |-> "off"], [driver |-> "postgres", url |-> TRUE, migrate |-> Unset],
   [driver |-> "postgres", url |-> FALSE, migrate |-> Unset]}
=============================================================================
