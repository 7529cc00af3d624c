------------------------------ MODULE MCSetup ------------------------------
(* Instances of Setup for TLC: the MIGRATIONS lists of the repository. *)
EXTENDS Setup, TLC

MCAllLists ==
    [saver_mysql |-> SaverMigrations("generated"), saver_mariadb |-> SaverMigrations("plain"),
     shallow_mysql |-> ShallowMigrations("generated"), shallow_mariadb |-> ShallowMigrations("plain"),
     store |-> StoreMigrations]

MCSaverLists == [saver_mysql |-> SaverMigrations("generated")]

\* Two processes call setup of the same library where no migration changes
\* what an earlier one set, and one process elsewhere.
MCCallers ==
    [l \in DOMAIN MCAllLists |->
        IF l \in {"shallow_mysql", "store"} THEN Setups ELSE {CHOOSE p \in Setups : TRUE}]

\* All processes call setup of every library.
MCAllCall == [l \in DOMAIN MCAllLists |-> Setups]

\* Wherever two processes call setup of the same library, late runs are harmless.
ASSUME MCCallersAssumption ==
    \A l \in DOMAIN MCAllLists :
        (\E p \in Setups : MCCallers[l] = {p}) \/ LateRunsHarmless(MCAllLists[l])

=============================================================================
