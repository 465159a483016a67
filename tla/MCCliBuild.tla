---------------------------- MODULE MCCliBuild ----------------------------
(* Small instances of CliBuild for TLC. *)
EXTENDS CliBuild, TLC

\* A keystore is used with each engine; auto also without a keystore or a token.
ReleaseBuilds == [engine : {"eas", "gradle"}, release : {TRUE}, token : {TRUE}]
AutoBuilds    == [engine : {"auto"}, release : BOOLEAN, token : BOOLEAN]

\* A project that has all the files, and one that has none.
Everything == [easJson |-> "own", credentials |-> "own", androidKeys |-> "own"]
Nothing == [easJson |-> "absent", credentials |-> "absent", androidKeys |-> "absent"]
FullAndEmpty == {Everything, Nothing}
Full == {Everything}
GradleRelease == [engine : {"gradle"}, release : {TRUE}, token : {TRUE}]
Symmetry == Permutations(Runs)

\* At least one of the two builds uses Gradle.  What two overlapping EAS builds
\* do to each other's eas.json is a disturbance that SecretsRemoved sets aside.
SafetyInit ==
    /\ Init
    /\ \E r \in Runs : option[r].engine = "gradle"

SafetySpec == SafetyInit /\ [][Next]_vars

=============================================================================
