------------------------------ MODULE MCTeams ------------------------------
(***************************************************************************)
(* Small instances of Teams for TLC: team A with a main thread that forks  *)
(* and spawns, a second thread that execs and the image after the exec,    *)
(* and team B, the forked child.                                           *)
(***************************************************************************)
EXTENDS Teams, TLC

CONSTANTS main, image, child, second, A, B

Teams == main :> A @@ image :> A @@ child :> B @@ second :> A
Tids == main :> "main" @@ image :> "main" @@ child :> "child" @@ second :> "second"
Origins == main :> "launch" @@ image :> "exec" @@ child :> "fork" @@ second :> "spawn"
Parents == main :> None @@ image :> second @@ child :> main @@ second :> main

TeamOf == [g \in Guest |-> Teams[g]]
TidOf == [g \in Guest |-> Tids[g]]
OriginOf == [g \in Guest |-> Origins[g]]
ParentOf == [g \in Guest |-> Parents[g]]

\* Nothing is said of what comes after guests were crossed.
NotCrossed == ~crossed
=============================================================================
