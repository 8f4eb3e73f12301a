---------------------------------- MODULE MCSetup ---------------------------------
(***************************************************************************)
(* Instances of Setup for TLC.                                             *)
(***************************************************************************)
EXTENDS Setup, TLC

CONSTANTS r1, r2, v1, v2, automatic, explicit, other

\* The user has a hook in the first repository only.
HookInFirst == (r1 :> v1) @@ (r2 :> NoFile)

\* Automatic receipts with a key, back to explicit ones without, and a setup of the
\* second repository that names no mode.
ThreeSetups ==
    (automatic :> [repository |-> r1, mode |-> "automatic", key |-> TRUE])
    @@ (explicit :> [repository |-> r1, mode |-> "explicit", key |-> FALSE])
    @@ (other :> [repository |-> r2, mode |-> "", key |-> FALSE])
Setups == [c \in Commands |-> ThreeSetups[c]]
=================================================================================
