-------------------------- MODULE MCSessionRuntime --------------------------
(***************************************************************************)
(* Instances of SessionRuntime for TLC.                                    *)
(***************************************************************************)
EXTENDS SessionRuntime

CONSTANTS r1, r2

MCOneRelay  == {r1}
MCTwoRelays == {r1, r2}

\* what a parking turn asks for: nothing, one approval, one custom result, or
\* both in one barrier (the README's findings use the single ones)
MCNoParks     == {}
MCAskPark     == {<<"ask">>}
MCCustomPark  == {<<"custom">>}
MCBothParks   == {<<"ask", "custom">>}
=============================================================================
