---------------------------- MODULE MCOptionsFlow ----------------------------
(* Instances of OptionsFlow for TLC. *)
EXTENDS OptionsFlow, TLC

CONSTANTS f1, f2, betterpark, parkdepot

\* Two spellings of one plate, another plate, and no plate at all.
NormalizedSpellings ==
  ("B AB-1" :> "BAB1") @@ ("BAB1" :> "BAB1") @@ ("m xy 2" :> "MXY2") @@ (" - " :> "")

\* -1, 0, 0.5, 1 and 5 minutes.
HalfMinutes == {-2, 0, 1, 2, 10}

FlowSymmetry == Permutations({f1, f2})
=============================================================================
