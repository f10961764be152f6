------------------------------ MODULE MCEmail ------------------------------
(***************************************************************************)
(* EmailSweep for TLC: two sweeps that may overlap, three ticks to a day   *)
(* and five days to a month, over a household's last two days of one month *)
(* and its first of the next, in two zones most of a day apart.            *)
(***************************************************************************)
EXTENDS EmailSweep, TLC

CONSTANTS s1, s2, none

MCZones == {0, 2}

House(w, p, b, t, d) ==
  [wants |-> w, people |-> p, budget |-> b, born |-> t, demo |-> d]

(* One that has everything; one with nobody to mail; one whose address is  *)
(* held; one created as the run begins, with no budget; a demonstration.   *)
MCHouseholds == {
  House(Channels, "some", TRUE, Never, FALSE),
  House({"mail"}, "none", TRUE, Never, FALSE),
  House({"mail"}, "held", TRUE, Never, FALSE),
  House({"mail"}, "some", FALSE, Start, FALSE),
  House({"mail"}, "some", TRUE, Never, TRUE)}

(* Sweeps are alike, and no property here is about what must happen.       *)
Symmetry == Permutations(Sweeps)
============================================================================
