-------------------------- MODULE MCPreparationCase --------------------------
(* Small instances of PreparationCase.                                       *)
EXTENDS PreparationCase, TLC

CONSTANTS an, binh

\* Both write, decide and file requests, as a specialist does.
MCUsers == {an, binh}
\* The first generation of figures lacks something; the second is complete and
\* large: CP2 of it is for binh's role.
MCMayApproveTiered ==
  [f \in Figures |-> [c \in Checkpoints |->
     IF f = 2 /\ c = 2 THEN {binh} ELSE MCUsers]]
\* CP2 of the third generation has nobody to tell.
MCStaffed == [f \in Figures |-> IF f = 3 THEN {1} ELSE Checkpoints]
\* The third generation is small enough for delegated autonomy.
MCLowValue == {3}
MCSymmetry == Permutations(Runs)
=============================================================================
