------------------------------ MODULE MCRotate ------------------------------
(***************************************************************************)
(* Small instances of Rotate for TLC: rotations that all keep a ledger,    *)
(* that all keep none, and that differ.                                    *)
(***************************************************************************)
EXTENDS Rotate, TLC

C(l, a, t) == [ledger |-> l, audit |-> a, transition |-> t]

\* Every rotation keeps the ledger, none does, or some do.
MCConfigs == {{C(TRUE, TRUE, TRUE), C(TRUE, FALSE, FALSE)},
              {C(FALSE, FALSE, TRUE)},
              {C(TRUE, TRUE, FALSE), C(FALSE, FALSE, TRUE)}}

MCSymmetry == Permutations(Rotator) \cup Permutations(Token \ {First})
=============================================================================
