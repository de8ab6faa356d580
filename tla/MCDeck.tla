------------------------------- MODULE MCDeck -------------------------------
(* Small instances of Deck for TLC.                                        *)
EXTENDS Deck, TLC

Symmetry == Permutations(Tasks \ {Root})
=============================================================================
