--------------------------- MODULE MCTwoPreviews ---------------------------
(* Two repositories, each with a preview of the PR of the same number.      *)
EXTENDS TwoPreviews, TLC

CONSTANT pr42

BuildsA == pr42 :> {1}
BuildsB == pr42 :> {2}
=============================================================================
