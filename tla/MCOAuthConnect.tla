----------------------------- MODULE MCOAuthConnect -----------------------------
(* An account with two sites, one with three, one with a single one.       *)
EXTENDS OAuthConnect, TLC

CONSTANTS alice, l1, l2, w1, w2, a1, a2, a3, a4, s1, s2, s3, s4, s5

MCSitesOf == [a \in {a1, a2, a3, a4} |->
  CASE a = a1 -> <<s1, s2>> [] a = a2 -> <<s3, s4, s5>> [] a = a3 -> <<s1>> [] a = a4 -> <<>>]

LinkSymmetry == Permutations({l1, l2})
=============================================================================
