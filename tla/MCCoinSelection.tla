--------------------------- MODULE MCCoinSelection ---------------------------
(***************************************************************************)
(* The instance of CoinSelection that is checked: two transactions with    *)
(* three outputs between them, two groups, the filters of a wallet that    *)
(* starts selective and gets more permissive, and one that asks more of    *)
(* the wallet's own outputs than of others', which no constructor refuses. *)
(***************************************************************************)
EXTENDS CoinSelection, TLC

MCvout == (1 :> <<5, 2>>) @@ (2 :> <<4>>)

MCInputBytes == {-1, 1}

MCConfirmations == {<<1, TRUE>>, <<1, FALSE>>, <<6, FALSE>>}

MCChains == {<<0, 0>>, <<1, 2>>}

MCFilters ==
    { CoinEligibilityFilter(1, 6, 0, None),
      CoinEligibilityFilter(0, 1, 1, 2),
      CoinEligibilityFilter(6, 1, 1, 2) }

GroupSymmetry == Permutations(Groups)

=============================================================================
