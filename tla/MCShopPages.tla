----------------------------- MODULE MCShopPages -----------------------------
(* Two rows, a search that finds one of them, pages of one or two rows.    *)
EXTENDS ShopPages, TLC

CONSTANTS everything, lamp

Hit == (everything :> {1, 2}) @@ (lamp :> {2})
=============================================================================
