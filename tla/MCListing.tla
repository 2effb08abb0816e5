----------------------------- MODULE MCListing -----------------------------
(* Small instances of Listing: three products, two of equal value.         *)
EXTENDS Listing

ThreeProducts == <<2, 1, 2>>
=============================================================================
