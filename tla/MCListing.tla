----------------------------- MODULE MCListing -----------------------------
(* Lists of up to four rows with ties, walked in pages of one or two.      *)
EXTENDS Listing

MCRows == 1..4
MCKeys == {1, 2}
MCPageSizes == {1, 2}
=============================================================================
