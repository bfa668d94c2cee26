------------------------------ MODULE MCListing ------------------------------
(* Listing for TLC: page numbers of 4 bits instead of 32, with the requests  *)
(* below, between and above their limits.                                    *)
EXTENDS Listing

MCRows == 1..3
MCPages == {-1, 0, 1, 2, 8, 17}   \* 8 and 17 become -8 and 1 as int32
MCSizes == {-1, 0, 1, 4}

===============================================================================
