------------------------------ MODULE MCMedia ------------------------------
(* Sizes of zero, less than, exactly and more than a whole number of parts; *)
(* part sizes below, between and above the allowed ones.                    *)
EXTENDS MediaTransfer

MCSizes == 0..5
MCLimits == {0, 1, 2, 3, 4, 6}
MCPartSizes == {0, 1, 3, 9}
=============================================================================
