------------------------------ MODULE MCLArray ------------------------------
(* Tables of 2, 8, 32 and 128 slots.  31 and 63 collide in the first three *)
(* and fill the one of 2 slots if nothing stops them, which leaves 32      *)
(* nowhere to end its probe.  31, 63 and 32, set in this order, wrap round *)
(* the 8-slot table so that they are rehashed as 63, 32, 31: with          *)
(* ProbeLimit 0 the last no longer fits into 32 slots and larray_expand    *)
(* calls itself through larray_set.                                        *)
EXTENDS LArrayTable

CONSTANTS v1, v2

MCKeys == {31, 32, 63}
=============================================================================
