---------------------------- MODULE MCAtatMalloc ----------------------------
(***************************************************************************)
(* A heap of a dozen units of two bytes and gulps that hold one small      *)
(* block.  The three sizes serve: blocks that are split exactly and with a *)
(* remainder too small to keep, extended, joined on either side and on     *)
(* both; amounts that an int turns negative and into a smaller one; joined *)
(* blocks too long for an unsigned, which seem to be short and of which a  *)
(* part is given back.  Others move the break by a byte and by units.      *)
(***************************************************************************)
EXTENDS AtatMalloc

mc_Sizes == {1, 3, 11}
mc_Foreign == {[unit |-> 0, byte |-> 1], [unit |-> 2, byte |-> 0]}
=============================================================================
