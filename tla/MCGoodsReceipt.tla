---------------------------- MODULE MCGoodsReceipt ----------------------------
(* Instances of GoodsReceipt for TLC: an order of two lines.                  *)
EXTENDS GoodsReceipt

CONSTANTS s1, s2

Entry(l, q, b) == [line |-> l, qty |-> q, ok |-> b]

MCOrdered == [l \in Line |-> 1]

(* All of the order, one line or the other, nothing, the same line twice.     *)
MCPayloads ==
  {<<Entry(1, 1, TRUE), Entry(2, 1, TRUE)>>, <<Entry(1, 1, FALSE)>>, <<Entry(2, 1, TRUE)>>,
   <<Entry(1, 0, FALSE)>>, <<Entry(1, 1, TRUE), Entry(1, 1, TRUE)>>}

MCPlainPayloads == {<<Entry(1, 1, TRUE)>>, <<Entry(2, 1, TRUE)>>}
==============================================================================
