----------------------------- MODULE MCSpscRing -----------------------------
(* Instances of SpscRing for TLC: bytes of two values, so that the length  *)
(* of a short frame already spreads over the four bytes of its prefix.     *)
EXTENDS SpscRing

\* Lengths 0 to 6: in the ring of 9 bytes length 5 fills it exactly and 6
\* never fits; the consumer takes at most 3, so 5 also wedges it for good.
MCPayloads == { <<>>, <<1>>, <<1, 0, 1>>, <<0, 1, 1, 1>>, <<1, 0, 0, 1, 1>>, <<1, 1, 0, 0, 1, 1>> }
=============================================================================
