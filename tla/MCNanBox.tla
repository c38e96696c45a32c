------------------------------ MODULE MCNanBox ------------------------------
(* Words of P + Q + 1 bits: every double but the NaNs no processor makes,  *)
(* and every address that fits the payload.                                *)
EXTENDS NanBox

MCDoubles == {d \in Word : ~(P .. P + Q - 1 \subseteq d)}
MCObjects == SUBSET (0 .. P - 1)
=============================================================================
