----------------------------- MODULE MCDelivery -----------------------------
(* Small instances of Delivery.                                            *)
EXTENDS Delivery

MCSize(frames, bytes) == [d \in Dim |-> IF d = "frames" THEN frames ELSE bytes]

MCOne == MCSize(1, 1)
MCTwo == MCSize(2, 2)
MCThree == MCSize(3, 3)
MCCredits == {MCOne}

=============================================================================
