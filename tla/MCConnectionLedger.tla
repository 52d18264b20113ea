------------------------- MODULE MCConnectionLedger -------------------------
(* Small instances of ConnectionLedger.                                    *)
EXTENDS ConnectionLedger

Size(f, b) == [d \in Dim |-> IF d = "frames" THEN f ELSE b]

\* Room for two startup grants and a little ordinary credit; the peer declares
\* more frames and fewer bytes than the relay allows.
MCTotal == Size(2, 4)
MCStartupReserve == Size(1, 3)
MCStartupGrant == Size(1, 2)
MCCapacities == {Size(3, 3)}
MCCredits == {Size(1, 1)}

=============================================================================
