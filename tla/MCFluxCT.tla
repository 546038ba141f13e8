-------------------------------- MODULE MCFluxCT --------------------------------
(* Two blocks of two by two zones, and of one by two by two.                 *)
EXTENDS FluxCT

Ends(inner, outer) == [inner |-> inner, outer |-> outer]
Open == Ends("outflow", "outflow")
Fixed == Ends("dirichlet", "dirichlet")
Reflecting == Ends("reflecting", "reflecting")
Around == Ends("periodic", "periodic")
Neither == Ends(FALSE, FALSE)
Both == Ends(TRUE, TRUE)

Deck(ndim, x1, fix1, x2, fix2, polar, old) ==
    [ndim |-> ndim, zones |-> IF ndim = 2 THEN <<2, 2, 1>> ELSE <<1, 2, 2>>,
     bounds |-> <<x1, x2>>, fix |-> <<fix1, fix2>>, polar |-> polar, old |-> old]

\* Black holes with poles; the same between fixed or reflecting edges; boxes
MCDecks ==
    {Deck(2, Open, Neither, Reflecting, Neither, TRUE, FALSE),
     Deck(3, Ends("outflow", "dirichlet"), Ends(FALSE, TRUE), Reflecting, Neither, TRUE, FALSE),
     Deck(2, Fixed, Both, Reflecting, Neither, TRUE, FALSE),
     Deck(2, Reflecting, Both, Reflecting, Neither, TRUE, TRUE),
     Deck(2, Fixed, Both, Fixed, Both, FALSE, FALSE),
     Deck(3, Fixed, Both, Fixed, Both, FALSE, FALSE),
     Deck(2, Around, Neither, Around, Neither, FALSE, FALSE)}

MCBlocks == 1 .. 2
=============================================================================
