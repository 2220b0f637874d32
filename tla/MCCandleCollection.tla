------------------------- MODULE MCCandleCollection -------------------------
(***************************************************************************)
(* CandleCollection for an instrument of MEXC and one of another venue.    *)
(***************************************************************************)
EXTENDS CandleCollection

CONSTANTS mexcPerp, otherPerp, mexc, other

MCInstrument == {mexcPerp, otherPerp}
MCOneInstrument == {mexcPerp}
MCVenue == {mexc, other}
MCVenueOf == [i \in Instrument |-> IF i = mexcPerp THEN mexc ELSE other]
MCScaled == {mexc}
MCBucket == {0, 2}
MCOneBucket == {0}
MCSymmetry == Permutations(Terms)
=============================================================================
