--------------------------- MODULE MCMarketWrites ---------------------------
(***************************************************************************)
(* MarketWrites for an instrument of MEXC that has two definitions, with   *)
(* two multipliers.                                                        *)
(***************************************************************************)
EXTENDS MarketWrites

CONSTANTS perp, mexc, t1, t2

MCVenueOf == [i \in Instrument |-> mexc]
MCMultiplier == [t \in Terms |-> IF t = t2 THEN 10 ELSE 1]
=============================================================================
