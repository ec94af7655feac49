--------------------------- MODULE MCCandleSeries ---------------------------
(* Small instances of CandleSeries for TLC.                                *)
EXTENDS CandleSeries
=============================================================================
