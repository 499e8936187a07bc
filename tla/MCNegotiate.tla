----------------------------- MODULE MCNegotiate -----------------------------
(* The instances of Negotiate for TLC: three capabilities, two of which fit *)
(* in one request.                                                          *)
EXTENDS Negotiate

MCCaps == {"sasl", "tags", "away"}
=============================================================================
