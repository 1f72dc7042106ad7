---------------------------- MODULE MCLiveTrace ----------------------------
(* LiveTrace for TLC: three spans, and one browser, as browsers share nothing *)
(* but the tracer.                                                            *)
EXTENDS LiveTrace
CONSTANTS s1, s2, s3, b1
=============================================================================
