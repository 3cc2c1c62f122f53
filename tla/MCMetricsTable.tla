--------------------------- MODULE MCMetricsTable ---------------------------
(* TLC instances of MetricsTable.                                          *)
EXTENDS MetricsTable
=============================================================================
