------------------------- MODULE MCTelemetryExport -------------------------
(* TelemetryExport over a few interchangeable records. *)
EXTENDS TelemetryExport

Interchangeable == Permutations(Records)
=============================================================================
