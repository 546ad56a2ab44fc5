---------------------------- MODULE MCExportJobs ----------------------------
(***************************************************************************)
(* Small instances of ExportJobs for TLC.                                  *)
(***************************************************************************)
EXTENDS ExportJobs, TLC

\* Workers are interchangeable; used by runs that check no liveness property.
InterchangeableWorkers == Permutations(Workers)
=============================================================================
