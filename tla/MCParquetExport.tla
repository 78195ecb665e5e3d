-------------------------- MODULE MCParquetExport --------------------------
(* Small instances of ParquetExport for TLC.                               *)
EXTENDS ParquetExport
=============================================================================
