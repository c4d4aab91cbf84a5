----------------------------- MODULE MCDataSeries -----------------------------
(* A small instance of DataSeries: two readers, windows of one to three.   *)
EXTENDS DataSeries
===============================================================================
