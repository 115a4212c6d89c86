--------------------------- MODULE MCDwrrService ---------------------------
(* DwrrService for the model checker, with the values of MCDwrrQdisc. *)
EXTENDS DwrrService, MCDwrrQdisc
=============================================================================
