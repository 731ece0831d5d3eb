------------------------ MODULE MCOperationController ------------------------
(* OperationController for TLC: the requests and the exclusive task are     *)
(* model values of Operation.cfg.                                           *)
EXTENDS OperationController
=============================================================================
