---------------------------- MODULE MCWorkerPool ----------------------------
(***************************************************************************)
(* Instances of WorkerPool for TLC: four requests for three events, so     *)
(* that one event is asked for twice and there is one request more than    *)
(* workers.                                                                *)
(***************************************************************************)
EXTENDS WorkerPool

CONSTANTS e1, e2, e3

MCEvents == {e1, e2, e3}
MCRequested == <<e1, e2, e1, e3>>
=============================================================================
