----------------------------- MODULE MCJobPipeline -----------------------------
(* A small instance of JobPipeline for TLC.                                *)
EXTENDS JobPipeline, TLC

(* A new request on its way to a slot, or a run that is queued.       *)
MCStarts ==
    {[new |-> Aggregates, queued |-> {}], [new |-> {}, queued |-> Runs]}
=============================================================================
