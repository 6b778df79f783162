--------------------------- MODULE MCReferenceChain ---------------------------
(* The requests of others in the runs of ReferenceChain.                   *)
EXTENDS ReferenceChain

SomeOfEach == {[kind |-> "Sampled", start |-> 0, duration |-> 0],
               [kind |-> "Sampled", start |-> 4, duration |-> 1]}
AnalyticOnly == {[kind |-> "Analytic", start |-> 0, duration |-> 1]}
=============================================================================
