-------------------------- MODULE MCCKMSQuantiles --------------------------
(* The instances of CKMSQuantiles that TLC checks. *)
EXTENDS CKMSQuantiles

\* The median and the greatest with an error, two quartiles with errors that stay
\* below 1, and three quartiles without one.
MCTargets ==
  {{[quantile |-> 2, error |-> 1], [quantile |-> 4, error |-> 1]},
   {[quantile |-> 1, error |-> 1], [quantile |-> 3, error |-> 1]},
   {[quantile |-> 1, error |-> 0], [quantile |-> 2, error |-> 0], [quantile |-> 3, error |-> 0]}}

\* The median with 10 percent error, the example of the documentation.
MCMedian == {{[quantile |-> 5, error |-> 1]}}
=============================================================================
