------------------------------- MODULE MCLabels -------------------------------
(* Every series of up to four labels from four names, one empty, one         *)
(* __name__, one invalid and one a prefix of another, and three values, one  *)
(* empty and one too long; one label more than is allowed.                   *)
EXTENDS Labels

MCMetricNameLabel == << 1 >>
MCNames == { << >>, MCMetricNameLabel, << 1, 1 >>, << 2 >> }
MCLabelNames == { MCMetricNameLabel, << 1, 1 >> }
MCValues == { << >>, << 1 >>, << 1, 1 >> }
MCMetricNames == { << 1 >> }

\* For strings with a NUL in them.
NULNames == { MCMetricNameLabel, << 2 >>, << 3 >> }
NULValues == { << 1 >>, << 1, 0, 3, 0, 1 >> }
==============================================================================
