----------------------------- MODULE MCInspection -----------------------------
(* Two workers, two tenants and two paths, one series, caches of three       *)
(* entries in two shards.  The requests offer one timestamp with different   *)
(* values, under the same and under different tenants, and a path that       *)
(* collides; the clock runs long enough for an entry to expire and its       *)
(* sample to become stale.  The identity of one request is not UTF-8: its    *)
(* values and its path can be the first, or panic over the report.           *)
EXTENDS Inspection

CONSTANTS t1, t2, p1, p2, s1, v1, v2

TS(floats, hists) ==
  [series |-> s1, malformed |-> FALSE, diagnostic |-> FALSE, samples |-> floats, hists |-> hists]

At(ts, v) == [ts |-> ts, value |-> v]

Req(tenant, path, writer, timeseries) ==
  [ tenant |-> tenant, path |-> path, writer |-> writer, timeseries |-> timeseries,
    valid |-> TRUE ]

MCRequests ==
  { Req(t1, p1, "unconfigured", << TS(<< At(1, v1) >>, << >>) >>),
    Req(t1, Unknown, "known",
        << TS(<< At(1, v2) >>, << >>), [TS(<< At(2, v1) >>, << 3 >>) EXCEPT !.malformed = TRUE] >>),
    Req(t2, p1, "unknown", << [TS(<< At(1, v2) >>, << >>) EXCEPT !.diagnostic = TRUE] >>),
    [Req(t1, p2, "known", << TS(<< At(2, v2), At(1, v2) >>, << >>) >>) EXCEPT !.valid = FALSE],
    Req(t2, p2, "known", << >>) }

MCSampleHash == [k \in SampleKeys |-> k.ts]
MCPathHash == [k \in PathKeys |-> IF k.tenant = t1 THEN 0 ELSE 1]

Symmetry == Permutations(Workers)
==============================================================================
