--------------------------- MODULE MCSampleCapture ---------------------------
(* Two workers and two identities, batches of up to two floats, a rate of   *)
(* one attempt per window of two ticks, a budget of three attempts and a    *)
(* session that ends one tick into its third window: every reason to skip   *)
(* a sample occurs, and a reading may be presented a window late.           *)
EXTENDS SampleCapture

MCSeries == { [hists |-> 0, floats |-> 2, long |-> FALSE],
              [hists |-> 2, floats |-> 1, long |-> TRUE] }
==============================================================================
