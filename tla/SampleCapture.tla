---------------------------- MODULE SampleCapture ----------------------------
(***************************************************************************)
(* The bounded capture session of internal/inspector/capture.go.           *)
(* Concurrent inspections share one limiter, the budget of log attempts,   *)
(* behind a mutex, and a ledger of counters per identity.  Each worker is  *)
(* a request handler that runs inspect on one matching series at a time;   *)
(* a step is one thing the other workers, or a scrape, can see.            *)
(***************************************************************************)
EXTENDS Integers, FiniteSets, Functions

CONSTANTS
  Workers,        \* the goroutines that inspect requests
  Identities,     \* identity label values of the requests
  Rate,           \* cfg.Rate: attempts per window
  MaxSamples,     \* cfg.MaxSamples: attempts per session
  Duration,       \* cfg.Duration, in ticks: the session starts at 0
  Second,         \* ticks of the clock per second
  Series,         \* the matching series: how many histograms and floats they
                  \* carry, and whether their labels exceed cfg.LabelBytes
  MaxInspections, \* bound of the model: series inspected
  MaxTime         \* bound of the model: the clock stops here

\* newSampleCapture refuses any other configuration.
ASSUME BudgetAssumption ==
  /\ Rate \in Nat \ {0} /\ MaxSamples \in Nat \ {0} /\ Duration \in Nat \ {0}
ASSUME ClockAssumption == Second \in Nat \ {0} /\ MaxTime \in Nat
ASSUME SeriesAssumption ==
  Series \subseteq [hists : Nat, floats : Nat, long : BOOLEAN]
ASSUME InspectionsAssumption == MaxInspections \in Nat
ASSUME FiniteAssumption == IsFiniteSet(Workers) /\ IsFiniteSet(Identities)

VARIABLES
  now,        \* the clock
  limiter,    \* attempts, windowStart and windowCount, guarded by mu
  matched,    \* capture_matched_samples_total, by identity and sample type
  captured,   \* capture_captured_samples_total, by identity (floats only)
  skipped,    \* capture_skipped_samples_total, by identity and reason
  truncated,  \* capture_truncated_samples_total, by identity
  worker,     \* where each worker is in inspect, and its local variables
  started     \* the number of inspections begun

ledger == << matched, captured, skipped, truncated >>
vars == << now, limiter, matched, captured, skipped, truncated, worker, started >>

FloatReasons ==
  {"duration_limit", "sample_limit", "rate_limit", "log_disabled", "log_error"}
Reasons == FloatReasons \cup {"unsupported_sample_type"}
SampleTypes == {"float", "histogram"}

\* Slip of Permanent: a batch is given up at any refusal of the limiter.
PermanentWithRate == {"duration_limit", "sample_limit", "rate_limit"}

\* What cannot come back within the session.
Permanent == {"duration_limit", "sample_limit"}

Idle == [pc |-> "idle"]

Init ==
  /\ now = 0
  /\ limiter = [attempts |-> 0, windowStart |-> 0, windowCount |-> 0]
  /\ matched = [i \in Identities |-> [t \in SampleTypes |-> 0]]
  /\ captured = [i \in Identities |-> 0]
  /\ skipped = [i \in Identities |-> [r \in Reasons |-> 0]]
  /\ truncated = [i \in Identities |-> 0]
  /\ worker = [w \in Workers |-> Idle]
  /\ started = 0

------------------------------------------------------------------------------
(* reserve, under the mutex: the reading t of the clock was taken before.   *)

\* Slip of Rolled: the window moves to any other reading, an older one too.
RolledAnywhere(lim, t) ==
  IF t >= lim.windowStart + Second \/ t < lim.windowStart
  THEN [lim EXCEPT !.windowStart = t, !.windowCount = 0]
  ELSE lim

Rolled(lim, t) ==
  IF t >= lim.windowStart + Second
  THEN [lim EXCEPT !.windowStart = t, !.windowCount = 0]
  ELSE lim

\* Slip of Refusal: one attempt more than the rate.
RefusalOffByOne(lim, t) ==
  CASE t >= Duration -> "duration_limit"
    [] t < Duration /\ lim.attempts >= MaxSamples -> "sample_limit"
    [] OTHER -> IF Rolled(lim, t).windowCount > Rate THEN "rate_limit" ELSE "none"

Refusal(lim, t) ==
  CASE t >= Duration -> "duration_limit"
    [] t < Duration /\ lim.attempts >= MaxSamples -> "sample_limit"
    [] OTHER -> IF Rolled(lim, t).windowCount >= Rate THEN "rate_limit" ELSE "none"

\* Slip of Reserved: a new window starts with the whole budget of the session.
ReservedRenewsBudget(lim, t) ==
  CASE Refusal(lim, t) \in Permanent -> lim
    [] Refusal(lim, t) = "rate_limit" -> Rolled(lim, t)
    [] OTHER -> [Rolled(lim, t) EXCEPT !.windowCount = @ + 1,
                   !.attempts = IF t >= lim.windowStart + Second THEN 1 ELSE @ + 1]

\* The limiter reserve leaves behind: a refused attempt may still have moved
\* the window.
Reserved(lim, t) ==
  CASE Refusal(lim, t) \in Permanent -> lim
    [] Refusal(lim, t) = "rate_limit" -> Rolled(lim, t)
    [] OTHER -> [Rolled(lim, t) EXCEPT !.windowCount = @ + 1, !.attempts = @ + 1]

------------------------------------------------------------------------------
(* inspect, for a series whose raw labels match the selector; for the rest  *)
(* it changes nothing.                                                      *)

Goto(w, pc) == worker' = [worker EXCEPT ![w].pc = pc]

Inspect(w, i, s) ==
  /\ worker[w] = Idle
  /\ started < MaxInspections
  /\ started' = started + 1
  /\ worker' = [worker EXCEPT ![w] =
       [ pc |-> IF s.hists > 0 THEN "match_histograms" ELSE "match_floats",
         id |-> i, hists |-> s.hists, floats |-> s.floats, long |-> s.long,
         clock |-> 0, reason |-> "none" ]]
  /\ UNCHANGED << now, limiter, ledger >>

MatchHistograms(w) ==
  /\ worker[w].pc = "match_histograms"
  /\ matched' = [matched EXCEPT ![worker[w].id].histogram = @ + worker[w].hists]
  /\ Goto(w, "skip_histograms")
  /\ UNCHANGED << now, limiter, captured, skipped, truncated, started >>

SkipHistograms(w) ==
  /\ worker[w].pc = "skip_histograms"
  /\ skipped' = [skipped EXCEPT ![worker[w].id].unsupported_sample_type =
                   @ + worker[w].hists]
  /\ worker' = [worker EXCEPT ![w].pc = "match_floats", ![w].hists = 0]
  /\ UNCHANGED << now, limiter, matched, captured, truncated, started >>

\* The whole batch of floats is counted before the first is looked at.
MatchFloats(w) ==
  /\ worker[w].pc = "match_floats"
  /\ matched' = [matched EXCEPT ![worker[w].id].float = @ + worker[w].floats]
  /\ worker' = [worker EXCEPT ![w] =
                  IF worker[w].floats = 0 THEN Idle
                  ELSE [worker[w] EXCEPT !.pc = "read_clock"]]
  /\ UNCHANGED << now, limiter, captured, skipped, truncated, started >>

\* The clock is read outside the mutex.
ReadClock(w) ==
  /\ worker[w].pc = "read_clock"
  /\ worker' = [worker EXCEPT ![w].pc = "reserve", ![w].clock = now]
  /\ UNCHANGED << now, limiter, ledger, started >>

Reserve(w) ==
  /\ worker[w].pc = "reserve"
  /\ limiter' = Reserved(limiter, worker[w].clock)
  /\ LET reason == Refusal(limiter, worker[w].clock) IN
     worker' = [worker EXCEPT ![w].reason = reason,
                              ![w].pc = IF reason = "none" THEN "log" ELSE "skip"]
  /\ UNCHANGED << now, ledger, started >>

\* The handler is disabled, fails, or takes the record.
Log(w, outcome) ==
  /\ worker[w].pc = "log"
  /\ worker' = [worker EXCEPT ![w].reason = outcome,
                              ![w].pc = IF outcome = "none" THEN "capture" ELSE "skip"]
  /\ UNCHANGED << now, limiter, ledger, started >>

\* On to the next float of the batch, if there is one.
NextFloat(w) ==
  worker' = [worker EXCEPT ![w] =
    IF worker[w].floats = 1
    THEN Idle
    ELSE [worker[w] EXCEPT !.pc = "read_clock", !.floats = @ - 1, !.reason = "none"]]

\* Slip of Skip: the rest of the batch is given up, and only this one counted.
SkipForgetsRest(w) ==
  /\ worker[w].pc = "skip"
  /\ skipped' = [skipped EXCEPT ![worker[w].id][worker[w].reason] = @ + 1]
  /\ IF worker[w].reason \in Permanent
     THEN worker' = [worker EXCEPT ![w] = Idle]
     ELSE NextFloat(w)
  /\ UNCHANGED << now, limiter, matched, captured, truncated, started >>

\* A refusal for good accounts for the rest of the batch and returns; any other
\* for one float.
Skip(w) ==
  /\ worker[w].pc = "skip"
  /\ IF worker[w].reason \in Permanent
     THEN /\ skipped' = [skipped EXCEPT ![worker[w].id][worker[w].reason] =
                           @ + worker[w].floats]
          /\ worker' = [worker EXCEPT ![w] = Idle]
     ELSE /\ skipped' = [skipped EXCEPT ![worker[w].id][worker[w].reason] = @ + 1]
          /\ NextFloat(w)
  /\ UNCHANGED << now, limiter, matched, captured, truncated, started >>

Capture(w) ==
  /\ worker[w].pc = "capture"
  /\ captured' = [captured EXCEPT ![worker[w].id] = @ + 1]
  /\ IF worker[w].long THEN Goto(w, "truncate") ELSE NextFloat(w)
  /\ UNCHANGED << now, limiter, matched, skipped, truncated, started >>

Truncate(w) ==
  /\ worker[w].pc = "truncate"
  /\ truncated' = [truncated EXCEPT ![worker[w].id] = @ + 1]
  /\ NextFloat(w)
  /\ UNCHANGED << now, limiter, matched, captured, skipped, started >>

Tick ==
  /\ now < MaxTime
  /\ now' = now + 1
  /\ UNCHANGED << limiter, ledger, worker, started >>

Outcomes == {"none", "log_disabled", "log_error"}

\* A step of inspect itself, once it has begun.
Work(w) ==
  \/ MatchHistograms(w)
  \/ SkipHistograms(w)
  \/ MatchFloats(w)
  \/ ReadClock(w)
  \/ Reserve(w)
  \/ \E outcome \in Outcomes : Log(w, outcome)
  \/ Skip(w)
  \/ Capture(w)
  \/ Truncate(w)

Next ==
  \/ \E w \in Workers, i \in Identities, s \in Series : Inspect(w, i, s)
  \/ \E w \in Workers : Work(w)
  \/ Tick

Spec == Init /\ [][Next]_vars

------------------------------------------------------------------------------
(* Types.                                                                   *)

PCs == {"match_histograms", "skip_histograms", "match_floats", "read_clock",
        "reserve", "log", "skip", "capture", "truncate"}

Busy == [pc : PCs, id : Identities, hists : Nat, floats : Nat, long : BOOLEAN,
         clock : Nat, reason : Reasons \cup {"none"}]

\* The type invariant.
TypeOK ==
  /\ now \in Nat
  /\ limiter \in [attempts : 0..MaxSamples, windowStart : Nat, windowCount : 0..Rate]
  /\ matched \in [Identities -> [SampleTypes -> Nat]]
  /\ captured \in [Identities -> Nat]
  /\ skipped \in [Identities -> [Reasons -> Nat]]
  /\ truncated \in [Identities -> Nat]
  /\ worker \in [Workers -> Busy \cup {Idle}]
  /\ started \in Nat

------------------------------------------------------------------------------
(* Safety.                                                                  *)

SkippedOver(i, R) == SumFunctionOnSet(skipped[i], R)

\* The floats a worker has matched, and neither captured nor skipped.
Pending(w) ==
  CASE worker[w].pc \in {"read_clock", "reserve", "log", "skip", "capture"} -> worker[w].floats
    [] worker[w].pc = "truncate" -> worker[w].floats - 1
    [] OTHER -> 0

Inspecting(i) == {w \in Workers : worker[w] # Idle /\ worker[w].id = i}
InspectingAt(i, pc) == {w \in Inspecting(i) : worker[w].pc = pc}

PendingFloats(i) == [w \in Workers |-> IF w \in Inspecting(i) THEN Pending(w) ELSE 0]
PendingHists(i) ==
  [w \in Workers |-> IF w \in InspectingAt(i, "skip_histograms") THEN worker[w].hists ELSE 0]

\* README, Bounded Sample Capture: for completed inspections matched samples equal captured
\* plus skipped samples per identity and sample type, although a refusal for good returns from
\* inspect with most of a batch unvisited.  At any other moment a scrape sees what
\* handlers are still at missing, and on one side only: nothing is captured or
\* skipped before it is matched, nor truncated before it is captured.
LedgerBalanced ==
  \A i \in Identities :
    /\ matched[i].float = captured[i] + SkippedOver(i, FloatReasons)
                           + SumFunction(PendingFloats(i))
    /\ matched[i].histogram = skipped[i].unsupported_sample_type + SumFunction(PendingHists(i))
    /\ truncated[i] + Cardinality(InspectingAt(i, "truncate")) <= captured[i]

\* A worker that holds a reservation it has not accounted for yet.
HoldsAttempt(w) ==
  \/ worker[w].pc \in {"log", "capture"}
  \/ worker[w].pc = "skip" /\ worker[w].reason \in {"log_disabled", "log_error"}

\* Failed and disabled log writes consume an attempt too, and no attempt is made
\* without one: what was handed over, what failed and what is being logged
\* add up to the attempts, across identities and requests.
AttemptsAccounted ==
  limiter.attempts =
      SumFunction([i \in Identities |-> captured[i] + SkippedOver(i, {"log_disabled", "log_error"})])
    + Cardinality({w \in Workers : HoldsAttempt(w)})

\* However late the workers present the readings they took outside the mutex,
\* the session never makes more attempts than Rate for each second begun.
RateEnvelope ==
  limiter.attempts <= Rate * (now \div Second + 1)

\* A refusal that gives up the rest of the batch gives up nothing: whatever the
\* clock would have read for a later sample of it, the limiter as it is now, or
\* as the other workers have left it since, refuses for good.
GivesUpOnlyTheRefused ==
  \A w \in Workers :
    worker[w].pc = "skip" /\ worker[w].reason \in Permanent =>
      \A t \in worker[w].clock..MaxTime : Refusal(limiter, t) \in Permanent

==============================================================================
